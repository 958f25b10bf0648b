--------------------------- MODULE TeamLifecycle ----------------------------
(***************************************************************************)
(* What the operator promises about one team, without caches, passes or   *)
(* resource versions: phases follow the lifecycle, an agent runs only when *)
(* those it depends on have succeeded and its approvals are given, and a   *)
(* team is Completed only when every agent has succeeded.                  *)
(***************************************************************************)
CONSTANTS
  Agents,      \* lead and teammates
  Needs,       \* Needs[a]: the agents that must succeed before a starts
  Approval,    \* Approval[a]: the approvals a needs
  Approvals    \* all approvals

VARIABLES
  phase,       \* the team's phase
  live,        \* agents that have a pod
  done,        \* agents that have succeeded
  approved     \* approvals given so far

lifecycleVars == <<phase, live, done, approved>>

Ended == {"Completed", "Failed", "TimedOut", "BudgetExceeded"}

Edges ==
  {<<"Pending", "Initializing">>}
    \cup {<<"Initializing", p>> : p \in {"Running", "TimedOut", "Failed"}}
    \cup {<<"Running", p>> : p \in Ended}

Init ==
  /\ phase = "Pending"
  /\ live = {} /\ done = {} /\ approved = {}

Move(p) ==
  /\ <<phase, p>> \in Edges
  /\ p = "Completed" => done = Agents
  /\ phase' = p
  /\ UNCHANGED <<live, done, approved>>

(* The first pod of an agent, or another one after a removal. *)
Start(a) ==
  /\ a \notin live
  /\ Needs[a] \subseteq done
  /\ Approval[a] \subseteq approved
  /\ phase # "Pending"
  /\ live' = live \cup {a}
  /\ UNCHANGED <<phase, done, approved>>

Stop(a) ==
  /\ a \in live
  /\ live' = live \ {a}
  /\ UNCHANGED <<phase, done, approved>>

Succeed(a) ==
  /\ a \in live
  /\ done' = done \cup {a}
  /\ UNCHANGED <<phase, live, approved>>

Grant(x) ==
  /\ approved' = approved \cup {x}
  /\ UNCHANGED <<phase, live, done>>

Next ==
  \/ \E p \in Ended \cup {"Initializing", "Running"} : Move(p)
  \/ \E a \in Agents : Start(a) \/ Stop(a) \/ Succeed(a)
  \/ \E x \in Approvals : Grant(x)

Spec == Init /\ [][Next]_lifecycleVars
=============================================================================
