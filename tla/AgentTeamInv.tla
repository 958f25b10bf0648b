---------------------------- MODULE AgentTeamInv ----------------------------
(***************************************************************************)
(* The inductive invariant of AgentTeam: what ties the lagging copies of   *)
(* the team, the pods and the Jobs to the API server's state, and the step *)
(* a pass is at to the copy of the team it works on.                       *)
(***************************************************************************)
EXTENDS AgentTeam

(* Who may have a pod.                                                     *)

(* A pass in one of the loops over the teammates is at one of them. *)
LoopBounds == pc \in {"deploy", "failures", "respawn", "spawn"} => idx \in 1..Len(Order)

(* Approvals that a copy of the team shows have been given. *)
ApprovalsTrue ==
  cachedTeam.approved \subseteq team.approved /\ local.approved \subseteq team.approved

(* Success is remembered; whoever has, or seems to have, a pod was ready. *)
Ready(t) == EffectiveDependencies(t) \subseteq succeeded /\ NeededApprovals(t) \subseteq team.approved
PodHistory ==
  /\ \A a \in Agents : pods[a] = "Succeeded" \/ cachedPods[a] = "Succeeded" => a \in succeeded
  /\ \A t \in Teammates : pods[t] # "None" \/ cachedPods[t] # "None" => Ready(t)
  /\ pc = "respawn" => Ready(Order[idx])

OrderInv == TypeOK /\ LoopBounds /\ ApprovalsTrue /\ PodHistory

-----------------------------------------------------------------------------
(* What an update may write.                                               *)

(* A resource version identifies the object's content. *)
CacheCurrent == cacheFresh => cachedTeam = team

(* StartedAt is stamped when Pending is left, and not before. *)
Unstarted == \A st \in {team, cachedTeam, local} : st.phase = "Pending" => st.startedAt = NotYet

(* The phase of the copy a pass works on fits the handler it is in. *)
FinishingSteps == {"pushJob", "pushCheck", "onComplete"}
RunningSteps == {"failures", "respawn", "spawn", "complete"} \cup FinishingSteps
HandlerPhase ==
  /\ pc = "idle" => ~localFresh
  /\ pc = "provision" => local.phase = "Pending"
  /\ pc \in {"lead", "deploy", "announce"} => local.phase = "Initializing"
  /\ pc \in RunningSteps => local.phase = "Running"
  /\ pc = "errors" => local.phase = "Failed"
  /\ pc = "stop" => local.phase \in {"TimedOut", "BudgetExceeded"}
  /\ pc = "cleanup" => local.phase \in Terminal

(* A pass that would win the update works on the current status: it extends
   it, and moves its phase along an edge of the lifecycle or not at all. *)
Keeps(old, new) ==
  /\ old.startedAt # NotYet => new.startedAt = old.startedAt
  /\ old.completedAt # NotYet => new.completedAt = old.completedAt
  /\ \A t \in Teammates : new.mates[t].restarts >= old.mates[t].restarts
  /\ old.artifacts \subseteq new.artifacts
  /\ old.warned => new.warned
  /\ old.branch => new.branch
  /\ old.delivered => new.delivered
LocalExtends ==
  localFresh =>
    /\ Keeps(team, local)
    /\ \/ local.phase = team.phase
       \/ pc \in {"errors", "stop", "update"} /\ <<team.phase, local.phase>> \in PhaseEdges

StatusInv == TypeOK /\ CacheCurrent /\ Unstarted /\ HandlerPhase /\ LocalExtends

-----------------------------------------------------------------------------
(* When a team is done.                                                    *)

(* True of every copy of the team, however old. *)
CopyTrue(st) ==
  /\ st.phase = "Completed" => succeeded = Agents
  /\ st.phase = "Completed" /\ NeedsPush => st.branch
  /\ st.branch => jobs["push"] = "Succeeded"
CopiesTrue == CopyTrue(team) /\ CopyTrue(cachedTeam) /\ CopyTrue(local)

(* Finalization starts once everybody has succeeded. *)
Finishing ==
  /\ pc \in FinishingSteps => succeeded = Agents
  /\ pc \in {"pushJob", "pushCheck"} => NeedsPush
  /\ pc = "onComplete" /\ NeedsPush => local.branch

JobHistory == \A j \in {"init", "push"} : cachedJobs[j] = "Succeeded" => jobs[j] = "Succeeded"

DoneInv == OrderInv /\ CopiesTrue /\ Finishing /\ JobHistory

(* A handler past Pending runs only for a team that has left Pending. *)
LeftPending ==
  /\ pc \in {"lead", "deploy", "announce"} \cup RunningSteps => team.phase # "Pending"
  /\ cachedTeam.phase # "Pending" => team.phase # "Pending"

IInv == StatusInv /\ DoneInv /\ LeftPending

-----------------------------------------------------------------------------
(* What a status records, and what has to exist before a pod.              *)

(* What the caches show as ended has ended so, and what they show as created
   exists; both last. *)
EndsTrue ==
  /\ \A a \in Agents : pods[a] = "Failed" \/ cachedPods[a] = "Failed" => a \in failed
  /\ \A j \in {"init", "push"} : cachedJobs[j] \in {"Succeeded", "Failed"} => jobs[j] = cachedJobs[j]
  /\ cachedClaims \subseteq claims

(* Every copy of the team, however old, is of a team that was provisioned when
   it left Pending, and whose init Job had succeeded when it was Running. *)
InitJobDone == Coding => jobs["init"] = "Succeeded"
CopyProvisioned(st) ==
  /\ st.phase # "Pending" => claims = Claims
  /\ st.phase = "Running" => InitJobDone

(* Every copy gives a true reason, and records only what was sent. *)
CopyRecords(st) ==
  /\ st.reason = "AgentFailed" => failed # {}
  /\ st.reason = "InitJobFailed" => jobs["init"] = "Failed"
  /\ st.reason = "RestartLimitExceeded" =>
       \E t \in Teammates : t \in failed /\ st.mates[t].restarts = MaxRestarts
  /\ st.reason = "FinalizationFailed" => NeedsPush /\ succeeded = Agents
  /\ st.phase = "BudgetExceeded" => st.warned
  /\ st.warned /\ "budget.warning" \in Counted => sent["budget.warning"] > 0
  /\ "teammate.error" \in Counted =>
       \A t \in Teammates :
         st.mates[t].restarts <= sent["teammate.error"] \/ sent["teammate.error"] = MaxCount
  /\ st.delivered /\ OnComplete = "create-pr" /\ "onComplete" \in Counted
       => sent["onComplete"] > 0

(* A provisioning pass has created what is behind it; one that deploys has seen
   the init Job succeed. *)
ProvisionedSoFar ==
  /\ pc = "provision" =>
       /\ idx <= Len(ProvisionPlan) + 1
       /\ \A i \in 1..(idx - 1) : ProvisionPlan[i] # "init-job" => ProvisionPlan[i] \in claims
  /\ pc \in {"lead", "deploy", "announce"} => InitJobDone

RecordInv ==
  /\ EndsTrue
  /\ CopyProvisioned(team) /\ CopyProvisioned(cachedTeam) /\ CopyProvisioned(local)
  /\ CopyRecords(team) /\ CopyRecords(cachedTeam) /\ CopyRecords(local)
  /\ ProvisionedSoFar /\ ProvisionedBeforePods

(* The stages that a copy of the team shows. *)
StageTrue(st) ==
  \A i \in DOMAIN Stages :
    /\ st.stages[i].phase = "Completed" => Stages[i].teammates \subseteq succeeded
    /\ st.stages[i].phase = "Running" =>
         /\ StageApprovalGranted(Stages[i], team.approved)
         /\ \A j \in DOMAIN Stages :
              Stages[j].name \in Stages[i].dependsOn => Stages[j].teammates \subseteq succeeded
StageInv == StageTrue(team) /\ StageTrue(cachedTeam) /\ StageTrue(local)
=============================================================================
