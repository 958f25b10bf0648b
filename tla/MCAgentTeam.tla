---------------------------- MODULE MCAgentTeam -----------------------------
(***************************************************************************)
(* Small teams for model checking AgentTeam.                               *)
(***************************************************************************)
EXTENDS AgentTeamInv

OneMate == <<"t1">>
TwoMates == <<"t1", "t2">>

NoNames1 == [t \in {"t1"} |-> {}]
NoNames2 == [t \in {"t1", "t2"} |-> {}]

(* t1, listed first, reads what t2 writes. *)
FirstReadsSecond == [t \in {"t1", "t2"} |-> IF t = "t1" THEN {"t2"} ELSE {}]

NoStages == <<>>

Stage(n, mates, deps, approval) ==
  [name |-> n, teammates |-> mates, dependsOn |-> deps, approvalRequired |-> approval]

(* The second stage waits for the first and for an approval. *)
GatedStages == <<Stage("build", {"t1"}, {}, FALSE), Stage("ship", {"t2"}, {"build"}, TRUE)>>

(* The same graph, listed downstream first. *)
ReversedStages == <<Stage("ship", {"t2"}, {"build"}, FALSE), Stage("build", {"t1"}, {}, FALSE)>>

(* Every pipeline here is as the API's documentation asks; the theorems about
   stages assume so. *)
ASSUME PipelineAssumption == WellFormedPipeline
=============================================================================
