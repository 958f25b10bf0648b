------------------------------ MODULE TeamSpec ------------------------------
(***************************************************************************)
(* The specification (.spec) of one AgentTeam, as far as the controller's  *)
(* decisions depend on it, and the pure functions the controller computes  *)
(* from it: who waits for whom, who waits for which approval, and how the  *)
(* phases of the teammates are rolled up into the phases of the pipeline's *)
(* stages.                                                                 *)
(***************************************************************************)
EXTENDS Integers, Sequences, FiniteSets

CONSTANTS
  Order,         \* spec.teammates: the names, in the order they are listed
  DependsOn,     \* spec.teammates[t].dependsOn, a set of agent names
  InputsFrom,    \* {spec.teammates[t].inputs[].from}, a set of agent names
  Producers,     \* the teammates that declare outputs
  Stages,        \* spec.pipeline.stages; <<>> when there is no pipeline
  Gates,         \* teammates with an approval gate for the event spawn-<t>
  MaxRestarts,   \* spec.lifecycle.maxRestarts
  Timeout,       \* spec.lifecycle.timeout, in ticks of the model's clock, or NoTimeout
  Rate,          \* estimated cost of the whole team per tick
  BudgetLimit,   \* spec.lifecycle.budgetLimit; 0 when there is none
  OnComplete,    \* spec.lifecycle.onComplete
  Coding,        \* spec.repository.url is set
  HasOutput      \* spec.workspace.output is set

Teammates == {Order[i] : i \in DOMAIN Order}
Agents == {"lead"} \cup Teammates

(* The API asks for at least one teammate. That the names are distinct, and
   that none is "lead", is assumed: pods are named after them, and only the
   validation of templates rejects duplicates. *)
ASSUME OrderAssumption ==
  /\ Order \in Seq(STRING)
  /\ Len(Order) >= 1
  /\ \A i, j \in DOMAIN Order : Order[i] = Order[j] => i = j
  /\ "lead" \notin Teammates

ASSUME GraphAssumption ==
  /\ DependsOn \in [Teammates -> SUBSET STRING]
  /\ InputsFrom \in [Teammates -> SUBSET STRING]
  /\ Producers \subseteq Teammates
  /\ Gates \subseteq Teammates

ASSUME StagesAssumption ==
  Stages \in Seq([name : STRING, teammates : SUBSET STRING,
                  dependsOn : SUBSET STRING, approvalRequired : BOOLEAN])

(* A spec.lifecycle.timeout that does not parse as a duration: no limit. *)
NoTimeout == -1

ASSUME LifecycleAssumption ==
  /\ MaxRestarts \in Nat
  /\ Timeout \in Nat \cup {NoTimeout}
  /\ Rate \in Nat
  /\ BudgetLimit \in Nat
  /\ OnComplete \in {"none", "notify", "create-pr", "push-branch", "deliver"}
  /\ Coding \in BOOLEAN
  /\ HasOutput \in BOOLEAN

-----------------------------------------------------------------------------
(* Dependency graph. *)

Smallest(S) == CHOOSE i \in S : \A j \in S : i <= j
Largest(S) == CHOOSE i \in S : \A j \in S : i >= j

StagesOf(t) == {i \in DOMAIN Stages : t \in Stages[i].teammates}
InStage(t) == StagesOf(t) # {}

(* What the API's documentation asks of a pipeline and nothing validates: a
   stage's name is unique, a teammate is in one stage, by a teammate's name. *)
WellFormedPipeline ==
  /\ \A i, j \in DOMAIN Stages : Stages[i].name = Stages[j].name => i = j
  /\ \A i, j \in DOMAIN Stages : Stages[i].teammates \cap Stages[j].teammates # {} => i = j
  /\ \A i \in DOMAIN Stages : "" \notin Stages[i].teammates

(* Its dependsOn "names earlier stages". *)
UpstreamListedFirst ==
  \A i \in DOMAIN Stages : \A d \in Stages[i].dependsOn :
    \E j \in 1..(i - 1) : Stages[j].name = d

(* The first stage that lists the teammate. *)
StageForTeammate(t) == Stages[Smallest(StagesOf(t))]

(* The index by name that pipelineDependencies builds keeps the last stage
   of a name; a name that no stage has is skipped. *)
StagesNamed(n) == {i \in DOMAIN Stages : Stages[i].name = n}

PipelineDependencies(t) ==
  IF InStage(t)
    THEN UNION {Stages[Largest(StagesNamed(n))].teammates :
                  n \in {d \in StageForTeammate(t).dependsOn : StagesNamed(d) # {}}}
    ELSE {}

(* Mutant: the pipeline's graph is forgotten. *)
EffectiveDependenciesNoPipeline(t) == (DependsOn[t] \cup InputsFrom[t]) \ {""}

(* Empty names are dropped; the result is used as a set. *)
EffectiveDependencies(t) ==
  ((IF Stages # <<>> THEN PipelineDependencies(t) ELSE DependsOn[t])
      \cup InputsFrom[t]) \ {""}

-----------------------------------------------------------------------------
(* Approvals. An approval is the suffix of the annotation's key
   approved.kagents.dev/..., as a pair of its kind and its name. *)

NoApproval == <<>>
StageApproval(s) == <<"stage", s.name>>
SpawnApproval(t) == <<"spawn", t>>

Approvals ==
  {SpawnApproval(t) : t \in Gates}
    \cup {StageApproval(Stages[i]) : i \in {j \in DOMAIN Stages : Stages[j].approvalRequired}}

StageApprovalGranted(s, approved) ==
  s.approvalRequired => StageApproval(s) \in approved

CheckApprovalGate(t, approved) == t \in Gates => SpawnApproval(t) \in approved

(* The approvals a teammate needs before its pod may exist. *)
NeededApprovals(t) ==
  {x \in Approvals :
     \/ t \in Gates /\ x = SpawnApproval(t)
     \/ /\ InStage(t) /\ StageForTeammate(t).approvalRequired
        /\ x = StageApproval(StageForTeammate(t))}

(* Mutant: the stage's gate is not consulted. *)
WaitsForSpawnOnly(t, approved) ==
  IF ~CheckApprovalGate(t, approved) THEN SpawnApproval(t) ELSE NoApproval

(* The approval the spawn loops record as pending, or NoApproval. *)
WaitsFor(t, approved) ==
  IF InStage(t) /\ ~StageApprovalGranted(StageForTeammate(t), approved)
    THEN StageApproval(StageForTeammate(t))
  ELSE IF ~CheckApprovalGate(t, approved)
    THEN SpawnApproval(t)
  ELSE NoApproval

-----------------------------------------------------------------------------
(* Pipeline status, computed from the teammates' phases. A stage's status
   keeps whether StartedAt and CompletedAt have been stamped. *)

StagePhases == {"", "Waiting", "PendingApproval", "Running", "Completed", "Failed"}
NoStageStatus == [phase |-> "", started |-> FALSE, completed |-> FALSE]
StageStatus == [phase : StagePhases, started : BOOLEAN, completed : BOOLEAN]

PhaseIn(s, phases, P) == {t \in s.teammates : t \in DOMAIN phases /\ phases[t] \in P}

(* Mutant: a running teammate counts as ready, as it does in status.ready. *)
StageDoneOrRunning(s, phases) ==
  PhaseIn(s, phases, {"Completed", "Running"}) = s.teammates

StageDone(s, phases) ==
  /\ PhaseIn(s, phases, {"Failed"}) = {}
  /\ PhaseIn(s, phases, {"Completed"}) = s.teammates
  /\ s.teammates # {}

(* Mutant: the stage just before is not looked at. *)
UpstreamReadyShort(i, phases) ==
  \A d \in Stages[i].dependsOn :
    \E j \in 1..(i - 2) : Stages[j].name = d /\ StageDone(Stages[j], phases)

(* stageCompleted while stage i is computed: the stages listed before it. *)
UpstreamReady(i, phases) ==
  \A d \in Stages[i].dependsOn :
    \E j \in 1..(i - 1) : Stages[j].name = d /\ StageDone(Stages[j], phases)

StagePhase(i, phases, approved) ==
  LET s == Stages[i] IN
  CASE PhaseIn(s, phases, {"Failed"}) # {} -> "Failed"
    [] StageDone(s, phases) -> "Completed"
    [] OTHER ->
        IF ~UpstreamReady(i, phases) THEN "Waiting"
        ELSE IF ~StageApprovalGranted(s, approved) THEN "PendingApproval"
        ELSE IF PhaseIn(s, phases, {"Completed", "Failed", "Running"}) # {} THEN "Running"
        ELSE "Waiting"

UpdatePipelineStatus(prev, phases, approved) ==
  [i \in DOMAIN Stages |->
     LET p == StagePhase(i, phases, approved) IN
     [phase |-> p,
      started |-> prev[i].started \/ p = "Running",
      completed |-> prev[i].completed \/ p = "Completed"]]

-----------------------------------------------------------------------------
(* Budget and timeout, from the time elapsed since StartedAt. *)

Cost(elapsed) == Rate * elapsed
OverBudget(elapsed) == BudgetLimit > 0 /\ Cost(elapsed) >= BudgetLimit
OverWarning(elapsed) == BudgetLimit > 0 /\ 5 * Cost(elapsed) >= 4 * BudgetLimit

(* Both onComplete modes that publish a branch need a repository. *)
NeedsPush == OnComplete \in {"push-branch", "create-pr"} /\ Coding
=============================================================================
