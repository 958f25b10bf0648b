--------------------------- MODULE AgentTeamProofs --------------------------
(***************************************************************************)
(* Proofs about AgentTeam, for every team: any list of teammates, any      *)
(* dependency graph and pipeline, any gates, limits and faults.            *)
(***************************************************************************)
EXTENDS AgentTeamInv, WellFoundedInduction, TLAPS

(* A nonempty set of natural numbers has the least element that the choice
   of a teammate's first stage relies on. *)
LEMMA SmallestIsMember ==
  ASSUME NEW S \in SUBSET Nat, S # {}
  PROVE  Smallest(S) \in S
<1>1. \E x \in S : \A y \in S : ~(<<y, x>> \in OpToRel(<, Nat))
  BY NatLessThanWellFounded, WFMin
<1>2. PICK x \in S : \A y \in S : ~(<<y, x>> \in OpToRel(<, Nat))
  BY <1>1
<1>3. \A y \in S : x <= y
  <2>1. SUFFICES ASSUME NEW y \in S, y < x PROVE FALSE
    OBVIOUS
  <2>2. <<y, x>> \in Nat \X Nat /\ <<y, x>>[1] = y /\ <<y, x>>[2] = x
    OBVIOUS
  <2>3. <<y, x>> \in OpToRel(<, Nat)
    BY <2>1, <2>2 DEF OpToRel
  <2> QED BY <2>3, <1>2
<1> QED BY <1>3 DEF Smallest

(* stageForTeammate returns a stage of the pipeline. *)
LEMMA StageForTeammateIsStage ==
  ASSUME NEW t, InStage(t)
  PROVE  \E i \in DOMAIN Stages : StageForTeammate(t) = Stages[i]
<1>1. DOMAIN Stages \subseteq Nat
  BY StagesAssumption
<1>2. StagesOf(t) \in SUBSET Nat /\ StagesOf(t) # {}
  BY <1>1 DEF InStage, StagesOf
<1>3. Smallest(StagesOf(t)) \in StagesOf(t)
  BY <1>2, SmallestIsMember
<1> QED BY <1>3 DEF StageForTeammate, StagesOf

(* The approval a teammate is recorded to wait for is one of the team's. *)
LEMMA WaitsForType ==
  ASSUME NEW t, NEW approved
  PROVE  WaitsFor(t, approved) \in Approvals \cup {NoApproval}
<1>1. CASE InStage(t) /\ ~StageApprovalGranted(StageForTeammate(t), approved)
  BY <1>1, StageForTeammateIsStage DEF WaitsFor, StageApprovalGranted, Approvals
<1>2. CASE ~(InStage(t) /\ ~StageApprovalGranted(StageForTeammate(t), approved))
  BY <1>2 DEF WaitsFor, CheckApprovalGate, Approvals
<1> QED BY <1>1, <1>2

(* A teammate that waits for nothing has every approval it needs. *)
LEMMA NotWaiting ==
  ASSUME NEW t, NEW approved, WaitsFor(t, approved) = NoApproval
  PROVE  NeededApprovals(t) \subseteq approved
<1>1. \A s : StageApproval(s) # NoApproval
  BY DEF StageApproval, NoApproval
<1>2. SpawnApproval(t) # NoApproval
  BY DEF SpawnApproval, NoApproval
<1> QED BY <1>1, <1>2 DEF WaitsFor, StageApprovalGranted, CheckApprovalGate, NeededApprovals

-----------------------------------------------------------------------------
(* Type correctness. *)

(* Entering a phase changes the phase and the reason of a team, nothing else. *)
LEMMA EnterType ==
  ASSUME NEW st \in TeamObject, NEW p \in Phases, NEW r \in Reasons
  PROVE  Enter(st, p, r) \in TeamObject
BY DEF Enter, TeamObject

(* The fields of a teammate's status entry can be replaced one by one. *)
LEMMA SetPendingType ==
  ASSUME NEW st \in TeamObject, NEW t, NEW x \in Approvals \cup {NoApproval}
  PROVE  SetPending(st, t, x) \in TeamObject
BY DEF SetPending, TeamObject, MateStatus

(* syncPodStatuses and updatePipelineStatus keep the status well formed. *)
LEMMA SyncType ==
  ASSUME NEW st \in TeamObject, cachedPods \in [Agents -> PodStates]
  PROVE  SyncPodStatuses(st) \in TeamObject
<1> DEFINE phases == [t \in Teammates |-> AgentPhase(cachedPods[t])]
<1>1. ASSUME NEW i \in DOMAIN Stages
      PROVE  StagePhase(i, phases, st.approved) \in StagePhases
  BY DEF StagePhase, StagePhases
<1> HIDE DEF phases
<1>2. UpdatePipelineStatus(st.stages, phases, st.approved) \in [DOMAIN Stages -> StageStatus]
  BY <1>1 DEF UpdatePipelineStatus, StageStatus, TeamObject
<1>3. Producers \subseteq Teammates
  BY GraphAssumption
<1> QED BY <1>2, <1>3 DEF SyncPodStatuses, TeamObject, phases

(* A team that has just been created is well formed. *)
LEMMA NewTeamType == NewTeam \in TeamObject
BY LifecycleAssumption DEF NewTeam, TeamObject, NewMate, MateStatus, Phases, Reasons, Time, NotYet,
   NoStageStatus, StageStatus, StagePhases

(* The initial state is well formed. *)
LEMMA InitType == Init => TypeOK
<1> SUFFICES ASSUME Init PROVE TypeOK
  OBVIOUS
<1>1. /\ team \in TeamObject /\ cachedTeam \in TeamObject /\ local \in TeamObject
      /\ pods \in [Agents -> PodStates] /\ cachedPods \in [Agents -> PodStates]
      /\ jobs \in [{"init", "push"} -> JobStates]
      /\ cachedJobs \in [{"init", "push"} -> JobStates]
  BY NewTeamType DEF Init, PodStates, JobStates
<1>2. /\ spawned \in [Teammates -> 0..MaxSpawned] /\ sent \in [Effects -> 0..MaxCount]
      /\ faults \in 0..MaxFaults /\ now \in Nat /\ idx \in Nat /\ idx > 0
  BY BoundsAssumption, LifecycleAssumption DEF Init, MaxSpawned
<1>3. /\ claims \subseteq Claims /\ cachedClaims \subseteq Claims /\ doomed \subseteq Agents
      /\ succeeded \subseteq Agents /\ failed \subseteq Agents
      /\ cacheFresh \in BOOLEAN /\ localFresh \in BOOLEAN /\ queued \in BOOLEAN /\ timer \in BOOLEAN
  BY DEF Init
<1> QED BY <1>1, <1>2, <1>3 DEF Init, TypeOK

(* The phases, reasons and effects the handlers use. *)
LEMMA NameFacts ==
  /\ "Initializing" \in Phases /\ "Running" \in Phases /\ "Completed" \in Phases
  /\ "Failed" \in Phases /\ "TimedOut" \in Phases /\ "BudgetExceeded" \in Phases
  /\ "Initializing" \in Reasons /\ "Running" \in Reasons /\ "Completed" \in Reasons
  /\ "TimedOut" \in Reasons /\ "BudgetExceeded" \in Reasons /\ "InitJobFailed" \in Reasons
  /\ "RestartLimitExceeded" \in Reasons /\ "AgentFailed" \in Reasons /\ "FinalizationFailed" \in Reasons
  /\ "Finalizing" \in Reasons
  /\ "team.started" \in Effects /\ "budget.warning" \in Effects /\ "teammate.error" \in Effects
  /\ "onComplete" \in Effects
BY DEF Phases, Terminal, Reasons, Effects

(* Counting an effect keeps the counter within its bound. *)
LEMMA CountType ==
  ASSUME TypeOK, NEW e \in Effects, Count(e)
  PROVE  sent' \in [Effects -> 0..MaxCount]
BY BoundsAssumption DEF TypeOK, Count

(* ensureAgentPod leaves the pods and the spawn counter well formed. *)
LEMMA EnsureType ==
  ASSUME TypeOK, NEW a, EnsureAgentPod(a)
  PROVE  pods' \in [Agents -> PodStates] /\ spawned' \in [Teammates -> 0..MaxSpawned]
<1>1. spawned' \in [Teammates -> 0..MaxSpawned]
  BY LifecycleAssumption DEF TypeOK, EnsureAgentPod, CountSpawn, MaxSpawned
<1>2. pods' \in [Agents -> PodStates]
  BY DEF TypeOK, EnsureAgentPod, PodStates
<1> QED BY <1>1, <1>2

(* Deleting a pod leaves the pods well formed. *)
LEMMA DeleteType ==
  ASSUME TypeOK, NEW a, DeletePod(a)
  PROVE  pods' \in [Agents -> PodStates]
BY DEF TypeOK, DeletePod, PodStates

(* A pass that returns, with or without an error, leaves a well-formed
   worker behind. *)
LEMMA ReturnType ==
  ASSUME TypeOK, NEW e \in BOOLEAN, NEW f \in BOOLEAN, Return(e, f)
  PROVE  /\ pc' = "idle" /\ idx' \in Nat /\ idx' > 0 /\ doomed' \subseteq Agents /\ local' \in TeamObject
         /\ localFresh' \in BOOLEAN /\ queued' \in BOOLEAN /\ timer' \in BOOLEAN
<1>1. pc' = "idle" /\ idx' = 1 /\ doomed' = {} /\ local' = NewTeam /\ localFresh' = FALSE
  BY DEF Return
<1>2. queued' \in BOOLEAN /\ timer' \in BOOLEAN
  BY DEF TypeOK, Return
<1>3. 1 \in Nat /\ 1 > 0
  OBVIOUS
<1> QED BY <1>1, <1>2, <1>3, NewTeamType

(* What Begin does for every handler. *)
LEMMA BeginType ==
  ASSUME TypeOK, NEW P, Begin(P)
  PROVE  /\ queued' \in BOOLEAN /\ idx' = 1 /\ localFresh' \in BOOLEAN
         /\ UNCHANGED <<team, pods, jobs, claims, cachedTeam, cachedPods, cachedJobs, cachedClaims,
                        cacheFresh, now, faults, succeeded, failed, spawned>>
BY DEF TypeOK, Begin, Dispatches, apiVars, cacheVars, envVars

(* Recording the budget warning changes one flag of the team. *)
LEMMA WarnedType ==
  ASSUME NEW st \in TeamObject
  PROVE  Warned(st) \in TeamObject
BY DEF Warned, TeamObject

(* Everything reconcilePending creates as a claim is one of the team's. *)
LEMMA ProvisionsClaims ==
  ASSUME NEW i \in Nat, i >= 1, i <= Len(ProvisionPlan), ProvisionPlan[i] # "init-job"
  PROVE  ProvisionPlan[i] \in Claims
<1> USE LifecycleAssumption DEF ProvisionPlan, Claims
<1>1. CASE Coding /\ HasOutput
  BY <1>1
<1>2. CASE Coding /\ ~HasOutput
  BY <1>2
<1>3. CASE ~Coding /\ HasOutput
  BY <1>3
<1>4. CASE ~Coding /\ ~HasOutput
  BY <1>4
<1> QED BY <1>1, <1>2, <1>3, <1>4

(* Every step of the controller and of its environment keeps TypeOK; one
   case per action. *)
LEMMA TypeStep == TypeOK /\ [Next]_vars => TypeOK'
<1> SUFFICES ASSUME TypeOK, [Next]_vars PROVE TypeOK'
  OBVIOUS
<1> USE DEF TypeOK, apiVars, cacheVars, passVars, queueVars, envVars, histVars
<1>1. CASE BeginPending
  BY <1>1, BeginType DEF BeginPending
<1>2. CASE BeginInitializing
  <2>1. local' \in TeamObject
    <3>1. /\ Enter(cachedTeam, "TimedOut", "TimedOut") \in TeamObject
          /\ Enter(cachedTeam, "Failed", "InitJobFailed") \in TeamObject
      BY EnterType, NameFacts
    <3> QED BY <1>2, <3>1 DEF BeginInitializing
  <2>2. pc' \in {"update", "lead"} /\ UNCHANGED <<doomed, timer, sent>>
    BY <1>2 DEF BeginInitializing
  <2> QED BY <1>2, <2>1, <2>2, BeginType DEF BeginInitializing
<1>3. CASE AwaitInitJob
  BY <1>3 DEF AwaitInitJob
<1>4. CASE BeginRunning
  <2>1. Warned(cachedTeam) \in TeamObject
    BY WarnedType
  <2>2. local' \in TeamObject
    <3>1. /\ Enter(cachedTeam, "TimedOut", "TimedOut") \in TeamObject
          /\ Enter(Warned(cachedTeam), "BudgetExceeded", "BudgetExceeded") \in TeamObject
          /\ SyncPodStatuses(Warned(cachedTeam)) \in TeamObject
      BY <2>1, EnterType, SyncType, NameFacts
    <3> QED BY <1>4, <3>1 DEF BeginRunning
  <2>3. sent' \in [Effects -> 0..MaxCount]
    BY <1>4, CountType, NameFacts DEF BeginRunning
  <2>4. pc' \in {"stop", "failures"} /\ doomed' \subseteq Agents /\ timer' = timer
    BY <1>4 DEF BeginRunning, ListedPods
  <2> QED BY <1>4, <2>2, <2>3, <2>4, BeginType DEF BeginRunning
<1>5. CASE BeginTerminal
  BY <1>5, BeginType DEF BeginTerminal, ListedPods
<1>6. CASE ProvisionStep
  <2>1. claims' \subseteq Claims
    BY <1>6, ProvisionsClaims DEF ProvisionStep, Provisioning, ThisObject
  <2>2. jobs' \in [{"init", "push"} -> JobStates]
    BY <1>6 DEF ProvisionStep, JobStates
  <2> QED BY <1>6, <2>1, <2>2 DEF ProvisionStep
<1>7. CASE ProvisionExists
  BY <1>7, ReturnType DEF ProvisionExists
<1>8. CASE Provisioned
  <2>1. Enter(local, "Initializing", "Initializing") \in TeamObject
    BY EnterType, NameFacts
  <2>2. local' \in TeamObject
    BY <1>8, <2>1 DEF Provisioned, TeamObject, Time
  <2> QED BY <1>8, <2>2 DEF Provisioned, Goto
<1>9. CASE DeployLead
  BY <1>9, EnsureType DEF DeployLead, Goto
<1>10. CASE DeployTeammate
  BY <1>10, EnsureType, WaitsForType, SetPendingType DEF DeployTeammate, Advance, Goto
<1>11. CASE Announce
  <2>1. Enter(local, "Running", "Running") \in TeamObject
    BY EnterType, NameFacts
  <2>2. sent' \in [Effects -> 0..MaxCount]
    BY <1>11, CountType, NameFacts DEF Announce
  <2> QED BY <1>11, <2>1, <2>2 DEF Announce, Goto
<1>12. CASE PassOverTeammate
  BY <1>12 DEF PassOverTeammate, Advance, Goto
<1>13. CASE RestartLimitExceeded
  <2>1. Enter(local, "Failed", "RestartLimitExceeded") \in TeamObject
    BY EnterType, NameFacts
  <2> QED BY <1>13, <2>1 DEF RestartLimitExceeded, Goto
<1>14. CASE DeleteFailedPod
  <2>0. sent' \in [Effects -> 0..MaxCount]
    BY <1>14, CountType, NameFacts DEF DeleteFailedPod
  <2>1. CASE Tm \in Teammates
    <3>1. local.mates[Tm].restarts + 1 \in 0..MaxRestarts
      BY <1>14, <2>1, LifecycleAssumption DEF DeleteFailedPod, TeamObject, MateStatus, RestartsLeft
    <3>2. [local.mates[Tm] EXCEPT !.restarts = @ + 1] \in MateStatus
      <4>1. local.mates[Tm] \in MateStatus
        BY <2>1 DEF TeamObject
      <4> QED BY <3>1, <4>1 DEF MateStatus
    <3>3. [local.mates EXCEPT ![Tm].restarts = @ + 1] \in [Teammates -> MateStatus]
      BY <2>1, <3>2 DEF TeamObject
    <3>4. local' = [local EXCEPT !.mates = [local.mates EXCEPT ![Tm].restarts = @ + 1]]
      BY <1>14 DEF DeleteFailedPod, TeamObject
    <3>5. local' \in TeamObject
      BY <3>3, <3>4 DEF TeamObject
    <3> QED BY <1>14, <2>0, <3>5, DeleteType DEF DeleteFailedPod
  <2>2. CASE Tm \notin Teammates
    <3>1. local' = local
      BY <1>14, <2>2 DEF DeleteFailedPod, TeamObject
    <3> QED BY <1>14, <2>0, <3>1, DeleteType DEF DeleteFailedPod
  <2> QED BY <2>1, <2>2
<1>15. CASE Respawn
  BY <1>15, EnsureType DEF Respawn, Advance, Goto
<1>16. CASE SpawnTeammate
  BY <1>16, EnsureType, WaitsForType, SetPendingType DEF SpawnTeammate, Advance, Goto
<1>17. CASE SpawnExists
  BY <1>17, ReturnType DEF SpawnExists
<1>18. CASE AgentFailed
  <2>1. Enter(local, "Failed", "AgentFailed") \in TeamObject
    BY EnterType, NameFacts
  <2> QED BY <1>18, <2>1 DEF AgentFailed, Goto
<1>19. CASE StillRunning
  BY <1>19 DEF StillRunning, Goto
<1>20. CASE Finalize
  BY <1>20 DEF Finalize, Goto
<1>21. CASE EnsurePushBranchJob
  BY <1>21 DEF EnsurePushBranchJob, Goto, JobStates
<1>22. CASE PushBranchJobError
  <2>1. faults' \in 0..MaxFaults
    BY <1>22, BoundsAssumption DEF PushBranchJobError
  <2>2. local' \in TeamObject
    BY <1>22, EnterType, NameFacts DEF PushBranchJobError
  <2> QED BY <1>22, <2>1, <2>2 DEF PushBranchJobError, Goto
<1>23. CASE CheckPushBranchJob
  <2>1. [local EXCEPT !.branch = TRUE] \in TeamObject
    BY DEF TeamObject
  <2>2. [local EXCEPT !.reason = "Finalizing"] \in TeamObject
    BY NameFacts DEF TeamObject
  <2>3. Enter(local, "Failed", "FinalizationFailed") \in TeamObject
    BY EnterType, NameFacts
  <2>4. local' \in TeamObject /\ pc' \in {"onComplete", "update"} /\ idx' = 1
    BY <1>23, <2>1, <2>2, <2>3 DEF CheckPushBranchJob, Goto
  <2> QED BY <1>23, <2>4 DEF CheckPushBranchJob
<1>24. CASE ExecuteOnComplete
  <2>1. Enter(local, "Completed", "Completed") \in TeamObject
    BY EnterType, NameFacts
  <2>2. local' \in TeamObject
    BY <1>24, <2>1 DEF ExecuteOnComplete, TeamObject
  <2> QED BY <1>24, <2>2, CountType, NameFacts DEF ExecuteOnComplete, Goto
<1>25. CASE TerminatePod
  BY <1>25, DeleteType DEF TerminatePod
<1>26. CASE Stopped
  BY <1>26 DEF Stopped, Goto
<1>27. CASE CleanedUp
  <2>1. [local EXCEPT !.completedAt = now] \in TeamObject
    BY DEF TeamObject, Time
  <2>2. CASE local.completedAt = NotYet
    BY <1>27, <2>1, <2>2 DEF CleanedUp, Goto
  <2>3. CASE local.completedAt # NotYet
    BY <1>27, <2>3, ReturnType DEF CleanedUp
  <2> QED BY <2>2, <2>3
<1>28. CASE UpdateStatus
  <2>1. team' \in TeamObject
    BY <1>28 DEF UpdateStatus, TeamObject
  <2>2. cacheFresh' \in BOOLEAN
    BY <1>28 DEF UpdateStatus
  <2>3. RequeuesAfter(local.phase) \in BOOLEAN
    BY DEF RequeuesAfter
  <2> QED BY <1>28, <2>1, <2>2, <2>3, ReturnType DEF UpdateStatus
<1>29. CASE UpdateConflict
  BY <1>29, ReturnType DEF UpdateConflict
<1>30. CASE SyncTeam
  BY <1>30 DEF SyncTeam
<1>31. CASE SyncJobs
  BY <1>31 DEF SyncJobs
<1>32. CASE SyncClaims
  BY <1>32 DEF SyncClaims
<1>33. CASE TimerFires
  BY <1>33 DEF TimerFires
<1>34. CASE ApiError
  <2>1. faults' \in 0..MaxFaults
    BY <1>34, BoundsAssumption DEF ApiError, Fault
  <2>2. Return(TRUE, FALSE)
    BY <1>34 DEF ApiError
  <2> QED BY <1>34, <2>1, <2>2, ReturnType DEF ApiError
<1>35. CASE Crash
  <2>1. faults' \in 0..MaxFaults
    BY <1>35, BoundsAssumption DEF Crash, Fault
  <2>2. local' \in TeamObject
    BY <1>35, NewTeamType DEF Crash
  <2>3. idx' \in Nat /\ idx' > 0
    BY <1>35 DEF Crash
  <2> QED BY <1>35, <2>1, <2>2, <2>3 DEF Crash
<1>36. CASE Tick
  BY <1>36 DEF Tick
<1>37. ASSUME NEW a \in Agents, SyncPod(a) PROVE TypeOK'
  BY <1>37 DEF SyncPod
<1>38. ASSUME NEW a \in Agents, PodEnds(a) PROVE TypeOK'
  BY <1>38 DEF PodEnds, PodStates
<1>39. ASSUME NEW a \in Agents, PodGone(a) PROVE TypeOK'
  BY <1>39 DEF PodGone, PodStates
<1>40. ASSUME NEW a \in Agents, Evict(a) PROVE TypeOK'
  BY <1>40, DeleteType, BoundsAssumption DEF Evict, Fault
<1>41. ASSUME NEW j \in {"init", "push"}, JobEnds(j) PROVE TypeOK'
  BY <1>41 DEF JobEnds, JobStates
<1>42. ASSUME NEW x \in Approvals, Approve(x) PROVE TypeOK'
  <2>1. team' \in TeamObject
    BY <1>42 DEF Approve, TeamObject
  <2> QED BY <1>42, <2>1 DEF Approve
<1>43. CASE UNCHANGED vars
  BY <1>43 DEF vars
<1>44. CASE FireTeammateErrorEvent
  <2>1. sent' \in [Effects -> 0..MaxCount]
    BY <1>44, CountType, NameFacts DEF FireTeammateErrorEvent
  <2>2. pc' \in {"errors", "update"} /\ idx' \in Nat /\ idx' > 0
    BY <1>44 DEF FireTeammateErrorEvent, Goto
  <2> QED BY <1>44, <2>1, <2>2 DEF FireTeammateErrorEvent
<1> QED
  BY <1>1, <1>2, <1>3, <1>4, <1>5, <1>6, <1>7, <1>8, <1>9, <1>10, <1>11, <1>12, <1>13, <1>14, <1>15, <1>16, <1>17, <1>18, <1>19, <1>20, <1>21, <1>22, <1>23, <1>24, <1>25, <1>26, <1>27, <1>28, <1>29, <1>30, <1>31, <1>32, <1>33, <1>34, <1>35, <1>36, <1>37, <1>38, <1>39, <1>40, <1>41, <1>42, <1>43, <1>44 DEF Next, Controller, Environment

(* The controller keeps every variable, every copy of the team and every
   restart count within its type, for every team, every order of events and
   every number of faults. *)
THEOREM TypeCorrect == Spec => []TypeOK
BY InitType, TypeStep, PTL DEF Spec

-----------------------------------------------------------------------------
(***************************************************************************)
(* Who may have a pod, and when: DependencyOrder, ApprovalBeforeSpawn and  *)
(* StageOrder.  All three read the API server's state, while the           *)
(* controller decides on caches; OrderInv says that what a cache shows     *)
(* about a success or an approval has really happened.                     *)
(***************************************************************************)

(* The pods, their cached copies and the history of successes are only
   touched by the steps named here. *)
LEMMA PodSteps ==
  ASSUME [Next]_vars
  PROVE  \/ UNCHANGED <<pods, cachedPods, succeeded>>
         \/ DeployLead \/ DeployTeammate \/ DeleteFailedPod \/ Respawn \/ SpawnTeammate
         \/ TerminatePod \/ Crash
         \/ \E a \in Agents : SyncPod(a) \/ PodEnds(a) \/ PodGone(a) \/ Evict(a)
BY DEF Next, Controller, Environment, vars, apiVars, cacheVars, passVars, queueVars, envVars,
   histVars, Begin, Dispatches, BeginPending, BeginInitializing, AwaitInitJob, BeginRunning, BeginTerminal,
   ProvisionStep, ProvisionExists, Provisioned, Announce, PassOverTeammate,
   RestartLimitExceeded, SpawnExists, AgentFailed, FireTeammateErrorEvent, StillRunning, Finalize, EnsurePushBranchJob,
   PushBranchJobError, CheckPushBranchJob, ExecuteOnComplete, Stopped, CleanedUp, UpdateStatus,
   UpdateConflict, SyncTeam, SyncJobs, SyncClaims, TimerFires, ApiError, Tick, JobEnds, Approve

(* The annotations of the team only grow: a status update keeps them. *)
LEMMA ApprovedGrows ==
  ASSUME TypeOK, [Next]_vars
  PROVE  team.approved \subseteq team'.approved
<1>1. team' = team \/ UpdateStatus \/ \E x \in Approvals : Approve(x)
  BY DEF Next, Controller, Environment, vars, apiVars, cacheVars, passVars, queueVars, envVars,
     histVars, Begin, Dispatches, BeginPending, BeginInitializing, AwaitInitJob, BeginRunning, BeginTerminal,
     ProvisionStep, ProvisionExists, Provisioned, DeployLead, DeployTeammate, Announce,
     PassOverTeammate, RestartLimitExceeded, DeleteFailedPod, Respawn, SpawnTeammate,
     SpawnExists, AgentFailed, FireTeammateErrorEvent, StillRunning, Finalize, EnsurePushBranchJob, PushBranchJobError,
     CheckPushBranchJob, ExecuteOnComplete, TerminatePod, Stopped, CleanedUp, UpdateConflict,
     SyncTeam, SyncJobs, SyncClaims, TimerFires, ApiError, Crash, Tick, JobEnds,
     SyncPod, PodEnds, PodGone, Evict
<1>2. CASE UpdateStatus
  BY <1>2 DEF UpdateStatus, TypeOK, TeamObject
<1>3. ASSUME NEW x \in Approvals, Approve(x) PROVE team.approved \subseteq team'.approved
  BY <1>3 DEF Approve, TypeOK, TeamObject
<1> QED BY <1>1, <1>2, <1>3

(* Loop positions start at the first teammate and advance while there is
   another one. *)
LEMMA LoopStep ==
  ASSUME TypeOK, LoopBounds, [Next]_vars
  PROVE  LoopBounds'
<1> USE OrderAssumption DEF LoopBounds
<1>1. \/ UNCHANGED <<pc, idx>>
      \/ pc' \notin {"deploy", "failures", "respawn", "spawn"}
      \/ idx' = 1
      \/ pc' = "respawn" /\ pc = "failures" /\ idx' = idx
      \/ pc \in {"deploy", "failures", "respawn", "spawn"} /\ idx < Len(Order) /\ idx' = idx + 1
  BY DEF Next, Controller, Environment, vars, apiVars, cacheVars, passVars, queueVars, envVars,
     histVars, Begin, Dispatches, BeginPending, BeginInitializing, AwaitInitJob, BeginRunning, BeginTerminal,
     ProvisionStep, Provisioning, ProvisionExists, Provisioned, DeployLead, DeployTeammate, Announce,
     PassOverTeammate, RestartLimitExceeded, DeleteFailedPod, Respawn, SpawnTeammate,
     SpawnExists, AgentFailed, FireTeammateErrorEvent, StillRunning, Finalize, EnsurePushBranchJob, PushBranchJobError,
     CheckPushBranchJob, ExecuteOnComplete, TerminatePod, Stopped, CleanedUp, UpdateStatus,
     UpdateConflict, SyncTeam, SyncJobs, SyncClaims, TimerFires, ApiError, Crash, Tick, JobEnds,
     SyncPod, PodEnds, PodGone, Evict, Approve, Goto, Advance, Return
<1>2. Len(Order) \in Nat /\ Len(Order) >= 1
  OBVIOUS
<1> QED BY <1>1, <1>2 DEF TypeOK

(* What a handler does to its copy of the team leaves the annotations. *)
LEMMA SameApproved ==
  ASSUME NEW st \in TeamObject
  PROVE  /\ \A p, r : Enter(st, p, r).approved = st.approved
         /\ \A t, x : SetPending(st, t, x).approved = st.approved
         /\ Warned(st).approved = st.approved
         /\ SyncPodStatuses(st).approved = st.approved
         /\ \A p, r : Enter(Warned(st), p, r).approved = st.approved
         /\ SyncPodStatuses(Warned(st)).approved = st.approved
BY DEF Enter, SetPending, Warned, SyncPodStatuses, TeamObject

(* The cached copy of the team changes to the team's current content. *)
LEMMA CachedTeamStep ==
  ASSUME [Next]_vars
  PROVE  cachedTeam' \in {cachedTeam, team}
BY DEF Next, Controller, Environment, vars, apiVars, cacheVars, passVars, queueVars, envVars,
   histVars, Begin, Dispatches, BeginPending, BeginInitializing, AwaitInitJob, BeginRunning, BeginTerminal,
   ProvisionStep, ProvisionExists, Provisioned, DeployLead, DeployTeammate, Announce,
   PassOverTeammate, RestartLimitExceeded, DeleteFailedPod, Respawn, SpawnTeammate,
   SpawnExists, AgentFailed, FireTeammateErrorEvent, StillRunning, Finalize, EnsurePushBranchJob, PushBranchJobError,
   CheckPushBranchJob, ExecuteOnComplete, TerminatePod, Stopped, CleanedUp, UpdateStatus,
   UpdateConflict, SyncTeam, SyncJobs, SyncClaims, TimerFires, ApiError, Crash, Tick, JobEnds,
   SyncPod, PodEnds, PodGone, Evict, Approve

(* What caches and passes hold about approvals has been given. *)
LEMMA ApprovalsStep ==
  ASSUME TypeOK, ApprovalsTrue, [Next]_vars
  PROVE  ApprovalsTrue'
<1>1. team.approved \subseteq team'.approved
  BY ApprovedGrows
<1>2. cachedTeam' \in {cachedTeam, team}
  BY CachedTeamStep
<1>3. local'.approved \in {local.approved, cachedTeam.approved, {}}
  <2> USE DEF TypeOK
  <2>1. NewTeam.approved = {}
    BY DEF NewTeam
  <2>2. CASE BeginPending \/ BeginInitializing \/ BeginRunning \/ BeginTerminal
    BY <2>2, SameApproved DEF BeginPending, BeginInitializing, BeginRunning, BeginTerminal
  <2>3. CASE Provisioned
    BY <2>3 DEF Provisioned, Enter, TeamObject
  <2>4. CASE ExecuteOnComplete
    BY <2>4 DEF ExecuteOnComplete, Enter, TeamObject
  <2>5. CASE DeleteFailedPod \/ CheckPushBranchJob \/ CleanedUp
    BY <2>1, <2>5, SameApproved DEF DeleteFailedPod, CheckPushBranchJob, CleanedUp, Return, TeamObject
  <2>6. CASE DeployTeammate \/ Announce \/ RestartLimitExceeded \/ SpawnTeammate \/ AgentFailed
               \/ PushBranchJobError
    BY <2>6, SameApproved DEF DeployTeammate, Announce, RestartLimitExceeded, SpawnTeammate,
       AgentFailed, PushBranchJobError
  <2>7. CASE ProvisionExists \/ SpawnExists \/ UpdateStatus \/ UpdateConflict \/ ApiError \/ Crash
    BY <2>1, <2>7 DEF ProvisionExists, SpawnExists, UpdateStatus, UpdateConflict, ApiError, Crash, Return
  <2>8. \/ BeginPending \/ BeginInitializing \/ BeginRunning \/ BeginTerminal
        \/ Provisioned \/ ExecuteOnComplete \/ DeleteFailedPod \/ CheckPushBranchJob \/ CleanedUp
        \/ DeployTeammate \/ Announce \/ RestartLimitExceeded \/ SpawnTeammate \/ AgentFailed
        \/ PushBranchJobError \/ ProvisionExists \/ SpawnExists \/ UpdateStatus \/ UpdateConflict
        \/ ApiError \/ Crash
        \/ UNCHANGED local
    BY DEF Next, Controller, Environment, vars, passVars, AwaitInitJob, ProvisionStep, DeployLead,
       PassOverTeammate, Respawn, FireTeammateErrorEvent, StillRunning, Finalize, EnsurePushBranchJob, TerminatePod, Stopped,
       SyncTeam, SyncJobs, SyncClaims, TimerFires, Tick, JobEnds, SyncPod, PodEnds, PodGone, Evict, Approve
  <2> QED BY <2>2, <2>3, <2>4, <2>5, <2>6, <2>7, <2>8
<1> QED BY <1>1, <1>2, <1>3 DEF ApprovalsTrue

-----------------------------------------------------------------------------

(* Dependencies that a cache shows as succeeded have succeeded, and the
   approvals a pass found have been given: a teammate a spawn loop lets
   through is ready. *)
LEMMA LetThrough ==
  ASSUME PodHistory, ApprovalsTrue, NEW t, DependenciesMet(t),
         WaitsFor(t, local.approved) = NoApproval
  PROVE  Ready(t)
<1>1. EffectiveDependencies(t) \subseteq succeeded
  BY DEF PodHistory, DependenciesMet
<1>2. NeededApprovals(t) \subseteq local.approved
  BY NotWaiting
<1> QED BY <1>1, <1>2 DEF Ready, ApprovalsTrue

(* A teammate that is ready stays ready. *)
LEMMA ReadyStays ==
  ASSUME NEW t, Ready(t), succeeded \subseteq succeeded', team.approved \subseteq team'.approved
  PROVE  Ready(t)'
BY DEF Ready

(* ensureAgentPod adds a running pod, for the agent it is called with. *)
LEMMA EnsureEffect ==
  ASSUME TypeOK, NEW a \in Agents, EnsureAgentPod(a), NEW b \in Agents
  PROVE  /\ pods'[b] = "Succeeded" => pods[b] = "Succeeded"
         /\ pods'[b] # "None" => pods[b] # "None" \/ b = a
BY DEF TypeOK, EnsureAgentPod

(* Deleting a pod brings none into being, and makes none succeed. *)
LEMMA DeleteEffect ==
  ASSUME TypeOK, NEW a \in Agents, DeletePod(a), NEW b \in Agents
  PROVE  /\ pods'[b] = "Succeeded" => pods[b] = "Succeeded"
         /\ pods'[b] # "None" => pods[b] # "None"
BY DEF TypeOK, DeletePod

(* What PodHistory needs of a step. *)
LEMMA HistoryKept ==
  ASSUME PodHistory, succeeded \subseteq succeeded', team.approved \subseteq team'.approved,
         \A a \in Agents : pods'[a] = "Succeeded" \/ cachedPods'[a] = "Succeeded" =>
            pods[a] = "Succeeded" \/ cachedPods[a] = "Succeeded" \/ a \in succeeded',
         \A t \in Teammates : pods'[t] # "None" \/ cachedPods'[t] # "None" =>
            pods[t] # "None" \/ cachedPods[t] # "None" \/ Ready(t),
         pc' = "respawn" => Ready(Order[idx'])
  PROVE  PodHistory'
<1>1. \A a \in Agents : pods'[a] = "Succeeded" \/ cachedPods'[a] = "Succeeded" => a \in succeeded'
  BY DEF PodHistory
<1>2. \A t \in Teammates : pods'[t] # "None" \/ cachedPods'[t] # "None" => Ready(t)'
  BY DEF PodHistory, Ready
<1>3. pc' = "respawn" => Ready(Order[idx])'
  BY DEF Ready
<1> QED BY <1>1, <1>2, <1>3 DEF PodHistory, Ready

(* No step brings a teammate's pod, or the success of an agent, into being
   without what PodHistory asks for. *)
LEMMA HistoryStep ==
  ASSUME TypeOK, LoopBounds, ApprovalsTrue, PodHistory, [Next]_vars
  PROVE  PodHistory'
<1>1. team.approved \subseteq team'.approved
  BY ApprovedGrows
<1>2. ASSUME pc \in {"deploy", "failures", "respawn", "spawn"} PROVE Tm \in Teammates
  BY <1>2, OrderAssumption DEF LoopBounds, Tm, Teammates
<1>3. CASE DeployLead
  <2>1. pc' # "respawn" /\ UNCHANGED <<succeeded, cachedPods>> /\ EnsureAgentPod("lead")
    BY <1>3 DEF DeployLead, Goto, cacheVars
  <2>2. "lead" \in Agents /\ "lead" \notin Teammates /\ Teammates \subseteq Agents
    BY OrderAssumption DEF Agents
  <2> QED BY <1>1, <2>1, <2>2, EnsureEffect, HistoryKept
<1>4. CASE DeployTeammate \/ SpawnTeammate
  <2>1. /\ pc' # "respawn" /\ UNCHANGED <<succeeded, cachedPods>> /\ Tm \in Teammates
        /\ UNCHANGED pods \/ (EnsureAgentPod(Tm) /\ Ready(Tm))
    BY <1>2, <1>4, LetThrough DEF DeployTeammate, SpawnTeammate, MaySpawn, Advance, Goto, cacheVars
  <2>2. CASE UNCHANGED pods
    BY <1>1, <2>1, <2>2, HistoryKept
  <2>3. CASE EnsureAgentPod(Tm) /\ Ready(Tm)
    BY <1>1, <2>1, <2>3, EnsureEffect, HistoryKept DEF Agents
  <2> QED BY <2>1, <2>2, <2>3
<1>5. CASE DeleteFailedPod
  <2>1. /\ UNCHANGED <<succeeded, cachedPods, idx>> /\ Tm \in Teammates /\ DeletePod(Tm)
        /\ cachedPods[Tm] # "None"
    BY <1>2, <1>5 DEF DeleteFailedPod, cacheVars
  <2>2. Ready(Order[idx'])
    BY <2>1 DEF PodHistory, Tm
  <2> QED BY <1>1, <2>1, <2>2, DeleteEffect, HistoryKept DEF Agents
<1>6. CASE Respawn
  <2>1. pc' # "respawn" /\ UNCHANGED <<succeeded, cachedPods>> /\ EnsureAgentPod(Tm) /\ Tm \in Teammates
    BY <1>2, <1>6 DEF Respawn, Advance, Goto, cacheVars
  <2>2. Ready(Tm)
    BY <1>6 DEF Respawn, PodHistory, Tm
  <2> QED BY <1>1, <2>1, <2>2, EnsureEffect, HistoryKept DEF Agents
<1>7. CASE TerminatePod
  <2>1. pc' # "respawn" /\ UNCHANGED <<succeeded, cachedPods>>
    BY <1>7 DEF TerminatePod, cacheVars, histVars
  <2>2. PICK a \in Agents : DeletePod(a)
    BY <1>7 DEF TerminatePod, TypeOK
  <2> QED BY <1>1, <2>1, <2>2, DeleteEffect, HistoryKept DEF Agents
<1>8. CASE Crash
  <2>1. pc' # "respawn" /\ UNCHANGED <<succeeded, pods>> /\ cachedPods' = pods
    BY <1>8 DEF Crash, apiVars, histVars
  <2> QED BY <1>1, <2>1, HistoryKept
<1>9. ASSUME NEW a \in Agents, SyncPod(a) \/ PodEnds(a) \/ PodGone(a) \/ Evict(a) PROVE PodHistory'
  <2>1. UNCHANGED <<pc, idx>> /\ succeeded \subseteq succeeded'
    BY <1>9 DEF SyncPod, PodEnds, PodGone, Evict, passVars, histVars
  <2>2. pc' = "respawn" => Ready(Order[idx'])
    BY <2>1 DEF PodHistory
  <2>3. CASE SyncPod(a)
    BY <1>1, <2>1, <2>2, <2>3, HistoryKept DEF SyncPod, TypeOK, apiVars, Agents
  <2>4. CASE PodEnds(a)
    BY <1>1, <2>1, <2>2, <2>4, HistoryKept DEF PodEnds, TypeOK, cacheVars, Agents
  <2>5. CASE PodGone(a)
    BY <1>1, <2>1, <2>2, <2>5, HistoryKept DEF PodGone, TypeOK, cacheVars, Agents
  <2>6. CASE Evict(a)
    BY <1>1, <2>1, <2>2, <2>6, DeleteEffect, HistoryKept DEF Evict, cacheVars, Agents
  <2> QED BY <1>9, <2>3, <2>4, <2>5, <2>6
<1>10. CASE UNCHANGED <<pods, cachedPods, succeeded>>
  <2>1. pc' = "respawn" => (pc = "respawn" /\ idx' = idx) \/ DeleteFailedPod
    BY DEF Next, Controller, Environment, vars, apiVars, cacheVars, passVars, queueVars, envVars,
       histVars, Begin, Dispatches, BeginPending, BeginInitializing, AwaitInitJob, BeginRunning, BeginTerminal,
       ProvisionStep, Provisioning, ProvisionExists, Provisioned, DeployLead, DeployTeammate, Announce,
       PassOverTeammate, RestartLimitExceeded, Respawn, SpawnTeammate,
       SpawnExists, AgentFailed, FireTeammateErrorEvent, StillRunning, Finalize, EnsurePushBranchJob, PushBranchJobError,
       CheckPushBranchJob, ExecuteOnComplete, TerminatePod, Stopped, CleanedUp, UpdateStatus,
       UpdateConflict, SyncTeam, SyncJobs, SyncClaims, TimerFires, ApiError, Crash, Tick, JobEnds,
       SyncPod, PodEnds, PodGone, Evict, Approve, Goto, Advance, Return
  <2>2. CASE DeleteFailedPod
    BY <1>5, <2>2
  <2>3. CASE ~DeleteFailedPod
    <3>1. pc' = "respawn" => Ready(Order[idx'])
      BY <2>1, <2>3 DEF PodHistory
    <3> QED BY <1>1, <1>10, <3>1, HistoryKept
  <2> QED BY <2>2, <2>3
<1> QED BY <1>3, <1>4, <1>5, <1>6, <1>7, <1>8, <1>9, <1>10, PodSteps

(* OrderInv is inductive. *)
LEMMA OrderInit == Init => OrderInv
<1> SUFFICES ASSUME Init PROVE OrderInv
  OBVIOUS
<1>1. TypeOK
  BY InitType
<1>2. LoopBounds /\ ApprovalsTrue
  BY DEF Init, LoopBounds, ApprovalsTrue
<1>3. PodHistory
  BY DEF Init, PodHistory, Agents
<1> QED BY <1>1, <1>2, <1>3 DEF OrderInv

(* The three parts of OrderInv are kept together by every step. *)
LEMMA OrderStep == OrderInv /\ [Next]_vars => OrderInv'
BY TypeStep, LoopStep, ApprovalsStep, HistoryStep DEF OrderInv

(* OrderInv holds in every reachable state. *)
LEMMA OrderAlways == Spec => []OrderInv
BY OrderInit, OrderStep, PTL DEF Spec

(* dependenciesMet keeps the order of the team's graph for every team: no
   teammate has a pod before every agent it effectively depends on has
   succeeded, however stale the pod cache is and however often a teammate is
   respawned, evicted or lost to a crash of the operator. *)
THEOREM DependencyOrderHolds == Spec => []DependencyOrder
<1>1. OrderInv => DependencyOrder
  BY DEF OrderInv, PodHistory, Ready, DependencyOrder
<1> QED BY <1>1, OrderAlways, PTL

(* The approval gates hold for every team: no gated teammate has a pod
   before the annotations that approve it and its stage are on the team,
   however stale the copy of the team a pass reads them from. *)
THEOREM ApprovalBeforeSpawnHolds == Spec => []ApprovalBeforeSpawn
<1>1. OrderInv => ApprovalBeforeSpawn
  BY DEF OrderInv, PodHistory, Ready, ApprovalBeforeSpawn
<1> QED BY <1>1, OrderAlways, PTL
-----------------------------------------------------------------------------
(* Pipelines. *)

(* A number is the smallest and the largest of its own set. *)
LEMMA OnlyOne ==
  ASSUME NEW i \in Nat
  PROVE  Smallest({i}) = i /\ Largest({i}) = i
BY DEF Smallest, Largest

(* In a well-formed pipeline a teammate of a stage depends on every teammate of
   every stage that stage names. *)
LEMMA StageNeeds ==
  ASSUME WellFormedPipeline, NEW i \in DOMAIN Stages, NEW j \in DOMAIN Stages,
         Stages[j].name \in Stages[i].dependsOn, NEW t \in Stages[i].teammates
  PROVE  Stages[j].teammates \subseteq EffectiveDependencies(t)
<1>0. DOMAIN Stages \subseteq Nat /\ Stages # <<>>
  BY StagesAssumption
<1>1. StagesOf(t) = {i}
  BY DEF WellFormedPipeline, StagesOf
<1>2. InStage(t) /\ StageForTeammate(t) = Stages[i]
  BY <1>0, <1>1, OnlyOne DEF InStage, StageForTeammate
<1>3. StagesNamed(Stages[j].name) = {j}
  BY DEF WellFormedPipeline, StagesNamed
<1>4. Largest(StagesNamed(Stages[j].name)) = j
  BY <1>0, <1>3, OnlyOne
<1>5. Stages[j].teammates \subseteq PipelineDependencies(t)
  BY <1>2, <1>3, <1>4 DEF PipelineDependencies
<1>6. "" \notin Stages[j].teammates
  BY DEF WellFormedPipeline
<1> QED BY <1>0, <1>5, <1>6 DEF EffectiveDependencies

(* The stages are right for every well-formed pipeline, wherever its stages are
   listed: no teammate of a stage has a pod before all teammates of the stages
   it depends on have succeeded. *)
THEOREM StageOrderHolds == WellFormedPipeline /\ Spec => []StageOrder
<1>1. WellFormedPipeline /\ OrderInv => StageOrder
  BY StageNeeds DEF OrderInv, PodHistory, Ready, StageOrder
<1>2. CASE WellFormedPipeline
  BY <1>1, <1>2, OrderAlways, PTL
<1>3. CASE ~WellFormedPipeline
  BY <1>3
<1> QED BY <1>2, <1>3
=============================================================================
