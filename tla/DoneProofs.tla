----------------------------- MODULE DoneProofs ------------------------------
(***************************************************************************)
(* When a team is done: the proof of CompletedMeansDone, and of the        *)
(* refinement of TeamLifecycle.                                            *)
(***************************************************************************)
EXTENDS StatusProofs

(* The push-branch Job, once it has succeeded, has succeeded; successes are
   not forgotten; the cached Jobs change to the current ones. *)
LEMMA HistoryGrows ==
  ASSUME TypeOK, [Next]_vars
  PROVE  /\ succeeded \subseteq succeeded'
         /\ \A j \in {"init", "push"} : jobs[j] = "Succeeded" => jobs'[j] = "Succeeded"
         /\ cachedJobs' \in {cachedJobs, jobs}
<1>1. /\ succeeded' = succeeded \/ \E a \in Agents : PodEnds(a)
      /\ jobs' = jobs \/ ProvisionStep \/ EnsurePushBranchJob \/ \E j \in {"init", "push"} : JobEnds(j)
      /\ cachedJobs' \in {cachedJobs, jobs}
  BY DEF Next, Controller, Environment, vars, apiVars, cacheVars, passVars, queueVars,
     envVars, histVars, Begin, Dispatches, BeginPending, BeginInitializing, AwaitInitJob, BeginRunning,
     BeginTerminal, ProvisionStep, ProvisionExists, Provisioned, DeployLead,
     DeployTeammate, Announce, PassOverTeammate, RestartLimitExceeded, DeleteFailedPod, Respawn,
     SpawnTeammate, SpawnExists, AgentFailed, FireTeammateErrorEvent, StillRunning, Finalize, EnsurePushBranchJob,
     PushBranchJobError, CheckPushBranchJob, ExecuteOnComplete, TerminatePod, Stopped, CleanedUp,
     UpdateStatus, UpdateConflict, SyncTeam, SyncJobs, SyncClaims, TimerFires, ApiError, Crash, Tick,
     JobEnds, SyncPod, PodEnds, PodGone, Evict, Approve
<1>2. succeeded \subseteq succeeded'
  BY <1>1 DEF PodEnds
<1>3. ASSUME NEW j \in {"init", "push"}, jobs[j] = "Succeeded" PROVE jobs'[j] = "Succeeded"
  <2>1. jobs \in [{"init", "push"} -> JobStates]
    BY DEF TypeOK
  <2>2. CASE ProvisionStep
    BY <1>3, <2>1, <2>2 DEF ProvisionStep, ObjectCached, ObjectExists
  <2>3. CASE EnsurePushBranchJob
    BY <1>3, <2>1, <2>3 DEF EnsurePushBranchJob
  <2>4. CASE \E k \in {"init", "push"} : JobEnds(k)
    BY <1>3, <2>1, <2>4 DEF JobEnds
  <2> QED BY <1>1, <1>3, <2>2, <2>3, <2>4
<1> QED BY <1>1, <1>2, <1>3

(* A pass starts with the branch of the cached team, and completes nothing. *)
LEMMA BeginDone ==
  ASSUME TypeOK, Begins
  PROVE  /\ local'.branch = cachedTeam.branch
         /\ local'.phase = "Completed" => cachedTeam.phase = "Completed"
         /\ pc' \notin FinishingSteps
<1> DEFINE w == Warned(cachedTeam)
<1>1. w \in TeamObject /\ w.branch = cachedTeam.branch /\ w.phase = cachedTeam.phase
  BY WarnedType DEF TypeOK, Warned, TeamObject
<1>2. ASSUME NEW st \in TeamObject
      PROVE  /\ SyncPodStatuses(st).branch = st.branch /\ SyncPodStatuses(st).phase = st.phase
             /\ \A p, r : Enter(st, p, r).branch = st.branch /\ Enter(st, p, r).phase = p
  BY DEF SyncPodStatuses, Enter, TeamObject
<1>3. cachedTeam \in TeamObject
  BY DEF TypeOK
<1> HIDE DEF w
<1>4. CASE BeginRunning
  <2>1. \/ pc' = "stop" /\ local' = Enter(cachedTeam, "TimedOut", "TimedOut")
        \/ pc' = "stop" /\ local' = Enter(w, "BudgetExceeded", "BudgetExceeded")
        \/ pc' = "failures" /\ local' = SyncPodStatuses(w)
    BY <1>4 DEF BeginRunning, w
  <2> QED BY <1>1, <1>2, <1>3, <2>1 DEF FinishingSteps
<1>5. CASE BeginInitializing
  BY <1>2, <1>3, <1>5 DEF BeginInitializing, FinishingSteps
<1>6. CASE BeginPending \/ BeginTerminal
  BY <1>6 DEF BeginPending, BeginTerminal, FinishingSteps
<1> QED BY <1>4, <1>5, <1>6 DEF Begins

(* The branch is recorded by checkJobStatus only, and Completed is entered by
   executeOnComplete only. *)
LEMMA WriteDone ==
  ASSUME TypeOK, Writes
  PROVE  /\ local'.branch = local.branch
              \/ (CheckPushBranchJob /\ local'.branch /\ cachedJobs["push"] = "Succeeded")
         /\ local'.phase = "Completed" =>
              local.phase = "Completed" \/ (pc = "onComplete" /\ local'.branch = local.branch)
         /\ pc' \in FinishingSteps => pc = "pushCheck" /\ pc' = "onComplete" /\ local'.branch
<1>0. local \in TeamObject
  BY DEF TypeOK
<1>1. ASSUME NEW p, NEW r
      PROVE  Enter(local, p, r).branch = local.branch /\ Enter(local, p, r).phase = p
  BY <1>0 DEF Enter, TeamObject
<1>2. ASSUME NEW t, NEW x
      PROVE  /\ SetPending(local, t, x).branch = local.branch
             /\ SetPending(local, t, x).phase = local.phase
  BY <1>0 DEF SetPending, TeamObject
<1>3. CASE Provisioned
  BY <1>0, <1>3 DEF Provisioned, Enter, Goto, TeamObject, FinishingSteps
<1>4. CASE DeployTeammate \/ SpawnTeammate
  BY <1>2, <1>4 DEF DeployTeammate, SpawnTeammate, Advance, Goto, FinishingSteps
<1>5. CASE Announce \/ RestartLimitExceeded \/ AgentFailed \/ PushBranchJobError
  BY <1>1, <1>5 DEF Announce, RestartLimitExceeded, AgentFailed, PushBranchJobError, Goto, FinishingSteps
<1>6. CASE DeleteFailedPod
  BY <1>0, <1>6 DEF DeleteFailedPod, TeamObject, FinishingSteps
<1>7. CASE CheckPushBranchJob
  <2>1. CASE cachedJobs["push"] = "Succeeded"
    BY <1>0, <1>7, <2>1 DEF CheckPushBranchJob, Goto, TeamObject, FinishingSteps
  <2>2. CASE cachedJobs["push"] # "Succeeded"
    <3>1. /\ pc' = "update"
          /\ \/ local' = Enter(local, "Failed", "FinalizationFailed")
             \/ local' = [local EXCEPT !.reason = "Finalizing"]
      BY <1>7, <2>2 DEF CheckPushBranchJob, Goto
    <3> QED BY <1>0, <1>1, <3>1 DEF TeamObject, FinishingSteps
  <2> QED BY <2>1, <2>2
<1>8. CASE ExecuteOnComplete
  BY <1>0, <1>8 DEF ExecuteOnComplete, Enter, Goto, TeamObject, FinishingSteps
<1>9. CASE CleanedUp /\ local.completedAt = NotYet
  BY <1>0, <1>9 DEF CleanedUp, Goto, TeamObject, FinishingSteps
<1> QED BY <1>3, <1>4, <1>5, <1>6, <1>7, <1>8, <1>9 DEF Writes

(* allPodsComplete leads to finalization only when every agent has succeeded,
   and the push-branch Job only to executeOnComplete when it has. *)
LEMMA FinishingStep ==
  ASSUME DoneInv, [Next]_vars
  PROVE  Finishing'
<1>0. TypeOK /\ TypeOK' /\ PodHistory /\ Finishing
  BY TypeStep DEF DoneInv, OrderInv
<1>1. succeeded = Agents => succeeded' = Agents
  BY <1>0, HistoryGrows DEF TypeOK
<1>2. CASE Begins
  BY <1>0, <1>2, BeginDone DEF Finishing, FinishingSteps
<1>3. CASE Writes
  <2>1. pc' \in FinishingSteps => pc = "pushCheck" /\ pc' = "onComplete" /\ local'.branch
    BY <1>0, <1>3, WriteDone
  <2> QED BY <1>0, <1>1, <2>1 DEF Finishing, FinishingSteps
<1>4. CASE Finalize
  <2>1. AllDone /\ UNCHANGED local /\ pc' \in {"pushJob", "onComplete"}
        /\ (pc' = "onComplete" => ~(NeedsPush /\ ~local.branch))
        /\ (pc' = "pushJob" => NeedsPush)
    BY <1>4 DEF Finalize, Goto
  <2>2. succeeded = Agents
    BY <1>0, <2>1 DEF AllDone, PodHistory, TypeOK
  <2> QED BY <1>1, <2>1, <2>2 DEF Finishing
<1>5. CASE ~Begins /\ ~Writes /\ ~Finalize
  <2>1. \/ UNCHANGED <<pc, local>>
        \/ pc = "pushJob" /\ pc' = "pushCheck"
        \/ pc' \notin FinishingSteps
    BY <1>5 DEF FinishingSteps, Begins, Writes, Next, Controller, Environment, vars, passVars,
       AwaitInitJob, ProvisionStep, ProvisionExists, DeployLead, PassOverTeammate, Respawn,
       SpawnExists, FireTeammateErrorEvent, StillRunning, EnsurePushBranchJob, TerminatePod, Stopped, CleanedUp,
       UpdateStatus, UpdateConflict, SyncTeam, SyncJobs, SyncClaims, TimerFires, ApiError, Crash,
       Tick, JobEnds, SyncPod, PodEnds, PodGone, Evict, Approve, Goto, Advance, Return
  <2> QED BY <1>0, <1>1, <2>1 DEF Finishing, FinishingSteps
<1> QED BY <1>2, <1>3, <1>4, <1>5

(* Whatever copy of the team says Completed, or shows a branch, is right. *)
LEMMA CopiesStep ==
  ASSUME DoneInv, [Next]_vars
  PROVE  CopiesTrue'
<1>0. /\ TypeOK /\ TypeOK' /\ CopiesTrue /\ Finishing /\ JobHistory
      /\ team \in TeamObject /\ local \in TeamObject
  BY TypeStep DEF DoneInv, OrderInv, TypeOK
<1>1. succeeded = Agents => succeeded' = Agents
  BY <1>0, HistoryGrows DEF TypeOK
<1>2. jobs["push"] = "Succeeded" => jobs'["push"] = "Succeeded"
  BY <1>0, HistoryGrows
<1> DEFINE Holds(st) ==
      /\ st.phase = "Completed" => succeeded' = Agents
      /\ st.phase = "Completed" /\ NeedsPush => st.branch
      /\ st.branch => jobs'["push"] = "Succeeded"
<1>3. Holds(team) /\ Holds(cachedTeam) /\ Holds(local)
  BY <1>0, <1>1, <1>2 DEF CopiesTrue, CopyTrue
<1>4. Holds(local')
  <2>1. CASE Begins
    BY <1>0, <1>3, <2>1, BeginDone
  <2>2. CASE Writes
    <3>1. cachedJobs["push"] = "Succeeded" => jobs'["push"] = "Succeeded"
      BY <1>0, <1>2 DEF JobHistory
    <3>2. pc = "onComplete" => succeeded' = Agents /\ (NeedsPush => local.branch)
      BY <1>0, <1>1 DEF Finishing, FinishingSteps
    <3>3. /\ local'.branch = local.branch
              \/ (CheckPushBranchJob /\ local'.branch /\ cachedJobs["push"] = "Succeeded")
          /\ local'.phase = "Completed" =>
               local.phase = "Completed" \/ (pc = "onComplete" /\ local'.branch = local.branch)
      BY <1>0, <2>2, WriteDone
    <3> QED BY <1>3, <3>1, <3>2, <3>3
  <2>3. CASE local' = local
    BY <1>3, <2>3
  <2>4. CASE local' = NewTeam
    BY <2>4 DEF NewTeam
  <2> QED BY <2>1, <2>2, <2>3, <2>4, CopySteps
<1>5. Holds(team')
  <2>1. CASE team' = team
    BY <1>3, <2>1
  <2>2. CASE team' = [local EXCEPT !.approved = team.approved]
    <3>1. team'.phase = local.phase /\ team'.branch = local.branch
      BY <1>0, <2>2 DEF TeamObject
    <3> QED BY <1>3, <3>1
  <2>3. ASSUME NEW x, team' = [team EXCEPT !.approved = @ \cup {x}] PROVE Holds(team')
    <3>1. team'.phase = team.phase /\ team'.branch = team.branch
      BY <1>0, <2>3 DEF TeamObject
    <3> QED BY <1>3, <3>1
  <2> QED BY <2>1, <2>2, <2>3, CopySteps
<1>6. Holds(cachedTeam')
  BY <1>3, CachedTeamStep
<1> QED BY <1>4, <1>5, <1>6 DEF CopiesTrue, CopyTrue

(* DoneInv is inductive. *)
LEMMA DoneInit == Init => DoneInv
<1> SUFFICES ASSUME Init PROVE DoneInv
  OBVIOUS
<1>1. team = NewTeam /\ cachedTeam = NewTeam /\ local = NewTeam /\ pc = "idle"
  BY DEF Init
<1>2. CopiesTrue
  <2>1. NewTeam.phase = "Pending" /\ NewTeam.branch = FALSE
    BY DEF NewTeam
  <2> QED BY <1>1, <2>1 DEF CopiesTrue, CopyTrue
<1>3. Finishing
  BY <1>1 DEF Finishing, FinishingSteps
<1>4. JobHistory
  BY DEF Init, JobHistory
<1> QED BY <1>2, <1>3, <1>4, OrderInit DEF DoneInv

(* Every step keeps DoneInv. *)
LEMMA DoneStep == DoneInv /\ [Next]_vars => DoneInv'
<1> SUFFICES ASSUME DoneInv, [Next]_vars PROVE DoneInv'
  OBVIOUS
<1>1. OrderInv'
  BY OrderStep DEF DoneInv
<1>2. JobHistory'
  <2>1. TypeOK /\ JobHistory
    BY DEF DoneInv, OrderInv
  <2> QED BY <2>1, HistoryGrows DEF JobHistory
<1> QED BY <1>1, <1>2, CopiesStep, FinishingStep DEF DoneInv

(* DoneInv holds in every reachable state. *)
LEMMA DoneAlways == Spec => []DoneInv
BY DoneInit, DoneStep, PTL DEF Spec

(* allPodsComplete and runFinalization are right for every team: a Completed
   team is one whose every agent has succeeded and, if a branch is to be
   published, whose push-branch Job has succeeded. *)
THEOREM CompletedMeansDoneHolds == Spec => []CompletedMeansDone
<1>1. DoneInv => CompletedMeansDone
  BY DEF DoneInv, CopiesTrue, CopyTrue, CompletedMeansDone
<1> QED BY <1>1, DoneAlways, PTL
-----------------------------------------------------------------------------

(* A team that has left Pending does not return to it. *)
LEMMA PendingLeft ==
  ASSUME StatusInv, [Next]_vars, team.phase # "Pending"
  PROVE  team'.phase # "Pending"
BY TeamStep DEF PhaseEdges, Terminal

(* A pass past the provisioning, and a cache past Pending, belong to a team
   that has left Pending, after every step. *)
LEMMA LeftPendingStep ==
  ASSUME StatusInv, LeftPending, [Next]_vars
  PROVE  LeftPending'
<1> DEFINE Past == {"lead", "deploy", "announce"} \cup RunningSteps
<1>1. cachedTeam'.phase # "Pending" => team'.phase # "Pending"
  BY CachedTeamStep, PendingLeft DEF LeftPending
<1>2. pc' \in Past => pc \in Past \/ BeginInitializing \/ BeginRunning
  BY DEF RunningSteps, FinishingSteps, Next, Controller, Environment, vars, passVars, Begin, Dispatches,
     BeginPending, AwaitInitJob, BeginTerminal, ProvisionStep, Provisioning, ProvisionExists,
     Provisioned, DeployLead, DeployTeammate, Announce, PassOverTeammate, RestartLimitExceeded,
     DeleteFailedPod, Respawn, SpawnTeammate, SpawnExists, AgentFailed, FireTeammateErrorEvent, StillRunning, Finalize,
     EnsurePushBranchJob, PushBranchJobError, CheckPushBranchJob, ExecuteOnComplete, TerminatePod,
     Stopped, CleanedUp, UpdateStatus, UpdateConflict, SyncTeam, SyncJobs, SyncClaims, TimerFires,
     ApiError, Crash, Tick, JobEnds, SyncPod, PodEnds, PodGone, Evict, Approve, Goto, Advance, Return
<1>3. BeginInitializing \/ BeginRunning => cachedTeam.phase # "Pending"
  BY DEF BeginInitializing, BeginRunning, Begin, Dispatches
<1>4. pc' \in Past => team'.phase # "Pending"
  BY <1>2, <1>3, PendingLeft DEF LeftPending
<1> QED BY <1>1, <1>4 DEF LeftPending

(* The initial state satisfies the inductive invariant. *)
LEMMA InvInit == Init => IInv
<1>1. Init => LeftPending
  BY DEF Init, LeftPending, RunningSteps, FinishingSteps, NewTeam
<1> QED BY <1>1, StatusInit, DoneInit DEF IInv

(* Every step keeps the inductive invariant. *)
LEMMA InvStep == IInv /\ [Next]_vars => IInv'
BY StatusStep, DoneStep, LeftPendingStep DEF IInv

(* IInv is inductive, and holds in every behaviour of the controller. *)
THEOREM InvAlways == Spec => []IInv
BY InvInit, InvStep, PTL DEF Spec

(* The agents that have a pod. *)
Live == {a \in Agents : pods[a] # "None"}

(* ensureAgentPod starts the agent or does nothing. *)
LEMMA EnsureStarts ==
  ASSUME TypeOK, NEW a \in Agents, EnsureAgentPod(a)
  PROVE  Live' = Live \/ (a \notin Live /\ Live' = Live \cup {a})
BY DEF TypeOK, EnsureAgentPod, Live

(* A deleted pod stops the agent now, or later when it has terminated. *)
LEMMA DeleteStops ==
  ASSUME TypeOK, NEW a \in Agents, DeletePod(a)
  PROVE  Live' = Live \/ (a \in Live /\ Live' = Live \ {a})
<1>1. /\ pods \in [Agents -> PodStates]
      /\ pods' \in [Agents -> PodStates]
      /\ \A b \in Agents \ {a} : pods'[b] = pods[b]
      /\ pods[a] = "None" => pods'[a] = "None"
  BY DeleteType DEF TypeOK, DeletePod
<1> QED BY <1>1 DEF Live

(* A new system has not left the abstract initial state. *)
LEMMA RefinesInit == Init => Lifecycle!Init
<1> SUFFICES ASSUME Init PROVE Lifecycle!Init
  OBVIOUS
<1>1. team.phase = "Pending" /\ team.approved = {}
  BY DEF Init, NewTeam
<1>2. \A a \in Agents : pods[a] = "None"
  BY DEF Init
<1>3. succeeded = {}
  BY DEF Init
<1> QED BY <1>1, <1>2, <1>3 DEF Lifecycle!Init

(* A ready agent's pod is an abstract Start, or nothing when it is there. *)
LEMMA RefinesEnsure ==
  ASSUME TypeOK, NEW a \in Agents, EnsureAgentPod(a), UNCHANGED <<team, succeeded>>,
         team.phase # "Pending", a \in Teammates => Ready(a), a = "lead" \/ a \in Teammates
  PROVE  [Lifecycle!Next]_(Lifecycle!lifecycleVars)
<1>1. CASE Live' = Live
  BY <1>1 DEF Lifecycle!lifecycleVars, Live
<1>2. CASE a \notin Live /\ Live' = Live \cup {a}
  <2>1. Lifecycle!Start(a)
    BY <1>2, OrderAssumption DEF Lifecycle!Start, Live, Ready
  <2> QED BY <2>1 DEF Lifecycle!Next
<1> QED BY <1>1, <1>2, EnsureStarts

(* Removing a pod is an abstract Stop, or nothing while it terminates. *)
LEMMA RefinesDelete ==
  ASSUME TypeOK, NEW a \in Agents, UNCHANGED <<team, succeeded>>,
         Live' = Live \/ (a \in Live /\ Live' = Live \ {a})
  PROVE  [Lifecycle!Next]_(Lifecycle!lifecycleVars)
<1>1. CASE Live' = Live
  BY <1>1 DEF Lifecycle!lifecycleVars, Live
<1>2. CASE a \in Live /\ Live' = Live \ {a}
  <2>1. Lifecycle!Stop(a)
    BY <1>2 DEF Lifecycle!Stop, Live
  <2> QED BY <2>1 DEF Lifecycle!Next
<1> QED BY <1>1, <1>2

(* Every step of the controller and its environment is a step of the abstract
   lifecycle, or leaves it alone. *)
LEMMA RefinesStep ==
  ASSUME IInv, [Next]_vars
  PROVE  [Lifecycle!Next]_(Lifecycle!lifecycleVars)
<1>0. /\ TypeOK /\ StatusInv /\ LoopBounds /\ ApprovalsTrue /\ PodHistory /\ LeftPending
      /\ CopyTrue(local) /\ team \in TeamObject /\ local \in TeamObject
  BY DEF IInv, StatusInv, DoneInv, OrderInv, CopiesTrue, TypeOK
<1>1. ASSUME pc \in {"deploy", "failures", "respawn", "spawn"} PROVE Tm \in Teammates /\ Tm \in Agents
  BY <1>0, <1>1, OrderAssumption DEF LoopBounds, Tm, Teammates, Agents
<1>2. \/ UNCHANGED <<team, pods, succeeded>>
      \/ UpdateStatus \/ DeployLead \/ DeployTeammate \/ SpawnTeammate \/ Respawn
      \/ DeleteFailedPod \/ TerminatePod
      \/ \E a \in Agents : PodEnds(a) \/ PodGone(a) \/ Evict(a)
      \/ \E x \in Approvals : Approve(x)
  BY DEF Next, Controller, Environment, vars, apiVars, cacheVars, passVars, queueVars,
     envVars, histVars, Begin, Dispatches, BeginPending, BeginInitializing, AwaitInitJob, BeginRunning,
     BeginTerminal, ProvisionStep, ProvisionExists, Provisioned, Announce, PassOverTeammate,
     RestartLimitExceeded, SpawnExists, AgentFailed, FireTeammateErrorEvent, StillRunning, Finalize, EnsurePushBranchJob,
     PushBranchJobError, CheckPushBranchJob, ExecuteOnComplete, Stopped, CleanedUp,
     UpdateConflict, SyncTeam, SyncJobs, SyncClaims, TimerFires, ApiError, Crash, Tick,
     JobEnds, SyncPod
<1>3. CASE UNCHANGED <<team, pods, succeeded>>
  BY <1>3 DEF Lifecycle!lifecycleVars
<1>4. CASE UpdateStatus
  <2>1. /\ UNCHANGED <<pods, succeeded>> /\ team'.phase = local.phase
        /\ team'.approved = team.approved /\ local.phase \in Phases
    BY <1>0, <1>4 DEF UpdateStatus, histVars, TeamObject
  <2>2. CASE team'.phase = team.phase
    BY <2>1, <2>2 DEF Lifecycle!lifecycleVars
  <2>3. CASE team'.phase # team.phase
    <3>1. <<team.phase, team'.phase>> \in Lifecycle!Edges
      BY <1>0, <2>3, TeamStep DEF PhaseEdges, Terminal, Lifecycle!Edges, Lifecycle!Ended
    <3>2. team'.phase \in Lifecycle!Ended \cup {"Initializing", "Running"}
      BY <3>1 DEF Lifecycle!Edges, Lifecycle!Ended
    <3>3. team'.phase = "Completed" => succeeded = Agents
      BY <1>0, <2>1 DEF CopyTrue
    <3>4. Lifecycle!Move(team'.phase)
      BY <2>1, <3>1, <3>3 DEF Lifecycle!Move
    <3> QED BY <3>2, <3>4 DEF Lifecycle!Next
  <2> QED BY <2>2, <2>3
<1>5. CASE DeployLead
  <2>1. EnsureAgentPod("lead") /\ UNCHANGED <<team, succeeded>> /\ pc = "lead"
    BY <1>5 DEF DeployLead
  <2>2. "lead" \in Agents /\ "lead" \notin Teammates /\ team.phase # "Pending"
    BY <1>0, <2>1, OrderAssumption DEF Agents, LeftPending
  <2> QED BY <1>0, <2>1, <2>2, RefinesEnsure
<1>6. CASE DeployTeammate \/ SpawnTeammate
  <2>1. /\ UNCHANGED <<team, succeeded>> /\ pc \in {"deploy", "spawn"}
        /\ UNCHANGED pods \/ (EnsureAgentPod(Tm) /\ Ready(Tm))
    BY <1>0, <1>6, LetThrough DEF DeployTeammate, SpawnTeammate, MaySpawn
  <2>2. team.phase # "Pending"
    BY <1>0, <2>1 DEF LeftPending, RunningSteps
  <2> QED BY <1>0, <1>1, <1>3, <2>1, <2>2, RefinesEnsure
<1>7. CASE Respawn
  <2>1. EnsureAgentPod(Tm) /\ UNCHANGED <<team, succeeded>> /\ pc = "respawn" /\ Ready(Tm)
    BY <1>0, <1>7 DEF Respawn, PodHistory, Tm
  <2>2. team.phase # "Pending"
    BY <1>0, <2>1 DEF LeftPending, RunningSteps
  <2> QED BY <1>0, <1>1, <2>1, <2>2, RefinesEnsure
<1>8. CASE DeleteFailedPod
  <2>1. DeletePod(Tm) /\ UNCHANGED <<team, succeeded>> /\ pc = "failures"
    BY <1>8 DEF DeleteFailedPod
  <2> QED BY <1>0, <1>1, <2>1, DeleteStops, RefinesDelete
<1>9. CASE TerminatePod
  <2>1. UNCHANGED <<team, succeeded>>
    BY <1>9 DEF TerminatePod, histVars
  <2>2. PICK a \in Agents : DeletePod(a)
    BY <1>0, <1>9 DEF TerminatePod, TypeOK
  <2> QED BY <1>0, <2>1, <2>2, DeleteStops, RefinesDelete
<1>10. ASSUME NEW a \in Agents, PodEnds(a) PROVE [Lifecycle!Next]_(Lifecycle!lifecycleVars)
  <2>1. UNCHANGED team /\ Live' = Live /\ a \in Live /\ succeeded' \in {succeeded, succeeded \cup {a}}
    BY <1>0, <1>10 DEF PodEnds, Live, TypeOK
  <2>2. CASE succeeded' = succeeded
    BY <2>1, <2>2 DEF Lifecycle!lifecycleVars, Live
  <2>3. CASE succeeded' = succeeded \cup {a}
    <3>1. Lifecycle!Succeed(a)
      BY <2>1, <2>3 DEF Lifecycle!Succeed, Live
    <3> QED BY <3>1 DEF Lifecycle!Next
  <2> QED BY <2>1, <2>2, <2>3
<1>11. ASSUME NEW a \in Agents, PodGone(a) PROVE [Lifecycle!Next]_(Lifecycle!lifecycleVars)
  <2>1. UNCHANGED <<team, succeeded>> /\ a \in Live /\ Live' = Live \ {a}
    BY <1>0, <1>11 DEF PodGone, Live, TypeOK, histVars
  <2> QED BY <1>0, <2>1, RefinesDelete
<1>12. ASSUME NEW a \in Agents, Evict(a) PROVE [Lifecycle!Next]_(Lifecycle!lifecycleVars)
  BY <1>0, <1>12, DeleteStops, RefinesDelete DEF Evict, histVars
<1>13. ASSUME NEW x \in Approvals, Approve(x) PROVE [Lifecycle!Next]_(Lifecycle!lifecycleVars)
  <2>1. /\ UNCHANGED <<pods, succeeded>> /\ team'.phase = team.phase
        /\ team'.approved = team.approved \cup {x}
    BY <1>0, <1>13 DEF Approve, histVars, TeamObject
  <2>2. Lifecycle!Grant(x)
    BY <2>1 DEF Lifecycle!Grant
  <2> QED BY <2>2 DEF Lifecycle!Next
<1> QED BY <1>2, <1>3, <1>4, <1>5, <1>6, <1>7, <1>8, <1>9, <1>10, <1>11, <1>12, <1>13

(* The controller, with its lagging caches, lost passes, conflicts and
   restarts, implements the documented lifecycle, for every team. *)
THEOREM LifecycleRefined == Spec => ImplementsLifecycle
<1>1. IInv /\ [Next]_vars => [Lifecycle!Next]_(Lifecycle!lifecycleVars)
  BY RefinesStep
<1> QED BY <1>1, RefinesInit, InvAlways, PTL DEF Spec, ImplementsLifecycle, Lifecycle!Spec
==============================================================================
