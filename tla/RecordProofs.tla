---------------------------- MODULE RecordProofs -----------------------------
(***************************************************************************)
(* What a status records, and what exists before a pod: proofs of          *)
(* ProvisionedBeforePods, FailureHasCause, WarnedBeforeExceeded,           *)
(* RecordedMeansSent, and of the stages' order and phases.  All of it is   *)
(* true of every copy of the team, however old: what a copy records was    *)
(* true of the world when it was written, and the world only grows.        *)
(***************************************************************************)
EXTENDS DoneProofs

(* Failures and claims are not forgotten, the counts of the effects do not go
   down, and the init Job that has failed has failed. *)
LEMMA WorldGrows ==
  ASSUME TypeOK, [Next]_vars
  PROVE  /\ failed \subseteq failed'
         /\ claims \subseteq claims'
         /\ \A e \in Effects : sent'[e] \in sent[e]..MaxCount
         /\ \A j \in {"init", "push"} : jobs[j] = "Failed" => jobs'[j] = "Failed"
<1>1. /\ failed' = failed \/ \E a \in Agents : PodEnds(a)
      /\ claims' = claims \/ ProvisionStep
      /\ sent' = sent \/ \E e \in Effects : Count(e)
      /\ jobs' = jobs \/ ProvisionStep \/ EnsurePushBranchJob \/ \E j \in {"init", "push"} : JobEnds(j)
  BY NameFacts DEF Next, Controller, Environment, vars, apiVars, cacheVars, passVars, queueVars,
     envVars, histVars, Begin, Dispatches, BeginPending, BeginInitializing, AwaitInitJob, BeginRunning,
     BeginTerminal, ProvisionStep, ProvisionExists, Provisioned, DeployLead,
     DeployTeammate, Announce, PassOverTeammate, RestartLimitExceeded, DeleteFailedPod, Respawn,
     SpawnTeammate, SpawnExists, AgentFailed, FireTeammateErrorEvent, StillRunning, Finalize, EnsurePushBranchJob,
     PushBranchJobError, CheckPushBranchJob, ExecuteOnComplete, TerminatePod, Stopped, CleanedUp,
     UpdateStatus, UpdateConflict, SyncTeam, SyncJobs, SyncClaims, TimerFires, ApiError, Crash, Tick,
     JobEnds, SyncPod, PodEnds, PodGone, Evict, Approve
<1>2. failed \subseteq failed'
  BY <1>1 DEF PodEnds
<1>3. claims \subseteq claims'
  BY <1>1 DEF ProvisionStep
<1>4. ASSUME NEW e \in Effects PROVE sent'[e] \in sent[e]..MaxCount
  <2>1. sent \in [Effects -> 0..MaxCount] /\ MaxCount \in Nat
    BY BoundsAssumption DEF TypeOK
  <2>2. ASSUME NEW f \in Effects, Count(f) PROVE sent'[e] \in sent[e]..MaxCount
    BY <1>4, <2>1, <2>2 DEF Count
  <2> QED BY <1>1, <1>4, <2>1, <2>2
<1>5. ASSUME NEW j \in {"init", "push"}, jobs[j] = "Failed" PROVE jobs'[j] = "Failed"
  <2>1. jobs \in [{"init", "push"} -> JobStates]
    BY DEF TypeOK
  <2>2. CASE ProvisionStep
    BY <1>5, <2>1, <2>2 DEF ProvisionStep, ObjectCached, ObjectExists
  <2>3. CASE EnsurePushBranchJob
    BY <1>5, <2>1, <2>3 DEF EnsurePushBranchJob
  <2>4. CASE \E k \in {"init", "push"} : JobEnds(k)
    BY <1>5, <2>1, <2>4 DEF JobEnds
  <2> QED BY <1>1, <1>5, <2>2, <2>3, <2>4
<1> QED BY <1>2, <1>3, <1>4, <1>5

(* An effect that a step attempts is counted, if it is one that is counted. *)
LEMMA Counts ==
  ASSUME TypeOK, NEW e \in Effects, Count(e), e \in Counted
  PROVE  sent'[e] > 0
<1>1. sent \in [Effects -> 0..MaxCount] /\ MaxCount \in Nat /\ MaxCount > 0
  BY BoundsAssumption DEF TypeOK
<1>2. sent[e] \in 0..MaxCount
  BY <1>1
<1> QED BY <1>1, <1>2 DEF Count

(* The caches follow what has ended and what exists. *)
LEMMA EndsStep ==
  ASSUME TypeOK, EndsTrue, [Next]_vars
  PROVE  EndsTrue'
<1>0. failed \subseteq failed' /\ claims \subseteq claims' /\ cachedJobs' \in {cachedJobs, jobs}
  BY WorldGrows, HistoryGrows
<1>1. cachedClaims' \subseteq claims'
  <2>1. cachedClaims' \in {cachedClaims, claims}
    BY DEF Next, Controller, Environment, vars, apiVars, cacheVars, passVars, queueVars,
     envVars, histVars, Begin, Dispatches, BeginPending, BeginInitializing, AwaitInitJob, BeginRunning,
     BeginTerminal, ProvisionStep, ProvisionExists, Provisioned, DeployLead,
     DeployTeammate, Announce, PassOverTeammate, RestartLimitExceeded, DeleteFailedPod, Respawn,
     SpawnTeammate, SpawnExists, AgentFailed, FireTeammateErrorEvent, StillRunning, Finalize, EnsurePushBranchJob,
     PushBranchJobError, CheckPushBranchJob, ExecuteOnComplete, TerminatePod, Stopped, CleanedUp,
     UpdateStatus, UpdateConflict, SyncTeam, SyncJobs, SyncClaims, TimerFires, ApiError, Crash, Tick,
     JobEnds, SyncPod, PodEnds, PodGone, Evict, Approve
  <2> QED BY <1>0, <2>1 DEF EndsTrue
<1>2. ASSUME NEW j \in {"init", "push"}, cachedJobs'[j] \in {"Succeeded", "Failed"}
      PROVE  jobs'[j] = cachedJobs'[j]
  <2>1. jobs[j] = cachedJobs'[j]
    BY <1>0, <1>2 DEF EndsTrue
  <2> QED BY <1>2, <2>1, WorldGrows, HistoryGrows
<1>3. ASSUME NEW a \in Agents, pods'[a] = "Failed" \/ cachedPods'[a] = "Failed"
      PROVE  a \in failed'
  <2>0. /\ pods \in [Agents -> PodStates] /\ cachedPods \in [Agents -> PodStates]
        /\ Teammates \subseteq Agents /\ "lead" \in Agents
        /\ (pods[a] = "Failed" \/ cachedPods[a] = "Failed" => a \in failed')
    BY <1>0 DEF TypeOK, EndsTrue, Agents
  <2>1. CASE DeployLead \/ DeployTeammate \/ SpawnTeammate \/ Respawn
    <3>1. cachedPods' = cachedPods /\ (pods' = pods \/ \E b : pods' = [pods EXCEPT ![b] = "Running"])
      BY <2>1 DEF DeployLead, DeployTeammate, SpawnTeammate, Respawn, EnsureAgentPod, cacheVars
    <3> QED BY <1>3, <2>0, <3>1
  <2>2. CASE DeleteFailedPod \/ TerminatePod \/ \E b \in Agents : Evict(b)
    <3>1. cachedPods' = cachedPods /\ \E b : DeletePod(b)
      BY <2>2 DEF DeleteFailedPod, TerminatePod, Evict, cacheVars
    <3> QED BY <1>3, <2>0, <3>1 DEF DeletePod
  <2>3. CASE Crash
    BY <1>3, <2>0, <2>3 DEF Crash, apiVars
  <2>4. ASSUME NEW b \in Agents, SyncPod(b) \/ PodEnds(b) \/ PodGone(b) PROVE a \in failed'
    BY <1>3, <2>0, <2>4 DEF SyncPod, PodEnds, PodGone, cacheVars, apiVars
  <2>5. CASE UNCHANGED <<pods, cachedPods, succeeded>>
    BY <1>3, <2>0, <2>5
  <2> QED BY <2>1, <2>2, <2>3, <2>4, <2>5, PodSteps
<1> QED BY <1>1, <1>2, <1>3 DEF EndsTrue
-----------------------------------------------------------------------------
(* Reasons and records. *)

(* CopyRecords in a world of failures F, successes C, Jobs J and effects S. *)
Records(st, F, C, J, S) ==
  /\ st.reason = "AgentFailed" => F # {}
  /\ st.reason = "InitJobFailed" => J["init"] = "Failed"
  /\ st.reason = "RestartLimitExceeded" =>
       \E t \in Teammates : t \in F /\ st.mates[t].restarts = MaxRestarts
  /\ st.reason = "FinalizationFailed" => NeedsPush /\ C = Agents
  /\ st.phase = "BudgetExceeded" => st.warned
  /\ st.warned /\ "budget.warning" \in Counted => S["budget.warning"] > 0
  /\ "teammate.error" \in Counted =>
       \A t \in Teammates :
         st.mates[t].restarts <= S["teammate.error"] \/ S["teammate.error"] = MaxCount
  /\ st.delivered /\ OnComplete = "create-pr" /\ "onComplete" \in Counted
       => S["onComplete"] > 0

RecordsNext(st) == Records(st, failed', succeeded', jobs', sent')

(* What a copy records is as true after a step as it was before. *)
LEMMA RecordsLast ==
  ASSUME TypeOK, [Next]_vars, NEW st \in TeamObject, CopyRecords(st)
  PROVE  RecordsNext(st)
<1>1. /\ failed \subseteq failed' /\ (jobs["init"] = "Failed" => jobs'["init"] = "Failed")
      /\ \A e \in Effects : sent'[e] \in sent[e]..MaxCount
  BY WorldGrows
<1>2. succeeded = Agents => succeeded' = Agents
  BY HistoryGrows, TypeStep DEF TypeOK
<1>3. sent \in [Effects -> 0..MaxCount] /\ MaxCount \in Nat
  BY BoundsAssumption DEF TypeOK
<1>4. ASSUME "teammate.error" \in Counted, NEW t \in Teammates
      PROVE  st.mates[t].restarts <= sent'["teammate.error"] \/ sent'["teammate.error"] = MaxCount
  <2>1. st.mates[t].restarts \in 0..MaxRestarts /\ MaxRestarts \in Nat
    BY LifecycleAssumption DEF TeamObject, MateStatus
  <2>2. st.mates[t].restarts <= sent["teammate.error"] \/ sent["teammate.error"] = MaxCount
    BY <1>4 DEF CopyRecords
  <2> QED BY <1>1, <1>3, <2>1, <2>2, NameFacts
<1>5. ASSUME NEW e \in Effects, sent[e] > 0 PROVE sent'[e] > 0
  BY <1>1, <1>3, <1>5
<1> QED BY <1>1, <1>2, <1>4, <1>5, NameFacts DEF RecordsNext, Records, CopyRecords

(* A reason that is not a failure is true; a phase that is not BudgetExceeded
   needs no warning. *)
LEMMA RecordsKept ==
  ASSUME NEW st, NEW new, RecordsNext(st),
         new.reason = st.reason
           \/ new.reason \notin {"AgentFailed", "InitJobFailed", "RestartLimitExceeded",
                                  "FinalizationFailed"},
         \A t \in Teammates : new.mates[t].restarts = st.mates[t].restarts,
         new.phase = "BudgetExceeded" => st.phase = "BudgetExceeded",
         new.warned = st.warned, new.delivered = st.delivered
  PROVE  RecordsNext(new)
BY DEF RecordsNext, Records

(* What the handlers' small changes to a copy leave alone. *)
LEMMA FieldFacts ==
  ASSUME NEW st \in TeamObject
  PROVE  /\ \A p, r :
              /\ Enter(st, p, r).phase = p /\ Enter(st, p, r).reason = r
              /\ Enter(st, p, r).mates = st.mates /\ Enter(st, p, r).warned = st.warned
              /\ Enter(st, p, r).delivered = st.delivered /\ Enter(st, p, r).stages = st.stages
         /\ \A t, x :
              /\ SetPending(st, t, x).phase = st.phase /\ SetPending(st, t, x).reason = st.reason
              /\ SetPending(st, t, x).warned = st.warned
              /\ SetPending(st, t, x).delivered = st.delivered
              /\ SetPending(st, t, x).stages = st.stages
              /\ \A u \in Teammates : SetPending(st, t, x).mates[u].restarts = st.mates[u].restarts
         /\ Warned(st).phase = st.phase /\ Warned(st).reason = st.reason
         /\ Warned(st).mates = st.mates /\ Warned(st).delivered = st.delivered
         /\ Warned(st).warned = (st.warned \/ FiresWarning(st))
         /\ Warned(st).stages = st.stages /\ Warned(st).approved = st.approved
         /\ SyncPodStatuses(st).phase = st.phase /\ SyncPodStatuses(st).reason = st.reason
         /\ SyncPodStatuses(st).mates = st.mates /\ SyncPodStatuses(st).delivered = st.delivered
         /\ SyncPodStatuses(st).warned = st.warned
<1>1. ASSUME NEW t, NEW x, NEW u \in Teammates
      PROVE  SetPending(st, t, x).mates[u].restarts = st.mates[u].restarts
  <2>1. SetPending(st, t, x).mates = [st.mates EXCEPT ![t].pending = x]
    BY DEF SetPending, TeamObject
  <2> QED BY <2>1 DEF TeamObject, MateStatus
<1> QED BY <1>1 DEF Enter, SetPending, Warned, SyncPodStatuses, TeamObject

(* A cost that is over the budget is over 80 % of it. *)
LEMMA OverBudgetOverWarning ==
  ASSUME NEW e, OverBudget(e), Cost(e) \in Int
  PROVE  OverWarning(e)
BY LifecycleAssumption DEF OverBudget, OverWarning

(* The copy a pass starts with records what the cached copy does, and the
   init Job's failure, the limit or the warning that the pass has found. *)
LEMMA BeginRecords ==
  ASSUME TypeOK, EndsTrue, RecordsNext(cachedTeam), [Next]_vars, Begins
  PROVE  RecordsNext(local')
<1>0. cachedTeam \in TeamObject
  BY DEF TypeOK
<1>1. CASE BeginPending \/ BeginTerminal
  BY <1>1 DEF BeginPending, BeginTerminal
<1>2. CASE BeginInitializing
  <2>1. CASE local' = cachedTeam
    BY <2>1
  <2>2. CASE local' = Enter(cachedTeam, "TimedOut", "TimedOut")
    BY <1>0, <2>2, FieldFacts, RecordsKept
  <2>3. CASE local' = Enter(cachedTeam, "Failed", "InitJobFailed") /\ cachedJobs["init"] = "Failed"
    <3>1. jobs'["init"] = "Failed"
      BY <2>3, WorldGrows DEF EndsTrue
    <3> QED BY <1>0, <2>3, <3>1, FieldFacts DEF RecordsNext, Records
  <2> QED BY <1>2, <2>1, <2>2, <2>3 DEF BeginInitializing
<1>3. CASE BeginRunning
  <2>1. CASE local' = Enter(cachedTeam, "TimedOut", "TimedOut")
    BY <1>0, <2>1, FieldFacts, RecordsKept
  <2> DEFINE w == Warned(cachedTeam)
  <2>2. CASE ~IsTimedOut(cachedTeam)
    <3>1. w \in TeamObject
      BY <1>0, WarnedType
    <3>2. FiresWarning(cachedTeam) /\ "budget.warning" \in Counted => sent'["budget.warning"] > 0
      BY <1>3, <2>2, NameFacts, Counts DEF BeginRunning
    <3>3. RecordsNext(w)
      <4>1. /\ w.phase = cachedTeam.phase /\ w.reason = cachedTeam.reason
            /\ w.mates = cachedTeam.mates /\ w.delivered = cachedTeam.delivered
            /\ w.warned => cachedTeam.warned \/ FiresWarning(cachedTeam)
            /\ cachedTeam.warned => w.warned
        BY <1>0, FieldFacts
      <4> HIDE DEF w
      <4> QED BY <3>2, <4>1 DEF RecordsNext, Records
    <3>4. CASE OverBudget(Elapsed(cachedTeam))
      <4>1. local' = Enter(w, "BudgetExceeded", "BudgetExceeded")
        BY <1>3, <2>2, <3>4 DEF BeginRunning
      <4>2. Elapsed(cachedTeam) \in Int
        BY <1>0 DEF Elapsed, TeamObject, Time, NotYet, TypeOK
      <4>3. Cost(Elapsed(cachedTeam)) \in Int
        BY <4>2, LifecycleAssumption DEF Cost
      <4>4. w.warned
        BY <1>0, <3>4, <4>3, OverBudgetOverWarning, FieldFacts DEF FiresWarning
      <4> HIDE DEF w
      <4> QED BY <3>1, <3>3, <4>1, <4>4, FieldFacts DEF RecordsNext, Records
    <3>5. CASE ~OverBudget(Elapsed(cachedTeam))
      <4>1. local' = SyncPodStatuses(w)
        BY <1>3, <2>2, <3>5 DEF BeginRunning
      <4> HIDE DEF w
      <4> QED BY <3>1, <3>3, <4>1, FieldFacts, RecordsKept
    <3> QED BY <3>4, <3>5
  <2> QED BY <1>3, <2>1, <2>2 DEF BeginRunning
<1> QED BY <1>1, <1>2, <1>3 DEF Begins

(* A write to the copy records a failure that the cache has shown, one of a
   finalization that every agent's success has started, an event that the same
   step has sent, or nothing new. *)
LEMMA WriteRecords ==
  ASSUME TypeOK, LoopBounds, EndsTrue, Finishing, CopyRecords(local), RecordsNext(local),
         [Next]_vars, Writes
  PROVE  RecordsNext(local')
<1>0. /\ local \in TeamObject /\ failed \subseteq failed'
      /\ \A a \in Agents : cachedPods[a] = "Failed" => a \in failed
  BY WorldGrows DEF TypeOK, EndsTrue
<1>1. CASE Provisioned
  <2>1. /\ local'.phase = "Initializing" /\ local'.reason = "Initializing"
        /\ local'.mates = local.mates /\ local'.warned = local.warned
        /\ local'.delivered = local.delivered
    BY <1>0, <1>1 DEF Provisioned, Enter, TeamObject
  <2> QED BY <2>1, RecordsKept
<1>2. CASE DeployTeammate \/ SpawnTeammate
  <2>1. local' = local \/ \E t, x : local' = SetPending(local, t, x)
    BY <1>2 DEF DeployTeammate, SpawnTeammate
  <2>2. ASSUME NEW t, NEW x PROVE RecordsNext(SetPending(local, t, x))
    BY <1>0, FieldFacts, RecordsKept
  <2> QED BY <2>1, <2>2
<1>3. CASE Announce
  <2>1. local' = Enter(local, "Running", "Running")
    BY <1>3 DEF Announce
  <2> QED BY <1>0, <2>1, FieldFacts, RecordsKept
<1>10. ASSUME pc \in {"pushJob", "pushCheck"}, local' = Enter(local, "Failed", "FinalizationFailed")
       PROVE  RecordsNext(local')
  <2>1. NeedsPush /\ succeeded = Agents
    BY <1>10 DEF Finishing, FinishingSteps
  <2>2. succeeded' = Agents
    BY <2>1, HistoryGrows, TypeStep DEF TypeOK
  <2>3. /\ local'.phase = "Failed" /\ local'.reason = "FinalizationFailed"
        /\ local'.mates = local.mates /\ local'.warned = local.warned
        /\ local'.delivered = local.delivered
    BY <1>0, <1>10, FieldFacts
  <2> QED BY <2>1, <2>2, <2>3 DEF RecordsNext, Records
<1>11. CASE PushBranchJobError
  BY <1>10, <1>11 DEF PushBranchJobError
<1>4. CASE RestartLimitExceeded
  <2>1. Tm \in Teammates /\ Tm \in Agents /\ cachedPods[Tm] = "Failed"
    BY <1>4, OrderAssumption DEF RestartLimitExceeded, LoopBounds, Tm, Teammates, Agents
  <2>2. local.mates[Tm].restarts = MaxRestarts
    <3>1. local.mates[Tm].restarts \in 0..MaxRestarts
      BY <1>0, <2>1 DEF TeamObject, MateStatus
    <3> QED BY <1>4, <3>1, LifecycleAssumption DEF RestartLimitExceeded, RestartsLeft
  <2>4. local' = Enter(local, "Failed", "RestartLimitExceeded")
    BY <1>4 DEF RestartLimitExceeded
  <2>5. Tm \in failed' /\ failed' # {}
    BY <1>0, <2>1
  <2>6. /\ local'.phase = "Failed" /\ local'.reason = "RestartLimitExceeded"
        /\ local'.mates = local.mates /\ local'.warned = local.warned
        /\ local'.delivered = local.delivered
    BY <1>0, <2>4, FieldFacts
  <2> QED BY <2>1, <2>2, <2>5, <2>6 DEF RecordsNext, Records
<1>5. CASE DeleteFailedPod
  <2>1. /\ local'.phase = local.phase /\ local'.reason = local.reason
        /\ local'.warned = local.warned /\ local'.delivered = local.delivered
        /\ local'.mates = [local.mates EXCEPT ![Tm].restarts = @ + 1]
        /\ local.mates[Tm].restarts < MaxRestarts
    BY <1>0, <1>5 DEF DeleteFailedPod, RestartsLeft, TeamObject
  <2>2. /\ local.mates \in [Teammates -> MateStatus] /\ MaxRestarts \in Nat
        /\ \A t \in Teammates : local.mates[t].restarts \in 0..MaxRestarts
    BY <1>0, LifecycleAssumption DEF TeamObject, MateStatus
  <2>3. ASSUME NEW t \in Teammates
        PROVE  /\ t # Tm => local'.mates[t].restarts = local.mates[t].restarts
               /\ t = Tm => local'.mates[t].restarts = local.mates[t].restarts + 1
    BY <2>1, <2>2 DEF MateStatus
  <2>4. ASSUME NEW t \in Teammates, local.mates[t].restarts = MaxRestarts
        PROVE  local'.mates[t].restarts = MaxRestarts
    <3>1. t # Tm
      BY <2>1, <2>2, <2>4
    <3> QED BY <2>3, <2>4, <3>1
  <2>5. ASSUME "teammate.error" \in Counted, NEW t \in Teammates
        PROVE  local'.mates[t].restarts <= sent'["teammate.error"] \/ sent'["teammate.error"] = MaxCount
    <3>1. sent["teammate.error"] \in 0..MaxCount /\ MaxCount \in Nat
      BY BoundsAssumption, NameFacts DEF TypeOK
    <3>2. sent'["teammate.error"] = IF sent["teammate.error"] < MaxCount
                                      THEN sent["teammate.error"] + 1 ELSE sent["teammate.error"]
      BY <1>5, <2>5, NameFacts DEF DeleteFailedPod, Count, TypeOK
    <3>3. local.mates[t].restarts <= sent["teammate.error"] \/ sent["teammate.error"] = MaxCount
      BY <2>5 DEF CopyRecords
    <3> QED BY <2>2, <2>3, <3>1, <3>2, <3>3
  <2> QED BY <2>1, <2>4, <2>5 DEF RecordsNext, Records
<1>6. CASE AgentFailed
  <2>1. failed' # {}
    BY <1>0, <1>6 DEF AgentFailed, AnyFailed
  <2>3. local' = Enter(local, "Failed", "AgentFailed")
    BY <1>6 DEF AgentFailed
  <2>4. /\ local'.phase = "Failed" /\ local'.reason = "AgentFailed"
        /\ local'.mates = local.mates /\ local'.warned = local.warned
        /\ local'.delivered = local.delivered
    BY <1>0, <2>3, FieldFacts
  <2> QED BY <2>1, <2>4 DEF RecordsNext, Records
<1>7. CASE CheckPushBranchJob
  <2>1. CASE local' = Enter(local, "Failed", "FinalizationFailed")
    BY <1>7, <1>10, <2>1 DEF CheckPushBranchJob
  <2>2. CASE local' = [local EXCEPT !.branch = TRUE] \/ local' = [local EXCEPT !.reason = "Finalizing"]
    <3>1. /\ local'.phase = local.phase /\ local'.reason \in {local.reason, "Finalizing"}
          /\ local'.mates = local.mates /\ local'.warned = local.warned
          /\ local'.delivered = local.delivered
      BY <1>0, <2>2 DEF TeamObject
    <3> QED BY <3>1, RecordsKept
  <2> QED BY <1>7, <2>1, <2>2 DEF CheckPushBranchJob
<1>8. CASE ExecuteOnComplete
  <2>1. PICK ok \in BOOLEAN :
          /\ local' = [Enter(local, "Completed", "Completed") EXCEPT
                         !.delivered = @ \/ OnComplete = "deliver"
                                         \/ (OnComplete = "create-pr" /\ Coding /\ ok)]
          /\ IF ok /\ (OnComplete \in {"notify", "deliver"} \/ (OnComplete = "create-pr" /\ Coding))
               THEN Count("onComplete") ELSE UNCHANGED sent
    BY <1>8 DEF ExecuteOnComplete
  <2>2. OnComplete = "create-pr" /\ Coding /\ ok /\ "onComplete" \in Counted => sent'["onComplete"] > 0
    BY <2>1, NameFacts, Counts
  <2>3. /\ local'.phase = "Completed" /\ local'.reason = "Completed"
        /\ local'.mates = local.mates /\ local'.warned = local.warned
    BY <1>0, <2>1 DEF Enter, TeamObject
  <2>4. local'.delivered /\ OnComplete = "create-pr" => local.delivered \/ (Coding /\ ok)
    BY <1>0, <2>1 DEF Enter, TeamObject
  <2> QED BY <2>2, <2>3, <2>4 DEF RecordsNext, Records
<1>9. CASE CleanedUp /\ local.completedAt = NotYet
  <2>1. /\ local'.phase = local.phase /\ local'.reason = local.reason
        /\ local'.mates = local.mates /\ local'.warned = local.warned
        /\ local'.delivered = local.delivered
    BY <1>0, <1>9 DEF CleanedUp, TeamObject
  <2> QED BY <2>1, RecordsKept
<1> QED BY <1>1, <1>2, <1>3, <1>4, <1>5, <1>6, <1>7, <1>8, <1>9, <1>11 DEF Writes

(* Every copy of the team gives a true reason and records what was sent, after
   every step. *)
LEMMA RecordsStep ==
  ASSUME TypeOK, LoopBounds, EndsTrue, Finishing, [Next]_vars,
         CopyRecords(team), CopyRecords(cachedTeam), CopyRecords(local)
  PROVE  RecordsNext(team') /\ RecordsNext(cachedTeam') /\ RecordsNext(local')
<1>0. team \in TeamObject /\ local \in TeamObject /\ cachedTeam \in TeamObject
  BY DEF TypeOK
<1>1. RecordsNext(team) /\ RecordsNext(cachedTeam) /\ RecordsNext(local)
  BY <1>0, RecordsLast
<1>2. RecordsNext(local')
  <2>1. CASE local' = NewTeam
    <3>1. sent'["teammate.error"] \in 0..MaxCount /\ MaxCount \in Nat
      BY TypeStep, BoundsAssumption, NameFacts DEF TypeOK
    <3>2. /\ local'.phase = "Pending" /\ local'.reason = "" /\ ~local'.warned /\ ~local'.delivered
          /\ \A t \in Teammates : local'.mates[t].restarts = 0
      BY <2>1 DEF NewTeam, NewMate
    <3>3. 0 <= sent'["teammate.error"]
      BY <3>1
    <3>4. ASSUME NEW t \in Teammates PROVE local'.mates[t].restarts <= sent'["teammate.error"]
      <4>1. local'.mates[t].restarts = 0
        BY <3>2
      <4> QED BY <3>3, <4>1
    <3> QED BY <3>2, <3>4 DEF RecordsNext, Records
  <2> QED BY <1>1, <2>1, BeginRecords, WriteRecords, CopySteps
<1>3. RecordsNext(team')
  <2>1. CASE team' = [local EXCEPT !.approved = team.approved]
    <3>1. /\ team'.phase = local.phase /\ team'.reason = local.reason
          /\ team'.mates = local.mates /\ team'.warned = local.warned
          /\ team'.delivered = local.delivered
      BY <1>0, <2>1 DEF TeamObject
    <3> QED BY <1>1, <3>1, RecordsKept
  <2>2. ASSUME NEW x, team' = [team EXCEPT !.approved = @ \cup {x}] PROVE RecordsNext(team')
    <3>1. /\ team'.phase = team.phase /\ team'.reason = team.reason
          /\ team'.mates = team.mates /\ team'.warned = team.warned
          /\ team'.delivered = team.delivered
      BY <1>0, <2>2 DEF TeamObject
    <3> QED BY <1>1, <3>1, RecordsKept
  <2> QED BY <1>1, <2>1, <2>2, CopySteps
<1>4. cachedTeam' \in {cachedTeam, team}
  BY CachedTeamStep
<1> QED BY <1>1, <1>2, <1>3, <1>4
-----------------------------------------------------------------------------
(* What exists before a pod. *)

(* CopyProvisioned in the state after a step. *)
ProvisionedNext(st) ==
  /\ st.phase # "Pending" => claims' = Claims
  /\ st.phase = "Running" => (Coding => jobs'["init"] = "Succeeded")

(* A pass that has been through the plan has created every claim. *)
LEMMA AllProvisioned ==
  ASSUME \A i \in 1..Len(ProvisionPlan) : ProvisionPlan[i] # "init-job" => ProvisionPlan[i] \in claims,
         claims \subseteq Claims
  PROVE  claims = Claims
<1> USE LifecycleAssumption DEF ProvisionPlan, Claims
<1>1. CASE Coding /\ HasOutput
  <2>1. /\ Len(ProvisionPlan) = 4 /\ ProvisionPlan[1] = "team-state" /\ ProvisionPlan[2] = "repo"
        /\ ProvisionPlan[4] = "output"
    BY <1>1
  <2>2. 1 \in 1..4 /\ 2 \in 1..4 /\ 4 \in 1..4
    OBVIOUS
  <2> HIDE DEF ProvisionPlan
  <2> QED BY <1>1, <2>1, <2>2
<1>2. CASE Coding /\ ~HasOutput
  <2>1. Len(ProvisionPlan) = 3 /\ ProvisionPlan[1] = "team-state" /\ ProvisionPlan[2] = "repo"
    BY <1>2
  <2>2. 1 \in 1..3 /\ 2 \in 1..3
    OBVIOUS
  <2> HIDE DEF ProvisionPlan
  <2> QED BY <1>2, <2>1, <2>2
<1>3. CASE ~Coding /\ HasOutput
  <2>1. Len(ProvisionPlan) = 2 /\ ProvisionPlan[1] = "team-state" /\ ProvisionPlan[2] = "output"
    BY <1>3
  <2>2. 1 \in 1..2 /\ 2 \in 1..2
    OBVIOUS
  <2> HIDE DEF ProvisionPlan
  <2>3. "team-state" \in claims /\ "output" \in claims
    BY <2>1, <2>2
  <2> QED BY <1>3, <2>3
<1>4. CASE ~Coding /\ ~HasOutput
  <2>1. Len(ProvisionPlan) = 1 /\ ProvisionPlan[1] = "team-state" /\ 1 \in 1..1
    BY <1>4
  <2> HIDE DEF ProvisionPlan
  <2> QED BY <1>4, <2>1
<1> QED BY <1>1, <1>2, <1>3, <1>4

(* What exists, and the init Job's success, last. *)
LEMMA ProvisionedLast ==
  ASSUME TypeOK, [Next]_vars, NEW st, CopyProvisioned(st)
  PROVE  ProvisionedNext(st)
<1>1. claims \subseteq claims' /\ claims' \subseteq Claims
  BY WorldGrows, TypeStep DEF TypeOK
<1>2. InitJobDone => InitJobDone'
  BY HistoryGrows DEF InitJobDone
<1> QED BY <1>1, <1>2 DEF CopyProvisioned, ProvisionedNext, InitJobDone

(* A pass starts with the cached team's phase, or ends a team that has left
   Pending. *)
LEMMA BeginProvisioned ==
  ASSUME TypeOK, Begins
  PROVE  \/ local'.phase = cachedTeam.phase
         \/ cachedTeam.phase # "Pending" /\ local'.phase \in Terminal
<1>0. cachedTeam \in TeamObject /\ Warned(cachedTeam) \in TeamObject
  BY WarnedType DEF TypeOK
<1>1. CASE BeginPending \/ BeginTerminal
  BY <1>1 DEF BeginPending, BeginTerminal
<1>2. CASE BeginInitializing
  <2>1. /\ cachedTeam.phase = "Initializing"
        /\ \/ local' = cachedTeam
           \/ local' = Enter(cachedTeam, "TimedOut", "TimedOut")
           \/ local' = Enter(cachedTeam, "Failed", "InitJobFailed")
    BY <1>2 DEF BeginInitializing, Begin, Dispatches
  <2> QED BY <1>0, <2>1, FieldFacts DEF Terminal
<1>3. CASE BeginRunning
  <2>1. /\ cachedTeam.phase = "Running"
        /\ \/ local' = Enter(cachedTeam, "TimedOut", "TimedOut")
           \/ local' = Enter(Warned(cachedTeam), "BudgetExceeded", "BudgetExceeded")
           \/ local' = SyncPodStatuses(Warned(cachedTeam))
    BY <1>3 DEF BeginRunning, Begin, Dispatches
  <2> QED BY <1>0, <2>1, FieldFacts DEF Terminal
<1> QED BY <1>1, <1>2, <1>3 DEF Begins

(* A write enters Initializing when everything is provisioned, Running when the
   init Job has succeeded, or ends a team that was Running. *)
LEMMA WriteProvisioned ==
  ASSUME StatusInv, Writes
  PROVE  \/ local'.phase = local.phase
         \/ Provisioned /\ local'.phase = "Initializing"
         \/ pc = "announce" /\ local.phase = "Initializing" /\ local'.phase = "Running"
         \/ local.phase = "Running" /\ local'.phase \in Terminal
<1>0. local \in TeamObject /\ HandlerPhase
  BY DEF StatusInv, TypeOK
<1>1. CASE Provisioned
  BY <1>0, <1>1 DEF Provisioned, Enter, TeamObject
<1>2. CASE DeployTeammate \/ SpawnTeammate
  <2>1. local' = local \/ \E t, x : local' = SetPending(local, t, x)
    BY <1>2 DEF DeployTeammate, SpawnTeammate
  <2> QED BY <1>0, <2>1, FieldFacts
<1>3. CASE Announce
  BY <1>0, <1>3, FieldFacts DEF Announce, HandlerPhase
<1>4. CASE RestartLimitExceeded \/ AgentFailed \/ PushBranchJobError
  <2>1. pc \in RunningSteps
    BY <1>4 DEF RestartLimitExceeded, AgentFailed, PushBranchJobError, RunningSteps, FinishingSteps
  <2>2. \E r : local' = Enter(local, "Failed", r)
    BY <1>4 DEF RestartLimitExceeded, AgentFailed, PushBranchJobError
  <2> QED BY <1>0, <2>1, <2>2, FieldFacts DEF HandlerPhase, Terminal
<1>5. CASE DeleteFailedPod \/ (CleanedUp /\ local.completedAt = NotYet)
  BY <1>0, <1>5 DEF DeleteFailedPod, CleanedUp, TeamObject
<1>6. CASE CheckPushBranchJob
  <2>1. pc \in RunningSteps
    BY <1>6 DEF CheckPushBranchJob, RunningSteps, FinishingSteps
  <2>2. CASE local' = Enter(local, "Failed", "FinalizationFailed")
    BY <1>0, <2>1, <2>2, FieldFacts DEF HandlerPhase, Terminal
  <2>3. CASE local' = [local EXCEPT !.branch = TRUE] \/ local' = [local EXCEPT !.reason = "Finalizing"]
    BY <1>0, <2>3 DEF TeamObject
  <2> QED BY <1>6, <2>2, <2>3 DEF CheckPushBranchJob
<1>7. CASE ExecuteOnComplete
  <2>1. pc \in RunningSteps
    BY <1>7 DEF ExecuteOnComplete, RunningSteps, FinishingSteps
  <2>2. local'.phase = "Completed"
    BY <1>0, <1>7 DEF ExecuteOnComplete, Enter, TeamObject
  <2> QED BY <1>0, <2>1, <2>2 DEF HandlerPhase, Terminal
<1> QED BY <1>1, <1>2, <1>3, <1>4, <1>5, <1>6, <1>7 DEF Writes

(* Every copy of a team that has left Pending is of a provisioned one, after
   every step. *)
LEMMA ProvisionedCopiesStep ==
  ASSUME StatusInv, ProvisionedSoFar, [Next]_vars,
         CopyProvisioned(team), CopyProvisioned(cachedTeam), CopyProvisioned(local)
  PROVE  ProvisionedNext(team') /\ ProvisionedNext(cachedTeam') /\ ProvisionedNext(local')
<1>0. TypeOK /\ team \in TeamObject /\ local \in TeamObject /\ claims \subseteq Claims
  BY DEF StatusInv, TypeOK
<1>1. ProvisionedNext(team) /\ ProvisionedNext(cachedTeam) /\ ProvisionedNext(local)
  BY <1>0, ProvisionedLast
<1>2. ProvisionedNext(local')
  <2>1. CASE local' = NewTeam
    BY <2>1 DEF ProvisionedNext, NewTeam
  <2>2. CASE Begins
    BY <1>0, <1>1, <2>2, BeginProvisioned DEF ProvisionedNext, Terminal
  <2>3. CASE Writes
    <3>1. Provisioned => claims' = Claims
      <4> SUFFICES ASSUME Provisioned PROVE claims' = Claims
        OBVIOUS
      <4>1. pc = "provision" /\ idx = Len(ProvisionPlan) + 1 /\ claims' = claims
        BY DEF Provisioned, apiVars
      <4>2. Len(ProvisionPlan) + 1 - 1 = Len(ProvisionPlan)
        BY LifecycleAssumption DEF ProvisionPlan
      <4>3. \A i \in 1..Len(ProvisionPlan) : ProvisionPlan[i] # "init-job" => ProvisionPlan[i] \in claims
        BY <4>1, <4>2 DEF ProvisionedSoFar
      <4> QED BY <1>0, <4>1, <4>3, AllProvisioned
    <3>2. pc = "announce" => (Coding => jobs'["init"] = "Succeeded")
      BY <1>0, HistoryGrows DEF ProvisionedSoFar, InitJobDone
    <3> QED BY <1>1, <2>3, <3>1, <3>2, WriteProvisioned DEF ProvisionedNext, Terminal
  <2> QED BY <1>1, <2>1, <2>2, <2>3, CopySteps
<1>3. ProvisionedNext(team')
  <2>1. CASE team' = [local EXCEPT !.approved = team.approved]
    <3>1. team'.phase = local.phase
      BY <1>0, <2>1 DEF TeamObject
    <3> QED BY <1>1, <3>1 DEF ProvisionedNext
  <2>2. ASSUME NEW x, team' = [team EXCEPT !.approved = @ \cup {x}] PROVE ProvisionedNext(team')
    <3>1. team'.phase = team.phase
      BY <1>0, <2>2 DEF TeamObject
    <3> QED BY <1>1, <3>1 DEF ProvisionedNext
  <2> QED BY <1>1, <2>1, <2>2, CopySteps
<1>4. cachedTeam' \in {cachedTeam, team}
  BY CachedTeamStep
<1> QED BY <1>1, <1>2, <1>3, <1>4

(* A provisioning pass creates one object after the other, and only a pass that
   has seen the init Job succeed deploys. *)
LEMMA SoFarStep ==
  ASSUME TypeOK, EndsTrue, ProvisionedSoFar, [Next]_vars
  PROVE  ProvisionedSoFar'
<1>0. claims \subseteq claims' /\ (InitJobDone => InitJobDone') /\ idx \in Nat /\ idx > 0
  BY WorldGrows, HistoryGrows DEF InitJobDone, TypeOK
<1>1. \/ BeginPending \/ BeginInitializing \/ ProvisionStep
      \/ UNCHANGED <<pc, idx>>
      \/ pc' \notin {"provision", "lead", "deploy", "announce"}
      \/ pc \in {"lead", "deploy"} /\ pc' \in {"deploy", "announce"}
  BY DEF Next, Controller, Environment, vars, passVars, Begin, AwaitInitJob, BeginRunning,
     BeginTerminal, ProvisionExists, Provisioned, DeployLead,
     DeployTeammate, Announce, PassOverTeammate, RestartLimitExceeded, DeleteFailedPod, Respawn,
     SpawnTeammate, SpawnExists, AgentFailed, FireTeammateErrorEvent, StillRunning, Finalize, EnsurePushBranchJob,
     PushBranchJobError, CheckPushBranchJob, ExecuteOnComplete, TerminatePod, Stopped, CleanedUp,
     UpdateStatus, UpdateConflict, SyncTeam, SyncJobs, SyncClaims, TimerFires, ApiError, Crash, Tick,
     JobEnds, SyncPod, PodEnds, PodGone, Evict, Approve, Goto, Advance, Return
<1>2. CASE BeginPending
  <2>1. pc' = "provision" /\ idx' = 1 /\ Len(ProvisionPlan) \in Nat
    BY <1>2, LifecycleAssumption DEF BeginPending, Begin, ProvisionPlan
  <2> QED BY <2>1 DEF ProvisionedSoFar
<1>3. CASE BeginInitializing
  <2>1. pc' \in {"update", "lead"} /\ (pc' = "lead" => (Coding => cachedJobs["init"] = "Succeeded"))
    BY <1>3 DEF BeginInitializing
  <2>2. pc' = "lead" => InitJobDone
    BY <2>1 DEF EndsTrue, InitJobDone
  <2> QED BY <1>0, <2>1, <2>2 DEF ProvisionedSoFar
<1>4. CASE ProvisionStep
  <2>1. /\ pc = "provision" /\ pc' = "provision" /\ idx <= Len(ProvisionPlan) /\ idx' = idx + 1
        /\ ProvisionPlan[idx] # "init-job" => ProvisionPlan[idx] \in claims'
    BY <1>4 DEF ProvisionStep, Provisioning, ThisObject
  <2>2. ASSUME NEW i \in 1..(idx' - 1), ProvisionPlan[i] # "init-job" PROVE ProvisionPlan[i] \in claims'
    <3>1. CASE i = idx
      BY <2>1, <2>2, <3>1
    <3>2. CASE i # idx
      <4>1. i \in 1..(idx - 1)
        BY <1>0, <2>1, <3>2
      <4> QED BY <1>0, <2>1, <2>2, <4>1 DEF ProvisionedSoFar
    <3> QED BY <3>1, <3>2
  <2>3. Len(ProvisionPlan) \in Nat
    BY LifecycleAssumption DEF ProvisionPlan
  <2> QED BY <1>0, <2>1, <2>2, <2>3 DEF ProvisionedSoFar
<1>5. CASE UNCHANGED <<pc, idx>>
  BY <1>0, <1>5 DEF ProvisionedSoFar
<1>6. CASE pc \in {"lead", "deploy"} /\ pc' \in {"deploy", "announce"}
  BY <1>0, <1>6 DEF ProvisionedSoFar
<1> QED BY <1>1, <1>2, <1>3, <1>4, <1>5, <1>6 DEF ProvisionedSoFar

(* The first pod is created by a pass that deploys a provisioned team. *)
LEMMA PodsStep ==
  ASSUME StatusInv, ProvisionedSoFar, ProvisionedBeforePods, CopyProvisioned(local), [Next]_vars
  PROVE  ProvisionedBeforePods'
<1> SUFFICES ASSUME NEW a \in Agents, pods'[a] # "None"
             PROVE  claims' = Claims /\ InitJobDone'
  BY DEF ProvisionedBeforePods, InitJobDone
<1>0. /\ TypeOK /\ claims \subseteq claims' /\ (InitJobDone => InitJobDone')
      /\ claims' \subseteq Claims /\ pods \in [Agents -> PodStates] /\ HandlerPhase
  BY WorldGrows, HistoryGrows, TypeStep DEF StatusInv, InitJobDone, TypeOK
<1>1. CASE pods[a] # "None"
  BY <1>0, <1>1 DEF ProvisionedBeforePods, InitJobDone
<1>2. CASE DeployLead \/ DeployTeammate \/ Respawn \/ SpawnTeammate
  <2>1. /\ pc \in {"lead", "deploy"} => local.phase = "Initializing" /\ InitJobDone
        /\ pc \in {"respawn", "spawn"} => local.phase = "Running"
        /\ pc \in {"lead", "deploy", "respawn", "spawn"}
    BY <1>0, <1>2 DEF HandlerPhase, RunningSteps, ProvisionedSoFar, DeployLead, DeployTeammate,
       Respawn, SpawnTeammate
  <2>2. claims = Claims /\ InitJobDone
    BY <2>1 DEF CopyProvisioned
  <2> QED BY <1>0, <2>2
<1>3. CASE pods[a] = "None" /\ ~(DeployLead \/ DeployTeammate \/ Respawn \/ SpawnTeammate)
  <2>1. CASE DeleteFailedPod \/ TerminatePod \/ \E b \in Agents : Evict(b)
    <3>1. \E b : DeletePod(b)
      BY <2>1 DEF DeleteFailedPod, TerminatePod, Evict
    <3> QED BY <1>0, <1>3, <3>1 DEF DeletePod
  <2>2. CASE \E b \in Agents : SyncPod(b) \/ PodEnds(b) \/ PodGone(b)
    BY <1>0, <1>3, <2>2 DEF SyncPod, PodEnds, PodGone, apiVars
  <2>3. CASE Crash \/ UNCHANGED pods
    BY <1>3, <2>3 DEF Crash, apiVars
  <2> QED BY <1>3, <2>1, <2>2, <2>3, PodSteps
<1> QED BY <1>1, <1>2, <1>3
-----------------------------------------------------------------------------
(* RecordInv is inductive, next to IInv. *)
LEMMA RecordInit == Init => RecordInv
<1> SUFFICES ASSUME Init PROVE RecordInv
  OBVIOUS
<1>1. team = NewTeam /\ cachedTeam = NewTeam /\ local = NewTeam /\ pc = "idle"
  BY DEF Init
<1>2. CopyProvisioned(NewTeam) /\ CopyRecords(NewTeam)
  <2>1. sent["teammate.error"] = 0
    BY NameFacts DEF Init
  <2> QED BY <2>1 DEF CopyProvisioned, CopyRecords, NewTeam, NewMate
<1>3. EndsTrue
  BY DEF Init, EndsTrue
<1>4. ProvisionedSoFar
  BY <1>1 DEF ProvisionedSoFar
<1>5. ProvisionedBeforePods
  BY DEF Init, ProvisionedBeforePods
<1> QED BY <1>1, <1>2, <1>3, <1>4, <1>5 DEF RecordInv

(* Every step keeps RecordInv. *)
LEMMA RecordStep == IInv /\ RecordInv /\ [Next]_vars => RecordInv'
<1> SUFFICES ASSUME IInv, RecordInv, [Next]_vars PROVE RecordInv'
  OBVIOUS
<1>0. StatusInv /\ TypeOK /\ LoopBounds /\ Finishing
  BY DEF IInv, StatusInv, DoneInv, OrderInv
<1>1. CopyRecords(team)' /\ CopyRecords(cachedTeam)' /\ CopyRecords(local)'
  BY <1>0, RecordsStep DEF RecordInv, RecordsNext, Records, CopyRecords
<1>2. CopyProvisioned(team)' /\ CopyProvisioned(cachedTeam)' /\ CopyProvisioned(local)'
  BY <1>0, ProvisionedCopiesStep DEF RecordInv, ProvisionedNext, CopyProvisioned, InitJobDone
<1> QED BY <1>0, <1>1, <1>2, EndsStep, SoFarStep, PodsStep DEF RecordInv

(* RecordInv holds in every reachable state. *)
LEMMA RecordAlways == Spec => []RecordInv
<1>1. Init => IInv /\ RecordInv
  BY InvInit, RecordInit
<1>2. (IInv /\ RecordInv) /\ [Next]_vars => (IInv /\ RecordInv)'
  BY InvStep, RecordStep
<1> QED BY <1>1, <1>2, PTL DEF Spec

(* reconcilePending and reconcileInitializing are right for every team: no
   agent has a pod before all claims exist and, in coding mode, the init Job
   has succeeded, whatever the caches showed and whichever pass was retried. *)
THEOREM ProvisionedBeforePodsHolds == Spec => []ProvisionedBeforePods
<1>1. RecordInv => ProvisionedBeforePods
  BY DEF RecordInv
<1> QED BY <1>1, RecordAlways, PTL

(* The reason a failed team gives is true, for every team: some agent, the init
   Job or a teammate without restarts did fail; and a team whose finalization
   failed, for whatever cause, has a branch to push and agents that all
   succeeded. *)
THEOREM FailureHasCauseHolds == Spec => []FailureHasCause
<1>1. RecordInv => FailureHasCause
  BY DEF RecordInv, CopyRecords, FailureHasCause
<1> QED BY <1>1, RecordAlways, PTL

(* A team that was stopped for its budget was warned, for every rate, limit and
   team. *)
THEOREM WarnedBeforeExceededHolds == Spec => []WarnedBeforeExceeded
<1>1. RecordInv => WarnedBeforeExceeded
  BY DEF RecordInv, CopyRecords, WarnedBeforeExceeded
<1> QED BY <1>1, RecordAlways, PTL

(* The warning, the delivery and every restart that the status records were
   announced, for every team and however many passes were lost between sending
   and recording. *)
THEOREM RecordedMeansSentHolds == Spec => []RecordedMeansSent
<1>1. RecordInv => RecordedMeansSent
  BY DEF RecordInv, CopyRecords, RecordedMeansSent
<1> QED BY <1>1, RecordAlways, PTL
-----------------------------------------------------------------------------
(* The stages. *)

(* A stage that updatePipelineStatus finds done has succeeded. *)
LEMMA DoneHasSucceeded ==
  ASSUME TypeOK, PodHistory, NEW s, NEW phases,
         phases = [t \in Teammates |-> AgentPhase(cachedPods[t])], StageDone(s, phases)
  PROVE  s.teammates \subseteq succeeded
<1> SUFFICES ASSUME NEW t \in s.teammates PROVE t \in succeeded
  OBVIOUS
<1>1. t \in DOMAIN phases /\ phases[t] = "Completed"
  BY DEF StageDone, PhaseIn
<1>2. t \in Teammates /\ AgentPhase(cachedPods[t]) = "Completed"
  BY <1>1
<1>3. cachedPods[t] \in PodStates
  BY <1>2 DEF TypeOK, Agents
<1>4. cachedPods[t] = "Succeeded"
  BY <1>2, <1>3 DEF AgentPhase, PodStates
<1> QED BY <1>2, <1>4 DEF PodHistory, Agents

(* What updatePipelineStatus computes from the cached pods is true. *)
LEMMA SyncStagesTrue ==
  ASSUME WellFormedPipeline, TypeOK, PodHistory, NEW st \in TeamObject,
         st.approved \subseteq team.approved
  PROVE  StageTrue(SyncPodStatuses(st))
<1> DEFINE phases == [t \in Teammates |-> AgentPhase(cachedPods[t])]
<1>1. SyncPodStatuses(st).stages = UpdatePipelineStatus(st.stages, phases, st.approved)
  BY DEF SyncPodStatuses, TeamObject
<1>2. \A i \in DOMAIN Stages : SyncPodStatuses(st).stages[i].phase = StagePhase(i, phases, st.approved)
  BY <1>1 DEF UpdatePipelineStatus
<1>3. \A s : StageDone(s, phases) => s.teammates \subseteq succeeded
  BY DoneHasSucceeded
<1>4. DOMAIN Stages = 1..Len(Stages) /\ Len(Stages) \in Nat
  BY StagesAssumption
<1> HIDE DEF phases
<1> SUFFICES ASSUME NEW i \in DOMAIN Stages
             PROVE  /\ StagePhase(i, phases, st.approved) = "Completed"
                         => Stages[i].teammates \subseteq succeeded
                    /\ StagePhase(i, phases, st.approved) = "Running" =>
                         /\ StageApprovalGranted(Stages[i], team.approved)
                         /\ \A j \in DOMAIN Stages :
                              Stages[j].name \in Stages[i].dependsOn
                                => Stages[j].teammates \subseteq succeeded
  BY <1>2 DEF StageTrue
<1>5. ASSUME StagePhase(i, phases, st.approved) = "Completed" PROVE StageDone(Stages[i], phases)
  BY <1>5 DEF StagePhase
<1>6. ASSUME StagePhase(i, phases, st.approved) = "Running"
      PROVE  UpstreamReady(i, phases) /\ StageApprovalGranted(Stages[i], st.approved)
  BY <1>6 DEF StagePhase
<1>7. ASSUME UpstreamReady(i, phases), NEW j \in DOMAIN Stages, Stages[j].name \in Stages[i].dependsOn
      PROVE  StageDone(Stages[j], phases)
  <2>1. PICK k \in 1..(i - 1) : Stages[k].name = Stages[j].name /\ StageDone(Stages[k], phases)
    BY <1>7 DEF UpstreamReady
  <2>2. k \in DOMAIN Stages
    BY <1>4
  <2> QED BY <2>1, <2>2 DEF WellFormedPipeline
<1> QED BY <1>3, <1>5, <1>6, <1>7 DEF StageApprovalGranted

(* A write leaves the stages of the copy alone. *)
LEMMA WriteStages ==
  ASSUME TypeOK, Writes
  PROVE  local'.stages = local.stages
<1>0. local \in TeamObject
  BY DEF TypeOK
<1>1. CASE Provisioned \/ ExecuteOnComplete
  BY <1>0, <1>1 DEF Provisioned, ExecuteOnComplete, Enter, TeamObject
<1>2. CASE DeployTeammate \/ SpawnTeammate
  <2>1. local' = local \/ \E t, x : local' = SetPending(local, t, x)
    BY <1>2 DEF DeployTeammate, SpawnTeammate
  <2> QED BY <1>0, <2>1, FieldFacts
<1>3. CASE Announce \/ RestartLimitExceeded \/ AgentFailed \/ PushBranchJobError
  <2>1. \E p, r : local' = Enter(local, p, r)
    BY <1>3 DEF Announce, RestartLimitExceeded, AgentFailed, PushBranchJobError
  <2> QED BY <1>0, <2>1, FieldFacts
<1>4. CASE DeleteFailedPod \/ (CleanedUp /\ local.completedAt = NotYet)
  BY <1>0, <1>4 DEF DeleteFailedPod, CleanedUp, TeamObject
<1>5. CASE CheckPushBranchJob
  <2>1. \/ local' = Enter(local, "Failed", "FinalizationFailed")
        \/ local' = [local EXCEPT !.branch = TRUE]
        \/ local' = [local EXCEPT !.reason = "Finalizing"]
    BY <1>5 DEF CheckPushBranchJob
  <2> QED BY <1>0, <2>1, FieldFacts DEF TeamObject
<1> QED BY <1>1, <1>2, <1>3, <1>4, <1>5 DEF Writes

(* A pass starts with the stages of the cached team, or computes them anew. *)
LEMMA BeginStages ==
  ASSUME TypeOK, Begins
  PROVE  \/ local'.stages = cachedTeam.stages
         \/ BeginRunning /\ local' = SyncPodStatuses(Warned(cachedTeam))
<1>0. cachedTeam \in TeamObject /\ Warned(cachedTeam) \in TeamObject
  BY WarnedType DEF TypeOK
<1>1. CASE BeginPending \/ BeginTerminal
  BY <1>1 DEF BeginPending, BeginTerminal
<1>2. CASE BeginInitializing
  BY <1>0, <1>2, FieldFacts DEF BeginInitializing
<1>3. CASE BeginRunning
  <2>1. \/ local' = Enter(cachedTeam, "TimedOut", "TimedOut")
        \/ local' = Enter(Warned(cachedTeam), "BudgetExceeded", "BudgetExceeded")
        \/ local' = SyncPodStatuses(Warned(cachedTeam))
    BY <1>3 DEF BeginRunning
  <2> QED BY <1>0, <1>3, <2>1, FieldFacts
<1> QED BY <1>1, <1>2, <1>3 DEF Begins

(* StageTrue in the state after a step. *)
StagesNext(st) ==
  \A i \in DOMAIN Stages :
    /\ st.stages[i].phase = "Completed" => Stages[i].teammates \subseteq succeeded'
    /\ st.stages[i].phase = "Running" =>
         /\ StageApprovalGranted(Stages[i], team'.approved)
         /\ \A j \in DOMAIN Stages :
              Stages[j].name \in Stages[i].dependsOn => Stages[j].teammates \subseteq succeeded'

(* StageTrue of a copy depends on its stages only, and lasts. *)
LEMMA StagesLast ==
  ASSUME TypeOK, [Next]_vars, NEW st, StageTrue(st), NEW new, new.stages = st.stages
  PROVE  StagesNext(new)
<1>1. succeeded \subseteq succeeded' /\ team.approved \subseteq team'.approved
  BY HistoryGrows, ApprovedGrows
<1> QED BY <1>1 DEF StageTrue, StagesNext, StageApprovalGranted

(* Every step keeps StageInv. *)
LEMMA StageStep ==
  ASSUME WellFormedPipeline, OrderInv, StageInv, [Next]_vars
  PROVE  StageInv'
<1>0. /\ TypeOK /\ PodHistory /\ ApprovalsTrue
      /\ team \in TeamObject /\ local \in TeamObject /\ cachedTeam \in TeamObject
      /\ StageTrue(team) /\ StageTrue(cachedTeam) /\ StageTrue(local)
  BY DEF OrderInv, TypeOK, StageInv
<1>1. StagesNext(local')
  <2>1. CASE local' = NewTeam
    <3>1. \A i \in DOMAIN Stages : NewTeam.stages[i].phase = ""
      BY DEF NewTeam, NoStageStatus
    <3> QED BY <2>1, <3>1 DEF StagesNext
  <2>2. CASE local'.stages \in {local.stages, cachedTeam.stages}
    BY <1>0, <2>2, StagesLast
  <2>3. CASE BeginRunning /\ local' = SyncPodStatuses(Warned(cachedTeam))
    <3>1. Warned(cachedTeam) \in TeamObject /\ Warned(cachedTeam).approved \subseteq team.approved
      BY <1>0, WarnedType, FieldFacts DEF ApprovalsTrue
    <3>2. StageTrue(SyncPodStatuses(Warned(cachedTeam)))
      BY <1>0, <3>1, SyncStagesTrue
    <3> QED BY <1>0, <2>3, <3>2, StagesLast
  <2> QED BY <1>0, <2>1, <2>2, <2>3, CopySteps, BeginStages, WriteStages
<1>2. StagesNext(team')
  <2>1. CASE team' = team
    BY <1>0, <2>1, StagesLast
  <2>2. CASE team' = [local EXCEPT !.approved = team.approved]
    <3>1. team'.stages = local.stages
      BY <1>0, <2>2 DEF TeamObject
    <3> QED BY <1>0, <3>1, StagesLast
  <2>3. ASSUME NEW x, team' = [team EXCEPT !.approved = @ \cup {x}] PROVE StagesNext(team')
    <3>1. team'.stages = team.stages
      BY <1>0, <2>3 DEF TeamObject
    <3> QED BY <1>0, <3>1, StagesLast
  <2> QED BY <2>1, <2>2, <2>3, CopySteps
<1>3. StagesNext(cachedTeam')
  BY <1>0, CachedTeamStep, StagesLast
<1> QED BY <1>1, <1>2, <1>3 DEF StageInv, StageTrue, StagesNext

(* updatePipelineStatus never reports what is not so, for every well-formed
   pipeline: a stage shown Completed has succeeded, a stage shown Running is
   approved and its upstream stages have succeeded. *)
THEOREM StageStatusIsTrueHolds == WellFormedPipeline /\ Spec => []StageStatusIsTrue
<1>1. Init => OrderInv /\ StageInv
  <2>1. StageTrue(NewTeam)
    BY DEF StageTrue, NewTeam, NoStageStatus
  <2> QED BY <2>1, OrderInit DEF Init, StageInv
<1>2. WellFormedPipeline /\ (OrderInv /\ StageInv) /\ [Next]_vars => (OrderInv /\ StageInv)'
  BY OrderStep, StageStep
<1>3. StageInv => StageStatusIsTrue
  BY DEF StageInv, StageTrue, StageStatusIsTrue
<1>4. CASE WellFormedPipeline
  BY <1>1, <1>2, <1>3, <1>4, PTL DEF Spec
<1>5. CASE ~WellFormedPipeline
  BY <1>5
<1> QED BY <1>4, <1>5

(* When a synced stage is not held by its own teammates, its upstream stages
   are completed, its approval is given and somebody has started, it is shown
   Running, whenever upstream stages are listed first. *)
LEMMA RollupStep ==
  ASSUME UpstreamListedFirst, TypeOK, [Next]_vars, pc = "idle", pc' = "failures",
         NEW i \in DOMAIN Stages, NEW phases,
         phases = [t \in Teammates |-> AgentPhase(cachedPods[t])],
         StageHeld(i, phases), UpstreamCompleted(i, phases),
         StageApprovalGranted(Stages[i], cachedTeam.approved),
         PhaseIn(Stages[i], phases, {"Running", "Completed"}) # {}
  PROVE  local'.stages[i].phase = "Running"
<1>1. local' = SyncPodStatuses(Warned(cachedTeam))
  <2>1. BeginRunning
    BY DEF Next, Controller, Environment, vars, passVars, Begin, BeginPending, BeginInitializing,
     AwaitInitJob, BeginTerminal, ProvisionStep, ProvisionExists, Provisioning, Provisioned, DeployLead,
     DeployTeammate, Announce, PassOverTeammate, RestartLimitExceeded, DeleteFailedPod, Respawn,
     SpawnTeammate, SpawnExists, AgentFailed, FireTeammateErrorEvent, StillRunning, Finalize, EnsurePushBranchJob,
     PushBranchJobError, CheckPushBranchJob, ExecuteOnComplete, TerminatePod, Stopped, CleanedUp,
     UpdateStatus, UpdateConflict, SyncTeam, SyncJobs, SyncClaims, TimerFires, ApiError, Crash, Tick,
     JobEnds, SyncPod, PodEnds, PodGone, Evict, Approve, Goto, Advance, Return
  <2> QED BY <2>1 DEF BeginRunning
<1>2. Warned(cachedTeam) \in TeamObject /\ Warned(cachedTeam).approved = cachedTeam.approved
  BY WarnedType, FieldFacts DEF TypeOK
<1>3. local'.stages = UpdatePipelineStatus(Warned(cachedTeam).stages, phases, cachedTeam.approved)
  BY <1>1, <1>2 DEF SyncPodStatuses, TeamObject
<1>4. local'.stages[i].phase = StagePhase(i, phases, cachedTeam.approved)
  BY <1>3 DEF UpdatePipelineStatus
<1>5. UpstreamReady(i, phases)
  <2> SUFFICES ASSUME NEW d \in Stages[i].dependsOn
               PROVE  \E j \in 1..(i - 1) : Stages[j].name = d /\ StageDone(Stages[j], phases)
    BY DEF UpstreamReady
  <2>1. PICK j \in 1..(i - 1) : Stages[j].name = d
    BY DEF UpstreamListedFirst
  <2>2. j \in DOMAIN Stages
    BY StagesAssumption
  <2> QED BY <2>1, <2>2 DEF UpstreamCompleted
<1>6. PhaseIn(Stages[i], phases, {"Completed", "Failed", "Running"}) # {}
  BY DEF PhaseIn
<1> QED BY <1>4, <1>5, <1>6 DEF StageHeld, StagePhase

(* The documented roll-up is computed, for every pipeline that lists its stages
   after their upstream stages. *)
THEOREM StageRollupHolds == UpstreamListedFirst /\ Spec => StageRollup
<1>1. UpstreamListedFirst /\ TypeOK /\ [Next]_vars =>
        [pc = "idle" /\ pc' = "failures" =>
           LET phases == [t \in Teammates |-> AgentPhase(cachedPods[t])] IN
           \A i \in DOMAIN Stages :
             StageHeld(i, phases) /\ UpstreamCompleted(i, phases)
               /\ StageApprovalGranted(Stages[i], cachedTeam.approved)
               /\ PhaseIn(Stages[i], phases, {"Running", "Completed"}) # {}
             => local'.stages[i].phase = "Running"]_vars
  BY RollupStep
<1>2. CASE UpstreamListedFirst
  BY <1>1, <1>2, TypeCorrect, PTL DEF Spec, StageRollup
<1>3. CASE ~UpstreamListedFirst
  BY <1>3
<1> QED BY <1>2, <1>3
=============================================================================
