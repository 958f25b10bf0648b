---------------------------- MODULE StatusProofs ----------------------------
(***************************************************************************)
(* What a status update may write: proofs of PhaseGraph and                *)
(* StatusOnlyGrows.  A pass works on a copy that may be arbitrarily old;   *)
(* StatusInv says that a pass whose update is accepted has extended the    *)
(* current status, because the update carries the version it has read.     *)
(***************************************************************************)
EXTENDS AgentTeamProofs

(* Keeps is a preorder on team objects. *)
LEMMA KeepsRefl ==
  ASSUME NEW x \in TeamObject
  PROVE  Keeps(x, x)
BY LifecycleAssumption DEF Keeps, TeamObject, MateStatus

(* Two extensions in a row are one: the second copy keeps what the first
   object had. *)
LEMMA KeepsTrans ==
  ASSUME NEW x \in TeamObject, NEW y \in TeamObject, NEW z \in TeamObject, Keeps(x, y), Keeps(y, z)
  PROVE  Keeps(x, z)
<1>1. ASSUME NEW t \in Teammates PROVE z.mates[t].restarts >= x.mates[t].restarts
  <2>1. x.mates[t].restarts \in Int /\ y.mates[t].restarts \in Int /\ z.mates[t].restarts \in Int
    BY LifecycleAssumption DEF TeamObject, MateStatus
  <2>2. z.mates[t].restarts >= y.mates[t].restarts /\ y.mates[t].restarts >= x.mates[t].restarts
    BY DEF Keeps
  <2> QED BY <2>1, <2>2
<1>2. /\ x.startedAt # NotYet => z.startedAt = x.startedAt
      /\ x.completedAt # NotYet => z.completedAt = x.completedAt
  BY DEF Keeps
<1>3. /\ x.artifacts \subseteq z.artifacts
      /\ x.warned => z.warned
      /\ x.branch => z.branch
      /\ x.delivered => z.delivered
  BY DEF Keeps
<1> QED BY <1>1, <1>2, <1>3 DEF Keeps

(* What the handlers do to their copy of the team keeps what it records. *)
LEMMA EnterKeeps ==
  ASSUME NEW st \in TeamObject, NEW p \in Phases, NEW r \in Reasons
  PROVE  Keeps(st, Enter(st, p, r)) /\ Enter(st, p, r).phase = p
BY LifecycleAssumption DEF Keeps, Enter, TeamObject, MateStatus

(* maybeFireBudgetWarning only adds to the team. *)
LEMMA WarnedKeeps ==
  ASSUME NEW st \in TeamObject
  PROVE  Keeps(st, Warned(st)) /\ Warned(st).phase = st.phase
BY LifecycleAssumption DEF Keeps, Warned, TeamObject, MateStatus

(* syncPodStatuses and updatePipelineStatus only add to the team. *)
LEMMA SyncKeeps ==
  ASSUME NEW st \in TeamObject
  PROVE  Keeps(st, SyncPodStatuses(st)) /\ SyncPodStatuses(st).phase = st.phase
<1> DEFINE s == SyncPodStatuses(st)
<1>1. /\ s.startedAt = st.startedAt /\ s.completedAt = st.completedAt /\ s.mates = st.mates
      /\ s.warned = st.warned /\ s.branch = st.branch /\ s.delivered = st.delivered
      /\ s.phase = st.phase /\ st.artifacts \subseteq s.artifacts
  BY DEF SyncPodStatuses, TeamObject
<1>2. \A t \in Teammates : st.mates[t].restarts \in Int
  BY LifecycleAssumption DEF TeamObject, MateStatus
<1> QED BY <1>1, <1>2 DEF Keeps

(* Setting or clearing a pending approval leaves what Keeps is about. *)
LEMMA SetPendingKeeps ==
  ASSUME NEW st \in TeamObject, NEW t, NEW x
  PROVE  Keeps(st, SetPending(st, t, x)) /\ SetPending(st, t, x).phase = st.phase
<1> DEFINE s == SetPending(st, t, x)
<1>1. /\ s.startedAt = st.startedAt /\ s.completedAt = st.completedAt
      /\ s.mates = [st.mates EXCEPT ![t].pending = x]
      /\ s.warned = st.warned /\ s.branch = st.branch /\ s.delivered = st.delivered
      /\ s.phase = st.phase /\ st.artifacts = s.artifacts
  BY DEF SetPending, TeamObject
<1>2. \A u \in Teammates : s.mates[u].restarts = st.mates[u].restarts /\ st.mates[u].restarts \in Int
  BY <1>1, LifecycleAssumption DEF TeamObject, MateStatus
<1> QED BY <1>1, <1>2 DEF Keeps
-----------------------------------------------------------------------------

(* The steps that start a pass, and those that write to its copy. *)
Begins == BeginPending \/ BeginInitializing \/ BeginRunning \/ BeginTerminal
Writes ==
  \/ Provisioned \/ DeployTeammate \/ Announce \/ RestartLimitExceeded \/ DeleteFailedPod
  \/ SpawnTeammate \/ AgentFailed \/ PushBranchJobError \/ CheckPushBranchJob \/ ExecuteOnComplete
  \/ (CleanedUp /\ local.completedAt = NotYet)

(* What a step does to the team and to the copy the pass has of it. *)
LEMMA CopySteps ==
  ASSUME [Next]_vars
  PROVE  \/ Begins /\ pc = "idle" /\ UNCHANGED team /\ localFresh' = cacheFresh
         \/ Writes /\ UNCHANGED <<team, localFresh>>
         \/ UNCHANGED <<team, local, localFresh>> /\ pc \notin {"idle", "update"} /\ pc' # "idle"
         \/ UNCHANGED <<team, local, localFresh, pc>>
         \/ /\ team' = team \/ (UpdateStatus /\ team' = [local EXCEPT !.approved = team.approved])
            /\ local' = NewTeam /\ localFresh' = FALSE /\ pc' = "idle"
         \/ /\ \E x \in Approvals : team' = [team EXCEPT !.approved = @ \cup {x}]
            /\ localFresh' = FALSE /\ UNCHANGED <<local, pc>>
BY DEF Begins, Writes, Next, Controller, Environment, vars, apiVars, cacheVars, passVars, queueVars,
   envVars, histVars, Begin, Dispatches, BeginPending, BeginInitializing, AwaitInitJob, BeginRunning,
   BeginTerminal, ProvisionStep, Provisioning, ProvisionExists, Provisioned, DeployLead,
   DeployTeammate, Announce, PassOverTeammate, RestartLimitExceeded, DeleteFailedPod, Respawn,
   SpawnTeammate, SpawnExists, AgentFailed, FireTeammateErrorEvent, StillRunning, Finalize, EnsurePushBranchJob,
   PushBranchJobError, CheckPushBranchJob, ExecuteOnComplete, TerminatePod, Stopped, CleanedUp,
   UpdateStatus, UpdateConflict, SyncTeam, SyncJobs, SyncClaims, TimerFires, ApiError, Crash, Tick,
   JobEnds, SyncPod, PodEnds, PodGone, Evict, Approve, Goto, Advance, Return

(* A resource version still identifies the object's content. *)
LEMMA CacheStep ==
  ASSUME CacheCurrent, [Next]_vars
  PROVE  CacheCurrent'
BY DEF CacheCurrent, Next, Controller, Environment, vars, apiVars, cacheVars, passVars, queueVars,
   envVars, histVars, Begin, Dispatches, BeginPending, BeginInitializing, AwaitInitJob, BeginRunning,
   BeginTerminal, ProvisionStep, ProvisionExists, Provisioned, DeployLead,
   DeployTeammate, Announce, PassOverTeammate, RestartLimitExceeded, DeleteFailedPod, Respawn,
   SpawnTeammate, SpawnExists, AgentFailed, FireTeammateErrorEvent, StillRunning, Finalize, EnsurePushBranchJob,
   PushBranchJobError, CheckPushBranchJob, ExecuteOnComplete, TerminatePod, Stopped, CleanedUp,
   UpdateStatus, UpdateConflict, SyncTeam, SyncJobs, SyncClaims, TimerFires, ApiError, Crash, Tick,
   JobEnds, SyncPod, PodEnds, PodGone, Evict, Approve

(* Where a pass goes when it starts: its copy is the cached team, or the
   cached team moved along an edge of the lifecycle. *)
LEMMA BeginCopies ==
  ASSUME StatusInv, Begins
  PROVE  /\ Keeps(cachedTeam, local')
         /\ \/ local'.phase = cachedTeam.phase
            \/ pc' \in {"stop", "update"} /\ <<cachedTeam.phase, local'.phase>> \in PhaseEdges
         /\ local'.phase = "Pending" => cachedTeam.phase = "Pending" /\ local' = cachedTeam
         /\ pc' = "provision" => local'.phase = "Pending"
         /\ pc' = "lead" => local'.phase = "Initializing"
         /\ pc' = "failures" => local'.phase = "Running"
         /\ pc' = "stop" => local'.phase \in {"TimedOut", "BudgetExceeded"}
         /\ pc' = "cleanup" => local'.phase \in Terminal
         /\ pc' \in {"provision", "lead", "failures", "stop", "cleanup", "update"}
<1>0. cachedTeam \in TeamObject /\ TypeOK
  BY DEF StatusInv, TypeOK
<1>1. CASE BeginPending
  BY <1>0, <1>1, KeepsRefl DEF BeginPending, Begin, Dispatches
<1>2. CASE BeginInitializing
  <2>1. cachedTeam.phase = "Initializing"
    BY <1>2 DEF BeginInitializing, Begin, Dispatches
  <2>2. CASE pc' = "update" /\ local' = Enter(cachedTeam, "TimedOut", "TimedOut")
    BY <1>0, <2>1, <2>2, EnterKeeps, NameFacts DEF PhaseEdges
  <2>3. CASE pc' = "update" /\ local' = Enter(cachedTeam, "Failed", "InitJobFailed")
    BY <1>0, <2>1, <2>3, EnterKeeps, NameFacts DEF PhaseEdges
  <2>4. CASE pc' = "lead" /\ local' = cachedTeam
    BY <1>0, <2>1, <2>4, KeepsRefl
  <2> QED BY <1>2, <2>2, <2>3, <2>4 DEF BeginInitializing
<1>3. CASE BeginRunning
  <2>1. cachedTeam.phase = "Running"
    BY <1>3 DEF BeginRunning, Begin, Dispatches
  <2>2. CASE pc' = "stop" /\ local' = Enter(cachedTeam, "TimedOut", "TimedOut")
    BY <1>0, <2>1, <2>2, EnterKeeps, NameFacts DEF PhaseEdges, Terminal
  <2> DEFINE w == Warned(cachedTeam)
  <2>3. w \in TeamObject /\ Keeps(cachedTeam, w) /\ w.phase = "Running"
    BY <1>0, <2>1, WarnedType, WarnedKeeps
  <2>4. CASE pc' = "stop" /\ local' = Enter(w, "BudgetExceeded", "BudgetExceeded")
    <3> HIDE DEF w
    <3>1. Keeps(w, local') /\ local'.phase = "BudgetExceeded" /\ local' \in TeamObject
      BY <2>3, <2>4, EnterKeeps, EnterType, NameFacts
    <3>2. Keeps(cachedTeam, local')
      BY <1>0, <2>3, <3>1, KeepsTrans
    <3> QED BY <2>1, <2>4, <3>1, <3>2 DEF PhaseEdges, Terminal
  <2>5. CASE pc' = "failures" /\ local' = SyncPodStatuses(w)
    <3> HIDE DEF w
    <3>1. Keeps(w, local') /\ local'.phase = "Running" /\ local' \in TeamObject
      BY <1>0, <2>3, <2>5, SyncKeeps, SyncType DEF TypeOK
    <3>2. Keeps(cachedTeam, local')
      BY <1>0, <2>3, <3>1, KeepsTrans
    <3> QED BY <2>1, <2>5, <3>1, <3>2
  <2> QED BY <1>3, <2>2, <2>4, <2>5 DEF BeginRunning
<1>4. CASE BeginTerminal
  BY <1>0, <1>4, KeepsRefl DEF BeginTerminal, Begin, Dispatches, Terminal
<1> QED BY <1>1, <1>2, <1>3, <1>4 DEF Begins

(* A write keeps the phase of the copy, or moves it along an edge of the
   lifecycle and goes on to the error events or the update. *)
LEMMA WriteCopies ==
  ASSUME StatusInv, Writes
  PROVE  /\ Keeps(local, local')
         /\ pc \notin {"idle", "errors", "stop", "update"}
         /\ \/ local'.phase = local.phase /\ (pc' = "update" \/ pc' = pc
                  \/ (pc \in {"lead", "deploy"} /\ pc' \in {"deploy", "announce"})
                  \/ (pc \in RunningSteps /\ pc' \in RunningSteps))
            \/ pc' = "update" /\ <<local.phase, local'.phase>> \in PhaseEdges
            \/ pc' = "errors" /\ <<local.phase, local'.phase>> \in PhaseEdges /\ local'.phase = "Failed"
         /\ local'.phase = "Pending" => local.phase = "Pending" /\ local'.startedAt = local.startedAt
<1>0. local \in TeamObject /\ TypeOK /\ HandlerPhase /\ (local.phase = "Pending" => local.startedAt = NotYet)
  BY DEF StatusInv, TypeOK, Unstarted
<1>1. CASE Provisioned
  <2>1. local.phase = "Pending" /\ local.startedAt = NotYet /\ pc = "provision" /\ pc' = "update"
    BY <1>0, <1>1 DEF Provisioned, Goto, HandlerPhase
  <2>2. local' = [Enter(local, "Initializing", "Initializing") EXCEPT !.startedAt = now]
    BY <1>1 DEF Provisioned
  <2>3. Keeps(local, local') /\ local'.phase = "Initializing"
    BY <1>0, <2>1, <2>2, LifecycleAssumption DEF Keeps, Enter, TeamObject, MateStatus
  <2> QED BY <2>1, <2>3 DEF PhaseEdges
<1>2. CASE DeployTeammate
  <2>1. pc = "deploy" /\ pc' \in {"deploy", "announce"} /\ local.phase = "Initializing"
    BY <1>0, <1>2 DEF DeployTeammate, Advance, Goto, HandlerPhase
  <2>2. local' = local \/ \E t, x : local' = SetPending(local, t, x)
    BY <1>2 DEF DeployTeammate
  <2> QED BY <1>0, <2>1, <2>2, KeepsRefl, SetPendingKeeps
<1>3. CASE SpawnTeammate
  <2>1. pc = "spawn" /\ pc' \in {"spawn", "complete"} /\ local.phase = "Running"
    BY <1>0, <1>3 DEF SpawnTeammate, Advance, Goto, HandlerPhase, RunningSteps
  <2>2. local' = local \/ \E t, x : local' = SetPending(local, t, x)
    BY <1>3 DEF SpawnTeammate
  <2> QED BY <1>0, <2>1, <2>2, KeepsRefl, SetPendingKeeps DEF RunningSteps
<1>4. CASE Announce
  <2>1. pc = "announce" /\ pc' = "update" /\ local.phase = "Initializing"
        /\ local' = Enter(local, "Running", "Running")
    BY <1>0, <1>4 DEF Announce, Goto, HandlerPhase
  <2> QED BY <1>0, <2>1, EnterKeeps, NameFacts DEF PhaseEdges
<1>5. CASE RestartLimitExceeded \/ AgentFailed \/ PushBranchJobError
  <2>1. /\ pc \in {"failures", "complete", "pushJob", "pushCheck"} /\ pc' \in {"errors", "update"}
        /\ local.phase = "Running"
        /\ \E r \in Reasons : local' = Enter(local, "Failed", r)
    BY <1>0, <1>5, NameFacts DEF RestartLimitExceeded, AgentFailed, PushBranchJobError, Goto, HandlerPhase,
       RunningSteps, FinishingSteps
  <2>2. Keeps(local, local') /\ local'.phase = "Failed"
    BY <1>0, <2>1, EnterKeeps, NameFacts
  <2> QED BY <2>1, <2>2 DEF PhaseEdges, Terminal
<1>6. CASE DeleteFailedPod
  <2>1. pc = "failures" /\ pc' = "respawn" /\ local.phase = "Running"
        /\ local' = [local EXCEPT !.mates[Tm].restarts = @ + 1]
    BY <1>0, <1>6 DEF DeleteFailedPod, HandlerPhase, RunningSteps
  <2>2. \A t \in Teammates : local.mates[t].restarts \in Int /\ local.mates[t] \in MateStatus
    BY <1>0, LifecycleAssumption DEF TeamObject, MateStatus
  <2>3. /\ local'.startedAt = local.startedAt /\ local'.completedAt = local.completedAt
        /\ local'.mates = [local.mates EXCEPT ![Tm].restarts = @ + 1]
        /\ local'.warned = local.warned /\ local'.branch = local.branch
        /\ local'.delivered = local.delivered
        /\ local'.phase = local.phase /\ local'.artifacts = local.artifacts
    BY <1>0, <2>1 DEF TeamObject
  <2>4. local.mates \in [Teammates -> MateStatus]
    BY <1>0 DEF TeamObject
  <2>5. ASSUME NEW t \in Teammates PROVE local'.mates[t].restarts >= local.mates[t].restarts
    <3>1. CASE t = Tm
      <4>1. local'.mates[t] = [local.mates[t] EXCEPT !.restarts = @ + 1]
        BY <2>3, <2>4, <3>1
      <4>2. local'.mates[t].restarts = local.mates[t].restarts + 1
        BY <2>2, <4>1 DEF MateStatus
      <4> QED BY <2>2, <4>2
    <3>2. CASE t # Tm
      BY <2>2, <2>3, <2>4, <3>2
    <3> QED BY <3>1, <3>2
  <2>6. Keeps(local, local')
    BY <2>3, <2>5 DEF Keeps
  <2> QED BY <2>1, <2>3, <2>6 DEF RunningSteps
<1>7. CASE CheckPushBranchJob
  <2>1. pc = "pushCheck" /\ pc' \in {"update", "onComplete"} /\ local.phase = "Running"
    BY <1>0, <1>7 DEF CheckPushBranchJob, Goto, HandlerPhase, RunningSteps, FinishingSteps
  <2>2. CASE local' = [local EXCEPT !.branch = TRUE]
    <3>1. Keeps(local, local') /\ local'.phase = local.phase
      BY <1>0, <2>2, LifecycleAssumption DEF Keeps, TeamObject, MateStatus
    <3> QED BY <2>1, <3>1 DEF RunningSteps, FinishingSteps
  <2>3. CASE local' = [local EXCEPT !.reason = "Finalizing"]
    <3>1. Keeps(local, local') /\ local'.phase = local.phase
      BY <1>0, <2>3, LifecycleAssumption DEF Keeps, TeamObject, MateStatus
    <3> QED BY <2>1, <3>1 DEF RunningSteps, FinishingSteps
  <2>4. CASE local' = Enter(local, "Failed", "FinalizationFailed") /\ pc' = "update"
    BY <1>0, <2>1, <2>4, EnterKeeps, NameFacts DEF PhaseEdges, Terminal
  <2> QED BY <1>7, <2>2, <2>3, <2>4 DEF CheckPushBranchJob, Goto
<1>8. CASE ExecuteOnComplete
  <2>1. pc = "onComplete" /\ pc' = "update" /\ local.phase = "Running"
    BY <1>0, <1>8 DEF ExecuteOnComplete, Goto, HandlerPhase, RunningSteps, FinishingSteps
  <2>2. Keeps(local, local') /\ local'.phase = "Completed"
    BY <1>0, <1>8, LifecycleAssumption DEF ExecuteOnComplete, Keeps, Enter, TeamObject, MateStatus
  <2> QED BY <2>1, <2>2 DEF PhaseEdges, Terminal
<1>9. CASE CleanedUp /\ local.completedAt = NotYet
  <2>1. /\ pc = "cleanup" /\ pc' = "update" /\ local.phase \in Terminal
        /\ local' = [local EXCEPT !.completedAt = now]
    BY <1>0, <1>9 DEF CleanedUp, Goto, HandlerPhase
  <2>2. Keeps(local, local') /\ local'.phase = local.phase
    BY <1>0, <1>9, <2>1, LifecycleAssumption DEF Keeps, TeamObject, MateStatus
  <2> QED BY <2>1, <2>2 DEF Terminal
<1> QED BY <1>1, <1>2, <1>3, <1>4, <1>5, <1>6, <1>7, <1>8, <1>9 DEF Writes

(* The remaining steps stay within the handler they are in. *)
LEMMA QuietPass ==
  ASSUME StatusInv, [Next]_vars, UNCHANGED <<team, local, localFresh>>, ~Begins, ~Writes,
         pc' # pc
  PROVE  \/ pc' = "update" /\ (pc \in RunningSteps \/ pc \in {"errors", "stop"})
         \/ pc = "lead" /\ pc' = "deploy"
         \/ pc \in RunningSteps /\ pc' \in RunningSteps
         \/ pc' = "idle" /\ ~localFresh'
<1> USE DEF StatusInv, HandlerPhase, RunningSteps, FinishingSteps
<1> QED
BY DEF Begins, Writes, Next, Controller, Environment, vars, apiVars, cacheVars, passVars, queueVars,
   envVars, histVars, AwaitInitJob,
   ProvisionStep, Provisioning, ProvisionExists, DeployLead,
   PassOverTeammate, Respawn,
   SpawnExists, FireTeammateErrorEvent, StillRunning, Finalize, EnsurePushBranchJob,
   TerminatePod, Stopped, CleanedUp,
   UpdateStatus, UpdateConflict, SyncTeam, SyncJobs, SyncClaims, TimerFires, ApiError, Crash, Tick,
   JobEnds, SyncPod, PodEnds, PodGone, Evict, Approve, Goto, Advance, Return

(* Every handler keeps the phase of its copy in line with its steps. *)
LEMMA HandlerStep ==
  ASSUME StatusInv, [Next]_vars
  PROVE  HandlerPhase'
<1>0. HandlerPhase
  BY DEF StatusInv
<1> USE DEF HandlerPhase, RunningSteps, FinishingSteps
<1>1. CASE Begins
  BY <1>1, BeginCopies
<1>2. CASE Writes
  BY <1>0, <1>2, WriteCopies, CopySteps
<1>3. CASE UNCHANGED <<team, local, localFresh>> /\ ~Begins /\ ~Writes
  BY <1>0, <1>3, QuietPass
<1>4. CASE local' = NewTeam /\ localFresh' = FALSE /\ pc' = "idle"
  BY <1>4
<1>5. CASE UNCHANGED <<local, pc>> /\ localFresh' = FALSE
  BY <1>0, <1>5
<1> QED BY <1>1, <1>2, <1>3, <1>4, <1>5, CopySteps

(* StartedAt stays unset while a team is Pending, in every copy. *)
LEMMA UnstartedStep ==
  ASSUME StatusInv, [Next]_vars
  PROVE  Unstarted'
<1>0. Unstarted /\ team \in TeamObject /\ local \in TeamObject
  BY DEF StatusInv, TypeOK
<1>1. local'.phase = "Pending" => local'.startedAt = NotYet
  <2>1. CASE Begins
    BY <1>0, <2>1, BeginCopies DEF Unstarted
  <2>2. CASE Writes
    BY <1>0, <2>2, WriteCopies DEF Unstarted
  <2>3. CASE local' = local
    BY <1>0, <2>3 DEF Unstarted
  <2>4. CASE local' = NewTeam
    BY <2>4 DEF NewTeam
  <2> QED BY <2>1, <2>2, <2>3, <2>4, CopySteps
<1>2. team'.phase = "Pending" => team'.startedAt = NotYet
  <2>1. CASE team' = team
    BY <1>0, <2>1 DEF Unstarted
  <2>2. CASE team' = [local EXCEPT !.approved = team.approved]
    BY <1>0, <2>2 DEF Unstarted, TeamObject
  <2>3. ASSUME NEW x, team' = [team EXCEPT !.approved = @ \cup {x}]
        PROVE  team'.phase = "Pending" => team'.startedAt = NotYet
    BY <1>0, <2>3 DEF Unstarted, TeamObject
  <2> QED BY <2>1, <2>2, <2>3, CopySteps
<1>3. cachedTeam' \in {cachedTeam, team}
  BY CachedTeamStep
<1> QED BY <1>0, <1>1, <1>2, <1>3 DEF Unstarted

(* A copy that has the current version extends the current status. *)
LEMMA ExtendsStep ==
  ASSUME StatusInv, [Next]_vars
  PROVE  LocalExtends'
<1>0. /\ TypeOK /\ TypeOK' /\ CacheCurrent /\ HandlerPhase /\ LocalExtends
      /\ team \in TeamObject /\ local \in TeamObject /\ local' \in TeamObject
  BY TypeStep DEF StatusInv, TypeOK
<1> SUFFICES ASSUME localFresh'
             PROVE  /\ Keeps(team, local)'
                    /\ \/ local'.phase = team'.phase
                       \/ pc' \in {"errors", "stop", "update"} /\ <<team'.phase, local'.phase>> \in PhaseEdges
  BY DEF LocalExtends
<1>1. CASE Begins /\ UNCHANGED team /\ localFresh' = cacheFresh
  <2>1. cachedTeam = team
    BY <1>0, <1>1 DEF CacheCurrent
  <2>2. Keeps(team, local')
    BY <1>1, <2>1, BeginCopies
  <2>3. Keeps(team, local)'
    BY <1>1, <2>2 DEF Keeps
  <2> QED BY <1>1, <2>1, <2>3, BeginCopies
<1>2. CASE Writes /\ UNCHANGED <<team, localFresh>>
  <2>1. Keeps(team, local) /\ local.phase = team.phase
    BY <1>0, <1>2, WriteCopies DEF LocalExtends
  <2>2. Keeps(team, local')
    BY <1>0, <1>2, <2>1, WriteCopies, KeepsTrans
  <2>3. Keeps(team, local)'
    BY <1>2, <2>2 DEF Keeps
  <2> QED BY <1>2, <2>1, <2>3, WriteCopies
<1>3. CASE UNCHANGED <<team, local, localFresh>> /\ ~Begins /\ ~Writes
  <2>1. Keeps(team, local)
    BY <1>0, <1>3 DEF LocalExtends
  <2>2. Keeps(team, local)'
    BY <1>3, <2>1 DEF Keeps
  <2>3. \/ local.phase = team.phase
        \/ pc \in {"errors", "stop", "update"} /\ <<team.phase, local.phase>> \in PhaseEdges
    BY <1>0, <1>3 DEF LocalExtends
  <2>4. pc \in {"errors", "stop", "update"} => pc' \in {"errors", "stop", "update"}
    BY <1>3, QuietPass DEF RunningSteps, FinishingSteps
  <2> QED BY <1>3, <2>2, <2>3, <2>4
<1>4. Begins => UNCHANGED team /\ localFresh' = cacheFresh
  BY DEF Begins, BeginPending, BeginInitializing, BeginRunning, BeginTerminal, Begin, Dispatches, apiVars
<1>5. Writes => UNCHANGED <<team, localFresh>>
  BY DEF Writes, Provisioned, DeployTeammate, Announce, RestartLimitExceeded, DeleteFailedPod,
     SpawnTeammate, AgentFailed, PushBranchJobError, CheckPushBranchJob, ExecuteOnComplete,
     CleanedUp, apiVars
<1> QED BY <1>1, <1>2, <1>3, <1>4, <1>5, CopySteps

(* StatusInv is inductive. *)
LEMMA StatusInit == Init => StatusInv
<1> SUFFICES ASSUME Init PROVE StatusInv
  OBVIOUS
<1>1. TypeOK
  BY InitType
<1>2. CacheCurrent /\ LocalExtends
  BY DEF Init, CacheCurrent, LocalExtends
<1>3. HandlerPhase
  <2>1. pc = "idle" /\ ~localFresh
    BY DEF Init
  <2>2. pc \notin RunningSteps
    BY <2>1 DEF RunningSteps, FinishingSteps
  <2> QED BY <2>1, <2>2 DEF HandlerPhase
<1>4. Unstarted
  <2>1. team = NewTeam /\ cachedTeam = NewTeam /\ local = NewTeam
    BY DEF Init
  <2>2. NewTeam.startedAt = NotYet
    BY DEF NewTeam
  <2> QED BY <2>1, <2>2 DEF Unstarted
<1> QED BY <1>1, <1>2, <1>3, <1>4 DEF StatusInv

(* Every step keeps StatusInv. *)
LEMMA StatusStep == StatusInv /\ [Next]_vars => StatusInv'
BY TypeStep, CacheStep, UnstartedStep, HandlerStep, ExtendsStep DEF StatusInv

(* StatusInv holds in every reachable state. *)
LEMMA StatusAlways == Spec => []StatusInv
BY StatusInit, StatusStep, PTL DEF Spec

(* The team itself: an accepted update writes an extension of it. *)
LEMMA TeamStep ==
  ASSUME StatusInv, [Next]_vars
  PROVE  /\ Keeps(team, team')
         /\ team'.phase # team.phase => <<team.phase, team'.phase>> \in PhaseEdges
<1>0. team \in TeamObject /\ local \in TeamObject /\ LocalExtends
  BY DEF StatusInv, TypeOK
<1>1. CASE team' = team
  BY <1>0, <1>1, KeepsRefl
<1>2. CASE UpdateStatus /\ team' = [local EXCEPT !.approved = team.approved]
  <2>1. Keeps(team, local) /\ (local.phase = team.phase \/ <<team.phase, local.phase>> \in PhaseEdges)
    BY <1>0, <1>2 DEF UpdateStatus, VersionMatches, LocalExtends
  <2>2. /\ team'.startedAt = local.startedAt /\ team'.completedAt = local.completedAt
        /\ team'.mates = local.mates /\ team'.artifacts = local.artifacts
        /\ team'.warned = local.warned /\ team'.branch = local.branch
        /\ team'.delivered = local.delivered /\ team'.phase = local.phase
    BY <1>0, <1>2 DEF TeamObject
  <2> QED BY <2>1, <2>2 DEF Keeps
<1>3. ASSUME NEW x, team' = [team EXCEPT !.approved = @ \cup {x}]
      PROVE  Keeps(team, team') /\ team'.phase = team.phase
  <2>1. /\ team'.startedAt = team.startedAt /\ team'.completedAt = team.completedAt
        /\ team'.mates = team.mates /\ team'.artifacts = team.artifacts
        /\ team'.warned = team.warned /\ team'.branch = team.branch
        /\ team'.delivered = team.delivered /\ team'.phase = team.phase
    BY <1>0, <1>3 DEF TeamObject
  <2>2. Keeps(team, team)
    BY <1>0, KeepsRefl
  <2> QED BY <2>1, <2>2 DEF Keeps
<1> QED BY <1>1, <1>2, <1>3, CopySteps

(* Optimistic locking makes the phase follow the lifecycle for every team: no
   pass, however old the copy it has worked on, moves the team along another
   edge, and a terminal phase is final. *)
THEOREM PhaseGraphHolds == Spec => PhaseGraph
<1>1. StatusInv /\ [Next]_vars =>
        [team'.phase # team.phase => <<team.phase, team'.phase>> \in PhaseEdges]_vars
  BY TeamStep
<1> QED BY <1>1, StatusAlways, PTL DEF Spec, PhaseGraph

(* No update is lost, for every team: StartedAt and CompletedAt stay, restart
   counts and artifacts grow, and warning, branch and delivery stay recorded. *)
THEOREM StatusOnlyGrowsHolds == Spec => StatusOnlyGrows
<1>1. StatusInv /\ [Next]_vars =>
        [/\ team.startedAt # NotYet => team'.startedAt = team.startedAt
         /\ team.completedAt # NotYet => team'.completedAt = team.completedAt
         /\ \A t \in Teammates : team'.mates[t].restarts >= team.mates[t].restarts
         /\ team.artifacts \subseteq team'.artifacts
         /\ team.warned => team'.warned
         /\ team.branch => team'.branch
         /\ team.delivered => team'.delivered]_vars
  BY TeamStep DEF Keeps
<1> QED BY <1>1, StatusAlways, PTL DEF Spec, StatusOnlyGrows
=============================================================================
