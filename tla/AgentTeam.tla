----------------------------- MODULE AgentTeam ------------------------------
(***************************************************************************)
(* The AgentTeam controller reconciling one AgentTeam.                     *)
(*                                                                         *)
(* The API server holds the team object (its annotations and its status)  *)
(* and the objects the controller creates for it.  The controller reads   *)
(* through the manager's client, that is from informer caches that lag    *)
(* behind the API server; it writes to the API server directly, and a     *)
(* status update carries the resource version the pass has read.  One     *)
(* reconcile pass is a sequence of steps, each with at most one write;    *)
(* pods, jobs, users, the watch streams, the clock, API errors and        *)
(* restarts of the operator take their steps in between.                  *)
(***************************************************************************)
EXTENDS TeamSpec

CONSTANTS
  MaxStart,    \* bound: the clock may reach this before the team has started
  MaxFaults,   \* bound: how many of the faults below may happen
  FaultKinds,  \* which of "error", "crash" and "evict" may happen
  Counted,     \* which effects the history variables count
  MaxCount     \* bound: effects are counted up to this

ASSUME BoundsAssumption ==
  /\ MaxStart \in Nat
  /\ MaxFaults \in Nat
  /\ MaxCount \in Nat \ {0}
  /\ FaultKinds \subseteq {"error", "crash", "evict"}
  /\ Counted \subseteq {"team.started", "budget.warning", "teammate.error",
                        "onComplete", "spawn"}

VARIABLES
  team,         \* the AgentTeam in the API server: annotations and status
  pods,         \* the pod of every agent in the API server
  jobs,         \* the init and the push-branch Job in the API server
  claims,       \* the PVCs in the API server
  cachedTeam,   \* the informers' copies of the above
  cachedPods,
  cachedJobs,
  cachedClaims,
  cacheFresh,   \* cachedTeam has the team's current resource version
  pc,           \* the step the reconcile pass is at, "idle" between passes
  idx,          \* position of the loop the pass is in
  doomed,       \* pods the pass has listed and not yet deleted
  local,        \* the pass's copy of the team
  localFresh,   \* local has the team's current resource version
  queued,       \* the team's key is in the workqueue
  timer,        \* a RequeueAfter is pending
  now,          \* the clock
  faults,       \* faults so far
  succeeded,    \* history: agents with a pod that has Succeeded
  failed,       \* history: agents with a pod that has Failed
  spawned,      \* history: pods created for each teammate
  sent          \* history: how often each external effect was attempted

apiVars == <<team, pods, jobs, claims>>
cacheVars == <<cachedTeam, cachedPods, cachedJobs, cachedClaims, cacheFresh>>
passVars == <<pc, idx, doomed, local, localFresh>>
queueVars == <<queued, timer>>
envVars == <<now, faults>>
histVars == <<succeeded, failed, spawned, sent>>
vars == <<apiVars, cacheVars, passVars, queueVars, envVars, histVars>>

-----------------------------------------------------------------------------
(* State. *)

NotYet == -1
Time == Nat \cup {NotYet}

Terminal == {"Completed", "Failed", "TimedOut", "BudgetExceeded"}
Phases == {"Pending", "Initializing", "Running"} \cup Terminal
Reasons == {"", "Initializing", "Running", "Finalizing", "Completed", "TimedOut",
            "BudgetExceeded", "InitJobFailed", "RestartLimitExceeded",
            "AgentFailed", "FinalizationFailed"}
(* A Terminating pod is a running one with a deletion timestamp. Pending and
   Running are not told apart: no decision of the controller, and no phase of
   a stage, depends on which of them a pod is in. *)
PodStates == {"None", "Running", "Succeeded", "Failed", "Terminating"}
JobStates == {"None", "Active", "Succeeded", "Failed"}

(* The phases of lead and teammates are shown and never read back: the state
   leaves them out; the stages' phases, computed from them, are kept. *)
MateStatus == [restarts : 0..MaxRestarts, pending : Approvals \cup {NoApproval}]
NewMate == [restarts |-> 0, pending |-> NoApproval]

TeamObject == [
  approved    : SUBSET Approvals,         \* metadata.annotations
  phase       : Phases,
  reason      : Reasons,                  \* of the Progressing condition
  startedAt   : Time,
  completedAt : Time,
  mates       : [Teammates -> MateStatus],
  stages      : [DOMAIN Stages -> StageStatus],
  artifacts   : SUBSET Teammates,         \* whose outputs are recorded
  warned      : BOOLEAN,                  \* condition BudgetWarningSent
  branch      : BOOLEAN,                  \* consolidatedBranch is set
  delivered   : BOOLEAN]                  \* pullRequest or delivery is set

NewTeam == [
  approved |-> {}, phase |-> "Pending", reason |-> "", startedAt |-> NotYet,
  completedAt |-> NotYet, mates |-> [t \in Teammates |-> NewMate],
  stages |-> [i \in DOMAIN Stages |-> NoStageStatus], artifacts |-> {},
  warned |-> FALSE, branch |-> FALSE, delivered |-> FALSE]

Effects == {"team.started", "budget.warning", "teammate.error", "onComplete"}
MaxSpawned == MaxRestarts + 2 \* bound: one spawn more than the limit allows

(* What reconcilePending provisions, in its order. *)
Claims == {"team-state"} \cup (IF Coding THEN {"repo"} ELSE {})
                         \cup (IF HasOutput THEN {"output"} ELSE {})
(* Mutant: the output claim is not created. *)
ProvisionPlanNoOutput ==
  <<"team-state">> \o (IF Coding THEN <<"repo", "init-job">> ELSE <<>>)

ProvisionPlan ==
  <<"team-state">> \o (IF Coding THEN <<"repo", "init-job">> ELSE <<>>)
                   \o (IF HasOutput THEN <<"output">> ELSE <<>>)

TypeOK ==
  /\ team \in TeamObject
  /\ pods \in [Agents -> PodStates]
  /\ jobs \in [{"init", "push"} -> JobStates]
  /\ claims \subseteq Claims
  /\ cachedTeam \in TeamObject
  /\ cachedPods \in [Agents -> PodStates]
  /\ cachedJobs \in [{"init", "push"} -> JobStates]
  /\ cachedClaims \subseteq Claims
  /\ cacheFresh \in BOOLEAN
  /\ pc \in {"idle", "provision", "lead", "deploy", "announce", "failures",
             "respawn", "spawn", "complete", "errors", "pushJob", "pushCheck",
             "onComplete", "stop", "cleanup", "update"}
  /\ idx \in Nat /\ idx > 0
  /\ doomed \subseteq Agents
  /\ local \in TeamObject
  /\ localFresh \in BOOLEAN
  /\ queued \in BOOLEAN
  /\ timer \in BOOLEAN
  /\ now \in Nat
  /\ faults \in 0..MaxFaults
  /\ succeeded \subseteq Agents
  /\ failed \subseteq Agents
  /\ spawned \in [Teammates -> 0..MaxSpawned]
  /\ sent \in [Effects -> 0..MaxCount]

Init ==
  /\ team = NewTeam
  /\ pods = [a \in Agents |-> "None"]
  /\ jobs = [j \in {"init", "push"} |-> "None"]
  /\ claims = {}
  /\ cachedTeam = NewTeam
  /\ cachedPods = [a \in Agents |-> "None"]
  /\ cachedJobs = [j \in {"init", "push"} |-> "None"]
  /\ cachedClaims = {}
  /\ cacheFresh = TRUE
  /\ pc = "idle" /\ idx = 1 /\ doomed = {} /\ local = NewTeam /\ localFresh = FALSE
  /\ queued = TRUE /\ timer = FALSE
  /\ now = 0 /\ faults = 0
  /\ succeeded = {} /\ failed = {}
  /\ spawned = [t \in Teammates |-> 0]
  /\ sent = [e \in Effects |-> 0]

-----------------------------------------------------------------------------
(* What the handlers share. *)

Elapsed(st) == IF st.startedAt = NotYet THEN 0 ELSE now - st.startedAt
IsTimedOut(st) == st.startedAt # NotYet /\ Timeout # NoTimeout /\ now - st.startedAt > Timeout

Enter(st, phase, reason) == [st EXCEPT !.phase = phase, !.reason = reason]
SetPending(st, t, approval) == [st EXCEPT !.mates[t].pending = approval]

AgentPhase(pod) ==
  CASE pod = "None" -> "Waiting"
    [] pod \in {"Running", "Terminating"} -> "Running"
    [] pod = "Succeeded" -> "Completed"
    [] pod = "Failed" -> "Failed"

(* Mutant: the rebuilt entries do not keep what the old ones held. *)
SyncPodStatusesAfresh(st) ==
  [st EXCEPT !.mates = [t \in Teammates |-> NewMate]]

(* syncPodStatuses, then updatePipelineStatus. *)
SyncPodStatuses(st) ==
  LET phases == [t \in Teammates |-> AgentPhase(cachedPods[t])] IN
  [st EXCEPT
     !.artifacts = @ \cup {t \in Producers : cachedPods[t] = "Succeeded"},
     !.stages = UpdatePipelineStatus(@, phases, st.approved)]

(* Mutant: a dependency that has started is enough. *)
DependenciesStarted(t) ==
  \A d \in EffectiveDependencies(t) : d \in Agents /\ cachedPods[d] # "None"

DependenciesMet(t) ==
  \A d \in EffectiveDependencies(t) : d \in Agents /\ cachedPods[d] = "Succeeded"

Count(e) ==
  sent' = IF e \in Counted /\ sent[e] < MaxCount THEN [sent EXCEPT ![e] = @ + 1] ELSE sent

CountSpawn(a) ==
  spawned' = IF a \in Teammates /\ "spawn" \in Counted /\ spawned[a] < MaxSpawned
               THEN [spawned EXCEPT ![a] = @ + 1] ELSE spawned

(* ensureAgentPod returns nil: the cache has the pod, or Create succeeds. *)
EnsureAgentPod(a) ==
  \/ /\ cachedPods[a] # "None"
     /\ UNCHANGED <<pods, spawned>>
  \/ /\ cachedPods[a] = "None"
     /\ pods[a] = "None"
     /\ pods' = [pods EXCEPT ![a] = "Running"]
     /\ CountSpawn(a)

(* ensureAgentPod returns AlreadyExists: the cache misses a pod that is there. *)
AgentPodExists(a) == cachedPods[a] = "None" /\ pods[a] # "None"

(* Delete addresses a pod by its name. The API server removes a finished pod
   at once and lets a running one terminate; a missing one is not an error. *)
DeletePod(a) ==
  pods' = [pods EXCEPT ![a] =
    CASE @ \in {"Succeeded", "Failed"} -> "None"
      [] @ = "Running" -> "Terminating"
      [] OTHER -> @]

(* Mutant: only running pods are listed. *)
ListedRunningPods == {a \in Agents : cachedPods[a] = "Running"}

(* terminateAllPods lists the pods that have no deletion timestamp. *)
ListedPods == {a \in Agents : cachedPods[a] \in {"Running", "Succeeded", "Failed"}}

(* Mutant: the limit is off by one. *)
RestartsLeftOffByOne(t) == local.mates[t].restarts <= MaxRestarts
RestartsLeft(t) == local.mates[t].restarts < MaxRestarts

(* Mutant: a Running pass returns without RequeueAfter. *)
RequeuesAfterInitOnly(phase) == phase = "Initializing"
RequeuesAfter(phase) == phase \in {"Initializing", "Running"}

(* The API server accepts an update of the current version only. *)
VersionMatches == localFresh

(* Control of a pass. *)
Goto(l) == pc' = l /\ idx' = 1

Advance(loop, exit) ==
  IF idx < Len(Order) THEN pc' = loop /\ idx' = idx + 1 ELSE Goto(exit)

(* The pass returns: with an error (requeued), with RequeueAfter, or bare. *)
Return(error, after) ==
  /\ pc' = "idle" /\ idx' = 1 /\ doomed' = {} /\ local' = NewTeam /\ localFresh' = FALSE
  /\ queued' = (queued \/ error)
  /\ timer' = (timer \/ after)

-----------------------------------------------------------------------------
(* Mutant: a Failed team is handled as a Running one. *)
DispatchesFailed(phases) ==
  cachedTeam.phase \in (IF "Running" \in phases THEN phases \cup {"Failed"} ELSE phases)

Dispatches(phases) == cachedTeam.phase \in phases

(* Reconcile: a worker takes the key, reads the team and dispatches on the
   phase it has read. *)
Begin(phases) ==
  /\ pc = "idle" /\ queued
  /\ Dispatches(phases)
  /\ queued' = FALSE
  /\ idx' = 1
  /\ localFresh' = cacheFresh
  /\ UNCHANGED <<apiVars, cacheVars, envVars, succeeded, failed, spawned>>

BeginPending ==
  /\ Begin({"Pending"})
  /\ pc' = "provision" /\ local' = cachedTeam
  /\ UNCHANGED <<doomed, timer, sent>>

(* reconcileInitializing up to the init Job's verdict. *)
BeginInitializing ==
  /\ Begin({"Initializing"})
  /\ UNCHANGED <<doomed, timer, sent>>
  /\ IF IsTimedOut(cachedTeam)
       THEN pc' = "update" /\ local' = Enter(cachedTeam, "TimedOut", "TimedOut")
     ELSE IF Coding /\ cachedJobs["init"] = "Failed"
       THEN pc' = "update" /\ local' = Enter(cachedTeam, "Failed", "InitJobFailed")
     ELSE /\ Coding => cachedJobs["init"] = "Succeeded"
          /\ pc' = "lead" /\ local' = cachedTeam

(* The init Job is still running: nothing is written, requeue after 10s. *)
AwaitInitJob ==
  /\ pc = "idle" /\ queued
  /\ cachedTeam.phase = "Initializing"
  /\ ~IsTimedOut(cachedTeam)
  /\ Coding /\ cachedJobs["init"] \in {"None", "Active"}
  /\ queued' = FALSE /\ timer' = TRUE
  /\ UNCHANGED <<apiVars, cacheVars, passVars, envVars, histVars>>

(* Mutant: a team that is already over its budget is not warned. *)
FiresWarningBelowLimit(st) ==
  ~st.warned /\ OverWarning(Elapsed(st)) /\ ~OverBudget(Elapsed(st))

(* maybeFireBudgetWarning: the event is sent before the condition that
   remembers it is persisted. *)
FiresWarning(st) == ~st.warned /\ OverWarning(Elapsed(st))
Warned(st) == [st EXCEPT !.warned = @ \/ FiresWarning(st)]

(* reconcileRunning up to the first write: timeout, budget, status sync. One
   reading of the clock stands for those of the warning and of the budget
   check: when no warning is due no call comes between the two. *)
BeginRunning ==
  /\ Begin({"Running"})
  /\ UNCHANGED timer
  /\ IF IsTimedOut(cachedTeam)
       THEN /\ pc' = "stop" /\ doomed' = ListedPods
            /\ local' = Enter(cachedTeam, "TimedOut", "TimedOut")
            /\ UNCHANGED sent
       ELSE /\ IF FiresWarning(cachedTeam) THEN Count("budget.warning") ELSE UNCHANGED sent
            /\ IF OverBudget(Elapsed(cachedTeam))
                 THEN /\ pc' = "stop" /\ doomed' = ListedPods
                      /\ local' = Enter(Warned(cachedTeam), "BudgetExceeded", "BudgetExceeded")
                 ELSE /\ pc' = "failures" /\ UNCHANGED doomed
                      /\ local' = SyncPodStatuses(Warned(cachedTeam))

BeginTerminal ==
  /\ Begin(Terminal)
  /\ pc' = "cleanup" /\ doomed' = ListedPods /\ local' = cachedTeam
  /\ UNCHANGED <<timer, sent>>

-----------------------------------------------------------------------------
(* reconcilePending: ensure the claims and the init Job one after the other,
   then stamp StartedAt. *)

Provisioning == pc = "provision" /\ idx <= Len(ProvisionPlan)
ThisObject == ProvisionPlan[idx]

ObjectCached == IF ThisObject = "init-job" THEN cachedJobs["init"] # "None"
                                           ELSE ThisObject \in cachedClaims
ObjectExists == IF ThisObject = "init-job" THEN jobs["init"] # "None"
                                           ELSE ThisObject \in claims

ProvisionStep ==
  /\ Provisioning
  /\ ObjectCached \/ ~ObjectExists
  /\ jobs' = IF ~ObjectCached /\ ThisObject = "init-job"
               THEN [jobs EXCEPT !["init"] = "Active"] ELSE jobs
  /\ claims' = IF ThisObject # "init-job" THEN claims \cup {ThisObject} ELSE claims
  /\ idx' = idx + 1
  /\ UNCHANGED <<team, pods, cacheVars, pc, doomed, local, localFresh, queueVars, envVars, histVars>>

(* A stale cache makes Create fail with AlreadyExists; the pass is retried. *)
ProvisionExists ==
  /\ Provisioning
  /\ ~ObjectCached /\ ObjectExists
  /\ Return(TRUE, FALSE)
  /\ UNCHANGED <<apiVars, cacheVars, envVars, histVars>>

Provisioned ==
  /\ pc = "provision" /\ idx = Len(ProvisionPlan) + 1
  /\ local' = [Enter(local, "Initializing", "Initializing") EXCEPT !.startedAt = now]
  /\ Goto("update")
  /\ UNCHANGED <<apiVars, cacheVars, doomed, localFresh, queueVars, envVars, histVars>>

-----------------------------------------------------------------------------
(* reconcileInitializing: deploy the lead, then every teammate that is not
   held back, then announce the team. *)

Tm == Order[idx]

DeployLead ==
  /\ pc = "lead"
  /\ EnsureAgentPod("lead")
  /\ Goto("deploy")
  /\ UNCHANGED <<team, jobs, claims, cacheVars, doomed, local, localFresh, queueVars, envVars,
                 succeeded, failed, sent>>

DeployTeammate ==
  /\ pc = "deploy"
  /\ Advance("deploy", "announce")
  /\ IF ~DependenciesMet(Tm)
       THEN UNCHANGED <<local, pods, spawned>>
     ELSE IF WaitsFor(Tm, local.approved) # NoApproval
       THEN /\ local' = SetPending(local, Tm, WaitsFor(Tm, local.approved))
            /\ UNCHANGED <<pods, spawned>>
     ELSE EnsureAgentPod(Tm) /\ UNCHANGED local
  /\ UNCHANGED <<team, jobs, claims, cacheVars, doomed, localFresh, queueVars, envVars,
                 succeeded, failed, sent>>

Announce ==
  /\ pc = "announce"
  /\ local' = Enter(local, "Running", "Running")
  /\ Count("team.started")
  /\ Goto("update")
  /\ UNCHANGED <<apiVars, cacheVars, doomed, localFresh, queueVars, envVars,
                 succeeded, failed, spawned>>

-----------------------------------------------------------------------------
(* handleTeammateFailures. *)

PassOverTeammate ==
  /\ pc = "failures"
  /\ cachedPods[Tm] # "Failed"
  /\ Advance("failures", "spawn")
  /\ UNCHANGED <<apiVars, cacheVars, doomed, local, localFresh, queueVars, envVars, histVars>>

RestartLimitExceeded ==
  /\ pc = "failures"
  /\ cachedPods[Tm] = "Failed"
  /\ ~RestartsLeft(Tm)
  /\ local' = Enter(local, "Failed", "RestartLimitExceeded")
  /\ Goto("errors")
  /\ UNCHANGED <<apiVars, cacheVars, doomed, localFresh, queueVars, envVars, histVars>>

(* Mutant: the restart is counted and not announced. *)
DeleteFailedPodQuietly ==
  /\ pc = "failures"
  /\ cachedPods[Tm] = "Failed"
  /\ RestartsLeft(Tm)
  /\ DeletePod(Tm)
  /\ local' = [local EXCEPT !.mates[Tm].restarts = @ + 1]
  /\ pc' = "respawn"
  /\ UNCHANGED <<team, jobs, claims, cacheVars, idx, doomed, localFresh, queueVars, envVars, histVars>>

DeleteFailedPod ==
  /\ pc = "failures"
  /\ cachedPods[Tm] = "Failed"
  /\ RestartsLeft(Tm)
  /\ DeletePod(Tm)
  /\ local' = [local EXCEPT !.mates[Tm].restarts = @ + 1]
  /\ Count("teammate.error")
  /\ pc' = "respawn"
  /\ UNCHANGED <<team, jobs, claims, cacheVars, idx, doomed, localFresh, queueVars, envVars,
                 succeeded, failed, spawned>>

Respawn ==
  /\ pc = "respawn"
  /\ EnsureAgentPod(Tm)
  /\ Advance("failures", "spawn")
  /\ UNCHANGED <<team, jobs, claims, cacheVars, doomed, local, localFresh, queueVars, envVars,
                 succeeded, failed, sent>>

-----------------------------------------------------------------------------
(* reconcileRunning: spawn what has become unblocked, then look for the end. *)

MaySpawn(t) == cachedPods[t] = "None" /\ DependenciesMet(t)

SpawnTeammate ==
  /\ pc = "spawn"
  /\ Advance("spawn", "complete")
  /\ IF ~MaySpawn(Tm)
       THEN UNCHANGED <<local, pods, spawned>>
     ELSE IF WaitsFor(Tm, local.approved) # NoApproval
       THEN /\ local' = SetPending(local, Tm, WaitsFor(Tm, local.approved))
            /\ UNCHANGED <<pods, spawned>>
     ELSE /\ local' = SetPending(local, Tm, NoApproval)
          /\ EnsureAgentPod(Tm)
  /\ UNCHANGED <<team, jobs, claims, cacheVars, doomed, localFresh, queueVars, envVars,
                 succeeded, failed, sent>>

(* ensureAgentPod fails with AlreadyExists at one of its four call sites. *)
SpawnExists ==
  /\ \/ pc = "lead" /\ AgentPodExists("lead")
     \/ pc = "respawn" /\ AgentPodExists(Tm)
     \/ /\ pc \in {"deploy", "spawn"}
        /\ DependenciesMet(Tm)
        /\ WaitsFor(Tm, local.approved) = NoApproval
        /\ AgentPodExists(Tm)
  /\ Return(TRUE, FALSE)
  /\ UNCHANGED <<apiVars, cacheVars, envVars, histVars>>

(* Mutant: the lead is not looked at. *)
AllTeammatesDone == \A t \in Teammates : cachedPods[t] = "Succeeded"

AnyFailed == \E a \in Agents : cachedPods[a] = "Failed"
AllDone == \A a \in Agents : cachedPods[a] = "Succeeded"

AgentFailed ==
  /\ pc = "complete"
  /\ AnyFailed
  /\ local' = Enter(local, "Failed", "AgentFailed")
  /\ Goto("errors")
  /\ UNCHANGED <<apiVars, cacheVars, doomed, localFresh, queueVars, envVars, histVars>>

(* fireTeammateErrorEvents: every pod is read once more, the lead's first, and
   announced if it is still there and Failed. *)
Suspect == IF idx = 1 THEN "lead" ELSE Order[idx - 1]

FireTeammateErrorEvent ==
  /\ pc = "errors"
  /\ IF cachedPods[Suspect] = "Failed" THEN Count("teammate.error") ELSE UNCHANGED sent
  /\ IF idx <= Len(Order) THEN idx' = idx + 1 /\ UNCHANGED pc ELSE Goto("update")
  /\ UNCHANGED <<apiVars, cacheVars, doomed, local, localFresh, queueVars, envVars,
                 succeeded, failed, spawned>>

StillRunning ==
  /\ pc = "complete"
  /\ ~AnyFailed /\ ~AllDone
  /\ Goto("update")
  /\ UNCHANGED <<apiVars, cacheVars, doomed, local, localFresh, queueVars, envVars, histVars>>

Finalize ==
  /\ pc = "complete"
  /\ AllDone
  /\ Goto(IF NeedsPush /\ ~local.branch THEN "pushJob" ELSE "onComplete")
  /\ UNCHANGED <<apiVars, cacheVars, doomed, local, localFresh, queueVars, envVars, histVars>>

(* ensurePushBranchJob: the Job is created unless the cache has it. *)
EnsurePushBranchJob ==
  /\ pc = "pushJob"
  /\ \/ cachedJobs["push"] # "None" /\ UNCHANGED jobs
     \/ /\ cachedJobs["push"] = "None" /\ jobs["push"] = "None"
        /\ jobs' = [jobs EXCEPT !["push"] = "Active"]
  /\ Goto("pushCheck")
  /\ UNCHANGED <<team, pods, claims, cacheVars, doomed, local, localFresh, queueVars, envVars, histVars>>

(* runFinalization's error returns: AlreadyExists, or any failed call up to
   and including the look at the Job. *)
PushBranchJobError ==
  /\ \/ /\ pc = "pushJob"
        /\ cachedJobs["push"] = "None" /\ jobs["push"] # "None"
        /\ UNCHANGED faults
     \/ /\ pc \in {"pushJob", "pushCheck"}
        /\ "error" \in FaultKinds /\ faults < MaxFaults /\ faults' = faults + 1
  /\ local' = Enter(local, "Failed", "FinalizationFailed")
  /\ Goto("update")
  /\ UNCHANGED <<apiVars, cacheVars, doomed, localFresh, queueVars, now, histVars>>

(* checkJobStatus of the push-branch Job, from the cache. *)
CheckPushBranchJob ==
  /\ pc = "pushCheck"
  /\ CASE cachedJobs["push"] = "Succeeded" ->
            local' = [local EXCEPT !.branch = TRUE] /\ Goto("onComplete")
       [] cachedJobs["push"] = "Failed" ->
            local' = Enter(local, "Failed", "FinalizationFailed") /\ Goto("update")
       [] OTHER ->
            local' = [local EXCEPT !.reason = "Finalizing"] /\ Goto("update")
  /\ UNCHANGED <<apiVars, cacheVars, doomed, localFresh, queueVars, envVars, histVars>>

(* Mutant: a pull request is recorded before it has been opened. *)
ExecuteOnCompleteUnsent ==
  /\ pc = "onComplete"
  /\ \E ok \in BOOLEAN :
       /\ local' = [Enter(local, "Completed", "Completed") EXCEPT
                      !.delivered = @ \/ OnComplete = "deliver"
                                      \/ (OnComplete = "create-pr" /\ Coding)]
       /\ IF ok THEN Count("onComplete") ELSE UNCHANGED sent
  /\ Goto("update")
  /\ UNCHANGED <<apiVars, cacheVars, doomed, localFresh, queueVars, envVars,
                 succeeded, failed, spawned>>

(* executeOnComplete: notify, open the pull request or deliver, now; the
   result is only recorded in the status that the next step persists. A
   failure is logged and the team completes all the same. *)
ExecuteOnComplete ==
  /\ pc = "onComplete"
  /\ \E ok \in BOOLEAN :
       /\ local' = [Enter(local, "Completed", "Completed") EXCEPT
                      !.delivered = @ \/ OnComplete = "deliver"
                                      \/ (OnComplete = "create-pr" /\ Coding /\ ok)]
       /\ IF ok /\ (OnComplete \in {"notify", "deliver"} \/ (OnComplete = "create-pr" /\ Coding))
            THEN Count("onComplete") ELSE UNCHANGED sent
  /\ Goto("update")
  /\ UNCHANGED <<apiVars, cacheVars, doomed, localFresh, queueVars, envVars,
                 succeeded, failed, spawned>>

-----------------------------------------------------------------------------
(* terminateAllPods, when a limit is hit and in the terminal phases. *)

TerminatePod ==
  /\ pc \in {"stop", "cleanup"}
  /\ \E a \in doomed : DeletePod(a) /\ doomed' = doomed \ {a}
  /\ UNCHANGED <<team, jobs, claims, cacheVars, pc, idx, local, localFresh, queueVars, envVars, histVars>>

Stopped ==
  /\ pc = "stop" /\ doomed = {}
  /\ Goto("update")
  /\ UNCHANGED <<apiVars, cacheVars, doomed, local, localFresh, queueVars, envVars, histVars>>

CleanedUp ==
  /\ pc = "cleanup" /\ doomed = {}
  /\ IF local.completedAt = NotYet
       THEN /\ local' = [local EXCEPT !.completedAt = now]
            /\ Goto("update")
            /\ UNCHANGED <<doomed, localFresh, queueVars>>
       ELSE Return(FALSE, FALSE)
  /\ UNCHANGED <<apiVars, cacheVars, envVars, histVars>>

-----------------------------------------------------------------------------
(* Status().Update: accepted if the pass has read the current version. The
   annotations are not part of the status. An update that changes nothing
   here may still have changed the displayed cost, hence the version. *)

UpdateStatus ==
  /\ pc = "update" /\ VersionMatches
  /\ team' = [local EXCEPT !.approved = team.approved]
  /\ \/ cacheFresh' = FALSE
     \/ team' = team /\ UNCHANGED cacheFresh
  /\ Return(FALSE, RequeuesAfter(local.phase))
  /\ UNCHANGED <<pods, jobs, claims, cachedTeam, cachedPods, cachedJobs, cachedClaims, envVars, histVars>>

UpdateConflict ==
  /\ pc = "update" /\ ~VersionMatches
  /\ Return(TRUE, FALSE)
  /\ UNCHANGED <<apiVars, cacheVars, envVars, histVars>>

Controller ==
  \/ BeginPending \/ BeginInitializing \/ AwaitInitJob \/ BeginRunning \/ BeginTerminal
  \/ ProvisionStep \/ ProvisionExists \/ Provisioned
  \/ DeployLead \/ DeployTeammate \/ Announce
  \/ PassOverTeammate \/ RestartLimitExceeded \/ DeleteFailedPod \/ Respawn
  \/ SpawnTeammate \/ SpawnExists
  \/ AgentFailed \/ FireTeammateErrorEvent \/ StillRunning \/ Finalize
  \/ EnsurePushBranchJob \/ PushBranchJobError \/ CheckPushBranchJob \/ ExecuteOnComplete
  \/ TerminatePod \/ Stopped \/ CleanedUp
  \/ UpdateStatus \/ UpdateConflict

-----------------------------------------------------------------------------
(* The environment: informers, workqueue, faults. *)

SyncTeam ==
  /\ ~cacheFresh
  /\ cachedTeam' = team /\ cacheFresh' = TRUE
  /\ queued' = TRUE
  /\ UNCHANGED <<apiVars, cachedPods, cachedJobs, cachedClaims, passVars, timer, envVars, histVars>>

SyncPod(a) ==
  /\ cachedPods[a] # pods[a]
  /\ cachedPods' = [cachedPods EXCEPT ![a] = pods[a]]
  /\ queued' = TRUE
  /\ UNCHANGED <<apiVars, cachedTeam, cachedJobs, cachedClaims, cacheFresh, passVars, timer, envVars, histVars>>

SyncJobs ==
  /\ cachedJobs # jobs
  /\ cachedJobs' = jobs
  /\ queued' = TRUE
  /\ UNCHANGED <<apiVars, cachedTeam, cachedPods, cachedClaims, cacheFresh, passVars, timer, envVars, histVars>>

SyncClaims ==
  /\ cachedClaims # claims
  /\ cachedClaims' = claims
  /\ queued' = TRUE
  /\ UNCHANGED <<apiVars, cachedTeam, cachedPods, cachedJobs, cacheFresh, passVars, timer, envVars, histVars>>

TimerFires ==
  /\ timer
  /\ timer' = FALSE /\ queued' = TRUE
  /\ UNCHANGED <<apiVars, cacheVars, passVars, envVars, histVars>>

Fault(kind) ==
  /\ kind \in FaultKinds
  /\ faults < MaxFaults
  /\ faults' = faults + 1

(* An API call of the pass fails, or succeeds and reports a failure: the pass
   returns the error and is requeued. Finalization, onComplete and the error
   events handle the errors of their calls themselves. *)
ApiError ==
  /\ pc \notin {"idle", "errors", "pushJob", "pushCheck", "onComplete"}
  /\ Fault("error")
  /\ Return(TRUE, FALSE)
  /\ UNCHANGED <<apiVars, cacheVars, now, histVars>>

(* The operator restarts: the pass, the workqueue and its timers are lost,
   the caches are filled anew and every object is enqueued. *)
Crash ==
  /\ Fault("crash")
  /\ pc' = "idle" /\ idx' = 1 /\ doomed' = {} /\ local' = NewTeam /\ localFresh' = FALSE
  /\ queued' = TRUE /\ timer' = FALSE
  /\ cachedTeam' = team /\ cachedPods' = pods /\ cachedJobs' = jobs /\ cachedClaims' = claims
  /\ cacheFresh' = TRUE
  /\ UNCHANGED <<apiVars, now, histVars>>

-----------------------------------------------------------------------------
(* The environment: pods, Jobs, users, the clock. *)

PodEnds(a) ==
  /\ pods[a] = "Running"
  /\ \/ /\ pods' = [pods EXCEPT ![a] = "Succeeded"]
        /\ succeeded' = succeeded \cup {a} /\ UNCHANGED failed
     \/ /\ pods' = [pods EXCEPT ![a] = "Failed"]
        /\ failed' = failed \cup {a} /\ UNCHANGED succeeded
  /\ UNCHANGED <<team, jobs, claims, cacheVars, passVars, queueVars, envVars, spawned, sent>>

PodGone(a) ==
  /\ pods[a] = "Terminating"
  /\ pods' = [pods EXCEPT ![a] = "None"]
  /\ UNCHANGED <<team, jobs, claims, cacheVars, passVars, queueVars, envVars, histVars>>

(* Somebody else deletes a pod: a drain, a preemption, a user. *)
Evict(a) ==
  /\ pods[a] \in {"Running", "Succeeded", "Failed"}
  /\ Fault("evict")
  /\ DeletePod(a)
  /\ UNCHANGED <<team, jobs, claims, cacheVars, passVars, queueVars, now, histVars>>

JobEnds(j) ==
  /\ jobs[j] = "Active"
  /\ \E s \in {"Succeeded", "Failed"} : jobs' = [jobs EXCEPT ![j] = s]
  /\ UNCHANGED <<team, pods, claims, cacheVars, passVars, queueVars, envVars, histVars>>

(* A user annotates the team: the object has a new version. *)
Approve(approval) ==
  /\ approval \in Approvals \ team.approved
  /\ team' = [team EXCEPT !.approved = @ \cup {approval}]
  /\ cacheFresh' = FALSE /\ localFresh' = FALSE
  /\ UNCHANGED <<pods, jobs, claims, cachedTeam, cachedPods, cachedJobs, cachedClaims,
                 pc, idx, doomed, local, queueVars, envVars, histVars>>

(* The clock runs until the team's timeout has passed; without a timeout it
   stops when the team starts. *)
Horizon == IF team.startedAt = NotYet THEN MaxStart ELSE team.startedAt + Timeout + 1

Tick ==
  /\ now < Horizon
  /\ now' = now + 1
  /\ UNCHANGED <<apiVars, cacheVars, passVars, queueVars, faults, histVars>>

Environment ==
  \/ SyncTeam \/ SyncJobs \/ SyncClaims \/ TimerFires \/ ApiError \/ Crash \/ Tick
  \/ \E a \in Agents : SyncPod(a) \/ PodEnds(a) \/ PodGone(a) \/ Evict(a)
  \/ \E j \in {"init", "push"} : JobEnds(j)
  \/ \E approval \in Approvals : Approve(approval)

Next == Controller \/ Environment

Spec == Init /\ [][Next]_vars

(* Fairness: a worker that has a step takes it; watch events, timers and the
   clock arrive; the kubelet finishes a termination. Pods, Jobs and users
   promise nothing. *)
Fairness ==
  /\ WF_vars(Controller)
  /\ WF_vars(SyncTeam) /\ WF_vars(SyncJobs) /\ WF_vars(SyncClaims)
  /\ WF_vars(TimerFires) /\ WF_vars(Tick)
  /\ \A a \in Agents : WF_vars(SyncPod(a)) /\ WF_vars(PodGone(a))

FairSpec == Spec /\ Fairness

-----------------------------------------------------------------------------
(* Properties that hold. *)

(* dependenciesMet: no teammate has a pod before every agent it effectively
   depends on has succeeded, whatever the caches and the respawns do. *)
DependencyOrder ==
  \A t \in Teammates : pods[t] # "None" => EffectiveDependencies(t) \subseteq succeeded

(* StageSpec.dependsOn: no teammate of a stage has a pod before every teammate
   of every upstream stage has succeeded, wherever the stages are listed. *)
StageOrder ==
  \A i, j \in DOMAIN Stages :
    Stages[j].name \in Stages[i].dependsOn =>
      \A t \in Stages[i].teammates \cap Teammates :
        pods[t] # "None" => Stages[j].teammates \subseteq succeeded

(* stageApprovalGranted and checkApprovalGate: no gated teammate has a pod
   before the team carries the annotations that approve it. *)
ApprovalBeforeSpawn ==
  \A t \in Teammates : pods[t] # "None" => NeededApprovals(t) \subseteq team.approved

(* reconcilePending and reconcileInitializing: no agent has a pod before all
   claims exist, and in coding mode before the init Job has succeeded. *)
ProvisionedBeforePods ==
  (\E a \in Agents : pods[a] # "None") =>
     claims = Claims /\ (Coding => jobs["init"] = "Succeeded")

(* allPodsComplete and runFinalization: a Completed team is one whose every
   agent has succeeded and, if a branch is to be published, whose
   push-branch Job has succeeded. *)
CompletedMeansDone ==
  team.phase = "Completed" =>
    /\ succeeded = Agents
    /\ NeedsPush => jobs["push"] = "Succeeded" /\ team.branch

(* The reason of a failure is true: an agent did fail, the init Job did, the
   teammate had used up its restarts; and if it was the finalization that
   failed, no agent is to blame, all have succeeded. *)
FailureHasCause ==
  /\ team.reason = "AgentFailed" => failed # {}
  /\ team.reason = "InitJobFailed" => jobs["init"] = "Failed"
  /\ team.reason = "RestartLimitExceeded" =>
       \E t \in Teammates : t \in failed /\ team.mates[t].restarts = MaxRestarts
  /\ team.reason = "FinalizationFailed" => NeedsPush /\ succeeded = Agents

(* updatePipelineStatus: a stage is reported Running only after its upstream
   stages have succeeded and its approval is given, and Completed only after
   its own teammates have succeeded. *)
StageStatusIsTrue ==
  \A i \in DOMAIN Stages :
    /\ team.stages[i].phase = "Completed" => Stages[i].teammates \subseteq succeeded
    /\ team.stages[i].phase = "Running" =>
         /\ StageApprovalGranted(Stages[i], team.approved)
         /\ \A j \in DOMAIN Stages :
              Stages[j].name \in Stages[i].dependsOn => Stages[j].teammates \subseteq succeeded

(* The documented roll-up: a stage waits while an upstream stage, wherever it
   is listed, is not completed. Every pass that syncs the status computes it. *)
UpstreamCompleted(i, phases) ==
  \A j \in DOMAIN Stages :
    Stages[j].name \in Stages[i].dependsOn => StageDone(Stages[j], phases)
StageHeld(i, phases) ==
  ~StageDone(Stages[i], phases) /\ PhaseIn(Stages[i], phases, {"Failed"}) = {}
StageRollup ==
  [][pc = "idle" /\ pc' = "failures" =>
       LET phases == [t \in Teammates |-> AgentPhase(cachedPods[t])] IN
       \A i \in DOMAIN Stages :
         StageHeld(i, phases) /\ UpstreamCompleted(i, phases)
           /\ StageApprovalGranted(Stages[i], cachedTeam.approved)
           /\ PhaseIn(Stages[i], phases, {"Running", "Completed"}) # {}
         => local'.stages[i].phase = "Running"]_vars

(* maybeFireBudgetWarning comes first: a team stopped for its budget was
   warned, in its status and (when counted) over the webhook. *)
WarnedBeforeExceeded ==
  team.phase = "BudgetExceeded" =>
    /\ team.warned
    /\ "budget.warning" \in Counted => sent["budget.warning"] > 0

(* Events and deliveries go out before the status update that records them, so
   a crash, an error or a conflict in between may repeat one but not lose it:
   the warning and the delivery that the status records were sent, and every
   restart it counts was announced (sent is capped at MaxCount). *)
RecordedMeansSent ==
  /\ team.warned /\ "budget.warning" \in Counted => sent["budget.warning"] > 0
  /\ "teammate.error" \in Counted =>
       \A t \in Teammates :
         team.mates[t].restarts <= sent["teammate.error"] \/ sent["teammate.error"] = MaxCount
  /\ team.delivered /\ OnComplete = "create-pr" /\ "onComplete" \in Counted
       => sent["onComplete"] > 0

(* Phase changes follow the lifecycle, and a terminal phase is final, however
   stale the copy was that a pass has worked on. *)
PhaseEdges ==
  {<<"Pending", "Initializing">>}
    \cup {<<"Initializing", p>> : p \in {"Running", "TimedOut", "Failed"}}
    \cup {<<"Running", p>> : p \in Terminal}
PhaseGraph ==
  [][team'.phase # team.phase => <<team.phase, team'.phase>> \in PhaseEdges]_vars

(* No lost updates: what the status has recorded is not taken back. The
   StartedAt and CompletedAt stamps stay (timeout and cost count from the
   first), restart counts and artifacts only grow, the budget warning, the
   branch and the delivery stay recorded. *)
StatusOnlyGrows ==
  [][/\ team.startedAt # NotYet => team'.startedAt = team.startedAt
     /\ team.completedAt # NotYet => team'.completedAt = team.completedAt
     /\ \A t \in Teammates : team'.mates[t].restarts >= team.mates[t].restarts
     /\ team.artifacts \subseteq team'.artifacts
     /\ team.warned => team'.warned
     /\ team.branch => team'.branch
     /\ team.delivered => team'.delivered]_vars

(* The promise the controller keeps: see TeamLifecycle. *)
Lifecycle == INSTANCE TeamLifecycle WITH
  Needs <- [a \in Agents |-> IF a = "lead" THEN {} ELSE EffectiveDependencies(a)],
  Approval <- [a \in Agents |-> IF a = "lead" THEN {} ELSE NeededApprovals(a)],
  phase <- team.phase,
  live <- {a \in Agents : pods[a] # "None"},
  done <- succeeded,
  approved <- team.approved

(* The controller, with its stale reads and lost passes, implements the
   lifecycle that the documentation describes. *)
ImplementsLifecycle == Lifecycle!Spec

(* isTimedOut bounds every team: it reaches a terminal phase even if its
   agents hang. *)
EventuallyTerminal == <>(team.phase \in Terminal)

(* reconcileTerminal: in the end no pod is left, even one that a pass on a
   stale copy has created after the team had ended, and CompletedAt is set. *)
EventuallyCleanedUp ==
  <>[](team.completedAt # NotYet /\ \A a \in Agents : pods[a] = "None")

-----------------------------------------------------------------------------
(* What comments and API documentation say, and the code does not keep. *)

(* MaxRestarts "bounds how many times each teammate pod may be re-spawned". *)
RespawnsBounded == \A t \in Teammates : spawned[t] <= MaxRestarts + 1

(* A crashed teammate is re-spawned while it has restarts left; "before the
   team itself is marked Failed". *)
RestartsUsedBeforeFailing ==
  team.reason = "AgentFailed" =>
    "lead" \in failed \/ \E t \in failed : team.mates[t].restarts >= MaxRestarts

(* "executeOnComplete only runs once per team". *)
OnCompleteOnce == sent["onComplete"] <= 1

(* budget.warning is sent "the first time" the cost crosses the threshold. *)
BudgetWarningOnce == sent["budget.warning"] <= 1

(* fireTeammateErrorEvents is "called once at the transition into the Failed
   phase so events do not repeat across reconciles"; without restarts it is
   the only one to send them, one for each agent at most. *)
ErrorEventsOnce == MaxRestarts = 0 => sent["teammate.error"] <= Len(Order) + 1

(* It sends an event "for every failed pod": a team that is Failed for an agent
   has announced one. *)
FailureAnnounced ==
  team.reason \in {"AgentFailed", "RestartLimitExceeded"} /\ "teammate.error" \in Counted
    => sent["teammate.error"] > 0

(* An error from runFinalization means the finalization failed terminally. *)
FinalizationFailureIsTerminal ==
  team.reason = "FinalizationFailed" => jobs["push"] = "Failed"

(* PendingApproval is the gate the teammate "is waiting on, if any". *)
NothingPendingWhenCompleted ==
  team.phase = "Completed" => \A t \in Teammates : team.mates[t].pending = NoApproval

(* "The team is marked Failed when any teammate's RestartCount reaches
   Spec.Lifecycle.MaxRestarts." *)
FailedAtRestartLimit ==
  team.phase = "Completed" => \A t \in Teammates : team.mates[t].restarts < MaxRestarts
=============================================================================
