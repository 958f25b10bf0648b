# Verification of the kagents operator

TLA+ modules, TLC configurations and TLAPS proofs about the kagents operator: a
Kubernetes manager that runs teams of coding agents as pods, a webhook listener
that starts them, and a dashboard that shows them. The modules model the
controllers under `src/internal/controller/`, the listener under
`src/internal/trigger/` and the event streams under `src/internal/dashboard/`;
line-by-line correspondence is in `PROJECT.json` ("map").

## 1. The system

| component | state it keeps | operations | model |
|---|---|---|---|
| AgentTeam controller (`agentteam_controller.go`) | the team's status: phase, condition reasons, timestamps, per-teammate restart count and pending approval, stage phases, artifacts, branch, pull request/delivery; pods, Jobs and PVCs it owns | `Reconcile` with a handler per phase: Pending (PVCs, init Job), Initializing (wait for the init Job, lead, first teammates), Running (timeout, budget, respawn, spawn, completion, finalization, onComplete), terminal (delete pods, stamp completion) | `AgentTeam` |
| Dependencies, approval gates, pipeline stages (same file, `agentteam_types.go`) | none (computed from spec, annotations, pod phases) | `effectiveDependencies`, `checkApprovalGate`, `stageApprovalGranted`, `updatePipelineStatus` | `TeamSpec` |
| Budget (`internal/budget/tracker.go`) | none (elapsed time times a rate) | estimate, over budget, 80% warning | operators of `TeamSpec` |
| AgentTeamSchedule controller | `nextScheduledAt`, `lastScheduledAt`, `activeRun`, the history of Runs | bootstrap, fire a window, refresh phases, garbage-collect, requeue | `Schedule` |
| AgentTeamRun controller | the Run's phase and team reference; the AgentTeam it creates | template lookup, wait for `Ready`, render the spec, create/update the team, mirror its phase | `Template` (with the contents), `Schedule` (with many Runs) |
| AgentTeamTemplate controller | `Ready` condition | validate the template | `Template`; `Schedule` has the outcome for a valid template |
| Trigger listener (`internal/trigger/handler.go`) | none; creates and deletes Runs and payload ConfigMaps | serve webhook requests under a concurrency policy | `Trigger` |
| AgentTeamTrigger controller | `activeRun`, `totalRuns`, `lastTriggeredAt`, history | recompute the status from the Runs, every 30 seconds | `Trigger` |
| Dashboard (`internal/dashboard`) | per stream: last hash, tickers; per page: what it shows | render pages, poll and push changes | `EventStream`; JSON endpoints and logs not modelled |
| Pod wiring, harness, RBAC, MCP ConfigMaps | none | build objects | not modelled: no control over time |
| Webhook notifier, delivery, GitHub client | none | send HTTP requests | only that they are called, and how often |
| Metrics, `main` packages | gauges, flags | observe, wire up | not modelled |

The components share state only through API objects. A controller reads from
informer caches, writes to the API server, and is woken by watch events on its
own objects and on those it owns, by `RequeueAfter` timers and by errors (rate
limited retries). Schedule → Run → AgentTeam is a chain of owners: each level
creates the object below and mirrors its phase back up. The trigger listener is
a process of its own: it creates Runs from outside and reads the status that
the Trigger controller, in the manager, writes. The dashboard is a third
process that only reads.

What is hard:

* **Caches lag.** A pass may see an old team (and repeat a transition), an old
  pod (and delete or count it twice), or miss an object it has just created
  (`AlreadyExists`). Only the resource version of the final status update keeps
  stale decisions out of the status; nothing keeps their side effects out.
* **One status update at the end of a pass.** Everything before it (deleted
  pods, created pods and Jobs, sent events, opened pull requests) happens even
  when the update conflicts, an API call fails, or the operator restarts.
* **Time.** Timeouts, budget, requeue timers and cron windows race with pods
  that end, and passes come late.
* **Two controllers on one object.** The schedule decides what to delete from a
  phase that the Run controller mirrors from a team, with a delay at each hop.
* **Two processes on one decision.** The listener decides Forbid and Replace on a
  status that is recomputed up to 30 seconds later, and serves requests
  concurrently; a handler may fail or be killed between any two of its calls.
* **A verdict and what it is about.** `Ready` is computed from a copy of a
  template that is edited meanwhile, and read by another controller together
  with contents it may not belong to.
* **Suppressed work.** The dashboard sends nothing when a hash is unchanged: what
  was remembered must be what the page shows.

## 2. Modules

    TeamSpec <- AgentTeam <- AgentTeamInv <- MCAgentTeam                      (TLC)
                    |              ^-- AgentTeamProofs <- StatusProofs
                    |                    <- DoneProofs <- RecordProofs        (TLAPS)
                    `-- INSTANCE TeamLifecycle (refinement)
    Schedule    <- MCSchedule (TLC), ScheduleProofs                           (TLAPS)
    Template    <- MCTemplate (TLC), TemplateProofs                           (TLAPS)
    Trigger     <- MCTrigger (TLC), TriggerProofs                             (TLAPS)
    EventStream <- MCEventStream (TLC), StreamProofs                          (TLAPS)

(an arrow points to the module that is extended)

**`TeamSpec`** has the team's specification as constants (teammates in the order
of the spec, `dependsOn`, `inputs[].from`, pipeline stages, approval gates,
restart limit, timeout, budget, onComplete) and the pure functions on it:
`EffectiveDependencies`, `WaitsFor` (which approval holds a teammate back, stage
before spawn gate), `UpdatePipelineStatus`, `OverBudget`, `OverWarning`.

**`AgentTeam`** is one team, its controller and the environment. For every object
there is the API server's state (`team`, `pods`, `jobs`, `claims`) and the
informers' (`cachedTeam`, ...). A reconcile pass is a program with a counter
`pc`: it copies the cached team to `local`, runs one handler, at most one write
per step, and ends in `update` or in an error return. The resource version is
kept as one bit per copy: `localFresh` and `cacheFresh` say whether the copy
has the current version; a status update needs `localFresh`
(`UpdateStatus`), otherwise it is a conflict (`UpdateConflict`).

| handler | actions |
|---|---|
| `reconcilePending` | `BeginPending`, `ProvisionStep`, `ProvisionExists`, `Provisioned` |
| `reconcileInitializing` | `BeginInitializing`, `AwaitInitJob`, `DeployLead`, `DeployTeammate`, `Announce` |
| `reconcileRunning` | `BeginRunning` (timeout, warning, budget, status sync, stage roll-up), `PassOverTeammate`, `RestartLimitExceeded`, `DeleteFailedPod`, `Respawn`, `SpawnTeammate`, `SpawnExists`, `AgentFailed`, `FireTeammateErrorEvent` (one pod at a time, read again), `StillRunning`, `Finalize`, `EnsurePushBranchJob`, `PushBranchJobError`, `CheckPushBranchJob`, `ExecuteOnComplete` |
| `reconcileTerminal`, `terminateAllPods` | `BeginTerminal`, `TerminatePod`, `Stopped`, `CleanedUp` |
| end of a pass | `UpdateStatus`, `UpdateConflict`, `ApiError` |
| environment | `SyncTeam`, `SyncPod`, `SyncJobs`, `SyncClaims` (watch events), `TimerFires`, `Crash`, `PodEnds`, `PodGone`, `Evict`, `JobEnds`, `Approve`, `Tick` |

**`TeamLifecycle`** is what the operator promises about a team without caches,
passes and versions: phases follow the lifecycle, an agent gets a pod only when
those it needs have succeeded and its approvals are given, and `Completed`
needs everybody's success. `AgentTeam!ImplementsLifecycle` is the refinement.

**`Schedule`** is one schedule, the Runs it creates and their teams. A window
(a time at which the cron expression fires) is the name of its Run and team.
The schedule's pass is again a sequence of steps (`Begin`, fire, refresh,
garbage collection one delete at a time, status update), and the Run
controller's pass has two writes with other steps between them. The team is
abstract here: it is in flight, and ends or does not.

**`Template`** is one template, one Run that refers to it and the Run's team, with
the contents that `Schedule` leaves out. A Run's phase is InFlight, Completed or
Failed, and Failed may come from the team or, with the reason `TemplateNotFound`,
from the Run controller itself. `ValidateTemplate` and
`MergeRunIntoTemplate` are the functions of the same names;
`TmplBegin`/`TmplUpdate`/`TmplError` are a pass of the Template controller,
`RunBegin` (up to the first write), `EnsureTeam`, `RunUpdate` and their errors
one of the Run controller. A team's agents complete in the order of their
`dependsOn`, so a spec nobody can satisfy hangs. Users edit, delete and re-apply
the template between any two steps.

**`Trigger`** is one trigger, the requests that reach the listener and the Trigger
controller. A request is a program: `Arrive` (checks before anything is read),
`Lookup` (the read, the signature and the decision), `DeleteRun` for Replace,
`CreatePayload`, `CreateRun`; each call may fail before or after its effect
(`LookupError`, `DeleteError`, `PayloadError`, `CreateError`) and the handler may
be killed before each (`Abandon`). The controller lists cached Runs (`Begin`) and
writes the status (`Update`, `UpdateError`); only its timer and changes of the
trigger wake it, since it does not watch Runs. What the Run controller does to a Run's
phase is `RunEnds` (the team has ended), `RunFails` (the template is missing; the
team may go on) and `RunRevives` (the template is back, the team is still going).
A Run is named after the second,
so a second is its name and requests of one second collide as in the code.

**`EventStream`** is one browser page, its event stream and the server's loop:
`Connect`, the two tickers, `Poll` with the hash gate, `PollGone`, `PollError`,
`Heartbeat`, `Done`. Streams share no state, so one stands for all.

Abstractions, all of data that no decision of the code reads or that cannot be
told apart:

* a watch event brings one object's cached copy up to date in one step; each
  pod is delivered separately, so caches of different objects are skewed;
* cached reads of one loop iteration happen in one step; a read and the write
  that depends on it may be separated by any environment step;
* pod phases Pending and Running are one; a pod being terminated is not seen
  Failed; the displayed phases of lead and teammates, `Ready`, the printed
  cost and all texts are left out;
* RBAC objects and ConfigMaps created in front of a pod are part of
  `EnsureAgentPod`; their failures are `ApiError`;
* HTTP calls return; effects are counted up to a bound (`MaxCount`): 0 or some,
  or, where a repetition is the question, 0, 1 or many;
* approvals are not revoked, the spec is not edited, phases are those of the
  CRD's enumeration. The controller does not validate pipelines: `TeamSpec`
  takes any list of stages, and `WellFormedPipeline` and `UpstreamListedFirst`
  say what `agentteam_types.go:316` and `:327` ask of one;
* one reading of the clock stands for those of the budget warning and of the
  budget check, which the code makes one after the other in a pass;
* schedule: Run phases are InFlight, Ended (a terminal phase mirrored from the
  team) and Failed (set by the Run controller for a missing template). A Run pass
  always writes the team, and with a stale copy of it that write fails and is
  retried, so these passes read the current team. The cron expression is the set `Fires`. A
  malformed expression, an edited spec and the informers' ten-hour resync are
  not modelled. At the last tick remaining timers fire;
* template: one Run, whose spec is not edited. Get and write of the team are one
  step, a change in between being a failed write. Overrides other than the
  lifecycle are rendered by the same rule and left out; `STRING` dependencies
  are names;
* trigger: whether the signature is right is a Boolean, as are the other checks;
  the trigger is the one whose path matches (`findTrigger` takes the first); the
  payload is the request that brought it. Run phases are those of `Schedule`:
  InFlight, Ended and Failed, the last two being terminal for the controller. The
  spec's policy may be edited, the rest of it not;
* event stream: one team per namespace, looks being model values; bodies are
  their own hashes; a frame written to a connection that is not cancelled
  arrives. The server is taken to run without its `-namespace` flag.

## 3. Runs

All constants are small enough to finish in under five minutes and large enough
for the case in question to happen; each passing property has a mutant of the
code that TLC refutes under the same configuration.

| run | instance | shows |
|---|---|---|
| `team_restart` | one teammate with an output, one restart, one fault (API error, operator restart or eviction) | `TypeOK` (restart counts within the limit), `RecordedMeansSent` (counted restarts were announced), `PhaseGraph`, `StatusOnlyGrows` |
| `team_order` | two gated teammates, the first reading what the second writes | `DependencyOrder`, `ImplementsLifecycle` (dependencies and approvals again) |
| `team_stages` | two stages, the second needing an approval; a team whose timeout does not parse; one operator restart | `StageOrder`, `ApprovalBeforeSpawn`, `StageStatusIsTrue`, `StageRollup` |
| `team_finalize` | a coding team with an output claim that opens a pull request; cost 4 per tick, warning at 4, limit 5, timeout 2; one fault | `ProvisionedBeforePods`, `CompletedMeansDone`, `FailureHasCause`, `WarnedBeforeExceeded`, `RecordedMeansSent` (warning, delivery) |
| `team_live` | one teammate, no gates and no Jobs; agents may hang; one operator restart or one eviction, of the lead too | `EventuallyTerminal`, `EventuallyCleanedUp` |
| `schedule_fires` | two windows and a third ahead, history of one, one fault | `FiresOncePerWindow`, `NoOrphanRuns`, `HistorySorted`, `ActiveRunIsNewest`, `FirePointerAdvances`, `GCNeverInFlight` |
| `schedule_live` | one window, one restart or one deletion of the template | `DueWindowFires`, `EndIsMirrored` |
| `trigger_runs` | two concurrent requests, good or bad in four ways, each policy, two seconds, one fault (failed call, killed handler, restart, policy edit, a missing template) | `TypeOK`, `PayloadBeforeRun`, `AcceptedEventFired`, `OneInFlightUnlessRaced`, `ActiveRunKept`, `StatusSettles` |
| `template_runs` | two good templates and one with an unknown dependency, one edit, one fault, the Run with and without a lifecycle | `TeamIsRendered`, `MirrorIsTrue`, `ReadyIsEarned`, `ReadySettles`, `WaitingRunProceeds`, `ValidTeamEnds` |
| `stream_live` | a list or a detail page over two namespaces, three changes, one fault (flaky read, lost connection, restart) | `RememberedIsShown`, `ViewConverges`, `StreamCloses` |

Bounds. Two agents (lead and a teammate) already give all races between a
pass, a pod and its cached copy; a second teammate is needed for dependencies
and stages. One restart makes the limit both used and exceeded. One fault is
one lost pass or one restart at any step, plus as many conflicts and
`AlreadyExists` answers as the caches produce: those are not bounded.
`Timeout = 0` lets one tick time a team out, so timeouts race with everything
in most runs; `team_stages` has no timeout (`NoTimeout`), so only its agents and
the user's approval move it; `team_order` is without faults, so evictions among
its two gated teammates are left to `DependencyOrderHolds`; in `team_live` the
eviction of a teammate's pod lets a pass on a stale copy spawn it again after the
team has ended; in `team_finalize` it lets the cost pass the warning alone, or
jump over warning and limit at once, before the timeout. Two windows let Runs
overlap, be missed, and exceed a history of one. Two requests and two seconds
give every pair of decisions: concurrent, in one second, one after the other
with a stale status, and with the status recomputed. One edit between any two
steps of both controllers is enough to separate a verdict from the contents it
was given for; three changes let a team change, change back and disappear
between two polls. `MaxCount`, `MaxSpawned`, `MaxCreated` and `MaxFired` only
bound history counters.

The team, template and stream runs do not check deadlock: a team that has ended
and been cleaned up, a Run that has ended and a page that has been left have
nothing left to do. A schedule and a trigger always have a wake-up ahead, so
deadlock is checked there. `TemplateRefused.cfg` (with `MCTemplate`) repeats the
safety part of `template_runs`, with the module's `TypeOK`, for one template per
remaining reason of `validateTemplate`: it passes too.

Two runs refute what the documentation of the API says:

| run | property | the code |
|---|---|---|
| `restart_race` | `RestartsUsedBeforeFailing` | `allPodsComplete` reads the pods after `handleTeammateFailures` has decided on them: a teammate that fails in between (or whose deleted pod the cache still shows) fails the team with restarts left |
| `forbid_overlaps` | `ForbidNeverOverlaps` | Forbid is decided on `status.activeRun`, which another process fills later, and nothing reserves the place in between |

### Further disagreements

These configurations are kept beside the runs; `tlc -config X.cfg M` reproduces
each counterexample.

With `MCAgentTeam`:

| configuration | the text | the code |
|---|---|---|
| `OnCompleteTwice.cfg` | `agentteam_controller.go:1769` "executeOnComplete only runs once per team" | onComplete runs before Completed is persisted: a conflict, an error or a restart runs it again |
| `FinalizationRace.cfg` | `agentteam_controller.go:1631` "An error means the finalization failed terminally", `:1634` "Safe to call on every reconcile pass" | `AlreadyExists` from a lagging Job cache fails the team while the push-branch Job is running |
| `RestartCountLost.cfg` | `agentteam_types.go:464` "MaxRestarts bounds how many times each teammate pod may be re-spawned" | `agentteam_controller.go:585`: an error of `ensureAgentPod` after the delete loses the incremented count, and a later pass spawns the pod without counting |
| `BudgetWarningTwice.cfg` | `agentteam_controller.go:623` the warning is emitted "the first time" the threshold is crossed | the event is sent before the condition is persisted; a conflict sends it again |
| `ErrorEventsLost.cfg` | `agentteam_controller.go:594` "emits a `teammate.error` webhook event for every failed pod" | the pods are read again (`:604`) after the decision: one that has gone by then gets no event, and the team is Failed without any |
| `ErrorEventsTwice.cfg` | `agentteam_controller.go:595` "Called once at the transition into the Failed phase" | a pass on a stale team repeats the transition and its events |
| `PendingApprovalKept.cfg` | `agentteam_types.go:737` "the approval gate event this teammate is waiting on, if any" | cleared in memory just before the pod is created (`:417`): an error before the status update loses that, and later passes skip a teammate that has a pod (`:401`) |
| `RestartLimitDoc.cfg` | `agentteam_types.go:742` Failed "when any teammate's RestartCount reaches" the limit | the team fails at the failure after that |
| `StageListOrder.cfg` | `agentteam_types.go:310` "Ordering is for readability" | the roll-up only knows the stages listed before: one listed before its upstream stage stays Waiting |

With `MCSchedule`:

| configuration | the text | the code |
|---|---|---|
| `RunCollectedInFlight.cfg` | `agentteamschedule_controller.go:203` "Active or in-flight Runs are never GC'd" | a Run marked Failed for a missing template is garbage-collected with its team in flight |
| `MissedWindow.cfg` | `agentteamschedule_controller.go:86` "one Run for the most recent missed window" | the oldest missed window fires |
| `RequeueFloor.cfg` | `agentteamschedule_controller.go:45` the floor "caps how far in the future we'll requeue" | it is a minimum |
| `ActiveRunCleared.cfg` | `schedule_types.go:61` ActiveRun is "Empty when no run is currently executing" | it follows the newest Run; an older one may be in flight |
| `TemplateReapplied.cfg` | `agentteamrun_controller.go:63` "A re-applied template will trigger a fresh reconcile" | no watch covers templates |

With `MCTrigger`:

| configuration | the text | the code |
|---|---|---|
| `ReplaceLeavesOne.cfg` | `trigger_types.go:58` "delete the active Run, then create a new one" | as for Forbid: two requests that read the same status both create |
| `OneRunPerAcceptedEvent.cfg` | `trigger_types.go:11` "AgentTeamRun per accepted event" | two events of one second share a name; `AlreadyExists` is answered 202 |
| `ActiveRunKeptThroughout.cfg` | `trigger_types.go:106` "ActiveRun names the in-flight AgentTeamRun, if any" | a Run Failed for a missing template is taken off the field, by a lagging pass even after it is in flight again; Forbid then accepts a second one |
| `TotalRunsLifetime.cfg` | `trigger_types.go:111` "the total number of Runs this trigger has produced over its lifetime" | it counts the Runs that exist, and falls when Replace deletes one |

With `MCTemplate`:

| configuration | the text | the code |
|---|---|---|
| `InstantiatesOnlyValid.cfg` | `agentteamrun_controller.go:75` "Refuse to instantiate templates that haven't passed validation" | an edit leaves `Ready` as it was until the next validation, and Runs read the new contents with it |
| `ReadyIsSafe.cfg` | `template_types.go:35` Ready means "safe to instantiate" | dependency cycles pass; the team waits for itself until its timeout |
| `CompletedStaysCompleted.cfg` | `agentteamrun_controller.go:23` the Run "reflects the underlying team's progress" | a completed Run turns Failed when its template is deleted |
| `TerminalMeansOver.cfg` | `agentteamschedule_controller.go:262` a terminal phase is one that "the operator shouldn't expect to progress further" | a Run is Failed for a missing template while its team goes on, and returns to its team's phase when the template is back |

With `MCEventStream`:

| configuration | the text | the code |
|---|---|---|
| `DeletionShows.cfg` | `sse.go:127` a frame is sent "so the UI can show a "deleted" state" | the page swaps in `update` frames only (`templates/detail.html:9`) and keeps the last body |
| `ScopeKept.cfg` | `sse.go:161` a viewer with `?namespace=` "sees their preferred scope reflected over SSE" | the page connects to a URL without the query (`templates/list.html:21`): the first frame replaces the scoped list by all namespaces |

## 4. Fairness

`AgentTeam!FairSpec`, `Schedule!FairSpec`, `Template!FairSpec` and
`Trigger!FairSpec` assume weak fairness of: the controllers' workers
(controller-runtime runs a queued key and retries a failed one), watch delivery,
`RequeueAfter` timers, and, where they are part of the module, the clock, the
kubelet finishing the termination of a deleted pod, and the Template controller.
Nothing is assumed of Jobs, users, requests or, in `AgentTeam`, `Schedule` and
`Trigger`, of agents: pods may hang for ever, approvals and ends may never come.
`Template` does assume that an agent whose dependencies are met completes, since
its question is whether a spec can end at all. `EventStream!FairSpec` assumes
that tickers tick, that `select` serves a case that stays ready, and that a
browser reconnects. That HTTP calls return is
assumed by the worker's fairness; `sendWebhookEvent` posts with a client that
has no timeout, so a receiver that never answers would break it.

## 5. Proofs

Every safety invariant and every action property that a run checks is also a
theorem: TLC checks it on the instance of the run, TLAPS for every value of the
constants.

For every team (any number of teammates, any dependency graph, stages, gates,
limits) and any number of faults, from the named assumptions of `TeamSpec` and
`AgentTeam` (distinct teammate names different from "lead", natural limits):

| module | theorem | statement |
|---|---|---|
| `AgentTeamProofs` | `TypeCorrect` | `Spec => []TypeOK`, restart counts included |
| `AgentTeamProofs` | `DependencyOrderHolds`, `ApprovalBeforeSpawnHolds` | dependencies and approvals precede pods |
| `AgentTeamProofs` | `StageOrderHolds` | so do the stages a stage depends on, wherever they are listed (\*) |
| `StatusProofs` | `PhaseGraphHolds`, `StatusOnlyGrowsHolds` | phases follow the lifecycle; status fields are never taken back |
| `DoneProofs` | `CompletedMeansDoneHolds`, `InvAlways`, `LifecycleRefined` | Completed is earned; `AgentTeam` implements `TeamLifecycle` |
| `RecordProofs` | `ProvisionedBeforePodsHolds` | claims and the init Job precede pods |
| `RecordProofs` | `FailureHasCauseHolds` | the reasons AgentFailed, InitJobFailed and RestartLimitExceeded are true; FinalizationFailed means only that all agents had succeeded and a branch was to be pushed |
| `RecordProofs` | `WarnedBeforeExceededHolds`, `RecordedMeansSentHolds` | a team stopped for its budget was warned; a recorded warning or delivery and every counted restart was sent |
| `RecordProofs` | `StageStatusIsTrueHolds` | the phases shown for stages are true (\*) |
| `RecordProofs` | `StageRollupHolds` | a pass shows a stage Running as soon as it may be (\*\*) |

(\*) For pipelines with `WellFormedPipeline`: stage names are unique, no
teammate is in two stages, and teammates have names. (\*\*) For pipelines with `UpstreamListedFirst`. The
API's comments ask for both and no code checks them, so they are hypotheses of
these theorems and not assumptions of the model: the other theorems hold
without them. They are not idle: with a name used twice, or a teammate in two
stages, `pipelineDependencies` follows one of the two, and
`StageListOrder.cfg` shows what happens to a stage listed before its upstream.
`MCAgentTeam` has TLC evaluate `WellFormedPipeline` on the instance of every
team run.

For any number of requests, any defects, policies, clock and number of faults,
from `TriggerAssumption`:

| module | theorem | statement |
|---|---|---|
| `TriggerProofs` | `TypeCorrect` | `Spec => []TypeOK` |
| `TriggerProofs` | `PayloadBeforeRunHolds`, `AcceptedEventFiredHolds`, `OnlyVerifiedRequestsFireHolds` | what a Run, a 202 and a refusal mean |
| `TriggerProofs` | `OneInFlightUnlessRacedHolds` | at most one Run's team may be going, unless a decision was raced: concurrent, or on an ActiveRun that did not name the newest such Run |
| `TriggerProofs` | `ActiveRunKeptHolds` | a recorded ActiveRun that has been in flight all the time yields only to one that is no older |

For any cron expression, history limit, clock and number of faults, from
`FiresAssumption` and `ScheduleBoundsAssumption`:

| module | theorem | statement |
|---|---|---|
| `ScheduleProofs` | `TypeCorrect` | `Spec => []TypeOK` |
| `ScheduleProofs` | `FiresOnce`, `PointerAdvances` | no window fires twice, early, or after a later one |
| `ScheduleProofs` | `NoOrphans`, `HistoryIsSorted`, `ActiveIsNewest` | every Run is in the history, in order, and the newest is the active one |
| `ScheduleProofs` | `CollectsEndedOnly` | garbage collection spares Runs in flight, if no template is deleted (`"template" \notin FaultKinds`) |

For any contents and any number of edits and faults, from `TemplateAssumption`;
and for any namespaces, pages, changes and faults, from `EventStreamAssumption`:

| module | theorem | statement |
|---|---|---|
| `TemplateProofs` | `TypeCorrect` | `Spec => []TypeOK` |
| `TemplateProofs` | `ReadyIsEarnedHolds`, `TeamIsRenderedHolds`, `MirrorIsTrueHolds` | a verdict is about the contents it is written to; a team is rendered from one Ready version; an end that a Run has mirrored is its team's |
| `StreamProofs` | `RememberedIsShownHolds` | the hash gate hides nothing |

### The team's invariant

None of the team's properties is inductive: a pass acts on copies.
`AgentTeamInv` says what makes copies harmless; TLC checks its parts too.

* `OrderInv`: what a cache shows as Succeeded, or as approved, has happened and
  stays so (`PodHistory`, `ApprovalsTrue`); whoever has, or appears to have, a
  pod was ready for it, and so is the teammate whose failed pod the pass has
  deleted and is about to create again. `StageOrder` follows from it: in a
  well-formed pipeline the effective dependencies of a teammate contain the
  teammates of every upstream stage (`StageNeeds`).
* `StatusInv`: a copy with the current version equals the object
  (`CacheCurrent`); the copy of a pass fits the handler it is in
  (`HandlerPhase`); a copy that would win the update extends the current
  status and moves its phase along one edge at most (`LocalExtends`). Stale
  copies are unconstrained, since their updates are rejected.
* `DoneInv`: "Completed" and "branch published" are true of every copy however
  old (`CopiesTrue`), because success and the push Job's success are stable;
  `Finishing` carries this through the finalization steps.
* `LeftPending`: handlers past Pending run only for teams that have left it,
  which the refinement needs for `Start`.
* `RecordInv`: every copy of the team, however old, is of a team that was
  provisioned when it left Pending (`CopyProvisioned`), gives a true reason, and
  records no warning, delivery or restart that was not sent (`CopyRecords`). Claims, ended Jobs and the
  counters of sent events last, so being old does not hurt; the effect comes
  before the copy that records it, so a lost pass does not either.
* `StageInv`: the phases of the stages are true of every copy, as successes
  and approvals last.

Each proof shows `Init`, one lemma or step per action, and the temporal
conclusion with PTL. The refinement maps the pods that exist to `live` and the
history variable `succeeded` to `done`; steps of caches, queues, clock and
Jobs are stutters.

### The trigger's invariants

`TriggerProofs!IInv` says what a request knows at its step (`RequestInv`: it has
passed the checks so far, has or has not a name, and its payload is stored
before it creates), that every Run and payload goes back to a request that has
named it (`RunInv`), and whose turn it is (`TurnInv`): as long as nothing was
raced at most one request is past its decision, it is alone with at most one
Run underway (in flight, or Failed with a team that may go on) while it deletes,
and with none once it has. Only `Lookup` begins
a turn, and only on a true status with nobody being served; errors and kills
end one without starting a Run, or with the Run's own start.

`KeptInv` is about the controller. A copy of a Run is never younger than the Run
that has its name now, and exact for a Run in flight that is the first of its
name and was never Failed (`FirstInFlight`, `CopiesTrue`): such a Run has not
changed since it was seen. The history variable `lapsed` names the others. The recorded
ActiveRun has been seen (`Seen`), so a pass finds it in its list, and what it
takes from the top of the list is no older (`NoOlder`), also by the time of its
update, when its name may belong to a later Run.

### The schedule's invariant

A pass works on a copy of the status that may be from before the last fire, and
creates the Run of the window its copy points to. `ScheduleProofs!IInv` shows
why that Run is new or exists:

* `PointerLags`, `PassBehind`: a cached or copied fire pointer equals the current
  one or stands on a window that was created;
* `CreatedOnce`: a Run that was created and is gone belongs to a window that
  every copy of the pointer has passed, the copy of a running pass included.
  That is what garbage collection keeps true, because it deletes terminal
  entries only, an entry is terminal only if the cache has shown the Run
  (`EndsWereSeen`), and entries are behind the pointer (`GoodHistory`,
  `PassBehind`);
* `PassCurrent`: a pass whose update will be accepted has left the pointer where
  it is or moved it over one window, now created, and has every existing Run
  in its history or next in line;
* `Collecting`: the Runs that the loop of `gcOldRuns` is past are gone when the
  history is compacted, so nothing that still exists is dropped from it.
  `RankNumbers` and `SubsequenceElements` say what compaction keeps.

`EndInv` adds, without deleted templates, that nothing is marked Failed and
whatever shows Ended, in a Run, a copy or any history, belongs to a team that
has ended. With deleted templates it is false, and so is the property
(`RunCollectedInFlight.cfg`).

### The template's and the stream's invariants

`TemplateProofs!IInv`: a template copy with the current version is the template,
so a verdict whose update is accepted is about the present contents
(`VerdictCurrent`); whoever saw a template Ready saw contents that were Ready
(`ReadyRecorded`), and the spec a pass carries from its read to its write is
rendered from such contents (`PassRendered`); what a Run, its copy and its pass
show of the team's end is so, and a team that has ended keeps its phase
(`MirroredEverywhere`).

`StreamProofs!IInv`: the page's view and the stream's memory change together, or
the stream has been cancelled; a detail page has one namespace, so that what is
rendered is a body.

TLC checked each inductive invariant on instances like those of the runs before
it was proved.

### Only model-checked

Liveness (`EventuallyTerminal`, `EventuallyCleanedUp`, `DueWindowFires`,
`EndIsMirrored`, `StatusSettles`, `ReadySettles`, `WaitingRunProceeds`,
`ValidTeamEnds`, `ViewConverges`, `StreamCloses`): temporal reasoning from
fairness and `ENABLED` is out of the prover's reach. The counterexamples of
section 3 are TLC's too.

## 6. Plan

1. (done) `TeamSpec`, `AgentTeam`, `TeamLifecycle`; the team runs.
2. (done) `Schedule`: the schedule and Run controllers together.
3. (done) `Trigger`, `Template`, `EventStream`.
4. (done) Proofs of every safety and action property of the runs.
5. Proofs of the safety facts that the liveness arguments rest on: an idle
   controller with something left to do has a queued key or a pending timer
   (`AgentTeam`, `Schedule`, `Trigger`), and what is behind in a cache is still
   to be delivered.
6. Failure counts of Jobs.
7. Composition: `Schedule` and `Template` with the phases of `TeamLifecycle` in
   place of the abstract team, as a refinement.

## 7. Not modelled

Construction of pods, volumes, RBAC rules and ConfigMaps (objects, not
behaviour); the wire format of webhooks, Slack, delivery and GitHub requests;
token and price tables of the budget estimate (a rate stands for them);
Job failure counts (a Job is active, succeeded or failed; the code counts one as
failed when its failures reach the backoff limit, an attempt before Kubernetes
gives up); the duration and budget parsers (a timeout that does not parse is
`NoTimeout`, a budget that does not parse is no budget);
computing and comparing HMACs (a Boolean); metrics; the dashboard's JSON
endpoints, whose answers depend on one read, and the copying of pod logs; flags
and wiring of the binaries; generated deep copies.
