------------------------------ MODULE Schedule ------------------------------
(***************************************************************************)
(* An AgentTeamSchedule and the Runs it creates: the schedule controller,  *)
(* which fires windows, mirrors Run phases and garbage-collects old Runs,  *)
(* and the Run controller, which turns each Run into an AgentTeam and      *)
(* mirrors the team's phase back.  Both read from the manager's caches and *)
(* write to the API server; each has one worker.                           *)
(*                                                                         *)
(* A Run and its team are named after the schedule and the window, so a    *)
(* window is the name.  Phases are abstracted to what the controllers tell *)
(* apart: InFlight is every phase that is not terminal, Ended is every     *)
(* terminal phase that a team reaches, and Failed is the terminal phase    *)
(* that the Run controller itself sets when the template is missing.       *)
(***************************************************************************)
EXTENDS Integers, Sequences, FiniteSets

CONSTANTS
  Fires,         \* the times at which the cron expression fires
  Floor,         \* scheduleRequeueAfterFloor, in ticks
  HistoryLimit,  \* spec.historyLimit; 0 keeps all Runs
  MaxTime,       \* bound: the clock stops here
  MaxFaults,     \* bound: how many of the faults below may happen
  FaultKinds     \* which of "error", "crash" and "template" may happen

ASSUME FiresAssumption ==
  /\ Fires \subseteq Nat
  /\ \A t \in 0..MaxTime : \E w \in Fires : w > t /\ \A v \in Fires : v > t => v >= w

ASSUME ScheduleBoundsAssumption ==
  /\ Floor \in Nat /\ HistoryLimit \in Nat /\ MaxTime \in Nat /\ MaxFaults \in Nat
  /\ FaultKinds \subseteq {"error", "crash", "template"}

VARIABLES
  sched,        \* status of the schedule in the API server
  runs,         \* phase of the Run of every window, or Absent
  teams,        \* phase of the team of every window, or Absent
  template,     \* the AgentTeamTemplate: Missing, Unchecked or Ready
  cachedSched,  \* the informers' copies
  cachedRuns,
  schedFresh,   \* cachedSched has the current resource version
  freshRuns,    \* the windows whose cached Run has the current version
  pc,           \* step of the schedule controller's pass
  idx,          \* position in the history, while old Runs are deleted
  local,        \* the pass's copy of the status
  localFresh,   \* local has the current resource version
  at,           \* the time the pass has read
  queued,       \* the schedule's key is in the workqueue
  due,          \* when its RequeueAfter ends, or NotYet
  runPass,      \* the Run controller's pass, between its two writes
  runsQueued,   \* keys of Runs in the workqueue
  runsWaiting,  \* keys of Runs with a pending RequeueAfter
  now, faults,
  created       \* history: how often the Run of each window was created

apiVars == <<sched, runs, teams, template>>
cacheVars == <<cachedSched, cachedRuns, schedFresh, freshRuns>>
passVars == <<pc, idx, local, localFresh, at>>
schedQueue == <<queued, due>>
runVars == <<runPass, runsQueued, runsWaiting>>
envVars == <<now, faults>>
vars == <<apiVars, cacheVars, passVars, schedQueue, runVars, envVars, created>>

-----------------------------------------------------------------------------
(* State. *)

NotYet == -1
Time == Nat \cup {NotYet}
Phases == {"InFlight", "Ended", "Failed"}
IsRunTerminal(phase) == phase \in {"Ended", "Failed"}

ScheduleStatus == [
  next   : Fires \cup {NotYet},       \* nextScheduledAt
  last   : Fires \cup {NotYet},       \* lastScheduledAt
  active : Fires \cup {NotYet},       \* activeRun
  runs   : Seq([window : Fires, phase : Phases])]

NewSchedule == [next |-> NotYet, last |-> NotYet, active |-> NotYet, runs |-> <<>>]

NoPass == [window |-> NotYet, phase |-> "InFlight", fresh |-> FALSE, wait |-> FALSE]
MaxCreated == 2  \* bound: creations are counted as 0, 1, many

TypeOK ==
  /\ sched \in ScheduleStatus /\ cachedSched \in ScheduleStatus /\ local \in ScheduleStatus
  /\ runs \in [Fires -> Phases \cup {"Absent"}]
  /\ cachedRuns \in [Fires -> Phases \cup {"Absent"}]
  /\ teams \in [Fires -> {"Absent", "InFlight", "Ended"}]
  /\ template \in {"Missing", "Unchecked", "Ready"}
  /\ schedFresh \in BOOLEAN /\ localFresh \in BOOLEAN /\ freshRuns \subseteq Fires
  /\ pc \in {"idle", "fire", "refresh", "gc", "update"}
  /\ idx \in Nat /\ at \in Nat
  /\ queued \in BOOLEAN /\ due \in Time
  /\ runPass \in [window : Fires \cup {NotYet}, phase : Phases, fresh : BOOLEAN, wait : BOOLEAN]
  /\ runsQueued \subseteq Fires /\ runsWaiting \subseteq Fires
  /\ now \in 0..MaxTime /\ faults \in 0..MaxFaults
  /\ created \in [Fires -> 0..MaxCreated]

Init ==
  /\ sched = NewSchedule /\ cachedSched = NewSchedule /\ local = NewSchedule
  /\ runs = [w \in Fires |-> "Absent"] /\ cachedRuns = [w \in Fires |-> "Absent"]
  /\ teams = [w \in Fires |-> "Absent"]
  /\ template = "Unchecked"
  /\ schedFresh = TRUE /\ localFresh = FALSE /\ freshRuns = Fires
  /\ pc = "idle" /\ idx = 1 /\ at = 0
  /\ queued = TRUE /\ due = NotYet
  /\ runPass = NoPass /\ runsQueued = {} /\ runsWaiting = {}
  /\ now = 0 /\ faults = 0
  /\ created = [w \in Fires |-> 0]

Fault(kind) ==
  /\ kind \in FaultKinds
  /\ faults < MaxFaults
  /\ faults' = faults + 1

-----------------------------------------------------------------------------
(* The schedule controller. *)

(* Mutant: the window that has just fired is the next one again. *)
NextFireInclusive(t) == CHOOSE w \in Fires : w >= t /\ \A v \in Fires : v >= t => v >= w

(* parsed.Next: the first window after t. *)
NextFire(t) == CHOOSE w \in Fires : w > t /\ \A v \in Fires : v > t => v >= w

RequeueDelay(nextAt, t) == IF nextAt - t < Floor THEN Floor ELSE nextAt - t

(* The workqueue keeps the earlier one of two delays. *)
Earlier(d) == IF due = NotYet \/ d < due THEN d ELSE due

Windows(st) == {st.runs[i].window : i \in DOMAIN st.runs}

Return(error) ==
  /\ pc' = "idle" /\ idx' = 1 /\ local' = NewSchedule /\ localFresh' = FALSE /\ at' = 0
  /\ queued' = (queued \/ error)

(* Mutant: a window that a pass comes too late for is not made up for. *)
IsDueOnTime(st) == now = st.next

(* Mutant: a window within the floor fires ahead of its time. *)
IsDueEarly(st) == now + Floor >= st.next

IsDue(st) == now >= st.next

(* Reconcile up to its first write. *)
Begin ==
  /\ pc = "idle" /\ queued
  /\ queued' = FALSE
  /\ at' = now /\ idx' = 1 /\ localFresh' = schedFresh
  /\ \/ /\ cachedSched.next = NotYet
        /\ local' = [cachedSched EXCEPT !.next = NextFire(now)]
        /\ pc' = "update"
     \/ /\ cachedSched.next # NotYet
        /\ local' = cachedSched
        /\ pc' = IF IsDue(cachedSched) THEN "fire" ELSE "refresh"
  /\ UNCHANGED <<apiVars, cacheVars, due, runVars, envVars, created>>

(* Create in createRunForWindow; AlreadyExists is a success. *)
CreateRun(w) ==
  IF runs[w] = "Absent"
    THEN /\ runs' = [runs EXCEPT ![w] = "InFlight"]
         /\ freshRuns' = freshRuns \ {w}
         /\ created' = [created EXCEPT ![w] = IF @ < MaxCreated THEN @ + 1 ELSE @]
    ELSE UNCHANGED <<runs, freshRuns, created>>

(* Mutant: an existing Run is not recorded. *)
RecordRunIfNew(st, w) ==
  IF runs[w] # "Absent" THEN st.runs ELSE Append(st.runs, [window |-> w, phase |-> "InFlight"])

(* The history with the Run of w. *)
RecordRun(st, w) ==
  IF w \in Windows(st) THEN st.runs ELSE Append(st.runs, [window |-> w, phase |-> "InFlight"])

Fire ==
  /\ pc = "fire"
  /\ CreateRun(local.next)
  /\ local' = [next |-> NextFire(at), last |-> local.next, active |-> local.next,
                runs |-> RecordRun(local, local.next)]
  /\ pc' = "refresh"
  /\ UNCHANGED <<sched, teams, template, cachedSched, cachedRuns, schedFresh, idx, localFresh, at,
                 schedQueue, runVars, envVars>>

(* Create fails, or is done and reports a failure: the pass is retried. *)
FireError ==
  /\ pc = "fire"
  /\ Fault("error")
  /\ CreateRun(local.next) \/ UNCHANGED <<runs, freshRuns, created>>
  /\ Return(TRUE)
  /\ UNCHANGED <<sched, teams, template, cachedSched, cachedRuns, schedFresh, due, runVars, now>>

(* refreshRunPhases: a Run that is gone keeps its last phase. *)
Mirrored(st) ==
  [st EXCEPT !.runs = [i \in DOMAIN st.runs |->
     LET w == st.runs[i].window IN
     [window |-> w,
      phase |-> IF cachedRuns[w] = "Absent" THEN st.runs[i].phase ELSE cachedRuns[w]]]]

(* Mutant: activeRun is looked at before the phases are mirrored. *)
ClearThenMirror(st) ==
  [Mirrored(st) EXCEPT !.active =
     IF \E i \in DOMAIN st.runs : st.runs[i].window = @ /\ IsRunTerminal(st.runs[i].phase)
       THEN NotYet ELSE @]

RefreshRunPhases(st) ==
  LET m == Mirrored(st) IN
  [m EXCEPT !.active =
     IF \E i \in DOMAIN m.runs : m.runs[i].window = @ /\ IsRunTerminal(m.runs[i].phase)
       THEN NotYet ELSE @]

(* gcOldRuns works with positions in the history; the terminal ones. *)
IsTerminalEntry(e) == IsRunTerminal(e.phase)
Terminal(st) == {i \in DOMAIN st.runs : IsTerminalEntry(st.runs[i])}

(* Mutants: the phase is not looked at; the newest are deleted. *)
ExcessAnyPhase(st) ==
  {i \in DOMAIN st.runs : HistoryLimit > 0 /\ i + HistoryLimit <= Len(st.runs)}
ExcessNewest(st) ==
  {i \in Terminal(st) :
     HistoryLimit > 0 /\ Cardinality({j \in Terminal(st) : j < i}) >= HistoryLimit}

(* The oldest terminal entries beyond the limit. *)
Excess(st) ==
  {i \in Terminal(st) :
     HistoryLimit > 0 /\ Cardinality({j \in Terminal(st) : j > i}) >= HistoryLimit}

Refresh ==
  /\ pc = "refresh"
  /\ local' = RefreshRunPhases(local)
  /\ pc' = IF Excess(local') = {} THEN "update" ELSE "gc"
  /\ UNCHANGED <<apiVars, cacheVars, idx, localFresh, at, schedQueue, runVars, envVars, created>>

(* Delete one Run, unless the cache says that it is gone. *)
DeleteRun(w) ==
  IF cachedRuns[w] # "Absent" /\ runs[w] # "Absent"
    THEN runs' = [runs EXCEPT ![w] = "Absent"] /\ freshRuns' = freshRuns \ {w}
    ELSE UNCHANGED <<runs, freshRuns>>

(* The elements of s at the positions in I, in their order. *)
Rank(I, i) == Cardinality({j \in I : j <= i})
Subsequence(s, I) == [k \in 1..Cardinality(I) |-> s[CHOOSE i \in I : Rank(I, i) = k]]

Compacted(st) == [st EXCEPT !.runs = Subsequence(@, (DOMAIN @) \ Excess(st))]

(* The loop over the excess entries, oldest first; idx is behind the last one. *)
ToDelete == {i \in Excess(local) : i >= idx}
Oldest(I) == CHOOSE i \in I : \A j \in I : i <= j

GcRun ==
  /\ pc = "gc"
  /\ DeleteRun(local.runs[Oldest(ToDelete)].window)
  /\ IF ToDelete = {Oldest(ToDelete)}
       THEN pc' = "update" /\ local' = Compacted(local) /\ UNCHANGED idx
       ELSE idx' = Oldest(ToDelete) + 1 /\ UNCHANGED <<pc, local>>
  /\ UNCHANGED <<sched, teams, template, cachedSched, cachedRuns, schedFresh, localFresh, at,
                 schedQueue, runVars, envVars, created>>

(* A delete fails: logged, the history is not compacted, the pass goes on. *)
GcError ==
  /\ pc = "gc"
  /\ Fault("error")
  /\ DeleteRun(local.runs[Oldest(ToDelete)].window) \/ UNCHANGED <<runs, freshRuns>>
  /\ pc' = "update"
  /\ UNCHANGED <<sched, teams, template, cachedSched, cachedRuns, schedFresh, idx, local, localFresh, at,
                 schedQueue, runVars, now, created>>

(* The API server accepts an update of the current version only. *)
SchedVersionMatches == localFresh

(* Status().Update, then RequeueAfter. *)
Update ==
  /\ pc = "update" /\ SchedVersionMatches
  /\ sched' = local
  /\ schedFresh' = (schedFresh /\ sched' = sched)
  /\ due' = Earlier(now + RequeueDelay(local.next, at))
  /\ Return(FALSE)
  /\ UNCHANGED <<runs, teams, template, cachedSched, cachedRuns, freshRuns, runVars, envVars, created>>

UpdateError ==
  /\ pc = "update"
  /\ \/ ~SchedVersionMatches /\ UNCHANGED faults
     \/ Fault("error")
  /\ Return(TRUE)
  /\ UNCHANGED <<apiVars, cacheVars, due, runVars, now, created>>

ScheduleController ==
  Begin \/ Fire \/ FireError \/ Refresh \/ GcRun \/ GcError \/ Update \/ UpdateError

-----------------------------------------------------------------------------
(* The Run controller. A pass writes the team and then the Run's status. A
   stale copy of the team makes the first write fail (AlreadyExists or a
   conflict), nothing has changed and the pass is retried until the cache has
   caught up: a pass that gets through has the current team. *)

(* A worker takes the key of a Run that its cache has. *)
RunBegin(w) ==
  /\ runPass = NoPass
  /\ w \in runsQueued
  /\ cachedRuns[w] # "Absent"
  /\ runsQueued' = runsQueued \ {w}

(* The status that the pass goes on to write, and whether it then waits. *)
RunWrites(w, phase, wait) ==
  runPass' = [window |-> w, phase |-> phase, fresh |-> w \in freshRuns, wait |-> wait]

RunTemplateMissing(w) ==
  /\ RunBegin(w)
  /\ template = "Missing"
  /\ RunWrites(w, "Failed", FALSE)
  /\ UNCHANGED <<apiVars, cacheVars, passVars, schedQueue, runsWaiting, envVars, created>>

(* Only the condition is written; look again after a while. *)
RunTemplateNotReady(w) ==
  /\ RunBegin(w)
  /\ template = "Unchecked"
  /\ RunWrites(w, cachedRuns[w], TRUE)
  /\ UNCHANGED <<apiVars, cacheVars, passVars, schedQueue, runsWaiting, envVars, created>>

(* Mutant: the phase that the Run already has is kept. *)
MirrorNothing(w) == cachedRuns[w]

(* mirrorTeamStatus; a team that has just been created has no phase yet. *)
MirrorTeamStatus(w) == IF teams[w] = "Absent" THEN "InFlight" ELSE teams[w]

(* Create or update the team, then mirror its phase. *)
RunEnsureTeam(w) ==
  /\ RunBegin(w)
  /\ template = "Ready"
  /\ teams' = [teams EXCEPT ![w] = IF @ = "Absent" THEN "InFlight" ELSE @]
  /\ RunWrites(w, MirrorTeamStatus(w), FALSE)
  /\ UNCHANGED <<sched, runs, template, cacheVars, passVars, schedQueue, runsWaiting, envVars, created>>

RunNotFound(w) ==
  /\ runPass = NoPass
  /\ w \in runsQueued
  /\ cachedRuns[w] = "Absent"
  /\ runsQueued' = runsQueued \ {w}
  /\ UNCHANGED <<apiVars, cacheVars, passVars, schedQueue, runPass, runsWaiting, envVars, created>>

(* The conditions may change without the phase: a new version all the same. *)
RunUpdate ==
  LET w == runPass.window IN
  /\ runPass # NoPass
  /\ runPass.fresh /\ runs[w] # "Absent"
  /\ runs' = [runs EXCEPT ![w] = runPass.phase]
  /\ \/ freshRuns' = freshRuns \ {w}
     \/ runs' = runs /\ UNCHANGED freshRuns
  /\ runsWaiting' = IF runPass.wait THEN runsWaiting \cup {w} ELSE runsWaiting
  /\ runPass' = NoPass
  /\ UNCHANGED <<sched, teams, template, cachedSched, cachedRuns, schedFresh, passVars, schedQueue,
                 runsQueued, envVars, created>>

(* A conflict, a Run that is gone, or a failed call: the pass is retried. *)
RunError ==
  /\ runPass # NoPass
  /\ \/ /\ ~runPass.fresh \/ runs[runPass.window] = "Absent"
        /\ UNCHANGED faults
     \/ Fault("error")
  /\ runsQueued' = runsQueued \cup {runPass.window}
  /\ runPass' = NoPass
  /\ UNCHANGED <<apiVars, cacheVars, passVars, schedQueue, runsWaiting, now, created>>

RunController ==
  \/ RunUpdate \/ RunError
  \/ \E w \in Fires : RunTemplateMissing(w) \/ RunTemplateNotReady(w) \/ RunEnsureTeam(w)
                      \/ RunNotFound(w)

-----------------------------------------------------------------------------
(* The Template controller, teams, users. *)

(* The template is valid; the user may delete it and apply it again. *)
TemplateReconcile ==
  /\ template = "Unchecked"
  /\ template' = "Ready"
  /\ UNCHANGED <<sched, runs, teams, cacheVars, passVars, schedQueue, runVars, envVars, created>>

DeleteTemplate ==
  /\ template # "Missing"
  /\ Fault("template")
  /\ template' = "Missing"
  /\ UNCHANGED <<sched, runs, teams, cacheVars, passVars, schedQueue, runVars, now, created>>

ApplyTemplate ==
  /\ template = "Missing"
  /\ template' = "Unchecked"
  /\ UNCHANGED <<sched, runs, teams, cacheVars, passVars, schedQueue, runVars, envVars, created>>

(* A team reaches a terminal phase: the event enqueues its owner. *)
TeamEnds(w) ==
  /\ teams[w] = "InFlight"
  /\ teams' = [teams EXCEPT ![w] = "Ended"]
  /\ runsQueued' = runsQueued \cup {w}
  /\ UNCHANGED <<sched, runs, template, cacheVars, passVars, schedQueue, runPass, runsWaiting, envVars,
                 created>>

(* The API server's garbage collector removes what a deleted Run has owned. *)
TeamCollected(w) ==
  /\ runs[w] = "Absent" /\ teams[w] # "Absent"
  /\ teams' = [teams EXCEPT ![w] = "Absent"]
  /\ runsQueued' = runsQueued \cup {w}
  /\ UNCHANGED <<sched, runs, template, cacheVars, passVars, schedQueue, runPass, runsWaiting, envVars,
                 created>>

-----------------------------------------------------------------------------
(* Informers, timers, the clock, restarts. *)

SyncSched ==
  /\ ~schedFresh
  /\ cachedSched' = sched /\ schedFresh' = TRUE
  /\ queued' = TRUE
  /\ UNCHANGED <<apiVars, cachedRuns, freshRuns, passVars, due, runVars, envVars, created>>

(* The watch on Runs enqueues the Run and, as its owner, the schedule. *)
SyncRun(w) ==
  /\ w \notin freshRuns
  /\ cachedRuns' = [cachedRuns EXCEPT ![w] = runs[w]]
  /\ freshRuns' = freshRuns \cup {w}
  /\ queued' = TRUE
  /\ runsQueued' = runsQueued \cup {w}
  /\ UNCHANGED <<apiVars, cachedSched, schedFresh, passVars, due, runPass, runsWaiting, envVars, created>>

(* At the horizon the remaining delays elapse. *)
TimerFires ==
  /\ due # NotYet
  /\ now >= due \/ now = MaxTime
  /\ due' = NotYet /\ queued' = TRUE
  /\ UNCHANGED <<apiVars, cacheVars, passVars, runVars, envVars, created>>

RunTimerFires(w) ==
  /\ w \in runsWaiting
  /\ runsWaiting' = runsWaiting \ {w}
  /\ runsQueued' = runsQueued \cup {w}
  /\ UNCHANGED <<apiVars, cacheVars, passVars, schedQueue, runPass, envVars, created>>

Tick ==
  /\ now < MaxTime
  /\ now' = now + 1
  /\ UNCHANGED <<apiVars, cacheVars, passVars, schedQueue, runVars, faults, created>>

(* The manager restarts: passes, queues and timers are lost, the caches are
   filled anew and every object is enqueued. *)
Crash ==
  /\ Fault("crash")
  /\ pc' = "idle" /\ idx' = 1 /\ local' = NewSchedule /\ localFresh' = FALSE /\ at' = 0
  /\ queued' = TRUE /\ due' = NotYet
  /\ runPass' = NoPass /\ runsWaiting' = {}
  /\ runsQueued' = {w \in Fires : runs[w] # "Absent"}
  /\ cachedSched' = sched /\ cachedRuns' = runs /\ schedFresh' = TRUE /\ freshRuns' = Fires
  /\ UNCHANGED <<apiVars, now, created>>

Environment ==
  \/ TemplateReconcile \/ DeleteTemplate \/ ApplyTemplate
  \/ SyncSched \/ TimerFires \/ Tick \/ Crash
  \/ \E w \in Fires : TeamEnds(w) \/ TeamCollected(w) \/ SyncRun(w) \/ RunTimerFires(w)

Next == ScheduleController \/ RunController \/ Environment

Spec == Init /\ [][Next]_vars

(* Fairness: both workers and the Template controller take the steps they
   have; watch events, timers and the clock arrive. Teams promise nothing. *)
Fairness ==
  /\ WF_vars(ScheduleController) /\ WF_vars(RunController) /\ WF_vars(TemplateReconcile)
  /\ WF_vars(SyncSched) /\ WF_vars(TimerFires) /\ WF_vars(Tick)
  /\ \A w \in Fires : WF_vars(SyncRun(w)) /\ WF_vars(RunTimerFires(w))

FairSpec == Spec /\ Fairness

-----------------------------------------------------------------------------
(* Properties that hold. *)

(* createRunForWindow: "repeated reconciles can never double-fire", not even
   through stale caches, lost status updates or a Run deleted meanwhile. *)
FiresOncePerWindow == \A w \in Fires : created[w] <= 1

(* No Run escapes the history: one that exists is listed, or is that of the
   window the schedule fires next, whatever pass was lost halfway. *)
NoOrphanRuns ==
  \A w \in Fires : runs[w] # "Absent" => w \in Windows(sched) \/ w = sched.next

(* The history is in the order of the windows, all of which have fired: the
   oldest-first deletion of gcOldRuns relies on it. *)
HistorySorted ==
  /\ \A i, j \in DOMAIN sched.runs : i < j => sched.runs[i].window < sched.runs[j].window
  /\ \A w \in Windows(sched) : w <= sched.last /\ sched.last < sched.next

(* activeRun never dangles while Runs overlap and end out of order: it is the
   last one created, it is in the history and it is not recorded as ended
   there, so what ends it is still to be seen. *)
ActiveRunIsNewest ==
  sched.active # NotYet =>
    /\ sched.active = sched.last
    /\ \E i \in DOMAIN sched.runs :
         sched.runs[i].window = sched.active /\ ~IsTerminalEntry(sched.runs[i])

(* "Active or in-flight Runs are never GC'd": what gcOldRuns deletes has no
   team that is still in flight. *)
GCNeverInFlight ==
  [][\A w \in Fires : runs[w] # "Absent" /\ runs'[w] = "Absent" => teams[w] # "InFlight"]_vars

(* The fire pointer never goes back, and windows are never fired early. *)
FirePointerAdvances ==
  [][/\ sched.next # NotYet => sched'.next >= sched.next
     /\ sched'.last # sched.last => sched'.last = sched.next /\ now >= sched.next]_vars

(* A window that is due fires, although passes fail and the manager restarts. *)
DueWindowFires ==
  \A w \in Fires : (sched.next = w /\ now >= w) ~> (sched.last = w)

(* The end of a team shows up in the schedule's history, unless its entry has
   been dropped from it. *)
EndIsMirrored ==
  \A w \in Fires :
    (teams[w] = "Ended" /\ w \in Windows(sched))
      ~> (\A i \in DOMAIN sched.runs : sched.runs[i].window = w => IsRunTerminal(sched.runs[i].phase))

-----------------------------------------------------------------------------
(* What comments and API documentation say, and the code does not keep. *)

(* A late pass "still produces one Run for the most recent missed window". *)
MostRecentMissedWindow ==
  [][sched'.last # sched.last => sched'.last >= sched.next /\
       ~\E w \in Fires : w > sched'.last /\ w < sched'.next]_vars

(* "the controller wakes up at least once a minute". *)
WakesWithinFloor == due # NotYet => due - now <= Floor

(* ActiveRun: "Empty when no run is currently executing", else it names the
   one that is. *)
ActiveRunNamesInFlight ==
  sched.active = NotYet =>
    ~\E i \in DOMAIN sched.runs : ~IsRunTerminal(sched.runs[i].phase)

(* "A re-applied template will trigger a fresh reconcile" of the Runs that
   have failed without it. *)
ReappliedTemplateHeals ==
  \A w \in Fires :
    (template = "Ready" /\ runs[w] = "Failed") ~> (runs[w] # "Failed" \/ template # "Ready")
=============================================================================
