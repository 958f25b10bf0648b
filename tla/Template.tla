------------------------------ MODULE Template ------------------------------
(***************************************************************************)
(* An AgentTeamTemplate, a Run that refers to it and the Run's team: the   *)
(* Template controller, which validates the template and sets Ready, and   *)
(* the Run controller, which renders template and Run into the team's      *)
(* spec and mirrors the team's phase.  Users edit, delete and re-apply the *)
(* template meanwhile.  Schedule has the same two controllers without the  *)
(* contents of the template; here the contents are what matters.           *)
(*                                                                         *)
(* The Run controller's Get of the cached team and its Create or Update    *)
(* are one step: a change in between makes the write fail like a stale     *)
(* copy does, also a write that would change nothing.                      *)
(***************************************************************************)
EXTENDS Integers, Sequences, FiniteSets

CONSTANTS
  Contents,      \* the contents of the template: [mates, lifecycle]
  Lifecycles,    \* the lifecycle overrides a Run may have; NoLifecycle is none
  NoLifecycle,
  MaxEdits,      \* bound: how often the template is edited, deleted or applied
  MaxFaults,     \* bound: how many of the faults below may happen
  FaultKinds     \* which of "error" and "crash" may happen

MaxItems == 16  \* a template has at most so many teammates
ValidModels == {"", "opus", "sonnet", "haiku"}

ASSUME TemplateAssumption ==
  /\ \A c \in Contents : Len(c.mates) <= MaxItems
  /\ \A c \in Contents : \A i \in DOMAIN c.mates : c.mates[i].dependsOn \subseteq STRING
  /\ NoLifecycle \in Lifecycles
  /\ MaxEdits \in Nat /\ MaxFaults \in Nat
  /\ FaultKinds \subseteq {"error", "crash"}

VARIABLES
  tmpl,        \* the template in the API server
  run,         \* the Run
  team,        \* the team
  cachedTmpl, cachedRun, cachedTeam,  \* the manager's copies
  fresh,       \* which of the copies have the current resource version
  tmplPass,    \* the Template controller's pass before its update, or NoTmplPass
  runPass,     \* the Run controller's pass, or NoRunPass
  queued,      \* the keys in the workqueues
  waiting,     \* the Run's RequeueAfter is pending
  edits, faults,
  readied      \* history: contents that the template has had while it was Ready

apiVars == <<tmpl, run, team>>
cacheVars == <<cachedTmpl, cachedRun, cachedTeam, fresh>>
passVars == <<tmplPass, runPass>>
queueVars == <<queued, waiting>>
boundVars == <<edits, faults>>
vars == <<apiVars, cacheVars, passVars, queueVars, boundVars, readied>>

-----------------------------------------------------------------------------
(* State. *)

Objects == {"tmpl", "run", "team"}
NoSpec == [mates |-> <<>>, lifecycle |-> NoLifecycle]
Missing == [contents |-> NoSpec, ready |-> FALSE]
Templates == [contents : Contents, ready : BOOLEAN] \cup {Missing}

(* InFlight is every phase that is not terminal; Failed, TimedOut and
   BudgetExceeded are one. The Run controller writes Failed itself, too. *)
Phases == {"InFlight", "Completed", "Failed"}
Runs == [phase : Phases,
         reason : {"", "TemplateNotFound", "TemplateNotReady", "TeamCreated"},
         lifecycle : Lifecycles]

(* A team's spec, the teammates that have completed, and its phase. *)
TeamSpecs == {[mates |-> c.mates, lifecycle |-> l] : c \in Contents,
                l \in Lifecycles \cup {d.lifecycle : d \in Contents}}
MateNames(spec) == {spec.mates[i].name : i \in DOMAIN spec.mates}
NoTeam == [spec |-> NoSpec, done |-> {}, phase |-> "Absent"]
Teams == [spec : TeamSpecs, done : SUBSET UNION {MateNames(c) : c \in Contents},
          phase : Phases] \cup {NoTeam}

NoTmplPass == [on |-> FALSE, fresh |-> FALSE, ready |-> FALSE]
NoRunPass == [pc |-> "idle", fresh |-> FALSE, spec |-> NoSpec, phase |-> "InFlight", reason |-> ""]

TypeOK ==
  /\ tmpl \in Templates /\ cachedTmpl \in Templates
  /\ run \in Runs /\ cachedRun \in Runs
  /\ team \in Teams /\ cachedTeam \in Teams
  /\ fresh \subseteq Objects /\ queued \subseteq {"tmpl", "run"} /\ waiting \in BOOLEAN
  /\ tmplPass \in [on : BOOLEAN, fresh : BOOLEAN, ready : BOOLEAN]
  /\ runPass.pc \in {"idle", "team", "status"} /\ runPass.fresh \in BOOLEAN
  /\ runPass.pc = "team" => runPass.spec \in TeamSpecs
  /\ edits \in 0..MaxEdits /\ faults \in 0..MaxFaults
  /\ readied \subseteq Contents

NewTemplate(c) == [contents |-> c, ready |-> FALSE]

Init ==
  /\ tmpl = Missing \/ \E c \in Contents : tmpl = NewTemplate(c)
  /\ \E l \in Lifecycles : run = [phase |-> "InFlight", reason |-> "", lifecycle |-> l]
  /\ team = NoTeam
  /\ cachedTmpl = tmpl /\ cachedRun = run /\ cachedTeam = team /\ fresh = Objects
  /\ tmplPass = NoTmplPass /\ runPass = NoRunPass
  /\ queued = {"tmpl", "run"} /\ waiting = FALSE
  /\ edits = 0 /\ faults = 0 /\ readied = {}

Fault(kind) ==
  /\ kind \in FaultKinds
  /\ faults < MaxFaults
  /\ faults' = faults + 1

-----------------------------------------------------------------------------
(* The Template controller. *)

(* Mutant: dependencies are not looked up. *)
ValidateNamesOnly(c) ==
  \A i, j \in DOMAIN c.mates : i # j => c.mates[i].name # c.mates[j].name

(* validateTemplate. *)
ValidateTemplate(c) ==
  /\ \A i, j \in DOMAIN c.mates : i # j => c.mates[i].name # c.mates[j].name
  /\ \A i \in DOMAIN c.mates :
       /\ c.mates[i].model \in ValidModels
       /\ c.mates[i].dependsOn \subseteq MateNames(c) \ {c.mates[i].name}

TmplBegin ==
  /\ "tmpl" \in queued /\ ~tmplPass.on
  /\ queued' = queued \ {"tmpl"}
  /\ IF cachedTmpl = Missing THEN UNCHANGED tmplPass
     ELSE tmplPass' = [on |-> TRUE, fresh |-> "tmpl" \in fresh,
                       ready |-> ValidateTemplate(cachedTmpl.contents)]
  /\ UNCHANGED <<apiVars, cacheVars, runPass, waiting, boundVars, readied>>

(* Mutant: the last write wins. *)
AnyVersion == tmpl # Missing

(* The API server accepts an update of the current version only. *)
TmplVersionMatches == tmplPass.fresh /\ tmpl # Missing

(* setTemplateReady and Status().Update. *)
TmplUpdate ==
  /\ tmplPass.on /\ TmplVersionMatches
  /\ tmpl' = [tmpl EXCEPT !.ready = tmplPass.ready]
  /\ fresh' = IF tmpl' = tmpl THEN fresh ELSE fresh \ {"tmpl"}
  /\ readied' = IF tmplPass.ready THEN readied \cup {tmpl.contents} ELSE readied
  /\ tmplPass' = NoTmplPass
  /\ UNCHANGED <<run, team, cachedTmpl, cachedRun, cachedTeam, runPass, queueVars, boundVars>>

(* Mutant: the error is swallowed. *)
TmplErrorSwallowed ==
  /\ tmplPass.on
  /\ \/ ~TmplVersionMatches /\ UNCHANGED faults
     \/ Fault("error")
  /\ tmplPass' = NoTmplPass
  /\ UNCHANGED <<apiVars, cacheVars, runPass, queueVars, edits, readied>>

TmplError ==
  /\ tmplPass.on
  /\ \/ ~TmplVersionMatches /\ UNCHANGED faults
     \/ Fault("error")
  /\ tmplPass' = NoTmplPass /\ queued' = queued \cup {"tmpl"}
  /\ UNCHANGED <<apiVars, cacheVars, runPass, waiting, edits, readied>>

TemplateController == TmplBegin \/ TmplUpdate \/ TmplError

-----------------------------------------------------------------------------
(* The Run controller. *)

(* Mutant: the template's lifecycle wins. *)
MergeTemplateFirst(l, c) ==
  [mates |-> c.mates, lifecycle |-> IF c.lifecycle # NoLifecycle THEN c.lifecycle ELSE l]

(* mergeRunIntoTemplate: the Run's lifecycle replaces the template's. *)
MergeRunIntoTemplate(l, c) ==
  [mates |-> c.mates, lifecycle |-> IF l # NoLifecycle THEN l ELSE c.lifecycle]

(* The pass goes on to write the Run's status. *)
ToStatus(isFresh, phase, reason) ==
  runPass' = [NoRunPass EXCEPT !.pc = "status", !.fresh = isFresh, !.phase = phase, !.reason = reason]

Refuses == ~cachedTmpl.ready

(* Reconcile up to its first write. *)
RunBegin ==
  /\ "run" \in queued /\ runPass = NoRunPass
  /\ queued' = queued \ {"run"}
  /\ \/ cachedTmpl = Missing /\ ToStatus("run" \in fresh, "Failed", "TemplateNotFound")
     \/ /\ cachedTmpl # Missing /\ Refuses
        /\ ToStatus("run" \in fresh, cachedRun.phase, "TemplateNotReady")
     \/ /\ cachedTmpl # Missing /\ ~Refuses
        /\ runPass' = [NoRunPass EXCEPT !.pc = "team", !.fresh = "run" \in fresh,
                         !.spec = MergeRunIntoTemplate(cachedRun.lifecycle, cachedTmpl.contents)]
  /\ UNCHANGED <<apiVars, cacheVars, tmplPass, waiting, boundVars, readied>>

(* Mutant: a changed spec starts the team over. *)
ApplySpecAfresh(t, spec) ==
  IF t.spec = spec THEN t ELSE [spec |-> spec, done |-> {}, phase |-> "InFlight"]

(* A new team, or a new spec for the one there is, whose status stays. *)
ApplySpec(t, spec) ==
  IF t = NoTeam THEN [spec |-> spec, done |-> {}, phase |-> "InFlight"] ELSE [t EXCEPT !.spec = spec]

(* ctrlOpCreateOrUpdate, then mirrorTeamStatus of what it has written. *)
EnsureTeam ==
  /\ runPass.pc = "team"
  /\ "team" \in fresh
  /\ team' = ApplySpec(team, runPass.spec)
  /\ ToStatus(runPass.fresh, team'.phase, "TeamCreated")
  /\ fresh' = IF team' = team THEN fresh ELSE fresh \ {"team"}
  /\ UNCHANGED <<tmpl, run, cachedTmpl, cachedRun, cachedTeam, tmplPass, queueVars, boundVars, readied>>

(* AlreadyExists, a conflict or a failed call: the pass is retried. *)
EnsureTeamError ==
  /\ runPass.pc = "team"
  /\ \/ "team" \notin fresh /\ UNCHANGED faults
     \/ Fault("error")
  /\ runPass' = NoRunPass /\ queued' = queued \cup {"run"}
  /\ UNCHANGED <<apiVars, cacheVars, tmplPass, waiting, edits, readied>>

(* Mutant: a Run that waits for its template is not looked at again. *)
RequeueNever == UNCHANGED waiting

RequeueAfter == waiting' = (waiting \/ runPass.reason = "TemplateNotReady")

RunUpdate ==
  /\ runPass.pc = "status" /\ runPass.fresh
  /\ run' = [run EXCEPT !.phase = runPass.phase, !.reason = runPass.reason]
  /\ fresh' = IF run' = run THEN fresh ELSE fresh \ {"run"}
  /\ RequeueAfter
  /\ runPass' = NoRunPass
  /\ UNCHANGED <<tmpl, team, cachedTmpl, cachedRun, cachedTeam, tmplPass, queued, boundVars, readied>>

RunError ==
  /\ runPass.pc = "status"
  /\ \/ ~runPass.fresh /\ UNCHANGED faults
     \/ Fault("error")
  /\ runPass' = NoRunPass /\ queued' = queued \cup {"run"}
  /\ UNCHANGED <<apiVars, cacheVars, tmplPass, waiting, edits, readied>>

RunController == RunBegin \/ EnsureTeam \/ EnsureTeamError \/ RunUpdate \/ RunError

-----------------------------------------------------------------------------
(* The team, as the AgentTeam controller runs it. *)

(* A teammate starts once all that it depends on have completed. *)
DependenciesMet(spec, i, done) == spec.mates[i].dependsOn \subseteq done

MateCompletes(i) ==
  /\ team.phase = "InFlight"
  /\ i \in DOMAIN team.spec.mates
  /\ team.spec.mates[i].name \notin team.done
  /\ DependenciesMet(team.spec, i, team.done)
  /\ team' = [team EXCEPT !.done = @ \cup {team.spec.mates[i].name}]
  /\ fresh' = fresh \ {"team"}
  /\ UNCHANGED <<tmpl, run, cachedTmpl, cachedRun, cachedTeam, passVars, queueVars, boundVars, readied>>

TeamCompletes ==
  /\ team.phase = "InFlight"
  /\ MateNames(team.spec) \subseteq team.done
  /\ team' = [team EXCEPT !.phase = "Completed"]
  /\ fresh' = fresh \ {"team"}
  /\ UNCHANGED <<tmpl, run, cachedTmpl, cachedRun, cachedTeam, passVars, queueVars, boundVars, readied>>

(* Failed, timed out or over budget, at any time. *)
TeamFails ==
  /\ team.phase = "InFlight"
  /\ team' = [team EXCEPT !.phase = "Failed"]
  /\ fresh' = fresh \ {"team"}
  /\ UNCHANGED <<tmpl, run, cachedTmpl, cachedRun, cachedTeam, passVars, queueVars, boundVars, readied>>

-----------------------------------------------------------------------------
(* Users, informers, the timer, restarts. *)

(* A new version, which a pass that has read the old one loses to. An edit of
   the spec leaves the status, and with it Ready, alone. *)
ChangeTemplate(t) ==
  /\ edits < MaxEdits
  /\ edits' = edits + 1
  /\ tmpl' = t /\ tmpl' # tmpl
  /\ fresh' = fresh \ {"tmpl"}
  /\ tmplPass' = [tmplPass EXCEPT !.fresh = FALSE]
  /\ readied' = IF t.ready THEN readied \cup {t.contents} ELSE readied
  /\ UNCHANGED <<run, team, cachedTmpl, cachedRun, cachedTeam, runPass, queueVars, faults>>

EditTemplate == tmpl # Missing /\ \E c \in Contents : ChangeTemplate([tmpl EXCEPT !.contents = c])
DeleteTemplate == tmpl # Missing /\ ChangeTemplate(Missing)
ApplyTemplate == tmpl = Missing /\ \E c \in Contents : ChangeTemplate(NewTemplate(c))

(* The Run controller does not watch templates. *)
SyncTemplate ==
  /\ "tmpl" \notin fresh
  /\ cachedTmpl' = tmpl /\ fresh' = fresh \cup {"tmpl"} /\ queued' = queued \cup {"tmpl"}
  /\ UNCHANGED <<apiVars, cachedRun, cachedTeam, passVars, waiting, boundVars, readied>>

SyncRun ==
  /\ "run" \notin fresh
  /\ cachedRun' = run /\ fresh' = fresh \cup {"run"} /\ queued' = queued \cup {"run"}
  /\ UNCHANGED <<apiVars, cachedTmpl, cachedTeam, passVars, waiting, boundVars, readied>>

SyncTeam ==
  /\ "team" \notin fresh
  /\ cachedTeam' = team /\ fresh' = fresh \cup {"team"} /\ queued' = queued \cup {"run"}
  /\ UNCHANGED <<apiVars, cachedTmpl, cachedRun, passVars, waiting, boundVars, readied>>

TimerFires ==
  /\ waiting
  /\ waiting' = FALSE /\ queued' = queued \cup {"run"}
  /\ UNCHANGED <<apiVars, cacheVars, passVars, boundVars, readied>>

(* The manager restarts: every object is read and enqueued anew. *)
Crash ==
  /\ Fault("crash")
  /\ tmplPass' = NoTmplPass /\ runPass' = NoRunPass
  /\ queued' = {"tmpl", "run"} /\ waiting' = FALSE
  /\ cachedTmpl' = tmpl /\ cachedRun' = run /\ cachedTeam' = team /\ fresh' = Objects
  /\ UNCHANGED <<apiVars, edits, readied>>

Environment ==
  \/ \E i \in 1..MaxItems : MateCompletes(i)
  \/ TeamCompletes \/ TeamFails \/ EditTemplate \/ DeleteTemplate \/ ApplyTemplate
  \/ SyncTemplate \/ SyncRun \/ SyncTeam \/ TimerFires \/ Crash

Next == TemplateController \/ RunController \/ Environment

Spec == Init /\ [][Next]_vars

(* Fairness: both workers take the steps they have, watch events and timers
   arrive, and an agent that runs completes. Users promise nothing. *)
Fairness ==
  /\ WF_vars(TemplateController) /\ WF_vars(RunController)
  /\ WF_vars(SyncTemplate) /\ WF_vars(SyncRun) /\ WF_vars(SyncTeam) /\ WF_vars(TimerFires)
  /\ WF_vars((\E i \in 1..MaxItems : MateCompletes(i)) \/ TeamCompletes)

FairSpec == Spec /\ Fairness

-----------------------------------------------------------------------------
(* Properties that hold. *)

(* Ready turns true only for contents that pass validateTemplate: a result
   computed from a stale copy never reaches an edited template. *)
ReadyIsEarned ==
  [][tmpl # Missing /\ tmpl' # Missing /\ ~tmpl.ready /\ tmpl'.ready => ValidateTemplate(tmpl.contents)]_vars

(* A team's spec comes from one version of the template, which was Ready at
   the time, with the Run's lifecycle where it sets one: reads from lagging
   caches and retried writes never mix two versions. *)
TeamIsRendered ==
  team # NoTeam =>
    \E c \in readied :
      /\ team.spec.mates = c.mates
      /\ team.spec.lifecycle = IF run.lifecycle = NoLifecycle THEN c.lifecycle ELSE run.lifecycle

(* A Run that is Completed has a team that is, and a Run that is Failed has a
   team that is unless the Run says that its template is missing or not Ready:
   edits after the end, lagging copies and retries never bring a team back to
   life under a Run that has shown its end. (Failed for a missing template
   tells nothing of the team, and outlives the template's return as long as
   that is not Ready: TerminalMeansOver.) *)
MirrorIsTrue ==
  /\ run.phase = "Completed" => team.phase = "Completed"
  /\ run.phase = "Failed" /\ run.reason = "TeamCreated" => team.phase = "Failed"

(* Once the edits stop, Ready says whether the template passes. *)
ReadySettles == <>[](tmpl # Missing => tmpl.ready = ValidateTemplate(tmpl.contents))

(* A Run that waits for its template gets a team once the template is Ready,
   unless it is changed again: nothing but the 15-second requeue tells it. *)
WaitingRunProceeds ==
  (run.reason = "TemplateNotReady" /\ tmpl.ready) ~> (team # NoTeam \/ ~tmpl.ready)

(* The dependency relation has no cycle. *)
Acyclic(c) ==
  ~\E S \in SUBSET MateNames(c) \ {{}} :
     \A i \in DOMAIN c.mates : c.mates[i].name \in S => c.mates[i].dependsOn \cap S # {}

(* What validation buys: a team whose contents have passed it, and have no
   cycle, ends when its agents do. *)
ValidTeamEnds ==
  \A c \in Contents : ValidateTemplate(c) /\ Acyclic(c) =>
    ((team # NoTeam /\ team.spec.mates = c.mates) ~> (team.phase # "InFlight" \/ team.spec.mates # c.mates))

-----------------------------------------------------------------------------
(* What comments and API documentation say, and the code does not keep. *)

(* The Run controller must "refuse to instantiate templates that haven't
   passed validation". *)
InstantiatesOnlyValid == team # NoTeam => ValidateTemplate(team.spec)

(* Ready means "safe to instantiate": such a team ends when its agents do. *)
ReadyIsSafe ==
  \A c \in Contents : ValidateTemplate(c) =>
    ((team # NoTeam /\ team.spec.mates = c.mates) ~> (team.phase # "InFlight" \/ team.spec.mates # c.mates))

(* The Run "reflects the underlying team's progress": a Run that has completed
   with its team stays so. *)
CompletedStaysCompleted == [][run.phase = "Completed" => run'.phase = "Completed"]_vars

(* Schedules and Triggers take Failed for a phase "the operator shouldn't expect
   to progress further": no team goes on under such a Run. *)
TerminalMeansOver == run.phase # "InFlight" => team.phase # "InFlight"
=============================================================================
