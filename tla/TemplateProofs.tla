--------------------------- MODULE TemplateProofs ----------------------------
(***************************************************************************)
(* Template and Run: proofs of TypeOK, ReadyIsEarned, TeamIsRendered and   *)
(* MirrorIsTrue.  A pass reads lagging copies and writes later; what       *)
(* saves it is that a resource version identifies an object's content,    *)
(* that what was Ready stays on record, and that an ended team stays ended.*)
(***************************************************************************)
EXTENDS Template, TLAPS

(* A copy with the current resource version is the object; a Run's lifecycle
   is not edited. *)
CopiesCurrent ==
  /\ "tmpl" \in fresh => cachedTmpl = tmpl
  /\ cachedRun.lifecycle = run.lifecycle

(* The verdict a pass will write is the one on the template's contents, if the
   update is going to be accepted. *)
VerdictCurrent ==
  tmplPass.on /\ TmplVersionMatches => tmplPass.ready = ValidateTemplate(tmpl.contents)

(* Whoever saw the template Ready saw contents that were Ready. *)
ReadyRecorded == \A t \in {tmpl, cachedTmpl} : t.ready => t.contents \in readied

(* A spec that comes from one Ready version and the Run's lifecycle. *)
Rendered(spec) ==
  \E c \in readied :
    /\ spec.mates = c.mates
    /\ spec.lifecycle = IF run.lifecycle = NoLifecycle THEN c.lifecycle ELSE run.lifecycle
PassRendered == runPass.pc = "team" => Rendered(runPass.spec)

(* Whatever shows an end that it has from the team shows the team's end. *)
Shows(phase, reason) ==
  /\ phase = "Completed" => team.phase = "Completed"
  /\ phase = "Failed" /\ reason = "TeamCreated" => team.phase = "Failed"
MirroredEverywhere ==
  /\ Shows(run.phase, run.reason) /\ Shows(cachedRun.phase, cachedRun.reason)
  /\ runPass.pc = "status" => Shows(runPass.phase, runPass.reason)

(* What a pass is about to write to the Run's status. *)
PassType ==
  runPass.pc = "status" =>
    /\ runPass.phase \in Phases
    /\ runPass.reason \in {"", "TemplateNotFound", "TemplateNotReady", "TeamCreated"}

IInv ==
  /\ TypeOK /\ PassType
  /\ CopiesCurrent /\ VerdictCurrent /\ ReadyRecorded
  /\ PassRendered /\ TeamIsRendered
  /\ MirroredEverywhere
-----------------------------------------------------------------------------
(* Types. *)

(* A template that exists is a record of contents and a flag. *)
LEMMA TemplateFields ==
  ASSUME NEW t \in Templates, t # Missing
  PROVE  t \in [contents : Contents, ready : BOOLEAN]
BY DEF Templates

(* What mergeRunIntoTemplate renders is a team's spec. *)
LEMMA MergeType ==
  ASSUME NEW c \in Contents, NEW l \in Lifecycles
  PROVE  MergeRunIntoTemplate(l, c) \in TeamSpecs
<1> DEFINE k == IF l # NoLifecycle THEN l ELSE c.lifecycle
<1>1. k \in Lifecycles \cup {d.lifecycle : d \in Contents}
  OBVIOUS
<1>2. MergeRunIntoTemplate(l, c) = [mates |-> c.mates, lifecycle |-> k]
  BY DEF MergeRunIntoTemplate
<1> DEFINE Chosen == Lifecycles \cup {d.lifecycle : d \in Contents}
<1>3. TeamSpecs = {[mates |-> d.mates, lifecycle |-> m] : d \in Contents, m \in Chosen}
  BY DEF TeamSpecs
<1> HIDE DEF k, Chosen
<1>4. k \in Chosen
  BY <1>1 DEF Chosen
<1> QED BY <1>2, <1>3, <1>4

(* The initial state is well formed. *)
LEMMA InitType == Init => TypeOK /\ PassType
<1> SUFFICES ASSUME Init PROVE TypeOK /\ PassType
  OBVIOUS
<1>1. tmpl \in Templates /\ cachedTmpl \in Templates
  <2>1. \A c \in Contents : NewTemplate(c) \in [contents : Contents, ready : BOOLEAN]
    BY DEF NewTemplate
  <2>2. cachedTmpl = tmpl /\ (tmpl = Missing \/ \E c \in Contents : tmpl = NewTemplate(c))
    BY DEF Init
  <2> QED BY <2>1, <2>2 DEF Templates
<1>2. run \in Runs /\ cachedRun \in Runs
  <2>1. PICK l \in Lifecycles : run = [phase |-> "InFlight", reason |-> "", lifecycle |-> l]
    BY DEF Init
  <2>2. cachedRun = run
    BY DEF Init
  <2> QED BY <2>1, <2>2 DEF Runs, Phases
<1>3. team \in Teams /\ cachedTeam \in Teams
  BY DEF Init, Teams
<1>4. tmplPass \in [on : BOOLEAN, fresh : BOOLEAN, ready : BOOLEAN]
  BY DEF Init, NoTmplPass
<1>5. runPass.pc = "idle" /\ runPass.fresh = FALSE
  BY DEF Init, NoRunPass
<1>6. /\ fresh \subseteq Objects /\ queued \subseteq {"tmpl", "run"} /\ waiting \in BOOLEAN
      /\ readied \subseteq Contents
  BY DEF Init
<1>7. edits \in 0..MaxEdits /\ faults \in 0..MaxFaults
  <2>1. MaxEdits \in Nat /\ MaxFaults \in Nat /\ edits = 0 /\ faults = 0
    BY TemplateAssumption DEF Init
  <2> QED BY <2>1
<1> QED BY <1>1, <1>2, <1>3, <1>4, <1>5, <1>6, <1>7 DEF TypeOK, PassType

(* A pass that has decided what the Run's status will show. *)
LEMMA ToStatusFields ==
  ASSUME NEW f, NEW p, NEW r, ToStatus(f, p, r)
  PROVE  /\ runPass'.pc = "status" /\ runPass'.fresh = f
         /\ runPass'.phase = p /\ runPass'.reason = r
BY DEF ToStatus, NoRunPass

(* A Run controller that has no pass. *)
LEMMA NoRunPassFields == NoRunPass.pc = "idle" /\ NoRunPass.fresh = FALSE
BY DEF NoRunPass

(* A team that exists is a record of a spec, what is done, and a phase. *)
LEMMA TeamFields ==
  ASSUME NEW t \in Teams, t # NoTeam
  PROVE  t \in [spec : TeamSpecs, done : SUBSET UNION {MateNames(c) : c \in Contents},
                phase : Phases]
BY DEF Teams

(* A team that is running exists. *)
LEMMA InFlightExists ==
  ASSUME team.phase \in Phases
  PROVE  team # NoTeam
BY DEF NoTeam, Phases

(* A new spec leaves a well-formed team. *)
LEMMA ApplySpecType ==
  ASSUME NEW t \in Teams, NEW spec \in TeamSpecs
  PROVE  /\ ApplySpec(t, spec) \in Teams /\ ApplySpec(t, spec).spec = spec
         /\ ApplySpec(t, spec).phase = IF t = NoTeam THEN "InFlight" ELSE t.phase
         /\ ApplySpec(t, spec).phase \in Phases
<1>1. CASE t = NoTeam
  BY <1>1 DEF ApplySpec, Teams, Phases
<1>2. CASE t # NoTeam
  BY <1>2, TeamFields DEF ApplySpec, Teams
<1> QED BY <1>1, <1>2

(* A user's change leaves a well-formed template. *)
LEMMA ChangeType ==
  ASSUME TypeOK, NEW t \in Templates, ChangeTemplate(t)
  PROVE  /\ tmpl' = t /\ t # tmpl /\ edits' \in 0..MaxEdits /\ fresh' = fresh \ {"tmpl"}
         /\ tmplPass' \in [on : BOOLEAN, fresh : BOOLEAN, ready : BOOLEAN]
         /\ tmplPass'.fresh = FALSE
         /\ readied \subseteq readied' /\ readied' \subseteq Contents
         /\ t.ready => t.contents \in readied'
         /\ UNCHANGED <<run, team, cachedTmpl, cachedRun, cachedTeam, runPass, queued, waiting, faults>>
<1>1. t.ready => t.contents \in Contents
  BY DEF Templates, Missing
<1>2. edits' \in 0..MaxEdits
  <2>1. MaxEdits \in Nat
    BY TemplateAssumption
  <2> QED BY <2>1 DEF ChangeTemplate, TypeOK
<1>3. tmplPass' \in [on : BOOLEAN, fresh : BOOLEAN, ready : BOOLEAN] /\ tmplPass'.fresh = FALSE
  BY DEF ChangeTemplate, TypeOK
<1>4. readied' = IF t.ready THEN readied \cup {t.contents} ELSE readied
  BY DEF ChangeTemplate
<1>5. readied \subseteq Contents
  BY DEF TypeOK
<1> QED BY <1>1, <1>2, <1>3, <1>4, <1>5 DEF ChangeTemplate, queueVars

(* The users' three changes. *)
LEMMA UserChange ==
  ASSUME TypeOK, EditTemplate \/ DeleteTemplate \/ ApplyTemplate
  PROVE  \E t \in Templates :
           /\ ChangeTemplate(t)
           /\ tmpl # Missing /\ t # Missing => t.ready = tmpl.ready
           /\ tmpl = Missing => t.ready = FALSE
<1>1. CASE EditTemplate
  <2>1. PICK c \in Contents : ChangeTemplate([tmpl EXCEPT !.contents = c])
    BY <1>1 DEF EditTemplate
  <2>2. tmpl # Missing /\ tmpl \in [contents : Contents, ready : BOOLEAN]
    BY <1>1, TemplateFields DEF EditTemplate, TypeOK
  <2> DEFINE t == [tmpl EXCEPT !.contents = c]
  <2>3. t \in [contents : Contents, ready : BOOLEAN] /\ t.ready = tmpl.ready
    BY <2>2
  <2>4. t \in Templates
    BY <2>3 DEF Templates
  <2> HIDE DEF t
  <2> QED BY <2>1, <2>2, <2>3, <2>4 DEF t
<1>2. CASE DeleteTemplate
  <2>1. Missing \in Templates
    BY DEF Templates
  <2> QED BY <1>2, <2>1 DEF DeleteTemplate
<1>3. CASE ApplyTemplate
  <2>1. PICK c \in Contents : ChangeTemplate(NewTemplate(c))
    BY <1>3 DEF ApplyTemplate
  <2>2. NewTemplate(c) \in [contents : Contents, ready : BOOLEAN] /\ NewTemplate(c).ready = FALSE
    BY DEF NewTemplate
  <2>3. NewTemplate(c) \in Templates /\ tmpl = Missing
    BY <1>3, <2>2 DEF Templates, ApplyTemplate
  <2> QED BY <2>1, <2>2, <2>3
<1> QED BY <1>1, <1>2, <1>3

(* An update of the Run's status, and its errors, keep types. *)
LEMMA FaultType ==
  ASSUME TypeOK, NEW k, Fault(k)
  PROVE  faults' \in 0..MaxFaults
<1>1. MaxFaults \in Nat
  BY TemplateAssumption
<1> QED BY <1>1 DEF TypeOK, Fault

(* Every step keeps the types. *)
LEMMA TypeStep ==
  ASSUME TypeOK, PassType, [Next]_vars
  PROVE  TypeOK' /\ PassType'
<1> USE DEF apiVars, cacheVars, passVars, queueVars, boundVars
<1>1. CASE TmplBegin
  <2>1. tmplPass' \in [on : BOOLEAN, fresh : BOOLEAN, ready : BOOLEAN]
    <3>1. ValidateTemplate(cachedTmpl.contents) \in BOOLEAN
      BY DEF ValidateTemplate
    <3>2. CASE tmplPass' = tmplPass
      BY <3>2 DEF TypeOK
    <3>3. CASE tmplPass' = [on |-> TRUE, fresh |-> "tmpl" \in fresh,
                           ready |-> ValidateTemplate(cachedTmpl.contents)]
      BY <3>1, <3>3
    <3> QED BY <1>1, <3>2, <3>3 DEF TmplBegin
  <2> QED BY <1>1, <2>1 DEF TmplBegin, TypeOK, PassType
<1>2. CASE TmplUpdate
  <2>1. tmpl \in [contents : Contents, ready : BOOLEAN] /\ tmplPass.ready \in BOOLEAN
    BY <1>2, TemplateFields DEF TmplUpdate, TmplVersionMatches, TypeOK
  <2>2. tmpl' \in [contents : Contents, ready : BOOLEAN]
    BY <1>2, <2>1 DEF TmplUpdate
  <2>3. readied' \subseteq Contents
    BY <1>2, <2>1 DEF TmplUpdate, TypeOK
  <2>4. tmplPass' \in [on : BOOLEAN, fresh : BOOLEAN, ready : BOOLEAN]
    BY <1>2 DEF TmplUpdate, NoTmplPass
  <2> QED BY <1>2, <2>2, <2>3, <2>4 DEF TmplUpdate, TypeOK, PassType, Templates
<1>3. CASE TmplError
  <2>1. tmplPass' \in [on : BOOLEAN, fresh : BOOLEAN, ready : BOOLEAN]
    BY <1>3 DEF TmplError, NoTmplPass
  <2>2. faults' \in 0..MaxFaults
    BY <1>3, FaultType DEF TmplError, TypeOK
  <2> QED BY <1>3, <2>1, <2>2 DEF TmplError, TypeOK, PassType
<1>4. CASE RunBegin
  <2>1. cachedRun.phase \in Phases /\ cachedRun.lifecycle \in Lifecycles
    BY DEF TypeOK, Runs
  <2>2. CASE runPass'.pc = "status"
    <3>1. /\ runPass'.fresh \in BOOLEAN /\ runPass'.phase \in Phases
          /\ runPass'.reason \in {"TemplateNotFound", "TemplateNotReady"}
      <4> DEFINE f == "run" \in fresh
      <4>1. f \in BOOLEAN
        OBVIOUS
      <4>2. \/ ToStatus(f, "Failed", "TemplateNotFound")
            \/ ToStatus(f, cachedRun.phase, "TemplateNotReady")
        BY <1>4, <2>2 DEF RunBegin, NoRunPass
      <4> HIDE DEF f
      <4> QED BY <2>1, <4>1, <4>2, ToStatusFields DEF Phases
    <3> QED BY <1>4, <2>2, <3>1 DEF RunBegin, TypeOK, PassType
  <2>3. CASE runPass'.pc # "status"
    <3>1. /\ cachedTmpl # Missing
          /\ runPass' = [NoRunPass EXCEPT !.pc = "team", !.fresh = "run" \in fresh,
                          !.spec = MergeRunIntoTemplate(cachedRun.lifecycle, cachedTmpl.contents)]
      BY <1>4, <2>3, ToStatusFields DEF RunBegin
    <3>2. cachedTmpl.contents \in Contents
      BY <3>1, TemplateFields DEF TypeOK
    <3>3. /\ runPass'.pc = "team" /\ runPass'.fresh \in BOOLEAN
          /\ runPass'.spec = MergeRunIntoTemplate(cachedRun.lifecycle, cachedTmpl.contents)
      BY <3>1 DEF NoRunPass
    <3>4. runPass'.spec \in TeamSpecs
      BY <2>1, <3>2, <3>3, MergeType
    <3> QED BY <1>4, <3>3, <3>4 DEF RunBegin, TypeOK, PassType
  <2> QED BY <2>2, <2>3
<1>5. CASE EnsureTeam
  <2>1. runPass.spec \in TeamSpecs /\ team \in Teams /\ team' = ApplySpec(team, runPass.spec)
    BY <1>5 DEF EnsureTeam, TypeOK
  <2>2. team' \in Teams /\ team'.phase \in Phases
    BY <2>1, ApplySpecType
  <2>3. /\ runPass'.pc = "status" /\ runPass'.fresh = runPass.fresh
        /\ runPass'.phase = team'.phase /\ runPass'.reason = "TeamCreated"
    BY <1>5, ToStatusFields DEF EnsureTeam
  <2> QED BY <1>5, <2>2, <2>3 DEF EnsureTeam, TypeOK, PassType
<1>6. CASE EnsureTeamError
  <2>1. faults' \in 0..MaxFaults
    BY <1>6, FaultType DEF EnsureTeamError, TypeOK
  <2> QED BY <1>6, <2>1, NoRunPassFields DEF EnsureTeamError, TypeOK, PassType
<1>7. CASE RunUpdate
  <2>1. run' \in Runs
    BY <1>7 DEF RunUpdate, TypeOK, PassType, Runs
  <2>2. waiting' \in BOOLEAN
    BY <1>7 DEF RunUpdate, RequeueAfter, TypeOK
  <2> QED BY <1>7, <2>1, <2>2, NoRunPassFields DEF RunUpdate, TypeOK, PassType
<1>8. CASE RunError
  <2>1. faults' \in 0..MaxFaults
    BY <1>8, FaultType DEF RunError, TypeOK
  <2> QED BY <1>8, <2>1, NoRunPassFields DEF RunError, TypeOK, PassType
<1>9. CASE \E i \in 1..MaxItems : MateCompletes(i)
  <2>1. PICK i \in 1..MaxItems : MateCompletes(i)
    BY <1>9
  <2>2. /\ team.spec \in TeamSpecs /\ i \in DOMAIN team.spec.mates
        /\ team.done \subseteq UNION {MateNames(c) : c \in Contents}
        /\ team.phase \in Phases
    BY <2>1, InFlightExists, TeamFields DEF MateCompletes, TypeOK, Phases
  <2>3. PICK c \in Contents : team.spec.mates = c.mates
    BY <2>2 DEF TeamSpecs
  <2>4. team.spec.mates[i].name \in MateNames(c)
    BY <2>2, <2>3 DEF MateNames
  <2>5. team' \in Teams
    BY <2>1, <2>2, <2>4, InFlightExists, TeamFields DEF MateCompletes, Teams, TypeOK
  <2> QED BY <2>1, <2>5 DEF MateCompletes, TypeOK, PassType
<1>10. CASE TeamCompletes \/ TeamFails
  <2>1. team' \in Teams
    BY <1>10, InFlightExists, TeamFields DEF TeamCompletes, TeamFails, TypeOK, Teams, Phases
  <2> QED BY <1>10, <2>1 DEF TeamCompletes, TeamFails, TypeOK, PassType
<1>11. CASE EditTemplate \/ DeleteTemplate \/ ApplyTemplate
  <2>1. PICK t \in Templates : ChangeTemplate(t)
    BY <1>11, UserChange
  <2> QED BY <2>1, ChangeType DEF TypeOK, PassType
<1>12. CASE SyncTemplate \/ SyncRun \/ SyncTeam
  BY <1>12 DEF SyncTemplate, SyncRun, SyncTeam, TypeOK, PassType, Objects
<1>13. CASE TimerFires
  BY <1>13 DEF TimerFires, TypeOK, PassType
<1>14. CASE Crash
  <2>1. faults' \in 0..MaxFaults
    BY <1>14, FaultType DEF Crash
  <2>2. tmplPass' \in [on : BOOLEAN, fresh : BOOLEAN, ready : BOOLEAN]
    BY <1>14 DEF Crash, NoTmplPass
  <2> QED BY <1>14, <2>1, <2>2, NoRunPassFields DEF Crash, TypeOK, PassType
<1>15. CASE UNCHANGED vars
  BY <1>15 DEF vars, TypeOK, PassType
<1> QED BY <1>1, <1>2, <1>3, <1>4, <1>5, <1>6, <1>7, <1>8, <1>9, <1>10, <1>11, <1>12, <1>13, <1>14,
       <1>15 DEF Next, TemplateController, RunController, Environment
-----------------------------------------------------------------------------
(* The invariant. *)

(* The copies: a change of the template makes its copy stale. *)
LEMMA CopiesStep ==
  ASSUME TypeOK, CopiesCurrent, [Next]_vars
  PROVE  CopiesCurrent' /\ run'.lifecycle = run.lifecycle
<1> USE DEF apiVars, cacheVars, passVars, queueVars, boundVars, CopiesCurrent
<1>1. CASE UNCHANGED <<tmpl, run, cachedTmpl, cachedRun>> /\ ("tmpl" \in fresh' => "tmpl" \in fresh)
  BY <1>1
<1>2. CASE TmplUpdate
  BY <1>2 DEF TmplUpdate
<1>3. CASE RunUpdate
  <2>1. run'.lifecycle = run.lifecycle
    BY <1>3 DEF RunUpdate, TypeOK, Runs
  <2> QED BY <1>3, <2>1 DEF RunUpdate
<1>4. CASE EditTemplate \/ DeleteTemplate \/ ApplyTemplate
  <2>1. PICK t \in Templates : ChangeTemplate(t)
    BY <1>4, UserChange
  <2> QED BY <2>1 DEF ChangeTemplate
<1>5. CASE SyncTemplate \/ SyncRun \/ Crash
  BY <1>5 DEF SyncTemplate, SyncRun, Crash
<1> QED BY <1>1, <1>2, <1>3, <1>4, <1>5 DEF Next, TemplateController, RunController, Environment, vars,
       TmplBegin, TmplError, RunBegin, EnsureTeam, EnsureTeamError, RunError, MateCompletes,
       TeamCompletes, TeamFails, SyncTeam, TimerFires

(* The verdict: one computed from a stale copy loses, and a change after the
   pass has read makes it lose. *)
LEMMA VerdictStep ==
  ASSUME TypeOK, CopiesCurrent, VerdictCurrent, [Next]_vars
  PROVE  VerdictCurrent'
<1> USE DEF apiVars, cacheVars, passVars, queueVars, boundVars, VerdictCurrent, TmplVersionMatches
<1>1. CASE TmplBegin
  <2>1. CASE tmplPass' = tmplPass
    BY <1>1, <2>1 DEF TmplBegin
  <2>2. CASE tmplPass' = [on |-> TRUE, fresh |-> "tmpl" \in fresh,
                         ready |-> ValidateTemplate(cachedTmpl.contents)]
    <3>1. /\ tmplPass'.fresh => "tmpl" \in fresh
          /\ tmplPass'.ready = ValidateTemplate(cachedTmpl.contents)
      BY <2>2
    <3> QED BY <1>1, <3>1 DEF TmplBegin, CopiesCurrent
  <2> QED BY <1>1, <2>1, <2>2 DEF TmplBegin
<1>2. CASE TmplUpdate \/ TmplError \/ Crash
  BY <1>2 DEF TmplUpdate, TmplError, Crash, NoTmplPass
<1>3. CASE EditTemplate \/ DeleteTemplate \/ ApplyTemplate
  <2>1. PICK t \in Templates : ChangeTemplate(t)
    BY <1>3, UserChange
  <2> QED BY <2>1, ChangeType
<1>4. CASE UNCHANGED <<tmpl, tmplPass>>
  BY <1>4
<1> QED BY <1>1, <1>2, <1>3, <1>4 DEF Next, TemplateController, RunController, Environment, vars,
       RunBegin, EnsureTeam, EnsureTeamError, RunUpdate, RunError, MateCompletes,
       TeamCompletes, TeamFails, SyncTemplate, SyncRun, SyncTeam, TimerFires

(* The record of Ready contents grows, by what the template shows. *)
LEMMA ReadyStep ==
  ASSUME TypeOK, ReadyRecorded, [Next]_vars
  PROVE  ReadyRecorded' /\ readied \subseteq readied'
<1> USE DEF apiVars, cacheVars, passVars, queueVars, boundVars, ReadyRecorded
<1>1. CASE TmplUpdate
  <2>1. tmpl \in [contents : Contents, ready : BOOLEAN]
    BY <1>1, TemplateFields DEF TmplUpdate, TmplVersionMatches, TypeOK
  <2>2. tmpl'.ready = tmplPass.ready /\ tmpl'.contents = tmpl.contents
    BY <1>1, <2>1 DEF TmplUpdate
  <2>3. readied' = IF tmplPass.ready THEN readied \cup {tmpl.contents} ELSE readied
    BY <1>1 DEF TmplUpdate
  <2>4. cachedTmpl' = cachedTmpl
    BY <1>1 DEF TmplUpdate
  <2> QED BY <2>2, <2>3, <2>4
<1>2. CASE EditTemplate \/ DeleteTemplate \/ ApplyTemplate
  <2>1. PICK t \in Templates : ChangeTemplate(t)
    BY <1>2, UserChange
  <2>2. tmpl' = t /\ cachedTmpl' = cachedTmpl /\ readied \subseteq readied' /\ (t.ready => t.contents \in readied')
    BY <2>1, ChangeType
  <2> QED BY <2>2
<1>3. CASE UNCHANGED <<tmpl, readied>> /\ cachedTmpl' \in {cachedTmpl, tmpl}
  BY <1>3
<1> QED BY <1>1, <1>2, <1>3 DEF Next, TemplateController, RunController, Environment, vars,
       TmplBegin, TmplError, RunBegin, EnsureTeam, EnsureTeamError, RunUpdate, RunError, MateCompletes,
       TeamCompletes, TeamFails, SyncTemplate, SyncRun, SyncTeam, TimerFires, Crash

(* What was rendered from a Ready version stays so. *)
LEMMA RenderedLasts ==
  ASSUME TypeOK, CopiesCurrent, ReadyRecorded, [Next]_vars, NEW spec, Rendered(spec)
  PROVE  \E c \in readied' :
           /\ spec.mates = c.mates
           /\ spec.lifecycle = IF run'.lifecycle = NoLifecycle THEN c.lifecycle ELSE run'.lifecycle
BY CopiesStep, ReadyStep DEF Rendered

(* The Run controller renders what it has seen Ready, and writes what it has
   rendered. *)
LEMMA RenderedStep ==
  ASSUME TypeOK, CopiesCurrent, ReadyRecorded, PassRendered, TeamIsRendered, [Next]_vars
  PROVE  PassRendered' /\ TeamIsRendered'
<1> USE DEF apiVars, cacheVars, passVars, queueVars, boundVars
<1> DEFINE Next1(spec) ==
      \E c \in readied' :
        /\ spec.mates = c.mates
        /\ spec.lifecycle = IF run'.lifecycle = NoLifecycle THEN c.lifecycle ELSE run'.lifecycle
<1>1. \A spec : Rendered(spec) => Next1(spec)
  BY RenderedLasts
<1>2. team # NoTeam => Next1(team.spec)
  BY <1>1 DEF TeamIsRendered, Rendered
<1>3. runPass.pc = "team" => Next1(runPass.spec)
  BY <1>1 DEF PassRendered
<1>4. runPass'.pc = "team" => Next1(runPass'.spec)
  <2>1. CASE RunBegin
    <3> SUFFICES ASSUME runPass'.pc = "team" PROVE Next1(runPass'.spec)
      OBVIOUS
    <3>1. /\ cachedTmpl # Missing /\ cachedTmpl.ready
          /\ runPass' = [NoRunPass EXCEPT !.pc = "team", !.fresh = "run" \in fresh,
                          !.spec = MergeRunIntoTemplate(cachedRun.lifecycle, cachedTmpl.contents)]
      BY <2>1, ToStatusFields DEF RunBegin, Refuses
    <3>2. runPass'.spec = MergeRunIntoTemplate(cachedRun.lifecycle, cachedTmpl.contents)
      BY <3>1 DEF NoRunPass
    <3>3. cachedTmpl.contents \in readied /\ cachedRun.lifecycle = run.lifecycle
      BY <3>1 DEF ReadyRecorded, CopiesCurrent
    <3>4. Rendered(runPass'.spec)
      BY <3>2, <3>3 DEF Rendered, MergeRunIntoTemplate
    <3> QED BY <1>1, <3>4
  <2>2. CASE EnsureTeam
    BY <2>2, ToStatusFields DEF EnsureTeam
  <2>3. CASE EnsureTeamError \/ RunUpdate \/ RunError \/ Crash
    BY <2>3, NoRunPassFields DEF EnsureTeamError, RunUpdate, RunError, Crash
  <2>4. CASE runPass' = runPass
    BY <1>3, <2>4
  <2> HIDE DEF Next1
  <2> QED BY <2>1, <2>2, <2>3, <2>4 DEF Next, TemplateController, RunController, Environment, vars,
       TmplBegin, TmplUpdate, TmplError, MateCompletes, TeamCompletes, TeamFails, EditTemplate,
       DeleteTemplate, ApplyTemplate, ChangeTemplate, SyncTemplate, SyncRun, SyncTeam, TimerFires
<1>5. team' # NoTeam => Next1(team'.spec)
  <2>1. CASE EnsureTeam
    <3>1. team' = ApplySpec(team, runPass.spec) /\ runPass.pc = "team"
      BY <2>1 DEF EnsureTeam
    <3>2. team'.spec = runPass.spec
      BY <3>1, ApplySpecType DEF TypeOK
    <3> QED BY <1>3, <3>1, <3>2
  <2>2. CASE (\E i \in 1..MaxItems : MateCompletes(i)) \/ TeamCompletes \/ TeamFails
    <3>1. team # NoTeam
      BY <2>2, InFlightExists DEF MateCompletes, TeamCompletes, TeamFails, Phases
    <3>2. team'.spec = team.spec
      BY <2>2, <3>1, TeamFields DEF MateCompletes, TeamCompletes, TeamFails, TypeOK
    <3> QED BY <1>2, <3>1, <3>2
  <2>3. CASE team' = team
    BY <1>2, <2>3
  <2> HIDE DEF Next1
  <2> QED BY <2>1, <2>2, <2>3 DEF Next, TemplateController, RunController, Environment, vars,
       TmplBegin, TmplUpdate, TmplError, RunBegin, EnsureTeamError, RunUpdate, RunError,
       EditTemplate, DeleteTemplate, ApplyTemplate, ChangeTemplate, SyncTemplate, SyncRun, SyncTeam,
       TimerFires, Crash
<1> QED BY <1>4, <1>5 DEF PassRendered, TeamIsRendered, Rendered

(* A team that has ended keeps its phase, and a pass shows the phase it found. *)
LEMMA MirrorStep ==
  ASSUME TypeOK, MirroredEverywhere, [Next]_vars
  PROVE  MirroredEverywhere'
<1> USE DEF apiVars, cacheVars, passVars, queueVars, boundVars
<1>1. team.phase \in {"Completed", "Failed"} => team'.phase = team.phase
  <2>1. CASE EnsureTeam
    <3>1. team' = ApplySpec(team, runPass.spec) /\ runPass.pc = "team"
      BY <2>1 DEF EnsureTeam
    <3> QED BY <3>1, InFlightExists, ApplySpecType DEF TypeOK, Phases
  <2>2. CASE (\E i \in 1..MaxItems : MateCompletes(i)) \/ TeamCompletes \/ TeamFails
    BY <2>2 DEF MateCompletes, TeamCompletes, TeamFails
  <2>3. CASE team' = team
    BY <2>3
  <2> QED BY <2>1, <2>2, <2>3 DEF Next, TemplateController, RunController, Environment, vars,
       TmplBegin, TmplUpdate, TmplError, RunBegin, EnsureTeamError, RunUpdate, RunError,
       EditTemplate, DeleteTemplate, ApplyTemplate, ChangeTemplate, SyncTemplate, SyncRun, SyncTeam,
       TimerFires, Crash
<1>2. ASSUME NEW p, NEW r, Shows(p, r) PROVE Shows(p, r)'
  BY <1>1, <1>2 DEF Shows
<1>3. runPass'.pc = "status" => Shows(runPass.phase, runPass.reason)'
  <2>1. CASE RunBegin
    <3> SUFFICES ASSUME runPass'.pc = "status" PROVE Shows(runPass.phase, runPass.reason)'
      OBVIOUS
    <3> DEFINE f == "run" \in fresh
    <3>1. \/ ToStatus(f, "Failed", "TemplateNotFound")
          \/ ToStatus(f, cachedRun.phase, "TemplateNotReady")
      BY <2>1 DEF RunBegin, NoRunPass
    <3> HIDE DEF f
    <3>2. \/ runPass'.phase = "Failed" /\ runPass'.reason = "TemplateNotFound"
          \/ runPass'.phase = cachedRun.phase /\ runPass'.reason = "TemplateNotReady"
      BY <3>1, ToStatusFields
    <3> QED BY <1>1, <3>2 DEF MirroredEverywhere, Shows
  <2>2. CASE EnsureTeam
    <3>1. runPass'.phase = team'.phase
      BY <2>2, ToStatusFields DEF EnsureTeam
    <3> QED BY <3>1 DEF Shows
  <2>3. CASE EnsureTeamError \/ RunUpdate \/ RunError \/ Crash
    BY <2>3, NoRunPassFields DEF EnsureTeamError, RunUpdate, RunError, Crash
  <2>4. CASE runPass' = runPass
    BY <1>1, <2>4 DEF MirroredEverywhere, Shows
  <2> QED BY <2>1, <2>2, <2>3, <2>4 DEF Next, TemplateController, RunController, Environment, vars,
       TmplBegin, TmplUpdate, TmplError, MateCompletes, TeamCompletes, TeamFails, EditTemplate,
       DeleteTemplate, ApplyTemplate, ChangeTemplate, SyncTemplate, SyncRun, SyncTeam, TimerFires
<1>4. \/ run' = run
      \/ /\ runPass.pc = "status"
         /\ run'.phase = runPass.phase /\ run'.reason = runPass.reason
  <2>1. CASE RunUpdate
    BY <2>1 DEF RunUpdate, TypeOK, Runs
  <2>2. CASE run' = run
    BY <2>2
  <2> QED BY <2>1, <2>2 DEF Next, TemplateController, RunController, Environment, vars,
       TmplBegin, TmplUpdate, TmplError, RunBegin, EnsureTeam, EnsureTeamError, RunError, MateCompletes,
       TeamCompletes, TeamFails, EditTemplate, DeleteTemplate, ApplyTemplate, ChangeTemplate,
       SyncTemplate, SyncRun, SyncTeam, TimerFires, Crash
<1>5. cachedRun' \in {cachedRun, run}
  BY DEF Next, TemplateController, RunController, Environment, vars,
       TmplBegin, TmplUpdate, TmplError, RunBegin, EnsureTeam, EnsureTeamError, RunUpdate, RunError,
       MateCompletes, TeamCompletes, TeamFails, EditTemplate, DeleteTemplate, ApplyTemplate,
       ChangeTemplate, SyncTemplate, SyncRun, SyncTeam, TimerFires, Crash
<1>6. Shows(run.phase, run.reason)' /\ Shows(cachedRun.phase, cachedRun.reason)'
  BY <1>1, <1>4, <1>5 DEF MirroredEverywhere, Shows
<1> QED BY <1>3, <1>6 DEF MirroredEverywhere

(* IInv is inductive. *)
LEMMA InvInit == Init => IInv
<1> SUFFICES ASSUME Init PROVE IInv
  OBVIOUS
<1>1. CopiesCurrent
  BY DEF Init, CopiesCurrent
<1>2. VerdictCurrent
  BY DEF Init, VerdictCurrent, NoTmplPass
<1>3. ReadyRecorded
  <2>1. cachedTmpl = tmpl /\ (tmpl = Missing \/ \E c \in Contents : tmpl = NewTemplate(c))
    BY DEF Init
  <2>2. tmpl.ready = FALSE
    BY <2>1 DEF Missing, NewTemplate
  <2> QED BY <2>1, <2>2 DEF ReadyRecorded
<1>4. PassRendered /\ TeamIsRendered
  BY DEF Init, PassRendered, TeamIsRendered, NoRunPass
<1>5. MirroredEverywhere
  <2>1. PICK l \in Lifecycles : run = [phase |-> "InFlight", reason |-> "", lifecycle |-> l]
    BY DEF Init
  <2>2. cachedRun = run /\ runPass.pc = "idle"
    BY DEF Init, NoRunPass
  <2> QED BY <2>1, <2>2 DEF MirroredEverywhere, Shows
<1> QED BY <1>1, <1>2, <1>3, <1>4, <1>5, InitType DEF IInv

(* Every step keeps IInv. *)
LEMMA InvStep == IInv /\ [Next]_vars => IInv'
BY TypeStep, CopiesStep, VerdictStep, ReadyStep, RenderedStep, MirrorStep DEF IInv

(* IInv holds in every behaviour of templates, Runs and teams. *)
THEOREM InvHolds == Spec => []IInv
BY InvInit, InvStep, PTL DEF Spec

(* Every object, copy and pass is well formed. *)
THEOREM TypeCorrect == Spec => []TypeOK
<1>1. IInv => TypeOK
  BY DEF IInv
<1> QED BY <1>1, InvHolds, PTL

(* No team mixes two versions of its template, for any contents and any number
   of edits, faults and retries. *)
THEOREM TeamIsRenderedHolds == Spec => []TeamIsRendered
<1>1. IInv => TeamIsRendered
  BY DEF IInv
<1> QED BY <1>1, InvHolds, PTL

(* A Run that is Completed, or Failed on the word of its team, has a team that
   is: no edit, copy or retry brings an ended team back to life
   under a Run that has shown its end. The Failed of a missing template is left
   out: under it the team may go on. *)
THEOREM MirrorIsTrueHolds == Spec => []MirrorIsTrue
<1>1. IInv => MirrorIsTrue
  BY DEF IInv, MirroredEverywhere, Shows, MirrorIsTrue
<1> QED BY <1>1, InvHolds, PTL

(* Ready turns true only for contents that pass validateTemplate, however late
   the controller's update arrives. *)
LEMMA ReadyEarnedStep ==
  ASSUME IInv, [Next]_vars, tmpl # Missing, tmpl' # Missing, ~tmpl.ready, tmpl'.ready
  PROVE  ValidateTemplate(tmpl.contents)
<1>0. TypeOK /\ VerdictCurrent
  BY DEF IInv
<1>1. CASE TmplUpdate
  <2>1. tmpl \in [contents : Contents, ready : BOOLEAN]
    BY <1>0, TemplateFields DEF TypeOK
  <2>2. tmplPass.ready /\ tmplPass.on /\ TmplVersionMatches
    BY <1>1, <2>1 DEF TmplUpdate
  <2> QED BY <1>0, <2>2 DEF VerdictCurrent
<1>2. CASE EditTemplate \/ DeleteTemplate \/ ApplyTemplate
  <2>1. PICK t \in Templates : ChangeTemplate(t) /\ (t # Missing => t.ready = tmpl.ready)
    BY <1>0, <1>2, UserChange
  <2> QED BY <1>0, <2>1, ChangeType
<1>3. CASE tmpl' = tmpl
  BY <1>3
<1> QED BY <1>1, <1>2, <1>3 DEF Next, TemplateController, RunController, Environment, vars, apiVars,
       TmplBegin, TmplError, RunBegin, EnsureTeam, EnsureTeamError, RunUpdate, RunError, MateCompletes,
       TeamCompletes, TeamFails, SyncTemplate, SyncRun, SyncTeam, TimerFires, Crash

(* setTemplateReady is right whatever contents the template is edited to. *)
THEOREM ReadyIsEarnedHolds == Spec => ReadyIsEarned
<1>1. IInv /\ [Next]_vars =>
        [tmpl # Missing /\ tmpl' # Missing /\ ~tmpl.ready /\ tmpl'.ready
           => ValidateTemplate(tmpl.contents)]_vars
  BY ReadyEarnedStep
<1> QED BY <1>1, InvHolds, PTL DEF Spec, ReadyIsEarned
=============================================================================
