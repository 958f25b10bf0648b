------------------------------ MODULE Trigger -------------------------------
(***************************************************************************)
(* An AgentTeamTrigger: the webhook listener, which creates a Run for each *)
(* accepted request, and the Trigger controller, which records the Runs in *)
(* the trigger's status.  They are two processes.  The listener serves its *)
(* requests concurrently, reads the API server directly and decides        *)
(* Forbid and Replace on the status; the controller computes that status   *)
(* from the manager's caches and does not watch Runs.                      *)
(*                                                                         *)
(* A Run and its payload ConfigMap are named after the trigger and the     *)
(* second, so a second is the name.  A payload is the request it came      *)
(* with.  InFlight is every Run phase that is not terminal, Ended every    *)
(* phase a team ends with.  Failed is what the Run controller records when *)
(* the template is missing: for the trigger the Run has ended, although    *)
(* its team may be going on.                                               *)
(***************************************************************************)
EXTENDS Integers, Sequences, FiniteSets

CONSTANTS
  Requests,      \* the webhook requests that may arrive
  Policies,      \* the concurrency policies a trigger may have
  DefectSets,    \* what may be wrong with a request: subsets of Range(Checks)
  InjectPayload, \* spec.payloadInjection is set
  HistoryLimit,  \* the controller's history limit
  MaxTime,       \* bound: the clock stops here, in seconds
  MaxFaults,     \* bound: how many of the faults below may happen
  FaultKinds     \* which of "error", "kill", "crash", "edit" and "template" may happen

(* Requests a listener refuses, in the order of its checks, and its answers. *)
Checks == <<"health", "method", "read", "size", "path", "signature">>
Codes == <<200, 405, 400, 413, 404, 401>>
BeforeLookup == 4  \* so many checks precede the lookup of the trigger

NoBody == "none"

ASSUME TriggerAssumption ==
  /\ Policies \subseteq {"Allow", "Forbid", "Replace"}
  /\ DefectSets \subseteq SUBSET {Checks[i] : i \in DOMAIN Checks}
  /\ InjectPayload \in BOOLEAN /\ HistoryLimit \in Nat \ {0}
  /\ MaxTime \in Nat /\ MaxFaults \in Nat
  /\ FaultKinds \subseteq {"error", "kill", "crash", "edit", "template"}
  /\ NoBody \notin Requests

VARIABLES
  policy,       \* spec.concurrencyPolicy
  status,       \* status of the trigger in the API server
  runs,         \* the Runs in the API server
  payloads,     \* whose body each payload ConfigMap holds, or NoBody
  req,          \* the requests
  cachedLast,   \* the manager's copies: lastTriggeredAt of the trigger ...
  trigFresh,    \* ... and whether its copy has the current resource version
  cachedRuns,
  pass,         \* the controller's pass before its update, or NoPass
  queued,       \* the trigger's key is in the workqueue
  waiting,      \* a RequeueAfter is pending
  now, faults,
  fired,        \* history: how often the Run of each name was created
  raced,        \* history: a request was decided on anything but a true status
  lapsed        \* history: the names of Runs that were Failed and are in flight again

listenerVars == <<payloads, req, fired, raced>>
cacheVars == <<cachedLast, trigFresh, cachedRuns>>
controllerVars == <<pass, queued, waiting>>
envVars == <<now, faults, lapsed>>
vars == <<policy, status, runs, listenerVars, cacheVars, controllerVars, envVars>>

-----------------------------------------------------------------------------
(* State. *)

None == -1
Names == 0..MaxTime
NoRun == [phase |-> "Absent", at |-> None]
RunPhases == {"InFlight", "Ended", "Failed"}
Run == [phase : RunPhases, at : Names] \cup {NoRun}
IsRunTerminal(phase) == phase \in {"Ended", "Failed"}
Existing(rs) == {n \in Names : rs[n] # NoRun}
InFlight(rs) == {n \in Existing(rs) : ~IsRunTerminal(rs[n].phase)}

(* The Runs whose teams may be going, whatever the Runs' phases say. *)
Underway(rs) == {n \in Existing(rs) : rs[n].phase # "Ended"}

TriggerStatus == [
  active  : Names \cup {None},
  total   : 0..(MaxTime + 1),
  last    : Names \cup {None},
  history : Seq([name : Names, phase : RunPhases])]

NewStatus == [active |-> None, total |-> 0, last |-> None, history |-> <<>>]

(* A request: its step, what is wrong with it, what it has read and named, and
   the answer, 0 while there is none and Lost if there will be none. *)
Lost == -1
Answers == {0, Lost, 202, 409, 500} \cup {Codes[i] : i \in DOMAIN Codes}
Request == [
  pc      : {"idle", "lookup", "delete", "payload", "create", "done"},
  defects : DefectSets,
  active  : Names \cup {None},
  name    : Names \cup {None},
  code    : Answers]

NewRequest(d) == [pc |-> "idle", defects |-> d, active |-> None, name |-> None, code |-> 0]

MaxFired == 2  \* bound: creations are counted as 0, 1, many

NoPass == [status |-> NewStatus, fresh |-> FALSE, on |-> FALSE]

TypeOK ==
  /\ policy \in Policies
  /\ status \in TriggerStatus
  /\ runs \in [Names -> Run] /\ cachedRuns \in [Names -> Run]
  /\ payloads \in [Names -> Requests \cup {NoBody}]
  /\ req \in [Requests -> Request]
  /\ cachedLast \in Names \cup {None} /\ trigFresh \in BOOLEAN
  /\ pass \in [status : TriggerStatus, fresh : BOOLEAN, on : BOOLEAN]
  /\ queued \in BOOLEAN /\ waiting \in BOOLEAN
  /\ now \in Names /\ faults \in 0..MaxFaults
  /\ fired \in [Names -> 0..MaxFired] /\ raced \in BOOLEAN
  /\ lapsed \subseteq Names

Init ==
  /\ policy \in Policies
  /\ status = NewStatus
  /\ runs = [n \in Names |-> NoRun] /\ cachedRuns = [n \in Names |-> NoRun]
  /\ payloads = [n \in Names |-> NoBody]
  /\ \E d \in [Requests -> DefectSets] : req = [q \in Requests |-> NewRequest(d[q])]
  /\ cachedLast = None /\ trigFresh = TRUE
  /\ pass = NoPass /\ queued = TRUE /\ waiting = FALSE
  /\ now = 0 /\ faults = 0
  /\ fired = [n \in Names |-> 0] /\ raced = FALSE /\ lapsed = {}

Fault(kind) ==
  /\ kind \in FaultKinds
  /\ faults < MaxFaults
  /\ faults' = faults + 1

(* The Runs that come first when those of rs in S are sorted newest first;
   sort.Slice leaves Runs of one second in any order. *)
Newest(S, rs) == {n \in S : \A m \in S : rs[n].at >= rs[m].at}

(* ActiveRun is one of the newest Runs of S, or empty if there is none. *)
StatusNames(S) ==
  IF S = {} THEN status.active = None ELSE status.active \in Newest(S, runs)

-----------------------------------------------------------------------------
(* The listener: ServeHTTP. *)

Answer(q, code) == req' = [req EXCEPT ![q].pc = "done", ![q].code = code]

(* The first check that the request fails, counted from i. *)
FailedChecks(q, i, j) == {k \in i..j : Checks[k] \in req[q].defects}
FirstOf(S) == CHOOSE k \in S : \A m \in S : k <= m

(* Before anything is looked up. *)
Arrive(q) ==
  LET failed == FailedChecks(q, 1, BeforeLookup) IN
  /\ req[q].pc = "idle"
  /\ IF failed # {} THEN Answer(q, Codes[FirstOf(failed)])
                    ELSE req' = [req EXCEPT ![q].pc = "lookup"]
  /\ UNCHANGED <<policy, status, runs, payloads, fired, raced, cacheVars, controllerVars, envVars>>

(* findTrigger finds nothing or verifySignature fails. *)
FailedLookup(q) == FailedChecks(q, BeforeLookup + 1, Len(Checks))

(* Mutant: Forbid does not look at the active Run. *)
RefusesNever(active) == FALSE

(* The switch on the concurrency policy. *)
Refuses(active) == policy = "Forbid" /\ active # None
Replaces(active) == policy = "Replace" /\ active # None

(* findTrigger, verifySignature and the decision on what was read. *)
Lookup(q) ==
  /\ req[q].pc = "lookup"
  /\ IF FailedLookup(q) # {}
       THEN Answer(q, Codes[FirstOf(FailedLookup(q))]) /\ UNCHANGED raced
       ELSE /\ IF Refuses(status.active) THEN Answer(q, 409)
               ELSE req' = [req EXCEPT ![q].active = status.active,
                              ![q].pc = IF Replaces(status.active) THEN "delete" ELSE "payload"]
            /\ raced' = \/ raced \/ policy = "Allow" \/ ~StatusNames(Underway(runs))
                        \/ \E p \in Requests \ {q} : req[p].pc \in {"delete", "payload", "create"}
  /\ UNCHANGED <<policy, status, runs, payloads, fired, cacheVars, controllerVars, envVars>>

(* The List of triggers fails, or the Get of the Secret: that is a bad signature. *)
LookupError(q) ==
  /\ req[q].pc = "lookup"
  /\ Fault("error")
  /\ Answer(q, 500) \/ ("path" \notin req[q].defects /\ Answer(q, 401))
  /\ UNCHANGED <<policy, status, runs, payloads, fired, raced, cacheVars, controllerVars, now, lapsed>>

(* deleteRun: a Run that is gone is as good. *)
DeleteActive(q) == runs' = [runs EXCEPT ![req[q].active] = NoRun]

DeleteRun(q) ==
  /\ req[q].pc = "delete"
  /\ DeleteActive(q)
  /\ req' = [req EXCEPT ![q].pc = "payload"]
  /\ UNCHANGED <<policy, status, payloads, fired, raced, cacheVars, controllerVars, envVars>>

(* A call fails, or is done and reports a failure. *)
DeleteError(q) ==
  /\ req[q].pc = "delete"
  /\ Fault("error")
  /\ DeleteActive(q) \/ UNCHANGED runs
  /\ Answer(q, 500)
  /\ UNCHANGED <<policy, status, payloads, fired, raced, cacheVars, controllerVars, now, lapsed>>

(* Create the ConfigMap; AlreadyExists is a success. *)
StorePayload(q, n) ==
  payloads' = [payloads EXCEPT ![n] = IF InjectPayload /\ @ = NoBody THEN q ELSE @]

(* Mutant: the time is rounded up. *)
RunNameAhead == now + 1

(* The second in which the name is made up. *)
RunName == now

(* runName, then the payload ConfigMap. *)
CreatePayload(q) ==
  /\ req[q].pc = "payload"
  /\ StorePayload(q, RunName)
  /\ req' = [req EXCEPT ![q].name = RunName, ![q].pc = "create"]
  /\ UNCHANGED <<policy, status, runs, fired, raced, cacheVars, controllerVars, envVars>>

(* Mutant: the Run is created all the same. *)
PayloadErrorIgnored(q) ==
  /\ req[q].pc = "payload"
  /\ InjectPayload /\ Fault("error")
  /\ UNCHANGED payloads
  /\ req' = [req EXCEPT ![q].name = RunName, ![q].pc = "create"]
  /\ UNCHANGED <<policy, status, runs, fired, raced, cacheVars, controllerVars, now, lapsed>>

PayloadError(q) ==
  /\ req[q].pc = "payload"
  /\ InjectPayload /\ Fault("error")
  /\ StorePayload(q, RunName) \/ UNCHANGED payloads
  /\ req' = [req EXCEPT ![q].name = RunName, ![q].pc = "done", ![q].code = 500]
  /\ UNCHANGED <<policy, status, runs, fired, raced, cacheVars, controllerVars, now, lapsed>>

(* Create the Run; AlreadyExists is a success. *)
StartRun(n) ==
  IF runs[n] = NoRun
    THEN /\ runs' = [runs EXCEPT ![n] = [phase |-> "InFlight", at |-> now]]
         /\ fired' = [fired EXCEPT ![n] = IF @ < MaxFired THEN @ + 1 ELSE @]
    ELSE UNCHANGED <<runs, fired>>

CreateRun(q) ==
  /\ req[q].pc = "create"
  /\ StartRun(req[q].name)
  /\ Answer(q, 202)
  /\ UNCHANGED <<policy, status, payloads, raced, cacheVars, controllerVars, envVars>>

(* Mutant: a failed create is answered as accepted. *)
CreateErrorAccepted(q) ==
  /\ req[q].pc = "create"
  /\ Fault("error")
  /\ UNCHANGED <<runs, fired>>
  /\ Answer(q, 202)
  /\ UNCHANGED <<policy, status, payloads, raced, cacheVars, controllerVars, now, lapsed>>

CreateError(q) ==
  /\ req[q].pc = "create"
  /\ Fault("error")
  /\ StartRun(req[q].name) \/ UNCHANGED <<runs, fired>>
  /\ Answer(q, 500)
  /\ UNCHANGED <<policy, status, payloads, raced, cacheVars, controllerVars, now, lapsed>>

(* The listener is killed, or the client hangs up, between two calls. *)
Abandon(q) ==
  /\ req[q].pc \in {"lookup", "delete", "payload", "create"}
  /\ Fault("kill")
  /\ Answer(q, Lost)
  /\ UNCHANGED <<policy, status, runs, payloads, fired, raced, cacheVars, controllerVars, now, lapsed>>

ServeHTTP(q) ==
  \/ Lookup(q) \/ LookupError(q) \/ DeleteRun(q) \/ DeleteError(q)
  \/ CreatePayload(q) \/ PayloadError(q) \/ CreateRun(q) \/ CreateError(q)

-----------------------------------------------------------------------------
(* The Trigger controller: Reconcile. *)

(* The orders that sort.Slice may leave the Runs of rs in, newest first. *)
Sorted(rs) ==
  LET n == Cardinality(Existing(rs)) IN
  {s \in [1..n -> Existing(rs)] :
     \A i, j \in 1..n : i < j => s[i] # s[j] /\ rs[s[i]].at >= rs[s[j]].at}

(* Mutants: the last Run in flight of the list, the oldest; the newest Run
   whatever its phase. *)
ActiveRunOldest(list, rs) ==
  LET flying == {i \in DOMAIN list : ~IsRunTerminal(rs[list[i]].phase)} IN
  IF flying = {} THEN None ELSE list[CHOOSE i \in flying : \A j \in flying : i >= j]
ActiveRunFirst(list, rs) == IF list = <<>> THEN None ELSE list[1]

(* The first Run in flight of the list. *)
ActiveRun(list, rs) ==
  LET flying == {i \in DOMAIN list : ~IsRunTerminal(rs[list[i]].phase)} IN
  IF flying = {} THEN None ELSE list[FirstOf(flying)]

Begin ==
  /\ queued /\ ~pass.on
  /\ queued' = FALSE
  /\ \E list \in Sorted(cachedRuns) :
       pass' = [on |-> TRUE, fresh |-> trigFresh, status |->
         [active  |-> ActiveRun(list, cachedRuns),
          total   |-> Len(list),
          last    |-> IF list = <<>> THEN cachedLast ELSE cachedRuns[list[1]].at,
          history |-> [i \in 1..(IF Len(list) < HistoryLimit THEN Len(list) ELSE HistoryLimit) |->
                         [name |-> list[i], phase |-> cachedRuns[list[i]].phase]]]]
  /\ UNCHANGED <<policy, status, runs, listenerVars, cacheVars, waiting, envVars>>

RequeueAfter == waiting' = TRUE

(* The API server accepts an update of the current version only, and writes a
   new version if anything has changed. *)
Update ==
  /\ pass.on /\ pass.fresh
  /\ status' = pass.status
  /\ trigFresh' = (trigFresh /\ status' = status)
  /\ RequeueAfter
  /\ pass' = NoPass
  /\ UNCHANGED <<policy, runs, listenerVars, cachedLast, cachedRuns, queued, envVars>>

UpdateError ==
  /\ pass.on
  /\ \/ ~pass.fresh /\ UNCHANGED faults
     \/ Fault("error")
  /\ pass' = NoPass /\ queued' = TRUE
  /\ UNCHANGED <<policy, status, runs, listenerVars, cacheVars, waiting, now, lapsed>>

Controller == Begin \/ Update \/ UpdateError

-----------------------------------------------------------------------------
(* The rest: Runs end, users edit, informers, timers and restarts. *)

(* The Run controller, as far as its Run's phase goes: it mirrors the phase of
   a team that has ended; it finds that the template is gone; and, the template
   applied again, it mirrors a team that is still going. *)
RunEnds(n) ==
  /\ n \in Underway(runs)
  /\ runs' = [runs EXCEPT ![n].phase = "Ended"]
  /\ UNCHANGED <<policy, status, listenerVars, cacheVars, controllerVars, envVars>>

RunFails(n) ==
  /\ n \in InFlight(runs)
  /\ Fault("template")
  /\ runs' = [runs EXCEPT ![n].phase = "Failed"]
  /\ UNCHANGED <<policy, status, listenerVars, cacheVars, controllerVars, now, lapsed>>

RunRevives(n) ==
  /\ n \in Underway(runs) \ InFlight(runs)
  /\ runs' = [runs EXCEPT ![n].phase = "InFlight"]
  /\ lapsed' = lapsed \cup {n}
  /\ UNCHANGED <<policy, status, listenerVars, cacheVars, controllerVars, now, faults>>

(* A user changes the policy: a new version, which a pass in between loses to. *)
EditPolicy ==
  /\ Fault("edit")
  /\ policy' \in Policies \ {policy}
  /\ trigFresh' = FALSE
  /\ pass' = [pass EXCEPT !.fresh = FALSE]
  /\ UNCHANGED <<status, runs, listenerVars, cachedLast, cachedRuns, queued, waiting, now, lapsed>>

SyncTrigger ==
  /\ ~trigFresh
  /\ cachedLast' = status.last /\ trigFresh' = TRUE /\ queued' = TRUE
  /\ UNCHANGED <<policy, status, runs, listenerVars, cachedRuns, pass, waiting, envVars>>

(* Nothing is enqueued: the controller does not watch Runs. *)
SyncRun(n) ==
  /\ cachedRuns[n] # runs[n]
  /\ cachedRuns' = [cachedRuns EXCEPT ![n] = runs[n]]
  /\ UNCHANGED <<policy, status, runs, listenerVars, cachedLast, trigFresh, controllerVars, envVars>>

TimerFires ==
  /\ waiting
  /\ waiting' = FALSE /\ queued' = TRUE
  /\ UNCHANGED <<policy, status, runs, listenerVars, cacheVars, pass, envVars>>

Tick ==
  /\ now < MaxTime
  /\ now' = now + 1
  /\ UNCHANGED <<policy, status, runs, listenerVars, cacheVars, controllerVars, faults, lapsed>>

(* The manager restarts: caches are filled anew and the trigger is enqueued. *)
Crash ==
  /\ Fault("crash")
  /\ pass' = NoPass /\ queued' = TRUE /\ waiting' = FALSE
  /\ cachedLast' = status.last /\ trigFresh' = TRUE /\ cachedRuns' = runs
  /\ UNCHANGED <<policy, status, runs, listenerVars, now, lapsed>>

Environment ==
  \/ EditPolicy \/ SyncTrigger \/ TimerFires \/ Tick \/ Crash
  \/ \E q \in Requests : Arrive(q) \/ Abandon(q)
  \/ \E n \in Names : RunEnds(n) \/ RunFails(n) \/ RunRevives(n) \/ SyncRun(n)

Next == (\E q \in Requests : ServeHTTP(q)) \/ Controller \/ Environment

Spec == Init /\ [][Next]_vars

(* Fairness: the controller's worker takes the steps it has; watch events and
   the requeue timer arrive. Requests, the clock and Runs promise nothing. *)
Fairness ==
  /\ WF_vars(Controller) /\ WF_vars(SyncTrigger) /\ WF_vars(TimerFires)
  /\ \A n \in Names : WF_vars(SyncRun(n))

FairSpec == Spec /\ Fairness

-----------------------------------------------------------------------------
(* Properties that hold. *)

Accepted == {q \in Requests : req[q].code = 202}

(* With payload injection, a Run never exists without the ConfigMap that its
   pods mount: createRun stores the payload first and gives up if it cannot. *)
PayloadBeforeRun == InjectPayload => \A n \in Existing(runs) : payloads[n] # NoBody

(* Only requests that pass every check of ServeHTTP leave anything behind, and
   what a Run reads is what one of them has sent. *)
OnlyVerifiedRequestsFire ==
  /\ \A n \in Names : fired[n] > 0 => \E q \in Requests : req[q].name = n /\ req[q].defects = {}
  /\ \A n \in Names : payloads[n] # NoBody => req[payloads[n]].defects = {}

(* A request answered 202 has a Run that was created under the name it was
   told, with its own payload, unless another request of the same second has
   stored one first. *)
AcceptedEventFired ==
  \A q \in Accepted :
    /\ fired[req[q].name] > 0
    /\ InjectPayload => \/ payloads[req[q].name] = q
                    \/ \E p \in Requests \ {q} : req[p].name = req[q].name /\ payloads[req[q].name] = p

(* What Forbid and Replace do guarantee: as long as every request was decided
   while no other one was being served and while ActiveRun named the newest Run
   whose team may be going, there is at most one such Run, whatever failed or
   was killed on the way. A Run that a missing template has made Failed is one
   too: the controller takes it off ActiveRun, and what is decided on the empty
   field counts as raced. *)
OneInFlightUnlessRaced == raced \/ Cardinality(Underway(runs)) <= 1

(* From active, ActiveRun moves on only to a Run that is no older. *)
Yields(active) ==
  status'.active # active =>
    /\ status'.active # None
    /\ runs[status'.active] # NoRun => runs[status'.active].at >= runs[active].at

(* A recorded ActiveRun is kept while its Run is in flight, and yields only to
   one that is no older: stale caches never make Forbid forget a Run that has
   been in flight all the time. (One that was deleted and created again under
   its name is another, and one whose template was missing in between was
   Failed, which a cache may still hold.) *)
ActiveRunKept ==
  [][status.active \in InFlight(runs) \ lapsed /\ fired[status.active] = 1 =>
       Yields(status.active)]_vars

(* Once requests, Runs and users are quiet the status names the newest Run in
   flight, or none: an ended Run stops blocking Forbid although the controller
   never hears of it and only the 30-second requeue brings it back. *)
StatusSettles == <>[]StatusNames(InFlight(runs))

-----------------------------------------------------------------------------
(* What the API documentation says, and the code does not keep. *)

(* Forbid governs "what happens when a webhook fires while a previous run is
   still in-flight": no two Runs are in flight. *)
ForbidNeverOverlaps == policy = "Forbid" => Cardinality(InFlight(runs)) <= 1

(* "ActiveRun names the in-flight AgentTeamRun, if any": once recorded it stays
   while the Run is in flight, also one whose template was missing meanwhile. *)
ActiveRunKeptThroughout ==
  [][status.active \in InFlight(runs) /\ fired[status.active] = 1 => Yields(status.active)]_vars

(* "Replace - delete the active Run, then create a new one". *)
ReplaceLeavesOne == policy = "Replace" => Cardinality(InFlight(runs)) <= 1

(* The listener "creates one AgentTeamRun per accepted event". *)
OneRunPerAcceptedEvent ==
  \A p, q \in Accepted : p # q => req[p].name # req[q].name

(* TotalRuns is "over its lifetime": it never decreases. *)
TotalRunsLifetime == [][status'.total >= status.total]_vars
=============================================================================
