---------------------------- MODULE TriggerProofs ----------------------------
(***************************************************************************)
(* Proofs about Trigger, for any number of concurrent requests, any clock, *)
(* any defects and any number of faults: what the listener leaves behind,  *)
(* and when Forbid and Replace do keep Runs from overlapping.              *)
(***************************************************************************)
EXTENDS Trigger, FiniteSetTheorems, WellFoundedInduction, TLAPS

(* The steps between the decision on a request and its Run. *)
Serving == {"delete", "payload", "create"}

(* What a request has passed, named and stored when it is at its step. *)
RequestOK(q) ==
  /\ req[q].pc = "lookup" => FailedChecks(q, 1, BeforeLookup) = {}
  /\ req[q].pc \in Serving => req[q].defects = {}
  /\ req[q].pc = "delete" => req[q].active # None
  /\ req[q].pc \in {"idle", "lookup", "delete", "payload"} => req[q].name = None
  /\ req[q].pc # "done" => req[q].code = 0
  /\ req[q].name # None => req[q].defects = {}
  /\ req[q].pc = "create" =>
       req[q].name # None /\ (InjectPayload => payloads[req[q].name] # NoBody)
  /\ req[q].code = 202 =>
       /\ req[q].name # None /\ fired[req[q].name] > 0
       /\ InjectPayload => payloads[req[q].name] # NoBody

RequestInv == \A q \in Requests : RequestOK(q)

(* Every Run and every payload goes back to a request that has named it. *)
RunInv ==
  \A n \in Names :
    /\ runs[n] # NoRun => fired[n] > 0 /\ (InjectPayload => payloads[n] # NoBody)
    /\ fired[n] > 0 => \E q \in Requests : req[q].name = n
    /\ payloads[n] # NoBody => req[payloads[n]].name = n

(* As long as no decision was raced, one request at a time is served, and it
   has the way to its Run to itself. *)
TurnInv ==
  ~raced =>
    /\ \A p, q \in Requests : req[p].pc \in Serving /\ req[q].pc \in Serving => p = q
    /\ \A m, n \in Underway(runs) : m = n
    /\ \A q \in Requests : req[q].pc \in {"payload", "create"} => Underway(runs) = {}
    /\ \A q \in Requests : req[q].pc = "delete" => Underway(runs) \subseteq {req[q].active}

IInv == TypeOK /\ RequestInv /\ RunInv /\ TurnInv

-----------------------------------------------------------------------------
(* Type correctness. *)

(* FirstOf picks the least member of a set of numbers. *)
LEMMA FirstIsMember ==
  ASSUME NEW S \in SUBSET Nat, S # {}
  PROVE  FirstOf(S) \in S /\ \A m \in S : FirstOf(S) <= m
<1>1. PICK x \in S : \A y \in S : ~(<<y, x>> \in OpToRel(<, Nat))
  BY NatLessThanWellFounded, WFMin
<1>2. \A y \in S : x <= y
  <2>1. SUFFICES ASSUME NEW y \in S, y < x PROVE FALSE
    OBVIOUS
  <2>2. <<y, x>> \in Nat \X Nat /\ <<y, x>>[1] = y /\ <<y, x>>[2] = x
    OBVIOUS
  <2>3. <<y, x>> \in OpToRel(<, Nat)
    BY <2>1, <2>2 DEF OpToRel
  <2> QED BY <2>3, <1>1
<1> QED BY <1>2 DEF FirstOf

(* The answer to a failed check is one of the listener's. *)
LEMMA AnswerIsCode ==
  ASSUME NEW q, NEW i \in 1..6, NEW j \in 1..6, FailedChecks(q, i, j) # {}
  PROVE  Codes[FirstOf(FailedChecks(q, i, j))] \in {Codes[k] : k \in DOMAIN Codes}
                                                 \cap {200, 405, 400, 413, 404, 401}
<1>1. PICK k \in 1..6 : k = FirstOf(FailedChecks(q, i, j))
  <2>1. FailedChecks(q, i, j) \subseteq 1..6
    BY DEF FailedChecks
  <2> QED BY <2>1, FirstIsMember
<1>2. DOMAIN Codes = 1..6 /\ Codes[k] \in {200, 405, 400, 413, 404, 401}
  BY DEF Codes
<1> QED BY <1>1, <1>2

(* What the controller computes from its copies is a status. *)
LEMMA StatusType ==
  ASSUME TypeOK, NEW list \in Sorted(cachedRuns)
  PROVE  [active  |-> ActiveRun(list, cachedRuns),
          total   |-> Len(list),
          last    |-> IF list = <<>> THEN cachedLast ELSE cachedRuns[list[1]].at,
          history |-> [i \in 1..(IF Len(list) < HistoryLimit THEN Len(list) ELSE HistoryLimit) |->
                         [name |-> list[i], phase |-> cachedRuns[list[i]].phase]]] \in TriggerStatus
<1> DEFINE E == Existing(cachedRuns)
           n == Cardinality(E)
<1>1. /\ IsFiniteSet(Names) /\ Cardinality(Names) = MaxTime + 1
      /\ MaxTime \in Nat /\ HistoryLimit \in Nat \ {0}
  BY FS_Interval, TriggerAssumption DEF Names
<1>2. /\ E \subseteq Names
      /\ \A m \in E : cachedRuns[m] \in [phase : RunPhases, at : Names]
  BY DEF TypeOK, Existing, Run
<1>3. n \in 0..(MaxTime + 1)
  BY <1>1, <1>2, FS_Subset, FS_CardinalityType
<1>4. list \in [1..n -> E]
  BY DEF Sorted
<1> HIDE DEF n, E
<1>5. list \in Seq(E) /\ Len(list) = n /\ DOMAIN list = 1..n
  BY <1>3, <1>4
<1>6. ActiveRun(list, cachedRuns) \in Names \cup {None}
  <2> DEFINE flying == {i \in DOMAIN list : ~IsRunTerminal(cachedRuns[list[i]].phase)}
  <2>1. CASE flying = {}
    BY <2>1 DEF ActiveRun
  <2>2. CASE flying # {}
    <3>1. flying \subseteq Nat
      BY <1>3, <1>5
    <3>2. FirstOf(flying) \in flying
      BY <3>1, <2>2, FirstIsMember
    <3> QED BY <1>2, <1>4, <1>5, <2>2, <3>2 DEF ActiveRun
  <2> QED BY <2>1, <2>2
<1>7. (IF list = <<>> THEN cachedLast ELSE cachedRuns[list[1]].at) \in Names \cup {None}
  <2>1. CASE list = <<>>
    BY <2>1 DEF TypeOK
  <2>2. CASE list # <<>>
    <3>1. list[1] \in E
      BY <1>3, <1>4, <1>5, <2>2
    <3> QED BY <1>2, <2>2, <3>1
  <2> QED BY <2>1, <2>2
<1>8. [i \in 1..(IF Len(list) < HistoryLimit THEN Len(list) ELSE HistoryLimit) |->
         [name |-> list[i], phase |-> cachedRuns[list[i]].phase]]
        \in Seq([name : Names, phase : RunPhases])
  <2> DEFINE k == IF Len(list) < HistoryLimit THEN Len(list) ELSE HistoryLimit
  <2>1. k \in Nat /\ 1..k \subseteq 1..n
    BY <1>1, <1>3, <1>5
  <2> HIDE DEF k
  <2>2. \A i \in 1..k : list[i] \in E
    BY <1>4, <2>1
  <2>3. \A i \in 1..k : [name |-> list[i], phase |-> cachedRuns[list[i]].phase]
                          \in [name : Names, phase : RunPhases]
    BY <1>2, <2>2
  <2>4. [i \in 1..k |-> [name |-> list[i], phase |-> cachedRuns[list[i]].phase]]
          \in [1..k -> [name : Names, phase : RunPhases]]
    BY <2>3
  <2>5. [i \in 1..k |-> [name |-> list[i], phase |-> cachedRuns[list[i]].phase]]
          \in Seq([name : Names, phase : RunPhases])
    <3> DEFINE f == [i \in 1..k |-> [name |-> list[i], phase |-> cachedRuns[list[i]].phase]]
               T == [name : Names, phase : RunPhases]
    <3>1. f \in [1..k -> T]
      BY <2>4
    <3> HIDE DEF f, T
    <3>2. f \in Seq(T)
      BY <2>1, <3>1
    <3> QED BY <3>2 DEF f, T
  <2> QED BY <2>5 DEF k
<1> QED BY <1>3, <1>5, <1>6, <1>7, <1>8 DEF TriggerStatus

(* An answer closes one request and leaves the others alone. *)
LEMMA AnswerType ==
  ASSUME TypeOK, NEW q \in Requests, NEW c \in Answers, Answer(q, c)
  PROVE  req' \in [Requests -> Request]
<1> DEFINE P == {"idle", "lookup", "delete", "payload", "create", "done"}
           N == Names \cup {None}
<1>1. "done" \in P
  OBVIOUS
<1>2. Request = [pc : P, defects : DefectSets, active : N, name : N, code : Answers]
  BY DEF Request
<1> HIDE DEF P, N
<1>3. req \in [Requests -> [pc : P, defects : DefectSets, active : N, name : N, code : Answers]]
  BY <1>2 DEF TypeOK
<1>4. req' \in [Requests -> [pc : P, defects : DefectSets, active : N, name : N, code : Answers]]
  BY <1>1, <1>3 DEF Answer
<1> QED BY <1>2, <1>4

(* Every step keeps the types. *)
LEMMA TypeNext ==
  ASSUME TypeOK, RequestInv, [Next]_vars
  PROVE  TypeOK'
<1> USE TriggerAssumption DEF TypeOK
<1>0. /\ {401, 409, 500, 202, Lost} \subseteq Answers
  BY DEF Answers, Codes
<1>c. /\ None \notin Names /\ NoBody \notin Requests /\ MaxTime \in Nat
      /\ MaxFaults \in Nat
  BY DEF None, Names
<1>1. ASSUME NEW q \in Requests, Arrive(q) PROVE TypeOK'
  <2>1. req' \in [Requests -> Request]
    <3>1. CASE FailedChecks(q, 1, BeforeLookup) # {}
      <4>1. Codes[FirstOf(FailedChecks(q, 1, BeforeLookup))] \in Answers
        BY <3>1, AnswerIsCode DEF Answers, BeforeLookup
      <4> QED BY <1>1, <3>1, <4>1, AnswerType DEF Arrive
    <3>2. CASE FailedChecks(q, 1, BeforeLookup) = {}
      BY <1>1, <3>2 DEF Arrive, Request
    <3> QED BY <3>1, <3>2
  <2> QED BY <1>1, <2>1 DEF Arrive, cacheVars, controllerVars, envVars
<1>2. ASSUME NEW q \in Requests, Lookup(q) PROVE TypeOK'
  <2>1. req' \in [Requests -> Request]
    <3>1. CASE FailedLookup(q) # {}
      <4>1. Codes[FirstOf(FailedLookup(q))] \in Answers
        BY <3>1, AnswerIsCode DEF Answers, FailedLookup, BeforeLookup, Checks
      <4> QED BY <1>2, <3>1, <4>1, AnswerType DEF Lookup
    <3>2. CASE FailedLookup(q) = {}
      <4>1. status.active \in Names \cup {None}
        BY DEF TriggerStatus
      <4>2. CASE Refuses(status.active)
        BY <1>0, <1>2, <3>2, <4>2, AnswerType DEF Lookup
      <4>3. CASE ~Refuses(status.active)
        BY <1>2, <3>2, <4>1, <4>3 DEF Lookup, Request
      <4> QED BY <4>2, <4>3
    <3> QED BY <3>1, <3>2
  <2>2. raced' \in BOOLEAN
    BY <1>2 DEF Lookup
  <2> QED BY <1>2, <2>1, <2>2 DEF Lookup, cacheVars, controllerVars, envVars
<1>3. ASSUME NEW q \in Requests, LookupError(q) PROVE TypeOK'
  <2>1. req' \in [Requests -> Request]
    BY <1>0, <1>3, AnswerType DEF LookupError
  <2> QED BY <1>3, <2>1 DEF LookupError, Fault, cacheVars, controllerVars
<1>4. ASSUME NEW q \in Requests PROVE DeleteActive(q) => runs' \in [Names -> Run]
  BY DEF DeleteActive, Run
<1>5. ASSUME NEW q \in Requests, DeleteRun(q) PROVE TypeOK'
  <2>1. req' \in [Requests -> Request]
    BY <1>5 DEF DeleteRun, Request
  <2> QED BY <1>4, <1>5, <2>1 DEF DeleteRun, cacheVars, controllerVars, envVars
<1>6. ASSUME NEW q \in Requests, DeleteError(q) PROVE TypeOK'
  <2>1. req' \in [Requests -> Request]
    BY <1>0, <1>6, AnswerType DEF DeleteError
  <2> QED BY <1>4, <1>6, <2>1 DEF DeleteError, Fault, cacheVars, controllerVars
<1>7. ASSUME NEW q \in Requests PROVE StorePayload(q, RunName) => payloads' \in [Names -> Requests \cup {NoBody}]
  BY DEF StorePayload, RunName
<1>8. ASSUME NEW q \in Requests, CreatePayload(q) PROVE TypeOK'
  <2>1. req' \in [Requests -> Request]
    BY <1>8 DEF CreatePayload, Request, RunName
  <2> QED BY <1>7, <1>8, <2>1 DEF CreatePayload, cacheVars, controllerVars, envVars
<1>9. ASSUME NEW q \in Requests, PayloadError(q) PROVE TypeOK'
  <2>1. req' \in [Requests -> Request]
    BY <1>9 DEF PayloadError, Request, RunName
  <2> QED BY <1>7, <1>9, <2>1 DEF PayloadError, Fault, cacheVars, controllerVars
<1>10. ASSUME NEW n \in Names, StartRun(n)
       PROVE  runs' \in [Names -> Run] /\ fired' \in [Names -> 0..MaxFired]
  BY <1>10 DEF StartRun, Run, RunPhases, MaxFired
<1>11. ASSUME NEW q \in Requests, req[q].pc = "create" PROVE req[q].name \in Names
  BY <1>11 DEF RequestInv, RequestOK, Request
<1>12. ASSUME NEW q \in Requests, CreateRun(q) PROVE TypeOK'
  <2>1. req' \in [Requests -> Request]
    BY <1>0, <1>12, AnswerType DEF CreateRun
  <2>2. runs' \in [Names -> Run] /\ fired' \in [Names -> 0..MaxFired]
    BY <1>10, <1>11, <1>12 DEF CreateRun
  <2> QED BY <1>12, <2>1, <2>2 DEF CreateRun, cacheVars, controllerVars, envVars
<1>13. ASSUME NEW q \in Requests, CreateError(q) PROVE TypeOK'
  <2>1. req' \in [Requests -> Request]
    BY <1>0, <1>13, AnswerType DEF CreateError
  <2>2. runs' \in [Names -> Run] /\ fired' \in [Names -> 0..MaxFired]
    BY <1>10, <1>11, <1>13 DEF CreateError
  <2> QED BY <1>13, <2>1, <2>2 DEF CreateError, Fault, cacheVars, controllerVars
<1>14. ASSUME NEW q \in Requests, Abandon(q) PROVE TypeOK'
  <2>1. req' \in [Requests -> Request]
    BY <1>0, <1>14, AnswerType DEF Abandon
  <2> QED BY <1>14, <2>1 DEF Abandon, Fault, cacheVars, controllerVars
<1>15. CASE Begin
  <2>1. pass' \in [status : TriggerStatus, fresh : BOOLEAN, on : BOOLEAN]
    <3>1. PICK s \in TriggerStatus : pass' = [on |-> TRUE, fresh |-> trigFresh, status |-> s]
      BY <1>15, StatusType DEF Begin
    <3> QED BY <3>1
  <2> QED BY <1>15, <2>1 DEF Begin, listenerVars, cacheVars, envVars
<1>16. NoPass \in [status : TriggerStatus, fresh : BOOLEAN, on : BOOLEAN]
  BY DEF NoPass, NewStatus, TriggerStatus
<1>17. CASE Update
  BY <1>16, <1>17 DEF Update, RequeueAfter, listenerVars, envVars
<1>18. CASE UpdateError
  BY <1>16, <1>18 DEF UpdateError, Fault, listenerVars, cacheVars
<1>19. ASSUME NEW n \in Names, RunEnds(n) PROVE TypeOK'
  <2>1. runs[n] \in [phase : RunPhases, at : Names]
    BY <1>19 DEF RunEnds, Underway, Existing, Run
  <2> QED BY <1>19, <2>1 DEF RunEnds, Run, RunPhases, listenerVars, cacheVars, controllerVars, envVars
<1>27. ASSUME NEW n \in Names, RunFails(n) PROVE TypeOK'
  <2>1. runs[n] \in [phase : RunPhases, at : Names]
    BY <1>27 DEF RunFails, InFlight, Existing, Run
  <2>2. faults' \in 0..MaxFaults
    BY <1>c, <1>27 DEF RunFails, Fault
  <2> QED BY <1>27, <2>1, <2>2 DEF RunFails, Run, RunPhases, listenerVars, cacheVars, controllerVars
<1>28. ASSUME NEW n \in Names, RunRevives(n) PROVE TypeOK'
  <2>1. runs[n] \in [phase : RunPhases, at : Names]
    BY <1>28 DEF RunRevives, Underway, Existing, Run
  <2> QED BY <1>28, <2>1 DEF RunRevives, Run, RunPhases, listenerVars, cacheVars, controllerVars
<1>20. CASE EditPolicy
  <2>1. policy' \in Policies
    BY <1>20 DEF EditPolicy
  <2>2. pass' \in [status : TriggerStatus, fresh : BOOLEAN, on : BOOLEAN]
    BY <1>20 DEF EditPolicy
  <2>3. faults' \in 0..MaxFaults
    BY <1>c, <1>20 DEF EditPolicy, Fault
  <2> QED BY <1>20, <2>1, <2>2, <2>3 DEF EditPolicy, listenerVars
<1>21. CASE SyncTrigger
  BY <1>21 DEF SyncTrigger, TriggerStatus, listenerVars, envVars
<1>22. ASSUME NEW n \in Names, SyncRun(n) PROVE TypeOK'
  BY <1>22 DEF SyncRun, listenerVars, controllerVars, envVars
<1>23. CASE TimerFires
  BY <1>23 DEF TimerFires, listenerVars, cacheVars, envVars
<1>24. CASE Tick
  <2>1. now' \in Names
    BY <1>24 DEF Tick, Names
  <2> QED BY <1>24, <2>1 DEF Tick, listenerVars, cacheVars, controllerVars
<1>25. CASE Crash
  <2>1. cachedLast' \in Names \cup {None}
    BY <1>25 DEF Crash, TriggerStatus
  <2>2. faults' \in 0..MaxFaults
    BY <1>c, <1>25 DEF Crash, Fault
  <2> QED BY <1>16, <1>25, <2>1, <2>2 DEF Crash, listenerVars
<1>26. CASE UNCHANGED vars
  BY <1>26 DEF vars, listenerVars, cacheVars, controllerVars, envVars
<1> QED
  BY <1>1, <1>2, <1>3, <1>5, <1>6, <1>8, <1>9, <1>12, <1>13, <1>14, <1>15, <1>17, <1>18, <1>19,
     <1>20, <1>21, <1>22, <1>23, <1>24, <1>25, <1>26, <1>27, <1>28 DEF Next, ServeHTTP, Controller, Environment

-----------------------------------------------------------------------------
(* What a step that changes little keeps. *)

(* An answer closes its request and tells nothing else about it. *)
LEMMA AnswerFacts ==
  ASSUME TypeOK, NEW q \in Requests, NEW c \in Answers, Answer(q, c)
  PROVE  /\ \A p \in Requests \ {q} : req'[p] = req[p]
         /\ req'[q].pc = "done" /\ req'[q].code = c
         /\ req'[q].name = req[q].name /\ req'[q].defects = req[q].defects
<1>1. req \in [Requests -> Request]
  BY DEF TypeOK
<1>2. \A p \in Requests : DOMAIN req[p] = {"pc", "defects", "active", "name", "code"}
  BY <1>1 DEF Request
<1>3. /\ \A p \in Requests \ {q} : req'[p] = req[p]
      /\ req'[q] = [req[q] EXCEPT !.pc = "done", !.code = c]
  BY <1>1 DEF Answer
<1> QED BY <1>2, <1>3

(* A step of another request, which takes no payload and no Run away, leaves
   what is known of a request. *)
LEMMA RequestFrame ==
  ASSUME TypeOK, NEW p \in Requests, RequestOK(p), req'[p] = req[p],
         \A n \in Names : payloads[n] # NoBody => payloads'[n] # NoBody,
         \A n \in Names : fired[n] > 0 => fired'[n] > 0
  PROVE  RequestOK(p)'
<1>1. req[p].name # None => req[p].name \in Names
  BY DEF TypeOK, Request
<1> QED BY <1>1 DEF RequestOK, FailedChecks

(* A step that starts no Run, stores no payload and takes no name away keeps
   what is known of the Runs. *)
LEMMA RunFrame ==
  ASSUME TypeOK, RunInv,
         \A p \in Requests : req[p].name # None => req'[p].name = req[p].name,
         UNCHANGED <<payloads, fired>>,
         \A n \in Names : runs'[n] # NoRun => runs[n] # NoRun
  PROVE  RunInv'
<1>1. \A n \in Names : n # None /\ (payloads[n] # NoBody => payloads[n] \in Requests)
  BY TriggerAssumption DEF TypeOK, Names, None
<1> QED BY <1>1 DEF RunInv

(* A step that lets no request in and starts no Run keeps the turns. *)
LEMMA TurnFrame ==
  ASSUME TurnInv, raced' = raced, Underway(runs') \subseteq Underway(runs),
         \A p \in Requests : req'[p].pc \in Serving =>
           req'[p].pc = req[p].pc /\ req'[p].active = req[p].active
  PROVE  TurnInv'
<1>1. \A p \in Requests : req'[p].pc \in Serving => req[p].pc \in Serving
  OBVIOUS
<1> QED BY <1>1 DEF TurnInv, Serving

(* Deleting a Run takes it out of flight, and no other. *)
LEMMA DeleteFacts ==
  ASSUME TypeOK, NEW q \in Requests, DeleteActive(q)
  PROVE  /\ Underway(runs') = Underway(runs) \ {req[q].active}
         /\ \A n \in Names : runs'[n] # NoRun => runs[n] # NoRun
<1>1. \A n \in Names : runs'[n] = IF n = req[q].active THEN NoRun ELSE runs[n]
  BY DEF DeleteActive, TypeOK
<1> QED BY <1>1 DEF Underway, Existing

(* Creating the Run of a name puts at most that one in flight. *)
LEMMA StartFacts ==
  ASSUME TypeOK, NEW n \in Names, StartRun(n)
  PROVE  /\ Underway(runs') \subseteq Underway(runs) \cup {n}
         /\ \A m \in Names \ {n} : fired'[m] = fired[m] /\ runs'[m] = runs[m]
         /\ runs[n] # NoRun => fired'[n] = fired[n]
         /\ runs[n] = NoRun => fired'[n] > 0
         /\ \A m \in Names : fired[m] > 0 => fired'[m] > 0
<1>1. \A m \in Names : fired[m] \in 0..MaxFired
  BY DEF TypeOK
<1>2. CASE runs[n] = NoRun
  <2>1. \A m \in Names : runs'[m] = IF m = n THEN [phase |-> "InFlight", at |-> now] ELSE runs[m]
    BY <1>2 DEF StartRun, TypeOK
  <2>2. \A m \in Names : fired'[m] = IF m = n /\ fired[m] < MaxFired THEN fired[m] + 1 ELSE fired[m]
    BY <1>2 DEF StartRun, TypeOK
  <2>3. fired'[n] > 0 /\ \A m \in Names : fired[m] > 0 => fired'[m] > 0
    BY <1>1, <2>2 DEF MaxFired
  <2> QED BY <1>2, <2>1, <2>2, <2>3 DEF Underway, Existing
<1>3. CASE runs[n] # NoRun
  BY <1>3 DEF StartRun
<1> QED BY <1>2, <1>3

(* Storing a payload under a name keeps the one that is there. *)
LEMMA StoreFacts ==
  ASSUME TypeOK, NEW q \in Requests, NEW n \in Names, StorePayload(q, n)
  PROVE  /\ \A m \in Names \ {n} : payloads'[m] = payloads[m]
         /\ payloads'[n] \in {q, payloads[n]}
         /\ payloads[n] # NoBody => payloads'[n] = payloads[n]
         /\ InjectPayload => payloads'[n] # NoBody
<1>1. NoBody \notin Requests /\ InjectPayload \in BOOLEAN
  BY TriggerAssumption
<1>2. payloads \in [Names -> Requests \cup {NoBody}]
  BY DEF TypeOK
<1>3. CASE InjectPayload /\ payloads[n] = NoBody
  <2>1. payloads' = [payloads EXCEPT ![n] = q]
    BY <1>3 DEF StorePayload
  <2> QED BY <1>1, <1>2, <1>3, <2>1
<1>4. CASE ~(InjectPayload /\ payloads[n] = NoBody)
  <2>1. payloads' = [payloads EXCEPT ![n] = payloads[n]]
    BY <1>4 DEF StorePayload
  <2>2. \A m \in Names : payloads'[m] = payloads[m]
    BY <1>2, <2>1
  <2> QED BY <1>4, <2>2
<1> QED BY <1>3, <1>4

-----------------------------------------------------------------------------
(* The inductive invariant: initially, and at every step of the listener. *)

LEMMA InitInv == Init => IInv
<1> SUFFICES ASSUME Init PROVE IInv
  OBVIOUS
<1> USE TriggerAssumption DEF Init
<1>1. /\ 0 \in Names /\ \A n \in Names : runs[n] = NoRun /\ payloads[n] = NoBody /\ fired[n] = 0
  BY DEF Names
<1>2. Underway(runs) = {}
  BY <1>1 DEF Underway, Existing
<1>3. \A q \in Requests : /\ req[q] \in Request /\ req[q].pc = "idle"
                         /\ req[q].name = None /\ req[q].code = 0
  BY DEF NewRequest, Request, Answers
<1>4. TypeOK
  <2>1. req \in [Requests -> Request]
    BY <1>3
  <2>2. status \in TriggerStatus /\ pass \in [status : TriggerStatus, fresh : BOOLEAN, on : BOOLEAN]
    BY DEF NewStatus, NoPass, TriggerStatus
  <2>3. /\ runs \in [Names -> Run] /\ cachedRuns \in [Names -> Run]
        /\ payloads \in [Names -> Requests \cup {NoBody}]
    BY DEF Run
  <2>4. fired \in [Names -> 0..MaxFired] /\ faults \in 0..MaxFaults /\ now \in Names
    BY <1>1 DEF MaxFired
  <2> QED BY <2>1, <2>2, <2>3, <2>4 DEF TypeOK
<1>5. RequestInv
  BY <1>3 DEF RequestInv, RequestOK, Serving
<1>6. RunInv
  BY <1>1 DEF RunInv
<1>7. TurnInv
  BY <1>2, <1>3 DEF TurnInv, Serving
<1> QED BY <1>4, <1>5, <1>6, <1>7 DEF IInv

(* A request that is answered without being accepted, and leaves no Run and no
   payload behind that was not there. *)
LEMMA RefusedInv ==
  ASSUME IInv, NEW q \in Requests, NEW c \in Answers, Answer(q, c), c # 202, req[q].code = 0,
         UNCHANGED <<payloads, fired, raced>>,
         \A n \in Names : runs'[n] # NoRun => runs[n] # NoRun,
         Underway(runs') \subseteq Underway(runs)
  PROVE  (RequestInv /\ RunInv /\ TurnInv)'
<1> USE AnswerFacts DEF IInv
<1>1. RequestInv'
  <2>1. \A p \in Requests \ {q} : RequestOK(p)'
    BY RequestFrame DEF RequestInv
  <2>2. RequestOK(q)'
    BY DEF RequestInv, RequestOK, Serving
  <2> QED BY <2>1, <2>2 DEF RequestInv
<1>2. RunInv'
  BY RunFrame
<1>3. TurnInv'
  <2>1. "done" \notin Serving
    BY DEF Serving
  <2> QED BY <2>1, TurnFrame
<1> QED BY <1>1, <1>2, <1>3

LEMMA ArriveInv ==
  ASSUME IInv, NEW q \in Requests, Arrive(q)
  PROVE  (RequestInv /\ RunInv /\ TurnInv)'
<1>1. CASE FailedChecks(q, 1, BeforeLookup) # {}
  <2>1. PICK c \in Answers : c # 202 /\ Answer(q, c)
    BY <1>1, AnswerIsCode DEF Answers, BeforeLookup, Arrive
  <2>2. req[q].code = 0
    BY DEF Arrive, IInv, RequestInv, RequestOK
  <2> QED BY <2>1, <2>2, RefusedInv DEF Arrive
<1>2. CASE FailedChecks(q, 1, BeforeLookup) = {}
  <2>1. /\ \A p \in Requests \ {q} : req'[p] = req[p]
        /\ req'[q] = [req[q] EXCEPT !.pc = "lookup"]
        /\ req[q] \in Request /\ req[q].pc = "idle"
    BY <1>2 DEF Arrive, IInv, TypeOK
  <2>2. /\ req'[q].pc = "lookup" /\ req'[q].defects = req[q].defects
        /\ req'[q].name = req[q].name /\ req'[q].code = req[q].code
    BY <2>1 DEF Request
  <2>3. RequestInv'
    <3>1. \A p \in Requests \ {q} : RequestOK(p)'
      BY <2>1, RequestFrame DEF IInv, RequestInv, Arrive
    <3>2. RequestOK(q)'
      BY <1>2, <2>1, <2>2 DEF IInv, RequestInv, RequestOK, FailedChecks, Serving
    <3> QED BY <3>1, <3>2 DEF RequestInv
  <2>4. RunInv'
    BY <2>1, <2>2, RunFrame DEF IInv, Arrive
  <2>5. TurnInv'
    BY <2>1, <2>2, TurnFrame DEF IInv, Arrive, Serving
  <2> QED BY <2>3, <2>4, <2>5
<1> QED BY <1>1, <1>2

(* A request that has passed both rounds of checks has nothing wrong. *)
LEMMA AllChecks ==
  ASSUME TypeOK, NEW q \in Requests, FailedChecks(q, 1, BeforeLookup) = {}, FailedLookup(q) = {}
  PROVE  req[q].defects = {}
<1>1. req[q].defects \subseteq {Checks[k] : k \in 1..6}
  BY TriggerAssumption DEF TypeOK, Request, Checks
<1>2. \A k \in 1..6 : Checks[k] \notin req[q].defects
  BY DEF FailedChecks, FailedLookup, BeforeLookup, Checks
<1> QED BY <1>1, <1>2

(* The decision is where a turn begins: it is not raced only if nobody else is
   being served and the status it rests on is true. *)
LEMMA LookupInv ==
  ASSUME IInv, NEW q \in Requests, Lookup(q)
  PROVE  (RequestInv /\ RunInv /\ TurnInv)'
<1>1. req[q].code = 0 /\ req[q].name = None /\ FailedChecks(q, 1, BeforeLookup) = {}
  BY DEF Lookup, IInv, RequestInv, RequestOK
<1>2. CASE FailedLookup(q) # {}
  <2>1. PICK c \in Answers : c # 202 /\ Answer(q, c)
    <3>1. FailedLookup(q) = FailedChecks(q, 5, 6)
      BY DEF FailedLookup, BeforeLookup, Checks
    <3>2. PICK c \in Answers : c # 202 /\ c = Codes[FirstOf(FailedLookup(q))]
      BY <1>2, <3>1, AnswerIsCode DEF Answers
    <3> QED BY <1>2, <3>2 DEF Lookup
  <2> QED BY <1>1, <1>2, <2>1, RefusedInv DEF Lookup
<1>3. CASE FailedLookup(q) = {}
  <2>1. req[q].defects = {}
    BY <1>1, <1>3, AllChecks DEF IInv
  <2>2. raced' = \/ raced \/ policy = "Allow" \/ ~StatusNames(Underway(runs))
                 \/ \E p \in Requests \ {q} : req[p].pc \in Serving
    BY <1>3 DEF Lookup, Serving
  <2>3. CASE Refuses(status.active)
    <3>1. Answer(q, 409) /\ 409 \in Answers
      BY <1>3, <2>3 DEF Lookup, Answers
    <3>2. RequestInv'
      <4>1. \A p \in Requests \ {q} : RequestOK(p)'
        BY <3>1, AnswerFacts, RequestFrame DEF IInv, RequestInv, Lookup
      <4>2. RequestOK(q)'
        BY <1>1, <3>1, AnswerFacts DEF IInv, RequestInv, RequestOK, Serving
      <4> QED BY <4>1, <4>2 DEF RequestInv
    <3>3. RunInv'
      BY <3>1, AnswerFacts, RunFrame DEF IInv, Lookup
    <3>4. TurnInv'
      <4>1. CASE raced' = raced
        BY <3>1, <4>1, AnswerFacts, TurnFrame DEF IInv, Lookup, Serving
      <4>2. CASE raced'
        BY <4>2 DEF TurnInv
      <4> QED BY <2>2, <4>1, <4>2 DEF IInv, TypeOK
    <3> QED BY <3>2, <3>3, <3>4
  <2>4. CASE ~Refuses(status.active)
    <3> DEFINE step == IF Replaces(status.active) THEN "delete" ELSE "payload"
    <3>1. /\ \A p \in Requests \ {q} : req'[p] = req[p]
          /\ req'[q] = [req[q] EXCEPT !.active = status.active, !.pc = step]
          /\ req[q] \in Request /\ req[q].pc = "lookup"
      BY <1>3, <2>4 DEF Lookup, IInv, TypeOK
    <3>2. /\ req'[q].pc = step /\ req'[q].defects = {} /\ req'[q].active = status.active
          /\ req'[q].name = None /\ req'[q].code = 0
      BY <1>1, <2>1, <3>1 DEF Request
    <3>3. step \in {"delete", "payload"} /\ (step = "delete" => status.active # None)
      BY DEF Replaces
    <3>4. RequestInv'
      <4>1. \A p \in Requests \ {q} : RequestOK(p)'
        BY <3>1, RequestFrame DEF IInv, RequestInv, Lookup
      <4>2. RequestOK(q)'
        BY <3>2, <3>3 DEF RequestOK, Serving
      <4> QED BY <4>1, <4>2 DEF RequestInv
    <3>5. RunInv'
      BY <1>1, <3>1, <3>2, RunFrame DEF IInv, Lookup
    <3>6. TurnInv'
      <4>1. SUFFICES ASSUME ~raced' PROVE TurnInv'
        BY DEF TurnInv
      <4>2. /\ ~raced /\ policy # "Allow" /\ StatusNames(Underway(runs))
            /\ \A p \in Requests \ {q} : req[p].pc \notin Serving
        BY <2>2, <4>1
      <4>3. \A p \in Requests : req'[p].pc \in Serving => p = q
        BY <3>1, <4>2
      <4>4. \A m, n \in Underway(runs) : m = n
        BY <4>2 DEF IInv, TurnInv
      <4>5. None \notin Underway(runs) /\ Newest(Underway(runs), runs) \subseteq Underway(runs)
        BY DEF Underway, Existing, Newest, Names, None
      <4>6. CASE step = "delete"
        <5>1. status.active # None
          BY <3>3, <4>6
        <5>2. Underway(runs) \subseteq {status.active}
          BY <4>2, <4>4, <4>5, <5>1 DEF StatusNames
        <5> QED BY <3>2, <4>3, <4>4, <4>6, <5>2 DEF Lookup, TurnInv, Serving
      <4>7. CASE step = "payload"
        <5>1. policy \in {"Forbid", "Replace"}
          BY <4>2, TriggerAssumption DEF IInv, TypeOK
        <5>2. status.active = None
          BY <2>4, <4>7, <5>1 DEF Refuses, Replaces
        <5>3. Underway(runs) = {}
          BY <4>2, <4>5, <5>2 DEF StatusNames
        <5> QED BY <3>2, <4>3, <4>7, <5>3 DEF Lookup, TurnInv
      <4> QED BY <3>3, <4>6, <4>7
    <3> QED BY <3>4, <3>5, <3>6
  <2> QED BY <2>3, <2>4
<1> QED BY <1>2, <1>3

LEMMA DeleteRunInv ==
  ASSUME IInv, NEW q \in Requests, DeleteRun(q)
  PROVE  (RequestInv /\ RunInv /\ TurnInv)'
<1>1. /\ \A p \in Requests \ {q} : req'[p] = req[p]
      /\ req'[q] = [req[q] EXCEPT !.pc = "payload"]
      /\ req[q] \in Request /\ req[q].pc = "delete"
  BY DEF DeleteRun, IInv, TypeOK
<1>2. /\ req'[q].pc = "payload" /\ req'[q].defects = req[q].defects
      /\ req'[q].name = req[q].name /\ req'[q].code = req[q].code
  BY <1>1 DEF Request
<1>3. /\ Underway(runs') = Underway(runs) \ {req[q].active}
      /\ \A n \in Names : runs'[n] # NoRun => runs[n] # NoRun
  BY DeleteFacts DEF DeleteRun, IInv
<1>4. RequestInv'
  <2>1. \A p \in Requests \ {q} : RequestOK(p)'
    BY <1>1, RequestFrame DEF IInv, RequestInv, DeleteRun
  <2>2. RequestOK(q)'
    BY <1>1, <1>2 DEF IInv, RequestInv, RequestOK, Serving
  <2> QED BY <2>1, <2>2 DEF RequestInv
<1>5. RunInv'
  BY <1>1, <1>2, <1>3, RunFrame DEF IInv, DeleteRun
<1>6. TurnInv'
  <2>1. SUFFICES ASSUME ~raced' PROVE TurnInv'
    BY DEF TurnInv
  <2>2. ~raced /\ \A p \in Requests : req[p].pc \in Serving => p = q
    BY <1>1, <2>1 DEF IInv, TurnInv, Serving, DeleteRun
  <2>3. Underway(runs') = {}
    BY <1>1, <1>3, <2>2 DEF IInv, TurnInv
  <2>4. \A p \in Requests : req'[p].pc \in Serving => p = q
    BY <1>1, <2>2
  <2> QED BY <1>2, <2>3, <2>4 DEF TurnInv
<1> QED BY <1>4, <1>5, <1>6

(* A request that is done holds no turn. *)
LEMMA DoneTurns ==
  ASSUME TurnInv, NEW q \in Requests, req'[q].pc = "done", raced' = raced,
         req[q].pc = "create", NEW n, Underway(runs') \subseteq Underway(runs) \cup {n},
         \A p \in Requests \ {q} : req'[p] = req[p]
  PROVE  TurnInv'
<1>1. SUFFICES ASSUME ~raced' PROVE TurnInv'
  BY DEF TurnInv
<1>2. Underway(runs) = {} /\ \A p \in Requests \ {q} : req[p].pc \notin Serving
  BY <1>1 DEF TurnInv, Serving
<1>3. \A p \in Requests : req'[p].pc \notin Serving
  BY <1>2 DEF Serving
<1> QED BY <1>2, <1>3 DEF TurnInv, Serving

(* The Run of a request that has its payload. *)
LEMMA StartInv ==
  ASSUME IInv, NEW q \in Requests, req[q].pc = "create", StartRun(req[q].name),
         NEW c \in Answers, Answer(q, c), UNCHANGED <<payloads, raced>>
  PROVE  (RequestInv /\ RunInv /\ TurnInv)'
<1> DEFINE n == req[q].name
<1>1. n \in Names /\ req[q].defects = {} /\ (InjectPayload => payloads[n] # NoBody)
  BY DEF IInv, RequestInv, RequestOK, Serving, TypeOK, Request
<1>2. /\ \A p \in Requests \ {q} : req'[p] = req[p]
      /\ req'[q].pc = "done" /\ req'[q].code = c
      /\ req'[q].name = n /\ req'[q].defects = req[q].defects
  BY AnswerFacts DEF IInv
<1>3. /\ Underway(runs') \subseteq Underway(runs) \cup {n}
      /\ \A m \in Names \ {n} : fired'[m] = fired[m] /\ runs'[m] = runs[m]
      /\ runs[n] # NoRun => fired'[n] = fired[n]
      /\ runs[n] = NoRun => fired'[n] > 0
      /\ \A m \in Names : fired[m] > 0 => fired'[m] > 0
  BY <1>1, StartFacts DEF IInv
<1>4. fired'[n] > 0
  BY <1>1, <1>3 DEF IInv, RunInv
<1> HIDE DEF n
<1>5. RequestInv'
  <2>1. \A p \in Requests \ {q} : RequestOK(p)'
    BY <1>2, <1>3, RequestFrame DEF IInv, RequestInv
  <2>2. RequestOK(q)'
    <3>1. n # None
      BY <1>1 DEF Names, None
    <3> QED BY <1>1, <1>2, <1>4, <3>1 DEF RequestOK, Serving
  <2> QED BY <2>1, <2>2 DEF RequestInv
<1>6. RunInv'
  <2> SUFFICES ASSUME NEW m \in Names
               PROVE  /\ runs'[m] # NoRun => fired'[m] > 0 /\ (InjectPayload => payloads'[m] # NoBody)
                      /\ fired'[m] > 0 => \E p \in Requests : req'[p].name = m
                      /\ payloads'[m] # NoBody => req'[payloads'[m]].name = m
    BY DEF RunInv
  <2>1. \A p \in Requests : req'[p].name = req[p].name
    BY <1>2 DEF n
  <2>2. payloads[m] # NoBody => payloads[m] \in Requests
    BY DEF IInv, TypeOK
  <2>3. CASE m = n
    BY <1>1, <1>2, <1>4, <2>1, <2>2, <2>3 DEF IInv, RunInv
  <2>4. CASE m # n
    BY <1>3, <2>1, <2>2, <2>4 DEF IInv, RunInv
  <2> QED BY <2>3, <2>4
<1>7. TurnInv'
  BY <1>2, <1>3, DoneTurns DEF IInv
<1> QED BY <1>5, <1>6, <1>7

(* Naming a Run and storing its payload. *)
LEMMA CreatePayloadInv ==
  ASSUME IInv, NEW q \in Requests, CreatePayload(q) \/ PayloadError(q)
  PROVE  (RequestInv /\ RunInv /\ TurnInv)'
<1> DEFINE n == RunName
<1>1. n \in Names /\ n # None
  BY DEF IInv, TypeOK, RunName, Names, None
<1>2. /\ req[q] \in Request /\ req[q].pc = "payload" /\ req[q].defects = {} /\ req[q].name = None
      /\ UNCHANGED <<runs, fired, raced>>
  BY DEF CreatePayload, PayloadError, IInv, RequestInv, RequestOK, Serving, TypeOK
<1>3. /\ \A p \in Requests \ {q} : req'[p] = req[p]
      /\ req'[q].name = n /\ req'[q].defects = {}
      /\ \/ req'[q].pc = "create" /\ req'[q].code = 0 /\ StorePayload(q, n)
         \/ req'[q].pc = "done" /\ req'[q].code = 500
  <2>1. CASE CreatePayload(q)
    <3>1. /\ \A p \in Requests \ {q} : req'[p] = req[p]
          /\ req'[q] = [req[q] EXCEPT !.name = n, !.pc = "create"]
      BY <2>1 DEF CreatePayload, IInv, TypeOK
    <3>2. req[q].code = 0
      BY <1>2 DEF IInv, RequestInv, RequestOK
    <3>3. StorePayload(q, n)
      BY <2>1 DEF CreatePayload
    <3> HIDE DEF n
    <3>4. /\ req'[q].name = n /\ req'[q].defects = {}
          /\ req'[q].pc = "create" /\ req'[q].code = 0
      BY <1>2, <3>1, <3>2 DEF Request
    <3> QED BY <3>1, <3>3, <3>4
  <2>2. CASE PayloadError(q)
    <3>1. /\ \A p \in Requests \ {q} : req'[p] = req[p]
          /\ req'[q] = [req[q] EXCEPT !.name = n, !.pc = "done", !.code = 500]
      BY <2>2 DEF PayloadError, IInv, TypeOK
    <3> QED BY <1>2, <3>1 DEF Request
  <2> QED BY <2>1, <2>2
<1>4. /\ \A m \in Names \ {n} : payloads'[m] = payloads[m]
      /\ payloads'[n] \in {q, payloads[n]}
      /\ payloads[n] # NoBody => payloads'[n] = payloads[n]
      /\ StorePayload(q, n) /\ InjectPayload => payloads'[n] # NoBody
  <2>1. CASE StorePayload(q, n)
    BY <1>1, <2>1, StoreFacts DEF IInv
  <2>2. CASE UNCHANGED payloads /\ ~StorePayload(q, n)
    BY <2>2
  <2> QED BY <2>1, <2>2 DEF CreatePayload, PayloadError
<1> HIDE DEF n
<1>5. RequestInv'
  <2>1. \A p \in Requests \ {q} : RequestOK(p)'
    BY <1>2, <1>3, <1>4, RequestFrame DEF IInv, RequestInv
  <2>2. RequestOK(q)'
    BY <1>1, <1>3, <1>4 DEF RequestOK, Serving
  <2> QED BY <2>1, <2>2 DEF RequestInv
<1>6. RunInv'
  <2> SUFFICES ASSUME NEW m \in Names
               PROVE  /\ runs'[m] # NoRun => fired'[m] > 0 /\ (InjectPayload => payloads'[m] # NoBody)
                      /\ fired'[m] > 0 => \E p \in Requests : req'[p].name = m
                      /\ payloads'[m] # NoBody => req'[payloads'[m]].name = m
    BY DEF RunInv
  <2>1. m # None /\ (payloads[m] # NoBody => payloads[m] \in Requests)
    BY DEF IInv, TypeOK, Names, None
  <2>2. \A p \in Requests : req[p].name # None => req'[p].name = req[p].name
    BY <1>2, <1>3
  <2>3. payloads[m] # NoBody => req'[payloads[m]].name = m /\ payloads'[m] = payloads[m]
    BY <1>4, <2>1, <2>2 DEF IInv, RunInv
  <2>4. payloads[m] = NoBody /\ payloads'[m] # NoBody => m = n /\ payloads'[m] = q
    BY <1>4
  <2> QED BY <1>2, <1>3, <2>1, <2>2, <2>3, <2>4 DEF IInv, RunInv
<1>7. TurnInv'
  BY <1>2, <1>3 DEF IInv, TurnInv, Serving
<1> QED BY <1>5, <1>6, <1>7

(* Every step keeps the invariant. *)
LEMMA NextInv == IInv /\ [Next]_vars => IInv'
<1> SUFFICES ASSUME IInv, [Next]_vars PROVE (RequestInv /\ RunInv /\ TurnInv)'
  BY TypeNext DEF IInv
<1>1. {401, 500, Lost} \subseteq Answers \ {202} /\ 202 \in Answers
  BY DEF Answers, Codes, Lost
<1>2. \A q \in Requests : req[q].pc # "done" => req[q].code = 0
  BY DEF IInv, RequestInv, RequestOK
<1>3. ASSUME NEW q \in Requests, LookupError(q) \/ Abandon(q)
      PROVE  (RequestInv /\ RunInv /\ TurnInv)'
  BY <1>1, <1>2, <1>3, RefusedInv DEF LookupError, Abandon
<1>4. ASSUME NEW q \in Requests, DeleteError(q)
      PROVE  (RequestInv /\ RunInv /\ TurnInv)'
  <2>1. /\ Underway(runs') \subseteq Underway(runs)
        /\ \A n \in Names : runs'[n] # NoRun => runs[n] # NoRun
    BY <1>4, DeleteFacts DEF DeleteError, IInv
  <2> QED BY <1>1, <1>2, <1>4, <2>1, RefusedInv DEF DeleteError
<1>5. ASSUME NEW q \in Requests, CreateRun(q)
      PROVE  (RequestInv /\ RunInv /\ TurnInv)'
  BY <1>1, <1>5, StartInv DEF CreateRun
<1>6. ASSUME NEW q \in Requests, CreateError(q)
      PROVE  (RequestInv /\ RunInv /\ TurnInv)'
  <2>1. CASE StartRun(req[q].name)
    BY <1>1, <1>6, <2>1, StartInv DEF CreateError
  <2>2. CASE UNCHANGED <<runs, fired>>
    BY <1>1, <1>2, <1>6, <2>2, RefusedInv DEF CreateError
  <2> QED BY <1>6, <2>1, <2>2 DEF CreateError
<1>7. ASSUME NEW n \in Names, RunEnds(n) \/ RunFails(n) \/ RunRevives(n)
      PROVE  (RequestInv /\ RunInv /\ TurnInv)'
  <2>1. \A m \in Names : m # n => runs'[m] = runs[m]
    BY <1>7 DEF RunEnds, RunFails, RunRevives, IInv, TypeOK
  <2>2. n \in Underway(runs)
    BY <1>7 DEF RunEnds, RunFails, RunRevives, Underway, InFlight, IsRunTerminal
  <2>3. /\ Underway(runs') \subseteq Underway(runs)
        /\ \A m \in Names : runs'[m] # NoRun => runs[m] # NoRun
    BY <2>1, <2>2 DEF Underway, Existing
  <2>4. UNCHANGED <<payloads, req, fired, raced>>
    BY <1>7 DEF RunEnds, RunFails, RunRevives, listenerVars
  <2>5. RequestInv'
    BY <2>4, RequestFrame DEF IInv, RequestInv
  <2>6. RunInv'
    BY <2>3, <2>4, RunFrame DEF IInv
  <2>7. TurnInv'
    BY <2>3, <2>4, TurnFrame DEF IInv
  <2> QED BY <2>5, <2>6, <2>7
<1>8. CASE UNCHANGED <<runs, payloads, req, fired, raced>>
  <2>1. RequestInv'
    BY <1>8, RequestFrame DEF IInv, RequestInv
  <2>2. RunInv'
    BY <1>8, RunFrame DEF IInv
  <2>3. TurnInv'
    BY <1>8, TurnFrame DEF IInv
  <2> QED BY <2>1, <2>2, <2>3
<1>9. CASE Controller
  BY <1>8, <1>9 DEF Controller, Begin, Update, UpdateError, listenerVars
<1>10. CASE EditPolicy \/ SyncTrigger \/ TimerFires \/ Tick \/ Crash \/ \E n \in Names : SyncRun(n)
  BY <1>8, <1>10 DEF EditPolicy, SyncTrigger, TimerFires, Tick, Crash, SyncRun, listenerVars
<1>11. CASE UNCHANGED vars
  BY <1>8, <1>11 DEF vars, listenerVars
<1> QED
  BY <1>3, <1>4, <1>5, <1>6, <1>7, <1>9, <1>10, <1>11, ArriveInv, LookupInv, DeleteRunInv,
     CreatePayloadInv DEF Next, ServeHTTP, Environment

(* The invariant holds of every behaviour. *)
THEOREM InvHolds == Spec => []IInv
<1>1. Init => IInv
  BY InitInv
<1>2. IInv /\ [Next]_vars => IInv'
  BY NextInv
<1> QED BY <1>1, <1>2, PTL DEF Spec

-----------------------------------------------------------------------------
(* What the listener guarantees. *)

(* Every variable keeps to its type: what the controller computes from its
   copies is a status, and no request is answered with anything but the
   listener's codes. *)
THEOREM TypeCorrect == Spec => []TypeOK
<1>1. IInv => TypeOK
  BY DEF IInv
<1> QED BY <1>1, InvHolds, PTL

(* Pods never wait for a payload that was not stored: createRun stores the
   ConfigMap before the Run, whatever fails or is killed on the way. *)
THEOREM PayloadBeforeRunHolds == Spec => []PayloadBeforeRun
<1>1. IInv => PayloadBeforeRun
  BY DEF IInv, RunInv, PayloadBeforeRun, Existing
<1> QED BY <1>1, InvHolds, PTL

(* Nothing is fired or stored for a request that ServeHTTP refuses: each Run
   and each payload goes back to a request that has passed every check. *)
THEOREM OnlyVerifiedRequestsFireHolds == Spec => []OnlyVerifiedRequestsFire
<1>1. ASSUME IInv PROVE OnlyVerifiedRequestsFire
  <2>1. \A n \in Names : n # None
    BY TriggerAssumption DEF Names, None
  <2>2. \A q \in Requests : req[q].name # None => req[q].defects = {}
    BY <1>1 DEF IInv, RequestInv, RequestOK
  <2>3. \A n \in Names : payloads[n] # NoBody => payloads[n] \in Requests
    BY <1>1 DEF IInv, TypeOK
  <2> QED BY <1>1, <2>1, <2>2, <2>3 DEF IInv, RunInv, OnlyVerifiedRequestsFire
<1>2. IInv => OnlyVerifiedRequestsFire
  BY <1>1
<1> QED BY <1>2, InvHolds, PTL

(* A 202 is not given for an event that was dropped: its Run was created, with
   its own payload or that of a request of the same second. *)
THEOREM AcceptedEventFiredHolds == Spec => []AcceptedEventFired
<1>1. ASSUME IInv, NEW q \in Accepted
      PROVE  /\ fired[req[q].name] > 0
             /\ InjectPayload => \/ payloads[req[q].name] = q
                                \/ \E p \in Requests \ {q} :
                                     req[p].name = req[q].name /\ payloads[req[q].name] = p
  <2>1. /\ q \in Requests /\ req[q].name # None /\ fired[req[q].name] > 0
        /\ InjectPayload => payloads[req[q].name] # NoBody
    BY <1>1 DEF Accepted, IInv, RequestInv, RequestOK
  <2>2. req[q].name \in Names
    BY <1>1, <2>1 DEF IInv, TypeOK, Request
  <2>3. payloads[req[q].name] # NoBody => payloads[req[q].name] \in Requests
    BY <1>1, <2>2 DEF IInv, TypeOK
  <2> QED BY <1>1, <2>1, <2>2, <2>3 DEF IInv, RunInv
<1>2. IInv => AcceptedEventFired
  BY <1>1 DEF AcceptedEventFired
<1> QED BY <1>2, InvHolds, PTL

(* The teams of two Runs are going at once under Forbid and Replace only if a
   request was decided while another was being served, or on an ActiveRun that
   did not name the newest Run whose team may be going, a Run that is Failed
   for a missing template included: failures and kills alone never do it. *)
THEOREM OneInFlightUnlessRacedHolds == Spec => []OneInFlightUnlessRaced
<1>1. ASSUME IInv, ~raced PROVE Cardinality(Underway(runs)) <= 1
  <2>1. \A m, n \in Underway(runs) : m = n
    BY <1>1 DEF IInv, TurnInv
  <2>2. CASE Underway(runs) = {}
    BY <2>2, FS_EmptySet
  <2>3. CASE Underway(runs) # {}
    <3>1. PICK n : Underway(runs) = {n}
      BY <2>1, <2>3
    <3> QED BY <3>1, FS_Singleton
  <2> QED BY <2>2, <2>3
<1>2. IInv => OneInFlightUnlessRaced
  <2>1. IInv => raced \in BOOLEAN
    BY DEF IInv, TypeOK
  <2> QED BY <1>1, <2>1 DEF OneInFlightUnlessRaced
<1> QED BY <1>2, InvHolds, PTL

-----------------------------------------------------------------------------
(* What the controller's copies are worth: ActiveRunKept. *)

(* The Run of this name is in flight and has been all the time, and it is the
   first to have the name. *)
FirstInFlight(n) == n \in InFlight(runs) \ lapsed /\ fired[n] = 1

(* A copy is of a Run that was created, and no younger than the Run that has
   its name now; of a first Run in flight it is exact. *)
CopiesTrue ==
  /\ \A n \in Names : runs[n] # NoRun => runs[n].at <= now
  /\ \A n \in Names : cachedRuns[n] # NoRun =>
       /\ fired[n] > 0 /\ cachedRuns[n].at <= now
       /\ runs[n] # NoRun => cachedRuns[n].at <= runs[n].at
       /\ FirstInFlight(n) => cachedRuns[n] = runs[n]

(* An ActiveRun, recorded or about to be, was created and has been seen. *)
Seen(n) == n # None => /\ fired[n] > 0
                       /\ FirstInFlight(n) => cachedRuns[n] # NoRun

(* n may replace the recorded ActiveRun. *)
NoOlder(n) == n # None /\ (runs[n] # NoRun => runs[n].at >= runs[status.active].at)

KeptInv ==
  /\ CopiesTrue
  /\ Seen(status.active)
  /\ pass.on => Seen(pass.status.active)
  /\ pass.on /\ FirstInFlight(status.active) => NoOlder(pass.status.active)

(* What one step may do to the Run of a name. *)
RunChange(n) ==
  /\ lapsed \subseteq lapsed'
  /\ \/ runs'[n] = runs[n] /\ fired'[n] = fired[n]
     \/ runs'[n] = NoRun /\ fired'[n] = fired[n]
     \/ /\ runs[n] # NoRun /\ fired'[n] = fired[n]
        /\ \E p \in RunPhases : /\ p = "Ended" \/ p = "Failed" \/ n \in lapsed'
                               /\ runs'[n] = [phase |-> p, at |-> runs[n].at]
     \/ /\ runs[n] = NoRun /\ fired'[n] = IF fired[n] < MaxFired THEN fired[n] + 1 ELSE fired[n]
        /\ runs'[n] = [phase |-> "InFlight", at |-> now]

(* A step changes Runs, or copies of them, or neither; time does not go back. *)
LEMMA RunSteps ==
  ASSUME TypeOK, RequestInv, [Next]_vars
  PROVE  /\ now' >= now
         /\ \/ UNCHANGED cachedRuns /\ \A n \in Names : RunChange(n)
            \/ /\ UNCHANGED <<runs, fired, lapsed>>
               /\ \A n \in Names : cachedRuns'[n] \in {cachedRuns[n], runs[n]}
<1> USE DEF listenerVars, cacheVars, controllerVars, envVars
<1>0. now \in Int /\ (now' = now \/ now' = now + 1 => now' >= now)
  BY TriggerAssumption DEF TypeOK, Names
<1>1. ASSUME NEW q \in Requests, DeleteRun(q) \/ DeleteError(q)
      PROVE  UNCHANGED <<cachedRuns, now>> /\ \A n \in Names : RunChange(n)
  <2>1. UNCHANGED <<cachedRuns, now, fired, lapsed>> /\ (DeleteActive(q) \/ UNCHANGED runs)
    BY <1>1 DEF DeleteRun, DeleteError
  <2>2. \A n \in Names : runs'[n] \in {runs[n], NoRun}
    BY <2>1 DEF DeleteActive, TypeOK
  <2> QED BY <2>1, <2>2 DEF RunChange
<1>2. ASSUME NEW q \in Requests, CreateRun(q) \/ CreateError(q)
      PROVE  UNCHANGED <<cachedRuns, now>> /\ \A n \in Names : RunChange(n)
  <2>1. UNCHANGED <<cachedRuns, now, lapsed>> /\ (StartRun(req[q].name) \/ UNCHANGED <<runs, fired>>)
    BY <1>2 DEF CreateRun, CreateError
  <2>2. CASE StartRun(req[q].name)
    BY <2>1, <2>2 DEF StartRun, RunChange, TypeOK
  <2>3. CASE UNCHANGED <<runs, fired>>
    BY <2>1, <2>3 DEF RunChange
  <2> QED BY <2>1, <2>2, <2>3
<1>3. ASSUME NEW m \in Names, RunEnds(m) \/ RunFails(m) \/ RunRevives(m)
      PROVE  UNCHANGED <<cachedRuns, now>> /\ \A n \in Names : RunChange(n)
  <2>1. PICK p \in RunPhases :
          /\ p = "Ended" \/ p = "Failed" \/ m \in lapsed'
          /\ runs' = [runs EXCEPT ![m].phase = p]
          /\ UNCHANGED <<cachedRuns, now, fired>> /\ runs[m] # NoRun
          /\ lapsed \subseteq lapsed'
    <3>1. CASE RunEnds(m)
      BY <3>1 DEF RunEnds, Underway, Existing, RunPhases
    <3>2. CASE RunFails(m)
      BY <3>2 DEF RunFails, InFlight, Existing, RunPhases
    <3>3. CASE RunRevives(m)
      BY <3>3 DEF RunRevives, Underway, Existing, RunPhases
    <3> QED BY <1>3, <3>1, <3>2, <3>3
  <2>2. \A n \in Names \ {m} : runs'[n] = runs[n]
    BY <2>1 DEF TypeOK
  <2>3. runs[m] \in [phase : RunPhases, at : Names]
    BY <2>1 DEF TypeOK, Run
  <2>4. runs'[m] = [phase |-> p, at |-> runs[m].at]
    <3>1. runs'[m] = [runs[m] EXCEPT !.phase = p]
      BY <2>1 DEF TypeOK
    <3> QED BY <2>3, <3>1
  <2> QED BY <2>1, <2>2, <2>4 DEF RunChange
<1>4. ASSUME NEW n \in Names, SyncRun(n)
      PROVE  /\ UNCHANGED <<runs, fired, now, lapsed>>
             /\ \A k \in Names : cachedRuns'[k] \in {cachedRuns[k], runs[k]}
  BY <1>4 DEF SyncRun, TypeOK
<1>5. CASE Crash
  BY <1>5, <1>0 DEF Crash
<1>6. CASE Tick
  BY <1>6, <1>0 DEF Tick, RunChange
<1>7. CASE UNCHANGED <<runs, fired, cachedRuns, now, lapsed>>
  BY <1>7, <1>0 DEF RunChange
<1>8. ASSUME NEW q \in Requests,
             Lookup(q) \/ LookupError(q) \/ CreatePayload(q) \/ PayloadError(q) \/ Arrive(q) \/ Abandon(q)
      PROVE  UNCHANGED <<runs, fired, cachedRuns, now, lapsed>>
  BY <1>8 DEF Lookup, LookupError, CreatePayload, PayloadError, Arrive, Abandon
<1>9. CASE Controller \/ EditPolicy \/ SyncTrigger \/ TimerFires
  BY <1>7, <1>9 DEF Controller, Begin, Update, UpdateError, EditPolicy, SyncTrigger, TimerFires
<1>10. CASE UNCHANGED vars
  BY <1>7, <1>10 DEF vars
<1> QED
  BY <1>0, <1>1, <1>2, <1>3, <1>4, <1>5, <1>6, <1>7, <1>8, <1>9, <1>10
     DEF Next, ServeHTTP, Environment

(* A name that has been used stays so; who is first in flight after a step
   was so before it, unchanged; who has its name later is no older. *)
LEMMA RunFacts ==
  ASSUME TypeOK, NEW n \in Names, RunChange(n)
  PROVE  /\ fired[n] > 0 => fired'[n] > 0
         /\ fired[n] > 0 /\ FirstInFlight(n)' => FirstInFlight(n) /\ runs'[n] = runs[n]
         /\ runs'[n] # NoRun => \/ runs[n] # NoRun /\ runs'[n].at = runs[n].at
                                \/ runs'[n].at = now
<1>1. fired[n] \in 0..2
  BY DEF TypeOK, MaxFired
<1>2. /\ n \in InFlight(runs) <=> runs[n] # NoRun /\ runs[n].phase \notin {"Ended", "Failed"}
      /\ n \in InFlight(runs)' <=> runs'[n] # NoRun /\ runs'[n].phase \notin {"Ended", "Failed"}
  BY DEF InFlight, Existing, IsRunTerminal
<1>3. CASE runs'[n] = runs[n] /\ fired'[n] = fired[n]
  BY <1>1, <1>2, <1>3 DEF RunChange, FirstInFlight
<1>4. CASE runs'[n] = NoRun /\ fired'[n] = fired[n]
  BY <1>1, <1>2, <1>4 DEF RunChange, FirstInFlight
<1>5. ASSUME runs[n] # NoRun, fired'[n] = fired[n],
             NEW p \in RunPhases, p = "Ended" \/ p = "Failed" \/ n \in lapsed',
             runs'[n] = [phase |-> p, at |-> runs[n].at]
      PROVE  /\ fired'[n] = fired[n] /\ ~FirstInFlight(n)'
             /\ runs'[n].at = runs[n].at
  BY <1>2, <1>5 DEF FirstInFlight
<1>6. CASE /\ runs[n] = NoRun /\ runs'[n] = [phase |-> "InFlight", at |-> now]
           /\ fired'[n] = IF fired[n] < MaxFired THEN fired[n] + 1 ELSE fired[n]
  BY <1>1, <1>6 DEF FirstInFlight, MaxFired
<1> QED BY <1>3, <1>4, <1>5, <1>6 DEF RunChange

(* The order of the list: the Run that becomes ActiveRun was in flight in the
   cache and is as young as any that was. *)
LEMMA ActiveRunFacts ==
  ASSUME TypeOK, NEW list \in Sorted(cachedRuns)
  PROVE  LET r == ActiveRun(list, cachedRuns) IN
         /\ r # None => r \in Names /\ cachedRuns[r] # NoRun
         /\ \A n \in InFlight(cachedRuns) : r # None /\ cachedRuns[r].at >= cachedRuns[n].at
<1> DEFINE E == Existing(cachedRuns)
           k == Cardinality(E)
           flying == {i \in DOMAIN list : ~IsRunTerminal(cachedRuns[list[i]].phase)}
<1>1. IsFiniteSet(E) /\ k \in Nat
  <2>1. IsFiniteSet(Names) /\ E \subseteq Names
    BY FS_Interval, TriggerAssumption DEF Names, Existing
  <2> QED BY <2>1, FS_Subset, FS_CardinalityType
<1>2. /\ \A n \in E : n \in Names /\ cachedRuns[n] # NoRun /\ cachedRuns[n].at \in Int
      /\ InFlight(cachedRuns) \subseteq E
  BY TriggerAssumption DEF TypeOK, Existing, Run, InFlight, Names
<1>3. /\ list \in [1..k -> E] /\ DOMAIN list = 1..k
      /\ \A i, j \in 1..k : i < j => list[i] # list[j] /\ cachedRuns[list[i]].at >= cachedRuns[list[j]].at
  BY DEF Sorted
<1> HIDE DEF k, E
<1>4. \A n \in E : \E i \in 1..k : list[i] = n
  <2>1. \A i, j \in 1..k : list[i] = list[j] => i = j
    BY <1>1, <1>3
  <2>2. list \in Injection(1..k, E)
    BY <1>3, <2>1 DEF Injection, IsInjective
  <2>3. Cardinality(1..k) = k
    BY <1>1, FS_Interval
  <2>4. list \in Surjection(1..k, E)
    BY <1>1, <2>2, <2>3, FS_Injection DEF k
  <2> QED BY <2>4 DEF Surjection
<1>5. flying \in SUBSET Nat /\ flying \subseteq 1..k
  BY <1>3
<1>6. CASE flying = {}
  <2>1. InFlight(cachedRuns) = {}
    BY <1>2, <1>3, <1>4, <1>6 DEF InFlight
  <2> QED BY <1>6, <2>1 DEF ActiveRun
<1>7. CASE flying # {}
  <2>1. PICK f \in 1..k : f = FirstOf(flying) /\ f \in flying /\ \A i \in flying : f <= i
    BY <1>5, <1>7, FirstIsMember
  <2>2. ActiveRun(list, cachedRuns) = list[f]
    BY <1>7, <2>1 DEF ActiveRun
  <2>3. list[f] \in E /\ list[f] \in Names /\ cachedRuns[list[f]] # NoRun /\ list[f] # None
    <3>1. None \notin Names
      BY TriggerAssumption DEF None, Names
    <3> QED BY <1>2, <1>3, <2>1, <3>1
  <2>4. ASSUME NEW n \in InFlight(cachedRuns) PROVE cachedRuns[list[f]].at >= cachedRuns[n].at
    <3>1. PICK i \in 1..k : list[i] = n
      BY <1>2, <1>4
    <3>2. i \in flying
      BY <1>3, <3>1 DEF InFlight
    <3>3. f <= i
      BY <2>1, <3>2
    <3>4. CASE f = i
      BY <1>2, <2>3, <3>1, <3>4
    <3>5. CASE f < i
      BY <1>3, <3>1, <3>5
    <3> QED BY <3>3, <3>4, <3>5
  <2> QED BY <2>2, <2>3, <2>4
<1> QED BY <1>6, <1>7

(* The steps that write the status or begin a pass. *)
LEMMA PassSteps ==
  ASSUME TypeOK, [Next]_vars
  PROVE  \/ status' = status /\ (pass'.on => pass.on /\ pass'.status = pass.status)
         \/ Begin
         \/ Update
<1> USE DEF listenerVars, cacheVars, controllerVars, envVars
<1>1. CASE UNCHANGED <<status, pass>>
  BY <1>1
<1>2. CASE UpdateError \/ Crash
  BY <1>2 DEF UpdateError, Crash, NoPass
<1>3. CASE EditPolicy
  <2>1. status' = status /\ pass' = [pass EXCEPT !.fresh = FALSE]
    BY <1>3 DEF EditPolicy
  <2>2. pass'.on = pass.on /\ pass'.status = pass.status
    BY <2>1 DEF TypeOK
  <2> QED BY <2>1, <2>2
<1>4. ASSUME NEW q \in Requests, ServeHTTP(q) \/ Arrive(q) \/ Abandon(q)
      PROVE  UNCHANGED <<status, pass>>
  BY <1>4 DEF ServeHTTP, Lookup, LookupError, DeleteRun, DeleteError, CreatePayload, PayloadError,
              CreateRun, CreateError, Arrive, Abandon
<1>5. ASSUME NEW n \in Names, RunEnds(n) \/ RunFails(n) \/ RunRevives(n) \/ SyncRun(n)
      PROVE  UNCHANGED <<status, pass>>
  BY <1>5 DEF RunEnds, RunFails, RunRevives, SyncRun
<1>6. CASE SyncTrigger \/ TimerFires \/ Tick \/ UNCHANGED vars
  BY <1>1, <1>6 DEF SyncTrigger, TimerFires, Tick, vars
<1> QED BY <1>1, <1>2, <1>3, <1>4, <1>5, <1>6 DEF Next, Controller, Environment

(* Copies stay true, whatever is deleted, created again or delivered late. *)
LEMMA CopiesStep ==
  ASSUME IInv, CopiesTrue, [Next]_vars
  PROVE  CopiesTrue'
<1>1. TypeOK /\ RequestInv /\ RunInv
  BY DEF IInv
<1>2. now' >= now /\ now \in Int /\ now' \in Int
  <2>1. TypeOK'
    BY NextInv DEF IInv
  <2>2. now' >= now
    BY <1>1, RunSteps
  <2> QED BY <1>1, <2>1, <2>2, TriggerAssumption DEF TypeOK, Names
<1>3. \A n \in Names : /\ runs[n] # NoRun => runs[n].at \in Int
                       /\ cachedRuns[n] # NoRun => cachedRuns[n].at \in Int
  BY <1>1, TriggerAssumption DEF TypeOK, Run, Names
<1>4. CASE UNCHANGED cachedRuns /\ \A n \in Names : RunChange(n)
  <2>1. ASSUME NEW n \in Names, runs'[n] # NoRun PROVE runs'[n].at <= now'
    BY <1>1, <1>2, <1>3, <1>4, <2>1, RunFacts DEF CopiesTrue
  <2>2. ASSUME NEW n \in Names, cachedRuns[n] # NoRun
        PROVE  /\ fired'[n] > 0 /\ cachedRuns[n].at <= now'
               /\ runs'[n] # NoRun => cachedRuns[n].at <= runs'[n].at
               /\ FirstInFlight(n)' => cachedRuns[n] = runs'[n]
    <3>1. /\ fired[n] > 0 /\ cachedRuns[n].at <= now
          /\ runs[n] # NoRun => cachedRuns[n].at <= runs[n].at
          /\ FirstInFlight(n) => cachedRuns[n] = runs[n]
      BY <2>2 DEF CopiesTrue
    <3>2. /\ fired'[n] > 0
          /\ FirstInFlight(n)' => FirstInFlight(n) /\ runs'[n] = runs[n]
          /\ runs'[n] # NoRun => \/ runs[n] # NoRun /\ runs'[n].at = runs[n].at
                                 \/ runs'[n].at = now
      BY <1>1, <1>4, <3>1, RunFacts
    <3> QED BY <1>2, <1>3, <2>2, <3>1, <3>2
  <2> QED BY <1>4, <2>1, <2>2 DEF CopiesTrue
<1>5. CASE UNCHANGED <<runs, fired, lapsed>> /\ \A n \in Names : cachedRuns'[n] \in {cachedRuns[n], runs[n]}
  <2>1. \A n \in Names : runs[n] # NoRun => runs[n].at <= now'
    BY <1>2, <1>3 DEF CopiesTrue
  <2>2. ASSUME NEW n \in Names, cachedRuns'[n] # NoRun
        PROVE  /\ fired[n] > 0 /\ cachedRuns'[n].at <= now'
               /\ runs[n] # NoRun => cachedRuns'[n].at <= runs[n].at
               /\ FirstInFlight(n) => cachedRuns'[n] = runs[n]
    <3>1. CASE cachedRuns'[n] = cachedRuns[n]
      BY <1>2, <1>3, <2>2, <3>1 DEF CopiesTrue
    <3>2. CASE cachedRuns'[n] = runs[n]
      BY <1>1, <1>3, <2>1, <2>2, <3>2 DEF RunInv
    <3> QED BY <1>5, <3>1, <3>2
  <2> QED BY <1>5, <2>1, <2>2 DEF CopiesTrue, FirstInFlight
<1> QED BY <1>1, <1>4, <1>5, RunSteps

(* A Run that was seen stays seen as long as it is the first in flight. *)
LEMMA SeenStep ==
  ASSUME IInv, [Next]_vars, NEW n \in Names \cup {None}, Seen(n)
  PROVE  Seen(n)'
<1>1. TypeOK /\ RequestInv
  BY DEF IInv
<1> SUFFICES ASSUME n # None
             PROVE  fired'[n] > 0 /\ (FirstInFlight(n)' => cachedRuns'[n] # NoRun)
  BY DEF Seen
<1>2. n \in Names /\ fired[n] > 0 /\ (FirstInFlight(n) => cachedRuns[n] # NoRun)
  BY DEF Seen
<1>3. CASE UNCHANGED cachedRuns /\ \A k \in Names : RunChange(k)
  BY <1>1, <1>2, <1>3, RunFacts
<1>4. CASE UNCHANGED <<runs, fired, lapsed>> /\ \A k \in Names : cachedRuns'[k] \in {cachedRuns[k], runs[k]}
  <2>1. FirstInFlight(n)' => FirstInFlight(n)
    BY <1>4 DEF FirstInFlight
  <2>2. FirstInFlight(n) => runs[n] # NoRun
    BY DEF FirstInFlight, InFlight, Existing
  <2> QED BY <1>2, <1>4, <2>1, <2>2
<1> QED BY <1>1, <1>3, <1>4, RunSteps

(* The recorded ActiveRun, if it is first in flight after a step that does not
   write the status, was so before, and who is no older stays no older. *)
LEMMA NoOlderStep ==
  ASSUME IInv, CopiesTrue, Seen(status.active), [Next]_vars, status' = status,
         FirstInFlight(status.active)'
  PROVE  /\ FirstInFlight(status.active)
         /\ \A n \in Names \cup {None} : NoOlder(n) => NoOlder(n)'
<1> DEFINE a == status.active
<1>1. TypeOK /\ RequestInv
  BY DEF IInv
<1>2. a \in Names /\ a # None
  BY TriggerAssumption DEF FirstInFlight, InFlight, Existing, None, Names
<1>3. fired[a] > 0
  BY <1>2 DEF Seen
<1>4. \A n \in Names : runs[n] # NoRun => runs[n].at \in Int /\ runs[n].at <= now
  BY <1>1, TriggerAssumption DEF TypeOK, Run, Names, CopiesTrue
<1>5. now \in Int
  BY <1>1, TriggerAssumption DEF TypeOK, Names
<1>6. FirstInFlight(a) /\ runs[a] # NoRun
  <2>1. FirstInFlight(a)
    <3>1. CASE \A n \in Names : RunChange(n)
      BY <1>1, <1>2, <1>3, <3>1, RunFacts
    <3>2. CASE UNCHANGED <<runs, fired, lapsed>>
      BY <3>2 DEF FirstInFlight
    <3> QED BY <1>1, <3>1, <3>2, RunSteps
  <2> QED BY <2>1 DEF FirstInFlight, InFlight, Existing
<1>7. CASE \A n \in Names : RunChange(n)
  <2>1. runs'[a] = runs[a]
    BY <1>1, <1>2, <1>3, <1>7, RunFacts
  <2> HIDE DEF a
  <2>2. ASSUME NEW n \in Names, runs'[n] # NoRun, runs[n] # NoRun => runs[n].at >= runs[a].at
        PROVE  runs'[n].at >= runs[a].at
    BY <1>1, <1>2, <1>4, <1>5, <1>6, <1>7, <2>2, RunFacts
  <2>3. ASSUME NEW n \in Names \cup {None}, n # None, runs[n] # NoRun => runs[n].at >= runs[a].at
        PROVE  runs'[n] # NoRun => runs'[n].at >= runs'[a].at
    BY <2>1, <2>2, <2>3
  <2> QED BY <1>6, <2>3 DEF NoOlder, a
<1>8. CASE UNCHANGED <<runs, fired, lapsed>>
  BY <1>6, <1>8 DEF NoOlder
<1> QED BY <1>1, <1>7, <1>8, RunSteps

(* A pass that begins proposes a Run it has seen, and none that is older than
   the recorded ActiveRun if that one is still in flight. *)
LEMMA BeginKept ==
  ASSUME IInv, KeptInv, Begin
  PROVE  KeptInv'
<1> USE DEF listenerVars, cacheVars, envVars
<1>1. TypeOK /\ CopiesTrue
  BY DEF IInv, KeptInv
<1>2. UNCHANGED <<status, runs, fired, cachedRuns, now, lapsed>>
  BY DEF Begin
<1>3. PICK list \in Sorted(cachedRuns) : pass'.status.active = ActiveRun(list, cachedRuns)
  BY DEF Begin
<1> DEFINE r == ActiveRun(list, cachedRuns)
           a == status.active
<1>4. /\ r # None => r \in Names /\ cachedRuns[r] # NoRun
      /\ \A n \in InFlight(cachedRuns) : r # None /\ cachedRuns[r].at >= cachedRuns[n].at
  BY <1>1, ActiveRunFacts
<1> HIDE DEF r
<1>5. CopiesTrue' /\ Seen(a)'
  BY <1>2 DEF KeptInv, CopiesTrue, Seen, FirstInFlight
<1>6. Seen(r)
  BY <1>1, <1>4 DEF CopiesTrue, Seen
<1>7. ASSUME FirstInFlight(a) PROVE NoOlder(r)
  <2>1. a \in Names /\ a # None /\ runs[a] # NoRun /\ ~IsRunTerminal(runs[a].phase)
    BY <1>7, TriggerAssumption DEF FirstInFlight, InFlight, Existing, None, Names
  <2>2. cachedRuns[a] # NoRun /\ cachedRuns[a] = runs[a]
    BY <1>1, <1>7, <2>1 DEF KeptInv, Seen, CopiesTrue
  <2>3. a \in InFlight(cachedRuns)
    BY <2>1, <2>2 DEF InFlight, Existing
  <2>4. r \in Names /\ r # None /\ cachedRuns[r] # NoRun /\ cachedRuns[r].at >= runs[a].at
    BY <1>4, <2>2, <2>3
  <2>5. runs[r] # NoRun => /\ cachedRuns[r].at <= runs[r].at
                           /\ {runs[r].at, cachedRuns[r].at, runs[a].at} \subseteq Int
    <3>1. \A n \in Names : /\ runs[n] # NoRun => runs[n].at \in Int
                           /\ cachedRuns[n] # NoRun => cachedRuns[n].at \in Int
      BY <1>1, TriggerAssumption DEF TypeOK, Run, Names
    <3> QED BY <1>1, <2>1, <2>4, <3>1 DEF CopiesTrue
  <2> QED BY <2>4, <2>5 DEF NoOlder
<1>8. Seen(pass.status.active)' /\ (FirstInFlight(status.active)' => NoOlder(pass.status.active)')
  BY <1>2, <1>3, <1>6, <1>7 DEF r, Seen, FirstInFlight, NoOlder
<1> QED BY <1>2, <1>5, <1>8 DEF KeptInv

LEMMA KeptInit == Init => KeptInv
<1> SUFFICES ASSUME Init PROVE KeptInv
  OBVIOUS
<1>1. \A n \in Names : runs[n] = NoRun /\ cachedRuns[n] = NoRun
  BY DEF Init
<1>2. status.active = None /\ pass.on = FALSE
  BY DEF Init, NewStatus, NoPass
<1> QED BY <1>1, <1>2 DEF KeptInv, CopiesTrue, Seen

LEMMA KeptStep == IInv /\ KeptInv /\ [Next]_vars => KeptInv'
<1> SUFFICES ASSUME IInv, KeptInv, [Next]_vars PROVE KeptInv'
  OBVIOUS
<1>1. /\ TypeOK /\ CopiesTrue /\ Seen(status.active)
      /\ status.active \in Names \cup {None} /\ pass.status.active \in Names \cup {None}
  BY DEF IInv, KeptInv, TypeOK, TriggerStatus
<1>2. CopiesTrue'
  BY <1>1, CopiesStep
<1>3. CASE status' = status /\ (pass'.on => pass.on /\ pass'.status = pass.status)
  <2>1. Seen(status.active)'
    <3>1. PICK n \in Names \cup {None} : n = status.active
      BY <1>1
    <3>2. Seen(n)'
      BY <1>1, <3>1, SeenStep
    <3> QED BY <1>3, <3>1, <3>2 DEF Seen, FirstInFlight
  <2>2. ASSUME pass'.on
        PROVE  /\ Seen(pass.status.active)'
               /\ FirstInFlight(status.active)' => NoOlder(pass.status.active)'
    <3>1. pass.on /\ pass'.status = pass.status
      BY <1>3, <2>2
    <3>2. PICK n \in Names \cup {None} : n = pass.status.active
      BY <1>1
    <3>3. Seen(n) /\ (FirstInFlight(status.active) => NoOlder(n))
      BY <3>1, <3>2 DEF KeptInv
    <3>4. Seen(n)'
      BY <3>3, SeenStep
    <3>5. FirstInFlight(status.active)' => NoOlder(n)'
      BY <1>1, <1>3, <3>3, NoOlderStep
    <3>6. Seen(pass.status.active)'
      BY <3>1, <3>2, <3>4 DEF Seen, FirstInFlight
    <3> QED BY <3>1, <3>2, <3>5, <3>6 DEF NoOlder
  <2> QED BY <1>2, <2>1, <2>2 DEF KeptInv
<1>4. CASE Begin
  BY <1>4, BeginKept
<1>5. CASE Update
  <2>1. pass.on /\ status' = pass.status /\ pass'.on = FALSE
    BY <1>5 DEF Update, NoPass
  <2>2. Seen(status.active)'
    <3>1. PICK n \in Names \cup {None} : n = pass.status.active
      BY <1>1
    <3>2. Seen(n)'
      BY <2>1, <3>1, SeenStep DEF KeptInv
    <3> QED BY <2>1, <3>1, <3>2 DEF Seen, FirstInFlight
  <2> QED BY <1>2, <2>1, <2>2 DEF KeptInv
<1> QED BY <1>1, <1>3, <1>4, <1>5, PassSteps

(* Copies are true of first Runs in flight, always. *)
THEOREM KeptAlways == Spec => []KeptInv
BY InvHolds, KeptInit, KeptStep, PTL DEF Spec

(* Forbid never forgets a Run it knew of that has been in flight all the time:
   a recorded ActiveRun is kept and yields only to one that is no older,
   however far the manager's caches are behind. A Run that was Failed for a
   missing template and has come back is left out: a copy of its Failed may
   still be in the cache. *)
THEOREM ActiveRunKeptHolds == Spec => ActiveRunKept
<1> DEFINE A == status.active \in InFlight(runs) \ lapsed /\ fired[status.active] = 1 =>
                  Yields(status.active)
<1>1. IInv /\ KeptInv /\ [Next]_vars => [A]_vars
  <2> SUFFICES ASSUME IInv, KeptInv, Next PROVE A
    BY DEF vars
  <2>1. TypeOK /\ [Next]_vars
    BY DEF IInv
  <2>2. CASE status' = status
    BY <2>2 DEF Yields
  <2>3. CASE Update
    BY <2>3 DEF Update, KeptInv, FirstInFlight, NoOlder, Yields
  <2>4. CASE Begin
    BY <2>2, <2>4 DEF Begin
  <2> QED BY <2>1, <2>2, <2>3, <2>4, PassSteps
<1> QED BY <1>1, InvHolds, KeptAlways, PTL DEF ActiveRunKept, Spec
=============================================================================
