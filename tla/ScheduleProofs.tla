--------------------------- MODULE ScheduleProofs ----------------------------
(***************************************************************************)
(* Schedules: proofs of TypeOK, FiresOncePerWindow, NoOrphanRuns,          *)
(* HistorySorted, ActiveRunIsNewest, FirePointerAdvances and, as long as   *)
(* no template is deleted, GCNeverInFlight.  A pass works on a copy of the *)
(* status that may be from before the last fire: what it creates is new    *)
(* only if the API server's fire pointer is still on that window, because  *)
(* the pointer moves on when a created Run is recorded, and a Run that     *)
(* exists is deleted only once every copy of the pointer is past it.       *)
(***************************************************************************)
EXTENDS Schedule, FiniteSetTheorems, SequenceTheorems, WellFoundedInduction, TLAPS

-----------------------------------------------------------------------------
(* The inductive invariant, in parts. *)

Started == pc # "idle"

(* Copies with the current resource version are the object. *)
CopiesCurrent ==
  /\ schedFresh => cachedSched = sched
  /\ localFresh => schedFresh /\ Started
  /\ at <= now
  /\ runPass = NoPass \/ runPass.window \in Fires

(* What every copy of the status is like. *)
Sorted(s) == \A i, j \in DOMAIN s : i < j => s[i].window < s[j].window
GoodHistory(st) ==
  /\ Sorted(st.runs)
  /\ \A i \in DOMAIN st.runs : st.runs[i].window <= st.last
  /\ IF st.next = NotYet THEN st.last = NotYet /\ st.runs = <<>> ELSE st.last < st.next
  /\ st.active # NotYet =>
       /\ st.active = st.last
       /\ \E i \in DOMAIN st.runs : st.runs[i].window = st.active /\ ~IsTerminalEntry(st.runs[i])
GoodHistories == GoodHistory(sched) /\ GoodHistory(cachedSched) /\ GoodHistory(local)

(* A terminal entry comes from the cache, which has the Run while it exists. *)
EndWasSeen(st) ==
  \A i \in DOMAIN st.runs :
    IsTerminalEntry(st.runs[i]) /\ runs[st.runs[i].window] # "Absent"
      => cachedRuns[st.runs[i].window] # "Absent"
EndsWereSeen == EndWasSeen(sched) /\ EndWasSeen(cachedSched) /\ EndWasSeen(local)

(* The cached fire pointer is behind only when the window there has fired. *)
PointerLags ==
  /\ cachedSched.next <= sched.next
  /\ cachedSched.next = sched.next \/ cachedSched.next = NotYet \/ created[cachedSched.next] = 1

(* Runs come from one creation; the pointer is past those that are gone. *)
CreatedOnce ==
  \A w \in Fires :
    /\ created[w] <= 1
    /\ created[w] = 0 => runs[w] = "Absent" /\ cachedRuns[w] = "Absent"
    /\ created[w] = 1 /\ runs[w] = "Absent" =>
         w < cachedSched.next /\ (pc = "fire" => w # local.next)

(* What a pass knows, whatever has happened since it has begun. *)
PassBehind ==
  /\ pc \in {"idle", "fire", "refresh"} => idx = 1
  /\ pc = "fire" =>
       /\ local.next # NotYet /\ local.next <= at /\ local.next <= cachedSched.next
       /\ local.next = sched.next \/ created[local.next] = 1
  /\ pc \in {"refresh", "gc", "update"} =>
       \A i \in DOMAIN local.runs :
         local.runs[i].window < cachedSched.next \/ local.runs[i].window = local.last

(* What a pass whose copy is current has done to it. *)
Unfired == local.last = sched.last /\ local.next = sched.next
Seeded == sched.next = NotYet /\ local.last = NotYet
Fired ==
  /\ sched.next # NotYet /\ local.last = sched.next
  /\ sched.next <= at /\ sched.next < local.next /\ created[sched.next] = 1
PassCurrent ==
  localFresh =>
    /\ IF pc = "fire" THEN local = sched /\ sched.next # NotYet
       ELSE local.next # NotYet /\ (Unfired \/ Seeded \/ Fired)
    /\ \A w \in Fires : runs[w] # "Absent" => w \in Windows(local) \/ w = local.next

(* The loop of gcOldRuns: the Runs of the entries it is past are gone. *)
Collecting ==
  pc = "gc" =>
    /\ ToDelete # {}
    /\ \A i \in Excess(local) : i < idx => runs[local.runs[i].window] = "Absent"

IInv ==
  /\ TypeOK /\ CopiesCurrent /\ GoodHistories /\ EndsWereSeen
  /\ PointerLags /\ CreatedOnce /\ NoOrphanRuns
  /\ PassBehind /\ PassCurrent /\ Collecting

-----------------------------------------------------------------------------
(* Positions in a history. *)

(* A set of positions has a first one. *)
LEMMA OldestIsFirst ==
  ASSUME NEW I, I \subseteq Nat, I # {}
  PROVE  Oldest(I) \in I /\ \A j \in I : Oldest(I) <= j
<1> DEFINE Less == {r \in Nat \X Nat : r[1] < r[2]}
<1>1. IsWellFoundedOn(Less, Nat)
  BY NatLessThanWellFounded DEF OpToRel
<1>2. PICK x \in I : \A y \in I : <<y, x>> \notin Less
  <2> HIDE DEF Less
  <2> QED BY <1>1, WFMin
<1>3. \A y \in I : x <= y
  <2> TAKE y \in I
  <2>1. ~(y < x)
    BY <1>2
  <2> QED BY <2>1
<1> QED BY <1>3 DEF Oldest

(* Ranks number the positions in order. *)
LEMMA RankNumbers ==
  ASSUME NEW I, I \subseteq Nat, IsFiniteSet(I)
  PROVE  /\ Cardinality(I) \in Nat
         /\ \A i \in I : Rank(I, i) \in 1..Cardinality(I)
         /\ \A i, j \in I : i < j => Rank(I, i) < Rank(I, j)
         /\ \A k \in 1..Cardinality(I) : \E i \in I : Rank(I, i) = k
<1> DEFINE Upto(i) == {j \in I : j <= i}
<1>1. Cardinality(I) \in Nat
  BY FS_CardinalityType
<1>2. \A i \in I : /\ IsFiniteSet(Upto(i)) /\ Cardinality(Upto(i)) \in Nat
                   /\ Cardinality(Upto(i)) <= Cardinality(I)
  <2> TAKE i \in I
  <2>1. Upto(i) \in SUBSET I
    OBVIOUS
  <2> HIDE DEF Upto
  <2> QED BY <2>1, FS_Subset, FS_CardinalityType
<1>3. \A i \in I : Cardinality(Upto(i)) # 0
  <2> TAKE i \in I
  <2>1. i \in Upto(i)
    OBVIOUS
  <2> HIDE DEF Upto
  <2> QED BY <2>1, <1>2, FS_EmptySet
<1>4. \A i, j \in I : i < j => Cardinality(Upto(i)) < Cardinality(Upto(j))
  <2> TAKE i, j \in I
  <2> HAVE i < j
  <2>1. Upto(i) \in SUBSET Upto(j) /\ j \in Upto(j) /\ j \notin Upto(i)
    <3>1. \A x \in I : x <= i => x <= j
      OBVIOUS
    <3>2. j <= j /\ ~(j <= i)
      OBVIOUS
    <3>3. Upto(i) = {x \in I : x <= i} /\ Upto(j) = {x \in I : x <= j}
      OBVIOUS
    <3> QED BY <3>1, <3>2, <3>3
  <2> HIDE DEF Upto
  <2>2. Cardinality(Upto(i)) <= Cardinality(Upto(j)) /\ Cardinality(Upto(i)) # Cardinality(Upto(j))
    BY <2>1, <1>2, FS_Subset
  <2> QED BY <2>2, <1>2
<1>5. \A i \in I : Rank(I, i) = Cardinality(Upto(i))
  BY DEF Rank
<1> HIDE DEF Upto
<1> DEFINE f == [i \in I |-> Rank(I, i)]
           N == 1..Cardinality(I)
<1>6. \A i \in I : Rank(I, i) \in N
  BY <1>1, <1>2, <1>3, <1>5
<1>7. \A i, j \in I : i < j => Rank(I, i) < Rank(I, j)
  BY <1>4, <1>5
<1>8. f \in Injection(I, N)
  <2>1. \A i, j \in I : f[i] = f[j] => i = j
    BY <1>6, <1>7
  <2>2. f \in [I -> N]
    BY <1>6
  <2> HIDE DEF f, N
  <2> QED BY <2>1, <2>2 DEF Injection, IsInjective
<1>9. IsFiniteSet(N) /\ Cardinality(N) = Cardinality(I)
  BY <1>1, FS_Interval
<1>10. f \in Surjection(I, N)
  <2> HIDE DEF f, N
  <2> QED BY <1>8, <1>9, FS_Injection
<1>11. \A k \in N : \E i \in I : f[i] = k
  <2> HIDE DEF f, N
  <2> QED BY <1>10 DEF Surjection
<1> QED BY <1>1, <1>6, <1>7, <1>11

(* A subsequence has the elements at the positions, and keeps their order. *)
LEMMA SubsequenceElements ==
  ASSUME NEW S, NEW s \in Seq(S), NEW I, I \subseteq DOMAIN s, NEW q, q = Subsequence(s, I)
  PROVE  /\ q \in Seq(S)
         /\ \A i \in I : \E k \in DOMAIN q : q[k] = s[i]
         /\ \A k \in DOMAIN q : \E i \in I : q[k] = s[i]
         /\ \A k, l \in DOMAIN q : k < l => \E i, j \in I : i < j /\ q[k] = s[i] /\ q[l] = s[j]
<1> DEFINE pos(k) == CHOOSE i \in I : Rank(I, i) = k
<1>1. I \subseteq Nat /\ IsFiniteSet(I)
  <2>1. DOMAIN s = 1..Len(s) /\ Len(s) \in Nat
    OBVIOUS
  <2>2. IsFiniteSet(1..Len(s))
    BY <2>1, FS_Interval
  <2> QED BY <2>1, <2>2, FS_Subset
<1>2. /\ Cardinality(I) \in Nat
      /\ \A i \in I : Rank(I, i) \in 1..Cardinality(I)
      /\ \A i, j \in I : i < j => Rank(I, i) < Rank(I, j)
      /\ \A k \in 1..Cardinality(I) : \E i \in I : Rank(I, i) = k
  BY <1>1, RankNumbers
<1>3. q = [k \in 1..Cardinality(I) |-> s[pos(k)]]
  BY DEF Subsequence
<1>4. \A k \in 1..Cardinality(I) : pos(k) \in I /\ Rank(I, pos(k)) = k
  BY <1>2
<1> HIDE DEF pos
<1>5. DOMAIN q = 1..Cardinality(I) /\ \A k \in DOMAIN q : q[k] = s[pos(k)]
  BY <1>3
<1>6. \A i, j \in I : Rank(I, i) = Rank(I, j) => i = j
  BY <1>1, <1>2
<1>7. \A i \in I : q[Rank(I, i)] = s[i]
  <2> TAKE i \in I
  <2>1. Rank(I, i) \in 1..Cardinality(I)
    BY <1>2
  <2>2. pos(Rank(I, i)) = i
    BY <2>1, <1>4, <1>6
  <2> QED BY <2>1, <2>2, <1>5
<1>8. q \in Seq(S)
  <2>1. \A k \in 1..Cardinality(I) : s[pos(k)] \in S
    BY <1>4
  <2> QED BY <2>1, <1>2, <1>3
<1>9. \A k, l \in 1..Cardinality(I) : k < l => pos(k) < pos(l)
  <2> TAKE k, l \in 1..Cardinality(I)
  <2> HAVE k < l
  <2>1. pos(k) \in I /\ pos(l) \in I /\ Rank(I, pos(k)) = k /\ Rank(I, pos(l)) = l
    BY <1>4
  <2>2. pos(k) \in Nat /\ pos(l) \in Nat
    BY <2>1, <1>1
  <2>3. ~(pos(l) < pos(k)) /\ pos(k) # pos(l)
    BY <2>1, <1>2
  <2> QED BY <2>2, <2>3
<1>10. \A k, l \in DOMAIN q : k < l => pos(k) \in I /\ pos(l) \in I /\ pos(k) < pos(l)
  BY <1>4, <1>5, <1>9
<1> QED BY <1>2, <1>4, <1>5, <1>7, <1>8, <1>10

-----------------------------------------------------------------------------
(* The status. *)

Entries == [window : Fires, phase : Phases]

(* The fields of a status. *)
LEMMA StatusFields ==
  ASSUME NEW st \in ScheduleStatus
  PROVE  /\ st.next \in Fires \cup {NotYet} /\ st.last \in Fires \cup {NotYet}
         /\ st.active \in Fires \cup {NotYet}
         /\ st.next \in Int /\ st.last \in Int
         /\ st.runs \in Seq(Entries)
         /\ Len(st.runs) \in Nat /\ DOMAIN st.runs = 1..Len(st.runs)
         /\ \A i \in DOMAIN st.runs : /\ st.runs[i] \in Entries
                                      /\ st.runs[i].window \in Fires /\ st.runs[i].window \in Nat
                                      /\ st.runs[i].phase \in Phases
<1>1. st.runs \in Seq(Entries) /\ st.next \in Fires \cup {NotYet} /\ st.last \in Fires \cup {NotYet}
      /\ st.active \in Fires \cup {NotYet}
  BY DEF ScheduleStatus, Entries
<1>2. Fires \subseteq Int /\ NotYet \in Int
  BY FiresAssumption DEF NotYet
<1>3. Len(st.runs) \in Nat /\ DOMAIN st.runs = 1..Len(st.runs)
      /\ \A i \in DOMAIN st.runs : st.runs[i] \in Entries
  BY <1>1
<1>4. \A e \in Entries : e.window \in Fires /\ e.phase \in Phases
  BY DEF Entries
<1> QED BY <1>1, <1>2, <1>3, <1>4, FiresAssumption

(* A status with its fields in range. *)
LEMMA StatusFrom ==
  ASSUME NEW n \in Fires \cup {NotYet}, NEW l \in Fires \cup {NotYet},
         NEW a \in Fires \cup {NotYet}, NEW r \in Seq(Entries)
  PROVE  [next |-> n, last |-> l, active |-> a, runs |-> r] \in ScheduleStatus
BY DEF ScheduleStatus, Entries

(* A status is its fields. *)
LEMMA StatusIs ==
  ASSUME NEW st \in ScheduleStatus
  PROVE  st = [next |-> st.next, last |-> st.last, active |-> st.active, runs |-> st.runs]
BY DEF ScheduleStatus

(* The status of a new schedule. *)
LEMMA NewScheduleOK ==
  /\ NewSchedule \in ScheduleStatus /\ GoodHistory(NewSchedule)
  /\ NewSchedule.runs = <<>> /\ NewSchedule.next = NotYet /\ NewSchedule.last = NotYet
<1>1. /\ NewSchedule.runs = <<>> /\ NewSchedule.next = NotYet /\ NewSchedule.last = NotYet
      /\ NewSchedule.active = NotYet
  BY DEF NewSchedule
<1>2. NewSchedule \in ScheduleStatus
  <2>1. <<>> \in Seq(Entries)
    OBVIOUS
  <2>2. NotYet \in Fires \cup {NotYet}
    OBVIOUS
  <2> QED BY <2>1, <2>2, StatusFrom DEF NewSchedule
<1>3. DOMAIN NewSchedule.runs = {}
  BY <1>1
<1>4. GoodHistory(NewSchedule)
  BY <1>1, <1>3 DEF GoodHistory, Sorted
<1> QED BY <1>1, <1>2, <1>4

(* parsed.Next is a later window. *)
LEMMA NextFireAfter ==
  ASSUME NEW t \in 0..MaxTime
  PROVE  NextFire(t) \in Fires /\ NextFire(t) > t
BY FiresAssumption DEF NextFire

(* The first status update of a schedule only sets the pointer. *)
LEMMA SeedGood ==
  ASSUME NEW st \in ScheduleStatus, GoodHistory(st), st.next = NotYet, NEW n \in Fires
  PROVE  /\ [st EXCEPT !.next = n] \in ScheduleStatus
         /\ GoodHistory([st EXCEPT !.next = n])
         /\ [st EXCEPT !.next = n].next = n /\ [st EXCEPT !.next = n].last = NotYet
         /\ [st EXCEPT !.next = n].runs = <<>>
<1> DEFINE r == [st EXCEPT !.next = n]
<1>1. st.last = NotYet /\ st.runs = <<>> /\ DOMAIN st.runs = {}
  BY DEF GoodHistory
<1>2. r = [next |-> n, last |-> st.last, active |-> st.active, runs |-> st.runs]
  BY StatusIs
<1>3. r \in ScheduleStatus
  <2>1. /\ st.last \in Fires \cup {NotYet} /\ st.active \in Fires \cup {NotYet}
        /\ st.runs \in Seq(Entries) /\ n \in Fires \cup {NotYet}
    BY StatusFields
  <2>2. [next |-> n, last |-> st.last, active |-> st.active, runs |-> st.runs] \in ScheduleStatus
    BY <2>1, StatusFrom
  <2> QED BY <1>2, <2>2
<1>4. r.next = n /\ r.last = st.last /\ r.active = st.active /\ r.runs = st.runs
  BY <1>2
<1> HIDE DEF r
<1>5. n \in Nat /\ n > NotYet /\ n # NotYet
  BY FiresAssumption DEF NotYet
<1>6. st.active # NotYet => st.active = st.last
  BY DEF GoodHistory
<1>7. GoodHistory(r)
  BY <1>1, <1>4, <1>5, <1>6 DEF GoodHistory, Sorted
<1> QED BY <1>1, <1>3, <1>4, <1>7 DEF r

(* A window that fires is the newest entry, and the active one. *)
FiredStatus(st, n) ==
  [next |-> n, last |-> st.next, active |-> st.next, runs |-> RecordRun(st, st.next)]

LEMMA RecordGood ==
  ASSUME NEW st \in ScheduleStatus, GoodHistory(st), st.next # NotYet,
         NEW n \in Fires, n > st.next,
         NEW r, r = FiredStatus(st, n)
  PROVE  /\ r \in ScheduleStatus /\ GoodHistory(r)
         /\ r.last = st.next /\ r.next = n
         /\ DOMAIN r.runs = DOMAIN st.runs \cup {Len(st.runs) + 1}
         /\ \A i \in DOMAIN st.runs : r.runs[i] = st.runs[i]
         /\ r.runs[Len(st.runs) + 1] = [window |-> st.next, phase |-> "InFlight"]
<1> DEFINE e == [window |-> st.next, phase |-> "InFlight"]
           k == Len(st.runs) + 1
<1>1. /\ st.next \in Fires /\ st.next \in Nat /\ st.last \in Int /\ st.runs \in Seq(Entries)
      /\ Len(st.runs) \in Nat /\ DOMAIN st.runs = 1..Len(st.runs)
      /\ \A i \in DOMAIN st.runs : st.runs[i].window \in Nat
  BY StatusFields, FiresAssumption
<1>2. /\ st.last < st.next
      /\ \A i \in DOMAIN st.runs : st.runs[i].window <= st.last
      /\ \A i, j \in DOMAIN st.runs : i < j => st.runs[i].window < st.runs[j].window
  BY DEF GoodHistory, Sorted
<1>3. \A i \in DOMAIN st.runs : st.runs[i].window < st.next
  BY <1>1, <1>2
<1>4. st.next \notin Windows(st)
  BY <1>1, <1>3 DEF Windows
<1>5. r = [next |-> n, last |-> st.next, active |-> st.next, runs |-> Append(st.runs, e)]
  BY <1>4 DEF FiredStatus, RecordRun
<1>6. r.next = n /\ r.last = st.next /\ r.active = st.next /\ r.runs = Append(st.runs, e)
  BY <1>5
<1>7. e \in Entries /\ e.window = st.next /\ e.phase = "InFlight"
  BY <1>1 DEF Entries, Phases
<1> HIDE DEF e
<1>8. r.runs \in Seq(Entries)
  BY <1>1, <1>6, <1>7, AppendProperties
<1>9. /\ DOMAIN r.runs = DOMAIN st.runs \cup {k}
      /\ \A i \in DOMAIN st.runs : r.runs[i] = st.runs[i]
      /\ r.runs[k] = e
  <2>1. /\ Len(r.runs) = Len(st.runs) + 1
        /\ \A i \in 1..Len(st.runs) : r.runs[i] = st.runs[i]
        /\ r.runs[Len(st.runs) + 1] = e
    BY <1>1, <1>6, <1>7, AppendProperties
  <2>2. DOMAIN r.runs = 1..Len(r.runs)
    BY <1>8
  <2>3. 1..(Len(st.runs) + 1) = 1..Len(st.runs) \cup {Len(st.runs) + 1}
    BY <1>1
  <2> QED BY <1>1, <2>1, <2>2, <2>3
<1>10. r \in ScheduleStatus
  <2>1. n \in Fires \cup {NotYet} /\ st.next \in Fires \cup {NotYet}
    BY <1>1
  <2>2. Append(st.runs, e) \in Seq(Entries)
    BY <1>6, <1>8
  <2> QED BY <1>5, <2>1, <2>2, StatusFrom
<1>11. \A i \in DOMAIN r.runs : r.runs[i].window <= st.next
  BY <1>1, <1>3, <1>7, <1>9
<1>12. Sorted(r.runs)
  BY <1>1, <1>2, <1>3, <1>7, <1>9 DEF Sorted
<1>13. ~IsTerminalEntry(e)
  BY <1>7 DEF IsTerminalEntry, IsRunTerminal
<1>14. n # NotYet
  BY FiresAssumption DEF NotYet
<1>15. \E i \in DOMAIN r.runs : r.runs[i].window = r.active /\ ~IsTerminalEntry(r.runs[i])
  BY <1>6, <1>7, <1>9, <1>13
<1>16. GoodHistory(r)
  BY <1>6, <1>11, <1>12, <1>14, <1>15 DEF GoodHistory
<1> QED BY <1>6, <1>9, <1>10, <1>16 DEF e

(* Mirroring changes phases only, to those of the cache. *)
LEMMA MirrorGood ==
  ASSUME NEW st \in ScheduleStatus, GoodHistory(st),
         cachedRuns \in [Fires -> Phases \cup {"Absent"}],
         NEW r, r = RefreshRunPhases(st)
  PROVE  /\ r \in ScheduleStatus /\ GoodHistory(r)
         /\ r.last = st.last /\ r.next = st.next
         /\ DOMAIN r.runs = DOMAIN st.runs
         /\ \A i \in DOMAIN st.runs :
              /\ r.runs[i].window = st.runs[i].window
              /\ r.runs[i].phase = IF cachedRuns[st.runs[i].window] = "Absent" THEN st.runs[i].phase
                                   ELSE cachedRuns[st.runs[i].window]
<1> DEFINE new(e) == [window |-> e.window,
                      phase |-> IF cachedRuns[e.window] = "Absent" THEN e.phase
                                ELSE cachedRuns[e.window]]
           q == [i \in DOMAIN st.runs |-> new(st.runs[i])]
           m == Mirrored(st)
<1>1. /\ st.runs \in Seq(Entries) /\ DOMAIN st.runs = 1..Len(st.runs) /\ Len(st.runs) \in Nat
      /\ \A i \in DOMAIN st.runs : st.runs[i] \in Entries
      /\ st.next \in Fires \cup {NotYet} /\ st.last \in Fires \cup {NotYet}
      /\ st.active \in Fires \cup {NotYet}
  BY StatusFields
<1>2. \A e \in Entries : /\ new(e) \in Entries /\ new(e).window = e.window
                         /\ new(e).phase = IF cachedRuns[e.window] = "Absent" THEN e.phase
                                           ELSE cachedRuns[e.window]
  BY DEF Entries
<1> HIDE DEF new
<1>3. q \in Seq(Entries) /\ DOMAIN q = DOMAIN st.runs /\ \A i \in DOMAIN st.runs : q[i] = new(st.runs[i])
  BY <1>1, <1>2
<1>4. m = [st EXCEPT !.runs = q]
  BY DEF Mirrored, new
<1> HIDE DEF q, m
<1>5. m.runs = q /\ m.active = st.active
      /\ m = [next |-> st.next, last |-> st.last, active |-> st.active, runs |-> q]
  BY <1>4, StatusIs
<1> DEFINE a == IF \E i \in DOMAIN m.runs : m.runs[i].window = m.active /\ IsRunTerminal(m.runs[i].phase)
                  THEN NotYet ELSE m.active
<1>6. r = [m EXCEPT !.active = a]
  BY DEF RefreshRunPhases, m
<1> HIDE DEF a
<1>7. r = [next |-> st.next, last |-> st.last, active |-> a, runs |-> q]
  BY <1>5, <1>6
<1>8. r.next = st.next /\ r.last = st.last /\ r.active = a /\ r.runs = q
  BY <1>7
<1>9. a \in {NotYet, st.active}
  BY <1>5 DEF a
<1>10. r \in ScheduleStatus
  <2>1. a \in Fires \cup {NotYet}
    BY <1>1, <1>9
  <2>2. st.next \in Fires \cup {NotYet} /\ st.last \in Fires \cup {NotYet} /\ q \in Seq(Entries)
    BY <1>1, <1>3
  <2>3. [next |-> st.next, last |-> st.last, active |-> a, runs |-> q] \in ScheduleStatus
    BY <2>1, <2>2, StatusFrom
  <2> QED BY <2>3, <1>7
<1>11. \A i \in DOMAIN q : q[i].window = st.runs[i].window
  BY <1>1, <1>2, <1>3
<1>12. a # NotYet => a = st.last /\ \E i \in DOMAIN q : q[i].window = a /\ ~IsTerminalEntry(q[i])
  <2> HAVE a # NotYet
  <2>1. a = st.active /\ ~\E i \in DOMAIN q : q[i].window = st.active /\ IsRunTerminal(q[i].phase)
    BY <1>5 DEF a
  <2>2. st.active = st.last /\ \E i \in DOMAIN st.runs : st.runs[i].window = st.active
    BY <2>1 DEF GoodHistory
  <2> QED BY <2>1, <2>2, <1>3, <1>11 DEF IsTerminalEntry
<1>13. st.next = NotYet => q = <<>>
  BY <1>3 DEF GoodHistory
<1>14. GoodHistory(r)
  BY <1>3, <1>8, <1>11, <1>12, <1>13 DEF GoodHistory, Sorted
<1> QED BY <1>1, <1>2, <1>3, <1>8, <1>10, <1>14

(* What gcOldRuns picks has ended, and is never the newest Run. *)
LEMMA ExcessOld ==
  ASSUME NEW st \in ScheduleStatus, GoodHistory(st), NEW i \in Excess(st)
  PROVE  /\ i \in DOMAIN st.runs /\ i \in Nat /\ IsTerminalEntry(st.runs[i])
         /\ st.runs[i].window # st.last
<1> DEFINE newer == {j \in Terminal(st) : j > i}
<1>1. /\ i \in DOMAIN st.runs /\ IsTerminalEntry(st.runs[i])
      /\ HistoryLimit > 0 /\ Cardinality(newer) >= HistoryLimit
  BY DEF Excess, Terminal
<1>2. /\ DOMAIN st.runs = 1..Len(st.runs) /\ Len(st.runs) \in Nat /\ st.last \in Int
      /\ \A j \in DOMAIN st.runs : st.runs[j].window \in Nat
  BY StatusFields
<1>3. newer # {}
  <2> HIDE DEF newer
  <2>1. HistoryLimit \in Nat
    BY ScheduleBoundsAssumption
  <2>2. Cardinality({}) = 0
    BY FS_EmptySet
  <2> QED BY <1>1, <2>1, <2>2
<1>4. PICK j \in DOMAIN st.runs : j > i
  BY <1>3 DEF Terminal
<1>5. st.runs[i].window < st.runs[j].window /\ st.runs[j].window <= st.last
  BY <1>1, <1>2, <1>4 DEF GoodHistory, Sorted
<1> QED BY <1>1, <1>2, <1>5

(* What is left of a status after the collection. *)
LEMMA CompactedGood ==
  ASSUME NEW st \in ScheduleStatus, GoodHistory(st), NEW r, r = Compacted(st)
  PROVE  /\ r \in ScheduleStatus /\ GoodHistory(r)
         /\ r.last = st.last /\ r.next = st.next
         /\ \A i \in (DOMAIN st.runs) \ Excess(st) : \E k \in DOMAIN r.runs : r.runs[k] = st.runs[i]
         /\ \A k \in DOMAIN r.runs : \E i \in DOMAIN st.runs : r.runs[k] = st.runs[i]
<1> DEFINE I == (DOMAIN st.runs) \ Excess(st)
           q == Subsequence(st.runs, I)
<1>1. /\ st.runs \in Seq(Entries)
      /\ st.next \in Fires \cup {NotYet} /\ st.last \in Fires \cup {NotYet}
      /\ st.active \in Fires \cup {NotYet}
  BY StatusFields
<1>2. I \subseteq DOMAIN st.runs
  OBVIOUS
<1>3. r = [st EXCEPT !.runs = q]
  BY DEF Compacted
<1> HIDE DEF I, q
<1>4. /\ q \in Seq(Entries)
      /\ \A i \in I : \E k \in DOMAIN q : q[k] = st.runs[i]
      /\ \A k \in DOMAIN q : \E i \in I : q[k] = st.runs[i]
      /\ \A k, l \in DOMAIN q : k < l =>
           \E i, j \in I : i < j /\ q[k] = st.runs[i] /\ q[l] = st.runs[j]
  <2>1. st.runs \in Seq(Entries)
    BY <1>1
  <2>2. q = Subsequence(st.runs, I)
    BY DEF q
  <2> DEFINE s == st.runs
  <2> HIDE DEF s
  <2>3. s \in Seq(Entries) /\ I \subseteq DOMAIN s /\ q = Subsequence(s, I)
    BY <2>1, <2>2, <1>2 DEF s
  <2>4. /\ q \in Seq(Entries)
        /\ \A i \in I : \E k \in DOMAIN q : q[k] = s[i]
        /\ \A k \in DOMAIN q : \E i \in I : q[k] = s[i]
        /\ \A k, l \in DOMAIN q : k < l => \E i, j \in I : i < j /\ q[k] = s[i] /\ q[l] = s[j]
    BY <2>3, SubsequenceElements
  <2> QED BY <2>4 DEF s
<1>5. r = [next |-> st.next, last |-> st.last, active |-> st.active, runs |-> q]
  BY <1>3, StatusIs
<1>6. r.next = st.next /\ r.last = st.last /\ r.active = st.active /\ r.runs = q
  BY <1>5
<1>7. r \in ScheduleStatus
  <2>1. q \in Seq(Entries)
    BY <1>4
  <2>2. [next |-> st.next, last |-> st.last, active |-> st.active, runs |-> q] \in ScheduleStatus
    BY <1>1, <2>1, StatusFrom
  <2> QED BY <2>2, <1>5
<1>8. Sorted(q)
  BY <1>2, <1>4 DEF GoodHistory, Sorted
<1>9. \A k \in DOMAIN q : q[k].window <= st.last
  BY <1>2, <1>4 DEF GoodHistory
<1>10. st.next = NotYet => q = <<>>
  <2> HAVE st.next = NotYet
  <2>1. DOMAIN st.runs = {}
    BY DEF GoodHistory
  <2>2. DOMAIN q = {}
    BY <2>1, <1>2, <1>4
  <2> QED BY <2>2, <1>4
<1>11. st.active # NotYet => \E k \in DOMAIN q : q[k].window = st.active /\ ~IsTerminalEntry(q[k])
  <2> HAVE st.active # NotYet
  <2>1. PICK i \in DOMAIN st.runs : st.runs[i].window = st.active /\ ~IsTerminalEntry(st.runs[i])
    BY DEF GoodHistory
  <2>2. i \in I
    BY <2>1 DEF I, Excess, Terminal
  <2> QED BY <2>1, <2>2, <1>4
<1>12. GoodHistory(r)
  BY <1>6, <1>8, <1>9, <1>10, <1>11 DEF GoodHistory
<1> QED BY <1>2, <1>4, <1>6, <1>7, <1>12 DEF I

-----------------------------------------------------------------------------
(* Types. *)

RunPhases == Phases \cup {"Absent"}

(* The writes that the actions share. *)
LEMMA CreateType ==
  ASSUME TypeOK, NEW w \in Fires, CreateRun(w)
  PROVE  /\ runs' \in [Fires -> RunPhases] /\ freshRuns' \subseteq Fires
         /\ created' \in [Fires -> 0..MaxCreated]
         /\ runs'[w] # "Absent"
         /\ \A v \in Fires : v # w => runs'[v] = runs[v] /\ created'[v] = created[v]
         /\ runs[w] # "Absent" => runs' = runs /\ created' = created
         /\ runs[w] = "Absent" => /\ runs'[w] = "InFlight"
                                  /\ created[w] = 0 => created'[w] = 1
<1>1. /\ runs \in [Fires -> RunPhases] /\ freshRuns \subseteq Fires
      /\ created \in [Fires -> 0..MaxCreated]
  BY DEF TypeOK, RunPhases
<1>2. "InFlight" \in RunPhases
  BY DEF RunPhases, Phases
<1>3. CASE runs[w] # "Absent"
  BY <1>1, <1>3 DEF CreateRun
<1>4. CASE runs[w] = "Absent"
  <2>1. /\ runs' = [runs EXCEPT ![w] = "InFlight"]
        /\ freshRuns' = freshRuns \ {w}
        /\ created' = [created EXCEPT ![w] = IF created[w] < MaxCreated THEN created[w] + 1 ELSE created[w]]
    BY <1>4 DEF CreateRun
  <2>2. created[w] \in 0..MaxCreated
    BY <1>1
  <2>3. /\ (IF created[w] < MaxCreated THEN created[w] + 1 ELSE created[w]) \in 0..MaxCreated
        /\ created[w] = 0 => (IF created[w] < MaxCreated THEN created[w] + 1 ELSE created[w]) = 1
    BY <2>2 DEF MaxCreated
  <2> QED BY <1>1, <1>2, <1>4, <2>1, <2>3
<1> QED BY <1>3, <1>4

LEMMA DeleteType ==
  ASSUME TypeOK, NEW w \in Fires, DeleteRun(w)
  PROVE  /\ runs' \in [Fires -> RunPhases] /\ freshRuns' \subseteq Fires
         /\ \A v \in Fires : v # w => runs'[v] = runs[v]
         /\ runs'[w] \in {runs[w], "Absent"}
         /\ cachedRuns[w] # "Absent" => runs'[w] = "Absent"
         /\ cachedRuns[w] = "Absent" => runs' = runs
<1>1. runs \in [Fires -> RunPhases] /\ freshRuns \subseteq Fires
  BY DEF TypeOK, RunPhases
<1>2. "Absent" \in RunPhases
  BY DEF RunPhases
<1>3. CASE cachedRuns[w] # "Absent" /\ runs[w] # "Absent"
  BY <1>1, <1>2, <1>3 DEF DeleteRun
<1>4. CASE ~(cachedRuns[w] # "Absent" /\ runs[w] # "Absent")
  BY <1>1, <1>4 DEF DeleteRun
<1> QED BY <1>3, <1>4

(* A pass that ends. *)
LEMMA ReturnType ==
  ASSUME TypeOK, NEW error \in BOOLEAN, Return(error)
  PROVE  /\ pc' = "idle" /\ idx' = 1 /\ at' = 0 /\ localFresh' = FALSE /\ local' = NewSchedule
         /\ local' \in ScheduleStatus /\ queued' \in BOOLEAN
BY NewScheduleOK DEF Return, TypeOK

LEMMA FaultType ==
  ASSUME TypeOK, NEW kind, Fault(kind)
  PROVE  faults' \in 0..MaxFaults
BY ScheduleBoundsAssumption DEF TypeOK, Fault

(* What gcOldRuns deletes next: an ended Run, older than the fire pointer. *)
LEMMA NextToDelete ==
  ASSUME IInv, pc = "gc"
  PROVE  /\ Oldest(ToDelete) \in Excess(local) /\ Oldest(ToDelete) \in DOMAIN local.runs
         /\ Oldest(ToDelete) \in Nat /\ Oldest(ToDelete) >= idx
         /\ \A j \in ToDelete : Oldest(ToDelete) <= j
         /\ local.runs[Oldest(ToDelete)].window \in Fires
         /\ local.runs[Oldest(ToDelete)].window < cachedSched.next
         /\ IsTerminalEntry(local.runs[Oldest(ToDelete)])
<1>1. local \in ScheduleStatus /\ GoodHistory(local) /\ ToDelete # {}
  BY DEF IInv, TypeOK, GoodHistories, Collecting
<1>2. \A i \in Excess(local) : /\ i \in DOMAIN local.runs /\ i \in Nat
                               /\ IsTerminalEntry(local.runs[i])
                               /\ local.runs[i].window # local.last
  BY <1>1, ExcessOld
<1>3. ToDelete \subseteq Nat
  BY <1>2 DEF ToDelete
<1>4. Oldest(ToDelete) \in ToDelete /\ \A j \in ToDelete : Oldest(ToDelete) <= j
  BY <1>1, <1>3, OldestIsFirst
<1>5. Oldest(ToDelete) \in Excess(local) /\ Oldest(ToDelete) >= idx
  BY <1>4 DEF ToDelete
<1>6. \A i \in DOMAIN local.runs : local.runs[i].window \in Fires
  BY <1>1, StatusFields
<1>7. \A i \in DOMAIN local.runs :
        local.runs[i].window < cachedSched.next \/ local.runs[i].window = local.last
  BY DEF IInv, PassBehind
<1> QED BY <1>2, <1>4, <1>5, <1>6, <1>7

(* No step leaves the types. *)
LEMMA TypeStep ==
  ASSUME IInv, [Next]_vars
  PROVE  TypeOK'
<1>1. TypeOK /\ CopiesCurrent
  BY DEF IInv
<1>2. now \in 0..MaxTime /\ at \in 0..MaxTime /\ now \in Nat /\ at \in Nat
  BY <1>1, ScheduleBoundsAssumption DEF TypeOK, CopiesCurrent
<1>3. pc = "fire" => local.next \in Fires
  <2>1. local.next \in Fires \cup {NotYet}
    BY <1>1, StatusFields DEF TypeOK
  <2> QED BY <2>1 DEF IInv, PassBehind
<1> USE DEF apiVars, cacheVars, passVars, schedQueue, runVars, envVars
<1>4. CASE Begin
  <2>1. local' \in ScheduleStatus
    <3>1. CASE cachedSched.next = NotYet
      <4>1. local' = [cachedSched EXCEPT !.next = NextFire(now)]
        BY <1>4, <3>1 DEF Begin
      <4>2. cachedSched \in ScheduleStatus /\ GoodHistory(cachedSched) /\ NextFire(now) \in Fires
        BY <1>2, NextFireAfter DEF IInv, TypeOK, GoodHistories
      <4> QED BY <3>1, <4>1, <4>2, SeedGood
    <3>2. CASE cachedSched.next # NotYet
      BY <1>1, <1>4, <3>2 DEF Begin, TypeOK
    <3> QED BY <3>1, <3>2
  <2>2. pc' \in {"update", "fire", "refresh"} /\ at' = now /\ idx' = 1 /\ localFresh' = schedFresh
        /\ queued' = FALSE
    BY <1>4 DEF Begin
  <2>3. UNCHANGED <<sched, runs, teams, template, cachedSched, cachedRuns, schedFresh, freshRuns, due,
                    runPass, runsQueued, runsWaiting, now, faults, created>>
    BY <1>4 DEF Begin
  <2> QED BY <1>1, <1>2, <2>1, <2>2, <2>3 DEF TypeOK
<1>5. CASE Fire
  <2>1. local \in ScheduleStatus /\ GoodHistory(local) /\ local.next \in Fires /\ local.next # NotYet
        /\ local.next <= at
    BY <1>3, <1>5 DEF IInv, TypeOK, GoodHistories, Fire, PassBehind
  <2>2. NextFire(at) \in Fires /\ NextFire(at) > local.next
    <3>1. NextFire(at) \in Fires /\ NextFire(at) > at
      BY <1>2, NextFireAfter
    <3>2. NextFire(at) \in Nat /\ local.next \in Nat /\ at \in Nat
      <4>1. Fires \subseteq Nat
        BY FiresAssumption
      <4> QED BY <1>2, <2>1, <3>1, <4>1
    <3> QED BY <2>1, <3>1, <3>2
  <2>3. local' = FiredStatus(local, NextFire(at))
    BY <1>5 DEF Fire, FiredStatus
  <2>4. local' \in ScheduleStatus
    BY <2>1, <2>2, <2>3, RecordGood
  <2>5. /\ runs' \in [Fires -> RunPhases] /\ freshRuns' \subseteq Fires
        /\ created' \in [Fires -> 0..MaxCreated]
    BY <1>1, <1>5, <2>1, CreateType DEF Fire
  <2> QED BY <1>1, <1>5, <2>4, <2>5 DEF Fire, TypeOK, RunPhases
<1>6. CASE FireError
  <2>1. /\ runs' \in [Fires -> RunPhases] /\ freshRuns' \subseteq Fires
        /\ created' \in [Fires -> 0..MaxCreated]
    <3>1. CASE CreateRun(local.next)
      BY <1>1, <1>3, <1>6, <3>1, CreateType DEF FireError
    <3>2. CASE UNCHANGED <<runs, freshRuns, created>>
      BY <1>1, <3>2 DEF TypeOK, RunPhases
    <3> QED BY <1>6, <3>1, <3>2 DEF FireError
  <2>2. faults' \in 0..MaxFaults
    BY <1>1, <1>6, FaultType DEF FireError
  <2>3. /\ pc' = "idle" /\ idx' = 1 /\ at' = 0 /\ localFresh' = FALSE
        /\ local' \in ScheduleStatus /\ queued' \in BOOLEAN
    BY <1>1, <1>6, ReturnType DEF FireError
  <2> QED BY <1>1, <1>6, <2>1, <2>2, <2>3 DEF FireError, TypeOK, RunPhases
<1>7. CASE Refresh
  <2>1. local' \in ScheduleStatus
    BY <1>1, <1>7, MirrorGood DEF Refresh, IInv, TypeOK, GoodHistories
  <2>2. pc' \in {"update", "gc"}
    BY <1>7 DEF Refresh
  <2> QED BY <1>1, <1>7, <2>1, <2>2 DEF Refresh, TypeOK
<1>8. CASE GcRun
  <2>1. pc = "gc" /\ DeleteRun(local.runs[Oldest(ToDelete)].window)
    BY <1>8 DEF GcRun
  <2>2. local.runs[Oldest(ToDelete)].window \in Fires /\ Oldest(ToDelete) \in Nat
    BY <2>1, NextToDelete
  <2>3. runs' \in [Fires -> RunPhases] /\ freshRuns' \subseteq Fires
    BY <1>1, <2>1, <2>2, DeleteType
  <2>4. local \in ScheduleStatus /\ GoodHistory(local)
    BY DEF IInv, TypeOK, GoodHistories
  <2>5. local' \in ScheduleStatus /\ pc' \in {"gc", "update"} /\ idx' \in Nat
    BY <1>1, <1>8, <2>2, <2>4, CompactedGood DEF GcRun, TypeOK
  <2> QED BY <1>1, <1>8, <2>3, <2>5 DEF GcRun, TypeOK, RunPhases
<1>9. CASE GcError
  <2>1. pc = "gc" /\ faults' \in 0..MaxFaults
    BY <1>1, <1>9, FaultType DEF GcError
  <2>2. local.runs[Oldest(ToDelete)].window \in Fires
    BY <2>1, NextToDelete
  <2>3. runs' \in [Fires -> RunPhases] /\ freshRuns' \subseteq Fires
    <3>1. CASE DeleteRun(local.runs[Oldest(ToDelete)].window)
      BY <1>1, <2>2, <3>1, DeleteType
    <3>2. CASE UNCHANGED <<runs, freshRuns>>
      BY <1>1, <3>2 DEF TypeOK, RunPhases
    <3> QED BY <1>9, <3>1, <3>2 DEF GcError
  <2> QED BY <1>1, <1>9, <2>1, <2>3 DEF GcError, TypeOK, RunPhases
<1>10. CASE Update
  <2>1. /\ pc' = "idle" /\ idx' = 1 /\ at' = 0 /\ localFresh' = FALSE
        /\ local' \in ScheduleStatus /\ queued' \in BOOLEAN
    BY <1>1, <1>10, ReturnType DEF Update
  <2>2. now + RequeueDelay(local.next, at) \in Nat
    <3>1. /\ local.next \in Int /\ at \in Nat /\ Floor \in Nat /\ now \in Nat
      BY <1>1, <1>2, StatusFields, ScheduleBoundsAssumption DEF TypeOK
    <3> QED BY <3>1 DEF RequeueDelay
  <2>3. due' \in Time
    BY <1>1, <1>10, <2>2 DEF Update, Earlier, TypeOK, Time
  <2>4. sched' \in ScheduleStatus /\ schedFresh' \in BOOLEAN
    BY <1>1, <1>10 DEF Update, TypeOK
  <2> QED BY <1>1, <1>10, <2>1, <2>3, <2>4 DEF Update, TypeOK
<1>11. CASE UpdateError
  <2>1. /\ pc' = "idle" /\ idx' = 1 /\ at' = 0 /\ localFresh' = FALSE
        /\ local' \in ScheduleStatus /\ queued' \in BOOLEAN
    BY <1>1, <1>11, ReturnType DEF UpdateError
  <2>2. faults' \in 0..MaxFaults
    BY <1>1, <1>11, FaultType DEF UpdateError, TypeOK
  <2> QED BY <1>1, <1>11, <2>1, <2>2 DEF UpdateError, TypeOK
<1>12. ASSUME NEW w \in Fires,
              RunTemplateMissing(w) \/ RunTemplateNotReady(w) \/ RunEnsureTeam(w) \/ RunNotFound(w)
       PROVE  TypeOK'
  <2>1. \A phase \in Phases, fresh, wait \in BOOLEAN :
          [window |-> w, phase |-> phase, fresh |-> fresh, wait |-> wait]
            \in [window : Fires \cup {NotYet}, phase : Phases, fresh : BOOLEAN, wait : BOOLEAN]
    OBVIOUS
  <2>2. CASE RunTemplateMissing(w)
    <3>1. /\ runPass' = [window |-> w, phase |-> "Failed", fresh |-> w \in freshRuns, wait |-> FALSE]
          /\ runsQueued' = runsQueued \ {w}
      BY <2>2 DEF RunTemplateMissing, RunBegin, RunWrites
    <3> DEFINE b == w \in freshRuns
    <3>2. b \in BOOLEAN /\ "Failed" \in Phases
      BY DEF Phases
    <3> HIDE DEF b
    <3>3. runPass' \in [window : Fires \cup {NotYet}, phase : Phases, fresh : BOOLEAN, wait : BOOLEAN]
      BY <2>1, <3>1, <3>2 DEF b
    <3> QED BY <1>1, <2>2, <3>1, <3>3 DEF RunTemplateMissing, TypeOK
  <2>3. CASE RunTemplateNotReady(w)
    <3>1. /\ runPass' = [window |-> w, phase |-> cachedRuns[w], fresh |-> w \in freshRuns, wait |-> TRUE]
          /\ runsQueued' = runsQueued \ {w} /\ cachedRuns[w] # "Absent"
      BY <2>3 DEF RunTemplateNotReady, RunBegin, RunWrites
    <3> DEFINE b == w \in freshRuns
    <3>2. b \in BOOLEAN /\ cachedRuns[w] \in Phases
      BY <1>1, <3>1 DEF TypeOK
    <3> HIDE DEF b
    <3>3. runPass' \in [window : Fires \cup {NotYet}, phase : Phases, fresh : BOOLEAN, wait : BOOLEAN]
      BY <2>1, <3>1, <3>2 DEF b
    <3> QED BY <1>1, <2>3, <3>1, <3>3 DEF RunTemplateNotReady, TypeOK
  <2>4. CASE RunEnsureTeam(w)
    <3>1. /\ runPass' = [window |-> w, phase |-> MirrorTeamStatus(w), fresh |-> w \in freshRuns,
                         wait |-> FALSE]
          /\ runsQueued' = runsQueued \ {w}
          /\ teams' = [teams EXCEPT ![w] = IF teams[w] = "Absent" THEN "InFlight" ELSE teams[w]]
      BY <2>4 DEF RunEnsureTeam, RunBegin, RunWrites
    <3> DEFINE b == w \in freshRuns
    <3>2. b \in BOOLEAN /\ MirrorTeamStatus(w) \in Phases
      BY <1>1 DEF TypeOK, MirrorTeamStatus, Phases
    <3> HIDE DEF b
    <3>3. runPass' \in [window : Fires \cup {NotYet}, phase : Phases, fresh : BOOLEAN, wait : BOOLEAN]
      BY <2>1, <3>1, <3>2 DEF b
    <3>4. teams' \in [Fires -> {"Absent", "InFlight", "Ended"}]
      BY <1>1, <3>1 DEF TypeOK
    <3> QED BY <1>1, <2>4, <3>1, <3>3, <3>4 DEF RunEnsureTeam, TypeOK
  <2>5. CASE RunNotFound(w)
    BY <1>1, <2>5 DEF RunNotFound, TypeOK
  <2> QED BY <1>12, <2>2, <2>3, <2>4, <2>5
<1>13. NoPass \in [window : Fires \cup {NotYet}, phase : Phases, fresh : BOOLEAN, wait : BOOLEAN]
  BY DEF NoPass, Phases
<1>14. CASE RunUpdate
  <2>1. runPass # NoPass /\ runPass.window \in Fires /\ runPass.phase \in Phases
    BY <1>1, <1>14 DEF RunUpdate, TypeOK, CopiesCurrent
  <2>2. runs' = [runs EXCEPT ![runPass.window] = runPass.phase] /\ runPass' = NoPass
    BY <1>14 DEF RunUpdate
  <2>3. runs' \in [Fires -> Phases \cup {"Absent"}]
    BY <1>1, <2>1, <2>2 DEF TypeOK
  <2>4. freshRuns' \subseteq Fires /\ runsWaiting' \subseteq Fires
    BY <1>1, <1>14, <2>1 DEF RunUpdate, TypeOK
  <2> QED BY <1>1, <1>13, <1>14, <2>2, <2>3, <2>4 DEF RunUpdate, TypeOK
<1>15. CASE RunError
  <2>1. runPass # NoPass /\ runPass.window \in Fires
    BY <1>1, <1>15 DEF RunError, CopiesCurrent
  <2>2. faults' \in 0..MaxFaults
    BY <1>1, <1>15, FaultType DEF RunError, TypeOK
  <2> QED BY <1>1, <1>13, <1>15, <2>1, <2>2 DEF RunError, TypeOK
<1>16. CASE TemplateReconcile
  BY <1>1, <1>16 DEF TemplateReconcile, TypeOK
<1>17. CASE DeleteTemplate
  <2>1. faults' \in 0..MaxFaults
    BY <1>1, <1>17, FaultType DEF DeleteTemplate
  <2> QED BY <1>1, <1>17, <2>1 DEF DeleteTemplate, TypeOK
<1>18. CASE ApplyTemplate
  BY <1>1, <1>18 DEF ApplyTemplate, TypeOK
<1>19. CASE SyncSched
  BY <1>1, <1>19 DEF SyncSched, TypeOK
<1>20. CASE TimerFires
  BY <1>1, <1>20 DEF TimerFires, TypeOK, Time
<1>21. CASE Tick
  <2>1. now' \in 0..MaxTime
    BY <1>2, <1>21, ScheduleBoundsAssumption DEF Tick
  <2> QED BY <1>1, <1>21, <2>1 DEF Tick, TypeOK
<1>22. CASE Crash
  <2>1. faults' \in 0..MaxFaults
    BY <1>1, <1>22, FaultType DEF Crash
  <2>2. local' \in ScheduleStatus /\ cachedSched' \in ScheduleStatus
    BY <1>1, <1>22, NewScheduleOK DEF Crash, TypeOK
  <2> QED BY <1>1, <1>13, <1>22, <2>1, <2>2 DEF Crash, TypeOK, Time
<1>23. ASSUME NEW w \in Fires, TeamEnds(w) \/ TeamCollected(w) \/ SyncRun(w) \/ RunTimerFires(w)
       PROVE  TypeOK'
  <2>1. CASE TeamEnds(w)
    BY <1>1, <2>1 DEF TeamEnds, TypeOK
  <2>2. CASE TeamCollected(w)
    BY <1>1, <2>2 DEF TeamCollected, TypeOK
  <2>3. CASE SyncRun(w)
    <3>1. cachedRuns' = [cachedRuns EXCEPT ![w] = runs[w]] /\ runs[w] \in Phases \cup {"Absent"}
      BY <1>1, <2>3 DEF SyncRun, TypeOK
    <3>2. cachedRuns' \in [Fires -> Phases \cup {"Absent"}]
      BY <1>1, <3>1 DEF TypeOK
    <3> QED BY <1>1, <2>3, <3>2 DEF SyncRun, TypeOK
  <2>4. CASE RunTimerFires(w)
    BY <1>1, <2>4 DEF RunTimerFires, TypeOK
  <2> QED BY <1>23, <2>1, <2>2, <2>3, <2>4
<1>24. CASE UNCHANGED vars
  BY <1>1, <1>24 DEF vars, TypeOK
<1> QED BY <1>4, <1>5, <1>6, <1>7, <1>8, <1>9, <1>10, <1>11, <1>12, <1>14, <1>15, <1>16, <1>17, <1>18,
           <1>19, <1>20, <1>21, <1>22, <1>23, <1>24
        DEF Next, ScheduleController, RunController, Environment

-----------------------------------------------------------------------------
(* The invariant holds at first, and steps of the surroundings preserve it. *)

LEMMA InitInv == Init => IInv
<1> SUFFICES ASSUME Init PROVE IInv
  OBVIOUS
<1>1. /\ sched = NewSchedule /\ cachedSched = NewSchedule /\ local = NewSchedule
      /\ pc = "idle" /\ idx = 1 /\ at = 0 /\ now = 0 /\ localFresh = FALSE /\ runPass = NoPass
      /\ schedFresh = TRUE
      /\ \A w \in Fires : runs[w] = "Absent" /\ cachedRuns[w] = "Absent" /\ created[w] = 0
  BY DEF Init
<1>2. /\ NewSchedule \in ScheduleStatus /\ GoodHistory(NewSchedule)
      /\ NewSchedule.runs = <<>> /\ NewSchedule.next = NotYet /\ NewSchedule.last = NotYet
  BY NewScheduleOK
<1>3. TypeOK
  <2>1. MaxTime \in Nat /\ MaxFaults \in Nat
    BY ScheduleBoundsAssumption
  <2>2. NoPass \in [window : Fires \cup {NotYet}, phase : Phases, fresh : BOOLEAN, wait : BOOLEAN]
    BY DEF NoPass, Phases
  <2>3. created \in [Fires -> 0..MaxCreated]
    BY DEF Init, MaxCreated
  <2>4. /\ runs \in [Fires -> Phases \cup {"Absent"}] /\ cachedRuns \in [Fires -> Phases \cup {"Absent"}]
        /\ teams \in [Fires -> {"Absent", "InFlight", "Ended"}]
    BY DEF Init
  <2>5. /\ template = "Unchecked" /\ freshRuns = Fires /\ queued = TRUE /\ due = NotYet
        /\ runsQueued = {} /\ runsWaiting = {} /\ faults = 0
    BY DEF Init
  <2>6. now \in 0..MaxTime /\ faults \in 0..MaxFaults
    BY <1>1, <2>1, <2>5
  <2> QED BY <1>1, <1>2, <2>2, <2>3, <2>4, <2>5, <2>6 DEF TypeOK, Time
<1>4. DOMAIN NewSchedule.runs = {}
  BY <1>2
<1>5. CopiesCurrent /\ GoodHistories /\ PointerLags /\ CreatedOnce /\ NoOrphanRuns
  BY <1>1, <1>2 DEF CopiesCurrent, GoodHistories, PointerLags, CreatedOnce, NoOrphanRuns, NotYet
<1>6. EndsWereSeen
  BY <1>1, <1>4 DEF EndsWereSeen, EndWasSeen
<1>7. PassBehind /\ PassCurrent /\ Collecting
  BY <1>1 DEF PassBehind, PassCurrent, Collecting
<1> QED BY <1>3, <1>5, <1>6, <1>7 DEF IInv

(* Entries are of windows. *)
LEMMA EntryWindows ==
  ASSUME TypeOK
  PROVE  /\ \A i \in DOMAIN sched.runs : sched.runs[i].window \in Fires
         /\ \A i \in DOMAIN cachedSched.runs : cachedSched.runs[i].window \in Fires
         /\ \A i \in DOMAIN local.runs : local.runs[i].window \in Fires
BY StatusFields DEF TypeOK

(* A step that leaves the status, its copies and the schedule's pass alone, and
   neither creates nor deletes a Run. *)
Quiet ==
  /\ UNCHANGED <<sched, cachedSched, schedFresh, pc, idx, local, localFresh, at, created>>
  /\ now' \in Nat /\ now' >= now
  /\ runPass' = NoPass \/ runPass'.window \in Fires
  /\ \A w \in Fires : /\ runs'[w] = "Absent" <=> runs[w] = "Absent"
                      /\ cachedRuns'[w] = cachedRuns[w] \/ cachedRuns'[w] = runs[w]

LEMMA QuietStep ==
  ASSUME IInv, TypeOK', Quiet
  PROVE  IInv'
<1>1. TypeOK /\ UNCHANGED <<sched, cachedSched, schedFresh, pc, idx, local, localFresh, at, created>>
  BY DEF IInv, Quiet
<1>2. \A w \in Fires : /\ runs'[w] = "Absent" <=> runs[w] = "Absent"
                       /\ cachedRuns'[w] = cachedRuns[w] \/ cachedRuns'[w] = runs[w]
  BY DEF Quiet
<1>3. CopiesCurrent'
  <2>1. now \in Nat /\ at \in Nat /\ at <= now /\ now' \in Nat /\ now' >= now
    BY <1>1, ScheduleBoundsAssumption DEF IInv, CopiesCurrent, TypeOK, Quiet
  <2>2. at' <= now'
    BY <2>1, <1>1
  <2> QED BY <1>1, <2>2 DEF IInv, CopiesCurrent, Started, Quiet
<1>4. GoodHistories'
  BY <1>1 DEF IInv, GoodHistories, GoodHistory
<1>5. EndsWereSeen'
  BY <1>1, <1>2, EntryWindows DEF IInv, EndsWereSeen, EndWasSeen
<1>6. PointerLags' /\ PassBehind'
  BY <1>1 DEF IInv, PointerLags, PassBehind
<1>7. CreatedOnce'
  BY <1>1, <1>2 DEF IInv, CreatedOnce
<1>8. NoOrphanRuns'
  BY <1>1, <1>2 DEF IInv, NoOrphanRuns, Windows
<1>9. PassCurrent'
  BY <1>1, <1>2 DEF IInv, PassCurrent, Windows, Unfired, Seeded, Fired
<1>10. Collecting'
  <2>1. Excess(local)' = Excess(local) /\ ToDelete' = ToDelete
    BY <1>1 DEF Excess, Terminal, ToDelete
  <2>2. \A i \in Excess(local) : local.runs[i].window \in Fires
    BY <1>1, EntryWindows DEF Excess, Terminal
  <2> QED BY <1>1, <1>2, <2>1, <2>2 DEF IInv, Collecting
<1> QED BY <1>3, <1>4, <1>5, <1>6, <1>7, <1>8, <1>9, <1>10 DEF IInv

(* The Run controller, teams, templates, timers and the clock are quiet. *)
LEMMA QuietSteps ==
  ASSUME IInv,
         \/ RunController \/ TemplateReconcile \/ DeleteTemplate \/ ApplyTemplate
         \/ TimerFires \/ Tick
         \/ \E w \in Fires : TeamEnds(w) \/ TeamCollected(w) \/ SyncRun(w) \/ RunTimerFires(w)
         \/ UNCHANGED vars
  PROVE  Quiet
<1>1. /\ now \in Nat /\ runs \in [Fires -> Phases \cup {"Absent"}]
      /\ cachedRuns \in [Fires -> Phases \cup {"Absent"}]
      /\ runPass = NoPass \/ runPass.window \in Fires
      /\ runPass.phase \in Phases
  BY ScheduleBoundsAssumption DEF IInv, TypeOK, CopiesCurrent
<1>2. now >= now
  BY <1>1
<1> USE DEF apiVars, cacheVars, passVars, schedQueue, runVars, envVars
<1>3. CASE RunUpdate
  <2>1. runPass.window \in Fires /\ runs[runPass.window] # "Absent"
        /\ runs' = [runs EXCEPT ![runPass.window] = runPass.phase] /\ runPass' = NoPass
    BY <1>1, <1>3 DEF RunUpdate
  <2>2. \A w \in Fires : runs'[w] = "Absent" <=> runs[w] = "Absent"
    BY <1>1, <2>1 DEF Phases
  <2> QED BY <1>1, <1>2, <1>3, <2>1, <2>2 DEF RunUpdate, Quiet
<1>4. CASE RunError
  BY <1>1, <1>2, <1>4 DEF RunError, Quiet
<1>5. ASSUME NEW w \in Fires,
             RunTemplateMissing(w) \/ RunTemplateNotReady(w) \/ RunEnsureTeam(w) \/ RunNotFound(w)
      PROVE  Quiet
  <2>1. runPass' = runPass \/ runPass'.window = w
    BY <1>5 DEF RunTemplateMissing, RunTemplateNotReady, RunEnsureTeam, RunNotFound, RunWrites
  <2>2. UNCHANGED <<sched, cachedSched, schedFresh, pc, idx, local, localFresh, at, created,
                    now, runs, cachedRuns>>
    BY <1>5 DEF RunTemplateMissing, RunTemplateNotReady, RunEnsureTeam, RunNotFound
  <2> QED BY <1>1, <1>2, <2>1, <2>2 DEF Quiet
<1>6. CASE TemplateReconcile \/ DeleteTemplate \/ ApplyTemplate \/ TimerFires \/ UNCHANGED vars
  <2>1. UNCHANGED <<sched, cachedSched, schedFresh, pc, idx, local, localFresh, at, created,
                    now, runs, cachedRuns, runPass>>
    BY <1>6 DEF TemplateReconcile, DeleteTemplate, ApplyTemplate, TimerFires, vars
  <2> QED BY <1>1, <1>2, <2>1 DEF Quiet
<1>7. CASE Tick
  <2>1. now' \in Nat /\ now' >= now
    BY <1>1, <1>7 DEF Tick
  <2> QED BY <1>1, <1>7, <2>1 DEF Tick, Quiet
<1>8. ASSUME NEW w \in Fires, TeamEnds(w) \/ TeamCollected(w) \/ SyncRun(w) \/ RunTimerFires(w)
      PROVE  Quiet
  <2>1. UNCHANGED <<sched, cachedSched, schedFresh, pc, idx, local, localFresh, at, created,
                    now, runs, runPass>>
    BY <1>8 DEF TeamEnds, TeamCollected, SyncRun, RunTimerFires
  <2>2. cachedRuns' = cachedRuns \/ cachedRuns' = [cachedRuns EXCEPT ![w] = runs[w]]
    BY <1>8 DEF TeamEnds, TeamCollected, SyncRun, RunTimerFires
  <2>3. \A v \in Fires : cachedRuns'[v] = cachedRuns[v] \/ cachedRuns'[v] = runs[v]
    BY <1>1, <2>2
  <2> QED BY <1>1, <1>2, <2>1, <2>3 DEF Quiet
<1> QED BY <1>3, <1>4, <1>5, <1>6, <1>7, <1>8 DEF RunController

-----------------------------------------------------------------------------
(* The steps of the schedule controller. *)

(* An arithmetical view of the parts of the invariant on the pointers. *)
LEMMA Pointers ==
  ASSUME IInv
  PROVE  /\ sched.next \in Int /\ cachedSched.next \in Int /\ local.next \in Int
         /\ sched.last \in Int /\ cachedSched.last \in Int /\ local.last \in Int
         /\ \A w \in Fires : w \in Nat /\ w # NotYet /\ w > NotYet
         /\ at \in Nat /\ now \in Nat /\ at <= now /\ now \in 0..MaxTime /\ at \in 0..MaxTime
         /\ \A i \in DOMAIN sched.runs : sched.runs[i].window < sched.next
         /\ \A i \in DOMAIN cachedSched.runs : cachedSched.runs[i].window < cachedSched.next
         /\ cachedSched.next <= sched.next
<1>1. TypeOK /\ GoodHistories /\ PointerLags /\ at <= now
  BY DEF IInv, CopiesCurrent
<1>2. at \in Nat /\ now \in Nat /\ now \in 0..MaxTime /\ MaxTime \in Nat
  BY <1>1, ScheduleBoundsAssumption DEF TypeOK
<1>3. at \in 0..MaxTime
  BY <1>1, <1>2
<1>4. \A w \in Fires : w \in Nat /\ w # NotYet /\ w > NotYet
  BY FiresAssumption DEF NotYet
<1>5. ASSUME NEW st \in ScheduleStatus, GoodHistory(st)
      PROVE  st.next \in Int /\ st.last \in Int /\ \A i \in DOMAIN st.runs : st.runs[i].window < st.next
  <2>1. /\ st.next \in Int /\ st.last \in Int
        /\ \A i \in DOMAIN st.runs : st.runs[i].window \in Nat
    BY StatusFields
  <2>2. CASE st.next = NotYet
    <3>1. DOMAIN st.runs = {}
      BY <1>5, <2>2 DEF GoodHistory
    <3> QED BY <2>1, <3>1
  <2>3. CASE st.next # NotYet
    BY <1>5, <2>1, <2>3 DEF GoodHistory
  <2> QED BY <2>2, <2>3, <2>1
<1>6. /\ sched \in ScheduleStatus /\ cachedSched \in ScheduleStatus /\ local \in ScheduleStatus
      /\ GoodHistory(sched) /\ GoodHistory(cachedSched) /\ GoodHistory(local)
  BY <1>1 DEF TypeOK, GoodHistories
<1> QED BY <1>1, <1>2, <1>3, <1>4, <1>5, <1>6 DEF PointerLags

LEMMA BeginStep ==
  ASSUME IInv, TypeOK', Begin
  PROVE  IInv'
<1> USE DEF apiVars, cacheVars, passVars, schedQueue, runVars, envVars
<1>1. /\ pc = "idle" /\ at' = now /\ idx' = 1 /\ localFresh' = schedFresh
      /\ UNCHANGED <<sched, runs, cachedSched, cachedRuns, schedFresh, runPass, now, created>>
  BY DEF Begin
<1>2. /\ TypeOK /\ CopiesCurrent /\ GoodHistories /\ EndsWereSeen /\ PointerLags
      /\ CreatedOnce /\ NoOrphanRuns
  BY DEF IInv
<1>3. cachedSched \in ScheduleStatus /\ GoodHistory(cachedSched)
  BY <1>2 DEF TypeOK, GoodHistories
<1>4. CASE cachedSched.next = NotYet
  <2>1. local' = [cachedSched EXCEPT !.next = NextFire(now)] /\ pc' = "update"
    BY <1>4 DEF Begin
  <2>2. NextFire(now) \in Fires
    BY Pointers, NextFireAfter
  <2>3. /\ GoodHistory(local') /\ local'.next = NextFire(now)
        /\ local'.last = NotYet /\ local'.runs = <<>>
    BY <1>3, <1>4, <2>1, <2>2, SeedGood
  <2>4. DOMAIN local'.runs = {} /\ DOMAIN cachedSched.runs = {}
    BY <2>3, <1>3, <1>4 DEF GoodHistory
  <2>5. PassCurrent'
    <3> SUFFICES ASSUME schedFresh PROVE PassCurrent'
      BY <1>1 DEF PassCurrent
    <3>1. cachedSched = sched
      BY <1>2 DEF CopiesCurrent
    <3>2. Seeded' /\ local'.next # NotYet
      BY <1>1, <1>4, <2>2, <2>3, <3>1, Pointers DEF Seeded
    <3>3. \A w \in Fires : w \notin Windows(sched) /\ w # sched.next
      BY <1>4, <2>4, <3>1, Pointers DEF Windows
    <3>4. \A w \in Fires : runs'[w] = "Absent"
      BY <1>1, <1>2, <3>3 DEF NoOrphanRuns
    <3> QED BY <2>1, <3>2, <3>4 DEF PassCurrent
  <2>6. CopiesCurrent' /\ GoodHistories' /\ PointerLags' /\ CreatedOnce' /\ NoOrphanRuns'
    BY <1>1, <1>2, <2>1, <2>3, Pointers
    DEF CopiesCurrent, Started, GoodHistories, GoodHistory, PointerLags, CreatedOnce, NoOrphanRuns, Windows
  <2>7. EndsWereSeen' /\ PassBehind' /\ Collecting'
    BY <1>1, <1>2, <2>1, <2>4 DEF EndsWereSeen, EndWasSeen, PassBehind, Collecting
  <2> QED BY <2>5, <2>6, <2>7 DEF IInv
<1>5. CASE cachedSched.next # NotYet
  <2>1. /\ local' = cachedSched /\ pc' \in {"fire", "refresh"}
        /\ pc' = "fire" => now >= cachedSched.next
    BY <1>5 DEF Begin, IsDue
  <2>2. PassCurrent'
    <3> SUFFICES ASSUME schedFresh PROVE PassCurrent'
      BY <1>1 DEF PassCurrent
    <3>1. cachedSched = sched
      BY <1>2 DEF CopiesCurrent
    <3>2. \A w \in Fires : runs'[w] # "Absent" => w \in Windows(local)' \/ w = local'.next
      BY <1>1, <1>2, <2>1, <3>1 DEF NoOrphanRuns, Windows
    <3> QED BY <1>1, <1>5, <2>1, <3>1, <3>2 DEF PassCurrent, Unfired
  <2>3. CopiesCurrent' /\ GoodHistories' /\ EndsWereSeen' /\ PointerLags' /\ NoOrphanRuns'
    BY <1>1, <1>2, <2>1, Pointers
    DEF CopiesCurrent, Started, GoodHistories, GoodHistory, EndsWereSeen, EndWasSeen, PointerLags,
        NoOrphanRuns, Windows
  <2>4. CreatedOnce'
    BY <1>1, <1>2, <2>1, Pointers DEF CreatedOnce
  <2>5. PassBehind'
    BY <1>1, <1>2, <1>5, <2>1, Pointers DEF PassBehind, PointerLags
  <2>6. Collecting'
    BY <2>1 DEF Collecting
  <2> QED BY <2>2, <2>3, <2>4, <2>5, <2>6 DEF IInv
<1> QED BY <1>4, <1>5

(* A Create that makes a new Run is for the window of the fire pointer, of
   which no copy of the status has an entry. *)
LEMMA CreatesNew ==
  ASSUME IInv, TypeOK', pc = "fire", CreateRun(local.next)
  PROVE  /\ local.next \in Fires /\ runs'[local.next] # "Absent" /\ created'[local.next] = 1
         /\ \A w \in Fires : w # local.next => runs'[w] = runs[w] /\ created'[w] = created[w]
         /\ runs[local.next] = "Absent" => local.next = sched.next /\ created[local.next] = 0
         /\ runs[local.next] # "Absent" => runs' = runs
<1> DEFINE w0 == local.next
<1>1. TypeOK /\ CreatedOnce /\ created \in [Fires -> 0..MaxCreated]
  BY DEF IInv, TypeOK
<1>2. w0 \in Fires /\ (w0 = sched.next \/ created[w0] = 1)
  <2>1. w0 \in Fires \cup {NotYet}
    BY <1>1, StatusFields DEF TypeOK
  <2> QED BY <2>1 DEF IInv, PassBehind
<1>3. /\ runs'[w0] # "Absent"
      /\ \A v \in Fires : v # w0 => runs'[v] = runs[v] /\ created'[v] = created[v]
      /\ runs[w0] # "Absent" => runs' = runs /\ created' = created
      /\ runs[w0] = "Absent" /\ created[w0] = 0 => created'[w0] = 1
  BY <1>1, <1>2, CreateType
<1>4. /\ created[w0] \in {0, 1}
      /\ created[w0] = 0 => runs[w0] = "Absent"
      /\ runs[w0] = "Absent" => created[w0] # 1
  BY <1>1, <1>2 DEF CreatedOnce, MaxCreated
<1> HIDE DEF w0
<1>5. created'[w0] = 1
  BY <1>3, <1>4
<1>6. runs[w0] = "Absent" => w0 = sched.next /\ created[w0] = 0
  BY <1>2, <1>4
<1> QED BY <1>2, <1>3, <1>5, <1>6 DEF w0

(* Entries are older than the pointers. *)
LEMMA EntriesOlder ==
  ASSUME IInv, pc = "fire"
  PROVE  /\ \A i \in DOMAIN sched.runs :
              sched.runs[i].window \in Fires /\ sched.runs[i].window < sched.next
         /\ \A i \in DOMAIN cachedSched.runs :
              cachedSched.runs[i].window \in Fires /\ cachedSched.runs[i].window < sched.next
         /\ \A i \in DOMAIN local.runs :
              local.runs[i].window \in Fires /\ local.runs[i].window < local.next
<1>1. \A i \in DOMAIN local.runs : local.runs[i].window < local.next
  <2>1. local \in ScheduleStatus /\ GoodHistory(local) /\ local.next # NotYet
    BY Pointers DEF IInv, PassBehind, TypeOK, GoodHistories
  <2>2. /\ local.last < local.next /\ local.last \in Int /\ local.next \in Int
        /\ \A i \in DOMAIN local.runs : local.runs[i].window \in Nat /\ local.runs[i].window <= local.last
    BY <2>1, StatusFields DEF GoodHistory
  <2> QED BY <2>2
<1>2. /\ \A i \in DOMAIN sched.runs :
           sched.runs[i].window \in Fires /\ sched.runs[i].window < sched.next
      /\ \A i \in DOMAIN cachedSched.runs :
           cachedSched.runs[i].window \in Fires /\ cachedSched.runs[i].window < sched.next
      /\ \A i \in DOMAIN local.runs :
           local.runs[i].window \in Fires /\ local.runs[i].window < local.next
  BY <1>1, EntryWindows, Pointers DEF IInv
<1> QED BY <1>2

(* The parts on the statuses and the Runs survive a Create. *)
LEMMA CreateKeeps ==
  ASSUME IInv, TypeOK', pc = "fire", CreateRun(local.next), pc' # "fire",
         UNCHANGED <<sched, cachedSched, cachedRuns>>
  PROVE  /\ EndWasSeen(sched)' /\ EndWasSeen(cachedSched)'
         /\ \A i \in DOMAIN local.runs :
              IsTerminalEntry(local.runs[i]) /\ runs'[local.runs[i].window] # "Absent"
                => cachedRuns[local.runs[i].window] # "Absent"
         /\ PointerLags' /\ CreatedOnce' /\ NoOrphanRuns'
<1>1. /\ TypeOK /\ EndsWereSeen /\ PointerLags /\ CreatedOnce /\ NoOrphanRuns
  BY DEF IInv
<1>2. /\ local.next \in Fires /\ runs'[local.next] # "Absent" /\ created'[local.next] = 1
      /\ \A w \in Fires : w # local.next => runs'[w] = runs[w] /\ created'[w] = created[w]
      /\ runs[local.next] = "Absent" => local.next = sched.next /\ created[local.next] = 0
      /\ runs[local.next] # "Absent" => runs' = runs
  BY CreatesNew
<1>4. /\ \A i \in DOMAIN sched.runs :
           sched.runs[i].window \in Fires /\ sched.runs[i].window < sched.next
      /\ \A i \in DOMAIN cachedSched.runs :
           cachedSched.runs[i].window \in Fires /\ cachedSched.runs[i].window < sched.next
      /\ \A i \in DOMAIN local.runs :
           local.runs[i].window \in Fires /\ local.runs[i].window < local.next
  BY <1>1, EntriesOlder
<1>6. ASSUME NEW w \in Fires, runs'[w] # "Absent", w < local.next \/ w < sched.next
      PROVE  runs[w] # "Absent"
  BY <1>2, <1>6, Pointers
<1>7. /\ EndWasSeen(sched)' /\ EndWasSeen(cachedSched)'
      /\ \A i \in DOMAIN local.runs :
           IsTerminalEntry(local.runs[i]) /\ runs'[local.runs[i].window] # "Absent"
             => cachedRuns[local.runs[i].window] # "Absent"
  BY <1>1, <1>4, <1>6 DEF EndsWereSeen, EndWasSeen
<1>8. PointerLags'
  <2>1. cachedSched.next \in Fires \cup {NotYet}
    BY <1>1, StatusFields DEF TypeOK
  <2> QED BY <1>1, <1>2, <2>1 DEF PointerLags
<1>9. CreatedOnce'
  BY <1>1, <1>2 DEF CreatedOnce
<1>10. NoOrphanRuns'
  BY <1>1, <1>2 DEF NoOrphanRuns, Windows
<1> QED BY <1>7, <1>8, <1>9, <1>10

LEMMA FireStep ==
  ASSUME IInv, TypeOK', Fire
  PROVE  IInv'
<1> USE DEF apiVars, cacheVars, passVars, schedQueue, runVars, envVars
<1>1. /\ pc = "fire" /\ pc' = "refresh" /\ CreateRun(local.next)
      /\ local' = [next |-> NextFire(at), last |-> local.next, active |-> local.next,
                   runs |-> RecordRun(local, local.next)]
      /\ UNCHANGED <<sched, cachedSched, cachedRuns, schedFresh, idx, localFresh, at, runPass, now>>
  BY DEF Fire
<1>2. /\ TypeOK /\ CopiesCurrent /\ GoodHistories /\ PassBehind /\ PassCurrent
  BY DEF IInv
<1>3. /\ local.next \in Fires /\ runs'[local.next] # "Absent" /\ created'[local.next] = 1
      /\ \A w \in Fires : w # local.next => runs'[w] = runs[w] /\ created'[w] = created[w]
  BY <1>1, CreatesNew
<1>4. /\ EndWasSeen(sched)' /\ EndWasSeen(cachedSched)'
      /\ \A i \in DOMAIN local.runs :
           IsTerminalEntry(local.runs[i]) /\ runs'[local.runs[i].window] # "Absent"
             => cachedRuns[local.runs[i].window] # "Absent"
      /\ PointerLags' /\ CreatedOnce' /\ NoOrphanRuns'
  BY <1>1, CreateKeeps
<1>5. /\ local.next # NotYet /\ local.next <= at /\ local.next <= cachedSched.next /\ idx = 1
  BY <1>1, <1>2 DEF PassBehind
<1>6. NextFire(at) \in Fires /\ NextFire(at) > local.next
  <2>1. NextFire(at) \in Fires /\ NextFire(at) > at
    BY Pointers, NextFireAfter
  <2> QED BY <1>5, <2>1, Pointers
<1> DEFINE k == Len(local.runs) + 1
<1>7. /\ GoodHistory(local') /\ local'.last = local.next /\ local'.next = NextFire(at)
      /\ DOMAIN local'.runs = DOMAIN local.runs \cup {k}
      /\ \A i \in DOMAIN local.runs : local'.runs[i] = local.runs[i]
      /\ local'.runs[k] = [window |-> local.next, phase |-> "InFlight"]
  <2>1. local \in ScheduleStatus /\ GoodHistory(local)
    BY <1>2 DEF TypeOK, GoodHistories
  <2> DEFINE n == NextFire(at)
             r == local'
  <2>2. r = FiredStatus(local, n)
    BY <1>1 DEF FiredStatus
  <2>3. local.next # NotYet /\ n \in Fires /\ n > local.next
    BY <1>5, <1>6
  <2> HIDE DEF n, r
  <2>4. /\ GoodHistory(r) /\ r.last = local.next /\ r.next = n
        /\ DOMAIN r.runs = DOMAIN local.runs \cup {Len(local.runs) + 1}
        /\ \A i \in DOMAIN local.runs : r.runs[i] = local.runs[i]
        /\ r.runs[Len(local.runs) + 1] = [window |-> local.next, phase |-> "InFlight"]
    BY <2>1, <2>2, <2>3, RecordGood
  <2> QED BY <2>4 DEF n, r
<1> HIDE DEF k
<1>8. local'.runs[k].window = local.next /\ ~IsTerminalEntry(local'.runs[k])
  BY <1>7 DEF IsTerminalEntry, IsRunTerminal
<1>9. GoodHistories' /\ CopiesCurrent'
  BY <1>1, <1>2, <1>7 DEF GoodHistories, GoodHistory, CopiesCurrent, Started
<1>10. EndsWereSeen'
  BY <1>1, <1>4, <1>7, <1>8 DEF EndsWereSeen, EndWasSeen
<1>11. PassBehind'
  <2>1. /\ local \in ScheduleStatus /\ GoodHistory(local)
        /\ \A i \in DOMAIN local.runs : local.runs[i].window \in Nat
        /\ local.last \in Int /\ local.next \in Int /\ local.last < local.next
        /\ \A i \in DOMAIN local.runs : local.runs[i].window <= local.last
    BY <1>2, <1>5, StatusFields DEF TypeOK, GoodHistories, GoodHistory
  <2>2. \A i \in DOMAIN local.runs : local.runs[i].window < cachedSched.next
    BY <1>5, <2>1, Pointers
  <2>3. \A i \in DOMAIN local'.runs :
          local'.runs[i].window < cachedSched.next \/ local'.runs[i].window = local'.last
    BY <1>7, <1>8, <2>2
  <2> QED BY <1>1, <1>5, <2>3 DEF PassBehind
<1>12. PassCurrent'
  <2> SUFFICES ASSUME localFresh PROVE PassCurrent'
    BY <1>1 DEF PassCurrent
  <2>1. local = sched /\ sched.next # NotYet
    BY <1>1, <1>2 DEF PassCurrent
  <2>2. Fired'
    BY <1>1, <1>3, <1>5, <1>6, <1>7, <2>1 DEF Fired
  <2>3. \A w \in Fires : runs[w] # "Absent" => w \in Windows(local) \/ w = local.next
    BY <1>2 DEF PassCurrent
  <2>4. \A w \in Fires : w \in Windows(local) \/ w = local.next => w \in Windows(local)'
    BY <1>7, <1>8 DEF Windows
  <2>5. \A w \in Fires : runs'[w] # "Absent" => w \in Windows(local)'
    BY <1>3, <2>3, <2>4
  <2>6. local'.next # NotYet
    BY <1>6, <1>7, Pointers
  <2> QED BY <1>1, <2>2, <2>5, <2>6 DEF PassCurrent
<1>13. Collecting'
  BY <1>1 DEF Collecting
<1> QED BY <1>4, <1>9, <1>10, <1>11, <1>12, <1>13 DEF IInv

(* A pass that is over leaves nothing behind. *)
LEMMA PassOver ==
  ASSUME pc' = "idle", idx' = 1, localFresh' = FALSE, local' = NewSchedule
  PROVE  /\ GoodHistory(local)' /\ EndWasSeen(local)'
         /\ PassBehind' /\ PassCurrent' /\ Collecting'
<1>1. GoodHistory(local)' /\ DOMAIN local'.runs = {}
  BY NewScheduleOK DEF GoodHistory
<1> QED BY <1>1 DEF EndWasSeen, PassBehind, PassCurrent, Collecting

LEMMA FireErrorStep ==
  ASSUME IInv, TypeOK', FireError
  PROVE  IInv'
<1> USE DEF apiVars, cacheVars, passVars, schedQueue, runVars, envVars
<1>1. /\ pc = "fire" /\ Return(TRUE)
      /\ CreateRun(local.next) \/ UNCHANGED <<runs, freshRuns, created>>
      /\ UNCHANGED <<sched, cachedSched, cachedRuns, schedFresh, runPass, now>>
  BY DEF FireError
<1>2. /\ pc' = "idle" /\ idx' = 1 /\ at' = 0 /\ localFresh' = FALSE
      /\ GoodHistory(local)' /\ EndWasSeen(local)'
      /\ PassBehind' /\ PassCurrent' /\ Collecting'
  BY <1>1, PassOver DEF Return
<1>3. /\ EndWasSeen(sched)' /\ EndWasSeen(cachedSched)'
      /\ PointerLags' /\ CreatedOnce' /\ NoOrphanRuns'
  <2>1. CASE CreateRun(local.next)
    BY <1>1, <1>2, <2>1, CreateKeeps
  <2>2. CASE UNCHANGED <<runs, freshRuns, created>>
    BY <1>1, <1>2, <2>2
    DEF IInv, EndsWereSeen, EndWasSeen, PointerLags, CreatedOnce, NoOrphanRuns, Windows
  <2> QED BY <1>1, <2>1, <2>2
<1>4. CopiesCurrent' /\ GoodHistories'
  BY <1>1, <1>2, Pointers DEF IInv, CopiesCurrent, GoodHistories, GoodHistory
<1> QED BY <1>2, <1>3, <1>4 DEF IInv, EndsWereSeen

LEMMA RefreshStep ==
  ASSUME IInv, TypeOK', Refresh
  PROVE  IInv'
<1> USE DEF apiVars, cacheVars, passVars, schedQueue, runVars, envVars
<1>1. /\ pc = "refresh" /\ local' = RefreshRunPhases(local)
      /\ pc' = IF Excess(local') = {} THEN "update" ELSE "gc"
      /\ UNCHANGED <<sched, runs, cachedSched, cachedRuns, schedFresh, idx, localFresh, at, runPass,
                     now, created>>
  BY DEF Refresh
<1>2. TypeOK /\ CopiesCurrent /\ GoodHistories /\ EndsWereSeen /\ PassBehind /\ PassCurrent
  BY DEF IInv
<1>3. /\ GoodHistory(local') /\ local'.last = local.last /\ local'.next = local.next
      /\ DOMAIN local'.runs = DOMAIN local.runs
      /\ \A i \in DOMAIN local.runs :
           /\ local'.runs[i].window = local.runs[i].window
           /\ local'.runs[i].phase = IF cachedRuns[local.runs[i].window] = "Absent"
                                       THEN local.runs[i].phase ELSE cachedRuns[local.runs[i].window]
  BY <1>1, <1>2, MirrorGood DEF TypeOK, GoodHistories
<1>4. GoodHistories' /\ CopiesCurrent'
  BY <1>1, <1>2, <1>3 DEF GoodHistories, GoodHistory, CopiesCurrent, Started
<1>5. EndWasSeen(local)'
  BY <1>1, <1>2, <1>3 DEF EndsWereSeen, EndWasSeen, IsTerminalEntry
<1>6. EndsWereSeen' /\ PointerLags' /\ NoOrphanRuns'
  BY <1>1, <1>2, <1>5 DEF IInv, EndsWereSeen, EndWasSeen, PointerLags, NoOrphanRuns, Windows
<1>7. CreatedOnce'
  BY <1>1 DEF IInv, CreatedOnce
<1>8. PassBehind'
  BY <1>1, <1>2, <1>3 DEF PassBehind
<1>9. PassCurrent'
  <2>1. Windows(local)' = Windows(local)
    BY <1>3 DEF Windows
  <2> QED BY <1>1, <1>2, <1>3, <2>1 DEF PassCurrent, Unfired, Seeded, Fired
<1>10. Collecting'
  <2> SUFFICES ASSUME pc' = "gc" PROVE Collecting'
    BY DEF Collecting
  <2>1. idx' = 1 /\ Excess(local') # {}
    BY <1>1, <1>2 DEF PassBehind
  <2>2. \A i \in Excess(local') : i \in DOMAIN local'.runs
    BY DEF Excess, Terminal
  <2>3. \A i \in DOMAIN local'.runs : i \in Nat /\ i >= 1
    <3>1. local \in ScheduleStatus
      BY <1>2 DEF TypeOK
    <3>2. DOMAIN local.runs = 1..Len(local.runs) /\ Len(local.runs) \in Nat
      BY <3>1, StatusFields
    <3> QED BY <1>3, <3>2
  <2>4. ToDelete' # {}
    BY <2>1, <2>2, <2>3 DEF ToDelete
  <2>5. \A i \in Excess(local') : ~(i < idx')
    BY <2>1, <2>2, <2>3
  <2> QED BY <2>4, <2>5 DEF Collecting
<1> QED BY <1>4, <1>6, <1>7, <1>8, <1>9, <1>10 DEF IInv

(* The parts that a deletion in gcOldRuns touches. *)
LEMMA DeleteKeeps ==
  ASSUME IInv, TypeOK', pc = "gc", pc' \in {"gc", "update"},
         \/ DeleteRun(local.runs[Oldest(ToDelete)].window)
         \/ UNCHANGED runs,
         UNCHANGED <<sched, cachedSched, cachedRuns, created>>
  PROVE  /\ \A w \in Fires : runs'[w] # "Absent" => runs[w] # "Absent"
         /\ EndWasSeen(sched)' /\ EndWasSeen(cachedSched)'
         /\ \A i \in DOMAIN local.runs :
              IsTerminalEntry(local.runs[i]) /\ runs'[local.runs[i].window] # "Absent"
                => cachedRuns[local.runs[i].window] # "Absent"
         /\ PointerLags' /\ CreatedOnce' /\ NoOrphanRuns'
<1> DEFINE v == local.runs[Oldest(ToDelete)].window
<1>1. /\ TypeOK /\ EndsWereSeen /\ PointerLags /\ CreatedOnce /\ NoOrphanRuns
  BY DEF IInv
<1>2. v \in Fires /\ v < cachedSched.next
  BY NextToDelete
<1> HIDE DEF v
<1>3. \A w \in Fires : runs'[w] = runs[w] \/ (w = v /\ runs'[w] = "Absent")
  <2>1. CASE DeleteRun(v)
    BY <1>1, <1>2, <2>1, DeleteType
  <2>2. CASE UNCHANGED runs
    BY <2>2
  <2> QED BY <2>1, <2>2 DEF v
<1>4. \A w \in Fires : runs'[w] # "Absent" => runs[w] # "Absent"
  BY <1>3
<1>5. /\ EndWasSeen(sched)' /\ EndWasSeen(cachedSched)'
      /\ \A i \in DOMAIN local.runs :
           IsTerminalEntry(local.runs[i]) /\ runs'[local.runs[i].window] # "Absent"
             => cachedRuns[local.runs[i].window] # "Absent"
  BY <1>1, <1>4, EntryWindows DEF EndsWereSeen, EndWasSeen
<1>6. PointerLags'
  BY <1>1 DEF PointerLags
<1>7. CreatedOnce'
  BY <1>1, <1>2, <1>3 DEF CreatedOnce
<1>8. NoOrphanRuns'
  BY <1>1, <1>4 DEF NoOrphanRuns, Windows
<1> QED BY <1>4, <1>5, <1>6, <1>7, <1>8

(* The Run of an ended entry is gone once it has been deleted: the cache has
   had it since it was seen to end. *)
LEMMA DeletedIsGone ==
  ASSUME IInv, pc = "gc", DeleteRun(local.runs[Oldest(ToDelete)].window)
  PROVE  runs'[local.runs[Oldest(ToDelete)].window] = "Absent"
<1> DEFINE i == Oldest(ToDelete)
           v == local.runs[i].window
<1>1. i \in DOMAIN local.runs /\ v \in Fires /\ IsTerminalEntry(local.runs[i])
  BY NextToDelete
<1>2. TypeOK /\ EndWasSeen(local)
  BY DEF IInv, EndsWereSeen
<1>3. runs[v] # "Absent" => cachedRuns[v] # "Absent"
  BY <1>1, <1>2 DEF EndWasSeen
<1>4. /\ cachedRuns[v] # "Absent" => runs'[v] = "Absent"
      /\ cachedRuns[v] = "Absent" => runs' = runs
  <2> HIDE DEF v
  <2>1. DeleteRun(v)
    BY DEF v
  <2> QED BY <1>1, <1>2, <2>1, DeleteType
<1> QED BY <1>3, <1>4

LEMMA GcRunStep ==
  ASSUME IInv, TypeOK', GcRun
  PROVE  IInv'
<1> USE DEF apiVars, cacheVars, passVars, schedQueue, runVars, envVars
<1> DEFINE o == Oldest(ToDelete)
           v == local.runs[o].window
<1>1. /\ pc = "gc" /\ DeleteRun(v)
      /\ UNCHANGED <<sched, cachedSched, cachedRuns, schedFresh, localFresh, at, runPass, now, created>>
      /\ \/ /\ ToDelete = {o} /\ pc' = "update" /\ local' = Compacted(local) /\ idx' = idx
         \/ /\ ToDelete # {o} /\ pc' = "gc" /\ local' = local /\ idx' = o + 1
  BY DEF GcRun
<1>2. TypeOK /\ CopiesCurrent /\ GoodHistories /\ PassBehind /\ PassCurrent /\ Collecting
  BY DEF IInv
<1>3. /\ o \in Excess(local) /\ o \in DOMAIN local.runs /\ o \in Nat /\ o >= idx
      /\ \A j \in ToDelete : o <= j
  BY <1>1, NextToDelete
<1>4. /\ \A w \in Fires : runs'[w] # "Absent" => runs[w] # "Absent"
      /\ EndWasSeen(sched)' /\ EndWasSeen(cachedSched)'
      /\ \A i \in DOMAIN local.runs :
           IsTerminalEntry(local.runs[i]) /\ runs'[local.runs[i].window] # "Absent"
             => cachedRuns[local.runs[i].window] # "Absent"
      /\ PointerLags' /\ CreatedOnce' /\ NoOrphanRuns'
  BY <1>1, DeleteKeeps
<1>5. runs'[v] = "Absent"
  BY <1>1, DeletedIsGone
<1>6. local \in ScheduleStatus /\ GoodHistory(local) /\ idx \in Nat
  BY <1>2 DEF TypeOK, GoodHistories
<1>7. \A i \in Excess(local) : i \in DOMAIN local.runs /\ i \in Nat /\ local.runs[i].window \in Fires
  BY <1>2, <1>6, ExcessOld, EntryWindows
<1>8. \A i \in Excess(local) : i < idx \/ i = o => runs'[local.runs[i].window] = "Absent"
  BY <1>1, <1>2, <1>4, <1>5, <1>7 DEF Collecting
<1> HIDE DEF o, v
<1>9. CASE ToDelete # {o} /\ pc' = "gc" /\ local' = local /\ idx' = o + 1
  <2>1. GoodHistories' /\ CopiesCurrent' /\ EndsWereSeen'
    BY <1>1, <1>2, <1>4, <1>9
    DEF GoodHistories, GoodHistory, CopiesCurrent, Started, EndsWereSeen, EndWasSeen
  <2>2. PassBehind' /\ PassCurrent'
    BY <1>1, <1>2, <1>4, <1>9 DEF PassBehind, PassCurrent, Windows, Unfired, Seeded, Fired
  <2>3. Excess(local)' = Excess(local)
    BY <1>9 DEF Excess, Terminal
  <2>4. PICK j \in ToDelete : j # o
    BY <1>2, <1>1, <1>9 DEF Collecting
  <2>5. j \in Excess(local) /\ j \in Nat /\ j >= o + 1
    BY <1>3, <1>7, <2>4 DEF ToDelete
  <2>6. ToDelete' # {}
    BY <1>9, <2>3, <2>5 DEF ToDelete
  <2>7. ASSUME NEW i \in Excess(local), i < o + 1
        PROVE  i < idx \/ i = o
    <3>1. i >= idx => i \in ToDelete
      BY DEF ToDelete
    <3> QED BY <1>3, <1>6, <1>7, <2>7, <3>1
  <2>8. Collecting'
    BY <1>8, <1>9, <2>3, <2>6, <2>7 DEF Collecting
  <2> QED BY <1>4, <2>1, <2>2, <2>8 DEF IInv
<1>10. CASE ToDelete = {o} /\ pc' = "update" /\ local' = Compacted(local) /\ idx' = idx
  <2>1. /\ GoodHistory(local') /\ local'.last = local.last /\ local'.next = local.next
        /\ \A i \in (DOMAIN local.runs) \ Excess(local) :
             \E k \in DOMAIN local'.runs : local'.runs[k] = local.runs[i]
        /\ \A k \in DOMAIN local'.runs : \E i \in DOMAIN local.runs : local'.runs[k] = local.runs[i]
    BY <1>6, <1>10, CompactedGood
  <2>2. GoodHistories' /\ CopiesCurrent'
    BY <1>1, <1>2, <1>10, <2>1 DEF GoodHistories, GoodHistory, CopiesCurrent, Started
  <2>3. EndsWereSeen'
    BY <1>1, <1>4, <2>1 DEF EndsWereSeen, EndWasSeen
  <2>4. PassBehind'
    BY <1>1, <1>2, <1>10, <2>1 DEF PassBehind
  <2>5. \A i \in Excess(local) : runs'[local.runs[i].window] = "Absent"
    <3> TAKE i \in Excess(local)
    <3>1. i >= idx => i = o
      BY <1>10 DEF ToDelete
    <3> QED BY <1>6, <1>7, <1>8, <3>1
  <2>6. PassCurrent'
    <3> SUFFICES ASSUME localFresh PROVE PassCurrent'
      BY <1>1 DEF PassCurrent
    <3>1. \A w \in Fires : runs'[w] # "Absent" => w \in Windows(local)' \/ w = local'.next
      <4> SUFFICES ASSUME NEW w \in Fires, runs'[w] # "Absent", w # local.next
                   PROVE  w \in Windows(local)'
        BY <2>1
      <4>1. w \in Windows(local)
        BY <1>2, <1>4 DEF PassCurrent
      <4>2. PICK i \in DOMAIN local.runs : local.runs[i].window = w
        BY <4>1 DEF Windows
      <4>3. i \notin Excess(local)
        BY <2>5, <4>2
      <4>4. PICK k \in DOMAIN local'.runs : local'.runs[k] = local.runs[i]
        BY <2>1, <4>3
      <4> QED BY <4>2, <4>4 DEF Windows
    <3> QED BY <1>1, <1>2, <1>10, <2>1, <3>1 DEF PassCurrent, Unfired, Seeded, Fired
  <2>7. Collecting'
    BY <1>10 DEF Collecting
  <2> QED BY <1>4, <2>2, <2>3, <2>4, <2>6, <2>7 DEF IInv
<1> QED BY <1>1, <1>9, <1>10

LEMMA GcErrorStep ==
  ASSUME IInv, TypeOK', GcError
  PROVE  IInv'
<1> USE DEF apiVars, cacheVars, passVars, schedQueue, runVars, envVars
<1>1. /\ pc = "gc" /\ pc' = "update"
      /\ DeleteRun(local.runs[Oldest(ToDelete)].window) \/ UNCHANGED runs
      /\ UNCHANGED <<sched, cachedSched, cachedRuns, schedFresh, idx, local, localFresh, at, runPass,
                     now, created>>
  BY DEF GcError
<1>2. TypeOK /\ CopiesCurrent /\ GoodHistories /\ PassBehind /\ PassCurrent
  BY DEF IInv
<1>3. /\ \A w \in Fires : runs'[w] # "Absent" => runs[w] # "Absent"
      /\ EndWasSeen(sched)' /\ EndWasSeen(cachedSched)'
      /\ \A i \in DOMAIN local.runs :
           IsTerminalEntry(local.runs[i]) /\ runs'[local.runs[i].window] # "Absent"
             => cachedRuns[local.runs[i].window] # "Absent"
      /\ PointerLags' /\ CreatedOnce' /\ NoOrphanRuns'
  BY <1>1, DeleteKeeps
<1>4. GoodHistories' /\ CopiesCurrent' /\ EndsWereSeen'
  BY <1>1, <1>2, <1>3 DEF GoodHistories, GoodHistory, CopiesCurrent, Started, EndsWereSeen, EndWasSeen
<1>5. PassBehind' /\ Collecting'
  BY <1>1, <1>2 DEF PassBehind, Collecting
<1>6. PassCurrent'
  BY <1>1, <1>2, <1>3 DEF PassCurrent, Windows, Unfired, Seeded, Fired
<1> QED BY <1>3, <1>4, <1>5, <1>6 DEF IInv

LEMMA UpdateStep ==
  ASSUME IInv, TypeOK', Update
  PROVE  IInv'
<1> USE DEF apiVars, cacheVars, passVars, schedQueue, runVars, envVars
<1>1. /\ pc = "update" /\ localFresh /\ sched' = local
      /\ schedFresh' = (schedFresh /\ sched' = sched)
      /\ pc' = "idle" /\ idx' = 1 /\ at' = 0 /\ localFresh' = FALSE /\ local' = NewSchedule
      /\ UNCHANGED <<runs, cachedSched, cachedRuns, runPass, now, created>>
  BY DEF Update, Return, SchedVersionMatches
<1>2. /\ TypeOK /\ CopiesCurrent /\ GoodHistories /\ EndsWereSeen /\ PointerLags
      /\ CreatedOnce /\ PassCurrent
  BY DEF IInv
<1>3. /\ GoodHistory(local)' /\ EndWasSeen(local)'
      /\ PassBehind' /\ PassCurrent' /\ Collecting'
  BY <1>1, PassOver
<1>4. cachedSched = sched
  BY <1>1, <1>2 DEF CopiesCurrent
<1>5. /\ local.next # NotYet /\ (Unfired \/ Seeded \/ Fired)
      /\ \A w \in Fires : runs[w] # "Absent" => w \in Windows(local) \/ w = local.next
  BY <1>1, <1>2 DEF PassCurrent
<1>6. CopiesCurrent'
  <2>1. schedFresh' => sched' = sched
    BY <1>1, Zenon
  <2>2. 0 <= now
    BY Pointers
  <2> QED BY <1>1, <1>2, <1>4, <2>1, <2>2 DEF CopiesCurrent
<1>7. GoodHistories'
  BY <1>1, <1>2, <1>3 DEF GoodHistories, GoodHistory
<1>8. EndsWereSeen'
  BY <1>1, <1>2, <1>3 DEF EndsWereSeen, EndWasSeen
<1>9. PointerLags'
  <2>1. local.next \in Fires /\ local.next > NotYet /\ sched.next \in Int /\ local.next \in Int
    <3>1. local.next \in Fires \cup {NotYet}
      BY <1>2, StatusFields DEF TypeOK
    <3> QED BY <1>5, <3>1, Pointers
  <2> QED BY <1>1, <1>4, <1>5, <2>1 DEF PointerLags, Unfired, Seeded, Fired
<1>10. CreatedOnce' /\ NoOrphanRuns'
  BY <1>1, <1>2, <1>5 DEF CreatedOnce, NoOrphanRuns, Windows
<1> QED BY <1>3, <1>6, <1>7, <1>8, <1>9, <1>10 DEF IInv

LEMMA UpdateErrorStep ==
  ASSUME IInv, TypeOK', UpdateError
  PROVE  IInv'
<1> USE DEF apiVars, cacheVars, passVars, schedQueue, runVars, envVars
<1>1. /\ pc' = "idle" /\ idx' = 1 /\ at' = 0 /\ localFresh' = FALSE /\ local' = NewSchedule
      /\ UNCHANGED <<sched, runs, cachedSched, schedFresh, cachedRuns, runPass, now, created>>
  BY DEF UpdateError, Return
<1>2. /\ GoodHistory(local)' /\ EndWasSeen(local)'
      /\ PassBehind' /\ PassCurrent' /\ Collecting'
  BY <1>1, PassOver
<1>3. CopiesCurrent' /\ GoodHistories'
  BY <1>1, <1>2, Pointers DEF IInv, CopiesCurrent, GoodHistories, GoodHistory
<1>4. EndsWereSeen' /\ PointerLags' /\ CreatedOnce' /\ NoOrphanRuns'
  BY <1>1, <1>2
  DEF IInv, EndsWereSeen, EndWasSeen, PointerLags, CreatedOnce, NoOrphanRuns, Windows
<1> QED BY <1>2, <1>3, <1>4 DEF IInv

LEMMA SyncSchedStep ==
  ASSUME IInv, TypeOK', SyncSched
  PROVE  IInv'
<1> USE DEF apiVars, cacheVars, passVars, schedQueue, runVars, envVars
<1>1. /\ ~schedFresh /\ cachedSched' = sched /\ schedFresh' = TRUE
      /\ UNCHANGED <<sched, runs, cachedRuns, pc, idx, local, localFresh, at, runPass, now, created>>
  BY DEF SyncSched
<1>2. /\ TypeOK /\ CopiesCurrent /\ GoodHistories /\ EndsWereSeen /\ PointerLags
      /\ CreatedOnce /\ NoOrphanRuns /\ PassBehind
  BY DEF IInv
<1>3. ~localFresh
  BY <1>1, <1>2 DEF CopiesCurrent
<1>4. CopiesCurrent' /\ PassCurrent'
  BY <1>1, <1>2, <1>3 DEF CopiesCurrent, Started, PassCurrent
<1>5. GoodHistories' /\ EndsWereSeen'
  BY <1>1, <1>2 DEF GoodHistories, GoodHistory, EndsWereSeen, EndWasSeen
<1>6. PointerLags' /\ CreatedOnce' /\ NoOrphanRuns'
  BY <1>1, <1>2, Pointers DEF PointerLags, CreatedOnce, NoOrphanRuns, Windows
<1>7. PassBehind'
  <2>1. \A i \in DOMAIN local.runs : local.runs[i].window \in Nat
    BY <1>2, EntryWindows, Pointers
  <2> QED BY <1>1, <1>2, <2>1, Pointers DEF PassBehind
<1>8. Collecting'
  BY <1>1 DEF IInv, Collecting, ToDelete, Excess, Terminal
<1> QED BY <1>4, <1>5, <1>6, <1>7, <1>8 DEF IInv

LEMMA CrashStep ==
  ASSUME IInv, TypeOK', Crash
  PROVE  IInv'
<1> USE DEF apiVars, cacheVars, passVars, schedQueue, runVars, envVars
<1>1. /\ pc' = "idle" /\ idx' = 1 /\ at' = 0 /\ localFresh' = FALSE /\ local' = NewSchedule
      /\ cachedSched' = sched /\ cachedRuns' = runs /\ runPass' = NoPass
      /\ UNCHANGED <<sched, runs, now, created>>
  BY DEF Crash
<1>2. /\ GoodHistory(local)' /\ EndWasSeen(local)'
      /\ PassBehind' /\ PassCurrent' /\ Collecting'
  BY <1>1, PassOver
<1>3. CopiesCurrent' /\ GoodHistories'
  BY <1>1, <1>2, Pointers DEF IInv, CopiesCurrent, GoodHistories, GoodHistory
<1>4. EndsWereSeen'
  BY <1>1, <1>2 DEF EndsWereSeen, EndWasSeen
<1>5. PointerLags' /\ CreatedOnce' /\ NoOrphanRuns'
  BY <1>1, Pointers DEF IInv, PointerLags, CreatedOnce, NoOrphanRuns, Windows
<1> QED BY <1>2, <1>3, <1>4, <1>5 DEF IInv

-----------------------------------------------------------------------------
(* The theorems. *)

LEMMA InvStep == IInv /\ [Next]_vars => IInv'
<1> SUFFICES ASSUME IInv, [Next]_vars PROVE IInv'
  OBVIOUS
<1>1. TypeOK'
  BY TypeStep
<1>2. ASSUME \/ RunController \/ TemplateReconcile \/ DeleteTemplate \/ ApplyTemplate
             \/ TimerFires \/ Tick
             \/ \E w \in Fires : TeamEnds(w) \/ TeamCollected(w) \/ SyncRun(w) \/ RunTimerFires(w)
             \/ UNCHANGED vars
      PROVE  IInv'
  <2>1. Quiet
    BY <1>2, QuietSteps
  <2> QED BY <1>1, <2>1, QuietStep
<1>3. CASE ScheduleController
  BY <1>1, <1>3, BeginStep, FireStep, FireErrorStep, RefreshStep, GcRunStep, GcErrorStep, UpdateStep,
     UpdateErrorStep
  DEF ScheduleController
<1>4. CASE SyncSched \/ Crash
  BY <1>1, <1>4, SyncSchedStep, CrashStep
<1> QED BY <1>2, <1>3, <1>4 DEF Next, Environment

(* Every reachable state satisfies the inductive invariant. *)
THEOREM InvHolds == Spec => []IInv
<1>1. Init => IInv
  BY InitInv
<1>2. IInv /\ [Next]_vars => IInv'
  BY InvStep
<1> QED BY <1>1, <1>2, PTL DEF Spec

(* The variables keep their types, for all schedules, bounds and faults: every
   status that a pass writes is well formed, whatever copy it has begun with. *)
THEOREM TypeCorrect == Spec => []TypeOK
<1>1. IInv => TypeOK
  BY DEF IInv
<1> QED BY <1>1, InvHolds, PTL

(* createRunForWindow: "repeated reconciles can never double-fire". *)
THEOREM FiresOnce == Spec => []FiresOncePerWindow
<1>1. IInv => FiresOncePerWindow
  BY DEF IInv, CreatedOnce, FiresOncePerWindow
<1> QED BY <1>1, InvHolds, PTL

(* A Run that exists is in the history, or fires next. *)
THEOREM NoOrphans == Spec => []NoOrphanRuns
<1>1. IInv => NoOrphanRuns
  BY DEF IInv
<1> QED BY <1>1, InvHolds, PTL

(* The history is in the order of the windows, all of which have fired. *)
THEOREM HistoryIsSorted == Spec => []HistorySorted
<1>1. IInv => HistorySorted
  <2> SUFFICES ASSUME IInv PROVE HistorySorted
    OBVIOUS
  <2>1. GoodHistory(sched)
    BY DEF IInv, GoodHistories
  <2>2. sched.next = NotYet => DOMAIN sched.runs = {}
    BY <2>1 DEF GoodHistory
  <2>3. \A w \in Windows(sched) : w <= sched.last /\ sched.last < sched.next
    BY <2>1, <2>2 DEF GoodHistory, Windows
  <2> QED BY <2>1, <2>3 DEF HistorySorted, GoodHistory, Sorted
<1> QED BY <1>1, InvHolds, PTL

(* activeRun names the newest Run, one whose end the history does not show. *)
THEOREM ActiveIsNewest == Spec => []ActiveRunIsNewest
<1>1. IInv => ActiveRunIsNewest
  BY DEF IInv, GoodHistories, GoodHistory, ActiveRunIsNewest
<1> QED BY <1>1, InvHolds, PTL

(* The pointer moves forward only, past a window that is due and has fired. *)
THEOREM PointerAdvances == Spec => FirePointerAdvances
<1> DEFINE A == /\ sched.next # NotYet => sched'.next >= sched.next
                /\ sched'.last # sched.last => sched'.last = sched.next /\ now >= sched.next
<1>1. IInv /\ [Next]_vars => [A]_vars
  <2> SUFFICES ASSUME IInv, Next PROVE A
    BY DEF vars
  <2>1. sched.next \in Int /\ sched.next >= sched.next
    BY Pointers
  <2>2. CASE Update
    <3>1. sched' = local /\ localFresh /\ pc = "update"
      BY <2>2 DEF Update, SchedVersionMatches
    <3>2. local.next # NotYet /\ (Unfired \/ Seeded \/ Fired)
      BY <3>1 DEF IInv, PassCurrent
    <3>3. Seeded => sched.last = NotYet
      BY DEF Seeded, IInv, GoodHistories, GoodHistory
    <3> QED BY <3>1, <3>2, <3>3, Pointers DEF Unfired, Seeded, Fired
  <2>3. CASE ~Update
    <3>1. CASE ScheduleController
      BY <2>1, <2>3, <3>1
      DEF ScheduleController, Begin, Fire, FireError, Refresh, GcRun, GcError, UpdateError, apiVars
    <3>2. CASE RunController
      BY <2>1, <3>2 DEF RunController, RunUpdate, RunError, RunTemplateMissing, RunTemplateNotReady,
                        RunEnsureTeam, RunNotFound, apiVars
    <3>3. CASE Environment
      BY <2>1, <3>3 DEF Environment, TemplateReconcile, DeleteTemplate, ApplyTemplate, SyncSched,
                        TimerFires, Tick, Crash, TeamEnds, TeamCollected, SyncRun, RunTimerFires, apiVars
    <3> QED BY <3>1, <3>2, <3>3 DEF Next
  <2> QED BY <2>2, <2>3
<1> QED BY <1>1, InvHolds, PTL DEF Spec, FirePointerAdvances

-----------------------------------------------------------------------------
(* As long as no template is deleted. *)

NoTemplateFault == "template" \notin FaultKinds

(* Where the end of a team shows, the team has ended, while the Run is there. *)
EndedEntriesTrue(st) ==
  \A i \in DOMAIN st.runs :
    runs[st.runs[i].window] # "Absent" /\ st.runs[i].phase = "Ended"
      => teams[st.runs[i].window] = "Ended"
EndIsTrue ==
  /\ EndedEntriesTrue(sched) /\ EndedEntriesTrue(cachedSched) /\ EndedEntriesTrue(local)
  /\ \A w \in Fires : runs[w] # "Absent" /\ (runs[w] = "Ended" \/ cachedRuns[w] = "Ended")
                      => teams[w] = "Ended"
  /\ runPass # NoPass =>
       /\ created[runPass.window] # 0
       /\ runs[runPass.window] # "Absent" /\ runPass.phase = "Ended" => teams[runPass.window] = "Ended"

(* And nothing has failed. *)
NoFailedEntry(st) == \A i \in DOMAIN st.runs : st.runs[i].phase # "Failed"
NothingFailed ==
  /\ template # "Missing" /\ runPass.phase # "Failed"
  /\ \A w \in Fires : runs[w] # "Failed" /\ cachedRuns[w] # "Failed"
  /\ NoFailedEntry(sched) /\ NoFailedEntry(cachedSched) /\ NoFailedEntry(local)

EndInv == EndIsTrue /\ NothingFailed

LEMMA EndInit == Init => EndInv
<1> SUFFICES ASSUME Init PROVE EndInv
  OBVIOUS
<1>1. /\ sched = NewSchedule /\ cachedSched = NewSchedule /\ local = NewSchedule
      /\ runPass = NoPass /\ template = "Unchecked"
      /\ \A w \in Fires : runs[w] = "Absent" /\ cachedRuns[w] = "Absent"
  BY DEF Init
<1>2. DOMAIN NewSchedule.runs = {}
  BY NewScheduleOK
<1>3. NoPass.phase = "InFlight"
  BY DEF NoPass
<1> QED BY <1>1, <1>2, <1>3 DEF EndInv, EndIsTrue, EndedEntriesTrue, NothingFailed, NoFailedEntry

(* What a step may do without anyone's taking note: Runs go, teams end. *)
EndsStay ==
  \A w \in Fires : /\ runs'[w] # "Absent" => runs[w] # "Absent"
                   /\ runs'[w] # "Absent" /\ teams[w] = "Ended" => teams'[w] = "Ended"

LEMMA EndedKept ==
  ASSUME TypeOK, EndInv, EndsStay
  PROVE  /\ \A i \in DOMAIN sched.runs :
              runs'[sched.runs[i].window] # "Absent" /\ sched.runs[i].phase = "Ended"
                => teams'[sched.runs[i].window] = "Ended"
         /\ \A i \in DOMAIN cachedSched.runs :
              runs'[cachedSched.runs[i].window] # "Absent" /\ cachedSched.runs[i].phase = "Ended"
                => teams'[cachedSched.runs[i].window] = "Ended"
         /\ \A i \in DOMAIN local.runs :
              runs'[local.runs[i].window] # "Absent" /\ local.runs[i].phase = "Ended"
                => teams'[local.runs[i].window] = "Ended"
         /\ \A w \in Fires : runs'[w] # "Absent" /\ (runs[w] = "Ended" \/ cachedRuns[w] = "Ended")
                             => teams'[w] = "Ended"
BY EntryWindows DEF EndInv, EndIsTrue, EndedEntriesTrue, EndsStay

(* Steps of the Run controller. *)
LEMMA EndRunController ==
  ASSUME IInv, EndInv, RunController
  PROVE  EndInv'
<1> USE DEF apiVars, cacheVars, passVars, schedQueue, runVars, envVars
<1>1. /\ TypeOK /\ CopiesCurrent /\ CreatedOnce
      /\ runs \in [Fires -> Phases \cup {"Absent"}]
      /\ teams \in [Fires -> {"Absent", "InFlight", "Ended"}]
  BY DEF IInv, TypeOK
<1>2. EndIsTrue /\ NothingFailed
  BY DEF EndInv
<1>3. CASE RunUpdate
  <2> DEFINE w == runPass.window
  <2>1. /\ runPass # NoPass /\ w \in Fires /\ runs[w] # "Absent" /\ runs' = [runs EXCEPT ![w] = runPass.phase]
        /\ runPass' = NoPass
        /\ UNCHANGED <<sched, teams, template, cachedSched, cachedRuns, local, created>>
    BY <1>1, <1>3 DEF RunUpdate, CopiesCurrent
  <2>2. /\ runPass.phase = "Ended" => teams[w] = "Ended"
        /\ runPass.phase # "Failed" /\ runPass.phase # "Absent"
    BY <1>1, <1>2, <2>1 DEF EndIsTrue, NothingFailed, TypeOK, Phases
  <2> HIDE DEF w
  <2>3. EndsStay
    BY <1>1, <2>1 DEF EndsStay
  <2>4. \A v \in Fires : runs'[v] = IF v = w THEN runPass.phase ELSE runs[v]
    BY <1>1, <2>1
  <2>5. EndIsTrue'
    BY <1>1, <1>2, <2>1, <2>2, <2>3, <2>4, EndedKept DEF EndInv, EndIsTrue, EndedEntriesTrue
  <2>6. NothingFailed'
    <3>1. NoPass.phase # "Failed"
      BY DEF NoPass
    <3> QED BY <1>2, <2>1, <2>2, <2>4, <3>1 DEF NothingFailed, NoFailedEntry
  <2> QED BY <2>5, <2>6 DEF EndInv
<1>4. CASE RunError
  <2>1. /\ runPass' = NoPass
        /\ UNCHANGED <<sched, runs, teams, template, cachedSched, cachedRuns, local, created>>
    BY <1>4 DEF RunError
  <2>2. NoPass.phase # "Failed"
    BY DEF NoPass
  <2> QED BY <1>2, <2>1, <2>2 DEF EndInv, EndIsTrue, EndedEntriesTrue, NothingFailed, NoFailedEntry
<1>5. ASSUME NEW w \in Fires,
             RunTemplateMissing(w) \/ RunTemplateNotReady(w) \/ RunEnsureTeam(w) \/ RunNotFound(w)
      PROVE  EndInv'
  <2>1. UNCHANGED <<sched, runs, template, cachedSched, cachedRuns, local, created>>
    BY <1>5 DEF RunTemplateMissing, RunTemplateNotReady, RunEnsureTeam, RunNotFound
  <2>2. \A v \in Fires : teams'[v] = teams[v] \/ (v = w /\ teams[v] = "Absent")
    BY <1>1, <1>5 DEF RunTemplateMissing, RunTemplateNotReady, RunEnsureTeam, RunNotFound
  <2>3. EndsStay
    BY <2>1, <2>2 DEF EndsStay
  <2>4. /\ runPass' # NoPass /\ runPass' # runPass =>
             /\ created[runPass'.window] # 0
             /\ runs[runPass'.window] # "Absent" /\ runPass'.phase = "Ended"
                  => teams'[runPass'.window] = "Ended"
        /\ runPass'.phase # "Failed"
    <3>1. CASE RunTemplateMissing(w)
      BY <1>2, <3>1 DEF RunTemplateMissing, NothingFailed
    <3>2. CASE RunTemplateNotReady(w)
      <4>1. runPass'.window = w /\ runPass'.phase = cachedRuns[w] /\ cachedRuns[w] # "Absent"
            /\ teams' = teams
        BY <3>2 DEF RunTemplateNotReady, RunBegin, RunWrites
      <4> QED BY <1>1, <1>2, <4>1 DEF CreatedOnce, EndIsTrue, NothingFailed
    <3>3. CASE RunEnsureTeam(w)
      <4>1. /\ runPass'.window = w /\ runPass'.phase = MirrorTeamStatus(w) /\ cachedRuns[w] # "Absent"
            /\ teams' = [teams EXCEPT ![w] = IF teams[w] = "Absent" THEN "InFlight" ELSE teams[w]]
        BY <3>3 DEF RunEnsureTeam, RunBegin, RunWrites
      <4>2. /\ MirrorTeamStatus(w) = "Ended" => teams'[w] = "Ended"
            /\ MirrorTeamStatus(w) # "Failed"
        BY <1>1, <4>1 DEF MirrorTeamStatus
      <4> QED BY <1>1, <4>1, <4>2 DEF CreatedOnce
    <3>4. CASE RunNotFound(w)
      BY <1>2, <3>4 DEF RunNotFound, NothingFailed
    <3> QED BY <1>5, <3>1, <3>2, <3>3, <3>4
  <2>5. runPass # NoPass => runPass' = runPass
    BY <1>5 DEF RunTemplateMissing, RunTemplateNotReady, RunEnsureTeam, RunNotFound, RunBegin
  <2>6. runPass # NoPass => teams' = teams
    BY <1>5 DEF RunTemplateMissing, RunTemplateNotReady, RunEnsureTeam, RunNotFound, RunBegin
  <2>7. EndIsTrue'
    BY <1>1, <1>2, <2>1, <2>3, <2>4, <2>5, <2>6, EndedKept DEF EndInv, EndIsTrue, EndedEntriesTrue
  <2>8. NothingFailed'
    BY <1>2, <2>1, <2>4 DEF NothingFailed, NoFailedEntry
  <2> QED BY <2>7, <2>8 DEF EndInv
<1> QED BY <1>3, <1>4, <1>5 DEF RunController

(* Steps of templates, teams, informers and timers. *)
LEMMA EndEnvironment ==
  ASSUME NoTemplateFault, IInv, EndInv, Environment
  PROVE  EndInv'
<1> USE DEF apiVars, cacheVars, passVars, schedQueue, runVars, envVars
<1>1. /\ TypeOK /\ CreatedOnce
      /\ cachedRuns \in [Fires -> Phases \cup {"Absent"}]
      /\ teams \in [Fires -> {"Absent", "InFlight", "Ended"}]
      /\ runPass = NoPass \/ runPass.window \in Fires
  BY DEF IInv, TypeOK, CopiesCurrent
<1>2. EndIsTrue /\ NothingFailed
  BY DEF EndInv
<1>3. CASE TemplateReconcile \/ ApplyTemplate \/ TimerFires \/ Tick
  <2>1. /\ UNCHANGED <<sched, runs, teams, cachedSched, cachedRuns, local, runPass, created>>
        /\ template' # "Missing"
    BY <1>2, <1>3 DEF TemplateReconcile, ApplyTemplate, TimerFires, Tick, NothingFailed
  <2> QED BY <1>2, <2>1 DEF EndInv, EndIsTrue, EndedEntriesTrue, NothingFailed, NoFailedEntry
<1>4. CASE DeleteTemplate
  BY <1>4 DEF DeleteTemplate, Fault, NoTemplateFault
<1>5. CASE SyncSched
  BY <1>2, <1>5 DEF SyncSched, EndInv, EndIsTrue, EndedEntriesTrue, NothingFailed, NoFailedEntry
<1>6. CASE Crash
  <2>1. /\ local' = NewSchedule /\ cachedSched' = sched /\ cachedRuns' = runs /\ runPass' = NoPass
        /\ UNCHANGED <<sched, runs, teams, template, created>>
    BY <1>6 DEF Crash
  <2>2. NoPass.phase # "Failed" /\ DOMAIN NewSchedule.runs = {}
    BY NewScheduleOK DEF NoPass
  <2> QED BY <1>2, <2>1, <2>2 DEF EndInv, EndIsTrue, EndedEntriesTrue, NothingFailed, NoFailedEntry
<1>7. ASSUME NEW w \in Fires, TeamEnds(w) \/ TeamCollected(w) \/ SyncRun(w) \/ RunTimerFires(w)
      PROVE  EndInv'
  <2>1. UNCHANGED <<sched, runs, template, cachedSched, local, runPass, created>>
    BY <1>7 DEF TeamEnds, TeamCollected, SyncRun, RunTimerFires
  <2>2. \A v \in Fires : teams'[v] = teams[v] \/ teams'[v] = "Ended" \/ runs[v] = "Absent"
    BY <1>1, <1>7 DEF TeamEnds, TeamCollected, SyncRun, RunTimerFires
  <2>3. \A v \in Fires : cachedRuns'[v] = cachedRuns[v] \/ cachedRuns'[v] = runs[v]
    BY <1>1, <1>7 DEF TeamEnds, TeamCollected, SyncRun, RunTimerFires
  <2>4. EndsStay
    BY <2>1, <2>2 DEF EndsStay
  <2>5. runPass # NoPass /\ runs[runPass.window] # "Absent" /\ runPass.phase = "Ended"
          => teams'[runPass.window] = "Ended"
    BY <1>1, <1>2, <2>2 DEF EndIsTrue
  <2>6. EndIsTrue'
    BY <1>1, <1>2, <2>1, <2>3, <2>4, <2>5, EndedKept DEF EndInv, EndIsTrue, EndedEntriesTrue
  <2>7. NothingFailed'
    BY <1>2, <2>1, <2>3 DEF NothingFailed, NoFailedEntry
  <2> QED BY <2>6, <2>7 DEF EndInv
<1> QED BY <1>3, <1>4, <1>5, <1>6, <1>7 DEF Environment

(* Steps of the schedule controller. *)
LEMMA EndCreate ==
  ASSUME IInv, TypeOK', EndInv, pc = "fire", CreateRun(local.next),
         UNCHANGED <<sched, cachedSched, cachedRuns, teams, runPass>>
  PROVE  /\ EndedEntriesTrue(sched)' /\ EndedEntriesTrue(cachedSched)'
         /\ \A i \in DOMAIN local.runs :
              runs'[local.runs[i].window] # "Absent" /\ local.runs[i].phase = "Ended"
                => teams'[local.runs[i].window] = "Ended"
         /\ \A w \in Fires : /\ runs'[w] # "Failed"
                             /\ runs'[w] # "Absent" /\ (runs'[w] = "Ended" \/ cachedRuns[w] = "Ended")
                                  => teams'[w] = "Ended"
         /\ runPass # NoPass =>
              /\ created'[runPass.window] # 0
              /\ runs'[runPass.window] # "Absent" /\ runPass.phase = "Ended"
                   => teams'[runPass.window] = "Ended"
<1> DEFINE w0 == local.next
<1>1. TypeOK /\ CopiesCurrent /\ CreatedOnce /\ EndIsTrue /\ NothingFailed
  BY DEF IInv, EndInv
<1>2. /\ w0 \in Fires /\ runs'[w0] # "Absent" /\ created'[w0] = 1
      /\ \A w \in Fires : w # w0 => runs'[w] = runs[w] /\ created'[w] = created[w]
      /\ runs[w0] = "Absent" => w0 = sched.next /\ created[w0] = 0
      /\ runs[w0] # "Absent" => runs' = runs
  BY CreatesNew
<1>3. CASE runs[w0] # "Absent"
  <2>1. runPass # NoPass => created'[runPass.window] # 0
    BY <1>1, <1>2 DEF CopiesCurrent, EndIsTrue
  <2> QED BY <1>1, <1>2, <1>3, <2>1 DEF EndIsTrue, EndedEntriesTrue, NothingFailed
<1>4. CASE runs[w0] = "Absent"
  <2>1. w0 = sched.next /\ created[w0] = 0 /\ cachedRuns[w0] = "Absent"
    BY <1>1, <1>2, <1>4 DEF CreatedOnce
  <2>2. runs'[w0] = "InFlight"
    BY <1>1, <1>2, <1>4, CreateType
  <2>3. runPass # NoPass => runPass.window \in Fires /\ runPass.window # w0
    BY <1>1, <2>1 DEF CopiesCurrent, EndIsTrue
  <2>4. /\ \A i \in DOMAIN sched.runs : sched.runs[i].window \in Fires /\ sched.runs[i].window # w0
        /\ \A i \in DOMAIN cachedSched.runs :
             cachedSched.runs[i].window \in Fires /\ cachedSched.runs[i].window # w0
        /\ \A i \in DOMAIN local.runs : local.runs[i].window \in Fires /\ local.runs[i].window # w0
    BY <1>2, <2>1, EntriesOlder, Pointers
  <2> HIDE DEF w0
  <2>5. EndedEntriesTrue(sched)' /\ EndedEntriesTrue(cachedSched)'
    BY <1>1, <1>2, <2>4 DEF EndIsTrue, EndedEntriesTrue
  <2>6. \A i \in DOMAIN local.runs :
          runs'[local.runs[i].window] # "Absent" /\ local.runs[i].phase = "Ended"
            => teams'[local.runs[i].window] = "Ended"
    BY <1>1, <1>2, <2>4 DEF EndIsTrue, EndedEntriesTrue
  <2>7. \A w \in Fires : /\ runs'[w] # "Failed"
                         /\ runs'[w] # "Absent" /\ (runs'[w] = "Ended" \/ cachedRuns[w] = "Ended")
                              => teams'[w] = "Ended"
    BY <1>1, <1>2, <2>1, <2>2 DEF EndIsTrue, NothingFailed
  <2>8. runPass # NoPass =>
          /\ created'[runPass.window] # 0
          /\ runs'[runPass.window] # "Absent" /\ runPass.phase = "Ended"
               => teams'[runPass.window] = "Ended"
    BY <1>1, <1>2, <2>3 DEF EndIsTrue
  <2> QED BY <2>5, <2>6, <2>7, <2>8
<1> QED BY <1>3, <1>4

(* The history of a new pass, or of none. *)
LEMMA EmptyIsTrue ==
  ASSUME DOMAIN local'.runs = {}
  PROVE  EndedEntriesTrue(local)' /\ NoFailedEntry(local)'
BY DEF EndedEntriesTrue, NoFailedEntry

LEMMA EndScheduleController ==
  ASSUME IInv, TypeOK', EndInv, ScheduleController
  PROVE  EndInv'
<1> USE DEF apiVars, cacheVars, passVars, schedQueue, runVars, envVars
<1>1. TypeOK /\ GoodHistories /\ PassBehind
  BY DEF IInv
<1>2. EndIsTrue /\ NothingFailed
  BY DEF EndInv
<1>3. DOMAIN NewSchedule.runs = {}
  BY NewScheduleOK
<1>4. CASE Begin
  <2>1. /\ UNCHANGED <<sched, runs, teams, template, cachedSched, cachedRuns, runPass, created>>
    BY <1>4 DEF Begin
  <2>2. EndedEntriesTrue(local)' /\ NoFailedEntry(local)'
    <3>1. CASE cachedSched.next = NotYet
      <4>1. DOMAIN cachedSched.runs = {}
        BY <1>1, <3>1 DEF GoodHistories, GoodHistory
      <4>2. cachedSched \in ScheduleStatus /\ local' = [cachedSched EXCEPT !.next = NextFire(now)]
        BY <1>1, <1>4, <3>1 DEF Begin, TypeOK
      <4>3. local'.runs = cachedSched.runs
        BY <4>2 DEF ScheduleStatus
      <4> QED BY <4>1, <4>3, EmptyIsTrue
    <3>2. CASE cachedSched.next # NotYet
      BY <1>2, <1>4, <2>1, <3>2 DEF Begin, EndIsTrue, EndedEntriesTrue, NothingFailed, NoFailedEntry
    <3> QED BY <3>1, <3>2
  <2> QED BY <1>2, <2>1, <2>2 DEF EndInv, EndIsTrue, EndedEntriesTrue, NothingFailed, NoFailedEntry
<1>5. CASE Fire
  <2>1. /\ pc = "fire" /\ CreateRun(local.next)
        /\ local' = FiredStatus(local, NextFire(at))
        /\ UNCHANGED <<sched, cachedSched, cachedRuns, teams, runPass, template>>
    BY <1>5 DEF Fire, FiredStatus
  <2>2. local'.runs = RecordRun(local, local.next) /\ local.runs \in Seq(Entries)
    BY <1>1, <2>1, StatusFields DEF FiredStatus, TypeOK
  <2>3. \A i \in DOMAIN local'.runs :
          \/ i \in DOMAIN local.runs /\ local'.runs[i] = local.runs[i]
          \/ local'.runs[i].phase = "InFlight"
    <3> DEFINE e == [window |-> local.next, phase |-> "InFlight"]
    <3>1. e.phase = "InFlight" /\ (local'.runs = local.runs \/ local'.runs = Append(local.runs, e))
      BY <2>2 DEF RecordRun
    <3> HIDE DEF e
    <3> QED BY <2>2, <3>1
  <2>4. EndedEntriesTrue(local)' /\ NoFailedEntry(local)'
    BY <1>2, <2>1, <2>3, EndCreate DEF EndedEntriesTrue, NothingFailed, NoFailedEntry
  <2> QED BY <1>2, <2>1, <2>4, EndCreate
          DEF EndInv, EndIsTrue, NothingFailed, NoFailedEntry
<1>6. CASE FireError
  <2>1. /\ pc = "fire" /\ local' = NewSchedule
        /\ CreateRun(local.next) \/ UNCHANGED <<runs, freshRuns, created>>
        /\ UNCHANGED <<sched, cachedSched, cachedRuns, teams, runPass, template>>
    BY <1>6 DEF FireError, Return
  <2>2. EndedEntriesTrue(local)' /\ NoFailedEntry(local)'
    BY <1>3, <2>1, EmptyIsTrue
  <2>3. CASE CreateRun(local.next)
    BY <1>2, <2>1, <2>2, <2>3, EndCreate DEF EndInv, EndIsTrue, NothingFailed, NoFailedEntry
  <2>4. CASE UNCHANGED <<runs, freshRuns, created>>
    BY <1>2, <2>1, <2>2, <2>4 DEF EndInv, EndIsTrue, EndedEntriesTrue, NothingFailed, NoFailedEntry
  <2> QED BY <2>1, <2>3, <2>4
<1>7. CASE Refresh
  <2>1. /\ local' = RefreshRunPhases(local)
        /\ UNCHANGED <<sched, runs, teams, template, cachedSched, cachedRuns, runPass, created>>
    BY <1>7 DEF Refresh
  <2>2. /\ DOMAIN local'.runs = DOMAIN local.runs
        /\ \A i \in DOMAIN local.runs :
             /\ local'.runs[i].window = local.runs[i].window
             /\ local'.runs[i].phase = IF cachedRuns[local.runs[i].window] = "Absent"
                                         THEN local.runs[i].phase ELSE cachedRuns[local.runs[i].window]
    BY <1>1, <2>1, MirrorGood DEF TypeOK, GoodHistories
  <2>3. EndedEntriesTrue(local)' /\ NoFailedEntry(local)'
    BY <1>1, <1>2, <2>1, <2>2, EntryWindows DEF EndIsTrue, EndedEntriesTrue, NothingFailed, NoFailedEntry
  <2> QED BY <1>2, <2>1, <2>3 DEF EndInv, EndIsTrue, EndedEntriesTrue, NothingFailed, NoFailedEntry
<1>8. CASE GcRun \/ GcError
  <2> DEFINE v == local.runs[Oldest(ToDelete)].window
  <2>1. /\ pc = "gc" /\ (DeleteRun(v) \/ UNCHANGED runs)
        /\ local' = local \/ local' = Compacted(local)
        /\ UNCHANGED <<sched, teams, template, cachedSched, cachedRuns, runPass, created>>
    BY <1>8 DEF GcRun, GcError
  <2>2. v \in Fires
    BY <2>1, NextToDelete
  <2> HIDE DEF v
  <2>3. \A w \in Fires : runs'[w] = runs[w] \/ runs'[w] = "Absent"
    <3>1. CASE DeleteRun(v)
      BY <1>1, <2>2, <3>1, DeleteType
    <3>2. CASE UNCHANGED runs
      BY <3>2
    <3> QED BY <2>1, <3>1, <3>2
  <2>4. \A i \in DOMAIN local'.runs : \E j \in DOMAIN local.runs : local'.runs[i] = local.runs[j]
    <3>1. CASE local' = local
      BY <3>1
    <3>2. CASE local' = Compacted(local)
      BY <1>1, <3>2, CompactedGood DEF TypeOK, GoodHistories
    <3> QED BY <2>1, <3>1, <3>2
  <2>5. EndsStay
    BY <2>1, <2>3 DEF EndsStay
  <2>6. runPass # NoPass => runPass.window \in Fires
    BY DEF IInv, CopiesCurrent
  <2>7. EndIsTrue'
    BY <1>1, <1>2, <2>1, <2>3, <2>4, <2>5, <2>6, EndedKept DEF EndInv, EndIsTrue, EndedEntriesTrue
  <2>8. NothingFailed'
    BY <1>2, <2>1, <2>3, <2>4 DEF NothingFailed, NoFailedEntry
  <2> QED BY <2>7, <2>8 DEF EndInv
<1>9. CASE Update \/ UpdateError
  <2>1. /\ local' = NewSchedule /\ (sched' = local \/ sched' = sched)
        /\ UNCHANGED <<runs, teams, template, cachedSched, cachedRuns, runPass, created>>
    BY <1>9 DEF Update, UpdateError, Return
  <2>2. EndedEntriesTrue(local)' /\ NoFailedEntry(local)'
    BY <1>3, <2>1, <1>9, EmptyIsTrue DEF Update, UpdateError, Return
  <2> QED BY <1>2, <2>1, <2>2 DEF EndInv, EndIsTrue, EndedEntriesTrue, NothingFailed, NoFailedEntry
<1> QED BY <1>4, <1>5, <1>6, <1>7, <1>8, <1>9 DEF ScheduleController

(* Unless a template is deleted, a history that shows an end is right. *)
THEOREM EndsAreTrue == NoTemplateFault /\ Spec => []EndInv
<1>1. Init => EndInv
  BY EndInit
<1>2. NoTemplateFault /\ IInv /\ IInv' /\ EndInv /\ [Next]_vars => EndInv'
  <2> SUFFICES ASSUME NoTemplateFault, IInv, IInv', EndInv, [Next]_vars PROVE EndInv'
    OBVIOUS
  <2>1. CASE UNCHANGED vars
    BY <2>1 DEF vars, apiVars, cacheVars, passVars, schedQueue, runVars, envVars,
               EndInv, EndIsTrue, EndedEntriesTrue, NothingFailed, NoFailedEntry
  <2>2. TypeOK'
    BY DEF IInv
  <2> QED BY <2>1, <2>2, EndScheduleController, EndRunController, EndEnvironment DEF Next
<1>3. CASE NoTemplateFault
  BY <1>1, <1>2, <1>3, InvHolds, PTL DEF Spec
<1>4. CASE ~NoTemplateFault
  BY <1>4
<1> QED BY <1>3, <1>4

(* "Active or in-flight Runs are never GC'd", as long as no template is deleted:
   what gcOldRuns deletes has no team in flight. *)
THEOREM CollectsEndedOnly == NoTemplateFault /\ Spec => GCNeverInFlight
<1> DEFINE A == \A w \in Fires : runs[w] # "Absent" /\ runs'[w] = "Absent" => teams[w] # "InFlight"
<1>1. IInv /\ EndInv /\ [Next]_vars => [A]_vars
  <2> SUFFICES ASSUME IInv, EndInv, Next PROVE A
    BY DEF vars
  <2> USE DEF apiVars, cacheVars, passVars, schedQueue, runVars, envVars
  <2>1. TypeOK /\ EndIsTrue /\ NothingFailed
    BY DEF IInv, EndInv
  <2>2. CASE GcRun \/ GcError
    <3> DEFINE i == Oldest(ToDelete)
               v == local.runs[i].window
    <3>1. pc = "gc" /\ (DeleteRun(v) \/ UNCHANGED runs)
      BY <2>2 DEF GcRun, GcError
    <3>2. i \in DOMAIN local.runs /\ v \in Fires /\ IsTerminalEntry(local.runs[i])
      BY <3>1, NextToDelete
    <3>3. local.runs[i].phase = "Ended"
      BY <2>1, <3>2 DEF IsTerminalEntry, IsRunTerminal, NothingFailed, NoFailedEntry
    <3>4. runs[v] # "Absent" => teams[v] = "Ended"
      BY <2>1, <3>2, <3>3 DEF EndIsTrue, EndedEntriesTrue
    <3> HIDE DEF v
    <3>5. \A w \in Fires : w # v => runs'[w] = runs[w]
      <4>1. CASE DeleteRun(v)
        BY <2>1, <3>2, <4>1, DeleteType
      <4>2. CASE UNCHANGED runs
        BY <4>2
      <4> QED BY <3>1, <4>1, <4>2
    <3> QED BY <3>4, <3>5
  <2>3. CASE Fire \/ FireError
    <3>1. pc = "fire" /\ (CreateRun(local.next) \/ UNCHANGED runs)
      BY <2>3 DEF Fire, FireError
    <3>2. CASE CreateRun(local.next)
      <4>1. runs' = [runs EXCEPT ![local.next] = "InFlight"] \/ runs' = runs
        BY <3>2 DEF CreateRun
      <4> QED BY <2>1, <4>1 DEF TypeOK
    <3>3. CASE UNCHANGED runs
      BY <3>3
    <3> QED BY <3>1, <3>2, <3>3
  <2>4. CASE Begin \/ Refresh \/ Update \/ UpdateError
    BY <2>4 DEF Begin, Refresh, Update, UpdateError
  <2>5. CASE RunController
    <3>1. Quiet
      BY <2>5, QuietSteps
    <3> QED BY <3>1 DEF Quiet
  <2>6. CASE Environment
    BY <2>6 DEF Environment, TemplateReconcile, DeleteTemplate, ApplyTemplate, SyncSched,
                TimerFires, Tick, Crash, TeamEnds, TeamCollected, SyncRun, RunTimerFires
  <2> QED BY <2>2, <2>3, <2>4, <2>5, <2>6 DEF Next, ScheduleController
<1>2. CASE NoTemplateFault
  BY <1>1, <1>2, InvHolds, EndsAreTrue, PTL DEF GCNeverInFlight, Spec
<1>3. CASE ~NoTemplateFault
  BY <1>3
<1> QED BY <1>2, <1>3
=============================================================================
