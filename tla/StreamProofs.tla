---------------------------- MODULE StreamProofs ----------------------------
(***************************************************************************)
(* Proofs about EventStream, for any namespaces, pages and renderings and  *)
(* any number of changes and faults: the hash gate never hides a change.   *)
(***************************************************************************)
EXTENDS EventStream, TLAPS

(* A detail page is about one namespace. *)
PageInv == page.kind = "detail" => page.ns \in Namespaces

IInv == TypeOK /\ PageInv /\ RememberedIsShown

-----------------------------------------------------------------------------
(* The bounds are numbers. *)
LEMMA BoundsAreNat == MaxChanges \in Nat /\ MaxFaults \in Nat
BY EventStreamAssumption

(* What is rendered is a body: a detail page is only rendered for a team that
   exists, a list only of teams that do. *)
LEMMA BodyType ==
  ASSUME teams \in [Namespaces -> Renderings \cup {Gone}],
         NEW kind \in {"detail", "list"}, NEW ns \in Namespaces \cup {Everywhere},
         kind = "detail" => ns \in Namespaces /\ teams[ns] # Gone
  PROVE  Body(kind, ns) \in Bodies
<1>1. Shown(kind, ns) \in SUBSET Namespaces
  BY DEF Shown, InScope
<1>2. \A n \in Shown(kind, ns) : teams[n] \in Renderings
  <2>1. CASE kind = "detail"
    <3>1. ns # Everywhere
      BY <2>1, EventStreamAssumption
    <3> QED BY <1>1, <2>1, <3>1 DEF Shown, InScope
  <2>2. CASE kind = "list"
    BY <1>1, <2>2 DEF Shown
  <2> QED BY <2>1, <2>2
<1>3. Body(kind, ns) \in [Shown(kind, ns) -> Renderings]
  BY <1>2 DEF Body
<1> QED BY <1>1, <1>3 DEF Bodies

(* So is what the stream renders at a tick that finds the team. *)
LEMMA StreamBodyType ==
  ASSUME TypeOK, PageInv, ~IsGone
  PROVE  StreamBody \in Bodies
<1>1. StreamScope \in Namespaces \cup {Everywhere} /\ page.kind \in {"detail", "list"}
  BY DEF TypeOK, PageInv, StreamScope
<1>2. page.kind = "detail" => StreamScope \in Namespaces /\ teams[StreamScope] # Gone
  BY DEF PageInv, IsGone, StreamScope
<1> QED BY <1>1, <1>2, BodyType DEF TypeOK, StreamBody

(* A closed and a new stream have nothing to remember. *)
LEMMA StreamTypes ==
  /\ Closed \in Streams /\ Closed.open = FALSE
  /\ NewStream \in Streams /\ NewStream.open /\ NewStream.first
<1>1. NoBody \in [{} -> Renderings]
  BY DEF NoBody
<1>2. NoBody \in Bodies
  BY <1>1 DEF Bodies
<1> QED BY <1>2 DEF Closed, NewStream, Streams

-----------------------------------------------------------------------------
(* The invariant holds when the page has been loaded. *)
LEMMA InitInv ==
  ASSUME Init
  PROVE  IInv
<1>1. PICK p \in Pages : page = [kind |-> p.kind, ns |-> p.ns, left |-> FALSE]
  BY DEF Init
<1>2. /\ p.kind \in {"detail", "list"} /\ p.ns \in Namespaces \cup {Everywhere}
      /\ p.kind = "detail" => p.ns \in Namespaces
  BY EventStreamAssumption
<1>3. page.kind = p.kind /\ page.ns = p.ns /\ page.left = FALSE
  BY <1>1
<1>4. Body(page.kind, page.ns) \in Bodies
  BY <1>2, <1>3, BodyType DEF Init, IsGone
<1>5. page \in [kind : {"detail", "list"}, ns : Namespaces \cup {Everywhere}, left : BOOLEAN]
  BY <1>1, <1>2
<1>6. TypeOK
  <2>1. view \in Bodies /\ stream \in Streams /\ stream = Closed
    BY <1>4, StreamTypes DEF Init
  <2>2. ticked \in BOOLEAN /\ beaten \in BOOLEAN
    BY DEF Init
  <2>3. changes \in 0..MaxChanges /\ faults \in 0..MaxFaults
    BY BoundsAreNat DEF Init
  <2> QED BY <1>5, <2>1, <2>2, <2>3 DEF Init, TypeOK
<1> QED BY <1>2, <1>3, <1>6, StreamTypes DEF Init, IInv, PageInv, RememberedIsShown

(* A stream that ends leaves nothing remembered. *)
LEMMA CloseStep ==
  ASSUME IInv, Close, UNCHANGED <<teams, page, view, changes>>, faults' \in 0..MaxFaults
  PROVE  IInv'
BY StreamTypes DEF IInv, TypeOK, PageInv, RememberedIsShown, Close

(* A frame that is sent is shown, unless the connection is gone. *)
LEMMA PollStep ==
  ASSUME IInv, Poll
  PROVE  IInv'
<1>1. TypeOK /\ PageInv /\ ~IsGone /\ stream \in Streams
  BY DEF IInv, Poll, TypeOK
<1>2. StreamBody \in Bodies
  BY <1>1, StreamBodyType
<1> DEFINE b == StreamBody
<1>3. b \in Bodies
  BY <1>2
<1>4. UNCHANGED <<teams, page, beaten, changes, faults>> /\ ticked' = FALSE /\ stream.open
      /\ (SendUpdate(b) \/ UNCHANGED <<stream, view>>)
  BY DEF Poll
<1> HIDE DEF b
<1>5. CASE SendUpdate(b)
  <2>1. /\ stream' \in Streams /\ stream'.open /\ stream'.cancelled = stream.cancelled
        /\ stream'.last = b
    BY <1>1, <1>3, <1>4, <1>5 DEF SendUpdate, Streams
  <2>2. view' = IF stream.cancelled THEN view ELSE b
    BY <1>5 DEF SendUpdate
  <2> QED BY <1>3, <1>4, <2>1, <2>2 DEF IInv, TypeOK, PageInv, RememberedIsShown
<1>6. CASE UNCHANGED <<stream, view>>
  BY <1>4, <1>6 DEF IInv, TypeOK, PageInv, RememberedIsShown
<1> QED BY <1>4, <1>5, <1>6

(* A user who leaves, and a lost connection, cancel the stream: from then on
   the page need not follow it. *)
LEMMA CancelStep ==
  ASSUME IInv, Leave \/ Drop
  PROVE  IInv'
<1> USE DEF IInv, TypeOK, PageInv, RememberedIsShown
<1>1. CASE Leave
  <2>1. page' \in [kind : {"detail", "list"}, ns : Namespaces \cup {Everywhere}, left : BOOLEAN]
        /\ page'.kind = page.kind /\ page'.ns = page.ns
    BY <1>1 DEF Leave
  <2>2. stream' \in Streams /\ stream'.cancelled = stream.open /\ stream'.open = stream.open
    BY <1>1 DEF Leave, Streams
  <2>3. stream'.open \/ stream' = Closed
    <3>1. stream' = [stream EXCEPT !.cancelled = stream.open]
      BY <1>1 DEF Leave
    <3>2. CASE stream = Closed
      <4>1. stream' = [Closed EXCEPT !.cancelled = FALSE]
        BY <3>1, <3>2, StreamTypes
      <4> QED BY <4>1 DEF Closed
    <3> QED BY <2>2, <3>2
  <2> QED BY <1>1, <2>1, <2>2, <2>3 DEF Leave
<1>2. CASE Drop
  <2>1. stream' \in Streams /\ stream'.open /\ stream'.cancelled
    BY <1>2 DEF Drop, Streams
  <2> QED BY <1>2, <2>1, BoundsAreNat DEF Drop, Fault
<1> QED BY <1>1, <1>2

(* Teams change under the page: what it shows and what the server remembers
   change only together. *)
LEMMA ChangeStep ==
  ASSUME IInv, NEW n \in Namespaces, TeamChanges(n)
  PROVE  IInv'
BY BoundsAreNat
   DEF IInv, TypeOK, PageInv, RememberedIsShown, TeamChanges, serverVars

(* Every step keeps the invariant. *)
LEMMA InvStep ==
  ASSUME IInv, [Next]_vars
  PROVE  IInv'
<1>1. CASE Connect
  BY <1>1, StreamTypes DEF Connect, IInv, TypeOK, PageInv, RememberedIsShown
<1>2. CASE Tick \/ Beat
  BY <1>2 DEF Tick, Beat, IInv, TypeOK, PageInv, RememberedIsShown
<1>3. CASE Poll
  BY <1>3, PollStep
<1>4. CASE PollGone \/ Done
  BY <1>4, CloseStep DEF PollGone, Done, IInv, TypeOK
<1>5. CASE PollError
  <2>1. ticked' \in BOOLEAN
    BY <1>5 DEF PollError
  <2>2. faults' \in 0..MaxFaults
    BY <1>5, BoundsAreNat DEF PollError, Fault, IInv, TypeOK
  <2> QED BY <1>5, <2>1, <2>2 DEF PollError, IInv, TypeOK, PageInv, RememberedIsShown
<1>6. CASE Heartbeat
  <2>1. CASE Close
    BY <1>6, <2>1, CloseStep DEF Heartbeat, IInv, TypeOK
  <2>2. CASE beaten' = FALSE /\ UNCHANGED <<stream, ticked>>
    BY <1>6, <2>2 DEF Heartbeat, IInv, TypeOK, PageInv, RememberedIsShown
  <2> QED BY <1>6, <2>1, <2>2 DEF Heartbeat
<1>7. CASE Leave \/ Drop
  BY <1>7, CancelStep
<1>8. CASE Crash
  BY <1>8, CloseStep, BoundsAreNat DEF Crash, Fault, IInv, TypeOK
<1>9. CASE \E n \in Namespaces : TeamChanges(n)
  BY <1>9, ChangeStep
<1>10. CASE UNCHANGED vars
  BY <1>10 DEF vars, IInv, TypeOK, PageInv, RememberedIsShown
<1> QED BY <1>1, <1>2, <1>3, <1>4, <1>5, <1>6, <1>7, <1>8, <1>9, <1>10 DEF Next

(* A page and its stream stay within their types, and a detail page within one
   namespace, whatever teams, users and the network do. *)
THEOREM InvHolds == Spec => []IInv
BY InitInv, InvStep, PTL DEF Spec

(* The hash gate hides nothing: a page that still listens shows the very body
   that the server last remembered as sent. *)
THEOREM RememberedIsShownHolds == Spec => []RememberedIsShown
<1>1. IInv => RememberedIsShown
  BY DEF IInv
<1> QED BY <1>1, InvHolds, PTL
=============================================================================
