---------------------------- MODULE EventStream -----------------------------
(***************************************************************************)
(* The dashboard's live pages: one browser page, which shows what the      *)
(* server rendered when it was loaded and then follows an event stream,    *)
(* and the server's loop for that stream, which polls the API server,      *)
(* compares hashes and sends a frame when what it renders has changed.     *)
(* Streams share nothing, so one page stands for all of them.              *)
(*                                                                         *)
(* There is one team per namespace.  A body is what a page shows of them:  *)
(* a function from namespaces to the rendered team.                        *)
(***************************************************************************)
EXTENDS Integers, FiniteSets

CONSTANTS
  Namespaces,
  Renderings,    \* what a team may look like on the page
  Pages,         \* the pages that may be loaded: [kind, ns]
  MaxChanges,    \* bound: how often a team changes
  MaxFaults,     \* bound: how many of the faults below may happen
  FaultKinds     \* which of "error", "drop" and "crash" may happen

Gone == "gone"
Everywhere == "all"

ASSUME EventStreamAssumption ==
  /\ Everywhere \notin Namespaces
  /\ Pages \subseteq [kind : {"detail", "list"}, ns : Namespaces \cup {Everywhere}]
  /\ \A p \in Pages : p.kind = "detail" => p.ns \in Namespaces
  /\ MaxChanges \in Nat /\ MaxFaults \in Nat
  /\ FaultKinds \subseteq {"error", "drop", "crash"}

VARIABLES
  teams,     \* how each team looks, or Gone
  page,      \* the page, and whether the user has left it
  view,      \* the body it shows
  stream,    \* the server's loop for its stream
  ticked,    \* the ticker's channel holds a tick
  beaten,    \* the heartbeat's channel holds one
  changes, faults

vars == <<teams, page, view, stream, ticked, beaten, changes, faults>>
serverVars == <<stream, ticked, beaten>>

-----------------------------------------------------------------------------
(* State. *)

(* Bodies: the team of a detail page; the teams in the scope of a list. *)
InScope(ns) == IF ns = Everywhere THEN Namespaces ELSE {ns}
Shown(kind, ns) == {n \in InScope(ns) : kind = "detail" \/ teams[n] # Gone}
Body(kind, ns) == [n \in Shown(kind, ns) |-> teams[n]]
Bodies == UNION {[S -> Renderings] : S \in SUBSET Namespaces}

(* The stream of a list page: its URL carries no namespace. *)
StreamScope == IF page.kind = "detail" THEN page.ns ELSE Everywhere
StreamBody == Body(page.kind, StreamScope)

(* render returns NotFound. *)
IsGone == page.kind = "detail" /\ teams[page.ns] = Gone

(* lastHash is the body it was computed from: distinct bodies are taken to
   have distinct hashes. *)
Streams == [open : BOOLEAN, cancelled : BOOLEAN, first : BOOLEAN, last : Bodies]
NoBody == [n \in {} |-> Gone]
Closed == [open |-> FALSE, cancelled |-> FALSE, first |-> TRUE, last |-> NoBody]
NewStream == [Closed EXCEPT !.open = TRUE]

TypeOK ==
  /\ teams \in [Namespaces -> Renderings \cup {Gone}]
  /\ page \in [kind : {"detail", "list"}, ns : Namespaces \cup {Everywhere}, left : BOOLEAN]
  /\ view \in Bodies
  /\ stream \in Streams
  /\ stream.open \/ stream = Closed
  /\ ticked \in BOOLEAN /\ beaten \in BOOLEAN
  /\ changes \in 0..MaxChanges /\ faults \in 0..MaxFaults

(* A page has been loaded: htmlListView or routeDetailHTML has rendered it, and
   a detail page exists for teams that do. *)
Init ==
  /\ teams \in [Namespaces -> Renderings \cup {Gone}]
  /\ \E p \in Pages : page = [kind |-> p.kind, ns |-> p.ns, left |-> FALSE]
  /\ ~IsGone
  /\ view = Body(page.kind, page.ns)
  /\ stream = Closed /\ ticked = FALSE /\ beaten = FALSE
  /\ changes = 0 /\ faults = 0

Fault(kind) ==
  /\ kind \in FaultKinds
  /\ faults < MaxFaults
  /\ faults' = faults + 1

-----------------------------------------------------------------------------
(* The server: sseDetailHandler or sseListHandler, then streamUntilDone. *)

(* beginSSE: the browser connects, again if it has lost the stream. *)
Connect ==
  /\ ~stream.open /\ ~page.left
  /\ stream' = NewStream
  /\ ticked' = FALSE /\ beaten' = FALSE
  /\ UNCHANGED <<teams, page, view, changes, faults>>

(* The tickers: a tick that finds the channel full is dropped. *)
Tick == stream.open /\ ~ticked /\ ticked' = TRUE /\ UNCHANGED <<teams, page, view, stream, beaten, changes, faults>>
Beat == stream.open /\ ~beaten /\ beaten' = TRUE /\ UNCHANGED <<teams, page, view, stream, ticked, changes, faults>>

Close == stream' = Closed /\ ticked' = FALSE /\ beaten' = FALSE

(* Mutant: what the page was loaded with counts as the first frame. *)
MustSendIfSeen(body) == ~stream.first /\ stream.last # body

(* The hash gate. *)
MustSend(body) == stream.first \/ stream.last # body

(* writeSSEFrame of "update": the page swaps the body in, if it is still there. *)
SendUpdate(body) ==
  /\ stream' = [stream EXCEPT !.first = FALSE, !.last = body]
  /\ view' = IF stream.cancelled THEN view ELSE body

(* A tick: render and compare. *)
Poll ==
  /\ stream.open /\ ticked /\ ~IsGone
  /\ ticked' = FALSE
  /\ IF MustSend(StreamBody) THEN SendUpdate(StreamBody) ELSE UNCHANGED <<stream, view>>
  /\ UNCHANGED <<teams, page, beaten, changes, faults>>

(* Mutant: NotFound is taken for a flaky read. *)
PollGoneIgnored ==
  /\ stream.open /\ ticked /\ IsGone
  /\ ticked' = FALSE
  /\ UNCHANGED <<teams, page, view, stream, beaten, changes, faults>>

(* NotFound: a "deleted" frame, for which the page has no handler, and the end. *)
PollGone ==
  /\ stream.open /\ ticked /\ IsGone
  /\ Close
  /\ UNCHANGED <<teams, page, view, changes, faults>>

(* Mutant: a flaky read counts as a change that was sent. *)
PollErrorRecorded ==
  /\ stream.open /\ ticked
  /\ Fault("error")
  /\ ticked' = FALSE
  /\ stream' = [stream EXCEPT !.first = FALSE, !.last = StreamBody]
  /\ UNCHANGED <<teams, page, view, beaten, changes>>

(* Any other error of the read: go on with the next tick. *)
PollError ==
  /\ stream.open /\ ticked
  /\ Fault("error")
  /\ ticked' = FALSE
  /\ UNCHANGED <<teams, page, view, stream, beaten, changes>>

(* A heartbeat comment; a failed write ends the stream. *)
Heartbeat ==
  /\ stream.open /\ beaten
  /\ \/ ~stream.cancelled /\ beaten' = FALSE /\ UNCHANGED <<stream, ticked>>
     \/ stream.cancelled /\ Close
  /\ UNCHANGED <<teams, page, view, changes, faults>>

(* <-ctx.Done(). *)
Done ==
  /\ stream.open /\ stream.cancelled
  /\ Close
  /\ UNCHANGED <<teams, page, view, changes, faults>>

-----------------------------------------------------------------------------
(* Teams, users, the network, restarts. *)

TeamChanges(n) ==
  /\ changes < MaxChanges
  /\ changes' = changes + 1
  /\ \E r \in (Renderings \cup {Gone}) \ {teams[n]} : teams' = [teams EXCEPT ![n] = r]
  /\ UNCHANGED <<page, view, serverVars, faults>>

(* The request's context is cancelled; the loop notices at its next select. *)
Leave ==
  /\ ~page.left
  /\ page' = [page EXCEPT !.left = TRUE]
  /\ stream' = [stream EXCEPT !.cancelled = stream.open]
  /\ UNCHANGED <<teams, view, ticked, beaten, changes, faults>>

Drop ==
  /\ stream.open /\ Fault("drop")
  /\ stream' = [stream EXCEPT !.cancelled = TRUE]
  /\ UNCHANGED <<teams, page, view, ticked, beaten, changes>>

Crash ==
  /\ stream.open /\ Fault("crash")
  /\ Close
  /\ UNCHANGED <<teams, page, view, changes>>

Next ==
  \/ Connect \/ Tick \/ Beat \/ Poll \/ PollGone \/ PollError \/ Heartbeat \/ Done
  \/ Leave \/ Drop \/ Crash
  \/ \E n \in Namespaces : TeamChanges(n)

Spec == Init /\ [][Next]_vars

(* Fairness: tickers tick, select serves every ready case, a browser reconnects.
   Users, teams and the network promise nothing. *)
Fairness ==
  /\ WF_vars(Connect) /\ WF_vars(Tick) /\ WF_vars(Poll \/ PollGone \/ PollError)
  /\ WF_vars(Beat) /\ WF_vars(Heartbeat) /\ WF_vars(Done)

FairSpec == Spec /\ Fairness

-----------------------------------------------------------------------------
(* Properties that hold. *)

(* The hash gate is safe: a page that still listens shows the very body the
   server last remembered as sent, so skipping an equal one loses nothing. *)
RememberedIsShown ==
  stream.open /\ ~stream.cancelled /\ ~stream.first => view = stream.last

(* A page that stays open shows the teams as they are once they stop changing:
   missed ticks, flaky reads, lost connections and restarts of the server
   leave no change unseen. *)
ViewConverges == <>[](page.left \/ IsGone \/ view = StreamBody)

(* A page that is left, and one whose team is gone, do not keep a loop busy. *)
StreamCloses == (page.left \/ IsGone) ~> (~stream.open \/ ~(page.left \/ IsGone))

-----------------------------------------------------------------------------
(* What comments say, and the code does not keep. *)

(* The "deleted" frame is sent "so the UI can show a deleted state". *)
DeletionShows == IsGone ~> (page.left \/ ~IsGone \/ view = Body(page.kind, page.ns))

(* A viewer with "?namespace=" in the URL "sees their preferred scope reflected
   over SSE". *)
ScopeKept == page.kind = "list" => DOMAIN view \subseteq InScope(page.ns)
=============================================================================
