--------------------------- MODULE MCEventStream ----------------------------
(* Instances of EventStream for TLC. *)
EXTENDS EventStream

AllPages ==
  {[kind |-> "detail", ns |-> "n1"], [kind |-> "list", ns |-> "all"], [kind |-> "list", ns |-> "n1"]}
=============================================================================
