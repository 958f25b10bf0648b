----------------------------- MODULE MCSchedule -----------------------------
(* Instances of Schedule for TLC: the windows that can fire before the clock
   stops, and one more for the fire pointer. *)
EXTENDS Schedule

OneWindow == {1, 3}
TwoWindows == {1, 3, 5}
=============================================================================
