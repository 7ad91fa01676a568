---------------------------- MODULE MCLateUpdates ----------------------------
(* A window of up to three calls, the middle one refused; a pass may be cut after
   a batch of two. *)
EXTENDS LateUpdates

OneRefused == {2}
=============================================================================
