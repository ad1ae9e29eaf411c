---------------------------- MODULE MCCheckQueue ----------------------------
(***************************************************************************)
(* Script checks of one block on the master and two workers.  Batches hold  *)
(* two checks instead of 128, so that one Add can fill several of them.     *)
(***************************************************************************)
EXTENDS CheckQueue

CONSTANTS m, w1, w2, c1, c2, c3, c4

=============================================================================
