------------------------- MODULE MCCaptureDelivery -------------------------
(* The capture delivery on small instances. *)
EXTENDS CaptureDelivery, TLC

(* Callers of Flush are interchangeable.  Used for safety runs only. *)
FlusherSymmetry == Permutations(Flushers)
=============================================================================
