--------------------------- MODULE MCWasmLifecycle ---------------------------
(* Two calls, which may be one inside the other's callback, and two Closes. *)
EXTENDS WasmLifecycle

CONSTANTS c1, c2, k1, k2
=============================================================================
