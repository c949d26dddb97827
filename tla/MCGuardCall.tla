----------------------------- MODULE MCGuardCall -----------------------------
(* Guard over the policy cache on small instances. *)
EXTENDS GuardCall, TLC

(* Callers are interchangeable and so are fetch objects.  Used for safety  *)
(* runs only.                                                              *)
GuardSymmetry == Permutations(Callers) \cup Permutations(Fetches)
=============================================================================
