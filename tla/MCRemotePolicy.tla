--------------------------- MODULE MCRemotePolicy ---------------------------
(* The policy cache of one label on small instances. *)
EXTENDS RemotePolicy, TLC

(* Callers are interchangeable and so are fetch objects.  Used for safety  *)
(* runs only.                                                              *)
PolicySymmetry == Permutations(Callers) \cup Permutations(Fetches)
=============================================================================
