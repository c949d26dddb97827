------------------------------ MODULE MCProtect ------------------------------
(* Two route-specific clients made by WithRule from one client with a bot  *)
(* rule: one adds a rate limit, the other a dry run of the same limit and  *)
(* a bot rule that names a signer.                                         *)
EXTENDS Protect, TLC

CONSTANTS routeA, routeB

Bot    == [kind |-> "bot", mode |-> "live", own |-> FALSE, signer |-> FALSE]
Signer == [kind |-> "bot", mode |-> "live", own |-> FALSE, signer |-> TRUE]
Limit  == [kind |-> "rateLimit", mode |-> "live", own |-> TRUE, signer |-> FALSE]
DryLimit == [Limit EXCEPT !.mode = "dry"]

Routes == (routeA :> <<Bot, Limit>>) @@ (routeB :> <<Bot, DryLimit, Signer>>)

(* Calls are interchangeable.  Used for safety runs only. *)
ProtectSymmetry == Permutations(Calls)
=============================================================================
