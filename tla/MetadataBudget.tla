---------------------------- MODULE MetadataBudget ----------------------------
(***************************************************************************)
(* Metadata of a Guard call on its way to the service (metadata.go, as     *)
(* guard.go uses it): each map is encoded key by key, and the encoded maps *)
(* of the one request, its own and then those of its rules in their order, *)
(* share a budget of bytes.                                                *)
(*                                                                         *)
(* Protect and capture apply the same functions to one map at a time, with *)
(* a budget for each: a capture request, of many events, has no budget of  *)
(* its own, and what is said of a request here is not said of it.          *)
(*                                                                         *)
(* A key is a number, its place in the order of keys.  A map gives each of *)
(* its keys the bytes that it takes with its encoded value, 0 when one of  *)
(* the two cannot be encoded.  A place is a map's index and a key of it.   *)
(***************************************************************************)
EXTENDS Integers, Sequences, FiniteSets

CONSTANTS MaxMetadataBytes, MaxReportedKeys
ASSUME BudgetIsPositive == MaxMetadataBytes \in Nat \ {0} /\ MaxReportedKeys \in Nat \ {0}

Places(maps) == UNION {{<<i, k>> : k \in DOMAIN maps[i]} : i \in DOMAIN maps}
Size(maps, p) == maps[p[1]][p[2]]

(* The order of places: maps in theirs, and in each its keys sorted. *)
Before(p, q) == p[1] < q[1] \/ (p[1] = q[1] /\ p[2] < q[2])
Rank(p, places) == Cardinality({q \in places : Before(q, p)})
InOrder(places) == [n \in 1 .. Cardinality(places) |-> CHOOSE p \in places : Rank(p, places) = n - 1]

(* A warning says how many keys were dropped, and lists the first of them; *)
(* there is none when its count is 0.                                      *)
Warning(dropped) ==
  [count |-> Cardinality(dropped), listed |-> {p \in dropped : Rank(p, dropped) < MaxReportedKeys}]

EncodeMetadata(m, i) ==
  [encoded |-> [k \in {key \in DOMAIN m : m[key] > 0} |-> m[k]],
   warning |-> Warning({<<i, k>> : k \in {key \in DOMAIN m : m[key] = 0}})]

(* The keys of the encoded maps in order, against the budget. *)
LaterKeysMayFit(b, place, size) ==               \* mutant: a drop does not close the budget
  IF b.total + size > MaxMetadataBytes THEN [b EXCEPT !.over = @ \cup {place}]
  ELSE [b EXCEPT !.total = @ + size]
Spend(b, place, size) ==
  IF b.total > MaxMetadataBytes THEN [b EXCEPT !.over = @ \cup {place}]
  ELSE IF b.total + size > MaxMetadataBytes
  THEN [total |-> MaxMetadataBytes + 1, over |-> b.over \cup {place}]
  ELSE [b EXCEPT !.total = @ + size]

Budgets(maps) ==
  LET order == InOrder(Places(maps))
      b[n \in 0 .. Cardinality(Places(maps))] ==
        IF n = 0 THEN [total |-> 0, over |-> {}] ELSE Spend(b[n - 1], order[n], Size(maps, order[n]))
  IN b

EnforceMetadataBudget(maps) ==
  LET over == Budgets(maps)[Cardinality(Places(maps))].over
  IN [maps |-> [i \in DOMAIN maps |-> [k \in {key \in DOMAIN maps[i] : <<i, key>> \notin over} |-> maps[i][k]]],
      warning |-> Warning(over)]

(* What is sent of the maps of a Guard call, and the warnings that go with *)
(* it and come back with the decision: one of each map and one of the      *)
(* budget.                                                                 *)
Sent(maps) ==
  LET encoded == [i \in DOMAIN maps |-> EncodeMetadata(maps[i], i)]
      within == EnforceMetadataBudget([i \in DOMAIN maps |-> encoded[i].encoded])
  IN [maps |-> within.maps,
      warnings |-> Append([i \in DOMAIN maps |-> encoded[i].warning], within.warning)]
=============================================================================
