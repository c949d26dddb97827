----------------------------- MODULE ScanProofs -----------------------------
(***************************************************************************)
(* What the Rampart backend detects, for every text, every model, every    *)
(* size of windows and every list of recognized spans: the spans of the    *)
(* text in one piece, and of all spans the strongest.                      *)
(*                                                                         *)
(* The tokens of a text are a sequence (TextLayout) of which each window   *)
(* has a part.  Aggregation finds in a window parts of the entities of the *)
(* whole text (Parted) that leave no token out (Covering); windows overlap *)
(* by more than an entity may have of white space, so that any two tokens  *)
(* of an entity in a row are in one window together; and from such parts   *)
(* mergeWindowedSpans makes the entities again (PartsAreUnited).           *)
(***************************************************************************)
EXTENDS RampartScan, SequenceTheorems, FiniteSetTheorems, WellFoundedInduction, TLAPS

-----------------------------------------------------------------------------
(* Induction over data.  The library states it for predicates; here it is  *)
(* stated for sets of numbers, which the provers can instantiate: a set of *)
(* natural numbers has a least element, a set closed under successor is    *)
(* all of Nat, and iterating a function of bounded arguments defines one.  *)

LEMMA LeastExists ==
  ASSUME NEW T \in SUBSET Nat, T # {}
  PROVE  \E x \in T : \A y \in T : x <= y
<1> DEFINE R == OpToRel(<, Nat)
<1>1. \E x \in T : \A y \in T : ~(<<y, x>> \in R)
  <2>1. IsWellFoundedOn(R, Nat)
    BY NatLessThanWellFounded
  <2> HIDE DEF R
  <2> QED BY <2>1, WFMin
<1>2. ASSUME NEW x \in T, NEW y \in T, ~(<<y, x>> \in R) PROVE x <= y
  BY <1>2 DEF OpToRel
<1> QED BY <1>1, <1>2

LEMMA GreatestExists ==
  ASSUME NEW T \in SUBSET Nat, T # {}, NEW b \in Nat, \A x \in T : x <= b
  PROVE  \E x \in T : \A y \in T : y <= x
<1> DEFINE D == {d \in Nat : \E x \in T : d = b - x}
<1>1. D \in SUBSET Nat /\ D # {}
  <2>1. PICK x \in T : TRUE
    OBVIOUS
  <2>2. b - x \in D
    BY <2>1
  <2> QED BY <2>2
<1>2. PICK d \in D : \A e \in D : d <= e
  <2> HIDE DEF D
  <2> QED BY <1>1, LeastExists
<1>3. PICK x \in T : d = b - x
  OBVIOUS
<1>4. ASSUME NEW y \in T PROVE y <= x
  <2>1. b - y \in D
    OBVIOUS
  <2> HIDE DEF D
  <2> QED BY <1>2, <1>3, <2>1
<1> QED BY <1>4

LEMMA MinIsLeast ==
  ASSUME NEW T \in SUBSET Nat, T # {}
  PROVE  Min(T) \in T /\ \A y \in T : Min(T) <= y
BY LeastExists DEF Min

LEMMA MaxIsGreatest ==
  ASSUME NEW T \in SUBSET Nat, T # {}, NEW b \in Nat, \A x \in T : x <= b
  PROVE  Max(T) \in T /\ \A y \in T : y <= Max(T)
<1>1. \E x \in T : \A y \in T : y <= x
  BY GreatestExists
<1>2. \E x \in T : \A y \in T : x >= y
  BY <1>1
<1>3. Max(T) \in T /\ \A y \in T : Max(T) >= y
  BY <1>2 DEF Max
<1> QED BY <1>3

LEMMA ByInduction ==
  ASSUME NEW P \in SUBSET Nat, 0 \in P, \A n \in P : n + 1 \in P
  PROVE  P = Nat
<1> SUFFICES ASSUME Nat \ P # {} PROVE FALSE
  OBVIOUS
<1>1. PICK x \in Nat \ P : \A y \in Nat \ P : x <= y
  BY LeastExists
<1>2. x # 0 /\ x - 1 \in Nat
  OBVIOUS
<1> QED BY <1>1, <1>2

(* The loop that starts with start and takes the step of each n in turn.   *)
Runs(f, start, step, N) == f[0] = start /\ \A n \in 1..N : f[n] = step[<<n, f[n - 1]>>]

LEMMA LoopExists ==
  ASSUME NEW S, NEW start \in S, NEW N \in Nat, NEW step \in [(1..N) \X S -> S]
  PROVE  \E f \in [0..N -> S] : Runs(f, start, step, N)
<1> DEFINE P == {k \in Nat : k <= N => \E f \in [0..k -> S] : Runs(f, start, step, k)}
<1>1. 0 \in P
  <2> DEFINE f == [i \in 0..0 |-> start]
  <2>1. f \in [0..0 -> S] /\ Runs(f, start, step, 0)
    BY DEF Runs
  <2> QED BY <2>1
<1>2. ASSUME NEW k \in P PROVE k + 1 \in P
  <2> SUFFICES ASSUME k + 1 <= N PROVE \E g \in [0..(k + 1) -> S] : Runs(g, start, step, k + 1)
    OBVIOUS
  <2>1. PICK f \in [0..k -> S] : Runs(f, start, step, k)
    OBVIOUS
  <2> DEFINE next == step[<<k + 1, f[k]>>]
             g == [i \in 0..(k + 1) |-> IF i = k + 1 THEN next ELSE f[i]]
  <2>2. next \in S
    OBVIOUS
  <2>3. g[k + 1] = step[<<k + 1, f[k]>>] /\ \A i \in 0..k : g[i] = f[i]
    OBVIOUS
  <2> HIDE DEF next
  <2>4. g \in [0..(k + 1) -> S]
    BY <2>2
  <2> HIDE DEF g
  <2>5. g[0] = start
    BY <2>1, <2>3 DEF Runs
  <2>6. ASSUME NEW n \in 1..(k + 1) PROVE g[n] = step[<<n, g[n - 1]>>]
    <3>1. CASE n = k + 1
      <4>1. k \in 0..k /\ n - 1 = k
        BY <3>1
      <4> QED BY <2>3, <3>1, <4>1
    <3>2. CASE n # k + 1
      <4>1. n \in 1..k /\ n \in 0..k /\ n - 1 \in 0..k
        BY <3>2
      <4> QED BY <2>1, <2>3, <4>1 DEF Runs
    <3> QED BY <3>1, <3>2
  <2> QED BY <2>4, <2>5, <2>6 DEF Runs
<1>3. P = Nat
  <2> HIDE DEF P
  <2> QED BY <1>1, <1>2, ByInduction DEF P
<1>4. N \in P
  BY <1>3
<1> QED BY <1>4

LEMMA PositionsAreFinite ==
  ASSUME NEW n \in Nat, NEW S \in SUBSET (1..n)
  PROVE  IsFiniteSet(S) /\ Cardinality(S) \in Nat
<1>1. IsFiniteSet(1..n)
  BY FS_Interval
<1> QED BY <1>1, FS_Subset, FS_CardinalityType

-----------------------------------------------------------------------------
(* Sorting: positions in an order in which no two tie.                     *)

IsOrder(earlier, m) ==
  /\ earlier \in [1..m -> SUBSET (1..m)]
  /\ \A i \in 1..m : i \notin earlier[i]
  /\ \A i, j \in 1..m : j \in earlier[i] => earlier[j] \subseteq earlier[i]
  /\ \A i, j \in 1..m : i # j => i \in earlier[j] \/ j \in earlier[i]

LEMMA EveryRankIsTaken ==
  ASSUME NEW m \in Nat, NEW earlier, IsOrder(earlier, m)
  PROVE  /\ \A i \in 1..m : Cardinality(earlier[i]) \in 0..(m - 1)
         /\ \A i, j \in 1..m : j \in earlier[i] => Cardinality(earlier[j]) < Cardinality(earlier[i])
         /\ \A r \in 0..(m - 1) : \E i \in 1..m : Cardinality(earlier[i]) = r
<1> DEFINE D == 1..m
           rank == [i \in D |-> Cardinality(earlier[i])]
<1>1. IsFiniteSet(D) /\ Cardinality(D) = m
  BY FS_Interval
<1>2. IsFiniteSet(0..(m - 1)) /\ Cardinality(0..(m - 1)) = m
  <2>1. m - 1 \in Int /\ (0 > m - 1 <=> m = 0) /\ (m - 1) - 0 + 1 = m
    OBVIOUS
  <2> QED BY <2>1, FS_Interval
<1>3. ASSUME NEW i \in D
      PROVE  IsFiniteSet(earlier[i]) /\ Cardinality(earlier[i]) \in 0..(m - 1)
  <2>1. earlier[i] \in SUBSET (D \ {i})
    BY DEF IsOrder
  <2>2. IsFiniteSet(D \ {i}) /\ Cardinality(D \ {i}) = m - 1
    BY <1>1, FS_RemoveElement
  <2> HIDE DEF D
  <2>3. IsFiniteSet(earlier[i]) /\ Cardinality(earlier[i]) <= m - 1
    BY <2>1, <2>2, FS_Subset
  <2>4. Cardinality(earlier[i]) \in Nat
    BY <2>3, FS_CardinalityType
  <2> QED BY <2>3, <2>4
<1>4. ASSUME NEW i \in D, NEW j \in D, j \in earlier[i]
      PROVE  Cardinality(earlier[j]) < Cardinality(earlier[i])
  <2>1. earlier[j] \in SUBSET (earlier[i] \ {j})
    BY <1>4 DEF IsOrder
  <2>2. IsFiniteSet(earlier[i] \ {j}) /\ Cardinality(earlier[i] \ {j}) = Cardinality(earlier[i]) - 1
    BY <1>3, <1>4, FS_RemoveElement
  <2>3. Cardinality(earlier[j]) <= Cardinality(earlier[i] \ {j})
    BY <2>1, <2>2, FS_Subset
  <2> QED BY <1>3, <2>2, <2>3
<1>5. rank \in Injection(D, 0..(m - 1))
  <2>1. \A i \in D : rank[i] \in Int
    BY <1>3
  <2>2. ASSUME NEW i \in D, NEW j \in D, rank[i] = rank[j] PROVE i = j
    BY <1>3, <1>4, <2>2 DEF IsOrder
  <2>3. rank \in [D -> 0..(m - 1)]
    BY <1>3
  <2> HIDE DEF rank, D
  <2> QED BY <2>2, <2>3 DEF Injection, IsInjective
<1>6. rank \in Surjection(D, 0..(m - 1))
  <2> HIDE DEF rank, D
  <2> QED BY <1>1, <1>2, <1>5, FS_Injection
<1>7. \A r \in 0..(m - 1) : \E i \in D : rank[i] = r
  <2> HIDE DEF rank, D
  <2> QED BY <1>6 DEF Surjection
<1> QED BY <1>3, <1>4, <1>7

LEMMA NthInTurn ==
  ASSUME NEW m \in Nat, NEW earlier, IsOrder(earlier, m)
  PROVE  /\ \A n \in 1..m : Nth(earlier, n) \in 1..m
         /\ \A n, k \in 1..m : n < k <=> Nth(earlier, n) \in earlier[Nth(earlier, k)]
         /\ \A i \in 1..m : \E n \in 1..m : Nth(earlier, n) = i
<1>1. DOMAIN earlier = 1..m
  BY DEF IsOrder
<1>2. ASSUME NEW n \in 1..m
      PROVE  Nth(earlier, n) \in 1..m /\ Cardinality(earlier[Nth(earlier, n)]) = n - 1
  <2>1. n - 1 \in 0..(m - 1)
    OBVIOUS
  <2>2. \E i \in 1..m : Cardinality(earlier[i]) = n - 1
    BY <2>1, EveryRankIsTaken
  <2> QED BY <1>1, <2>2 DEF Nth
<1>3. ASSUME NEW n \in 1..m, NEW k \in 1..m
      PROVE  n < k <=> Nth(earlier, n) \in earlier[Nth(earlier, k)]
  <2> DEFINE a == Nth(earlier, n)
             b == Nth(earlier, k)
  <2>1. a \in 1..m /\ b \in 1..m /\ Cardinality(earlier[a]) = n - 1 /\ Cardinality(earlier[b]) = k - 1
    BY <1>2
  <2> HIDE DEF a, b
  <2>2. a \in earlier[b] => n < k
    <3>1. a \in earlier[b] => n - 1 < k - 1
      BY <2>1, EveryRankIsTaken
    <3> QED BY <3>1
  <2>3. b \in earlier[a] => k < n
    <3>1. b \in earlier[a] => k - 1 < n - 1
      BY <2>1, EveryRankIsTaken
    <3> QED BY <3>1
  <2>4. a = b => n = k
    BY <2>1
  <2>5. a # b => a \in earlier[b] \/ b \in earlier[a]
    BY <2>1 DEF IsOrder
  <2>6. ~(a \in earlier[a])
    BY <2>1 DEF IsOrder
  <2>7. n < k <=> a \in earlier[b]
    BY <2>2, <2>3, <2>4, <2>5
  <2> QED BY <2>7 DEF a, b
<1>4. ASSUME NEW i \in 1..m PROVE \E n \in 1..m : Nth(earlier, n) = i
  <2>1. Cardinality(earlier[i]) \in 0..(m - 1)
    BY EveryRankIsTaken
  <2>2. PICK n \in 1..m : n - 1 = Cardinality(earlier[i])
    <3>1. Cardinality(earlier[i]) + 1 \in 1..m /\ (Cardinality(earlier[i]) + 1) - 1 = Cardinality(earlier[i])
      BY <2>1
    <3> QED BY <3>1
  <2> DEFINE a == Nth(earlier, n)
  <2>3. a \in 1..m /\ Cardinality(earlier[a]) = Cardinality(earlier[i])
    BY <1>2, <2>2
  <2>4. \A x, y \in 1..m : x \in earlier[y] => Cardinality(earlier[x]) # Cardinality(earlier[y])
    <3>1. \A x \in 1..m : Cardinality(earlier[x]) \in Int
      BY EveryRankIsTaken
    <3> QED BY <3>1, EveryRankIsTaken
  <2> HIDE DEF a
  <2>5. a = i
    BY <2>3, <2>4 DEF IsOrder
  <2> QED BY <2>5 DEF a
<1> QED BY <1>2, <1>3, <1>4

-----------------------------------------------------------------------------
(* Windows' spans are united.                                              *)

SpansOf(T) == [start : Nat, end : Nat, type : T]

LEMMA SameSpan ==
  ASSUME NEW T, NEW a \in SpansOf(T), NEW b \in SpansOf(T), a.start = b.start, a.end = b.end, a.type = b.type
  PROVE  a = b
<1>1. a = [start |-> a.start, end |-> a.end, type |-> a.type]
  BY DEF SpansOf
<1>2. b = [start |-> b.start, end |-> b.end, type |-> b.type]
  BY DEF SpansOf
<1> QED BY <1>1, <1>2

Comes(F, x, y) ==
  \/ F[x].start < F[y].start
  \/ F[x].start = F[y].start /\ F[x].end < F[y].end
  \/ F[x].start = F[y].start /\ F[x].end = F[y].end /\ x < y

(* F are fragments of the spans of B, x one of of[x]: they reach from its  *)
(* start to its end without a gap, spans of a type are apart, and a span   *)
(* has a fragment before any of a later one.                               *)
Fragmented(F, B, of) ==
  /\ of \in [1..Len(F) -> 1..Len(B)]
  /\ \A k \in 1..Len(B) : B[k].start < B[k].end
  /\ \A x \in 1..Len(F) :
       /\ F[x].type = B[of[x]].type
       /\ B[of[x]].start <= F[x].start /\ F[x].start < F[x].end /\ F[x].end <= B[of[x]].end
  /\ \A k \in 1..Len(B) : \E x \in 1..Len(F) : of[x] = k /\ F[x].start = B[k].start
  /\ \A k \in 1..Len(B) : \E x \in 1..Len(F) : of[x] = k /\ F[x].end = B[k].end
  /\ \A x \in 1..Len(F) : B[of[x]].start < F[x].start =>
       \E y \in 1..Len(F) : of[y] = of[x] /\ F[y].start < F[x].start /\ F[x].start < F[y].end
  /\ \A j, k \in 1..Len(B) : j < k /\ B[j].type = B[k].type => B[j].end <= B[k].start
  /\ \A x \in 1..Len(F), j \in 1..Len(B) : j < of[x] =>
       \E y \in 1..Len(F) : of[y] = j /\ Comes(F, y, x)

(* After the fragments at the positions seen.                              *)
UnitedSoFar(merged, seen, F, B, of) ==
  /\ Len(merged) <= Len(B)
  /\ \A k \in 1..Len(merged) :
       /\ merged[k].type = B[k].type /\ merged[k].start = B[k].start
       /\ B[k].start < merged[k].end /\ merged[k].end <= B[k].end
  /\ \A x \in seen : of[x] <= Len(merged) /\ F[x].end <= merged[of[x]].end
  /\ \A k \in 1..Len(merged) : \E x \in seen : of[x] = k

LEMMA FragmentIsUnited ==
  ASSUME NEW T, NEW F \in Seq(SpansOf(T)), NEW B \in Seq(SpansOf(T)), NEW of, Fragmented(F, B, of),
         NEW merged \in Seq(SpansOf(T)), NEW seen \in SUBSET (1..Len(F)), NEW y \in (1..Len(F)) \ seen,
         UnitedSoFar(merged, seen, F, B, of), \A x \in 1..Len(F) : x \in seen <=> Comes(F, x, y)
  PROVE  /\ United(merged, F[y]) \in Seq(SpansOf(T))
         /\ UnitedSoFar(United(merged, F[y]), seen \cup {y}, F, B, of)
<1> DEFINE s == F[y]
           k == of[y]
           m == Len(merged)
           same == {i \in DOMAIN merged : merged[i].type = s.type}
<1>1. m \in Nat /\ DOMAIN merged = 1..m /\ Len(B) \in Nat /\ k \in 1..Len(B) /\ m <= Len(B)
  <2>1. m \in Nat /\ DOMAIN merged = 1..m /\ Len(B) \in Nat
    BY LenProperties
  <2>2. k \in 1..Len(B)
    BY DEF Fragmented
  <2> QED BY <2>1, <2>2 DEF UnitedSoFar
<1>2. /\ \A x \in 1..Len(F) : F[x] \in SpansOf(T)
      /\ \A j \in 1..Len(B) : B[j] \in SpansOf(T)
      /\ \A j \in 1..m : merged[j] \in SpansOf(T)
  OBVIOUS
<1>3. /\ \A x \in 1..Len(F) : F[x].start \in Nat /\ F[x].end \in Nat
      /\ \A j \in 1..Len(B) : B[j].start \in Nat /\ B[j].end \in Nat
      /\ \A j \in 1..m : merged[j].start \in Nat /\ merged[j].end \in Nat
  BY <1>2 DEF SpansOf
<1>4. s.type = B[k].type /\ B[k].start <= s.start /\ s.start < s.end /\ s.end <= B[k].end
  BY DEF Fragmented
<1>5. \A j \in 1..Len(B) : j < k => j <= m
  <2> TAKE j \in 1..Len(B)
  <2> HAVE j < k
  <2>1. PICK x \in 1..Len(F) : of[x] = j /\ Comes(F, x, y)
    BY DEF Fragmented
  <2>2. x \in seen
    BY <2>1
  <2> QED BY <2>1, <2>2 DEF UnitedSoFar
<1>6. ASSUME NEW x \in seen PROVE F[x].start <= s.start
  <2>1. x \in 1..Len(F) /\ Comes(F, x, y)
    OBVIOUS
  <2>2. F[x].start \in Nat /\ F[y].start \in Nat
    BY <1>3, <2>1
  <2> HIDE DEF same, k, m
  <2> QED BY <2>1, <2>2, SMT DEF Comes
<1>7. CASE k <= m
  <2>1. k \in same
    BY <1>1, <1>4, <1>7 DEF UnitedSoFar
  <2>2. \A i \in same : i <= k
    <3> SUFFICES ASSUME NEW i \in same, k < i PROVE FALSE
      BY <1>1
    <3>1. i \in 1..Len(B) /\ B[i].type = B[k].type
      BY <1>1, <1>4 DEF UnitedSoFar
    <3>2. B[k].end <= B[i].start
      BY <1>1, <3>1 DEF Fragmented
    <3>3. PICK x \in seen : of[x] = i
      BY <1>1 DEF UnitedSoFar
    <3>4. B[i].start <= F[x].start
      BY <3>3 DEF Fragmented
    <3>5. F[x].start <= s.start
      BY <1>6
    <3>6. x \in 1..Len(F)
      OBVIOUS
    <3>7. B[k].end \in Nat /\ B[i].start \in Nat /\ F[x].start \in Nat /\ s.start \in Nat /\ s.end \in Nat
      BY <1>1, <1>3, <3>1, <3>6
    <3>8. s.start < B[k].end
      <4> HIDE DEF s, k, m, same
      <4> QED BY <1>4, <3>7, SMT
    <3> HIDE DEF s, k, m, same
    <3> QED BY <3>2, <3>4, <3>5, <3>7, <3>8, SMTT(20)
  <2>3. Max(same) = k
    <3>1. same \in SUBSET Nat
      BY <1>1
    <3>2. Max(same) \in same /\ \A i \in same : i <= Max(same)
      <4> HIDE DEF same, k
      <4>1. k \in Nat
        BY <1>1
      <4> QED BY <2>1, <2>2, <3>1, <4>1, MaxIsGreatest
    <3>3. Max(same) \in Nat /\ k \in Nat
      BY <1>1, <3>1, <3>2
    <3> HIDE DEF same, k
    <3> QED BY <2>1, <2>2, <3>2, <3>3
  <2>4. s.start < merged[k].end
    <3>1. CASE s.start = B[k].start
      BY <1>1, <1>7, <3>1 DEF UnitedSoFar
    <3>2. CASE B[k].start < s.start
      <4>1. PICK x \in 1..Len(F) : of[x] = k /\ F[x].start < s.start /\ s.start < F[x].end
        BY <3>2 DEF Fragmented
      <4>2. x \in seen
        BY <4>1 DEF Comes
      <4>3. F[x].end <= merged[k].end
        BY <4>1, <4>2 DEF UnitedSoFar
      <4> QED BY <1>1, <1>3, <1>7, <4>1, <4>3
    <3> QED BY <1>1, <1>3, <1>4, <3>1, <3>2
  <2> DEFINE end == MaxOf(merged[k].end, s.end)
  <2>5. United(merged, s) = [merged EXCEPT ![k].end = end]
    <3> HIDE DEF k, s
    <3> QED BY <2>1, <2>3, <2>4 DEF United
  <2>6. /\ end \in Nat /\ merged[k].end <= end /\ s.end <= end /\ end <= B[k].end
    BY <1>1, <1>3, <1>4, <1>7, SMTT(20) DEF MaxOf, UnitedSoFar
  <2> DEFINE new == [merged EXCEPT ![k].end = end]
  <2>7. /\ new \in Seq(SpansOf(T)) /\ Len(new) = m
        /\ \A j \in 1..m : j # k => new[j] = merged[j]
        /\ new[k].end = end /\ new[k].start = merged[k].start /\ new[k].type = merged[k].type
    <3> HIDE DEF end
    <3>1. k \in 1..m
      BY <1>1, <1>7
    <3> HIDE DEF k, m
    <3>2. merged[k] \in SpansOf(T)
      BY <1>2, <3>1
    <3>3. [merged[k] EXCEPT !.end = end] \in SpansOf(T)
      BY <2>6, <3>2 DEF SpansOf
    <3>4. new = [merged EXCEPT ![k] = [merged[k] EXCEPT !.end = end]]
      OBVIOUS
    <3>5. new[k] = [merged[k] EXCEPT !.end = end] /\ \A j \in 1..m : j # k => new[j] = merged[j]
      BY <1>1, <3>1
    <3>6. new \in Seq(SpansOf(T)) /\ Len(new) = m
      BY <3>1, <3>3, <3>4, ExceptSeq DEF m
    <3> QED BY <2>6, <3>2, <3>5, <3>6 DEF SpansOf
  <2>8. UnitedSoFar(new, seen \cup {y}, F, B, of)
    <3> HIDE DEF new, end
    <3>1. \A j \in 1..m :
            /\ new[j].type = B[j].type /\ new[j].start = B[j].start
            /\ B[j].start < new[j].end /\ new[j].end <= B[j].end
            /\ merged[j].end <= new[j].end /\ new[j].end \in Nat
      <4> TAKE j \in 1..m
      <4>1. CASE j = k
        <5>1. /\ new[k].type = B[k].type /\ new[k].start = B[k].start
              /\ B[k].start < merged[k].end /\ new[k].end = end
          BY <1>1, <2>7, <4>1 DEF UnitedSoFar
        <5>2. B[k].start < end
          BY <1>1, <1>3, <2>6, <4>1, <5>1
        <5> QED BY <2>6, <4>1, <5>1, <5>2
      <4>2. CASE j # k
        <5>1. new[j] = merged[j]
          <6> HIDE DEF k, m
          <6> QED BY <2>7, <4>2, Zenon
        <5>2. j \in 1..Len(merged) /\ merged[j].end \in Nat
          BY <1>3
        <5>3. /\ merged[j].type = B[j].type /\ merged[j].start = B[j].start
              /\ B[j].start < merged[j].end /\ merged[j].end <= B[j].end
          <6> HIDE DEF k, m
          <6> QED BY <5>2, Zenon DEF UnitedSoFar
        <5>4. merged[j].end <= merged[j].end
          BY <5>2
        <5> HIDE DEF k, m
        <5> QED BY <5>1, <5>2, <5>3, <5>4, Zenon
      <4> QED BY <4>1, <4>2
    <3>2. \A x \in seen \cup {y} : of[x] <= m /\ F[x].end <= new[of[x]].end
      <4> TAKE x \in seen \cup {y}
      <4>1. CASE x = y
        BY <1>7, <2>6, <2>7, <4>1
      <4>2. CASE x \in seen
        <5>1. of[x] \in 1..m /\ F[x].end <= merged[of[x]].end
          BY <1>1, <4>2 DEF UnitedSoFar, Fragmented
        <5>2. merged[of[x]].end <= new[of[x]].end /\ merged[of[x]].end \in Nat /\ new[of[x]].end \in Nat
          BY <1>3, <3>1, <5>1
        <5> QED BY <1>3, <5>1, <5>2
      <4> QED BY <4>1, <4>2
    <3> QED BY <1>1, <2>7, <3>1, <3>2 DEF UnitedSoFar
  <2> QED BY <2>5, <2>7, <2>8
<1>8. CASE m < k
  <2>1. k = m + 1
    <3>1. ~(m + 1 < k)
      <4> SUFFICES ASSUME m + 1 < k PROVE FALSE
        OBVIOUS
      <4>1. m + 1 \in 1..Len(B)
        BY <1>1
      <4> HIDE DEF k, m
      <4> QED BY <1>1, <1>5, <4>1
    <3> QED BY <1>1, <1>8, <3>1
  <2>2. s.start = B[k].start
    <3>1. PICK x \in 1..Len(F) : of[x] = k /\ F[x].start = B[k].start
      BY DEF Fragmented
    <3>2. x \notin seen
      BY <1>1, <1>8, <3>1 DEF UnitedSoFar
    <3>3. ~(F[x].start < s.start)
      BY <3>2 DEF Comes
    <3> QED BY <1>1, <1>3, <1>4, <3>1, <3>3
  <2>3. ASSUME same # {} PROVE ~(s.start < merged[Max(same)].end)
    <3>1. Max(same) \in same
      <4>1. same \in SUBSET Nat /\ \A i \in same : i <= m
        BY <1>1
      <4> HIDE DEF same, m
      <4> QED BY <1>1, <2>3, <4>1, MaxIsGreatest
    <3> DEFINE i == Max(same)
    <3> HIDE DEF i
    <3>2. i \in 1..m /\ merged[i].type = s.type
      BY <3>1 DEF i
    <3>3. i < k /\ i \in 1..Len(B) /\ B[i].type = B[k].type /\ merged[i].end <= B[i].end
      BY <1>1, <1>4, <1>8, <3>2 DEF UnitedSoFar
    <3>4. B[i].end <= B[k].start
      BY <1>1, <3>3 DEF Fragmented
    <3>5. ~(s.start < merged[i].end)
      BY <1>1, <1>3, <2>2, <3>2, <3>3, <3>4
    <3> QED BY <3>5 DEF i
  <2>4. United(merged, s) = Append(merged, s)
    BY <2>3 DEF United
  <2> DEFINE new == Append(merged, s)
  <2>5. /\ new \in Seq(SpansOf(T)) /\ Len(new) = m + 1
        /\ \A j \in 1..m : new[j] = merged[j]
        /\ new[m + 1] = s
    BY AppendProperties
  <2>6. UnitedSoFar(new, seen \cup {y}, F, B, of)
    <3> HIDE DEF new
    <3>1. m + 1 <= Len(B)
      BY <1>1, <2>1
    <3>2. ASSUME NEW j \in 1..(m + 1)
          PROVE  /\ new[j].type = B[j].type /\ new[j].start = B[j].start
                 /\ B[j].start < new[j].end /\ new[j].end <= B[j].end
      <4>1. CASE j = m + 1
        <5>1. new[j] = s /\ j = k
          BY <2>1, <2>5, <4>1
        <5> QED BY <1>1, <1>3, <1>4, <2>2, <5>1
      <4>2. CASE j # m + 1
        <5>1. j \in 1..m
          BY <1>1, <4>2
        <5> QED BY <2>5, <5>1 DEF UnitedSoFar
      <4> QED BY <4>1, <4>2
    <3>3. ASSUME NEW x \in seen \cup {y} PROVE of[x] <= m + 1 /\ F[x].end <= new[of[x]].end
      <4>1. CASE x = y
        <5>1. new[of[x]] = F[x] /\ of[x] = m + 1
          BY <2>1, <2>5, <4>1
        <5> QED BY <1>1, <1>3, <5>1
      <4>2. CASE x \in seen
        <5>1. of[x] \in 1..m /\ F[x].end <= merged[of[x]].end
          BY <1>1, <4>2 DEF UnitedSoFar, Fragmented
        <5>2. of[x] <= m + 1 /\ new[of[x]] = merged[of[x]]
          BY <1>1, <2>5, <5>1
        <5> QED BY <5>1, <5>2
      <4> QED BY <4>1, <4>2
    <3>4. ASSUME NEW j \in 1..(m + 1) PROVE \E x \in seen \cup {y} : of[x] = j
      <4>1. CASE j = m + 1
        BY <2>1, <4>1
      <4>2. CASE j # m + 1
        <5>1. j \in 1..m
          BY <1>1, <4>2
        <5> QED BY <5>1 DEF UnitedSoFar
      <4> QED BY <4>1, <4>2
    <3> QED BY <2>5, <3>1, <3>2, <3>3, <3>4 DEF UnitedSoFar
  <2> QED BY <2>4, <2>5, <2>6
<1> QED BY <1>1, <1>7, <1>8

LEMMA PositionsInText ==
  ASSUME NEW T, NEW F \in Seq(SpansOf(T))
  PROVE  IsOrder([i \in 1..Len(F) |-> {j \in 1..Len(F) : Comes(F, j, i)}], Len(F))
<1> DEFINE D == 1..Len(F)
<1>1. \A x \in D : F[x].start \in Nat /\ F[x].end \in Nat
  <2>1. \A x \in D : F[x] \in SpansOf(T)
    OBVIOUS
  <2> QED BY <2>1 DEF SpansOf
<1>2. \A i \in D : ~Comes(F, i, i)
  BY <1>1 DEF Comes
<1>3. \A i, j, k \in D : Comes(F, k, j) /\ Comes(F, j, i) => Comes(F, k, i)
  BY <1>1 DEF Comes
<1>4. \A i, j \in D : i # j => Comes(F, i, j) \/ Comes(F, j, i)
  BY <1>1 DEF Comes
<1> HIDE DEF D
<1>5. IsOrder([i \in D |-> {j \in D : Comes(F, j, i)}], Len(F))
  BY <1>2, <1>3, <1>4 DEF IsOrder, D
<1> QED BY <1>5 DEF D

(* turn[i] is the i-th in order, after[i] what has come of the first i.    *)
Merging(F, turn, after) ==
  /\ \A i \in 1..Len(F) : turn[i] \in 1..Len(F)
  /\ \A i, k \in 1..Len(F) : i < k <=> Comes(F, turn[i], turn[k])
  /\ \A x \in 1..Len(F) : \E i \in 1..Len(F) : turn[i] = x
  /\ after[0] = <<>>
  /\ \A i \in 1..Len(F) : after[i] = United(after[i - 1], F[turn[i]])
  /\ MergeWindowedSpans(F) = after[Len(F)]

LEMMA UnitedIsTyped ==
  ASSUME NEW T, NEW merged \in Seq(SpansOf(T)), NEW s \in SpansOf(T)
  PROVE  United(merged, s) \in Seq(SpansOf(T))
<1> DEFINE same == {i \in DOMAIN merged : merged[i].type = s.type}
           last == Max(same)
           end == MaxOf(merged[last].end, s.end)
<1>1. Append(merged, s) \in Seq(SpansOf(T))
  OBVIOUS
<1>2. CASE same # {}
  <2>1. last \in same
    <3>1. same \in SUBSET Nat /\ Len(merged) \in Nat /\ \A i \in same : i <= Len(merged)
      OBVIOUS
    <3> HIDE DEF same
    <3> QED BY <1>2, <3>1, MaxIsGreatest
  <2> HIDE DEF last
  <2>2. last \in 1..Len(merged) /\ merged[last] \in SpansOf(T)
    BY <2>1
  <2>3. end \in Nat
    BY <2>2 DEF MaxOf, SpansOf
  <2> HIDE DEF end
  <2>4. [merged[last] EXCEPT !.end = end] \in SpansOf(T)
    BY <2>2, <2>3 DEF SpansOf
  <2>5. [merged EXCEPT ![last] = [merged[last] EXCEPT !.end = end]] \in Seq(SpansOf(T))
    BY <2>2, <2>4, ExceptSeq
  <2>6. [merged EXCEPT ![last].end = end] \in Seq(SpansOf(T))
    BY <2>5
  <2> QED BY <1>1, <2>6 DEF United, last, end
<1>3. CASE same = {}
  BY <1>1, <1>3 DEF United
<1> QED BY <1>2, <1>3

LEMMA MergingRuns ==
  ASSUME NEW T, NEW F \in Seq(SpansOf(T))
  PROVE  \E turn, after : Merging(F, turn, after)
<1> DEFINE N == Len(F)
           earlier == [i \in 1..N |-> {j \in 1..N : Comes(F, j, i)}]
           turn == [i \in 1..N |-> Nth(earlier, i)]
           ordered == [i \in 1..N |-> F[turn[i]]]
           S == Seq(SpansOf(T))
           step == [c \in (1..N) \X S |-> United(c[2], ordered[c[1]])]
           Is(f) == f = [i \in 0..N |-> IF i = 0 THEN <<>> ELSE United(f[i - 1], ordered[i])]
<1>1. N \in Nat /\ DOMAIN F = 1..N
  BY LenProperties
<1>2. IsOrder(earlier, N)
  BY PositionsInText
<1>3. /\ \A i \in 1..N : turn[i] \in 1..N
      /\ \A i, k \in 1..N : i < k <=> turn[i] \in earlier[turn[k]]
      /\ \A x \in 1..N : \E i \in 1..N : turn[i] = x
  <2>1. \A i \in 1..N : turn[i] = Nth(earlier, i)
    <3> HIDE DEF N, earlier
    <3> QED OBVIOUS
  <2>2. /\ \A n \in 1..N : Nth(earlier, n) \in 1..N
        /\ \A n, k \in 1..N : n < k <=> Nth(earlier, n) \in earlier[Nth(earlier, k)]
        /\ \A i \in 1..N : \E n \in 1..N : Nth(earlier, n) = i
    <3>1. N \in Nat
      BY <1>1
    <3> HIDE DEF N, earlier, turn
    <3> QED BY <1>2, <3>1, NthInTurn, ZenonT(40)
  <2> HIDE DEF N, earlier, turn
  <2>3. \A i \in 1..N : turn[i] \in 1..N
    BY <2>1, <2>2, Zenon
  <2>4. ASSUME NEW i \in 1..N, NEW k \in 1..N PROVE i < k <=> turn[i] \in earlier[turn[k]]
    <3>1. turn[i] = Nth(earlier, i) /\ turn[k] = Nth(earlier, k)
      BY <2>1, Zenon
    <3> QED BY <2>2, <3>1, Zenon
  <2>5. \A x \in 1..N : \E i \in 1..N : turn[i] = x
    BY <2>1, <2>2, Zenon
  <2> QED BY <2>3, <2>4, <2>5, Zenon
<1>4. \A i, k \in 1..N : i < k <=> Comes(F, turn[i], turn[k])
  <2> HIDE DEF N, turn
  <2> QED BY <1>3
<1>5. ordered \in [1..N -> SpansOf(T)] /\ Len(ordered) = N
  <2>1. \A i \in 1..N : F[turn[i]] \in SpansOf(T)
    <3> HIDE DEF turn
    <3> QED BY <1>1, <1>3
  <2> HIDE DEF turn, N
  <2> QED BY <1>1, <2>1
<1>6. step \in [(1..N) \X S -> S] /\ \A i \in 1..N, v \in S : step[<<i, v>>] = United(v, ordered[i])
  <2> HIDE DEF ordered, N
  <2>1. \A i \in 1..N, v \in S : United(v, ordered[i]) \in S
    BY <1>5, UnitedIsTyped
  <2> HIDE DEF S
  <2> QED BY <2>1
<1>7. <<>> \in S
  BY EmptySeq
<1> HIDE DEF S, step, N, ordered
<1>8. PICK f \in [0..N -> S] : Runs(f, <<>>, step, N)
  BY <1>1, <1>6, <1>7, LoopExists
<1>9. f[0] = <<>> /\ \A i \in 1..N : i - 1 \in 0..N /\ f[i] = United(f[i - 1], ordered[i])
  <2>1. \A i \in 1..N : i - 1 \in 0..N /\ f[i - 1] \in S
    BY <1>1
  <2> QED BY <1>6, <1>8, <2>1 DEF Runs
<1>10. Is(f)
  <2>1. \A i \in 0..N : f[i] = IF i = 0 THEN <<>> ELSE United(f[i - 1], ordered[i])
    BY <1>1, <1>9
  <2> QED BY <1>8, <2>1
<1>11. MergeWindowedSpans(F) = (CHOOSE g : Is(g))[N]
  <2> DEFINE Less(a, b) == a.start < b.start \/ (a.start = b.start /\ a.end < b.end)
             before == [i \in DOMAIN F |->
                         {j \in DOMAIN F : Less(F[j], F[i]) \/ (~Less(F[i], F[j]) /\ j < i)}]
  <2>1. before = earlier
    <3>1. \A x \in 1..N : F[x].start \in Nat /\ F[x].end \in Nat
      <4>1. \A x \in 1..N : F[x] \in SpansOf(T)
        BY DEF N
      <4> QED BY <4>1 DEF SpansOf
    <3>2. \A i, j \in 1..N : Comes(F, j, i) <=> Less(F[j], F[i]) \/ (~Less(F[i], F[j]) /\ j < i)
      BY <3>1 DEF Comes
    <3>3. \A i \in 1..N : {j \in 1..N : Comes(F, j, i)}
                          = {j \in 1..N : Less(F[j], F[i]) \/ (~Less(F[i], F[j]) /\ j < i)}
      <4> HIDE DEF Less
      <4> QED BY <3>2
    <3> HIDE DEF Less
    <3> QED BY <1>1, <3>3
  <2>2. ordered = [n \in DOMAIN F |-> F[Nth(before, n)]]
    <3> HIDE DEF before, earlier
    <3> QED BY <1>1, <2>1 DEF ordered
  <2>3. MergeWindowedSpans(F) =
          LET o == [n \in DOMAIN F |-> F[Nth(before, n)]]
              after[i \in 0 .. Len(F)] == IF i = 0 THEN <<>> ELSE United(after[i - 1], o[i])
          IN after[Len(F)]
    BY DEF MergeWindowedSpans, StableBy
  <2> HIDE DEF before
  <2> QED BY <2>2, <2>3 DEF N
<1>12. Is(CHOOSE g : Is(g))
  <2> HIDE DEF Is
  <2> QED BY <1>10
<1>13. ASSUME NEW g, Is(g) PROVE g[0] = <<>> /\ \A i \in 1..N : g[i] = United(g[i - 1], ordered[i])
  BY <1>1, <1>13
<1> DEFINE after == CHOOSE g : Is(g)
<1>14. after[0] = <<>> /\ \A i \in 1..N : after[i] = United(after[i - 1], ordered[i])
  <2> HIDE DEF Is
  <2> QED BY <1>12, <1>13
<1>15. MergeWindowedSpans(F) = after[N]
  BY <1>11
<1>16. \A i \in 1..N : ordered[i] = F[turn[i]]
  BY DEF ordered
<1> HIDE DEF after, turn, Is
<1>17. Merging(F, turn, after)
  BY <1>3, <1>4, <1>14, <1>15, <1>16 DEF Merging, N
<1> QED BY <1>17

LEMMA FragmentsAreUnited ==
  ASSUME NEW T, NEW F \in Seq(SpansOf(T)), NEW B \in Seq(SpansOf(T)), NEW of, Fragmented(F, B, of)
  PROVE  MergeWindowedSpans(F) = B
<1> DEFINE N == Len(F)
<1>1. N \in Nat /\ Len(B) \in Nat
  OBVIOUS
<1>2. PICK turn, after : Merging(F, turn, after)
  BY MergingRuns
<1> DEFINE Reached(i) == {turn[k] : k \in 1..i}
           P == {i \in Nat : i <= N => after[i] \in Seq(SpansOf(T)) /\ UnitedSoFar(after[i], Reached(i), F, B, of)}
<1>3. 0 \in P
  <2>1. after[0] = <<>> /\ <<>> \in Seq(SpansOf(T)) /\ Len(<<>>) = 0 /\ Reached(0) = {}
    BY <1>2, EmptySeq DEF Merging
  <2>2. UnitedSoFar(<<>>, {}, F, B, of)
    <3>1. Len(<<>>) = 0 /\ 1..0 = {} /\ 0 <= Len(B)
      BY <1>1
    <3> QED BY <3>1 DEF UnitedSoFar
  <2> QED BY <2>1, <2>2
<1>4. ASSUME NEW i \in P PROVE i + 1 \in P
  <2> SUFFICES ASSUME i + 1 <= N
               PROVE  after[i + 1] \in Seq(SpansOf(T)) /\ UnitedSoFar(after[i + 1], Reached(i + 1), F, B, of)
    OBVIOUS
  <2>1. i \in Nat /\ i <= N /\ i + 1 \in 1..N /\ (i + 1) - 1 = i
    BY <1>1
  <2> DEFINE y == turn[i + 1]
             seen == Reached(i)
  <2>2. after[i + 1] = United(after[i], F[y])
    BY <1>2, <2>1 DEF Merging
  <2>3. y \in 1..N
    BY <1>2, <2>1 DEF Merging
  <2>4. \A k \in 1..N : k <= i <=> Comes(F, turn[k], y)
    <3>1. \A k \in 1..N : k < i + 1 <=> Comes(F, turn[k], y)
      BY <1>2, <2>1 DEF Merging
    <3> QED BY <2>1, <3>1
  <2>5. seen \in SUBSET (1..N) /\ \A x \in 1..N : x \in seen <=> Comes(F, x, y)
    <3>1. \A k \in 1..i : k \in 1..N /\ k <= i
      BY <1>1, <2>1
    <3>2. \A k \in 1..i : k \in 1..N /\ k <= i /\ turn[k] \in 1..N
      BY <1>2, <3>1 DEF Merging
    <3>3. ASSUME NEW x \in 1..N PROVE x \in seen <=> Comes(F, x, y)
      <4>1. PICK k \in 1..N : turn[k] = x
        BY <1>2 DEF Merging
      <4>2. k <= i => k \in 1..i
        BY <2>1
      <4> HIDE DEF y
      <4> QED BY <2>4, <3>2, <4>1, <4>2
    <3> QED BY <3>2, <3>3
  <2>6. y \notin seen
    <3>1. ~Comes(F, y, y)
      <4>1. ~(i + 1 <= i)
        BY <2>1
      <4> QED BY <2>1, <2>4, <4>1
    <3> HIDE DEF y, seen
    <3> QED BY <2>3, <2>5, <3>1
  <2>7. Reached(i + 1) = seen \cup {y}
    <3>1. 1..(i + 1) = (1..i) \cup {i + 1}
      BY <2>1
    <3> QED BY <3>1
  <2>8. after[i] \in Seq(SpansOf(T)) /\ UnitedSoFar(after[i], seen, F, B, of)
    BY <2>1
  <2> HIDE DEF y, seen, Reached
  <2>9. y \in (1..Len(F)) \ seen /\ seen \in SUBSET (1..Len(F)) /\ \A x \in 1..Len(F) : x \in seen <=> Comes(F, x, y)
    BY <2>3, <2>5, <2>6
  <2>10. /\ United(after[i], F[y]) \in Seq(SpansOf(T))
         /\ UnitedSoFar(United(after[i], F[y]), seen \cup {y}, F, B, of)
    <3> HIDE DEF N, P
    <3> DEFINE merged == after[i]
    <3>1. merged \in Seq(SpansOf(T)) /\ UnitedSoFar(merged, seen, F, B, of)
      BY <2>8
    <3> HIDE DEF merged
    <3>2. /\ United(merged, F[y]) \in Seq(SpansOf(T))
          /\ UnitedSoFar(United(merged, F[y]), seen \cup {y}, F, B, of)
      BY <2>9, <3>1, FragmentIsUnited
    <3> QED BY <3>2 DEF merged
  <2> QED BY <2>2, <2>7, <2>10
<1>5. P = Nat
  <2> HIDE DEF P
  <2> QED BY <1>3, <1>4, ByInduction DEF P
<1>6. after[N] \in Seq(SpansOf(T)) /\ UnitedSoFar(after[N], Reached(N), F, B, of)
  <2>1. N \in P
    BY <1>1, <1>5
  <2> QED BY <1>1, <2>1
<1>7. \A x \in 1..N : x \in Reached(N)
  BY <1>2 DEF Merging
<1> DEFINE merged == after[N]
<1> HIDE DEF Reached
<1>8. \A k \in 1..Len(B) : k \in 1..Len(merged) /\ B[k].end <= merged[k].end
  <2> TAKE k \in 1..Len(B)
  <2>1. PICK x \in 1..N : of[x] = k /\ F[x].end = B[k].end
    BY DEF Fragmented
  <2> QED BY <1>6, <1>7, <2>1 DEF UnitedSoFar
<1>9. merged = B
  <2>1. merged \in Seq(SpansOf(T)) /\ Len(merged) \in Nat /\ Len(merged) <= Len(B)
    BY <1>6 DEF UnitedSoFar
  <2> HIDE DEF merged
  <2>2. Len(merged) = Len(B)
    <3>1. CASE Len(B) = 0
      BY <1>1, <2>1, <3>1
    <3>2. CASE Len(B) # 0
      <4>1. Len(B) \in 1..Len(B)
        BY <1>1, <3>2
      <4>2. Len(B) <= Len(merged)
        BY <1>8, <4>1
      <4> QED BY <1>1, <2>1, <4>2
    <3> QED BY <3>1, <3>2
  <2>3. ASSUME NEW k \in 1..Len(B) PROVE merged[k] = B[k]
    <3>1. merged[k] \in SpansOf(T) /\ B[k] \in SpansOf(T)
      BY <1>8, <2>1
    <3>2. /\ merged[k].type = B[k].type /\ merged[k].start = B[k].start /\ merged[k].end <= B[k].end
      BY <1>6, <1>8 DEF UnitedSoFar, merged
    <3>3. merged[k].end = B[k].end
      <4>1. merged[k].end \in Nat /\ B[k].end \in Nat
        BY <3>1 DEF SpansOf
      <4> QED BY <1>8, <3>2, <4>1
    <3> QED BY <3>1, <3>2, <3>3, SameSpan
  <2> QED BY <2>1, <2>2, <2>3, SeqEqual
<1> QED BY <1>2, <1>9 DEF Merging

-----------------------------------------------------------------------------
(* Tokens are aggregated.                                                  *)

TypesIn(L) == {l.type : l \in L}
TokensIn(L) == [word : Nat, label : L, start : Nat, end : Nat]

Typed(tokens, i) == tokens[i].label.type # "none"
Joins(tokens, i) == OfOneEntity(tokens[i - 1].label, tokens[i].label)

(* Tokens in the order of their characters.                                *)
InLine(L, tokens) ==
  /\ tokens \in Seq(TokensIn(L))
  /\ \A i \in 1..Len(tokens) : tokens[i].start < tokens[i].end
  /\ \A i, j \in 1..Len(tokens) : i < j => tokens[i].start <= tokens[j].start /\ tokens[i].end <= tokens[j].end

(* Nothing but white space between tokens, in the text after from.         *)
Adjoining(text, from, tokens) ==
  \A i \in 2..Len(tokens) :
    \/ tokens[i].start < tokens[i - 1].end
    \/ IsWhitespace(text, from, tokens[i - 1].end, tokens[i].start)

Piece(tokens, p) == Span(tokens[p[1]].start, tokens[p[2]].end, tokens[p[1]].label.type)

(* F are parts of entities: token P[x][1] to token P[x][2] for F[x].       *)
Parted(L, F, P, tokens, m) ==
  /\ F \in Seq(SpansOf(TypesIn(L)))
  /\ P \in Seq((1..m) \X (1..m)) /\ Len(P) = Len(F)
  /\ \A x \in 1..Len(F) :
       /\ F[x] = Piece(tokens, P[x])
       /\ P[x][1] <= P[x][2]
       /\ \A i \in P[x][1]..P[x][2] : Typed(tokens, i) /\ tokens[i].label.type = tokens[P[x][1]].label.type
       /\ \A i \in (P[x][1] + 1)..P[x][2] : Joins(tokens, i)

(* And of the first m tokens every one is in a part, every two of an       *)
(* entity in a row are in one together, and before a part those of all     *)
(* earlier tokens.                                                         *)
Covering(P, tokens, m) ==
  /\ \A i \in 1..m : Typed(tokens, i) => \E x \in 1..Len(P) : P[x][1] <= i /\ i <= P[x][2]
  /\ \A i \in 2..m : Joins(tokens, i) => \E x \in 1..Len(P) : P[x][1] <= i - 1 /\ i <= P[x][2]
  /\ \A x \in 1..Len(P), i \in 1..m : Typed(tokens, i) /\ i < P[x][1] =>
       \E y \in 1..Len(P) : y < x /\ P[y][1] <= i /\ i <= P[y][2]

(* F are the entities themselves.                                          *)
Whole(P, tokens, m) ==
  /\ \A x, y \in 1..Len(P) : x < y => P[x][2] < P[y][1]
  /\ \A x \in 1..Len(P) :
       /\ 1 < P[x][1] => ~Joins(tokens, P[x][1])
       /\ P[x][2] < m => ~Joins(tokens, P[x][2] + 1)

(* After m tokens.                                                         *)
Aggregates(L) ==
  {was \in [spans : Seq(SpansOf(TypesIn(L))), open : BOOLEAN] : was.open => was.spans # <<>>}
Open(P, tokens, m) == 0 < m /\ Typed(tokens, m)
SoFar(L, was, P, tokens, m) ==
  /\ Parted(L, was.spans, P, tokens, m) /\ Covering(P, tokens, m) /\ Whole(P, tokens, m)
  /\ was.open = Open(P, tokens, m)
  /\ was.open => 0 < Len(P) /\ P[Len(P)][2] = m

LEMMA TokenIsTyped ==
  ASSUME NEW L, NEW tokens, InLine(L, tokens), NEW i \in 1..Len(tokens)
  PROVE  /\ tokens[i].start \in Nat /\ tokens[i].end \in Nat /\ tokens[i].label \in L
         /\ tokens[i].label.type \in TypesIn(L)
<1>1. tokens[i] \in TokensIn(L)
  BY DEF InLine
<1> QED BY <1>1 DEF TokensIn, TypesIn

LEMMA PieceIsTyped ==
  ASSUME NEW L, NEW tokens, InLine(L, tokens), NEW i \in 1..Len(tokens), NEW j \in 1..Len(tokens)
  PROVE  Piece(tokens, <<i, j>>) \in SpansOf(TypesIn(L))
BY TokenIsTyped DEF Piece, Span, SpansOf

LEMMA MorePairs ==
  ASSUME NEW m \in Nat, NEW k \in Nat, m <= k, NEW P \in Seq((1..m) \X (1..m))
  PROVE  P \in Seq((1..k) \X (1..k))
<1>1. (1..m) \X (1..m) \subseteq (1..k) \X (1..k)
  OBVIOUS
<1> QED BY <1>1, SeqMonotonic

LEMMA OutsideToken ==
  ASSUME NEW L, NEW tokens, InLine(L, tokens), NEW was \in Aggregates(L), NEW P, NEW m \in Nat, NEW k \in 1..Len(tokens), k = m + 1,
         SoFar(L, was, P, tokens, m), ~Typed(tokens, k)
  PROVE  SoFar(L, [was EXCEPT !.open = FALSE], P, tokens, k)
<1>1. Parted(L, was.spans, P, tokens, m) /\ Covering(P, tokens, m) /\ Whole(P, tokens, m)
  BY DEF SoFar
<1>2. P \in Seq((1..m) \X (1..m)) /\ P \in Seq((1..k) \X (1..k)) /\ Len(P) \in Nat
  <2>1. P \in Seq((1..m) \X (1..m))
    BY <1>1 DEF Parted
  <2>2. k \in Nat /\ m <= k
    OBVIOUS
  <2> QED BY <2>1, <2>2, MorePairs, LenProperties
<1>3. ~Joins(tokens, k)
  BY DEF Joins, OfOneEntity, Typed
<1>4. \A x \in 1..Len(P) : P[x][1] \in 1..m /\ P[x][2] \in 1..m
  BY <1>2
<1>5. Parted(L, was.spans, P, tokens, k)
  BY <1>1, <1>2 DEF Parted
<1>6. Covering(P, tokens, k)
  <2>1. \A i \in 1..k : Typed(tokens, i) => i \in 1..m
    OBVIOUS
  <2>2. \A i \in 2..k : Joins(tokens, i) => i \in 2..m
    BY <1>3
  <2> QED BY <1>1, <2>1, <2>2 DEF Covering
<1>7. Whole(P, tokens, k)
  <2>1. \A x \in 1..Len(P) : P[x][2] < k => P[x][2] < m \/ P[x][2] + 1 = k
    BY <1>4
  <2> QED BY <1>1, <1>3, <2>1 DEF Whole
<1>8. ~Open(P, tokens, k)
  BY DEF Open
<1> DEFINE now == [was EXCEPT !.open = FALSE]
<1>9. now.spans = was.spans /\ now.open = FALSE
  BY DEF Aggregates
<1>10. now.open = Open(P, tokens, k)
  BY <1>8, <1>9 DEF Open
<1> HIDE DEF now
<1>11. Parted(L, now.spans, P, tokens, k)
  BY <1>5, <1>9
<1>12. ~now.open
  BY <1>9
<1> QED BY <1>6, <1>7, <1>10, <1>11, <1>12 DEF SoFar, now


LEMMA TokenBegins ==
  ASSUME NEW L, NEW tokens, InLine(L, tokens), NEW was \in Aggregates(L), NEW P, NEW m \in Nat,
         NEW k \in 1..Len(tokens), k = m + 1,
         SoFar(L, was, P, tokens, m), Typed(tokens, k), 1 < k => ~Joins(tokens, k)
  PROVE  SoFar(L, [spans |-> Append(was.spans, Piece(tokens, <<k, k>>)), open |-> TRUE],
               Append(P, <<k, k>>), tokens, k)
<1> DEFINE n == Len(P)
           Q == Append(P, <<k, k>>)
           G == Append(was.spans, Piece(tokens, <<k, k>>))
<1>1. Parted(L, was.spans, P, tokens, m) /\ Covering(P, tokens, m) /\ Whole(P, tokens, m)
  BY DEF SoFar
<1>2. P \in Seq((1..m) \X (1..m)) /\ P \in Seq((1..k) \X (1..k)) /\ n \in Nat
  <2>1. P \in Seq((1..m) \X (1..m))
    BY <1>1 DEF Parted
  <2>2. k \in Nat /\ m <= k
    OBVIOUS
  <2> QED BY <2>1, <2>2, MorePairs, LenProperties
<1>3. \A x \in 1..n : P[x][1] \in 1..m /\ P[x][2] \in 1..m
  BY <1>2
<1>4. /\ Q \in Seq((1..k) \X (1..k)) /\ Len(Q) = n + 1
      /\ \A x \in 1..n : Q[x] = P[x]
      /\ Q[n + 1] = <<k, k>>
  <2>1. <<k, k>> \in (1..k) \X (1..k)
    OBVIOUS
  <2> QED BY <1>2, <2>1, AppendProperties
<1>5. /\ G \in Seq(SpansOf(TypesIn(L))) /\ Len(G) = n + 1
      /\ \A x \in 1..n : G[x] = was.spans[x]
      /\ G[n + 1] = Piece(tokens, <<k, k>>)
  <2>1. was.spans \in Seq(SpansOf(TypesIn(L))) /\ Len(was.spans) = n
    BY <1>1 DEF Parted
  <2>2. Piece(tokens, <<k, k>>) \in SpansOf(TypesIn(L))
    BY PieceIsTyped
  <2> HIDE DEF n
  <2> QED BY <2>1, <2>2, AppendProperties
<1> HIDE DEF Q, G
<1>6. Q[n + 1][1] = k /\ Q[n + 1][2] = k
  BY <1>4
<1>7. \A x \in 1..(n + 1) : x \in 1..n \/ x = n + 1
  BY <1>2, SMTT(20)
<1>8. Parted(L, G, Q, tokens, k)
  <2>1. ASSUME NEW x \in 1..(n + 1)
        PROVE  /\ G[x] = Piece(tokens, Q[x])
               /\ Q[x][1] <= Q[x][2]
               /\ \A i \in Q[x][1]..Q[x][2] : Typed(tokens, i) /\ tokens[i].label.type = tokens[Q[x][1]].label.type
               /\ \A i \in (Q[x][1] + 1)..Q[x][2] : Joins(tokens, i)
    <3>1. CASE x = n + 1
      <4>1. (k + 1)..k = {} /\ k..k = {k} /\ k <= k
        OBVIOUS
      <4> QED BY <1>4, <1>5, <1>6, <3>1, <4>1
    <3>2. CASE x \in 1..n
      <4>1. x \in 1..Len(was.spans) /\ G[x] = was.spans[x] /\ Q[x] = P[x]
        BY <1>1, <1>4, <1>5, <3>2 DEF Parted
      <4> QED BY <1>1, <4>1 DEF Parted
    <3> QED BY <1>7, <3>1, <3>2
  <2>2. Len(G) = n + 1
    BY <1>5
  <2> HIDE DEF n
  <2> QED BY <1>4, <1>5, <2>1, <2>2 DEF Parted
<1>9. Covering(Q, tokens, k)
  <2>1. ASSUME NEW i \in 1..k, Typed(tokens, i) PROVE \E x \in 1..(n + 1) : Q[x][1] <= i /\ i <= Q[x][2]
    <3>1. CASE i = k
      <4>1. n + 1 \in 1..(n + 1)
        BY <1>2
      <4> QED BY <1>6, <3>1, <4>1
    <3>2. CASE i # k
      <4>1. i \in 1..m
        BY <3>2
      <4>2. PICK x \in 1..n : P[x][1] <= i /\ i <= P[x][2]
        BY <1>1, <2>1, <4>1 DEF Covering
      <4>3. x \in 1..(n + 1)
        BY <1>2
      <4> QED BY <1>4, <4>2, <4>3
    <3> QED BY <3>1, <3>2
  <2>2. ASSUME NEW i \in 2..k, Joins(tokens, i) PROVE \E x \in 1..(n + 1) : Q[x][1] <= i - 1 /\ i <= Q[x][2]
    <3>1. i \in 2..m
      BY <2>2
    <3>2. PICK x \in 1..n : P[x][1] <= i - 1 /\ i <= P[x][2]
      BY <1>1, <2>2, <3>1 DEF Covering
    <3>3. x \in 1..(n + 1)
      BY <1>2
    <3> QED BY <1>4, <3>2, <3>3
  <2>3. ASSUME NEW x \in 1..(n + 1), NEW i \in 1..k, Typed(tokens, i), i < Q[x][1]
        PROVE  \E y \in 1..(n + 1) : y < x /\ Q[y][1] <= i /\ i <= Q[y][2]
    <3>1. \E y \in 1..n : y < x /\ P[y][1] <= i /\ i <= P[y][2]
      <4>1. CASE x = n + 1
        <5>1. i \in 1..m
          BY <1>6, <2>3, <4>1
        <5>2. PICK y \in 1..n : P[y][1] <= i /\ i <= P[y][2]
          BY <1>1, <2>3, <5>1 DEF Covering
        <5>3. y < x
          BY <1>2, <4>1
        <5> QED BY <5>2, <5>3
      <4>2. CASE x \in 1..n
        <5>1. Q[x] = P[x] /\ P[x][1] \in 1..m
          BY <1>3, <1>4, <4>2
        <5>2. Q[x] = P[x] /\ i < P[x][1] /\ i \in 1..m
          BY <2>3, <5>1
        <5> QED BY <1>1, <2>3, <4>2, <5>2 DEF Covering
      <4> QED BY <1>7, <4>1, <4>2
    <3>2. PICK y \in 1..n : y < x /\ P[y][1] <= i /\ i <= P[y][2]
      BY <3>1
    <3>3. y \in 1..(n + 1) /\ Q[y] = P[y]
      BY <1>2, <1>4
    <3> QED BY <3>2, <3>3
  <2>4. Len(Q) = n + 1
    BY <1>4
  <2> HIDE DEF n
  <2> QED BY <2>1, <2>2, <2>3, <2>4 DEF Covering
<1>10. Whole(Q, tokens, k)
  <2>1. ASSUME NEW x \in 1..(n + 1), NEW y \in 1..(n + 1), x < y PROVE Q[x][2] < Q[y][1]
    <3>1. x \in 1..n
      BY <1>2, <2>1
    <3>2. x \in 1..n /\ Q[x] = P[x] /\ P[x][2] \in 1..m
      BY <1>3, <1>4, <3>1
    <3>3. CASE y = n + 1
      BY <1>6, <3>2, <3>3
    <3>4. CASE y \in 1..n
      <4>1. Q[y] = P[y]
        BY <1>4, <3>4
      <4>2. P[x][2] < P[y][1]
        BY <1>1, <2>1, <3>2, <3>4 DEF Whole
      <4> QED BY <3>2, <4>1, <4>2
    <3> QED BY <1>7, <3>3, <3>4
  <2>2. ASSUME NEW x \in 1..(n + 1)
        PROVE  /\ 1 < Q[x][1] => ~Joins(tokens, Q[x][1])
               /\ Q[x][2] < k => ~Joins(tokens, Q[x][2] + 1)
    <3>1. CASE x = n + 1
      BY <1>6, <3>1
    <3>2. CASE x \in 1..n
      <4>1. Q[x] = P[x] /\ P[x][1] \in 1..m /\ P[x][2] \in 1..m
        BY <1>3, <1>4, <3>2
      <4>2. P[x][2] < m \/ P[x][2] + 1 = k
        BY <4>1
      <4>3. 1 < P[x][1] => ~Joins(tokens, P[x][1])
        BY <1>1, <3>2 DEF Whole
      <4>4. P[x][2] < m => ~Joins(tokens, P[x][2] + 1)
        BY <1>1, <3>2 DEF Whole
      <4>5. P[x][2] + 1 = k => ~Joins(tokens, P[x][2] + 1)
        <5>1. 1 < k
          BY <1>2, <3>2, <4>1
        <5> QED BY <5>1
      <4> QED BY <4>1, <4>2, <4>3, <4>4, <4>5
    <3> QED BY <1>7, <3>1, <3>2
  <2>3. Len(Q) = n + 1
    BY <1>4
  <2> HIDE DEF n
  <2> QED BY <2>1, <2>2, <2>3 DEF Whole
<1>11. Open(Q, tokens, k) /\ 0 < Len(Q) /\ Q[Len(Q)][2] = k
  BY <1>2, <1>4, <1>6 DEF Open
<1> DEFINE now == [spans |-> G, open |-> TRUE]
<1>12. now.spans = G /\ now.open = TRUE
  OBVIOUS
<1>13. SoFar(L, now, Q, tokens, k)
  <2> HIDE DEF now
  <2> QED BY <1>8, <1>9, <1>10, <1>11, <1>12 DEF SoFar
<1> QED BY <1>13 DEF G, Q

LEMMA TokenGoesOn ==
  ASSUME NEW L, NEW tokens, InLine(L, tokens), NEW was \in Aggregates(L), NEW P, NEW m \in Nat,
         NEW k \in 1..Len(tokens), k = m + 1,
         SoFar(L, was, P, tokens, m), 0 < m, Joins(tokens, k)
  PROVE  LET n == Len(was.spans)
             G == [was.spans EXCEPT ![n] = [was.spans[n] EXCEPT !.end = tokens[k].end]]
             Q == [P EXCEPT ![n] = <<P[n][1], k>>]
         IN n \in 1..n /\ was.open /\ SoFar(L, [spans |-> G, open |-> TRUE], Q, tokens, k)
<1> DEFINE n == Len(was.spans)
           e == [was.spans[n] EXCEPT !.end = tokens[k].end]
           G == [was.spans EXCEPT ![n] = e]
           Q == [P EXCEPT ![n] = <<P[n][1], k>>]
<1>1. Parted(L, was.spans, P, tokens, m) /\ Covering(P, tokens, m) /\ Whole(P, tokens, m) /\ n = Len(P)
  BY DEF SoFar, Parted
<1>2. P \in Seq((1..m) \X (1..m)) /\ P \in Seq((1..k) \X (1..k)) /\ n \in Nat
  <2>1. P \in Seq((1..m) \X (1..m))
    BY <1>1 DEF Parted
  <2>2. k \in Nat /\ m <= k
    OBVIOUS
  <2> QED BY <1>1, <2>1, <2>2, MorePairs, LenProperties
<1>3. \A x \in 1..n : P[x][1] \in 1..m /\ P[x][2] \in 1..m
  BY <1>1, <1>2
<1>4. m \in 1..Len(tokens) /\ k - 1 = m
  OBVIOUS
<1>5. Typed(tokens, m) /\ Typed(tokens, k) /\ tokens[k].label.type = tokens[m].label.type
  BY <1>4 DEF Joins, OfOneEntity, Typed
<1>6. was.open
  BY <1>5 DEF SoFar, Open
<1>7. n \in 1..n /\ P[n][2] = m
  BY <1>1, <1>2, <1>6 DEF SoFar
<1>8. /\ Q \in Seq((1..k) \X (1..k)) /\ Len(Q) = n
      /\ \A x \in 1..n : x # n => Q[x] = P[x]
      /\ Q[n] = <<P[n][1], k>>
  <2>1. <<P[n][1], k>> \in (1..k) \X (1..k)
    <3>1. P[n][1] \in 1..k
      BY <1>3, <1>4, <1>7
    <3> QED BY <3>1
  <2> HIDE DEF n
  <2> QED BY <1>1, <1>2, <1>7, <2>1, ExceptSeq
<1>9. was.spans \in Seq(SpansOf(TypesIn(L))) /\ was.spans[n] = Piece(tokens, P[n])
  BY <1>1, <1>7 DEF Parted
<1>10. e = Span(tokens[P[n][1]].start, tokens[k].end, tokens[P[n][1]].label.type)
  BY <1>9 DEF Piece, Span
<1>11. e \in SpansOf(TypesIn(L))
  <2>1. P[n][1] \in 1..Len(tokens)
    BY <1>3, <1>4, <1>7
  <2>2. Piece(tokens, <<P[n][1], k>>) \in SpansOf(TypesIn(L))
    <3> HIDE DEF n
    <3> QED BY <2>1, PieceIsTyped
  <2> HIDE DEF n, e
  <2> QED BY <1>10, <2>2 DEF Piece
<1>12. /\ G \in Seq(SpansOf(TypesIn(L))) /\ Len(G) = n
       /\ \A x \in 1..n : x # n => G[x] = was.spans[x]
       /\ G[n] = e
  <2> HIDE DEF e
  <2> QED BY <1>7, <1>9, <1>11, ExceptSeq
<1> HIDE DEF Q, G, e
<1>13. Q[n][1] = P[n][1] /\ Q[n][2] = k
  BY <1>8
<1>14. \A x \in 1..n : Q[x][1] = P[x][1] /\ Q[x][1] \in 1..m /\ P[x][2] <= Q[x][2] /\ Q[x][2] \in 1..k
  <2> TAKE x \in 1..n
  <2>1. CASE x = n
    BY <1>3, <1>4, <1>13, <2>1
  <2>2. CASE x # n
    <3>1. Q[x] = P[x] /\ P[x][1] \in 1..m /\ P[x][2] \in 1..m
      BY <1>3, <1>8, <2>2
    <3> QED BY <1>4, <3>1
  <2> QED BY <2>1, <2>2
<1>15. Parted(L, G, Q, tokens, k)
  <2>1. ASSUME NEW x \in 1..n
        PROVE  /\ G[x] = Piece(tokens, Q[x])
               /\ Q[x][1] <= Q[x][2]
               /\ \A i \in Q[x][1]..Q[x][2] : Typed(tokens, i) /\ tokens[i].label.type = tokens[Q[x][1]].label.type
               /\ \A i \in (Q[x][1] + 1)..Q[x][2] : Joins(tokens, i)
    <3>1. CASE x = n
      <4>1. PICK lo \in 1..m : lo = P[n][1]
        BY <1>3, <1>7
      <4>2. /\ \A i \in lo..m : Typed(tokens, i) /\ tokens[i].label.type = tokens[lo].label.type
            /\ \A i \in (lo + 1)..m : Joins(tokens, i)
        BY <1>1, <1>7, <4>1 DEF Parted
      <4>3. G[n] = Piece(tokens, Q[n])
        BY <1>10, <1>12, <1>13 DEF Piece
      <4>4. lo <= k
        OBVIOUS
      <4>5. ASSUME NEW i \in lo..k PROVE Typed(tokens, i) /\ tokens[i].label.type = tokens[lo].label.type
        <5>1. CASE i = k
          <6>1. m \in lo..m
            BY <1>4
          <6> QED BY <1>5, <4>2, <5>1, <6>1
        <5>2. CASE i # k
          <6>1. i \in lo..m
            BY <5>2
          <6> QED BY <4>2, <6>1
        <5> QED BY <5>1, <5>2
      <4>6. ASSUME NEW i \in (lo + 1)..k PROVE Joins(tokens, i)
        <5>1. CASE i = k
          BY <5>1
        <5>2. CASE i # k
          <6>1. i \in (lo + 1)..m
            BY <5>2
          <6> QED BY <4>2, <6>1
        <5> QED BY <5>1, <5>2
      <4>7. Q[x][1] = lo /\ Q[x][2] = k
        BY <1>13, <3>1, <4>1
      <4> QED BY <3>1, <4>3, <4>4, <4>5, <4>6, <4>7
    <3>2. CASE x # n
      <4>1. x \in 1..Len(was.spans) /\ G[x] = was.spans[x] /\ Q[x] = P[x]
        BY <1>8, <1>12, <3>2
      <4> QED BY <1>1, <4>1 DEF Parted
    <3> QED BY <3>1, <3>2
  <2> HIDE DEF n
  <2> QED BY <1>8, <1>12, <2>1 DEF Parted
<1>16. Covering(Q, tokens, k)
  <2>1. ASSUME NEW i \in 1..k, Typed(tokens, i) PROVE \E x \in 1..n : Q[x][1] <= i /\ i <= Q[x][2]
    <3>1. CASE i = k
      <4>1. Q[n][1] <= i /\ i <= Q[n][2]
        BY <1>7, <1>13, <1>14, <3>1
      <4> QED BY <1>7, <4>1
    <3>2. CASE i # k
      <4>1. i \in 1..m
        BY <3>2
      <4>2. PICK x \in 1..n : P[x][1] <= i /\ i <= P[x][2]
        BY <1>1, <2>1, <4>1 DEF Covering
      <4>3. Q[x][1] <= i /\ i <= Q[x][2]
        BY <1>3, <1>14, <4>2
      <4> QED BY <4>3
    <3> QED BY <3>1, <3>2
  <2>2. ASSUME NEW i \in 2..k, Joins(tokens, i) PROVE \E x \in 1..n : Q[x][1] <= i - 1 /\ i <= Q[x][2]
    <3>1. CASE i = k
      <4>1. Q[n][1] <= i - 1 /\ i <= Q[n][2]
        BY <1>7, <1>13, <1>14, <3>1
      <4> QED BY <1>7, <4>1
    <3>2. CASE i # k
      <4>1. i \in 2..m
        BY <3>2
      <4>2. PICK x \in 1..n : P[x][1] <= i - 1 /\ i <= P[x][2]
        BY <1>1, <2>2, <4>1 DEF Covering
      <4>3. Q[x][1] <= i - 1 /\ i <= Q[x][2]
        BY <1>3, <1>14, <4>2
      <4> QED BY <4>3
    <3> QED BY <3>1, <3>2
  <2>3. ASSUME NEW x \in 1..n, NEW i \in 1..k, Typed(tokens, i), i < Q[x][1]
        PROVE  \E y \in 1..n : y < x /\ Q[y][1] <= i /\ i <= Q[y][2]
    <3>1. i \in 1..m /\ i < P[x][1]
      BY <1>14, <2>3
    <3>2. PICK y \in 1..n : y < x /\ P[y][1] <= i /\ i <= P[y][2]
      BY <1>1, <2>3, <3>1 DEF Covering
    <3>3. Q[y][1] <= i /\ i <= Q[y][2]
      BY <1>3, <1>14, <3>2
    <3> QED BY <3>2, <3>3
  <2> HIDE DEF n
  <2> QED BY <1>8, <2>1, <2>2, <2>3 DEF Covering
<1>17. Whole(Q, tokens, k)
  <2>1. ASSUME NEW x \in 1..n, NEW y \in 1..n, x < y PROVE Q[x][2] < Q[y][1]
    <3>1. P[x][2] < P[y][1]
      BY <1>1, <2>1 DEF Whole
    <3>2. x # n
      BY <2>1
    <3> QED BY <1>8, <1>14, <3>1, <3>2
  <2>2. ASSUME NEW x \in 1..n
        PROVE  /\ 1 < Q[x][1] => ~Joins(tokens, Q[x][1])
               /\ Q[x][2] < k => ~Joins(tokens, Q[x][2] + 1)
    <3>1. 1 < P[x][1] => ~Joins(tokens, P[x][1])
      BY <1>1 DEF Whole
    <3>2. P[x][2] < m => ~Joins(tokens, P[x][2] + 1)
      BY <1>1 DEF Whole
    <3>3. CASE x = n
      BY <1>13, <3>1, <3>3
    <3>4. CASE x # n
      <4>1. P[x][2] < P[n][1]
        <5>1. x < n
          BY <3>4
        <5> QED BY <1>1, <1>7, <5>1 DEF Whole
      <4>2. P[x][2] < m
        BY <1>3, <1>7, <4>1
      <4>3. Q[x] = P[x]
        BY <1>8, <3>4
      <4> QED BY <3>1, <3>2, <4>2, <4>3
    <3> QED BY <3>3, <3>4
  <2> HIDE DEF n
  <2> QED BY <1>8, <2>1, <2>2 DEF Whole
<1>18. Open(Q, tokens, k) /\ 0 < Len(Q) /\ Q[Len(Q)][2] = k
  BY <1>5, <1>7, <1>8, <1>13 DEF Open
<1> DEFINE now == [spans |-> G, open |-> TRUE]
<1>19. now.spans = G /\ now.open = TRUE
  OBVIOUS
<1>20. SoFar(L, now, Q, tokens, k)
  <2> HIDE DEF now
  <2> QED BY <1>15, <1>16, <1>17, <1>18, <1>19 DEF SoFar
<1> QED BY <1>6, <1>7, <1>20 DEF G, Q, e

LEMMA AggregatedIsTyped ==
  ASSUME NEW L, NEW text, NEW from, NEW was \in Aggregates(L), NEW tok \in TokensIn(L)
  PROVE  Aggregated(text, from, was, tok) \in Aggregates(L)
<1> DEFINE n == Len(was.spans)
           current == Last(was.spans)
           Merges ==
             /\ was.open /\ current.type = tok.label.type /\ ~tok.label.begin
             /\ tok.start < current.end \/ IsWhitespace(text, from, current.end, tok.start)
           end == MaxOf(was.spans[n].end, tok.end)
           S == SpansOf(TypesIn(L))
<1>1. was = [spans |-> was.spans, open |-> was.open] /\ was.spans \in Seq(S) /\ was.open \in BOOLEAN
  BY DEF Aggregates
<1>2. tok.start \in Nat /\ tok.end \in Nat /\ tok.label.type \in TypesIn(L)
  BY DEF TokensIn, TypesIn
<1>3. [was EXCEPT !.open = FALSE] \in Aggregates(L)
  BY <1>1 DEF Aggregates
<1>4. [spans |-> Append(was.spans, Span(tok.start, tok.end, tok.label.type)), open |-> TRUE] \in Aggregates(L)
  <2>1. Span(tok.start, tok.end, tok.label.type) \in S
    BY <1>2 DEF Span, SpansOf
  <2> DEFINE G == Append(was.spans, Span(tok.start, tok.end, tok.label.type))
  <2>2. G \in Seq(S) /\ G # <<>>
    <3> HIDE DEF S
    <3>1. G \in Seq(S) /\ Len(G) = n + 1 /\ n \in Nat
      BY <1>1, <2>1, AppendProperties
    <3>2. Len(G) # 0
      BY <3>1
    <3>3. Len(<<>>) = 0
      OBVIOUS
    <3> HIDE DEF G
    <3> QED BY <3>1, <3>2, <3>3
  <2> HIDE DEF G
  <2>3. [spans |-> G, open |-> TRUE] \in Aggregates(L)
    BY <2>2 DEF Aggregates
  <2> QED BY <2>3 DEF G
<1>5. ASSUME Merges PROVE [was EXCEPT !.spans[n].end = end] \in Aggregates(L)
  <2>1. was.open /\ was.spans # <<>>
    BY <1>5 DEF Aggregates
  <2>2. n \in 1..n /\ was.spans[n] \in S
    <3>1. n \in Nat /\ n # 0
      <4> HIDE DEF S
      <4> QED BY <1>1, <2>1, EmptySeq, LenProperties
    <3> QED BY <1>1, <3>1
  <2>3. end \in Nat
    BY <1>2, <2>2 DEF MaxOf, SpansOf
  <2> HIDE DEF end, Merges
  <2>4. [was.spans[n] EXCEPT !.end = end] \in S
    BY <2>2, <2>3 DEF SpansOf
  <2> DEFINE G == [was.spans EXCEPT ![n] = [was.spans[n] EXCEPT !.end = end]]
  <2>5. G \in Seq(S) /\ Len(G) = n
    <3> HIDE DEF S
    <3> QED BY <1>1, <2>2, <2>4, ExceptSeq
  <2>6. G # <<>>
    <3>1. n # 0 /\ Len(<<>>) = 0
      BY <2>2
    <3> HIDE DEF G, S
    <3> QED BY <2>5, <3>1
  <2>7. [was EXCEPT !.spans[n].end = end] = [spans |-> G, open |-> was.open]
    BY <1>1
  <2> HIDE DEF G
  <2> QED BY <1>1, <2>1, <2>5, <2>6, <2>7 DEF Aggregates
<1>6. Aggregated(text, from, was, tok) =
        IF tok.label.type = "none" THEN [was EXCEPT !.open = FALSE]
        ELSE IF Merges THEN [was EXCEPT !.spans[n].end = end]
        ELSE [spans |-> Append(was.spans, Span(tok.start, tok.end, tok.label.type)), open |-> TRUE]
  BY DEF Aggregated
<1> HIDE DEF Merges, end, n
<1> QED BY <1>3, <1>4, <1>5, <1>6

LEMMA TokenIsAggregated ==
  ASSUME NEW L, NEW text, NEW from, NEW tokens, InLine(L, tokens), Adjoining(text, from, tokens),
         NEW was \in Aggregates(L), NEW P, NEW m \in Nat, NEW k \in 1..Len(tokens), k = m + 1,
         SoFar(L, was, P, tokens, m)
  PROVE  \E Q : SoFar(L, Aggregated(text, from, was, tokens[k]), Q, tokens, k)
<1> DEFINE n == Len(was.spans)
           tok == tokens[k]
           current == Last(was.spans)
           Merges ==
             /\ was.open /\ current.type = tok.label.type /\ ~tok.label.begin
             /\ tok.start < current.end \/ IsWhitespace(text, from, current.end, tok.start)
           end == MaxOf(was.spans[n].end, tok.end)
<1>1. Aggregated(text, from, was, tok) =
        IF tok.label.type = "none" THEN [was EXCEPT !.open = FALSE]
        ELSE IF Merges THEN [was EXCEPT !.spans[n].end = end]
        ELSE [spans |-> Append(was.spans, Span(tok.start, tok.end, tok.label.type)), open |-> TRUE]
  BY DEF Aggregated
<1>2. Parted(L, was.spans, P, tokens, m) /\ n = Len(P)
  BY DEF SoFar, Parted
<1>3. was.open <=> 0 < m /\ Typed(tokens, m)
  BY DEF SoFar, Open
<1>4. ASSUME was.open
      PROVE  /\ n \in 1..n /\ current = was.spans[n] /\ 0 < m /\ m \in 1..Len(tokens) /\ k - 1 = m
             /\ current.type = tokens[m].label.type /\ current.end = tokens[m].end
  <2>1. 0 < m /\ m \in 1..Len(tokens) /\ k - 1 = m
    BY <1>3, <1>4
  <2>2. P \in Seq((1..m) \X (1..m)) /\ 0 < Len(P) /\ P[Len(P)][2] = m
    BY <1>2, <1>4 DEF SoFar, Parted
  <2>3. n \in 1..n
    <3>1. n \in Nat
      BY <1>2, <2>2, LenProperties
    <3> QED BY <1>2, <2>2, <3>1
  <2>4. /\ was.spans[n] = Piece(tokens, P[n]) /\ P[n][1] <= m
        /\ \A i \in P[n][1]..m : tokens[i].label.type = tokens[P[n][1]].label.type
    BY <1>2, <2>2, <2>3 DEF Parted
  <2>5. P[n][1] \in 1..m
    BY <1>2, <2>2, <2>3
  <2>6. m \in P[n][1]..m
    BY <2>4, <2>5
  <2>7. was.spans[n].type = tokens[m].label.type /\ was.spans[n].end = tokens[m].end
    BY <1>2, <2>2, <2>4, <2>6 DEF Piece, Span
  <2> QED BY <2>1, <2>3, <2>7 DEF Last
<1>5. CASE tok.label.type = "none"
  <2>1. ~Typed(tokens, k)
    BY <1>5 DEF Typed
  <2> QED BY <1>1, <1>5, <2>1, OutsideToken
<1>6. CASE tok.label.type # "none" /\ 0 < m /\ Joins(tokens, k)
  <2> DEFINE G == [was.spans EXCEPT ![n] = [was.spans[n] EXCEPT !.end = tok.end]]
             Q == [P EXCEPT ![n] = <<P[n][1], k>>]
  <2>1. n \in 1..n /\ was.open /\ SoFar(L, [spans |-> G, open |-> TRUE], Q, tokens, k)
    <3> HIDE DEF Merges, end, current
    <3> QED BY <1>6, TokenGoesOn
  <2>2. current.type = tok.label.type /\ ~tok.label.begin
    <3>1. OfOneEntity(tokens[m].label, tok.label)
      BY <1>4, <1>6, <2>1 DEF Joins
    <3> QED BY <1>4, <2>1, <3>1 DEF OfOneEntity
  <2>3. tok.start < current.end \/ IsWhitespace(text, from, current.end, tok.start)
    <3>1. k \in 2..Len(tokens)
      BY <1>6
    <3>2. \/ tok.start < tokens[m].end
          \/ IsWhitespace(text, from, tokens[m].end, tok.start)
      BY <1>4, <2>1, <3>1 DEF Adjoining
    <3> HIDE DEF current
    <3> QED BY <1>4, <2>1, <3>2
  <2>4. Merges
    BY <2>1, <2>2, <2>3
  <2>5. end = tok.end
    <3>1. tokens[m].end \in Nat /\ tok.end \in Nat
      BY <1>4, <2>1, TokenIsTyped
    <3>2. tokens[m].end <= tok.end
      <4>1. m < k
        OBVIOUS
      <4> QED BY <1>4, <2>1, <4>1 DEF InLine
    <3>3. was.spans[n].end = tokens[m].end
      BY <1>4, <2>1
    <3> QED BY <3>1, <3>2, <3>3 DEF MaxOf
  <2> HIDE DEF end, Merges, current
  <2>6. Aggregated(text, from, was, tok) = [was EXCEPT !.spans[n].end = tok.end]
    BY <1>1, <1>6, <2>4, <2>5
  <2>7. [was EXCEPT !.spans[n].end = tok.end] = [spans |-> G, open |-> TRUE]
    <3>1. was = [spans |-> was.spans, open |-> was.open] /\ was.open = TRUE
      BY <2>1 DEF Aggregates
    <3>2. [was EXCEPT !.spans[n].end = tok.end] = [spans |-> G, open |-> was.open]
      BY <3>1
    <3> QED BY <3>1, <3>2
  <2> HIDE DEF G, Q
  <2> QED BY <2>1, <2>6, <2>7
<1>7. CASE tok.label.type # "none" /\ ~(0 < m /\ Joins(tokens, k))
  <2>1. ~Merges
    <3> SUFFICES ASSUME Merges PROVE FALSE
      OBVIOUS
    <3>1. was.open /\ current.type = tok.label.type /\ ~tok.label.begin
      OBVIOUS
    <3>2. tokens[m].label.type = tok.label.type /\ 0 < m /\ k - 1 = m
      <4> HIDE DEF current, Merges
      <4> QED BY <1>4, <3>1
    <3>3. Joins(tokens, k)
      BY <1>7, <3>1, <3>2 DEF Joins, OfOneEntity
    <3> QED BY <1>7, <3>2, <3>3
  <2>2. Typed(tokens, k) /\ (1 < k => ~Joins(tokens, k))
    BY <1>7 DEF Typed
  <2> DEFINE G == Append(was.spans, Piece(tokens, <<k, k>>))
             Q == Append(P, <<k, k>>)
  <2>3. SoFar(L, [spans |-> G, open |-> TRUE], Q, tokens, k)
    <3> HIDE DEF Merges, end, current
    <3> QED BY <2>2, TokenBegins
  <2>4. Piece(tokens, <<k, k>>) = Span(tok.start, tok.end, tok.label.type)
    BY DEF Piece
  <2> HIDE DEF Merges, end, Q
  <2>5. Aggregated(text, from, was, tok) = [spans |-> G, open |-> TRUE]
    BY <1>1, <1>7, <2>1, <2>4
  <2> QED BY <2>3, <2>5
<1> QED BY <1>5, <1>6, <1>7

LEMMA AggregationRuns ==
  ASSUME NEW L, NEW text, NEW from, NEW tokens \in Seq(TokensIn(L))
  PROVE  \E after :
           /\ after[0] = [spans |-> <<>>, open |-> FALSE]
           /\ \A i \in 1..Len(tokens) : after[i] = Aggregated(text, from, after[i - 1], tokens[i])
           /\ \A i \in 0..Len(tokens) : after[i] \in Aggregates(L)
           /\ AggregateTokens(text, from, tokens) = after[Len(tokens)].spans
<1> DEFINE N == Len(tokens)
           S == Aggregates(L)
           start == [spans |-> <<>>, open |-> FALSE]
           step == [c \in (1..N) \X S |-> Aggregated(text, from, c[2], tokens[c[1]])]
           Is(f) == f = [i \in 0..N |-> IF i = 0 THEN start ELSE Aggregated(text, from, f[i - 1], tokens[i])]
<1>1. N \in Nat /\ \A i \in 1..N : tokens[i] \in TokensIn(L)
  OBVIOUS
<1>2. start \in S
  BY EmptySeq DEF Aggregates
<1>3. step \in [(1..N) \X S -> S]
      /\ \A i \in 1..N, v \in S : step[<<i, v>>] = Aggregated(text, from, v, tokens[i])
  <2>1. \A i \in 1..N, v \in S : Aggregated(text, from, v, tokens[i]) \in S
    BY <1>1, AggregatedIsTyped
  <2> HIDE DEF S
  <2> QED BY <2>1
<1> HIDE DEF S, start, step
<1>4. PICK f \in [0..N -> S] : Runs(f, start, step, N)
  BY <1>1, <1>2, <1>3, LoopExists
<1>5. f[0] = start /\ \A i \in 1..N : i - 1 \in 0..N /\ f[i] = Aggregated(text, from, f[i - 1], tokens[i])
  <2>1. \A i \in 1..N : i - 1 \in 0..N /\ f[i - 1] \in S
    BY <1>1
  <2> QED BY <1>3, <1>4, <2>1 DEF Runs
<1>6. Is(f)
  <2>1. \A i \in 0..N : f[i] = IF i = 0 THEN start ELSE Aggregated(text, from, f[i - 1], tokens[i])
    BY <1>1, <1>5
  <2> QED BY <1>4, <2>1
<1>7. AggregateTokens(text, from, tokens) = (CHOOSE g : Is(g))[N].spans
  BY DEF AggregateTokens, start
<1>8. Is(CHOOSE g : Is(g))
  <2> HIDE DEF Is
  <2> QED BY <1>6
<1>9. ASSUME NEW g, Is(g)
      PROVE  g[0] = start /\ \A i \in 1..N : g[i] = Aggregated(text, from, g[i - 1], tokens[i])
  BY <1>1, <1>9
<1> DEFINE after == CHOOSE g : Is(g)
<1>10. after[0] = start /\ \A i \in 1..N : after[i] = Aggregated(text, from, after[i - 1], tokens[i])
  <2> HIDE DEF Is
  <2> QED BY <1>8, <1>9
<1>11. AggregateTokens(text, from, tokens) = after[N].spans
  BY <1>7
<1> HIDE DEF after, Is
<1> DEFINE P == {i \in Nat : i <= N => after[i] \in S}
<1>12. 0 \in P
  BY <1>2, <1>10
<1>13. ASSUME NEW i \in P PROVE i + 1 \in P
  <2> SUFFICES ASSUME i + 1 <= N PROVE after[i + 1] \in S
    OBVIOUS
  <2>1. i + 1 \in 1..N /\ (i + 1) - 1 = i /\ after[i] \in S
    BY <1>1
  <2>2. after[i + 1] = Aggregated(text, from, after[i], tokens[i + 1])
    BY <1>10, <2>1
  <2> QED BY <1>1, <2>1, <2>2, AggregatedIsTyped DEF S
<1>14. P = Nat
  <2> HIDE DEF P
  <2> QED BY <1>12, <1>13, ByInduction DEF P
<1>15. \A i \in 0..N : after[i] \in S
  <2> SUFFICES ASSUME NEW i \in 0..N PROVE after[i] \in S
    OBVIOUS
  <2>1. i \in P /\ i <= N
    BY <1>1, <1>14
  <2> QED BY <2>1
<1> QED BY <1>10, <1>11, <1>15 DEF start, S

LEMMA EntitiesAreFound ==
  ASSUME NEW L, NEW text, NEW from, NEW tokens, InLine(L, tokens), Adjoining(text, from, tokens)
  PROVE  \E P : LET m == Len(tokens)
               IN /\ Parted(L, AggregateTokens(text, from, tokens), P, tokens, m)
                  /\ Covering(P, tokens, m) /\ Whole(P, tokens, m)
<1> DEFINE N == Len(tokens)
<1>1. tokens \in Seq(TokensIn(L)) /\ N \in Nat
  BY LenProperties DEF InLine
<1>2. PICK after :
        /\ after[0] = [spans |-> <<>>, open |-> FALSE]
        /\ \A i \in 1..N : after[i] = Aggregated(text, from, after[i - 1], tokens[i])
        /\ \A i \in 0..N : after[i] \in Aggregates(L)
        /\ AggregateTokens(text, from, tokens) = after[N].spans
  BY <1>1, AggregationRuns
<1> DEFINE I == {i \in Nat : i <= N => \E P : SoFar(L, after[i], P, tokens, i)}
<1>3. 0 \in I
  <2> DEFINE was == after[0]
  <2>1. was.spans = <<>> /\ was.open = FALSE
    BY <1>2
  <2> HIDE DEF was
  <2>2. Len(<<>>) = 0 /\ 1..0 = {} /\ 2..0 = {}
    OBVIOUS
  <2>3. <<>> \in Seq(SpansOf(TypesIn(L))) /\ <<>> \in Seq((1..0) \X (1..0))
    BY EmptySeq
  <2>4. Parted(L, <<>>, <<>>, tokens, 0)
    BY <2>2, <2>3 DEF Parted
  <2>5. Covering(<<>>, tokens, 0) /\ Whole(<<>>, tokens, 0) /\ Open(<<>>, tokens, 0) = FALSE
    BY <2>2 DEF Covering, Whole, Open
  <2>6. SoFar(L, was, <<>>, tokens, 0)
    BY <2>1, <2>4, <2>5 DEF SoFar
  <2> QED BY <2>6 DEF was
<1>4. ASSUME NEW i \in I PROVE i + 1 \in I
  <2> SUFFICES ASSUME i + 1 <= N PROVE \E P : SoFar(L, after[i + 1], P, tokens, i + 1)
    OBVIOUS
  <2>1. PICK k \in 1..N : k = i + 1 /\ k - 1 = i
    BY <1>1
  <2>2. i \in Nat /\ i \in 0..N
    BY <1>1
  <2>3. PICK P : SoFar(L, after[i], P, tokens, i)
    BY <1>1
  <2>4. after[k] = Aggregated(text, from, after[i], tokens[k]) /\ after[i] \in Aggregates(L)
    BY <1>2, <2>1, <2>2
  <2> HIDE DEF I
  <2>5. \E Q : SoFar(L, Aggregated(text, from, after[i], tokens[k]), Q, tokens, k)
    BY <2>1, <2>2, <2>3, <2>4, TokenIsAggregated
  <2> QED BY <2>1, <2>4, <2>5
<1>5. I = Nat
  <2> HIDE DEF I
  <2> QED BY <1>3, <1>4, ByInduction DEF I
<1>6. PICK P : SoFar(L, after[N], P, tokens, N)
  <2>1. N \in I
    BY <1>1, <1>5
  <2> QED BY <1>1, <2>1
<1>7. /\ Parted(L, AggregateTokens(text, from, tokens), P, tokens, N)
      /\ Covering(P, tokens, N) /\ Whole(P, tokens, N)
  BY <1>2, <1>6 DEF SoFar
<1> QED BY <1>7

-----------------------------------------------------------------------------
(* Parts of entities are united.                                           *)

(* Tokens of a character have its bounds, those of one type are of one     *)
(* entity.                                                                 *)
ByCharacter(tokens) ==
  \A i, j \in 1..Len(tokens) : i < j =>
    /\ tokens[i].start = tokens[j].start => tokens[i].end = tokens[j].end
    /\ tokens[j].start < tokens[i].end /\ Typed(tokens, i) /\ tokens[i].label.type = tokens[j].label.type =>
         \A k \in (i + 1)..j : Joins(tokens, k)

(* mergeWindowedSpans makes of parts of entities, in any order, the        *)
(* entities again, when any two tokens in a row of one are in a part.      *)
LEMMA PartsAreUnited ==
  ASSUME NEW L, NEW tokens, InLine(L, tokens), ByCharacter(tokens), NEW m, m = Len(tokens),
         NEW F, NEW P, Parted(L, F, P, tokens, m), Covering(P, tokens, m),
         NEW B, NEW Q, Parted(L, B, Q, tokens, m), Covering(Q, tokens, m), Whole(Q, tokens, m)
  PROVE  MergeWindowedSpans(F) = B
<1> DEFINE start(i) == tokens[i].start
           end(i) == tokens[i].end
           Has(R, x, i) == R[x][1] <= i /\ i <= R[x][2]
           nf == Len(F)
           nb == Len(B)
<1>1. /\ m \in Nat /\ nf \in Nat /\ nb \in Nat /\ nf = Len(P) /\ nb = Len(Q)
      /\ F \in Seq(SpansOf(TypesIn(L))) /\ B \in Seq(SpansOf(TypesIn(L)))
      /\ P \in Seq((1..m) \X (1..m)) /\ Q \in Seq((1..m) \X (1..m))
  BY LenProperties DEF Parted, InLine
<1>2. \A i \in 1..m : start(i) \in Nat /\ end(i) \in Nat /\ start(i) < end(i)
  BY TokenIsTyped DEF InLine
<1>3. \A i, j \in 1..m : i <= j => start(i) <= start(j) /\ end(i) <= end(j)
  <2> TAKE i, j \in 1..m
  <2>1. CASE i = j
    BY <1>2, <2>1
  <2>2. CASE i # j
    <3>1. i < j => start(i) <= start(j) /\ end(i) <= end(j)
      BY DEF InLine
    <3> HIDE DEF start, end
    <3> QED BY <1>1, <2>2, <3>1
  <2> QED BY <2>1, <2>2
<1>4. \A x \in 1..nf :
        /\ P[x][1] \in 1..m /\ P[x][2] \in 1..m /\ P[x][1] <= P[x][2]
        /\ F[x].start = start(P[x][1]) /\ F[x].end = end(P[x][2])
        /\ F[x].type = tokens[P[x][1]].label.type /\ Typed(tokens, P[x][1])
        /\ \A i \in (P[x][1] + 1)..P[x][2] : Joins(tokens, i)
  <2> TAKE x \in 1..nf
  <2>1. P[x][1] \in 1..m /\ P[x][2] \in 1..m
    BY <1>1
  <2>2. /\ F[x] = Piece(tokens, P[x]) /\ P[x][1] <= P[x][2]
        /\ \A i \in P[x][1]..P[x][2] : Typed(tokens, i)
        /\ \A i \in (P[x][1] + 1)..P[x][2] : Joins(tokens, i)
    BY DEF Parted
  <2>3. P[x][1] \in P[x][1]..P[x][2]
    BY <2>1, <2>2
  <2> QED BY <2>1, <2>2, <2>3 DEF Piece, Span
<1>5. \A k \in 1..nb :
        /\ Q[k][1] \in 1..m /\ Q[k][2] \in 1..m /\ Q[k][1] <= Q[k][2]
        /\ B[k].start = start(Q[k][1]) /\ B[k].end = end(Q[k][2])
        /\ B[k].type = tokens[Q[k][1]].label.type
        /\ \A i \in Q[k][1]..Q[k][2] : Typed(tokens, i) /\ tokens[i].label.type = B[k].type
        /\ \A i \in (Q[k][1] + 1)..Q[k][2] : Joins(tokens, i)
  <2> TAKE k \in 1..nb
  <2>1. Q[k][1] \in 1..m /\ Q[k][2] \in 1..m
    BY <1>1
  <2>2. /\ B[k] = Piece(tokens, Q[k]) /\ Q[k][1] <= Q[k][2]
        /\ \A i \in Q[k][1]..Q[k][2] : Typed(tokens, i) /\ tokens[i].label.type = tokens[Q[k][1]].label.type
        /\ \A i \in (Q[k][1] + 1)..Q[k][2] : Joins(tokens, i)
    BY DEF Parted
  <2> QED BY <2>1, <2>2 DEF Piece, Span
<1>6. /\ \A j, k \in 1..nb : j < k => Q[j][2] < Q[k][1]
      /\ \A k \in 1..nb : /\ 1 < Q[k][1] => ~Joins(tokens, Q[k][1])
                          /\ Q[k][2] < m => ~Joins(tokens, Q[k][2] + 1)
  BY <1>1 DEF Whole
<1>7. /\ \A i \in 1..m : Typed(tokens, i) => \E k \in 1..nb : Has(Q, k, i)
      /\ \A i \in 1..m : Typed(tokens, i) => \E x \in 1..nf : Has(P, x, i)
      /\ \A i \in 2..m : Joins(tokens, i) => \E x \in 1..nf : P[x][1] <= i - 1 /\ i <= P[x][2]
      /\ \A x \in 1..nf, i \in 1..m : Typed(tokens, i) /\ i < P[x][1] => \E y \in 1..nf : y < x /\ Has(P, y, i)
  BY <1>1 DEF Covering
<1> HIDE DEF nf, nb, start, end
<1> DEFINE of == [x \in 1..nf |-> CHOOSE k \in 1..nb : Has(Q, k, P[x][1])]
<1>8. \A x \in 1..nf : of[x] \in 1..nb /\ Has(Q, of[x], P[x][1])
  <2> TAKE x \in 1..nf
  <2>1. \E k \in 1..nb : Has(Q, k, P[x][1])
    BY <1>4, <1>7
  <2> HIDE DEF Has
  <2> QED BY <2>1
<1> HIDE DEF of
<1>9. \A x \in 1..nf : Q[of[x]][1] <= P[x][1] /\ P[x][2] <= Q[of[x]][2]
  <2> TAKE x \in 1..nf
  <2>1. PICK lo \in 1..m, hi \in 1..m : lo = P[x][1] /\ hi = P[x][2] /\ lo <= hi
    BY <1>4
  <2>2. PICK a \in 1..m, b \in 1..m : a = Q[of[x]][1] /\ b = Q[of[x]][2] /\ a <= lo /\ lo <= b
    BY <1>5, <1>8, <2>1
  <2>3. hi <= b
    <3> SUFFICES ASSUME b < hi PROVE FALSE
      BY <1>1
    <3>1. m \in Nat /\ lo <= b /\ b < hi
      BY <1>1, <2>2
    <3>2. b + 1 \in (lo + 1)..hi /\ b < m
      BY <3>1
    <3>3. Joins(tokens, b + 1)
      BY <1>4, <2>1, <3>2
    <3> QED BY <1>6, <1>8, <2>2, <3>2, <3>3
  <2> QED BY <2>1, <2>2, <2>3
<1>10. \A j, k \in 1..nb, i \in 1..m : Has(Q, j, i) /\ Has(Q, k, i) => j = k
  <2> TAKE j, k \in 1..nb, i \in 1..m
  <2> HAVE Has(Q, j, i) /\ Has(Q, k, i)
  <2>1. ~(j < k)
    BY <1>5, <1>6
  <2>2. ~(k < j)
    BY <1>5, <1>6
  <2> QED BY <1>1, <2>1, <2>2
<1>11. \A x \in 1..nf, k \in 1..nb, i \in 1..m : Has(P, x, i) /\ Has(Q, k, i) => of[x] = k
  <2> TAKE x \in 1..nf, k \in 1..nb, i \in 1..m
  <2> HAVE Has(P, x, i) /\ Has(Q, k, i)
  <2>1. Has(Q, of[x], i)
    BY <1>4, <1>5, <1>8, <1>9, SMTT(20)
  <2> HIDE DEF Has
  <2> QED BY <1>8, <1>10, <2>1
<1>12. \A k \in 1..nb : B[k].start < B[k].end
  BY <1>2, <1>3, <1>5, SMTT(20)
<1>13. ASSUME NEW x \in 1..nf
       PROVE  /\ F[x].type = B[of[x]].type
              /\ B[of[x]].start <= F[x].start /\ F[x].start < F[x].end /\ F[x].end <= B[of[x]].end
  <2>1. of[x] \in 1..nb /\ P[x][1] \in Q[of[x]][1]..Q[of[x]][2]
    BY <1>4, <1>5, <1>8
  <2>2. F[x].type = B[of[x]].type
    BY <1>4, <1>5, <2>1, SMTT(20)
  <2>3. B[of[x]].start <= F[x].start
    BY <1>3, <1>4, <1>5, <1>9, <2>1
  <2>4. F[x].end <= B[of[x]].end
    BY <1>3, <1>4, <1>5, <1>9, <2>1, SMTT(20)
  <2>5. F[x].start < F[x].end
    <3>1. PICK lo \in 1..m, hi \in 1..m :
            lo = P[x][1] /\ hi = P[x][2] /\ lo <= hi /\ F[x].start = start(lo) /\ F[x].end = end(hi)
      BY <1>4
    <3>2. start(lo) \in Nat /\ end(lo) \in Nat /\ end(hi) \in Nat /\ start(lo) < end(lo) /\ end(lo) <= end(hi)
      BY <1>2, <1>3, <3>1
    <3> QED BY <3>1, <3>2
  <2> QED BY <2>2, <2>3, <2>4, <2>5
<1>14. ASSUME NEW k \in 1..nb
       PROVE  /\ \E x \in 1..nf : of[x] = k /\ F[x].start = B[k].start
              /\ \E x \in 1..nf : of[x] = k /\ F[x].end = B[k].end
  <2>1. PICK a \in 1..m, b \in 1..m : a = Q[k][1] /\ b = Q[k][2] /\ a <= b
    BY <1>5
  <2>2. Typed(tokens, a) /\ Typed(tokens, b) /\ Has(Q, k, a) /\ Has(Q, k, b)
    BY <1>5, <2>1
  <2>3. PICK x \in 1..nf : Has(P, x, a)
    BY <1>7, <2>2
  <2>4. of[x] = k
    BY <1>11, <2>2, <2>3
  <2>5. P[x][1] = a
    BY <1>4, <1>9, <2>1, <2>3, <2>4
  <2>6. F[x].start = B[k].start
    BY <1>4, <1>5, <2>1, <2>5
  <2>7. PICK y \in 1..nf : Has(P, y, b)
    BY <1>7, <2>2
  <2>8. of[y] = k
    BY <1>11, <2>2, <2>7
  <2>9. P[y][2] = b
    BY <1>4, <1>9, <2>1, <2>7, <2>8
  <2>10. F[y].end = B[k].end
    BY <1>4, <1>5, <2>1, <2>9
  <2> QED BY <2>4, <2>6, <2>8, <2>10
<1>15. ASSUME NEW x \in 1..nf, B[of[x]].start < F[x].start
       PROVE  \E y \in 1..nf : of[y] = of[x] /\ F[y].start < F[x].start /\ F[x].start < F[y].end
  <2> DEFINE k == of[x]
  <2>1. PICK a \in 1..m, b \in 1..m : a = Q[k][1] /\ b = Q[k][2] /\ k \in 1..nb
    BY <1>5, <1>8
  <2>2. PICK lo \in 1..m : lo = P[x][1] /\ a <= lo /\ lo <= b
    BY <1>4, <1>8, <2>1
  <2>3. F[x].start = start(lo) /\ B[k].start = start(a)
    BY <1>4, <1>5, <2>1, <2>2
  <2> DEFINE T == {i \in a..lo : start(i) = start(lo)}
  <2>4. PICK i \in T : \A j \in T : i <= j
    <3>1. lo \in T /\ T \in SUBSET Nat
      BY <2>2
    <3> HIDE DEF T
    <3> QED BY <3>1, LeastExists
  <2>5. i \in (a + 1)..b /\ i \in 1..m /\ i \in 2..m /\ i - 1 \in 1..m /\ i - 1 \in a..lo /\ start(i) = start(lo)
    <3>1. i # a
      BY <1>15, <1>2, <2>3, <2>4
    <3> QED BY <2>2, <2>4, <3>1
  <2>6. start(i - 1) < start(lo)
    <3>1. i - 1 \notin T
      BY <2>4, <2>5
    <3>2. start(i - 1) # start(lo)
      BY <2>5, <3>1
    <3>3. start(i - 1) <= start(i)
      BY <1>3, <2>5
    <3> QED BY <1>2, <2>5, <3>2, <3>3, SMTT(20)
  <2> HIDE DEF T
  <2>7. Joins(tokens, i) /\ Has(Q, k, i)
    BY <1>5, <2>1, <2>5, SMTT(20)
  <2>8. PICK y \in 1..nf : P[y][1] <= i - 1 /\ i <= P[y][2]
    BY <1>7, <2>5, <2>7
  <2>9. of[y] = k
    <3>1. Has(P, y, i)
      BY <1>4, <2>5, <2>8
    <3> HIDE DEF Has
    <3> QED BY <1>11, <2>1, <2>5, <2>7, <3>1
  <2>10. F[y].start <= start(i - 1) /\ end(i) <= F[y].end
    BY <1>3, <1>4, <2>5, <2>8, SMTT(20)
  <2>11. F[y].start < start(lo) /\ start(lo) < F[y].end
    <3>1. F[y].start \in Nat /\ F[y].end \in Nat /\ F[x].start = start(lo)
      BY <1>2, <1>4, <2>3
    <3>2. start(i - 1) \in Nat /\ start(lo) \in Nat /\ end(i) \in Nat /\ start(lo) < end(i)
      BY <1>2, <2>5
    <3> QED BY <2>6, <2>10, <3>1, <3>2, SMTT(20)
  <2> QED BY <2>3, <2>9, <2>11
<1>16. ASSUME NEW j \in 1..nb, NEW k \in 1..nb, j < k, B[j].type = B[k].type PROVE B[j].end <= B[k].start
  <2>1. PICK b \in 1..m, a \in 1..m : b = Q[j][2] /\ a = Q[k][1] /\ b < a
    BY <1>5, <1>6, <1>16
  <2>2. Typed(tokens, b) /\ tokens[b].label.type = tokens[a].label.type
    <3>1. b \in Q[j][1]..Q[j][2]
      BY <1>5, <2>1
    <3> QED BY <1>5, <1>16, <2>1, <3>1
  <2>3. ~Joins(tokens, a)
    BY <1>6, <2>1
  <2>4. ~(start(a) < end(b))
    <3>1. a \in (b + 1)..a
      BY <2>1
    <3> QED BY <2>1, <2>2, <2>3, <3>1 DEF ByCharacter, start, end
  <2> QED BY <1>2, <1>5, <2>1, <2>4, SMTT(20)
<1>17. ASSUME NEW x \in 1..nf, NEW j \in 1..nb, j < of[x] PROVE \E y \in 1..nf : of[y] = j /\ Comes(F, y, x)
  <2>1. PICK b \in 1..m, lo \in 1..m, hi \in 1..m :
          b = Q[j][2] /\ lo = P[x][1] /\ hi = P[x][2] /\ lo <= hi /\ b < lo
    <3>1. of[x] \in 1..nb /\ Q[j][2] \in 1..m /\ Q[j][2] < Q[of[x]][1]
      BY <1>5, <1>6, <1>8, <1>17
    <3>2. P[x][1] \in 1..m /\ P[x][2] \in 1..m /\ P[x][1] <= P[x][2] /\ Q[of[x]][1] <= P[x][1] /\ Q[of[x]][1] \in 1..m
      BY <1>4, <1>5, <1>9, <3>1
    <3>3. Q[j][2] < P[x][1]
      BY <3>1, <3>2
    <3> QED BY <3>1, <3>2, <3>3
  <2>2. Typed(tokens, b) /\ Has(Q, j, b)
    BY <1>5, <2>1
  <2>3. PICK y \in 1..nf : y < x /\ Has(P, y, b)
    BY <1>7, <2>1, <2>2
  <2>4. of[y] = j
    BY <1>11, <2>2, <2>3
  <2>5. P[y][2] = b
    BY <1>4, <1>9, <2>1, <2>3, <2>4, SMTT(20)
  <2>6. PICK c \in 1..m : c = P[y][1] /\ c <= b
    BY <1>4, <2>3
  <2>7. F[x].start = start(lo) /\ F[x].end = end(hi) /\ F[y].start = start(c) /\ F[y].end = end(b)
    BY <1>4, <2>1, <2>5, <2>6
  <2>8. start(c) <= start(lo)
    BY <1>3, <2>1, <2>6, SMTT(20)
  <2>9. start(c) = start(lo) => end(b) <= end(hi)
    <3>1. start(c) = start(lo) => start(b) = start(lo)
      <4>1. start(c) <= start(b) /\ start(b) <= start(lo)
        BY <1>3, <2>1, <2>6, SMTT(20)
      <4>2. start(c) \in Nat /\ start(b) \in Nat /\ start(lo) \in Nat
        BY <1>2
      <4> QED BY <4>1, <4>2
    <3>2. start(b) = start(lo) => end(b) = end(lo)
      BY <2>1 DEF ByCharacter, start, end
    <3>3. end(lo) <= end(hi)
      BY <1>3, <2>1
    <3> QED BY <3>1, <3>2, <3>3
  <2>10. Comes(F, y, x)
    <3>1. start(c) \in Nat /\ start(lo) \in Nat /\ end(b) \in Nat /\ end(hi) \in Nat
      BY <1>2
    <3> QED BY <2>3, <2>7, <2>8, <2>9, <3>1 DEF Comes
  <2> QED BY <2>4, <2>10
<1>18. of \in [1..nf -> 1..nb]
  <2>1. \A x \in 1..nf : of[x] \in 1..nb
    BY <1>8
  <2>2. of = [x \in 1..nf |-> of[x]]
    BY DEF of
  <2> QED BY <2>1, <2>2
<1>19. Fragmented(F, B, of)
  BY <1>12, <1>13, <1>14, <1>15, <1>16, <1>17, <1>18 DEF Fragmented, nf, nb
<1> QED BY <1>1, <1>19, FragmentsAreUnited

-----------------------------------------------------------------------------
(* One sequence of many.                                                   *)

LEMMA FlattenRuns ==
  ASSUME NEW S, NEW seqs \in Seq(Seq(S))
  PROVE  \E f : /\ f[0] = <<>> /\ \A k \in 1..Len(seqs) : f[k] = f[k - 1] \o seqs[k]
                /\ \A k \in 0..Len(seqs) : f[k] \in Seq(S)
                /\ FlattenSeq(seqs) = f[Len(seqs)]
<1> DEFINE n == Len(seqs)
           Q == Seq(S)
           step == [c \in (1..n) \X Q |-> c[2] \o seqs[c[1]]]
           Is(g) == g = [i \in 1..n |-> IF i = 1 THEN seqs[i] ELSE g[i - 1] \o seqs[i]]
<1>1. n \in Nat /\ \A k \in 1..n : seqs[k] \in Q
  BY LenProperties
<1>2. <<>> \in Q
  BY EmptySeq
<1>3. step \in [(1..n) \X Q -> Q] /\ \A k \in 1..n, v \in Q : step[<<k, v>>] = v \o seqs[k]
  <2>1. \A k \in 1..n, v \in Q : v \o seqs[k] \in Q
    BY <1>1, ConcatProperties
  <2> HIDE DEF Q
  <2> QED BY <2>1
<1> HIDE DEF step
<1>4. PICK f \in [0..n -> Q] : Runs(f, <<>>, step, n)
  <2> HIDE DEF Q
  <2> QED BY <1>1, <1>2, <1>3, LoopExists
<1>5. f[0] = <<>> /\ \A k \in 1..n : k - 1 \in 0..n /\ f[k - 1] \in Q /\ f[k] = f[k - 1] \o seqs[k]
  <2>1. \A k \in 1..n : k - 1 \in 0..n /\ f[k - 1] \in Q
    <3>1. \A k \in 1..n : k - 1 \in 0..n
      BY <1>1
    <3> HIDE DEF n, Q
    <3> QED BY <3>1
  <2> QED BY <1>3, <1>4, <2>1 DEF Runs
<1>6. CASE n = 0
  <2>1. seqs = <<>>
    BY <1>6, EmptySeq
  <2>2. FlattenSeq(seqs) = f[n]
    BY <1>5, <1>6, <2>1 DEF FlattenSeq
  <2> QED BY <1>4, <1>5, <2>2
<1>7. CASE n # 0
  <2>1. FlattenSeq(seqs) = (CHOOSE g : Is(g))[n]
    BY <1>7 DEF FlattenSeq
  <2> DEFINE h == [k \in 1..n |-> f[k]]
  <2>2. Is(h)
    <3>1. ASSUME NEW k \in 1..n PROVE h[k] = IF k = 1 THEN seqs[k] ELSE h[k - 1] \o seqs[k]
      <4>1. CASE k = 1
        <5>1. f[k] = f[0] \o seqs[k]
          <6>1. f[k] = f[k - 1] \o seqs[k]
            BY <1>5
          <6>2. k - 1 = 0
            BY <4>1
          <6> QED BY <6>1, <6>2
        <5>2. <<>> \o seqs[k] = seqs[k]
          BY <1>1, ConcatEmptySeq
        <5> QED BY <1>5, <4>1, <5>1, <5>2
      <4>2. CASE k # 1
        <5>1. k - 1 \in 1..n
          BY <1>1, <4>2
        <5> QED BY <1>5, <4>2, <5>1
      <4> QED BY <4>1, <4>2
    <3>2. h = [k \in 1..n |-> IF k = 1 THEN seqs[k] ELSE h[k - 1] \o seqs[k]]
      BY <3>1
    <3> QED BY <3>2
  <2>3. Is(CHOOSE g : Is(g))
    <3> HIDE DEF Is, h
    <3> QED BY <2>2
  <2>4. ASSUME NEW g, Is(g)
        PROVE  \A k \in 1..n : g[k] = IF k = 1 THEN seqs[k] ELSE g[k - 1] \o seqs[k]
    <3>1. g = [i \in 1..n |-> IF i = 1 THEN seqs[i] ELSE g[i - 1] \o seqs[i]]
      BY <2>4
    <3> HIDE DEF Is
    <3> QED BY <3>1
  <2> DEFINE g == CHOOSE g0 : Is(g0)
  <2>5. \A k \in 1..n : g[k] = IF k = 1 THEN seqs[k] ELSE g[k - 1] \o seqs[k]
    <3> HIDE DEF Is
    <3> QED BY <2>3, <2>4
  <2>6. FlattenSeq(seqs) = g[n]
    BY <2>1
  <2> HIDE DEF g, Is
  <2> DEFINE I == {k \in Nat : k \in 1..n => g[k] = f[k]}
  <2>7. 0 \in I
    OBVIOUS
  <2>8. ASSUME NEW k \in I PROVE k + 1 \in I
    <3> SUFFICES ASSUME k + 1 \in 1..n PROVE g[k + 1] = f[k + 1]
      OBVIOUS
    <3>1. PICK j \in 1..n : j = k + 1 /\ j - 1 = k
      OBVIOUS
    <3>2. g[j] = IF j = 1 THEN seqs[j] ELSE g[k] \o seqs[j]
      BY <2>5, <3>1
    <3>3. f[j] = f[k] \o seqs[j] /\ seqs[j] \in Seq(S)
      BY <1>1, <1>5, <3>1
    <3>4. CASE k = 0
      <4>1. f[j] = <<>> \o seqs[j]
        BY <1>5, <3>3, <3>4
      <4>2. <<>> \o seqs[j] = seqs[j]
        BY <3>3, ConcatEmptySeq
      <4> QED BY <3>1, <3>2, <3>4, <4>1, <4>2
    <3>5. CASE k # 0
      <4>1. k \in 1..n /\ j # 1
        BY <1>1, <3>1, <3>5
      <4>2. g[k] = f[k]
        BY <4>1
      <4> QED BY <3>1, <3>2, <3>3, <4>1, <4>2
    <3> QED BY <3>4, <3>5
  <2>9. I = Nat
    <3> HIDE DEF I
    <3> QED BY <2>7, <2>8, ByInduction DEF I
  <2>10. g[n] = f[n]
    <3>1. n \in I /\ n \in 1..n
      BY <1>1, <1>7, <2>9
    <3> QED BY <3>1
  <2> QED BY <1>4, <1>5, <2>6, <2>10
<1> QED BY <1>6, <1>7

(* at[k] of flat are of the first k.                                       *)
Placed(at, seqs, flat) ==
  /\ at \in [0..Len(seqs) -> Nat] /\ at[0] = 0 /\ Len(flat) = at[Len(seqs)]
  /\ \A k \in 1..Len(seqs) : at[k] = at[k - 1] + Len(seqs[k])
  /\ \A j, k \in 0..Len(seqs) : j <= k => at[j] <= at[k]
  /\ \A k \in 1..Len(seqs) : \A j \in 1..Len(seqs[k]) : flat[at[k - 1] + j] = seqs[k][j]
  /\ \A x \in 1..Len(flat) : \E k \in 1..Len(seqs) : at[k - 1] < x /\ x <= at[k]

LEMMA Flattened ==
  ASSUME NEW S, NEW seqs \in Seq(Seq(S))
  PROVE  FlattenSeq(seqs) \in Seq(S) /\ \E at : Placed(at, seqs, FlattenSeq(seqs))
<1> DEFINE n == Len(seqs)
<1>1. n \in Nat /\ \A k \in 1..n : seqs[k] \in Seq(S)
  BY LenProperties
<1>2. PICK f : /\ f[0] = <<>> /\ \A k \in 1..n : f[k] = f[k - 1] \o seqs[k]
               /\ \A k \in 0..n : f[k] \in Seq(S)
               /\ FlattenSeq(seqs) = f[n]
  BY FlattenRuns
<1> DEFINE at == [k \in 0..n |-> Len(f[k])]
<1>3. \A k \in 0..n : at[k] = Len(f[k]) /\ at[k] \in Nat
  BY <1>2, LenProperties
<1>4. \A k \in 1..n : k - 1 \in 0..n /\ k \in 0..n
  BY <1>1
<1>5. \A k \in 1..n :
        /\ at[k] = at[k - 1] + Len(seqs[k]) /\ Len(seqs[k]) \in Nat
        /\ \A x \in 1..at[k - 1] : f[k][x] = f[k - 1][x]
        /\ \A j \in 1..Len(seqs[k]) : f[k][at[k - 1] + j] = seqs[k][j]
  <2> TAKE k \in 1..n
  <2> DEFINE a == f[k - 1]
             b == seqs[k]
  <2>1. a \in Seq(S) /\ b \in Seq(S) /\ f[k] = a \o b /\ at[k - 1] = Len(a) /\ at[k] = Len(a \o b)
    BY <1>1, <1>2, <1>3, <1>4
  <2> HIDE DEF a, b, at
  <2>2. Len(a \o b) = Len(a) + Len(b) /\ Len(a) \in Nat /\ Len(b) \in Nat
        /\ \A i \in 1..(Len(a) + Len(b)) : (a \o b)[i] = IF i <= Len(a) THEN a[i] ELSE b[i - Len(a)]
    BY <2>1, ConcatProperties, LenProperties
  <2>3. \A x \in 1..Len(a) : (a \o b)[x] = a[x]
    BY <2>2
  <2>4. ASSUME NEW j \in 1..Len(b) PROVE (a \o b)[Len(a) + j] = b[j]
    <3>1. PICK u \in Nat, v \in Nat : u = Len(a) /\ v = Len(b)
      BY <2>2
    <3>2. PICK i \in 1..(u + v) : i = u + j /\ ~(i <= u) /\ i - u = j
      <4>1. j \in 1..v
        BY <3>1
      <4> QED BY <4>1, SMTT(20)
    <3>3. (a \o b)[i] = IF i <= u THEN a[i] ELSE b[i - u]
      BY <2>2, <3>1, SMTT(20)
    <3> QED BY <3>1, <3>2, <3>3
  <2> QED BY <2>1, <2>2, <2>3, <2>4 DEF a, b
<1> HIDE DEF at
<1> DEFINE I == {l \in Nat : l <= n => \A k \in 0..n : k <= l =>
                    at[k] <= at[l] /\ \A x \in 1..at[k] : f[l][x] = f[k][x]}
<1>6. 0 \in I
  <2>1. \A k \in 0..n : k <= 0 => k = 0
    BY <1>1
  <2>2. 0 \in 0..n
    BY <1>1
  <2> QED BY <1>3, <2>1, <2>2
<1>7. ASSUME NEW l \in I PROVE l + 1 \in I
  <2> SUFFICES ASSUME l + 1 <= n, NEW k \in 0..n, k <= l + 1
               PROVE  at[k] <= at[l + 1] /\ \A x \in 1..at[k] : f[l + 1][x] = f[k][x]
    OBVIOUS
  <2>1. PICK u \in 1..n : u = l + 1 /\ u - 1 = l /\ l \in 0..n /\ u \in 0..n
    BY <1>1
  <2>2. /\ at[u] = at[l] + Len(seqs[u]) /\ Len(seqs[u]) \in Nat
        /\ \A x \in 1..at[l] : f[u][x] = f[l][x]
    BY <1>5, <2>1
  <2>3. CASE k = u
    BY <1>3, <2>1, <2>3
  <2>4. CASE k # u
    <3>1. k <= l
      BY <1>1, <2>1, <2>4
    <3>2. at[k] <= at[l] /\ \A x \in 1..at[k] : f[l][x] = f[k][x]
      BY <1>1, <2>1, <3>1
    <3>3. at[k] <= at[u] /\ \A x \in 1..at[k] : x \in 1..at[l]
      BY <1>3, <2>1, <2>2, <3>2
    <3> QED BY <2>1, <2>2, <3>2, <3>3
  <2> QED BY <2>1, <2>3, <2>4
<1>8. I = Nat
  <2> HIDE DEF I
  <2> QED BY <1>6, <1>7, ByInduction DEF I
<1>9. \A k, l \in 0..n : k <= l => at[k] <= at[l] /\ \A x \in 1..at[k] : f[l][x] = f[k][x]
  <2> TAKE k, l \in 0..n
  <2>1. l \in I /\ l <= n
    BY <1>1, <1>8
  <2> QED BY <2>1
<1>10. ASSUME NEW k \in 1..n, NEW j \in 1..Len(seqs[k]) PROVE f[n][at[k - 1] + j] = seqs[k][j]
  <2>1. k \in 0..n /\ k - 1 \in 0..n /\ n \in 0..n /\ k <= n
    BY <1>1
  <2>2. at[k - 1] + j \in 1..at[k]
    BY <1>3, <1>5, <2>1
  <2>3. f[k][at[k - 1] + j] = seqs[k][j]
    BY <1>5
  <2> QED BY <1>9, <2>1, <2>2, <2>3
<1>11. ASSUME NEW x \in 1..at[n] PROVE \E k \in 1..n : at[k - 1] < x /\ x <= at[k]
  <2> DEFINE T == {k \in 0..n : x <= at[k]}
  <2>1. PICK k \in T : \A j \in T : k <= j
    <3>1. n \in T /\ T \in SUBSET Nat
      BY <1>1
    <3> HIDE DEF T
    <3> QED BY <3>1, LeastExists
  <2>2. k # 0
    <3>1. at[0] = 0
      BY <1>2, <1>1, <1>3
    <3> QED BY <2>1, <3>1
  <2>3. k \in 1..n /\ k - 1 \in 0..n /\ ~(k <= k - 1)
    BY <1>1, <2>1, <2>2
  <2>4. ~(x <= at[k - 1])
    BY <2>1, <2>3
  <2>5. at[k - 1] < x
    BY <1>3, <2>3, <2>4, SMTT(20)
  <2> QED BY <2>1, <2>3, <2>5
<1>12. Placed(at, seqs, f[n])
  <2>1. at \in [0..n -> Nat] /\ at[0] = 0 /\ Len(f[n]) = at[n]
    <3>1. 0 \in 0..n /\ n \in 0..n /\ Len(<<>>) = 0
      BY <1>1
    <3>2. at[0] = 0 /\ Len(f[n]) = at[n]
      BY <1>2, <1>3, <3>1
    <3>3. at = [k \in 0..n |-> at[k]]
      BY DEF at
    <3> QED BY <1>3, <3>2, <3>3
  <2> QED BY <1>5, <1>9, <1>10, <1>11, <2>1 DEF Placed
<1>13. f[n] \in Seq(S)
  BY <1>1, <1>2
<1> QED BY <1>2, <1>12, <1>13

LEMMA FunctionIsSeq ==
  ASSUME NEW S, NEW n \in Nat, NEW f \in [1..n -> S]
  PROVE  f \in Seq(S) /\ Len(f) = n
<1>1. f \in Seq(S)
  BY SeqDef
<1>2. Len(f) \in Nat /\ 1..Len(f) = 1..n
  BY <1>1, LenProperties
<1>3. Len(f) = n
  <2> PICK l \in Nat : l = Len(f)
    BY <1>2
  <2>1. l \in 1..l \/ l = 0
    OBVIOUS
  <2>2. n \in 1..n \/ n = 0
    OBVIOUS
  <2>3. 1..l = 1..n
    BY <1>2
  <2>4. l <= n /\ n <= l
    BY <2>1, <2>2, <2>3
  <2> QED BY <2>4
<1> QED BY <1>1, <1>3

-----------------------------------------------------------------------------
(* Windows of tokens.                                                      *)

(* T are the tokens lo+1..hi, with offsets from d.                         *)
PartOf(L, T, tokens, lo, hi, d) ==
  /\ lo <= hi /\ hi <= Len(tokens) /\ T \in Seq(TokensIn(L)) /\ Len(T) = hi - lo
  /\ \A i \in 1..Len(T) :
       /\ T[i].label = tokens[lo + i].label
       /\ tokens[lo + i].start = T[i].start + d /\ tokens[lo + i].end = T[i].end + d

RebasedBy(L, G, F, d) ==
  /\ G \in Seq(SpansOf(TypesIn(L))) /\ Len(G) = Len(F)
  /\ \A x \in 1..Len(F) : G[x].start = F[x].start + d /\ G[x].end = F[x].end + d /\ G[x].type = F[x].type

(* F are parts of entities, and they cover the tokens lo+1..hi.            *)
Windowed(L, F, P, tokens, lo, hi) ==
  /\ Parted(L, F, P, tokens, Len(tokens))
  /\ \A x \in 1..Len(P) : lo < P[x][1] /\ P[x][2] <= hi
  /\ \A i \in 1..Len(tokens) : lo < i /\ i <= hi /\ Typed(tokens, i) =>
       \E x \in 1..Len(P) : P[x][1] <= i /\ i <= P[x][2]
  /\ \A i \in 1..Len(tokens) : lo < i - 1 /\ i <= hi /\ Joins(tokens, i) =>
       \E x \in 1..Len(P) : P[x][1] <= i - 1 /\ i <= P[x][2]
  /\ \A x \in 1..Len(P), i \in 1..Len(tokens) : lo < i /\ Typed(tokens, i) /\ i < P[x][1] =>
       \E y \in 1..Len(P) : y < x /\ P[y][1] <= i /\ i <= P[y][2]

(* G are spans window by window.                                           *)
ByWindow(L, G, W, tokens) ==
  /\ G \in Seq(Seq(SpansOf(TypesIn(L)))) /\ Len(G) = Len(W)
  /\ \A k \in 1..Len(W) : \E R : Windowed(L, G[k], R, tokens, W[k][1], W[k][2])

(* Every token is in a window, two of an entity in a row are together in   *)
(* one, and tokens before a window are in an earlier one.                  *)
WindowsCover(W, tokens) ==
  /\ W \in Seq(Nat \X Nat)
  /\ \A i \in 1..Len(tokens) : \E k \in 1..Len(W) : W[k][1] < i /\ i <= W[k][2]
  /\ \A i \in 2..Len(tokens) : Joins(tokens, i) => \E k \in 1..Len(W) : W[k][1] < i - 1 /\ i <= W[k][2]
  /\ \A k \in 1..Len(W), i \in 1..Len(tokens) : i <= W[k][1] =>
       \E j \in 1..Len(W) : j < k /\ W[j][1] < i /\ i <= W[j][2]

LEMMA Shifted ==
  ASSUME NEW lo \in Int, NEW a \in Int, NEW b \in Int, NEW i \in (lo + a)..(lo + b)
  PROVE  i - lo \in a..b /\ i = lo + (i - lo)
OBVIOUS

LEMMA AfterFirst ==
  ASSUME NEW l \in Nat, NEW a \in 1..l, NEW b \in 1..l, NEW j \in (a + 1)..b
  PROVE  j \in 2..l
OBVIOUS

LEMMA WindowIsPart ==
  ASSUME NEW L, NEW tokens, InLine(L, tokens), NEW lo \in Nat, NEW hi \in Nat, NEW d \in Nat,
         NEW T, PartOf(L, T, tokens, lo, hi, d),
         NEW F, NEW P, Parted(L, F, P, T, Len(T)), Covering(P, T, Len(T)),
         NEW G, RebasedBy(L, G, F, d)
  PROVE  \E R : Windowed(L, G, R, tokens, lo, hi)
<1> DEFINE m == Len(tokens)
           l == Len(T)
           n == Len(P)
           R == [x \in 1..n |-> <<lo + P[x][1], lo + P[x][2]>>]
<1>1. /\ P \in Seq((1..l) \X (1..l)) /\ F \in Seq(SpansOf(TypesIn(L))) /\ tokens \in Seq(TokensIn(L))
       /\ n = Len(F) /\ n = Len(G) /\ G \in Seq(SpansOf(TypesIn(L)))
  BY DEF InLine, Parted, RebasedBy
<1>2. m \in Nat /\ l \in Nat /\ n \in Nat /\ l = hi - lo /\ lo + l = hi /\ hi <= m /\ lo \in Nat /\ hi \in Nat
  <2>1. m \in Nat /\ n \in Nat
    BY <1>1, LenProperties
  <2>2. l \in Nat
    BY LenProperties DEF PartOf
  <2>3. l = hi - lo /\ hi <= m
    BY DEF PartOf
  <2> HIDE DEF l, m, n
  <2> QED BY <2>1, <2>2, <2>3
<1>3. /\ m = Len(tokens) /\ l = Len(T) /\ n = Len(P) /\ DOMAIN R = 1..n
      /\ R = [x \in 1..n |-> <<lo + P[x][1], lo + P[x][2]>>]
  OBVIOUS
<1> HIDE DEF m, l, n, R
<1>4. \A i \in 1..l : lo + i \in 1..m /\ lo + i <= hi /\ lo < lo + i
  BY <1>2
<1>5. \A i \in 1..l : /\ Typed(T, i) <=> Typed(tokens, lo + i)
                      /\ T[i].label = tokens[lo + i].label
                      /\ tokens[lo + i].start = T[i].start + d /\ tokens[lo + i].end = T[i].end + d
  BY <1>3 DEF PartOf, Typed
<1>6. ASSUME NEW i \in 2..l PROVE Joins(T, i) <=> Joins(tokens, lo + i)
  <2>1. i \in 1..l /\ i - 1 \in 1..l /\ lo + (i - 1) = (lo + i) - 1
    BY <1>2
  <2> QED BY <1>5, <2>1 DEF Joins
<1>7. \A x \in 1..n : P[x][1] \in 1..l /\ P[x][2] \in 1..l
  <2>1. \A x \in 1..n : P[x] \in (1..l) \X (1..l)
    BY <1>3, <1>1, ElementOfSeq
  <2> QED BY <2>1
<1>8. /\ Len(R) = n /\ R \in Seq((1..m) \X (1..m))
      /\ \A x \in 1..n : R[x][1] = lo + P[x][1] /\ R[x][2] = lo + P[x][2] /\ R[x] = <<lo + P[x][1], lo + P[x][2]>>
  <2>1. ASSUME NEW x \in 1..n
        PROVE  /\ R[x] \in (1..m) \X (1..m) /\ R[x] = <<lo + P[x][1], lo + P[x][2]>>
               /\ R[x][1] = lo + P[x][1] /\ R[x][2] = lo + P[x][2]
    <3>1. lo + P[x][1] \in 1..m /\ lo + P[x][2] \in 1..m
      BY <1>4, <1>7
    <3> QED BY <1>3, <3>1
  <2>2. R \in [1..n -> (1..m) \X (1..m)]
    BY <1>3, <2>1
  <2>3. R \in Seq((1..m) \X (1..m)) /\ Len(R) = n
    <3> DEFINE Q == (1..m) \X (1..m)
    <3>1. n \in Nat /\ R \in [1..n -> Q]
      BY <1>2, <2>2
    <3>2. R \in Seq(Q) /\ Len(R) = n
      <4> HIDE DEF Q
      <4> QED BY <3>1, FunctionIsSeq
    <3> QED BY <3>2
  <2> QED BY <2>1, <2>3
<1>9. Parted(L, G, R, tokens, m)
  <2>1. ASSUME NEW x \in 1..n
        PROVE  /\ G[x] = Piece(tokens, R[x]) /\ R[x][1] <= R[x][2]
               /\ \A i \in R[x][1]..R[x][2] : Typed(tokens, i) /\ tokens[i].label.type = tokens[R[x][1]].label.type
               /\ \A i \in (R[x][1] + 1)..R[x][2] : Joins(tokens, i)
    <3>1. P[x][1] \in 1..l /\ P[x][2] \in 1..l
      BY <1>7
    <3> PICK a \in 1..l : a = P[x][1]
      BY <3>1
    <3> PICK b \in 1..l : b = P[x][2]
      BY <3>1
    <3>2. R[x][1] = lo + a /\ R[x][2] = lo + b /\ R[x] = <<lo + a, lo + b>>
      BY <1>8
    <3>3. /\ F[x] = Piece(T, P[x]) /\ a <= b
          /\ \A i \in a..b : Typed(T, i) /\ T[i].label.type = T[a].label.type
          /\ \A i \in (a + 1)..b : Joins(T, i)
      BY <1>3, <1>1 DEF Parted
    <3>4. G[x] = Piece(tokens, R[x])
      <4>1. G[x] = [start |-> G[x].start, end |-> G[x].end, type |-> G[x].type]
        <5>1. G[x] \in SpansOf(TypesIn(L))
          BY <1>1, ElementOfSeq
        <5> QED BY <5>1 DEF SpansOf
      <4>2. F[x].start = T[a].start /\ F[x].end = T[b].end /\ F[x].type = T[a].label.type
        BY <3>3 DEF Piece, Span
      <4>3. G[x].start = F[x].start + d /\ G[x].end = F[x].end + d /\ G[x].type = F[x].type
        BY <1>1 DEF RebasedBy
      <4>4. G[x].start = tokens[lo + a].start /\ G[x].end = tokens[lo + b].end /\ G[x].type = tokens[lo + a].label.type
        BY <1>5, <4>2, <4>3
      <4> QED BY <3>2, <4>1, <4>4 DEF Piece, Span
    <3>5. ASSUME NEW i \in (lo + a)..(lo + b)
          PROVE  Typed(tokens, i) /\ tokens[i].label.type = tokens[lo + a].label.type
      <4>1. PICK j \in a..b : i = lo + j
        <5>1. i - lo \in a..b /\ i = lo + (i - lo)
          <6>1. a \in Int /\ b \in Int
            BY <1>2
          <6> QED BY <6>1, SMTT(20)
        <5> QED BY <5>1
      <4>2. j \in 1..l
        <5>1. 1 <= a /\ b <= l /\ a \in Int /\ b \in Int
          BY <1>2, SMTT(20)
        <5> QED BY <1>2, <5>1, SMTT(20)
      <4> QED BY <1>5, <3>3, <4>1, <4>2
    <3>6. ASSUME NEW i \in (lo + a + 1)..(lo + b) PROVE Joins(tokens, i)
      <4>1. a \in Int /\ b \in Int /\ l \in Nat
        BY <1>2, SMTT(20)
      <4>2. PICK c \in Int : c = a + 1 /\ lo + c = lo + a + 1
        BY <4>1, SMTT(20)
      <4>3. i - lo \in c..b /\ i = lo + (i - lo)
        <5>1. i \in (lo + c)..(lo + b)
          BY <4>2
        <5> HIDE <4>2
        <5> QED BY <4>1, <5>1, Shifted, SMTT(20)
      <4>4. PICK j \in (a + 1)..b : i = lo + j
        BY <4>2, <4>3
      <4>5. j \in 2..l
        BY <4>1, AfterFirst
      <4> QED BY <1>6, <3>3, <4>4, <4>5
    <3>7. lo + a <= lo + b
      BY <3>3
    <3> QED BY <3>2, <3>4, <3>5, <3>6, <3>7
  <2> QED BY <1>1, <1>8, <2>1 DEF Parted
<1>10. \A x \in 1..n : lo < R[x][1] /\ R[x][2] <= hi
  BY <1>4, <1>7, <1>8
<1>11. \A i \in 1..m : lo < i /\ i <= hi => i - lo \in 1..l /\ i = lo + (i - lo)
  BY <1>2
<1>12. \A x \in 1..n, j \in Int : P[x][1] <= j /\ j <= P[x][2] => R[x][1] <= lo + j /\ lo + j <= R[x][2]
  <2> TAKE x \in 1..n, j \in Int
  <2> PICK p \in Nat : p = P[x][1]
    <3>1. \A i \in 1..l : i \in Nat
      BY <1>2
    <3> QED BY <1>7, <3>1
  <2> PICK q \in Nat : q = P[x][2]
    <3>1. \A i \in 1..l : i \in Nat
      BY <1>2
    <3> QED BY <1>7, <3>1
  <2>1. R[x][1] = lo + p /\ R[x][2] = lo + q
    BY <1>8
  <2>2. p <= j /\ j <= q => lo + p <= lo + j /\ lo + j <= lo + q
    BY SMTT(20)
  <2> QED BY <2>1, <2>2
<1>13. ASSUME NEW i \in 1..m, lo < i, i <= hi, Typed(tokens, i)
       PROVE  \E x \in 1..n : R[x][1] <= i /\ i <= R[x][2]
  <2>1. PICK j \in 1..l : i = lo + j
    BY <1>11, <1>13
  <2>2. Typed(T, j)
    BY <1>5, <1>13, <2>1
  <2>3. PICK x \in 1..n : P[x][1] <= j /\ j <= P[x][2]
    BY <1>3, <2>2 DEF Covering
  <2> QED BY <1>12, <2>1, <2>3
<1>14. ASSUME NEW i \in 1..m, lo < i - 1, i <= hi, Joins(tokens, i)
       PROVE  \E x \in 1..n : R[x][1] <= i - 1 /\ i <= R[x][2]
  <2>1. PICK j \in 2..l : i = lo + j
    <3>1. i - lo \in 2..l /\ i = lo + (i - lo)
      BY <1>2, <1>14
    <3> QED BY <3>1
  <2>2. Joins(T, j)
    BY <1>6, <1>14, <2>1
  <2>3. PICK x \in 1..n : P[x][1] <= j - 1 /\ j <= P[x][2]
    BY <1>3, <2>2 DEF Covering
  <2>4. PICK p \in 1..l : p = P[x][1]
    BY <1>7
  <2>5. PICK q \in 1..l : q = P[x][2]
    BY <1>7
  <2>6. lo + p <= i - 1 /\ i <= lo + q
    <3>1. p <= j - 1 /\ j <= q
      BY <2>3, <2>4, <2>5
    <3> QED BY <1>2, <2>1, <3>1
  <2> QED BY <1>8, <2>4, <2>5, <2>6
<1>15. ASSUME NEW x \in 1..n, NEW i \in 1..m, lo < i, Typed(tokens, i), i < R[x][1]
       PROVE  \E y \in 1..n : y < x /\ R[y][1] <= i /\ i <= R[y][2]
  <2>1. PICK p \in 1..l : p = P[x][1] /\ R[x][1] = lo + p
    BY <1>7, <1>8
  <2>2. PICK j \in 1..l : i = lo + j
    <3>1. i <= hi
      <4>1. i < lo + p /\ p <= l
        BY <1>2, <1>15, <2>1
      <4> QED BY <1>2, <4>1
    <3> QED BY <1>11, <1>15, <3>1
  <2>3. Typed(T, j)
    BY <1>5, <1>15, <2>2
  <2>4. j < P[x][1]
    <3>1. lo + j < lo + p
      BY <1>15, <2>1, <2>2
    <3> QED BY <1>2, <2>1, <3>1
  <2>5. PICK y \in 1..n : y < x /\ P[y][1] <= j /\ j <= P[y][2]
    BY <1>3, <2>3, <2>4 DEF Covering
  <2> QED BY <1>12, <2>2, <2>5
<1>16. Windowed(L, G, R, tokens, lo, hi)
  <2>1. Len(R) = n /\ Len(tokens) = m
    BY <1>3, <1>8
  <2> QED BY <1>9, <1>10, <1>13, <1>14, <1>15, <2>1 DEF Windowed
<1> QED BY <1>16

LEMMA WindowsAreUnited ==
  ASSUME NEW L, NEW tokens, InLine(L, tokens), NEW W, WindowsCover(W, tokens), NEW G, ByWindow(L, G, W, tokens)
  PROVE  \E R : /\ Parted(L, FlattenSeq(G), R, tokens, Len(tokens))
                /\ Covering(R, tokens, Len(tokens))
<1> DEFINE m == Len(tokens)
           n == Len(W)
           S == SpansOf(TypesIn(L))
           flat == FlattenSeq(G)
           N == Len(flat)
           of == [k \in 1..n |-> CHOOSE R : Windowed(L, G[k], R, tokens, W[k][1], W[k][2])]
<1>1. \A k \in 1..n : W[k][1] \in Nat /\ W[k][2] \in Nat
  BY DEF WindowsCover
<1>2. /\ m \in Nat /\ n \in Nat /\ tokens \in Seq(TokensIn(L)) /\ W \in Seq(Nat \X Nat)
      /\ \A k \in 1..n : G[k] \in Seq(S)
  BY LenProperties DEF InLine, WindowsCover, ByWindow
<1>3. \A k \in 1..n : Windowed(L, G[k], of[k], tokens, W[k][1], W[k][2])
  BY DEF ByWindow
<1>4. flat \in Seq(S) /\ \E at : Placed(at, G, flat)
  <2>1. G \in Seq(Seq(S))
    BY DEF ByWindow
  <2> HIDE DEF S
  <2> QED BY <2>1, Flattened
<1>5. PICK at : Placed(at, G, flat)
  BY <1>4
<1>6. m = Len(tokens) /\ n = Len(W) /\ n = Len(G) /\ S = SpansOf(TypesIn(L)) /\ N = Len(flat)
  BY DEF ByWindow
<1> HIDE DEF of, flat, m, n, S, N
<1>7. /\ at \in [0..n -> Nat] /\ at[0] = 0 /\ N = at[n] /\ N \in Nat
      /\ \A k \in 1..n : at[k] = at[k - 1] + Len(G[k]) /\ at[k - 1] \in Nat /\ at[k] \in Nat /\ at[k] <= N
      /\ \A j, k \in 0..n : j <= k => at[j] <= at[k]
      /\ \A k \in 1..n : \A j \in 1..Len(G[k]) : flat[at[k - 1] + j] = G[k][j]
      /\ \A x \in 1..N : \E k \in 1..n : at[k - 1] < x /\ x <= at[k]
  <2>1. \A k \in 1..n : k - 1 \in 0..n /\ k \in 0..n /\ n \in 0..n /\ k <= n
    BY <1>2
  <2>2. /\ at \in [0..n -> Nat] /\ at[0] = 0 /\ N = at[n]
        /\ \A k \in 1..n : at[k] = at[k - 1] + Len(G[k])
        /\ \A j, k \in 0..n : j <= k => at[j] <= at[k]
        /\ \A k \in 1..n : \A j \in 1..Len(G[k]) : flat[at[k - 1] + j] = G[k][j]
        /\ \A x \in 1..N : \E k \in 1..n : at[k - 1] < x /\ x <= at[k]
    BY <1>6, <1>5 DEF Placed
  <2>3. n \in 0..n
    BY <1>2
  <2> QED BY <2>1, <2>2, <2>3
<1>8. \A k \in 1..n :
        /\ Len(of[k]) = Len(G[k]) /\ Len(G[k]) \in Nat
        /\ \A j \in 1..Len(G[k]) : of[k][j] \in (1..m) \X (1..m)
  <2> TAKE k \in 1..n
  <2>1. Parted(L, G[k], of[k], tokens, m)
    BY <1>6, <1>3 DEF Windowed
  <2>2. of[k] \in Seq((1..m) \X (1..m)) /\ Len(of[k]) = Len(G[k])
    BY <2>1 DEF Parted
  <2> QED BY <1>2, <2>2, LenProperties, ElementOfSeq
<1> DEFINE home == [x \in 1..N |-> CHOOSE k \in 1..n : at[k - 1] < x /\ x <= at[k]]
           R == [x \in 1..N |-> of[home[x]][x - at[home[x] - 1]]]
<1>9. \A x \in 1..N : /\ home[x] \in 1..n /\ at[home[x] - 1] < x /\ x <= at[home[x]]
                      /\ R[x] = of[home[x]][x - at[home[x] - 1]]
  <2> QED BY <1>7
<1>10. DOMAIN R = 1..N
  OBVIOUS
<1>11. R = [x \in 1..N |-> R[x]]
  OBVIOUS
<1> HIDE DEF home, R
<1>12. \A x \in 1..N : \E k \in 1..n : \E j \in 1..Len(G[k]) :
        k = home[x] /\ x = at[k - 1] + j /\ flat[x] = G[k][j] /\ R[x] = of[k][j]
  <2> TAKE x \in 1..N
  <2>1. PICK k \in 1..n : k = home[x]
    BY <1>9
  <2>2. at[k - 1] < x /\ x <= at[k] /\ R[x] = of[k][x - at[k - 1]]
    BY <1>9, <2>1
  <2>3. at[k] = at[k - 1] + Len(G[k]) /\ at[k - 1] \in Nat /\ Len(G[k]) \in Nat
    BY <1>7, <1>8
  <2>4. PICK j \in 1..Len(G[k]) : x = at[k - 1] + j /\ x - at[k - 1] = j
    <3> PICK u \in Nat : u = at[k - 1]
      BY <2>3
    <3> PICK v \in Nat : v = Len(G[k])
      BY <2>3
    <3>1. u < x /\ x <= u + v
      BY <2>2, <2>3
    <3>2. x - u \in 1..v /\ x = u + (x - u)
      <4>1. x \in Int
        BY <1>7
      <4> QED BY <3>1, <4>1
    <3> QED BY <3>2
  <2>5. flat[x] = G[k][j] /\ R[x] = of[k][j]
    BY <1>7, <2>2, <2>4
  <2> QED BY <2>1, <2>4, <2>5
<1>13. ASSUME NEW k \in 1..n, NEW j \in 1..Len(G[k])
       PROVE  at[k - 1] + j \in 1..N /\ R[at[k - 1] + j] = of[k][j]
  <2>1. PICK x \in Nat : x = at[k - 1] + j
    <3>1. at[k - 1] \in Nat /\ j \in Nat
      BY <1>7, <1>8
    <3>2. at[k - 1] + j \in Nat
      BY <3>1
    <3> QED BY <3>2
  <2>2. x \in 1..N /\ at[k - 1] < x /\ x <= at[k]
    <3>1. at[k] = at[k - 1] + Len(G[k]) /\ at[k - 1] \in Nat /\ at[k] \in Nat /\ at[k] <= N /\ N \in Nat
      BY <1>7
    <3>2. Len(G[k]) \in Nat
      BY <1>8
    <3> QED BY <2>1, <3>1, <3>2, SMTT(20)
  <2>3. PICK h \in 1..n : h = home[x]
    BY <1>9, <2>2
  <2>4. at[h - 1] < x /\ x <= at[h] /\ R[x] = of[h][x - at[h - 1]]
    BY <1>9, <2>2, <2>3
  <2>5. h = k
    <3>1. h - 1 \in 0..n /\ k - 1 \in 0..n /\ h \in 0..n /\ k \in 0..n
      BY <1>2
    <3>2. h < k => at[h] <= at[k - 1]
      <4>1. h < k => h <= k - 1
        OBVIOUS
      <4> QED BY <1>7, <3>1, <4>1
    <3>3. k < h => at[k] <= at[h - 1]
      <4>1. k < h => k <= h - 1
        OBVIOUS
      <4> QED BY <1>7, <3>1, <4>1
    <3>4. at[h] \in Nat /\ at[k] \in Nat /\ at[h - 1] \in Nat /\ at[k - 1] \in Nat
      BY <1>7
    <3>5. ~(h < k) /\ ~(k < h)
      BY <2>2, <2>4, <3>2, <3>3, <3>4
    <3> QED BY <1>2, <3>5
  <2>6. x - at[k - 1] = j
    BY <1>7, <2>1, SMTT(20)
  <2> QED BY <2>1, <2>2, <2>4, <2>5, <2>6
<1>14. R \in Seq((1..m) \X (1..m)) /\ Len(R) = N
  <2>1. ASSUME NEW x \in 1..N PROVE R[x] \in (1..m) \X (1..m)
    <3>1. PICK k \in 1..n : \E j \in 1..Len(G[k]) : R[x] = of[k][j]
      BY <1>12
    <3> QED BY <1>8, <3>1
  <2>2. R \in [1..N -> (1..m) \X (1..m)]
    BY <1>11, <2>1
  <2> DEFINE Q == (1..m) \X (1..m)
  <2>3. N \in Nat /\ R \in [1..N -> Q]
    BY <1>7, <2>2
  <2>4. R \in Seq(Q) /\ Len(R) = N
    <3> HIDE DEF Q
    <3> QED BY <2>3, FunctionIsSeq
  <2> QED BY <2>4
<1>15. Parted(L, flat, R, tokens, m)
  <2>1. ASSUME NEW x \in 1..N
        PROVE  /\ flat[x] = Piece(tokens, R[x]) /\ R[x][1] <= R[x][2]
               /\ \A i \in R[x][1]..R[x][2] : Typed(tokens, i) /\ tokens[i].label.type = tokens[R[x][1]].label.type
               /\ \A i \in (R[x][1] + 1)..R[x][2] : Joins(tokens, i)
    <3>1. PICK k \in 1..n : \E j \in 1..Len(G[k]) : flat[x] = G[k][j] /\ R[x] = of[k][j]
      BY <1>12
    <3>2. PICK j \in 1..Len(G[k]) : flat[x] = G[k][j] /\ R[x] = of[k][j]
      BY <3>1
    <3>3. Parted(L, G[k], of[k], tokens, m)
      BY <1>6, <1>3 DEF Windowed
    <3> QED BY <3>2, <3>3 DEF Parted
  <2> QED BY <1>6, <1>4, <1>14, <2>1 DEF Parted
<1>16. \A i \in 1..m : Typed(tokens, i) => \E x \in 1..N : R[x][1] <= i /\ i <= R[x][2]
  <2> SUFFICES ASSUME NEW i \in 1..m, Typed(tokens, i) PROVE \E x \in 1..N : R[x][1] <= i /\ i <= R[x][2]
    OBVIOUS
  <2>1. PICK k \in 1..n : W[k][1] < i /\ i <= W[k][2]
    BY <1>6 DEF WindowsCover
  <2>2. PICK j \in 1..Len(of[k]) : of[k][j][1] <= i /\ i <= of[k][j][2]
    BY <1>6, <1>3, <2>1 DEF Windowed
  <2> QED BY <1>8, <1>13, <2>2
<1>17. \A i \in 2..m : Joins(tokens, i) => \E x \in 1..N : R[x][1] <= i - 1 /\ i <= R[x][2]
  <2> SUFFICES ASSUME NEW i \in 2..m, Joins(tokens, i) PROVE \E x \in 1..N : R[x][1] <= i - 1 /\ i <= R[x][2]
    OBVIOUS
  <2>1. PICK k \in 1..n : W[k][1] < i - 1 /\ i <= W[k][2]
    BY <1>6 DEF WindowsCover
  <2>2. i \in 1..m
    BY <1>2
  <2>3. PICK j \in 1..Len(of[k]) : of[k][j][1] <= i - 1 /\ i <= of[k][j][2]
    BY <1>6, <1>3, <2>1, <2>2 DEF Windowed
  <2> QED BY <1>8, <1>13, <2>3
<1>18. \A x \in 1..N, i \in 1..m : Typed(tokens, i) /\ i < R[x][1] =>
         \E y \in 1..N : y < x /\ R[y][1] <= i /\ i <= R[y][2]
  <2> SUFFICES ASSUME NEW x \in 1..N, NEW i \in 1..m, Typed(tokens, i), i < R[x][1]
               PROVE  \E y \in 1..N : y < x /\ R[y][1] <= i /\ i <= R[y][2]
    OBVIOUS
  <2>1. PICK k \in 1..n : \E j \in 1..Len(G[k]) : x = at[k - 1] + j /\ R[x] = of[k][j]
    BY <1>12
  <2>2. PICK j \in 1..Len(G[k]) : x = at[k - 1] + j /\ R[x] = of[k][j]
    BY <2>1
  <2>3. CASE W[k][1] < i
    <3>1. PICK u \in 1..Len(of[k]) : u < j /\ of[k][u][1] <= i /\ i <= of[k][u][2]
      BY <1>6, <1>3, <1>8, <2>2, <2>3 DEF Windowed
    <3>2. u \in 1..Len(G[k])
      BY <1>8
    <3>3. at[k - 1] + u \in 1..N /\ R[at[k - 1] + u] = of[k][u]
      BY <1>13, <3>2
    <3>4. at[k - 1] + u < x
      <4>1. at[k - 1] \in Nat
        BY <1>7
      <4> QED BY <2>2, <3>1, <3>2, <4>1
    <3> QED BY <3>1, <3>3, <3>4
  <2>4. CASE i <= W[k][1]
    <3>1. PICK h \in 1..n : h < k /\ W[h][1] < i /\ i <= W[h][2]
      BY <1>6, <2>4 DEF WindowsCover
    <3>2. PICK u \in 1..Len(of[h]) : of[h][u][1] <= i /\ i <= of[h][u][2]
      BY <1>6, <1>3, <3>1 DEF Windowed
    <3>3. u \in 1..Len(G[h]) /\ Len(G[h]) \in Nat
      BY <1>8
    <3>4. at[h - 1] + u \in 1..N /\ R[at[h - 1] + u] = of[h][u]
      BY <1>13, <3>3
    <3>5. at[h] <= at[k - 1]
      <4>1. h <= k - 1 /\ h \in 0..n /\ k - 1 \in 0..n
        BY <1>2, <3>1
      <4> QED BY <1>7, <4>1
    <3>6. at[h] = at[h - 1] + Len(G[h]) /\ at[h - 1] \in Nat /\ at[k - 1] \in Nat
      BY <1>7
    <3>7. at[h - 1] + u < x
      <4>1. Len(G[h]) \in Nat /\ u <= Len(G[h])
        BY <3>3
      <4>2. at[h - 1] + u <= at[h]
        BY <3>6, <4>1
      <4>3. j \in 1..Len(G[k]) /\ Len(G[k]) \in Nat
        BY <1>8
      <4>4. at[k - 1] < x
        BY <2>2, <3>6, <4>3
      <4>5. at[h] \in Int /\ x \in Int
        BY <1>7
      <4> QED BY <3>5, <3>6, <4>1, <4>2, <4>4, <4>5
    <3> QED BY <3>2, <3>4, <3>7
  <2>5. i <= W[k][1] \/ W[k][1] < i
    <3>1. W[k][1] \in Nat
      BY <1>1
    <3>2. i \in Int
      BY <1>2
    <3> HIDE DEF m
    <3> QED BY <3>1, <3>2
  <2> QED BY <2>3, <2>4, <2>5
<1>19. Covering(R, tokens, m)
  <2> QED BY <1>14, <1>16, <1>17, <1>18 DEF Covering
<1> QED BY <1>15, <1>19 DEF flat, m

-----------------------------------------------------------------------------
(* Windows: where they start and end.                                      *)

(* Each goes from where the last one was, by less than leaves overlap.     *)
Advances(next, n, size, overlap) ==
  \A s \in 0..(n - 1) : next[s] \in Nat /\ s < next[s] /\ next[s] + overlap <= s + size

Starts(f, n, size, next) ==
  /\ f \in [1..n -> 0..n]
  /\ \A k \in 1..n : f[k] = IF k = 1 THEN 0 ELSE IF f[k - 1] + size >= n THEN n ELSE next[f[k - 1]]

WindowsFrom(f, n, size) ==
  [k \in 1..Cardinality({i \in 1..n : f[i] < n}) |-> <<f[k], MinOf(f[k] + size, n)>>]

(* Windows of 1..n that overlap.                                           *)
IsCut(W, n, overlap) ==
  /\ W \in Seq(Nat \X Nat) /\ (0 < n => 0 < Len(W))
  /\ \A k \in 1..Len(W) : W[k][1] < W[k][2] /\ W[k][2] <= n
  /\ 0 < Len(W) => W[1][1] = 0 /\ W[Len(W)][2] = n
  /\ \A k \in 2..Len(W) : W[k][1] + overlap <= W[k - 1][2]

LEMMA WindowStarts ==
  ASSUME NEW n \in Nat, NEW size \in Nat \ {0}, NEW overlap \in Nat, NEW next, Advances(next, n, size, overlap)
  PROVE  \E f : Starts(f, n, size, next) /\ Windows(n, size, next) = WindowsFrom(f, n, size)
<1> DEFINE S == 0..n
           After(k, v) == IF k = 1 THEN 0 ELSE IF v + size >= n THEN n ELSE next[v]
           step == [c \in (1..n) \X S |-> After(c[1], c[2])]
           Is(g) == g = [k \in 1..n |-> IF k = 1 THEN 0 ELSE IF g[k - 1] + size >= n THEN n ELSE next[g[k - 1]]]
<1>1. ASSUME NEW k \in 1..n, NEW v \in S PROVE After(k, v) \in S
  <2>1. CASE v + size < n
    <3>1. v \in 0..(n - 1)
      BY <2>1
    <3>2. next[v] \in Nat /\ next[v] + overlap <= v + size
      BY <3>1 DEF Advances
    <3> QED BY <2>1, <3>2
  <2>2. CASE ~(v + size < n)
    BY <2>2
  <2> QED BY <2>1, <2>2
<1>2. step \in [(1..n) \X S -> S] /\ \A k \in 1..n, v \in S : step[<<k, v>>] = After(k, v)
  <2> HIDE DEF After, S
  <2> QED BY <1>1
<1> HIDE DEF step
<1>3. PICK f \in [0..n -> S] : Runs(f, 0, step, n)
  <2>1. 0 \in S
    OBVIOUS
  <2> HIDE DEF S
  <2> QED BY <1>2, <2>1, LoopExists
<1>4. \A k \in 1..n : k - 1 \in 0..n /\ f[k - 1] \in S /\ f[k] \in S
  <2>1. \A k \in 1..n : k - 1 \in 0..n /\ k \in 0..n
    OBVIOUS
  <2> HIDE DEF S
  <2> QED BY <2>1
<1>5. \A k \in 1..n : f[k] = After(k, f[k - 1])
  <2> HIDE DEF After, S
  <2> QED BY <1>2, <1>3, <1>4 DEF Runs
<1> DEFINE h == [k \in 1..n |-> f[k]]
<1>6. \A k \in 2..n : k \in 1..n /\ k - 1 \in 1..n
  OBVIOUS
<1>7. \A k \in 1..n : h[k] = IF k = 1 THEN 0 ELSE IF h[k - 1] + size >= n THEN n ELSE next[h[k - 1]]
  <2> TAKE k \in 1..n
  <2>1. CASE k = 1
    BY <1>5, <2>1
  <2>2. CASE k # 1
    <3>1. k - 1 \in 1..n
      BY <2>2
    <3>2. h[k] = f[k] /\ h[k - 1] = f[k - 1]
      BY <3>1
    <3>3. f[k] = IF f[k - 1] + size >= n THEN n ELSE next[f[k - 1]]
      BY <1>5, <2>2
    <3> HIDE DEF h
    <3> QED BY <2>2, <3>2, <3>3
  <2> QED BY <2>1, <2>2
<1>8. h \in [1..n -> 0..n]
  BY <1>4
<1>9. Is(h)
  <2>1. h = [k \in 1..n |-> h[k]]
    OBVIOUS
  <2> HIDE DEF h
  <2> QED BY <1>7, <2>1
<1> HIDE DEF h
<1>10. ASSUME NEW g, Is(g) PROVE g = h
  <2>1. g = [k \in 1..n |-> IF k = 1 THEN 0 ELSE IF g[k - 1] + size >= n THEN n ELSE next[g[k - 1]]]
    BY <1>10
  <2>2. \A k \in 1..n : g[k] = IF k = 1 THEN 0 ELSE IF g[k - 1] + size >= n THEN n ELSE next[g[k - 1]]
    <3> HIDE DEF Is
    <3> QED BY <2>1
  <2>3. g = [k \in 1..n |-> g[k]]
    <3> HIDE DEF Is
    <3> QED BY <2>1
  <2> DEFINE I == {k \in Nat : k \in 1..n => g[k] = h[k]}
  <2>4. 0 \in I
    OBVIOUS
  <2>5. ASSUME NEW k \in I PROVE k + 1 \in I
    <3> SUFFICES ASSUME k + 1 \in 1..n PROVE g[k + 1] = h[k + 1]
      OBVIOUS
    <3>1. PICK j \in 1..n : j = k + 1 /\ j - 1 = k
      OBVIOUS
    <3>2. CASE k = 0
      BY <1>7, <2>2, <3>1, <3>2
    <3>3. CASE k # 0
      <4>1. k \in 1..n
        BY <3>3
      <4>2. g[k] = h[k]
        BY <4>1
      <4>3. j # 1
        BY <3>1, <3>3
      <4>4. g[j] = IF g[k] + size >= n THEN n ELSE next[g[k]]
        BY <2>2, <3>1, <4>3
      <4>5. h[j] = IF h[k] + size >= n THEN n ELSE next[h[k]]
        BY <1>7, <3>1, <4>3
      <4> QED BY <3>1, <4>2, <4>4, <4>5
    <3> QED BY <3>2, <3>3
  <2>6. I = Nat
    <3> HIDE DEF I
    <3> QED BY <2>4, <2>5, ByInduction DEF I
  <2>7. \A k \in 1..n : g[k] = h[k]
    <3> TAKE k \in 1..n
    <3>1. k \in Nat
      OBVIOUS
    <3>2. k \in I
      <4> HIDE DEF I
      <4> QED BY <2>6, <3>1
    <3>3. \A c \in I : c \in 1..n => g[c] = h[c]
      <4> HIDE DEF Is
      <4> QED BY Zenon
    <3> HIDE DEF I, Is
    <3> QED BY <3>2, <3>3
  <2> HIDE DEF Is
  <2> QED BY <1>8, <2>3, <2>7
<1> DEFINE g == CHOOSE g0 : Is(g0)
<1>11. g = h
  <2>1. Is(g)
    <3> HIDE DEF Is
    <3> QED BY <1>9
  <2> HIDE DEF g, Is
  <2> QED BY <1>10, <2>1
<1>12. Windows(n, size, next) = WindowsFrom(g, n, size)
  BY DEF Windows, WindowsFrom
<1>13. Windows(n, size, next) = WindowsFrom(h, n, size)
  <2> HIDE DEF g
  <2> QED BY <1>11, <1>12
<1>14. Starts(h, n, size, next)
  BY <1>7, <1>8 DEF Starts
<1> QED BY <1>13, <1>14

LEMMA WindowsAreCut ==
  ASSUME NEW n \in Nat, NEW size \in Nat \ {0}, NEW overlap \in Nat \ {0}, NEW next, Advances(next, n, size, overlap)
  PROVE  IsCut(Windows(n, size, next), n, overlap)
<1>1. PICK f : Starts(f, n, size, next) /\ Windows(n, size, next) = WindowsFrom(f, n, size)
  BY WindowStarts
<1> DEFINE E == {k \in 1..n : f[k] < n}
           c == Cardinality(E)
           W == Windows(n, size, next)
<1>2. \A k \in 1..n : f[k] \in 0..n /\ f[k] \in Nat
  BY <1>1 DEF Starts
<1>3. \A k \in 2..n : k - 1 \in 1..n /\ k \in 1..n
  OBVIOUS
<1>4. ASSUME NEW k \in 2..n, k \in E
      PROVE  /\ k - 1 \in E /\ f[k - 1] + size < n
             /\ f[k - 1] < f[k] /\ f[k] + overlap <= f[k - 1] + size
  <2>1. k \in 1..n /\ k - 1 \in 1..n /\ f[k - 1] \in Nat /\ f[k - 1] <= n /\ f[k] < n
    BY <1>2, <1>3, <1>4
  <2>2. f[k] = IF f[k - 1] + size >= n THEN n ELSE next[f[k - 1]]
    BY <1>1, <2>1 DEF Starts
  <2>3. f[k - 1] + size < n /\ f[k] = next[f[k - 1]]
    BY <2>1, <2>2
  <2>4. f[k - 1] \in 0..(n - 1)
    BY <2>1, <2>3
  <2>5. f[k - 1] < f[k] /\ f[k] + overlap <= f[k - 1] + size
    BY <2>3, <2>4 DEF Advances
  <2> QED BY <2>1, <2>3, <2>4, <2>5
<1> DEFINE I == {l \in Nat : \A k \in 1..n : k \in E /\ l < k => k - l \in E}
<1>5. I = Nat
  <2>1. 0 \in I
    OBVIOUS
  <2>2. ASSUME NEW l \in I PROVE l + 1 \in I
    <3> SUFFICES ASSUME NEW k \in 1..n, k \in E, l + 1 < k PROVE k - (l + 1) \in E
      OBVIOUS
    <3>1. k - l \in E
      <4> HIDE DEF E
      <4> QED OBVIOUS
    <3>2. PICK j \in 2..n : j = k - l /\ j - 1 = k - (l + 1)
      OBVIOUS
    <3> HIDE DEF E
    <3> QED BY <1>4, <3>1, <3>2
  <2> HIDE DEF I
  <2> QED BY <2>1, <2>2, ByInduction DEF I
<1>6. \A j, k \in 1..n : k \in E /\ j <= k => j \in E
  <2> TAKE j, k \in 1..n
  <2> HAVE k \in E /\ j <= k
  <2>1. k - j \in Nat /\ k - (k - j) = j /\ k - j < k
    OBVIOUS
  <2>2. k - j \in I
    <3> HIDE DEF I
    <3> QED BY <1>5, <2>1
  <2> HIDE DEF E
  <2> QED BY <2>1, <2>2
<1>7. E = 1..c /\ c \in 0..n
  <2>1. IsFiniteSet(E) /\ c \in Nat
    BY PositionsAreFinite
  <2>2. CASE E = {}
    BY <2>2, FS_EmptySet
  <2>3. CASE E # {}
    <3> DEFINE x == Max(E)
    <3>1. x \in E /\ \A k \in E : k <= x
      <4>1. E \in SUBSET Nat /\ \A k \in E : k <= n
        OBVIOUS
      <4> HIDE DEF E
      <4> QED BY <2>3, <4>1, MaxIsGreatest
    <3> HIDE DEF x
    <3>2. E = 1..x
      <4>1. x \in 1..n /\ \A k \in E : k \in 1..n
        BY <3>1
      <4> HIDE DEF E
      <4>2. \A k \in E : k \in 1..x
        BY <3>1, <4>1
      <4>3. \A k \in 1..x : k \in E
        <5>1. \A k \in 1..x : k \in 1..n /\ k <= x
          BY <4>1
        <5> QED BY <1>6, <3>1, <4>1, <5>1
      <4> QED BY <4>2, <4>3
    <3>3. x \in 1..n
      BY <3>1
    <3>4. Cardinality(1..x) = x
      BY <3>3, FS_Interval
    <3> HIDE DEF E
    <3> QED BY <3>2, <3>3, <3>4
  <2> QED BY <2>2, <2>3
<1> HIDE DEF c
<1>8. \A k \in 1..c : k \in 1..n /\ k \in E /\ f[k] \in Nat /\ f[k] < n
  BY <1>2, <1>7
<1>9. W = [k \in 1..c |-> <<f[k], MinOf(f[k] + size, n)>>]
  BY <1>1 DEF c, WindowsFrom
<1> HIDE DEF W, E
<1>10. ASSUME NEW k \in 1..c
       PROVE  /\ W[k] \in Nat \X Nat /\ W[k][1] = f[k] /\ W[k][2] = MinOf(f[k] + size, n)
              /\ W[k][1] < W[k][2] /\ W[k][2] <= n
  <2>1. MinOf(f[k] + size, n) \in Nat /\ f[k] < MinOf(f[k] + size, n) /\ MinOf(f[k] + size, n) <= n
    BY <1>8 DEF MinOf
  <2>2. W[k] = <<f[k], MinOf(f[k] + size, n)>>
    BY <1>9
  <2> QED BY <1>8, <2>1, <2>2
<1>11. W \in Seq(Nat \X Nat) /\ Len(W) = c
  <2> DEFINE Q == Nat \X Nat
  <2>1. c \in Nat
    BY <1>7
  <2>2. W \in [1..c -> Q]
    BY <1>9, <1>10
  <2>3. W \in Seq(Q) /\ Len(W) = c
    <3> HIDE DEF Q
    <3> QED BY <2>1, <2>2, FunctionIsSeq
  <2> QED BY <2>3
<1>12. 0 < n => 0 < c /\ W[1][1] = 0
  <2> SUFFICES ASSUME 0 < n PROVE 0 < c /\ W[1][1] = 0
    OBVIOUS
  <2>1. 1 \in 1..n /\ f[1] = 0
    BY <1>1 DEF Starts
  <2>2. 1 \in E
    BY <2>1 DEF E
  <2>3. 1 \in 1..c
    BY <1>7, <2>2
  <2> QED BY <1>7, <1>10, <2>1, <2>3
<1>13. \A k \in 2..c : W[k][1] + overlap <= W[k - 1][2]
  <2> TAKE k \in 2..c
  <2>1. k \in 2..n /\ k \in 1..c /\ k - 1 \in 1..c
    BY <1>7
  <2>2. f[k - 1] + size < n /\ f[k] + overlap <= f[k - 1] + size /\ f[k - 1] \in Nat /\ f[k] \in Nat
    BY <1>4, <1>8, <2>1
  <2>3. MinOf(f[k - 1] + size, n) = f[k - 1] + size
    BY <2>2 DEF MinOf
  <2> QED BY <1>10, <2>1, <2>2, <2>3
<1>14. 0 < c => W[c][2] = n
  <2> SUFFICES ASSUME 0 < c PROVE W[c][2] = n
    OBVIOUS
  <2>1. c \in 1..c /\ c \in 1..n /\ f[c] \in Nat /\ f[c] < n
    BY <1>7, <1>8
  <2>2. f[c] + size >= n
    <3>1. CASE c < n
      <4>1. PICK j \in 2..n : j = c + 1 /\ j - 1 = c
        BY <1>7, <3>1
      <4>2. j \in 1..n /\ j \notin 1..c /\ j # 1
        BY <1>7, <4>1
      <4>3. f[j] = n
        <5>1. ~(f[j] < n)
          BY <1>7, <4>2 DEF E
        <5> QED BY <1>2, <4>2, <5>1
      <4>4. f[j] = IF f[c] + size >= n THEN n ELSE next[f[c]]
        BY <1>1, <4>1, <4>2 DEF Starts
      <4>5. next[f[c]] \in Nat /\ next[f[c]] + overlap <= f[c] + size
        <5>1. f[c] \in 0..(n - 1)
          BY <2>1
        <5> QED BY <5>1 DEF Advances
      <4> QED BY <2>1, <4>3, <4>4, <4>5
    <3>2. CASE c = n
      <4> DEFINE J == {k \in Nat : k < c => k <= f[k + 1]}
      <4>1. 0 \in J
        <5>1. 0 <= f[1]
          BY <1>7, <1>8, <2>1
        <5>2. 0 <= f[0 + 1]
          BY <5>1
        <5> QED BY <5>2
      <4>2. ASSUME NEW k \in J PROVE k + 1 \in J
        <5> SUFFICES ASSUME k + 1 < c PROVE k + 1 <= f[k + 1 + 1]
          OBVIOUS
        <5>1. PICK j \in 2..c : j = k + 1 + 1 /\ j - 1 = k + 1
          BY <1>7
        <5>2. j \in 1..c /\ j \in 2..n /\ j - 1 \in 1..c
          BY <1>7
        <5>3. f[j - 1] < f[j] /\ f[j - 1] \in Nat /\ f[j] \in Nat
          BY <1>4, <1>8, <5>2
        <5>4. k <= f[k + 1]
          BY <1>7
        <5>5. k <= f[j - 1]
          BY <5>1, <5>4
        <5>6. k + 1 <= f[j]
          BY <5>3, <5>5
        <5> QED BY <5>1, <5>6
      <4>3. J = Nat
        <5> HIDE DEF J
        <5> QED BY <4>1, <4>2, ByInduction DEF J
      <4>4. PICK k \in Nat : k + 1 = c /\ k < c
        BY <1>7
      <4>5. k <= f[c]
        <5>1. k \in J
          BY <4>3
        <5> QED BY <4>4, <5>1
      <4> QED BY <2>1, <3>2, <4>4, <4>5
    <3> QED BY <1>7, <3>1, <3>2
  <2>3. MinOf(f[c] + size, n) = n
    BY <2>1, <2>2 DEF MinOf
  <2> QED BY <1>10, <2>1, <2>3
<1>15. 0 < c => 0 < n
  BY <1>7
<1>16. IsCut(W, n, overlap)
  BY <1>10, <1>11, <1>12, <1>13, <1>14, <1>15 DEF IsCut
<1> QED BY <1>16 DEF W

LEMMA NearestWindow ==
  ASSUME NEW n \in Nat, NEW overlap \in Nat \ {0}, NEW W, IsCut(W, n, overlap), NEW q \in 1..n
  PROVE  \E k \in 1..Len(W) :
           /\ q <= W[k][2]
           /\ \A j \in 1..Len(W) : q <= W[j][2] => k <= j
           /\ \A p \in 1..q : q - p <= overlap => W[k][1] < p
<1> DEFINE c == Len(W)
           T == {k \in 1..c : q <= W[k][2]}
<1>1. c \in Nat /\ \A k \in 1..c : W[k][1] \in Nat /\ W[k][2] \in Nat
  BY LenProperties DEF IsCut
<1>2. 0 < c /\ W[1][1] = 0 /\ W[c][2] = n
  <2>1. 0 < n
    OBVIOUS
  <2> QED BY <2>1 DEF IsCut
<1>3. PICK k \in T : \A j \in T : k <= j
  <2>1. T \in SUBSET Nat
    OBVIOUS
  <2>2. c \in T
    BY <1>1, <1>2
  <2> HIDE DEF T
  <2> QED BY <2>1, <2>2, LeastExists
<1>4. \A p \in 1..q : q - p <= overlap => W[k][1] < p
  <2> TAKE p \in 1..q
  <2> HAVE q - p <= overlap
  <2>1. CASE k = 1
    BY <1>2, <2>1
  <2>2. CASE k # 1
    <3>1. k \in 2..c /\ k - 1 \in 1..c /\ ~(k <= k - 1)
      BY <1>1, <2>2
    <3>2. ~(q <= W[k - 1][2])
      BY <1>3, <3>1
    <3>3. W[k][1] + overlap <= W[k - 1][2]
      BY <3>1 DEF IsCut
    <3>4. W[k][1] \in Nat /\ W[k - 1][2] \in Nat
      BY <1>1, <3>1
    <3> HIDE DEF T
    <3> QED BY <3>2, <3>3, <3>4
  <2> QED BY <2>1, <2>2
<1> QED BY <1>3, <1>4

LEMMA WindowOf ==
  ASSUME NEW n \in Nat, NEW overlap \in Nat \ {0}, NEW W, IsCut(W, n, overlap), NEW p \in 1..n
  PROVE  \E k \in 1..Len(W) : W[k][1] < p /\ p <= W[k][2]
<1>1. PICK k \in 1..Len(W) : p <= W[k][2] /\ \A o \in 1..p : p - o <= overlap => W[k][1] < o
  BY NearestWindow
<1>2. p \in 1..p /\ p - p <= overlap
  OBVIOUS
<1> QED BY <1>1, <1>2

LEMMA EarlierWindow ==
  ASSUME NEW n \in Nat, NEW overlap \in Nat \ {0}, NEW W, IsCut(W, n, overlap), NEW p \in 1..n,
         NEW k \in 1..Len(W), p <= W[k][1]
  PROVE  \E j \in 1..Len(W) : j < k /\ W[j][1] < p /\ p <= W[j][2]
<1>1. W \in Seq(Nat \X Nat) /\ Len(W) \in Nat /\ \A i \in 1..Len(W) : W[i][1] \in Nat /\ W[i][2] \in Nat
  BY LenProperties, SMTT(20) DEF IsCut
<1>2. PICK j \in 1..Len(W) : /\ p <= W[j][2] /\ \A h \in 1..Len(W) : p <= W[h][2] => j <= h
                             /\ \A o \in 1..p : p - o <= overlap => W[j][1] < o
  BY NearestWindow
<1>3. p \in 1..p /\ p - p <= overlap
  OBVIOUS
<1>4. k # 1
  <2>1. 0 < Len(W)
    BY <1>1
  <2>2. W[1][1] = 0
    BY <2>1 DEF IsCut
  <2> QED BY <2>2
<1>5. k \in 2..Len(W) /\ k - 1 \in 1..Len(W)
  BY <1>1, <1>4
<1>6. W[k][1] + overlap <= W[k - 1][2]
  BY <1>5 DEF IsCut
<1>7. p <= W[k - 1][2]
  <2>1. W[k][1] \in Nat /\ W[k - 1][2] \in Nat
    BY <1>1, <1>5
  <2> QED BY <1>6, <2>1, SMTT(20)
<1>8. j <= k - 1
  BY <1>2, <1>5, <1>7
<1>9. j < k
  BY <1>1, <1>8
<1> QED BY <1>2, <1>3, <1>9

LEMMA TokenWindowsCover ==
  ASSUME NEW L, NEW tokens, InLine(L, tokens), NEW overlap \in Nat \ {0}, NEW W, IsCut(W, Len(tokens), overlap)
  PROVE  WindowsCover(W, tokens)
<1> DEFINE m == Len(tokens)
<1>1. m \in Nat
  BY LenProperties DEF InLine
<1>2. W \in Seq(Nat \X Nat)
  BY DEF IsCut
<1> HIDE DEF m
<1>3. IsCut(W, m, overlap)
  BY DEF m
<1>4. ASSUME NEW i \in 1..m PROVE \E k \in 1..Len(W) : W[k][1] < i /\ i <= W[k][2]
  BY <1>3, <1>1, WindowOf
<1>5. ASSUME NEW i \in 2..m PROVE \E k \in 1..Len(W) : W[k][1] < i - 1 /\ i <= W[k][2]
  <2>1. i \in 1..m
    OBVIOUS
  <2>2. PICK k \in 1..Len(W) : i <= W[k][2] /\ \A p \in 1..i : i - p <= overlap => W[k][1] < p
    BY <1>3, <1>1, <2>1, NearestWindow
  <2>3. i - 1 \in 1..i /\ i - (i - 1) <= overlap
    OBVIOUS
  <2> QED BY <2>2, <2>3
<1>6. ASSUME NEW k \in 1..Len(W), NEW i \in 1..m, i <= W[k][1]
      PROVE  \E j \in 1..Len(W) : j < k /\ W[j][1] < i /\ i <= W[j][2]
  BY <1>3, <1>1, <1>6, EarlierWindow
<1> QED BY <1>2, <1>4, <1>5, <1>6 DEF WindowsCover, m

-----------------------------------------------------------------------------
(* The tokens of a text.                                                   *)

(* What a scan takes.                                                      *)
IsText(text) ==
  /\ \E S : text \in Seq(S)
  /\ \A p \in 1..Len(text) : text[p].labels \in Seq(ToSet(text[p].labels))

LabelsOf(text) == UNION {ToSet(text[p].labels) : p \in 1..Len(text)}

(* cnt[p] tokens are of the first p characters; token x is of character    *)
(* chr[x], with label lab[x].                                              *)
TextLayout(text, cnt, chr, lab) ==
  /\ cnt \in [0..Len(text) -> Nat] /\ cnt[0] = 0
  /\ \A p \in 1..Len(text) : cnt[p] = cnt[p - 1] + Len(text[p].labels)
  /\ \A p, q \in 0..Len(text) : p <= q => cnt[p] <= cnt[q]
  /\ \A x \in 1..cnt[Len(text)] :
       /\ chr[x] \in 1..Len(text) /\ cnt[chr[x] - 1] < x /\ x <= cnt[chr[x]]
       /\ lab[x] = text[chr[x]].labels[x - cnt[chr[x] - 1]]

(* T are the tokens of the characters from+1..to.                          *)
LaidOut(text, T, from, to, cnt, chr, lab) ==
  /\ T \in Seq(TokensIn(LabelsOf(text))) /\ Len(T) = cnt[to] - cnt[from]
  /\ \A i \in 1..Len(T) :
       /\ T[i].start = chr[cnt[from] + i] - 1 - from
       /\ T[i].end = chr[cnt[from] + i] - from
       /\ T[i].label = lab[cnt[from] + i]

LEMMA TextIsTyped ==
  ASSUME NEW text, IsText(text)
  PROVE  /\ Len(text) \in Nat
         /\ \A p \in 1..Len(text) : /\ text[p].labels \in Seq(LabelsOf(text)) /\ Len(text[p].labels) \in Nat
                                    /\ DOMAIN text[p].labels = 1..Len(text[p].labels)
<1>1. PICK S : text \in Seq(S)
  BY DEF IsText
<1>2. Len(text) \in Nat
  BY <1>1, LenProperties
<1>3. ASSUME NEW p \in 1..Len(text)
      PROVE  /\ text[p].labels \in Seq(LabelsOf(text)) /\ Len(text[p].labels) \in Nat
             /\ DOMAIN text[p].labels = 1..Len(text[p].labels)
  <2>1. text[p].labels \in Seq(ToSet(text[p].labels))
    BY DEF IsText
  <2>2. ToSet(text[p].labels) \subseteq LabelsOf(text)
    BY DEF LabelsOf
  <2> HIDE DEF LabelsOf
  <2> QED BY <2>1, <2>2, SeqMonotonic, LenProperties
<1> QED BY <1>2, <1>3

LEMMA LayoutExists ==
  ASSUME NEW text, IsText(text)
  PROVE  \E cnt, chr, lab : TextLayout(text, cnt, chr, lab)
<1> DEFINE n == Len(text)
           L == LabelsOf(text)
           seqs == [p \in 1..n |-> text[p].labels]
           flat == FlattenSeq(seqs)
<1>1. n \in Nat /\ \A p \in 1..n : text[p].labels \in Seq(L)
  BY TextIsTyped
<1>2. seqs \in Seq(Seq(L)) /\ Len(seqs) = n /\ \A p \in 1..n : seqs[p] = text[p].labels
  <2> DEFINE Q == Seq(L)
  <2>1. seqs \in [1..n -> Q]
    BY <1>1
  <2>2. seqs \in Seq(Q) /\ Len(seqs) = n
    <3> HIDE DEF Q, seqs, n
    <3> QED BY <1>1, <2>1, FunctionIsSeq
  <2> QED BY <2>2
<1> HIDE DEF seqs, L
<1>3. PICK cnt : Placed(cnt, seqs, flat)
  BY <1>2, Flattened
<1> HIDE DEF flat, n
<1>4. /\ cnt \in [0..n -> Nat] /\ cnt[0] = 0 /\ Len(flat) = cnt[n]
      /\ \A k \in 1..n : cnt[k] = cnt[k - 1] + Len(seqs[k])
      /\ \A j, k \in 0..n : j <= k => cnt[j] <= cnt[k]
      /\ \A x \in 1..Len(flat) : \E k \in 1..n : cnt[k - 1] < x /\ x <= cnt[k]
  BY <1>2, <1>3 DEF Placed
<1> DEFINE chr == [x \in 1..cnt[n] |-> CHOOSE p \in 1..n : cnt[p - 1] < x /\ x <= cnt[p]]
           lab == [x \in 1..cnt[n] |-> text[chr[x]].labels[x - cnt[chr[x] - 1]]]
<1>5. \A x \in 1..cnt[n] : /\ chr[x] \in 1..n /\ cnt[chr[x] - 1] < x /\ x <= cnt[chr[x]]
                           /\ lab[x] = text[chr[x]].labels[x - cnt[chr[x] - 1]]
  BY <1>4
<1> HIDE DEF chr, lab
<1>6. TextLayout(text, cnt, chr, lab)
  BY <1>2, <1>4, <1>5 DEF TextLayout, n
<1> QED BY <1>6

LEMMA OfCharacter ==
  ASSUME NEW text, IsText(text), NEW cnt, NEW chr, NEW lab, TextLayout(text, cnt, chr, lab),
         NEW x \in 1..cnt[Len(text)]
  PROVE  /\ \A p \in 1..Len(text) : cnt[p - 1] < x /\ x <= cnt[p] => chr[x] = p
         /\ \A p \in 0..Len(text) : x <= cnt[p] <=> chr[x] <= p
<1> DEFINE n == Len(text)
<1>1. n \in Nat
  BY TextIsTyped
<1>2. /\ \A p \in 0..n : cnt[p] \in Nat
      /\ \A p, q \in 0..n : p <= q => cnt[p] <= cnt[q]
      /\ chr[x] \in 1..n /\ cnt[chr[x] - 1] < x /\ x <= cnt[chr[x]]
  BY DEF TextLayout
<1> HIDE DEF n
<1>3. PICK c \in 1..n : c = chr[x]
  BY <1>2
<1>4. c \in 0..n /\ c - 1 \in 0..n
  BY <1>1
<1>5. x \in Int
  OBVIOUS
<1>6. ASSUME NEW p \in 0..n PROVE x <= cnt[p] <=> c <= p
  <2>1. c <= p => cnt[c] <= cnt[p]
    BY <1>2, <1>4
  <2>2. ~(c <= p) => cnt[p] <= cnt[c - 1]
    <3>1. ~(c <= p) => p <= c - 1
      BY <1>1
    <3> QED BY <1>2, <1>4, <3>1
  <2>3. cnt[c - 1] < x /\ x <= cnt[c] /\ cnt[c - 1] \in Nat /\ cnt[c] \in Nat /\ cnt[p] \in Nat
    BY <1>2, <1>3, <1>4
  <2> QED BY <1>5, <2>1, <2>2, <2>3
<1>7. ASSUME NEW p \in 1..n, cnt[p - 1] < x, x <= cnt[p] PROVE c = p
  <2>1. p \in 0..n /\ p - 1 \in 0..n
    BY <1>1
  <2>2. c <= p
    BY <1>6, <1>7, <2>1
  <2>3. ~(x <= cnt[p - 1])
    <3>1. cnt[p - 1] \in Nat
      BY <1>2, <2>1
    <3> QED BY <1>5, <1>7, <3>1
  <2>4. ~(c <= p - 1)
    BY <1>6, <2>1, <2>3
  <2> QED BY <1>1, <2>2, <2>4
<1> QED BY <1>3, <1>6, <1>7 DEF n

LEMMA SumWithin ==
  ASSUME NEW c \in Nat, NEW d \in Nat, NEW t \in Nat, NEW u \in Nat, c + d <= t, t <= u, 1 <= d
  PROVE  c + d \in 1..u
OBVIOUS

LEMMA TokensLaidOut ==
  ASSUME NEW text, IsText(text), NEW cnt, NEW chr, NEW lab, TextLayout(text, cnt, chr, lab),
         NEW from \in Nat, NEW to \in Nat, from <= to, to <= Len(text)
  PROVE  LaidOut(text, Tokens(text, from, to), from, to, cnt, chr, lab)
<1> DEFINE n == Len(text)
           L == LabelsOf(text)
           N == to - from
           word(p) == Max({q \in from + 1..p : q = from + 1 \/ text[q].first})
           ofChar(p) == [j \in DOMAIN text[p].labels |->
                          [word |-> word(p), label |-> text[p].labels[j], start |-> p - 1 - from, end |-> p - from]]
           seqs == [k \in 1..N |-> ofChar(from + k)]
           T == FlattenSeq(seqs)
<1>1. n \in Nat /\ N \in Nat /\ from + N = to /\ to <= n
  BY TextIsTyped
<1>2. Tokens(text, from, to) = T
  BY DEF Tokens
<1> HIDE DEF n, N
<1>3. \A k \in 1..N : /\ from + k \in 1..n /\ from + k \in 0..n /\ from + k - 1 \in 0..n
                      /\ from + k - 1 = from + (k - 1) /\ k - 1 \in 0..N /\ k \in 0..N /\ from + 1 <= from + k
  BY <1>1
<1>4. \A p \in 1..n : /\ text[p].labels \in Seq(L) /\ Len(text[p].labels) \in Nat
                      /\ DOMAIN text[p].labels = 1..Len(text[p].labels)
  BY TextIsTyped DEF n
<1>5. ASSUME NEW p \in 1..n, from + 1 <= p PROVE word(p) \in Nat
  <2> DEFINE Q == {q \in from + 1..p : q = from + 1 \/ text[q].first}
  <2>1. Q \in SUBSET Nat /\ from + 1 \in Q /\ p \in Nat /\ \A q \in Q : q <= p
    BY <1>1, <1>5
  <2>2. Max(Q) \in Q
    <3> HIDE DEF Q
    <3> QED BY <2>1, MaxIsGreatest
  <2>3. Max(Q) \in Nat
    <3> HIDE DEF Q
    <3> QED BY <2>1, <2>2
  <2> QED BY <2>3
<1> HIDE DEF word, L
<1>6. ASSUME NEW p \in 1..n, from + 1 <= p
      PROVE  /\ ofChar(p) \in Seq(TokensIn(L)) /\ Len(ofChar(p)) = Len(text[p].labels)
             /\ \A j \in 1..Len(text[p].labels) :
                  ofChar(p)[j].label = text[p].labels[j] /\ ofChar(p)[j].start = p - 1 - from /\ ofChar(p)[j].end = p - from
  <2> DEFINE l == Len(text[p].labels)
             Q == TokensIn(L)
             tok(j) == [word |-> word(p), label |-> text[p].labels[j], start |-> p - 1 - from, end |-> p - from]
  <2>1. l \in Nat /\ DOMAIN text[p].labels = 1..l /\ \A j \in 1..l : text[p].labels[j] \in L
    BY <1>4, ElementOfSeq
  <2>2. p - 1 - from \in Nat /\ p - from \in Nat
    BY <1>1, <1>6
  <2>3. \A j \in 1..l : tok(j) \in Q
    BY <1>5, <1>6, <2>1, <2>2 DEF TokensIn
  <2>4. ofChar(p) = [j \in 1..l |-> tok(j)]
    BY <2>1
  <2>5. \A j \in 1..l : ofChar(p)[j].label = text[p].labels[j] /\ ofChar(p)[j].start = p - 1 - from /\ ofChar(p)[j].end = p - from
    BY <2>1
  <2>6. ofChar(p) \in [1..l -> Q]
    <3> HIDE DEF ofChar, Q, tok
    <3> QED BY <2>3, <2>4
  <2>7. ofChar(p) \in Seq(Q) /\ Len(ofChar(p)) = l
    <3> HIDE DEF ofChar, Q, l
    <3> QED BY <2>1, <2>6, FunctionIsSeq
  <2> QED BY <2>5, <2>7
<1>7. \A k \in 1..N : seqs[k] = ofChar(from + k)
  OBVIOUS
<1>8. seqs \in Seq(Seq(TokensIn(L))) /\ Len(seqs) = N
  <2> DEFINE Q == Seq(TokensIn(L))
  <2>1. \A k \in 1..N : ofChar(from + k) \in Q
    <3> HIDE DEF ofChar
    <3> QED BY <1>3, <1>6
  <2>2. seqs \in [1..N -> Q]
    <3> HIDE DEF ofChar, Q
    <3> QED BY <2>1
  <2>3. seqs \in Seq(Q) /\ Len(seqs) = N
    <3> HIDE DEF Q, seqs
    <3> QED BY <1>1, <2>2, FunctionIsSeq
  <2> QED BY <2>3
<1> HIDE DEF seqs
<1>9. T \in Seq(TokensIn(L)) /\ \E at : Placed(at, seqs, T)
  <2> DEFINE Q == TokensIn(L)
  <2> HIDE DEF Q
  <2>1. seqs \in Seq(Seq(Q))
    BY <1>8 DEF Q
  <2>2. T \in Seq(Q) /\ \E at : Placed(at, seqs, T)
    BY <2>1, Flattened
  <2> QED BY <2>2 DEF Q
<1>10. PICK at : Placed(at, seqs, T)
  BY <1>9
<1> HIDE DEF T, ofChar
<1>11. /\ at \in [0..N -> Nat] /\ at[0] = 0 /\ Len(T) = at[N]
       /\ \A k \in 1..N : at[k] = at[k - 1] + Len(seqs[k])
       /\ \A k \in 1..N : \A j \in 1..Len(seqs[k]) : T[at[k - 1] + j] = seqs[k][j]
       /\ \A x \in 1..Len(T) : \E k \in 1..N : at[k - 1] < x /\ x <= at[k]
  BY <1>8, <1>10 DEF Placed
<1>12. /\ \A p \in 0..n : cnt[p] \in Nat
       /\ \A p \in 1..n : cnt[p] = cnt[p - 1] + Len(text[p].labels)
       /\ \A p, q \in 0..n : p <= q => cnt[p] <= cnt[q]
  BY DEF TextLayout, n
<1>13. \A k \in 1..N : Len(seqs[k]) = Len(text[from + k].labels) /\ Len(seqs[k]) \in Nat
  BY <1>3, <1>4, <1>6, <1>7
<1>14. from \in 0..n /\ to \in 0..n /\ n \in 0..n /\ cnt[from] \in Nat
  BY <1>1, <1>12
<1> DEFINE I == {k \in Nat : k <= N => cnt[from] + at[k] = cnt[from + k]}
<1>15. 0 \in I
  BY <1>11, <1>14
<1>16. ASSUME NEW k \in I PROVE k + 1 \in I
  <2> SUFFICES ASSUME k + 1 <= N PROVE cnt[from] + at[k + 1] = cnt[from + (k + 1)]
    OBVIOUS
  <2>1. PICK j \in 1..N : j = k + 1 /\ j - 1 = k
    BY <1>1
  <2>2. cnt[from] + at[k] = cnt[from + k]
    BY <1>1
  <2>3. at[j] = at[k] + Len(seqs[j]) /\ Len(seqs[j]) \in Nat /\ at[k] \in Nat
    BY <1>3, <1>11, <1>13, <2>1
  <2>4. cnt[from + j] = cnt[from + k] + Len(seqs[j])
    <3>1. from + j \in 1..n /\ from + j - 1 = from + k
      BY <1>3, <2>1
    <3>2. cnt[from + j] = cnt[from + j - 1] + Len(text[from + j].labels)
      BY <1>12, <3>1
    <3> QED BY <1>13, <3>1, <3>2
  <2> HIDE DEF I
  <2> QED BY <1>14, <2>1, <2>2, <2>3, <2>4, SMTT(20)
<1>17. I = Nat
  <2> HIDE DEF I
  <2> QED BY <1>15, <1>16, ByInduction DEF I
<1>18. \A k \in 0..N : cnt[from] + at[k] = cnt[from + k] /\ at[k] \in Nat
  <2> TAKE k \in 0..N
  <2>1. k \in I /\ k <= N
    BY <1>1, <1>17
  <2> QED BY <1>11, <2>1
<1>19. Len(T) = cnt[to] - cnt[from] /\ Len(T) \in Nat /\ cnt[from] + Len(T) = cnt[to]
  <2>1. N \in 0..N
    BY <1>1
  <2>2. cnt[from] + at[N] = cnt[to] /\ at[N] \in Nat
    BY <1>1, <1>18, <2>1
  <2> QED BY <1>11, <1>14, <2>2
<1> HIDE DEF I
<1>20. ASSUME NEW i \in 1..Len(T)
       PROVE  /\ T[i].start = chr[cnt[from] + i] - 1 - from
              /\ T[i].end = chr[cnt[from] + i] - from
              /\ T[i].label = lab[cnt[from] + i]
  <2>1. PICK k \in 1..N : at[k - 1] < i /\ i <= at[k]
    BY <1>11
  <2>2. PICK p \in 1..n : p = from + k /\ from + 1 <= p /\ p - 1 = from + (k - 1)
    BY <1>3
  <2>3. PICK a \in Nat : a = at[k - 1] /\ cnt[from] + a = cnt[p - 1]
    BY <1>3, <1>18, <2>2
  <2>4. at[k] = a + Len(seqs[k]) /\ cnt[from] + at[k] = cnt[p] /\ Len(seqs[k]) \in Nat /\ at[k] \in Nat
    BY <1>3, <1>11, <1>13, <1>18, <2>2, <2>3
  <2>5. PICK j \in 1..Len(seqs[k]) : i = a + j
    <3>1. a < i /\ i <= a + Len(seqs[k])
      BY <2>1, <2>3, <2>4
    <3>2. i - a \in 1..Len(seqs[k]) /\ i = a + (i - a)
      BY <1>19, <2>4, <3>1
    <3> QED BY <3>2
  <2>6. T[i] = ofChar(p)[j] /\ j \in 1..Len(text[p].labels)
    BY <1>7, <1>11, <1>13, <2>2, <2>3, <2>5
  <2>7. T[i].label = text[p].labels[j] /\ T[i].start = p - 1 - from /\ T[i].end = p - from
    BY <1>6, <2>2, <2>6
  <2>8. PICK x \in Nat : x = cnt[from] + i
    BY <1>14
  <2>9. x \in 1..cnt[n] /\ cnt[p - 1] < x /\ x <= cnt[p] /\ x - cnt[p - 1] = j
    <3>1. cnt[to] <= cnt[n] /\ cnt[n] \in Nat
      BY <1>1, <1>12, <1>14
    <3> PICK c \in Nat : c = cnt[from]
      BY <1>14
    <3> PICK b \in Nat : b = at[k]
      BY <2>4
    <3>2. cnt[p - 1] = c + a /\ cnt[p] = c + b /\ x = c + i /\ i = a + j
      BY <2>3, <2>4, <2>5, <2>8
    <3>3. a < i /\ i <= b /\ 1 <= i /\ i \in Nat /\ c + i <= cnt[to] /\ j \in Nat
      <4>1. i \in Nat /\ 1 <= i /\ i <= Len(T) /\ c + Len(T) = cnt[to] /\ Len(T) \in Nat
        BY <1>19
      <4>2. j \in Nat
        BY <2>4
      <4> QED BY <2>1, <2>3, <4>1, <4>2
    <3>4. x \in 1..cnt[n]
      <4> PICK t \in Nat : t = cnt[to]
        BY <1>12, <1>14
      <4> PICK u \in Nat : u = cnt[n]
        BY <3>1
      <4> PICK d \in Nat : d = i
        BY <3>3
      <4>1. x = c + d /\ c + d <= t /\ t <= u /\ 1 <= d
        BY <3>1, <3>2, <3>3
      <4>2. c + d \in 1..u
        BY <4>1, SumWithin
      <4>3. x \in 1..u
        BY <4>1, <4>2
      <4> QED BY <4>3
    <3>5. cnt[p - 1] < x /\ x <= cnt[p]
      <4>1. c + a < c + i /\ c + i <= c + b
        BY <3>3, SMTT(20)
      <4> QED BY <3>2, <4>1
    <3>6. x - cnt[p - 1] = j
      <4>1. (c + (a + j)) - (c + a) = j
        BY <3>3
      <4> QED BY <3>2, <4>1
    <3> QED BY <3>4, <3>5, <3>6
  <2>10. chr[x] = p
    BY <2>9, OfCharacter DEF n
  <2>11. lab[x] = text[p].labels[j]
    <3>1. lab[x] = text[chr[x]].labels[x - cnt[chr[x] - 1]]
      BY <2>9 DEF TextLayout, n
    <3> QED BY <2>9, <2>10, <3>1
  <2> QED BY <2>7, <2>8, <2>10, <2>11
<1> QED BY <1>2, <1>9, <1>19, <1>20 DEF LaidOut, L

LEMMA LayoutCounts ==
  ASSUME NEW text, IsText(text), NEW cnt, NEW chr, NEW lab, TextLayout(text, cnt, chr, lab)
  PROVE  /\ \A p \in 0..Len(text) : cnt[p] \in Nat
         /\ \A p, q \in 0..Len(text) : p <= q => cnt[p] <= cnt[q]
         /\ \A p \in 1..Len(text) : p - 1 \in 0..Len(text) /\ p \in 0..Len(text) /\ cnt[p] = cnt[p - 1] + Len(text[p].labels)
         /\ Len(text) \in 0..Len(text)
<1>1. Len(text) \in Nat
  BY TextIsTyped
<1>2. /\ \A p \in 1..Len(text) : p - 1 \in 0..Len(text) /\ p \in 0..Len(text)
      /\ Len(text) \in 0..Len(text)
  BY <1>1
<1> QED BY <1>2 DEF TextLayout

LEMMA CharactersInOrder ==
  ASSUME NEW text, IsText(text), NEW cnt, NEW chr, NEW lab, TextLayout(text, cnt, chr, lab),
         NEW x \in 1..cnt[Len(text)], NEW y \in 1..cnt[Len(text)], x <= y
  PROVE  chr[x] <= chr[y]
<1>1. chr[y] \in 1..Len(text) /\ y <= cnt[chr[y]]
  BY DEF TextLayout
<1>2. chr[y] \in 0..Len(text) /\ cnt[chr[y]] \in Nat
  BY <1>1, LayoutCounts
<1>3. x <= cnt[chr[y]]
  BY <1>1, <1>2
<1> QED BY <1>2, <1>3, OfCharacter

LEMMA TokenAt ==
  ASSUME NEW text, IsText(text), NEW cnt, NEW chr, NEW lab, TextLayout(text, cnt, chr, lab),
         NEW from \in Nat, NEW to \in Nat, from <= to, to <= Len(text),
         NEW T, LaidOut(text, T, from, to, cnt, chr, lab), NEW i \in 1..Len(T)
  PROVE  /\ cnt[from] + i \in 1..cnt[Len(text)] /\ cnt[from] \in Nat
         /\ chr[cnt[from] + i] \in from + 1..to
         /\ cnt[from] + i <= cnt[to]
<1> DEFINE n == Len(text)
<1>1. n \in Nat /\ from \in 0..n /\ to \in 0..n /\ n \in 0..n
  BY TextIsTyped
<1>2. cnt[from] \in Nat /\ cnt[to] \in Nat /\ cnt[n] \in Nat /\ cnt[from] <= cnt[to] /\ cnt[to] <= cnt[n]
  BY <1>1, LayoutCounts
<1>3. Len(T) = cnt[to] - cnt[from]
  BY DEF LaidOut
<1>4. PICK x \in 1..cnt[n] : x = cnt[from] + i /\ cnt[from] < x /\ x <= cnt[to]
  <2> PICK c \in Nat : c = cnt[from]
    BY <1>2
  <2> PICK t \in Nat : t = cnt[to]
    BY <1>2
  <2>1. PICK l \in Nat : l = Len(T) /\ c + l = t
    BY <1>2, <1>3
  <2>2. PICK d \in 1..l : d = i
    BY <2>1
  <2>3. c < c + d /\ c + d <= t /\ 1 <= d
    BY <2>1
  <2>4. c + d \in 1..cnt[n]
    BY <1>2, <2>3, SumWithin, SMTT(20)
  <2> QED BY <2>2, <2>3, <2>4
<1>5. chr[x] \in 1..n
  BY DEF TextLayout
<1>6. chr[x] <= to /\ ~(chr[x] <= from)
  <2>1. x <= cnt[to] /\ ~(x <= cnt[from])
    BY <1>2, <1>4
  <2> QED BY <1>1, <2>1, OfCharacter
<1>7. chr[x] \in from + 1..to
  BY <1>1, <1>5, <1>6
<1> QED BY <1>2, <1>4, <1>7

LEMMA NoneIsEmpty ==
  ASSUME NEW S, NEW seq \in Seq(S), Len(seq) = 0
  PROVE  seq = <<>>
BY EmptySeq

LEMMA NextCharacter ==
  ASSUME NEW text, IsText(text), NEW cnt, NEW chr, NEW lab, TextLayout(text, cnt, chr, lab),
         NEW x \in 1..cnt[Len(text)], x - 1 \in 1..cnt[Len(text)], chr[x - 1] < chr[x]
  PROVE  /\ \A p \in chr[x - 1] + 1..chr[x] - 1 : text[p].labels = <<>>
         /\ text[chr[x - 1]].labels # <<>> /\ text[chr[x]].labels # <<>>
         /\ lab[x - 1] = Last(text[chr[x - 1]].labels) /\ lab[x] = Head(text[chr[x]].labels)
<1> DEFINE n == Len(text)
<1>1. PICK y \in 1..cnt[n] : y = x - 1
  OBVIOUS
<1>2. PICK c \in 1..n : c = chr[y] /\ cnt[c - 1] < y /\ y <= cnt[c] /\ lab[y] = text[c].labels[y - cnt[c - 1]]
  BY DEF TextLayout
<1>3. PICK d \in 1..n : d = chr[x] /\ cnt[d - 1] < x /\ x <= cnt[d] /\ lab[x] = text[d].labels[x - cnt[d - 1]]
  BY DEF TextLayout
<1>4. n \in Nat /\ c < d /\ c <= d - 1
  <2>1. n \in Nat
    BY TextIsTyped
  <2>2. c < d
    BY <1>1, <1>2, <1>3
  <2> QED BY <2>1, <2>2
<1>5. /\ c \in 0..n /\ c - 1 \in 0..n /\ d \in 0..n /\ d - 1 \in 0..n
      /\ cnt[c] \in Nat /\ cnt[c - 1] \in Nat /\ cnt[d] \in Nat /\ cnt[d - 1] \in Nat
      /\ cnt[c] <= cnt[d - 1]
      /\ cnt[c] = cnt[c - 1] + Len(text[c].labels) /\ cnt[d] = cnt[d - 1] + Len(text[d].labels)
  BY <1>4, LayoutCounts
<1>6. Len(text[c].labels) \in Nat /\ Len(text[d].labels) \in Nat /\ \A p \in 1..n : Len(text[p].labels) \in Nat
  BY TextIsTyped
<1>7. cnt[c] = y /\ cnt[d - 1] = y /\ x - cnt[d - 1] = 1 /\ y - cnt[c - 1] = Len(text[c].labels)
  <2> PICK u \in Nat : u = cnt[c]
    BY <1>5
  <2> PICK v \in Nat : v = cnt[d - 1]
    BY <1>5
  <2> PICK w \in Nat : w = Len(text[c].labels)
    BY <1>6
  <2> PICK z \in Nat : z = cnt[c - 1]
    BY <1>5
  <2>1. y <= u /\ u <= v /\ v < x /\ y = x - 1 /\ u = z + w /\ x \in Int /\ y \in Int
    BY <1>1, <1>2, <1>3, <1>5
  <2>2. u = y /\ v = y
    BY <2>1
  <2>3. x - v = 1 /\ y - z = w
    BY <2>1, <2>2, SMTT(20)
  <2> QED BY <2>2, <2>3
<1>8. ASSUME NEW p \in c + 1..d - 1 PROVE text[p].labels = <<>>
  <2>1. p \in 1..n /\ p \in 0..n /\ p - 1 \in 0..n /\ c <= p - 1 /\ p <= d - 1
    BY <1>4
  <2>2. cnt[c] <= cnt[p - 1] /\ cnt[p] <= cnt[d - 1] /\ cnt[p - 1] \in Nat /\ cnt[p] \in Nat
        /\ cnt[p] = cnt[p - 1] + Len(text[p].labels)
    BY <1>5, <2>1, LayoutCounts
  <2>3. Len(text[p].labels) = 0
    <3> PICK l \in Nat : l = Len(text[p].labels)
      BY <1>6, <2>1
    <3>1. y <= cnt[p - 1] /\ cnt[p - 1] + l <= y
      BY <1>7, <2>2
    <3>2. l = 0
      BY <2>2, <3>1, SMTT(20)
    <3> QED BY <3>2
  <2>4. text[p].labels \in Seq(LabelsOf(text))
    BY <2>1, TextIsTyped
  <2> DEFINE s == text[p].labels
             S == LabelsOf(text)
  <2>5. s \in Seq(S) /\ Len(s) = 0
    BY <2>3, <2>4
  <2>6. s = <<>>
    <3> HIDE DEF n, s, S
    <3> QED BY <2>5, NoneIsEmpty
  <2> QED BY <2>6
<1>9. Len(text[c].labels) # 0 /\ Len(text[d].labels) # 0
  <2>1. cnt[c - 1] < cnt[c]
    <3> PICK z \in Nat : z = cnt[c - 1]
      BY <1>5
    <3> PICK u \in Nat : u = cnt[c]
      BY <1>5
    <3>1. z < y /\ y <= u /\ y \in Int
      BY <1>2
    <3>2. z < u
      BY <3>1
    <3> QED BY <3>2
  <2>2. cnt[d - 1] < cnt[d]
    BY <1>3, <1>5, SMTT(20)
  <2>3. Len(text[c].labels) # 0
    BY <1>5, <1>6, <2>1, SMTT(20)
  <2>4. Len(text[d].labels) # 0
    BY <1>5, <1>6, <2>2, SMTT(20)
  <2> QED BY <2>3, <2>4
<1>10. text[c].labels # <<>> /\ text[d].labels # <<>>
  BY <1>9
<1>11. lab[y] = Last(text[c].labels) /\ lab[x] = Head(text[d].labels)
  <2>1. lab[y] = text[c].labels[Len(text[c].labels)] /\ lab[x] = text[d].labels[1]
    BY <1>2, <1>3, <1>7
  <2>2. text[d].labels \in Seq(LabelsOf(text))
    BY TextIsTyped
  <2>3. Head(text[d].labels) = text[d].labels[1]
    <3> DEFINE s == text[d].labels
               S == LabelsOf(text)
    <3>1. s \in Seq(S) /\ s # <<>>
      BY <1>10, <2>2
    <3> HIDE DEF s, S
    <3> QED BY <3>1, HeadTailProperties DEF s
  <2> QED BY <2>1, <2>3 DEF Last
<1> QED BY <1>1, <1>2, <1>3, <1>8, <1>10, <1>11

LEMMA OneLess ==
  ASSUME NEW a \in Nat, NEW i \in Int
  PROVE  a + (i - 1) = (a + i) - 1
OBVIOUS

LEMMA SameEnds ==
  ASSUME NEW c \in Int, NEW d \in Int, NEW from \in Int, c - 1 - from = d - 1 - from
  PROVE  c - from = d - from
OBVIOUS

LEMMA PlaceWithin ==
  ASSUME NEW a \in Nat, NEW l \in Nat, NEW y \in Int, a < y, y <= a + l
  PROVE  y - a \in 1..l
OBVIOUS

LEMMA Predecessor ==
  ASSUME NEW a \in Nat, NEW b \in Nat, NEW k \in Int
  PROVE  (b + (k - 1)) - a = ((b + k) - a) - 1
OBVIOUS

(* Between two characters of the text there are no tokens. *)
Blank(text, a, b) == \A p \in a + 1..b - 1 : text[p].labels = <<>>

LEMMA BlankBetween ==
  ASSUME NEW text, IsText(text), NEW cnt, NEW chr, NEW lab, TextLayout(text, cnt, chr, lab),
         NEW z \in 1..cnt[Len(text)], z - 1 \in 1..cnt[Len(text)], chr[z - 1] < chr[z]
  PROVE  Blank(text, chr[z - 1], chr[z])
<1>1. \A p \in chr[z - 1] + 1..chr[z] - 1 : text[p].labels = <<>>
  BY NextCharacter
<1> QED BY <1>1, Zenon DEF Blank

LEMMA IsPlace ==
  ASSUME NEW a \in Nat, NEW b \in Nat, NEW k \in Int
  PROVE  (b + k) - a \in Int
OBVIOUS

LEMMA SameOrder ==
  ASSUME NEW a \in Nat, NEW b \in Nat, NEW i \in Int, NEW k \in Int, i + 1 <= k
  PROVE  ((b + i) - a) + 1 <= (b + k) - a
OBVIOUS

LEMMA SameOrderWeak ==
  ASSUME NEW a \in Nat, NEW b \in Nat, NEW k \in Int, NEW j \in Int, k <= j
  PROVE  (b + k) - a <= (b + j) - a
OBVIOUS

LEMMA InRange ==
  ASSUME NEW u \in Int, NEW v \in Int, NEW w \in Int, u + 1 <= w, w <= v
  PROVE  w \in u + 1..v /\ u < v
OBVIOUS

LEMMA WhiteSpaceBetween ==
  ASSUME NEW text, IsText(text), NEW cnt, NEW chr, NEW lab, TextLayout(text, cnt, chr, lab),
         NEW from \in Nat, NEW to \in Nat, from <= to, to <= Len(text),
         NEW T, LaidOut(text, T, from, to, cnt, chr, lab)
  PROVE  InLine(LabelsOf(text), T) /\ Adjoining(text, from, T)
<1> DEFINE n == Len(text)
           N == Len(T)
           x(i) == cnt[from] + i
<1>1. T \in Seq(TokensIn(LabelsOf(text))) /\ N \in Nat
  BY LenProperties DEF LaidOut
<1>2. \A i \in 1..N : x(i) \in 1..cnt[n] /\ chr[x(i)] \in from + 1..to
  BY TokenAt
<1>3. \A i \in 1..N : T[i].start = chr[x(i)] - 1 - from /\ T[i].end = chr[x(i)] - from
  BY DEF LaidOut
<1>4. \A i \in 1..N : cnt[from] \in Nat
  BY TokenAt
<1>5. ASSUME NEW i \in 1..N, NEW j \in 1..N, i <= j PROVE chr[x(i)] <= chr[x(j)]
  <2>1. x(i) <= x(j)
    BY <1>4, <1>5
  <2> HIDE DEF x, N
  <2> QED BY <1>2, <2>1, CharactersInOrder
<1> HIDE DEF x, N, n
<1>6. InLine(LabelsOf(text), T)
  <2>1. ASSUME NEW i \in 1..N PROVE T[i].start < T[i].end
    <3> PICK c \in from + 1..to : c = chr[x(i)]
      BY <1>2
    <3>1. c - 1 - from < c - from
      OBVIOUS
    <3> QED BY <1>3, <3>1
  <2>2. ASSUME NEW i \in 1..N, NEW j \in 1..N, i < j PROVE T[i].start <= T[j].start /\ T[i].end <= T[j].end
    <3> PICK c \in from + 1..to : c = chr[x(i)]
      BY <1>2
    <3> PICK d \in from + 1..to : d = chr[x(j)]
      BY <1>2
    <3>1. i <= j
      BY <1>1, <2>2
    <3>2. c <= d
      BY <1>5, <3>1
    <3>3. c - 1 - from <= d - 1 - from /\ c - from <= d - from
      BY <3>2, SMTT(20)
    <3> QED BY <1>3, <3>3
  <2> QED BY <1>1, <2>1, <2>2 DEF InLine, N
<1>7. Adjoining(text, from, T)
  <2> SUFFICES ASSUME NEW i \in 2..N
               PROVE  T[i].start < T[i - 1].end \/ IsWhitespace(text, from, T[i - 1].end, T[i].start)
    BY DEF Adjoining, N
  <2>1. PICK j \in 1..N : j = i - 1 /\ i \in 1..N
    BY <1>1
  <2> PICK c \in from + 1..to : c = chr[x(j)]
    BY <1>2
  <2> PICK d \in from + 1..to : d = chr[x(i)]
    BY <1>2, <2>1
  <2>2. T[i].start = d - 1 - from /\ T[j].end = c - from
    BY <1>3, <2>1
  <2>3. c <= d
    <3>1. j <= i
      BY <1>1, <2>1
    <3> QED BY <1>5, <2>1, <3>1
  <2>4. CASE c = d
    <3>1. d - 1 - from < c - from
      BY <2>4
    <3> QED BY <2>1, <2>2, <3>1
  <2>5. CASE c # d
    <3>1. c < d
      BY <2>3, <2>5
    <3>2. x(i) \in 1..cnt[n] /\ x(j) \in 1..cnt[n] /\ x(j) = x(i) - 1
      <4>1. cnt[from] \in Nat /\ j = i - 1
        BY <1>4, <2>1
      <4>2. cnt[from] + j = (cnt[from] + i) - 1
        <5> PICK a \in Nat : a = cnt[from]
          BY <4>1
        <5>1. i \in Int
          OBVIOUS
        <5>2. a + (i - 1) = (a + i) - 1
          BY <5>1, OneLess, Zenon
        <5> QED BY <4>1, <5>2
      <4>3. x(i) = cnt[from] + i /\ x(j) = cnt[from] + j
        BY DEF x
      <4>4. x(i) \in 1..cnt[n] /\ x(j) \in 1..cnt[n]
        BY <1>2, <2>1
      <4>5. x(j) = x(i) - 1
        <5>1. x(j) = (cnt[from] + i) - 1
          BY <4>2, <4>3, Zenon
        <5>2. x(j) = (cnt[from] + i) - 1
          BY <5>1
        <5> QED BY <4>3, <5>2, Zenon
      <4> QED BY <4>4, <4>5
    <3>3. \A p \in c + 1..d - 1 : text[p].labels = <<>>
      <4>1. chr[x(i) - 1] < chr[x(i)] /\ x(i) - 1 \in 1..cnt[Len(text)]
        BY <3>1, <3>2 DEF n
      <4>2. \A p \in chr[x(i) - 1] + 1..chr[x(i)] - 1 : text[p].labels = <<>>
        <5>1. PICK z \in 1..cnt[Len(text)] : z = x(i)
          BY <3>2 DEF n
        <5>2. z - 1 \in 1..cnt[Len(text)] /\ chr[z - 1] < chr[z]
          <6> HIDE DEF x
          <6> QED BY <4>1, <5>1
        <5>3. \A p \in chr[z - 1] + 1..chr[z] - 1 : text[p].labels = <<>>
          <6>1. Blank(text, chr[z - 1], chr[z])
            <7> HIDE DEF x, n
            <7> QED BY <5>2, BlankBetween, Zenon
          <6> QED BY <6>1, Zenon DEF Blank
        <5> HIDE DEF x
        <5> QED BY <5>1, <5>3
      <4> QED BY <3>2, <4>2
    <3>4. from + (c - from) + 1 = c + 1 /\ from + (d - 1 - from) = d - 1
      OBVIOUS
    <3>5. IsWhitespace(text, from, c - from, d - 1 - from)
      BY <3>3, <3>4 DEF IsWhitespace
    <3> QED BY <2>1, <2>2, <3>5
  <2> QED BY <2>4, <2>5
<1> QED BY <1>6, <1>7

LEMMA TextIsScannable ==
  ASSUME NEW text, text \in Seq(ToSet(text)), Scannable(text)
  PROVE  IsText(text)
<1>1. DOMAIN text = 1..Len(text)
  BY LenProperties
<1>2. \A p \in DOMAIN text : text[p].labels \in Seq(ToSet(text[p].labels))
  BY DEF Scannable
<1> QED BY <1>1, <1>2 DEF IsText

LEMMA CharactersAreWhole ==
  ASSUME NEW text, text \in Seq(ToSet(text)), Scannable(text), NEW cnt, NEW chr, NEW lab, TextLayout(text, cnt, chr, lab),
         NEW from \in Nat, NEW to \in Nat, from <= to, to <= Len(text),
         NEW T, LaidOut(text, T, from, to, cnt, chr, lab)
  PROVE  ByCharacter(T)
<1> DEFINE n == Len(text)
           N == Len(T)
           x(i) == cnt[from] + i
<1>1. IsText(text)
  BY TextIsScannable
<1>2. T \in Seq(TokensIn(LabelsOf(text))) /\ N \in Nat /\ DOMAIN text = 1..n
  BY LenProperties DEF LaidOut
<1>3. \A i \in 1..N : x(i) \in 1..cnt[n] /\ chr[x(i)] \in from + 1..to
  BY <1>1, TokenAt
<1>4. \A i \in 1..N : T[i].start = chr[x(i)] - 1 - from /\ T[i].end = chr[x(i)] - from /\ T[i].label = lab[x(i)]
  BY DEF LaidOut
<1>5. \A i \in 1..N : cnt[from] \in Nat
  BY <1>1, TokenAt
<1>6. ASSUME NEW i \in 1..N, NEW j \in 1..N, i <= j PROVE chr[x(i)] <= chr[x(j)]
  <2>1. x(i) <= x(j)
    BY <1>5, <1>6
  <2> HIDE DEF x, N
  <2> QED BY <1>1, <1>3, <2>1, CharactersInOrder
<1> HIDE DEF x, N, n
<1>7. ASSUME NEW i \in 1..N, NEW j \in 1..N, i < j
      PROVE  /\ T[i].start = T[j].start => T[i].end = T[j].end
             /\ T[j].start < T[i].end /\ Typed(T, i) /\ T[i].label.type = T[j].label.type =>
                  \A k \in (i + 1)..j : Joins(T, k)
  <2> PICK c \in from + 1..to : c = chr[x(i)]
    BY <1>3
  <2> PICK d \in from + 1..to : d = chr[x(j)]
    BY <1>3
  <2>1. T[i].start = c - 1 - from /\ T[i].end = c - from /\ T[j].start = d - 1 - from /\ T[j].end = d - from
    BY <1>4
  <2>2. c <= d
    <3>1. i <= j
      BY <1>2, <1>7
    <3> QED BY <1>6, <3>1
  <2>3. T[i].start = T[j].start => T[i].end = T[j].end
    <3>1. c \in Int /\ d \in Int /\ from \in Int
      OBVIOUS
    <3>2. c - 1 - from = d - 1 - from => c - from = d - from
      BY <3>1, SameEnds, Zenon
    <3> QED BY <2>1, <3>2
  <2>4. ASSUME T[j].start < T[i].end, Typed(T, i), T[i].label.type = T[j].label.type, NEW k \in (i + 1)..j
        PROVE  Joins(T, k)
    <3>1. c = d
      <4>1. d - 1 - from < c - from
        BY <2>1, <2>4
      <4> QED BY <2>2, <4>1, SMTT(20)
    <3>2. PICK h \in 1..N : h = k - 1 /\ k \in 1..N /\ i <= h /\ h < k /\ k <= j /\ h <= j /\ i <= k
      BY <1>2
    <3>3. chr[x(h)] = c /\ chr[x(k)] = c
      <4>1. chr[x(i)] <= chr[x(h)] /\ chr[x(h)] <= chr[x(j)] /\ chr[x(i)] <= chr[x(k)] /\ chr[x(k)] <= chr[x(j)]
        BY <1>6, <3>2
      <4> PICK u \in from + 1..to : u = chr[x(h)]
        BY <1>3
      <4> PICK v \in from + 1..to : v = chr[x(k)]
        BY <1>3, <3>2
      <4>2. c <= u /\ u <= c /\ c <= v /\ v <= c
        BY <3>1, <4>1
      <4>3. u = c /\ v = c
        BY <4>2
      <4> QED BY <4>3
    <3>4. c \in 1..n /\ c - 1 \in 0..n
      <4>1. n \in Nat /\ to <= n
        BY <1>1, TextIsTyped DEF n
      <4> QED BY <4>1, SMTT(20)
    <3> DEFINE labels == text[c].labels
               at(g) == x(g) - cnt[c - 1]
    <3>5. ASSUME NEW g \in 1..N, chr[x(g)] = c PROVE at(g) \in 1..Len(labels) /\ T[g].label = labels[at(g)]
      <4>1. x(g) \in 1..cnt[n]
        BY <1>3
      <4>2. cnt[c - 1] < x(g) /\ x(g) <= cnt[c] /\ lab[x(g)] = labels[at(g)]
        BY <3>5, <4>1 DEF TextLayout, n
      <4>3. cnt[c] = cnt[c - 1] + Len(labels) /\ cnt[c - 1] \in Nat
        BY <1>1, <3>4, LayoutCounts DEF n
      <4>4. Len(labels) \in Nat
        BY <1>1, <3>4, TextIsTyped DEF n
      <4>5. at(g) \in 1..Len(labels)
        <5> HIDE DEF labels
        <5> PICK a \in Nat : a = cnt[c - 1]
          BY <4>3
        <5> PICK l \in Nat : l = Len(labels)
          BY <4>4
        <5> PICK y \in Int : y = x(g)
          BY <4>1
        <5>1. a < y /\ y <= a + l
          BY <4>2, <4>3
        <5>2. y - a \in 1..l
          BY <5>1, PlaceWithin, Zenon
        <5> QED BY <5>2
      <4> QED BY <1>4, <4>2, <4>5
    <3>6. at(i) \in 1..Len(labels) /\ T[i].label = labels[at(i)]
      BY <3>5
    <3>7. at(j) \in 1..Len(labels) /\ T[j].label = labels[at(j)]
      BY <3>1, <3>5
    <3>8. at(h) \in 1..Len(labels) /\ T[h].label = labels[at(h)]
      BY <3>3, <3>5
    <3>9. at(k) \in 1..Len(labels) /\ T[k].label = labels[at(k)]
      BY <3>2, <3>3, <3>5
    <3>10. at(h) = at(k) - 1 /\ at(k) \in at(i) + 1..at(j) /\ at(i) < at(j)
      <4>1. cnt[from] \in Nat /\ cnt[c - 1] \in Nat
        BY <1>1, <1>5, <3>4, LayoutCounts DEF n
      <4> PICK a \in Nat : a = cnt[c - 1]
        BY <4>1
      <4> PICK b \in Nat : b = cnt[from]
        BY <4>1
      <4>2. at(i) = (b + i) - a /\ at(j) = (b + j) - a /\ at(h) = (b + h) - a /\ at(k) = (b + k) - a
        <5>1. x(i) = b + i /\ x(j) = b + j /\ x(h) = b + h /\ x(k) = b + k
          BY DEF x
        <5> QED BY <5>1
      <4> HIDE DEF at
      <4>3. i \in Int /\ j \in Int /\ h \in Int /\ k \in Int
        BY <1>2, <3>2
      <4>4. h = k - 1 /\ i + 1 <= k /\ k <= j
        BY <1>2, <1>7, <3>2
      <4>5. (b + h) - a = ((b + k) - a) - 1
        <5>1. (b + (k - 1)) - a = ((b + k) - a) - 1
          BY <4>3, Predecessor, SMTT(20)
        <5> QED BY <4>4, <5>1, Zenon
      <4>6. ((b + i) - a) + 1 <= (b + k) - a
        BY <4>3, <4>4, SameOrder, Zenon
      <4>7. (b + k) - a <= (b + j) - a
        BY <4>3, <4>4, SameOrderWeak, Zenon
      <4>8. (b + i) - a \in Int /\ (b + k) - a \in Int /\ (b + j) - a \in Int
        BY <4>3, IsPlace, Zenon
      <4>9. (b + k) - a \in ((b + i) - a) + 1..(b + j) - a /\ (b + i) - a < (b + j) - a
        BY <4>6, <4>7, <4>8, InRange, Zenon
      <4> QED BY <4>2, <4>5, <4>9, Zenon
    <3>11. DOMAIN labels = 1..Len(labels)
      BY <1>1, <3>4, TextIsTyped DEF n
    <3>12. labels[at(i)].type = labels[at(j)].type /\ labels[at(i)].type # "none"
      BY <2>4, <3>6, <3>7 DEF Typed
    <3> HIDE DEF at
    <3>13. \A g \in at(i) + 1..at(j) : OfOneEntity(labels[g - 1], labels[g])
      BY <1>2, <3>4, <3>6, <3>7, <3>10, <3>11, <3>12 DEF Scannable
    <3> HIDE DEF labels
    <3>14. OfOneEntity(labels[at(h)], labels[at(k)])
      BY <3>10, <3>13
    <3> QED BY <3>2, <3>8, <3>9, <3>14 DEF Joins
  <2> QED BY <2>3, <2>4
<1> QED BY <1>7 DEF ByCharacter, N

-----------------------------------------------------------------------------
(* Windows of characters are windows of tokens.                            *)

LEMMA Together ==
  ASSUME NEW a \in Nat, NEW l \in Nat, NEW t \in Nat, l = t - a
  PROVE  a + l = t /\ a <= t
OBVIOUS

LEMMA WindowInWhole ==
  ASSUME NEW text, IsText(text), NEW cnt, NEW chr, NEW lab, TextLayout(text, cnt, chr, lab),
         NEW from \in Nat, NEW to \in Nat, NEW n \in Nat, from <= to, to <= n, n <= Len(text),
         NEW T, LaidOut(text, T, from, to, cnt, chr, lab),
         NEW U, LaidOut(text, U, 0, n, cnt, chr, lab)
  PROVE  PartOf(LabelsOf(text), T, U, cnt[from], cnt[to], from)
<1>1. /\ cnt[from] \in Nat /\ cnt[to] \in Nat /\ cnt[n] \in Nat /\ cnt[0] = 0
      /\ cnt[from] <= cnt[to] /\ cnt[to] <= cnt[n]
  <2>1. Len(text) \in Nat
    BY TextIsTyped
  <2>2. from \in 0..Len(text) /\ to \in 0..Len(text) /\ n \in 0..Len(text)
    BY <2>1
  <2>3. cnt[0] = 0
    BY DEF TextLayout
  <2> QED BY <2>2, <2>3, LayoutCounts
<1>2. /\ T \in Seq(TokensIn(LabelsOf(text))) /\ Len(T) = cnt[to] - cnt[from] /\ Len(U) = cnt[n] - cnt[0]
      /\ \A i \in 1..Len(T) :
           /\ T[i].start = (chr[cnt[from] + i] - 1) - from
           /\ T[i].end = chr[cnt[from] + i] - from
           /\ T[i].label = lab[cnt[from] + i]
      /\ \A i \in 1..Len(U) :
           /\ U[i].start = (chr[cnt[0] + i] - 1) - 0
           /\ U[i].end = chr[cnt[0] + i] - 0
           /\ U[i].label = lab[cnt[0] + i]
  BY DEF LaidOut
<1>3. Len(U) = cnt[n]
  BY <1>1, <1>2
<1>4. ASSUME NEW i \in 1..Len(T)
      PROVE  /\ T[i].label = U[cnt[from] + i].label
             /\ U[cnt[from] + i].start = T[i].start + from /\ U[cnt[from] + i].end = T[i].end + from
  <2>1. chr[cnt[from] + i] \in from + 1..to /\ cnt[from] + i <= cnt[to] /\ cnt[from] + i \in 1..cnt[Len(text)]
    <3>1. to <= Len(text)
      <4>1. Len(text) \in Nat
        BY TextIsTyped
      <4> QED BY <4>1
    <3> QED BY <3>1, TokenAt
  <2> PICK x \in 1..cnt[Len(text)] : x = cnt[from] + i
    BY <2>1
  <2> PICK c \in from + 1..to : c = chr[x]
    BY <2>1
  <2>2. x \in 1..Len(U) /\ cnt[0] + x = x
    <3> PICK t \in Nat : t = cnt[to]
      BY <1>1
    <3> PICK u \in Nat : u = cnt[n]
      BY <1>1
    <3>1. 1 <= x /\ x <= t /\ t <= u /\ x \in Int
      BY <1>1, <2>1
    <3>2. x \in 1..u
      BY <3>1
    <3>3. 0 + x = x
      BY <3>1
    <3> QED BY <1>1, <1>3, <3>2, <3>3
  <2>3. U[x].start = (c - 1) - 0 /\ U[x].end = c - 0 /\ U[x].label = lab[x]
    BY <1>2, <2>2
  <2>4. T[i].start = (c - 1) - from /\ T[i].end = c - from /\ T[i].label = lab[x]
    BY <1>2
  <2>5. (c - 1) - 0 = ((c - 1) - from) + from /\ c - 0 = (c - from) + from
    OBVIOUS
  <2> QED BY <2>3, <2>4, <2>5
<1> QED BY <1>1, <1>2, <1>3, <1>4 DEF PartOf

LEMMA CharWindowsCover ==
  ASSUME NEW text, text \in Seq(ToSet(text)), Scannable(text), NEW cnt, NEW chr, NEW lab, TextLayout(text, cnt, chr, lab),
         NEW n \in Nat, n <= Len(text), NEW U, LaidOut(text, U, 0, n, cnt, chr, lab),
         NEW W, IsCut(W, n, ChunkOverlap)
  PROVE  WindowsCover([k \in 1..Len(W) |-> <<cnt[W[k][1]], cnt[W[k][2]]>>], U)
<1> DEFINE V == [k \in 1..Len(W) |-> <<cnt[W[k][1]], cnt[W[k][2]]>>]
           m == Len(U)
           N == Len(text)
           c == Len(W)
<1>1. IsText(text) /\ N \in Nat /\ n \in 0..N /\ N \in 0..N /\ 0 \in 0..N
  <2>1. IsText(text)
    BY TextIsScannable
  <2>2. N \in Nat
    BY <2>1, TextIsTyped
  <2> HIDE DEF N
  <2>3. n <= N
    BY DEF N
  <2> QED BY <2>1, <2>2, <2>3
<1>2. ChunkOverlap \in Nat \ {0}
  BY WindowAssumption
<1>3. W \in Seq(Nat \X Nat) /\ c \in Nat /\ \A k \in 1..c : W[k][1] \in Nat /\ W[k][2] \in Nat /\ W[k][1] < W[k][2] /\ W[k][2] <= n
  BY LenProperties DEF IsCut
<1>4. DOMAIN text = 1..N
  BY LenProperties
<1>5. m = cnt[n] /\ m \in Nat /\ cnt[0] = 0
  <2>1. cnt[0] = 0 /\ cnt[n] \in Nat
    BY <1>1, LayoutCounts DEF TextLayout
  <2>2. Len(U) = cnt[n] - cnt[0]
    BY DEF LaidOut
  <2> QED BY <2>1, <2>2
<1> HIDE DEF N, m, c
<1>6. \A k \in 1..c : W[k][1] \in 0..N /\ W[k][2] \in 0..N /\ cnt[W[k][1]] \in Nat /\ cnt[W[k][2]] \in Nat
  <2> TAKE k \in 1..c
  <2>1. W[k][1] \in 0..N /\ W[k][2] \in 0..N
    <3> PICK u \in Nat : u = W[k][1]
      BY <1>3
    <3> PICK v \in Nat : v = W[k][2]
      BY <1>3
    <3>1. u < v /\ v <= n /\ n <= N
      BY <1>1, <1>3
    <3>2. u \in 0..N /\ v \in 0..N
      BY <1>1, <3>1
    <3> QED BY <3>2
  <2> QED BY <1>1, <2>1, LayoutCounts DEF N
<1>7. /\ V \in Seq(Nat \X Nat) /\ Len(V) = c
      /\ \A k \in 1..c : V[k][1] = cnt[W[k][1]] /\ V[k][2] = cnt[W[k][2]]
  <2> DEFINE Q == Nat \X Nat
  <2>1. \A k \in 1..c : V[k] = <<cnt[W[k][1]], cnt[W[k][2]]>>
    BY DEF c
  <2>2. V \in [1..c -> Q]
    <3>1. \A k \in 1..c : V[k] \in Q
      BY <1>6, <2>1
    <3>2. V = [k \in 1..c |-> V[k]]
      BY DEF c
    <3> HIDE DEF V, Q
    <3> QED BY <3>1, <3>2
  <2>3. V \in Seq(Q) /\ Len(V) = c
    <3> HIDE DEF V, Q
    <3> QED BY <1>3, <2>2, FunctionIsSeq
  <2> QED BY <2>1, <2>3
<1> HIDE DEF V
<1>8. ASSUME NEW i \in 1..m
      PROVE  /\ i \in 1..cnt[N] /\ chr[i] \in 1..n /\ U[i].label = lab[i]
             /\ cnt[chr[i] - 1] < i /\ i <= cnt[chr[i]]
  <2>1. 0 <= n /\ n <= Len(text) /\ i \in 1..Len(U)
    BY DEF m
  <2>2. cnt[0] + i \in 1..cnt[N] /\ chr[cnt[0] + i] \in 0 + 1..n
    BY <1>1, <2>1, TokenAt DEF N
  <2>3. cnt[0] + i = i /\ 0 + 1 = 1
    BY <1>5
  <2>4. U[i].label = lab[cnt[0] + i]
    BY <2>1 DEF LaidOut
  <2>5. i \in 1..cnt[N]
    BY <2>2, <2>3
  <2> QED BY <2>2, <2>3, <2>4, <2>5 DEF TextLayout, N
<1>9. \A i \in 1..m, p \in 0..N : i <= cnt[p] <=> chr[i] <= p
  BY <1>1, <1>8, OfCharacter DEF N
(* A window of characters that has a token's has the token.                *)
<1>10. \A k \in 1..c, i \in 1..m : /\ W[k][1] < chr[i] <=> V[k][1] < i
                                   /\ chr[i] <= W[k][2] <=> i <= V[k][2]
  <2> TAKE k \in 1..c, i \in 1..m
  <2>1. /\ i <= cnt[W[k][1]] <=> chr[i] <= W[k][1]
        /\ i <= cnt[W[k][2]] <=> chr[i] <= W[k][2]
    BY <1>6, <1>9
  <2>2. chr[i] \in Int /\ W[k][1] \in Int /\ i \in Int /\ cnt[W[k][1]] \in Int
    <3>1. chr[i] \in 1..n
      BY <1>8
    <3> QED BY <1>3, <1>5, <1>6, <3>1
  <2>3. W[k][1] < chr[i] <=> ~(chr[i] <= W[k][1])
    BY <2>2
  <2>4. cnt[W[k][1]] < i <=> ~(i <= cnt[W[k][1]])
    BY <2>2
  <2> QED BY <1>7, <2>1, <2>3, <2>4
<1>11. ASSUME NEW i \in 1..m PROVE \E k \in 1..c : V[k][1] < i /\ i <= V[k][2]
  <2>1. PICK k \in 1..c : W[k][1] < chr[i] /\ chr[i] <= W[k][2]
    BY <1>2, <1>8, WindowOf DEF c
  <2> QED BY <1>10, <2>1
<1>12. ASSUME NEW k \in 1..c, NEW i \in 1..m, i <= V[k][1] PROVE \E j \in 1..c : j < k /\ V[j][1] < i /\ i <= V[j][2]
  <2>1. chr[i] <= W[k][1]
    BY <1>6, <1>7, <1>9, <1>12
  <2>2. PICK j \in 1..c : j < k /\ W[j][1] < chr[i] /\ chr[i] <= W[j][2]
    BY <1>2, <1>8, <2>1, EarlierWindow DEF c
  <2> QED BY <1>10, <2>2
<1>13. ASSUME NEW i \in 2..m, Joins(U, i) PROVE \E k \in 1..c : V[k][1] < i - 1 /\ i <= V[k][2]
  <2>1. PICK h \in 1..m : h = i - 1 /\ i \in 1..m /\ h < i
    BY <1>5
  <2>2. PICK p \in 1..n : p = chr[h]
    BY <1>8
  <2>3. PICK q \in 1..n : q = chr[i]
    BY <1>8, <2>1
  <2>4. p <= q
    <3>1. h <= i /\ h \in 1..cnt[N] /\ i \in 1..cnt[N]
      BY <1>5, <1>8, <2>1
    <3> QED BY <1>1, <2>2, <2>3, <3>1, CharactersInOrder DEF N
  <2>5. q - p <= ChunkOverlap
    <3>1. CASE p = q
      BY <1>2, <3>1
    <3>2. CASE p # q
      <4>1. p < q
        BY <2>4, <3>2
      <4>2. h \in 1..cnt[N] /\ i \in 1..cnt[N] /\ i - 1 \in 1..cnt[N] /\ chr[i - 1] < chr[i]
        BY <1>8, <2>1, <2>2, <2>3, <4>1
      <4>3. /\ \A k \in chr[i - 1] + 1..chr[i] - 1 : text[k].labels = <<>>
            /\ text[chr[i - 1]].labels # <<>> /\ text[chr[i]].labels # <<>>
            /\ lab[i - 1] = Last(text[chr[i - 1]].labels) /\ lab[i] = Head(text[chr[i]].labels)
        BY <1>1, <4>2, NextCharacter DEF N
      <4>4. /\ \A k \in p + 1..q - 1 : text[k].labels = <<>>
            /\ text[p].labels # <<>> /\ text[q].labels # <<>>
            /\ lab[h] = Last(text[p].labels) /\ lab[i] = Head(text[q].labels)
        BY <2>1, <2>2, <2>3, <4>3
      <4>5. OfOneEntity(Last(text[p].labels), Head(text[q].labels))
        <5>1. OfOneEntity(U[h].label, U[i].label)
          BY <1>13, <2>1 DEF Joins
        <5>2. U[h].label = lab[h] /\ U[i].label = lab[i]
          BY <1>8, <2>1
        <5> QED BY <4>4, <5>1, <5>2
      <4>6. p \in DOMAIN text /\ q \in DOMAIN text
        <5>1. n <= N
          BY <1>1
        <5> QED BY <1>1, <1>4, <5>1
      <4> QED BY <4>1, <4>4, <4>5, <4>6 DEF Scannable
    <3> QED BY <3>1, <3>2
  <2>6. PICK k \in 1..c : q <= W[k][2] /\ \A o \in 1..q : q - o <= ChunkOverlap => W[k][1] < o
    BY <1>2, NearestWindow DEF c
  <2>7. W[k][1] < p
    <3>1. p \in 1..q
      BY <2>4
    <3> QED BY <2>5, <2>6, <3>1
  <2>8. V[k][1] < h /\ i <= V[k][2]
    BY <1>10, <2>1, <2>2, <2>3, <2>6, <2>7
  <2> QED BY <2>1, <2>8
<1> QED BY <1>7, <1>11, <1>12, <1>13 DEF WindowsCover, V, m, c

-----------------------------------------------------------------------------
(* A scan finds parts of all entities in its window.                       *)

LEMMA PlannedWindows ==
  ASSUME NEW words, Len(words) \in Nat
  PROVE  IsCut(PlanWindows(words, WindowTokenBudget, ChunkOverlapTokens), Len(words), ChunkOverlapTokens)
<1> DEFINE m == Len(words)
           B == WindowTokenBudget
           O == ChunkOverlapTokens
           Ends(s) == {k \in s + 1..s + B - O : k = s + 1 \/ words[k + 1] # words[k]}
           next == [s \in 0..m - 1 |-> Max(Ends(s))]
<1>1. B \in Nat \ {0} /\ O \in Nat \ {0} /\ O < B /\ MaxOf(B, 1) = B /\ MaxOf(MinOf(O, B - 1), 0) = O
  BY WindowAssumption DEF MaxOf, MinOf
<1>2. PlanWindows(words, B, O) = Windows(m, B, next)
  <2> DEFINE b == MaxOf(B, 1)
             o == MaxOf(MinOf(O, B - 1), 0)
             End(s, t) == Max({k \in s + 1..t : k = s + 1 \/ words[k + 1] # words[k]})
  <2>1. b = B /\ MaxOf(MinOf(O, b - 1), 0) = O
    BY <1>1
  <2>2. PlanWindows(words, B, O) = Windows(m, b, [s \in 0..m - 1 |-> End(s, s + b - MaxOf(MinOf(O, b - 1), 0))])
    BY DEF PlanWindows
  <2> HIDE DEF b, m, B, O
  <2>3. PlanWindows(words, B, O) = Windows(m, B, [s \in 0..m - 1 |-> End(s, s + B - O)])
    BY <2>1, <2>2
  <2> QED BY <2>3
<1> HIDE DEF m, B, O
<1>3. ASSUME NEW s \in 0..m - 1 PROVE next[s] \in Nat /\ s < next[s] /\ next[s] + O <= s + B
  <2>1. /\ Ends(s) \in SUBSET Nat /\ s + 1 \in Ends(s) /\ s + B - O \in Nat
        /\ \A k \in Ends(s) : k \in Nat /\ s < k /\ k <= s + B - O
    <3>1. s \in Nat
      BY <1>3
    <3>2. 1 <= B - O /\ B - O \in Nat
      BY <1>1
    <3> QED BY <3>1, <3>2
  <2>2. Max(Ends(s)) \in Ends(s)
    <3> HIDE DEF Ends
    <3> QED BY <2>1, MaxIsGreatest
  <2>3. PICK k \in Nat : k = next[s] /\ s < k /\ k <= s + B - O
    <3> HIDE DEF Ends
    <3> QED BY <2>1, <2>2
  <2>4. k + O <= s + B
    <3>1. s \in Nat /\ B \in Nat /\ O \in Nat
      BY <1>1
    <3> QED BY <2>3, <3>1
  <2> QED BY <2>3, <2>4
<1> HIDE DEF next
<1>4. Advances(next, m, B, O)
  BY <1>3 DEF Advances
<1>5. IsCut(Windows(m, B, next), m, O)
  <2>1. m \in Nat
    BY DEF m
  <2> QED BY <1>1, <1>4, <2>1, WindowsAreCut
<1> QED BY <1>2, <1>5 DEF m, B, O

LEMMA PartInLine ==
  ASSUME NEW L, NEW text, NEW from, NEW T, InLine(L, T), Adjoining(text, from, T),
         NEW lo \in Nat, NEW hi \in Nat, lo <= hi, hi <= Len(T)
  PROVE  LET S == SubSeq(T, lo + 1, hi)
         IN InLine(L, S) /\ Adjoining(text, from, S) /\ PartOf(L, S, T, lo, hi, 0)
<1> DEFINE S == SubSeq(T, lo + 1, hi)
           m == Len(T)
           l == hi - lo
<1>1. T \in Seq(TokensIn(L)) /\ m \in Nat /\ hi <= m
  BY LenProperties DEF InLine
<1> HIDE DEF m
<1>2. l \in Nat /\ lo + l = hi /\ lo + 1 \in 1..m + 1 /\ hi \in (lo + 1) - 1..m /\ (hi - (lo + 1)) + 1 = l
  BY <1>1
<1> HIDE DEF l
<1>3. /\ S \in Seq(TokensIn(L)) /\ Len(S) = l
      /\ \A i \in 1..l : S[i] = T[(lo + 1) + i - 1]
  <2> DEFINE Q == TokensIn(L)
  <2> HIDE DEF Q
  <2>1. T \in Seq(Q) /\ lo + 1 \in 1..Len(T) + 1 /\ hi \in (lo + 1) - 1..Len(T)
    BY <1>1, <1>2 DEF Q, m
  <2>2. /\ SubSeq(T, lo + 1, hi) \in Seq(Q) /\ Len(SubSeq(T, lo + 1, hi)) = hi - (lo + 1) + 1
        /\ \A i \in 1..hi - (lo + 1) + 1 : SubSeq(T, lo + 1, hi)[i] = T[(lo + 1) + i - 1]
    BY <2>1, SubSeqProperties
  <2> QED BY <1>2, <2>2 DEF Q
<1>4. \A i \in 1..l : S[i] = T[lo + i] /\ lo + i \in 1..m
  <2> TAKE i \in 1..l
  <2>1. i \in Nat /\ 1 <= i /\ i <= l /\ (lo + 1) + i - 1 = lo + i
    BY <1>2
  <2>2. lo + i \in 1..m
    BY <1>1, <1>2, <2>1
  <2> QED BY <1>3, <2>1, <2>2
<1> HIDE DEF S
<1>5. InLine(L, S)
  <2>1. ASSUME NEW i \in 1..l PROVE S[i].start < S[i].end
    <3>1. lo + i \in 1..Len(T) /\ S[i] = T[lo + i]
      BY <1>4 DEF m
    <3> QED BY <3>1 DEF InLine
  <2>2. ASSUME NEW i \in 1..l, NEW j \in 1..l, i < j PROVE S[i].start <= S[j].start /\ S[i].end <= S[j].end
    <3>1. lo + i \in 1..Len(T) /\ S[i] = T[lo + i] /\ lo + j \in 1..Len(T) /\ S[j] = T[lo + j]
      BY <1>4 DEF m
    <3>2. lo + i < lo + j
      BY <1>2, <2>2
    <3> QED BY <3>1, <3>2 DEF InLine
  <2> QED BY <1>3, <2>1, <2>2 DEF InLine
<1>6. Adjoining(text, from, S)
  <2> SUFFICES ASSUME NEW i \in 2..l
               PROVE  S[i].start < S[i - 1].end \/ IsWhitespace(text, from, S[i - 1].end, S[i].start)
    BY <1>3 DEF Adjoining
  <2>1. i \in 1..l /\ i - 1 \in 1..l
    BY <1>2
  <2>2. PICK x \in 2..Len(T) : x = lo + i /\ x - 1 = lo + (i - 1)
    <3>1. lo + i \in 1..Len(T) /\ lo + i # 1 /\ (lo + i) - 1 = lo + (i - 1)
      BY <1>4, <2>1 DEF m
    <3>2. lo + i \in 2..Len(T)
      BY <3>1
    <3> QED BY <3>1, <3>2
  <2>3. S[i] = T[x] /\ S[i - 1] = T[x - 1]
    BY <1>4, <2>1, <2>2
  <2> QED BY <2>3 DEF Adjoining
<1>7. PartOf(L, S, T, lo, hi, 0)
  <2>1. ASSUME NEW i \in 1..l
        PROVE  /\ S[i].label = T[lo + i].label
               /\ T[lo + i].start = S[i].start + 0 /\ T[lo + i].end = S[i].end + 0
    <3>1. S[i] = T[lo + i] /\ lo + i \in 1..Len(T)
      BY <1>4 DEF m
    <3>2. T[lo + i].start \in Nat /\ T[lo + i].end \in Nat
      BY <3>1, TokenIsTyped
    <3> QED BY <3>1, <3>2
  <2> QED BY <1>1, <1>3, <2>1 DEF PartOf, m, l
<1> QED BY <1>5, <1>6, <1>7 DEF S

LEMMA ScanFinds ==
  ASSUME NEW L, NEW text, NEW from \in Nat, NEW to, NEW T, T = Tokens(text, from, to),
         InLine(L, T), Adjoining(text, from, T)
  PROVE  \E F, P :
           /\ Parted(L, F, P, T, Len(T)) /\ Covering(P, T, Len(T))
           /\ RebasedBy(L, Scan(text, from, to).spans, F, from)
           /\ Scan(text, from, to).windows <= 1 => F = AggregateTokens(text, from, T)
<1> DEFINE m == Len(T)
           words == [i \in DOMAIN T |-> T[i].word]
           W == PlanWindows(words, WindowTokenBudget, ChunkOverlapTokens)
           A == [i \in DOMAIN W |-> AggregateTokens(text, from, SubSeq(T, W[i][1] + 1, W[i][2]))]
           F == FlattenSeq(A)
           G == [i \in DOMAIN F |-> Span(F[i].start + from, F[i].end + from, F[i].type)]
           S == SpansOf(TypesIn(L))
<1>1. Scan(text, from, to).spans = G /\ Scan(text, from, to).windows = Len(W)
  BY DEF Scan
<1>2. T \in Seq(TokensIn(L)) /\ m \in Nat /\ DOMAIN T = 1..m
  BY LenProperties DEF InLine
<1>3. Len(words) = m
  <2>1. ASSUME NEW i \in 1..m PROVE words[i] \in Nat
    <3>1. T[i] \in TokensIn(L)
      BY <1>2, ElementOfSeq
    <3> QED BY <1>2, <3>1 DEF TokensIn
  <2>2. words \in [1..m -> Nat]
    BY <1>2, <2>1
  <2> HIDE DEF words, m
  <2> QED BY <1>2, <2>2, FunctionIsSeq
<1>4. IsCut(W, m, ChunkOverlapTokens)
  <2> HIDE DEF words
  <2> QED BY <1>2, <1>3, PlannedWindows
<1>5. m = Len(T)
  OBVIOUS
<1> HIDE DEF words, W, m
<1>6. W \in Seq(Nat \X Nat) /\ Len(W) \in Nat /\ DOMAIN W = 1..Len(W)
  BY <1>4, LenProperties DEF IsCut
<1>7. ASSUME NEW k \in 1..Len(W)
      PROVE  W[k][1] \in Nat /\ W[k][2] \in Nat /\ W[k][1] <= W[k][2] /\ W[k][2] <= m
  <2>1. W[k] \in Nat \X Nat
    BY <1>6, ElementOfSeq
  <2>2. W[k][1] \in Nat /\ W[k][2] \in Nat
    BY <2>1
  <2>3. W[k][1] < W[k][2] /\ W[k][2] <= m
    BY <1>4 DEF IsCut
  <2> QED BY <2>2, <2>3
<1>8. ASSUME NEW k \in 1..Len(W)
      PROVE  A[k] \in Seq(S) /\ \E R : Windowed(L, A[k], R, T, W[k][1], W[k][2])
  <2> PICK lo \in Nat : lo = W[k][1]
    BY <1>7
  <2> PICK hi \in Nat : hi = W[k][2]
    BY <1>7
  <2> DEFINE U == SubSeq(T, lo + 1, hi)
  <2>1. A[k] = AggregateTokens(text, from, U)
    BY <1>6
  <2>2. lo <= hi /\ hi <= Len(T)
    BY <1>5, <1>7
  <2>3. InLine(L, U) /\ Adjoining(text, from, U) /\ PartOf(L, U, T, lo, hi, 0)
    BY <2>2, PartInLine
  <2> HIDE DEF U, A
  <2>4. PICK P : Parted(L, A[k], P, U, Len(U)) /\ Covering(P, U, Len(U))
    BY <2>1, <2>3, EntitiesAreFound
  <2>5. A[k] \in Seq(S)
    BY <2>4 DEF Parted
  <2>6. RebasedBy(L, A[k], A[k], 0)
    <3>1. ASSUME NEW x \in 1..Len(A[k])
          PROVE  A[k][x].start = A[k][x].start + 0 /\ A[k][x].end = A[k][x].end + 0
      <4>1. A[k][x] \in S
        BY <2>5, ElementOfSeq
      <4>2. A[k][x].start \in Nat /\ A[k][x].end \in Nat
        BY <4>1 DEF SpansOf
      <4> QED BY <4>2
    <3> QED BY <2>5, <3>1 DEF RebasedBy
  <2>7. \E R : Windowed(L, A[k], R, T, lo, hi)
    <3>1. 0 \in Nat
      OBVIOUS
    <3> QED BY <2>3, <2>4, <2>6, <3>1, WindowIsPart
  <2> QED BY <2>5, <2>7
<1>9. A \in Seq(Seq(S)) /\ Len(A) = Len(W)
  <2> DEFINE Q == Seq(S)
  <2>1. A \in [1..Len(W) -> Q]
    BY <1>6, <1>8
  <2>2. A \in Seq(Q) /\ Len(A) = Len(W)
    <3> HIDE DEF Q, A
    <3> QED BY <1>6, <2>1, FunctionIsSeq
  <2> QED BY <2>2
<1>10. \A k \in 1..Len(W) : A[k] = AggregateTokens(text, from, SubSeq(T, W[k][1] + 1, W[k][2]))
  BY <1>6
<1> HIDE DEF A
<1>11. ByWindow(L, A, W, T)
  BY <1>8, <1>9 DEF ByWindow
<1>12. PICK R : Parted(L, F, R, T, Len(T)) /\ Covering(R, T, Len(T))
  <2>1. ChunkOverlapTokens \in Nat \ {0}
    BY WindowAssumption
  <2>2. WindowsCover(W, T)
    BY <1>5, <1>4, <2>1, TokenWindowsCover
  <2> QED BY <1>11, <2>2, WindowsAreUnited
<1>13. F \in Seq(S) /\ Len(F) \in Nat /\ DOMAIN F = 1..Len(F)
  <2>1. F \in Seq(S)
    BY <1>12 DEF Parted
  <2> HIDE DEF F, S
  <2> QED BY <2>1, LenProperties
<1>14. RebasedBy(L, G, F, from)
  <2> HIDE DEF F
  <2>1. ASSUME NEW x \in 1..Len(F)
        PROVE  /\ G[x] \in S
               /\ G[x].start = F[x].start + from /\ G[x].end = F[x].end + from /\ G[x].type = F[x].type
    <3>1. F[x] \in S
      BY <1>13, ElementOfSeq
    <3>2. G[x] = Span(F[x].start + from, F[x].end + from, F[x].type)
      BY <1>13
    <3>3. F[x].start + from \in Nat /\ F[x].end + from \in Nat /\ F[x].type \in TypesIn(L)
      BY <3>1 DEF SpansOf
    <3> QED BY <3>2, <3>3 DEF Span, SpansOf
  <2>2. G \in [1..Len(F) -> S]
    BY <1>13, <2>1
  <2>3. G \in Seq(S) /\ Len(G) = Len(F)
    <3> HIDE DEF G, S
    <3> QED BY <1>13, <2>2, FunctionIsSeq
  <2> QED BY <2>1, <2>3 DEF RebasedBy
<1>15. ASSUME Len(W) <= 1 PROVE F = AggregateTokens(text, from, T)
  <2> DEFINE Q == S
  <2> HIDE DEF Q
  <2>1. PICK f : /\ f[0] = <<>> /\ \A k \in 1..Len(A) : f[k] = f[k - 1] \o A[k]
                 /\ F = f[Len(A)]
    <3>1. A \in Seq(Seq(Q))
      BY <1>9 DEF Q
    <3> HIDE DEF F
    <3>2. FlattenSeq(A) = F
      BY DEF F
    <3> QED BY <3>1, <3>2, FlattenRuns
  <2> HIDE DEF F
  <2>2. CASE Len(W) = 0
    <3>1. F = <<>>
      BY <1>9, <2>1, <2>2
    <3>2. m = 0
      BY <1>2, <1>4, <2>2 DEF IsCut
    <3>3. AggregateTokens(text, from, T) = <<>>
      <4>1. PICK P : Parted(L, AggregateTokens(text, from, T), P, T, Len(T))
        BY EntitiesAreFound
      <4>2. P \in Seq((1..0) \X (1..0)) /\ Len(P) = Len(AggregateTokens(text, from, T))
        BY <1>5, <3>2, <4>1 DEF Parted
      <4>3. Len(P) = 0
        <5>1. Len(P) \in Nat /\ \A x \in 1..Len(P) : P[x] \in (1..0) \X (1..0)
          BY <4>2, ElementOfSeq, LenProperties
        <5>2. \A x \in 1..Len(P) : FALSE
          BY <5>1
        <5> QED BY <5>1, <5>2
      <4>4. AggregateTokens(text, from, T) \in Seq(SpansOf(TypesIn(L)))
        BY <4>1 DEF Parted
      <4> QED BY <4>2, <4>3, <4>4, NoneIsEmpty
    <3> QED BY <3>1, <3>3
  <2>3. CASE Len(W) = 1
    <3>1. W[1][1] = 0 /\ W[1][2] = m
      BY <1>4, <2>3 DEF IsCut
    <3>2. SubSeq(T, 0 + 1, m) = T
      <4>1. 0 + 1 = 1
        OBVIOUS
      <4>2. SubSeq(T, 1, m) = T
        BY <1>5, <1>2, SubSeqFull
      <4> QED BY <4>1, <4>2
    <3>3. A[1] = AggregateTokens(text, from, T)
      <4>1. 1 \in 1..Len(W)
        BY <2>3
      <4>2. A[1] = AggregateTokens(text, from, SubSeq(T, W[1][1] + 1, W[1][2]))
        BY <1>10, <4>1
      <4> QED BY <3>1, <3>2, <4>2
    <3>4. F = <<>> \o A[1]
      <4>1. Len(A) = 1 /\ 1 \in 1..Len(A) /\ 1 - 1 = 0
        BY <1>9, <2>3
      <4>2. f[1] = f[1 - 1] \o A[1]
        BY <2>1, <4>1
      <4> QED BY <2>1, <4>1, <4>2
    <3>5. A[1] \in Seq(S)
      BY <1>8, <2>3
    <3>6. <<>> \o A[1] = A[1]
      <4> HIDE DEF S
      <4> QED BY <3>5, ConcatEmptySeq
    <3> QED BY <3>3, <3>4, <3>6
  <2> QED BY <1>6, <1>15, <2>2, <2>3
<1> HIDE DEF F, G
<1> QED BY <1>1, <1>12, <1>14, <1>15

LEMMA RebasedByNothing ==
  ASSUME NEW L, NEW F \in Seq(SpansOf(TypesIn(L))), NEW G, RebasedBy(L, G, F, 0)
  PROVE  G = F
<1> DEFINE S == SpansOf(TypesIn(L))
<1>1. G \in Seq(S) /\ F \in Seq(S) /\ Len(G) = Len(F)
  BY DEF RebasedBy
<1>2. ASSUME NEW x \in 1..Len(F) PROVE G[x] = F[x]
  <2>1. x \in 1..Len(G)
    BY <1>1
  <2>2. G[x] \in S /\ F[x] \in S
    <3> HIDE DEF S
    <3> QED BY <1>1, <2>1, ElementOfSeq
  <2>3. F[x].start \in Nat /\ F[x].end \in Nat
    BY <2>2 DEF SpansOf
  <2>4. G[x].start = F[x].start /\ G[x].end = F[x].end /\ G[x].type = F[x].type
    BY <2>3 DEF RebasedBy
  <2> QED BY <2>2, <2>4, SameSpan
<1> HIDE DEF S
<1> QED BY <1>1, <1>2, SeqEqual

LEMMA TextIsCut ==
  ASSUME NEW n \in Nat
  PROVE  IsCut(CharWindows(n), n, ChunkOverlap)
<1> DEFINE M == ModelMaxInputChars
           O == ChunkOverlap
           next == [s \in 0..n - 1 |-> s + M - O]
<1>1. M \in Nat \ {0} /\ O \in Nat \ {0} /\ O < M
  BY WindowAssumption
<1>2. CharWindows(n) = Windows(n, M, next)
  BY DEF CharWindows
<1> HIDE DEF M, O
<1>3. ASSUME NEW s \in 0..n - 1
      PROVE  s + M - O \in Nat /\ s < s + M - O /\ (s + M - O) + O <= s + M
  <2>1. s \in Nat
    OBVIOUS
  <2> QED BY <1>1, <2>1
<1>4. Advances(next, n, M, O)
  BY <1>3 DEF Advances
<1> HIDE DEF next
<1>5. IsCut(Windows(n, M, next), n, O)
  BY <1>1, <1>4, WindowsAreCut
<1> QED BY <1>2, <1>5 DEF O

(* modelRunner.run finds in the first n characters of a text what it would *)
(* find in one window of them, whether it cuts them by characters, by      *)
(* tokens, or both.                                                        *)
THEOREM RunIsWhole ==
  ASSUME NEW text, text \in Seq(ToSet(text)), Scannable(text), NEW n \in Nat, n <= Len(text)
  PROVE  /\ Run(text, n) = WholeText(text, n)
         /\ WholeText(text, n) \in Seq(SpansOf(TypesIn(LabelsOf(text))))
         /\ \A x \in 1..Len(WholeText(text, n)) : WholeText(text, n)[x].start < WholeText(text, n)[x].end
<1> DEFINE L == LabelsOf(text)
           U == Tokens(text, 0, n)
           B == WholeText(text, n)
<1>1. IsText(text)
  BY TextIsScannable
<1>2. PICK cnt, chr, lab : TextLayout(text, cnt, chr, lab)
  BY <1>1, LayoutExists
<1>3. 0 \in Nat /\ 0 <= n
  OBVIOUS
<1>4. LaidOut(text, U, 0, n, cnt, chr, lab)
  BY <1>1, <1>2, <1>3, TokensLaidOut
<1>5. U = Tokens(text, 0, n) /\ B = AggregateTokens(text, 0, U)
  BY DEF WholeText
<1> HIDE DEF U, B
<1>6. InLine(L, U) /\ Adjoining(text, 0, U)
  BY <1>1, <1>2, <1>3, <1>4, WhiteSpaceBetween
<1>7. ByCharacter(U)
  BY <1>2, <1>3, <1>4, CharactersAreWhole
<1>8. L = LabelsOf(text)
  OBVIOUS
<1> HIDE DEF L
<1>9. PICK Q : Parted(L, B, Q, U, Len(U)) /\ Covering(Q, U, Len(U)) /\ Whole(Q, U, Len(U))
  BY <1>5, <1>6, EntitiesAreFound
<1>10. ASSUME NEW F, NEW P, Parted(L, F, P, U, Len(U)), Covering(P, U, Len(U))
      PROVE  MergeWindowedSpans(F) = B
  BY <1>6, <1>7, <1>9, <1>10, PartsAreUnited
<1>11. ASSUME n <= ModelMaxInputChars PROVE Run(text, n) = B
  <2>1. PICK F, P :
           /\ Parted(L, F, P, U, Len(U)) /\ Covering(P, U, Len(U))
           /\ RebasedBy(L, Scan(text, 0, n).spans, F, 0)
           /\ Scan(text, 0, n).windows <= 1 => F = AggregateTokens(text, 0, U)
    BY <1>5, <1>3, <1>6, ScanFinds
  <2>2. F \in Seq(SpansOf(TypesIn(L)))
    BY <2>1 DEF Parted
  <2>3. Scan(text, 0, n).spans = F
    BY <2>1, <2>2, RebasedByNothing
  <2>4. MergeWindowedSpans(F) = B
    BY <1>10, <2>1
  <2>5. Run(text, n) = IF Scan(text, 0, n).windows > 1 THEN MergeWindowedSpans(F) ELSE F
    BY <1>11, <2>3 DEF Run
  <2>6. ~(Scan(text, 0, n).windows > 1) => F = B
    <3>1. Scan(text, 0, n).windows \in Nat
      <4> DEFINE words == [i \in DOMAIN U |-> U[i].word]
                 W == PlanWindows(words, WindowTokenBudget, ChunkOverlapTokens)
      <4>1. Scan(text, 0, n).windows = Len(W)
        BY <1>5 DEF Scan
      <4>2. Len(words) \in Nat
        <5>1. U \in Seq(TokensIn(L))
          BY <1>6 DEF InLine
        <5>2. Len(U) \in Nat /\ DOMAIN U = 1..Len(U) /\ \A i \in 1..Len(U) : U[i] \in TokensIn(L)
          BY <5>1, LenProperties, ElementOfSeq
        <5>3. words \in [1..Len(U) -> Nat]
          BY <5>2 DEF TokensIn
        <5> HIDE DEF words
        <5> QED BY <5>2, <5>3, FunctionIsSeq
      <4> HIDE DEF words
      <4>3. W \in Seq(Nat \X Nat)
        BY <4>2, PlannedWindows DEF IsCut
      <4> HIDE DEF W
      <4> QED BY <4>1, <4>3, LenProperties
    <3>2. ~(Scan(text, 0, n).windows > 1) => Scan(text, 0, n).windows <= 1
      BY <3>1
    <3> QED BY <1>5, <2>1, <3>2
  <2>7. Run(text, n) = B
    BY <2>4, <2>5, <2>6
  <2> QED BY <2>7
<1>12. ASSUME ~(n <= ModelMaxInputChars) PROVE Run(text, n) = B
  <2> DEFINE W == CharWindows(n)
             G == [i \in DOMAIN W |-> Scan(text, W[i][1], W[i][2]).spans]
             V == [k \in 1..Len(W) |-> <<cnt[W[k][1]], cnt[W[k][2]]>>]
             S == SpansOf(TypesIn(L))
  <2>1. Run(text, n) = MergeWindowedSpans(FlattenSeq(G))
    BY <1>12 DEF Run
  <2>2. IsCut(W, n, ChunkOverlap)
    BY TextIsCut
  <2> HIDE DEF W
  <2>3. W \in Seq(Nat \X Nat) /\ Len(W) \in Nat /\ DOMAIN W = 1..Len(W)
    BY <2>2, LenProperties DEF IsCut
  <2>4. WindowsCover(V, U)
    BY <1>2, <1>4, <2>2, CharWindowsCover
  <2>5. /\ Len(V) = Len(W)
        /\ \A k \in 1..Len(W) : V[k] = <<cnt[W[k][1]], cnt[W[k][2]]>>
    <3>1. V \in Seq(Nat \X Nat) /\ DOMAIN V = 1..Len(W)
      BY <2>4 DEF WindowsCover
    <3>2. Len(V) = Len(W)
      <4> HIDE DEF V
      <4>1. Len(V) \in Nat /\ DOMAIN V = 1..Len(V)
        BY <3>1, LenProperties
      <4>2. V \in [1..Len(W) -> Nat \X Nat]
        BY <3>1, <4>1, ElementOfSeq
      <4> QED BY <2>3, <4>2, FunctionIsSeq
    <3> QED BY <3>2
  <2>6. \A k \in 1..Len(W) : G[k] = Scan(text, W[k][1], W[k][2]).spans
    BY <2>3
  <2>7. ASSUME NEW k \in 1..Len(W)
        PROVE  G[k] \in Seq(S) /\ \E R : Windowed(L, G[k], R, U, V[k][1], V[k][2])
    <3>1. W[k] \in Nat \X Nat
      BY <2>3, ElementOfSeq
    <3> PICK from \in Nat : from = W[k][1]
      BY <3>1
    <3> PICK to \in Nat : to = W[k][2]
      BY <3>1
    <3> DEFINE T == Tokens(text, from, to)
    <3>2. from <= to /\ to <= n /\ to <= Len(text)
      <4>1. from < to /\ to <= n
        BY <2>2 DEF IsCut
      <4>2. Len(text) \in Nat
        BY <1>1, TextIsTyped
      <4> QED BY <4>1, <4>2
    <3>3. G[k] = Scan(text, from, to).spans
      BY <2>6
    <3>4. LaidOut(text, T, from, to, cnt, chr, lab)
      BY <1>1, <1>2, <3>2, TokensLaidOut
    <3>5. T = Tokens(text, from, to)
      OBVIOUS
    <3> HIDE DEF T, G
    <3>6. InLine(L, T) /\ Adjoining(text, from, T)
      BY <1>8, <1>1, <1>2, <3>2, <3>4, WhiteSpaceBetween
    <3>7. PICK F, P :
             /\ Parted(L, F, P, T, Len(T)) /\ Covering(P, T, Len(T))
             /\ RebasedBy(L, Scan(text, from, to).spans, F, from)
             /\ Scan(text, from, to).windows <= 1 => F = AggregateTokens(text, from, T)
      BY <3>5, <3>6, ScanFinds
    <3>8. PartOf(L, T, U, cnt[from], cnt[to], from)
      BY <1>8, <1>1, <1>2, <1>4, <3>2, <3>4, WindowInWhole
    <3>9. cnt[from] \in Nat /\ cnt[to] \in Nat
      <4>1. from \in 0..Len(text) /\ to \in 0..Len(text)
        <5>1. Len(text) \in Nat
          BY <1>1, TextIsTyped
        <5> QED BY <3>2, <5>1
      <4> QED BY <1>1, <1>2, <4>1, LayoutCounts
    <3>10. RebasedBy(L, G[k], F, from)
      BY <3>3, <3>7
    <3>11. \E R : Windowed(L, G[k], R, U, cnt[from], cnt[to])
      BY <1>6, <3>7, <3>8, <3>9, <3>10, WindowIsPart
    <3>12. V[k][1] = cnt[from] /\ V[k][2] = cnt[to]
      BY <2>5
    <3>13. G[k] \in Seq(S)
      BY <3>10 DEF RebasedBy
    <3> QED BY <3>11, <3>12, <3>13
  <2>8. G \in Seq(Seq(S)) /\ Len(G) = Len(W)
    <3> DEFINE X == Seq(S)
    <3>1. G \in [1..Len(W) -> X]
      BY <2>3, <2>7
    <3>2. G \in Seq(X) /\ Len(G) = Len(W)
      <4> HIDE DEF X, G
      <4> QED BY <2>3, <3>1, FunctionIsSeq
    <3> QED BY <3>2
  <2> HIDE DEF G, V
  <2>9. ByWindow(L, G, V, U)
    BY <2>5, <2>7, <2>8 DEF ByWindow
  <2>10. PICK R : Parted(L, FlattenSeq(G), R, U, Len(U)) /\ Covering(R, U, Len(U))
    BY <1>6, <2>4, <2>9, WindowsAreUnited
  <2>11. Run(text, n) = B
    BY <1>10, <2>1, <2>10
  <2> QED BY <2>11
<1>13. B \in Seq(SpansOf(TypesIn(L)))
  BY <1>9 DEF Parted
<1>14. ASSUME NEW x \in 1..Len(B) PROVE B[x].start < B[x].end
  <2>1. Q \in Seq((1..Len(U)) \X (1..Len(U))) /\ Len(Q) = Len(B)
    BY <1>9 DEF Parted
  <2>2. Q[x] \in (1..Len(U)) \X (1..Len(U))
    BY <2>1, ElementOfSeq
  <2>3. PICK a \in 1..Len(U) : a = Q[x][1]
    BY <2>2
  <2>4. PICK b \in 1..Len(U) : b = Q[x][2]
    BY <2>2
  <2>5. B[x] = Piece(U, Q[x]) /\ a <= b
    BY <1>9, <2>3, <2>4 DEF Parted
  <2>6. B[x].start = U[a].start /\ B[x].end = U[b].end
    BY <2>3, <2>4, <2>5 DEF Piece, Span
  <2>7. U[a].start \in Nat /\ U[a].end \in Nat /\ U[b].end \in Nat
    BY <1>6, TokenIsTyped
  <2>8. U[a].start < U[a].end /\ U[a].end <= U[b].end
    <3>1. U[a].start < U[a].end
      BY <1>6 DEF InLine
    <3>2. CASE a = b
      BY <2>7, <3>1, <3>2
    <3>3. CASE a # b
      <4>1. a < b
        <5>1. U \in Seq(TokensIn(L))
          BY <1>6 DEF InLine
        <5>2. Len(U) \in Nat
          BY <5>1, LenProperties
        <5> QED BY <2>5, <3>3, <5>2
      <4>2. U[a].end <= U[b].end
        BY <1>6, <4>1 DEF InLine
      <4> QED BY <3>1, <4>2
    <3> QED BY <3>2, <3>3
  <2> QED BY <2>6, <2>7, <2>8
<1> QED BY <1>11, <1>12, <1>13, <1>14 DEF B, L

-----------------------------------------------------------------------------
(* Spans that do not overlap.                                              *)

EntitySpans(T) == {s \in SpansOf(T) : s.start < s.end}
Apart(kept) == \A i, j \in 1..Len(kept) : i < j => kept[i].end <= kept[j].start

LEMMA EntityIsTyped ==
  ASSUME NEW T, NEW s \in EntitySpans(T)
  PROVE  s.start \in Nat /\ s.end \in Nat /\ s.start < s.end
BY DEF EntitySpans, SpansOf

LEMMA EntityOf ==
  ASSUME NEW T, NEW kept \in Seq(EntitySpans(T)), NEW i \in 1..Len(kept)
  PROVE  kept[i] \in EntitySpans(T) /\ kept[i].start \in Nat /\ kept[i].end \in Nat /\ kept[i].start < kept[i].end
BY EntityIsTyped, ElementOfSeq

LEMMA StartsInOrder ==
  ASSUME NEW T, NEW kept \in Seq(EntitySpans(T)), Apart(kept), NEW i \in 1..Len(kept), NEW j \in 1..Len(kept), i < j
  PROVE  kept[i].end <= kept[j].start /\ kept[i].start < kept[j].start /\ kept[i].end < kept[j].end
<1>1. kept[i].end <= kept[j].start
  BY DEF Apart
<1> QED BY <1>1, EntityOf

LEMMA Insertion ==
  ASSUME NEW T, NEW kept \in Seq(EntitySpans(T)), Apart(kept), NEW s \in EntitySpans(T)
  PROVE  LET i == Cardinality({k \in DOMAIN kept : kept[k].start <= s.start})
         IN i \in 0..Len(kept) /\ \A k \in 1..Len(kept) : kept[k].start <= s.start <=> k <= i
<1> DEFINE m == Len(kept)
           K == {k \in 1..m : kept[k].start <= s.start}
<1>1. m \in Nat /\ DOMAIN kept = 1..m
  BY LenProperties
<1>2. s.start \in Nat
  BY EntityIsTyped
<1>3. \A k \in 1..m : kept[k].start \in Nat
  BY EntityOf
<1>4. \A j, k \in 1..m : j < k /\ k \in K => j \in K
  <2> SUFFICES ASSUME NEW j \in 1..m, NEW k \in 1..m, j < k, k \in K PROVE kept[j].start <= s.start
    OBVIOUS
  <2>1. kept[j].start < kept[k].start
    BY StartsInOrder
  <2> QED BY <1>2, <1>3, <2>1
<1>5. CASE K = {}
  <2>1. Cardinality(K) = 0
    BY <1>5, FS_EmptySet
  <2>2. \A k \in 1..m : ~(kept[k].start <= s.start) /\ ~(k <= 0)
    BY <1>5
  <2>3. 0 \in 0..m
    BY <1>1
  <2> QED BY <1>1, <2>1, <2>2, <2>3
<1>6. CASE K # {}
  <2> DEFINE x == Max(K)
  <2>1. x \in K /\ \A y \in K : y <= x
    <3>1. K \in SUBSET Nat /\ m \in Nat /\ \A k \in K : k <= m
      BY <1>1
    <3> HIDE DEF K, m
    <3> QED BY <1>6, <3>1, MaxIsGreatest
  <2> HIDE DEF x
  <2>2. x \in 1..m /\ x \in Nat
    BY <1>1, <2>1
  <2>3. \A k \in 1..m : k \in K <=> k <= x
    <3> SUFFICES ASSUME NEW k \in 1..m PROVE k \in K <=> k <= x
      OBVIOUS
    <3>1. k < x => k \in K
      BY <1>4, <2>1, <2>2
    <3>2. k \in K => k <= x
      BY <2>1
    <3>3. k <= x => k < x \/ k = x
      BY <1>1, <2>2
    <3> QED BY <2>1, <3>1, <3>2, <3>3
  <2>4. K = 1..x
    <3>1. K \subseteq 1..m
      OBVIOUS
    <3>2. 1..x \subseteq 1..m /\ \A k \in 1..m : k <= x <=> k \in 1..x
      BY <1>1, <2>2
    <3> HIDE DEF K
    <3> QED BY <2>3, <3>1, <3>2
  <2>5. Cardinality(K) = x
    <3>1. x - 1 + 1 = x /\ ~(1 > x) /\ 1 \in Int /\ x \in Int
      BY <2>2
    <3>2. Cardinality(1..x) = x
      BY <2>2, <3>1, FS_Interval
    <3> QED BY <2>4, <3>2
  <2>6. x \in 0..m /\ \A k \in 1..m : kept[k].start <= s.start <=> k <= x
    BY <1>1, <2>2, <2>3
  <2> QED BY <1>1, <2>5, <2>6
<1> QED BY <1>5, <1>6

LEMMA Inserted ==
  ASSUME NEW S, NEW kept \in Seq(S), NEW s \in S, NEW i \in 0..Len(kept)
  PROVE  LET new == InsertAt(kept, i + 1, s)
         IN /\ new \in Seq(S) /\ Len(new) = Len(kept) + 1
            /\ \A k \in 1..Len(kept) + 1 :
                 new[k] = IF k <= i THEN kept[k] ELSE IF k = i + 1 THEN s ELSE kept[k - 1]
<1> DEFINE m == Len(kept)
           A == SubSeq(kept, 1, i)
           C == SubSeq(kept, i + 1, m)
<1>1. m \in Nat /\ i \in Nat /\ i <= m /\ (i + 1) - 1 = i
  BY LenProperties
<1>2. InsertAt(kept, i + 1, s) = (A \o <<s>>) \o C
  BY <1>1 DEF InsertAt
<1>3. \A k \in 1..m : kept[k] \in S
  BY ElementOfSeq
<1> HIDE DEF m
<1>4. A \in Seq(S) /\ Len(A) = i /\ \A k \in 1..i : A[k] = kept[k]
  <2>1. \A k \in 1..i : kept[k] \in S
    BY <1>3, <1>1
  <2>2. /\ A \in Seq(S) /\ Len(A) = (IF 1 <= i THEN i - 1 + 1 ELSE 0)
        /\ \A k \in 1..i - 1 + 1 : A[k] = kept[1 + k - 1]
    BY <1>1, <2>1, SubSeqProperties
  <2>3. i - 1 + 1 = i /\ (1 <= i \/ i = 0) /\ \A k \in 1..i : 1 + k - 1 = k
    BY <1>1
  <2> HIDE DEF A
  <2> QED BY <2>2, <2>3
<1>5. C \in Seq(S) /\ Len(C) = m - i /\ \A k \in 1..m - i : C[k] = kept[i + k]
  <2>1. \A k \in i + 1..m : kept[k] \in S
    BY <1>3, <1>1
  <2>2. /\ C \in Seq(S) /\ Len(C) = (IF i + 1 <= m THEN m - (i + 1) + 1 ELSE 0)
        /\ \A k \in 1..m - (i + 1) + 1 : C[k] = kept[(i + 1) + k - 1]
    BY <1>1, <2>1, SubSeqProperties
  <2>3. m - (i + 1) + 1 = m - i /\ (i + 1 <= m \/ m - i = 0) /\ \A k \in 1..m - i : (i + 1) + k - 1 = i + k
    BY <1>1
  <2> HIDE DEF C
  <2> QED BY <2>2, <2>3
<1> HIDE DEF A, C
<1> DEFINE D == A \o <<s>>
<1>6. D \in Seq(S) /\ Len(D) = i + 1 /\ \A k \in 1..i + 1 : D[k] = IF k <= i THEN kept[k] ELSE s
  <2>1. <<s>> \in Seq(S) /\ Len(<<s>>) = 1 /\ <<s>>[1] = s
    OBVIOUS
  <2>2. /\ D \in Seq(S) /\ Len(D) = i + 1
        /\ \A k \in 1..i + 1 : D[k] = IF k <= i THEN A[k] ELSE <<s>>[k - i]
    BY <1>4, <2>1, ConcatProperties
  <2>3. \A k \in 1..i + 1 : (k <= i => k \in 1..i) /\ (~(k <= i) => k - i = 1)
    BY <1>1
  <2> HIDE DEF D
  <2> QED BY <1>4, <2>1, <2>2, <2>3
<1> HIDE DEF D
<1> DEFINE new == D \o C
<1>7. /\ new \in Seq(S) /\ Len(new) = i + 1 + (m - i)
      /\ \A k \in 1..i + 1 + (m - i) : new[k] = IF k <= i + 1 THEN D[k] ELSE C[k - (i + 1)]
  <2>1. /\ new \in Seq(S) /\ Len(new) = Len(D) + Len(C)
        /\ \A k \in 1..Len(D) + Len(C) : new[k] = IF k <= Len(D) THEN D[k] ELSE C[k - Len(D)]
    BY <1>5, <1>6, ConcatProperties
  <2> HIDE DEF new
  <2> QED BY <1>5, <1>6, <2>1
<1>8. i + 1 + (m - i) = m + 1
  BY <1>1
<1>9. \A k \in 1..m + 1 : /\ k <= i + 1 => k \in 1..i + 1 /\ (~(k <= i) => k = i + 1)
                          /\ k <= i => k # i + 1
                          /\ ~(k <= i + 1) => ~(k <= i) /\ k # i + 1 /\ k - (i + 1) \in 1..m - i /\ i + (k - (i + 1)) = k - 1
  BY <1>1
<1> HIDE DEF new
<1>10. ASSUME NEW k \in 1..m + 1
      PROVE  new[k] = IF k <= i THEN kept[k] ELSE IF k = i + 1 THEN s ELSE kept[k - 1]
  <2>1. new[k] = IF k <= i + 1 THEN D[k] ELSE C[k - (i + 1)]
    BY <1>7, <1>8
  <2>2. CASE k <= i + 1
    BY <1>6, <1>9, <2>1, <2>2
  <2>3. CASE ~(k <= i + 1)
    BY <1>5, <1>9, <2>1, <2>3
  <2> QED BY <2>2, <2>3
<1>11. new = InsertAt(kept, i + 1, s)
  BY <1>2 DEF new, D
<1> QED BY <1>7, <1>8, <1>10, <1>11 DEF m

ApartSeqs(T) == {kept \in Seq(EntitySpans(T)) : Apart(kept)}
Select(kept, s) == IF \E k \in kept : Overlap(k, s) THEN kept ELSE kept \cup {s}

LEMMA SpanIsAccepted ==
  ASSUME NEW T, NEW kept \in ApartSeqs(T), NEW s \in EntitySpans(T)
  PROVE  Accepted(kept, s) \in ApartSeqs(T) /\ ToSet(Accepted(kept, s)) = Select(ToSet(kept), s)
<1>1. kept \in Seq(EntitySpans(T)) /\ Apart(kept)
  BY DEF ApartSeqs
<1> DEFINE m == Len(kept)
           i == Cardinality({k \in DOMAIN kept : kept[k].start <= s.start})
           left == i > 0 /\ kept[i].end > s.start
           right == i < m /\ kept[i + 1].start < s.end
           new == InsertAt(kept, i + 1, s)
           Meets == \E k \in ToSet(kept) : Overlap(k, s)
<1>2. Accepted(kept, s) = IF left \/ right THEN kept ELSE new
  BY DEF Accepted
<1>3. m \in Nat /\ DOMAIN kept = 1..m
  BY <1>1, LenProperties
<1>4. i \in 0..m /\ \A k \in 1..m : kept[k].start <= s.start <=> k <= i
  BY <1>1, Insertion
<1>5. s.start \in Nat /\ s.end \in Nat /\ s.start < s.end
  BY EntityIsTyped
<1>6. \A k \in 1..m : kept[k].start \in Nat /\ kept[k].end \in Nat /\ kept[k].start < kept[k].end
  BY <1>1, EntityOf
<1>7. Meets <=> \E k \in 1..m : Overlap(kept[k], s)
  BY <1>3 DEF ToSet
<1>8. m = Len(kept)
  OBVIOUS
<1> HIDE DEF i, m
<1>9. i \in Nat /\ i <= m
  BY <1>3, <1>4
<1>10. left => Meets
  <2> SUFFICES ASSUME left PROVE Meets
    OBVIOUS
  <2>1. i \in 1..m
    BY <1>3, <1>9
  <2>2. kept[i].start <= s.start
    BY <1>4, <1>9, <2>1
  <2>3. Overlap(kept[i], s)
    BY <1>5, <1>6, <2>1, <2>2 DEF Overlap
  <2> QED BY <1>7, <2>1, <2>3
<1>11. right => Meets
  <2> SUFFICES ASSUME right PROVE Meets
    OBVIOUS
  <2>1. i + 1 \in 1..m /\ ~(i + 1 <= i)
    BY <1>3, <1>9
  <2>2. ~(kept[i + 1].start <= s.start)
    BY <1>4, <2>1
  <2>3. Overlap(kept[i + 1], s)
    BY <1>5, <1>6, <2>1, <2>2 DEF Overlap
  <2> QED BY <1>7, <2>1, <2>3
<1>12. Meets => left \/ right
  <2> SUFFICES ASSUME NEW k \in 1..m, Overlap(kept[k], s) PROVE left \/ right
    BY <1>7
  <2>1. kept[k].start < s.end /\ s.start < kept[k].end
    BY DEF Overlap
  <2>2. CASE k <= i
    <3>1. i \in 1..m /\ i > 0 /\ (k = i \/ k < i)
      BY <1>3, <1>9, <2>2
    <3>2. kept[k].end <= kept[i].end
      BY <1>8, <1>6, <3>1, <1>1, StartsInOrder
    <3>3. kept[i].end > s.start
      BY <1>5, <1>6, <2>1, <3>1, <3>2
    <3> QED BY <3>1, <3>3
  <2>3. CASE ~(k <= i)
    <3>1. i + 1 \in 1..m /\ i < m /\ (k = i + 1 \/ i + 1 < k)
      BY <1>3, <1>9, <2>3
    <3>2. kept[i + 1].start <= kept[k].start
      BY <1>8, <1>6, <3>1, <1>1, StartsInOrder
    <3>3. kept[i + 1].start < s.end
      BY <1>5, <1>6, <2>1, <3>1, <3>2
    <3> QED BY <3>1, <3>3
  <2> QED BY <2>2, <2>3
<1>13. CASE left \/ right
  <2>1. Accepted(kept, s) = kept /\ Meets
    BY <1>2, <1>10, <1>11, <1>13
  <2>2. Select(ToSet(kept), s) = ToSet(kept)
    BY <2>1 DEF Select
  <2> QED BY <2>1, <2>2
<1>14. CASE ~(left \/ right)
  <2>1. Accepted(kept, s) = new /\ ~Meets
    BY <1>2, <1>12, <1>14
  <2>2. /\ new \in Seq(EntitySpans(T)) /\ Len(new) = m + 1
        /\ \A k \in 1..m + 1 : new[k] = IF k <= i THEN kept[k] ELSE IF k = i + 1 THEN s ELSE kept[k - 1]
    <3> DEFINE Q == EntitySpans(T)
    <3>1. kept \in Seq(Q) /\ s \in Q /\ i \in 0..Len(kept)
      BY <1>1, <1>8, <1>4
    <3> HIDE DEF Q
    <3>2. /\ new \in Seq(Q) /\ Len(new) = Len(kept) + 1
          /\ \A k \in 1..Len(kept) + 1 : new[k] = IF k <= i THEN kept[k] ELSE IF k = i + 1 THEN s ELSE kept[k - 1]
      BY <1>1, <3>1, Inserted
    <3> QED BY <1>8, <3>2 DEF Q
  <2> HIDE DEF new, left, right
  <2>3. ASSUME NEW k \in 1..m
        PROVE  (k <= i => kept[k].end <= s.start) /\ (~(k <= i) => s.end <= kept[k].start)
    <3>1. ~Overlap(kept[k], s)
      BY <1>7, <2>1
    <3>2. ~(kept[k].start < s.end /\ s.start < kept[k].end)
      BY <3>1 DEF Overlap
    <3>3. kept[k].start <= s.start <=> k <= i
      BY <1>4
    <3> QED BY <1>5, <1>6, <3>2, <3>3
  <2>4. Apart(new)
    <3> SUFFICES ASSUME NEW a \in 1..m + 1, NEW b \in 1..m + 1, a < b PROVE new[a].end <= new[b].start
      BY <2>2 DEF Apart
    <3>1. CASE b <= i
      <4>1. a <= i /\ a \in 1..m /\ b \in 1..m
        BY <1>3, <1>9, <3>1
      <4>2. new[a] = kept[a] /\ new[b] = kept[b]
        BY <2>2, <3>1, <4>1
      <4> QED BY <1>1, <1>8, <4>1, <4>2 DEF Apart
    <3>2. CASE b = i + 1
      <4>1. a <= i /\ a \in 1..m /\ ~(b <= i)
        BY <1>3, <1>9, <3>2
      <4>2. new[a] = kept[a] /\ new[b] = s
        BY <2>2, <3>2, <4>1
      <4> QED BY <2>3, <4>1, <4>2
    <3>3. CASE ~(b <= i) /\ b # i + 1
      <4>1. b - 1 \in 1..m /\ ~(b - 1 <= i)
        BY <1>3, <1>9, <3>3
      <4>2. new[b] = kept[b - 1]
        BY <2>2, <3>3
      <4>3. CASE a <= i
        <5>1. a \in 1..m /\ a < b - 1
          BY <1>3, <1>9, <4>1, <4>3
        <5>2. new[a] = kept[a]
          BY <2>2, <4>3
        <5> QED BY <1>1, <1>8, <4>1, <4>2, <5>1, <5>2 DEF Apart
      <4>4. CASE a = i + 1
        <5>1. ~(a <= i)
          BY <1>9, <4>4
        <5>2. new[a] = s
          BY <2>2, <4>4, <5>1
        <5> QED BY <2>3, <4>1, <4>2, <5>2
      <4>5. CASE ~(a <= i) /\ a # i + 1
        <5>1. a - 1 \in 1..m /\ a - 1 < b - 1
          BY <1>3, <1>9, <4>1, <4>5
        <5>2. new[a] = kept[a - 1]
          BY <2>2, <4>5
        <5> QED BY <1>1, <1>8, <4>1, <4>2, <5>1, <5>2 DEF Apart
      <4> QED BY <4>3, <4>4, <4>5
    <3> QED BY <3>1, <3>2, <3>3
  <2>5. ToSet(new) = ToSet(kept) \cup {s}
    <3>1. DOMAIN new = 1..m + 1
      BY <2>2, LenProperties
    <3>2. ASSUME NEW k \in 1..m PROVE \E a \in 1..m + 1 : new[a] = kept[k]
      <4>1. CASE k <= i
        <5>1. k \in 1..m + 1
          BY <1>3
        <5> QED BY <2>2, <4>1, <5>1
      <4>2. CASE ~(k <= i)
        <5>1. k + 1 \in 1..m + 1 /\ ~(k + 1 <= i) /\ k + 1 # i + 1 /\ (k + 1) - 1 = k
          BY <1>3, <1>9, <4>2
        <5> QED BY <2>2, <5>1
      <4> QED BY <4>1, <4>2
    <3>3. \E a \in 1..m + 1 : new[a] = s
      <4>1. i + 1 \in 1..m + 1 /\ ~(i + 1 <= i)
        BY <1>3, <1>9
      <4> QED BY <2>2, <4>1
    <3>4. ASSUME NEW a \in 1..m + 1 PROVE new[a] = s \/ \E k \in 1..m : new[a] = kept[k]
      <4>1. CASE a <= i
        <5>1. a \in 1..m
          BY <1>3, <1>9, <4>1
        <5> QED BY <2>2, <4>1, <5>1
      <4>2. CASE a = i + 1
        <5>1. ~(a <= i)
          BY <1>9, <4>2
        <5> QED BY <2>2, <4>2, <5>1
      <4>3. CASE ~(a <= i) /\ a # i + 1
        <5>1. a - 1 \in 1..m
          BY <1>3, <1>9, <4>3
        <5> QED BY <2>2, <4>3, <5>1
      <4> QED BY <4>1, <4>2, <4>3
    <3>5. ToSet(new) = {new[a] : a \in 1..m + 1} /\ ToSet(kept) = {kept[k] : k \in 1..m}
      BY <1>3, <3>1 DEF ToSet
    <3>6. \A x : x \in ToSet(new) <=> x \in ToSet(kept) \/ x = s
      BY <3>2, <3>3, <3>4, <3>5
    <3> QED BY <3>6
  <2>6. Select(ToSet(kept), s) = ToSet(kept) \cup {s}
    BY <2>1 DEF Select
  <2>7. new \in ApartSeqs(T)
    BY <2>2, <2>4 DEF ApartSeqs
  <2> QED BY <2>1, <2>5, <2>6, <2>7
<1> QED BY <1>13, <1>14

LEMMA HowManyBefore ==
  ASSUME NEW T, NEW kept \in Seq(EntitySpans(T)), Apart(kept), NEW n \in 0..Len(kept)
  PROVE  Cardinality({kept[k] : k \in 1..n}) = n
<1> DEFINE m == Len(kept)
           f == [k \in 1..n |-> kept[k]]
           Y == {kept[k] : k \in 1..n}
<1>1. m \in Nat /\ n \in Nat /\ \A k \in 1..n : k \in 1..m
  BY LenProperties
<1>2. ASSUME NEW j \in 1..n, NEW k \in 1..n, kept[j] = kept[k] PROVE j = k
  <2>1. j \in 1..m /\ k \in 1..m
    BY <1>1
  <2>2. kept[j].start \in Nat /\ kept[k].start \in Nat
    BY <2>1, EntityOf
  <2>3. ~(kept[j].start < kept[k].start) /\ ~(kept[k].start < kept[j].start)
    BY <1>2, <2>2
  <2>4. ~(j < k) /\ ~(k < j)
    BY <2>1, <2>3, StartsInOrder
  <2> QED BY <1>1, <2>4
<1>3. f \in Bijection(1..n, Y)
  <2>1. f \in [1..n -> Y]
    OBVIOUS
  <2>2. \A j, k \in 1..n : f[j] = f[k] => j = k
    BY <1>2
  <2>3. \A y \in Y : \E k \in 1..n : f[k] = y
    OBVIOUS
  <2> HIDE DEF f, Y
  <2> QED BY <2>1, <2>2, <2>3 DEF Bijection, Injection, IsInjective, Surjection
<1>4. IsFiniteSet(1..n) /\ Cardinality(1..n) = n
  BY <1>1, FS_Interval
<1> HIDE DEF f, Y
<1>5. Cardinality(Y) = n
  BY <1>3, <1>4, FS_Bijection DEF ExistsBijection
<1> QED BY <1>5 DEF Y

LEMMA TextOrderIsUnique ==
  ASSUME NEW T, NEW kept \in Seq(EntitySpans(T)), Apart(kept)
  PROVE  InTextOrder(ToSet(kept)) = kept
<1> DEFINE m == Len(kept)
           X == ToSet(kept)
           new == InTextOrder(X)
           Earlier(s) == {t \in X : t.start < s.start}
<1>1. m \in Nat /\ DOMAIN kept = 1..m /\ X = {kept[k] : k \in 1..m}
  BY LenProperties DEF ToSet
<1>2. Cardinality(X) = m
  <2>1. m \in 0..Len(kept)
    BY <1>1
  <2> QED BY <1>1, <2>1, HowManyBefore
<1> HIDE DEF X
<1>3. ASSUME NEW n \in 1..m PROVE Cardinality(Earlier(kept[n])) = n - 1
  <2>1. n - 1 \in 0..m /\ \A k \in 1..m : k < n <=> k \in 1..n - 1
    BY <1>1
  <2>2. \A k \in 1..m : kept[k].start < kept[n].start <=> k < n
    <3> SUFFICES ASSUME NEW k \in 1..m PROVE kept[k].start < kept[n].start <=> k < n
      OBVIOUS
    <3>1. kept[k].start \in Nat /\ kept[n].start \in Nat
      BY EntityOf
    <3>2. k < n => kept[k].start < kept[n].start
      BY StartsInOrder
    <3>3. n < k => kept[n].start < kept[k].start
      BY StartsInOrder
    <3>4. k < n \/ k = n \/ n < k
      BY <1>1
    <3>5. ~(n < n)
      BY <1>1
    <3> QED BY <3>1, <3>2, <3>3, <3>4, <3>5
  <2>3. Earlier(kept[n]) = {kept[k] : k \in 1..n - 1}
    <3>1. \A k \in 1..n - 1 : k \in 1..m
      BY <1>1
    <3> QED BY <1>1, <2>1, <2>2, <3>1
  <2>4. Cardinality({kept[k] : k \in 1..n - 1}) = n - 1
    BY <2>1, HowManyBefore
  <2> QED BY <2>3, <2>4
<1>4. ASSUME NEW n \in 1..m PROVE (CHOOSE s \in X : Cardinality(Earlier(s)) = n - 1) = kept[n]
  <2> HIDE DEF Earlier
  <2>1. kept[n] \in X /\ Cardinality(Earlier(kept[n])) = n - 1
    BY <1>1, <1>3
  <2>2. ASSUME NEW s \in X, Cardinality(Earlier(s)) = n - 1 PROVE s = kept[n]
    <3>1. PICK k \in 1..m : s = kept[k]
      BY <1>1
    <3>2. k - 1 = n - 1
      BY <1>3, <2>2, <3>1
    <3>3. k = n
      BY <1>1, <3>2
    <3> QED BY <3>1, <3>3
  <2> QED BY <2>1, <2>2
<1>5. new = [n \in 1..m |-> CHOOSE s \in X : Cardinality(Earlier(s)) = n - 1]
  BY <1>2 DEF InTextOrder
<1>6. new = [n \in 1..m |-> kept[n]]
  <2> HIDE DEF new, Earlier
  <2> QED BY <1>4, <1>5
<1>7. kept = [n \in 1..m |-> kept[n]]
  BY <1>1
<1> QED BY <1>6, <1>7 DEF X

-----------------------------------------------------------------------------
(* The order in which spans are considered: of all spans, of which the     *)
(* first r are of recognizers, i is stronger than j.                       *)

Extent(s) == s.end - s.start
Stronger(all, r, i, j) ==
  IF (i <= r) # (j <= r) THEN i < j
  ELSE IF Extent(all[i]) # Extent(all[j]) THEN Extent(all[i]) > Extent(all[j])
  ELSE IF all[i].start # all[j].start THEN all[i].start < all[j].start
  ELSE i < j
StrongerThan(all, r) == [i \in 1..Len(all) |-> {j \in 1..Len(all) : Stronger(all, r, j, i)}]

LEMMA ExtentIsPositive ==
  ASSUME NEW T, NEW all \in Seq(EntitySpans(T)), NEW i \in 1..Len(all)
  PROVE  i \in Nat /\ all[i].start \in Nat /\ Extent(all[i]) \in Nat
<1>1. all[i].start \in Nat /\ all[i].end \in Nat /\ all[i].start < all[i].end
  BY EntityOf
<1>2. i \in Nat
  OBVIOUS
<1> QED BY <1>1, <1>2 DEF Extent

LEMMA StrengthIsOrder ==
  ASSUME NEW T, NEW all \in Seq(EntitySpans(T)), NEW r \in Nat
  PROVE  IsOrder(StrongerThan(all, r), Len(all))
<1> DEFINE D == 1..Len(all)
<1>1. \A i \in D : i \in Nat /\ all[i].start \in Nat /\ Extent(all[i]) \in Nat
  BY ExtentIsPositive
<1>2. D = 1..Len(all)
  OBVIOUS
<1> HIDE DEF D
<1>3. \A i \in D : ~Stronger(all, r, i, i)
  BY <1>1 DEF Stronger
<1>4. ASSUME NEW i \in D, NEW j \in D, NEW k \in D, Stronger(all, r, k, j), Stronger(all, r, j, i)
      PROVE  Stronger(all, r, k, i)
  BY <1>1, <1>4, SMTT(20) DEF Stronger
<1>5. \A i, j \in D : i # j => Stronger(all, r, i, j) \/ Stronger(all, r, j, i)
  BY <1>1 DEF Stronger
<1>6. StrongerThan(all, r) = [i \in D |-> {j \in D : Stronger(all, r, j, i)}]
  BY <1>2 DEF StrongerThan
<1>7. IsOrder([i \in D |-> {j \in D : Stronger(all, r, j, i)}], Len(all))
  BY <1>2, <1>3, <1>4, <1>5 DEF IsOrder
<1> QED BY <1>6, <1>7

Turn(all, r, n) == Nth(StrongerThan(all, r), n)

LEMMA TurnsAreTaken ==
  ASSUME NEW T, NEW all \in Seq(EntitySpans(T)), NEW r \in Nat, NEW n \in 1..Len(all)
  PROVE  Turn(all, r, n) \in 1..Len(all) /\ all[Turn(all, r, n)] \in EntitySpans(T)
<1>1. Len(all) \in Nat
  BY LenProperties
<1>2. Nth(StrongerThan(all, r), n) \in 1..Len(all)
  BY <1>1, StrengthIsOrder, NthInTurn
<1>3. Turn(all, r, n) \in 1..Len(all)
  BY <1>2 DEF Turn
<1> QED BY <1>3, ElementOfSeq

IsBoth(all, R, M) == all = R \o M

Selected(kept, all, r) ==
  kept[0] = {} /\ \A n \in 1..Len(all) : kept[n] = Select(kept[n - 1], all[Turn(all, r, n)])

LEMMA StrongestRuns ==
  ASSUME NEW T, NEW R \in Seq(EntitySpans(T)), NEW M \in Seq(EntitySpans(T)), NEW all, IsBoth(all, R, M)
  PROVE  \E kept : Selected(kept, all, Len(R)) /\ Strongest(R, M) = kept[Len(all)]
<1> DEFINE E == EntitySpans(T)
           S == SUBSET E
           N == Len(all)
           r == Len(R)
           ordered == [n \in 1..N |-> all[Turn(all, r, n)]]
           step == [c \in (1..N) \X S |-> Select(c[2], ordered[c[1]])]
           Is(f) == f = [n \in 0..N |->
                          IF n = 0 THEN {}
                          ELSE Select(f[n - 1], all[Turn(all, r, n)])]
<1>1. r \in Nat /\ all \in Seq(E) /\ N \in Nat /\ DOMAIN all = 1..N
  <2> HIDE DEF E
  <2>1. R \in Seq(E) /\ M \in Seq(E)
    BY DEF E
  <2>2. all \in Seq(E)
    BY <2>1, ConcatProperties DEF IsBoth
  <2> QED BY <2>1, <2>2, LenProperties
<1>2. \A n \in 1..N : ordered[n] \in E /\ ordered[n] = all[Turn(all, r, n)]
  <2> HIDE DEF r
  <2> QED BY <1>1, TurnsAreTaken
<1>3. step \in [(1..N) \X S -> S] /\ \A n \in 1..N, v \in S : step[<<n, v>>] = Select(v, ordered[n])
  <2> HIDE DEF ordered, N
  <2>1. \A n \in 1..N, v \in S : Select(v, ordered[n]) \in S
    <3> HIDE DEF E
    <3> QED BY <1>2 DEF Select
  <2> HIDE DEF S
  <2> QED BY <2>1
<1>4. {} \in S
  OBVIOUS
<1> HIDE DEF S, step, N, ordered, r, E
<1>5. PICK f \in [0..N -> S] : Runs(f, {}, step, N)
  BY <1>1, <1>3, <1>4, LoopExists
<1>6. f[0] = {} /\ \A n \in 1..N : n - 1 \in 0..N /\ f[n] = Select(f[n - 1], all[Turn(all, r, n)])
  <2>1. \A n \in 1..N : n - 1 \in 0..N /\ f[n - 1] \in S
    BY <1>1
  <2> QED BY <1>2, <1>3, <1>5, <2>1 DEF Runs
<1>7. 0 \in 0..N /\ (\A n \in 0..N : n = 0 \/ n \in 1..N) /\ \A n \in 1..N : n \in 0..N /\ n # 0
  BY <1>1
<1>8. Is(f)
  <2>1. \A n \in 0..N : f[n] = IF n = 0 THEN {} ELSE Select(f[n - 1], all[Turn(all, r, n)])
    BY <1>6, <1>7
  <2> QED BY <1>5, <2>1
<1>9. Strongest(R, M) = (CHOOSE g : Is(g))[N]
  <2> DEFINE Length(i) == all[i].end - all[i].start
             Beats(i, j) ==
               IF (i <= Len(R)) # (j <= Len(R)) THEN i < j
               ELSE IF Length(i) # Length(j) THEN Length(i) > Length(j)
               ELSE IF all[i].start # all[j].start THEN all[i].start < all[j].start
               ELSE i < j
             stronger == [i \in DOMAIN all |-> {j \in DOMAIN all : Beats(j, i)}]
  <2>1. stronger = StrongerThan(all, r)
    BY <1>1 DEF StrongerThan, Stronger, Extent, N, r
  <2>2. Strongest(R, M) =
          LET Kept[n \in 0..Len(all)] ==
                IF n = 0 THEN {}
                ELSE LET s == all[Nth(stronger, n)]
                     IN IF \E k \in Kept[n - 1] : Overlap(k, s) THEN Kept[n - 1] ELSE Kept[n - 1] \cup {s}
          IN Kept[Len(all)]
    BY DEF Strongest, IsBoth
  <2> HIDE DEF stronger
  <2> QED BY <2>1, <2>2 DEF N, Turn, Select
<1>10. Is(CHOOSE g : Is(g))
  <2> HIDE DEF Is
  <2> QED BY <1>8
<1>11. ASSUME NEW g, Is(g) PROVE g[0] = {} /\ \A n \in 1..N : g[n] = Select(g[n - 1], all[Turn(all, r, n)])
  BY <1>11, <1>7
<1> DEFINE kept == CHOOSE g : Is(g)
<1>12. kept[0] = {} /\ \A n \in 1..N : kept[n] = Select(kept[n - 1], all[Turn(all, r, n)])
  <2> HIDE DEF Is
  <2> QED BY <1>10, <1>11
<1>13. Strongest(R, M) = kept[N]
  BY <1>9
<1> HIDE DEF kept
<1> QED BY <1>12, <1>13 DEF N, r, Selected

RankedAs(spans, p) == [i \in DOMAIN spans |-> [span |-> spans[i], priority |-> p]]
RankedBoth(R, M) == RankedAs(R, 0) \o RankedAs(M, 1)
RankedBefore(a, b) ==
  \/ a.priority < b.priority
  \/ a.priority = b.priority /\ Extent(a.span) > Extent(b.span)
  \/ a.priority = b.priority /\ Extent(a.span) = Extent(b.span) /\ a.span.start < b.span.start

RankedSpansOf(T) == [span : EntitySpans(T), priority : 0..1]
RankedIn(ranked, all, r) ==
  \A i \in 1..Len(all) : ranked[i].span = all[i] /\ ranked[i].priority = IF i <= r THEN 0 ELSE 1

LEMMA RankedSpans ==
  ASSUME NEW T, NEW R \in Seq(EntitySpans(T)), NEW M \in Seq(EntitySpans(T)), NEW all, IsBoth(all, R, M)
  PROVE  /\ all \in Seq(EntitySpans(T)) /\ Len(all) = Len(R) + Len(M)
         /\ RankedBoth(R, M) \in Seq(RankedSpansOf(T)) /\ Len(RankedBoth(R, M)) = Len(all)
         /\ RankedIn(RankedBoth(R, M), all, Len(R))
<1> DEFINE E == EntitySpans(T)
           Q == [span : E, priority : 0..1]
           r == Len(R)
           m == Len(M)
           A == RankedAs(R, 0)
           B == RankedAs(M, 1)
<1> HIDE DEF E
<1>1. R \in Seq(E) /\ M \in Seq(E)
  BY DEF E
<1>2. r \in Nat /\ m \in Nat /\ DOMAIN R = 1..r /\ DOMAIN M = 1..m
  BY <1>1, LenProperties
<1>3. /\ all \in Seq(E) /\ Len(all) = r + m
      /\ \A i \in 1..r + m : all[i] = IF i <= r THEN R[i] ELSE M[i - r]
  BY <1>1, ConcatProperties DEF IsBoth
<1>4. (\A i \in 1..r : R[i] \in E) /\ \A i \in 1..m : M[i] \in E
  BY <1>1, ElementOfSeq
<1> HIDE DEF r, m
<1>5. A \in [1..r -> Q] /\ \A i \in 1..r : A[i] = [span |-> R[i], priority |-> 0]
  BY <1>2, <1>4 DEF RankedAs
<1>6. B \in [1..m -> Q] /\ \A i \in 1..m : B[i] = [span |-> M[i], priority |-> 1]
  BY <1>2, <1>4 DEF RankedAs
<1> HIDE DEF Q, A, B
<1>7. A \in Seq(Q) /\ Len(A) = r /\ B \in Seq(Q) /\ Len(B) = m
  BY <1>2, <1>5, <1>6, FunctionIsSeq
<1>8. /\ A \o B \in Seq(Q) /\ Len(A \o B) = r + m
      /\ \A i \in 1..r + m : (A \o B)[i] = IF i <= r THEN A[i] ELSE B[i - r]
  BY <1>7, ConcatProperties
<1>9. ASSUME NEW i \in 1..r + m
      PROVE  (A \o B)[i].span = all[i] /\ (A \o B)[i].priority = IF i <= r THEN 0 ELSE 1
  <2>1. CASE i <= r
    <3>1. i \in 1..r
      BY <1>2, <2>1
    <3>2. (A \o B)[i] = A[i] /\ A[i] = [span |-> R[i], priority |-> 0] /\ all[i] = R[i]
      BY <1>3, <1>5, <1>8, <2>1, <3>1
    <3> QED BY <2>1, <3>2
  <2>2. CASE ~(i <= r)
    <3>1. i - r \in 1..m
      BY <1>2, <2>2
    <3>2. (A \o B)[i] = B[i - r] /\ B[i - r] = [span |-> M[i - r], priority |-> 1] /\ all[i] = M[i - r]
      BY <1>3, <1>6, <1>8, <2>2, <3>1
    <3> QED BY <2>2, <3>2
  <2> QED BY <2>1, <2>2
<1>10. A \o B = RankedBoth(R, M) /\ Q = RankedSpansOf(T)
  BY DEF A, B, Q, E, RankedBoth, RankedSpansOf
<1>11. Len(all) = Len(R) + Len(M) /\ r = Len(R) /\ all \in Seq(EntitySpans(T)) /\ r + m = Len(all)
  BY <1>3 DEF r, m, E
<1>12. RankedIn(A \o B, all, r)
  BY <1>9, <1>11 DEF RankedIn
<1> QED BY <1>8, <1>10, <1>11, <1>12

LEMMA RankIsStrength ==
  ASSUME NEW T, NEW all \in Seq(EntitySpans(T)), NEW r \in Nat, NEW ranked,
         RankedIn(ranked, all, r),
         NEW i \in 1..Len(all), NEW j \in 1..Len(all)
  PROVE  RankedBefore(ranked[j], ranked[i]) \/ (~RankedBefore(ranked[i], ranked[j]) /\ j < i)
         <=> Stronger(all, r, j, i)
<1>1. PICK p \in Nat : p = Extent(all[i])
  BY ExtentIsPositive
<1>2. PICK q \in Nat : q = Extent(all[j])
  BY ExtentIsPositive
<1>3. PICK u \in Nat : u = all[i].start
  BY ExtentIsPositive
<1>4. PICK v \in Nat : v = all[j].start
  BY ExtentIsPositive
<1>5. /\ ranked[i].span = all[i] /\ ranked[j].span = all[j]
      /\ ranked[i].priority = (IF i <= r THEN 0 ELSE 1) /\ ranked[j].priority = (IF j <= r THEN 0 ELSE 1)
  BY DEF RankedIn
<1>6. PICK x \in 0..1 : x = ranked[i].priority /\ (i <= r <=> x = 0)
  BY <1>5
<1>7. PICK y \in 0..1 : y = ranked[j].priority /\ (j <= r <=> y = 0)
  BY <1>5
<1>8. RankedBefore(ranked[j], ranked[i]) <=> (y < x \/ (y = x /\ q > p) \/ (y = x /\ q = p /\ v < u))
  BY <1>1, <1>2, <1>3, <1>4, <1>6, <1>7, <1>5 DEF RankedBefore
<1>9. RankedBefore(ranked[i], ranked[j]) <=> (x < y \/ (x = y /\ p > q) \/ (x = y /\ p = q /\ u < v))
  BY <1>1, <1>2, <1>3, <1>4, <1>6, <1>7, <1>5 DEF RankedBefore
<1>10. Stronger(all, r, j, i) <=>
         IF (j <= r) # (i <= r) THEN j < i
         ELSE IF q # p THEN q > p ELSE IF v # u THEN v < u ELSE j < i
  BY <1>1, <1>2, <1>3, <1>4 DEF Stronger
<1>11. i \in Nat /\ j \in Nat
  OBVIOUS
<1>12. CASE x = y
  <2>1. (j <= r) = (i <= r)
    BY <1>6, <1>7, <1>12
  <2> QED BY <1>8, <1>9, <1>10, <1>12, <2>1
<1>13. CASE x # y
  <2>1. ~((j <= r) = (i <= r))
    BY <1>6, <1>7, <1>13
  <2>2. j < i <=> y < x
    BY <1>6, <1>7, <1>11, <1>13
  <2>3. ~(y < x) => x < y
    BY <1>13
  <2> QED BY <1>8, <1>9, <1>10, <1>13, <2>1, <2>2, <2>3
<1> QED BY <1>12, <1>13

Merged(after, all, r) ==
  after[0] = <<>> /\ \A n \in 1..Len(all) : after[n] = Accepted(after[n - 1], all[Turn(all, r, n)])

LEMMA MergeSpansRuns ==
  ASSUME NEW T, NEW R \in Seq(EntitySpans(T)), NEW M \in Seq(EntitySpans(T)), NEW all, IsBoth(all, R, M)
  PROVE  \E after : Merged(after, all, Len(R)) /\ MergeSpans(R, M) = after[Len(all)]
<1> DEFINE E == EntitySpans(T)
           S == ApartSeqs(T)
           N == Len(all)
           r == Len(R)
           ranked == RankedBoth(R, M)
           sorted == [n \in 1..N |-> ranked[Turn(all, r, n)]]
           step == [c \in (1..N) \X S |-> Accepted(c[2], sorted[c[1]].span)]
           Is(f) == f = [n \in 0..N |-> IF n = 0 THEN <<>> ELSE Accepted(f[n - 1], sorted[n].span)]
<1>1. r \in Nat /\ all \in Seq(E) /\ N \in Nat /\ DOMAIN all = 1..N
  <2>1. R \in Seq(E) /\ M \in Seq(E)
    OBVIOUS
  <2> HIDE DEF E
  <2>2. all \in Seq(E)
    BY <2>1, ConcatProperties DEF IsBoth
  <2> QED BY <2>1, <2>2, LenProperties
<1>2. ranked \in Seq(RankedSpansOf(T)) /\ Len(ranked) = N /\ RankedIn(ranked, all, r)
  BY RankedSpans
<1>3. DOMAIN ranked = 1..N
  <2> DEFINE Q == RankedSpansOf(T)
  <2>1. ranked \in Seq(Q)
    BY <1>2
  <2> HIDE DEF Q, ranked
  <2> QED BY <1>2, <2>1, LenProperties
<1> HIDE DEF ranked
<1>4. \A n \in 1..N : Turn(all, r, n) \in 1..N /\ all[Turn(all, r, n)] \in E
  BY <1>1, TurnsAreTaken
<1>5. \A n \in 1..N : sorted[n] = ranked[Turn(all, r, n)] /\ sorted[n].span = all[Turn(all, r, n)] /\ sorted[n].span \in E
  <2> SUFFICES ASSUME NEW n \in 1..N
               PROVE  sorted[n] = ranked[Turn(all, r, n)] /\ sorted[n].span = all[Turn(all, r, n)] /\ sorted[n].span \in E
    OBVIOUS
  <2>1. sorted[n] = ranked[Turn(all, r, n)]
    OBVIOUS
  <2> HIDE DEF sorted, E, N, r
  <2>2. Turn(all, r, n) \in 1..N /\ all[Turn(all, r, n)] \in E
    BY <1>4
  <2>3. sorted[n].span = all[Turn(all, r, n)]
    <3>1. PICK t \in 1..N : t = Turn(all, r, n)
      BY <2>2
    <3>2. ranked[t].span = all[t]
      BY <1>2 DEF RankedIn, N
    <3> QED BY <2>1, <3>1, <3>2
  <2> QED BY <2>1, <2>2, <2>3
<1>6. step \in [(1..N) \X S -> S] /\ \A n \in 1..N, v \in S : step[<<n, v>>] = Accepted(v, sorted[n].span)
  <2>1. \A n \in 1..N, v \in S : Accepted(v, sorted[n].span) \in S
    <3> HIDE DEF sorted, N
    <3> QED BY <1>5, SpanIsAccepted DEF S, E
  <2> HIDE DEF S, sorted, N
  <2> QED BY <2>1
<1>7. <<>> \in S
  <2>1. <<>> \in Seq(E) /\ Len(<<>>) = 0 /\ 1..0 = {}
    OBVIOUS
  <2> QED BY <2>1 DEF Apart, ApartSeqs
<1>8. N = Len(all) /\ r = Len(R) /\ sorted = [n \in 1..N |-> ranked[Turn(all, r, n)]]
  OBVIOUS
<1> HIDE DEF S, step, N, sorted, r, E
<1>9. PICK f \in [0..N -> S] : Runs(f, <<>>, step, N)
  BY <1>1, <1>6, <1>7, LoopExists
<1>10. f[0] = <<>> /\ \A n \in 1..N : n - 1 \in 0..N /\ f[n] = Accepted(f[n - 1], sorted[n].span)
  <2>1. \A n \in 1..N : n - 1 \in 0..N /\ f[n - 1] \in S
    BY <1>1
  <2> QED BY <1>6, <1>9, <2>1 DEF Runs
<1>11. 0 \in 0..N /\ (\A n \in 0..N : n = 0 \/ n \in 1..N) /\ \A n \in 1..N : n \in 0..N /\ n # 0
  BY <1>1
<1>12. Is(f)
  <2>1. \A n \in 0..N : f[n] = IF n = 0 THEN <<>> ELSE Accepted(f[n - 1], sorted[n].span)
    BY <1>10, <1>11
  <2> QED BY <1>9, <2>1
<1>13. MergeSpans(R, M) = (CHOOSE g : Is(g))[N]
  <2> DEFINE Ranked(spans, priority) == [i \in DOMAIN spans |-> [span |-> spans[i], priority |-> priority]]
             Length(s) == s.end - s.start
             Earlier(a, b) ==
               \/ a.priority < b.priority
               \/ a.priority = b.priority /\ Length(a.span) > Length(b.span)
               \/ a.priority = b.priority /\ Length(a.span) = Length(b.span) /\ a.span.start < b.span.start
             both == Ranked(R, 0) \o Ranked(M, 1)
             before == [i \in DOMAIN both |->
                         {j \in DOMAIN both : Earlier(both[j], both[i]) \/ (~Earlier(both[i], both[j]) /\ j < i)}]
             o == [n \in DOMAIN both |-> both[Nth(before, n)]]
  <2>1. both = ranked
    BY DEF ranked, RankedBoth, RankedAs
  <2>2. MergeSpans(R, M) =
          LET after[n \in 0..Len(o)] == IF n = 0 THEN <<>> ELSE Accepted(after[n - 1], o[n].span)
          IN after[Len(o)]
    BY DEF MergeSpans, StableBy
  <2>3. before = StrongerThan(all, r)
    <3>1. \A i, j \in 1..N : Earlier(ranked[j], ranked[i]) \/ (~Earlier(ranked[i], ranked[j]) /\ j < i)
                             <=> Stronger(all, r, j, i)
      <4>1. \A i, j \in 1..N : RankedBefore(ranked[j], ranked[i]) \/ (~RankedBefore(ranked[i], ranked[j]) /\ j < i)
                               <=> Stronger(all, r, j, i)
        BY <1>1, <1>2, <1>8, RankIsStrength DEF E
      <4>2. \A a, b : Earlier(a, b) <=> RankedBefore(a, b)
        BY DEF RankedBefore, Extent
      <4> HIDE DEF Earlier
      <4> QED BY <4>1, <4>2
    <3>2. before = [i \in 1..N |->
                     {j \in 1..N : Earlier(ranked[j], ranked[i]) \/ (~Earlier(ranked[i], ranked[j]) /\ j < i)}]
      <4> HIDE DEF both, Earlier
      <4> QED BY <1>3, <2>1
    <3>3. \A i \in 1..N : {j \in 1..N : Earlier(ranked[j], ranked[i]) \/ (~Earlier(ranked[i], ranked[j]) /\ j < i)}
                          = {j \in 1..N : Stronger(all, r, j, i)}
      <4> HIDE DEF Earlier
      <4> QED BY <3>1
    <3> HIDE DEF before, Earlier
    <3> QED BY <1>8, <3>2, <3>3 DEF StrongerThan
  <2>4. o = sorted
    <3>1. o = [n \in 1..N |-> ranked[Nth(StrongerThan(all, r), n)]]
      <4> HIDE DEF both, before
      <4> QED BY <1>3, <2>1, <2>3
    <3> HIDE DEF o
    <3> QED BY <1>8, <3>1 DEF Turn
  <2>5. Len(o) = N
    <3> DEFINE Q == RankedSpansOf(T)
    <3> HIDE DEF Q
    <3>1. \A i \in 1..N : ranked[i] \in Q
      <4>1. ranked \in Seq(Q) /\ Len(ranked) = N
        BY <1>2 DEF Q
      <4> QED BY <4>1, ElementOfSeq
    <3>2. sorted \in [1..N -> Q]
      BY <1>4, <1>5, <1>8, <3>1
    <3>3. Len(sorted) = N
      BY <1>1, <3>2, FunctionIsSeq
    <3> HIDE DEF o
    <3> QED BY <2>4, <3>3
  <2> HIDE DEF o
  <2> QED BY <2>2, <2>4, <2>5
<1>14. Is(CHOOSE g : Is(g))
  <2> HIDE DEF Is
  <2> QED BY <1>12
<1>15. ASSUME NEW g, Is(g) PROVE g[0] = <<>> /\ \A n \in 1..N : g[n] = Accepted(g[n - 1], sorted[n].span)
  BY <1>15, <1>11
<1> DEFINE after == CHOOSE g : Is(g)
<1>16. after[0] = <<>> /\ \A n \in 1..N : after[n] = Accepted(after[n - 1], sorted[n].span)
  <2> HIDE DEF Is
  <2> QED BY <1>14, <1>15
<1>17. MergeSpans(R, M) = after[N]
  BY <1>13
<1> HIDE DEF after
<1>18. \A n \in 1..N : after[n] = Accepted(after[n - 1], all[Turn(all, r, n)])
  BY <1>5, <1>16
<1> QED BY <1>8, <1>16, <1>17, <1>18 DEF Merged

(* mergeSpans, which looks at two neighbours only, keeps of any spans that *)
(* are not empty those that overlap no stronger one kept, in the order of  *)
(* the text.                                                               *)
THEOREM MergedAreStrongest ==
  ASSUME NEW T, NEW R \in Seq(EntitySpans(T)), NEW M \in Seq(EntitySpans(T))
  PROVE  MergeSpans(R, M) = InTextOrder(Strongest(R, M))
<1> DEFINE all == R \o M
           N == Len(all)
           r == Len(R)
           S == ApartSeqs(T)
<1>1. r \in Nat /\ all \in Seq(EntitySpans(T)) /\ N \in Nat
  <2> DEFINE E == EntitySpans(T)
  <2>1. R \in Seq(E) /\ M \in Seq(E)
    OBVIOUS
  <2> HIDE DEF E
  <2>2. all \in Seq(E)
    BY <2>1, ConcatProperties
  <2> HIDE DEF all
  <2>3. r \in Nat /\ N \in Nat
    BY <2>1, <2>2, LenProperties
  <2> QED BY <2>2, <2>3 DEF E
<1>2. IsBoth(all, R, M) /\ N = Len(all) /\ r = Len(R)
  BY DEF IsBoth
<1> HIDE DEF all, N, r
<1>3. PICK kept : Selected(kept, all, r) /\ Strongest(R, M) = kept[N]
  BY <1>2, StrongestRuns
<1>4. PICK after : Merged(after, all, r) /\ MergeSpans(R, M) = after[N]
  BY <1>2, MergeSpansRuns
<1> DEFINE P == {n \in Nat : n <= N => after[n] \in S /\ ToSet(after[n]) = kept[n]}
<1>5. 0 \in P
  <2>1. <<>> \in Seq(EntitySpans(T)) /\ Len(<<>>) = 0 /\ 1..0 = {} /\ ToSet(<<>>) = {}
    BY DEF ToSet
  <2>2. <<>> \in S
    BY <2>1 DEF Apart, ApartSeqs
  <2> QED BY <1>3, <1>4, <2>1, <2>2 DEF Selected, Merged
<1>6. ASSUME NEW n \in P PROVE n + 1 \in P
  <2> SUFFICES ASSUME n + 1 <= N PROVE after[n + 1] \in S /\ ToSet(after[n + 1]) = kept[n + 1]
    OBVIOUS
  <2>1. n \in Nat /\ n <= N /\ n + 1 \in 1..N /\ (n + 1) - 1 = n
    BY <1>1
  <2> DEFINE s == all[Turn(all, r, n + 1)]
  <2>2. s \in EntitySpans(T)
    BY <1>1, <2>1, TurnsAreTaken DEF N
  <2>3. after[n] \in ApartSeqs(T) /\ ToSet(after[n]) = kept[n]
    BY <2>1
  <2>4. after[n + 1] = Accepted(after[n], s) /\ kept[n + 1] = Select(kept[n], s)
    BY <1>2, <1>3, <1>4, <2>1 DEF Selected, Merged
  <2> HIDE DEF s
  <2>5. /\ Accepted(after[n], s) \in ApartSeqs(T)
        /\ ToSet(Accepted(after[n], s)) = Select(ToSet(after[n]), s)
    BY <2>2, <2>3, SpanIsAccepted
  <2> QED BY <2>3, <2>4, <2>5
<1>7. P = Nat
  <2> HIDE DEF P
  <2> QED BY <1>5, <1>6, ByInduction DEF P
<1>8. after[N] \in Seq(EntitySpans(T)) /\ Apart(after[N]) /\ ToSet(after[N]) = kept[N]
  <2>1. N \in P /\ N <= N
    BY <1>1, <1>7
  <2> QED BY <2>1 DEF ApartSeqs
<1> QED BY <1>3, <1>4, <1>8, TextOrderIsUnique

AreFound(recognized) ==
  /\ recognized \in Seq(ToSet(recognized))
  /\ \A i \in DOMAIN recognized :
       LET r == recognized[i]
       IN r \in [start : Nat, end : Nat, type : {r.type}] /\ r.start < r.end

LEMMA EntitySeq ==
  ASSUME NEW T, NEW n \in Nat, NEW spans, DOMAIN spans = 1..n, spans = [i \in 1..n |-> spans[i]],
         \A i \in 1..n : spans[i] \in EntitySpans(T)
  PROVE  spans \in Seq(EntitySpans(T))
<1> DEFINE E == EntitySpans(T)
<1> HIDE DEF E
<1>1. spans \in [1..n -> E]
  BY DEF E
<1> QED BY <1>1, FunctionIsSeq DEF E

(* Both together: what Detect returns. *)
LEMMA OnePieceIsDetected ==
  ASSUME NEW text, text \in Seq(ToSet(text)), Scannable(text), NEW limit \in Nat,
         NEW recognized, AreFound(recognized), NEW entities
  PROVE  LET whole == WholeText(text, MinOf(Len(text), limit))
         IN Detect(text, limit, recognized, entities) = Partition(InTextOrder(Strongest(recognized, whole)), entities)
<1> DEFINE n == MinOf(Len(text), limit)
           whole == WholeText(text, n)
           L == TypesIn(LabelsOf(text))
           T == L \cup {recognized[i].type : i \in DOMAIN recognized}
<1>1. n \in Nat /\ n <= Len(text)
  <2>1. Len(text) \in Nat
    BY LenProperties
  <2> QED BY <2>1 DEF MinOf
<1> HIDE DEF n
<1>2. /\ Run(text, n) = whole /\ whole \in Seq(SpansOf(L))
      /\ \A x \in 1..Len(whole) : whole[x].start < whole[x].end
  BY <1>1, RunIsWhole
<1>3. Detect(text, limit, recognized, entities) = Partition(MergeSpans(recognized, Run(text, n)), entities)
  BY DEF Detect, n
<1> HIDE DEF whole, L
<1>4. whole \in Seq(EntitySpans(T))
  <2>1. Len(whole) \in Nat /\ DOMAIN whole = 1..Len(whole) /\ whole = [x \in 1..Len(whole) |-> whole[x]]
    BY <1>2, LenProperties
  <2>2. ASSUME NEW x \in 1..Len(whole) PROVE whole[x] \in EntitySpans(T)
    <3>1. whole[x] \in SpansOf(L)
      BY <1>2, ElementOfSeq
    <3>2. whole[x] \in SpansOf(T)
      BY <3>1 DEF SpansOf
    <3> QED BY <1>2, <3>2 DEF EntitySpans
  <2> HIDE DEF T
  <2> QED BY <2>1, <2>2, EntitySeq
<1>5. recognized \in Seq(EntitySpans(T))
  <2>1. /\ Len(recognized) \in Nat /\ DOMAIN recognized = 1..Len(recognized)
        /\ recognized = [i \in 1..Len(recognized) |-> recognized[i]]
    BY LenProperties DEF AreFound
  <2>2. ASSUME NEW i \in 1..Len(recognized) PROVE recognized[i] \in EntitySpans(T)
    <3> DEFINE r == recognized[i]
    <3>1. r \in [start : Nat, end : Nat, type : {r.type}] /\ r.start < r.end
      BY <2>1 DEF AreFound
    <3>2. r.type \in T
      BY <2>1
    <3> HIDE DEF r, T
    <3>3. r \in SpansOf(T)
      BY <3>1, <3>2 DEF SpansOf
    <3> QED BY <3>1, <3>3 DEF EntitySpans, r
  <2> HIDE DEF T
  <2> QED BY <2>1, <2>2, EntitySeq
<1> HIDE DEF T
<1>6. MergeSpans(recognized, whole) = InTextOrder(Strongest(recognized, whole))
  BY <1>4, <1>5, MergedAreStrongest
<1> QED BY <1>3, <1>2, <1>6 DEF whole, n
=============================================================================
