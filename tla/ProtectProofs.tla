---------------------------- MODULE ProtectProofs ----------------------------
(***************************************************************************)
(* Safety of Protect and of the rule cache its clients share, for any      *)
(* number of calls, clients, rules, fingerprints and lifetimes.            *)
(***************************************************************************)
EXTENDS Protect, FiniteSetTheorems, FunctionTheorems, SequenceTheorems, TLAPS

-----------------------------------------------------------------------------
(* The order of the rules.                                                 *)

LEMMA PrioritiesAreDistinct ==
  \A a, b \in DOMAIN Priority : Priority[a] \in Nat /\ (Priority[a] = Priority[b] => a = b)
BY DEF Priority

(* sortRulesByPriority orders the positions strictly and totally. *)
LEMMA BeforeIsTotal ==
  ASSUME NEW R, \A r \in R : r.kind \in DOMAIN Priority, NEW rules \in Seq(R)
  PROVE  /\ \A i \in DOMAIN rules : ~Before(rules, i, i)
         /\ \A i, j, k \in DOMAIN rules :
              Before(rules, i, j) /\ Before(rules, j, k) => Before(rules, i, k)
         /\ \A i, j \in DOMAIN rules : i = j \/ Before(rules, i, j) \/ Before(rules, j, i)
<1> DEFINE p == [i \in DOMAIN rules |-> Priority[rules[i].kind]]
<1>1. \A i \in DOMAIN rules : i \in Nat /\ rules[i] \in R
  BY LenProperties, ElementOfSeq
<1>2. \A i \in DOMAIN rules : p[i] \in Nat
  BY <1>1, PrioritiesAreDistinct
<1>3. \A i, j \in DOMAIN rules : rules[i].kind = rules[j].kind <=> p[i] = p[j]
  BY <1>1, PrioritiesAreDistinct
<1>4. \A i, j \in DOMAIN rules : Before(rules, i, j) <=> p[i] < p[j] \/ (p[i] = p[j] /\ i < j)
  BY <1>3 DEF Before
<1> HIDE DEF p
<1> QED BY <1>1, <1>2, <1>4

(* The number of positions before one is a bijection, so the sort leaves   *)
(* no position out: every rule of the result is one that was given.        *)
LEMMA SortingPermutes ==
  ASSUME NEW R, \A r \in R : r.kind \in DOMAIN Priority, NEW rules \in Seq(R)
  PROVE  /\ DOMAIN Sorted(rules) = DOMAIN rules
         /\ \A n \in DOMAIN rules : \E i \in DOMAIN rules : Sorted(rules)[n] = rules[i]
<1> DEFINE D == DOMAIN rules
           m == Len(rules)
           Earlier(i) == {j \in D : Before(rules, j, i)}
           rank == [i \in D |-> Cardinality(Earlier(i))]
<1>1. D = 1..m /\ m \in Nat
  BY LenProperties
<1>2. /\ IsFiniteSet(D) /\ Cardinality(D) = m
      /\ IsFiniteSet(0..(m - 1)) /\ Cardinality(0..(m - 1)) = m
  <2> HIDE DEF m, D
  <2>1. ASSUME NEW a \in Int, NEW b \in Int, b - a + 1 = m
        PROVE  IsFiniteSet(a..b) /\ Cardinality(a..b) = m
    <3>1. IsFiniteSet(a..b) /\ Cardinality(a..b) = IF a > b THEN 0 ELSE b - a + 1
      BY FS_Interval
    <3> QED BY <1>1, <2>1, <3>1
  <2>2. m \in Int /\ m - 1 \in Int /\ m - 1 + 1 = m /\ (m - 1) - 0 + 1 = m
    BY <1>1
  <2> QED BY <1>1, <2>1, <2>2
<1>3. ASSUME NEW i \in D
      PROVE  /\ IsFiniteSet(Earlier(i)) /\ Cardinality(Earlier(i)) \in Nat
             /\ Cardinality(Earlier(i)) < m
  <2>1. Earlier(i) \in SUBSET D /\ Earlier(i) # D
    BY BeforeIsTotal
  <2>2. IsFiniteSet(Earlier(i)) /\ Cardinality(Earlier(i)) <= m /\ Cardinality(Earlier(i)) # m
    BY <1>2, <2>1, FS_Subset
  <2> QED BY <1>1, <2>2, FS_CardinalityType
<1>4. ASSUME NEW i \in D, NEW j \in D, Before(rules, i, j) PROVE rank[i] # rank[j]
  <2>1. Earlier(i) \in SUBSET Earlier(j)
    BY <1>4, BeforeIsTotal
  <2>2. i \in Earlier(j) /\ i \notin Earlier(i)
    BY <1>4, BeforeIsTotal
  <2> HIDE DEF Earlier
  <2>3. Cardinality(Earlier(j)) # Cardinality(Earlier(i))
    BY <1>3, <2>1, <2>2, FS_Subset
  <2> QED BY <2>3
<1>5. rank \in [D -> 0..(m - 1)]
  <2>1. \A i \in D : rank[i] \in Nat /\ rank[i] < m
    BY <1>3
  <2> HIDE DEF m, Earlier
  <2>2. \A i \in D : Cardinality(Earlier(i)) \in 0..(m - 1)
    BY <1>1, <2>1
  <2> QED BY <2>2
<1>6. rank \in Injection(D, 0..(m - 1))
  <2>1. \A i, j \in D : rank[i] = rank[j] => i = j
    BY <1>4, BeforeIsTotal
  <2> HIDE DEF rank, D
  <2> QED BY <1>5, <2>1, Fun_IsInj
<1>7. rank \in Surjection(D, 0..(m - 1))
  <2> HIDE DEF rank, D, m
  <2> QED BY <1>2, <1>6, FS_Injection
<1>8. ASSUME NEW n \in D PROVE \E i \in D : Cardinality(Earlier(i)) = n - 1
  <2>1. n - 1 \in 0..(m - 1)
    BY <1>1
  <2>2. PICK i \in D : rank[i] = n - 1
    BY <1>7, <2>1 DEF Surjection
  <2> QED BY <2>2
<1> QED BY <1>8 DEF Sorted

(* What stands at a position of a client's rules is a rule it was given,   *)
(* and its ID is the rule's.                                               *)
LEMMA PositionsAreRules ==
  ASSUME NEW k \in Clients
  PROVE  /\ Len(RulesOf[k]) \in Nat
         /\ \A n \in 1..Len(RulesOf[k]) :
              /\ RulesOf[k][n] \in Rules
              /\ RuleIds[k][n] = RulesOf[k][n] /\ RuleIds[k][n] \in Ids
              /\ \E i \in DOMAIN Declared[k] : RulesOf[k][n] = Declared[k][i]
<1> DEFINE rules == Declared[k]
<1>1. rules \in Seq(Rules) /\ \A r \in Rules : r.kind \in DOMAIN Priority
  BY ProtectAssumption
<1>2. DOMAIN rules = 1..Len(rules) /\ Len(rules) \in Nat
      /\ \A i \in DOMAIN rules : rules[i] \in Rules
  BY <1>1, LenProperties, ElementOfSeq
<1>3. /\ DOMAIN Sorted(rules) = DOMAIN rules
      /\ \A j \in DOMAIN rules : \E i \in DOMAIN rules : Sorted(rules)[j] = rules[i]
  BY <1>1, SortingPermutes
<1>4. RulesOf[k] = Sorted(rules)
  BY DEF RulesOf
<1>5. Len(RulesOf[k]) = Len(rules)
  <2>1. Sorted(rules) \in [1..Len(rules) -> Rules]
    BY <1>2, <1>3 DEF Sorted
  <2>2. Sorted(rules) \in Seq(Rules)
    BY <1>2, <2>1, SeqDef
  <2> QED BY <1>2, <1>3, <1>4, <2>2, LenProperties
<1>6. ASSUME NEW n \in DOMAIN rules
      PROVE  /\ RulesOf[k][n] \in Rules /\ RuleIds[k][n] = RulesOf[k][n]
             /\ \E i \in DOMAIN rules : RulesOf[k][n] = rules[i]
  <2>1. RuleIds[k][n] = RulesOf[k][n]
    BY <1>3, <1>4 DEF RuleIds, Id
  <2> QED BY <1>2, <1>3, <1>4, <2>1
<1> QED BY <1>2, <1>5, <1>6 DEF Ids, Id

-----------------------------------------------------------------------------
(* The invariant.                                                          *)

Requests ==
  [client : Clients, address : Addresses \cup {NoPrint}, user : Users \cup {NoPrint},
   deferred : BOOLEAN, details : Details \cup {Fresh}, opts : SUBSET Options]

DenialRecords ==
  [of : Rules, print : Prints \cup {NoPrint}, deferred : BOOLEAN,
   state : {"RUN", "DRY_RUN", "CACHED"}, ttl : Ttls \cup {LocalLife, 0}, stored : 0..MaxClock]

PCs == {"idle", "rules", "lookup", "evaluate", "store", "asking", "storing", "returned"}

TypeInv ==
  /\ clock \in 0..MaxClock
  /\ extra \in [Details -> SUBSET Options]
  /\ closed \in BOOLEAN /\ closers \subseteq Closing
  /\ pc \in [Calls -> PCs]
  /\ req \in [Calls -> Requests \cup {NoRequest}]
  /\ at \in [Calls -> Nat]
  /\ now \in [Calls -> 0..MaxClock]
  /\ found \in [Calls -> Denials]
  /\ sent \in [Calls -> SUBSET Options]
  /\ refused \in [Calls -> BOOLEAN]
  /\ decision \in [Calls -> [kind : {"none", "local", "service", "error"}, denial : Denials, ttl : Nat]]

(* What a slot may hold, and until when. *)
Backs(id, print, d) ==
  /\ d \in DenialRecords
  /\ d.of = id /\ d.of.mode = "live" /\ d.state = "RUN" /\ d.print = print /\ d.deferred = FALSE
  /\ d.ttl > 0 /\ d.stored <= clock

CacheInv ==
  /\ cache \in [Ids \X Prints -> Denials]
  /\ \A id \in Ids, print \in Prints :
       cache[<<id, print>>] # NoDenial => Backs(id, print, cache[<<id, print>>])

AtRule(c) == req[c] \in Requests /\ at[c] >= 1 /\ ~PastLast(c)

(* What a rule may say at its position. *)
Speaks(c, d) ==
  /\ d \in DenialRecords
  /\ d.of = RuleAt(c) /\ d.print = PrintAt(c) /\ d.deferred = DeferredAt(c) /\ d.stored = 0
  /\ d.state = "RUN" => RuleAt(c).mode = "live"

(* What a call may tell its caller. *)
Due(c) ==
  LET d == decision[c].denial IN
  /\ d \in DenialRecords
  /\ \E n \in DOMAIN Declared[req[c].client] : d.of = Declared[req[c].client][n]
  /\ d.of.mode = "live"
  /\ d.print = IF d.of.own THEN req[c].user ELSE req[c].address
  /\ ~(d.of.kind = "bot" /\ req[c].deferred)
  /\ d.of.kind \in Lasting \cup (DOMAIN Priority \ LocalKinds) => decision[c].ttl \in 1..d.ttl

CallInv(c) ==
  /\ pc[c] # "idle" => req[c] \in Requests
  /\ pc[c] \in {"rules", "storing"} => at[c] >= 1
  /\ pc[c] \in {"lookup", "evaluate", "store"} => AtRule(c) /\ ~DeferredAt(c)
  /\ now[c] <= clock
  /\ pc[c] = "store" =>
       /\ Speaks(c, found[c])
       /\ RuleAt(c).kind \in LocalKinds
       /\ RuleAt(c).kind \in Lasting => found[c].ttl = LocalLife
  /\ pc[c] = "returned" <=> decision[c].kind # "none"
  /\ decision[c].kind = "local" => Due(c)

ProtectInv == TypeInv /\ CacheInv /\ \A c \in Calls : CallInv(c)

-----------------------------------------------------------------------------
LEMMA Records ==
  /\ Denials = DenialRecords \cup {NoDenial}
  /\ \A d \in DenialRecords : d # NoDenial
  /\ \A r \in Requests : r # NoRequest
<1>1. Denials = DenialRecords \cup {NoDenial}
  BY DEF Denials, DenialRecords
<1>2. ASSUME NEW d \in DenialRecords PROVE d # NoDenial
  <2>1. "ttl" \in DOMAIN d /\ "ttl" \notin DOMAIN NoDenial
    BY DEF DenialRecords, NoDenial
  <2> QED BY <2>1
<1>3. ASSUME NEW r \in Requests PROVE r # NoRequest
  <2>1. "opts" \in DOMAIN r /\ "opts" \notin DOMAIN NoRequest
    BY DEF Requests, NoRequest
  <2> QED BY <2>1
<1> QED BY <1>1, <1>2, <1>3

LEMMA LifetimesAreNatural == \A d \in DenialRecords : d.ttl \in Nat /\ d.stored \in Nat
<1>1. ASSUME NEW t \in Ttls \cup {LocalLife, 0} PROVE t \in Nat
  BY <1>1, ProtectAssumption
<1>2. ASSUME NEW s \in 0..MaxClock PROVE s \in Nat
  BY <1>2, ProtectAssumption
<1>3. Ttls \cup {LocalLife, 0} \subseteq Nat /\ 0..MaxClock \subseteq Nat
  BY <1>1, <1>2
<1> QED BY <1>3, Zenon DEF DenialRecords

LEMMA InitProtect == Init => ProtectInv
<1> SUFFICES ASSUME Init PROVE ProtectInv
  OBVIOUS
<1>1. MaxClock \in Nat /\ 0 \in 0..MaxClock
  BY ProtectAssumption
<1>2. TypeInv
  BY <1>1, Records DEF Init, TypeInv, PCs, NoDecision
<1>3. CacheInv
  BY Records DEF Init, CacheInv
<1>4. ASSUME NEW c \in Calls PROVE CallInv(c)
  BY <1>1 DEF Init, CallInv, NoDecision
<1> QED BY <1>2, <1>3, <1>4 DEF ProtectInv

(* A step of c leaves the other calls as they were. *)
Alone(c) ==
  /\ clock' = clock
  /\ \A d \in Calls \ {c} :
       /\ pc'[d] = pc[d] /\ req'[d] = req[d] /\ at'[d] = at[d] /\ now'[d] = now[d]
       /\ found'[d] = found[d] /\ decision'[d] = decision[d]

LEMMA StepOfOne ==
  ASSUME ProtectInv, NEW c \in Calls, Alone(c), TypeInv', CacheInv', CallInv(c)'
  PROVE  ProtectInv'
<1>1. ASSUME NEW d \in Calls \ {c} PROVE CallInv(d)'
  <2>1. CallInv(d)
    BY DEF ProtectInv
  <2> QED BY <2>1 DEF Alone, CallInv, AtRule, PastLast, DeferredAt, RuleAt, PrintAt, Speaks, Due
<1> QED BY <1>1 DEF ProtectInv

-----------------------------------------------------------------------------
(* The cache.                                                              *)

LEMMA WhereItIs ==
  ASSUME ProtectInv, NEW c \in Calls, AtRule(c)
  PROVE  /\ RuleAt(c) \in Rules /\ IdAt(c) = RuleAt(c) /\ IdAt(c) \in Ids
         /\ \E i \in DOMAIN Declared[req[c].client] : RuleAt(c) = Declared[req[c].client][i]
         /\ PrintAt(c) \in Prints \cup {NoPrint}
         /\ DeferredAt(c) \in BOOLEAN
<1>1. req[c] \in Requests /\ at[c] \in Nat /\ 1 <= at[c]
  BY DEF AtRule, ProtectInv, TypeInv
<1>2. req[c].client \in Clients
  BY <1>1 DEF Requests
<1>3. at[c] \in 1..Len(RulesOf[req[c].client])
  BY <1>1, <1>2, PositionsAreRules DEF AtRule, PastLast
<1>4. /\ RuleAt(c) \in Rules /\ IdAt(c) = RuleAt(c) /\ IdAt(c) \in Ids
      /\ \E i \in DOMAIN Declared[req[c].client] : RuleAt(c) = Declared[req[c].client][i]
  BY <1>2, <1>3, PositionsAreRules DEF RuleAt, IdAt
<1>5. PrintAt(c) \in Prints \cup {NoPrint} /\ DeferredAt(c) \in BOOLEAN
  BY <1>1 DEF PrintAt, Requests, Prints, DeferredAt
<1> QED BY <1>4, <1>5

(* Storing what a rule says of its own fingerprint keeps the cache backed, *)
(* and what it replaces it replaces with something stored now.             *)
LEMMA SetKeeps ==
  ASSUME ProtectInv, NEW c \in Calls, AtRule(c), ~DeferredAt(c),
         NEW d, d = NoDenial \/ Speaks(c, d), Set(IdAt(c), PrintAt(c), d), clock' = clock
  PROVE  /\ CacheInv'
         /\ \A slot \in Ids \X Prints :
              cache'[slot] # cache[slot] => cache'[slot] # NoDenial /\ cache'[slot].stored = clock
<1>1. cache \in [Ids \X Prints -> Denials] /\ clock \in 0..MaxClock /\ MaxClock \in Nat
  BY ProtectAssumption DEF ProtectInv, TypeInv, CacheInv
<1>2. CASE cache' = cache
  BY <1>2 DEF ProtectInv, CacheInv, Backs
<1>3. CASE Kept(d) /\ PrintAt(c) # NoPrint
  <2> DEFINE e == [d EXCEPT !.stored = clock]
             slot == <<IdAt(c), PrintAt(c)>>
  <2>1. Speaks(c, d) /\ d.state = "RUN" /\ d.ttl > 0
    BY <1>3 DEF Kept
  <2>2. slot \in Ids \X Prints /\ IdAt(c) = RuleAt(c) /\ DeferredAt(c) = FALSE
    BY <1>3, WhereItIs
  <2>3. e \in DenialRecords /\ e.stored = clock
    BY <1>1, <2>1 DEF Speaks, DenialRecords
  <2>4. Backs(IdAt(c), PrintAt(c), e)
    BY <1>1, <2>1, <2>2, <2>3 DEF Speaks, Backs, DenialRecords
  <2>5. cache' = [cache EXCEPT ![slot] = e]
    BY <1>3 DEF Set
  <2> HIDE DEF e, slot
  <2>6. cache' \in [Ids \X Prints -> Denials]
        /\ \A x \in Ids \X Prints : cache'[x] = IF x = slot THEN e ELSE cache[x]
    BY <1>1, <2>3, <2>5, Records
  <2>7. ASSUME NEW id \in Ids, NEW print \in Prints, cache'[<<id, print>>] # NoDenial
        PROVE  Backs(id, print, cache[<<id, print>>])'
    <3>1. CASE <<id, print>> = slot
      <4>1. id = IdAt(c) /\ print = PrintAt(c)
        BY <3>1 DEF slot
      <4> QED BY <2>4, <2>6, <3>1, <4>1 DEF Backs
    <3>2. CASE <<id, print>> # slot
      <4>1. cache'[<<id, print>>] = cache[<<id, print>>]
        BY <2>6, <3>2
      <4> QED BY <2>7, <4>1 DEF ProtectInv, CacheInv, Backs
    <3> QED BY <3>1, <3>2
  <2>8. CacheInv'
    BY <2>6, <2>7 DEF CacheInv
  <2> QED BY <2>3, <2>6, <2>8, Records
<1> QED BY <1>2, <1>3 DEF Set

-----------------------------------------------------------------------------
(* The actions.                                                            *)

LEMMA BeginKeeps == ASSUME ProtectInv, NEW c \in Calls, Begin(c) PROVE ProtectInv'
<1>1. TypeInv /\ CacheInv /\ CallInv(c)
  BY DEF ProtectInv
<1>2. PICK k \in Clients, a \in Addresses, u \in Users, signed \in BOOLEAN, d \in Details \cup {Fresh},
           opts \in SUBSET Options :
        /\ req' = [req EXCEPT ![c] =
             [client |-> k, details |-> d, opts |-> opts,
              address |-> IF closed THEN NoPrint ELSE a, user |-> IF closed THEN NoPrint ELSE u,
              deferred |-> signed /\ HasSignedBotRule(k)]]
        /\ extra' = IF d = Fresh THEN extra ELSE [extra EXCEPT ![d] = @ \cup opts]
  BY DEF Begin
<1> DEFINE r == [client |-> k, details |-> d, opts |-> opts,
                 address |-> IF closed THEN NoPrint ELSE a, user |-> IF closed THEN NoPrint ELSE u,
                 deferred |-> signed /\ HasSignedBotRule(k)]
<1>3. r \in Requests
  BY <1>1 DEF Requests, TypeInv, HasSignedBotRule
<1> HIDE DEF r
<1>4. req' \in [Calls -> Requests \cup {NoRequest}] /\ req'[c] = r
      /\ \A x \in Calls \ {c} : req'[x] = req[x]
  BY <1>1, <1>2, <1>3 DEF TypeInv, r
<1>5. extra' \in [Details -> SUBSET Options]
  BY <1>1, <1>2 DEF TypeInv
<1>6. TypeInv'
  BY <1>1, <1>4, <1>5 DEF Begin, TypeInv, PCs
<1>7. CacheInv'
  BY <1>1 DEF Begin, CacheInv, Backs
<1>8. CallInv(c)'
  BY <1>1, <1>3, <1>4 DEF Begin, TypeInv, CallInv
<1>9. Alone(c)
  BY <1>1, <1>4 DEF Begin, TypeInv, Alone
<1> QED BY <1>6, <1>7, <1>8, <1>9, StepOfOne

LEMMA NextRuleKeeps == ASSUME ProtectInv, NEW c \in Calls, NextRule(c) PROVE ProtectInv'
<1>1. TypeInv /\ CacheInv /\ CallInv(c)
  BY DEF ProtectInv
<1>2. TypeInv'
  <2>1. pc' \in [Calls -> PCs]
    BY <1>1 DEF NextRule, TypeInv, PCs
  <2>2. at' \in [Calls -> Nat] /\ now' \in [Calls -> 0..MaxClock]
    BY <1>1 DEF NextRule, TypeInv
  <2> QED BY <1>1, <2>1, <2>2 DEF NextRule, TypeInv
<1>3. CacheInv'
  BY <1>1 DEF NextRule, CacheInv, Backs
<1>4. clock \in Nat /\ at[c] \in Nat
  BY <1>1, ProtectAssumption DEF TypeInv
<1>5. CallInv(c)'
  BY <1>1, <1>4 DEF NextRule, TypeInv, CallInv, AtRule, PastLast, DeferredAt, RuleAt
<1>6. Alone(c)
  BY <1>1 DEF NextRule, TypeInv, Alone
<1> QED BY <1>2, <1>3, <1>5, <1>6, StepOfOne

LEMMA MissKeeps == ASSUME ProtectInv, NEW c \in Calls, Miss(c) PROVE ProtectInv'
<1>1. TypeInv /\ CacheInv /\ CallInv(c)
  BY DEF ProtectInv
<1>2. MaxClock \in Nat /\ clock \in Nat
  BY <1>1, ProtectAssumption DEF TypeInv
<1>3. TypeInv'
  BY <1>1, <1>2 DEF Miss, TypeInv, PCs
<1>4. CacheInv'
  <2>1. cache' = cache \/ cache' = [cache EXCEPT ![Slot(c)] = NoDenial]
    BY DEF Miss
  <2> QED BY <1>1, <2>1, Records DEF Miss, CacheInv, Backs
<1>5. CallInv(c)'
  BY <1>1, <1>2 DEF Miss, TypeInv, CallInv, AtRule, PastLast, DeferredAt, RuleAt
<1>6. Alone(c)
  BY <1>1 DEF Miss, TypeInv, Alone
<1> QED BY <1>3, <1>4, <1>5, <1>6, StepOfOne

LEMMA AskKeeps ==
  ASSUME ProtectInv, NEW c \in Calls, Ask(c) \/ Decided(c) PROVE ProtectInv'
<1>1. TypeInv /\ CacheInv /\ CallInv(c)
  BY DEF ProtectInv
<1>2. TypeInv'
  <2>1. CASE Ask(c)
    <3>1. pc[c] # "idle"
      BY <2>1 DEF Ask
    <3>2. req[c] \in Requests
      BY <1>1, <3>1 DEF CallInv
    <3>3. (IF req[c].details = Fresh THEN req[c].opts ELSE extra[req[c].details]) \in SUBSET Options
      BY <1>1, <3>2 DEF Requests, TypeInv
    <3> QED BY <1>1, <2>1, <3>3 DEF Ask, TypeInv, PCs
  <2>2. CASE Decided(c)
    BY <1>1, <2>2 DEF Decided, TypeInv, PCs
  <2> QED BY <2>1, <2>2
<1>3. CacheInv'
  BY <1>1 DEF Ask, Decided, CacheInv, Backs
<1>4. CallInv(c)'
  BY <1>1 DEF Ask, Decided, TypeInv, CallInv
<1>5. Alone(c)
  BY <1>1 DEF Ask, Decided, TypeInv, Alone
<1> QED BY <1>2, <1>3, <1>4, <1>5, StepOfOne

(* Whatever is returned, if it is a local denial it must be due. *)
LEMMA ReturnKeeps ==
  ASSUME ProtectInv, NEW c \in Calls, NEW kind \in {"local", "service", "error"},
         NEW d \in Denials, NEW ttl \in Nat, Return(c, kind, d, ttl),
         req[c] \in Requests, CacheInv', UNCHANGED <<clock, extra, closed, closers, req, sent, refused>>,
         now' \in [Calls -> 0..MaxClock], now'[c] <= clock,
         \A x \in Calls \ {c} : now'[x] = now[x] /\ found'[x] = found[x],
         found' \in [Calls -> Denials],
         kind = "local" =>
           /\ d \in DenialRecords
           /\ \E n \in DOMAIN Declared[req[c].client] : d.of = Declared[req[c].client][n]
           /\ d.of.mode = "live"
           /\ d.print = IF d.of.own THEN req[c].user ELSE req[c].address
           /\ ~(d.of.kind = "bot" /\ req[c].deferred)
           /\ d.of.kind \in Lasting \cup (DOMAIN Priority \ LocalKinds) => ttl \in 1..d.ttl
  PROVE  ProtectInv'
<1>1. TypeInv /\ CallInv(c)
  BY DEF ProtectInv
<1> DEFINE r == [kind |-> kind, denial |-> d, ttl |-> ttl]
<1>2. r \in [kind : {"none", "local", "service", "error"}, denial : Denials, ttl : Nat]
  OBVIOUS
<1>3. decision' = [decision EXCEPT ![c] = r]
  BY DEF Return
<1>4. r.kind = kind /\ r.denial = d /\ r.ttl = ttl
  OBVIOUS
<1> HIDE DEF r
<1>5. TypeInv'
  <2>1. decision' \in [Calls -> [kind : {"none", "local", "service", "error"}, denial : Denials, ttl : Nat]]
    BY <1>1, <1>2, <1>3 DEF TypeInv
  <2>2. pc' \in [Calls -> PCs] /\ at' \in [Calls -> Nat]
    BY <1>1 DEF TypeInv, Return, PCs
  <2> QED BY <1>1, <2>1, <2>2 DEF TypeInv
<1>6. pc'[c] = "returned" /\ decision'[c] = r /\ req'[c] = req[c]
  BY <1>1, <1>3 DEF TypeInv, Return
<1>7. CallInv(c)'
  <2>1. (decision[c].kind = "local" => Due(c))'
    BY <1>4, <1>6 DEF Due
  <2> QED BY <1>4, <1>6, <2>1 DEF CallInv
<1>8. Alone(c)
  BY <1>1, <1>3 DEF TypeInv, Return, Alone
<1> QED BY <1>5, <1>7, <1>8, StepOfOne

(* A call that fails or has the service's answer returns no local denial. *)
LEMMA EndsKeep ==
  ASSUME ProtectInv, NEW c \in Calls, DecideFails(c) \/ ReturnDecided(c) PROVE ProtectInv'
<1>1. TypeInv /\ CacheInv /\ CallInv(c) /\ req[c] \in Requests
  BY DEF ProtectInv, CallInv, DecideFails, ReturnDecided
<1>2. CacheInv' /\ UNCHANGED <<clock, extra, closed, closers, req, sent, refused, now, found>>
  BY <1>1 DEF DecideFails, ReturnDecided, CacheInv, Backs
<1>3. NoDenial \in Denials /\ 0 \in Nat /\ now[c] <= clock
  BY <1>1, Records DEF CallInv
<1>4. CASE DecideFails(c)
  BY <1>1, <1>2, <1>3, <1>4, ReturnKeeps DEF DecideFails, TypeInv
<1>5. CASE ReturnDecided(c)
  BY <1>1, <1>2, <1>3, <1>5, ReturnKeeps DEF ReturnDecided, TypeInv
<1> QED BY <1>4, <1>5

LEMMA HitKeeps == ASSUME ProtectInv, NEW c \in Calls, Hit(c) PROVE ProtectInv'
<1> DEFINE d == cache[Slot(c)]
<1>1. TypeInv /\ CacheInv /\ CallInv(c) /\ AtRule(c) /\ ~DeferredAt(c) /\ req[c] \in Requests
  BY DEF ProtectInv, CallInv, Hit
<1>2. PrintAt(c) # NoPrint /\ Cached(c) = d /\ d # NoDenial /\ ~Expired(d, now[c])
  BY DEF Hit, Cached
<1>3. IdAt(c) \in Ids /\ PrintAt(c) \in Prints /\ IdAt(c) = RuleAt(c)
      /\ \E n \in DOMAIN Declared[req[c].client] : RuleAt(c) = Declared[req[c].client][n]
  BY <1>1, <1>2, WhereItIs
<1>4. Backs(IdAt(c), PrintAt(c), d)
  BY <1>1, <1>2, <1>3 DEF CacheInv, Slot
<1> HIDE DEF d
<1>5. d \in DenialRecords /\ d \in Denials /\ d.ttl \in Nat /\ d.stored \in Nat /\ clock \in Nat
      /\ d.ttl > 0 /\ d.stored <= clock /\ MaxClock \in Nat
  <2>1. d \in DenialRecords /\ d.ttl > 0 /\ d.stored <= clock
    BY <1>4 DEF Backs
  <2>2. MaxClock \in Nat /\ Ttls \subseteq Nat /\ LocalLife \in Nat
    BY ProtectAssumption
  <2>3. d.ttl \in Nat /\ d.stored \in Nat
    BY <2>1, LifetimesAreNatural
  <2> QED BY <1>1, <2>1, <2>2, <2>3, Records DEF TypeInv
<1>6. Remaining(d) \in Nat /\ Remaining(d) \in 1..d.ttl
  BY <1>5 DEF Remaining, Expires
<1>7. CacheInv' /\ UNCHANGED <<clock, extra, closed, closers, req, sent, refused, found>>
      /\ now' = [now EXCEPT ![c] = 0]
  BY <1>1 DEF Hit, CacheInv, Backs
<1>8. /\ d.of.mode = "live"
      /\ d.print = IF d.of.own THEN req[c].user ELSE req[c].address
      /\ ~(d.of.kind = "bot" /\ req[c].deferred)
      /\ \E n \in DOMAIN Declared[req[c].client] : d.of = Declared[req[c].client][n]
  BY <1>1, <1>3, <1>4 DEF Backs, PrintAt, DeferredAt
<1>9. Return(c, "local", d, Remaining(d))
  BY <1>2 DEF Hit
<1>10. now' \in [Calls -> 0..MaxClock] /\ now'[c] <= clock /\ \A x \in Calls \ {c} : now'[x] = now[x]
  BY <1>1, <1>5, <1>7 DEF TypeInv
<1> QED BY <1>1, <1>5, <1>6, <1>7, <1>8, <1>9, <1>10, ReturnKeeps DEF TypeInv

LEMMA EvaluateKeeps == ASSUME ProtectInv, NEW c \in Calls, Evaluate(c) PROVE ProtectInv'
<1>1. TypeInv /\ CacheInv /\ CallInv(c) /\ AtRule(c) /\ ~DeferredAt(c) /\ pc[c] = "evaluate"
  BY DEF ProtectInv, CallInv, Evaluate
<1>2. UNCHANGED <<clock, cache, extra, closed, closers, req, now, sent, decision>>
  BY DEF Evaluate
<1>3. CacheInv'
  BY <1>1, <1>2 DEF CacheInv, Backs
<1>4. CASE /\ pc' = [pc EXCEPT ![c] = "rules"]
           /\ at' = [at EXCEPT ![c] = @ + 1]
           /\ refused' = [refused EXCEPT ![c] = @ \/ (closed /\ RuleAt(c).kind = "bot")]
           /\ UNCHANGED found
  <2>1. TypeInv'
    <3>1. pc' \in [Calls -> PCs] /\ at' \in [Calls -> Nat]
      BY <1>1, <1>4 DEF TypeInv, PCs
    <3>2. refused' \in [Calls -> BOOLEAN]
      BY <1>1, <1>4 DEF TypeInv
    <3> QED BY <1>1, <1>2, <1>4, <3>1, <3>2 DEF TypeInv
  <2>2. pc'[c] = "rules" /\ at'[c] = at[c] + 1 /\ at[c] \in Nat
    BY <1>1, <1>4 DEF TypeInv
  <2>3. CallInv(c)'
    BY <1>1, <1>2, <1>4, <2>2 DEF CallInv, Due
  <2>4. Alone(c)
    BY <1>1, <1>2, <1>4 DEF TypeInv, Alone
  <2> QED BY <1>3, <2>1, <2>3, <2>4, StepOfOne
<1>5. CASE /\ RuleAt(c).kind \in LocalKinds
           /\ pc' = [pc EXCEPT ![c] = "store"]
           /\ found' = [found EXCEPT ![c] =
                Denial(RuleAt(c), PrintAt(c), DeferredAt(c),
                       IF RuleAt(c).mode = "live" THEN "RUN" ELSE "DRY_RUN",
                       IF RuleAt(c).kind \in Lasting THEN LocalLife ELSE 0)]
           /\ UNCHANGED <<at, refused>>
  <2> DEFINE d == Denial(RuleAt(c), PrintAt(c), DeferredAt(c),
                         IF RuleAt(c).mode = "live" THEN "RUN" ELSE "DRY_RUN",
                         IF RuleAt(c).kind \in Lasting THEN LocalLife ELSE 0)
  <2>1. RuleAt(c) \in Rules /\ PrintAt(c) \in Prints \cup {NoPrint} /\ DeferredAt(c) \in BOOLEAN
    BY <1>1, WhereItIs
  <2>2. Speaks(c, d) /\ (RuleAt(c).kind \in Lasting => d.ttl = LocalLife)
    <3>1. 0 \in 0..MaxClock
      BY ProtectAssumption
    <3> QED BY <2>1, <3>1 DEF Denial, Speaks, DenialRecords
  <2> HIDE DEF d
  <2>3. d \in Denials
    BY <2>2, Records DEF Speaks
  <2>4. found' = [found EXCEPT ![c] = d]
    BY <1>5 DEF d
  <2>5. pc'[c] = "store" /\ found'[c] = d /\ UNCHANGED <<at, refused>>
    BY <1>1, <1>5, <2>4 DEF TypeInv
  <2>6. TypeInv'
    BY <1>1, <1>2, <1>5, <2>3, <2>4 DEF TypeInv, PCs
  <2>7. AtRule(c)' /\ ~DeferredAt(c)' /\ RuleAt(c)' = RuleAt(c)
    BY <1>1, <1>2, <2>5 DEF AtRule, PastLast, DeferredAt, RuleAt
  <2>8. Speaks(c, found[c])'
    BY <1>2, <2>2, <2>5 DEF Speaks, RuleAt, PrintAt, DeferredAt
  <2>9. CallInv(c)'
    BY <1>1, <1>2, <1>5, <2>2, <2>5, <2>7, <2>8 DEF CallInv, Due
  <2>10. Alone(c)
    BY <1>1, <1>2, <1>5, <2>4, <2>5 DEF TypeInv, Alone
  <2> QED BY <1>3, <2>6, <2>9, <2>10, StepOfOne
<1> QED BY <1>4, <1>5 DEF Evaluate

LEMMA StoreLocalKeeps == ASSUME ProtectInv, NEW c \in Calls, StoreLocal(c) PROVE ProtectInv'
<1> DEFINE d == found[c]
<1>1. /\ TypeInv /\ CallInv(c) /\ AtRule(c) /\ ~DeferredAt(c) /\ req[c] \in Requests
      /\ Speaks(c, d) /\ RuleAt(c).kind \in LocalKinds
      /\ RuleAt(c).kind \in Lasting => d.ttl = LocalLife
  BY DEF ProtectInv, CallInv, StoreLocal, AtRule
<1>2. /\ Set(IdAt(c), PrintAt(c), d) /\ found' = [found EXCEPT ![c] = NoDenial]
      /\ UNCHANGED <<clock, extra, closed, closers, req, now, sent, refused>>
  BY DEF StoreLocal
<1>3. CacheInv'
  BY <1>1, <1>2, SetKeeps
<1>4. /\ found' \in [Calls -> Denials] /\ \A x \in Calls \ {c} : found'[x] = found[x]
      /\ now' \in [Calls -> 0..MaxClock] /\ now'[c] <= clock
  BY <1>1, <1>2, Records DEF TypeInv, CallInv
<1>5. CASE /\ d.state = "RUN"
           /\ Return(c, "local", d, d.ttl)
  <2>1. d \in DenialRecords /\ d \in Denials /\ d.ttl \in Nat
    <3>1. d \in DenialRecords
      BY <1>1 DEF Speaks
    <3> QED BY <3>1, LifetimesAreNatural, Records
  <2>2. /\ d.of = RuleAt(c) /\ d.print = PrintAt(c) /\ d.of.mode = "live"
        /\ \E n \in DOMAIN Declared[req[c].client] : RuleAt(c) = Declared[req[c].client][n]
    BY <1>1, <1>5, WhereItIs DEF Speaks
  <2>3. d.of.kind \in Lasting \cup (DOMAIN Priority \ LocalKinds) => d.ttl \in 1..d.ttl
    <3>1. LocalLife \in Nat /\ LocalLife > 0
      BY ProtectAssumption
    <3>2. d.of.kind \in Lasting \cup (DOMAIN Priority \ LocalKinds) => d.ttl = LocalLife
      BY <1>1, <2>2
    <3> HIDE DEF d
    <3> QED BY <3>1, <3>2
  <2>4. /\ d.print = IF d.of.own THEN req[c].user ELSE req[c].address
        /\ ~(d.of.kind = "bot" /\ req[c].deferred)
    BY <1>1, <2>2 DEF PrintAt, DeferredAt
  <2> HIDE DEF d
  <2> QED BY <1>1, <1>2, <1>3, <1>4, <1>5, <2>1, <2>2, <2>3, <2>4, ReturnKeeps
<1>6. CASE /\ pc' = [pc EXCEPT ![c] = "rules"]
           /\ at' = [at EXCEPT ![c] = @ + 1]
           /\ UNCHANGED decision
  <2>1. TypeInv'
    <3>1. pc' \in [Calls -> PCs] /\ at' \in [Calls -> Nat]
      BY <1>1, <1>6 DEF TypeInv, PCs
    <3> QED BY <1>1, <1>2, <1>4, <1>6, <3>1 DEF TypeInv
  <2>2. pc'[c] = "rules" /\ at'[c] = at[c] + 1 /\ at[c] \in Nat
    BY <1>1, <1>6 DEF TypeInv
  <2>3. pc[c] = "store"
    BY DEF StoreLocal
  <2>4. CallInv(c)'
    BY <1>1, <1>2, <1>6, <2>2, <2>3 DEF CallInv, Due
  <2>5. Alone(c)
    BY <1>1, <1>2, <1>6 DEF TypeInv, Alone
  <2> QED BY <1>3, <2>1, <2>4, <2>5, StepOfOne
<1> QED BY <1>5, <1>6 DEF StoreLocal

LEMMA ResultsSpeak ==
  ASSUME ProtectInv, NEW c \in Calls, AtRule(c), NEW d \in Results(c)
  PROVE  d = NoDenial \/ Speaks(c, d)
<1>1. CASE d # NoDenial
  <2>1. PICK state \in IF RuleAt(c).mode = "live" THEN {"RUN", "CACHED"} ELSE {"DRY_RUN"}, ttl \in Ttls :
          d = Denial(RuleAt(c), PrintAt(c), DeferredAt(c), state, ttl)
    BY <1>1 DEF Results
  <2>2. state \in {"RUN", "DRY_RUN", "CACHED"} /\ (state = "RUN" => RuleAt(c).mode = "live")
    OBVIOUS
  <2>3. RuleAt(c) \in Rules /\ PrintAt(c) \in Prints \cup {NoPrint} /\ DeferredAt(c) \in BOOLEAN
    BY WhereItIs
  <2>4. 0 \in 0..MaxClock
    BY ProtectAssumption
  <2> QED BY <2>1, <2>2, <2>3, <2>4 DEF Denial, Speaks, DenialRecords
<1> QED BY <1>1

LEMMA StoreResultKeeps == ASSUME ProtectInv, NEW c \in Calls, StoreResult(c) PROVE ProtectInv'
<1>1. TypeInv /\ CacheInv /\ CallInv(c) /\ AtRule(c) /\ pc[c] = "storing"
  BY DEF ProtectInv, CallInv, StoreResult, AtRule
<1>2. /\ at' = [at EXCEPT ![c] = @ + 1]
      /\ UNCHANGED <<clock, extra, closed, closers, pc, req, now, found, sent, refused, decision>>
  BY DEF StoreResult
<1>3. CacheInv'
  <2>1. CASE DeferredAt(c)
    BY <1>1, <1>2, <2>1 DEF StoreResult, CacheInv, Backs
  <2>2. CASE ~DeferredAt(c)
    <3>1. PICK d \in Results(c) : Set(IdAt(c), PrintAt(c), d)
      BY <2>2 DEF StoreResult
    <3>2. d = NoDenial \/ Speaks(c, d)
      BY <1>1, ResultsSpeak
    <3> QED BY <1>1, <1>2, <2>2, <3>1, <3>2, SetKeeps
  <2> QED BY <2>1, <2>2
<1>4. at[c] \in Nat /\ at'[c] = at[c] + 1 /\ at' \in [Calls -> Nat]
  BY <1>1, <1>2 DEF TypeInv
<1>5. TypeInv'
  BY <1>1, <1>2, <1>4 DEF TypeInv
<1>6. CallInv(c)'
  BY <1>1, <1>2, <1>4 DEF CallInv, Due
<1>7. Alone(c)
  BY <1>1, <1>2 DEF TypeInv, Alone
<1> QED BY <1>3, <1>5, <1>6, <1>7, StepOfOne

LEMMA FinishKeeps == ASSUME ProtectInv, NEW c \in Calls, Finish(c) PROVE ProtectInv'
<1>1. TypeInv /\ CacheInv /\ CallInv(c)
  BY DEF ProtectInv
<1> DEFINE none == NoDecision
<1>2. none \in [kind : {"none", "local", "service", "error"}, denial : Denials, ttl : Nat]
      /\ none.kind = "none"
  BY Records DEF NoDecision
<1>3. decision' = [decision EXCEPT ![c] = none]
  BY DEF Finish
<1> HIDE DEF none
<1>4. TypeInv'
  <2>1. pc' \in [Calls -> PCs] /\ req' \in [Calls -> Requests \cup {NoRequest}]
    BY <1>1 DEF Finish, TypeInv, PCs
  <2>2. sent' \in [Calls -> SUBSET Options]
    BY <1>1 DEF Finish, TypeInv
  <2>3. refused' \in [Calls -> BOOLEAN]
    BY <1>1 DEF Finish, TypeInv
  <2>4. decision' \in [Calls -> [kind : {"none", "local", "service", "error"}, denial : Denials, ttl : Nat]]
    BY <1>1, <1>2, <1>3 DEF TypeInv
  <2> QED BY <1>1, <2>1, <2>2, <2>3, <2>4 DEF Finish, TypeInv
<1>5. CacheInv'
  BY <1>1 DEF Finish, CacheInv, Backs
<1>6. CallInv(c)'
  BY <1>1, <1>2, <1>3 DEF Finish, TypeInv, CallInv
<1>7. Alone(c)
  BY <1>1, <1>3 DEF Finish, TypeInv, Alone
<1> QED BY <1>4, <1>5, <1>6, <1>7, StepOfOne

(* What is not a step of a call leaves every call as it was; the clock     *)
(* only makes what was read or stored older.                               *)
LEMMA OthersKeep ==
  ASSUME ProtectInv, (\E k \in Closing : Close(k)) \/ Tick \/ UNCHANGED vars
  PROVE  ProtectInv'
<1>1. TypeInv /\ CacheInv
  BY DEF ProtectInv
<1>2. UNCHANGED <<cache, extra, pc, req, at, now, found, sent, refused, decision>>
  BY DEF Close, Tick, vars, callVars
<1>3. clock \in 0..MaxClock /\ clock' \in 0..MaxClock /\ clock <= clock' /\ MaxClock \in Nat
  BY <1>1, ProtectAssumption DEF TypeInv, Close, Tick, vars
<1>4. closed' \in BOOLEAN /\ closers' \subseteq Closing
  BY <1>1 DEF TypeInv, Close, Tick, vars
<1>5. TypeInv'
  BY <1>1, <1>2, <1>3, <1>4 DEF TypeInv
<1>6. CacheInv'
  <2>1. ASSUME NEW id, NEW print, NEW d, Backs(id, print, d) PROVE Backs(id, print, d)'
    <3>1. d.stored \in 0..MaxClock /\ d.stored <= clock
      BY <2>1 DEF Backs, DenialRecords
    <3>2. d.stored <= clock'
      BY <1>3, <3>1
    <3> QED BY <2>1, <3>2 DEF Backs
  <2> QED BY <1>1, <1>2, <2>1 DEF CacheInv
<1>7. ASSUME NEW c \in Calls PROVE CallInv(c)'
  <2>1. CallInv(c)
    BY DEF ProtectInv
  <2>2. now[c] <= clock'
    BY <1>1, <1>3, <2>1 DEF TypeInv, CallInv
  <2> QED BY <1>2, <2>1, <2>2
      DEF CallInv, AtRule, PastLast, DeferredAt, RuleAt, PrintAt, Speaks, Due
<1> QED BY <1>5, <1>6, <1>7 DEF ProtectInv

LEMMA NextKeeps == ASSUME ProtectInv, [Next]_vars PROVE ProtectInv'
<1>1. ASSUME NEW c \in Calls,
             \/ Begin(c) \/ NextRule(c) \/ Hit(c) \/ Miss(c) \/ Evaluate(c) \/ StoreLocal(c)
             \/ Ask(c) \/ DecideFails(c) \/ Decided(c) \/ StoreResult(c) \/ ReturnDecided(c)
             \/ Finish(c)
      PROVE  ProtectInv'
  BY <1>1, BeginKeeps, NextRuleKeeps, HitKeeps, MissKeeps, EvaluateKeeps, StoreLocalKeeps, AskKeeps,
     EndsKeep, StoreResultKeeps, FinishKeeps
<1> QED BY <1>1, OthersKeep DEF Next

(* The parts above are an inductive invariant of Protect. *)
THEOREM ProtectIsInvariant == Spec => []ProtectInv
BY InitProtect, NextKeeps, PTL DEF Spec

-----------------------------------------------------------------------------
(* The theorems.                                                           *)

(* Protect is type correct, for any rules and any number of clients.       *)
THEOREM ProtectTypeCorrect == Spec => []TypeOK
<1>1. ProtectInv => TypeOK
  <2> SUFFICES ASSUME ProtectInv PROVE TypeOK
    OBVIOUS
  <2>1. TypeInv /\ cache \in [Ids \X Prints -> Denials]
    BY DEF ProtectInv, CacheInv
  <2>2. ASSUME NEW c \in Calls, req[c] # NoRequest PROVE req[c] \in Requests
    BY <2>1, <2>2 DEF TypeInv
  <2>3. ASSUME NEW c \in Calls
        PROVE  decision[c].kind \in {"none", "local", "service", "error"} /\ decision[c].denial \in Denials
    BY <2>1 DEF TypeInv
  <2>4. \A c \in Calls : pc[c] = "returned" <=> decision[c].kind # "none"
    BY DEF ProtectInv, CallInv
  <2> QED BY <2>1, <2>2, <2>3, <2>4 DEF TypeOK, TypeInv, PCs, Requests
<1> QED BY <1>1, ProtectIsInvariant, PTL

(* ruleCache: whatever is in a slot is an enforced denial that the slot's  *)
(* rule made of the slot's fingerprint, and no signed request's.           *)
THEOREM CacheStaysBacked == Spec => []CacheIsBacked
<1>1. ProtectInv => CacheIsBacked
  BY DEF ProtectInv, CacheInv, Backs, CacheIsBacked
<1> QED BY <1>1, ProtectIsInvariant, PTL

(* evaluateLocal: a call that ends in a local denial has it from a live    *)
(* rule of its own client, about its own address or user.                  *)
THEOREM LocalDenialsAreDue == Spec => []DenialIsDue
<1>1. ProtectInv => DenialIsDue
  BY DEF ProtectInv, CallInv, Due, DenialIsDue
<1> QED BY <1>1, ProtectIsInvariant, PTL

(* ruleCache.get: a hit tells a lifetime of at least one second and at     *)
(* most the denial's own.                                                  *)
THEOREM HitsLive == Spec => []HitHasLifetime
<1>1. ProtectInv => HitHasLifetime
  BY DEF ProtectInv, CallInv, Due, HitHasLifetime
<1> QED BY <1>1, ProtectIsInvariant, PTL

(* A lookup that read the clock long ago removes only what has expired,    *)
(* and what a denial makes room for was stored no earlier.                 *)
THEOREM DenialsOutlive == Spec => DenialsOutliveLookups
<1> DEFINE Survives(slot) ==
      cache[slot] # NoDenial /\ cache'[slot] # cache[slot] =>
        \/ Expires(cache[slot]) <= clock
        \/ cache'[slot] # NoDenial /\ cache'[slot].stored >= cache[slot].stored
<1>1. ASSUME ProtectInv, [Next]_vars, NEW slot \in Ids \X Prints PROVE Survives(slot)
  <2>1. CASE cache' = cache
    BY <2>1
  <2>2. ASSUME NEW c \in Calls, Miss(c) PROVE Survives(slot)
    <3>1. CASE cache' # cache
      <4>1. /\ Expired(Cached(c), now[c]) /\ Cached(c) # NoDenial
            /\ cache' = [cache EXCEPT ![Slot(c)] = NoDenial] /\ pc[c] = "lookup"
        BY <2>2, <3>1 DEF Miss
      <4>2. AtRule(c) /\ now[c] <= clock /\ cache \in [Ids \X Prints -> Denials]
            /\ clock \in 0..MaxClock /\ now[c] \in 0..MaxClock /\ MaxClock \in Nat
        BY <1>1, <4>1, ProtectAssumption DEF ProtectInv, CallInv, CacheInv, TypeInv
      <4>3. Cached(c) = cache[Slot(c)] /\ Slot(c) \in Ids \X Prints
        BY <1>1, <4>1, <4>2, WhereItIs DEF Cached, Slot
      <4>4. cache[Slot(c)] \in DenialRecords
        BY <4>1, <4>2, <4>3, Records
      <4> DEFINE d == cache[Slot(c)]
      <4>5. d.ttl \in Nat /\ d.stored \in Nat
        BY <4>4, LifetimesAreNatural
      <4>6. d.stored + d.ttl <= now[c]
        BY <4>1, <4>3 DEF Expired, Expires
      <4> HIDE DEF d
      <4>7. Expires(d) <= clock
        BY <4>2, <4>5, <4>6 DEF Expires
      <4>8. slot # Slot(c) => cache'[slot] = cache[slot]
        BY <4>1, <4>2
      <4> QED BY <4>7, <4>8 DEF d
    <3> QED BY <2>1, <3>1
  <2>3. ASSUME NEW c \in Calls, NEW d, AtRule(c), ~DeferredAt(c), d = NoDenial \/ Speaks(c, d),
               Set(IdAt(c), PrintAt(c), d), clock' = clock
        PROVE  Survives(slot)
    <3>1. CASE cache[slot] # NoDenial /\ cache'[slot] # cache[slot]
      <4>1. cache'[slot] # NoDenial /\ cache'[slot].stored = clock
        BY <1>1, <2>3, <3>1, SetKeeps
      <4>2. PICK id \in Ids, print \in Prints : slot = <<id, print>>
        OBVIOUS
      <4>3. Backs(id, print, cache[slot])
        BY <1>1, <3>1, <4>2 DEF ProtectInv, CacheInv
      <4>4. cache[slot].stored <= clock /\ cache[slot].stored \in Nat /\ clock \in Nat
        BY <1>1, <4>3, LifetimesAreNatural, ProtectAssumption DEF Backs, ProtectInv, TypeInv
      <4> QED BY <4>1, <4>4
    <3> QED BY <3>1
  <2>4. ASSUME NEW c \in Calls, StoreLocal(c) PROVE Survives(slot)
    <3>1. AtRule(c) /\ ~DeferredAt(c) /\ Speaks(c, found[c])
      BY <1>1, <2>4 DEF ProtectInv, CallInv, StoreLocal
    <3> QED BY <2>3, <2>4, <3>1 DEF StoreLocal
  <2>5. ASSUME NEW c \in Calls, StoreResult(c) PROVE Survives(slot)
    <3>1. AtRule(c) /\ clock' = clock
      BY <1>1, <2>5 DEF ProtectInv, CallInv, StoreResult, AtRule
    <3>2. CASE DeferredAt(c)
      BY <2>1, <2>5, <3>2 DEF StoreResult
    <3>3. CASE ~DeferredAt(c)
      <4>1. PICK d \in Results(c) : Set(IdAt(c), PrintAt(c), d)
        BY <2>5, <3>3 DEF StoreResult
      <4> QED BY <1>1, <2>3, <3>1, <3>3, <4>1, ResultsSpeak
    <3> QED BY <3>2, <3>3
  <2>6. \/ cache' = cache
        \/ \E c \in Calls : Miss(c) \/ StoreLocal(c) \/ StoreResult(c)
    BY <1>1 DEF Next, vars, Begin, NextRule, Hit, Evaluate, Ask, DecideFails, Decided, ReturnDecided,
       Finish, Close, Tick
  <2> QED BY <2>1, <2>2, <2>4, <2>5, <2>6
<1>2. ProtectInv /\ [Next]_vars => [\A slot \in Ids \X Prints : Survives(slot)]_vars
  BY <1>1
<1> QED BY <1>2, ProtectIsInvariant, PTL DEF Spec, DenialsOutliveLookups
=============================================================================
