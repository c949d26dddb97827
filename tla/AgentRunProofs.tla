--------------------------- MODULE AgentRunProofs ---------------------------
(***************************************************************************)
(* Safety of GuardAction and of the agent middleware, for any tools, any   *)
(* correlation IDs, any number of middlewares and any depth of calls       *)
(* within one another.                                                     *)
(***************************************************************************)
EXTENDS AgentRun, SequenceTheorems, FiniteSetTheorems, WellFoundedInduction, TLAPS

Kinds == {"nested", "inbound", "tool"}
Places == {"resolving", "asking", "running", "returned"}
Outcomes == {"denied", "unavailable", "error", "degraded", "success"}
AllIds == Ids \cup {NoId}
Links == [kind : {"plain", "denied", "unavailable"}, depth : Nat]
Chains == Seq(Links)
EventSet == [outcome : Outcomes, id : AllIds]

Layers == {"guard", "approval"}

Frames ==
  [kind : Kinds, own : AllIds, posture : {"deny", "allow"}, id : AllIds, code : BOOLEAN,
   at : Places, answer : Answers \cup {NoAnswer}, degraded : BOOLEAN,
   ran : BOOLEAN, heard : Chains, err : Chains, events : Seq(EventSet), layers : Seq(Layers)]

LEMMA LeastExists ==
  ASSUME NEW T \in SUBSET Nat, T # {}
  PROVE  \E x \in T : \A y \in T : x <= y
<1> DEFINE R == OpToRel(<, Nat)
<1>1. \E x \in T : \A y \in T : ~(<<y, x>> \in R)
  <2>1. IsWellFoundedOn(R, Nat)
    BY NatLessThanWellFounded
  <2> HIDE DEF R
  <2> QED BY <2>1, WFMin
<1>2. ASSUME NEW x \in T, NEW y \in T, ~(<<y, x>> \in R) PROVE x <= y
  BY <1>2 DEF OpToRel
<1> QED BY <1>1, <1>2

LEMMA MinIsLeast ==
  ASSUME NEW T \in SUBSET Nat, T # {}
  PROVE  Min(T) \in T /\ \A y \in T : Min(T) <= y
BY LeastExists DEF Min

LEMMA ShiftedCount ==
  ASSUME NEW S \in SUBSET Int, IsFiniteSet(S), NEW d \in Int, NEW T, T = {i + d : i \in S}
  PROVE  IsFiniteSet(T) /\ Cardinality(T) = Cardinality(S)
<1> DEFINE f == [i \in S |-> i + d]
<1>1. f \in [S -> T] /\ \A i, j \in S : f[i] = f[j] => i = j
  OBVIOUS
<1>2. \A t \in T : \E s \in S : f[s] = t
  OBVIOUS
<1>3. f \in Bijection(S, T)
  <2> HIDE DEF f
  <2> QED BY <1>1, <1>2 DEF Bijection, Injection, Surjection, IsInjective
<1> QED BY <1>3, FS_Bijection DEF ExistsBijection

LEMMA PositionsAreFinite ==
  ASSUME NEW n \in Nat, NEW S \in SUBSET (1..n)
  PROVE  IsFiniteSet(S) /\ Cardinality(S) \in Nat
<1>1. IsFiniteSet(1..n)
  BY FS_Interval
<1> QED BY <1>1, FS_Subset, FS_CardinalityType

LEMMA AnswersDiffer ==
  /\ \A a \in Answers : a.conclusion = "ALLOW" /\ ~a.open => a = Allowed
  /\ \A a \in Answers : a.conclusion = "DENY" => a # Misconfigured /\ Errors(a) = {NoError, Plain}
  /\ \A a \in Answers : Errors(a) \subseteq {NoError, Plain}
  /\ NoAnswer.conclusion = "none" /\ NoAnswer # Misconfigured /\ NoAnswer # Allowed
  /\ Allowed.conclusion = "ALLOW" /\ Misconfigured.conclusion = "misconfigured"
BY DEF Answers, Answer, Allowed, Misconfigured, NoAnswer, Errors

LEMMA ChainTypes ==
  /\ NoError \in Chains /\ Plain \in Chains
  /\ \A d \in Nat, cause \in Chains :
       /\ Denied(d, cause) \in Chains /\ Denied(d, cause) # NoError
       /\ Unavailable(d, cause) \in Chains /\ Unavailable(d, cause) # NoError
       /\ Unavailable(d, cause)[1] = [kind |-> "unavailable", depth |-> d]
       /\ 1 \in DOMAIN Unavailable(d, cause)
<1>1. Plain \in Chains /\ NoError \in Chains
  BY DEF Plain, NoError, Chains, Links
<1>2. ASSUME NEW d \in Nat, NEW cause \in Chains, NEW kind \in {"denied", "unavailable"}
      PROVE  LET chain == <<[kind |-> kind, depth |-> d]>> \o cause IN
             /\ chain \in Chains /\ chain # <<>> /\ chain[1] = [kind |-> kind, depth |-> d]
             /\ 1 \in DOMAIN chain
  <2> DEFINE link == [kind |-> kind, depth |-> d]
             chain == <<link>> \o cause
  <2>1. link \in Links
    BY DEF Links
  <2> HIDE DEF link
  <2>2. <<link>> \in Chains /\ Len(<<link>>) = 1 /\ <<link>>[1] = link
    BY <2>1 DEF Chains
  <2>3. /\ chain \in Chains /\ Len(chain) = 1 + Len(cause)
        /\ \A i \in 1..(1 + Len(cause)) : chain[i] = IF i <= 1 THEN <<link>>[i] ELSE cause[i - 1]
    BY <2>2, ConcatProperties DEF Chains
  <2>4. Len(cause) \in Nat /\ DOMAIN chain = 1..Len(chain)
    BY <2>3, LenProperties DEF Chains
  <2> HIDE DEF chain
  <2>5. 1 \in 1..Len(chain) /\ Len(chain) # 0
    BY <2>3, <2>4
  <2>6. chain # <<>> /\ chain[1] = link
    BY <2>2, <2>3, <2>4, <2>5
  <2> QED BY <2>3, <2>4, <2>5, <2>6 DEF chain, link
<1> QED BY <1>1, <1>2 DEF Denied, Unavailable, NoError

-----------------------------------------------------------------------------
(* One activation: what is true of it wherever it is on the stack.  One    *)
(* that has returned has recorded one event; if its action did not run it  *)
(* holds an error of its own.                                              *)

Outcome(f) == f.events[1].outcome

Refused(f, n) ==
  \/ /\ Outcome(f) = "denied" /\ f.answer.conclusion = "DENY"
     /\ f.err \in {Denied(n, NoError), Denied(n, Plain)}
  \/ /\ Outcome(f) = "unavailable" /\ f.answer.conclusion # "DENY"
     /\ \E cause \in Chains : f.err = Unavailable(n, cause)

Ended(f) ==
  /\ Outcome(f) \in {"error", "degraded", "success"}
  /\ Outcome(f) = "error" <=> f.err # NoError
  /\ Outcome(f) = "success" => f.answer = Allowed

FrameOK(f, n) ==
  /\ f.at = "resolving" => f.answer = NoAnswer
  /\ f.at \in {"resolving", "asking"} => ~f.ran
  /\ f.at = "running" => f.ran /\ (~f.degraded => f.answer = Allowed)
  /\ f.ran => Consented(f)
  /\ f.at # "returned" => f.events = <<>>
  /\ f.at = "returned" => Len(f.events) = 1 /\ f.events[1].id = f.id
  /\ f.at = "returned" /\ f.ran => Ended(f)
  /\ f.at = "returned" /\ ~f.ran => Refused(f, n)

Same(g, f) ==
  g.own = f.own /\ g.id = f.id /\ g.kind = f.kind /\ g.code = f.code /\ g.layers = f.layers

LEMMA EventsOne ==
  ASSUME NEW e \in EventSet
  PROVE  Append(<<>>, e) \in Seq(EventSet) /\ Len(Append(<<>>, e)) = 1 /\ Append(<<>>, e)[1] = e
BY AppendProperties, EmptySeq

LEMMA ReturnsFrame ==
  ASSUME NEW f \in Frames, f.events = <<>>, NEW outcome \in Outcomes, NEW err \in Chains
  PROVE  LET g == Returns(f, outcome, err) IN
         /\ g \in Frames /\ Same(g, f)
         /\ g.at = "returned" /\ g.err = err /\ g.answer = f.answer /\ g.posture = f.posture /\ g.ran = f.ran
         /\ Len(g.events) = 1 /\ g.events[1].id = f.id /\ Outcome(g) = outcome
<1> DEFINE e == [outcome |-> outcome, id |-> f.id]
           one == Append(<<>>, e)
           g == [f EXCEPT !.events = one, !.at = "returned", !.err = err]
<1>1. e \in EventSet /\ e.outcome = outcome /\ e.id = f.id
  BY DEF EventSet, Frames
<1>2. one \in Seq(EventSet) /\ Len(one) = 1 /\ one[1] = e
  BY <1>1, EventsOne
<1>3. Returns(f, outcome, err) = g
  BY DEF Returns, Event, Frames
<1> HIDE DEF one, e
<1>4. g \in Frames
  BY <1>2 DEF Frames, Places
<1>5. /\ Same(g, f)
      /\ g.at = "returned" /\ g.err = err /\ g.answer = f.answer /\ g.posture = f.posture /\ g.ran = f.ran
      /\ g.events = one
  BY DEF Frames, Same
<1> QED BY <1>1, <1>2, <1>3, <1>4, <1>5 DEF Outcome

LEMMA ReturnedIsOK ==
  ASSUME NEW f \in Frames, NEW n, f.at = "returned", f.ran => Consented(f),
         Len(f.events) = 1, f.events[1].id = f.id, IF f.ran THEN Ended(f) ELSE Refused(f, n)
  PROVE  FrameOK(f, n)
BY DEF FrameOK

(* What the answer of a policy makes of an activation. *)
LEMMA SettlesFrame ==
  ASSUME NEW f \in Frames, f.events = <<>>, ~f.ran, NEW a \in Answers \cup {NoAnswer}, f.answer = a,
         NEW err \in Chains, a = NoAnswer => err # NoError,
         a.conclusion = "DENY" => err \in {NoError, Plain},
         Depth \in Nat
  PROVE  LET g == Settles(f, a, err) IN g \in Frames /\ Same(g, f) /\ FrameOK(g, Depth)
<1>1. CASE a.conclusion = "DENY"
  <2> DEFINE g == Returns(f, "denied", Denied(Depth, err))
  <2>1. Denied(Depth, err) \in Chains /\ "denied" \in Outcomes
    BY ChainTypes DEF Outcomes
  <2>2. /\ g \in Frames /\ Same(g, f)
        /\ g.at = "returned" /\ g.err = Denied(Depth, err) /\ g.answer = a /\ g.ran = f.ran
        /\ Len(g.events) = 1 /\ g.events[1].id = f.id /\ Outcome(g) = "denied"
    BY <2>1, ReturnsFrame
  <2> HIDE DEF g
  <2>3. Refused(g, Depth)
    BY <1>1, <2>2 DEF Refused
  <2>4. FrameOK(g, Depth)
    BY <2>2, <2>3, ReturnedIsOK DEF Same
  <2> QED BY <1>1, <2>2, <2>4 DEF Settles, g
<1>2. CASE /\ a.conclusion # "DENY"
           /\ NotEvaluated(a, err) /\ (a = Misconfigured \/ f.posture # "allow")
  <2> DEFINE g == Returns(f, "unavailable", Unavailable(Depth, err))
  <2>1. Unavailable(Depth, err) \in Chains /\ "unavailable" \in Outcomes
    BY ChainTypes DEF Outcomes
  <2>2. /\ g \in Frames /\ Same(g, f)
        /\ g.at = "returned" /\ g.err = Unavailable(Depth, err) /\ g.answer = a /\ g.ran = f.ran
        /\ Len(g.events) = 1 /\ g.events[1].id = f.id /\ Outcome(g) = "unavailable"
    BY <2>1, ReturnsFrame
  <2> HIDE DEF g
  <2>3. Refused(g, Depth)
    BY <1>2, <2>2 DEF Refused
  <2>4. FrameOK(g, Depth)
    BY <2>2, <2>3, ReturnedIsOK DEF Same
  <2> QED BY <1>2, <2>2, <2>4 DEF Settles, g
<1>3. CASE /\ a.conclusion # "DENY"
           /\ ~(NotEvaluated(a, err) /\ (a = Misconfigured \/ f.posture # "allow"))
  <2> DEFINE degraded == NotEvaluated(a, err)
             g == [f EXCEPT !.at = "running", !.ran = TRUE, !.degraded = degraded]
  <2>1. degraded \in BOOLEAN
    BY DEF NotEvaluated
  <2>2. ~degraded => a = Allowed
    BY AnswersDiffer DEF NotEvaluated
  <2>3. degraded => f.posture = "allow" /\ a # Misconfigured
    BY <1>3
  <2>4. Settles(f, a, err) = g
    BY <1>3 DEF Settles
  <2> HIDE DEF degraded
  <2>5. g \in Frames /\ Same(g, f)
    BY <2>1 DEF Frames, Places, Same
  <2>6. g.at = "running" /\ g.ran /\ g.degraded = degraded /\ g.answer = a /\ g.posture = f.posture
        /\ g.events = <<>>
    BY DEF Frames
  <2> HIDE DEF g
  <2>7. FrameOK(g, Depth)
    BY <1>3, <2>2, <2>3, <2>6 DEF FrameOK, Consented
  <2> QED BY <2>4, <2>5, <2>7
<1> QED BY <1>1, <1>2, <1>3

(* An action that ran, and returns. *)
LEMMA FinishedFrame ==
  ASSUME NEW f \in Frames, NEW n, f.at = "running", FrameOK(f, n), NEW err \in Chains
  PROVE  LET g == Finished(f, err) IN
         g \in Frames /\ Same(g, f) /\ FrameOK(g, n) /\ g.ran /\ g.at = "returned"
<1> DEFINE outcome == IF err # NoError THEN "error" ELSE IF f.degraded THEN "degraded" ELSE "success"
           g == Returns(f, outcome, err)
<1>1. outcome \in Outcomes /\ f.events = <<>> /\ f.ran /\ Consented(f)
      /\ (f.degraded \/ f.answer = Allowed)
  BY DEF Outcomes, FrameOK
<1>2. outcome \in {"error", "degraded", "success"} /\ (outcome = "error" <=> err # NoError)
      /\ (outcome = "success" => f.answer = Allowed)
  BY <1>1
<1> HIDE DEF outcome
<1>3. /\ g \in Frames /\ Same(g, f)
      /\ g.at = "returned" /\ g.err = err /\ g.answer = f.answer /\ g.posture = f.posture /\ g.ran = f.ran
      /\ Len(g.events) = 1 /\ g.events[1].id = f.id /\ Outcome(g) = outcome
  BY <1>1, ReturnsFrame
<1> HIDE DEF g
<1>4. Ended(g) /\ Consented(g)
  BY <1>1, <1>2, <1>3 DEF Ended, Consented
<1>5. FrameOK(g, n)
  BY <1>1, <1>3, <1>4, ReturnedIsOK DEF Same
<1> QED BY <1>1, <1>3, <1>5 DEF Finished, g, outcome

(* An activation at its beginning. *)
Begun(g, kind, own, context, n) ==
  /\ g \in Frames /\ FrameOK(g, n)
  /\ g.kind = kind /\ g.own = own /\ g.id = FirstId(own, context)

LEMMA ActivationFrame ==
  ASSUME NEW kind \in Kinds, NEW own \in AllIds, NEW posture \in {"deny", "allow"}, NEW context \in AllIds,
         NEW hook \in BOOLEAN, NEW code \in BOOLEAN, NEW n
  PROVE  LET g == Activation(kind, own, posture, context, hook, code) IN
         Begun(g, kind, own, context, n) /\ g.layers = <<>>
<1> DEFINE place == IF hook THEN "resolving" ELSE "asking"
           id == FirstId(own, context)
           g == [kind |-> kind, own |-> own, posture |-> posture, id |-> id, code |-> code,
                 at |-> place, answer |-> NoAnswer, degraded |-> FALSE,
                 ran |-> FALSE, heard |-> NoError, err |-> NoError, events |-> <<>>, layers |-> <<>>]
<1>1. place \in {"resolving", "asking"} /\ id \in AllIds
  BY DEF FirstId
<1>2. Activation(kind, own, posture, context, hook, code) = g
  BY DEF Activation
<1> HIDE DEF place, id
<1>3. NoError \in Chains /\ <<>> \in Seq(EventSet) /\ <<>> \in Seq(Layers)
  BY ChainTypes
<1>4. g \in Frames
  BY <1>1, <1>3 DEF Frames, Places
<1>5. /\ g.at = place /\ g.answer = NoAnswer /\ ~g.ran /\ g.events = <<>>
      /\ g.kind = kind /\ g.own = own /\ g.id = id /\ g.layers = <<>>
  OBVIOUS
<1> HIDE DEF g
<1>6. FrameOK(g, n)
  BY <1>1, <1>5 DEF FrameOK
<1> QED BY <1>2, <1>4, <1>5, <1>6 DEF id, Begun

LEMMA HeardFrame ==
  ASSUME NEW f \in Frames, NEW n, FrameOK(f, n), f.at # "returned", NEW err \in Chains
  PROVE  LET g == [f EXCEPT !.heard = err] IN
         g \in Frames /\ Same(g, f) /\ FrameOK(g, n) /\ g.at = f.at
<1> DEFINE g == [f EXCEPT !.heard = err]
<1>1. g \in Frames /\ Same(g, f)
  BY DEF Frames, Same
<1>2. /\ g.at = f.at /\ g.answer = f.answer /\ g.ran = f.ran /\ g.events = f.events
      /\ g.degraded = f.degraded /\ g.posture = f.posture
  BY DEF Frames
<1> HIDE DEF g
<1>3. FrameOK(g, n)
  BY <1>2 DEF FrameOK, Consented
<1> QED BY <1>1, <1>2, <1>3 DEF g

-----------------------------------------------------------------------------
(* The layers of a tool.                                                   *)

(* The first guard of some layers is a position among them, and there is   *)
(* one unless there are no guards.                                         *)
LEMMA FirstGuard ==
  ASSUME NEW layers \in Seq(Layers)
  PROVE  LET I == {i \in DOMAIN layers : layers[i] = "guard"}
             n == Len(layers)
         IN /\ n \in Nat /\ DOMAIN layers = 1..n /\ IsFiniteSet(I) /\ Guards(layers) \in Nat
            /\ IF Guards(layers) = 0 THEN GuardAt(layers) = 0 /\ I = {}
               ELSE GuardAt(layers) \in I /\ \A i \in I : GuardAt(layers) <= i
<1> DEFINE I == {i \in DOMAIN layers : layers[i] = "guard"}
           n == Len(layers)
<1>1. n \in Nat /\ DOMAIN layers = 1..n
  BY LenProperties
<1>2. I \in SUBSET Nat /\ I \in SUBSET (1..n) /\ GuardAt(layers) = IF I # {} THEN Min(I) ELSE 0
  BY <1>1 DEF GuardAt, SelectInSeq
<1>3. Guards(layers) = Cardinality(I)
  BY DEF Guards
<1> HIDE DEF I, n
<1>4. IsFiniteSet(I) /\ Cardinality(I) \in Nat /\ (Cardinality(I) = 0 <=> I = {})
  BY <1>1, <1>2, PositionsAreFinite, FS_EmptySet
<1>5. I # {} => Min(I) \in I /\ \A i \in I : Min(I) <= i
  BY <1>2, MinIsLeast
<1> QED BY <1>1, <1>2, <1>3, <1>4, <1>5 DEF I, n

(* Below the first guard are layers with one guard less. *)
LEMMA BelowIsLayers ==
  ASSUME NEW layers \in Seq(Layers), GuardAt(layers) > 0
  PROVE  /\ Below(layers) \in Seq(Layers)
         /\ Guards(layers) \in Nat \ {0} /\ Guards(Below(layers)) = Guards(layers) - 1
<1> DEFINE I == {i \in DOMAIN layers : layers[i] = "guard"}
           n == Len(layers)
           k == GuardAt(layers)
           b == Below(layers)
           J == {i \in DOMAIN b : b[i] = "guard"}
<1>1. /\ n \in Nat /\ DOMAIN layers = 1..n /\ IsFiniteSet(I) /\ Guards(layers) \in Nat \ {0}
      /\ k \in I /\ \A i \in I : k <= i
  <2>1. /\ n \in Nat /\ DOMAIN layers = 1..n /\ IsFiniteSet(I) /\ Guards(layers) \in Nat
        /\ IF Guards(layers) = 0 THEN k = 0 /\ I = {} ELSE k \in I /\ \A i \in I : k <= i
    BY FirstGuard
  <2>2. k # 0
    OBVIOUS
  <2> HIDE DEF I, n, k
  <2> QED BY <2>1, <2>2
<1>2. k \in 1..n /\ \A i \in (k + 1)..n : layers[i] \in Layers
  BY <1>1, ElementOfSeq
<1>3. b \in Seq(Layers) /\ Len(b) = n - k /\ \A i \in 1..(n - k) : b[i] = layers[k + i]
  <2> HIDE DEF n, k, b
  <2>1. n \in Int /\ k + 1 \in Int /\ n - (k + 1) + 1 = n - k
        /\ \A i \in 1..(n - k) : (k + 1) + i - 1 = k + i
    BY <1>1, <1>2
  <2>2. b = SubSeq(layers, k + 1, n)
    BY DEF b, n, k, Below
  <2>3. /\ b \in Seq(Layers) /\ Len(b) = IF k + 1 <= n THEN n - (k + 1) + 1 ELSE 0
        /\ \A i \in 1..(n - (k + 1) + 1) : b[i] = layers[(k + 1) + i - 1]
    BY <1>2, <2>1, <2>2, SubSeqProperties
  <2>4. (IF k + 1 <= n THEN n - (k + 1) + 1 ELSE 0) = n - k
    BY <1>1, <1>2
  <2> QED BY <2>1, <2>3, <2>4
<1>4. DOMAIN b = 1..(n - k)
  BY <1>3, LenProperties
<1> HIDE DEF n, k, b
<1>5. I \ {k} = {j + k : j \in J}
  <2>1. ASSUME NEW i \in I \ {k} PROVE i - k \in J /\ i = (i - k) + k
    <3>1. i \in 1..n /\ i > k
      BY <1>1, <1>2
    <3>2. i - k \in 1..(n - k) /\ k + (i - k) = i
      BY <1>1, <1>2, <3>1
    <3>3. layers[i] = "guard" /\ b[i - k] = layers[k + (i - k)]
      BY <1>3, <3>2
    <3>4. b[i - k] = "guard" /\ i - k \in DOMAIN b
      BY <1>4, <3>2, <3>3
    <3>5. i - k \in J
      BY <3>4
    <3>6. i = (i - k) + k
      BY <1>1, <1>2, <3>1
    <3> QED BY <3>5, <3>6
  <2>2. ASSUME NEW j \in J PROVE j + k \in I \ {k}
    <3>1. j \in 1..(n - k) /\ layers[k + j] = "guard"
      BY <1>3, <1>4
    <3>2. j + k \in 1..n /\ j + k # k /\ k + j = j + k
      BY <1>1, <1>2, <3>1
    <3> QED BY <1>1, <3>1, <3>2
  <2> QED BY <2>1, <2>2
<1>6. IsFiniteSet(J) /\ J \in SUBSET Int /\ n - k \in Nat
  <2>1. n - k \in Nat /\ J \in SUBSET (1..(n - k))
    BY <1>1, <1>2, <1>4
  <2>2. J \in SUBSET Int
    BY <1>4
  <2> HIDE DEF J
  <2> QED BY <2>1, <2>2, PositionsAreFinite
<1>7. Cardinality(I \ {k}) = Cardinality(J)
  <2>1. k \in Int
    BY <1>1, <1>2
  <2> DEFINE T == I \ {k}
  <2>2. T = {j + k : j \in J}
    BY <1>5
  <2> HIDE DEF J, T
  <2>3. Cardinality(T) = Cardinality(J)
    BY <1>6, <2>1, <2>2, ShiftedCount
  <2> QED BY <2>3 DEF T
<1>8. Cardinality(I \ {k}) = Cardinality(I) - 1
  <2> HIDE DEF I
  <2> QED BY <1>1, FS_RemoveElement
<1> QED BY <1>1, <1>3, <1>7, <1>8 DEF Guards, b

(* GuardTool puts one guard in front. *)
LEMMA GuardingAdds ==
  ASSUME NEW layers \in Seq(Layers)
  PROVE  LET more == <<"guard">> \o layers IN
         /\ more \in Seq(Layers)
         /\ Guards(more) = Guards(layers) + 1 /\ Approvals(more) = Approvals(layers)
         /\ AlreadyGuarded(more)
<1> DEFINE more == <<"guard">> \o layers
           n == Len(layers)
           At(s, layer) == {i \in DOMAIN s : s[i] = layer}
<1>1. n \in Nat /\ DOMAIN layers = 1..n
  BY LenProperties
<1>2. /\ more \in Seq(Layers) /\ Len(more) = 1 + n
      /\ \A i \in 1..(1 + n) : more[i] = IF i <= 1 THEN "guard" ELSE layers[i - 1]
  <2>1. <<"guard">> \in Seq(Layers) /\ Len(<<"guard">>) = 1 /\ \A i \in 1..1 : <<"guard">>[i] = "guard"
    BY DEF Layers
  <2>2. /\ more \in Seq(Layers) /\ Len(more) = Len(<<"guard">>) + n
        /\ \A i \in 1..(Len(<<"guard">>) + n) :
             more[i] = IF i <= Len(<<"guard">>) THEN <<"guard">>[i] ELSE layers[i - Len(<<"guard">>)]
    BY <2>1, ConcatProperties
  <2> HIDE DEF more, n
  <2>3. \A i \in 1..(1 + n) : i <= 1 => i \in 1..1
    BY <1>1
  <2> QED BY <2>1, <2>2, <2>3
<1>3. DOMAIN more = 1..(1 + n) /\ 1 \in 1..(1 + n)
  BY <1>1, <1>2, LenProperties
<1> HIDE DEF more, n
<1>4. ASSUME NEW layer \in Layers
      PROVE  LET S == {i + 1 : i \in At(layers, layer)} IN
             /\ IsFiniteSet(S) /\ Cardinality(S) = Cardinality(At(layers, layer)) /\ 1 \notin S
             /\ Cardinality(S) \in Nat
             /\ At(more, layer) = IF layer = "guard" THEN S \cup {1} ELSE S
  <2> DEFINE A == At(layers, layer)
             S == {i + 1 : i \in A}
  <2>1. A \in SUBSET (1..n)
    BY <1>1
  <2>2. A \in SUBSET Int /\ IsFiniteSet(A) /\ Cardinality(A) \in Nat
    <3> HIDE DEF A
    <3>1. A \in SUBSET Int
      BY <1>1, <2>1
    <3> QED BY <1>1, <2>1, <3>1, PositionsAreFinite
  <2>3. IsFiniteSet(S) /\ Cardinality(S) = Cardinality(A)
    <3>1. 1 \in Int
      OBVIOUS
    <3> HIDE DEF A
    <3>2. S = {i + 1 : i \in A}
      OBVIOUS
    <3> HIDE DEF S
    <3> QED BY <2>2, <3>1, <3>2, ShiftedCount
  <2>4. 1 \notin S
    BY <1>1
  <2>5. ASSUME NEW i \in 1..(1 + n) PROVE more[i] = layer <=> (i \in S \/ (i = 1 /\ layer = "guard"))
    <3>1. CASE i = 1
      BY <1>2, <2>4, <3>1
    <3>2. CASE i # 1
      <4>1. i - 1 \in 1..n /\ more[i] = layers[i - 1] /\ (i - 1) + 1 = i
        BY <1>1, <1>2, <3>2
      <4>2. i \in S <=> i - 1 \in A
        BY <1>1, <4>1
      <4> QED BY <1>1, <3>2, <4>1, <4>2
    <3> QED BY <3>1, <3>2
  <2>6. S \subseteq 1..(1 + n)
    BY <1>1
  <2> HIDE DEF S
  <2>7. At(more, layer) = IF layer = "guard" THEN S \cup {1} ELSE S
    BY <1>3, <2>4, <2>5, <2>6
  <2> QED BY <2>2, <2>3, <2>4, <2>7 DEF S, A
<1>5. "guard" \in Layers /\ "approval" \in Layers
  BY DEF Layers
<1>6. Guards(more) = Guards(layers) + 1
  <2> DEFINE S == {i + 1 : i \in At(layers, "guard")}
  <2>1. /\ IsFiniteSet(S) /\ Cardinality(S) = Cardinality(At(layers, "guard")) /\ 1 \notin S
        /\ At(more, "guard") = S \cup {1}
    BY <1>4, <1>5
  <2>2. Guards(layers) = Cardinality(At(layers, "guard")) /\ Guards(more) = Cardinality(At(more, "guard"))
    BY DEF Guards
  <2> HIDE DEF S, At
  <2> QED BY <2>1, <2>2, FS_AddElement
<1>7. Approvals(more) = Approvals(layers)
  BY <1>4, <1>5 DEF Approvals
<1>8. AlreadyGuarded(more)
  <2>1. more[1] = "guard" /\ more # <<>>
    BY <1>1, <1>2, <1>3
  <2> QED BY <1>2, <2>1 DEF AlreadyGuarded
<1> QED BY <1>2, <1>6, <1>7, <1>8 DEF more
-----------------------------------------------------------------------------
(* The stack.  Below the last activation the others wait in their own      *)
(* code, and a guarded tool in the body of the tool around it; the ID of   *)
(* each comes from the innermost policy that names one.                    *)

Named(n) == {i \in 1..n : stack[i].own # NoId}

Source(n) ==
  \/ Named(n) = {} /\ stack[n].id = runId
  \/ \E i \in Named(n) : (\A j \in Named(n) : j <= i) /\ stack[n].id = stack[i].own

Waits(n) ==
  n < Depth =>
    /\ stack[n].at \in {"resolving", "running"}
    /\ stack[n + 1].kind = "tool" => stack[n].at = "running"

(* A guarded tool has as many guards left below it as there are guards of  *)
(* the tool below its own; what is no tool has no layers.                  *)
PlacedIn(f, n, layers) ==
  IF f.kind = "tool"
  THEN n + Guards(f.layers) = Guards(layers) /\ (f.code <=> Guards(f.layers) = 0)
  ELSE f.layers = <<>>

Nested(n) == n > 1 /\ stack[n].kind = "tool" => stack[n - 1].kind = "tool"

StackInv ==
  /\ stack \in Seq(Frames)
  /\ Depth <= MaxDepth
  /\ \A n \in 1..Depth : FrameOK(stack[n], n) /\ Source(n) /\ Waits(n)
  /\ \A n \in 1..Depth : PlacedIn(stack[n], n, tool) /\ Nested(n)

(* The run: activations exist while a turn is screened and while the       *)
(* provider calls the tool, and what an Inbound policy let pass without    *)
(* consent is approvals.  The tool: the middlewares added one guard at     *)
(* most, and did where a policy wanted one.                                *)
RunInv ==
  /\ phase \in {"begun", "screening", "guarding", "provider", "ended"}
  /\ passed \in 0..Installed /\ (phase \in {"begun", "screening", "guarding"} => passed < Installed)
  /\ turn \subseteq Contents
  /\ reply.kind \in {"none", "refused", "through", "unavailable", "denied"} /\ reply.depth \in 0..MaxDepth
  /\ reply.kind = "refused" => phase = "ended"
  /\ unscreened \subseteq Contents /\ (phase # "ended" => unscreened \subseteq {"approval"})
  /\ Depth > 0 => phase = (IF stack[1].kind = "inbound" THEN "screening" ELSE "provider")

ToolInv ==
  /\ given \in Seq(Layers) /\ Guards(given) < MaxDepth
  /\ tool = given \/ (tool = <<"guard">> \o given /\ ~AlreadyGuarded(given))
  /\ wanted \in BOOLEAN /\ (wanted => AlreadyGuarded(tool))

Rests == Depth' > 0 => Depth > 0 /\ stack'[1].kind = stack[1].kind

AgentInv == StackInv /\ RunInv /\ ToolInv /\ runId \in AllIds

LEMMA StackTypes ==
  ASSUME StackInv
  PROVE  /\ Depth \in Nat /\ stack \in Seq(Frames)
         /\ \A n \in 1..Depth : stack[n] \in Frames /\ FrameOK(stack[n], n) /\ Source(n) /\ Waits(n)
         /\ \A n \in 1..Depth : PlacedIn(stack[n], n, tool) /\ Nested(n)
         /\ Depth > 0 => Top \in Frames /\ FrameOK(Top, Depth)
<1>1. stack \in Seq(Frames) /\ Depth \in Nat
  BY LenProperties DEF StackInv, Depth
<1>2. \A n \in 1..Depth : stack[n] \in Frames
  BY <1>1, ElementOfSeq DEF Depth
<1> HIDE DEF Depth
<1>3. Depth > 0 => Depth \in 1..Depth
  BY <1>1
<1> QED BY <1>1, <1>2, <1>3 DEF StackInv, Top

LEMMA SourceKept ==
  ASSUME NEW n \in Nat, Source(n), \A i \in 1..n : stack'[i].own = stack[i].own,
         stack'[n].id = stack[n].id, runId' = runId
  PROVE  Source(n)'
<1>1. Named(n)' = Named(n)
  BY DEF Named
<1>2. \A i \in Named(n) : stack'[i].own = stack[i].own
  BY DEF Named
<1> QED BY <1>1, <1>2 DEF Source

LEMMA PlaceKept ==
  ASSUME NEW n, NEW f, NEW g, Same(g, f), PlacedIn(f, n, tool) PROVE PlacedIn(g, n, tool)
BY DEF Same, PlacedIn

LEMMA TopChanges ==
  ASSUME StackInv, Depth > 0, NEW g \in Frames, Same(g, Top), FrameOK(g, Depth), SetTop(g),
         runId' = runId, tool' = tool
  PROVE  StackInv' /\ Rests
<1>1. Depth \in 1..Depth /\ Depth \in Nat /\ stack \in Seq(Frames)
  BY StackTypes
<1>2. /\ stack' \in Seq(Frames) /\ Depth' = Depth
      /\ \A n \in 1..Depth : stack'[n] = IF n = Depth THEN g ELSE stack[n]
  BY <1>1, ExceptSeq DEF SetTop, Depth
<1> HIDE DEF Depth
<1>3. \A n \in 1..Depth : stack'[n].own = stack[n].own /\ stack'[n].id = stack[n].id
                          /\ stack'[n].kind = stack[n].kind
                          /\ (PlacedIn(stack[n], n, tool) => PlacedIn(stack'[n], n, tool))
  BY <1>2, PlaceKept DEF Same, Top
<1>4. ASSUME NEW n \in 1..Depth PROVE FrameOK(stack'[n], n) /\ Source(n)' /\ Waits(n)'
  <2>1. FrameOK(stack[n], n) /\ Source(n) /\ Waits(n)
    BY StackTypes
  <2>2. FrameOK(stack'[n], n)
    BY <1>2, <2>1
  <2>3. Source(n)'
    <3>1. \A i \in 1..n : i \in 1..Depth
      BY <1>1
    <3> QED BY <1>1, <1>3, <2>1, <3>1, SourceKept
  <2>4. Waits(n)'
    <3>1. n < Depth => n + 1 \in 1..Depth /\ n # Depth
      BY <1>1
    <3> QED BY <1>2, <1>3, <2>1, <3>1 DEF Waits
  <2> QED BY <2>2, <2>3, <2>4
<1>5. ASSUME NEW n \in 1..Depth PROVE PlacedIn(stack[n], n, tool)' /\ Nested(n)'
  <2>1. PlacedIn(stack[n], n, tool) /\ Nested(n)
    BY StackTypes
  <2>2. n > 1 => n - 1 \in 1..Depth
    BY <1>1
  <2>3. PlacedIn(stack'[n], n, tool)
    BY <1>3, <2>1
  <2>4. Nested(n)'
    BY <1>3, <2>1, <2>2 DEF Nested
  <2> QED BY <2>3, <2>4 DEF PlacedIn
<1>6. Rests
  <2>1. 1 \in 1..Depth
    BY <1>1
  <2> QED BY <1>2, <1>3, <2>1 DEF Rests
<1> QED BY <1>2, <1>4, <1>5, <1>6 DEF StackInv

LEMMA Pops ==
  ASSUME StackInv, Depth > 1, NEW g \in Frames, Same(g, stack[Depth - 1]), FrameOK(g, Depth - 1),
         stack' = [SubSeq(stack, 1, Depth - 1) EXCEPT ![Depth - 1] = g],
         runId' = runId, tool' = tool
  PROVE  StackInv' /\ Rests
<1> DEFINE below == SubSeq(stack, 1, Depth - 1)
<1>1. Depth - 1 \in 1..(Depth - 1) /\ Depth \in Nat /\ Depth - 1 \in Nat /\ stack \in Seq(Frames)
      /\ \A n \in 1..(Depth - 1) : n \in 1..Depth /\ n # Depth /\ n \in Nat
  BY StackTypes
<1>2. \A n \in 1..(Depth - 1) : stack[n] \in Frames
  BY <1>1, StackTypes
<1>3. below \in Seq(Frames) /\ Len(below) = Depth - 1 /\ \A n \in 1..(Depth - 1) : below[n] = stack[n]
  <2>1. /\ below \in Seq(Frames) /\ Len(below) = IF 1 <= Depth - 1 THEN Depth - 1 - 1 + 1 ELSE 0
        /\ \A n \in 1..(Depth - 1 - 1 + 1) : below[n] = stack[1 + n - 1]
    <3> HIDE DEF Depth
    <3>1. 1 \in Int /\ Depth - 1 \in Int
      BY <1>1
    <3> QED BY <1>2, <3>1, SubSeqProperties
  <2> HIDE DEF below, Depth
  <2>2. Depth - 1 - 1 + 1 = Depth - 1 /\ \A n \in 1..(Depth - 1) : 1 + n - 1 = n
    BY <1>1
  <2> QED BY <1>1, <2>1, <2>2
<1> HIDE DEF below
<1>4. /\ stack' \in Seq(Frames) /\ Len(stack') = Depth - 1
      /\ \A n \in 1..(Depth - 1) : stack'[n] = IF n = Depth - 1 THEN g ELSE stack[n]
  <2>1. stack' = [below EXCEPT ![Depth - 1] = g]
    BY DEF below
  <2>2. PICK k \in Nat : k = Depth - 1
    BY <1>1
  <2> HIDE DEF Depth
  <2>3. below \in Seq(Frames) /\ k \in 1..Len(below) /\ stack' = [below EXCEPT ![k] = g]
    BY <1>1, <1>3, <2>1, <2>2
  <2>4. LET changed == [below EXCEPT ![k] = g] IN
        /\ changed \in Seq(Frames) /\ Len(changed) = Len(below)
        /\ \A n \in 1..Len(below) : changed[n] = IF n = k THEN g ELSE below[n]
    BY <2>3, ExceptSeq
  <2> QED BY <1>3, <2>2, <2>3, <2>4
<1>5. Depth' = Depth - 1
  BY <1>4 DEF Depth
<1> HIDE DEF Depth
<1>6. \A n \in 1..(Depth - 1) : stack'[n].own = stack[n].own /\ stack'[n].id = stack[n].id
                                /\ stack'[n].kind = stack[n].kind
                                /\ (PlacedIn(stack[n], n, tool) => PlacedIn(stack'[n], n, tool))
  BY <1>4, PlaceKept DEF Same
<1>7. ASSUME NEW n \in 1..(Depth - 1) PROVE FrameOK(stack'[n], n) /\ Source(n)' /\ Waits(n)'
  <2>1. FrameOK(stack[n], n) /\ Source(n) /\ Waits(n)
    BY <1>1, StackTypes
  <2>2. FrameOK(stack'[n], n)
    BY <1>4, <2>1
  <2>3. Source(n)'
    <3>1. \A i \in 1..n : i \in 1..(Depth - 1)
      BY <1>1
    <3> QED BY <1>1, <1>6, <2>1, <3>1, SourceKept
  <2>4. Waits(n)'
    <3>1. n < Depth - 1 => n + 1 \in 1..(Depth - 1) /\ n # Depth - 1 /\ n < Depth
      BY <1>1
    <3> QED BY <1>4, <1>5, <1>6, <2>1, <3>1 DEF Waits
  <2> QED BY <2>2, <2>3, <2>4
<1>8. ASSUME NEW n \in 1..(Depth - 1) PROVE PlacedIn(stack[n], n, tool)' /\ Nested(n)'
  <2>1. PlacedIn(stack[n], n, tool) /\ Nested(n)
    BY <1>1, StackTypes
  <2>2. n > 1 => n - 1 \in 1..(Depth - 1)
    BY <1>1
  <2>3. PlacedIn(stack'[n], n, tool)
    BY <1>6, <2>1
  <2>4. Nested(n)'
    BY <1>6, <2>1, <2>2 DEF Nested
  <2> QED BY <2>3, <2>4 DEF PlacedIn
<1>9. Rests
  <2>1. 1 \in 1..(Depth - 1)
    BY <1>1
  <2> QED BY <1>1, <1>6, <2>1 DEF Rests
<1>10. Depth' <= MaxDepth
  BY <1>1, <1>5, GuardActionAssumption DEF StackInv
<1> QED BY <1>4, <1>5, <1>7, <1>8, <1>9, <1>10 DEF StackInv

LEMMA Pushes ==
  ASSUME StackInv, Depth > 0, NEW g \in Frames, FrameOK(g, Depth + 1), stack' = Append(stack, g),
         runId' = runId, tool' = tool, g.id = FirstId(g.own, Top.id), Depth + 1 <= MaxDepth,
         Top.at \in {"resolving", "running"}, g.kind = "tool" => Top.at = "running" /\ Top.kind = "tool",
         PlacedIn(g, Depth + 1, tool)
  PROVE  StackInv' /\ Rests
<1>1. PICK m \in Nat : m = Depth
  BY StackTypes
<1>2. /\ stack' \in Seq(Frames) /\ Depth' = m + 1
      /\ \A n \in 1..m : stack'[n] = stack[n]
      /\ stack'[m + 1] = g
  BY <1>1, StackTypes, AppendProperties DEF Depth
<1>3. m > 0 /\ m \in 1..m /\ 1 \in 1..m /\ FrameOK(g, m + 1) /\ Top = stack[m] /\ m + 1 <= MaxDepth
      /\ PlacedIn(g, m + 1, tool) /\ (m + 1) - 1 = m
  BY <1>1 DEF Top
<1>4. \A n \in 1..m : /\ FrameOK(stack[n], n) /\ Source(n) /\ Waits(n)
                     /\ PlacedIn(stack[n], n, tool) /\ Nested(n)
  BY <1>1, StackTypes
<1> HIDE DEF Depth
<1>5. ASSUME NEW n \in 1..m PROVE FrameOK(stack'[n], n) /\ Source(n)' /\ Waits(n)'
  <2>1. Source(n)'
    <3>1. n \in Nat /\ \A i \in 1..n : i \in 1..m
      BY <1>1
    <3>2. \A i \in 1..n : stack'[i].own = stack[i].own
      BY <1>2, <3>1
    <3>3. stack'[n].id = stack[n].id /\ Source(n)
      BY <1>2, <1>4
    <3> QED BY <3>1, <3>2, <3>3, SourceKept
  <2>2. Waits(n)'
    <3>1. CASE n = m
      BY <1>2, <1>3, <3>1 DEF Waits
    <3>2. CASE n # m
      <4>1. n < m /\ n + 1 \in 1..m
        BY <1>1, <3>2
      <4>2. stack'[n] = stack[n] /\ stack'[n + 1] = stack[n + 1]
        BY <1>2, <4>1
      <4> QED BY <1>1, <1>4, <4>1, <4>2 DEF Waits
    <3> QED BY <3>1, <3>2
  <2> QED BY <1>2, <1>4, <2>1, <2>2
<1>6. Source(m + 1)'
  <2>1. \A i \in 1..(m + 1) : i \in 1..m \/ i = m + 1
    BY <1>1
  <2>2. \A i \in 1..m : i \in 1..(m + 1)
    BY <1>1
  <2>3. \A i \in 1..(m + 1) : i <= m + 1
    BY <1>1
  <2>4. CASE g.own # NoId
    <3>1. m + 1 \in Named(m + 1)' /\ \A j \in Named(m + 1)' : j <= m + 1
      <4>1. m + 1 \in 1..(m + 1)
        BY <1>1
      <4>2. Named(m + 1)' = {i \in 1..(m + 1) : stack'[i].own # NoId}
        BY DEF Named
      <4> QED BY <1>2, <2>3, <2>4, <4>1, <4>2, Zenon
    <3>2. g.id = g.own
      BY <2>4 DEF FirstId
    <3> QED BY <1>2, <3>1, <3>2 DEF Source
  <2>5. CASE g.own = NoId
    <3>1. Named(m + 1)' = Named(m)
      BY <1>2, <2>1, <2>2, <2>5 DEF Named
    <3>2. g.id = stack[m].id /\ Source(m)
      BY <1>3, <1>4, <2>5 DEF FirstId
    <3>3. \A i \in Named(m) : stack'[i] = stack[i]
      BY <1>2 DEF Named
    <3> QED BY <1>2, <3>1, <3>2, <3>3 DEF Source
  <2> QED BY <2>4, <2>5
<1>7. Waits(m + 1)'
  BY <1>1, <1>2 DEF Waits
<1>8. \A n \in 1..(m + 1) : n \in 1..m \/ n = m + 1
  BY <1>1
<1>9. ASSUME NEW n \in 1..m PROVE PlacedIn(stack[n], n, tool)' /\ Nested(n)'
  <2>1. n > 1 => n - 1 \in 1..m
    BY <1>1
  <2> QED BY <1>2, <1>4, <2>1 DEF PlacedIn, Nested
<1>10. PlacedIn(stack[m + 1], m + 1, tool)' /\ Nested(m + 1)'
  BY <1>2, <1>3 DEF PlacedIn, Nested
<1>11. Rests /\ Depth' <= MaxDepth
  BY <1>1, <1>2, <1>3 DEF Rests
<1> QED BY <1>2, <1>3, <1>5, <1>6, <1>7, <1>8, <1>9, <1>10, <1>11 DEF StackInv

(* A stack of one. *)
LEMMA Starts ==
  ASSUME NEW g \in Frames, FrameOK(g, 1), PlacedIn(g, 1, tool), stack' = <<g>>,
         runId' = runId, tool' = tool, g.id = FirstId(g.own, runId)
  PROVE  StackInv' /\ Depth' = 1 /\ stack'[1] = g
<1>1. stack' \in Seq(Frames) /\ Depth' = 1 /\ stack'[1] = g
  BY DEF Depth
<1>2. \A n \in 1..1 : n = 1
  OBVIOUS
<1>3. Source(1)'
  <2>1. CASE g.own # NoId
    <3>1. Named(1)' = {1}
      BY <1>1, <1>2, <2>1 DEF Named
    <3> QED BY <1>1, <2>1, <3>1 DEF Source, FirstId
  <2>2. CASE g.own = NoId
    <3>1. Named(1)' = {}
      BY <1>1, <1>2, <2>2 DEF Named
    <3> QED BY <1>1, <2>2, <3>1 DEF Source, FirstId
  <2> QED BY <2>1, <2>2
<1>4. Waits(1)'
  BY <1>1 DEF Waits
<1>5. PlacedIn(stack[1], 1, tool)' /\ Nested(1)'
  BY <1>1 DEF PlacedIn, Nested
<1>6. Depth' <= MaxDepth
  BY <1>1, GuardActionAssumption
<1> QED BY <1>1, <1>2, <1>3, <1>4, <1>5, <1>6 DEF StackInv

LEMMA Empties == ASSUME stack' = <<>> PROVE StackInv' /\ Rests /\ Depth' = 0
<1>1. stack' \in Seq(Frames) /\ Depth' = 0
  BY DEF Depth
<1>2. Depth' <= MaxDepth
  BY <1>1, GuardActionAssumption
<1> QED BY <1>1, <1>2 DEF StackInv, Rests

-----------------------------------------------------------------------------
(* The actions.                                                            *)

LEMMA GuardedFrame ==
  ASSUME NEW layers \in Seq(Layers), GuardAt(layers) > 0,
         NEW own \in AllIds, NEW posture \in {"deny", "allow"}, NEW context \in AllIds,
         NEW hook \in BOOLEAN, NEW n \in Nat, Guards(tool) \in Nat,
         n + Guards(layers) = Guards(tool) + 1
  PROVE  LET g == Guarded(layers, own, posture, context, hook) IN
         Begun(g, "tool", own, context, n) /\ PlacedIn(g, n, tool)
<1> DEFINE below == Below(layers)
           code == GuardAt(below) = 0
           f == Activation("tool", own, posture, context, hook, code)
           g == [f EXCEPT !.layers = below]
<1>1. code \in BOOLEAN /\ "tool" \in Kinds
  BY DEF Kinds
<1>2. below \in Seq(Layers) /\ Guards(layers) \in Nat \ {0} /\ Guards(below) = Guards(layers) - 1
  BY BelowIsLayers
<1> HIDE DEF below
<1>3. code <=> Guards(below) = 0
  <2> DEFINE I == {i \in DOMAIN below : below[i] = "guard"}
  <2>1. IF Guards(below) = 0 THEN GuardAt(below) = 0 ELSE GuardAt(below) \in I
    BY <1>2, FirstGuard
  <2>2. I \subseteq 1..Len(below)
    BY <1>2, LenProperties
  <2>3. 0 \notin I
    BY <2>2
  <2> HIDE DEF I
  <2> QED BY <2>1, <2>3
<1> HIDE DEF code
<1>4. f \in Frames /\ FrameOK(f, n) /\ f.kind = "tool" /\ f.own = own /\ f.id = FirstId(own, context)
      /\ f.code = code
  <2>1. Begun(f, "tool", own, context, n)
    BY <1>1, ActivationFrame
  <2> QED BY <2>1 DEF Begun, Activation
<1> HIDE DEF f
<1>5. g \in Frames
  BY <1>2, <1>4 DEF Frames
<1>6. /\ g.kind = f.kind /\ g.own = f.own /\ g.id = f.id /\ g.at = f.at /\ g.answer = f.answer
      /\ g.ran = f.ran /\ g.events = f.events /\ g.degraded = f.degraded /\ g.posture = f.posture
      /\ g.err = f.err /\ g.code = f.code /\ g.layers = below
  BY <1>4 DEF Frames
<1> HIDE DEF g
<1>7. FrameOK(g, n)
  BY <1>4, <1>6 DEF FrameOK, Consented, Ended, Refused, Outcome
<1>8. PlacedIn(g, n, tool)
  <2>1. n + Guards(below) = Guards(tool)
    <3>1. PICK k \in Nat : k = Guards(layers)
      BY <1>2
    <3>2. n + k = Guards(tool) + 1 /\ Guards(below) = k - 1
      BY <1>2, <3>1
    <3> QED BY <3>1, <3>2
  <2> QED BY <1>3, <1>4, <1>6, <2>1 DEF PlacedIn
<1> QED BY <1>4, <1>5, <1>6, <1>7, <1>8 DEF Guarded, g, f, code, below, Begun

LEMMA AnswersKeep ==
  ASSUME AgentInv, HookReturns \/ GuardAnswers, runId' = runId, tool' = tool PROVE StackInv' /\ Rests
<1>1. StackInv /\ Depth > 0 /\ Depth \in Nat /\ Top \in Frames /\ FrameOK(Top, Depth)
  BY StackTypes DEF AgentInv, HookReturns, GuardAnswers
<1> HIDE DEF Depth
<1>2. Top.heard \in Chains /\ Top.events = <<>> /\ ~Top.ran
  BY <1>1 DEF Frames, FrameOK, HookReturns, GuardAnswers
<1>3. CASE HookReturns
  <2>1. Top.at = "resolving" /\ Top.answer = NoAnswer
    BY <1>1, <1>3 DEF HookReturns, FrameOK
  <2>2. CASE SetTop([Top EXCEPT !.at = "asking", !.heard = NoError])
    <3> DEFINE g == [Top EXCEPT !.at = "asking", !.heard = NoError]
    <3>1. g \in Frames /\ Same(g, Top)
      BY <1>1, ChainTypes DEF Frames, Same, Places
    <3>2. g.at = "asking" /\ g.ran = Top.ran /\ g.events = Top.events
      BY <1>1 DEF Frames
    <3> HIDE DEF g
    <3>3. FrameOK(g, Depth)
      BY <1>2, <3>2 DEF FrameOK
    <3> QED BY <1>1, <2>2, <3>1, <3>3, TopChanges DEF g
  <2>3. ASSUME NEW err \in {Plain, Top.heard} \ {NoError}, SetTop(Settles(Top, NoAnswer, err))
        PROVE  StackInv' /\ Rests
    <3>1. err \in Chains /\ err # NoError
      BY <1>2, <2>3, ChainTypes
    <3>2. LET g == Settles(Top, NoAnswer, err) IN g \in Frames /\ Same(g, Top) /\ FrameOK(g, Depth)
      BY <1>1, <1>2, <2>1, <3>1, SettlesFrame, AnswersDiffer
    <3> QED BY <1>1, <2>3, <3>2, TopChanges
  <2> QED BY <1>3, <2>2, <2>3 DEF HookReturns
<1>4. CASE GuardAnswers
  <2>0. PICK a \in Answers : \E err \in Errors(a) : SetTop(Settles([Top EXCEPT !.answer = a], a, err))
    BY <1>4 DEF GuardAnswers
  <2>1. PICK err \in Errors(a) : SetTop(Settles([Top EXCEPT !.answer = a], a, err))
    BY <2>0
  <2> DEFINE f == [Top EXCEPT !.answer = a]
  <2>2. f \in Frames /\ Same(f, Top) /\ f.answer = a /\ f.events = Top.events /\ f.ran = Top.ran
    BY <1>1 DEF Frames, Same
  <2> HIDE DEF f
  <2>3. err \in {NoError, Plain} /\ err \in Chains
    BY ChainTypes, AnswersDiffer
  <2>4. a # NoAnswer
    BY DEF Answers, Answer, NoAnswer, Misconfigured, Allowed
  <2>5. LET g == Settles(f, a, err) IN g \in Frames /\ Same(g, f) /\ FrameOK(g, Depth)
    BY <1>1, <1>2, <2>2, <2>3, <2>4, SettlesFrame
  <2> QED BY <1>1, <2>1, <2>2, <2>5, TopChanges DEF f, Same
<1> QED BY <1>3, <1>4

LEMMA RunningKeeps ==
  ASSUME AgentInv, Depth > 0, Top.at = "running", NEW err \in Chains, SetTop(Finished(Top, err)),
         runId' = runId, tool' = tool
  PROVE  StackInv' /\ Rests
<1>1. StackInv /\ Depth \in Nat /\ Top \in Frames /\ FrameOK(Top, Depth)
  BY StackTypes DEF AgentInv
<1> HIDE DEF Depth
<1>2. LET g == Finished(Top, err) IN g \in Frames /\ Same(g, Top) /\ FrameOK(g, Depth)
  BY <1>1, FinishedFrame
<1> QED BY <1>1, <1>2, TopChanges

LEMMA NestKeeps ==
  ASSUME AgentInv, Nest \/ RefusedNil, runId' = runId, tool' = tool PROVE StackInv' /\ Rests
<1>1. PICK m \in Nat : m = Depth
  BY StackTypes DEF AgentInv
<1>2. /\ StackInv /\ m > 0 /\ Top \in Frames /\ FrameOK(Top, m)
      /\ Top.at \in {"resolving", "running"} /\ m + 1 <= MaxDepth
  <2>1. Depth \in 1..(MaxDepth - 1) /\ InCode
    BY DEF Nest, RefusedNil
  <2> HIDE DEF Depth
  <2>2. m > 0 /\ m + 1 <= MaxDepth
    BY <1>1, <2>1, GuardActionAssumption
  <2> QED BY <1>1, <2>1, <2>2, StackTypes DEF AgentInv, InCode
<1>3. CASE Nest
  <2>1. PICK own \in Ids \cup {NoId}, posture \in {"deny", "allow"}, hook \in BOOLEAN :
          stack' = Append(stack, Activation("nested", own, posture, ContextOf(Top), hook, TRUE))
    BY <1>3 DEF Nest
  <2> DEFINE context == ContextOf(Top)
             next == m + 1
             code == TRUE
             kind == "nested"
             g == Activation(kind, own, posture, context, hook, code)
  <2>2. context = Top.id /\ context \in AllIds /\ own \in AllIds
    BY <1>2 DEF ContextOf, Frames, AllIds
  <2>3. kind \in Kinds /\ code \in BOOLEAN
    BY DEF Kinds
  <2>4. stack' = Append(stack, g)
    BY <2>1
  <2> HIDE DEF context, code, kind, next
  <2>5. Begun(g, kind, own, context, next) /\ g.layers = <<>>
    <3>1. LET b == Activation(kind, own, posture, context, hook, code) IN
          Begun(b, kind, own, context, next) /\ b.layers = <<>>
      BY <2>2, <2>3, ActivationFrame
    <3> QED BY <3>1
  <2> HIDE DEF g, Depth
  <2>6. g.kind # "tool" /\ PlacedIn(g, next, tool)
    BY <2>5 DEF Begun, kind, PlacedIn
  <2> QED BY <1>1, <1>2, <2>2, <2>4, <2>5, <2>6, Pushes DEF Begun, next
<1>4. CASE RefusedNil
  <2> DEFINE err == Unavailable(m + 1, Plain)
             g == [Top EXCEPT !.heard = err]
  <2>1. err \in Chains
    <3>1. m + 1 \in Nat
      BY <1>1
    <3> QED BY <3>1, ChainTypes
  <2>2. SetTop(g)
    BY <1>1, <1>4 DEF RefusedNil
  <2> HIDE DEF err, Depth
  <2>3. g \in Frames /\ Same(g, Top) /\ FrameOK(g, m)
    BY <1>2, <2>1, HeardFrame
  <2> HIDE DEF g
  <2> QED BY <1>1, <1>2, <2>2, <2>3, TopChanges
<1> QED BY <1>3, <1>4

(* A call returns to the one it was made from, which was waiting. *)
LEMMA CallerWaits ==
  ASSUME StackInv, Depth > 1
  PROVE  LET f == stack[Depth - 1] IN
         /\ f \in Frames /\ FrameOK(f, Depth - 1) /\ f.at \in {"resolving", "running"}
         /\ Top.kind = "tool" => f.at = "running"
         /\ SubSeq(stack, 1, Depth - 1)[Depth - 1] = f
         /\ DOMAIN SubSeq(stack, 1, Depth - 1) = 1..(Depth - 1)
<1>1. PICK m \in Nat : m = Depth
  BY StackTypes
<1> HIDE DEF Depth
<1>2. m - 1 \in 1..m /\ m - 1 < m /\ (m - 1) + 1 = m /\ \A i \in 1..(m - 1) : i \in 1..m
  BY <1>1
<1>3. stack[m - 1] \in Frames /\ FrameOK(stack[m - 1], m - 1) /\ Waits(m - 1)
      /\ \A i \in 1..(m - 1) : stack[i] \in Frames
  BY <1>1, <1>2, StackTypes
<1>4. /\ SubSeq(stack, 1, m - 1) \in Seq(Frames) /\ Len(SubSeq(stack, 1, m - 1)) = m - 1
      /\ SubSeq(stack, 1, m - 1)[m - 1] = stack[m - 1]
  <2>1. 1 \in Int /\ m - 1 \in Int /\ 1 <= m - 1 /\ m - 1 - 1 + 1 = m - 1 /\ m - 1 \in 1..(m - 1 - 1 + 1)
        /\ 1 + (m - 1) - 1 = m - 1
    BY <1>1
  <2> QED BY <1>3, <2>1, SubSeqProperties
<1>5. DOMAIN SubSeq(stack, 1, m - 1) = 1..(m - 1)
  BY <1>4, LenProperties
<1> QED BY <1>1, <1>2, <1>3, <1>4, <1>5 DEF Waits, Top

LEMMA ReturnsKeep ==
  ASSUME AgentInv, NestedReturns \/ ToolReturns, runId' = runId, tool' = tool PROVE StackInv' /\ Rests
<1>1. PICK m \in Nat : m = Depth
  BY StackTypes DEF AgentInv
<1>2. StackInv /\ m > 0 /\ Top \in Frames
  BY <1>1, StackTypes DEF AgentInv, NestedReturns, ToolReturns
<1>3. Top.err \in Chains /\ NoError \in Chains
  BY <1>2, ChainTypes DEF Frames
<1> DEFINE f == stack[m - 1]
           below == SubSeq(stack, 1, m - 1)
<1>4. m > 1 => /\ f \in Frames /\ FrameOK(f, m - 1) /\ f.at \in {"resolving", "running"}
               /\ Top.kind = "tool" => f.at = "running"
               /\ below[m - 1] = f /\ DOMAIN below = 1..(m - 1)
  BY <1>1, <1>2, CallerWaits
<1>5. m > 1 => m - 1 \in DOMAIN below
  <2> HIDE DEF Depth
  <2>1. m > 1 => m - 1 \in 1..(m - 1)
    BY <1>1
  <2> QED BY <1>4, <2>1
<1>6. CASE NestedReturns
  <2> DEFINE g == [f EXCEPT !.heard = Top.err]
  <2>1. m > 1 /\ stack' = [below EXCEPT ![m - 1].heard = Top.err]
    BY <1>1, <1>6 DEF NestedReturns
  <2> HIDE DEF below, Depth
  <2>2. stack' = [below EXCEPT ![m - 1] = [below[m - 1] EXCEPT !.heard = Top.err]]
    BY <1>5, <2>1
  <2>3. stack' = [below EXCEPT ![m - 1] = g]
    BY <1>4, <2>1, <2>2
  <2> HIDE DEF f
  <2>4. g \in Frames /\ Same(g, f) /\ FrameOK(g, m - 1)
    <3>1. f.at # "returned"
      BY <1>4, <2>1
    <3> QED BY <1>3, <1>4, <2>1, <3>1, HeardFrame
  <2> HIDE DEF g
  <2> QED BY <1>1, <1>2, <2>1, <2>3, <2>4, Pops DEF below, f
<1>7. CASE ToolReturns
  <2>1. CASE m = 1
    BY <1>1, <1>7, <2>1, Empties DEF ToolReturns
  <2>2. CASE m > 1
    <3> DEFINE err == IF Reply(Top).kind = "through" THEN Top.err ELSE NoError
               g == Finished(f, err)
    <3>1. Depth # 1 /\ Top.kind = "tool"
      BY <1>1, <1>7, <2>2 DEF ToolReturns
    <3>2. stack' = [SubSeq(stack, 1, Depth - 1) EXCEPT ![Depth - 1] = Finished(@, err)]
      BY <1>7, <3>1 DEF ToolReturns
    <3>3. stack' = [below EXCEPT ![m - 1] = Finished(@, err)]
      BY <1>1, <3>2
    <3>4. err \in Chains
      BY <1>3
    <3> HIDE DEF err, below, Depth
    <3>5. stack' = [below EXCEPT ![m - 1] = Finished(below[m - 1], err)]
      BY <1>5, <2>2, <3>3
    <3>6. stack' = [below EXCEPT ![m - 1] = g]
      BY <1>4, <2>2, <3>5
    <3> HIDE DEF f
    <3>7. g \in Frames /\ Same(g, f) /\ FrameOK(g, m - 1)
      BY <1>4, <2>2, <3>1, <3>4, FinishedFrame
    <3> HIDE DEF g
    <3> QED BY <1>1, <1>2, <2>2, <3>6, <3>7, Pops DEF below, f
  <2> HIDE DEF Depth
  <2>3. m = 1 \/ m > 1
    BY <1>1, <1>2
  <2> QED BY <2>1, <2>2, <2>3
<1> QED BY <1>6, <1>7

LEMMA ActionKeeps ==
  ASSUME AgentInv, ActionStep, runId' = runId, tool' = tool PROVE StackInv' /\ Rests
<1>1. CASE FnReturns
  <2>1. PICK err \in {NoError, Plain, Top.heard} : SetTop(Finished(Top, err))
    BY <1>1 DEF FnReturns
  <2>2. Top.heard \in Chains
    BY <1>1, StackTypes DEF FnReturns, AgentInv, Frames
  <2>3. err \in Chains
    BY <2>2, ChainTypes
  <2> QED BY <1>1, <2>1, <2>3, RunningKeeps DEF FnReturns
<1> QED BY <1>1, AnswersKeep, NestKeeps, ReturnsKeep DEF ActionStep

(* The rest of the invariant under actions that leave its variables alone. *)
LEMMA RunRests ==
  ASSUME RunInv, Rests, UNCHANGED <<phase, passed, turn, reply, unscreened>> PROVE RunInv'
BY DEF RunInv, Rests

LEMMA ToolRests == ASSUME ToolInv, UNCHANGED <<given, tool, wanted>> PROVE ToolInv'
BY DEF ToolInv

LEMMA ToolTypes ==
  ASSUME ToolInv
  PROVE  /\ tool \in Seq(Layers) /\ Guards(tool) \in Nat /\ Guards(tool) <= MaxDepth
         /\ Guards(given) \in Nat
<1> DEFINE more == <<"guard">> \o given
<1>1. given \in Seq(Layers) /\ Guards(given) < MaxDepth /\ (tool = given \/ tool = more)
  BY DEF ToolInv
<1>2. Guards(given) \in Nat /\ more \in Seq(Layers) /\ Guards(more) = Guards(given) + 1
  BY <1>1, FirstGuard, GuardingAdds
<1> HIDE DEF more
<1> QED BY <1>1, <1>2, GuardActionAssumption

LEMMA InnermostFirst ==
  ASSUME AgentInv, CallInner
  PROVE  /\ Top.kind = "tool" /\ Top.layers \in Seq(Layers)
         /\ Depth + 1 + Guards(Top.layers) = Guards(tool) + 1 /\ Depth + 1 <= MaxDepth
<1>1. PICK m \in Nat : m = Depth /\ m \in 1..m
  BY StackTypes DEF AgentInv, CallInner
<1> HIDE DEF Depth
<1>2. Top \in Frames /\ PlacedIn(Top, m, tool) /\ Top.layers \in Seq(Layers)
  BY <1>1, StackTypes DEF AgentInv, Top, Frames
<1>3. Guards(Top.layers) \in Nat \ {0} /\ GuardAt(Top.layers) > 0
  BY <1>2, BelowIsLayers DEF CallInner
<1>4. Top.kind = "tool"
  <2>1. GuardAt(<<>>) = 0
    BY DEF GuardAt, SelectInSeq
  <2>2. Top.layers # <<>>
    BY <1>3, <2>1
  <2> QED BY <1>2, <2>2 DEF PlacedIn
<1>5. m + Guards(Top.layers) = Guards(tool)
  BY <1>2, <1>4 DEF PlacedIn
<1>6. Guards(tool) \in Nat /\ Guards(tool) <= MaxDepth
  BY ToolTypes DEF AgentInv
<1>7. PICK k \in Nat \ {0} : k = Guards(Top.layers)
  BY <1>3
<1>8. m + k = Guards(tool) /\ MaxDepth \in Nat
  BY <1>5, <1>7, GuardActionAssumption
<1>9. m + 1 + k = Guards(tool) + 1 /\ m + 1 <= MaxDepth
  BY <1>6, <1>8
<1> QED BY <1>1, <1>2, <1>4, <1>7, <1>9

LEMMA CallsKeep == ASSUME AgentInv, CallTool \/ CallInner PROVE AgentInv'
<1>1. StackInv /\ RunInv /\ ToolInv /\ runId \in AllIds /\ tool \in Seq(Layers) /\ runId' = runId /\ tool' = tool
      /\ UNCHANGED <<phase, passed, turn, given, unscreened, wanted>> /\ Guards(tool) \in Nat
  BY ToolTypes DEF AgentInv, CallTool, CallInner, runVars
<1>2. CASE CallTool
  <2>1. GuardAt(tool) > 0
    BY <1>2 DEF CallTool
  <2>2. PICK own \in Ids \cup {NoId}, posture \in {"deny", "allow"}, hook \in BOOLEAN :
          stack' = <<Guarded(tool, own, posture, runId, hook)>>
    BY <1>2 DEF CallTool
  <2> DEFINE context == runId
             g == Guarded(tool, own, posture, context, hook)
  <2>3. own \in AllIds /\ context \in AllIds /\ 1 \in Nat /\ 1 + Guards(tool) = Guards(tool) + 1
    BY <1>1 DEF AllIds
  <2>4. stack' = <<g>>
    BY <2>2
  <2> HIDE DEF context
  <2>5. Begun(g, "tool", own, context, 1) /\ PlacedIn(g, 1, tool)
    BY <1>1, <2>1, <2>3, GuardedFrame
  <2> HIDE DEF g
  <2>6. StackInv' /\ Depth' = 1 /\ stack'[1] = g /\ g.kind = "tool"
    BY <1>1, <2>4, <2>5, Starts DEF Begun, context
  <2>7. RunInv'
    <3>1. phase = "provider" /\ reply' = [kind |-> "none", depth |-> 0]
      BY <1>2 DEF CallTool, NoReply
    <3>2. reply'.kind = "none" /\ reply'.depth \in 0..MaxDepth
      BY <3>1, GuardActionAssumption
    <3> QED BY <1>1, <2>6, <3>1, <3>2 DEF RunInv
  <2> QED BY <1>1, <2>6, <2>7, ToolRests DEF AgentInv
<1>3. CASE CallInner
  <2>1. PICK m \in Nat : m = Depth
    BY <1>1, StackTypes
  <2>2. m > 0 /\ Top.at = "running" /\ GuardAt(Top.layers) > 0 /\ Top \in Frames
    BY <1>1, <1>3, <2>1, StackTypes DEF CallInner
  <2>3. PICK own \in Ids \cup {NoId}, posture \in {"deny", "allow"}, hook \in BOOLEAN :
          stack' = Append(stack, Guarded(Top.layers, own, posture, ContextOf(Top), hook))
    BY <1>3 DEF CallInner
  <2> DEFINE context == ContextOf(Top)
             layers == Top.layers
             next == m + 1
             g == Guarded(layers, own, posture, context, hook)
  <2>4. own \in AllIds /\ context = Top.id /\ context \in AllIds /\ GuardAt(layers) > 0
    BY <2>2 DEF AllIds, ContextOf, Frames
  <2>5. stack' = Append(stack, g)
    BY <2>3
  <2> HIDE DEF Depth
  <2>6. /\ Top.kind = "tool" /\ layers \in Seq(Layers)
        /\ next + Guards(layers) = Guards(tool) + 1 /\ next <= MaxDepth /\ next \in Nat
    BY <1>3, <2>1, InnermostFirst
  <2> HIDE DEF context, layers, next
  <2>7. Begun(g, "tool", own, context, next) /\ PlacedIn(g, next, tool)
    BY <1>1, <2>4, <2>6, GuardedFrame
  <2> HIDE DEF g
  <2>8. StackInv' /\ Rests
    BY <1>1, <2>1, <2>2, <2>4, <2>5, <2>6, <2>7, Pushes DEF Begun, next
  <2>9. reply' = reply
    BY <1>3 DEF CallInner, runVars
  <2> QED BY <1>1, <2>8, <2>9, RunRests, ToolRests DEF AgentInv
<1> QED BY <1>2, <1>3

(* An activation that is over without an error had consent. *)
LEMMA RefusedErrs == ASSUME NEW f, NEW n \in Nat, Refused(f, n) PROVE f.err # NoError
<1>1. /\ Denied(n, NoError) # NoError /\ Denied(n, Plain) # NoError
      /\ \A cause \in Chains : Unavailable(n, cause) # NoError
  BY ChainTypes
<1>2. \/ f.err = Denied(n, NoError) \/ f.err = Denied(n, Plain)
      \/ \E cause \in Chains : f.err = Unavailable(n, cause)
  BY DEF Refused
<1> QED BY <1>1, <1>2

LEMMA AdmitsByConsent ==
  ASSUME NEW f, NEW n \in Nat, FrameOK(f, n), f.at = "returned" PROVE Admits(f) => Consented(f)
BY RefusedErrs DEF FrameOK, Admits

LEMMA ScreenKeeps == ASSUME AgentInv, Screen \/ Screened \/ Admitted PROVE AgentInv'
<1>1. StackInv /\ RunInv /\ ToolInv /\ runId \in AllIds /\ runId' = runId /\ tool' = tool /\ given' = given
      /\ UNCHANGED <<passed, turn, wanted>>
  BY DEF AgentInv, Screen, Screened, Admitted, runVars
<1>2. CASE Screen
  <2>0. phase = "begun" /\ reply' = reply
    BY <1>2 DEF Screen
  <2>1. CASE stack' = stack /\ phase' = "guarding"
             /\ \E inbound \in BOOLEAN : /\ ~(inbound /\ HasUserContent(turn))
                                       /\ unscreened' = unscreened \cup (IF inbound THEN turn ELSE {})
    <3>0. unscreened' \subseteq {"approval"} /\ unscreened' \subseteq Contents
      BY <1>1, <2>0, <2>1 DEF RunInv, HasUserContent
    <3>1. ~(Depth > 0) /\ Depth' = Depth
      BY <1>1, <2>0, <2>1 DEF RunInv, Depth
    <3>2. StackInv'
      BY <1>1, <2>1 DEF StackInv, Depth, Source, Named, Waits, PlacedIn, Nested
    <3>3. RunInv'
      BY <1>1, <2>0, <2>1, <3>0, <3>1 DEF RunInv
    <3> QED BY <1>1, <3>2, <3>3, ToolRests DEF AgentInv
  <2>2. CASE phase' = "screening" /\ unscreened' = unscreened
             /\ \E own \in Ids \cup {NoId}, posture \in {"deny", "allow"}, hook \in BOOLEAN :
                  stack' = <<Activation("inbound", own, posture, runId, hook, FALSE)>>
    <3>1. PICK own \in Ids \cup {NoId}, posture \in {"deny", "allow"}, hook \in BOOLEAN :
            stack' = <<Activation("inbound", own, posture, runId, hook, FALSE)>>
      BY <2>2
    <3> DEFINE code == FALSE
               g == Activation("inbound", own, posture, runId, hook, code)
    <3>2. own \in AllIds /\ code \in BOOLEAN /\ "inbound" \in Kinds
      BY DEF AllIds, Kinds
    <3>3. stack' = <<g>>
      BY <3>1
    <3> HIDE DEF code
    <3>4. Begun(g, "inbound", own, runId, 1) /\ g.layers = <<>>
      BY <1>1, <3>2, ActivationFrame
    <3> HIDE DEF g
    <3>5. PlacedIn(g, 1, tool) /\ g.kind = "inbound"
      BY <3>4 DEF Begun, PlacedIn
    <3>6. StackInv' /\ Depth' = 1 /\ stack'[1] = g
      BY <1>1, <3>3, <3>4, <3>5, Starts DEF Begun
    <3>7. RunInv'
      BY <1>1, <2>0, <2>2, <3>5, <3>6 DEF RunInv
    <3> QED BY <1>1, <3>6, <3>7, ToolRests DEF AgentInv
  <2> QED BY <1>1, <1>2, <2>1, <2>2 DEF Screen
<1>3. CASE Screened
  <2>1. StackInv' /\ Depth' = 0
    BY <1>3, Empties DEF Screened
  <2>2. RunInv'
    <3>1. /\ phase = "screening"
          /\ \/ phase' = "guarding" /\ reply' = [kind |-> "none", depth |-> 0] /\ Admits(Top)
             \/ phase' = "ended" /\ reply' = [kind |-> "refused", depth |-> 0]
          /\ unscreened' = IF Consented(Top) THEN unscreened ELSE unscreened \cup turn
      BY <1>3 DEF Screened, NoReply
    <3>2. /\ reply'.kind \in {"none", "refused"} /\ reply'.depth \in 0..MaxDepth
          /\ reply'.kind = "refused" => phase' = "ended"
      BY <3>1, GuardActionAssumption
    <3>3. Admits(Top) => Consented(Top)
      <4>1. Depth > 0 /\ Top.at = "returned"
        BY <1>3 DEF Screened
      <4>2. FrameOK(Top, Depth) /\ Depth \in Nat
        BY <1>1, <4>1, StackTypes
      <4> HIDE DEF Depth
      <4> QED BY <4>1, <4>2, AdmitsByConsent
    <3>4. unscreened' \subseteq Contents /\ (phase' # "ended" => unscreened' \subseteq {"approval"})
      BY <1>1, <3>1, <3>3 DEF RunInv
    <3> QED BY <1>1, <2>1, <3>1, <3>2, <3>4 DEF RunInv
  <2> QED BY <1>1, <2>1, <2>2, ToolRests DEF AgentInv
<1>4. CASE Admitted
  <2>1. Depth > 0 /\ Top.at = "running" /\ NoError \in Chains /\ SetTop(Finished(Top, NoError))
        /\ UNCHANGED <<phase, passed, turn, reply, unscreened>>
    BY <1>4, ChainTypes DEF Admitted, runVars
  <2>2. StackInv' /\ Rests
    BY <1>1, <2>1, RunningKeeps
  <2> QED BY <1>1, <2>1, <2>2, RunRests, ToolRests DEF AgentInv
<1> QED BY <1>2, <1>3, <1>4

(* Of the chain of a refused call, errors.As finds the call's own link.    *)
LEMMA RefusedReplies ==
  ASSUME NEW f, ~f.ran, Refused(f, 1)
  PROVE  /\ Reply(f).kind \in {"denied", "unavailable"}
         /\ Reply(f).kind = "denied" <=> f.answer.conclusion = "DENY"
         /\ Reply(f).kind = "denied" => Reply(f).depth = 1
<1>1. CASE f.answer.conclusion # "DENY"
  <2>1. PICK cause \in Chains : f.err = Unavailable(1, cause)
    BY <1>1 DEF Refused
  <2>2. As(f.err, "unavailable")
    <3>1. 1 \in Nat
      OBVIOUS
    <3>2. f.err[1] = [kind |-> "unavailable", depth |-> 1] /\ 1 \in DOMAIN f.err
      BY <2>1, <3>1, ChainTypes
    <3>3. f.err[1].kind = "unavailable"
      BY <3>2
    <3> QED BY <3>2, <3>3 DEF As
  <2> QED BY <1>1, <2>2 DEF Reply
<1>2. CASE f.answer.conclusion = "DENY"
  <2> DEFINE link == [kind |-> "denied", depth |-> 1]
             plain == [kind |-> "plain", depth |-> 0]
  <2>1. \E cause \in {NoError, Plain} : f.err = <<link>> \o cause
    BY <1>2 DEF Refused, Denied
  <2>2. Len(f.err) \in {1, 2} /\ DOMAIN f.err = 1..Len(f.err) /\ f.err[1] = link
        /\ (Len(f.err) = 2 => f.err[2] = plain)
    <3>1. PICK cause \in {NoError, Plain} : f.err = <<link>> \o cause
      BY <2>1
    <3>2. <<link>> \in Chains /\ Len(<<link>>) = 1 /\ <<link>>[1] = link
      BY DEF Chains, Links
    <3>3. cause \in Chains /\ Len(cause) \in {0, 1} /\ (Len(cause) = 1 => cause[1] = plain)
      BY ChainTypes DEF NoError, Plain
    <3> HIDE DEF link, plain
    <3>4. /\ f.err \in Chains /\ Len(f.err) = 1 + Len(cause)
          /\ \A i \in 1..(1 + Len(cause)) : f.err[i] = IF i <= 1 THEN <<link>>[i] ELSE cause[i - 1]
      BY <3>1, <3>2, <3>3, ConcatProperties DEF Chains
    <3>5. DOMAIN f.err = 1..Len(f.err)
      BY <3>4, LenProperties DEF Chains
    <3> QED BY <3>2, <3>3, <3>4, <3>5
  <2>3. ~As(f.err, "unavailable") /\ As(f.err, "denied")
    BY <2>2 DEF As
  <2> DEFINE I == {i \in 1..Len(f.err) : f.err[i].kind = "denied"}
  <2>4. SelectInSeq(f.err, LAMBDA x : x.kind = "denied") = IF I # {} THEN Min(I) ELSE 0
    BY DEF SelectInSeq
  <2>5. I = {1}
    BY <2>2
  <2>6. Min(I) = 1
    BY <2>5 DEF Min
  <2>7. Target(f.err, "denied") = 1
    BY <2>2, <2>4, <2>5, <2>6 DEF Target
  <2> QED BY <1>2, <2>3, <2>7 DEF Reply
<1> QED BY <1>1, <1>2

LEMMA ToolReturnsKeeps == ASSUME AgentInv, ToolReturns PROVE AgentInv'
<1>1. StackInv /\ RunInv /\ ToolInv /\ runId \in AllIds /\ runId' = runId /\ tool' = tool /\ given' = given
      /\ UNCHANGED <<phase, passed, turn, unscreened, wanted>>
  BY DEF AgentInv, ToolReturns
<1>2. StackInv' /\ Rests
  BY <1>1, ReturnsKeep
<1>3. CASE reply' = reply
  BY <1>1, <1>2, <1>3, RunRests, ToolRests DEF AgentInv
<1>4. CASE reply' = Reply(Top) /\ Depth = 1
  <2>1. FrameOK(Top, 1)
    BY <1>1, <1>4, StackTypes
  <2>2. Reply(Top).kind \in {"through", "unavailable", "denied"} /\ Reply(Top).depth \in {0, 1}
    <3>1. CASE Top.ran
      BY <3>1 DEF Reply
    <3>2. CASE ~Top.ran
      <4>1. Top.at = "returned"
        BY DEF ToolReturns
      <4>2. Refused(Top, 1)
        BY <2>1, <3>2, <4>1 DEF FrameOK
      <4>3. /\ Reply(Top).kind \in {"denied", "unavailable"}
            /\ Reply(Top).kind = "denied" => Reply(Top).depth = 1
        BY <3>2, <4>2, RefusedReplies
      <4>4. Reply(Top).kind # "denied" => Reply(Top).depth = 0
        BY DEF Reply
      <4> QED BY <4>3, <4>4
    <3> QED BY <3>1, <3>2
  <2>3. 0 \in 0..MaxDepth /\ 1 \in 0..MaxDepth
    BY GuardActionAssumption
  <2>4. RunInv'
    <3>1. reply'.kind # "refused"
      BY <1>4, <2>2
    <3> QED BY <1>1, <1>2, <1>4, <2>2, <2>3, <3>1 DEF RunInv, Rests
  <2> QED BY <1>1, <1>2, <2>4, ToolRests DEF AgentInv
<1> QED BY <1>3, <1>4 DEF ToolReturns

LEMMA FreshTool == ASSUME NEW t \in Towers PROVE t \in Seq(Layers) /\ Guards(t) < MaxDepth
BY AgentAssumption DEF Layers

LEMMA RunKeeps ==
  ASSUME AgentInv, RunBegins \/ GuardTools \/ ProviderEnds \/ UNCHANGED vars PROVE AgentInv'
<1>1. StackInv /\ RunInv /\ ToolInv /\ runId \in AllIds
  BY DEF AgentInv
<1>2. CASE RunBegins
  <2>1. PICK context \in Ids \cup {NoId}, session \in Ids \cup {NoId} : runId' = FirstId(context, session)
    BY <1>2 DEF RunBegins, Fresh
  <2>2. runId' \in AllIds
    BY <2>1 DEF FirstId, AllIds
  <2>3. ToolInv'
    <3>1. PICK t \in Towers : given' = t /\ tool' = t /\ wanted' = FALSE
      BY <1>2 DEF RunBegins, Fresh
    <3> QED BY <3>1, FreshTool DEF ToolInv
  <2>4. StackInv' /\ Depth' = 0
    BY <1>2, Empties DEF RunBegins, Fresh
  <2>5. RunInv'
    <3>1. phase' = "begun" /\ turn' \subseteq Contents /\ passed' = 0
          /\ reply' = [kind |-> "none", depth |-> 0] /\ unscreened' = {}
      BY <1>2 DEF RunBegins, Fresh, NoReply
    <3>2. reply'.kind = "none" /\ reply'.depth \in 0..MaxDepth
      BY <3>1, GuardActionAssumption
    <3>3. passed' \in 0..Installed /\ passed' < Installed
      BY <3>1, AgentAssumption
    <3> QED BY <2>4, <3>1, <3>2, <3>3 DEF RunInv
  <2> QED BY <2>2, <2>3, <2>4, <2>5 DEF AgentInv
<1>3. CASE GuardTools
  <2>1. stack' = stack /\ runId' = runId /\ given' = given /\ reply' = reply /\ phase = "guarding"
        /\ unscreened' = unscreened
    BY <1>3 DEF GuardTools
  <2>2. ~(Depth > 0) /\ Depth' = Depth /\ Depth \in Nat
    BY <1>1, <2>1, StackTypes DEF RunInv, Depth
  <2>3. StackInv'
    BY <1>1, <2>1, <2>2 DEF StackInv
  <2>4. RunInv'
    <3>1. CASE Passes
      <4>1. passed \in 0..Installed /\ passed < Installed /\ Installed \in Nat
        BY <1>1, <2>1, AgentAssumption DEF RunInv
      <4>2. passed' \in 0..Installed /\ (passed' # Installed => passed' < Installed)
        BY <3>1, <4>1 DEF Passes
      <4>3. phase' = (IF passed' = Installed THEN "provider" ELSE "begun") /\ turn' \subseteq Contents
        BY <1>1, <3>1 DEF Passes, RunInv
      <4> QED BY <1>1, <2>1, <2>2, <4>2, <4>3 DEF RunInv
    <3>2. CASE phase' = "ended" /\ UNCHANGED <<passed, turn>>
      BY <1>1, <2>1, <2>2, <3>2 DEF RunInv
    <3> QED BY <1>3, <3>1, <3>2 DEF GuardTools
  <2>5. ToolInv'
    <3> DEFINE more == <<"guard">> \o given
    <3>1. CASE tool' = tool /\ wanted' = wanted
      BY <1>1, <2>1, <3>1, ToolRests
    <3>2. ASSUME NEW wants \in BOOLEAN, wanted' = (wanted \/ wants),
                 tool' = IF wants /\ ~AlreadyGuarded(tool) THEN <<"guard">> \o tool ELSE tool
          PROVE  ToolInv'
      <4>1. /\ given \in Seq(Layers) /\ Guards(given) < MaxDepth
            /\ wanted \in BOOLEAN /\ (wanted => AlreadyGuarded(tool))
            /\ tool = given \/ (tool = more /\ ~AlreadyGuarded(given))
        BY <1>1 DEF ToolInv
      <4>2. AlreadyGuarded(more)
        BY <4>1, GuardingAdds
      <4>3. CASE wants /\ ~AlreadyGuarded(tool)
        <5>1. tool = given /\ tool' = more
          BY <3>2, <4>1, <4>2, <4>3
        <5> HIDE DEF more
        <5> QED BY <2>1, <3>2, <4>1, <4>2, <4>3, <5>1 DEF ToolInv, more
      <4>4. CASE ~(wants /\ ~AlreadyGuarded(tool))
        <5>1. tool' = tool /\ (wanted' => AlreadyGuarded(tool)) /\ wanted' \in BOOLEAN
          BY <3>2, <4>1, <4>4
        <5> QED BY <2>1, <4>1, <5>1 DEF ToolInv
      <4> QED BY <4>3, <4>4
    <3> QED BY <1>3, <3>1, <3>2 DEF GuardTools
  <2> QED BY <1>1, <2>1, <2>3, <2>4, <2>5 DEF AgentInv
<1>4. CASE ProviderEnds \/ UNCHANGED vars
  <2>1. /\ stack' = stack /\ runId' = runId /\ UNCHANGED <<given, tool, reply, passed, turn, unscreened, wanted>>
        /\ phase' = phase \/ (phase' = "ended" /\ Depth = 0)
    BY <1>4 DEF ProviderEnds, vars, runVars
  <2>2. StackInv'
    BY <1>1, <2>1 DEF StackInv, Depth, Source, Named, Waits, PlacedIn, Nested
  <2>3. RunInv'
    <3>1. Depth' = Depth
      BY <2>1 DEF Depth
    <3> HIDE DEF Depth
    <3> QED BY <1>1, <2>1, <3>1 DEF RunInv
  <2> QED BY <1>1, <2>1, <2>2, <2>3, ToolRests DEF AgentInv
<1> QED BY <1>2, <1>3, <1>4

LEMMA AgentNextKeeps == ASSUME AgentInv, [Next]_vars PROVE AgentInv'
<1>1. CASE ActionStep /\ UNCHANGED runVars
  <2>1. StackInv' /\ Rests
    BY <1>1, ActionKeeps DEF runVars
  <2> QED BY <1>1, <2>1, RunRests, ToolRests DEF AgentInv, runVars
<1> QED BY <1>1, ToolReturnsKeeps, CallsKeep, ScreenKeeps, RunKeeps DEF Next

(* Whatever the run and the calls within one another do, the parts above   *)
(* hold of the run and of every activation on the stack.                   *)
THEOREM AgentIsInvariant == Spec => []AgentInv
<1>1. Init => AgentInv
  <2> SUFFICES ASSUME Init PROVE AgentInv
    OBVIOUS
  <2>1. stack \in Seq(Frames) /\ Depth = 0 /\ runId \in AllIds
    BY DEF Init, Depth, AllIds
  <2>2. Depth <= MaxDepth /\ 0 \in 0..MaxDepth /\ 0 \in 0..Installed
    BY <2>1, GuardActionAssumption, AgentAssumption
  <2>3. RunInv
    <3>1. reply.kind = "none" /\ reply.depth = 0 /\ phase = "ended" /\ passed = 0 /\ turn = {} /\ unscreened = {}
      BY DEF Init, NoReply
    <3> QED BY <2>1, <2>2, <3>1 DEF RunInv
  <2>4. ToolInv
    <3>1. given = <<>> /\ tool = <<>> /\ <<>> \in Seq(Layers) /\ wanted = FALSE
      BY DEF Init
    <3>2. Guards(<<>>) = 0
      <4>1. {i \in DOMAIN <<>> : <<>>[i] = "guard"} = {}
        OBVIOUS
      <4> QED BY <4>1, FS_EmptySet DEF Guards
    <3>3. given \in Seq(Layers) /\ Guards(given) < MaxDepth /\ tool = given
      BY <3>1, <3>2, GuardActionAssumption
    <3>4. wanted \in BOOLEAN /\ (wanted => AlreadyGuarded(tool))
      BY <3>1
    <3> QED BY <3>3, <3>4 DEF ToolInv
  <2> QED BY <2>1, <2>2, <2>3, <2>4 DEF AgentInv, StackInv
<1> QED BY <1>1, AgentNextKeeps, PTL DEF Spec

-----------------------------------------------------------------------------
(* The theorems.                                                           *)

Told(f) ==
  /\ f.at # "returned" => f.events = <<>>
  /\ f.at = "returned" =>
       /\ Len(f.events) = 1
       /\ Outcome(f) \in {"denied", "unavailable"} <=> ~f.ran
       /\ Outcome(f) = "denied" <=> f.answer.conclusion = "DENY"
       /\ Outcome(f) = "success" => f.answer = Allowed
       /\ Outcome(f) \in {"success", "degraded"} <=> f.err = NoError

LEMMA EventTells == ASSUME NEW f, NEW n \in Nat, FrameOK(f, n) PROVE Told(f)
<1>1. f.at # "returned" => f.events = <<>>
  BY DEF FrameOK
<1>2. CASE f.at = "returned" /\ f.ran
  <2>1. Ended(f) /\ Consented(f) /\ Len(f.events) = 1
    BY <1>2 DEF FrameOK
  <2>2. f.answer.conclusion # "DENY"
    BY <2>1, AnswersDiffer DEF Consented
  <2> QED BY <1>2, <2>1, <2>2 DEF Told, Ended
<1>3. CASE f.at = "returned" /\ ~f.ran
  <2>1. Refused(f, n) /\ Len(f.events) = 1
    BY <1>3 DEF FrameOK
  <2>2. f.err # NoError
    BY <2>1, RefusedErrs
  <2>3. Outcome(f) \in {"denied", "unavailable"}
        /\ (Outcome(f) = "denied" <=> f.answer.conclusion = "DENY")
    BY <2>1 DEF Refused
  <2> QED BY <1>3, <2>1, <2>2, <2>3 DEF Told
<1> QED BY <1>1, <1>2, <1>3 DEF Told

(* GuardAction (guard_action.go:172-265): one outcome event, true of what  *)
(* became of the action.                                                   *)
THEOREM OutcomesAreTrue == Spec => []OneOutcome
<1>1. AgentInv => OneOutcome
  <2> SUFFICES ASSUME AgentInv PROVE OneOutcome
    OBVIOUS
  <2>1. ASSUME NEW n \in 1..Depth PROVE Told(stack[n])
    <3>1. FrameOK(stack[n], n) /\ n \in Nat
      BY StackTypes DEF AgentInv
    <3> HIDE DEF Depth
    <3> QED BY <3>1, EventTells
  <2> HIDE DEF Depth
  <2> QED BY <2>1, Zenon DEF OneOutcome, Told, Outcome
<1> QED BY <1>1, AgentIsInvariant, PTL

(* middleware.go, tool.go and guard_action.go: activations exist in the    *)
(* phases they belong to and no deeper than the bound, a guarded tool is   *)
(* called by the run or by the tool around it, and every activation below  *)
(* the last waits in its own code.                                         *)
THEOREM RunTypeCorrect == Spec => []TypeOK
<1>1. AgentInv => TypeOK
  <2> SUFFICES ASSUME AgentInv PROVE TypeOK
    OBVIOUS
  <2>1. StackInv /\ RunInv /\ runId \in Ids \cup {NoId} /\ wanted \in BOOLEAN
    BY DEF AgentInv, AllIds, ToolInv
  <2>2. ASSUME NEW n \in 1..Depth
        PROVE  /\ stack[n].kind = "tool" => n = 1 \/ stack[n - 1].kind = "tool"
               /\ n < Depth => stack[n].at \in {"resolving", "running"}
               /\ stack[n].at \in {"resolving", "asking", "running", "returned"}
               /\ stack[n].answer \in Answers \cup {NoAnswer}
    <3>1. stack[n] \in Frames /\ Waits(n) /\ Nested(n) /\ (n = 1 \/ n > 1)
      BY <2>1, StackTypes
    <3> HIDE DEF Depth
    <3> QED BY <3>1 DEF Frames, Places, Waits, Nested
  <2> QED BY <2>1, <2>2 DEF TypeOK, StackInv, RunInv
<1> QED BY <1>1, AgentIsInvariant, PTL

(* screenInbound (middleware.go): past a screening goes only a turn that   *)
(* its policy consented to, or approvals.  guardedTool.Call (tool.go):     *)
(* whatever ran, ran by the consent of its own policy, and the code of a   *)
(* tool runs when as many activations consented as the tool has guards:    *)
(* each guard takes one layer off and makes one activation, so that none   *)
(* is passed by.                                                           *)
THEOREM EffectsAreAllowed == Spec => []EffectHasConsent
<1>1. AgentInv => EffectHasConsent
  <2> SUFFICES ASSUME AgentInv PROVE EffectHasConsent
    OBVIOUS
  <2>1. RunsByConsent /\ (phase # "ended" => unscreened \subseteq {"approval"})
    BY DEF AgentInv, RunInv, StackInv, FrameOK, RunsByConsent
  <2>2. ASSUME NEW n \in 1..Depth, stack[n].kind = "tool", stack[n].code PROVE n = Guards(tool)
    <3>1. n + Guards(stack[n].layers) = Guards(tool) /\ Guards(stack[n].layers) = 0
      BY <2>2 DEF AgentInv, StackInv, PlacedIn
    <3> QED BY <3>1
  <2> QED BY <2>1, <2>2 DEF EffectHasConsent
<1> QED BY <1>1, AgentIsInvariant, PTL

(* GuardTools (agentframework/middleware.go): installed any number of      *)
(* times, the middleware puts a guard in front of a tool whose first layer *)
(* is none, so that a tool that came unguarded has one, one that came      *)
(* guarded in the open gets no other, one that a policy wants guarded is,  *)
(* and no approval layer is lost.                                          *)
THEOREM ToolsAreGuardedOnce == Spec => []GuardedOnce
<1>1. AgentInv => GuardedOnce
  <2> SUFFICES ASSUME AgentInv PROVE GuardedOnce
    OBVIOUS
  <2> DEFINE more == <<"guard">> \o given
  <2>1. given \in Seq(Layers) /\ (tool = given \/ (tool = more /\ ~AlreadyGuarded(given)))
    BY DEF AgentInv, ToolInv
  <2>2. /\ Guards(given) \in Nat /\ Guards(more) = Guards(given) + 1 /\ Approvals(more) = Approvals(given)
    BY <2>1, FirstGuard, GuardingAdds
  <2>3. ASSUME ~AlreadyGuarded(given), Guards(given) # 0 PROVE Hidden(given)
    <3> DEFINE I == {i \in DOMAIN given : given[i] = "guard"}
               n == Len(given)
               k == GuardAt(given)
    <3>1. n \in Nat /\ DOMAIN given = 1..n /\ k \in I
      BY <2>1, <2>3, FirstGuard
    <3>2. k \in 1..n /\ given[k] = "guard"
      BY <3>1
    <3>3. 1 \in DOMAIN given /\ given # <<>> /\ given[1] \in Layers
      BY <2>1, <3>1, <3>2, ElementOfSeq
    <3>4. given[1] # "guard"
      BY <2>3, <3>3 DEF AlreadyGuarded
    <3>5. given[1] = "approval" /\ k > 1
      BY <3>1, <3>2, <3>3, <3>4 DEF Layers
    <3> HIDE DEF k
    <3> QED BY <3>1, <3>2, <3>3, <3>5 DEF Hidden
  <2>4. wanted => tool # <<>> /\ tool[1] = "guard"
    BY DEF AgentInv, ToolInv, AlreadyGuarded
  <2> HIDE DEF more
  <2> QED BY <2>1, <2>2, <2>3, <2>4 DEF GuardedOnce
<1> QED BY <1>1, AgentIsInvariant, PTL

(* correlation.go: an event carries the ID of the innermost policy around  *)
(* it that names one, and else the ID of the run.                          *)
THEOREM EventsJoin == Spec => []OneSequence
<1>1. AgentInv => OneSequence
  <2> SUFFICES ASSUME AgentInv, NEW n \in 1..Depth, NEW k \in DOMAIN stack[n].events
      PROVE  stack[n].events[k].id = Inherited(n)
    BY DEF OneSequence
  <2>1. stack[n] \in Frames /\ FrameOK(stack[n], n) /\ Source(n) /\ n \in Nat
    BY StackTypes DEF AgentInv
  <2> HIDE DEF Depth
  <2>2. stack[n].events[k].id = stack[n].id
    <3>1. stack[n].events \in Seq(EventSet)
      BY <2>1 DEF Frames
    <3>2. Len(stack[n].events) \in Nat /\ k \in 1..Len(stack[n].events)
      BY <3>1, LenProperties
    <3>3. Len(stack[n].events) = 1 /\ stack[n].events[1].id = stack[n].id
      <4>1. stack[n].events # <<>>
        BY <3>2
      <4> QED BY <2>1, <4>1 DEF FrameOK
    <3>4. k = 1
      BY <3>2, <3>3
    <3> QED BY <3>3, <3>4
  <2>3. stack[n].id = Inherited(n)
    <3>1. Inherited(n) = IF Named(n) = {} THEN runId
                         ELSE stack[CHOOSE i \in Named(n) : \A j \in Named(n) : j <= i].own
      BY DEF Inherited, Named
    <3>2. CASE Named(n) = {}
      BY <2>1, <3>1, <3>2 DEF Source
    <3>3. CASE Named(n) # {}
      <4>1. PICK i \in Named(n) : (\A j \in Named(n) : j <= i) /\ stack[n].id = stack[i].own
        BY <2>1, <3>3 DEF Source
      <4>2. \A a \in Named(n) : a \in Int
        BY <2>1 DEF Named
      <4>3. \A a \in Named(n) : (\A j \in Named(n) : j <= a) => a = i
        BY <4>1, <4>2
      <4>4. (CHOOSE a \in Named(n) : \A j \in Named(n) : j <= a) = i
        BY <4>1, <4>3
      <4> QED BY <3>1, <3>3, <4>1, <4>4
    <3> QED BY <3>2, <3>3
  <2> QED BY <2>2, <2>3
<1> QED BY <1>1, AgentIsInvariant, PTL

(* guardedTool.Call: a refusal the model reads is a refusal of that call.  *)
THEOREM RefusalsStayTheirOwn == Spec => RefusalsAreTheirOwn
<1> DEFINE Own == /\ reply'.kind = "through" <=> Top.ran
                  /\ reply'.kind = "denied" => reply'.depth = 1
                  /\ reply'.kind = "denied" <=> Top.answer.conclusion = "DENY"
<1>1. ASSUME AgentInv, [Next]_vars, phase = "provider", Depth = 1, stack' = <<>> PROVE Own
  <2>1. ToolReturns
    <3>1. StackInv /\ stack \in Seq(Frames) /\ stack # <<>> /\ Len(stack) = 1
      <4>1. StackInv /\ Len(stack) = 1
        BY <1>1 DEF AgentInv, Depth
      <4>2. stack \in Seq(Frames)
        BY <4>1 DEF StackInv
      <4> QED BY <4>1, <4>2, EmptySeq
    <3>2. ~(RunBegins \/ Screen \/ Screened \/ Admitted \/ GuardTools \/ CallTool \/ ProviderEnds)
          /\ ~(UNCHANGED vars) /\ ~NestedReturns
      BY <1>1, <3>1 DEF RunBegins, Screen, Screened, Admitted, GuardTools, CallTool, ProviderEnds, vars,
         NestedReturns
    <3>3. ASSUME NEW g, SetTop(g) PROVE FALSE
      <4>1. DOMAIN stack = 1..1 /\ DOMAIN stack' = DOMAIN stack
        BY <3>1, <3>3, LenProperties DEF SetTop
      <4>2. DOMAIN <<>> = {}
        OBVIOUS
      <4> QED BY <1>1, <4>1, <4>2
    <3>4. ~(HookReturns \/ GuardAnswers \/ FnReturns \/ RefusedNil)
      BY <3>3 DEF HookReturns, GuardAnswers, FnReturns, RefusedNil
    <3>5. ASSUME NEW g, stack' = Append(stack, g) PROVE FALSE
      <4>1. stack \in Seq(Frames \cup {g})
        BY <3>1, SeqMonotonic
      <4>2. stack' # <<>>
        BY <3>5, <4>1, AppendProperties
      <4> QED BY <1>1, <4>2
    <3>6. ~(Nest \/ CallInner)
      BY <3>5 DEF Nest, CallInner
    <3> QED BY <1>1, <3>2, <3>4, <3>6 DEF Next, ActionStep
  <2>2. reply' = Reply(Top) /\ Top.at = "returned" /\ FrameOK(Top, 1)
    BY <1>1, <2>1, StackTypes DEF ToolReturns, AgentInv
  <2>3. CASE Top.ran
    <3>1. Consented(Top) /\ Reply(Top).kind = "through"
      BY <2>2, <2>3 DEF FrameOK, Reply
    <3>2. Top.answer.conclusion # "DENY"
      BY <3>1, AnswersDiffer DEF Consented
    <3> QED BY <2>2, <2>3, <3>1, <3>2
  <2>4. CASE ~Top.ran
    <3>1. Refused(Top, 1)
      BY <2>2, <2>4 DEF FrameOK
    <3>2. /\ Reply(Top).kind \in {"denied", "unavailable"}
          /\ Reply(Top).kind = "denied" <=> Top.answer.conclusion = "DENY"
          /\ Reply(Top).kind = "denied" => Reply(Top).depth = 1
      BY <2>4, <3>1, RefusedReplies
    <3> QED BY <2>2, <2>4, <3>2
  <2> QED BY <2>3, <2>4
<1>2. AgentInv /\ [Next]_vars => [phase = "provider" /\ Depth = 1 /\ stack' = <<>> => Own]_vars
  BY <1>1
<1> QED BY <1>2, AgentIsInvariant, PTL DEF Spec, RefusalsAreTheirOwn
=============================================================================
