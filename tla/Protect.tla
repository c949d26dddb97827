------------------------------ MODULE Protect ------------------------------
(***************************************************************************)
(* Client.ProtectDetails (client.go) and the rule cache behind it          *)
(* (cache.go): evaluate the rules locally in priority order, each served   *)
(* from its cached denial when there is one, and otherwise ask Decide and  *)
(* cache the denials it returns.                                           *)
(*                                                                         *)
(* Clients made by WithRule have rules of their own and share the cache    *)
(* and the evaluator of the client they were made from.  Every critical    *)
(* section of ruleCache.mu is a step.  A denial carries what the           *)
(* properties need to know of its origin: the rule and the fingerprint it  *)
(* speaks of, whether it is a bot denial of a call that defers them, and   *)
(* when it was stored.                                                     *)
(***************************************************************************)
EXTENDS Naturals, Sequences, FiniteSets

CONSTANTS
  Calls,       (* goroutines that call ProtectDetails                      *)
  Clients,     (* clients that WithRule made from one NewClient            *)
  Declared,    (* each client's rules, in the order they were given        *)
  Addresses,   (* fingerprints on the client's characteristics             *)
  Users,       (* fingerprints on a rate limit's own characteristics       *)
  NoPrint,     (* the empty fingerprint: what the analyzer failed to give  *)
  Details,     (* ProtectDetails with an Extra map, which callers reuse    *)
  Fresh,       (* a ProtectDetails without one                             *)
  Options,     (* entries that options of a call add to Extra              *)
  Closing,     (* clients whose users close them                           *)
  Ttls,        (* lifetimes the service gives its results                  *)
  LocalLife,   (* the 60 seconds of a local bot or filter denial           *)
  MaxClock     (* bound: ticks of the clock                                *)

(* evalPriority; the kinds evaluated in process; and of those, the ones    *)
(* whose denials have no lifetime.                                         *)
Priority == [sensitiveInfo |-> 1, filter |-> 2, shield |-> 3, rateLimit |-> 4,
             bot |-> 5, email |-> 6, promptInjection |-> 7]
LocalKinds == {"sensitiveInfo", "filter", "bot", "email"}
Lasting == {"filter", "bot"}
Modes == {"live", "dry"}
Rules == UNION {{Declared[k][n] : n \in DOMAIN Declared[k]} : k \in Clients}

ASSUME ProtectAssumption ==
  /\ \A k \in Clients : Declared[k] \in Seq(Rules)
  /\ \A r \in Rules : r.kind \in DOMAIN Priority /\ r.mode \in Modes /\ {r.own, r.signer} \subseteq BOOLEAN
  /\ Fresh \notin Details
  /\ Ttls \subseteq Nat /\ LocalLife \in Nat \ {0} /\ MaxClock \in Nat

VARIABLES
  clock,       (* the time, in units of the lifetimes                      *)
  cache,       (* ruleCache.entries                                        *)
  extra,       (* what calls have put in the maps of Details               *)
  closed,      (* localEvaluator.closed                                    *)
  closers,     (* history: the clients that were closed                    *)
  pc,          (* where each call is                                       *)
  req,         (* what it was called with, and its fingerprints            *)
  at,          (* the rule, or the result, it is at                        *)
  now,         (* the time read by get before it takes the lock            *)
  found,       (* what the rule at hand found                              *)
  sent,        (* entries of Extra in the request to Decide                *)
  refused,     (* history: a bot rule found the evaluator closed           *)
  decision     (* what the call returned                                   *)

callVars == <<pc, req, at, now, found, sent, refused, decision>>
vars == <<clock, cache, extra, closed, closers, callVars>>

-----------------------------------------------------------------------------
(* A client's rules, in the order they are evaluated and sent.             *)

(* sortRulesByPriority: stable. *)
Before(rules, i, j) ==
  \/ Priority[rules[i].kind] < Priority[rules[j].kind]
  \/ rules[i].kind = rules[j].kind /\ i < j
Sorted(rules) ==
  [n \in DOMAIN rules |->
     rules[CHOOSE i \in DOMAIN rules : Cardinality({j \in DOMAIN rules : Before(rules, j, i)}) = n - 1]]
RulesOf == [k \in Clients |-> Sorted(Declared[k])]

(* ruleID hashes the whole configuration, the mode included. *)
IdWithoutMode(r) == [r EXCEPT !.mode = "live"]  \* mutant: the mode left out of the hash
Id(r) == r
Ids == {Id(r) : r \in Rules}

(* collectRuleIDs and collectFingerprintChars: by position. *)
IdsAsDeclared ==                                \* mutant: not sorted
  [k \in Clients |-> [n \in DOMAIN Declared[k] |-> Id(Declared[k][n])]]
RuleIds == [k \in Clients |-> [n \in DOMAIN RulesOf[k] |-> Id(RulesOf[k][n])]]

HasSignedBotRule(k) == \E n \in DOMAIN RulesOf[k] : RulesOf[k][n].kind = "bot" /\ RulesOf[k][n].signer

-----------------------------------------------------------------------------
(* Denials, and the cache.                                                 *)

Prints == (Addresses \cup Users) \ {NoPrint}
NoDenial == [of |-> "nothing"]

(* localDeny and the results of Decide; a denial that is not RUN, or that  *)
(* has no lifetime, is not kept.                                           *)
Denial(r, print, deferred, state, ttl) ==
  [of |-> r, print |-> print, deferred |-> deferred, state |-> state, ttl |-> ttl, stored |-> 0]

KeepsAnyState(d) == d # NoDenial /\ d.ttl > 0           \* mutant: dry runs kept too
Kept(d) == d # NoDenial /\ d.ttl > 0 /\ d.state = "RUN"

(* ruleCache.set *)
Set(id, print, d) ==
  cache' = IF Kept(d) /\ print # NoPrint
             THEN [cache EXCEPT ![<<id, print>>] = [d EXCEPT !.stored = clock]]
             ELSE cache

Expires(d) == d.stored + d.ttl

ExpiredEarly(d, time) == Expires(d) <= time + 1         \* mutant: off by one
Expired(d, time) == Expires(d) <= time

(* The remaining lifetime, by the clock after the lock: at least 1. *)
RemainingUnfloored(d) == IF Expires(d) > clock THEN Expires(d) - clock ELSE 0  \* mutant: no floor
Remaining(d) == IF Expires(d) > clock THEN Expires(d) - clock ELSE 1

NoDecision == [kind |-> "none", denial |-> NoDenial, ttl |-> 0]
NoRequest  == [client |-> "none"]

Init ==
  /\ clock = 0
  /\ cache = [slot \in Ids \X Prints |-> NoDenial]
  /\ extra = [d \in Details |-> {}]
  /\ closed = FALSE
  /\ closers = {}
  /\ pc = [c \in Calls |-> "idle"]
  /\ req = [c \in Calls |-> NoRequest]
  /\ at = [c \in Calls |-> 0]
  /\ now = [c \in Calls |-> 0]
  /\ found = [c \in Calls |-> NoDenial]
  /\ sent = [c \in Calls |-> {}]
  /\ refused = [c \in Calls |-> FALSE]
  /\ decision = [c \in Calls |-> NoDecision]

-----------------------------------------------------------------------------
(* The call, up to evaluateLocal.  There are no fingerprints once the      *)
(* evaluator is closed.                                                    *)

RuleAt(c) == RulesOf[req[c].client][at[c]]
IdAt(c) == RuleIds[req[c].client][at[c]]
PrintAt(c) == IF RuleAt(c).own THEN req[c].user ELSE req[c].address
PastLast(c) == at[c] > Len(RulesOf[req[c].client])

(* deferBotRules applies to the rule at hand. *)
DeferredAt(c) == req[c].deferred /\ RuleAt(c).kind = "bot"

Begin(c) ==
  /\ pc[c] = "idle"
  /\ \E k \in Clients, a \in Addresses, u \in Users, signed \in BOOLEAN, d \in Details \cup {Fresh}, opts \in SUBSET Options :
     /\ req' = [req EXCEPT ![c] =
          [client |-> k, details |-> d, opts |-> opts,
           address |-> IF closed THEN NoPrint ELSE a, user |-> IF closed THEN NoPrint ELSE u,
           deferred |-> signed /\ HasSignedBotRule(k)]]
     /\ extra' = IF d = Fresh THEN extra ELSE [extra EXCEPT ![d] = @ \cup opts]
  /\ pc' = [pc EXCEPT ![c] = "rules"]
  /\ at' = [at EXCEPT ![c] = 1]
  /\ UNCHANGED <<clock, cache, closed, closers, now, found, sent, refused, decision>>

(* The loop of evaluateLocal: bot rules are passed over when they are left *)
(* to the service; get reads the clock, then takes the lock.               *)
NextRule(c) ==
  /\ pc[c] = "rules"
  /\ ~PastLast(c)
  /\ \/ /\ DeferredAt(c)
        /\ at' = [at EXCEPT ![c] = @ + 1]
        /\ UNCHANGED <<pc, now>>
     \/ /\ ~DeferredAt(c)
        /\ pc' = [pc EXCEPT ![c] = "lookup"]
        /\ now' = [now EXCEPT ![c] = clock]
        /\ UNCHANGED at
  /\ UNCHANGED <<clock, cache, extra, closed, closers, req, found, sent, refused, decision>>

Return(c, kind, d, ttl) ==
  /\ pc' = [pc EXCEPT ![c] = "returned"]
  /\ at' = [at EXCEPT ![c] = 0]
  /\ decision' = [decision EXCEPT ![c] = [kind |-> kind, denial |-> d, ttl |-> ttl]]

(* ruleCache.get: a hit ends the call, with a report sent in the           *)
(* background; an expired entry goes.                                      *)
Slot(c) == <<IdAt(c), PrintAt(c)>>
Cached(c) == IF PrintAt(c) = NoPrint THEN NoDenial ELSE cache[Slot(c)]
Hit(c) ==
  /\ pc[c] = "lookup"
  /\ Cached(c) # NoDenial /\ ~Expired(Cached(c), now[c])
  /\ Return(c, "local", Cached(c), Remaining(Cached(c)))
  /\ now' = [now EXCEPT ![c] = 0]
  /\ UNCHANGED <<clock, cache, extra, closed, closers, req, found, sent, refused>>
Miss(c) ==
  /\ pc[c] = "lookup"
  /\ \/ Cached(c) = NoDenial /\ UNCHANGED cache
     \/ /\ Cached(c) # NoDenial /\ Expired(Cached(c), now[c])
        /\ cache' = [cache EXCEPT ![Slot(c)] = NoDenial]
  /\ pc' = [pc EXCEPT ![c] = "evaluate"]
  /\ now' = [now EXCEPT ![c] = 0]
  /\ UNCHANGED <<clock, extra, closed, closers, req, at, found, sent, refused, decision>>

(* rule.evaluateLocal: with nothing to evaluate here, nothing found or an  *)
(* error the loop moves on.  A closed evaluator gives an error, and only a *)
(* Backend of sensitive info does without it.                              *)
Evaluate(c) ==
  /\ pc[c] = "evaluate"
  /\ \/ /\ pc' = [pc EXCEPT ![c] = "rules"]
        /\ at' = [at EXCEPT ![c] = @ + 1]
        /\ refused' = [refused EXCEPT ![c] = @ \/ (closed /\ RuleAt(c).kind = "bot")]
        /\ UNCHANGED found
     \/ /\ RuleAt(c).kind \in LocalKinds
        /\ closed => RuleAt(c).kind = "sensitiveInfo"
        /\ pc' = [pc EXCEPT ![c] = "store"]
        /\ found' = [found EXCEPT ![c] =
             Denial(RuleAt(c), PrintAt(c), DeferredAt(c),
                    IF RuleAt(c).mode = "live" THEN "RUN" ELSE "DRY_RUN",
                    IF RuleAt(c).kind \in Lasting THEN LocalLife ELSE 0)]
        /\ UNCHANGED <<at, refused>>
  /\ UNCHANGED <<clock, cache, extra, closed, closers, req, now, sent, decision>>

(* cache.set of what the rule found; a live denial ends the call. *)
StoreLocal(c) ==
  /\ pc[c] = "store"
  /\ Set(IdAt(c), PrintAt(c), found[c])
  /\ found' = [found EXCEPT ![c] = NoDenial]
  /\ IF found[c].state = "RUN"
       THEN Return(c, "local", found[c], found[c].ttl)
       ELSE /\ pc' = [pc EXCEPT ![c] = "rules"]
            /\ at' = [at EXCEPT ![c] = @ + 1]
            /\ UNCHANGED decision
  /\ UNCHANGED <<clock, extra, closed, closers, req, now, sent, refused>>

-----------------------------------------------------------------------------
(* Decide.                                                                 *)

(* The request reads Extra: the caller's own map, if it gave one. *)
Ask(c) ==
  /\ pc[c] = "rules"
  /\ PastLast(c)
  /\ sent' = [sent EXCEPT ![c] = IF req[c].details = Fresh THEN req[c].opts ELSE extra[req[c].details]]
  /\ pc' = [pc EXCEPT ![c] = "asking"]
  /\ UNCHANGED <<clock, cache, extra, closed, closers, req, at, now, found, refused, decision>>

(* A failed Decide, or its deadline, returns a decision that allows. *)
DecideFailsEmpty(c) ==                          \* mutant: the zero decision
  /\ pc[c] = "asking"
  /\ Return(c, "none", NoDenial, 0)
  /\ UNCHANGED <<clock, cache, extra, closed, closers, req, now, found, sent, refused>>
DecideFails(c) ==
  /\ pc[c] = "asking"
  /\ Return(c, "error", NoDenial, 0)
  /\ UNCHANGED <<clock, cache, extra, closed, closers, req, now, found, sent, refused>>

Decided(c) ==
  /\ pc[c] = "asking"
  /\ pc' = [pc EXCEPT ![c] = "storing"]
  /\ at' = [at EXCEPT ![c] = 1]
  /\ UNCHANGED <<clock, cache, extra, closed, closers, req, now, found, sent, refused, decision>>

(* What the service (external) may say of the rule at this position.       *)
Results(c) ==
  {NoDenial} \cup {Denial(RuleAt(c), PrintAt(c), DeferredAt(c), state, ttl) :
                     state \in IF RuleAt(c).mode = "live" THEN {"RUN", "CACHED"} ELSE {"DRY_RUN"},
                     ttl \in Ttls}

(* cacheDecideResults, a result at a time: the service answers for the     *)
(* rules in the order they were sent, perhaps not for the last ones, and   *)
(* anything after them is left alone.                                      *)
StoreEveryResult(c) ==                          \* mutant: signed bot denials cached too
  /\ pc[c] = "storing"
  /\ ~PastLast(c)
  /\ \E d \in Results(c) : Set(IdAt(c), PrintAt(c), d)
  /\ at' = [at EXCEPT ![c] = @ + 1]
  /\ UNCHANGED <<clock, extra, closed, closers, pc, req, now, found, sent, refused, decision>>
StoreResult(c) ==
  /\ pc[c] = "storing"
  /\ ~PastLast(c)
  /\ \E d \in Results(c) :
       IF DeferredAt(c) THEN UNCHANGED cache ELSE Set(IdAt(c), PrintAt(c), d)
  /\ at' = [at EXCEPT ![c] = @ + 1]
  /\ UNCHANGED <<clock, extra, closed, closers, pc, req, now, found, sent, refused, decision>>

ReturnDecided(c) ==
  /\ pc[c] = "storing"
  /\ Return(c, "service", NoDenial, 0)
  /\ UNCHANGED <<clock, cache, extra, closed, closers, req, now, found, sent, refused>>

-----------------------------------------------------------------------------
(* The caller has its decision. *)
Finish(c) ==
  /\ pc[c] = "returned"
  /\ pc' = [pc EXCEPT ![c] = "idle"]
  /\ req' = [req EXCEPT ![c] = NoRequest]
  /\ sent' = [sent EXCEPT ![c] = {}]
  /\ refused' = [refused EXCEPT ![c] = FALSE]
  /\ decision' = [decision EXCEPT ![c] = NoDecision]
  /\ UNCHANGED <<clock, cache, extra, closed, closers, at, now, found>>

(* Client.Close: the evaluator is the one every clone has. *)
Close(k) ==
  /\ k \notin closers
  /\ closed' = TRUE
  /\ closers' = closers \cup {k}
  /\ UNCHANGED <<clock, cache, extra, callVars>>

Tick ==
  /\ clock < MaxClock
  /\ clock' = clock + 1
  /\ UNCHANGED <<cache, extra, closed, closers, callVars>>

Next ==
  \/ \E c \in Calls :
       \/ Begin(c) \/ NextRule(c) \/ Hit(c) \/ Miss(c) \/ Evaluate(c) \/ StoreLocal(c)
       \/ Ask(c) \/ DecideFails(c) \/ Decided(c) \/ StoreResult(c) \/ ReturnDecided(c)
       \/ Finish(c)
  \/ \E k \in Closing : Close(k)
  \/ Tick

Spec == Init /\ [][Next]_vars

-----------------------------------------------------------------------------
(* Properties.                                                             *)

Denials ==
  {NoDenial} \cup
  [of : Rules, print : Prints \cup {NoPrint}, deferred : BOOLEAN,
   state : {"RUN", "DRY_RUN", "CACHED"}, ttl : Ttls \cup {LocalLife, 0}, stored : 0..MaxClock]

TypeOK ==
  /\ clock \in 0..MaxClock
  /\ cache \in [Ids \X Prints -> Denials]
  /\ extra \in [Details -> SUBSET Options]
  /\ closed \in BOOLEAN /\ closers \subseteq Closing
  /\ pc \in [Calls -> {"idle", "rules", "lookup", "evaluate", "store", "asking", "storing", "returned"}]
  /\ \A c \in Calls : req[c] # NoRequest =>
       req[c] \in [client : Clients, address : Addresses \cup {NoPrint}, user : Users \cup {NoPrint},
                   deferred : BOOLEAN, details : Details \cup {Fresh}, opts : SUBSET Options]
  /\ at \in [Calls -> Nat]
  /\ now \in [Calls -> 0..MaxClock]
  /\ found \in [Calls -> Denials]
  /\ sent \in [Calls -> SUBSET Options]
  /\ refused \in [Calls -> BOOLEAN]
  /\ \A c \in Calls :
       decision[c].kind \in {"none", "local", "service", "error"} /\ decision[c].denial \in Denials
  /\ \A c \in Calls : pc[c] = "returned" <=> decision[c].kind # "none"

(* Whatever is in the cache is an enforced denial that the rule the slot   *)
(* names made of the fingerprint it names, whichever client's call it was  *)
(* and wherever that client sorts the rule; a bot denial made of signed    *)
(* traffic, which may share its fingerprint with unsigned, is not there.   *)
CacheIsBacked ==
  \A id \in Ids, print \in Prints :
    LET d == cache[<<id, print>>] IN
    d # NoDenial =>
      /\ d.of = id /\ d.of.mode = "live" /\ d.state = "RUN" /\ d.print = print
      /\ ~d.deferred

(* A call that ends in a local denial has it from a live rule of the       *)
(* client it was made on, about its own address or user, and never from a  *)
(* bot rule when a signature may give the request another identity.        *)
DenialIsDue ==
  \A c \in Calls : decision[c].kind = "local" =>
    LET d == decision[c].denial IN
    /\ \E n \in DOMAIN Declared[req[c].client] : d.of = Declared[req[c].client][n]
    /\ d.of.mode = "live"
    /\ d.print = IF d.of.own THEN req[c].user ELSE req[c].address
    /\ ~(d.of.kind = "bot" /\ req[c].deferred)

(* A hit tells the caller a lifetime of at least one second and no longer  *)
(* than the denial was given, although the clock may pass its expiry while *)
(* get waits for the lock.                                                 *)
HitHasLifetime ==
  \A c \in Calls : decision[c].kind = "local" /\ decision[c].denial.of.kind \in Lasting \cup (DOMAIN Priority \ LocalKinds) =>
    decision[c].ttl \in 1..decision[c].denial.ttl

(* A cached denial goes only when it has expired, or for a later denial of *)
(* the same rule and fingerprint: a lookup that read the clock long ago    *)
(* removes nothing that was stored since.                                  *)
DenialsOutliveLookups ==
  [][\A slot \in Ids \X Prints :
       cache[slot] # NoDenial /\ cache'[slot] # cache[slot] =>
         \/ Expires(cache[slot]) <= clock
         \/ cache'[slot] # NoDenial /\ cache'[slot].stored >= cache[slot].stored]_vars

(* client.go:414 and 417: an option configures a single call, and its cost *)
(* is consumed by that request.                                            *)
OptionsAreForOneCall == \A c \in Calls : pc[c] = "asking" => sent[c] \subseteq req[c].opts

(* client.go:104-107: but for the cache, clients that WithRule made own    *)
(* their fields: no call finds its evaluator closed by another client.     *)
EvaluatorIsOwned == \A c \in Calls : refused[c] => req[c].client \in closers
=============================================================================
