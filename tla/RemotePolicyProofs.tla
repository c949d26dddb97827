------------------------- MODULE RemotePolicyProofs -------------------------
(***************************************************************************)
(* Proofs about the policy cache: one fetch at a time, a cache that never  *)
(* goes back, and callers that never get something older than what was     *)
(* cached when they asked.                                                 *)
(***************************************************************************)
EXTENDS RemotePolicy, TLAPS

(* Exactly the goroutines that wait are attached to a fetch. *)
Attached == \A c \in Callers : get[c].state = "waiting" <=> get[c].on # NoFetch

(* The running fetch replaces what is cached now, and what the service     *)
(* told it is at least as new; nothing is cached from the future.          *)
FetchFollowsCache ==
  /\ cache.ver <= server.ver
  /\ cache = Absent \/ cache.status # "absent"
  /\ \A f \in Fetches : Running(f) => fetch[f].old = cache
  /\ \A f \in Fetches : fetch[f].state = "answered" =>
       /\ cache.ver <= fetch[f].entry.ver
       /\ fetch[f].entry.ver <= server.ver
       /\ fetch[f].entry.status # "absent"

(* While a caller waits, what was cached when it asked only gets older. *)
WaitersAreBehind ==
  \A c \in Callers : get[c].state = "waiting" => floor[c] <= cache.ver

(* Nobody is handed an entry newer than the one cached. *)
HandedOut ==
  \A c \in Callers : get[c].state \in {"hit", "ready"} => get[c].entry.ver <= cache.ver

IInv ==
  /\ TypeOK
  /\ SharedFetch
  /\ Attached
  /\ FetchFollowsCache
  /\ WaitersAreBehind
  /\ GetIsRecent
  /\ HandedOut

-----------------------------------------------------------------------------
LEMMA EntriesAreTyped ==
  ASSUME PolicyAssumption, server \in [ver : 1..MaxVersion, verdict : Verdicts]
  PROVE  /\ Absent \in Entry
         /\ Unavailable \in Entry
         /\ Lookup \in Entry
         /\ Lookup.ver = server.ver
         /\ Lookup.status # "absent"
         /\ Unavailable.ver = 0 /\ Unavailable.status # "absent"
         /\ Absent.ver = 0
  BY DEF PolicyAssumption, Absent, Unavailable, Lookup, Entry, Versions

LEMMA InitIInv == ASSUME PolicyAssumption, Init PROVE IInv
<1>1. server \in [ver : 1..MaxVersion, verdict : Verdicts] /\ server.ver = 1
  BY DEF Init, PolicyAssumption
<1>2. Absent \in Entry /\ Absent.ver = 0
  BY <1>1, EntriesAreTyped
<1>3. TypeOK
  <2>1. fetch \in [Fetches -> [state : {"none", "asked", "answered"}, old : Entry, entry : Entry]]
    BY <1>2 DEF Init, NotRunning
  <2>2. get \in [Callers -> [state : {"idle", "hit", "waiting", "ready"},
                             on : Fetches \cup {NoFetch}, entry : Entry]]
    BY <1>2 DEF Init, Idle
  <2>3. floor \in [Callers -> Versions]
    BY DEF Init, Versions, PolicyAssumption
  <2> QED BY <1>1, <1>2, <2>1, <2>2, <2>3 DEF Init, TypeOK
<1>4. SharedFetch /\ Attached
  BY DEF Init, SharedFetch, Attached, Running, NotRunning, Idle, PolicyAssumption
<1>5. FetchFollowsCache
  BY <1>1, <1>2 DEF Init, FetchFollowsCache, Running, NotRunning
<1>6. WaitersAreBehind /\ GetIsRecent /\ HandedOut
  BY DEF Init, WaitersAreBehind, GetIsRecent, HandedOut, Idle
<1> QED BY <1>3, <1>4, <1>5, <1>6 DEF IInv

-----------------------------------------------------------------------------
(* The service publishes a newer policy, and the entry ages: neither is    *)
(* seen by a caller or by the running fetch.                               *)
LEMMA WorldKeepsIInv ==
  ASSUME PolicyAssumption, IInv,
         (\E v \in Verdicts : OperatorChanges(v)) \/ EntryAges
  PROVE  IInv'
<1>1. /\ UNCHANGED <<cache, inflight, fetch, get, floor>>
      /\ fresh' \in BOOLEAN
      /\ server' \in [ver : 1..MaxVersion, verdict : Verdicts]
      /\ server.ver <= server'.ver
      /\ server.ver \in Nat
  <2>1. server \in [ver : 1..MaxVersion, verdict : Verdicts] /\ fresh \in BOOLEAN
    BY DEF IInv, TypeOK
  <2>2. ASSUME NEW v \in Verdicts, OperatorChanges(v)
        PROVE  /\ UNCHANGED <<cache, fresh, inflight, fetch, get, floor>>
               /\ server' = [ver |-> server.ver + 1, verdict |-> v]
               /\ server.ver + 1 \in 1..MaxVersion /\ server.ver \in Nat
    BY <2>1, <2>2 DEF OperatorChanges, PolicyAssumption
  <2>3. CASE \E v \in Verdicts : OperatorChanges(v)
    <3>1. PICK v \in Verdicts : OperatorChanges(v)
      BY <2>3
    <3>2. server' \in [ver : 1..MaxVersion, verdict : Verdicts]
      BY <2>2, <3>1
    <3>3. server'.ver = server.ver + 1
      BY <2>2, <3>1
    <3> QED BY <2>1, <2>2, <3>1, <3>2, <3>3
  <2>4. CASE EntryAges
    <3>1. server.ver \in Nat
      BY <2>1 DEF PolicyAssumption
    <3>2. server' = server /\ fresh' = FALSE /\ UNCHANGED <<cache, inflight, fetch, get, floor>>
      BY <2>4 DEF EntryAges
    <3>3. server' \in [ver : 1..MaxVersion, verdict : Verdicts]
      BY <2>1, <3>2, Zenon
    <3>4. server'.ver = server.ver
      BY <3>2, Zenon
    <3>5. server.ver <= server'.ver
      BY <3>1, <3>4
    <3>6. fresh' \in BOOLEAN
      BY <3>2
    <3> QED BY <3>1, <3>2, <3>3, <3>5, <3>6, Zenon
  <2> QED BY <2>3, <2>4
<1>2. TypeOK' BY <1>1 DEF IInv, TypeOK
<1>3. SharedFetch' /\ Attached' BY <1>1 DEF IInv, SharedFetch, Attached, Running
<1>4. FetchFollowsCache'
  <2>1. cache.ver \in Nat /\ server'.ver \in Nat
        /\ \A f \in Fetches : fetch[f].entry.ver \in Nat
    BY <1>1 DEF IInv, TypeOK, Entry, Versions, PolicyAssumption
  <2> QED BY <1>1, <2>1 DEF IInv, FetchFollowsCache, Running, Absent
<1>5. WaitersAreBehind' /\ GetIsRecent' /\ HandedOut'
  BY <1>1 DEF IInv, WaitersAreBehind, GetIsRecent, HandedOut
<1> QED BY <1>2, <1>3, <1>4, <1>5 DEF IInv

(* Versions are numbers, wherever one is kept. *)
LEMMA VersionsAreNaturals ==
  ASSUME PolicyAssumption, TypeOK
  PROVE  /\ cache.ver \in Nat /\ server.ver \in Nat
         /\ \A f \in Fetches : fetch[f].entry.ver \in Nat /\ fetch[f].old.ver \in Nat
         /\ \A c \in Callers : floor[c] \in Nat /\ get[c].entry.ver \in Nat
  BY DEF TypeOK, Entry, Versions, PolicyAssumption

-----------------------------------------------------------------------------
LEMMA GetKeepsIInv ==
  ASSUME PolicyAssumption, IInv, NEW c \in Callers, NEW force \in BOOLEAN, Get(c, force)
  PROVE  IInv'
<1>1. /\ TypeOK /\ SharedFetch /\ Attached /\ FetchFollowsCache
      /\ WaitersAreBehind /\ GetIsRecent /\ HandedOut
  BY DEF IInv
<1>2. UNCHANGED <<server, cache, fresh>> /\ floor' = [floor EXCEPT ![c] = cache.ver]
      /\ cache.ver \in Versions /\ get[c].state = "idle"
  BY <1>1 DEF Get, TypeOK, Entry
<1>3. Absent \in Entry /\ cache \in Entry
  BY <1>1, EntriesAreTyped DEF TypeOK
<1>4. floor' \in [Callers -> Versions]
  BY <1>1, <1>2 DEF TypeOK
<1>5. floor'[c] = cache.ver /\ \A d \in Callers : d # c => floor'[d] = floor[d]
  BY <1>1, <1>2 DEF TypeOK
<1>6. cache.ver \in Nat
  BY <1>1, VersionsAreNaturals
<1>7. CASE Hit(c)
  <2>1. UNCHANGED <<inflight, fetch>>
    BY <1>7 DEF Hit
  <2>2. get' = [get EXCEPT ![c] = [state |-> "hit", on |-> NoFetch, entry |-> cache]]
    BY <1>7 DEF Hit
  <2>3. get'[c] = [state |-> "hit", on |-> NoFetch, entry |-> cache]
        /\ \A d \in Callers : d # c => get'[d] = get[d]
    BY <1>1, <2>2 DEF TypeOK
  <2>4. TypeOK'
    <3>1. get' \in [Callers -> [state : {"idle", "hit", "waiting", "ready"},
                                on : Fetches \cup {NoFetch}, entry : Entry]]
      BY <1>1, <1>3, <2>2 DEF TypeOK
    <3> QED BY <1>1, <1>2, <1>4, <2>1, <3>1 DEF TypeOK
  <2>5. SharedFetch' /\ Attached'
    BY <1>1, <2>1, <2>3 DEF SharedFetch, Attached, Running
  <2>6. FetchFollowsCache'
    BY <1>1, <1>2, <2>1 DEF FetchFollowsCache, Running, Absent
  <2>7. WaitersAreBehind' /\ GetIsRecent' /\ HandedOut'
    BY <1>1, <1>2, <1>5, <1>6, <2>3 DEF WaitersAreBehind, GetIsRecent, HandedOut
  <2> QED BY <2>4, <2>5, <2>6, <2>7 DEF IInv
<1>8. ASSUME NEW f \in Fetches, inflight' = f, WaitOn(c, f),
             \/ Busy /\ UNCHANGED <<inflight, fetch>>
             \/ /\ ~Busy
                /\ fetch[f] = NotRunning
                /\ fetch' = [fetch EXCEPT ![f] = [state |-> "asked", old |-> cache, entry |-> Absent]]
      PROVE  IInv'
  <2>1. get' = [get EXCEPT ![c] = [state |-> "waiting", on |-> f, entry |-> Absent]]
    BY <1>8 DEF WaitOn
  <2>2. get'[c] = [state |-> "waiting", on |-> f, entry |-> Absent]
        /\ \A d \in Callers : d # c => get'[d] = get[d]
    BY <1>1, <2>1 DEF TypeOK
  <2>3. fetch' \in [Fetches -> [state : {"none", "asked", "answered"}, old : Entry, entry : Entry]]
    BY <1>1, <1>3, <1>8 DEF TypeOK
  <2>4. TypeOK'
    <3>1. get' \in [Callers -> [state : {"idle", "hit", "waiting", "ready"},
                                on : Fetches \cup {NoFetch}, entry : Entry]]
      BY <1>1, <1>3, <1>8, <2>1 DEF TypeOK
    <3> QED BY <1>1, <1>2, <1>4, <1>8, <2>3, <3>1 DEF TypeOK
  <2>5. \/ Busy /\ UNCHANGED <<inflight, fetch>>
        \/ /\ ~Busy
           /\ fetch'[f].state = "asked" /\ fetch'[f].old = cache
           /\ \A g \in Fetches : g # f => fetch'[g] = fetch[g]
    BY <1>1, <1>8 DEF TypeOK
  <2>6. ~Busy => \A g \in Fetches : ~Running(g)
    BY <1>1 DEF SharedFetch, Busy, PolicyAssumption
  <2>7. ~Busy => \A d \in Callers : get[d].state # "waiting"
    BY <1>1 DEF SharedFetch, Attached, Busy
  <2>8. SharedFetch'
    <3>1. CASE Busy /\ UNCHANGED <<inflight, fetch>>
      BY <1>1, <1>8, <2>2, <3>1 DEF SharedFetch, Running
    <3>2. CASE ~Busy
      <4>1. \A g \in Fetches : Running(g)' <=> g = inflight'
        BY <1>8, <2>5, <2>6, <3>2 DEF Running
      <4> QED BY <1>8, <2>2, <2>7, <3>2, <4>1 DEF SharedFetch
    <3> QED BY <2>5, <3>1, <3>2
  <2>9. Attached'
    BY <1>1, <1>8, <2>2 DEF Attached, PolicyAssumption
  <2>10. FetchFollowsCache'
    <3>1. CASE Busy /\ UNCHANGED <<inflight, fetch>>
      BY <1>1, <1>2, <3>1 DEF FetchFollowsCache, Running, Absent
    <3>2. CASE ~Busy
      BY <1>1, <1>2, <2>5, <2>6, <3>2 DEF FetchFollowsCache, Running, Absent
    <3> QED BY <2>5, <3>1, <3>2
  <2>11. WaitersAreBehind' /\ GetIsRecent' /\ HandedOut'
    BY <1>1, <1>2, <1>5, <1>6, <2>2 DEF WaitersAreBehind, GetIsRecent, HandedOut
  <2> QED BY <2>4, <2>8, <2>9, <2>10, <2>11 DEF IInv
<1>9. CASE Join(c)
  <2>1. inflight \in Fetches
    BY <1>1, <1>9 DEF Join, Busy, TypeOK
  <2> QED BY <1>8, <1>9, <2>1 DEF Join
<1>10. CASE Launch(c)
  BY <1>8, <1>10 DEF Launch
<1> QED BY <1>7, <1>9, <1>10 DEF Get

-----------------------------------------------------------------------------
LEMMA ReturnKeepsIInv ==
  ASSUME PolicyAssumption, IInv, NEW c \in Callers, Receive(c) \/ Cancel(c)
  PROVE  IInv'
<1>1. /\ TypeOK /\ SharedFetch /\ Attached /\ FetchFollowsCache
      /\ WaitersAreBehind /\ GetIsRecent /\ HandedOut
  BY DEF IInv
<1>2. UNCHANGED <<server, cache, fresh, inflight, fetch>>
      /\ get' = [get EXCEPT ![c] = Idle] /\ floor' = [floor EXCEPT ![c] = 0]
  BY DEF Receive, Cancel, Return
<1>3. /\ get'[c] = Idle /\ floor'[c] = 0
      /\ \A d \in Callers : d # c => get'[d] = get[d] /\ floor'[d] = floor[d]
  BY <1>1, <1>2 DEF TypeOK
<1>4. TypeOK'
  <2>1. Idle \in [state : {"idle", "hit", "waiting", "ready"},
                  on : Fetches \cup {NoFetch}, entry : Entry]
    BY <1>1, EntriesAreTyped DEF TypeOK, Idle
  <2>2. floor' \in [Callers -> Versions]
    BY <1>1, <1>2 DEF TypeOK, Versions, PolicyAssumption
  <2>3. get' \in [Callers -> [state : {"idle", "hit", "waiting", "ready"},
                              on : Fetches \cup {NoFetch}, entry : Entry]]
    BY <1>1, <1>2, <2>1 DEF TypeOK
  <2> QED BY <1>1, <1>2, <2>2, <2>3 DEF TypeOK
<1>5. SharedFetch' /\ Attached'
  BY <1>1, <1>2, <1>3 DEF SharedFetch, Attached, Running, Idle
<1>6. FetchFollowsCache'
  BY <1>1, <1>2 DEF FetchFollowsCache, Running, Absent
<1>7. WaitersAreBehind' /\ GetIsRecent' /\ HandedOut'
  BY <1>1, <1>2, <1>3 DEF WaitersAreBehind, GetIsRecent, HandedOut, Idle
<1> QED BY <1>4, <1>5, <1>6, <1>7 DEF IInv

(* The service answers the running fetch with the policy it has now. *)
LEMMA AnswerKeepsIInv ==
  ASSUME PolicyAssumption, IInv, NEW f \in Fetches, ServerAnswers(f)
  PROVE  IInv'
<1>1. /\ TypeOK /\ SharedFetch /\ Attached /\ FetchFollowsCache
      /\ WaitersAreBehind /\ GetIsRecent /\ HandedOut
  BY DEF IInv
<1>2. UNCHANGED <<server, cache, fresh, inflight, get, floor>> /\ Running(f)
  BY DEF ServerAnswers, Running
<1>3. Lookup \in Entry /\ Lookup.ver = server.ver /\ Lookup.status # "absent"
  BY <1>1, EntriesAreTyped DEF TypeOK
<1>4. /\ fetch'[f].state = "answered" /\ fetch'[f].entry = Lookup /\ fetch'[f].old = fetch[f].old
      /\ \A g \in Fetches : g # f => fetch'[g] = fetch[g]
  BY <1>1 DEF ServerAnswers, TypeOK
<1>5. TypeOK'
  <2>1. fetch' \in [Fetches -> [state : {"none", "asked", "answered"}, old : Entry, entry : Entry]]
    BY <1>1, <1>3 DEF ServerAnswers, TypeOK
  <2> QED BY <1>1, <1>2, <2>1 DEF TypeOK
<1>6. SharedFetch' /\ Attached'
  BY <1>1, <1>2, <1>4 DEF SharedFetch, Attached, Running
<1>7. FetchFollowsCache'
  <2>1. server.ver \in Nat
    BY <1>1, VersionsAreNaturals
  <2> QED BY <1>1, <1>2, <1>3, <1>4, <2>1 DEF FetchFollowsCache, Running, Absent
<1>8. WaitersAreBehind' /\ GetIsRecent' /\ HandedOut'
  BY <1>1, <1>2 DEF WaitersAreBehind, GetIsRecent, HandedOut
<1> QED BY <1>5, <1>6, <1>7, <1>8 DEF IInv

-----------------------------------------------------------------------------
(* A fetch completes with its answer, or with what it set out to replace:  *)
(* in either case with an entry no older than the one cached.              *)
LEMMA ResultIsNoOlder ==
  ASSUME PolicyAssumption, IInv, NEW f \in Fetches, FetchReturns(f)
  PROVE  \E result \in Entry :
           /\ Finish(f, result) /\ UNCHANGED <<server, floor>>
           /\ Running(f)
           /\ cache.ver <= result.ver /\ result.ver <= server.ver
           /\ result.status # "absent"
<1>1. TypeOK /\ FetchFollowsCache
  BY DEF IInv
<1>2. cache.ver \in Nat /\ server.ver \in Nat
  BY <1>1, VersionsAreNaturals
<1>3. fetch[f].entry \in Entry /\ fetch[f].old \in Entry
  BY <1>1 DEF TypeOK
<1>4. CASE FetchSucceeds(f)
  <2>1. Running(f)
    BY <1>4 DEF FetchSucceeds, Running
  <2> QED BY <1>1, <1>3, <1>4, <2>1 DEF FetchSucceeds, FetchFollowsCache
<1>5. CASE FetchFails(f)
  <2>1. Running(f)
    BY <1>5 DEF FetchFails, Running
  <2>2. fetch[f].old = cache
    BY <1>1, <2>1 DEF FetchFollowsCache
  <2>3. AfterFailure(cache) \in Entry
    BY <1>1, EntriesAreTyped DEF AfterFailure, TypeOK
  <2>4. /\ cache.ver <= AfterFailure(cache).ver
        /\ AfterFailure(cache).ver <= server.ver
        /\ AfterFailure(cache).status # "absent"
    BY <1>1, <1>2, EntriesAreTyped DEF AfterFailure, FetchFollowsCache, TypeOK
  <2> QED BY <1>5, <2>1, <2>2, <2>3, <2>4 DEF FetchFails
<1> QED BY <1>4, <1>5 DEF FetchReturns

LEMMA FetchReturnsKeepsIInv ==
  ASSUME PolicyAssumption, IInv, NEW f \in Fetches, FetchReturns(f)
  PROVE  IInv'
<1>1. /\ TypeOK /\ SharedFetch /\ Attached /\ FetchFollowsCache
      /\ WaitersAreBehind /\ GetIsRecent /\ HandedOut
  BY DEF IInv
<1>2. PICK result \in Entry :
        /\ Finish(f, result) /\ UNCHANGED <<server, floor>>
        /\ Running(f)
        /\ cache.ver <= result.ver /\ result.ver <= server.ver
        /\ result.status # "absent"
  BY ResultIsNoOlder
<1>3. cache' = result /\ fresh' = TRUE /\ inflight' = NoFetch
  BY <1>2 DEF Finish
<1>4. inflight = f
  BY <1>1, <1>2 DEF SharedFetch
<1>5. /\ fetch'[f].state = "none"
      /\ \A g \in Fetches : g # f => fetch'[g] = fetch[g]
  BY <1>1, <1>2 DEF Finish, NotRunning, TypeOK
<1>6. \A g \in Fetches : ~Running(g)'
  BY <1>1, <1>4, <1>5 DEF SharedFetch, Running
<1>7. \A c \in Callers :
        get'[c] = IF get[c].on = f
                  THEN [state |-> "ready", on |-> NoFetch, entry |-> result]
                  ELSE get[c]
  BY <1>2 DEF Finish
<1>8. \A c \in Callers : get[c].state = "waiting" <=> get[c].on = f
  BY <1>1, <1>4 DEF SharedFetch, Attached, PolicyAssumption
<1>9. TypeOK'
  <2>1. fetch' \in [Fetches -> [state : {"none", "asked", "answered"}, old : Entry, entry : Entry]]
    BY <1>1, <1>2, EntriesAreTyped DEF Finish, NotRunning, TypeOK
  <2>2. get' \in [Callers -> [state : {"idle", "hit", "waiting", "ready"},
                              on : Fetches \cup {NoFetch}, entry : Entry]]
    <3>1. [state |-> "ready", on |-> NoFetch, entry |-> result] \in
            [state : {"idle", "hit", "waiting", "ready"}, on : Fetches \cup {NoFetch}, entry : Entry]
      OBVIOUS
    <3> QED BY <1>1, <1>2, <3>1 DEF Finish, TypeOK
  <2> QED BY <1>1, <1>2, <1>3, <2>1, <2>2 DEF TypeOK
<1>10. SharedFetch' /\ Attached'
  BY <1>1, <1>3, <1>6, <1>7, <1>8 DEF SharedFetch, Attached, Running, PolicyAssumption
<1>11. FetchFollowsCache'
  BY <1>2, <1>3, <1>6 DEF FetchFollowsCache, Running
<1>12. WaitersAreBehind' /\ GetIsRecent' /\ HandedOut'
  <2>1. /\ \A c \in Callers : floor[c] \in Nat /\ get[c].entry.ver \in Nat
        /\ cache.ver \in Nat /\ result.ver \in Nat
    BY <1>1, VersionsAreNaturals DEF Entry, Versions, PolicyAssumption
  <2> QED BY <1>1, <1>2, <1>3, <1>7, <1>8, <2>1 DEF WaitersAreBehind, GetIsRecent, HandedOut
<1> QED BY <1>9, <1>10, <1>11, <1>12 DEF IInv

-----------------------------------------------------------------------------
LEMMA StepKeepsIInv == ASSUME PolicyAssumption, IInv, [Next]_vars PROVE IInv'
<1>1. CASE PolicyStep
  BY <1>1, WorldKeepsIInv, AnswerKeepsIInv, FetchReturnsKeepsIInv DEF PolicyStep
<1>2. CASE \E c \in Callers : CallerStep(c)
  BY <1>2, GetKeepsIInv, ReturnKeepsIInv DEF CallerStep
<1>3. CASE UNCHANGED vars
  BY <1>3 DEF vars, IInv, TypeOK, SharedFetch, Attached, FetchFollowsCache,
              WaitersAreBehind, GetIsRecent, HandedOut, Running, Absent
<1> QED BY <1>1, <1>2, <1>3 DEF Next

(* Only the end of a fetch writes the cache, and not with an older entry. *)
LEMMA StepAdvances ==
  ASSUME PolicyAssumption, IInv, [Next]_vars PROVE cache'.ver >= cache.ver
<1>1. cache.ver \in Nat
  BY VersionsAreNaturals DEF IInv
<1>2. ASSUME NEW f \in Fetches, FetchReturns(f) PROVE cache'.ver >= cache.ver
  <2>1. PICK result \in Entry : Finish(f, result) /\ cache.ver <= result.ver
    BY <1>2, ResultIsNoOlder
  <2>2. result.ver \in Nat
    BY DEF Entry, Versions, PolicyAssumption
  <2> QED BY <1>1, <2>1, <2>2 DEF Finish
<1>3. CASE UNCHANGED cache
  BY <1>1, <1>3
<1>4. CASE UNCHANGED vars
  BY <1>1, <1>4 DEF vars
<1>5. (\E f \in Fetches : FetchReturns(f)) \/ UNCHANGED cache \/ UNCHANGED vars
  BY DEF Next, PolicyStep, CallerStep, OperatorChanges, EntryAges, ServerAnswers,
              Get, Receive, Cancel
<1> QED BY <1>2, <1>3, <1>4, <1>5

LEMMA InvariantHolds == Spec => []IInv
  BY InitIInv, StepKeepsIInv, PolicyAssumption, PTL DEF Spec

(* The cache, the fetch objects and every caller's place in get keep their *)
(* types, for any number of callers, fetches and policy versions.          *)
THEOREM PolicyTypeCorrect == Spec => []TypeOK
<1>1. IInv => TypeOK
  BY DEF IInv
<1> QED BY <1>1, InvariantHolds, PTL

(* However many goroutines ask at once, one request runs for the label and *)
(* everyone who waits, waits for it (get, remote_policy.go).               *)
THEOREM OneFetchAtATime == Spec => []SharedFetch
<1>1. IInv => SharedFetch
  BY DEF IInv
<1> QED BY <1>1, InvariantHolds, PTL

(* get never returns an entry older than the one cached when it was        *)
(* called.                                                                 *)
THEOREM GetNeverGoesBack == Spec => []GetIsRecent
<1>1. IInv => GetIsRecent
  BY DEF IInv
<1> QED BY <1>1, InvariantHolds, PTL

(* fetch overwrites the cache without comparing revisions, and still never *)
(* replaces a policy by an older one.                                      *)
THEOREM CacheOnlyAdvances == Spec => CacheNeverRegresses
<1>1. ASSUME IInv, [Next]_vars PROVE [cache'.ver >= cache.ver]_vars
  BY <1>1, PolicyAssumption, StepAdvances
<1> QED BY <1>1, InvariantHolds, PTL DEF Spec, CacheNeverRegresses
=============================================================================
