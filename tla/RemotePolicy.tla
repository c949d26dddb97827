---------------------------- MODULE RemotePolicy ----------------------------
(***************************************************************************)
(* remotePolicyRuntime (remote_policy.go): the cache of remote Guard       *)
(* policies and the single shared fetch that fills it.                     *)
(*                                                                         *)
(* Entries and fetches are kept per label and never cross labels; this is  *)
(* the state of one label.  Each critical section of r.mu is an action.    *)
(* The network is not: the service reads its current policy at one moment  *)
(* and the response, if it survives, is processed at a later one.          *)
(*                                                                         *)
(* The service numbers the changes an operator makes to the policy.  A     *)
(* version is `none' (no policy for the label) or a projection whose local *)
(* rules find the caller's text clean, match it in dry run, or deny it.    *)
(***************************************************************************)
EXTENDS Naturals

CONSTANTS
  Callers,     (* goroutines inside GuardClient.Guard                      *)
  Fetches,     (* names of policyFetch objects, used again once completed  *)
  NoFetch,     (* r.inflight[label] is nil                                 *)
  Verdicts,    (* kinds of policy version in play, including "none"        *)
  MaxVersion   (* bound: versions of the policy                            *)

ASSUME PolicyAssumption ==
  /\ NoFetch \notin Fetches
  /\ "none" \in Verdicts
  /\ MaxVersion \in Nat \ {0}

VARIABLES
  server,      (* the service's policy for the label (external)            *)
  cache,       (* r.cache[label]                                           *)
  fresh,       (* the clock is before cache.refreshAt                      *)
  inflight,    (* r.inflight[label]                                        *)
  fetch,       (* every policyFetch: what it replaces, what it was told    *)
  get,         (* where each caller is in get                              *)
  floor        (* history: the version cached when its get began           *)

vars == <<server, cache, fresh, inflight, fetch, get, floor>>

Versions == 0..MaxVersion

(* A policyCacheEntry: it has a policy exactly when it is available.  The  *)
(* version of "not_configured" is history: the code keeps none.            *)
Entry == {e \in [status : {"absent", "available", "not_configured", "unavailable"},
                 ver : Versions, verdict : Verdicts] :
            e.status = "available" <=> e.verdict # "none"}

Absent      == [status |-> "absent", ver |-> 0, verdict |-> "none"]
Unavailable == [status |-> "unavailable", ver |-> 0, verdict |-> "none"]

(* What fetch makes of the service's answer: the policy it has now. *)
LookupTrusting ==                             \* mutant: GetPolicy() != nil not checked
  [status |-> "available", ver |-> server.ver, verdict |-> server.verdict]
Lookup ==
  [status  |-> IF server.verdict = "none" THEN "not_configured" ELSE "available",
   ver     |-> server.ver,
   verdict |-> server.verdict]

NotRunning == [state |-> "none", old |-> Absent, entry |-> Absent]
Idle == [state |-> "idle", on |-> NoFetch, entry |-> Absent]

Init ==
  /\ server \in [ver : {1}, verdict : Verdicts]
  /\ cache = Absent
  /\ fresh = FALSE
  /\ inflight = NoFetch
  /\ fetch = [f \in Fetches |-> NotRunning]
  /\ get = [c \in Callers |-> Idle]
  /\ floor = [c \in Callers |-> 0]

-----------------------------------------------------------------------------
(* The service and the clock.                                              *)

OperatorChanges(v) ==
  /\ server.ver < MaxVersion
  /\ server' = [ver |-> server.ver + 1, verdict |-> v]
  /\ UNCHANGED <<cache, fresh, inflight, fetch, get, floor>>

EntryAges ==
  /\ fresh
  /\ fresh' = FALSE
  /\ UNCHANGED <<server, cache, inflight, fetch, get, floor>>

-----------------------------------------------------------------------------
(* get: a fresh entry, or the fetch already under way, or a new fetch.     *)

BusyIgnored == FALSE                          \* mutant: in-flight fetch not joined
Busy == inflight # NoFetch

Hit(c) ==
  /\ fresh
  /\ get' = [get EXCEPT ![c] = [state |-> "hit", on |-> NoFetch, entry |-> cache]]
  /\ UNCHANGED <<inflight, fetch>>

WaitOn(c, f) ==
  get' = [get EXCEPT ![c] = [state |-> "waiting", on |-> f, entry |-> Absent]]

Join(c) ==
  /\ Busy
  /\ WaitOn(c, inflight)
  /\ UNCHANGED <<inflight, fetch>>

Launch(c) ==
  /\ ~Busy
  /\ \E f \in Fetches :
       /\ fetch[f] = NotRunning
       /\ inflight' = f
       /\ fetch' = [fetch EXCEPT ![f] = [state |-> "asked", old |-> cache, entry |-> Absent]]
       /\ WaitOn(c, f)

Get(c, force) ==
  /\ get[c].state = "idle"
  /\ \/ ~force /\ Hit(c)
     \/ (force \/ ~fresh) /\ (Join(c) \/ Launch(c))
  /\ floor' = [floor EXCEPT ![c] = cache.ver]
  /\ UNCHANGED <<server, cache, fresh>>

(* get returns, and its caller goes on. *)
Return(c) ==
  /\ get' = [get EXCEPT ![c] = Idle]
  /\ floor' = [floor EXCEPT ![c] = 0]

Receive(c) ==
  /\ get[c].state \in {"hit", "ready"}
  /\ Return(c)
  /\ UNCHANGED <<server, cache, fresh, inflight, fetch>>

(* The caller's context ends first: get returns an error and leaves the    *)
(* fetch to the others.  With both ready, select picks either.             *)
CancelWithFetch(c) ==                         \* mutant: the fetch dies with its caller
  /\ get[c].state = "waiting"
  /\ Return(c)
  /\ fetch' = [fetch EXCEPT ![get[c].on] = NotRunning]
  /\ UNCHANGED <<server, cache, fresh, inflight>>
Cancel(c) ==
  /\ get[c].state \in {"waiting", "ready"}
  /\ Return(c)
  /\ UNCHANGED <<server, cache, fresh, inflight, fetch>>

-----------------------------------------------------------------------------
(* fetch: one GetGuardPolicy request, bounded by guardPolicyFetchTimeout.  *)

ServerAnswers(f) ==
  /\ fetch[f].state = "asked"
  /\ fetch' = [fetch EXCEPT ![f].state = "answered", ![f].entry = Lookup]
  /\ UNCHANGED <<server, cache, fresh, inflight, get, floor>>

(* A failed fetch keeps the entry it set out to replace. *)
AfterFailureForgetful(old) == Unavailable     \* mutant: hadOld ignored
AfterFailure(old) == IF old = Absent THEN Unavailable ELSE old

(* The result is cached and every caller waiting on this fetch has it.     *)
FinishSilently(f, result) ==                  \* mutant: done not closed
  /\ cache' = result
  /\ fresh' = TRUE
  /\ inflight' = NoFetch
  /\ fetch' = [fetch EXCEPT ![f] = NotRunning]
  /\ UNCHANGED get
Finish(f, result) ==
  /\ cache' = result
  /\ fresh' = TRUE
  /\ inflight' = NoFetch
  /\ fetch' = [fetch EXCEPT ![f] = NotRunning]
  /\ get' = [c \in Callers |->
       IF get[c].on = f
       THEN [state |-> "ready", on |-> NoFetch, entry |-> result]
       ELSE get[c]]

FetchSucceeds(f) ==
  /\ fetch[f].state = "answered"
  /\ Finish(f, fetch[f].entry)
  /\ UNCHANGED <<server, floor>>

(* A timeout, a transport error, or a response without a usable status. *)
FetchFails(f) ==
  /\ fetch[f].state \in {"asked", "answered"}
  /\ Finish(f, AfterFailure(fetch[f].old))
  /\ UNCHANGED <<server, floor>>

FetchReturns(f) == FetchSucceeds(f) \/ FetchFails(f)

-----------------------------------------------------------------------------
(* Steps of the runtime and of the service behind it. *)
PolicyStep ==
  \/ \E v \in Verdicts : OperatorChanges(v)
  \/ EntryAges
  \/ \E f \in Fetches : ServerAnswers(f) \/ FetchReturns(f)

CallerStep(c) ==
  \/ \E force \in BOOLEAN : Get(c, force)
  \/ Cancel(c) \/ Receive(c)

Next == PolicyStep \/ \E c \in Callers : CallerStep(c)

Spec == Init /\ [][Next]_vars

(* A request ends by its own timeout, and a goroutine that can run runs.   *)
(* Contexts need not end, and the service need not answer.                 *)
Fairness ==
  /\ \A f \in Fetches : WF_vars(FetchReturns(f))
  /\ \A c \in Callers : WF_vars(Receive(c))

FairSpec == Spec /\ Fairness

-----------------------------------------------------------------------------
(* Properties.                                                             *)

TypeOK ==
  /\ server \in [ver : 1..MaxVersion, verdict : Verdicts]
  /\ cache \in Entry
  /\ fresh \in BOOLEAN
  /\ inflight \in Fetches \cup {NoFetch}
  /\ fetch \in [Fetches -> [state : {"none", "asked", "answered"}, old : Entry, entry : Entry]]
  /\ get \in [Callers -> [state : {"idle", "hit", "waiting", "ready"},
                          on : Fetches \cup {NoFetch}, entry : Entry]]
  /\ floor \in [Callers -> Versions]

Running(f) == fetch[f].state # "none"

(* At most one GetGuardPolicy request runs for the label, however many     *)
(* callers need it, and whoever waits, waits for that one.                 *)
SharedFetch ==
  /\ \A f \in Fetches : Running(f) <=> f = inflight
  /\ \A c \in Callers : get[c].state = "waiting" => get[c].on = inflight

(* The cached policy is never replaced by an older version of itself, nor  *)
(* forgotten because a fetch failed: fetches cannot overtake each other,   *)
(* so no check of revisions is needed when one completes.                  *)
CacheNeverRegresses == [][cache'.ver >= cache.ver]_vars

(* A get that succeeds returns something at least as new as what was       *)
(* cached when it was called, even when it waited and the cache changed    *)
(* several times meanwhile.                                                *)
GetIsRecent ==
  \A c \in Callers :
    get[c].state \in {"hit", "ready"} => get[c].entry.ver >= floor[c]

(* A call of get returns although its context never ends and whatever the  *)
(* service does.                                                           *)
GetReturns ==
  \A c \in Callers : get[c].state # "idle" ~> get[c].state = "idle"

(* A fetch is completed and cached even when every caller that wanted it   *)
(* has given up.                                                           *)
FetchOutlivesCallers == (inflight # NoFetch) ~> (inflight = NoFetch /\ fresh)
=============================================================================
