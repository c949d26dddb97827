--------------------------- MODULE GuardCallProofs ---------------------------
(***************************************************************************)
(* Safety of Guard, for any number of calls at once over one policy cache, *)
(* any number of policy versions and whatever the service answers.  What   *)
(* the cache guarantees is taken from RemotePolicyProofs.                  *)
(***************************************************************************)
EXTENDS GuardCall, TLAPS

PP == INSTANCE RemotePolicyProofs

Decisions ==
  {NoDecision}
  \cup [kind : {"zero"}, conclusion : {"none"}, err : {TRUE}]
  \cup [kind : {"failopen"}, conclusion : {"ALLOW"}, err : BOOLEAN]
  \cup [kind : {"local"}, conclusion : {"DENY"}, err : BOOLEAN]
  \cup [kind : {"server"}, conclusion : Answers, err : {FALSE}]

CallTypes ==
  /\ pc \in [Callers -> PCs]
  /\ hasLocal \in [Callers -> BOOLEAN]
  /\ prep \in [Callers -> Policy!Entry]
  /\ sanitize \in [Callers -> BOOLEAN]
  /\ request \in [Callers -> [rev : 0..MaxVersion, results : 0..MaxVersion, raw : BOOLEAN]]
  /\ reply \in [Callers -> [state : {"none", "empty", "decided"}, id : BOOLEAN,
                            conclusion : Answers \cup {"none"}, eval : BOOLEAN,
                            rev : 0..MaxVersion, refresh : BOOLEAN]]
  /\ decision \in [Callers -> Decisions]
  /\ seen \in [Callers -> [detected : BOOLEAN, first : 0..MaxVersion]]

(* A response that arrived has a conclusion of the service. *)
Concludes(c) == reply[c] = NoReply \/ reply[c].conclusion \in Answers

(* Before a policy arrived nothing is known of it. *)
Untouched(c) ==
  pc[c] \in {"idle", "preparing"} =>
    prep[c] = Policy!Absent /\ seen[c] = NothingSeen /\ ~sanitize[c]

(* The flag outlives the entry that set it, and every request obeys it. *)
Sanitized(c) ==
  /\ seen[c].detected => sanitize[c]
  /\ pc[c] \in OnTheWire /\ sanitize[c] => ~request[c].raw

(* A request is about the entry prepared last, which is between the first  *)
(* one and what is cached; and so is what the refresh will bring.          *)
Coherent(c) ==
  /\ pc[c] \in OnTheWire => request[c].results = request[c].rev /\ request[c].rev = Revision(prep[c])
  /\ seen[c].first <= prep[c].ver
  /\ prep[c].ver <= cache.ver
  /\ pc[c] = "refreshing" => seen[c].first <= floor[c]

(* A call that holds a live denial only reports it. *)
Denied(c) == Denies(prep[c]) => pc[c] \in {"reporting", "returned"}

CallOK(c) == Concludes(c) /\ Untouched(c) /\ Sanitized(c) /\ Coherent(c) /\ Denied(c)

GuardInv == PP!IInv /\ CallTypes /\ \A c \in Callers : CallOK(c)

-----------------------------------------------------------------------------
(* What Guard needs to know of the cache.                                  *)

LEMMA SamePolicy ==
  /\ PP!PolicyAssumption
  /\ Policy!Entry = PP!Entry
  /\ Policy!TypeOK = PP!TypeOK
  /\ Policy!Absent \in Policy!Entry /\ Policy!Absent.ver = 0 /\ Policy!Absent.verdict = "none"
<1>1. PP!PolicyAssumption
  BY CallAssumption DEF Policy!PolicyAssumption, PP!PolicyAssumption
<1>2. Policy!Entry = PP!Entry
  BY DEF Policy!Entry, PP!Entry, Policy!Versions, PP!Versions
<1>3. Policy!TypeOK = PP!TypeOK
  BY <1>2 DEF Policy!TypeOK, PP!TypeOK, Policy!Versions, PP!Versions
<1>4. Policy!Absent \in Policy!Entry /\ Policy!Absent.ver = 0 /\ Policy!Absent.verdict = "none"
  BY <1>1 DEF PP!PolicyAssumption, Policy!Entry, Policy!Absent, Policy!Versions
<1> QED BY <1>1, <1>2, <1>3, <1>4

LEMMA GetKeepsPolicy ==
  ASSUME PP!IInv, NEW c \in Callers, NEW force \in BOOLEAN, Policy!Get(c, force)
  PROVE  PP!IInv' /\ cache' = cache /\ floor' = [floor EXCEPT ![c] = cache.ver]
<1>1. PP!Get(c, force)
  BY DEF Policy!Get, PP!Get, Policy!Hit, PP!Hit, Policy!Join, PP!Join, Policy!Launch, PP!Launch,
         Policy!Busy, PP!Busy, Policy!WaitOn, PP!WaitOn, Policy!NotRunning, PP!NotRunning,
         Policy!Absent, PP!Absent
<1>2. PP!IInv'
  BY <1>1, SamePolicy, PP!GetKeepsIInv
<1> QED BY <1>2 DEF Policy!Get

LEMMA ReturnKeepsPolicy ==
  ASSUME PP!IInv, NEW c \in Callers, Policy!Receive(c) \/ Policy!Cancel(c)
  PROVE  PP!IInv' /\ cache' = cache /\ floor' = [floor EXCEPT ![c] = 0]
<1>1. PP!Receive(c) \/ PP!Cancel(c)
  BY DEF Policy!Receive, PP!Receive, Policy!Cancel, PP!Cancel, Policy!Return, PP!Return,
         Policy!Idle, PP!Idle, Policy!Absent, PP!Absent
<1>2. PP!IInv'
  BY <1>1, SamePolicy, PP!ReturnKeepsIInv
<1> QED BY <1>2 DEF Policy!Receive, Policy!Cancel, Policy!Return

(* What get hands over is no older than what was cached when it was called *)
(* and no newer than what is cached now.                                   *)
LEMMA ReceivedIsRecent ==
  ASSUME PP!IInv, NEW c \in Callers, Policy!Receive(c)
  PROVE  /\ get[c].entry \in Policy!Entry
         /\ floor[c] <= get[c].entry.ver /\ get[c].entry.ver <= cache.ver
<1>1. PP!TypeOK /\ PP!GetIsRecent /\ PP!HandedOut
  BY DEF PP!IInv
<1>2. get[c].state \in {"hit", "ready"}
  BY DEF Policy!Receive
<1>3. get[c].entry \in Policy!Entry
  BY <1>1, SamePolicy DEF PP!TypeOK
<1>4. floor[c] \in Nat /\ get[c].entry.ver \in Nat
  BY <1>1, SamePolicy, PP!VersionsAreNaturals
<1> QED BY <1>1, <1>2, <1>3, <1>4 DEF PP!GetIsRecent, PP!HandedOut

LEMMA WorldKeepsPolicy ==
  ASSUME PP!IInv, Policy!PolicyStep \/ UNCHANGED policyVars
  PROVE  PP!IInv' /\ cache.ver <= cache'.ver /\ floor' = floor
<1>1. [PP!PolicyStep]_policyVars
  BY DEF Policy!PolicyStep, PP!PolicyStep, Policy!OperatorChanges, PP!OperatorChanges,
         Policy!EntryAges, PP!EntryAges, Policy!ServerAnswers, PP!ServerAnswers,
         Policy!FetchReturns, PP!FetchReturns, Policy!FetchSucceeds, PP!FetchSucceeds,
         Policy!FetchFails, PP!FetchFails, Policy!Finish, PP!Finish, Policy!Lookup, PP!Lookup,
         Policy!AfterFailure, PP!AfterFailure, Policy!Unavailable, PP!Unavailable,
         Policy!NotRunning, PP!NotRunning, Policy!Absent, PP!Absent
<1>2. [PP!Next]_(PP!vars)
  BY <1>1 DEF PP!Next, PP!vars, policyVars
<1>3. PP!IInv' /\ cache'.ver >= cache.ver
  BY <1>2, SamePolicy, PP!StepKeepsIInv, PP!StepAdvances
<1>4. cache.ver \in Nat /\ cache'.ver \in Nat
  <2>1. PP!TypeOK /\ PP!TypeOK'
    BY <1>3 DEF PP!IInv
  <2> QED BY <2>1, SamePolicy DEF PP!TypeOK, PP!Entry, PP!Versions, PP!PolicyAssumption
<1>5. floor' = floor
  BY <1>1 DEF PP!PolicyStep, PP!OperatorChanges, PP!EntryAges, PP!ServerAnswers, PP!FetchReturns,
              PP!FetchSucceeds, PP!FetchFails, policyVars
<1> QED BY <1>3, <1>4, <1>5
-----------------------------------------------------------------------------
(* Entries.                                                                *)

LEMMA EntriesAreNumbered ==
  ASSUME NEW e \in Policy!Entry
  PROVE  /\ e.ver \in 0..MaxVersion /\ e.ver \in Nat
         /\ Revision(e) \in 0..MaxVersion
<1>1. MaxVersion \in Nat
  BY SamePolicy DEF PP!PolicyAssumption
<1> QED BY <1>1 DEF Revision, Policy!Entry, Policy!Versions

(* An evaluation, failed or not, is of an entry of the same version. *)
LEMMA EvaluationKeepsVersion ==
  ASSUME NEW e \in Policy!Entry, NEW x \in Evaluated(e)
  PROVE  x \in Policy!Entry /\ x.ver = e.ver
<1>1. CASE x = e
  BY <1>1
<1>2. CASE Detects(e) /\ x = [e EXCEPT !.verdict = "clean"]
  <2>1. e.status = "available"
    BY <1>2 DEF Detects, Policy!Entry
  <2> QED BY <1>2, <2>1, CallAssumption DEF Policy!Entry
<1> QED BY <1>1, <1>2 DEF Evaluated

-----------------------------------------------------------------------------
(* A step that leaves a call alone keeps what is said of it: what the      *)
(* cache does meanwhile can only put it further ahead.                     *)
LEMMA OthersKeep ==
  ASSUME GuardInv, PP!IInv', NEW d \in Callers, CallOK(d),
         cache.ver <= cache'.ver, floor'[d] = floor[d],
         pc'[d] = pc[d], prep'[d] = prep[d], sanitize'[d] = sanitize[d],
         request'[d] = request[d], reply'[d] = reply[d], seen'[d] = seen[d]
  PROVE  CallOK(d)'
<1>1. cache.ver \in Nat /\ cache'.ver \in Nat
  BY SamePolicy DEF GuardInv, PP!IInv, PP!TypeOK, PP!Entry, PP!Versions, PP!PolicyAssumption
<1>2. prep[d].ver \in Nat
  BY EntriesAreNumbered DEF GuardInv, CallTypes
<1> QED BY <1>1, <1>2 DEF CallOK, Concludes, Untouched, Sanitized, Coherent, Denied, Revision, Denies,
                          Policy!Absent, NoReply, NothingSeen

(* The call-side of a step of c alone. *)
Alone(c) ==
  /\ \A d \in Callers \ {c} :
       /\ pc'[d] = pc[d] /\ prep'[d] = prep[d] /\ sanitize'[d] = sanitize[d]
       /\ request'[d] = request[d] /\ reply'[d] = reply[d] /\ seen'[d] = seen[d]
       /\ floor'[d] = floor[d]
  /\ cache.ver <= cache'.ver

LEMMA StepOfOne ==
  ASSUME GuardInv, PP!IInv', NEW c \in Callers, Alone(c), CallTypes', CallOK(c)'
  PROVE  GuardInv'
<1>1. \A d \in Callers \ {c} : CallOK(d)'
  BY OthersKeep DEF GuardInv, Alone
<1> QED BY <1>1 DEF GuardInv

(* The decisions Guard returns, and the records it keeps, are typed. *)
LEMMA RecordsAreTyped ==
  ASSUME GuardInv
  PROVE  /\ \A c \in Callers : reply[c] # NoReply => FromReply(reply[c]) \in
              [kind : {"failopen"}, conclusion : {"ALLOW"}, err : BOOLEAN]
              \cup [kind : {"server"}, conclusion : Answers, err : {FALSE}]
         /\ NoRequest \in [rev : 0..MaxVersion, results : 0..MaxVersion, raw : BOOLEAN]
         /\ NoReply \in [state : {"none", "empty", "decided"}, id : BOOLEAN,
                         conclusion : Answers \cup {"none"}, eval : BOOLEAN,
                         rev : 0..MaxVersion, refresh : BOOLEAN]
         /\ NothingSeen \in [detected : BOOLEAN, first : 0..MaxVersion]
         /\ cache.ver \in Nat /\ floor \in [Callers -> Nat]
<1>1. MaxVersion \in Nat /\ 0 \in 0..MaxVersion
  BY SamePolicy DEF PP!PolicyAssumption
<1>2. \A c \in Callers : Concludes(c)
  BY DEF GuardInv, CallOK
<1>3. cache.ver \in Nat /\ floor \in [Callers -> Nat]
  BY SamePolicy DEF GuardInv, PP!IInv, PP!TypeOK, PP!Entry, PP!Versions, PP!PolicyAssumption
<1> QED BY <1>1, <1>2, <1>3 DEF Concludes, FromReply, FailOpen, NoRequest, NoReply, NothingSeen

(* What a step of c makes of its entry, its flag and its history, and that *)
(* they fit together.                                                      *)
Learns(c, e, s, r) ==
  /\ prep' = [prep EXCEPT ![c] = e]
  /\ sanitize' = [sanitize EXCEPT ![c] = s]
  /\ seen' = [seen EXCEPT ![c] = r]
  /\ e \in Policy!Entry /\ s \in BOOLEAN /\ r \in [detected : BOOLEAN, first : 0..MaxVersion]
  /\ r.detected => s
  /\ r.first <= e.ver /\ e.ver <= cache.ver

(* What it leaves to the others. *)
OwnStep(c) ==
  /\ PP!IInv' /\ cache' = cache
  /\ \A d \in Callers \ {c} : floor'[d] = floor[d]
  /\ hasLocal' \in [Callers -> BOOLEAN]

LEMMA LearnsNothing ==
  ASSUME GuardInv, NEW c \in Callers, UNCHANGED <<prep, sanitize, seen>>
  PROVE  Learns(c, prep[c], sanitize[c], seen[c])
<1>1. CallTypes /\ CallOK(c)
  BY DEF GuardInv
<1> QED BY <1>1 DEF Learns, CallTypes, CallOK, Sanitized, Coherent

(* Returning, whatever was learnt and decided, is safe. *)
LEMMA ReturningKeeps ==
  ASSUME GuardInv, NEW c \in Callers, NEW e, NEW s, NEW r, Learns(c, e, s, r), OwnStep(c),
         NEW d \in Decisions, Return(c, d)
  PROVE  GuardInv'
<1>1. CallTypes /\ CallOK(c) /\ cache.ver \in Nat
  BY RecordsAreTyped DEF GuardInv
<1>2. /\ pc'[c] = "returned" /\ reply'[c] = NoReply /\ prep'[c] = e /\ sanitize'[c] = s /\ seen'[c] = r
      /\ \A x \in Callers \ {c} :
           /\ pc'[x] = pc[x] /\ prep'[x] = prep[x] /\ sanitize'[x] = sanitize[x]
           /\ request'[x] = request[x] /\ reply'[x] = reply[x] /\ seen'[x] = seen[x]
  BY <1>1 DEF CallTypes, Return, Learns
<1>3. CallTypes'
  <2>1. pc' \in [Callers -> PCs] /\ decision' \in [Callers -> Decisions]
    BY <1>1 DEF CallTypes, Return, PCs
  <2>2. prep' \in [Callers -> Policy!Entry] /\ sanitize' \in [Callers -> BOOLEAN]
        /\ seen' \in [Callers -> [detected : BOOLEAN, first : 0..MaxVersion]]
    BY <1>1 DEF CallTypes, Learns
  <2>3. request' \in [Callers -> [rev : 0..MaxVersion, results : 0..MaxVersion, raw : BOOLEAN]]
    BY <1>1, RecordsAreTyped DEF CallTypes, Return
  <2>4. reply' \in [Callers -> [state : {"none", "empty", "decided"}, id : BOOLEAN,
                                conclusion : Answers \cup {"none"}, eval : BOOLEAN,
                                rev : 0..MaxVersion, refresh : BOOLEAN]]
    BY <1>1, RecordsAreTyped DEF CallTypes, Return
  <2> QED BY <2>1, <2>2, <2>3, <2>4 DEF CallTypes, OwnStep
<1>4. CallOK(c)'
  BY <1>2 DEF CallOK, Concludes, Untouched, Sanitized, Coherent, Denied, OnTheWire, Learns, OwnStep
<1>5. Alone(c)
  BY <1>1, <1>2 DEF Alone, OwnStep
<1> QED BY <1>3, <1>4, <1>5, StepOfOne DEF OwnStep

(* Sending is safe if the flag is obeyed and a denial only reported. *)
LEMMA SendingKeeps ==
  ASSUME GuardInv, NEW c \in Callers, NEW e, NEW s, NEW r, Learns(c, e, s, r), OwnStep(c),
         NEW at \in OnTheWire, NEW raw \in BOOLEAN, Send(c, at, e, raw),
         s => ~raw, Denies(e) => at = "reporting"
  PROVE  GuardInv'
<1>1. CallTypes /\ CallOK(c) /\ cache.ver \in Nat
  BY RecordsAreTyped DEF GuardInv
<1>2. /\ pc'[c] = at /\ reply'[c] = NoReply /\ prep'[c] = e /\ sanitize'[c] = s /\ seen'[c] = r
      /\ request'[c] = [rev |-> Revision(e), results |-> Revision(e), raw |-> raw]
      /\ \A x \in Callers \ {c} :
           /\ pc'[x] = pc[x] /\ prep'[x] = prep[x] /\ sanitize'[x] = sanitize[x]
           /\ request'[x] = request[x] /\ reply'[x] = reply[x] /\ seen'[x] = seen[x]
  BY <1>1 DEF CallTypes, Send, Learns
<1>3. CallTypes'
  <2>1. pc' \in [Callers -> PCs] /\ decision' = decision
    BY <1>1 DEF CallTypes, Send, PCs, OnTheWire
  <2>2. prep' \in [Callers -> Policy!Entry] /\ sanitize' \in [Callers -> BOOLEAN]
        /\ seen' \in [Callers -> [detected : BOOLEAN, first : 0..MaxVersion]]
    BY <1>1 DEF CallTypes, Learns
  <2>3. Revision(e) \in 0..MaxVersion
    BY EntriesAreNumbered DEF Learns
  <2>4. request' \in [Callers -> [rev : 0..MaxVersion, results : 0..MaxVersion, raw : BOOLEAN]]
    BY <1>1, <2>3 DEF CallTypes, Send
  <2>5. reply' \in [Callers -> [state : {"none", "empty", "decided"}, id : BOOLEAN,
                                conclusion : Answers \cup {"none"}, eval : BOOLEAN,
                                rev : 0..MaxVersion, refresh : BOOLEAN]]
    BY <1>1, RecordsAreTyped DEF CallTypes, Send
  <2> QED BY <1>1, <2>1, <2>2, <2>4, <2>5 DEF CallTypes, OwnStep
<1>4. CallOK(c)'
  <2>1. Concludes(c)' /\ Untouched(c)' /\ Sanitized(c)' /\ Denied(c)'
    BY <1>2 DEF Concludes, Untouched, Sanitized, Denied, OnTheWire, Learns
  <2>2. Coherent(c)'
    BY <1>2 DEF Coherent, OnTheWire, Learns, OwnStep, Revision
  <2> QED BY <2>1, <2>2 DEF CallOK
<1>5. Alone(c)
  BY <1>1, <1>2 DEF Alone, OwnStep
<1> QED BY <1>3, <1>4, <1>5, StepOfOne DEF OwnStep

(* Waiting for the policy: at first nothing is known, and for the retry    *)
(* the cache is at least where the first attempt found it.                 *)
LEMMA WaitingKeeps ==
  ASSUME GuardInv, NEW c \in Callers, NEW force \in BOOLEAN, Policy!Get(c, force),
         NEW at \in {"preparing", "refreshing"}, pc' = [pc EXCEPT ![c] = at],
         at = "preparing" => pc[c] = "idle", at = "refreshing" => pc[c] = "asking",
         reply' = reply \/ reply' = [reply EXCEPT ![c] = NoReply],
         hasLocal' \in [Callers -> BOOLEAN],
         UNCHANGED <<prep, sanitize, seen, request, decision>>
  PROVE  GuardInv'
<1>1. CallTypes /\ CallOK(c) /\ cache.ver \in Nat /\ floor \in [Callers -> Nat]
  BY RecordsAreTyped DEF GuardInv
<1>2. PP!IInv' /\ cache' = cache /\ floor' = [floor EXCEPT ![c] = cache.ver]
  BY GetKeepsPolicy DEF GuardInv
<1>3. /\ pc'[c] = at /\ floor'[c] = cache.ver /\ (reply'[c] = reply[c] \/ reply'[c] = NoReply)
      /\ \A x \in Callers \ {c} : pc'[x] = pc[x] /\ reply'[x] = reply[x] /\ floor'[x] = floor[x]
  BY <1>1, <1>2 DEF CallTypes
<1>4. CallTypes'
  <2>1. reply' \in [Callers -> [state : {"none", "empty", "decided"}, id : BOOLEAN,
                                conclusion : Answers \cup {"none"}, eval : BOOLEAN,
                                rev : 0..MaxVersion, refresh : BOOLEAN]]
    BY <1>1, RecordsAreTyped DEF CallTypes
  <2> QED BY <1>1, <2>1 DEF CallTypes, PCs
<1>5. CallOK(c)'
  <2>1. seen[c].first \in Nat /\ prep[c].ver \in Nat
    BY <1>1, EntriesAreNumbered DEF CallTypes
  <2>2. Coherent(c)'
    BY <1>1, <1>2, <1>3, <2>1 DEF CallOK, Coherent, OnTheWire
  <2>3. Concludes(c)' /\ Untouched(c)' /\ Sanitized(c)' /\ Denied(c)'
    BY <1>1, <1>3 DEF CallOK, Concludes, Untouched, Sanitized, Denied, OnTheWire,
                      Denies, Policy!Absent
  <2> QED BY <2>2, <2>3 DEF CallOK
<1>6. Alone(c)
  BY <1>1, <1>2, <1>3 DEF Alone
<1> QED BY <1>2, <1>4, <1>5, <1>6, StepOfOne

-----------------------------------------------------------------------------
(* The actions.                                                            *)

LEMMA OwnSteps ==
  ASSUME GuardInv, NEW c \in Callers, hasLocal' \in [Callers -> BOOLEAN],
         Policy!Receive(c) \/ Policy!Cancel(c) \/ UNCHANGED policyVars
  PROVE  OwnStep(c)
<1>1. PP!IInv' /\ cache' = cache
  BY ReturnKeepsPolicy, WorldKeepsPolicy DEF GuardInv, policyVars
<1>2. \A d \in Callers \ {c} : floor'[d] = floor[d]
  BY RecordsAreTyped DEF Policy!Receive, Policy!Cancel, Policy!Return, policyVars
<1> QED BY <1>1, <1>2 DEF OwnStep

LEMMA StartKeeps == ASSUME GuardInv, NEW c \in Callers, Start(c) PROVE GuardInv'
<1>1. pc[c] = "idle" /\ UNCHANGED <<prep, sanitize, seen>> /\ CallTypes /\ CallOK(c)
  BY DEF Start, GuardInv
<1>2. prep[c] = Policy!Absent /\ seen[c] = NothingSeen /\ ~sanitize[c]
  BY <1>1 DEF CallOK, Untouched
<1>3. CASE Return(c, Zero) /\ UNCHANGED <<policyVars, hasLocal>>
  <2>1. OwnStep(c) /\ Zero \in Decisions
    BY <1>1, <1>3, OwnSteps DEF CallTypes, Zero, Decisions
  <2> QED BY <1>1, <1>3, <2>1, LearnsNothing, ReturningKeeps
<1>4. CASE /\ hasLocal' = [hasLocal EXCEPT ![c] = TRUE]
           /\ pc' = [pc EXCEPT ![c] = "preparing"]
           /\ Policy!Get(c, FALSE)
           /\ UNCHANGED <<request, reply, decision>>
  <2>1. hasLocal' \in [Callers -> BOOLEAN]
    BY <1>1, <1>4 DEF CallTypes
  <2> QED BY <1>1, <1>4, <2>1, WaitingKeeps
<1>5. CASE Send(c, "asking", Policy!Absent, TRUE) /\ UNCHANGED <<policyVars, hasLocal>>
  <2>1. OwnStep(c) /\ Learns(c, prep[c], sanitize[c], seen[c])
    BY <1>1, <1>5, LearnsNothing, OwnSteps DEF CallTypes
  <2>2. ~Denies(prep[c]) /\ "asking" \in OnTheWire
    BY <1>2, SamePolicy DEF Denies, OnTheWire
  <2>3. Send(c, "asking", prep[c], TRUE)
    BY <1>2, <1>5
  <2>4. ASSUME NEW raw \in BOOLEAN, Send(c, "asking", prep[c], raw), sanitize[c] => ~raw
        PROVE  GuardInv'
    BY <2>1, <2>2, <2>4, SendingKeeps
  <2> QED BY <1>2, <2>3, <2>4
<1> QED BY <1>3, <1>4, <1>5 DEF Start

(* What an entry that arrives adds to what was known. *)
LEMMA LearnsAnEntry ==
  ASSUME GuardInv, NEW c \in Callers, Policy!Receive(c), NEW e \in Evaluated(get[c].entry),
         NEW s \in BOOLEAN, NEW r \in [detected : BOOLEAN, first : 0..MaxVersion],
         prep' = [prep EXCEPT ![c] = e], sanitize' = [sanitize EXCEPT ![c] = s],
         seen' = [seen EXCEPT ![c] = r],
         r.detected => s, r.first <= e.ver
  PROVE  Learns(c, e, s, r)
<1>1. /\ get[c].entry \in Policy!Entry
      /\ floor[c] <= get[c].entry.ver /\ get[c].entry.ver <= cache.ver
  BY ReceivedIsRecent DEF GuardInv
<1>2. e \in Policy!Entry /\ e.ver = get[c].entry.ver
  BY <1>1, EvaluationKeepsVersion
<1> QED BY <1>1, <1>2 DEF Learns

LEMMA PreparedKeeps == ASSUME GuardInv, NEW c \in Callers, Prepared(c) PROVE GuardInv'
<1>1. pc[c] = "preparing" /\ Policy!Receive(c) /\ hasLocal' = hasLocal /\ CallTypes
  BY DEF Prepared, GuardInv
<1>2. PICK e \in Evaluated(get[c].entry) :
        /\ prep' = [prep EXCEPT ![c] = e]
        /\ sanitize' = [sanitize EXCEPT ![c] = Detects(e)]
        /\ seen' = [seen EXCEPT ![c] = [detected |-> Detects(e), first |-> e.ver]]
        /\ \/ Denies(e) /\ Send(c, "reporting", e, FALSE)
           \/ ~Denies(e) /\ Return(c, Zero)
           \/ ~Denies(e) /\ Send(c, "asking", e, ~Detects(e))
  BY DEF Prepared
<1>3. e \in Policy!Entry /\ e.ver \in 0..MaxVersion
  BY <1>1, ReceivedIsRecent, EvaluationKeepsVersion, EntriesAreNumbered DEF GuardInv
<1> DEFINE s == Detects(e)
           r == [detected |-> Detects(e), first |-> e.ver]
<1>4. /\ r \in [detected : BOOLEAN, first : 0..MaxVersion] /\ s \in BOOLEAN
      /\ r.first <= e.ver /\ (r.detected => s)
  <2>1. Detects(e) \in BOOLEAN
    BY DEF Detects
  <2> QED BY <1>3, <2>1, EntriesAreNumbered
<1>5. /\ prep' = [prep EXCEPT ![c] = e]
      /\ sanitize' = [sanitize EXCEPT ![c] = s] /\ seen' = [seen EXCEPT ![c] = r]
  BY <1>2
<1>6. OwnStep(c)
  BY <1>1, OwnSteps DEF CallTypes
<1>7. Zero \in Decisions /\ "asking" \in OnTheWire /\ "reporting" \in OnTheWire
  BY DEF Zero, Decisions, OnTheWire
<1>8. \/ Denies(e) /\ Send(c, "reporting", e, FALSE)
      \/ ~Denies(e) /\ Return(c, Zero)
      \/ ~Denies(e) /\ Send(c, "asking", e, ~s)
  BY <1>2
<1> HIDE DEF s, r
<1>9. Learns(c, e, s, r)
  BY <1>1, <1>4, <1>5, LearnsAnEntry
<1> QED BY <1>4, <1>6, <1>7, <1>8, <1>9, SendingKeeps, ReturningKeeps

LEMMA RefreshedKeeps == ASSUME GuardInv, NEW c \in Callers, Refreshed(c) PROVE GuardInv'
<1>1. /\ pc[c] = "refreshing" /\ Policy!Receive(c) /\ hasLocal' = hasLocal /\ CallTypes
      /\ seen[c].first <= floor[c] /\ (seen[c].detected => sanitize[c])
  BY DEF Refreshed, GuardInv, CallOK, Coherent, Sanitized
<1>2. PICK e \in Evaluated(get[c].entry) :
        /\ prep' = [prep EXCEPT ![c] = e]
        /\ sanitize' = [sanitize EXCEPT ![c] = @ \/ Detects(e)]
        /\ seen' = [seen EXCEPT ![c].detected = @ \/ Detects(e)]
        /\ \/ Denies(e) /\ Resend(c, "reporting", e, FALSE)
           \/ ~Denies(e) /\ Resend(c, "retrying", e, ~(sanitize[c] \/ Detects(e)))
  BY DEF Refreshed
<1> DEFINE s == sanitize[c] \/ Detects(e)
           r == [seen[c] EXCEPT !.detected = seen[c].detected \/ Detects(e)]
<1>3. sanitize' = [sanitize EXCEPT ![c] = s] /\ seen' = [seen EXCEPT ![c] = r]
  BY <1>1, <1>2 DEF CallTypes
<1>4. /\ r \in [detected : BOOLEAN, first : 0..MaxVersion] /\ s \in BOOLEAN
      /\ r.first = seen[c].first /\ (r.detected => s)
  BY <1>1 DEF CallTypes, Detects
<1>7. r.first <= e.ver
  <2>1. floor[c] <= e.ver /\ e.ver \in Nat /\ floor[c] \in Nat
    BY <1>1, ReceivedIsRecent, EvaluationKeepsVersion, EntriesAreNumbered, RecordsAreTyped DEF GuardInv
  <2> QED BY <1>1, <1>4, <2>1 DEF CallTypes
<1>5. Learns(c, e, s, r) /\ OwnStep(c)
  BY <1>1, <1>2, <1>3, <1>4, <1>7, LearnsAnEntry, OwnSteps DEF CallTypes
<1>6. "retrying" \in OnTheWire /\ "reporting" \in OnTheWire
  BY DEF OnTheWire
<1> QED BY <1>2, <1>4, <1>5, <1>6, SendingKeeps DEF Resend

(* Where a call returns having learnt nothing new. *)
LEMMA DecisionsAreTyped ==
  ASSUME GuardInv, NEW c \in Callers
  PROVE  /\ FailOpen(TRUE) \in Decisions /\ LocalDeny(TRUE) \in Decisions
         /\ LocalDeny(FALSE) \in Decisions
         /\ reply[c] # NoReply => FromReply(reply[c]) \in Decisions
  BY RecordsAreTyped DEF FailOpen, LocalDeny, Decisions

LEMMA EndsKeep ==
  ASSUME GuardInv, NEW c \in Callers, NEW d \in Decisions, Return(c, d),
         Policy!Cancel(c) \/ UNCHANGED policyVars, UNCHANGED <<hasLocal, prep, sanitize, seen>>
  PROVE  GuardInv'
<1>1. OwnStep(c)
  BY OwnSteps DEF GuardInv, CallTypes
<1> QED BY <1>1, LearnsNothing, ReturningKeeps

LEMMA FailuresKeep ==
  ASSUME GuardInv, NEW c \in Callers, PrepareFails(c) \/ CallFails(c) PROVE GuardInv'
<1>1. CASE PrepareFails(c)
  BY <1>1, DecisionsAreTyped, EndsKeep DEF PrepareFails
<1>2. CASE CallFails(c) /\ pc[c] = "reporting"
  BY <1>2, DecisionsAreTyped, EndsKeep DEF CallFails
<1>3. CASE CallFails(c) /\ pc[c] # "reporting"
  BY <1>3, DecisionsAreTyped, EndsKeep DEF CallFails
<1> QED BY <1>1, <1>2, <1>3

LEMMA AnswersKeep ==
  ASSUME GuardInv, NEW c \in Callers, Answered(c) \/ Retried(c) \/ Reported(c) PROVE GuardInv'
<1>1. CASE Retried(c)
  BY <1>1, DecisionsAreTyped, EndsKeep DEF Retried
<1>2. CASE Reported(c)
  <2>1. CASE reply[c].id
    BY <1>2, <2>1, DecisionsAreTyped, EndsKeep DEF Reported
  <2>2. CASE ~reply[c].id
    BY <1>2, <2>2, DecisionsAreTyped, EndsKeep DEF Reported
  <2> QED BY <2>1, <2>2
<1>3. CASE Answered(c) /\ UNCHANGED policyVars /\ Return(c, FromReply(reply[c]))
  BY <1>3, DecisionsAreTyped, EndsKeep DEF Answered
<1>4. CASE /\ Answered(c)
           /\ pc' = [pc EXCEPT ![c] = "refreshing"]
           /\ reply' = [reply EXCEPT ![c] = NoReply]
           /\ Policy!Get(c, TRUE)
           /\ UNCHANGED <<request, decision>>
  <2>1. hasLocal' \in [Callers -> BOOLEAN]
    BY <1>4 DEF Answered, GuardInv, CallTypes
  <2> QED BY <1>4, <2>1, WaitingKeeps DEF Answered
<1> QED BY <1>1, <1>2, <1>3, <1>4 DEF Answered

(* The service's answer is the service's: it concludes. *)
LEMMA ServerRepliesKeeps ==
  ASSUME GuardInv, NEW c \in Callers, ServerReplies(c) PROVE GuardInv'
<1>1. CallTypes /\ CallOK(c) /\ cache.ver \in Nat
  BY RecordsAreTyped DEF GuardInv
<1>2. PICK r \in [state : {"empty", "decided"}, id : BOOLEAN, conclusion : Answers, eval : BOOLEAN,
                  rev : {0, server.ver}, refresh : BOOLEAN] :
        reply' = [reply EXCEPT ![c] = r]
  BY DEF ServerReplies
<1>3. UNCHANGED <<policyVars, pc, hasLocal, prep, sanitize, request, decision, seen>>
  BY DEF ServerReplies
<1>4. PP!IInv' /\ cache' = cache /\ floor' = floor
  BY <1>3, WorldKeepsPolicy DEF GuardInv, policyVars
<1>5. server.ver \in 0..MaxVersion /\ 0 \in 0..MaxVersion
  BY SamePolicy DEF GuardInv, PP!IInv, PP!TypeOK, PP!PolicyAssumption
<1>6. CallTypes'
  BY <1>1, <1>2, <1>3, <1>5 DEF CallTypes
<1>7. reply'[c] = r /\ \A d \in Callers \ {c} : reply'[d] = reply[d]
  BY <1>1, <1>2 DEF CallTypes
<1>8. CallOK(c)'
  BY <1>1, <1>2, <1>3, <1>4, <1>7 DEF CallOK, Concludes, Untouched, Sanitized, Coherent, Denied
<1>9. Alone(c)
  BY <1>1, <1>3, <1>4, <1>7 DEF Alone
<1> QED BY <1>4, <1>6, <1>8, <1>9, StepOfOne

LEMMA FinishKeeps == ASSUME GuardInv, NEW c \in Callers, Finish(c) PROVE GuardInv'
<1>1. CallTypes /\ CallOK(c) /\ cache.ver \in Nat
  BY RecordsAreTyped DEF GuardInv
<1>2. PP!IInv' /\ cache' = cache /\ floor' = floor
  BY WorldKeepsPolicy DEF Finish, GuardInv, policyVars
<1>3. /\ pc'[c] = "idle" /\ prep'[c] = Policy!Absent /\ sanitize'[c] = FALSE
      /\ seen'[c] = NothingSeen /\ reply'[c] = reply[c]
      /\ \A d \in Callers \ {c} :
           /\ pc'[d] = pc[d] /\ prep'[d] = prep[d] /\ sanitize'[d] = sanitize[d]
           /\ request'[d] = request[d] /\ reply'[d] = reply[d] /\ seen'[d] = seen[d]
  BY <1>1 DEF CallTypes, Finish
<1>4. CallTypes'
  BY <1>1, SamePolicy, RecordsAreTyped DEF CallTypes, Finish, PCs, Decisions
<1>5. CallOK(c)'
  BY <1>1, <1>2, <1>3, SamePolicy DEF CallOK, Concludes, Untouched, Sanitized, Coherent, Denied,
                                      OnTheWire, NothingSeen, Denies
<1>6. Alone(c)
  BY <1>1, <1>2, <1>3 DEF Alone
<1> QED BY <1>2, <1>4, <1>5, <1>6, StepOfOne

LEMMA WorldKeeps ==
  ASSUME GuardInv, Policy!PolicyStep \/ UNCHANGED policyVars, UNCHANGED callVars PROVE GuardInv'
<1>1. PP!IInv' /\ cache.ver <= cache'.ver /\ floor' = floor
  BY WorldKeepsPolicy DEF GuardInv
<1>2. CallTypes'
  BY DEF GuardInv, CallTypes, callVars
<1>3. \A d \in Callers : CallOK(d)'
  BY <1>1, OthersKeep DEF GuardInv, callVars
<1> QED BY <1>1, <1>2, <1>3 DEF GuardInv

LEMMA InitGuard == Init => GuardInv
<1> SUFFICES ASSUME Init PROVE GuardInv
  OBVIOUS
<1>1. PP!Init
  BY DEF Init, Policy!Init, PP!Init, Policy!NotRunning, PP!NotRunning, Policy!Absent, PP!Absent,
         Policy!Idle, PP!Idle
<1>2. PP!IInv
  BY <1>1, SamePolicy, PP!InitIInv
<1>3. MaxVersion \in Nat /\ 0 \in 0..MaxVersion
  BY SamePolicy DEF PP!PolicyAssumption
<1>4. CallTypes
  BY <1>3, SamePolicy DEF Init, CallTypes, PCs, Decisions, NoRequest, NoReply, NothingSeen
<1>5. ASSUME NEW c \in Callers PROVE CallOK(c)
  <2>1. /\ pc[c] = "idle" /\ prep[c] = Policy!Absent /\ sanitize[c] = FALSE
        /\ reply[c] = NoReply /\ seen[c] = NothingSeen /\ cache = Policy!Absent
    BY DEF Init, Policy!Init
  <2>2. Concludes(c) /\ Untouched(c)
    BY <2>1 DEF Concludes, Untouched
  <2>3. Sanitized(c) /\ Denied(c)
    BY <2>1, SamePolicy DEF Sanitized, Denied, NothingSeen, Denies, OnTheWire
  <2>4. Coherent(c)
    BY <2>1, SamePolicy DEF Coherent, NothingSeen, OnTheWire
  <2> QED BY <2>2, <2>3, <2>4 DEF CallOK
<1> QED BY <1>2, <1>4, <1>5 DEF GuardInv

LEMMA NextKeeps == ASSUME GuardInv, [Next]_vars PROVE GuardInv'
<1>1. CASE Background
  BY <1>1, WorldKeeps, ServerRepliesKeeps, FailuresKeep DEF Background
<1>2. CASE \E c \in Callers : Start(c) \/ GuardRuns(c) \/ Finish(c)
  BY <1>2, StartKeeps, PreparedKeeps, RefreshedKeeps, AnswersKeep, FinishKeeps DEF GuardRuns
<1>3. CASE UNCHANGED vars
  BY <1>3, WorldKeeps DEF vars
<1> QED BY <1>1, <1>2, <1>3 DEF Next

LEMMA GuardIsInvariant == Spec => []GuardInv
  BY InitGuard, NextKeeps, PTL DEF Spec

-----------------------------------------------------------------------------
(* Every call of Guard, and the cache below it, keep their types. *)
THEOREM GuardTypeCorrect == Spec => []TypeOK
<1>1. GuardInv => TypeOK
  BY SamePolicy DEF GuardInv, CallTypes, TypeOK, Decisions, PP!IInv
<1> QED BY <1>1, GuardIsInvariant, PTL

(* After a local rule found sensitive information, no request of the call  *)
(* carries its server inputs (sanitizeInputs, guard.go), whatever policy   *)
(* the refresh brings.                                                     *)
THEOREM DetectionSanitizes == Spec => []SanitizedAfterDetection
<1>1. GuardInv => SanitizedAfterDetection
  BY DEF GuardInv, CallOK, Sanitized, SanitizedAfterDetection
<1> QED BY <1>1, GuardIsInvariant, PTL

(* A request names the revision its results come from, and a retry never   *)
(* evaluates an older policy than the first attempt (refreshAndRetry).     *)
THEOREM RetriesAreCoherent == Spec => []RetryIsCoherent
<1>1. ASSUME GuardInv, NEW c \in Callers PROVE prep[c].ver >= seen[c].first
  BY <1>1, EntriesAreNumbered DEF GuardInv, CallOK, Coherent, CallTypes
<1>2. GuardInv => RetryIsCoherent
  BY <1>1 DEF GuardInv, CallOK, Coherent, RetryIsCoherent
<1> QED BY <1>2, GuardIsInvariant, PTL

(* A call that holds a live local denial returns it, or the decision the   *)
(* service recorded it under.                                              *)
THEOREM DenialsStand == Spec => LocalDenialStands
<1> DEFINE Stands ==
      \A c \in Callers :
        pc[c] # "returned" /\ pc'[c] = "returned" /\ Denies(prep[c]) =>
          decision'[c].conclusion = "DENY" \/ reply[c].id
<1>1. ASSUME GuardInv, [Next]_vars PROVE [Stands]_vars
  <2> SUFFICES ASSUME NEW c \in Callers, Next,
                      pc[c] # "returned", pc'[c] = "returned", Denies(prep[c])
               PROVE  decision'[c].conclusion = "DENY" \/ reply[c].id
    BY <1>1
  <2>1. pc[c] = "reporting" /\ pc \in [Callers -> PCs] /\ decision \in [Callers -> Decisions]
    BY <1>1 DEF GuardInv, CallOK, Denied, CallTypes
  <2>2. CallFails(c) \/ Reported(c)
    <3>1. PICK d \in Callers :
            \/ Start(d) \/ GuardRuns(d) \/ Finish(d)
            \/ ServerReplies(d) \/ CallFails(d) \/ PrepareFails(d)
      BY <2>1 DEF Next, Background, callVars
    <3>2. pc' = pc \/ \E x \in PCs : pc' = [pc EXCEPT ![d] = x]
      <4>1. CASE Start(d) \/ Finish(d) \/ ServerReplies(d)
        BY <4>1 DEF Start, Finish, ServerReplies, Return, Send, PCs
      <4>2. CASE GuardRuns(d)
        BY <4>2 DEF GuardRuns, Prepared, Answered, Refreshed, Resend, Retried, Reported,
                    Return, Send, PCs
      <4>3. CASE CallFails(d) \/ PrepareFails(d)
        BY <4>3 DEF CallFails, PrepareFails, Return, PCs
      <4> QED BY <3>1, <4>1, <4>2, <4>3
    <3>3. d = c
      BY <2>1, <3>2
    <3> QED BY <2>1, <3>1, <3>3 DEF Start, GuardRuns, Prepared, Answered, Refreshed, Retried,
                                    Finish, ServerReplies, PrepareFails
  <2>3. CASE CallFails(c)
    BY <2>1, <2>3 DEF CallFails, Return, LocalDeny
  <2>4. CASE Reported(c)
    BY <2>1, <2>4 DEF Reported, Return, LocalDeny
  <2> QED BY <2>2, <2>3, <2>4
<1> QED BY <1>1, GuardIsInvariant, PTL DEF Spec, LocalDenialStands
=============================================================================
