----------------------------- MODULE GuardCall -----------------------------
(***************************************************************************)
(* GuardClient.Guard (guard.go) over the remote policy cache: prepare the  *)
(* label's policy, evaluate its local rules, ask the service, and, when    *)
(* the service says the local policy was stale, refresh and ask once more. *)
(*                                                                         *)
(* Local evaluation is CPU-bound and touches no shared state, so it is     *)
(* part of the step that takes the policy; a policy's verdict says what it *)
(* finds when it does not fail.  A request is what of it the properties    *)
(* need: the revision it evaluated, the revision its local results name,   *)
(* and whether the server inputs travel with it or only the digests of the *)
(* local ones.                                                             *)
(***************************************************************************)
EXTENDS Naturals

CONSTANTS Callers, Fetches, NoFetch, Verdicts, MaxVersion

CONSTANT Answers   (* conclusions the service may return *)

VARIABLES server, cache, fresh, inflight, fetch, get, floor

policyVars == <<server, cache, fresh, inflight, fetch, get, floor>>

VARIABLES
  pc,          (* where each call of Guard is                              *)
  hasLocal,    (* prepared.hasLocal: the call has local inputs             *)
  prep,        (* the policy entry prepared last                           *)
  sanitize,    (* sanitizeInputs, kept across the refresh                  *)
  request,     (* the request under way                                    *)
  reply,       (* its response, once the service has made one              *)
  decision,    (* what Guard returned                                      *)
  seen         (* history of the call: detections, and the first entry     *)

callVars == <<pc, hasLocal, prep, sanitize, request, reply, decision, seen>>
vars == <<policyVars, callVars>>

Policy == INSTANCE RemotePolicy

ASSUME CallAssumption == Policy!PolicyAssumption /\ "clean" \in Verdicts

PCs == {"idle", "preparing", "asking", "refreshing", "retrying", "reporting", "returned"}
OnTheWire == {"asking", "retrying", "reporting"}

NoRequest  == [rev |-> 0, results |-> 0, raw |-> FALSE]
NoReply    == [state |-> "none", id |-> FALSE, conclusion |-> "none", eval |-> FALSE, rev |-> 0, refresh |-> FALSE]
NoDecision == [kind |-> "none", conclusion |-> "none", err |-> FALSE]
NothingSeen == [detected |-> FALSE, first |-> 0]

(* A misconfigured call returns the zero decision; a degraded one ALLOW    *)
(* with an error result; a local denial needs nobody's consent.            *)
FailOpenUnmarked(err) ==                      \* mutant: a degraded call has no conclusion
  [kind |-> "failopen", conclusion |-> "none", err |-> err]
Zero           == [kind |-> "zero", conclusion |-> "none", err |-> TRUE]
FailOpen(err)  == [kind |-> "failopen", conclusion |-> "ALLOW", err |-> err]
LocalDeny(err) == [kind |-> "local", conclusion |-> "DENY", err |-> err]

(* guardDecisionFromProto *)
FromReply(r) ==
  IF r.state = "empty" THEN FailOpen(FALSE)
  ELSE [kind |-> "server", conclusion |-> r.conclusion, err |-> FALSE]

Init ==
  /\ Policy!Init
  /\ pc = [c \in Callers |-> "idle"]
  /\ hasLocal = [c \in Callers |-> FALSE]
  /\ prep = [c \in Callers |-> Policy!Absent]
  /\ sanitize = [c \in Callers |-> FALSE]
  /\ request = [c \in Callers |-> NoRequest]
  /\ reply = [c \in Callers |-> NoReply]
  /\ decision = [c \in Callers |-> NoDecision]
  /\ seen = [c \in Callers |-> NothingSeen]

-----------------------------------------------------------------------------
(* prepare: what the local rules of an entry find, and what may be sent.   *)

Revision(e) == IF e.status = "available" THEN e.ver ELSE 0
Detects(e) == e.verdict \in {"dry", "live"}
Denies(e) == e.verdict = "live"

(* A rule whose evaluation fails finds nothing; its error is a result. *)
Evaluated(e) == IF Detects(e) THEN {e, [e EXCEPT !.verdict = "clean"]} ELSE {e}

Return(c, d) ==
  /\ pc' = [pc EXCEPT ![c] = "returned"]
  /\ decision' = [decision EXCEPT ![c] = d]
  /\ request' = [request EXCEPT ![c] = NoRequest]
  /\ reply' = [reply EXCEPT ![c] = NoReply]

(* wirePolicyInputs and localOnlyPolicyInputs: a sanitized request carries *)
(* no server input.                                                        *)
Send(c, at, e, raw) ==
  /\ pc' = [pc EXCEPT ![c] = at]
  /\ request' = [request EXCEPT ![c] = [rev |-> Revision(e), results |-> Revision(e), raw |-> raw]]
  /\ reply' = [reply EXCEPT ![c] = NoReply]
  /\ UNCHANGED decision

SendOldResults(c, at, e, raw) ==              \* mutant: results of the first attempt
  /\ pc' = [pc EXCEPT ![c] = at]
  /\ request' = [request EXCEPT ![c].rev = Revision(e), ![c].raw = raw]
  /\ reply' = [reply EXCEPT ![c] = NoReply]
  /\ UNCHANGED decision
Resend(c, at, e, raw) == Send(c, at, e, raw)

(* A nil client, an invalid label or an invalid policy input stops here;   *)
(* without local inputs no policy is fetched, and then a rule that cannot  *)
(* be bound or encoded stops the call too.                                 *)
Start(c) ==
  /\ pc[c] = "idle"
  /\ \/ /\ Return(c, Zero)
        /\ UNCHANGED <<policyVars, hasLocal>>
     \/ /\ hasLocal' = [hasLocal EXCEPT ![c] = TRUE]
        /\ pc' = [pc EXCEPT ![c] = "preparing"]
        /\ Policy!Get(c, FALSE)
        /\ UNCHANGED <<request, reply, decision>>
     \/ /\ Send(c, "asking", Policy!Absent, TRUE)
        /\ UNCHANGED <<policyVars, hasLocal>>
  /\ UNCHANGED <<prep, sanitize, seen>>

(* The first policy arrived: a live local denial is only reported, and     *)
(* without the caller's rules; a rule that cannot be bound stops the call; *)
(* anything else asks the service.                                         *)
Prepared(c) ==
  /\ pc[c] = "preparing"
  /\ Policy!Receive(c)
  /\ \E e \in Evaluated(get[c].entry) :
     /\ prep' = [prep EXCEPT ![c] = e]
     /\ sanitize' = [sanitize EXCEPT ![c] = Detects(e)]
     /\ seen' = [seen EXCEPT ![c] = [detected |-> Detects(e), first |-> e.ver]]
     /\ \/ Denies(e) /\ Send(c, "reporting", e, FALSE)
        \/ ~Denies(e) /\ Return(c, Zero)
        \/ ~Denies(e) /\ Send(c, "asking", e, ~Detects(e))
  /\ UNCHANGED hasLocal

(* The caller's context ended while get waited, at either attempt. *)
PrepareFails(c) ==
  /\ pc[c] \in {"preparing", "refreshing"}
  /\ Policy!Cancel(c)
  /\ Return(c, FailOpen(TRUE))
  /\ UNCHANGED <<hasLocal, prep, sanitize, seen>>

-----------------------------------------------------------------------------
(* The service (external): it evaluates at one moment, answers with a      *)
(* decision or without one, and names the policy revision it has.  What    *)
(* the call will not read of the answer is left out of it: the evaluation  *)
(* matters to a first attempt, the ID to a report.                         *)
ServerReplies(c) ==
  /\ pc[c] \in OnTheWire
  /\ reply[c] = NoReply
  /\ \E r \in [state : {"empty", "decided"}, id : BOOLEAN, conclusion : Answers, eval : BOOLEAN,
               rev : {0, server.ver}, refresh : BOOLEAN] :
       /\ r.state = "empty" => ~r.id /\ ~r.eval /\ r.conclusion = "ALLOW"
       /\ ~r.eval => r.rev = 0 /\ ~r.refresh
       /\ r.eval => pc[c] \in {"asking", "retrying"} /\ hasLocal[c]
       /\ r.eval /\ pc[c] = "retrying" => r.refresh /\ r.rev = 0
       /\ r.id => pc[c] = "reporting"
       /\ reply' = [reply EXCEPT ![c] = r]
  /\ UNCHANGED <<policyVars, pc, hasLocal, prep, sanitize, request, decision, seen>>

(* A transport failure or the two-second deadline, before or after the     *)
(* service answered.                                                       *)
CallFailsOpen(c) ==                           \* mutant: a lost report loses the denial
  /\ pc[c] \in OnTheWire
  /\ Return(c, FailOpen(TRUE))
  /\ UNCHANGED <<policyVars, hasLocal, prep, sanitize, seen>>
CallFails(c) ==
  /\ pc[c] \in OnTheWire
  /\ Return(c, IF pc[c] = "reporting" THEN LocalDeny(TRUE) ELSE FailOpen(TRUE))
  /\ UNCHANGED <<policyVars, hasLocal, prep, sanitize, seen>>

-----------------------------------------------------------------------------
(* refreshAndRetry.                                                        *)

(* The service asks for a refresh, or names a revision other than ours. *)
Stale(c) ==
  /\ hasLocal[c] /\ reply[c].eval
  /\ \/ reply[c].refresh
     \/ request[c].rev # 0 /\ reply[c].rev # 0 /\ request[c].rev # reply[c].rev

Answered(c) ==
  /\ pc[c] = "asking"
  /\ reply[c] # NoReply
  /\ \/ /\ ~Stale(c)
        /\ Return(c, FromReply(reply[c]))
        /\ UNCHANGED policyVars
     \/ /\ Stale(c)
        /\ pc' = [pc EXCEPT ![c] = "refreshing"]
        /\ reply' = [reply EXCEPT ![c] = NoReply]
        /\ Policy!Get(c, TRUE)
        /\ UNCHANGED <<request, decision>>
  /\ UNCHANGED <<hasLocal, prep, sanitize, seen>>

RefreshedUnsanitized(c) ==                    \* mutant: sanitization not sticky
  /\ pc[c] = "refreshing"
  /\ Policy!Receive(c)
  /\ \E e \in Evaluated(get[c].entry) :
     /\ prep' = [prep EXCEPT ![c] = e]
     /\ sanitize' = [sanitize EXCEPT ![c] = Detects(e)]
     /\ seen' = [seen EXCEPT ![c].detected = @ \/ Detects(e)]
     /\ \/ Denies(e) /\ Resend(c, "reporting", e, FALSE)
        \/ ~Denies(e) /\ Resend(c, "retrying", e, ~Detects(e))
  /\ UNCHANGED hasLocal
Refreshed(c) ==
  /\ pc[c] = "refreshing"
  /\ Policy!Receive(c)
  /\ \E e \in Evaluated(get[c].entry) :
     /\ prep' = [prep EXCEPT ![c] = e]
     /\ sanitize' = [sanitize EXCEPT ![c] = @ \/ Detects(e)]
     /\ seen' = [seen EXCEPT ![c].detected = @ \/ Detects(e)]
     /\ \/ Denies(e) /\ Resend(c, "reporting", e, FALSE)
        \/ ~Denies(e) /\ Resend(c, "retrying", e, ~(sanitize[c] \/ Detects(e)))
  /\ UNCHANGED hasLocal

RetriedUntilFresh(c) ==                       \* mutant: refreshes as often as it is told to
  /\ pc[c] = "retrying"
  /\ reply[c] # NoReply
  /\ \/ /\ ~Stale(c)
        /\ Return(c, FromReply(reply[c]))
        /\ UNCHANGED policyVars
     \/ /\ Stale(c)
        /\ pc' = [pc EXCEPT ![c] = "refreshing"]
        /\ reply' = [reply EXCEPT ![c] = NoReply]
        /\ Policy!Get(c, TRUE)
        /\ UNCHANGED <<request, decision>>
  /\ UNCHANGED <<hasLocal, prep, sanitize, seen>>
(* There is one refresh: whatever the second answer asks for, it stands. *)
Retried(c) ==
  /\ pc[c] = "retrying"
  /\ reply[c] # NoReply
  /\ Return(c, FromReply(reply[c]))
  /\ UNCHANGED <<policyVars, hasLocal, prep, sanitize, seen>>

(* localPolicyReportedDecision: only a decision with an ID replaces the    *)
(* local denial.                                                           *)
Reported(c) ==
  /\ pc[c] = "reporting"
  /\ reply[c] # NoReply
  /\ Return(c, IF reply[c].id THEN FromReply(reply[c]) ELSE LocalDeny(FALSE))
  /\ UNCHANGED <<policyVars, hasLocal, prep, sanitize, seen>>

(* The caller has its decision; the next call of Guard starts afresh. *)
Finish(c) ==
  /\ pc[c] = "returned"
  /\ pc' = [pc EXCEPT ![c] = "idle"]
  /\ hasLocal' = [hasLocal EXCEPT ![c] = FALSE]
  /\ prep' = [prep EXCEPT ![c] = Policy!Absent]
  /\ sanitize' = [sanitize EXCEPT ![c] = FALSE]
  /\ decision' = [decision EXCEPT ![c] = NoDecision]
  /\ seen' = [seen EXCEPT ![c] = NothingSeen]
  /\ UNCHANGED <<policyVars, request, reply>>

-----------------------------------------------------------------------------
(* What the goroutine inside Guard does when it can run, and what happens  *)
(* around it: the cache, the service, the network and the contexts.        *)
GuardRuns(c) ==
  \/ Prepared(c) \/ Answered(c) \/ Refreshed(c) \/ Retried(c) \/ Reported(c)

Background ==
  \/ Policy!PolicyStep /\ UNCHANGED callVars
  \/ \E c \in Callers : ServerReplies(c) \/ CallFails(c) \/ PrepareFails(c)

Next == Background \/ \E c \in Callers : Start(c) \/ GuardRuns(c) \/ Finish(c)

Spec == Init /\ [][Next]_vars

(* Requests and fetches end by their timeouts, and goroutines run. *)
Fairness ==
  /\ \A f \in Fetches : WF_vars(Policy!FetchReturns(f) /\ UNCHANGED callVars)
  /\ \A c \in Callers :
       /\ WF_vars(CallFails(c))
       /\ WF_vars(GuardRuns(c))

FairSpec == Spec /\ Fairness

-----------------------------------------------------------------------------
(* Properties.                                                             *)

TypeOK ==
  /\ Policy!TypeOK
  /\ pc \in [Callers -> PCs]
  /\ hasLocal \in [Callers -> BOOLEAN]
  /\ prep \in [Callers -> Policy!Entry]
  /\ sanitize \in [Callers -> BOOLEAN]
  /\ request \in [Callers -> [rev : 0..MaxVersion, results : 0..MaxVersion, raw : BOOLEAN]]
  /\ reply \in [Callers -> [state : {"none", "empty", "decided"}, id : BOOLEAN,
                            conclusion : Answers \cup {"none"}, eval : BOOLEAN,
                            rev : 0..MaxVersion, refresh : BOOLEAN]]
  /\ decision \in [Callers ->
       {NoDecision}
       \cup [kind : {"zero"}, conclusion : {"none"}, err : {TRUE}]
       \cup [kind : {"failopen"}, conclusion : {"ALLOW"}, err : BOOLEAN]
       \cup [kind : {"local"}, conclusion : {"DENY"}, err : BOOLEAN]
       \cup [kind : {"server"}, conclusion : Answers, err : {FALSE}]]
  /\ seen \in [Callers -> [detected : BOOLEAN, first : 0..MaxVersion]]

(* Once a local rule has found sensitive information in a call's text, no  *)
(* request of that call carries the server inputs, whether the rule was    *)
(* live or a dry run, and whether or not the policy fetched for the retry  *)
(* still has the rule.                                                     *)
SanitizedAfterDetection ==
  \A c \in Callers : pc[c] \in OnTheWire /\ seen[c].detected => ~request[c].raw

(* A request's local results come from the revision the request names, and *)
(* the retry never evaluates an older policy than the first attempt did,   *)
(* however the refresh was shared with other calls.                        *)
RetryIsCoherent ==
  \A c \in Callers :
    /\ pc[c] \in OnTheWire => request[c].results = request[c].rev /\ request[c].rev = Revision(prep[c])
    /\ pc[c] \in {"retrying", "reporting"} => prep[c].ver >= seen[c].first

(* A live local denial is what Guard returns, even when it cannot be       *)
(* reported or the refresh found it, unless the service recorded it under  *)
(* a decision of its own.                                                  *)
LocalDenialStands ==
  [][\A c \in Callers :
       pc[c] # "returned" /\ pc'[c] = "returned" /\ Denies(prep[c]) =>
         decision'[c].conclusion = "DENY" \/ reply[c].id]_vars

(* Every call of Guard returns, with no help from its caller's context:    *)
(* neither a silent service nor a fetch shared with other calls holds it.  *)
GuardReturns ==
  \A c \in Callers : pc[c] # "idle" ~> pc[c] \in {"idle", "returned"}
=============================================================================
