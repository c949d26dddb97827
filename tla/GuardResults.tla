----------------------------- MODULE GuardResults -----------------------------
(***************************************************************************)
(* What a caller of Guard is told: the decision made of a response         *)
(* (wire_guard.go), what a rule finds of its own in it (guard.go), and     *)
(* what a model is told of a denial (guard_denial.go).                     *)
(*                                                                         *)
(* A rule result of a response has the rule's configuration, the case of   *)
(* its payload, the conclusion there and, of a rate limit, the time at     *)
(* which it resets, 0 when there is none.                                  *)
(***************************************************************************)
EXTENDS Integers, Sequences, SequencesExt, FiniteSetsExt

CONSTANT MaxRetryAfterSeconds
ASSUME CapIsPositive == MaxRetryAfterSeconds \in Nat \ {0}

RateLimits == {"tokenBucket", "fixedWindow", "slidingWindow"}
Checks == {"promptInjection", "moderateContent", "localSensitiveInfo", "localCustom"}

ReasonOf(case) ==
  CASE case \in RateLimits -> "RATE_LIMIT"
    [] case = "promptInjection" -> "PROMPT_INJECTION"
    [] case = "moderateContent" -> "MODERATE_CONTENT"
    [] case = "localSensitiveInfo" -> "SENSITIVE_INFO"
    [] case = "localCustom" -> "CUSTOM"
    [] case = "error" -> "ERROR"
    [] case = "notRun" -> "NOT_RUN"
    [] OTHER -> "UNKNOWN"                \* no payload this version knows

(* guardRuleResultWire.toGuardRuleResult *)
ToGuardRuleResult(w) ==
  [config |-> w.config, case |-> w.case, reset |-> w.reset, reason |-> ReasonOf(w.case),
   conclusion |-> IF w.case \in RateLimits \cup Checks THEN w.conclusion ELSE "ALLOW"]

ErroredGuardRuleResult == [config |-> "none", case |-> "error", reset |-> 0, reason |-> "ERROR", conclusion |-> "ALLOW"]

(* policyResultFromProto: an error, a rule that was not run and a result   *)
(* with no payload allow, and so does any conclusion but a denial.         *)
PolicyResultFromProto(p) ==
  [case |-> p.case, conclusion |-> IF p.case = "checked" /\ p.conclusion = "DENY" THEN "DENY" ELSE "ALLOW"]

(* guardDecisionFromProto *)
GuardErrorDecision ==
  [conclusion |-> "ALLOW", reason |-> "ERROR", results |-> <<ErroredGuardRuleResult>>,
   policyResults |-> <<>>, status |-> "none"]
GuardDecisionFromProto(resp) ==
  IF ~resp.decided THEN GuardErrorDecision
  ELSE [conclusion |-> resp.conclusion, reason |-> resp.reason,
        results |-> [i \in DOMAIN resp.results |-> ToGuardRuleResult(resp.results[i])],
        policyResults |-> [i \in DOMAIN resp.policyResults |-> PolicyResultFromProto(resp.policyResults[i])],
        status |-> resp.status]

(* The errors of a decision, by where they are in it. *)
ErrorResults(d) ==
  {<<"result", i>> : i \in {n \in DOMAIN d.results : d.results[n].case = "error"}}
  \cup {<<"policy result", i>> : i \in {n \in DOMAIN d.policyResults : d.policyResults[n].case = "error"}}
  \cup IF d.status \in {"incomplete", "unavailable"} THEN {<<"policy evaluation", 0>>} ELSE {}

HasFailedOpen(d) == d.conclusion = "ALLOW" /\ ErrorResults(d) # {}

-----------------------------------------------------------------------------
(* What rule (its configuration and case) finds in a decision: the first   *)
(* result of its own of a kind, <<>> when there is none.                   *)

FirstOf(d, places) == IF places = {} THEN <<>> ELSE <<d.results[Min(places)]>>
Own(rule, d) == {i \in DOMAIN d.results : d.results[i].config = rule.config}

Result(rule, d) == FirstOf(d, {i \in Own(rule, d) : d.results[i].case = rule.case})
DeniedResult(rule, d) ==
  FirstOf(d, {i \in Own(rule, d) : d.results[i].conclusion = "DENY" /\ d.results[i].case = rule.case})
ErrorResult(rule, d) == FirstOf(d, {i \in Own(rule, d) : d.results[i].case = "error"})

-----------------------------------------------------------------------------
(* What a model is told of a denial.  No hint is -1. *)

NoHint == -1

Resets(d) ==
  {r.reset : r \in {q \in ToSet(d.results) : q.case \in RateLimits /\ q.conclusion = "DENY" /\ q.reset > 0}}

(* mutant: the first limit to reset decides *)
SoonestReset(d) == Min(Resets(d))
LatestReset(d) == Max(Resets(d))

GuardRetryAfterSeconds(d, now) ==
  IF Resets(d) = {} THEN NoHint
  ELSE LET wait == LatestReset(d) - now IN Min({Max({wait, 0}), MaxRetryAfterSeconds})

NewGuardDenialResult(d, now) ==
  LET hint == GuardRetryAfterSeconds(d, now)
  IN [arcjetDenied |-> TRUE, reason |-> d.reason,
      retryable |-> d.reason = "RATE_LIMIT" \/ hint # NoHint, retryAfterSeconds |-> hint]

NewGuardUnavailableResult ==
  [arcjetDenied |-> TRUE, reason |-> "ERROR", retryable |-> TRUE, retryAfterSeconds |-> 5]
=============================================================================
