----------------------------- MODULE LocalPolicy -----------------------------
(***************************************************************************)
(* The local rules of a remote policy over the inputs of one Guard call    *)
(* (remote_policy.go), and the decision made of a denial.                  *)
(*                                                                         *)
(* A rule has its mode, whether its input was given as a local string, and *)
(* what its scan of that input found: "fails", or the set of the types it  *)
(* denies, of which those the service knows matter.                        *)
(***************************************************************************)
EXTENDS GuardResults

CONSTANT GuardPolicyEntityTypes
ASSUME FailureIsNoType == "fails" \notin GuardPolicyEntityTypes

InScope(rule) == rule.input = "local string"

Known(rule) == rule.found \cap GuardPolicyEntityTypes

(* localResult: an error of the scan is a result, and evidence is only of  *)
(* what was denied and is known.                                           *)
LocalResult(rule) ==
  IF rule.found = {"fails"} THEN [id |-> rule.id, case |-> "error", conclusion |-> "ALLOW", evidence |-> {}]
  ELSE [id |-> rule.id, case |-> "checked", conclusion |-> IF Known(rule) = {} THEN "ALLOW" ELSE "DENY",
        evidence |-> Known(rule)]

LocalPolicyNotRun(rule) == [id |-> rule.id, case |-> "notRun", conclusion |-> "ALLOW", evidence |-> {}]

(* localResults, by the places that their rules have in the policy: the    *)
(* first denial that is enforced keeps the later rules from running.       *)
Outcome(denied, rule) == IF denied THEN LocalPolicyNotRun(rule) ELSE LocalResult(rule)

AfterRule(before, rule) ==
  LET denies == Outcome(before.denied, rule).conclusion = "DENY"
  IN IF ~InScope(rule) THEN before
     ELSE [sanitizeInputs |-> before.sanitizeInputs \/ denies,
           denied |-> before.denied \/ (denies /\ rule.mode = "LIVE")]

LocalStates(rules) ==
  LET after[n \in 0 .. Len(rules)] ==
        IF n = 0 THEN [sanitizeInputs |-> FALSE, denied |-> FALSE] ELSE AfterRule(after[n - 1], rules[n])
  IN after

LocalResults(rules) ==
  LET after == LocalStates(rules)
  IN [results |-> [n \in {i \in DOMAIN rules : InScope(rules[i])} |-> Outcome(after[n - 1].denied, rules[n])],
      sanitizeInputs |-> after[Len(rules)].sanitizeInputs,
      denied |-> after[Len(rules)].denied]

(* localPolicyDenial, whose results say which mode their rules have. *)
LocalPolicyDenial(rules, results) ==
  LET ModeOf(id) == rules[Max({i \in DOMAIN rules : rules[i].id = id})].mode
  IN [conclusion |-> "DENY", reason |-> "SENSITIVE_INFO", results |-> <<>>, status |-> "applied",
      policyResults |->
        [i \in DOMAIN results |->
          LET told == PolicyResultFromProto(results[i])
          IN [id |-> results[i].id, mode |-> ModeOf(results[i].id), case |-> told.case, conclusion |-> told.conclusion]]]
=============================================================================
