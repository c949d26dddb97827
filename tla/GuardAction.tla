----------------------------- MODULE GuardAction -----------------------------
(***************************************************************************)
(* GuardAction (guard_action.go): ask Guard about an action, run it if the *)
(* policy lets it, and record one outcome event.                           *)
(*                                                                         *)
(* A Resolve hook and the action itself are the application's code and may *)
(* call GuardAction again, about another action: the activations form a    *)
(* stack, of which the last is the one that runs.  An error is the chain   *)
(* that errors.As walks, outermost first; a link names the depth of the    *)
(* activation it speaks of, 0 for an error that is not Arcjet's.           *)
(***************************************************************************)
EXTENDS Naturals, Sequences, SequencesExt

CONSTANTS
  Ids,         (* correlation IDs                                          *)
  NoId,        (* the empty one                                            *)
  MaxDepth     (* bound: activations within one another                    *)

ASSUME GuardActionAssumption == NoId \notin Ids /\ MaxDepth \in Nat \ {0}

VARIABLE stack

NoError == <<>>
Plain == <<[kind |-> "plain", depth |-> 0]>>
Denied(d, cause) == <<[kind |-> "denied", depth |-> d]>> \o cause
Unavailable(d, cause) == <<[kind |-> "unavailable", depth |-> d]>> \o cause
As(err, kind) == \E n \in DOMAIN err : err[n].kind = kind
Target(err, kind) == err[SelectInSeq(err, LAMBDA link : link.kind = kind)].depth

(* What Guard decides, and whether a rule of it failed open; an error may  *)
(* come with it.  The zero decision comes with ErrGuardMisconfigured;      *)
(* without an answer Guard allows and says that it failed open; a local    *)
(* denial stands when its report is lost; "other" is a conclusion that     *)
(* this SDK does not know.                                                 *)
Answer(conclusion, open) == [conclusion |-> conclusion, open |-> open]
NoAnswer == Answer("none", FALSE)
Misconfigured == Answer("misconfigured", FALSE)
Allowed == Answer("ALLOW", FALSE)
Answers ==
  {Misconfigured, Allowed, Answer("ALLOW", TRUE), Answer("DENY", FALSE), Answer("other", FALSE)}
Errors(a) ==
  IF a = Misconfigured THEN {Plain} ELSE IF a.open \/ a.conclusion = "DENY" THEN {NoError, Plain} ELSE {NoError}

(* The first ID that is not empty: the policy's, else the context's.  The  *)
(* context of what runs inside an activation carries its ID.               *)
FirstId(id, otherwise) == IF id # NoId THEN id ELSE otherwise
ContextLost(f) == NoId                      \* mutant: the ID is not put on the context
ContextOf(f) == f.id

(* An activation, whose action is the application's code or not. *)
Activation(kind, own, posture, context, hook, code) ==
  [kind |-> kind, own |-> own, posture |-> posture, id |-> FirstId(own, context), code |-> code,
   at |-> IF hook THEN "resolving" ELSE "asking", answer |-> NoAnswer, degraded |-> FALSE,
   ran |-> FALSE, heard |-> NoError, err |-> NoError, events |-> <<>>, layers |-> <<>>]

Depth == Len(stack)
Top == stack[Depth]
SetTop(f) == stack' = [stack EXCEPT ![Depth] = f]

(* captureGuardOutcome, and the return it is followed by. *)
Event(f, outcome) == [f EXCEPT !.events = Append(@, [outcome |-> outcome, id |-> f.id])]
Returns(f, outcome, err) == [Event(f, outcome) EXCEPT !.at = "returned", !.err = err]

-----------------------------------------------------------------------------
(* The application calls GuardAction from a hook or an action: the context *)
(* there is the one of the activation it is in.                            *)
InCode == Top.at = "resolving" \/ (Top.at = "running" /\ Top.code)

Nest ==
  /\ Depth \in 1..(MaxDepth - 1) /\ InCode
  /\ \E own \in Ids \cup {NoId}, posture \in {"deny", "allow"}, hook \in BOOLEAN :
       stack' = Append(stack, Activation("nested", own, posture, ContextOf(Top), hook, TRUE))

(* Without a function or a context it refuses at once, with no event. *)
RefusedNil ==
  /\ Depth \in 1..(MaxDepth - 1) /\ InCode
  /\ SetTop([Top EXCEPT !.heard = Unavailable(Depth + 1, Plain)])

(* What follows the answer, or the hook's error.  A denial always stops;   *)
(* an answer that is no plain ALLOW does unless the policy is to allow,    *)
(* which covers no misconfigured request.                                  *)
NotEvaluated(answer, err) == err # NoError \/ answer.conclusion # "ALLOW" \/ answer.open

Settles(f, answer, err) ==
  IF answer.conclusion = "DENY" THEN Returns(f, "denied", Denied(Depth, err))
  ELSE IF NotEvaluated(answer, err) /\ (answer = Misconfigured \/ f.posture # "allow")
         THEN Returns(f, "unavailable", Unavailable(Depth, err))
         ELSE [f EXCEPT !.at = "running", !.ran = TRUE, !.degraded = NotEvaluated(answer, err)]

(* The hook may pass on what a GuardAction inside it returned. *)
HookReturns ==
  /\ Depth > 0 /\ Top.at = "resolving"
  /\ \/ SetTop([Top EXCEPT !.at = "asking", !.heard = NoError])
     \/ \E err \in {Plain, Top.heard} \ {NoError} : SetTop(Settles(Top, NoAnswer, err))

GuardAnswers ==
  /\ Depth > 0 /\ Top.at = "asking"
  /\ \E a \in Answers : \E err \in Errors(a) : SetTop(Settles([Top EXCEPT !.answer = a], a, err))

FinishedTwice(f, err) ==                     \* mutant: a degraded run that fails has two events
  LET g == IF f.degraded THEN Event(f, "degraded") ELSE f
  IN Returns(g, IF err # NoError THEN "error" ELSE "success", err)
Finished(f, err) ==
  Returns(f, IF err # NoError THEN "error" ELSE IF f.degraded THEN "degraded" ELSE "success", err)

(* The action returns, perhaps with what a GuardAction inside it returned. *)
FnReturns ==
  /\ Depth > 0 /\ Top.at = "running" /\ Top.code
  /\ \E err \in {NoError, Plain, Top.heard} : SetTop(Finished(Top, err))

(* A nested call is over, and its caller has the error. *)
NestedReturns ==
  /\ Depth > 1 /\ Top.at = "returned" /\ Top.kind = "nested"
  /\ stack' = [SubSeq(stack, 1, Depth - 1) EXCEPT ![Depth - 1].heard = Top.err]

ActionStep == Nest \/ RefusedNil \/ HookReturns \/ GuardAnswers \/ FnReturns \/ NestedReturns
=============================================================================
