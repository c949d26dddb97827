------------------------------ MODULE AgentRun ------------------------------
(***************************************************************************)
(* agentframework: GuardMiddleware screens a turn and guards its tools, a  *)
(* guarded tool asks GuardAction before it runs, and only its own decision *)
(* becomes what the model reads.                                           *)
(*                                                                         *)
(* A tool is its layers, outermost first: "guard" is what GuardTool made,  *)
(* "approval" tool.ApprovalRequiredFunc, which shows no marker of what it  *)
(* wraps.  A middleware may be installed more than once.                   *)
(***************************************************************************)
EXTENDS GuardAction

CONSTANTS
  Towers,      (* the layers a tool may have when the run begins           *)
  Installed    (* how many middlewares the run passes                      *)

(* How many guards and approvals a tool has. *)
Guards(layers) == Cardinality({i \in DOMAIN layers : layers[i] = "guard"})
Approvals(layers) == Cardinality({i \in DOMAIN layers : layers[i] = "approval"})

(* A middleware runs, and the bound on depth leaves room for the guards    *)
(* that a tool brings and one more.                                        *)
ASSUME AgentAssumption ==
  /\ Towers \subseteq Seq({"guard", "approval"})
  /\ Installed \in Nat \ {0}
  /\ \A t \in Towers : Guards(t) < MaxDepth

VARIABLES
  phase,       (* where the run is                                         *)
  passed,      (* middlewares passed                                       *)
  turn,        (* kinds of content in the user's messages                  *)
  runId,       (* the correlation ID on the context of the run             *)
  given,       (* the tool's layers at the beginning                       *)
  tool,        (* its layers now                                           *)
  reply,       (* what the last call of the tool gave the model            *)
  unscreened,  (* history: what Inbound policies let pass unscreened       *)
  wanted       (* history: a Tools policy would have the tool guarded      *)

runVars == <<phase, passed, turn, runId, given, tool, reply, unscreened, wanted>>
vars == <<stack, runVars>>

Contents == {"text", "document", "approval"}
NoReply == [kind |-> "none", depth |-> 0]

Fresh ==
  /\ phase' = "begun"
  /\ turn' \in SUBSET Contents
  /\ \E context, session \in Ids \cup {NoId} : runId' = FirstId(context, session)
  /\ \E t \in Towers : given' = t /\ tool' = t
  /\ passed' = 0 /\ reply' = NoReply /\ stack' = <<>>
  /\ unscreened' = {} /\ wanted' = FALSE

Init ==
  /\ phase = "ended" /\ passed = 0 /\ turn = {} /\ runId = NoId
  /\ given = <<>> /\ tool = <<>> /\ reply = NoReply /\ stack = <<>>
  /\ unscreened = {} /\ wanted = FALSE

(* A run begins; withSessionCorrelation prefers the context's ID. *)
RunBegins == phase = "ended" /\ Fresh

-----------------------------------------------------------------------------
(* guardMiddleware.Run.                                                    *)

Passes ==
  /\ passed' = passed + 1
  /\ phase' = IF passed' = Installed THEN "provider" ELSE "begun"
  /\ turn' = IF passed' = Installed THEN {} ELSE turn

(* hasUserContent: an approval answers a call that was screened before. *)
HasUserContent(contents) == contents \ {"approval"} # {}

(* screenInbound, when this middleware has an Inbound policy. *)
Screen ==
  /\ phase = "begun"
  /\ \E inbound \in BOOLEAN :
       IF inbound /\ HasUserContent(turn)
         THEN /\ phase' = "screening" /\ UNCHANGED unscreened
              /\ \E own \in Ids \cup {NoId}, posture \in {"deny", "allow"}, hook \in BOOLEAN :
                   stack' = <<Activation("inbound", own, posture, runId, hook, FALSE)>>
         ELSE /\ phase' = "guarding" /\ UNCHANGED stack
              /\ unscreened' = unscreened \cup (IF inbound THEN turn ELSE {})
  /\ UNCHANGED <<passed, turn, runId, given, tool, reply, wanted>>

(* The answer to an activation lets its action run: an ALLOW of its        *)
(* policy, or none that could be had where the policy is to allow then,    *)
(* which neither a denial nor a misconfigured request is.                  *)
Consented(f) ==
  \/ f.answer = Allowed
  \/ f.posture = "allow" /\ f.answer.conclusion # "DENY" /\ f.answer # Misconfigured

(* Whatever GuardAction returns but nil ends the run, with one update. *)
AdmitsUndenied(f) == ~As(f.err, "denied")       \* mutant: no other error blocks
Admits(f) == f.err = NoError

ScreenedOn ==                                \* mutant: no return behind the update
  /\ phase = "screening" /\ Depth = 1 /\ Top.at = "returned"
  /\ phase' = "guarding"
  /\ reply' = IF Admits(Top) THEN NoReply ELSE [kind |-> "refused", depth |-> 0]
  /\ stack' = <<>>
  /\ unscreened' = IF Consented(Top) THEN unscreened ELSE unscreened \cup turn
  /\ UNCHANGED <<passed, turn, runId, given, tool, wanted>>
Screened ==
  /\ phase = "screening" /\ Depth = 1 /\ Top.at = "returned"
  /\ phase' = IF Admits(Top) THEN "guarding" ELSE "ended"
  /\ reply' = IF Admits(Top) THEN NoReply ELSE [kind |-> "refused", depth |-> 0]
  /\ stack' = <<>>
  /\ unscreened' = IF Consented(Top) THEN unscreened ELSE unscreened \cup turn
  /\ UNCHANGED <<passed, turn, runId, given, tool, wanted>>

NeverGuarded(layers) == FALSE                    \* mutant: the marker is not looked for
AlreadyGuarded(layers) == layers # <<>> /\ Head(layers) = "guard"

(* GuardTools, when this middleware has a Tools policy, which wants the    *)
(* tool guarded or not; or gives a policy for it that GuardTool rejects,   *)
(* which ends the run with the error.  It is not asked of a guarded tool.  *)
GuardTools ==
  /\ phase = "guarding"
  /\ \/ \E wants \in BOOLEAN :
          /\ tool' = IF wants /\ ~AlreadyGuarded(tool) THEN <<"guard">> \o tool ELSE tool
          /\ wanted' = (wanted \/ wants)
          /\ Passes
     \/ ~AlreadyGuarded(tool) /\ phase' = "ended" /\ UNCHANGED <<passed, turn, tool, wanted>>
  /\ UNCHANGED <<stack, runId, given, reply, unscreened>>

-----------------------------------------------------------------------------
(* guardedTool.Call.  The guard around a call is the outermost of the      *)
(* layers left; approval layers pass calls on.                             *)

GuardAt(layers) == SelectInSeq(layers, LAMBDA layer : layer = "guard")
Below(layers) == SubSeq(layers, GuardAt(layers) + 1, Len(layers))
Guarded(layers, own, posture, context, hook) ==
  [Activation("tool", own, posture, context, hook, GuardAt(Below(layers)) = 0) EXCEPT
     !.layers = Below(layers)]

(* The provider calls the tool, if it is guarded at all. *)
CallTool ==
  /\ phase = "provider" /\ Depth = 0 /\ GuardAt(tool) > 0
  /\ \E own \in Ids \cup {NoId}, posture \in {"deny", "allow"}, hook \in BOOLEAN :
       stack' = <<Guarded(tool, own, posture, runId, hook)>>
  /\ reply' = NoReply
  /\ UNCHANGED <<phase, passed, turn, runId, given, tool, unscreened, wanted>>

(* What a guard wraps is guarded in turn. *)
CallInner ==
  /\ Depth > 0 /\ Top.at = "running" /\ GuardAt(Top.layers) > 0
  /\ \E own \in Ids \cup {NoId}, posture \in {"deny", "allow"}, hook \in BOOLEAN :
       stack' = Append(stack, Guarded(Top.layers, own, posture, ContextOf(Top), hook))
  /\ UNCHANGED runVars

(* The result of a call, once GuardAction has returned; an inner guard     *)
(* hands its refusal to the outer one as a value.                          *)
ReplyByError(f) ==                           \* mutant: the error alone decides
  IF As(f.err, "unavailable") THEN [kind |-> "unavailable", depth |-> 0]
  ELSE IF As(f.err, "denied") THEN [kind |-> "denied", depth |-> Target(f.err, "denied")]
  ELSE [kind |-> "through", depth |-> 0]
Reply(f) ==
  IF f.ran THEN [kind |-> "through", depth |-> 0]
  ELSE IF As(f.err, "unavailable") THEN [kind |-> "unavailable", depth |-> 0]
  ELSE IF As(f.err, "denied") THEN [kind |-> "denied", depth |-> Target(f.err, "denied")]
  ELSE [kind |-> "through", depth |-> 0]

ToolReturns ==
  /\ Depth > 0 /\ Top.at = "returned" /\ Top.kind = "tool"
  /\ IF Depth = 1
       THEN stack' = <<>> /\ reply' = Reply(Top)
       ELSE /\ stack' = [SubSeq(stack, 1, Depth - 1) EXCEPT
                           ![Depth - 1] = Finished(@, IF Reply(Top).kind = "through" THEN Top.err ELSE NoError)]
            /\ UNCHANGED reply
  /\ UNCHANGED <<phase, passed, turn, runId, given, tool, unscreened, wanted>>

(* The action of a screening does nothing. *)
Admitted ==
  /\ phase = "screening" /\ Depth = 1 /\ Top.at = "running"
  /\ SetTop(Finished(Top, NoError))
  /\ UNCHANGED runVars

ProviderEnds ==
  /\ phase = "provider" /\ Depth = 0
  /\ phase' = "ended"
  /\ UNCHANGED <<stack, passed, turn, runId, given, tool, reply, unscreened, wanted>>

Next ==
  \/ RunBegins \/ Screen \/ Screened \/ GuardTools \/ CallTool \/ CallInner
  \/ ToolReturns \/ Admitted \/ ProviderEnds
  \/ ActionStep /\ UNCHANGED runVars

Spec == Init /\ [][Next]_vars

-----------------------------------------------------------------------------
(* Properties.                                                             *)

Hidden(layers) == \E i, j \in DOMAIN layers : i < j /\ layers[i] = "approval" /\ layers[j] = "guard"

(* The state of a run: which activations may exist in which phase, and     *)
(* that a run is over once its turn is refused.                            *)
TypeOK ==
  /\ phase \in {"begun", "screening", "guarding", "provider", "ended"}
  /\ passed \in 0..Installed
  /\ turn \subseteq Contents /\ runId \in Ids \cup {NoId}
  /\ reply.kind \in {"none", "refused", "through", "unavailable", "denied"} /\ reply.depth \in 0..MaxDepth
  /\ reply.kind = "refused" => phase = "ended"
  /\ unscreened \subseteq Contents /\ wanted \in BOOLEAN
  /\ Depth <= MaxDepth
  /\ Depth > 0 => phase = (IF stack[1].kind = "inbound" THEN "screening" ELSE "provider")
  /\ \A n \in 1..Depth :
       /\ stack[n].kind = "tool" => n = 1 \/ stack[n - 1].kind = "tool"
       /\ n < Depth => stack[n].at \in {"resolving", "running"}
       /\ stack[n].at \in {"resolving", "asking", "running", "returned"}
       /\ stack[n].answer \in Answers \cup {NoAnswer}

(* What the model reads of a call as a refusal is a refusal of that call:  *)
(* its tool did not run, and a denial carries the decision of its own      *)
(* policy, whatever guards inside its hook or its body said about other    *)
(* actions; a tool that ran is never reported as refused.                  *)
RefusalsAreTheirOwn ==
  [][phase = "provider" /\ Depth = 1 /\ stack' = <<>> =>
       /\ reply'.kind = "through" <=> Top.ran
       /\ reply'.kind = "denied" => reply'.depth = 1
       /\ reply'.kind = "denied" <=> Top.answer.conclusion = "DENY"]_vars

(* Nothing happens without consent.  A turn gets past an Inbound policy,   *)
(* and so to the provider and its tools, only if the screening consented;  *)
(* what passes unscreened is approvals, which answer a call screened       *)
(* before.  And the code of a tool runs only with the consent of every     *)
(* guard around it.                                                        *)
RunsByConsent == \A n \in 1..Depth : stack[n].ran => Consented(stack[n])
EffectHasConsent ==
  /\ phase # "ended" => unscreened \subseteq {"approval"}
  /\ RunsByConsent
  /\ \A n \in 1..Depth :
       stack[n].kind = "tool" /\ stack[n].ran /\ stack[n].code => n = Guards(tool)

(* Every call that got past its arguments leaves one outcome event, and it *)
(* says what became of the action: refused actions did not run, and only a *)
(* run that policy was evaluated for is a success.                         *)
OneOutcome ==
  \A n \in 1..Depth :
    LET f == stack[n] IN
    /\ f.at # "returned" => f.events = <<>>
    /\ f.at = "returned" =>
         /\ Len(f.events) = 1
         /\ LET outcome == f.events[1].outcome IN
            /\ outcome \in {"denied", "unavailable"} <=> ~f.ran
            /\ outcome = "denied" <=> f.answer.conclusion = "DENY"
            /\ outcome = "success" => f.answer = Allowed
            /\ outcome \in {"success", "degraded"} <=> f.err = NoError

(* Everything a run records joins one sequence: an event carries the ID of *)
(* the innermost policy around it that names one, and else the ID of the   *)
(* run; one that a screening's policy names does not reach the tools.      *)
Inherited(n) ==
  LET named == {i \in 1..n : stack[i].own # NoId}
  IN IF named = {} THEN runId ELSE stack[CHOOSE i \in named : \A j \in named : j <= i].own
OneSequence ==
  \A n \in 1..Depth : \A k \in DOMAIN stack[n].events : stack[n].events[k].id = Inherited(n)

(* However often the middleware is installed, a tool is guarded once,      *)
(* unless it came with a guard that an approval layer hides; a tool that   *)
(* a policy wants guarded is, around all of its layers; and a human        *)
(* approval in front of it survives.                                       *)
GuardedOnce ==
  /\ Hidden(given) \/ Guards(tool) <= (IF Guards(given) > 1 THEN Guards(given) ELSE 1)
  /\ wanted => tool # <<>> /\ tool[1] = "guard"
  /\ Approvals(tool) = Approvals(given)
=============================================================================
