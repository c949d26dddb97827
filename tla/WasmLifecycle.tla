---------------------------- MODULE WasmLifecycle ----------------------------
(***************************************************************************)
(* Who owns a compiled WebAssembly component, and what its calls meet when *)
(* Close comes.  There are two owners: redact.Redactor compiles in New,    *)
(* and Close waits for the calls in flight; localEvaluator compiles on the *)
(* first call that needs it, and its close waits for nobody.               *)
(*                                                                         *)
(* Both use a component alike: a fresh instance for each call, through the *)
(* generated bindings, which end a failed call in an error if its result   *)
(* has room for one and in a panic otherwise, and which panic after any    *)
(* call whose result they cannot free.                                     *)
(***************************************************************************)
EXTENDS FiniteSets

CONSTANTS
  Calls,       (* calls of Redact, or of the evaluator's operations        *)
  Closers,     (* callers of Close                                         *)
  NoOne

ASSUME WasmAssumption == NoOne \notin Calls \cup Closers /\ Calls \cap Closers = {}

VARIABLES
  owner,       (* which of the two it is                                   *)
  factory,     (* the compiled component                                   *)
  closed,      (* the owner's flag                                         *)
  readers,     (* calls that hold the Redactor's lock for reading          *)
  calls,
  closers

vars == <<owner, factory, closed, readers, calls, closers>>

(* "unanswering": what is exported returns no error: redact, and           *)
(* detect-sensitive-info of js_req.                                        *)
Exports == IF owner = "redactor" THEN {"unanswering"} ELSE {"unanswering", "answering"}

NewCall == [at |-> "idle", export |-> "unanswering", inst |-> "none",
            asked |-> FALSE, inner |-> NoOne, end |-> "none"]

Init ==
  /\ owner \in {"redactor", "evaluator"}
  /\ factory \in (IF owner = "redactor" THEN {"open"} ELSE {"none", "open"})
  /\ closed = FALSE /\ readers = {}
  /\ calls = [c \in Calls |-> NewCall]
  /\ closers = [k \in Closers |-> "idle"]

Call(c, f) == calls' = [calls EXCEPT ![c] = f]
Ends(c, end) == Call(c, [calls[c] EXCEPT !.at = "done", !.end = end])
Enters(c) == \E e \in Exports : Call(c, [calls[c] EXCEPT !.at = "entered", !.export = e])

-----------------------------------------------------------------------------
(* The beginning of a call.  A Close that waits for the lock keeps new     *)
(* readers out.                                                            *)

Waiting == \E k \in Closers : closers[k] = "waiting"

RedactEnters(c) ==
  /\ owner = "redactor" /\ calls[c].at = "idle" /\ ~Waiting
  /\ IF closed
       THEN Ends(c, "closed") /\ UNCHANGED readers
       ELSE Enters(c) /\ readers' = readers \cup {c}
  /\ UNCHANGED <<owner, factory, closed, closers>>

(* factoryLazy, under its mutex; a failed compilation leaves no factory. *)
NeverRefuses == FALSE                           \* mutant: the flag is not looked at
Refuses == closed
NeedsCompile == factory # "open"

FactoryLazy(c) ==
  /\ owner = "evaluator" /\ calls[c].at = "idle"
  /\ \/ Refuses /\ Ends(c, "closed") /\ UNCHANGED factory
     \/ ~Refuses /\ ~NeedsCompile /\ Enters(c) /\ UNCHANGED factory
     \/ ~Refuses /\ NeedsCompile /\ Enters(c) /\ factory' = "open"
     \/ ~Refuses /\ NeedsCompile /\ Ends(c, "error") /\ UNCHANGED factory
  /\ UNCHANGED <<owner, closed, readers, closers>>

-----------------------------------------------------------------------------
(* A call through the bindings.  Whatever asks the guest for something may *)
(* fail; once the runtime is closed it fails or, being past the checks of  *)
(* the runtime, still succeeds.                                            *)

Steps(c, f) == Call(c, f) /\ UNCHANGED <<owner, factory, closed, readers, closers>>
Failed(f) == IF f.export = "answering" THEN "error" ELSE "panic"
Fails(c, at) == Steps(c, [calls[c] EXCEPT !.at = at, !.end = Failed(calls[c])])

Instantiate(c) ==
  /\ calls[c].at = "entered"
  /\ \/ factory = "open" /\ Steps(c, [calls[c] EXCEPT !.at = "ready", !.inst = "open"])
     \/ Steps(c, [calls[c] EXCEPT !.at = "unwinding", !.end = "error"])

(* Arguments go into memory the guest allocates for them. *)
Lower(c) ==
  /\ calls[c].at = "ready"
  /\ Steps(c, [calls[c] EXCEPT !.at = "guest"]) \/ Fails(c, "unwinding")

GuestAsks(c) ==
  /\ calls[c].at = "guest" /\ ~calls[c].asked
  /\ Steps(c, [calls[c] EXCEPT !.at = "callback", !.asked = TRUE])

(* The application's callback may use the same Redactor or client. *)
CallbackCalls(c) ==
  /\ calls[c].at = "callback" /\ calls[c].inner = NoOne
  /\ \E d \in {d \in Calls : calls[d].at = "idle"} \cup {k \in Closers : closers[k] = "idle"} :
       Steps(c, [calls[c] EXCEPT !.inner = d])

Over(x) == x = NoOne \/ (x \in Calls /\ calls[x].at = "done") \/ (x \in Closers /\ closers[x] = "done")

(* It returns, or panics, which the runtime makes an error of the guest. *)
CallbackReturns(c) ==
  /\ calls[c].at = "callback" /\ Over(calls[c].inner)
  /\ Steps(c, [calls[c] EXCEPT !.at = "guest"]) \/ Fails(c, "unwinding")

GuestAnswers(c) ==
  /\ calls[c].at = "guest"
  /\ Steps(c, [calls[c] EXCEPT !.at = "answered"]) \/ Fails(c, "unwinding")

(* The result is copied out of the guest's memory; cabi_post, which frees  *)
(* it, is deferred until then.                                             *)
Lift(c) ==
  /\ calls[c].at = "answered"
  /\ Steps(c, [calls[c] EXCEPT !.at = "cleaning", !.end = "ok"]) \/ Fails(c, "cleaning")

(* The clean-up panics if cabi_post fails, whatever was to be returned. *)
Post(c) ==
  /\ calls[c].at = "cleaning"
  /\ \/ Steps(c, [calls[c] EXCEPT !.at = "unwinding"])
     \/ Steps(c, [calls[c] EXCEPT !.at = "unwinding", !.end = "unclean"])

(* The instance is closed on every way out.  Redact recovers a panic, and  *)
(* unlocks.                                                                *)
StaysLocked(c) == IF calls[c].end = "ok" THEN readers \ {c} ELSE readers  \* mutant: unlock is not deferred
Unlocked(c) == readers \ {c}
Panics == {"panic", "unclean"}
Recovered(end) == IF owner = "redactor" /\ end \in Panics THEN "error" ELSE end

Return(c) ==
  /\ calls[c].at = "unwinding"
  /\ Call(c, [calls[c] EXCEPT !.at = "done", !.end = Recovered(@),
                              !.inst = IF @ = "open" THEN "closed" ELSE @])
  /\ readers' = Unlocked(c)
  /\ UNCHANGED <<owner, factory, closed, closers>>

-----------------------------------------------------------------------------
CloseBegins(k) ==
  /\ closers[k] = "idle"
  /\ closers' = [closers EXCEPT ![k] = "waiting"]
  /\ UNCHANGED <<owner, factory, closed, readers, calls>>

NobodyAsked == TRUE                             \* mutant: Close does not wait for readers
Drained == readers = {}

Close(k) ==
  /\ closers[k] = "waiting" /\ Drained
  /\ closers' = [closers EXCEPT ![k] = "done"]
  /\ closed' = TRUE
  /\ factory' = IF factory = "open" THEN "closed" ELSE factory
  /\ UNCHANGED <<owner, readers, calls>>

CallStep(c) ==
  \/ Instantiate(c) \/ Lower(c) \/ GuestAsks(c) \/ CallbackReturns(c)
  \/ GuestAnswers(c) \/ Lift(c) \/ Post(c) \/ Return(c)

Next ==
  \/ \E c \in Calls : RedactEnters(c) \/ FactoryLazy(c) \/ CallbackCalls(c) \/ CallStep(c)
  \/ \E k \in Closers : CloseBegins(k) \/ Close(k)

(* The scheduler runs what can run, and the application's callbacks and    *)
(* the guest return.  Nobody is made to call anything.                     *)
Spec ==
  /\ Init /\ [][Next]_vars
  /\ \A c \in Calls : WF_vars(CallStep(c))
  /\ \A k \in Closers : WF_vars(Close(k))

-----------------------------------------------------------------------------
(* What a call may meet.  A Redact never uses an instance of a closed      *)
(* runtime, and never panics.  An operation of the evaluator may; one      *)
(* whose export returns errors does only when its clean-up fails, and      *)
(* everything else that fails in it, under a close too, is its error.      *)
UseIsSafe ==
  \A c \in Calls :
    /\ owner = "redactor" => (calls[c].inst = "open" => factory = "open")
    /\ calls[c].at = "done" =>
         /\ owner = "redactor" => calls[c].end \notin Panics
         /\ calls[c].export = "answering" => calls[c].end # "panic"

(* Nothing is left behind: no component is compiled after Close, and a     *)
(* call that is over, in whatever way, has closed its instance.            *)
NothingOutlivesClose ==
  /\ closed => factory # "open"
  /\ \A c \in Calls : calls[c].at = "done" => calls[c].inst # "open"

(* Close returns, however the calls it waits for end; unless a callback    *)
(* uses the component it was called from, which can wait for itself.       *)
Reentered == \E c \in Calls : calls[c].inner # NoOne
CloseReturns == \A k \in Closers : closers[k] = "waiting" ~> (closers[k] = "done" \/ Reentered)
=============================================================================
