------------------------- MODULE WasmLifecycleProofs -------------------------
(* Safety of the owners of WebAssembly components, for any number of calls *)
(* and of closers.                                                         *)
EXTENDS WasmLifecycle, TLAPS

InFlight == {"entered", "ready", "guest", "callback", "answered", "cleaning", "unwinding"}
Places == {"idle", "done"} \cup InFlight

CallRecords ==
  [at : Places, export : {"unanswering", "answering"}, inst : {"none", "open", "closed"},
   asked : BOOLEAN, inner : Calls \cup Closers \cup {NoOne},
   end : {"none", "ok", "error", "panic", "unclean", "closed"}]

TypeInv ==
  /\ owner \in {"redactor", "evaluator"}
  /\ factory \in {"none", "open", "closed"}
  /\ closed \in BOOLEAN
  /\ readers \subseteq Calls
  /\ calls \in [Calls -> CallRecords]

(* Who holds what: the factory is open or closed with the flag, calls in   *)
(* flight are the readers of the Redactor's lock, instances are open only  *)
(* in flight.                                                              *)
FactoryInv ==
  /\ closed => factory # "open"
  /\ factory = "closed" => closed
LockInv == owner = "redactor" => \A c \in Calls : calls[c].at \in InFlight <=> c \in readers
InstanceInv ==
  /\ \A c \in Calls : calls[c].inst = "open" => calls[c].at \in InFlight \ {"entered"}
  /\ owner = "redactor" => \A c \in Calls : calls[c].inst = "open" => factory = "open"
PanicInv ==
  \A c \in Calls :
    /\ calls[c].end \in Panics =>
         /\ calls[c].at # "idle"
         /\ calls[c].at = "done" => owner = "evaluator"
    /\ calls[c].end = "panic" => calls[c].export = "unanswering"

LifecycleInv == TypeInv /\ FactoryInv /\ LockInv /\ InstanceInv /\ PanicInv

-----------------------------------------------------------------------------

(* Nothing has begun. *)
LEMMA InitLifecycle == Init => LifecycleInv
<1> SUFFICES ASSUME Init PROVE LifecycleInv
  OBVIOUS
<1>1. NewCall \in CallRecords
  BY DEF NewCall, CallRecords, Places
<1>2. NewCall.at = "idle" /\ NewCall.inst = "none" /\ NewCall.end = "none"
  BY DEF NewCall
<1>3. \A c \in Calls : calls[c] = NewCall
  BY DEF Init
<1>4. TypeInv /\ FactoryInv
  BY <1>1 DEF Init, TypeInv, FactoryInv
<1>5. LockInv
  BY <1>2, <1>3 DEF Init, LockInv, InFlight
<1>6. InstanceInv /\ PanicInv
  BY <1>2, <1>3 DEF InstanceInv, PanicInv, Panics
<1> QED
  BY <1>4, <1>5, <1>6 DEF LifecycleInv

(* A step of a call in flight that stays in flight changes that call only, *)
(* opens no instance, and its failure to do what was asked is a panic only *)
(* if its export has no error.                                             *)
LEMMA StepWithin ==
  ASSUME LifecycleInv, NEW c \in Calls, calls[c].at \in InFlight,
         NEW f \in CallRecords, f.at \in InFlight \ {"entered"},
         f.inst = "open" => calls[c].inst = "open" \/ factory = "open",
         f.end = "panic" => f.export = "unanswering",
         Steps(c, f)
  PROVE  LifecycleInv'
<1> USE DEF LifecycleInv
<1>1. /\ UNCHANGED <<owner, factory, closed, readers>>
      /\ calls' = [calls EXCEPT ![c] = f]
  BY DEF Steps, Call
<1>2. \A d \in Calls : calls'[d] = IF d = c THEN f ELSE calls[d]
  BY <1>1 DEF TypeInv
<1>3. TypeInv'
  BY <1>1 DEF TypeInv
<1>4. FactoryInv'
  BY <1>1 DEF FactoryInv
<1>5. LockInv'
  BY <1>1, <1>2 DEF LockInv
<1>6. InstanceInv'
  BY <1>1, <1>2 DEF InstanceInv
<1>7. PanicInv'
  BY <1>1, <1>2 DEF PanicInv, InFlight
<1> QED
  BY <1>3, <1>4, <1>5, <1>6, <1>7

(* A call that failed has a panic only if its export returns no error. *)
LEMMA FailedIs ==
  ASSUME NEW f \in CallRecords
  PROVE  Failed(f) \in {"error", "panic"} /\ (Failed(f) = "panic" => f.export = "unanswering")
BY DEF Failed, CallRecords

LEMMA InstantiateKeeps ==
  ASSUME LifecycleInv, NEW c \in Calls, Instantiate(c) PROVE LifecycleInv'
<1>1. calls[c] \in CallRecords /\ calls[c].at \in InFlight
  BY DEF Instantiate, LifecycleInv, TypeInv, InFlight
<1>2. CASE factory = "open" /\ Steps(c, [calls[c] EXCEPT !.at = "ready", !.inst = "open"])
  <2> DEFINE f == [calls[c] EXCEPT !.at = "ready", !.inst = "open"]
  <2>1. f \in CallRecords /\ f.at = "ready" /\ f.end = calls[c].end /\ f.export = calls[c].export
    BY <1>1 DEF CallRecords, Places, InFlight
  <2> QED
    BY <1>1, <1>2, <2>1, StepWithin DEF InFlight, LifecycleInv, PanicInv
<1>3. CASE Steps(c, [calls[c] EXCEPT !.at = "unwinding", !.end = "error"])
  <2> DEFINE f == [calls[c] EXCEPT !.at = "unwinding", !.end = "error"]
  <2>1. f \in CallRecords /\ f.at = "unwinding" /\ f.end = "error" /\ f.inst = calls[c].inst
    BY <1>1 DEF CallRecords, Places, InFlight
  <2> QED
    BY <1>1, <1>3, <2>1, StepWithin DEF InFlight
<1> QED
  BY <1>2, <1>3 DEF Instantiate

(* The steps through the bindings that leave the instance alone. *)
LEMMA BindingsKeep ==
  ASSUME LifecycleInv, NEW c \in Calls,
         Lower(c) \/ GuestAsks(c) \/ CallbackReturns(c) \/ GuestAnswers(c) \/ Lift(c) \/ Post(c)
  PROVE  LifecycleInv'
<1>1. calls[c] \in CallRecords /\ calls[c].at \in InFlight
  BY DEF Lower, GuestAsks, CallbackReturns, GuestAnswers, Lift, Post, LifecycleInv, TypeInv, InFlight
<1>2. ASSUME NEW at \in InFlight \ {"entered"}, NEW end \in {"ok", "error", "panic", "unclean"},
             end = "panic" => calls[c].export = "unanswering",
             Steps(c, [calls[c] EXCEPT !.at = at, !.end = end])
      PROVE  LifecycleInv'
  <2> DEFINE f == [calls[c] EXCEPT !.at = at, !.end = end]
  <2>1. /\ f \in CallRecords /\ f.at = at /\ f.end = end
        /\ f.inst = calls[c].inst /\ f.export = calls[c].export
    BY <1>1, <1>2 DEF CallRecords, Places, InFlight
  <2> QED
    BY <1>1, <1>2, <2>1, StepWithin
<1>3. ASSUME NEW at \in InFlight \ {"entered"}, NEW asked \in BOOLEAN,
             Steps(c, [calls[c] EXCEPT !.at = at, !.asked = asked])
      PROVE  LifecycleInv'
  <2> DEFINE f == [calls[c] EXCEPT !.at = at, !.asked = asked]
  <2>1. /\ f \in CallRecords /\ f.at = at /\ f.end = calls[c].end
        /\ f.inst = calls[c].inst /\ f.export = calls[c].export
    BY <1>1, <1>3 DEF CallRecords, Places, InFlight
  <2> QED
    BY <1>1, <1>3, <2>1, StepWithin DEF LifecycleInv, PanicInv
<1>4. ASSUME NEW at \in InFlight \ {"entered"}, Steps(c, [calls[c] EXCEPT !.at = at])
      PROVE  LifecycleInv'
  <2>1. [calls[c] EXCEPT !.at = at] = [calls[c] EXCEPT !.at = at, !.asked = calls[c].asked]
    BY <1>1 DEF CallRecords
  <2>2. calls[c].asked \in BOOLEAN
    BY <1>1 DEF CallRecords
  <2> QED
    BY <1>3, <1>4, <2>1, <2>2
<1>5. ASSUME NEW at \in InFlight \ {"entered"}, Fails(c, at)
      PROVE  LifecycleInv'
  BY <1>1, <1>2, <1>5, FailedIs DEF Fails
<1>6. CASE Lower(c)
  BY <1>4, <1>5, <1>6 DEF Lower, InFlight
<1>7. CASE GuestAsks(c)
  BY <1>3, <1>7 DEF GuestAsks, InFlight
<1>8. CASE CallbackReturns(c)
  BY <1>4, <1>5, <1>8 DEF CallbackReturns, InFlight
<1>9. CASE GuestAnswers(c)
  BY <1>4, <1>5, <1>9 DEF GuestAnswers, InFlight
<1>10. CASE Lift(c)
  BY <1>2, <1>5, <1>10 DEF Lift, InFlight
<1>11. CASE Post(c)
  BY <1>2, <1>4, <1>11 DEF Post, InFlight
<1> QED
  BY <1>6, <1>7, <1>8, <1>9, <1>10, <1>11

LEMMA CallbackCallsKeeps ==
  ASSUME LifecycleInv, NEW c \in Calls, CallbackCalls(c) PROVE LifecycleInv'
<1>1. PICK d \in Calls \cup Closers : Steps(c, [calls[c] EXCEPT !.inner = d])
  BY DEF CallbackCalls
<1>2. calls[c] \in CallRecords /\ calls[c].at = "callback"
  BY DEF CallbackCalls, LifecycleInv, TypeInv
<1> DEFINE f == [calls[c] EXCEPT !.inner = d]
<1>3. /\ f \in CallRecords /\ f.at = "callback" /\ f.end = calls[c].end
      /\ f.inst = calls[c].inst /\ f.export = calls[c].export
  BY <1>2 DEF CallRecords, Places, InFlight
<1> QED
  BY <1>1, <1>2, <1>3, StepWithin DEF InFlight, LifecycleInv, PanicInv

(* The ways into a call, of which only one opens the factory, and out.     *)
LEMMA EntersKeeps ==
  ASSUME LifecycleInv, NEW c \in Calls, RedactEnters(c) \/ FactoryLazy(c) PROVE LifecycleInv'
<1> USE DEF LifecycleInv
<1>1. calls[c] \in CallRecords /\ calls[c].at = "idle" /\ calls[c].inst # "open"
  BY DEF RedactEnters, FactoryLazy, TypeInv, InstanceInv, InFlight
<1>2. UNCHANGED <<owner, closed>>
  BY DEF RedactEnters, FactoryLazy
<1>3. ASSUME NEW end \in {"closed", "error"}, Ends(c, end), UNCHANGED <<factory, readers>>
      PROVE  LifecycleInv'
  <2> DEFINE f == [calls[c] EXCEPT !.at = "done", !.end = end]
  <2>1. f \in CallRecords /\ f.at = "done" /\ f.end = end /\ f.inst = calls[c].inst
    BY <1>1, <1>3 DEF CallRecords, Places, InFlight
  <2>2. calls' = [calls EXCEPT ![c] = f]
    BY <1>3 DEF Ends, Call
  <2>3. \A d \in Calls : calls'[d] = IF d = c THEN f ELSE calls[d]
    BY <2>2 DEF TypeInv
  <2>4. TypeInv'
    BY <1>2, <1>3, <2>1, <2>2 DEF TypeInv
  <2> HIDE DEF f
  <2>5. FactoryInv' /\ LockInv'
    BY <1>1, <1>2, <1>3, <2>1, <2>3 DEF FactoryInv, LockInv, InFlight
  <2>6. InstanceInv' /\ PanicInv'
    BY <1>1, <1>2, <1>3, <2>1, <2>3 DEF InstanceInv, PanicInv, Panics
  <2> QED
    BY <2>4, <2>5, <2>6
<1>4. ASSUME Enters(c), readers' = (IF owner = "redactor" THEN readers \cup {c} ELSE readers),
             factory' = factory \/ (factory' = "open" /\ ~closed /\ owner = "evaluator")
      PROVE  LifecycleInv'
  <2>1. PICK e \in {"unanswering", "answering"} : calls' = [calls EXCEPT ![c] = [calls[c] EXCEPT !.at = "entered", !.export = e]]
    BY <1>4 DEF Enters, Exports, Call
  <2> DEFINE f == [calls[c] EXCEPT !.at = "entered", !.export = e]
  <2>2. f \in CallRecords /\ f.at = "entered" /\ f.end = calls[c].end /\ f.inst = calls[c].inst /\ f.export = e
    BY <1>1 DEF CallRecords, Places, InFlight
  <2>3. \A d \in Calls : calls'[d] = IF d = c THEN f ELSE calls[d]
    BY <2>1 DEF TypeInv
  <2> QED
    BY <1>1, <1>2, <1>4, <2>1, <2>2, <2>3 DEF TypeInv, FactoryInv, LockInv, InstanceInv, PanicInv, Panics, InFlight
<1>5. CASE RedactEnters(c)
  BY <1>3, <1>4, <1>5 DEF RedactEnters
<1>6. CASE FactoryLazy(c)
  BY <1>3, <1>4, <1>6 DEF FactoryLazy, Refuses
<1> QED
  BY <1>5, <1>6

LEMMA ReturnKeeps ==
  ASSUME LifecycleInv, NEW c \in Calls, Return(c) PROVE LifecycleInv'
<1> USE DEF LifecycleInv
<1> DEFINE f == [calls[c] EXCEPT !.at = "done", !.end = Recovered(@),
                                 !.inst = IF @ = "open" THEN "closed" ELSE @]
<1>1. /\ calls' = [calls EXCEPT ![c] = f] /\ readers' = readers \ {c}
      /\ UNCHANGED <<owner, factory, closed>> /\ calls[c] \in CallRecords
  BY DEF Return, Call, Unlocked, TypeInv
<1>2. /\ f \in CallRecords /\ f.at = "done" /\ f.inst # "open" /\ f.export = calls[c].export
      /\ f.end = Recovered(calls[c].end)
  BY <1>1 DEF CallRecords, Places, InFlight, Recovered
<1>3. \A d \in Calls : calls'[d] = IF d = c THEN f ELSE calls[d]
  BY <1>1 DEF TypeInv
<1>4. TypeInv' /\ FactoryInv'
  BY <1>1, <1>2 DEF TypeInv, FactoryInv
<1> HIDE DEF f
<1>5. LockInv'
  BY <1>1, <1>2, <1>3 DEF LockInv, InFlight
<1>6. InstanceInv'
  BY <1>1, <1>2, <1>3 DEF InstanceInv
<1>7. PanicInv'
  BY <1>1, <1>2, <1>3 DEF PanicInv, Panics, Recovered, TypeInv
<1> QED
  BY <1>4, <1>5, <1>6, <1>7

(* Close of a Redactor finds no reader, so no instance is open under it. *)
LEMMA CloseKeeps ==
  ASSUME LifecycleInv, NEW k \in Closers, Close(k) PROVE LifecycleInv'
BY DEF Close, Drained, LifecycleInv, TypeInv, FactoryInv, LockInv, InstanceInv, PanicInv, Panics, InFlight

LEMMA NextKeeps == LifecycleInv /\ [Next]_vars => LifecycleInv'
<1> SUFFICES ASSUME LifecycleInv, [Next]_vars PROVE LifecycleInv'
  OBVIOUS
<1>1. CASE UNCHANGED vars
  BY <1>1 DEF vars, LifecycleInv, TypeInv, FactoryInv, LockInv, InstanceInv, PanicInv
<1>2. ASSUME NEW c \in Calls, RedactEnters(c) \/ FactoryLazy(c) PROVE LifecycleInv'
  BY <1>2, EntersKeeps
<1>3. ASSUME NEW c \in Calls, CallbackCalls(c) PROVE LifecycleInv'
  BY <1>3, CallbackCallsKeeps
<1>4. ASSUME NEW c \in Calls, CallStep(c) PROVE LifecycleInv'
  BY <1>4, InstantiateKeeps, BindingsKeep, ReturnKeeps DEF CallStep
<1>5. ASSUME NEW k \in Closers, CloseBegins(k) PROVE LifecycleInv'
  BY <1>5 DEF CloseBegins, LifecycleInv, TypeInv, FactoryInv, LockInv, InstanceInv, PanicInv
<1>6. ASSUME NEW k \in Closers, Close(k) PROVE LifecycleInv'
  BY <1>6, CloseKeeps
<1> QED
  BY <1>1, <1>2, <1>3, <1>4, <1>5, <1>6 DEF Next

LEMMA LifecycleIsInvariant == Spec => []LifecycleInv
<1>1. Init => LifecycleInv
  BY InitLifecycle
<1>2. LifecycleInv /\ [Next]_vars => LifecycleInv'
  BY NextKeeps
<1> QED
  BY <1>1, <1>2, PTL DEF Spec

(* However many calls and closers there are: Redact meets no closed        *)
(* runtime and does not panic, though the bindings may; and of the         *)
(* evaluator's operations, one whose export returns errors panics only     *)
(* when its clean-up fails.                                                *)
THEOREM UseStaysSafe == Spec => []UseIsSafe
<1>1. LifecycleInv => UseIsSafe
  BY DEF LifecycleInv, TypeInv, CallRecords, InstanceInv, PanicInv, UseIsSafe
<1> QED
  BY <1>1, LifecycleIsInvariant, PTL

(* Nothing is compiled after Close, and no call leaves its instance open,  *)
(* whichever way it ended.                                                 *)
THEOREM NothingIsLeft == Spec => []NothingOutlivesClose
<1>1. LifecycleInv => NothingOutlivesClose
  BY DEF LifecycleInv, FactoryInv, InstanceInv, InFlight, NothingOutlivesClose
<1> QED
  BY <1>1, LifecycleIsInvariant, PTL
=============================================================================
