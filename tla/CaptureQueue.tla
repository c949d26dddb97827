---------------------------- MODULE CaptureQueue ----------------------------
(***************************************************************************)
(* What capture delivery promises the callers of GuardClient.Capture and   *)
(* GuardClient.Flush, with no goroutine, lock or timer in sight: a bounded *)
(* queue that refuses an event only when it is full, and that settles each *)
(* event it accepts exactly once - posted, lost with a failed batch, or    *)
(* dropped by an expired flush - never retrying and never reordering.      *)
(*                                                                         *)
(* Events are named by the sequence number they were accepted under.       *)
(***************************************************************************)
EXTENDS Naturals, FiniteSets

CONSTANTS
  QueueSize,   (* most events accepted and not yet settled                 *)
  BatchSize,   (* most events in one Capture request                       *)
  MaxEvents,   (* bound: accepted events                                   *)
  MaxRefused   (* bound: refused events                                    *)

VARIABLES
  accepted,    (* number of events accepted so far                         *)
  pending,     (* accepted events whose fate is open                       *)
  sent,        (* events in a batch the server took                        *)
  failed,      (* events in a batch whose request failed                   *)
  expired,     (* events dropped from the queue by an expired flush        *)
  refused      (* number of events dropped because the queue was full      *)

vars == <<accepted, pending, sent, failed, expired, refused>>

Init ==
  /\ accepted = 0
  /\ pending = {}
  /\ sent = {}
  /\ failed = {}
  /\ expired = {}
  /\ refused = 0

Full == Cardinality(pending) >= QueueSize

(* The events before every other pending one: what one request may carry. *)
Oldest(B) ==
  /\ B # {} /\ B \subseteq pending
  /\ Cardinality(B) <= BatchSize
  /\ \A b \in B, p \in pending \ B : b < p

Accept ==
  /\ ~Full
  /\ accepted < MaxEvents
  /\ accepted' = accepted + 1
  /\ pending' = pending \cup {accepted + 1}
  /\ UNCHANGED <<sent, failed, expired, refused>>

Refuse ==
  /\ Full
  /\ refused < MaxRefused
  /\ refused' = refused + 1
  /\ UNCHANGED <<accepted, pending, sent, failed, expired>>

(* One request: all of the batch is posted or all of it is lost. *)
Settle ==
  \E B \in SUBSET pending :
    /\ Oldest(B)
    /\ pending' = pending \ B
    /\ \/ sent' = sent \cup B /\ UNCHANGED failed
       \/ failed' = failed \cup B /\ UNCHANGED sent
    /\ UNCHANGED <<accepted, expired, refused>>

(* An expired flush drops a run of consecutive pending events. *)
Expire ==
  \E X \in (SUBSET pending) \ {{}} :
    /\ \A p \in pending : (\E x, y \in X : x <= p /\ p <= y) => p \in X
    /\ pending' = pending \ X
    /\ expired' = expired \cup X
    /\ UNCHANGED <<accepted, sent, failed, refused>>

Next == Accept \/ Refuse \/ Settle \/ Expire

Spec == Init /\ [][Next]_vars
=============================================================================
