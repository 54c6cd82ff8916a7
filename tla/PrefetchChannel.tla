-------------------------- MODULE PrefetchChannel --------------------------
(***************************************************************************)
(* What fhemamba::BoundedPrefetch promises its one consumer, whichever of  *)
(* its two implementations is used: items 0 .. Count-1 arrive once each and *)
(* in order, a producer failure ends delivery, "prefetch exhausted" is     *)
(* reported only when every item was delivered, and nothing is delivered   *)
(* after the queue was cancelled by its destructor.                        *)
(***************************************************************************)
EXTENDS Naturals, Sequences

CONSTANT Count          \* number of items the producer is asked for

VARIABLES
  out,                  \* the items pop() has returned, oldest first
  status,               \* "open", "failed" (a producer threw) or "closed"
  last                  \* how the latest pop() ended

vars == <<out, status, last>>

Outcomes == {"none", "item", "error", "exhausted"}

Init == /\ out = <<>>
        /\ status = "open"
        /\ last = "none"

(* pop() returns the next item; a failure already recorded forbids it. *)
Deliver == /\ status = "open"
           /\ Len(out) < Count
           /\ out' = Append(out, Len(out))
           /\ last' = "item"
           /\ UNCHANGED status

(* pop() throws out_of_range: only after the last item was delivered. *)
Exhaust == /\ status = "open"
           /\ Len(out) = Count
           /\ last' = "exhausted"
           /\ UNCHANGED <<out, status>>

(* A producer throws: possible only while an item is still owed. *)
Break == /\ status = "open"
         /\ Len(out) < Count
         /\ status' = "failed"
         /\ UNCHANGED <<out, last>>

(* pop() rethrows the producer's exception. *)
Report == /\ status = "failed"
          /\ last' = "error"
          /\ UNCHANGED <<out, status>>

(* The destructor cancels: nothing is delivered any more. *)
Close == /\ status # "closed"
         /\ status' = "closed"
         /\ UNCHANGED <<out, last>>

Next == Deliver \/ Exhaust \/ Break \/ Report \/ Close

Spec == Init /\ [][Next]_vars
=============================================================================
