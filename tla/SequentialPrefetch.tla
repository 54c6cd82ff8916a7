------------------------- MODULE SequentialPrefetch -------------------------
(***************************************************************************)
(* BoundedPrefetch with one worker (bounded_prefetch.hpp): one producer     *)
(* thread fills a deque, the consumer empties it.  Unlike the ring, room is *)
(* tested before producing and the item is counted only when it is queued,  *)
(* a producer failure does not set cancelled_, and the end of the input is  *)
(* a flag of its own.  Steps and waiting are those of ParallelPrefetch.     *)
(***************************************************************************)
EXTENDS Integers, Sequences

CONSTANTS Count, Capacity

ASSUME CountAssumption == Count \in Nat
ASSUME CapacityAssumption == Capacity \in Nat \ {0}

Indices == 0 .. (Count - 1)

VARIABLES
  queue,                \* produced and not yet popped
  peak,                 \* longest queue seen
  cancelled, done,
  failed,               \* error_ is set
  wpc,                  \* where the worker is
  i,                    \* its loop index
  cpc,                  \* where the consumer is
  asleep,               \* threads blocked in ready_.wait
  out, last             \* what pop() returned, and how the latest one ended

shared == <<queue, peak, cancelled, done, failed>>
vars == <<shared, wpc, i, cpc, asleep, out, last>>

TypeOK ==
  /\ queue \in Seq(Indices)
  /\ peak \in Nat
  /\ {cancelled, done, failed} \subseteq BOOLEAN
  /\ wpc \in {"unborn", "wait", "produce", "push", "notify", "finish",
              "failed", "lastnotify", "done"}
  /\ i \in 0 .. Count
  /\ cpc \in {"ctor", "idle", "pop", "popnotify", "cancel", "cancelnotify", "join", "gone"}
  /\ asleep \subseteq {"worker", "consumer"}
  /\ out \in Seq(Indices)
  /\ last \in {"none", "item", "error", "exhausted"}

Init ==
  /\ queue = <<>> /\ peak = 0
  /\ cancelled = FALSE /\ done = FALSE /\ failed = FALSE
  /\ wpc = "unborn" /\ i = 0
  /\ cpc = "ctor"
  /\ asleep = {}
  /\ out = <<>> /\ last = "none"

-----------------------------------------------------------------------------
(* The constructor starts the thread or throws without an object. *)

Start == /\ cpc = "ctor"
         /\ cpc' = "idle"
         /\ wpc' = "wait"
         /\ UNCHANGED <<shared, i, asleep, out, last>>

StartFails == /\ cpc = "ctor"
              /\ cpc' = "gone"
              /\ UNCHANGED <<shared, wpc, i, asleep, out, last>>

-----------------------------------------------------------------------------
(* The worker *)

\* Wrong on purpose: admits one item too many.
RoomOffByOne == Len(queue) <= Capacity
Room == Len(queue) < Capacity
AtWait == wpc = "wait" /\ "worker" \notin asleep

LoopEnds == /\ AtWait
            /\ i = Count
            /\ wpc' = "finish"
            /\ UNCHANGED <<shared, i, cpc, asleep, out, last>>

WorkerSleep == /\ AtWait
               /\ i < Count /\ ~cancelled /\ ~Room
               /\ asleep' = asleep \cup {"worker"}
               /\ UNCHANGED <<shared, wpc, i, cpc, out, last>>

WorkerCancelled == /\ \/ AtWait /\ i < Count
                      \/ wpc = "push"
                   /\ cancelled
                   /\ wpc' = "done"
                   /\ UNCHANGED <<shared, i, cpc, asleep, out, last>>

Admit == /\ AtWait
         /\ i < Count /\ ~cancelled /\ Room
         /\ wpc' = "produce"
         /\ UNCHANGED <<shared, i, cpc, asleep, out, last>>

Produce == /\ wpc = "produce"
           /\ wpc' \in {"push", "failed"}
           /\ UNCHANGED <<shared, i, cpc, asleep, out, last>>

\* Wrong on purpose: the newest item goes to the front.
PushFront == /\ wpc = "push"
             /\ ~cancelled
             /\ queue' = <<i>> \o queue
             /\ peak' = IF Len(queue') > peak THEN Len(queue') ELSE peak
             /\ wpc' = "notify"
             /\ UNCHANGED <<cancelled, done, failed, i, cpc, asleep, out, last>>

Push == /\ wpc = "push"
        /\ ~cancelled
        /\ queue' = Append(queue, i)
        /\ peak' = IF Len(queue') > peak THEN Len(queue') ELSE peak
        /\ wpc' = "notify"
        /\ UNCHANGED <<cancelled, done, failed, i, cpc, asleep, out, last>>

WorkerNotify == /\ wpc = "notify"
                /\ asleep' = {}
                /\ i' = i + 1
                /\ wpc' = "wait"
                /\ UNCHANGED <<shared, cpc, out, last>>

Finish == /\ wpc = "finish"
          /\ done' = TRUE
          /\ wpc' = "lastnotify"
          /\ UNCHANGED <<queue, peak, cancelled, failed, i, cpc, asleep, out, last>>

Fail == /\ wpc = "failed"
        /\ failed' = TRUE
        /\ wpc' = "lastnotify"
        /\ UNCHANGED <<queue, peak, cancelled, done, i, cpc, asleep, out, last>>

\* Wrong on purpose: the worker ends without waking a consumer that waits.
EndSilently == /\ wpc = "lastnotify"
               /\ wpc' = "done"
               /\ UNCHANGED <<shared, i, cpc, asleep, out, last>>

LastNotify == /\ wpc = "lastnotify"
              /\ asleep' = {}
              /\ wpc' = "done"
              /\ UNCHANGED <<shared, i, cpc, out, last>>

WorkerStep == \/ LoopEnds \/ WorkerSleep \/ WorkerCancelled \/ Admit \/ Produce
              \/ Push \/ WorkerNotify \/ Finish \/ Fail \/ LastNotify

-----------------------------------------------------------------------------
(* The consumer *)

AtPop == cpc = "pop" /\ "consumer" \notin asleep

CallPop == /\ cpc = "idle"
           /\ cpc' = "pop"
           /\ UNCHANGED <<shared, wpc, i, asleep, out, last>>

PopSleep == /\ AtPop
            /\ ~failed /\ ~done /\ queue = <<>>
            /\ asleep' = asleep \cup {"consumer"}
            /\ UNCHANGED <<shared, wpc, i, cpc, out, last>>

PopError == /\ AtPop
            /\ failed
            /\ last' = "error"
            /\ cpc' = "idle"
            /\ UNCHANGED <<shared, wpc, i, asleep, out>>

PopExhausted == /\ AtPop
                /\ ~failed /\ done /\ queue = <<>>
                /\ last' = "exhausted"
                /\ cpc' = "idle"
                /\ UNCHANGED <<shared, wpc, i, asleep, out>>

PopItem == /\ AtPop
           /\ ~failed /\ queue # <<>>
           /\ out' = Append(out, Head(queue))
           /\ queue' = Tail(queue)
           /\ last' = "item"
           /\ cpc' = "popnotify"
           /\ UNCHANGED <<peak, cancelled, done, failed, wpc, i, asleep>>

PopNotify == /\ cpc = "popnotify"
             /\ asleep' = {}
             /\ cpc' = "idle"
             /\ UNCHANGED <<shared, wpc, i, out, last>>

Destroy == /\ cpc = "idle"
           /\ cpc' = "cancel"
           /\ UNCHANGED <<shared, wpc, i, asleep, out, last>>

Cancel == /\ cpc = "cancel"
          /\ cancelled' = TRUE
          /\ cpc' = "cancelnotify"
          /\ UNCHANGED <<queue, peak, done, failed, wpc, i, asleep, out, last>>

CancelNotify == /\ cpc = "cancelnotify"
                /\ asleep' = {}
                /\ cpc' = "join"
                /\ UNCHANGED <<shared, wpc, i, out, last>>

Join == /\ cpc = "join"
        /\ wpc = "done"
        /\ cpc' = "gone"
        /\ UNCHANGED <<shared, wpc, i, asleep, out, last>>

ConsumerStep == \/ Start \/ StartFails \/ PopSleep \/ PopError \/ PopExhausted
                \/ PopItem \/ PopNotify \/ Cancel \/ CancelNotify \/ Join

-----------------------------------------------------------------------------
SpuriousWake == /\ \E t \in asleep : asleep' = asleep \ {t}
                /\ UNCHANGED <<shared, wpc, i, cpc, out, last>>

Finished == cpc = "gone" /\ UNCHANGED vars

Next == WorkerStep \/ ConsumerStep \/ CallPop \/ Destroy \/ SpuriousWake \/ Finished

Fairness == WF_vars(WorkerStep) /\ WF_vars(ConsumerStep)

Spec == Init /\ [][Next]_vars /\ Fairness

-----------------------------------------------------------------------------
(* Properties *)

Preparing == IF wpc \in {"produce", "push"} THEN 1 ELSE 0

(* What is queued is what follows the last popped item, up to the loop      *)
(* index; the item in preparation is counted in the bound although the code *)
(* counts only queued ones; the types hold.                                *)
InOrder ==
  /\ TypeOK
  /\ \A k \in 1 .. Len(queue) : queue[k] = Len(out) + k - 1
  /\ Len(out) + Len(queue) = IF wpc = "notify" THEN i + 1 ELSE i
  /\ Len(queue) + Preparing <= Capacity
  /\ peak <= Capacity

Notifying == wpc \in {"notify", "lastnotify"} \/ cpc \in {"popnotify", "cancelnotify"}

(* Whoever sleeps while what it waits for is true has a notify_all coming   *)
(* (lines 84-106, 127-133, 143-144).                                       *)
NoWakeupLost ==
  /\ "worker" \in asleep => wpc = "wait" /\ (cancelled \/ Room => Notifying)
  /\ "consumer" \in asleep =>
       cpc = "pop" /\ (failed \/ done \/ queue # <<>> => Notifying)

(* The deque holds what is to come, in order and bounded, and whoever waits  *)
(* for a change of it is told.                                             *)
QueueInv == InOrder /\ NoWakeupLost

(* Until the object is gone the worker or the consumer can take a step.     *)
WorkerRuns == wpc \notin {"unborn", "done"} /\ "worker" \notin asleep
ConsumerRuns ==
  \/ cpc \in {"ctor", "idle", "popnotify", "cancel", "cancelnotify"}
  \/ AtPop
  \/ cpc = "join" /\ wpc = "done"
NoDeadlock == cpc # "gone" => WorkerRuns \/ ConsumerRuns

(* pop() and the destructor both come back: the worker never ends, and never *)
(* stays blocked, in a way that leaves the other side waiting.              *)
CallsReturn ==
  /\ cpc = "pop" ~> cpc = "idle"
  /\ cpc = "cancel" ~> cpc = "gone"

(* The deque implements the same ordered channel as the ring. *)
channelStatus == IF cpc \in {"cancelnotify", "join", "gone"} THEN "closed"
                 ELSE IF failed THEN "failed" ELSE "open"
Channel == INSTANCE PrefetchChannel WITH status <- channelStatus
ChannelSpec == Channel!Spec
=============================================================================
