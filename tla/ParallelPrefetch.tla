-------------------------- MODULE ParallelPrefetch --------------------------
(***************************************************************************)
(* BoundedPrefetch with workers > 1 (bounded_prefetch.hpp): several CPU     *)
(* producers claim indices under one mutex, prepare them unlocked, and put *)
(* them in a ring of Capacity slots that one consumer empties in order.     *)
(*                                                                         *)
(* A critical section of mutex_ is one step.  condition_variable::wait is  *)
(* split where the mutex is released: a thread whose predicate is false    *)
(* joins `asleep` and may test again only after a notify_all (or a         *)
(* spurious wake-up) removed it.  Every notify_all runs after the unlock   *)
(* and is a step of its own.  An item is the index it was produced from.   *)
(***************************************************************************)
EXTENDS Integers, Sequences, FiniteSets

CONSTANTS
  Count,                \* items asked for (parallel_count_)
  Capacity,             \* ring slots (capacity_)
  WorkerCount           \* the constructor's `workers`, > 1 on this path

ASSUME CountAssumption == Count \in Nat
ASSUME CapacityAssumption == Capacity \in Nat \ {0}
ASSUME WorkerAssumption == WorkerCount \in Nat /\ WorkerCount > 1

Empty == -1             \* a slot without a value, and "no exception"
Consumer == -1          \* the consumer among the threads that wait
Indices == 0 .. (Count - 1)
Slots == 0 .. (Capacity - 1)

(* min(workers, capacity, count) threads are started. *)
Workers == {w \in 0 .. (WorkerCount - 1) : w < Capacity /\ w < Count}
Threads == Workers \cup {Consumer}

VARIABLES
  assigned,             \* indices claimed so far
  consumed,             \* items popped so far
  slots,                \* the ring: an item or Empty
  readyCount,           \* occupied slots, as the code counts them
  peak,                 \* largest readyCount seen
  cancelled,
  error,                \* index whose production threw first, or Empty
  wpc,                  \* where each worker is
  windex,               \* the index each worker is preparing, else Empty
  cpc,                  \* where the consumer is
  asleep,               \* threads blocked in ready_.wait
  out,                  \* items pop() returned, oldest first
  last                  \* how the latest pop() ended

ring == <<assigned, consumed, slots, readyCount, peak>>
vars == <<ring, cancelled, error, wpc, windex, cpc, asleep, out, last>>

WorkerStates == {"unborn", "wait", "produce", "store", "notify",
                 "failed", "failnotify", "done"}
ConsumerStates == {"ctor", "idle", "pop", "popnotify",
                   "cancel", "cancelnotify", "join", "gone"}

TypeOK ==
  /\ assigned \in 0 .. Count
  /\ consumed \in 0 .. Count
  /\ slots \in [Slots -> Indices \cup {Empty}]
  /\ readyCount \in Int
  /\ peak \in Int
  /\ cancelled \in BOOLEAN
  /\ error \in Indices \cup {Empty}
  /\ wpc \in [Workers -> WorkerStates]
  /\ windex \in [Workers -> Indices \cup {Empty}]
  /\ cpc \in ConsumerStates
  /\ asleep \in SUBSET Threads
  /\ out \in Seq(Indices)
  /\ last \in {"none", "item", "error", "exhausted"}

Init ==
  /\ assigned = 0 /\ consumed = 0
  /\ slots = [k \in Slots |-> Empty]
  /\ readyCount = 0 /\ peak = 0
  /\ cancelled = FALSE /\ error = Empty
  /\ wpc = [w \in Workers |-> "unborn"]
  /\ windex = [w \in Workers |-> Empty]
  /\ cpc = "ctor"
  /\ asleep = {}
  /\ out = <<>> /\ last = "none"

-----------------------------------------------------------------------------
(* Construction: threads are started one after the other, and starting one *)
(* may throw, in which case those already running are cancelled and joined. *)

NextUnborn(w) == /\ wpc[w] = "unborn"
                 /\ \A v \in Workers : v < w => wpc[v] # "unborn"

Spawn == /\ cpc = "ctor"
         /\ \E w \in Workers : /\ NextUnborn(w)
                               /\ wpc' = [wpc EXCEPT ![w] = "wait"]
         /\ UNCHANGED <<ring, cancelled, error, windex, cpc, asleep, out, last>>

SpawnFails == /\ cpc = "ctor"
              /\ \E w \in Workers : wpc[w] = "unborn"
              /\ cpc' = "cancel"
              /\ UNCHANGED <<ring, cancelled, error, wpc, windex, asleep, out, last>>

Constructed == /\ cpc = "ctor"
               /\ \A w \in Workers : wpc[w] # "unborn"
               /\ cpc' = "idle"
               /\ UNCHANGED <<ring, cancelled, error, wpc, windex, asleep, out, last>>

-----------------------------------------------------------------------------
(* Workers *)

\* Wrong on purpose: admits one index too many.
HasRoomOffByOne == assigned - consumed <= Capacity
HasRoom == assigned - consumed < Capacity
WorkerReady == cancelled \/ assigned = Count \/ HasRoom

AtWait(w) == wpc[w] = "wait" /\ w \notin asleep

WorkerSleep(w) ==
  /\ AtWait(w)
  /\ ~WorkerReady
  /\ asleep' = asleep \cup {w}
  /\ UNCHANGED <<ring, cancelled, error, wpc, windex, cpc, out, last>>

WorkerExit(w) ==
  /\ AtWait(w)
  /\ cancelled \/ assigned = Count
  /\ wpc' = [wpc EXCEPT ![w] = "done"]
  /\ UNCHANGED <<ring, cancelled, error, windex, cpc, asleep, out, last>>

Claim(w) ==
  /\ AtWait(w)
  /\ ~cancelled /\ assigned # Count /\ HasRoom
  /\ windex' = [windex EXCEPT ![w] = assigned]
  /\ assigned' = assigned + 1
  /\ wpc' = [wpc EXCEPT ![w] = "produce"]
  /\ UNCHANGED <<consumed, slots, readyCount, peak, cancelled, error, cpc, asleep, out, last>>

Produce(w) ==
  /\ wpc[w] = "produce"
  /\ wpc' = [wpc EXCEPT ![w] = "store"]
  /\ UNCHANGED <<ring, cancelled, error, windex, cpc, asleep, out, last>>

ProduceThrows(w) ==
  /\ wpc[w] = "produce"
  /\ wpc' = [wpc EXCEPT ![w] = "failed"]
  /\ UNCHANGED <<ring, cancelled, error, windex, cpc, asleep, out, last>>

Discard(w) ==
  /\ wpc[w] = "store"
  /\ cancelled
  /\ wpc' = [wpc EXCEPT ![w] = "done"]
  /\ windex' = [windex EXCEPT ![w] = Empty]
  /\ UNCHANGED <<ring, cancelled, error, cpc, asleep, out, last>>

\* Wrong on purpose: fills the front slot instead of the claimed index's own.
StoreAtFront(w) ==
  /\ wpc[w] = "store"
  /\ ~cancelled
  /\ slots' = [slots EXCEPT ![consumed % Capacity] = windex[w]]
  /\ readyCount' = readyCount + 1
  /\ peak' = IF readyCount' > peak THEN readyCount' ELSE peak
  /\ wpc' = [wpc EXCEPT ![w] = "notify"]
  /\ windex' = [windex EXCEPT ![w] = Empty]
  /\ UNCHANGED <<assigned, consumed, cancelled, error, cpc, asleep, out, last>>

Store(w) ==
  /\ wpc[w] = "store"
  /\ ~cancelled
  /\ slots' = [slots EXCEPT ![windex[w] % Capacity] = windex[w]]
  /\ readyCount' = readyCount + 1
  /\ peak' = IF readyCount' > peak THEN readyCount' ELSE peak
  /\ wpc' = [wpc EXCEPT ![w] = "notify"]
  /\ windex' = [windex EXCEPT ![w] = Empty]
  /\ UNCHANGED <<assigned, consumed, cancelled, error, cpc, asleep, out, last>>

WorkerNotify(w) ==
  /\ wpc[w] = "notify"
  /\ asleep' = {}
  /\ wpc' = [wpc EXCEPT ![w] = "wait"]
  /\ UNCHANGED <<ring, cancelled, error, windex, cpc, out, last>>

\* Wrong on purpose: the failure is not recorded, production only stops.
FailUnrecorded(w) ==
  /\ wpc[w] = "failed"
  /\ cancelled' = FALSE
  /\ wpc' = [wpc EXCEPT ![w] = "failnotify"]
  /\ windex' = [windex EXCEPT ![w] = Empty]
  /\ UNCHANGED <<ring, error, cpc, asleep, out, last>>

Fail(w) ==
  /\ wpc[w] = "failed"
  /\ error' = IF error = Empty THEN windex[w] ELSE error
  /\ cancelled' = TRUE
  /\ wpc' = [wpc EXCEPT ![w] = "failnotify"]
  /\ windex' = [windex EXCEPT ![w] = Empty]
  /\ UNCHANGED <<ring, cpc, asleep, out, last>>

\* Wrong on purpose: a failing worker leaves without waking anyone.
FailSilently(w) ==
  /\ wpc[w] = "failnotify"
  /\ wpc' = [wpc EXCEPT ![w] = "done"]
  /\ UNCHANGED <<ring, cancelled, error, windex, cpc, asleep, out, last>>

FailNotify(w) ==
  /\ wpc[w] = "failnotify"
  /\ asleep' = {}
  /\ wpc' = [wpc EXCEPT ![w] = "done"]
  /\ UNCHANGED <<ring, cancelled, error, windex, cpc, out, last>>

WorkerStep(w) == \/ WorkerSleep(w) \/ WorkerExit(w) \/ Claim(w)
                 \/ Produce(w) \/ ProduceThrows(w)
                 \/ Discard(w) \/ Store(w) \/ WorkerNotify(w)
                 \/ Fail(w) \/ FailNotify(w)

-----------------------------------------------------------------------------
(* The consumer *)

FrontSlot == consumed % Capacity
PopReady == error # Empty \/ consumed = Count \/ slots[FrontSlot] # Empty
AtPop == cpc = "pop" /\ Consumer \notin asleep

CallPop == /\ cpc = "idle"
           /\ cpc' = "pop"
           /\ UNCHANGED <<ring, cancelled, error, wpc, windex, asleep, out, last>>

PopSleep == /\ AtPop
            /\ ~PopReady
            /\ asleep' = asleep \cup {Consumer}
            /\ UNCHANGED <<ring, cancelled, error, wpc, windex, cpc, out, last>>

(* A recorded failure is rethrown before any item, even a ready one. *)
PopError == /\ AtPop
            /\ error # Empty
            /\ last' = "error"
            /\ cpc' = "idle"
            /\ UNCHANGED <<ring, cancelled, error, wpc, windex, asleep, out>>

PopExhausted == /\ AtPop
                /\ error = Empty /\ consumed = Count
                /\ last' = "exhausted"
                /\ cpc' = "idle"
                /\ UNCHANGED <<ring, cancelled, error, wpc, windex, asleep, out>>

\* Wrong on purpose: a ready item is handed out although a producer failed.
PopItemDespiteError ==
  /\ AtPop
  /\ consumed # Count
  /\ slots[FrontSlot] # Empty
  /\ out' = Append(out, slots[FrontSlot])
  /\ slots' = [slots EXCEPT ![FrontSlot] = Empty]
  /\ consumed' = consumed + 1
  /\ readyCount' = readyCount - 1
  /\ last' = "item"
  /\ cpc' = "popnotify"
  /\ UNCHANGED <<assigned, peak, cancelled, error, wpc, windex, asleep>>

PopItem == /\ AtPop
           /\ error = Empty /\ consumed # Count
           /\ slots[FrontSlot] # Empty
           /\ out' = Append(out, slots[FrontSlot])
           /\ slots' = [slots EXCEPT ![FrontSlot] = Empty]
           /\ consumed' = consumed + 1
           /\ readyCount' = readyCount - 1
           /\ last' = "item"
           /\ cpc' = "popnotify"
           /\ UNCHANGED <<assigned, peak, cancelled, error, wpc, windex, asleep>>

PopNotify == /\ cpc = "popnotify"
             /\ asleep' = {}
             /\ cpc' = "idle"
             /\ UNCHANGED <<ring, cancelled, error, wpc, windex, out, last>>

(* The consumer leaves the scope, normally or by an exception. *)
Destroy == /\ cpc = "idle"
           /\ cpc' = "cancel"
           /\ UNCHANGED <<ring, cancelled, error, wpc, windex, asleep, out, last>>

Cancel == /\ cpc = "cancel"
          /\ cancelled' = TRUE
          /\ cpc' = "cancelnotify"
          /\ UNCHANGED <<ring, error, wpc, windex, asleep, out, last>>

CancelNotify == /\ cpc = "cancelnotify"
                /\ asleep' = {}
                /\ cpc' = "join"
                /\ UNCHANGED <<ring, cancelled, error, wpc, windex, out, last>>

Join == /\ cpc = "join"
        /\ \A w \in Workers : wpc[w] \in {"unborn", "done"}
        /\ cpc' = "gone"
        /\ UNCHANGED <<ring, cancelled, error, wpc, windex, asleep, out, last>>

ConsumerStep == \/ Spawn \/ SpawnFails \/ Constructed
                \/ PopSleep \/ PopError \/ PopExhausted \/ PopItem \/ PopNotify
                \/ Cancel \/ CancelNotify \/ Join

-----------------------------------------------------------------------------
SpuriousWake == /\ \E t \in asleep : asleep' = asleep \ {t}
                /\ UNCHANGED <<ring, cancelled, error, wpc, windex, cpc, out, last>>

Finished == cpc = "gone" /\ UNCHANGED vars

Next == \/ \E w \in Workers : WorkerStep(w)
        \/ ConsumerStep \/ CallPop \/ Destroy
        \/ SpuriousWake \/ Finished

(* Every thread that can run keeps running, and produce() returns or       *)
(* throws.  Whether the consumer calls pop again or leaves is its choice.  *)
Fairness == /\ \A w \in Workers : WF_vars(WorkerStep(w))
            /\ WF_vars(ConsumerStep)

Spec == Init /\ [][Next]_vars /\ Fairness

-----------------------------------------------------------------------------
(* Properties *)

(* A worker holds its index until it stores it, drops it or reports failure. *)
InFlight == {w \in Workers : wpc[w] \in {"produce", "store", "failed"}}
Occupied == {k \in Slots : slots[k] # Empty}
Preparing == {windex[w] : w \in InFlight}
Ready == {slots[k] : k \in Occupied}

(* Every index a worker is preparing or a slot holds has been claimed and   *)
(* not yet consumed, and the claimed indices span at most Capacity: the     *)
(* window counts in-flight and ready items alike (lines 23-24).             *)
WindowInv ==
  /\ consumed <= assigned
  /\ assigned - consumed <= Capacity
  /\ \A w \in InFlight : consumed <= windex[w] /\ windex[w] < assigned
  /\ \A k \in Occupied : /\ consumed <= slots[k] /\ slots[k] < assigned
                        /\ slots[k] % Capacity = k

(* No index is prepared twice, or still in preparation once it is ready:    *)
(* with WindowInv, no store overwrites an item that was not consumed.       *)
OneHolder ==
  /\ \A v, w \in InFlight : windex[v] = windex[w] => v = w
  /\ \A w \in InFlight, k \in Occupied : slots[k] # windex[w]

(* pop() returned exactly items 0 .. consumed-1, in that order, although    *)
(* the workers finish in any order.                                         *)
OrderedDelivery ==
  /\ Len(out) = consumed
  /\ \A i \in 1 .. Len(out) : out[i] = i - 1

SlotsInv == WindowInv /\ OneHolder /\ OrderedDelivery

(* The ring is right: admission window, single holder, order; and no thread  *)
(* or slot is ever in a state it does not have.                             *)
RingInv == TypeOK /\ SlotsInv

(* Unless production was cancelled, every claimed and unconsumed index is   *)
(* held by a worker or a slot: none is lost between claim and pop.          *)
NoIndexLost ==
  ~cancelled => \A i \in consumed .. (assigned - 1) : i \in Preparing \cup Ready

Notifying == \/ \E w \in Workers : wpc[w] \in {"notify", "failnotify"}
             \/ cpc \in {"popnotify", "cancelnotify"}

(* Whoever sleeps while what it waits for is true has a notify_all coming,  *)
(* although a state changes before its notification, and the last claim     *)
(* makes the workers' predicate true without one (lines 46-73).             *)
NoWakeupLost ==
  /\ \A w \in Workers \cap asleep : wpc[w] = "wait" /\ (WorkerReady => Notifying)
  /\ Consumer \in asleep => cpc = "pop" /\ (PopReady => Notifying)

(* Nothing is lost on the way: neither an index between claim and pop, nor a *)
(* wake-up between a change of state and its notification.                  *)
NothingLost == NoIndexLost /\ NoWakeupLost

(* Someone can run until the object is gone: a worker that is neither asleep *)
(* nor finished, or the consumer, which waits only for an item or for the   *)
(* workers' ends.                                                          *)
WorkerRuns(w) == wpc[w] \notin {"unborn", "done"} /\ w \notin asleep
ConsumerRuns ==
  \/ cpc \in {"ctor", "idle", "popnotify", "cancel", "cancelnotify"}
  \/ AtPop
  \/ cpc = "join" /\ \A w \in Workers : wpc[w] \in {"unborn", "done"}
NoDeadlock == cpc # "gone" => ConsumerRuns \/ \E w \in Workers : WorkerRuns(w)

(* The payloads alive at once, in preparation or ready, and the peak the    *)
(* class reports both stay within the capacity.                             *)
PayloadBound ==
  /\ Cardinality(Preparing \cup Ready) <= Capacity
  /\ readyCount = Cardinality(Occupied)
  /\ peak <= Capacity

(* A blocked or running pop() comes back with an item, an error or the end,   *)
(* and cancellation, by the destructor or by a failed constructor, ends: no  *)
(* lost wake-up, whichever worker fails or finishes when.                   *)
CallsReturn ==
  /\ cpc = "pop" ~> cpc = "idle"
  /\ cpc = "cancel" ~> cpc = "gone"

(* The ring implements the ordered channel.                                 *)
channelStatus == IF cpc \in {"cancelnotify", "join", "gone"} THEN "closed"
                 ELSE IF error # Empty THEN "failed" ELSE "open"
Channel == INSTANCE PrefetchChannel WITH status <- channelStatus
ChannelSpec == Channel!Spec
=============================================================================
