---------------------- MODULE SequentialPrefetchProofs ----------------------
EXTENDS PrefetchedTerms, SequenceTheorems, FiniteSetTheorems, WellFoundedInduction, TLAPS

LEMMA ConstantsTyped == Count \in Nat /\ Capacity \in Nat /\ Capacity > 0
  BY CountAssumption, CapacityAssumption

(* InOrder says nothing of where the loop is: that an item is prepared only  *)
(* for an index still owed, and that the end is announced only after the     *)
(* last one, is what makes an append well typed and "exhausted" truthful; the *)
(* thread exists once the constructor returned.                             *)
LoopInv ==
  /\ wpc \in {"produce", "push", "notify", "failed"} => i < Count
  /\ wpc = "finish" \/ done => i = Count
  /\ cpc = "ctor" => wpc = "unborn"
  /\ wpc = "unborn" => cpc \in {"ctor", "gone"}

IInv == InOrder /\ LoopInv

LEMMA InitIInv == Init => IInv
  <1> SUFFICES ASSUME Init PROVE IInv
    OBVIOUS
  <1>1. queue \in Seq(Indices) /\ out \in Seq(Indices)
    BY DEF Init
  <1>2. Len(queue) = 0 /\ Len(out) = 0
    BY DEF Init
  <1>3. TypeOK
    <2>1. {cancelled, done, failed} \subseteq BOOLEAN
      BY DEF Init
    <2>2. asleep \subseteq {"worker", "consumer"}
      BY DEF Init
    <2>3. peak \in Nat /\ i \in 0 .. Count
      BY ConstantsTyped DEF Init
    <2> QED BY <1>1, <2>1, <2>2, <2>3 DEF Init, TypeOK
  <1>4. Len(out) + Len(queue) = IF wpc = "notify" THEN i + 1 ELSE i
    BY <1>2 DEF Init
  <1>5. Len(queue) + Preparing <= Capacity /\ peak <= Capacity
    BY <1>2, ConstantsTyped DEF Init, Preparing
  <1>6. \A k \in 1 .. Len(queue) : queue[k] = Len(out) + k - 1
    BY <1>2
  <1> QED BY <1>3, <1>4, <1>5, <1>6 DEF IInv, InOrder, LoopInv, Init

-----------------------------------------------------------------------------
(* A step of the worker *)

LEMMA PushIInv ==
  ASSUME IInv, Push
  PROVE  IInv'
  <1> USE ConstantsTyped DEF IInv, InOrder, LoopInv, TypeOK, Push
  <1>1. i \in Indices /\ Len(queue) \in Nat /\ Len(out) \in Nat
    BY DEF Indices
  <1>2. /\ queue' \in Seq(Indices) /\ Len(queue') = Len(queue) + 1
        /\ queue'[Len(queue) + 1] = i
        /\ \A k \in 1 .. Len(queue) : queue'[k] = queue[k]
    BY <1>1
  <1>3. Len(queue') <= Capacity
    BY <1>1, <1>2 DEF Preparing
  <1>4. peak' \in Nat /\ peak' <= Capacity
    BY <1>1, <1>2, <1>3
  <1>5. TypeOK'
    BY <1>2, <1>4
  <1>6. \A k \in 1 .. Len(queue') : queue'[k] = Len(out') + k - 1
    <2>1. SUFFICES ASSUME NEW k \in 1 .. Len(queue')
                   PROVE  queue'[k] = Len(out) + k - 1
      OBVIOUS
    <2>2. CASE k = Len(queue) + 1
      BY <2>2, <1>1, <1>2
    <2>3. CASE k # Len(queue) + 1
      <3>1. k \in 1 .. Len(queue)
        BY <2>3, <1>1, <1>2
      <3>2. queue'[k] = queue[k] /\ queue[k] = Len(out) + k - 1
        BY <3>1, <1>2
      <3> QED BY <3>2
    <2> QED BY <2>2, <2>3
  <1>7. Len(out') + Len(queue') = i' + 1
    BY <1>1, <1>2
  <1>8. Len(queue') + Preparing' <= Capacity
    BY <1>1, <1>2, <1>3 DEF Preparing
  <1> QED BY <1>4, <1>5, <1>6, <1>7, <1>8

LEMMA WorkerIInv ==
  ASSUME IInv, WorkerStep
  PROVE  IInv'
  <1>1. CASE Push
    BY <1>1, PushIInv
  <1> USE ConstantsTyped DEF IInv, InOrder, LoopInv, TypeOK, Preparing, shared
  <1>2. CASE LoopEnds
    BY <1>2 DEF LoopEnds, AtWait
  <1>3. CASE WorkerSleep
    BY <1>3 DEF WorkerSleep, AtWait
  <1>4. CASE WorkerCancelled
    BY <1>4 DEF WorkerCancelled, AtWait
  <1>5. CASE Admit
    BY <1>5 DEF Admit, AtWait, Room
  <1>6. CASE Produce
    BY <1>6 DEF Produce
  <1>7. CASE WorkerNotify
    BY <1>7 DEF WorkerNotify
  <1>8. CASE Finish
    BY <1>8 DEF Finish
  <1>9. CASE Fail
    BY <1>9 DEF Fail
  <1>10. CASE LastNotify
    BY <1>10 DEF LastNotify
  <1> QED BY <1>1, <1>2, <1>3, <1>4, <1>5, <1>6, <1>7, <1>8, <1>9, <1>10 DEF WorkerStep

-----------------------------------------------------------------------------
(* A step of the consumer, a spurious wake-up, or none *)

LEMMA PopItemIInv ==
  ASSUME IInv, PopItem
  PROVE  IInv'
  <1> USE ConstantsTyped DEF IInv, InOrder, LoopInv, TypeOK, PopItem, AtPop
  <1>1. Len(queue) \in Nat /\ Len(out) \in Nat /\ Len(queue) > 0
    OBVIOUS
  <1>2. /\ Head(queue) \in Indices
        /\ queue' \in Seq(Indices) /\ Len(queue') = Len(queue) - 1
        /\ \A k \in 1 .. Len(queue') : queue'[k] = queue[k + 1]
    BY <1>1
  <1>3. out' \in Seq(Indices) /\ Len(out') = Len(out) + 1
    BY <1>2
  <1>4. TypeOK'
    BY <1>2, <1>3
  <1>5. \A k \in 1 .. Len(queue') : queue'[k] = Len(out') + k - 1
    BY <1>1, <1>2, <1>3
  <1>6. Len(out') + Len(queue') = Len(out) + Len(queue)
    BY <1>1, <1>2, <1>3
  <1>7. Len(queue') + Preparing' <= Capacity
    BY <1>1, <1>2 DEF Preparing
  <1> QED BY <1>4, <1>5, <1>6, <1>7

LEMMA OtherIInv ==
  ASSUME IInv, ConsumerStep \/ CallPop \/ Destroy \/ SpuriousWake \/ UNCHANGED vars
  PROVE  IInv'
  <1>1. CASE PopItem
    BY <1>1, PopItemIInv
  <1> USE DEF IInv, InOrder, LoopInv, TypeOK, Preparing, shared
  <1>2. CASE Start
    BY <1>2, ConstantsTyped DEF Start
  <1>3. CASE StartFails
    BY <1>3 DEF StartFails
  <1>4. CASE PopSleep
    BY <1>4 DEF PopSleep, AtPop
  <1>5. CASE PopError
    BY <1>5 DEF PopError, AtPop
  <1>6. CASE PopExhausted
    BY <1>6 DEF PopExhausted, AtPop
  <1>7. CASE PopNotify
    BY <1>7 DEF PopNotify
  <1>8. CASE Cancel
    BY <1>8 DEF Cancel
  <1>9. CASE CancelNotify
    BY <1>9 DEF CancelNotify
  <1>10. CASE Join
    BY <1>10 DEF Join
  <1>11. CASE CallPop
    BY <1>11 DEF CallPop
  <1>12. CASE Destroy
    BY <1>12 DEF Destroy
  <1>13. CASE SpuriousWake
    BY <1>13 DEF SpuriousWake
  <1>14. CASE UNCHANGED vars
    BY <1>14 DEF vars
  <1> QED BY <1>1, <1>2, <1>3, <1>4, <1>5, <1>6, <1>7, <1>8, <1>9, <1>10, <1>11, <1>12,
             <1>13, <1>14 DEF ConsumerStep

(* The inductive invariant. *)
THEOREM IInvAlways == Spec => []IInv
  <1>1. IInv /\ [Next]_vars => IInv'
    BY WorkerIInv, OtherIInv DEF Next, Finished
  <1> QED BY InitIInv, <1>1, PTL DEF Spec

-----------------------------------------------------------------------------
(* Wake-ups *)

LEMMA WakeupsWorker ==
  ASSUME TypeOK, NoWakeupLost, WorkerStep
  PROVE  NoWakeupLost'
  <1> USE DEF TypeOK, NoWakeupLost, Notifying, Room, shared
  <1>1. CASE LoopEnds \/ WorkerCancelled \/ Admit \/ Produce
    BY <1>1 DEF LoopEnds, WorkerCancelled, Admit, Produce, AtWait
  <1>2. CASE WorkerSleep
    BY <1>2 DEF WorkerSleep, AtWait
  <1>3. CASE Push
    BY <1>3 DEF Push
  <1>4. CASE WorkerNotify \/ LastNotify
    BY <1>4 DEF WorkerNotify, LastNotify
  <1>5. CASE Finish \/ Fail
    BY <1>5 DEF Finish, Fail
  <1> QED BY <1>1, <1>2, <1>3, <1>4, <1>5 DEF WorkerStep

LEMMA WakeupsOther ==
  ASSUME TypeOK, NoWakeupLost,
         ConsumerStep \/ CallPop \/ Destroy \/ SpuriousWake \/ Finished \/ UNCHANGED vars
  PROVE  NoWakeupLost'
  <1> USE DEF TypeOK, NoWakeupLost, Notifying, Room, shared
  <1>1. CASE Start \/ StartFails
    BY <1>1 DEF Start, StartFails
  <1>2. CASE CallPop \/ Destroy \/ PopError \/ PopExhausted
    BY <1>2 DEF CallPop, Destroy, PopError, PopExhausted, AtPop
  <1>3. CASE PopSleep
    BY <1>3 DEF PopSleep, AtPop
  <1>4. CASE PopItem \/ Cancel
    BY <1>4 DEF PopItem, Cancel, AtPop
  <1>5. CASE PopNotify \/ CancelNotify
    BY <1>5 DEF PopNotify, CancelNotify
  <1>6. CASE Join
    BY <1>6 DEF Join
  <1>7. CASE SpuriousWake \/ Finished \/ UNCHANGED vars
    BY <1>7 DEF SpuriousWake, Finished, vars
  <1> QED BY <1>1, <1>2, <1>3, <1>4, <1>5, <1>6, <1>7 DEF ConsumerStep

LEMMA WakeupsStep == IInv /\ NoWakeupLost /\ [Next]_vars => NoWakeupLost'
  <1> SUFFICES ASSUME IInv, NoWakeupLost, [Next]_vars PROVE NoWakeupLost'
    OBVIOUS
  <1>1. TypeOK
    BY DEF IInv, InOrder
  <1> QED BY <1>1, WakeupsWorker, WakeupsOther DEF Next

(* The deque holds what follows the last popped item, at most Capacity items *)
(* with the one in preparation, whatever the count and the capacity; and     *)
(* nobody sleeps on a true predicate without a notification to come.        *)
THEOREM QueueCorrect == Spec => []QueueInv
  <1>1. Init => NoWakeupLost
    BY DEF Init, NoWakeupLost
  <1>2. IInv /\ NoWakeupLost => QueueInv
    BY DEF IInv, QueueInv
  <1> QED BY <1>1, <1>2, WakeupsStep, IInvAlways, PTL DEF Spec

-----------------------------------------------------------------------------
(* Deadlock *)

(* How the worker ends, and when production is stopped.                     *)
StopInv ==
  /\ cancelled => cpc \in {"cancelnotify", "join", "gone"}
  /\ cpc \in {"cancelnotify", "join"} => cancelled
  /\ wpc = "lastnotify" => done \/ failed
  /\ wpc = "done" => cancelled \/ done \/ failed

LEMMA StopStep == IInv /\ StopInv /\ [Next]_vars => StopInv'
  <1> SUFFICES ASSUME IInv, StopInv, [Next]_vars PROVE StopInv'
    OBVIOUS
  <1> USE DEF IInv, InOrder, TypeOK, LoopInv, StopInv, shared
  <1>1. CASE WorkerStep
    <2>1. CASE LoopEnds \/ WorkerSleep \/ WorkerCancelled \/ Admit \/ Produce
      BY <2>1 DEF LoopEnds, WorkerSleep, WorkerCancelled, Admit, Produce, AtWait
    <2>2. CASE Push \/ WorkerNotify \/ Finish \/ Fail \/ LastNotify
      BY <2>2 DEF Push, WorkerNotify, Finish, Fail, LastNotify
    <2> QED BY <1>1, <2>1, <2>2 DEF WorkerStep
  <1>2. CASE ConsumerStep
    <2>1. CASE Start \/ StartFails \/ PopSleep \/ PopError \/ PopExhausted
      BY <2>1 DEF Start, StartFails, PopSleep, PopError, PopExhausted, AtPop
    <2>2. CASE PopItem \/ PopNotify \/ Cancel \/ CancelNotify \/ Join
      BY <2>2 DEF PopItem, PopNotify, Cancel, CancelNotify, Join, AtPop
    <2> QED BY <1>2, <2>1, <2>2 DEF ConsumerStep
  <1>3. CASE CallPop \/ Destroy \/ SpuriousWake \/ Finished \/ UNCHANGED vars
    BY <1>3 DEF CallPop, Destroy, SpuriousWake, Finished, vars
  <1> QED BY <1>1, <1>2, <1>3 DEF Next

LEMMA SomeoneRuns == IInv /\ StopInv /\ NoWakeupLost => NoDeadlock
  <1> SUFFICES ASSUME IInv, StopInv, NoWakeupLost, cpc # "gone", ~ConsumerRuns, ~WorkerRuns
               PROVE  FALSE
    BY DEF NoDeadlock
  <1> USE DEF IInv, InOrder, TypeOK, LoopInv, StopInv, NoWakeupLost, WorkerRuns
  <1>1. wpc = "done" \/ (wpc = "wait" /\ "worker" \in asleep)
    BY DEF ConsumerRuns
  <1>2. CASE cpc = "pop"
    <2>1. "consumer" \in asleep /\ ~Notifying
      BY <1>1, <1>2 DEF ConsumerRuns, AtPop, Notifying
    <2>2. ~failed /\ ~done /\ queue = <<>> /\ ~cancelled
      BY <1>2, <2>1
    <2>3. Len(queue) = 0 /\ Room
      BY <2>2, ConstantsTyped DEF Room
    <2> QED BY <1>1, <2>1, <2>2, <2>3
  <1>3. CASE cpc = "join"
    BY <1>1, <1>3 DEF ConsumerRuns, Notifying
  <1> QED BY <1>2, <1>3 DEF ConsumerRuns

(* As long as the object exists the worker or the consumer can take a step,  *)
(* for any number of items and any capacity, wherever production fails.     *)
THEOREM NeverDeadlocks == Spec => []NoDeadlock
  <1>1. Init => StopInv
    BY DEF Init, StopInv
  <1>2. QueueInv => NoWakeupLost
    BY DEF QueueInv
  <1> QED BY <1>1, <1>2, StopStep, SomeoneRuns, IInvAlways, QueueCorrect, PTL DEF Spec

-----------------------------------------------------------------------------
(* The deque implements the ordered channel, for any count and capacity. *)

LEMMA InitRefines == Init => Channel!Init
  BY DEF Init, Channel!Init, channelStatus

LEMMA DeliveryRefines ==
  ASSUME IInv, PopItem
  PROVE  Channel!Deliver
  <1> USE DEF IInv, InOrder, TypeOK, PopItem, AtPop
  <1>1. Len(queue) \in Nat /\ Len(queue) > 0 /\ Len(out) \in Nat
    OBVIOUS
  <1>2. Head(queue) = Len(out)
    BY <1>1
  <1>3. Len(out) < Count
    <2>1. CASE wpc = "notify"
      BY <2>1, <1>1, ConstantsTyped DEF LoopInv
    <2>2. CASE wpc # "notify"
      BY <2>2, <1>1, ConstantsTyped
    <2> QED BY <2>1, <2>2
  <1> QED BY <1>2, <1>3 DEF Channel!Deliver, channelStatus

LEMMA ExhaustionRefines ==
  ASSUME IInv, PopExhausted
  PROVE  Channel!Exhaust
  <1> USE DEF IInv, InOrder, LoopInv, TypeOK, PopExhausted, AtPop, shared
  <1>1. Len(queue) = 0 /\ Len(out) \in Nat
    OBVIOUS
  <1>2. Len(out) = Count
    BY <1>1, ConstantsTyped
  <1> QED BY <1>2 DEF Channel!Exhaust, channelStatus

LEMMA FailureRefines ==
  ASSUME IInv, Fail
  PROVE  Channel!Break \/ UNCHANGED Channel!vars
  <1> USE DEF IInv, InOrder, LoopInv, TypeOK, Fail
  <1>1. Len(queue) \in Nat /\ Len(out) \in Nat /\ Len(out) < Count
    BY ConstantsTyped
  <1> QED BY <1>1 DEF Channel!Break, Channel!vars, channelStatus

LEMMA StepRefines ==
  ASSUME IInv, [Next]_vars
  PROVE  [Channel!Next]_(Channel!vars)
  <1> USE DEF Channel!vars, channelStatus
  <1>1. CASE PopItem
    BY <1>1, DeliveryRefines DEF Channel!Next
  <1>2. CASE PopExhausted
    BY <1>2, ExhaustionRefines DEF Channel!Next
  <1>3. CASE Fail
    BY <1>3, FailureRefines DEF Channel!Next
  <1>4. CASE PopError
    BY <1>4 DEF PopError, AtPop, shared, Channel!Next, Channel!Report
  <1>5. CASE Cancel
    BY <1>5 DEF Cancel, Channel!Next, Channel!Close, IInv, InOrder, TypeOK
  <1>6. CASE StartFails
    BY <1>6 DEF StartFails, shared, Channel!Next, Channel!Close
  <1>7. CASE \/ LoopEnds \/ WorkerSleep \/ WorkerCancelled \/ Admit \/ Produce
             \/ Push \/ WorkerNotify \/ Finish \/ LastNotify
    BY <1>7 DEF LoopEnds, WorkerSleep, WorkerCancelled, Admit, Produce, Push, WorkerNotify,
       Finish, LastNotify, shared
  <1>8. CASE \/ Start \/ PopSleep \/ PopNotify \/ CancelNotify \/ Join \/ CallPop
             \/ Destroy \/ SpuriousWake
    BY <1>8 DEF Start, PopSleep, PopNotify, CancelNotify, Join, CallPop, Destroy,
       SpuriousWake, AtPop, shared
  <1>9. CASE UNCHANGED vars
    BY <1>9 DEF vars, shared
  <1> QED BY <1>1, <1>2, <1>3, <1>4, <1>5, <1>6, <1>7, <1>8, <1>9
          DEF Next, Finished, WorkerStep, ConsumerStep

(* pop() returns items 0, 1, 2, ...; a recorded error stops delivery; the end  *)
(* is reported after the last item only; nothing arrives after cancellation.  *)
THEOREM ImplementsChannel == Spec => ChannelSpec
  <1>1. IInv /\ [Next]_vars => [Channel!Next]_(Channel!vars)
    BY StepRefines
  <1> QED BY InitRefines, <1>1, IInvAlways, PTL DEF Spec, ChannelSpec, Channel!Spec

-----------------------------------------------------------------------------
(* The mask cache *)

IsSequence(s) == \E S : s \in Seq(S)
IsCache(c) == c = [entries |-> c.entries, index |-> c.index, hits |-> c.hits,
                   misses |-> c.misses, bypasses |-> c.bypasses, evictions |-> c.evictions]

(* Every entry holds the encoding of its own mask, under a number that no     *)
(* other entry has; that numbers are never given twice keeps an eviction from *)
(* taking another entry out of the index.                                   *)
CacheInv(c) ==
  /\ IsCache(c) /\ IsSequence(c.entries) /\ c.misses \in Nat
  /\ \A k \in DOMAIN c.entries :
       /\ c.entries[k].id \in 1 .. c.misses
       /\ c.entries[k].plaintext = <<c.entries[k].mask, c.entries[k].level>>
  /\ \A j, k \in DOMAIN c.entries : c.entries[j].id = c.entries[k].id => j = k

IndexOf(entries) == {<<KeyOf(e), e.id>> : e \in Range(entries)}
IndexInv(c, m) == c.index = IF m = "indexed" THEN IndexOf(c.entries) ELSE {}

LEMMA AnySequence ==
  ASSUME NEW s, IsSequence(s)
  PROVE  Len(s) \in Nat /\ DOMAIN s = 1 .. Len(s)
  BY DEF IsSequence

(* A hit moves one entry to the front and the ones before it back by one. *)
LEMMA PromoteShape ==
  ASSUME NEW s, IsSequence(s), NEW k \in DOMAIN s
  PROVE  /\ IsSequence(Promote(s, k)) /\ DOMAIN Promote(s, k) = DOMAIN s
         /\ \A j \in DOMAIN s :
              Promote(s, k)[j] = IF j = 1 THEN s[k] ELSE IF j <= k THEN s[j - 1] ELSE s[j]
  <1>1. PICK S : s \in Seq(S)
    BY DEF IsSequence
  <1>2. Len(s) \in Nat /\ DOMAIN s = 1 .. Len(s) /\ k \in 1 .. Len(s) /\ s[k] \in S
    BY <1>1
  <1> DEFINE a == SubSeq(s, 1, k - 1)
             b == SubSeq(s, k + 1, Len(s))
  <1>3. /\ a \in Seq(S) /\ Len(a) = k - 1
        /\ \A j \in 1 .. (k - 1) : a[j] = s[j]
    BY <1>1, <1>2, SubSeqProperties
  <1>4. /\ b \in Seq(S) /\ Len(b) = Len(s) - k
        /\ \A j \in 1 .. (Len(s) - k) : b[j] = s[k + j]
    BY <1>1, <1>2, SubSeqProperties
  <1> HIDE DEF a, b
  <1>5. /\ a \o b \in Seq(S) /\ Len(a \o b) = Len(s) - 1
        /\ \A j \in 1 .. (Len(s) - 1) : (a \o b)[j] = IF j < k THEN s[j] ELSE s[j + 1]
    <2>1. /\ a \o b \in Seq(S) /\ Len(a \o b) = Len(a) + Len(b)
          /\ \A j \in 1 .. (Len(a) + Len(b)) :
               (a \o b)[j] = IF j <= Len(a) THEN a[j] ELSE b[j - Len(a)]
      BY <1>3, <1>4, ConcatProperties
    <2>2. Len(a) + Len(b) = Len(s) - 1
      BY <1>2, <1>3, <1>4
    <2>3. SUFFICES ASSUME NEW j \in 1 .. (Len(s) - 1)
                   PROVE  (a \o b)[j] = IF j < k THEN s[j] ELSE s[j + 1]
      BY <2>1, <2>2
    <2>4. CASE j < k
      BY <2>1, <2>2, <2>4, <1>2, <1>3
    <2>5. CASE ~(j < k)
      <3>1. (a \o b)[j] = b[j - (k - 1)]
        BY <2>1, <2>2, <2>5, <1>2, <1>3
      <3>2. j - (k - 1) \in 1 .. (Len(s) - k) /\ k + (j - (k - 1)) = j + 1
        BY <2>5, <1>2
      <3> QED BY <3>1, <3>2, <2>5, <1>4
    <2> QED BY <2>4, <2>5
  <1> DEFINE r == a \o b
  <1>6. Promote(s, k) = <<s[k]>> \o r
    BY DEF Promote, RemoveAt, a, b
  <1> HIDE DEF r
  <1>7. /\ r \in Seq(S) /\ Len(r) = Len(s) - 1
        /\ \A j \in 1 .. (Len(s) - 1) : r[j] = IF j < k THEN s[j] ELSE s[j + 1]
    BY <1>5 DEF r
  <1>8. /\ <<s[k]>> \in Seq(S) /\ Len(<<s[k]>>) = 1 /\ <<s[k]>>[1] = s[k]
    BY <1>2
  <1> DEFINE o == <<s[k]>>
  <1>9. o \in Seq(S) /\ Len(o) = 1 /\ o[1] = s[k]
    BY <1>8
  <1> HIDE DEF o
  <1>10. /\ o \o r \in Seq(S) /\ Len(o \o r) = Len(s)
         /\ \A j \in 1 .. Len(s) : (o \o r)[j] = IF j <= 1 THEN o[j] ELSE r[j - 1]
    <2>1. /\ o \o r \in Seq(S) /\ Len(o \o r) = Len(o) + Len(r)
          /\ \A j \in 1 .. (Len(o) + Len(r)) :
               (o \o r)[j] = IF j <= Len(o) THEN o[j] ELSE r[j - Len(o)]
      BY <1>7, <1>9, ConcatProperties
    <2> QED BY <2>1, <1>2, <1>7, <1>9
  <1>11. Promote(s, k) = o \o r
    BY <1>6 DEF o
  <1>12. IsSequence(o \o r) /\ DOMAIN (o \o r) = DOMAIN s
    <2>1. IsSequence(o \o r) /\ Len(o \o r) = Len(s)
      BY <1>10 DEF IsSequence
    <2> QED BY <2>1, <1>2, AnySequence
  <1>13. \A j \in 1 .. Len(s) : (o \o r)[j] =
           IF j = 1 THEN s[k] ELSE IF j <= k THEN s[j - 1] ELSE s[j]
    <2>1. SUFFICES ASSUME NEW j \in 1 .. Len(s), j # 1
                   PROVE  r[j - 1] = IF j <= k THEN s[j - 1] ELSE s[j]
      BY <1>9, <1>10
    <2>2. j - 1 \in 1 .. (Len(s) - 1) /\ (j - 1 < k <=> j <= k) /\ (j - 1) + 1 = j
      BY <2>1, <1>2
    <2> QED BY <2>2, <1>7
  <1> QED BY <1>2, <1>11, <1>12, <1>13

LEMMA FrontShape ==
  ASSUME NEW s, IsSequence(s), s # <<>>
  PROVE  /\ IsSequence(Front(s)) /\ DOMAIN Front(s) = 1 .. (Len(s) - 1)
         /\ \A j \in 1 .. (Len(s) - 1) : Front(s)[j] = s[j]
         /\ Len(s) \in DOMAIN s /\ Last(s) = s[Len(s)]
  <1>1. PICK S : s \in Seq(S)
    BY DEF IsSequence
  <1>2. Len(s) \in Nat /\ Len(s) > 0 /\ DOMAIN s = 1 .. Len(s)
    BY <1>1
  <1> DEFINE f == SubSeq(s, 1, Len(s) - 1)
  <1>3. /\ f \in Seq(S) /\ Len(f) = Len(s) - 1
        /\ \A j \in 1 .. (Len(s) - 1) : f[j] = s[j]
    BY <1>1, <1>2, SubSeqProperties
  <1>4. Front(s) = f /\ Last(s) = s[Len(s)]
    BY DEF Front, Last
  <1> HIDE DEF f
  <1>5. DOMAIN f = 1 .. (Len(s) - 1)
    BY <1>3
  <1> QED BY <1>2, <1>3, <1>4, <1>5 DEF IsSequence

LEMMA PushFrontShape ==
  ASSUME NEW s, IsSequence(s), NEW e
  PROVE  /\ IsSequence(<<e>> \o s) /\ DOMAIN (<<e>> \o s) = 1 .. (Len(s) + 1)
         /\ (<<e>> \o s)[1] = e
         /\ \A j \in DOMAIN s : (<<e>> \o s)[j + 1] = s[j]
         /\ \A j \in DOMAIN (<<e>> \o s) : j # 1 => j - 1 \in DOMAIN s /\ (<<e>> \o s)[j] = s[j - 1]
  <1>1. PICK S : s \in Seq(S)
    BY DEF IsSequence
  <1> DEFINE T == S \cup {e}
             o == <<e>>
  <1>2. s \in Seq(T) /\ Len(s) \in Nat /\ DOMAIN s = 1 .. Len(s)
    BY <1>1
  <1>3. o \in Seq(T) /\ Len(o) = 1 /\ o[1] = e
    OBVIOUS
  <1> HIDE DEF T, o
  <1>4. /\ o \o s \in Seq(T) /\ Len(o \o s) = Len(o) + Len(s)
        /\ \A j \in 1 .. (Len(o) + Len(s)) :
             (o \o s)[j] = IF j <= Len(o) THEN o[j] ELSE s[j - Len(o)]
    BY <1>2, <1>3, ConcatProperties
  <1>5. DOMAIN (o \o s) = 1 .. (Len(s) + 1)
    BY <1>2, <1>3, <1>4
  <1>6. \A j \in 1 .. (Len(s) + 1) : (o \o s)[j] = IF j <= 1 THEN e ELSE s[j - 1]
    BY <1>2, <1>3, <1>4
  <1>7. /\ (o \o s)[1] = e
        /\ \A j \in 1 .. Len(s) : (o \o s)[j + 1] = s[j]
        /\ \A j \in 1 .. (Len(s) + 1) : j # 1 => j - 1 \in 1 .. Len(s) /\ (o \o s)[j] = s[j - 1]
    <2>1. (o \o s)[1] = e
      <3>1. 1 \in 1 .. (Len(s) + 1)
        BY <1>2
      <3>2. (o \o s)[1] = IF 1 <= 1 THEN e ELSE s[1 - 1]
        BY Zenon, <3>1, <1>6
      <3> QED BY <3>2
    <2>2. ASSUME NEW j \in 1 .. Len(s) PROVE (o \o s)[j + 1] = s[j]
      <3>1. j + 1 \in 1 .. (Len(s) + 1) /\ ~(j + 1 <= 1) /\ (j + 1) - 1 = j
        BY <1>2
      <3> QED BY <3>1, <1>6
    <2>3. ASSUME NEW j \in 1 .. (Len(s) + 1), j # 1
          PROVE  j - 1 \in 1 .. Len(s) /\ (o \o s)[j] = s[j - 1]
      <3>1. j - 1 \in 1 .. Len(s) /\ ~(j <= 1)
        BY <2>3, <1>2
      <3> QED BY <3>1, <1>6
    <2> QED BY <2>1, <2>2, <2>3
  <1>8. IsSequence(o \o s)
    BY <1>4 DEF IsSequence
  <1>9. /\ IsSequence(o \o s) /\ DOMAIN (o \o s) = 1 .. (Len(s) + 1)
        /\ (o \o s)[1] = e
        /\ \A j \in DOMAIN s : (o \o s)[j + 1] = s[j]
        /\ \A j \in DOMAIN (o \o s) : j # 1 => j - 1 \in DOMAIN s /\ (o \o s)[j] = s[j - 1]
    BY <1>2, <1>5, <1>7, <1>8
  <1> QED BY Zenon, <1>9 DEF o

LEMMA HitRight ==
  ASSUME NEW c, NEW m, CacheInv(c), IndexInv(c, m), NEW k \in DOMAIN c.entries
  PROVE  /\ CacheInv(Hit(c, k).cache) /\ IndexInv(Hit(c, k).cache, m)
         /\ Hit(c, k).plaintext = <<c.entries[k].mask, c.entries[k].level>>
  <1> DEFINE s == c.entries
             t == Promote(s, k)
             d == Hit(c, k).cache
  <1>1. IsSequence(s) /\ Len(s) \in Nat /\ DOMAIN s = 1 .. Len(s)
    BY AnySequence DEF CacheInv
  <1>2. /\ IsSequence(t) /\ DOMAIN t = DOMAIN s
        /\ \A j \in DOMAIN s : t[j] = IF j = 1 THEN s[k] ELSE IF j <= k THEN s[j - 1] ELSE s[j]
    BY <1>1, PromoteShape
  <1>3. /\ d = [c EXCEPT !.hits = @ + 1, !.entries = t]
        /\ Hit(c, k).plaintext = s[k].plaintext
    BY DEF Hit
  <1>4. /\ IsCache(d) /\ d.entries = t /\ d.index = c.index /\ d.misses = c.misses
    BY <1>3 DEF CacheInv, IsCache
  <1> HIDE DEF s, t, d
  <1> DEFINE From(j) == IF j = 1 THEN k ELSE IF j <= k THEN j - 1 ELSE j
  <1>5. \A j \in DOMAIN s : From(j) \in DOMAIN s /\ t[j] = s[From(j)]
    <2>1. SUFFICES ASSUME NEW j \in DOMAIN s
                   PROVE  From(j) \in DOMAIN s /\ t[j] = s[From(j)]
      OBVIOUS
    <2>2. From(j) \in DOMAIN s
      BY <1>1 DEF s
    <2>3. t[j] = s[From(j)]
      BY <1>2
    <2> QED BY <2>2, <2>3
  <1>6. \A i1, j \in DOMAIN s : From(i1) = From(j) => i1 = j
    BY <1>1 DEF s
  <1>7. \A j \in DOMAIN s : \E i1 \in DOMAIN s : From(i1) = j
    <2>1. SUFFICES ASSUME NEW j \in DOMAIN s PROVE \E i1 \in DOMAIN s : From(i1) = j
      OBVIOUS
    <2>2. CASE j = k
      <3>1. 1 \in DOMAIN s /\ From(1) = j
        BY <1>1, <2>2
      <3> QED BY <3>1
    <2>3. CASE j < k
      <3>1. j + 1 \in DOMAIN s /\ From(j + 1) = j
        BY <1>1, <2>3 DEF s
      <3> QED BY <3>1
    <2>4. CASE j > k
      <3>1. From(j) = j
        BY <1>1, <2>4 DEF s
      <3> QED BY <3>1
    <2> QED BY <1>1, <2>2, <2>3, <2>4 DEF s
  <1> HIDE DEF From
  <1>8. /\ \A j \in DOMAIN s : s[j].id \in 1 .. c.misses /\ s[j].plaintext = <<s[j].mask, s[j].level>>
        /\ \A i1, j \in DOMAIN s : s[i1].id = s[j].id => i1 = j
        /\ c.misses \in Nat
    BY DEF CacheInv, s
  <1>9. /\ \A j \in DOMAIN t : t[j].id \in 1 .. c.misses /\ t[j].plaintext = <<t[j].mask, t[j].level>>
        /\ \A i1, j \in DOMAIN t : t[i1].id = t[j].id => i1 = j
    <2>1. ASSUME NEW j \in DOMAIN t
          PROVE  t[j].id \in 1 .. c.misses /\ t[j].plaintext = <<t[j].mask, t[j].level>>
      BY <1>2, <1>5, <1>8
    <2>2. ASSUME NEW i1 \in DOMAIN t, NEW j \in DOMAIN t, t[i1].id = t[j].id
          PROVE  i1 = j
      <3>1. From(i1) = From(j)
        BY <2>2, <1>2, <1>5, <1>8
      <3> QED BY <3>1, <2>2, <1>2, <1>6
    <2> QED BY <2>1, <2>2
  <1>10. Range(t) = Range(s)
    <2>1. \A j \in DOMAIN t : t[j] \in Range(s)
      BY <1>2, <1>5 DEF Range
    <2>2. \A j \in DOMAIN s : s[j] \in Range(t)
      BY <1>2, <1>5, <1>7 DEF Range
    <2> QED BY <2>1, <2>2 DEF Range
  <1>11. CacheInv(d)
    BY <1>2, <1>4, <1>8, <1>9 DEF CacheInv
  <1>12. IndexInv(d, m)
    BY <1>4, <1>10 DEF IndexInv, IndexOf, s
  <1> QED BY <1>3, <1>8, <1>11, <1>12 DEF s, d

LEMMA MissRight ==
  ASSUME NEW c, NEW m, NEW request, CacheInv(c), IndexInv(c, m), CacheCapacity # 0
  PROVE  /\ CacheInv(Miss(c, m, request).cache) /\ IndexInv(Miss(c, m, request).cache, m)
         /\ Miss(c, m, request).plaintext = <<request.mask, request.level>>
  <1> DEFINE s == c.entries
             full == Len(s) = CacheCapacity
             e == [id |-> c.misses + 1, hash |-> request.hash, level |-> request.level,
                   mask |-> request.mask, plaintext |-> <<request.mask, request.level>>]
             kept == IF full THEN Front(s) ELSE s
             left == IF full THEN Unindex(c.index, Last(s)) ELSE c.index
             d == Miss(c, m, request).cache
  <1>1. /\ IsSequence(s) /\ Len(s) \in Nat /\ DOMAIN s = 1 .. Len(s) /\ c.misses \in Nat
        /\ \A j \in DOMAIN s : s[j].id \in 1 .. c.misses /\ s[j].plaintext = <<s[j].mask, s[j].level>>
        /\ \A i1, j \in DOMAIN s : s[i1].id = s[j].id => i1 = j
    BY AnySequence DEF CacheInv
  <1>2. /\ Miss(c, m, request).plaintext = <<request.mask, request.level>>
        /\ d = [c EXCEPT !.misses = @ + 1, !.evictions = IF full THEN @ + 1 ELSE @,
                         !.entries = <<e>> \o kept,
                         !.index = IF m = "indexed" THEN left \cup {<<KeyOf(e), e.id>>} ELSE {}]
    BY DEF Miss
  <1>3. /\ IsCache(d) /\ d.entries = <<e>> \o kept /\ d.misses = c.misses + 1
        /\ d.index = IF m = "indexed" THEN left \cup {<<KeyOf(e), e.id>>} ELSE {}
    BY <1>2 DEF CacheInv, IsCache
  <1>4. e.id = c.misses + 1 /\ e.plaintext = <<e.mask, e.level>>
    OBVIOUS
  <1> HIDE DEF s, e, d, kept, left
  (* What is kept of the list, and what is left of the index. *)
  <1>5. /\ IsSequence(kept) /\ Len(kept) \in Nat /\ DOMAIN kept = 1 .. Len(kept)
        /\ \A j \in DOMAIN kept : j \in DOMAIN s /\ kept[j] = s[j]
        /\ m = "indexed" => left = IndexOf(kept)
    <2>1. CASE ~full
      <3>1. kept = s /\ left = c.index
        BY <2>1 DEF kept, left, s
      <3> QED BY <3>1, <1>1 DEF IndexInv, s
    <2>2. CASE full
      <3>1. s # <<>> /\ kept = Front(s) /\ left = Unindex(c.index, Last(s))
        BY <2>2, CacheCapacityAssumption DEF kept, left, s
      <3>2. /\ IsSequence(kept) /\ DOMAIN kept = 1 .. (Len(s) - 1)
            /\ \A j \in 1 .. (Len(s) - 1) : kept[j] = s[j]
            /\ Len(s) \in DOMAIN s /\ Last(s) = s[Len(s)]
        BY <1>1, <3>1, FrontShape
      <3>3. Len(kept) \in Nat /\ DOMAIN kept = 1 .. Len(kept)
        BY <3>2, AnySequence
      <3>4. \A j \in DOMAIN s : j \in DOMAIN kept <=> j # Len(s)
        BY <1>1, <3>2
      <3>5. \A j \in DOMAIN kept : j \in DOMAIN s /\ kept[j] = s[j]
        BY <1>1, <3>2
      <3>6. ASSUME m = "indexed"
            PROVE  left = IndexOf(kept)
        <4> DEFINE P(j) == <<KeyOf(s[j]), s[j].id>>
        <4>1. c.index = IndexOf(s)
          BY <3>6 DEF IndexInv, s
        <4>2. c.index = {P(j) : j \in DOMAIN s}
          BY <4>1 DEF IndexOf, Range
        <4>3. IndexOf(kept) = {P(j) : j \in DOMAIN kept}
          BY <3>5 DEF IndexOf, Range
        <4>4. left = c.index \ {P(Len(s))}
          BY <3>1, <3>2 DEF Unindex
        <4>5. \A i1, j \in DOMAIN s : P(i1) = P(j) => i1 = j
          BY <1>1
        <4> HIDE DEF P
        <4> QED BY <4>2, <4>3, <4>4, <4>5, <3>2, <3>4, <3>5
      <3> QED BY <3>2, <3>3, <3>5, <3>6
    <2> QED BY <2>1, <2>2
  <1> DEFINE t == <<e>> \o kept
  <1>6. /\ IsSequence(t) /\ DOMAIN t = 1 .. (Len(kept) + 1) /\ t[1] = e
        /\ \A j \in DOMAIN kept : t[j + 1] = kept[j]
        /\ \A j \in DOMAIN t : j # 1 => j - 1 \in DOMAIN kept /\ t[j] = kept[j - 1]
    BY <1>5, PushFrontShape
  <1>7. d.entries = t
    BY <1>3
  <1> HIDE DEF t
  <1>8. \A j \in DOMAIN t : /\ t[j].id \in 1 .. (c.misses + 1)
                            /\ t[j].plaintext = <<t[j].mask, t[j].level>>
    <2>1. SUFFICES ASSUME NEW j \in DOMAIN t
                   PROVE  /\ t[j].id \in 1 .. (c.misses + 1)
                          /\ t[j].plaintext = <<t[j].mask, t[j].level>>
      OBVIOUS
    <2>2. CASE j = 1
      BY <2>2, <1>1, <1>4, <1>6
    <2>3. CASE j # 1
      <3>1. t[j] = s[j - 1] /\ j - 1 \in DOMAIN s
        BY <2>3, <1>5, <1>6
      <3> QED BY <3>1, <1>1
    <2> QED BY <2>2, <2>3
  <1>9. \A i1, j \in DOMAIN t : t[i1].id = t[j].id => i1 = j
    <2>1. \A j \in DOMAIN t : j # 1 => t[j] = s[j - 1] /\ j - 1 \in DOMAIN s /\ t[j].id # e.id
      BY <1>1, <1>4, <1>5, <1>6
    <2>2. SUFFICES ASSUME NEW i1 \in DOMAIN t, NEW j \in DOMAIN t, t[i1].id = t[j].id
                   PROVE  i1 = j
      OBVIOUS
    <2>3. CASE i1 = 1 \/ j = 1
      BY <2>1, <2>2, <2>3, <1>6
    <2>4. CASE i1 # 1 /\ j # 1
      <3>1. i1 - 1 = j - 1
        BY <2>1, <2>2, <2>4, <1>1
      <3> QED BY <3>1, <1>5, <1>6
    <2> QED BY <2>3, <2>4
  <1>10. CacheInv(d)
    <2>1. d.misses \in Nat
      BY <1>1, <1>3
    <2> QED BY <2>1, <1>3, <1>6, <1>7, <1>8, <1>9 DEF CacheInv
  <1>11. IndexInv(d, m)
    <2>1. CASE m # "indexed"
      BY <2>1, <1>3 DEF IndexInv
    <2>2. CASE m = "indexed"
      <3>1. Range(t) = Range(kept) \cup {e}
        <4>1. \A j \in DOMAIN kept : j + 1 \in DOMAIN t
          BY <1>5, <1>6
        <4>2. \A j \in DOMAIN t : t[j] \in Range(kept) \cup {e}
          BY <1>6 DEF Range
        <4>3. \A x \in Range(kept) : x \in Range(t)
          BY <4>1, <1>6 DEF Range
        <4>4. e \in Range(t)
          BY <1>5, <1>6 DEF Range
        <4> QED BY <4>2, <4>3, <4>4 DEF Range
      <3>2. IndexOf(t) = IndexOf(kept) \cup {<<KeyOf(e), e.id>>}
        BY <3>1 DEF IndexOf
      <3> QED BY <3>2, <2>2, <1>3, <1>5, <1>7 DEF IndexInv
    <2> QED BY <2>1, <2>2
  <1> QED BY <1>2, <1>10, <1>11 DEF d

LEMMA GetRight ==
  ASSUME NEW c, NEW m, NEW mask, NEW level, CacheInv(c), IndexInv(c, m)
  PROVE  /\ CacheInv(Get(c, m, mask, level).cache) /\ IndexInv(Get(c, m, mask, level).cache, m)
         /\ Get(c, m, mask, level).plaintext = <<mask, level>>
  <1> DEFINE request == [hash |-> Fingerprint[m][mask], level |-> level, mask |-> mask]
             found == Found(c, m, request)
             got == Get(c, m, mask, level)
  <1>1. CASE CacheCapacity = 0 \/ request.hash = Dense
    <2>1. got = [cache |-> [c EXCEPT !.bypasses = @ + 1], plaintext |-> <<mask, level>>]
      BY <1>1 DEF Get
    <2>2. /\ IsCache(got.cache) /\ got.cache.entries = c.entries
          /\ got.cache.index = c.index /\ got.cache.misses = c.misses
      BY <2>1 DEF CacheInv, IsCache
    <2> QED BY <2>1, <2>2 DEF CacheInv, IndexInv
  <1>2. CASE ~(CacheCapacity = 0 \/ request.hash = Dense) /\ found # {}
    <2>1. PICK k \in found : got = Hit(c, k)
      <3>1. got = Hit(c, CHOOSE k \in found : TRUE)
        BY <1>2 DEF Get
      <3>2. (CHOOSE k \in found : TRUE) \in found
        BY <1>2
      <3> QED BY <3>1, <3>2
    <2>2. k \in DOMAIN c.entries /\ c.entries[k].mask = mask /\ c.entries[k].level = level
      BY <2>1 DEF Found, Matches
    <2> QED BY <2>1, <2>2, HitRight
  <1>3. CASE ~(CacheCapacity = 0 \/ request.hash = Dense) /\ found = {}
    <2>1. got = Miss(c, m, request)
      BY <1>3 DEF Get
    <2>2. request.mask = mask /\ request.level = level
      OBVIOUS
    <2> QED BY <2>1, <2>2, <1>3, MissRight
  <1> QED BY <1>1, <1>2, <1>3

-----------------------------------------------------------------------------
(* The terms of a linear map: the look-ahead as it is, and the cache. *)

LEMMA TermsImpliesSpec == TermsSpec => Spec
  <1>1. TermsInit => Init
    BY DEF TermsInit
  <1>2. [TermsNext]_<<vars, termVars>> => [Next]_vars
    BY DEF TermsNext
  <1> QED BY <1>1, <1>2, PTL DEF TermsSpec, Spec

TermsInv ==
  /\ IInv
  /\ CacheInv(cache) /\ IndexInv(cache, method)
  /\ IsSequence(terms) /\ TermsRight

LEMMA InitTerms == TermsInit => TermsInv
  <1> SUFFICES ASSUME TermsInit PROVE TermsInv
    OBVIOUS
  <1>1. IInv
    BY InitIInv DEF TermsInit
  <1>2. cache = EmptyCache /\ terms = <<>> /\ out = <<>>
    BY DEF TermsInit, Init
  <1>3. IsSequence(terms) /\ DOMAIN terms = {} /\ Len(terms) = Len(out)
    <2>1. <<>> \in Seq({}) /\ DOMAIN <<>> = {}
      OBVIOUS
    <2> QED BY <1>2, <2>1 DEF IsSequence
  <1>4. /\ IsSequence(cache.entries) /\ DOMAIN cache.entries = {} /\ Range(cache.entries) = {}
        /\ cache.index = {} /\ cache.misses = 0 /\ IsCache(cache)
    <2>1. /\ cache.entries = <<>> /\ cache.index = {} /\ cache.misses = 0 /\ IsCache(cache)
      BY <1>2 DEF EmptyCache, IsCache
    <2>2. <<>> \in Seq({}) /\ DOMAIN <<>> = {}
      OBVIOUS
    <2> QED BY <2>1, <2>2 DEF IsSequence, Range
  <1>5. CacheInv(cache)
    BY <1>4 DEF CacheInv
  <1>6. IndexInv(cache, method)
    BY <1>4 DEF IndexInv, IndexOf
  <1> QED BY <1>1, <1>3, <1>5, <1>6 DEF TermsInv, TermsRight

(* The item popped was prepared for the very term it is used for. *)
LEMMA UseRight ==
  ASSUME TermsInv, PopItem, UseItem, UNCHANGED <<masks, levels, method>>
  PROVE  /\ CacheInv(cache') /\ IndexInv(cache', method')
         /\ IsSequence(terms') /\ TermsRight'
  <1> DEFINE k == Len(out)
             level == levels[k % BabyStep]
             item == Prepared(k)
             got == IF item.level # level THEN [cache |-> cache, plaintext |-> Thrown]
                    ELSE IF method = "off"
                      THEN [cache |-> cache, plaintext |-> <<item.mask, item.level>>]
                    ELSE Get(cache, method, item.mask, level)
  <1>1. /\ out \in Seq(Indices) /\ Len(out) \in Nat /\ Head(queue) = Len(out)
        /\ out' = Append(out, Head(queue))
    <2> USE DEF TermsInv, IInv, InOrder, TypeOK, PopItem, AtPop
    <2>1. Len(queue) \in Nat /\ Len(queue) > 0 /\ Len(out) \in Nat /\ out \in Seq(Indices)
      OBVIOUS
    <2>2. Head(queue) = Len(out)
      BY <2>1
    <2> QED BY <2>1, <2>2
  <1>2. Len(out') = Len(out) + 1
    <2>1. Head(queue) \in Indices
      BY DEF TermsInv, IInv, InOrder, TypeOK, PopItem, AtPop
    <2> QED BY <1>1, <2>1
  <1>3. cache' = got.cache /\ terms' = Append(terms, got.plaintext)
    BY <1>1 DEF UseItem
  <1>4. item.mask = masks[k] /\ item.level = level
    BY DEF Prepared
  <1>5. /\ CacheInv(got.cache) /\ IndexInv(got.cache, method)
        /\ got.plaintext = <<masks[k], level>>
    <2>1. CASE method = "off"
      BY <2>1, <1>4 DEF TermsInv
    <2>2. CASE method # "off"
      <3>1. got = Get(cache, method, masks[k], level)
        BY <2>2, <1>4
      <3>2. CacheInv(cache) /\ IndexInv(cache, method)
        BY DEF TermsInv
      <3> HIDE DEF got, level, k
      <3> QED BY <3>1, <3>2, GetRight
    <2> QED BY <2>1, <2>2
  <1> DEFINE p == got.plaintext
  <1>6. /\ cache' = got.cache /\ terms' = Append(terms, p)
        /\ CacheInv(got.cache) /\ IndexInv(got.cache, method)
        /\ p = <<masks[k], levels[k % BabyStep]>>
    BY <1>3, <1>5
  <1> HIDE DEF got, level, item, p
  <1>7. CacheInv(cache') /\ IndexInv(cache', method')
    <2>1. ASSUME NEW c, c = got.cache PROVE CacheInv(c) /\ IndexInv(c, method)
      BY <1>6, <2>1
    <2>2. method' = method
      OBVIOUS
    <2> QED BY <1>6, <2>1, <2>2
  <1>8. PICK S : terms \in Seq(S)
    BY DEF TermsInv, IsSequence
  <1> DEFINE T == S \cup {p}
  <1>9. /\ terms \in Seq(T) /\ p \in T /\ Len(terms) = k
        /\ \A j \in DOMAIN terms : terms[j] = <<masks[j - 1], levels[(j - 1) % BabyStep]>>
    BY <1>8 DEF TermsInv, TermsRight
  <1> HIDE DEF T
  <1>10. /\ terms' \in Seq(T) /\ Len(terms') = k + 1 /\ DOMAIN terms' = 1 .. (k + 1)
         /\ terms'[k + 1] = p
         /\ \A j \in 1 .. k : j \in DOMAIN terms /\ terms'[j] = terms[j]
    BY <1>1, <1>6, <1>9
  <1>11. \A j \in DOMAIN terms' : terms'[j] = <<masks[j - 1], levels[(j - 1) % BabyStep]>>
    <2>1. SUFFICES ASSUME NEW j \in 1 .. (k + 1)
                   PROVE  terms'[j] = <<masks[j - 1], levels[(j - 1) % BabyStep]>>
      BY <1>10
    <2>2. CASE j = k + 1
      <3>1. j - 1 = k
        BY <2>2, <1>1
      <3> QED BY <2>2, <3>1, <1>6, <1>10
    <2>3. CASE j # k + 1
      <3>1. j \in 1 .. k
        BY <2>3, <1>1
      <3> HIDE DEF k
      <3> QED BY <3>1, <1>9, <1>10
    <2> QED BY <2>2, <2>3
  <1>12. IsSequence(terms')
    BY <1>10 DEF IsSequence
  <1>13. Len(terms') = Len(out')
    BY <1>2, <1>10
  <1>14. masks' = masks /\ levels' = levels
    OBVIOUS
  <1>15. TermsRight'
    <2> HIDE DEF k
    <2> QED BY <1>11, <1>13, <1>14 DEF TermsRight
  <1> QED BY <1>7, <1>12, <1>15

(* Every other step leaves the cache, the terms and out alone. *)
LEMMA OutByPopOnly ==
  ASSUME IInv, Next
  PROVE  PopItem \/ out' = out
  BY DEF Next, Finished, WorkerStep, ConsumerStep, vars, shared, LoopEnds, WorkerSleep,
     WorkerCancelled, Admit, Produce, Push, WorkerNotify, Finish, LastNotify, Fail, Start,
     StartFails, PopSleep, PopError, PopExhausted, PopNotify, CancelNotify, Cancel, Join,
     CallPop, Destroy, SpuriousWake, AtPop

LEMMA PopGrows ==
  ASSUME IInv, PopItem
  PROVE  out' # out
  <1>1. Len(out') = Len(out) + 1 /\ Len(out) \in Nat
    <2>1. Head(queue) \in Indices /\ out \in Seq(Indices)
      BY DEF IInv, InOrder, TypeOK, PopItem, AtPop
    <2> QED BY <2>1 DEF PopItem
  <1> QED BY <1>1

LEMMA StepTerms == TermsInv /\ [TermsNext]_<<vars, termVars>> => TermsInv'
  <1> SUFFICES ASSUME TermsInv, [TermsNext]_<<vars, termVars>> PROVE TermsInv'
    OBVIOUS
  <1>1. IInv'
    <2>1. IInv /\ [Next]_vars
      BY DEF TermsInv, TermsNext
    <2> QED BY <2>1, WorkerIInv, OtherIInv DEF Next, Finished
  <1>2. CASE TermsNext /\ PopItem
    <2>1. UseItem /\ UNCHANGED <<masks, levels, method>>
      BY <1>2, PopGrows DEF TermsNext, TermsInv
    <2> QED BY <1>1, <1>2, <2>1, UseRight DEF TermsInv
  <1>3. CASE UNCHANGED <<cache, terms, out, masks, levels, method>>
    <2>1. /\ cache' = cache /\ terms' = terms /\ out' = out
          /\ masks' = masks /\ levels' = levels /\ method' = method
      BY <1>3
    <2>2. CacheInv(cache') /\ IndexInv(cache', method')
      BY <2>1 DEF TermsInv
    <2>3. IsSequence(terms') /\ TermsRight'
      BY <2>1 DEF TermsInv, TermsRight
    <2> QED BY <1>1, <2>2, <2>3 DEF TermsInv
  <1>4. CASE TermsNext /\ ~PopItem
    <2>1. out' = out
      BY <1>4, OutByPopOnly DEF TermsNext, TermsInv
    <2> QED BY <1>3, <1>4, <2>1 DEF TermsNext
  <1>5. CASE UNCHANGED <<vars, termVars>>
    BY <1>3, <1>5 DEF vars, termVars
  <1> QED BY <1>2, <1>4, <1>5

(* Between two pops the queue, the cache and the terms agree. *)
THEOREM TermsAlways == TermsSpec => []TermsInv
  BY InitTerms, StepTerms, PTL DEF TermsSpec

(* Every term of a linear map is multiplied by its own weights, encoded at   *)
(* its own level, for any number of terms, any queue and any cache, with any *)
(* fingerprint and any hash of the buckets.                                 *)
THEOREM TermsCorrect == TermsSpec => []TermsRight
  <1>1. TermsInv => TermsRight
    BY DEF TermsInv
  <1> QED BY <1>1, TermsAlways, PTL

(* The index holds the iterators of the entries, each once and no other. *)
THEOREM IndexCorrect == TermsSpec => []IndexExact
  <1>1. TermsInv => IndexExact
    BY DEF TermsInv, IndexInv, IndexOf, IndexExact
  <1> QED BY <1>1, TermsAlways, PTL

-----------------------------------------------------------------------------
(* The mask cache holds the latest requests. *)

(* A nonempty set of positions has a last one, and Max chooses it. *)
LEMMA LastPosition ==
  ASSUME NEW n \in Nat, NEW S, S \subseteq 1 .. n, S # {}
  PROVE  Max(S) \in S /\ \A y \in S : y <= Max(S)
  <1> DEFINE Above == {(x + 1) .. n : x \in S}
  <1>1. Above \subseteq FiniteSubsetsOf(Nat) /\ Above # {}
    <2>1. \A x \in S : x \in Int /\ (x + 1) .. n \in SUBSET Nat
      OBVIOUS
    <2>2. \A x \in S : IsFiniteSet((x + 1) .. n)
      BY <2>1, FS_Interval
    <2> QED BY <2>1, <2>2 DEF FiniteSubsetsOf
  <1>2. IsWellFoundedOn(StrictSubsetOrdering(Nat), FiniteSubsetsOf(Nat))
    BY FS_StrictSubsetOrderingWellFounded
  <1>3. \E b \in Above : \A a \in Above : ~(<<a, b>> \in StrictSubsetOrdering(Nat))
    <2> HIDE DEF Above
    <2> QED BY <1>1, <1>2, WFMin, Zenon
  <1>4. PICK x \in S : \A y \in S : ~(<<(y + 1) .. n, (x + 1) .. n>> \in StrictSubsetOrdering(Nat))
    BY <1>3
  <1>5. \A y \in S : x >= y
    <2>1. SUFFICES ASSUME NEW y \in S, y > x PROVE FALSE
      OBVIOUS
    <2>2. /\ (y + 1) .. n \subseteq (x + 1) .. n
          /\ (y + 1) .. n \in SUBSET Nat /\ (x + 1) .. n \in SUBSET Nat
      BY <2>1
    <2>3. (y + 1) .. n # (x + 1) .. n
      <3>1. y \in (x + 1) .. n /\ y \notin (y + 1) .. n
        BY <2>1
      <3> QED BY <3>1
    <2>4. <<(y + 1) .. n, (x + 1) .. n>> \in StrictSubsetOrdering(Nat)
      BY <2>2, <2>3 DEF StrictSubsetOrdering
    <2> QED BY <1>4, <2>4
  <1>6. \A y \in S : (\A z \in S : y >= z) => y = x
    BY <1>5
  <1>7. Max(S) = x
    BY <1>5, <1>6 DEF Max
  <1> QED BY <1>5, <1>7

(* The cache against what was asked for and when each was last asked for:    *)
(* what is held was asked for, newest first; what was asked for and is not    *)
(* held was pushed out of a full cache by what was asked for after it.       *)
Hashed(c, m) ==
  \A k \in DOMAIN c.entries : c.entries[k].hash = Fingerprint[m][c.entries[k].mask]
Holds(c, r) == \E k \in DOMAIN c.entries : c.entries[k].plaintext = r
Recent(c, asked, when) ==
  /\ \A k \in DOMAIN c.entries : c.entries[k].plaintext \in asked
  /\ \A j, k \in DOMAIN c.entries :
       j < k => when[c.entries[k].plaintext] < when[c.entries[j].plaintext]
  /\ \A r \in asked : ~Holds(c, r) =>
       /\ Len(c.entries) = CacheCapacity
       /\ \A k \in DOMAIN c.entries : when[r] < when[c.entries[k].plaintext]
  /\ Len(c.entries) <= CacheCapacity
  /\ c.evictions = c.misses - Len(c.entries)
Later(asked, when, r, n) == [x \in asked \cup {r} |-> IF x = r THEN n ELSE when[x]]

(* The lookup finds the entries of the very plaintext that is asked for. *)
LEMMA FoundWhenHeld ==
  ASSUME NEW c, NEW m, CacheInv(c), IndexInv(c, m), Hashed(c, m), NEW mask, NEW level,
         NEW request, request = [hash |-> Fingerprint[m][mask], level |-> level, mask |-> mask]
  PROVE  Found(c, m, request) =
           {k \in DOMAIN c.entries : c.entries[k].plaintext = <<mask, level>>}
  <1>1. SUFFICES ASSUME NEW k \in DOMAIN c.entries
                 PROVE  k \in Found(c, m, request) <=> c.entries[k].plaintext = <<mask, level>>
    BY DEF Found
  <1> DEFINE e == c.entries[k]
  <1>2. CASE k \in Found(c, m, request)
    <2>1. Matches(e, request)
      BY <1>2 DEF Found
    <2> QED BY <1>2, <2>1 DEF Matches, CacheInv
  <1>3. CASE e.plaintext = <<mask, level>>
    <2>1. e.mask = mask /\ e.level = level /\ e.hash = Fingerprint[m][mask]
      BY <1>3 DEF CacheInv, Hashed
    <2>2. Matches(e, request) /\ KeyOf(e) = KeyOf(request)
      BY <2>1 DEF Matches, KeyOf
    <2>3. m = "indexed" => <<KeyOf(request), e.id>> \in c.index
      BY <2>2 DEF IndexInv, IndexOf, Range
    <2> QED BY <1>3, <2>2, <2>3 DEF Found
  <1> QED BY <1>2, <1>3

(* A hit moves what was asked for to the front, where the newest belongs. *)
LEMMA HitRecent ==
  ASSUME NEW c, NEW m, CacheInv(c), Hashed(c, m), NEW k \in DOMAIN c.entries,
         NEW asked, NEW when \in [asked -> Nat], Recent(c, asked, when),
         NEW n \in Nat, \A x \in asked : when[x] < n,
         NEW r, r = c.entries[k].plaintext
  PROVE  /\ Hashed(Hit(c, k).cache, m)
         /\ Recent(Hit(c, k).cache, asked \cup {r}, Later(asked, when, r, n))
         /\ Hit(c, k).cache.bypasses = c.bypasses /\ Hit(c, k).cache.misses = c.misses
         /\ Hit(c, k).cache.hits = c.hits + 1
  <1> DEFINE s == c.entries
             t == Promote(s, k)
             d == Hit(c, k).cache
             later == Later(asked, when, r, n)
  <1>1. IsSequence(s) /\ Len(s) \in Nat /\ DOMAIN s = 1 .. Len(s)
    BY AnySequence DEF CacheInv
  <1>2. /\ IsSequence(t) /\ DOMAIN t = DOMAIN s
        /\ \A j \in DOMAIN s : t[j] = IF j = 1 THEN s[k] ELSE IF j <= k THEN s[j - 1] ELSE s[j]
    BY <1>1, PromoteShape
  <1>3. d = [c EXCEPT !.hits = @ + 1, !.entries = t]
    BY DEF Hit
  <1>4. /\ d.entries = t /\ d.misses = c.misses /\ d.bypasses = c.bypasses
        /\ d.evictions = c.evictions /\ d.hits = c.hits + 1
    BY <1>3 DEF CacheInv, IsCache
  <1>5. Len(t) = Len(s)
    <2>1. Len(t) \in Nat /\ DOMAIN t = 1 .. Len(t)
      BY <1>2, AnySequence
    <2> HIDE DEF s, t
    <2> QED BY <1>1, <1>2, <2>1
  <1> HIDE DEF t, d
  <1>6. /\ \A j \in DOMAIN s : s[j].plaintext \in asked
        /\ \A h, j \in DOMAIN s : h < j => when[s[j].plaintext] < when[s[h].plaintext]
        /\ r \in asked
    BY DEF Recent
  <1>7. \A j \in DOMAIN s : s[j].plaintext = r => j = k
    BY <1>1, <1>6
  <1>8. \A x \in asked : later[x] = IF x = r THEN n ELSE when[x]
    BY DEF Later
  <1> HIDE DEF later
  <1>9. /\ t[1].plaintext = r
        /\ \A j \in DOMAIN s : j # 1 =>
             LET h == IF j <= k THEN j - 1 ELSE j
             IN  /\ h \in DOMAIN s /\ h # k /\ t[j] = s[h]
                 /\ later[t[j].plaintext] = when[s[h].plaintext]
    <2>1. 1 \in DOMAIN s
      BY <1>1
    <2>2. ASSUME NEW j \in DOMAIN s, j # 1, NEW h, h = IF j <= k THEN j - 1 ELSE j
          PROVE  /\ h \in DOMAIN s /\ h # k /\ t[j] = s[h]
                 /\ later[t[j].plaintext] = when[s[h].plaintext]
      <3>1. h \in DOMAIN s /\ h # k
        BY <1>1, <2>2
      <3>2. t[j] = s[h]
        BY <1>2, <2>2
      <3> QED BY <1>6, <1>7, <1>8, <3>1, <3>2
    <2> QED BY <1>2, <2>1, <2>2
  <1>10. \A h, j \in DOMAIN t : h < j => later[t[j].plaintext] < later[t[h].plaintext]
    <2>1. SUFFICES ASSUME NEW h \in DOMAIN s, NEW j \in DOMAIN s, h < j
                   PROVE  later[t[j].plaintext] < later[t[h].plaintext]
      BY <1>2
    <2>2. j # 1
      BY <1>1, <2>1
    <2> DEFINE j1 == IF j <= k THEN j - 1 ELSE j
               i1 == IF h <= k THEN h - 1 ELSE h
    <2>3. j1 \in DOMAIN s /\ later[t[j].plaintext] = when[s[j1].plaintext]
      BY <1>9, <2>2
    <2>4. CASE h = 1
      <3>1. later[t[h].plaintext] = n
        BY <1>6, <1>8, <1>9, <2>4
      <3> QED BY <1>6, <2>3, <3>1
    <2>5. CASE h # 1
      <3>1. i1 \in DOMAIN s /\ later[t[h].plaintext] = when[s[i1].plaintext]
        BY <1>9, <2>5
      <3>2. i1 < j1
        BY <1>1, <2>1
      <3> HIDE DEF i1, j1
      <3> QED BY <1>6, <2>3, <3>1, <3>2
    <2> QED BY <2>4, <2>5
  <1>11. \A j \in DOMAIN s : \E h \in DOMAIN t : t[h] = s[j]
    <2>1. SUFFICES ASSUME NEW j \in DOMAIN s PROVE \E h \in DOMAIN s : t[h] = s[j]
      BY <1>2
    <2>2. CASE j = k
      BY <1>1, <1>2, <2>2
    <2>3. CASE j < k
      <3>1. j + 1 \in DOMAIN s /\ j + 1 # 1 /\ j + 1 <= k /\ (j + 1) - 1 = j
        BY <1>1, <2>3
      <3> QED BY <1>2, <3>1
    <2>4. CASE j > k
      <3>1. j # 1 /\ ~(j <= k)
        BY <1>1, <2>4
      <3> QED BY <1>2, <3>1
    <2> QED BY <1>1, <2>2, <2>3, <2>4
  <1>12. \A j \in DOMAIN t : \E h \in DOMAIN s : t[j] = s[h]
    BY <1>1, <1>2, <1>9
  <1>13. \A x \in asked : Holds(d, x) <=> Holds(c, x)
    BY <1>4, <1>11, <1>12 DEF Holds, s
  <1>14. Hashed(d, m)
    BY <1>4, <1>12 DEF Hashed, s
  <1>15. \A j \in DOMAIN t : t[j].plaintext \in asked
    BY <1>6, <1>12
  <1>16. ASSUME NEW x \in asked, ~Holds(d, x)
         PROVE  /\ Len(t) = CacheCapacity
                /\ \A j \in DOMAIN t : later[x] < later[t[j].plaintext]
    <2>1. /\ Len(s) = CacheCapacity
          /\ \A j \in DOMAIN s : when[x] < when[s[j].plaintext]
      BY <1>13, <1>16 DEF Recent
    <2>2. x # r
      BY <1>13, <1>16 DEF Holds
    <2>3. ASSUME NEW j \in DOMAIN t PROVE later[x] < later[t[j].plaintext]
      <3>1. later[x] = when[x] /\ when[x] < n
        BY <1>8, <2>2
      <3>2. CASE j = 1
        BY <1>6, <1>8, <1>9, <3>1, <3>2
      <3>3. CASE j # 1
        <4> DEFINE h == IF j <= k THEN j - 1 ELSE j
        <4>1. h \in DOMAIN s /\ later[t[j].plaintext] = when[s[h].plaintext]
          BY <1>2, <1>9, <3>3
        <4> HIDE DEF h
        <4> QED BY <2>1, <3>1, <4>1
      <3> QED BY <3>2, <3>3
    <2> QED BY <1>5, <2>1, <2>3
  <1>17. Len(s) <= CacheCapacity /\ c.evictions = c.misses - Len(s)
    BY DEF Recent
  <1>18. asked \cup {r} = asked
    BY <1>6
  <1>19. Recent(d, asked, later)
    BY <1>4, <1>5, <1>10, <1>15, <1>16, <1>17 DEF Recent
  <1> HIDE DEF s
  <1> QED BY <1>4, <1>14, <1>18, <1>19 DEF d, later

(* A miss puts what was asked for in front; if the cache was full, what    *)
(* falls out at the back was asked for before everything that stays.       *)
LEMMA MissRecent ==
  ASSUME NEW c, NEW m, CacheInv(c), Hashed(c, m), CacheCapacity # 0,
         NEW asked, NEW when \in [asked -> Nat], Recent(c, asked, when),
         NEW n \in Nat, \A x \in asked : when[x] < n,
         NEW request, request.hash = Fingerprint[m][request.mask],
         NEW r, r = <<request.mask, request.level>>, ~Holds(c, r)
  PROVE  /\ Hashed(Miss(c, m, request).cache, m)
         /\ Recent(Miss(c, m, request).cache, asked \cup {r}, Later(asked, when, r, n))
         /\ Miss(c, m, request).cache.bypasses = c.bypasses
         /\ Miss(c, m, request).cache.misses = c.misses + 1
         /\ Miss(c, m, request).cache.hits = c.hits
  <1> DEFINE s == c.entries
             full == Len(s) = CacheCapacity
             e == [id |-> c.misses + 1, hash |-> request.hash, level |-> request.level,
                   mask |-> request.mask, plaintext |-> <<request.mask, request.level>>]
             kept == IF full THEN Front(s) ELSE s
             t == <<e>> \o kept
             d == Miss(c, m, request).cache
             later == Later(asked, when, r, n)
  <1>1. IsSequence(s) /\ Len(s) \in Nat /\ DOMAIN s = 1 .. Len(s)
    BY AnySequence DEF CacheInv
  <1>2. /\ d.entries = t /\ d.misses = c.misses + 1 /\ d.bypasses = c.bypasses
        /\ d.evictions = (IF full THEN c.evictions + 1 ELSE c.evictions) /\ d.hits = c.hits
    BY DEF Miss, CacheInv, IsCache
  <1>3. e.plaintext = r /\ e.hash = Fingerprint[m][e.mask]
    OBVIOUS
  <1> HIDE DEF e, d, later
  <1>4. /\ IsSequence(kept) /\ DOMAIN kept = 1 .. Len(kept)
        /\ \A j \in DOMAIN kept : j \in DOMAIN s /\ kept[j] = s[j]
        /\ full => Len(kept) = Len(s) - 1 /\ \A j \in DOMAIN s : j \in DOMAIN kept \/ j = Len(s)
        /\ ~full => Len(kept) = Len(s) /\ \A j \in DOMAIN s : j \in DOMAIN kept
    <2>1. CASE ~full
      <3>1. kept = s
        BY <2>1
      <3> HIDE DEF kept, full
      <3>2. /\ IsSequence(kept) /\ DOMAIN kept = 1 .. Len(kept) /\ Len(kept) = Len(s)
            /\ \A j \in DOMAIN s : j \in DOMAIN kept /\ kept[j] = s[j]
        BY <1>1, <3>1
      <3> QED BY Zenon, <2>1, <3>1, <3>2
    <2>2. CASE full
      <3>1. s # <<>> /\ kept = Front(s)
        BY <2>2, CacheCapacityAssumption
      <3>2. /\ IsSequence(kept) /\ DOMAIN kept = 1 .. (Len(s) - 1)
            /\ \A j \in 1 .. (Len(s) - 1) : kept[j] = s[j]
            /\ Len(s) \in DOMAIN s
        BY <1>1, <3>1, FrontShape
      <3>3. Len(kept) \in Nat /\ DOMAIN kept = 1 .. Len(kept)
        BY <3>2, AnySequence
      <3> DEFINE a == Len(kept)
                 b == Len(s)
      <3>4. a \in Nat /\ b \in Nat /\ b \in 1 .. b /\ 1 .. a = 1 .. (b - 1)
        BY <1>1, <3>2, <3>3
      <3>5. a = b - 1
        <4> HIDE DEF a, b
        <4> QED BY <3>4
      <3>6. \A j \in 1 .. b : j \in 1 .. (b - 1) \/ j = b
        <4> HIDE DEF a, b
        <4> QED BY <3>4
      <3>7. \A j \in 1 .. (b - 1) : j \in 1 .. b
        <4> HIDE DEF a, b
        <4> QED BY <3>4
      <3>8. /\ IsSequence(kept) /\ DOMAIN kept = 1 .. Len(kept) /\ Len(kept) = Len(s) - 1
            /\ \A j \in DOMAIN kept : j \in DOMAIN s /\ kept[j] = s[j]
            /\ \A j \in DOMAIN s : j \in DOMAIN kept \/ j = Len(s)
        <4> HIDE DEF kept, s, full
        <4> QED BY <1>1, <3>2, <3>3, <3>5, <3>6, <3>7 DEF a, b
      <3> HIDE DEF kept, s, full
      <3> QED BY Zenon, <2>2, <3>8
    <2> QED BY <2>1, <2>2
  <1> HIDE DEF kept
  <1>5. /\ IsSequence(t) /\ DOMAIN t = 1 .. (Len(kept) + 1) /\ t[1] = e
        /\ \A j \in DOMAIN kept : t[j + 1] = kept[j]
        /\ \A j \in DOMAIN t : j # 1 => j - 1 \in DOMAIN kept /\ t[j] = kept[j - 1]
    BY <1>4, PushFrontShape
  <1>6. Len(t) = Len(kept) + 1
    <2>1. Len(t) \in Nat /\ DOMAIN t = 1 .. Len(t)
      BY <1>5, AnySequence
    <2>2. Len(kept) \in Nat
      BY <1>4, AnySequence
    <2> HIDE DEF t
    <2> QED BY <1>5, <2>1, <2>2
  <1> HIDE DEF t
  <1>7. /\ \A j \in DOMAIN s : s[j].plaintext \in asked
        /\ \A h, j \in DOMAIN s : h < j => when[s[j].plaintext] < when[s[h].plaintext]
        /\ \A j \in DOMAIN s : s[j].plaintext # r
        /\ Len(s) <= CacheCapacity /\ c.evictions = c.misses - Len(s)
        /\ CacheCapacity \in Nat /\ c.misses \in Nat
    BY CacheCapacityAssumption DEF Recent, Holds, CacheInv
  <1>8. /\ \A x \in asked : x # r => later[x] = when[x]
        /\ later[r] = n
    BY DEF later, Later
  <1>9. ASSUME NEW j \in DOMAIN t, j # 1
        PROVE  /\ j - 1 \in DOMAIN s /\ t[j] = s[j - 1] /\ t[j].plaintext \in asked
               /\ later[t[j].plaintext] = when[s[j - 1].plaintext]
    <2>1. j - 1 \in DOMAIN kept /\ t[j] = kept[j - 1]
      BY <1>5, <1>9
    <2>2. j - 1 \in DOMAIN s /\ t[j] = s[j - 1]
      BY <1>4, <2>1
    <2>3. s[j - 1].plaintext \in asked /\ s[j - 1].plaintext # r
      BY <1>7, <2>2
    <2> HIDE DEF later
    <2> QED BY <1>8, <2>2, <2>3
  <1>10. \A h, j \in DOMAIN t : h < j => later[t[j].plaintext] < later[t[h].plaintext]
    <2>1. SUFFICES ASSUME NEW h \in DOMAIN t, NEW j \in DOMAIN t, h < j
                   PROVE  later[t[j].plaintext] < later[t[h].plaintext]
      OBVIOUS
    <2>2. j # 1 /\ h \in Int /\ j \in Int
      BY <1>5, <2>1
    <2>3. j - 1 \in DOMAIN s /\ later[t[j].plaintext] = when[s[j - 1].plaintext]
      BY <1>9, <2>2
    <2>4. CASE h = 1
      BY <1>3, <1>5, <1>7, <1>8, <2>3, <2>4
    <2>5. CASE h # 1
      <3>1. h - 1 \in DOMAIN s /\ later[t[h].plaintext] = when[s[h - 1].plaintext] /\ h - 1 < j - 1
        BY <1>9, <2>1, <2>2, <2>5
      <3> QED BY <1>7, <2>3, <3>1
    <2> QED BY <2>4, <2>5
  <1>11. \A j \in DOMAIN t : t[j].plaintext \in asked \cup {r} /\ t[j].hash = Fingerprint[m][t[j].mask]
    <2>1. SUFFICES ASSUME NEW j \in DOMAIN t
                   PROVE  t[j].plaintext \in asked \cup {r} /\ t[j].hash = Fingerprint[m][t[j].mask]
      OBVIOUS
    <2>2. CASE j = 1
      BY <1>3, <1>5, <2>2
    <2>3. CASE j # 1
      BY <1>9, <2>3 DEF Hashed
    <2> QED BY <2>2, <2>3
  <1>12. Len(t) <= CacheCapacity /\ d.evictions = d.misses - Len(t)
    <2> DEFINE size == Len(s)
    <2>1. /\ size \in Nat /\ CacheCapacity \in Nat /\ size <= CacheCapacity /\ c.misses \in Nat
          /\ c.evictions = c.misses - size /\ d.misses = c.misses + 1
      BY <1>1, <1>2, <1>7
    <2>2. CASE size = CacheCapacity
      <3>1. Len(t) = (size - 1) + 1 /\ d.evictions = c.evictions + 1
        BY <1>2, <1>4, <1>6, <2>2
      <3> HIDE DEF size
      <3> QED BY <2>1, <2>2, <3>1
    <2>3. CASE size # CacheCapacity
      <3>1. Len(t) = size + 1 /\ d.evictions = c.evictions
        BY <1>2, <1>4, <1>6, <2>3
      <3> HIDE DEF size
      <3> QED BY <2>1, <2>3, <3>1
    <2> QED BY <2>2, <2>3
  <1>13. Holds(d, r)
    <2>1. 1 \in DOMAIN t
      BY <1>4, <1>5, AnySequence
    <2> QED BY <1>2, <1>3, <1>5, <2>1 DEF Holds
  <1>14. ASSUME NEW x \in asked, x # r, ~Holds(d, x)
         PROVE  /\ Len(t) = CacheCapacity
                /\ \A j \in DOMAIN t : later[x] < later[t[j].plaintext]
    <2>1. \A j \in DOMAIN kept : kept[j].plaintext # x
      <3>1. SUFFICES ASSUME NEW j \in DOMAIN kept, kept[j].plaintext = x PROVE FALSE
        OBVIOUS
      <3>2. j + 1 \in DOMAIN t /\ t[j + 1] = kept[j]
        BY <1>4, <1>5, AnySequence
      <3> QED BY <1>2, <1>14, <3>1, <3>2 DEF Holds
    <2>2. full
      <3>1. SUFFICES ASSUME ~full PROVE FALSE
        OBVIOUS
      <3>2. \A j \in DOMAIN s : s[j].plaintext # x
        BY <1>4, <2>1, <3>1
      <3> QED BY <3>1, <3>2 DEF Recent, Holds
    <2>3. Len(t) = CacheCapacity
      <3>1. Len(s) \in Nat
        BY <1>1
      <3> HIDE DEF s
      <3> QED BY <1>4, <1>6, <2>2, <3>1
    <2>4. \A j \in DOMAIN kept : when[x] < when[s[j].plaintext]
      <3>1. CASE Holds(c, x)
        <4>1. PICK h \in DOMAIN s : s[h].plaintext = x
          BY <3>1 DEF Holds
        <4>2. h = Len(s)
          BY <1>4, <2>1, <4>1
        <4>3. \A j \in DOMAIN kept : j \in DOMAIN s /\ j < h
          <5>1. Len(s) \in Nat
            BY <1>1
          <5> HIDE DEF s
          <5> QED BY <1>4, <2>2, <4>2, <5>1
        <4> QED BY <1>7, <4>1, <4>3
      <3>2. CASE ~Holds(c, x)
        BY <1>4, <3>2 DEF Recent
      <3> QED BY <3>1, <3>2
    <2>5. ASSUME NEW j \in DOMAIN t PROVE later[x] < later[t[j].plaintext]
      <3>1. later[x] = when[x] /\ when[x] < n
        BY <1>8, <1>14
      <3>2. CASE j = 1
        BY <1>3, <1>5, <1>8, <3>1, <3>2
      <3>3. CASE j # 1
        BY <1>5, <1>9, <2>4, <3>1, <3>3
      <3> QED BY <3>2, <3>3
    <2> QED BY <2>3, <2>5
  <1>15. Hashed(d, m)
    BY <1>2, <1>11 DEF Hashed
  <1>16. Recent(d, asked \cup {r}, later)
    <2>1. \A x \in asked \cup {r} : ~Holds(d, x) => x \in asked /\ x # r
      BY <1>13
    <2> HIDE DEF later
    <2> QED BY <1>2, <1>10, <1>11, <1>12, <1>14, <2>1 DEF Recent
  <1> QED BY <1>2, <1>15, <1>16 DEF d, later

(* A history of requests q, read as the properties read terms. *)
AdmittedBy(m, r) == CacheCapacity # 0 /\ Fingerprint[m][r[1]] # Dense
AdmittedIn(q, m) == {k \in DOMAIN q : AdmittedBy(m, q[k])}
AskedIn(q, m) == {q[k] : k \in AdmittedIn(q, m)}
LatestIn(q, r) == Max({k \in DOMAIN q : q[k] = r})
LatestOf(q, m) == [r \in AskedIn(q, m) |-> LatestIn(q, r)]
LatestInv(c, q, m) ==
  /\ Hashed(c, m)
  /\ Recent(c, AskedIn(q, m), LatestOf(q, m))
  /\ c.hits \in Nat /\ c.hits + c.misses = Cardinality(AdmittedIn(q, m))
  /\ c.bypasses \in Nat /\ c.bypasses + Cardinality(AdmittedIn(q, m)) = Len(q)

(* Admitted requests can be counted. *)
LEMMA AdmittedFinite ==
  ASSUME NEW q, IsSequence(q), NEW m
  PROVE  /\ AdmittedIn(q, m) \subseteq 1 .. Len(q)
         /\ IsFiniteSet(AdmittedIn(q, m)) /\ Cardinality(AdmittedIn(q, m)) \in Nat
  <1>1. Len(q) \in Nat /\ AdmittedIn(q, m) \subseteq 1 .. Len(q)
    BY AnySequence DEF AdmittedIn
  <1>2. IsFiniteSet(1 .. Len(q))
    BY <1>1, FS_Interval
  <1>3. IsFiniteSet(AdmittedIn(q, m))
    BY <1>1, <1>2, FS_Subset
  <1> QED BY <1>1, <1>3, FS_CardinalityType

(* What was asked for was last asked for at some position of the history. *)
LEMMA LatestPosition ==
  ASSUME NEW q, IsSequence(q), NEW m, NEW r \in AskedIn(q, m)
  PROVE  LatestIn(q, r) \in 1 .. Len(q) /\ LatestOf(q, m)[r] = LatestIn(q, r)
  <1> DEFINE at == {k \in DOMAIN q : q[k] = r}
  <1>1. Len(q) \in Nat /\ DOMAIN q = 1 .. Len(q)
    BY AnySequence
  <1>2. at \subseteq 1 .. Len(q) /\ at # {}
    BY <1>1 DEF AskedIn, AdmittedIn
  <1>3. Max(at) \in at
    <2> HIDE DEF at
    <2> QED BY <1>1, <1>2, LastPosition
  <1> QED BY <1>2, <1>3 DEF LatestIn, LatestOf

(* The history p is q with the request r after it. *)
Grown(q, r, p) ==
  /\ IsSequence(q) /\ IsSequence(p) /\ Len(q) \in Nat /\ Len(p) = Len(q) + 1
  /\ DOMAIN p = DOMAIN q \cup {Len(p)} /\ Len(p) \notin DOMAIN q
  /\ p[Len(p)] = r /\ \A k \in DOMAIN q : p[k] = q[k]

(* Appending a request grows the history by it. *)
LEMMA OneMore ==
  ASSUME NEW q, IsSequence(q), NEW r
  PROVE  Grown(q, r, Append(q, r))
  <1> DEFINE p == Append(q, r)
             n == Len(q) + 1
  <1>1. PICK S : q \in Seq(S)
    BY DEF IsSequence
  <1> DEFINE T == S \cup {r}
  <1>2. q \in Seq(T) /\ r \in T /\ Len(q) \in Nat /\ DOMAIN q = 1 .. Len(q)
    BY <1>1
  <1> HIDE DEF T
  <1>3. /\ p \in Seq(T) /\ Len(p) = n /\ DOMAIN p = 1 .. n /\ p[n] = r
        /\ \A k \in 1 .. Len(q) : p[k] = q[k]
    BY <1>2
  <1>4. 1 .. n = (1 .. Len(q)) \cup {n} /\ n \notin 1 .. Len(q)
    BY <1>2
  <1>5. /\ IsSequence(p) /\ Len(p) = n /\ DOMAIN p = DOMAIN q \cup {n} /\ n \notin DOMAIN q
        /\ p[n] = r /\ \A k \in DOMAIN q : p[k] = q[k]
    BY <1>2, <1>3, <1>4 DEF IsSequence
  <1> HIDE DEF p
  <1>6. Grown(q, r, p)
    BY <1>2, <1>5 DEF Grown
  <1> QED BY <1>6 DEF p

(* The new request was last asked for now; nothing else was. *)
LEMMA OneMoreLatest ==
  ASSUME NEW q, NEW r, NEW p, Grown(q, r, p)
  PROVE  /\ LatestIn(p, r) = Len(p)
         /\ \A x : x # r => LatestIn(p, x) = LatestIn(q, x)
  <1> DEFINE at == {k \in DOMAIN p : p[k] = r}
             n == Len(p)
  <1>1. /\ IsSequence(p) /\ DOMAIN p = DOMAIN q \cup {n} /\ n \notin DOMAIN q
        /\ p[n] = r /\ Len(p) = n /\ \A k \in DOMAIN q : p[k] = q[k]
    BY DEF Grown
  <1>2. n \in Nat /\ DOMAIN p = 1 .. n
    BY <1>1, AnySequence
  <1>3. n \in at /\ at \subseteq 1 .. n
    BY <1>1, <1>2
  <1>4. Max(at) \in at /\ \A y \in at : y <= Max(at)
    <2> HIDE DEF at
    <2> QED BY <1>2, <1>3, LastPosition
  <1>5. Max(at) = n
    <2> DEFINE top == Max(at)
    <2>1. top \in 1 .. n /\ n <= top
      <3> HIDE DEF at
      <3> QED BY <1>3, <1>4
    <2> HIDE DEF top, n
    <2>2. top = n
      BY <1>2, <2>1
    <2> QED BY <2>2 DEF top
  <1>6. ASSUME NEW x, x # r PROVE LatestIn(p, x) = LatestIn(q, x)
    <2>1. {k \in DOMAIN p : p[k] = x} = {k \in DOMAIN q : q[k] = x}
      BY <1>1, <1>6
    <2> QED BY <2>1 DEF LatestIn
  <1> QED BY <1>5, <1>6 DEF LatestIn

(* A request that is admitted counts, and is the latest of those asked for. *)
LEMMA AppendAdmitted ==
  ASSUME NEW q, NEW m, NEW r, AdmittedBy(m, r), NEW p, Grown(q, r, p)
  PROVE  /\ AskedIn(p, m) = AskedIn(q, m) \cup {r}
         /\ Cardinality(AdmittedIn(p, m)) = Cardinality(AdmittedIn(q, m)) + 1
         /\ LatestOf(p, m) = Later(AskedIn(q, m), LatestOf(q, m), r, Len(p))
  <1> DEFINE n == Len(p)
  <1>1. /\ IsSequence(p) /\ DOMAIN p = DOMAIN q \cup {n} /\ n \notin DOMAIN q
        /\ p[n] = r /\ Len(p) = n /\ \A k \in DOMAIN q : p[k] = q[k]
    BY DEF Grown
  <1>2. AdmittedIn(p, m) = AdmittedIn(q, m) \cup {n} /\ n \notin AdmittedIn(q, m)
    BY <1>1 DEF AdmittedIn
  <1>8. IsFiniteSet(AdmittedIn(q, m))
    BY AdmittedFinite DEF Grown
  <1>3. Cardinality(AdmittedIn(p, m)) = Cardinality(AdmittedIn(q, m)) + 1
    BY <1>2, <1>8, FS_AddElement
  <1>4. AskedIn(p, m) = AskedIn(q, m) \cup {r}
    <2>1. \A k \in AdmittedIn(q, m) : p[k] = q[k]
      BY <1>1 DEF AdmittedIn
    <2> HIDE DEF n
    <2>2. p[n] = r /\ n \in AdmittedIn(p, m)
      BY <1>1, <1>2
    <2> QED BY <1>2, <2>1, <2>2 DEF AskedIn
  <1>5. LatestOf(p, m) = [x \in AskedIn(q, m) \cup {r} |-> LatestIn(p, x)]
    BY <1>4 DEF LatestOf
  <1>6. \A x \in AskedIn(q, m) \cup {r} :
          LatestIn(p, x) = IF x = r THEN n ELSE LatestOf(q, m)[x]
    BY OneMoreLatest DEF LatestOf
  <1>7. [x \in AskedIn(q, m) \cup {r} |-> LatestIn(p, x)] =
        [x \in AskedIn(q, m) \cup {r} |-> IF x = r THEN n ELSE LatestOf(q, m)[x]]
    BY <1>6
  <1> QED BY <1>3, <1>4, <1>5, <1>7 DEF Later

(* A request that is not admitted leaves no trace in what was asked for. *)
LEMMA AppendBypassed ==
  ASSUME NEW q, NEW m, NEW r, ~AdmittedBy(m, r), NEW p, Grown(q, r, p)
  PROVE  /\ AskedIn(p, m) = AskedIn(q, m) /\ AdmittedIn(p, m) = AdmittedIn(q, m)
         /\ LatestOf(p, m) = LatestOf(q, m)
  <1> DEFINE n == Len(p)
  <1>1. /\ IsSequence(p) /\ DOMAIN p = DOMAIN q \cup {n} /\ n \notin DOMAIN q
        /\ p[n] = r /\ \A k \in DOMAIN q : p[k] = q[k]
    BY DEF Grown
  <1> HIDE DEF n
  <1>2. AdmittedIn(p, m) = AdmittedIn(q, m)
    BY <1>1 DEF AdmittedIn
  <1>3. \A k \in AdmittedIn(q, m) : p[k] = q[k]
    BY <1>1 DEF AdmittedIn
  <1>4. AskedIn(p, m) = AskedIn(q, m)
    BY <1>2, <1>3 DEF AskedIn
  <1>5. r \notin AskedIn(q, m)
    BY DEF AskedIn, AdmittedIn
  <1>6. \A x \in AskedIn(q, m) : LatestIn(p, x) = LatestIn(q, x)
    BY <1>5, OneMoreLatest
  <1>7. LatestOf(p, m) = LatestOf(q, m)
    BY <1>4, <1>6 DEF LatestOf
  <1> QED BY <1>2, <1>4, <1>7

(* Whatever is asked next, the cache stays the list of the latest requests. *)
LEMMA GetLatest ==
  ASSUME NEW c, NEW m, CacheInv(c), IndexInv(c, m), NEW q, IsSequence(q), LatestInv(c, q, m),
         NEW mask, NEW level
  PROVE  LatestInv(Get(c, m, mask, level).cache, Append(q, <<mask, level>>), m)
  <1> DEFINE r == <<mask, level>>
             request == [hash |-> Fingerprint[m][mask], level |-> level, mask |-> mask]
             found == Found(c, m, request)
             got == Get(c, m, mask, level)
             d == got.cache
             p == Append(q, r)
             n == Len(p)
             asked == AskedIn(q, m)
             when == LatestOf(q, m)
             size == Cardinality(AdmittedIn(q, m))
  <1>1. r[1] = mask
    OBVIOUS
  <1>grown. Grown(q, r, p)
    <2> HIDE DEF r
    <2> QED BY OneMore
  <1> HIDE DEF p
  <1>2. /\ Len(q) \in Nat /\ n \in Nat /\ size \in Nat /\ Len(p) = n /\ n = Len(q) + 1
        /\ c.hits \in Nat /\ c.misses \in Nat /\ c.bypasses \in Nat
        /\ c.hits + c.misses = size /\ c.bypasses + size = Len(q)
        /\ Hashed(c, m) /\ Recent(c, asked, when)
    BY <1>grown, AdmittedFinite DEF Grown, LatestInv, CacheInv
  <1>3. when \in [asked -> Nat] /\ \A x \in asked : when[x] < n
    <2>1. \A x \in asked : when[x] \in 1 .. Len(q)
      BY LatestPosition
    <2>2. when = [x \in asked |-> when[x]]
      BY DEF LatestOf
    <2> HIDE DEF asked, when
    <2> QED BY <1>2, <2>1, <2>2
  <1>4. CASE ~AdmittedBy(m, r)
    <2>1. got = [cache |-> [c EXCEPT !.bypasses = @ + 1], plaintext |-> r]
      BY <1>1, <1>4 DEF Get, AdmittedBy
    <2>2. /\ d.entries = c.entries /\ d.misses = c.misses /\ d.evictions = c.evictions
          /\ d.hits = c.hits /\ d.bypasses = c.bypasses + 1
      BY <2>1 DEF CacheInv, IsCache
    <2>3. AskedIn(p, m) = asked /\ AdmittedIn(p, m) = AdmittedIn(q, m) /\ LatestOf(p, m) = when
      <3> HIDE DEF r
      <3> QED BY <1>4, <1>grown, AppendBypassed
    <2> HIDE DEF d, p, r, asked, when
    <2>4. Hashed(d, m) /\ Recent(d, asked, when)
      BY <1>2, <2>2 DEF Hashed, Recent, Holds
    <2>5. d.bypasses \in Nat /\ d.bypasses + size = Len(p) /\ d.hits + d.misses = size
      <3> HIDE DEF size
      <3> QED BY <1>2, <2>2
    <2> QED BY <1>2, <2>2, <2>3, <2>4, <2>5 DEF LatestInv, d, p, r
  <1>5. CASE AdmittedBy(m, r)
    <2>1. CacheCapacity # 0 /\ request.hash # Dense
      BY <1>1, <1>5 DEF AdmittedBy
    <2>2. /\ AskedIn(p, m) = asked \cup {r} /\ Cardinality(AdmittedIn(p, m)) = size + 1
          /\ LatestOf(p, m) = Later(asked, when, r, n)
      <3> HIDE DEF r
      <3> QED BY <1>5, <1>grown, AppendAdmitted
    <2>3. /\ Hashed(d, m) /\ Recent(d, asked \cup {r}, Later(asked, when, r, n))
          /\ d.bypasses = c.bypasses
          /\ \/ d.hits = c.hits + 1 /\ d.misses = c.misses
             \/ d.hits = c.hits /\ d.misses = c.misses + 1
      <3>1. CASE found # {}
        <4>1. PICK k \in found : got = Hit(c, k)
          <5>1. got = Hit(c, CHOOSE k \in found : TRUE)
            BY <3>1, <2>1 DEF Get
          <5>2. (CHOOSE k \in found : TRUE) \in found
            BY <3>1
          <5> QED BY <5>1, <5>2
        <4>2. k \in DOMAIN c.entries /\ c.entries[k].plaintext = r
          <5>1. Hashed(c, m)
            BY <1>2
          <5>2. found = {j \in DOMAIN c.entries : c.entries[j].plaintext = <<mask, level>>}
            BY <5>1, FoundWhenHeld
          <5> HIDE DEF found
          <5> QED BY <5>2
        <4>3. d = Hit(c, k).cache
          BY <4>1
        <4> HIDE DEF r, got, asked, when, n
        <4> QED BY <1>2, <1>3, <4>2, <4>3, HitRecent
      <3>2. CASE found = {}
        <4>1. got = Miss(c, m, request)
          BY <3>2, <2>1 DEF Get
        <4>2. ~Holds(c, r)
          <5>1. Hashed(c, m)
            BY <1>2
          <5>2. found = {j \in DOMAIN c.entries : c.entries[j].plaintext = <<mask, level>>}
            BY <5>1, FoundWhenHeld
          <5> HIDE DEF found
          <5> QED BY <3>2, <5>2 DEF Holds
        <4>3. d = Miss(c, m, request).cache
          BY <4>1
        <4>4. request.hash = Fingerprint[m][request.mask] /\ r = <<request.mask, request.level>>
          OBVIOUS
        <4>5. /\ Hashed(c, m) /\ CacheCapacity # 0 /\ when \in [asked -> Nat]
              /\ Recent(c, asked, when) /\ n \in Nat /\ \A x \in asked : when[x] < n
          BY <1>2, <1>3, <2>1
        <4> HIDE DEF found, got, asked, when, n, request, r, size, d
        <4>6. /\ Hashed(Miss(c, m, request).cache, m)
              /\ Recent(Miss(c, m, request).cache, asked \cup {r}, Later(asked, when, r, n))
              /\ Miss(c, m, request).cache.bypasses = c.bypasses
              /\ Miss(c, m, request).cache.misses = c.misses + 1
              /\ Miss(c, m, request).cache.hits = c.hits
          BY <4>2, <4>4, <4>5, MissRecent, SMTT(30)
        <4> QED BY <4>3, <4>6
      <3> QED BY <3>1, <3>2
    <2> HIDE DEF d, p, r, asked, when, size
    <2>4. /\ d.hits \in Nat /\ d.bypasses \in Nat
          /\ d.hits + d.misses = size + 1 /\ d.bypasses + (size + 1) = Len(p)
      <3> DEFINE a == Len(q)
                 b == Len(p)
                 hits == d.hits
                 misses == d.misses
                 bypasses == d.bypasses
                 oldHits == c.hits
                 oldMisses == c.misses
                 oldBypasses == c.bypasses
      <3>1. /\ a \in Nat /\ size \in Nat /\ b = a + 1
            /\ oldHits \in Nat /\ oldMisses \in Nat /\ oldBypasses \in Nat
            /\ oldHits + oldMisses = size /\ oldBypasses + size = a
        BY <1>2
      <3>2. /\ bypasses = oldBypasses
            /\ \/ hits = oldHits + 1 /\ misses = oldMisses
               \/ hits = oldHits /\ misses = oldMisses + 1
        BY <2>3
      <3> HIDE DEF a, b, hits, misses, bypasses, oldHits, oldMisses, oldBypasses
      <3>3. hits \in Nat /\ bypasses \in Nat
        BY <3>1, <3>2
      <3>4. hits + misses = size + 1
        BY <3>1, <3>2
      <3>5. bypasses + (size + 1) = b
        BY <3>1, <3>2
      <3> QED BY <3>3, <3>4, <3>5 DEF hits, misses, bypasses, b
    <2> QED BY <2>2, <2>3, <2>4 DEF LatestInv, d, p, r
  <1> QED BY <1>4, <1>5

(* A sequence has finitely many positions, as many as its length. *)
LEMMA InSequence ==
  ASSUME NEW s, IsSequence(s)
  PROVE  /\ IsFiniteSet(DOMAIN s) /\ Cardinality(DOMAIN s) = Len(s)
         /\ Len(s) \in Nat /\ DOMAIN s \subseteq Nat
  <1>1. Len(s) \in Nat /\ DOMAIN s = 1 .. Len(s)
    BY AnySequence
  <1>2. IsFiniteSet(1 .. Len(s)) /\ Cardinality(1 .. Len(s)) = Len(s)
    <2> DEFINE n == Len(s)
    <2>1. n \in Nat
      BY <1>1
    <2> HIDE DEF n
    <2>2. IsFiniteSet(1 .. n) /\ Cardinality(1 .. n) = n
      BY <2>1, FS_Interval
    <2> QED BY <2>2 DEF n
  <1> QED BY <1>1, <1>2

(* The cache is as large as the requests and the capacity make it. *)
LEMMA HeldMany ==
  ASSUME NEW c, NEW m, CacheInv(c), NEW q, IsSequence(q), LatestInv(c, q, m)
  PROVE  /\ \A j, k \in DOMAIN c.entries : j < k =>
              LatestIn(q, c.entries[j].plaintext) > LatestIn(q, c.entries[k].plaintext)
         /\ Len(c.entries) = IF Cardinality(AskedIn(q, m)) < CacheCapacity
                             THEN Cardinality(AskedIn(q, m)) ELSE CacheCapacity
  <1> DEFINE s == c.entries
             asked == AskedIn(q, m)
             held == [k \in DOMAIN s |-> s[k].plaintext]
             size == Len(s)
             many == Cardinality(asked)
  <1>1. /\ \A k \in DOMAIN s : s[k].plaintext \in asked
        /\ \A j, k \in DOMAIN s : j < k =>
             LatestIn(q, s[k].plaintext) < LatestIn(q, s[j].plaintext)
        /\ \A r \in asked : ~Holds(c, r) => size = CacheCapacity
        /\ size <= CacheCapacity
    <2>1. \A r \in asked : LatestOf(q, m)[r] = LatestIn(q, r)
      BY LatestPosition
    <2> HIDE DEF asked
    <2> QED BY <2>1 DEF LatestInv, Recent, asked
  <1>2. \A r \in asked : LatestIn(q, r) \in Nat
    <2>1. \A r \in asked : LatestIn(q, r) \in 1 .. Len(q)
      BY LatestPosition
    <2> HIDE DEF asked
    <2> QED BY <2>1
  <1>3. /\ IsFiniteSet(DOMAIN s) /\ Cardinality(DOMAIN s) = size
        /\ size \in Nat /\ DOMAIN s \subseteq Nat
    BY InSequence DEF CacheInv
  <1>4. IsFiniteSet(asked) /\ many \in Nat
    <2> DEFINE at == AdmittedIn(q, m)
               f == [k \in at |-> q[k]]
    <2>1. f \in Surjection(at, asked)
      BY DEF Surjection, AskedIn
    <2>2. IsFiniteSet(at)
      BY AdmittedFinite
    <2>3. IsFiniteSet(asked)
      <3> HIDE DEF at, asked, f
      <3> QED BY <2>1, <2>2, FS_Surjection
    <2> HIDE DEF asked
    <2> QED BY <2>3, FS_CardinalityType
  <1> HIDE DEF s, asked
  <1>5. held \in Injection(DOMAIN s, asked)
    <2>1. held \in [DOMAIN s -> asked]
      BY <1>1
    <2>2. ASSUME NEW j \in DOMAIN s, NEW k \in DOMAIN s, s[j].plaintext = s[k].plaintext
          PROVE  j = k
      <3>1. LatestIn(q, s[j].plaintext) \in Nat /\ LatestIn(q, s[k].plaintext) \in Nat
        BY <1>1, <1>2
      <3>2. ~(j < k) /\ ~(k < j)
        BY <1>1, <2>2, <3>1
      <3> QED BY <1>3, <3>2
    <2>3. \A j, k \in DOMAIN s : held[j] = held[k] => j = k
      BY <2>2
    <2> HIDE DEF held
    <2> QED BY <2>1, <2>3 DEF Injection, IsInjective
  <1>6. size <= many /\ (held \in Surjection(DOMAIN s, asked) => size = many)
    <2> HIDE DEF held, size, many
    <2>1. /\ Cardinality(DOMAIN s) <= Cardinality(asked)
          /\ Cardinality(DOMAIN s) = Cardinality(asked) <=> held \in Surjection(DOMAIN s, asked)
      BY <1>4, <1>5, FS_Injection
    <2> QED BY <1>3, <2>1 DEF many
  <1>7. size < CacheCapacity => size = many
    <2>1. SUFFICES ASSUME size < CacheCapacity PROVE held \in Surjection(DOMAIN s, asked)
      BY <1>6
    <2>2. \A r \in asked : Holds(c, r)
      BY <1>1, <1>3, <2>1, CacheCapacityAssumption
    <2>3. \A r \in asked : \E k \in DOMAIN s : held[k] = r
      BY <2>2 DEF Holds, s
    <2>4. held \in [DOMAIN s -> asked]
      BY <1>1
    <2> HIDE DEF held
    <2> QED BY <2>3, <2>4 DEF Surjection
  <1>8. size = IF many < CacheCapacity THEN many ELSE CacheCapacity
    <2> HIDE DEF size, many
    <2> QED BY <1>1, <1>3, <1>4, <1>6, <1>7, CacheCapacityAssumption
  <1>9. \A j, k \in DOMAIN s : j < k =>
          LatestIn(q, s[j].plaintext) > LatestIn(q, s[k].plaintext)
    <2> HIDE DEF size, held, many
    <2>1. \A k \in DOMAIN s : LatestIn(q, s[k].plaintext) \in Nat
      BY <1>1, <1>2
    <2> QED BY <1>1, <2>1
  <1> QED BY <1>8, <1>9 DEF s, asked

(* The inductive invariant: the cache against the terms so far. *)
RecencyInv == TermsInv /\ (method # "off" => LatestInv(cache, terms, method))

(* What the theorem promises of a state follows from the invariant. *)
LEMMA RecencyImplies == RecencyInv => CacheIsLatest
  <1> SUFFICES ASSUME RecencyInv, method # "off" PROVE CacheIsLatest
    BY DEF CacheIsLatest
  <1> DEFINE s == cache.entries
             held == [k \in DOMAIN s |-> s[k].plaintext]
             size == Len(s)
  <1>1. CacheInv(cache) /\ IsSequence(terms) /\ LatestInv(cache, terms, method)
    BY DEF RecencyInv, TermsInv
  <1>2. /\ AdmittedAt = AdmittedIn(terms, method) /\ Asked = AskedIn(terms, method)
        /\ \A r : LastRequest(r) = LatestIn(terms, r)
    BY DEF AdmittedAt, AdmittedIn, Asked, AskedIn, LastRequest, LatestIn, Admits, AdmittedBy
  <1>3. /\ \A j, k \in DOMAIN s : j < k =>
             LatestIn(terms, s[j].plaintext) > LatestIn(terms, s[k].plaintext)
        /\ size = IF Cardinality(Asked) < CacheCapacity THEN Cardinality(Asked)
                  ELSE CacheCapacity
    BY <1>1, <1>2, HeldMany
  <1>4. \A r \in Asked : /\ LatestOf(terms, method)[r] = LastRequest(r)
                         /\ LastRequest(r) \in Nat
    <2>1. \A r \in AskedIn(terms, method) : /\ LatestIn(terms, r) \in 1 .. Len(terms)
                                            /\ LatestOf(terms, method)[r] = LatestIn(terms, r)
      BY <1>1, LatestPosition
    <2> QED BY <1>2, <2>1
  <1>5. Recent(cache, Asked, LatestOf(terms, method))
    BY <1>1, <1>2 DEF LatestInv
  <1>6. Range(held) \subseteq Asked
    BY <1>5 DEF Recent, Range
  <1>7. \A k, l \in DOMAIN held : k < l => Newest(held[k], held[l])
    BY <1>2, <1>3 DEF Newest
  <1>8. \A r \in Asked \ Range(held), t \in Range(held) : Newest(t, r)
    <2>1. SUFFICES ASSUME NEW r \in Asked, r \notin Range(held), NEW k \in DOMAIN s
                   PROVE  Newest(s[k].plaintext, r)
      BY DEF Range
    <2>2. ~Holds(cache, r)
      BY <2>1 DEF Holds, Range
    <2>3. s[k].plaintext \in Asked /\ LatestOf(terms, method)[r] < LatestOf(terms, method)[s[k].plaintext]
      BY <1>5, <2>1, <2>2 DEF Recent
    <2>4. LastRequest(r) < LastRequest(s[k].plaintext)
      BY <1>4, <2>1, <2>3
    <2> QED BY <1>4, <2>1, <2>3, <2>4 DEF Newest
  <1>9. cache.evictions = cache.misses - size
    BY <1>5 DEF Recent
  <1>10. /\ cache.hits + cache.misses = Cardinality(AdmittedAt)
         /\ cache.bypasses = Len(terms) - Cardinality(AdmittedAt)
    <2> DEFINE at == Cardinality(AdmittedAt)
               n == Len(terms)
    <2>1. /\ cache.hits + cache.misses = at /\ cache.bypasses + at = n
          /\ at \in Nat /\ n \in Nat /\ cache.bypasses \in Nat
      BY <1>1, <1>2, AdmittedFinite, AnySequence DEF LatestInv
    <2> HIDE DEF at, n
    <2>2. cache.hits + cache.misses = at /\ cache.bypasses = n - at
      BY <2>1
    <2> QED BY <2>2 DEF at, n
  <1> HIDE DEF held, size
  <1>11. /\ size = IF Cardinality(Asked) < CacheCapacity THEN Cardinality(Asked)
                   ELSE CacheCapacity
         /\ Range(held) \subseteq Asked
         /\ \A k, l \in DOMAIN held : k < l => Newest(held[k], held[l])
         /\ \A r \in Asked \ Range(held), t \in Range(held) : Newest(t, r)
         /\ cache.evictions = cache.misses - size
         /\ cache.hits + cache.misses = Cardinality(AdmittedAt)
         /\ cache.bypasses = Len(terms) - Cardinality(AdmittedAt)
    BY Zenon, <1>3, <1>6, <1>7, <1>8, <1>9, <1>10
  <1> QED BY Zenon, <1>11 DEF CacheIsLatest, held, size

(* Nothing was asked for and nothing is held. *)
LEMMA InitRecency == TermsInit => RecencyInv
  <1> SUFFICES ASSUME TermsInit PROVE RecencyInv
    OBVIOUS
  <1>1. TermsInv
    BY InitTerms
  <1>2. /\ cache.entries = <<>> /\ cache.misses = 0 /\ cache.hits = 0 /\ cache.bypasses = 0
        /\ cache.evictions = 0 /\ terms = <<>>
    BY DEF TermsInit, EmptyCache
  <1>3. Len(<<>>) = 0 /\ DOMAIN <<>> = {}
    OBVIOUS
  <1>4. Hashed(cache, method)
    BY <1>2, <1>3 DEF Hashed
  <1>5. AdmittedIn(terms, method) = {} /\ AskedIn(terms, method) = {}
    BY <1>2, <1>3 DEF AdmittedIn, AskedIn
  <1>6. Recent(cache, AskedIn(terms, method), LatestOf(terms, method))
    <2>1. Len(cache.entries) = 0 /\ DOMAIN cache.entries = {}
      BY <1>2, <1>3
    <2>2. cache.evictions = cache.misses - Len(cache.entries) /\ Len(cache.entries) <= CacheCapacity
      <3> DEFINE a == cache.evictions
                 b == cache.misses
                 size == Len(cache.entries)
      <3>1. a = 0 /\ b = 0 /\ size = 0
        BY <1>2, <2>1
      <3> HIDE DEF a, b, size
      <3>2. a = b - size /\ size <= CacheCapacity
        BY <3>1, CacheCapacityAssumption
      <3> QED BY <3>2 DEF a, b, size
    <2> QED BY <1>5, <2>1, <2>2 DEF Recent
  <1>7. Cardinality(AdmittedIn(terms, method)) = 0
    BY <1>5, FS_EmptySet
  <1> QED BY <1>1, <1>2, <1>3, <1>4, <1>6, <1>7 DEF RecencyInv, LatestInv

(* Using a popped item asks the cache for exactly the term appended. *)
LEMMA UseRecent ==
  ASSUME RecencyInv, method # "off", PopItem, UseItem, UNCHANGED <<masks, levels, method>>
  PROVE  LatestInv(cache', terms', method)
  <1> DEFINE k == Len(out)
             level == levels[k % BabyStep]
             item == Prepared(k)
             got == Get(cache, method, item.mask, level)
  <1>1. Head(queue) = Len(out)
    <2> USE DEF RecencyInv, TermsInv, IInv, InOrder, TypeOK, PopItem, AtPop
    <2>1. Len(queue) \in Nat /\ Len(queue) > 0 /\ Len(out) \in Nat
      OBVIOUS
    <2> QED BY <2>1
  <1>2. item.mask = masks[k] /\ item.level = level
    BY DEF Prepared
  <1>3. cache' = got.cache /\ terms' = Append(terms, got.plaintext)
    BY <1>1, <1>2 DEF UseItem
  <1>4. CacheInv(cache) /\ IndexInv(cache, method) /\ IsSequence(terms)
        /\ LatestInv(cache, terms, method)
    BY DEF RecencyInv, TermsInv
  <1>5. got = Get(cache, method, masks[k], level)
    BY <1>2
  <1> HIDE DEF got, k, level, item
  <1>6. got.plaintext = <<masks[k], level>>
    BY <1>4, <1>5, GetRight
  <1>7. LatestInv(got.cache, Append(terms, <<masks[k], level>>), method)
    BY <1>4, <1>5, GetLatest
  <1>8. ASSUME NEW c, NEW q, c = got.cache, q = Append(terms, <<masks[k], level>>)
        PROVE  LatestInv(c, q, method)
    BY <1>7, <1>8
  <1> QED BY <1>3, <1>6, <1>8

(* Only the use of a popped item touches the cache or the terms. *)
LEMMA StepRecency == RecencyInv /\ [TermsNext]_<<vars, termVars>> => RecencyInv'
  <1> SUFFICES ASSUME RecencyInv, [TermsNext]_<<vars, termVars>> PROVE RecencyInv'
    OBVIOUS
  <1>1. TermsInv'
    BY StepTerms DEF RecencyInv
  <1>2. CASE TermsNext /\ PopItem
    <2>1. UseItem /\ UNCHANGED <<masks, levels, method>>
      BY <1>2, PopGrows DEF TermsNext, RecencyInv, TermsInv
    <2>2. method' = method /\ (method # "off" => LatestInv(cache', terms', method))
      BY <1>2, <2>1, UseRecent
    <2>3. method' # "off" => LatestInv(cache', terms', method')
      BY <2>2
    <2> QED BY <1>1, <2>3 DEF RecencyInv
  <1>3. CASE UNCHANGED <<cache, terms, method>>
    <2>1. cache' = cache /\ terms' = terms /\ method' = method
      BY <1>3
    <2>2. method' # "off" => LatestInv(cache', terms', method')
      BY <2>1 DEF RecencyInv
    <2> QED BY <1>1, <2>2 DEF RecencyInv
  <1>4. CASE TermsNext /\ ~PopItem
    <2>1. out' = out
      BY <1>4, OutByPopOnly DEF TermsNext, RecencyInv, TermsInv
    <2> QED BY <1>3, <1>4, <2>1 DEF TermsNext
  <1>5. CASE UNCHANGED <<vars, termVars>>
    BY <1>3, <1>5 DEF vars, termVars
  <1> QED BY <1>2, <1>4, <1>5

(* The cache is the list of the latest distinct requests, newest first, and  *)
(* its counters are exact, for any requests, capacity, fingerprint and hash   *)
(* of the buckets, with or without the index, and however the worker that     *)
(* prepares the weights is scheduled.                                      *)
THEOREM CacheCorrect == TermsSpec => []CacheIsLatest
  BY InitRecency, StepRecency, RecencyImplies, PTL DEF TermsSpec
=============================================================================
