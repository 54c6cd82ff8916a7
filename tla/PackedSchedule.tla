--------------------------- MODULE PackedSchedule ---------------------------
(***************************************************************************)
(* PackedReadySchedule (packed_schedule.hpp): which node of a packed        *)
(* program may be evaluated next.  Every counter the class keeps is kept    *)
(* here, updated the way complete() updates it.                            *)
(***************************************************************************)
EXTENDS PackedProgram, FiniteSetsExt

CONSTANTS
  Programs,             \* the programs considered
  LiveLimits            \* values of the soft live-value limit, 0 = none

ASSUME ProgramsAssumption == \A p \in Programs : WellFormed(p)
ASSUME LimitsAssumption == LiveLimits \subseteq Nat

VARIABLES
  prog, limit,          \* the program being run and its live limit
  live,                 \* its live nodes
  pending,              \* operands of a node not yet done
  remainingUses,        \* uses of a value not yet done
  epochRemaining,       \* nodes of an epoch not yet done
  remaining,            \* nodes not yet done
  done,                 \* nodes done, dead ones included
  retained,             \* values still held
  ready,                \* nodes that may be evaluated now
  activeEpoch,
  liveValues, peakLive  \* number of retained values, and its maximum

counters == <<pending, remainingUses, epochRemaining, remaining, liveValues, peakLive>>
schedule == <<prog, limit, live, counters, done, retained, ready, activeEpoch>>

pinned == prog.outputs

(* activate_epoch: skip finished epochs, then admit what waits for nothing. *)
NextEpoch(left, from) ==
  LET open == {e \in DOMAIN left : e >= from /\ left[e] > 0}
  IN  IF open = {} THEN Cardinality(DOMAIN left) ELSE Min(open)
Admissible(p, finished, waits, epoch) ==
  {i \in Nodes(p) \ finished : EpochOf(p, i) = epoch /\ waits[i] = 0}

InitSchedule(p, lim) ==
  /\ prog = p /\ limit = lim
  /\ live = LiveNodes(p)
  /\ pending = [i \in Nodes(p) |-> IF i \in live THEN Len(p.parents[i]) ELSE 0]
  /\ remainingUses = [i \in Nodes(p) |-> Cardinality(UseEdges(p, live, i))]
  /\ epochRemaining = [e \in Epochs(p) |-> Cardinality({i \in live : EpochOf(p, i) = e})]
  /\ remaining = Cardinality(live)
  /\ done = Nodes(p) \ live
  /\ retained = {}
  /\ activeEpoch = NextEpoch(epochRemaining, 0)
  /\ ready = Admissible(p, done, pending, activeEpoch)
  /\ liveValues = 0 /\ peakLive = 0

(* select(): the oldest ready node, unless it does not fit and the live     *)
(* limit still allows to speculate on the oldest one that does.            *)
\* Wrong on purpose: always prefers a fitting node, even past the live limit
\* or before a ready feedback.
EagerSelection(fits) ==
  IF ready \cap fits # {} THEN Max(ready \cap fits) ELSE Min(ready)
Selection(fits) ==
  LET first == Min(ready)
  IN  IF \/ first \in fits
         \/ limit # 0 /\ liveValues >= limit
         \/ ready \cap fits = {}
      THEN first
      ELSE Min(ready \cap fits)

\* Wrong on purpose: forgets that program outputs are pinned.
ReleasableEvenOutputs(i, uses) == uses[i] = 0
Releasable(i, uses) == i \notin pinned /\ uses[i] = 0
FinalUse(parent, i) ==
  /\ parent \notin pinned
  /\ remainingUses[parent] = EdgesBetween(prog, parent, i)

(* complete(i) *)
Without(count, edges) == [c \in DOMAIN count |-> count[c] - edges[c]]

\* Wrong on purpose: x * x gives back one use of x instead of two.
UsesBySingleEdge(i) ==
  Without(remainingUses,
          [v \in Nodes(prog) |-> IF v \in Operands(prog, i) THEN 1 ELSE 0])
UsesAfter(i) ==
  Without(remainingUses, [v \in Nodes(prog) |-> EdgesBetween(prog, v, i)])

WaitsAfter(i) ==
  Without(pending,
          [c \in Nodes(prog) |-> IF c \in live THEN EdgesBetween(prog, i, c) ELSE 0])

\* Wrong on purpose: a node is admitted as soon as its operands are done.
FreedInAnyEpoch(i, waits) == {c \in Consumers(prog, live, i) : waits[c] = 0}
Freed(i, waits) ==
  {c \in Consumers(prog, live, i) : waits[c] = 0 /\ EpochOf(prog, c) = activeEpoch}

\* Wrong on purpose: the next epoch is not opened when the last node is done.
EpochNeverAdvances(left) == activeEpoch
EpochAfter(left) ==
  IF left[activeEpoch] = 0 THEN NextEpoch(left, activeEpoch) ELSE activeEpoch

Complete(i) ==
  /\ i \in ready
  /\ LET uses == UsesAfter(i)
         waits == WaitsAfter(i)
         left == [epochRemaining EXCEPT ![activeEpoch] = @ - 1]
         freed == {v \in Operands(prog, i) \cap retained : Releasable(v, uses)}
         epoch == EpochAfter(left)
         same == (ready \ {i}) \cup Freed(i, waits)
     IN  /\ remainingUses' = uses
         /\ pending' = waits
         /\ epochRemaining' = left
         /\ remaining' = remaining - 1
         /\ done' = done \cup {i}
         /\ retained' = (retained \cup {i}) \ freed
         /\ peakLive' = Max({peakLive, liveValues + 1})
         /\ liveValues' = liveValues + 1 - Cardinality(freed)
         /\ activeEpoch' = epoch
         /\ ready' = IF epoch = activeEpoch THEN same
                     ELSE same \cup Admissible(prog, done', waits, epoch)
  /\ UNCHANGED <<prog, limit, live>>

-----------------------------------------------------------------------------
(* The class on its own, under any predicate `fits` that holds of feedback  *)
(* nodes, as the evaluator's does.                                         *)

Init == \E p \in Programs, lim \in LiveLimits : InitSchedule(p, lim)

Next == \E fits \in SUBSET ready :
          /\ ready \cap Feedbacks(prog) \subseteq fits
          /\ ready # {}
          /\ Complete(Selection(fits))

Spec == Init /\ [][Next]_schedule

-----------------------------------------------------------------------------
(* Properties *)

NodesDone == done \cap live

(* Each counter says what it stands for: operands missing, uses to come,    *)
(* nodes left per epoch, values held; and ready_ is exactly the set of      *)
(* nodes of the active epoch whose operands are all done.                  *)
CountersExact ==
  /\ \A i \in live :
       pending[i] = Cardinality({k \in DOMAIN prog.parents[i] : prog.parents[i][k] \notin done})
  /\ \A i \in Nodes(prog) :
       remainingUses[i] = Cardinality({e \in UseEdges(prog, live, i) : e[1] \notin done})
  /\ \A e \in Epochs(prog) :
       epochRemaining[e] = Cardinality({i \in live \ done : EpochOf(prog, i) = e})
  /\ remaining = Cardinality(live \ done)
  /\ liveValues = Cardinality(retained)
  /\ ready = {i \in live \ done : /\ EpochOf(prog, i) = activeEpoch
                                  /\ Operands(prog, i) \subseteq done}

(* What is still needed is held: every done value that is an output or has  *)
(* an unfinished consumer is retained, and nothing else is.                 *)
RetainedIsNeeded ==
  retained = {i \in NodesDone : i \in pinned \/ ~(Consumers(prog, live, i) \subseteq done)}

(* A feedback is a barrier both ways: everything before it is done when it  *)
(* starts, and nothing after it starts before it is done.                   *)
FeedbackBarrier ==
  \A f \in Feedbacks(prog) \cap live :
    /\ f \in ready \cup done => \A i \in live : i < f => i \in done
    /\ f \notin done => \A i \in live : i > f => i \notin done

(* "packed frontier cannot advance" is never thrown: as long as nodes       *)
(* remain, one of them is ready.                                           *)
NeverStuck == remaining > 0 => ready # {}
=============================================================================
