-------------------------- MODULE PackedEvaluator --------------------------
(***************************************************************************)
(* PackedEvaluator::evaluate (packed_fideslib.cpp) with planned refresh:    *)
(* nodes are evaluated in file order or in the order of PackedReadySchedule, *)
(* operands that would run out of levels are bootstrapped first, alone or in *)
(* a batch with other values, dead operands of additions and products are    *)
(* overwritten in place, and Chebyshev bases are shared.                    *)
(*                                                                         *)
(* A ciphertext is [id, level, content]: the handle's identity, the levels  *)
(* it has consumed (-1 when fresh) and the node whose value it encrypts.    *)
(* Two nodes with one id share a ciphertext object.  The numbers inside are *)
(* abstracted to `content`; Garbage is what no node's value is.            *)
(***************************************************************************)
EXTENDS PackedSchedule, SequencesExt

CONSTANTS
  Modes,                \* [frontier, batch, reuse, share] combinations run
  Ceiling,              \* refresh_ceiling: 39, or 35 with S2C-first
  Refreshed,            \* refreshed_level: 22, or 18 with S2C-first
  Margin,               \* 6: how close to the ceiling a batch member must be
  SlotCount, MaxBatch,  \* slots of a ciphertext; 16 members of a batch
  CostOf                \* levels an operation consumes (packed_node_depth)

ASSUME LevelsAssumption == Refreshed \in Nat /\ Ceiling \in Nat /\ Refreshed < Ceiling
ASSUME CostAssumption ==
  /\ \A o \in DOMAIN Arity : CostOf[o] \in 0 .. (Ceiling - Refreshed)
  /\ CostOf["linear"] > 0         \* the output mask is part of it
  /\ CostOf["source"] = 0 /\ CostOf["alias"] = 0
ASSUME ModesAssumption == \A m \in Modes : m.frontier => m.batch

VARIABLES
  mode,
  refreshAfter,         \* nodes the planner refreshes as soon as computed
  values,               \* the ciphertext each node holds, or Null
  dirty,                \* nodes whose output mask was deferred
  bases,                \* per group of polynomials, the shared basis or NoBasis
  phase, current, position, \* where the loop body is, its node and operand
  refreshes             \* logical refreshes so far

evaluator == <<mode, refreshAfter, values, dirty, bases, phase, current, position, refreshes>>
allVars == <<schedule, evaluator>>

Fresh == -1
Garbage == -2
Null == [id |-> <<-1, -1>>, level |-> Fresh, content |-> Garbage]
Held == {i \in Nodes(prog) : values[i] # Null}

(* Polynomials of one operand (so of one size) over one normalization       *)
(* interval form a group.  A basis is made from a ciphertext for an interval. *)
KeyOf(c) == <<prog.parents[c][1], prog.interval[c]>>
BasisKeys == Nodes(prog) \X {prog.interval[c] : c \in Nodes(prog)}
NoBasis == [from |-> Null, interval |-> 0]

-----------------------------------------------------------------------------
(* Plans *)

(* The output mask of a linear node is left to its users when all of them   *)
(* are gathers; dead users count too, and an output keeps its mask.         *)
Defers(p, i) == /\ p.op[i] = "linear"
                /\ i \notin p.outputs
                /\ \A c \in Nodes(p) : i \in Operands(p, c) => p.op[c] = "gather"
Cost(p, i) == CostOf[p.op[i]] - (IF Defers(p, i) THEN 1 ELSE 0)

(* simulate_packed_depth predicts the refreshes of a run in file order.  Its   *)
(* state is the levels assigned so far and the refreshes counted.  An operand *)
(* is refreshed when the node it feeds would exhaust it.                    *)
FedBy(p, i, state, v) ==
  IF p.op[i] # "feedback" /\ state.levels[v] + Cost(p, i) > Ceiling
  THEN [levels |-> [state.levels EXCEPT ![v] = Refreshed], count |-> state.count + 1]
  ELSE state
\* The states while the operands of a node are looked at.
Fed(p, i, state) ==
  LET fed[k \in 0 .. Len(p.parents[i])] ==
        IF k = 0 THEN state ELSE FedBy(p, i, fed[k - 1], p.parents[i][k])
  IN  fed

PlannedLevel(p, i, levels) ==
  IF p.op[i] = "feedback" THEN Fresh
  ELSE Cost(p, i) + Max({Fresh} \cup {levels[v] : v \in Operands(p, i)})

\* Wrong on purpose: forgets the refreshes the planner hoisted.
SettledWithoutHoisting(i, hoisted, state, level) ==
  [levels |-> [state.levels EXCEPT ![i] = level], count |-> state.count]
Settled(i, hoisted, state, level) ==
  IF i \in hoisted /\ level > Refreshed
  THEN [levels |-> [state.levels EXCEPT ![i] = Refreshed], count |-> state.count + 1]
  ELSE [levels |-> [state.levels EXCEPT ![i] = level], count |-> state.count]

AfterNode(p, i, lv, hoisted, state) ==
  LET fed == Fed(p, i, state)[Len(p.parents[i])]
  IN  IF i \notin lv THEN state
      ELSE Settled(i, hoisted, fed, PlannedLevel(p, i, fed.levels))

\* The states before each node of the file and after the last.
Simulated(p, lv, hoisted) ==
  LET before[n \in 0 .. Cardinality(Nodes(p))] ==
        IF n = 0 THEN [levels |-> [i \in Nodes(p) |-> Fresh], count |-> 0]
        ELSE AfterNode(p, n - 1, lv, hoisted, before[n - 1])
  IN  before
Simulate(p, lv, hoisted) == Simulated(p, lv, hoisted)[Cardinality(Nodes(p))].count

(* The polynomials of a group share a basis when there are several. *)
ChebUsers(key) == {c \in live : prog.op[c] = "cheb" /\ KeyOf(c) = key}
SharesBasis(key) == mode.share /\ Cardinality(ChebUsers(key)) > 1

(* The last use of a value in file order; an output is used for ever. *)
LastUse(v) == IF v \in pinned THEN Cardinality(Nodes(prog))
              ELSE Max({0} \cup Consumers(prog, live, v))

EvalInit ==
  /\ Init
  /\ mode \in Modes
  /\ refreshAfter \in
       SUBSET {i \in live : ~mode.frontier /\ Cardinality(UseEdges(prog, live, i)) > 1}
  /\ values = [i \in Nodes(prog) |-> Null]
  /\ dirty = {}
  /\ bases = [key \in BasisKeys |-> NoBasis]
  /\ phase = "select" /\ current = 0 /\ position = 0
  /\ refreshes = 0

-----------------------------------------------------------------------------
(* Choosing the next node *)

Fits(i) == \/ prog.op[i] = "feedback"
           \/ \A v \in Operands(prog, i) : values[v].level + Cost(prog, i) <= Ceiling

NodeToRun == IF mode.frontier THEN Selection({i \in ready : Fits(i)})
             ELSE Min(live \ done)

(* select() throws "packed frontier cannot advance" when nothing is ready.  *)
SelectNode ==
  /\ phase = "select"
  /\ live \ done # {}
  /\ mode.frontier => ready # {}
  /\ current' = NodeToRun
  /\ phase' = "prepare"
  /\ position' = 1
  /\ UNCHANGED <<schedule, mode, refreshAfter, values, dirty, bases, refreshes>>

-----------------------------------------------------------------------------
(* refresh_value(requested, next): bootstrap one value, or a batch *)

NextUse(v, next) ==
  LET later == IF mode.frontier THEN Consumers(prog, live, v) \ done
               ELSE {c \in Consumers(prog, live, v) : c >= next}
  IN  IF later = {} THEN {} ELSE {Min(later)}

Occupied(group) == FoldSet(LAMBDA v, n : n + prog.size[v], 0, group)

(* What may ride along: held values with a use to come other than a         *)
(* feedback, at a level their next user cannot or can hardly afford.        *)
Companions(next) ==
  {v \in Held : \E use \in NextUse(v, next) :
     /\ prog.op[use] # "feedback"
     /\ values[v].level > Refreshed
     /\ \/ values[v].level >= Ceiling - Margin
        \/ values[v].level + Cost(prog, use) > Ceiling}

HasRoom(v, group) == /\ Cardinality(group) < MaxBatch
                     /\ Occupied(group) + prog.size[v] <= SlotCount

(* In node order a companion joins if there is room beside the value asked   *)
(* for and the companions before it.                                        *)
Fills(group, requested, next) ==
  /\ requested \in group
  /\ \A v \in Companions(next) \ {requested} :
       v \in group <=> HasRoom(v, {requested} \cup {u \in group : u < v})
Group(requested, next) ==
  IF ~mode.batch THEN {requested}
  ELSE CHOOSE group \in SUBSET (Companions(next) \cup {requested}) :
         Fills(group, requested, next)

(* clean() masks a lone value if it is dirty; refresh_group masks every      *)
(* member.  Bootstrapping coordinates that are not masked yields garbage.   *)
Masked(group) == IF Cardinality(group) = 1 THEN group \cap dirty ELSE group

RefreshValue(requested, next) ==
  LET group == Group(requested, next)
  IN  /\ values' = [v \in Nodes(prog) |->
           IF v \notin group THEN values[v]
           ELSE [id |-> <<v, refreshes + 1>>,
                 level |-> Refreshed,
                 content |-> IF v \in dirty \ Masked(group) THEN Garbage ELSE values[v].content]]
      /\ dirty' = dirty \ group
      /\ refreshes' = refreshes + Cardinality(group)

\* Wrong on purpose: tests the level the operand has, not the one it will reach.
NeedsRefreshLate(v, i) == prog.op[i] # "feedback" /\ values[v].level > Ceiling
NeedsRefresh(v, i) == prog.op[i] # "feedback" /\ values[v].level + Cost(prog, i) > Ceiling

PrepareOperand ==
  /\ phase = "prepare"
  /\ position \in DOMAIN prog.parents[current]
  /\ LET v == prog.parents[current][position]
     IN  IF NeedsRefresh(v, current) THEN RefreshValue(v, current)
         ELSE UNCHANGED <<values, dirty, refreshes>>
  /\ position' = position + 1
  /\ UNCHANGED <<schedule, mode, refreshAfter, bases, phase, current>>

Prepared ==
  /\ phase = "prepare"
  /\ position \notin DOMAIN prog.parents[current]
  /\ phase' = "operate"
  /\ UNCHANGED <<schedule, mode, refreshAfter, values, dirty, bases, current, position, refreshes>>

-----------------------------------------------------------------------------
(* The operation *)

(* The node whose value a held ciphertext must encrypt: an alias has that of *)
(* its operand, and an operand precedes its user.                          *)
AliasClosed(S) == \A j \in S : prog.op[j] = "alias" => prog.parents[j][1] \in S
AliasPath(i) == {v \in Nodes(prog) : \A S \in SUBSET Nodes(prog) :
                                       i \in S /\ AliasClosed(S) => v \in S}
Root(i) == IF prog.op[i] = "alias" THEN Min(AliasPath(i)) ELSE i

OutLevel(i) ==
  IF prog.op[i] \in {"source", "feedback"} THEN Fresh
  ELSE Max({values[v].level : v \in Operands(prog, i)}) + Cost(prog, i)

(* Every operand encrypts what it should; only a gather reads a dirty one.  *)
OperandsRight(i) ==
  \A v \in Operands(prog, i) : /\ values[v].content = Root(v)
                               /\ v \in dirty => prog.op[i] = "gather"

Result(i, id, right) ==
  [id |-> id, level |-> OutLevel(i), content |-> IF right THEN i ELSE Garbage]

IsLastUse(v, i) == IF mode.frontier THEN FinalUse(v, i) ELSE LastUse(v) = i

(* consume_or_clone: only the sole owner of a dead value gives it away.     *)
\* Wrong on purpose: a dying value is taken although another node aliases it.
TakesAliased(v, i) == IsLastUse(v, i)
\* Wrong on purpose: a sole owner is taken although a later node reads it.
TakesEarly(v, i) == \A u \in Held \ {v} : values[u].id # values[v].id
Takes(v, i) == /\ IsLastUse(v, i)
               /\ \A u \in Held \ {v} : values[u].id # values[v].id

NewId(i) == <<i, 0>>

(* add and mul with --reuse-dead-inputs: the left operand's object becomes  *)
(* the result when it can be taken, and a taken handle leaves its node.     *)
(* Whoever still shared a taken object would see it overwritten.           *)
ConsumeBinary(i) ==
  LET a == prog.parents[i][1]
      b == prog.parents[i][2]
      taken == {v \in {a, b} : Takes(v, i)}
      out == Result(i, IF a \in taken THEN values[a].id ELSE NewId(i), OperandsRight(i))
      touched == {values[v].id : v \in taken}
  IN  values' = [v \in Nodes(prog) |->
        IF v = i THEN out
        ELSE IF v \in taken THEN Null
        ELSE IF values[v].id \in touched THEN [values[v] EXCEPT !.content = Garbage]
        ELSE values[v]]

(* chebyshev(): the shared basis is rebuilt unless it was built from this   *)
(* very ciphertext at this level, and dropped after its last user.  Whether  *)
(* its interval is the node's own is not looked at.                         *)
BasisMatches(key) == LET v == key[1]
                     IN  /\ bases[key].from.id = values[v].id
                         /\ bases[key].from.level = values[v].level

EvaluateCheb(i) ==
  LET v == prog.parents[i][1]
      key == KeyOf(i)
      basis == IF SharesBasis(key) /\ BasisMatches(key) THEN bases[key]
               ELSE [from |-> values[v], interval |-> prog.interval[i]]
  IN  /\ values' = [values EXCEPT ![i] =
                      Result(i, NewId(i), OperandsRight(i)
                                          /\ basis.from.content = Root(v)
                                          /\ basis.from.level = values[v].level
                                          /\ basis.interval = prog.interval[i])]
      /\ bases' = [bases EXCEPT ![key] =
                     IF SharesBasis(key) /\ ~(ChebUsers(key) \subseteq done \cup {i})
                     THEN basis ELSE NoBasis]

Operate ==
  /\ phase = "operate"
  /\ \/ /\ prog.op[current] = "alias"
        /\ values' = [values EXCEPT ![current] = values[prog.parents[current][1]]]
        /\ UNCHANGED <<dirty, bases>>
     \/ /\ prog.op[current] \in {"add", "mul"} /\ mode.reuse
        /\ ConsumeBinary(current)
        /\ UNCHANGED <<dirty, bases>>
     \/ /\ prog.op[current] = "cheb"
        /\ EvaluateCheb(current)
        /\ UNCHANGED dirty
     \/ /\ \/ prog.op[current] \in {"source", "feedback", "gather", "linear"}
           \/ prog.op[current] \in {"add", "mul"} /\ ~mode.reuse
        /\ values' = [values EXCEPT ![current] =
                        Result(current, NewId(current), OperandsRight(current))]
        /\ dirty' = IF Defers(prog, current) THEN dirty \cup {current} ELSE dirty
        /\ UNCHANGED bases
  /\ phase' = "computed"
  /\ UNCHANGED <<schedule, mode, refreshAfter, current, position, refreshes>>

-----------------------------------------------------------------------------
(* After the operation: the planned refresh, then bookkeeping and release *)

RefreshResult ==
  /\ phase = "computed"
  /\ IF current \in refreshAfter /\ values[current].level > Refreshed
     THEN RefreshValue(current, current + 1)
     ELSE UNCHANGED <<values, dirty, refreshes>>
  /\ phase' = "finish"
  /\ UNCHANGED <<schedule, mode, refreshAfter, bases, current, position>>

FinishNode ==
  /\ phase = "finish"
  /\ IF mode.frontier THEN Complete(current)
     ELSE /\ done' = done \cup {current}
          /\ UNCHANGED <<prog, limit, live, counters, retained, ready, activeEpoch>>
  /\ values' = [v \in Nodes(prog) |->
                  IF /\ v \in Operands(prog, current)
                     /\ IF mode.frontier THEN Releasable(v, remainingUses')
                        ELSE LastUse(v) = current
                  THEN Null ELSE values[v]]
  /\ phase' = "select"
  /\ UNCHANGED <<mode, refreshAfter, dirty, bases, current, position, refreshes>>

(* evaluate() returns values[output] for every output. *)
Return ==
  /\ phase = "select"
  /\ live \subseteq done
  /\ phase' = "done"
  /\ UNCHANGED <<schedule, mode, refreshAfter, values, dirty, bases, current, position, refreshes>>

Returned == phase = "done" /\ UNCHANGED allVars

EvalNext == \/ SelectNode \/ PrepareOperand \/ Prepared \/ Operate
            \/ RefreshResult \/ FinishNode \/ Return \/ Returned

EvalSpec == EvalInit /\ [][EvalNext]_allVars /\ WF_allVars(EvalNext)

-----------------------------------------------------------------------------
(* Properties *)

EvalTypeOK ==
  /\ mode \in Modes
  /\ refreshAfter \subseteq live
  /\ \A i \in Nodes(prog) : /\ DOMAIN values[i] = {"id", "level", "content"}
                            /\ values[i].level \in Fresh .. Ceiling
  /\ dirty \subseteq live
  /\ phase \in {"select", "prepare", "operate", "computed", "finish", "done"}
  /\ refreshes \in Nat

(* Every ciphertext a node holds encrypts that node's own value: no shared  *)
(* object was overwritten, no stale basis was used, no unmasked coordinate  *)
(* was bootstrapped or read where zero padding is assumed.                  *)
ValuesRight == \A i \in Held : values[i].content = Root(i)

(* Between two nodes exactly the values still needed are held, in file       *)
(* order as in frontier order: no value is dropped before its last reader,  *)
(* none outlives it, and every output is there at the end.  While a node is  *)
(* prepared and computed, all its operands are there.                       *)
HeldIsNeeded ==
  /\ phase \in {"select", "done"} =>
       Held = {i \in done \cap live : \/ i \in pinned
                                     \/ ~(Consumers(prog, live, i) \subseteq done)}
  /\ phase \in {"prepare", "operate"} => Operands(prog, current) \subseteq Held

(* No operation is started on operands whose levels it would exhaust, no      *)
(* ciphertext is ever past the ceiling, and the other types hold.           *)
LevelBudget ==
  /\ EvalTypeOK
  /\ phase = "operate" =>
       \A v \in Operands(prog, current) :
         prog.op[current] # "feedback" => values[v].level + Cost(prog, current) <= Ceiling

(* In file order and without batches, the planner's simulation predicts     *)
(* exactly the refreshes made (planned_logical_refreshes).                  *)
PlanExact ==
  phase = "done" /\ ~mode.batch => refreshes = Simulate(prog, live, refreshAfter)

(* evaluate() returns: select() never finds the frontier empty before every *)
(* live node is evaluated, and no loop is repeated for ever.                *)
Evaluates == <>(phase = "done")
=============================================================================
