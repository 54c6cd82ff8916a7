------------------------ MODULE PackedEvaluatorProofs ------------------------
(***************************************************************************)
(* The evaluator computes the right values from the levels it has, for any   *)
(* programs, costs, ceilings, batches and modes.                            *)
(***************************************************************************)
EXTENDS PackedEvaluator, PackedScheduleProofs

Cipher == [id : Int \X Int, level : Fresh .. Ceiling, content : Int]
Basis == [from : Cipher, interval : Nat]

Busy == phase \in {"prepare", "operate", "computed", "finish"}
Computed == phase \in {"computed", "finish"}
(* What has a value by now, and what of it somebody still wants. *)
Evaluated == IF Computed THEN done \cup {current} ELSE done
Kept(finished) ==
  {i \in finished \cap live : i \in pinned \/ ~(Consumers(prog, live, i) \subseteq finished)}

EvalTyped ==
  /\ mode \in Modes /\ refreshAfter \subseteq live
  /\ values \in [Nodes(prog) -> Cipher] /\ bases \in [BasisKeys -> Basis]
  /\ dirty \subseteq {v \in live : Defers(prog, v)}
  /\ phase \in {"select", "prepare", "operate", "computed", "finish", "done"}
  /\ position \in Nat /\ refreshes \in Nat

(* Done nodes have done operands.  In frontier mode the schedule's own        *)
(* invariant holds, in file order the done nodes come first.                *)
Base ==
  /\ prog \in Programs /\ live = LiveNodes(prog)
  /\ done \subseteq Nodes(prog) /\ Nodes(prog) \ live \subseteq done
  /\ \A i \in done \cap live : Operands(prog, i) \subseteq done
Ordered == IF mode.frontier THEN IInv ELSE \A i \in done \cap live, j \in live \ done : i < j
CurrentIsNext ==
  Busy => /\ current \in live \ done /\ Operands(prog, current) \subseteq done
          /\ IF mode.frontier THEN current \in ready
             ELSE \A j \in live \ done : current <= j

(* Between nodes exactly what is kept is held; from the operation to the end  *)
(* of the node dead operands may be gone already or be there still.          *)
HeldInv ==
  /\ ~Computed => Held = Kept(done)
  /\ Computed => Kept(Evaluated) \subseteq Held /\ Held \subseteq Kept(done) \cup {current}

(* Operands that were looked at have the levels, also after later refreshes. *)
LevelsInv ==
  /\ phase = "prepare" =>
       \A k \in DOMAIN prog.parents[current] :
         k < position => ~NeedsRefresh(prog.parents[current][k], current)
  /\ phase = "operate" => \A v \in Operands(prog, current) : ~NeedsRefresh(v, current)
  /\ phase = "prepare" => position > 0

(* A refreshed ciphertext is a new object, no basis was built from it: so a   *)
(* basis with the identity of its operand's ciphertext is that ciphertext's.  *)
(* It is over the interval of its group, which no comparison ever looks at.   *)
IdsInv ==
  /\ \A v \in Nodes(prog) : /\ values[v].id[2] <= refreshes
                            /\ values[v] # Null => values[v].id # Null.id
  /\ \A k \in BasisKeys : bases[k].from.id[2] <= refreshes
BasisMade(k, basis) ==
  /\ basis.interval = k[2]
  /\ basis.from.id = values[k[1]].id => basis.from = values[k[1]]
BasesInv ==
  \A k \in BasisKeys : bases[k] # NoBasis =>
    /\ k[1] \in done
    /\ \E c \in ChebUsers(k) : c \notin Evaluated
    /\ BasisMade(k, bases[k])

EvalInv == /\ EvalTyped /\ Base /\ Ordered /\ CurrentIsNext
           /\ HeldInv /\ LevelsInv /\ IdsInv /\ BasesInv /\ ValuesRight

-----------------------------------------------------------------------------
(* Constants and programs *)

LEMMA LevelsTyped ==
  /\ Refreshed \in Nat /\ Ceiling \in Nat /\ Refreshed < Ceiling
  /\ Null \in Cipher /\ Garbage \in Int
  BY LevelsAssumption DEF Null, Cipher, Fresh, Garbage

LEMMA NoBasisTyped == NoBasis \in Basis
  BY LevelsTyped DEF NoBasis, Basis

LEMMA CostBounded ==
  ASSUME NEW p \in Programs, NEW i \in Nodes(p)
  PROVE  Cost(p, i) \in 0 .. (Ceiling - Refreshed)
  <1>1. p.op[i] \in DOMAIN Arity
    BY ProgramsAssumption DEF WellFormed
  <1>2. CostOf[p.op[i]] \in 0 .. (Ceiling - Refreshed)
    BY <1>1, CostAssumption
  <1>3. Defers(p, i) => CostOf[p.op[i]] > 0
    BY CostAssumption DEF Defers
  <1> QED BY <1>2, <1>3, LevelsAssumption DEF Cost

(* As many operands as the operation takes. *)
LEMMA OperandShape ==
  ASSUME NEW p \in Programs, NEW i \in Nodes(p)
  PROVE  /\ p.op[i] \in DOMAIN Arity
         /\ p.op[i] \in {"add", "mul"} =>
              /\ p.parents[i][1] \in Nodes(p) /\ p.parents[i][2] \in Nodes(p)
              /\ Operands(p, i) = {p.parents[i][1], p.parents[i][2]}
         /\ p.op[i] \in {"feedback", "alias", "gather", "linear", "cheb"} =>
              /\ p.parents[i][1] \in Nodes(p) /\ p.parents[i][1] < i
              /\ Operands(p, i) = {p.parents[i][1]}
  <1>1. /\ p.op[i] \in DOMAIN Arity
        /\ Len(p.parents[i]) = Arity[p.op[i]]
    BY ProgramsAssumption DEF WellFormed
  <1>2. /\ DOMAIN p.parents[i] = 1 .. Len(p.parents[i]) /\ Operands(p, i) \subseteq Nodes(p)
        /\ \A v \in Operands(p, i) : v < i
    BY ProgramShape
  <1>3. CASE p.op[i] \in {"add", "mul"}
    <2>1. DOMAIN p.parents[i] = {1, 2}
      BY <1>1, <1>2, <1>3 DEF Arity
    <2> QED BY <1>1, <1>2, <1>3, <2>1 DEF Operands
  <1>4. CASE p.op[i] \in {"feedback", "alias", "gather", "linear", "cheb"}
    <2>1. DOMAIN p.parents[i] = {1}
      BY <1>1, <1>2, <1>4 DEF Arity
    <2> QED BY <1>1, <1>2, <1>4, <2>1 DEF Operands
  <1>5. CASE p.op[i] = "source"
    BY <1>1, <1>5
  <1> QED BY <1>1, <1>3, <1>4, <1>5 DEF Arity

(* The root of an alias is that of its operand. *)
LEMMA RootOfAlias ==
  ASSUME prog \in Programs, NEW i \in Nodes(prog), prog.op[i] = "alias"
  PROVE  Root(i) = Root(prog.parents[i][1])
  <1> DEFINE p == prog.parents[i][1]
  <1>1. /\ p \in Nodes(prog) /\ p < i /\ Nodes(prog) \subseteq Nat
        /\ \A j \in Nodes(prog) : prog.op[j] = "alias" =>
             prog.parents[j][1] \in Nodes(prog) /\ prog.parents[j][1] < j
    BY OperandShape, ProgramShape
  <1>2. \A v \in AliasPath(p) : v \in AliasPath(i)
    BY DEF AliasPath, AliasClosed
  <1>3. i \in AliasPath(i) /\ p \in AliasPath(p)
    BY <1>1 DEF AliasPath
  <1>4. AliasPath(i) \subseteq {i} \cup AliasPath(p)
    <2> DEFINE S == {i} \cup AliasPath(p)
    <2>1. S \in SUBSET Nodes(prog)
      BY DEF AliasPath
    <2>2. ASSUME NEW j \in AliasPath(p), prog.op[j] = "alias"
          PROVE  prog.parents[j][1] \in AliasPath(p)
      BY <1>1, <2>2 DEF AliasPath, AliasClosed
    <2>3. AliasClosed(S)
      BY <1>3, <2>2 DEF AliasClosed
    <2> QED BY <2>1, <2>3 DEF AliasPath
  <1>5. \A v \in AliasPath(p) : v <= p
    <2> DEFINE S == {v \in Nodes(prog) : v <= p}
    <2>1. S \in SUBSET Nodes(prog) /\ p \in S
      BY <1>1
    <2>2. AliasClosed(S)
      BY <1>1 DEF AliasClosed
    <2> QED BY <2>1, <2>2 DEF AliasPath
  <1>6. Min(AliasPath(i)) = Min(AliasPath(p))
    <2>1. AliasPath(i) \subseteq Nat /\ AliasPath(p) \subseteq Nat
      BY <1>1 DEF AliasPath
    <2>2. Min(AliasPath(i)) \in AliasPath(i) /\ \A y \in AliasPath(i) : Min(AliasPath(i)) <= y
      BY <2>1, <1>3, LeastOf
    <2>3. Min(AliasPath(p)) \in AliasPath(p) /\ \A y \in AliasPath(p) : Min(AliasPath(p)) <= y
      BY <2>1, <1>3, LeastOf
    <2> HIDE DEF p
    <2>4. Min(AliasPath(i)) <= Min(AliasPath(p))
      BY <1>2, <2>2, <2>3
    <2>5. Min(AliasPath(i)) # i
      BY <1>1, <1>2, <1>3, <2>2, <2>1
    <2>6. Min(AliasPath(i)) \in AliasPath(p)
      BY <1>4, <2>2, <2>5
    <2> QED BY <2>1, <2>2, <2>3, <2>4, <2>6
  <1>7. prog.op[p] # "alias" => Min(AliasPath(p)) = p
    <2>1. SUFFICES ASSUME prog.op[p] # "alias" PROVE Min(AliasPath(p)) = p
      OBVIOUS
    <2>2. {p} \in SUBSET Nodes(prog) /\ AliasClosed({p})
      BY <1>1, <2>1 DEF AliasClosed
    <2>3. AliasPath(p) = {p}
      BY <2>2, <1>3 DEF AliasPath
    <2> QED BY <2>3 DEF Min
  <1> QED BY <1>6, <1>7 DEF Root

LEMMA RootIsNode ==
  ASSUME prog \in Programs, NEW i \in Nodes(prog)
  PROVE  Root(i) \in Nodes(prog) /\ Root(i) # Garbage
  <1>1. Nodes(prog) \subseteq Nat
    BY ProgramShape
  <1>2. AliasPath(i) \subseteq Nodes(prog) /\ i \in AliasPath(i)
    BY DEF AliasPath
  <1>3. Min(AliasPath(i)) \in AliasPath(i)
    BY <1>1, <1>2, LeastOf
  <1> QED BY <1>1, <1>2, <1>3 DEF Root, Garbage

-----------------------------------------------------------------------------
(* What is kept *)

(* Finishing the current node: it is kept itself, and of what was kept only   *)
(* those values go whose last reader it was.                                *)
LEMMA KeptAfter ==
  ASSUME Base, NEW i \in live \ done, Operands(prog, i) \subseteq done
  PROVE  /\ i \in Kept(done \cup {i}) /\ i \notin Kept(done) /\ i \notin Operands(prog, i)
         /\ Operands(prog, i) \subseteq Kept(done)
         /\ \A v : v \in Kept(done \cup {i}) <=>
              /\ v \in Kept(done) \cup {i}
              /\ ~(/\ v \in Operands(prog, i) /\ v \notin pinned
                   /\ Consumers(prog, live, v) \subseteq done \cup {i})
  <1>1. /\ live = LiveNodes(prog) /\ prog \in Programs
        /\ \A c \in done \cap live : i \notin Operands(prog, c)
    BY DEF Base
  <1>2. i \notin Operands(prog, i)
    OBVIOUS
  <1>3. i \in Kept(done \cup {i})
    <2>1. i \in pinned \/ \E c \in live : i \in Operands(prog, c)
      BY <1>1, LiveShape DEF pinned
    <2> QED BY <1>1, <1>2, <2>1 DEF Kept, Consumers
  <1>4. Operands(prog, i) \subseteq Kept(done)
    <2>1. Operands(prog, i) \subseteq live
      BY <1>1, LiveShape
    <2> QED BY <2>1 DEF Kept, Consumers
  <1>5. ASSUME NEW v, v # i
        PROVE  v \in Kept(done \cup {i}) <=>
                 /\ v \in Kept(done)
                 /\ ~(/\ v \in Operands(prog, i) /\ v \notin pinned
                      /\ Consumers(prog, live, v) \subseteq done \cup {i})
    BY <1>5 DEF Kept, Consumers
  <1>6. i \notin Kept(done)
    BY DEF Kept
  <1> QED BY <1>2, <1>3, <1>4, <1>5, <1>6

(* FinalUse and the last use in file order say what they are named for. *)
LEMMA LastUseMeans ==
  ASSUME Base, Ordered, CurrentIsNext, Busy, NEW v \in Operands(prog, current)
  PROVE  IsLastUse(v, current) <=>
           v \notin pinned /\ Consumers(prog, live, v) \subseteq done \cup {current}
  <1>1. /\ prog \in Programs /\ current \in live \ done /\ v \in Nodes(prog)
        /\ live \subseteq Nodes(prog) /\ Nodes(prog) \subseteq Nat
        /\ Nodes(prog) = 0 .. (Cardinality(Nodes(prog)) - 1)
        /\ Cardinality(Nodes(prog)) \in Nat
    BY LiveShape, ProgramShape, ProgramsAssumption, FS_CardinalityType
       DEF Base, CurrentIsNext, WellFormed
  <1>2. CASE mode.frontier
    <2>1. IInv /\ current \in ready
      BY <1>2 DEF Ordered, CurrentIsNext
    <2>2. /\ remainingUses[v] \in Nat /\ EdgesBetween(prog, v, current) \in Nat
          /\ UsesAfter(current)[v] = remainingUses[v] - EdgesBetween(prog, v, current)
          /\ UsesAfter(current)[v] = 0 <=> Consumers(prog, live, v) \subseteq done \cup {current}
      BY <1>1, <2>1, UsesAfterReady
    <2>3. remainingUses[v] = EdgesBetween(prog, v, current) <=>
            Consumers(prog, live, v) \subseteq done \cup {current}
      BY <2>2
    <2> QED BY <1>2, <2>3 DEF IsLastUse, FinalUse
  <1>3. CASE ~mode.frontier
    <2> DEFINE C == {0} \cup Consumers(prog, live, v)
    <2>1. /\ \A i \in done \cap live, j \in live \ done : i < j
          /\ \A j \in live \ done : current <= j
      BY <1>3 DEF Ordered, CurrentIsNext, Busy
    <2>2. current \in Consumers(prog, live, v) /\ C \subseteq Int /\ C # {}
      BY <1>1 DEF Consumers
    <2>3. \A c \in C : c <= Cardinality(Nodes(prog))
      BY <1>1 DEF Consumers
    <2>4. Max(C) \in C /\ \A c \in C : Max(C) >= c
      <3>1. C \subseteq Int /\ C # {} /\ Cardinality(Nodes(prog)) \in Int
        BY <1>1, <2>2
      <3> HIDE DEF C
      <3> QED BY <2>3, <3>1, GreatestOf
    <2>5. Max(C) = current <=> \A c \in Consumers(prog, live, v) : c <= current
      BY <1>1, <2>2, <2>4 DEF Consumers
    <2>6. ASSUME NEW c \in Consumers(prog, live, v)
          PROVE  c <= current <=> c \in done \cup {current}
      BY <1>1, <2>1, <2>6 DEF Consumers
    <2>7. Max(C) = current <=> Consumers(prog, live, v) \subseteq done \cup {current}
      BY <2>5, <2>6
    <2>8. current # Cardinality(Nodes(prog))
      BY <1>1
    <2> QED BY <1>3, <2>7, <2>8 DEF IsLastUse, LastUse
  <1> QED BY <1>2, <1>3
-----------------------------------------------------------------------------
(* Refreshes *)

(* Going through the companions in node order ends with a group: the least    *)
(* node up to which none existed would be one step after one that did.      *)
LEMMA SomethingFills ==
  ASSUME prog \in Programs, NEW requested \in Nodes(prog), NEW next
  PROVE  \E group \in SUBSET (Companions(next) \cup {requested}) : Fills(group, requested, next)
  <1> DEFINE C == Companions(next) \ {requested}
             Before(g, v) == {requested} \cup {u \in g : u < v}
             UpTo(g, n) == /\ requested \in g
                           /\ \A v \in g \ {requested} : v < n
                           /\ \A v \in C : v < n => (v \in g <=> HasRoom(v, Before(g, v)))
             Some(n) == \E g \in SUBSET (C \cup {requested}) : UpTo(g, n)
  <1>1. C \subseteq Nat /\ requested \in Nat /\ requested \notin C
    BY ProgramShape DEF Companions, Held
  <1>2. Some(0)
    <2>1. {requested} \in SUBSET (C \cup {requested}) /\ UpTo({requested}, 0)
      BY <1>1
    <2> QED BY <2>1
  <1>3. ASSUME NEW n \in Nat, Some(n) PROVE Some(n + 1)
    <2>1. PICK g \in SUBSET (C \cup {requested}) : UpTo(g, n)
      BY <1>3
    <2> DEFINE h == IF n \in C /\ HasRoom(n, Before(g, n)) THEN g \cup {n} ELSE g
    <2>2. h \in SUBSET (C \cup {requested}) /\ requested \in h
      BY <2>1
    <2>3. \A v \in h \ {requested} : v < n + 1
      BY <1>1, <2>1
    <2>4. ASSUME NEW v \in C, v < n + 1
          PROVE  Before(h, v) = Before(g, v)
      BY <1>1, <2>1, <2>4
    <2>5. ASSUME NEW v \in C, v < n
          PROVE  v \in h <=> HasRoom(v, Before(h, v))
      <3>1. v \in h <=> v \in g
        BY <1>1, <2>5
      <3>2. Before(h, v) = Before(g, v)
        BY <1>1, <2>4, <2>5
      <3>3. v \in g <=> HasRoom(v, Before(g, v))
        BY <2>1, <2>5
      <3> QED BY <3>1, <3>2, <3>3
    <2>6. ASSUME n \in C
          PROVE  n \in h <=> HasRoom(n, Before(h, n))
      <3>1. n \notin g
        BY <1>1, <2>1, <2>6
      <3>2. Before(h, n) = Before(g, n)
        BY <1>1, <2>4, <2>6
      <3> QED BY <2>6, <3>1, <3>2
    <2>7. \A v \in C : v < n + 1 => v < n \/ v = n
      BY <1>1
    <2>8. UpTo(h, n + 1)
      <3> HIDE DEF h, Before, C
      <3> QED BY <2>2, <2>3, <2>5, <2>6, <2>7
    <2> HIDE DEF h, UpTo
    <2> QED BY <2>2, <2>8
  <1>4. \A n \in Nat : Some(n)
    <2> DEFINE Bad == {n \in Nat : ~Some(n)}
    <2>1. SUFFICES ASSUME Bad # {} PROVE FALSE
      OBVIOUS
    <2> HIDE DEF Some
    <2>2. Min(Bad) \in Bad /\ \A y \in Bad : Min(Bad) <= y
      <3>1. Bad \subseteq Nat
        OBVIOUS
      <3> HIDE DEF Bad
      <3> QED BY <2>1, <3>1, LeastOf
    <2> DEFINE m == Min(Bad)
    <2>3. m \in Nat /\ ~Some(m) /\ \A y \in Nat : ~Some(y) => m <= y
      BY <2>2
    <2> HIDE DEF m, Bad
    <2>4. m # 0
      BY <1>2, <2>3
    <2>5. m - 1 \in Nat /\ (m - 1) + 1 = m /\ ~(m <= m - 1)
      BY <2>3, <2>4
    <2>6. Some(m - 1)
      BY <2>3, <2>5
    <2> QED BY <1>3, <2>3, <2>5, <2>6
  <1> DEFINE N == Cardinality(Nodes(prog))
  <1>5. N \in Nat /\ \A v \in C : v < N
    <2>1. N \in Nat /\ Nodes(prog) = 0 .. (N - 1)
      BY ProgramsAssumption, FS_CardinalityType DEF WellFormed
    <2> QED BY <2>1 DEF Companions, Held
  <1>6. PICK g \in SUBSET (C \cup {requested}) : UpTo(g, N)
    <2> HIDE DEF UpTo, N
    <2> QED BY <1>4, <1>5
  <1>7. Fills(g, requested, next)
    <2> HIDE DEF N
    <2> QED BY <1>5, <1>6 DEF Fills
  <1> QED BY <1>6, <1>7

LEMMA GroupShape ==
  ASSUME prog \in Programs, NEW requested \in Held, NEW next
  PROVE  /\ requested \in Group(requested, next)
         /\ Group(requested, next) \subseteq Held
         /\ Cardinality(Group(requested, next)) \in Nat \ {0}
  <1>1. IsFiniteSet(Held) /\ requested \in Nodes(prog)
    BY ProgramShape, FS_Subset DEF Held
  <1>2. requested \in Group(requested, next) /\ Group(requested, next) \subseteq Held
    <2>1. CASE ~mode.batch
      BY <2>1 DEF Group
    <2>2. CASE mode.batch
      <3>1. /\ Group(requested, next) \subseteq Companions(next) \cup {requested}
            /\ Fills(Group(requested, next), requested, next)
        BY <1>1, <2>2, SomethingFills DEF Group
      <3> QED BY <3>1 DEF Companions, Fills
    <2> QED BY <2>1, <2>2
  <1>3. IsFiniteSet(Group(requested, next))
    BY <1>1, <1>2, FS_Subset
  <1> QED BY <1>2, <1>3, EmptyIffZero

(* What a refresh may do to the handles: some held ones become new objects at *)
(* the refreshed level with the content they had.                           *)
RefreshedOrSame ==
  /\ values' \in [Nodes(prog) -> Cipher]
  /\ refreshes' \in Nat /\ refreshes <= refreshes' /\ dirty' \subseteq dirty
  /\ \A v \in Nodes(prog) :
       \/ values'[v] = values[v]
       \/ /\ values[v] # Null /\ values'[v].id # Null.id
          /\ values'[v].level = Refreshed /\ values'[v].content = values[v].content
          /\ refreshes < values'[v].id[2] /\ values'[v].id[2] <= refreshes'

(* NeedsRefresh of the same node with the handles of the next state. *)
StillNeeds(v, i) == prog.op[i] # "feedback" /\ values'[v].level + Cost(prog, i) > Ceiling

LEMMA RefreshShape ==
  ASSUME EvalTyped, prog \in Programs, NEW requested \in Held, NEW next,
         RefreshValue(requested, next)
  PROVE  RefreshedOrSame /\ values'[requested].level = Refreshed
  <1> DEFINE G == Group(requested, next)
  <1>1. requested \in G /\ G \subseteq Held /\ Cardinality(G) \in Nat \ {0}
    BY GroupShape
  <1>2. /\ values \in [Nodes(prog) -> Cipher] /\ refreshes \in Nat
        /\ Nodes(prog) \subseteq Nat /\ Held \subseteq Nodes(prog)
        /\ Refreshed \in Fresh .. Ceiling
    BY ProgramShape, LevelsTyped DEF EvalTyped, Held, Fresh
  <1>3. refreshes' = refreshes + Cardinality(G) /\ dirty' = dirty \ G
    BY DEF RefreshValue
  <1>4. ASSUME NEW v \in G
        PROVE  /\ v \in Nodes(prog) /\ v \notin dirty \ Masked(G)
               /\ values'[v] = [id |-> <<v, refreshes + 1>>, level |-> Refreshed,
                                content |-> values[v].content]
    <2>1. v \in Nodes(prog) /\ v \notin dirty \ Masked(G)
      BY <1>1, <1>2 DEF Masked
    <2> QED BY <2>1 DEF RefreshValue
  <1>5. ASSUME NEW v \in Nodes(prog), v \notin G
        PROVE  values'[v] = values[v]
    BY <1>5 DEF RefreshValue
  <1>6. ASSUME NEW v \in G
        PROVE  /\ values[v] # Null /\ values'[v].id # Null.id /\ values'[v] \in Cipher
               /\ values'[v].level = Refreshed /\ values'[v].content = values[v].content
               /\ refreshes < values'[v].id[2] /\ values'[v].id[2] <= refreshes'
    <2>0. values'[v] = [id |-> <<v, refreshes + 1>>, level |-> Refreshed,
                        content |-> values[v].content]
      BY ONLY <1>4, v \in G
    <2>1. v \in Nat /\ values[v] \in Cipher /\ values[v] # Null
      BY <1>1, <1>2 DEF Held
    <2>2. values[v].content \in Int
      BY <2>1 DEF Cipher
    <2> DEFINE id == <<v, refreshes + 1>>
    <2>3. values'[v].id = id /\ id \in Int \X Int
      <3>1. values'[v].id = id
        BY <2>0
      <3>2. v \in Int /\ refreshes + 1 \in Int
        BY <1>2, <2>1
      <3> QED BY <3>1, <3>2
    <2>4. values'[v] \in Cipher
      <3>1. values'[v] = [id |-> id, level |-> Refreshed, content |-> values[v].content]
        BY <2>0
      <3> HIDE DEF id
      <3> QED BY <1>2, <2>2, <2>3, <3>1 DEF Cipher
    <2>5. Null.id = <<-1, -1>>
      BY DEF Null
    <2>6. values'[v].id[1] = v /\ values'[v].id[2] = refreshes + 1
      BY <2>3
    <2>7. values'[v].id # Null.id
      BY <2>1, <2>5, <2>6
    <2>8. values'[v].level = Refreshed /\ values'[v].content = values[v].content
      BY <2>0
    <2>9. refreshes < refreshes + 1 /\ refreshes + 1 <= refreshes'
      <3> DEFINE n == Cardinality(G)
      <3>1. n \in Nat /\ n # 0 /\ refreshes \in Nat /\ refreshes' = refreshes + n
        BY <1>1, <1>2, <1>3
      <3> HIDE DEF n
      <3> QED BY <3>1
    <2> QED BY <2>1, <2>4, <2>6, <2>7, <2>8, <2>9
  <1>7. values' \in [Nodes(prog) -> Cipher]
    <2>1. \A v \in Nodes(prog) : values'[v] \in Cipher
      BY <1>2, <1>5, <1>6
    <2>2. DOMAIN values' = Nodes(prog) /\ values' = [v \in Nodes(prog) |-> values'[v]]
      BY DEF RefreshValue
    <2> QED BY <2>1, <2>2
  <1>8. refreshes' \in Nat /\ refreshes <= refreshes'
    <2> HIDE DEF G
    <2> QED BY <1>1, <1>2, <1>3
  <1> HIDE DEF G
  <1> QED BY <1>1, <1>3, <1>5, <1>6, <1>7, <1>8 DEF RefreshedOrSame

LEMMA SameShape ==
  ASSUME EvalTyped, UNCHANGED <<values, dirty, refreshes>>
  PROVE  RefreshedOrSame
  BY DEF EvalTyped, RefreshedOrSame

(* Nothing but the evaluator's own variables changes. *)
LEMMA Frame ==
  ASSUME Base, Ordered, UNCHANGED <<schedule, mode>>
  PROVE  /\ Base' /\ Ordered'
         /\ prog' = prog /\ live' = live /\ done' = done /\ ready' = ready /\ pinned' = pinned
         /\ \A v : Root(v)' = Root(v)
  <1>1. /\ prog' = prog /\ live' = live /\ done' = done /\ ready' = ready /\ mode' = mode
        /\ UNCHANGED schedule
    BY DEF schedule
  <1>2. Base'
    BY <1>1 DEF Base
  <1>3. Ordered'
    <2>1. CASE mode.frontier
      BY <1>1, <2>1, StutterIInv DEF Ordered
    <2>2. CASE ~mode.frontier
      BY <1>1, <2>2 DEF Ordered
    <2> QED BY <2>1, <2>2
  <1>4. \A v : Root(v)' = Root(v)
    BY <1>1 DEF Root, AliasPath, AliasClosed
  <1> QED BY <1>1, <1>2, <1>3, <1>4 DEF pinned

(* A refresh keeps everything: what is held, the values, the bases, and the   *)
(* operands that were looked at before.                                     *)
LEMMA RefreshKeeps ==
  ASSUME EvalInv, RefreshedOrSame,
         UNCHANGED <<schedule, mode, refreshAfter, bases, current>>, Evaluated' = Evaluated
  PROVE  /\ Held' = Held /\ ValuesRight' /\ IdsInv' /\ BasesInv'
         /\ \A v, i \in Nodes(prog) : ~NeedsRefresh(v, i) => ~StillNeeds(v, i)
  <1>1. /\ prog' = prog /\ live' = live /\ done' = done /\ bases' = bases
        /\ \A v : Root(v)' = Root(v)
    BY Frame DEF EvalInv
  <1>2. /\ values \in [Nodes(prog) -> Cipher] /\ values' \in [Nodes(prog) -> Cipher]
        /\ bases \in [BasisKeys -> Basis] /\ refreshes \in Nat /\ refreshes' \in Nat
        /\ prog \in Programs
    BY DEF EvalInv, EvalTyped, RefreshedOrSame, Base
  <1>3. \A v \in Nodes(prog) : values[v] # Null <=> values'[v] # Null
    BY DEF RefreshedOrSame
  <1>4. Held' = Held
    BY <1>1, <1>3 DEF Held
  <1>5. ValuesRight'
    <2>1. SUFFICES ASSUME NEW v \in Held PROVE values'[v].content = Root(v)
      BY <1>1, <1>4 DEF ValuesRight
    <2>2. values[v].content = Root(v) /\ v \in Nodes(prog)
      BY DEF EvalInv, ValuesRight, Held
    <2> QED BY <2>2 DEF RefreshedOrSame
  <1>6. IdsInv'
    <2>1. refreshes <= refreshes'
      BY DEF RefreshedOrSame
    <2>2. ASSUME NEW v \in Nodes(prog)
          PROVE  /\ values'[v].id[2] <= refreshes'
                 /\ values'[v] # Null => values'[v].id # Null.id
      <3>1. /\ values[v].id[2] \in Int /\ values'[v].id[2] \in Int
            /\ values[v].id[2] <= refreshes
            /\ values[v] # Null => values[v].id # Null.id
        BY <1>2 DEF EvalInv, IdsInv, Cipher
      <3> QED BY <1>2, <2>1, <3>1 DEF RefreshedOrSame
    <2>3. ASSUME NEW k \in BasisKeys PROVE bases[k].from.id[2] <= refreshes'
      <3>1. bases[k].from.id[2] \in Int /\ bases[k].from.id[2] <= refreshes
        BY <1>2 DEF EvalInv, IdsInv, Cipher, Basis
      <3> QED BY <1>2, <2>1, <3>1
    <2> QED BY <1>1, <2>2, <2>3 DEF IdsInv, Null, BasisKeys
  <1>7. BasesInv'
    <2>1. SUFFICES ASSUME NEW k \in BasisKeys, bases[k] # NoBasis
                   PROVE  /\ k[1] \in done /\ \E c \in ChebUsers(k) : c \notin Evaluated
                          /\ bases[k].interval = k[2]
                          /\ bases[k].from.id = values'[k[1]].id =>
                               bases[k].from = values'[k[1]]
      BY <1>1 DEF BasesInv, BasisMade, ChebUsers, KeyOf, BasisKeys, NoBasis, Null
    <2>2. /\ k[1] \in done /\ \E c \in ChebUsers(k) : c \notin Evaluated
          /\ bases[k].interval = k[2]
          /\ bases[k].from.id = values[k[1]].id => bases[k].from = values[k[1]]
          /\ k[1] \in Nodes(prog)
      BY <2>1 DEF EvalInv, BasesInv, BasisMade, BasisKeys
    <2>3. /\ bases[k].from.id[2] <= refreshes /\ bases[k].from.id[2] \in Int
          /\ values'[k[1]].id[2] \in Int
      BY <1>2, <2>2 DEF EvalInv, IdsInv, Basis, Cipher
    <2>4. refreshes < values'[k[1]].id[2] => bases[k].from.id # values'[k[1]].id
      BY <1>2, <2>3
    <2> QED BY <2>2, <2>4 DEF RefreshedOrSame
  <1>8. ASSUME NEW v \in Nodes(prog), NEW i \in Nodes(prog), ~NeedsRefresh(v, i)
        PROVE  ~StillNeeds(v, i)
    <2>1. Refreshed + Cost(prog, i) <= Ceiling
      BY <1>2, CostBounded, LevelsTyped
    <2>2. prog.op[i] = "feedback" \/ ~(values[v].level + Cost(prog, i) > Ceiling)
      BY <1>8 DEF NeedsRefresh
    <2>3. prog.op[i] = "feedback" \/ ~(values'[v].level + Cost(prog, i) > Ceiling)
      <3>1. values'[v] = values[v] \/ values'[v].level = Refreshed
        BY DEF RefreshedOrSame
      <3>2. Cost(prog, i) \in Int /\ Refreshed \in Int /\ Ceiling \in Int
        BY <1>2, CostBounded, LevelsTyped
      <3> QED BY <2>1, <2>2, <3>1, <3>2
    <2> QED BY <2>3 DEF StillNeeds
  <1> QED BY <1>4, <1>5, <1>6, <1>7, <1>8

-----------------------------------------------------------------------------
(* The steps around the operation *)

LEMMA OperandsHeld ==
  ASSUME EvalInv, Busy
  PROVE  /\ prog \in Programs /\ live = LiveNodes(prog) /\ live \subseteq Nodes(prog)
         /\ current \in live \ done /\ current \in Nodes(prog)
         /\ Operands(prog, current) \subseteq done /\ Operands(prog, current) \subseteq Nodes(prog)
         /\ ~Computed => Operands(prog, current) \subseteq Held /\ current \notin Held
         /\ Computed => current \in Held
  <1>1. /\ prog \in Programs /\ live = LiveNodes(prog)
        /\ current \in live \ done /\ Operands(prog, current) \subseteq done
    BY DEF EvalInv, Base, CurrentIsNext
  <1>2. live \subseteq Nodes(prog) /\ Operands(prog, current) \subseteq Nodes(prog)
    BY <1>1, LiveShape, ProgramShape
  <1>3. /\ current \in Kept(done \cup {current}) /\ current \notin Kept(done)
        /\ Operands(prog, current) \subseteq Kept(done)
    BY <1>1, KeptAfter DEF EvalInv
  <1> QED BY <1>1, <1>2, <1>3 DEF EvalInv, HeldInv, Evaluated

LEMMA SelectStep == ASSUME EvalInv, SelectNode PROVE EvalInv'
  <1>1. /\ phase = "select" /\ phase' = "prepare" /\ position' = 1 /\ current' = NodeToRun
        /\ UNCHANGED <<schedule, mode, refreshAfter, values, dirty, bases, refreshes>>
        /\ live \ done # {} /\ (mode.frontier => ready # {})
    BY DEF SelectNode
  <1>2. /\ Base' /\ Ordered' /\ prog' = prog /\ live' = live /\ done' = done /\ ready' = ready
        /\ pinned' = pinned /\ \A v : Root(v)' = Root(v)
    BY <1>1, Frame DEF EvalInv
  <1>3. CurrentIsNext'
    <2>1. /\ prog \in Programs /\ live = LiveNodes(prog) /\ live \subseteq Nodes(prog)
          /\ Nodes(prog) \subseteq Nat
      BY LiveShape, ProgramShape DEF EvalInv, Base
    <2>2. CASE mode.frontier
      <3>1. IInv /\ ready # {}
        BY <1>1, <2>2 DEF EvalInv, Ordered
      <3>2. /\ ready \subseteq live \ done /\ ready \subseteq Nat
            /\ \A i \in ready : Operands(prog, i) \subseteq done
        BY <2>1, <3>1 DEF IInv, ReadyExact, Undone
      <3>3. NodeToRun \in ready
        <4>1. Min(ready) \in ready
          BY <3>1, <3>2, LeastOf
        <4> DEFINE fits == {i \in ready : Fits(i)}
        <4>2. ready \cap fits # {} => Min(ready \cap fits) \in ready \cap fits
          <5>1. ready \cap fits \subseteq Nat
            BY <3>2
          <5> QED BY <5>1, LeastOf
        <4> QED BY <2>2, <4>1, <4>2 DEF NodeToRun, Selection
      <3> QED BY <1>1, <1>2, <2>2, <3>2, <3>3 DEF CurrentIsNext
    <2>3. CASE ~mode.frontier
      <3>1. live \ done \subseteq Nat /\ NodeToRun = Min(live \ done)
        BY <2>1, <2>3 DEF NodeToRun
      <3>2. NodeToRun \in live \ done /\ \A j \in live \ done : NodeToRun <= j
        BY <1>1, <3>1, LeastOf
      <3>3. Operands(prog, NodeToRun) \subseteq done
        <4>1. ASSUME NEW v \in Operands(prog, NodeToRun), v \notin done PROVE FALSE
          <5>1. v \in live /\ v < NodeToRun /\ v \in Nat /\ NodeToRun \in Nat
            BY <2>1, <3>1, <3>2, LiveShape, ProgramShape
          <5>2. NodeToRun <= v
            BY <3>2, <4>1, <5>1
          <5> QED BY <5>1, <5>2
        <4> QED BY <4>1
      <3> QED BY <1>1, <1>2, <2>3, <3>2, <3>3 DEF CurrentIsNext
    <2> QED BY <2>2, <2>3
  <1>4. EvalTyped'
    BY <1>1, <1>2 DEF EvalInv, EvalTyped, BasisKeys
  <1>5. ~Computed /\ ~Computed' /\ Evaluated' = Evaluated
    BY <1>1, <1>2 DEF Computed, Evaluated
  <1>6. HeldInv'
    BY <1>1, <1>2, <1>5 DEF EvalInv, HeldInv, Held, Kept, Null
  <1>7. LevelsInv'
    <2>1. \A k \in DOMAIN prog.parents[current'] : ~(k < 1)
      <3>1. current' \in Nodes(prog) /\ prog \in Programs
        BY <1>1, <1>2, <1>3, LiveShape DEF CurrentIsNext, Busy, EvalInv, Base
      <3> QED BY <3>1, ProgramShape
    <2> QED BY <1>1, <1>2, <2>1 DEF LevelsInv
  <1>8. IdsInv' /\ BasesInv' /\ ValuesRight'
    BY <1>1, <1>2, <1>5 DEF EvalInv, IdsInv, BasesInv, ValuesRight, Held, Null, ChebUsers,
                       KeyOf, BasisKeys, NoBasis, BasisMade
  <1> QED BY <1>2, <1>3, <1>4, <1>6, <1>7, <1>8 DEF EvalInv

(* A step that may refresh, stays at the current node and does not operate. *)
LEMMA WaitingStep ==
  ASSUME EvalInv, Busy, RefreshedOrSame, phase' \in {"prepare", "operate", "finish"},
         Computed' = Computed, position' \in Nat,
         UNCHANGED <<schedule, mode, refreshAfter, bases, current>>,
         LevelsInv'
  PROVE  EvalInv'
  <1>1. /\ Base' /\ Ordered' /\ prog' = prog /\ live' = live /\ done' = done /\ ready' = ready
        /\ pinned' = pinned
    BY Frame DEF EvalInv
  <1>2. Evaluated' = Evaluated
    BY <1>1 DEF Evaluated
  <1>3. Held' = Held /\ ValuesRight' /\ IdsInv' /\ BasesInv'
    BY <1>2, RefreshKeeps
  <1>4. EvalTyped'
    BY <1>1 DEF EvalInv, EvalTyped, RefreshedOrSame, BasisKeys
  <1>5. CurrentIsNext'
    BY <1>1 DEF EvalInv, CurrentIsNext
  <1>6. HeldInv'
    BY <1>1, <1>2, <1>3 DEF EvalInv, HeldInv, Kept
  <1> QED BY <1>1, <1>3, <1>4, <1>5, <1>6 DEF EvalInv

LEMMA PrepareOperandStep == ASSUME EvalInv, PrepareOperand PROVE EvalInv'
  <1> DEFINE v == prog.parents[current][position]
  <1>1. /\ phase = "prepare" /\ position \in DOMAIN prog.parents[current]
        /\ IF NeedsRefresh(v, current) THEN RefreshValue(v, current)
           ELSE UNCHANGED <<values, dirty, refreshes>>
        /\ position' = position + 1
        /\ UNCHANGED <<schedule, mode, refreshAfter, bases, phase, current>>
    BY DEF PrepareOperand
  <1>2. Busy /\ ~Computed /\ Computed' = Computed
    BY <1>1 DEF Busy, Computed
  <1>3. /\ prog \in Programs /\ current \in Nodes(prog) /\ v \in Held /\ v \in Nodes(prog)
        /\ Operands(prog, current) \subseteq Nodes(prog)
        /\ position \in Nat /\ EvalTyped
        /\ prog' = prog /\ done' = done
    <2>1. v \in Operands(prog, current)
      BY <1>1 DEF Operands
    <2> QED BY <1>1, <1>2, <2>1, OperandsHeld, Frame DEF EvalInv, EvalTyped
  <1>4. RefreshedOrSame /\ (NeedsRefresh(v, current) => values'[v].level = Refreshed)
    BY <1>1, <1>3, RefreshShape, SameShape
  <1>5. ~StillNeeds(v, current)
    <2>1. Refreshed + Cost(prog, current) <= Ceiling
      BY <1>3, CostBounded, LevelsTyped
    <2>2. Evaluated' = Evaluated
      BY <1>1, <1>2, <1>3 DEF Evaluated
    <2>3. \A u, i \in Nodes(prog) : ~NeedsRefresh(u, i) => ~StillNeeds(u, i)
      BY <1>1, <1>4, <2>2, RefreshKeeps
    <2>4. CASE ~NeedsRefresh(v, current)
      BY <1>3, <2>3, <2>4
    <2>5. CASE NeedsRefresh(v, current)
      <3>1. ~(values'[v].level + Cost(prog, current) > Ceiling)
        <4>1. Cost(prog, current) \in Int /\ Refreshed \in Int /\ Ceiling \in Int
          BY <1>3, CostBounded, LevelsTyped
        <4>2. values'[v].level = Refreshed
          BY <1>4, <2>5
        <4> QED BY <2>1, <4>1, <4>2
      <3> QED BY <3>1 DEF StillNeeds
    <2> QED BY <2>4, <2>5
  <1>6. LevelsInv'
    <2>1. ASSUME NEW k \in DOMAIN prog.parents[current], k < position + 1
          PROVE  ~StillNeeds(prog.parents[current][k], current)
      <3>1. k \in Nat /\ prog.parents[current][k] \in Nodes(prog)
        BY <1>3, ProgramShape DEF Operands
      <3>2. CASE k = position
        BY <1>5, <3>2
      <3>3. CASE k < position
        <4>1. ~NeedsRefresh(prog.parents[current][k], current)
          BY <1>1, <3>3 DEF EvalInv, LevelsInv
        <4>2. Evaluated' = Evaluated
          BY <1>1, <1>2, <1>3 DEF Evaluated
        <4> QED BY <1>1, <1>3, <1>4, <3>1, <4>1, <4>2, RefreshKeeps
      <3> QED BY <1>3, <2>1, <3>1, <3>2, <3>3
    <2>2. \A k \in DOMAIN prog.parents[current] : k < position + 1 =>
            ~(prog.op[current] # "feedback"
              /\ values'[prog.parents[current][k]].level + Cost(prog, current) > Ceiling)
      BY <2>1 DEF StillNeeds
    <2> QED BY <1>1, <1>3, <2>2 DEF LevelsInv, NeedsRefresh
  <1> HIDE DEF v
  <1> QED BY <1>1, <1>2, <1>3, <1>4, <1>6, WaitingStep

LEMMA PreparedStep == ASSUME EvalInv, Prepared PROVE EvalInv'
  <1>1. /\ phase = "prepare" /\ phase' = "operate"
        /\ position \notin DOMAIN prog.parents[current]
        /\ UNCHANGED <<schedule, mode, refreshAfter, values, dirty, bases,
                       current, position, refreshes>>
    BY DEF Prepared
  <1>2. Busy /\ Computed' = Computed
    BY <1>1 DEF Busy, Computed
  <1>3. /\ prog \in Programs /\ current \in Nodes(prog) /\ prog' = prog
        /\ position \in Nat /\ position > 0 /\ EvalTyped
        /\ \A k \in DOMAIN prog.parents[current] :
             k < position => ~NeedsRefresh(prog.parents[current][k], current)
    BY <1>1, <1>2, OperandsHeld, Frame DEF EvalInv, EvalTyped, LevelsInv
  <1>4. \A k \in DOMAIN prog.parents[current] : k < position
    <2>1. DOMAIN prog.parents[current] = 1 .. Len(prog.parents[current])
          /\ Len(prog.parents[current]) \in Nat
      BY <1>3, ProgramShape
    <2> QED BY <1>1, <1>3, <2>1
  <1>5. \A u \in Operands(prog, current) : ~NeedsRefresh(u, current)
    BY <1>3, <1>4 DEF Operands
  <1>6. LevelsInv'
    BY <1>1, <1>3, <1>5 DEF LevelsInv, NeedsRefresh
  <1> QED BY <1>1, <1>2, <1>3, <1>6, SameShape, WaitingStep

LEMMA RefreshResultStep == ASSUME EvalInv, RefreshResult PROVE EvalInv'
  <1>1. /\ phase = "computed" /\ phase' = "finish"
        /\ \/ RefreshValue(current, current + 1)
           \/ UNCHANGED <<values, dirty, refreshes>>
        /\ UNCHANGED <<schedule, mode, refreshAfter, bases, current, position>>
    BY DEF RefreshResult
  <1>2. Busy /\ Computed /\ Computed' = Computed
    BY <1>1 DEF Busy, Computed
  <1>3. prog \in Programs /\ current \in Held /\ EvalTyped /\ position \in Nat
    BY <1>2, OperandsHeld DEF EvalInv, EvalTyped
  <1>4. RefreshedOrSame
    BY <1>1, <1>3, RefreshShape, SameShape
  <1>5. LevelsInv'
    BY <1>1 DEF LevelsInv
  <1> QED BY <1>1, <1>2, <1>3, <1>4, <1>5, WaitingStep

-----------------------------------------------------------------------------
(* The operation *)

(* The operands encrypt what they should, clean where zeros are assumed, and  *)
(* have the levels the operation takes.                                     *)
LEMMA OperandsServe ==
  ASSUME EvalInv, phase = "operate"
  PROVE  /\ OperandsRight(current)
         /\ \A v \in Operands(prog, current) : values[v].content = Root(v)
         /\ OutLevel(current) \in Fresh .. Ceiling
  <1>1. /\ prog \in Programs /\ current \in Nodes(prog)
        /\ Operands(prog, current) \subseteq Held /\ Operands(prog, current) \subseteq Nodes(prog)
    BY OperandsHeld DEF Busy, Computed
  <1>2. \A v \in Operands(prog, current) : values[v].content = Root(v)
    BY <1>1 DEF EvalInv, ValuesRight
  <1>3. \A v \in Operands(prog, current) : v \in dirty => prog.op[current] = "gather"
    BY <1>1 DEF EvalInv, EvalTyped, Defers
  <1>4. OutLevel(current) \in Fresh .. Ceiling
    <2>1. CASE prog.op[current] \in {"source", "feedback"}
      BY <2>1, LevelsTyped DEF OutLevel, Fresh
    <2>2. CASE prog.op[current] \notin {"source", "feedback"}
      <3> DEFINE S == {values[v].level : v \in Operands(prog, current)}
      <3>1. \A v \in Operands(prog, current) : values[v].level \in Fresh .. Ceiling
        BY <1>1 DEF EvalInv, EvalTyped, Cipher
      <3>2. Operands(prog, current) # {}
        BY <1>1, <2>2, OperandShape DEF Arity
      <3>3. S \subseteq Int /\ S # {} /\ (\A x \in S : x <= Ceiling) /\ Ceiling \in Int
        BY <3>1, <3>2, LevelsTyped DEF Fresh
      <3>4. Max(S) \in S
        <4> HIDE DEF S
        <4> QED BY <3>3, GreatestOf
      <3>5. PICK v \in Operands(prog, current) : Max(S) = values[v].level
        BY <3>4
      <3>6. ~NeedsRefresh(v, current)
        BY <3>5 DEF EvalInv, LevelsInv
      <3>7. ~(values[v].level + Cost(prog, current) > Ceiling)
        BY <2>2, <3>6 DEF NeedsRefresh
      <3>8. Cost(prog, current) \in Nat
        BY <1>1, CostBounded, LevelsTyped
      <3>9. OutLevel(current) = values[v].level + Cost(prog, current)
        BY <2>2, <3>5 DEF OutLevel
      <3> QED BY <3>1, <3>7, <3>8, <3>9, LevelsTyped DEF Fresh
    <2> QED BY <2>1, <2>2
  <1> QED BY <1>2, <1>3, <1>4 DEF OperandsRight

LEMMA ResultShape ==
  ASSUME EvalInv, phase = "operate", NEW id \in Int \X Int
  PROVE  LET r == Result(current, id, TRUE)
         IN  r \in Cipher /\ r.id = id /\ r.content = current
  <1>1. OutLevel(current) \in Fresh .. Ceiling /\ current \in Int
    BY OperandsServe, OperandsHeld, ProgramShape DEF Busy
  <1> QED BY <1>1 DEF Result, Cipher

(* A polynomial of a group reads the operand of the group. *)
LEMMA UserOf ==
  ASSUME prog \in Programs, live \subseteq Nodes(prog), NEW k \in BasisKeys, NEW c \in ChebUsers(k)
  PROVE  c \in Consumers(prog, live, k[1]) /\ prog.op[c] = "cheb" /\ KeyOf(c) = k
  <1>1. c \in live /\ c \in Nodes(prog) /\ prog.op[c] = "cheb" /\ KeyOf(c) = k
    BY DEF ChebUsers
  <1>2. Operands(prog, c) = {prog.parents[c][1]}
    BY <1>1, OperandShape
  <1> QED BY <1>1, <1>2 DEF Consumers, KeyOf

(* What any operation may do: give the node a right value, take operands that *)
(* die, and keep bases that are a ciphertext somebody will still use.        *)
LEMMA OperationStep ==
  ASSUME EvalInv, phase = "operate", phase' = "computed",
         UNCHANGED <<schedule, mode, refreshAfter, current, position, refreshes>>,
         values' \in [Nodes(prog) -> Cipher], bases' \in [BasisKeys -> Basis],
         \A v \in dirty' \ dirty : v = current /\ Defers(prog, current),
         values'[current].content = Root(current), values'[current].id # Null.id,
         values'[current].id[2] <= refreshes,
         \A v \in Nodes(prog) \ {current} :
           \/ values'[v] = values[v]
           \/ values'[v] = Null /\ v \in Operands(prog, current) /\ IsLastUse(v, current),
         \A k \in BasisKeys : bases'[k] # NoBasis =>
           /\ k[1] \in done /\ \E c \in ChebUsers(k) : c \notin done \cup {current}
           /\ \/ bases'[k] = bases[k]
              \/ bases'[k] = [from |-> values[k[1]], interval |-> k[2]]
  PROVE  EvalInv'
  <1>1. /\ Base' /\ Ordered' /\ prog' = prog /\ live' = live /\ done' = done /\ ready' = ready
        /\ pinned' = pinned /\ \A v : Root(v)' = Root(v)
    BY Frame DEF EvalInv
  <1>2. /\ Busy /\ ~Computed /\ Computed' /\ Evaluated = done /\ Evaluated' = done \cup {current}
        /\ Base /\ Ordered /\ CurrentIsNext
    BY <1>1 DEF Busy, Computed, Evaluated, EvalInv
  <1>3. /\ prog \in Programs /\ live \subseteq Nodes(prog)
        /\ current \in live \ done /\ current \in Nodes(prog)
        /\ Operands(prog, current) \subseteq done
    BY <1>2, OperandsHeld
  <1>4. \A v \in Operands(prog, current) : IsLastUse(v, current) <=>
          v \notin pinned /\ Consumers(prog, live, v) \subseteq done \cup {current}
    BY <1>2, LastUseMeans
  <1>5. EvalTyped'
    BY <1>1, <1>3 DEF EvalInv, EvalTyped, BasisKeys
  <1>6. CurrentIsNext'
    BY <1>1, <1>2 DEF CurrentIsNext
  <1>7. values'[current] # Null
    OBVIOUS
  <1>8. HeldInv'
    <2>1. Held = Kept(done)
      BY <1>2 DEF EvalInv, HeldInv
    <2>2. Held' \subseteq Held \cup {current}
      BY <1>1, <1>3 DEF Held
    <2>3. Kept(done \cup {current}) \subseteq Held'
      <3>1. SUFFICES ASSUME NEW v \in Kept(done \cup {current}), v # current
                     PROVE  v \in Nodes(prog) /\ values'[v] # Null
        BY <1>1, <1>3, <1>7 DEF Held
      <3>2. v \in Kept(done) /\ ~(/\ v \in Operands(prog, current) /\ v \notin pinned
                                  /\ Consumers(prog, live, v) \subseteq done \cup {current})
        BY <1>2, <1>3, <3>1, KeptAfter
      <3>3. v \in Nodes(prog) /\ values[v] # Null
        BY <2>1, <3>2 DEF Held
      <3> QED BY <1>4, <3>1, <3>2, <3>3
    <2>4. Kept(Evaluated)' = Kept(done \cup {current}) /\ Kept(done)' = Kept(done)
      BY <1>1, <1>2 DEF Kept
    <2> QED BY <1>1, <1>2, <2>1, <2>2, <2>3, <2>4 DEF HeldInv
  <1>9. LevelsInv'
    BY DEF LevelsInv
  <1>10. IdsInv'
    <2>1. Null.id = <<-1, -1>> /\ Null.id[2] = -1
      BY DEF Null
    <2>2. /\ \A v \in Nodes(prog) : /\ values[v].id[2] <= refreshes
                                    /\ values[v] # Null => values[v].id # Null.id
          /\ \A k \in BasisKeys : bases[k].from.id[2] <= refreshes
      BY DEF EvalInv, IdsInv
    <2>3. -1 <= refreshes
      BY DEF EvalInv, EvalTyped
    <2>4. \A v \in Nodes(prog) : /\ values'[v].id[2] <= refreshes
                                 /\ values'[v] # Null => values'[v].id # Null.id
      BY <2>1, <2>2, <2>3
    <2>5. ASSUME NEW k \in BasisKeys PROVE bases'[k].from.id[2] <= refreshes
      <3>1. k[1] \in Nodes(prog) /\ NoBasis.from.id[2] = -1
        BY <2>1 DEF BasisKeys, NoBasis
      <3>2. CASE bases'[k] = NoBasis
        BY <2>3, <3>1, <3>2
      <3>3. CASE bases'[k] # NoBasis
        BY <2>2, <3>1, <3>3
      <3> QED BY <3>2, <3>3
    <2> QED BY <1>1, <2>4, <2>5 DEF IdsInv, Null, BasisKeys
  <1>11. BasesInv'
    <2>1. SUFFICES ASSUME NEW k \in BasisKeys, bases'[k] # NoBasis
                   PROVE  /\ k[1] \in done
                          /\ \E c \in ChebUsers(k) : c \notin done \cup {current}
                          /\ bases'[k].interval = k[2]
                          /\ bases'[k].from.id = values'[k[1]].id =>
                               bases'[k].from = values'[k[1]]
      <3>1. /\ BasisKeys' = BasisKeys /\ NoBasis' = NoBasis
            /\ \A k : ChebUsers(k)' = ChebUsers(k)
        BY <1>1 DEF BasisKeys, ChebUsers, KeyOf, NoBasis, Null
      <3> QED BY <1>1, <1>2, <3>1 DEF BasesInv, BasisMade
    <2>2. PICK c \in ChebUsers(k) : c \notin done \cup {current}
      BY <2>1
    <2>3. c \in Consumers(prog, live, k[1])
      BY <1>3, UserOf
    <2>4. k[1] \in done /\ k[1] \in Nodes(prog) /\ values'[k[1]] = values[k[1]]
      <3>1. k[1] \in done /\ k[1] \in Nodes(prog) /\ k[1] # current
        BY <1>3, <2>1 DEF BasisKeys
      <3>2. k[1] \notin Operands(prog, current) \/ ~IsLastUse(k[1], current)
        BY <1>4, <2>2, <2>3
      <3> QED BY <3>1, <3>2
    <2>5. bases[k] # NoBasis => /\ bases[k].interval = k[2]
                                /\ bases[k].from.id = values[k[1]].id =>
                                     bases[k].from = values[k[1]]
      BY DEF EvalInv, BasesInv, BasisMade
    <2>6. CASE bases'[k] = bases[k]
      BY <2>1, <2>2, <2>4, <2>5, <2>6
    <2>7. CASE bases'[k] = [from |-> values[k[1]], interval |-> k[2]]
      BY <2>2, <2>4, <2>7
    <2> QED BY <2>1, <2>6, <2>7
  <1>12. ValuesRight'
    <2>1. SUFFICES ASSUME NEW v \in Nodes(prog), values'[v] # Null
                   PROVE  values'[v].content = Root(v)
      BY <1>1 DEF ValuesRight, Held, Null
    <2>2. values[v] # Null => values[v].content = Root(v)
      BY DEF EvalInv, ValuesRight, Held
    <2> QED BY <2>1, <2>2
  <1> QED BY <1>1, <1>5, <1>6, <1>8, <1>9, <1>10, <1>11, <1>12 DEF EvalInv

LEMMA BasesLeft ==
  ASSUME EvalInv, phase = "operate", NEW k \in BasisKeys, bases[k] # NoBasis,
         prog.op[current] # "cheb" \/ KeyOf(current) # k
  PROVE  k[1] \in done /\ \E c \in ChebUsers(k) : c \notin done \cup {current}
  <1>1. k[1] \in done /\ \E c \in ChebUsers(k) : c \notin done
    BY DEF EvalInv, BasesInv, Evaluated, Computed
  <1> QED BY <1>1 DEF ChebUsers

LEMMA NewIdShape ==
  ASSUME EvalInv, phase = "operate"
  PROVE  /\ NewId(current) \in Int \X Int /\ NewId(current) # Null.id
         /\ NewId(current)[2] <= refreshes
  <1>1. current \in Nat /\ refreshes \in Nat
    BY OperandsHeld, ProgramShape DEF Busy, EvalInv, EvalTyped
  <1>2. NewId(current) \in Int \X Int
    BY <1>1 DEF NewId
  <1>3. NewId(current)[1] = current /\ NewId(current)[2] = 0 /\ Null.id[1] = -1
    BY DEF NewId, Null
  <1> QED BY <1>1, <1>2, <1>3

LEMMA BinaryStep ==
  ASSUME EvalInv, phase = "operate", prog.op[current] \in {"add", "mul"},
         ConsumeBinary(current), UNCHANGED <<dirty, bases>>, phase' = "computed",
         UNCHANGED <<schedule, mode, refreshAfter, current, position, refreshes>>
  PROVE  EvalInv'
  <1> DEFINE a == prog.parents[current][1]
             b == prog.parents[current][2]
             taken == {v \in {a, b} : Takes(v, current)}
             id == IF a \in taken THEN values[a].id ELSE NewId(current)
             out == Result(current, id, OperandsRight(current))
             touched == {values[v].id : v \in taken}
  <1>1. /\ prog \in Programs /\ current \in Nodes(prog) /\ current \notin Held
        /\ Operands(prog, current) = {a, b} /\ {a, b} \subseteq Held
        /\ values \in [Nodes(prog) -> Cipher] /\ bases \in [BasisKeys -> Basis]
    BY OperandsHeld, OperandShape DEF Busy, Computed, EvalInv, EvalTyped
  <1>2. values' = [v \in Nodes(prog) |->
          IF v = current THEN out
          ELSE IF v \in taken THEN Null
          ELSE IF values[v].id \in touched THEN [values[v] EXCEPT !.content = Garbage]
          ELSE values[v]]
    BY DEF ConsumeBinary
  <1>3. id \in Int \X Int /\ id # Null.id /\ id[2] <= refreshes
    <2>1. a \in Nodes(prog) /\ values[a] \in Cipher /\ values[a] # Null
      BY <1>1 DEF Held
    <2>2. values[a].id \in Int \X Int /\ values[a].id # Null.id /\ values[a].id[2] <= refreshes
      BY <2>1 DEF Cipher, EvalInv, IdsInv
    <2> QED BY <2>2, NewIdShape
  <1>4. out \in Cipher /\ out.id = id /\ out.content = current
    <2> HIDE DEF id
    <2>1. OperandsRight(current) = TRUE
      BY OperandsServe DEF OperandsRight
    <2> QED BY <1>3, <2>1, ResultShape
  <1>5. values'[current] = out /\ Root(current) = current
    <2> HIDE DEF out
    <2> QED BY <1>1, <1>2 DEF Root
  <1>6. ASSUME NEW v \in Nodes(prog) \ {current}
        PROVE  \/ values'[v] = values[v]
               \/ values'[v] = Null /\ v \in Operands(prog, current) /\ IsLastUse(v, current)
    <2>1. CASE v \in taken
      <3>1. v \in {a, b} /\ IsLastUse(v, current)
        BY <2>1 DEF Takes
      <3>2. values'[v] = Null
        <4> HIDE DEF out, taken, touched
        <4> QED BY <1>2, <2>1
      <3> QED BY <1>1, <3>1, <3>2
    <2>2. CASE v \notin taken /\ values[v].id \in touched
      <3>1. PICK u \in taken : values[u].id = values[v].id
        BY <2>2
      <3>2. v \notin Held
        BY <2>2, <3>1 DEF Takes
      <3>3. values[v] = Null
        BY <3>2 DEF Held
      <3>4. [Null EXCEPT !.content = Garbage] = Null
        BY DEF Null
      <3>5. values'[v] = [values[v] EXCEPT !.content = Garbage]
        <4> HIDE DEF out, taken, touched
        <4> QED BY <1>2, <2>2
      <3> QED BY <3>3, <3>4, <3>5
    <2>3. CASE v \notin taken /\ values[v].id \notin touched
      <3> HIDE DEF out, taken, touched
      <3> QED BY <1>2, <2>3
    <2> QED BY <2>1, <2>2, <2>3
  <1>7. values' \in [Nodes(prog) -> Cipher]
    <2>1. ASSUME NEW v \in Nodes(prog) PROVE values'[v] \in Cipher
      BY <1>1, <1>4, <1>5, <1>6, LevelsTyped
    <2>2. values' = [v \in Nodes(prog) |-> values'[v]]
      BY <1>2
    <2> QED BY <2>1, <2>2
  <1>8. \A k \in BasisKeys : bases'[k] # NoBasis =>
          /\ k[1] \in done /\ \E c \in ChebUsers(k) : c \notin done \cup {current}
          /\ \/ bases'[k] = bases[k]
             \/ bases'[k] = [from |-> values[k[1]], interval |-> k[2]]
    BY BasesLeft
  <1> HIDE DEF out, id, a, b, taken, touched
  <1> QED BY <1>1, <1>3, <1>4, <1>5, <1>6, <1>7, <1>8, OperationStep

LEMMA ChebStep ==
  ASSUME EvalInv, phase = "operate", prog.op[current] = "cheb",
         EvaluateCheb(current), UNCHANGED dirty, phase' = "computed",
         UNCHANGED <<schedule, mode, refreshAfter, current, position, refreshes>>
  PROVE  EvalInv'
  <1> DEFINE p == prog.parents[current][1]
             key == KeyOf(current)
             own == [from |-> values[p], interval |-> prog.interval[current]]
             basis == IF SharesBasis(key) /\ BasisMatches(key) THEN bases[key] ELSE own
             right == /\ OperandsRight(current)
                      /\ basis.from.content = Root(p) /\ basis.from.level = values[p].level
                      /\ basis.interval = prog.interval[current]
             out == Result(current, NewId(current), right)
             next == IF SharesBasis(key) /\ ~(ChebUsers(key) \subseteq done \cup {current})
                     THEN basis ELSE NoBasis
  <1>1. /\ prog \in Programs /\ current \in Nodes(prog) /\ current \notin done
        /\ Operands(prog, current) = {p} /\ p \in Held /\ p \in Nodes(prog) /\ p \in done
        /\ values \in [Nodes(prog) -> Cipher] /\ bases \in [BasisKeys -> Basis]
        /\ values[p] # Null
        /\ key \in BasisKeys /\ key[1] = p /\ key[2] = prog.interval[current]
    BY OperandsHeld, OperandShape DEF Busy, Computed, EvalInv, EvalTyped, Held, KeyOf, BasisKeys
  <1>2. values' = [values EXCEPT ![current] = out] /\ bases' = [bases EXCEPT ![key] = next]
    BY DEF EvaluateCheb
  <1>3. basis = own
    <2>1. values[p].id # Null.id
      BY <1>1 DEF EvalInv, IdsInv
    <2> HIDE DEF key
    <2>2. BasisMatches(key) => bases[key] # NoBasis /\ bases[key].from.id = values[p].id
      BY <1>1, <2>1 DEF BasisMatches, NoBasis
    <2>3. bases[key] # NoBasis /\ bases[key].from.id = values[p].id =>
            bases[key].from = values[p] /\ bases[key].interval = prog.interval[current]
      BY <1>1 DEF EvalInv, BasesInv, BasisMade
    <2>4. bases[key] \in Basis
      BY <1>1
    <2>5. BasisMatches(key) => bases[key] = own
      BY <2>2, <2>3, <2>4 DEF Basis
    <2> QED BY <2>5
  <1>4. own \in Basis
    <2>1. WellFormed(prog)
      BY <1>1, ProgramsAssumption
    <2> QED BY <1>1, <2>1 DEF WellFormed, Basis
  <1>5. right = TRUE
    <2>1. values[p].content = Root(p) /\ OperandsRight(current) = TRUE
      BY <1>1, OperandsServe DEF OperandsRight
    <2> HIDE DEF basis
    <2> QED BY <1>3, <2>1
  <1>6. out \in Cipher /\ out.id = NewId(current) /\ out.content = current
    <2> HIDE DEF right
    <2> QED BY <1>5, NewIdShape, ResultShape
  <1>7. next \in Basis /\ (next # NoBasis => /\ next = own
                                            /\ ~(ChebUsers(key) \subseteq done \cup {current}))
    <2> HIDE DEF basis, own, key
    <2> QED BY <1>3, <1>4, NoBasisTyped
  <1>8. own = [from |-> values[key[1]], interval |-> key[2]]
    BY <1>1
  <1>9. key = KeyOf(current)
    OBVIOUS
  <1> HIDE DEF p, key, own, basis, right, out, next
  <1>10. /\ values' \in [Nodes(prog) -> Cipher] /\ bases' \in [BasisKeys -> Basis]
        /\ values'[current] = out /\ Root(current) = current
        /\ \A v \in Nodes(prog) \ {current} : values'[v] = values[v]
    BY <1>1, <1>2, <1>6, <1>7 DEF Root
  <1>11. ASSUME NEW k \in BasisKeys, bases'[k] # NoBasis
        PROVE  /\ k[1] \in done /\ \E c \in ChebUsers(k) : c \notin done \cup {current}
               /\ \/ bases'[k] = bases[k]
                  \/ bases'[k] = [from |-> values[k[1]], interval |-> k[2]]
    <2>1. CASE k = key
      BY <1>1, <1>2, <1>7, <1>11, <1>8, <2>1
    <2>2. CASE k # key
      <3>1. bases'[k] = bases[k] /\ KeyOf(current) # k
        BY <1>1, <1>2, <1>9, <2>2
      <3> QED BY <1>11, <3>1, BasesLeft
    <2> QED BY <2>1, <2>2
  <1> QED BY <1>1, <1>6, <1>10, <1>11, NewIdShape, OperationStep

LEMMA PlainStep ==
  ASSUME EvalInv, phase = "operate", prog.op[current] \notin {"alias", "cheb"},
         values' = [values EXCEPT ![current] =
                      Result(current, NewId(current), OperandsRight(current))],
         dirty' = IF Defers(prog, current) THEN dirty \cup {current} ELSE dirty,
         UNCHANGED bases, phase' = "computed",
         UNCHANGED <<schedule, mode, refreshAfter, current, position, refreshes>>
  PROVE  EvalInv'
  <1> DEFINE out == Result(current, NewId(current), OperandsRight(current))
  <1>1. /\ current \in Nodes(prog)
        /\ values \in [Nodes(prog) -> Cipher] /\ bases \in [BasisKeys -> Basis]
    BY OperandsHeld DEF Busy, EvalInv, EvalTyped
  <1>2. out \in Cipher /\ out.id = NewId(current) /\ out.content = current
    <2>1. OperandsRight(current) = TRUE
      BY OperandsServe DEF OperandsRight
    <2> QED BY <2>1, NewIdShape, ResultShape
  <1> HIDE DEF out
  <1>3. /\ values' \in [Nodes(prog) -> Cipher]
        /\ values'[current] = out /\ Root(current) = current
        /\ \A v \in Nodes(prog) \ {current} : values'[v] = values[v]
    BY <1>1, <1>2 DEF Root, out
  <1>4. \A k \in BasisKeys : bases'[k] # NoBasis =>
          /\ k[1] \in done /\ \E c \in ChebUsers(k) : c \notin done \cup {current}
          /\ \/ bases'[k] = bases[k]
             \/ bases'[k] = [from |-> values[k[1]], interval |-> k[2]]
    BY BasesLeft
  <1> QED BY <1>1, <1>2, <1>3, <1>4, NewIdShape, OperationStep

LEMMA AliasStep ==
  ASSUME EvalInv, phase = "operate", prog.op[current] = "alias",
         values' = [values EXCEPT ![current] = values[prog.parents[current][1]]],
         UNCHANGED <<dirty, bases>>, phase' = "computed",
         UNCHANGED <<schedule, mode, refreshAfter, current, position, refreshes>>
  PROVE  EvalInv'
  <1> DEFINE p == prog.parents[current][1]
  <1>1. /\ current \in Nodes(prog) /\ p \in Nodes(prog) /\ values[p] # Null
        /\ values \in [Nodes(prog) -> Cipher] /\ bases \in [BasisKeys -> Basis]
        /\ values[p].content = Root(p) /\ Root(current) = Root(p)
        /\ values[p].id # Null.id /\ values[p].id[2] <= refreshes
    <2>1. /\ prog \in Programs /\ current \in Nodes(prog) /\ p \in Nodes(prog) /\ p \in Held
          /\ values[p].content = Root(p) /\ Root(current) = Root(p)
      BY OperandsHeld, OperandShape, OperandsServe, RootOfAlias DEF Busy, Computed
    <2> QED BY <2>1 DEF Held, EvalInv, EvalTyped, IdsInv
  <1> HIDE DEF p
  <1>2. /\ values' \in [Nodes(prog) -> Cipher] /\ values'[current] = values[p]
        /\ \A v \in Nodes(prog) \ {current} : values'[v] = values[v]
    BY <1>1 DEF p
  <1>3. \A k \in BasisKeys : bases'[k] # NoBasis =>
          /\ k[1] \in done /\ \E c \in ChebUsers(k) : c \notin done \cup {current}
          /\ \/ bases'[k] = bases[k]
             \/ bases'[k] = [from |-> values[k[1]], interval |-> k[2]]
    BY BasesLeft
  <1> QED BY <1>1, <1>2, <1>3, OperationStep

LEMMA OperateStep == ASSUME EvalInv, Operate PROVE EvalInv'
  <1>1. /\ phase = "operate" /\ phase' = "computed"
        /\ UNCHANGED <<schedule, mode, refreshAfter, current, position, refreshes>>
    BY DEF Operate
  <1>2. CASE prog.op[current] = "alias"
    BY <1>1, <1>2, AliasStep DEF Operate
  <1>3. CASE prog.op[current] = "cheb"
    BY <1>1, <1>3, ChebStep DEF Operate
  <1>4. CASE prog.op[current] \in {"add", "mul"} /\ mode.reuse
    BY <1>1, <1>4, BinaryStep DEF Operate
  <1>5. CASE /\ prog.op[current] \notin {"alias", "cheb"}
             /\ ~(prog.op[current] \in {"add", "mul"} /\ mode.reuse)
    <2>1. /\ values' = [values EXCEPT ![current] =
                          Result(current, NewId(current), OperandsRight(current))]
          /\ dirty' = IF Defers(prog, current) THEN dirty \cup {current} ELSE dirty
          /\ UNCHANGED bases
      BY <1>5 DEF Operate
    <2> QED BY <1>1, <1>5, <2>1, PlainStep
  <1> QED BY <1>2, <1>3, <1>4, <1>5

-----------------------------------------------------------------------------
(* The end of a node *)

(* Completing the node: in frontier mode it is the schedule's complete().     *)
LEMMA Finished ==
  ASSUME EvalInv, FinishNode
  PROVE  /\ done' = done \cup {current} /\ prog' = prog /\ live' = live /\ mode' = mode
         /\ Base' /\ Ordered'
         /\ values' = [v \in Nodes(prog) |->
              IF /\ v \in Operands(prog, current) /\ v \notin pinned
                 /\ Consumers(prog, live, v) \subseteq done \cup {current}
              THEN Null ELSE values[v]]
  <1>1. Busy /\ Base /\ Ordered /\ CurrentIsNext /\ mode' = mode
    BY DEF EvalInv, FinishNode, Busy
  <1>2. /\ prog \in Programs /\ live = LiveNodes(prog) /\ live \subseteq Nodes(prog)
        /\ Nodes(prog) \subseteq Nat /\ current \in live \ done /\ current \in Nodes(prog)
        /\ Operands(prog, current) \subseteq done /\ Operands(prog, current) \subseteq Nodes(prog)
    BY <1>1, OperandsHeld, ProgramShape
  <1>3. CASE mode.frontier
    <2>1. IInv /\ Complete(current)
      BY <1>1, <1>3 DEF Ordered, FinishNode
    <2>2. done' = done \cup {current} /\ prog' = prog /\ live' = live /\ IInv'
      BY <2>1, CompletingNode, CompleteIInv
    <2>3. \A v \in Nodes(prog) :
            remainingUses'[v] = 0 <=> Consumers(prog, live, v) \subseteq done \cup {current}
      BY <2>1, <2>2, UsesStep
    <2>4. values' = [v \in Nodes(prog) |->
            IF v \in Operands(prog, current) /\ Releasable(v, remainingUses')
            THEN Null ELSE values[v]]
      BY <1>3 DEF FinishNode
    <2>5. \A v \in Nodes(prog) : Releasable(v, remainingUses') <=>
            v \notin pinned /\ Consumers(prog, live, v) \subseteq done \cup {current}
      BY <2>3 DEF Releasable
    <2>6. values' = [v \in Nodes(prog) |->
            IF /\ v \in Operands(prog, current) /\ v \notin pinned
               /\ Consumers(prog, live, v) \subseteq done \cup {current}
            THEN Null ELSE values[v]]
      BY <2>4, <2>5
    <2>7. Base'
      BY <1>1, <1>2, <2>2 DEF Base
    <2>8. Ordered'
      BY <1>1, <1>3, <2>2 DEF Ordered
    <2> QED BY <1>1, <2>2, <2>6, <2>7, <2>8
  <1>4. CASE ~mode.frontier
    <2>1. done' = done \cup {current} /\ prog' = prog /\ live' = live
      BY <1>4 DEF FinishNode
    <2>2. \A v \in Operands(prog, current) : LastUse(v) = current <=>
            v \notin pinned /\ Consumers(prog, live, v) \subseteq done \cup {current}
      BY <1>1, <1>4, LastUseMeans DEF IsLastUse
    <2>3. values' = [v \in Nodes(prog) |->
            IF v \in Operands(prog, current) /\ LastUse(v) = current
            THEN Null ELSE values[v]]
      BY <1>4 DEF FinishNode
    <2>4. values' = [v \in Nodes(prog) |->
            IF /\ v \in Operands(prog, current) /\ v \notin pinned
               /\ Consumers(prog, live, v) \subseteq done \cup {current}
            THEN Null ELSE values[v]]
      BY <2>2, <2>3
    <2>5. Base'
      BY <1>1, <1>2, <2>1 DEF Base
    <2>6. Ordered'
      <3>1. /\ \A i \in done \cap live, j \in live \ done : i < j
            /\ \A j \in live \ done : current <= j
        BY <1>1, <1>4 DEF Ordered, CurrentIsNext
      <3>2. \A i \in (done \cup {current}) \cap live, j \in live \ (done \cup {current}) : i < j
        BY <1>2, <3>1
      <3> QED BY <1>1, <1>4, <2>1, <3>2 DEF Ordered
    <2> QED BY <1>1, <2>1, <2>4, <2>5, <2>6
  <1> QED BY <1>3, <1>4

LEMMA FinishStep == ASSUME EvalInv, FinishNode PROVE EvalInv'
  <1> DEFINE Dead(v) == /\ v \in Operands(prog, current) /\ v \notin pinned
                        /\ Consumers(prog, live, v) \subseteq done \cup {current}
  <1>1. /\ phase = "finish" /\ phase' = "select"
        /\ UNCHANGED <<mode, refreshAfter, dirty, bases, current, position, refreshes>>
    BY DEF FinishNode
  <1>2. /\ done' = done \cup {current} /\ prog' = prog /\ live' = live
        /\ Base' /\ Ordered' /\ pinned' = pinned
    BY Finished DEF pinned
  <1>3. \A v \in Nodes(prog) : values'[v] = IF Dead(v) THEN Null ELSE values[v]
    BY Finished
  <1>4. /\ Busy /\ Computed /\ ~Computed' /\ ~Busy' /\ Evaluated' = Evaluated
        /\ Evaluated = done \cup {current}
    BY <1>1, <1>2 DEF Busy, Computed, Evaluated
  <1>5. /\ prog \in Programs /\ live \subseteq Nodes(prog) /\ current \in live \ done
        /\ Operands(prog, current) \subseteq done /\ Base
        /\ values \in [Nodes(prog) -> Cipher] /\ Null \in Cipher
    BY <1>4, OperandsHeld, LevelsTyped DEF EvalInv, EvalTyped
  <1>6. values' \in [Nodes(prog) -> Cipher]
    <2>1. \A v \in Nodes(prog) : values'[v] \in Cipher
      BY <1>3, <1>5
    <2>2. values' = [v \in Nodes(prog) |-> values'[v]]
      BY Finished
    <2> QED BY <2>1, <2>2
  <1>7. EvalTyped'
    BY <1>1, <1>2, <1>6 DEF EvalInv, EvalTyped, BasisKeys
  <1>8. CurrentIsNext'
    BY <1>4 DEF CurrentIsNext
  <1>9. HeldInv'
    <2>1. Kept(done \cup {current}) \subseteq Held /\ Held \subseteq Kept(done) \cup {current}
      BY <1>4 DEF EvalInv, HeldInv
    <2>2. \A v : v \in Kept(done \cup {current}) <=> v \in Kept(done) \cup {current} /\ ~Dead(v)
      BY <1>5, KeptAfter
    <2>3. \A v : v \in Held' <=> v \in Held /\ ~Dead(v)
      <3> HIDE DEF Dead
      <3> QED BY <1>2, <1>3 DEF Held
    <2>4. Held' = Kept(done \cup {current})
      <3> HIDE DEF Dead
      <3> QED BY <2>1, <2>2, <2>3
    <2>5. Kept(done)' = Kept(done \cup {current})
      BY <1>2 DEF Kept
    <2> QED BY <1>4, <2>4, <2>5 DEF HeldInv
  <1>10. LevelsInv'
    BY <1>1 DEF LevelsInv
  <1>11. IdsInv'
    <2>1. Null.id[2] = -1 /\ -1 <= refreshes
      BY DEF Null, EvalInv, EvalTyped
    <2>2. /\ \A v \in Nodes(prog) : /\ values[v].id[2] <= refreshes
                                    /\ values[v] # Null => values[v].id # Null.id
          /\ \A k \in BasisKeys : bases[k].from.id[2] <= refreshes
      BY DEF EvalInv, IdsInv
    <2>3. \A v \in Nodes(prog) : /\ values'[v].id[2] <= refreshes
                                 /\ values'[v] # Null => values'[v].id # Null.id
      <3> HIDE DEF Dead
      <3> QED BY <1>3, <2>1, <2>2
    <2> QED BY <1>1, <1>2, <2>2, <2>3 DEF IdsInv, Null, BasisKeys
  <1>12. BasesInv'
    <2>1. SUFFICES ASSUME NEW k \in BasisKeys, bases[k] # NoBasis
                   PROVE  /\ k[1] \in done \cup {current}
                          /\ \E c \in ChebUsers(k) : c \notin Evaluated
                          /\ bases[k].interval = k[2]
                          /\ bases[k].from.id = values'[k[1]].id =>
                               bases[k].from = values'[k[1]]
      BY <1>1, <1>2, <1>4 DEF BasesInv, BasisMade, ChebUsers, KeyOf, BasisKeys, NoBasis, Null
    <2>2. /\ k[1] \in done /\ \E c \in ChebUsers(k) : c \notin Evaluated
          /\ bases[k].interval = k[2] /\ k[1] \in Nodes(prog)
          /\ bases[k].from.id = values[k[1]].id => bases[k].from = values[k[1]]
      BY <2>1 DEF EvalInv, BasesInv, BasisMade, BasisKeys
    <2>3. prog \in Programs /\ live \subseteq Nodes(prog)
      BY OperandsHeld, <1>1 DEF Busy
    <2>4. ~Dead(k[1])
      BY <1>4, <2>2, <2>3, UserOf
    <2> QED BY <1>3, <2>2, <2>4
  <1>13. ValuesRight'
    <2>1. \A v \in Nodes(prog) : Root(v)' = Root(v)
      BY <1>2 DEF Root, AliasPath, AliasClosed
    <2>2. SUFFICES ASSUME NEW v \in Nodes(prog), values'[v] # Null
                   PROVE  values'[v].content = Root(v)
      BY <1>2, <2>1 DEF ValuesRight, Held, Null
    <2>3. values'[v] = values[v]
      BY <1>3, <2>2
    <2> QED BY <2>2, <2>3 DEF EvalInv, ValuesRight, Held
  <1> QED BY <1>2, <1>7, <1>8, <1>9, <1>10, <1>11, <1>12, <1>13 DEF EvalInv

(* Nothing is left to do, or nothing happens. *)
LEMMA QuietStep ==
  ASSUME EvalInv, UNCHANGED <<schedule, mode, refreshAfter, values, dirty, bases, current,
                              position, refreshes>>,
         phase' = phase \/ (phase = "select" /\ phase' = "done")
  PROVE  EvalInv'
  <1>1. /\ Base' /\ Ordered' /\ prog' = prog /\ live' = live /\ done' = done /\ ready' = ready
        /\ pinned' = pinned /\ \A v : Root(v)' = Root(v)
    BY Frame DEF EvalInv
  <1>2. /\ Computed' = Computed /\ Evaluated' = Evaluated /\ Busy' = Busy
    BY <1>1 DEF Computed, Evaluated, Busy
  <1>3. EvalTyped'
    BY <1>1 DEF EvalInv, EvalTyped, BasisKeys
  <1>4. CurrentIsNext'
    BY <1>1, <1>2 DEF EvalInv, CurrentIsNext
  <1>5. HeldInv'
    BY <1>1, <1>2 DEF EvalInv, HeldInv, Held, Kept, Null
  <1>6. LevelsInv'
    BY <1>1 DEF EvalInv, LevelsInv, NeedsRefresh
  <1>7. IdsInv' /\ BasesInv' /\ ValuesRight'
    BY <1>1, <1>2 DEF EvalInv, IdsInv, BasesInv, ValuesRight, Held, Null, ChebUsers,
                       KeyOf, BasisKeys, NoBasis, BasisMade
  <1> QED BY <1>1, <1>3, <1>4, <1>5, <1>6, <1>7 DEF EvalInv

LEMMA InitEvalInv == EvalInit => EvalInv
  <1> SUFFICES ASSUME EvalInit PROVE EvalInv
    OBVIOUS
  <1>1. Init /\ IInv
    BY InitIInv DEF EvalInit
  <1>2. prog \in Programs /\ live = LiveNodes(prog) /\ done = Nodes(prog) \ live
    BY <1>1 DEF Init, InitSchedule
  <1>3. /\ mode \in Modes /\ refreshAfter \subseteq live /\ dirty = {}
        /\ values = [i \in Nodes(prog) |-> Null] /\ bases = [k \in BasisKeys |-> NoBasis]
        /\ phase = "select" /\ position = 0 /\ refreshes = 0
    BY DEF EvalInit
  <1>4. EvalTyped
    BY <1>3, LevelsTyped, NoBasisTyped DEF EvalTyped
  <1>5. Base /\ Ordered
    BY <1>1, <1>2 DEF Base, Ordered
  <1>6. CurrentIsNext /\ ~Computed /\ LevelsInv
    BY <1>3 DEF CurrentIsNext, Busy, Computed, LevelsInv
  <1>7. Held = {} /\ Kept(done) = {}
    BY <1>2, <1>3 DEF Held, Kept
  <1>8. IdsInv
    <2>1. Null.id[2] = -1 /\ NoBasis.from.id[2] = -1
      BY DEF Null, NoBasis
    <2>2. /\ \A v \in Nodes(prog) : values[v] = Null
          /\ \A k \in BasisKeys : bases[k] = NoBasis
      BY <1>3
    <2> QED BY <1>3, <2>1, <2>2 DEF IdsInv
  <1>9. BasesInv /\ ValuesRight
    BY <1>3, <1>7 DEF BasesInv, ValuesRight
  <1> QED BY <1>4, <1>5, <1>6, <1>7, <1>8, <1>9 DEF EvalInv, HeldInv

(* The inductive invariant of a node's evaluation, over that of the schedule. *)
THEOREM EvalInvAlways == EvalSpec => []EvalInv
  <1>1. EvalInv /\ [EvalNext]_allVars => EvalInv'
    <2> SUFFICES ASSUME EvalInv, [EvalNext]_allVars PROVE EvalInv'
      OBVIOUS
    <2>1. CASE SelectNode       BY <2>1, SelectStep
    <2>2. CASE PrepareOperand   BY <2>2, PrepareOperandStep
    <2>3. CASE Prepared         BY <2>3, PreparedStep
    <2>4. CASE Operate          BY <2>4, OperateStep
    <2>5. CASE RefreshResult    BY <2>5, RefreshResultStep
    <2>6. CASE FinishNode       BY <2>6, FinishStep
    <2>7. CASE Return           BY <2>7, QuietStep DEF Return
    <2>8. CASE UNCHANGED allVars
      BY <2>8, QuietStep DEF allVars, evaluator
    <2> QED BY <2>1, <2>2, <2>3, <2>4, <2>5, <2>6, <2>7, <2>8 DEF EvalNext, Returned
  <1> QED BY InitEvalInv, <1>1, PTL DEF EvalSpec

-----------------------------------------------------------------------------
(* What follows *)

(* In file order and in frontier order, with and without batches, reuse of    *)
(* dead operands and shared bases, every ciphertext held encrypts the value   *)
(* of its node.                                                            *)
THEOREM ValuesCorrect == EvalSpec => []ValuesRight
  <1>1. EvalInv => ValuesRight
    BY DEF EvalInv
  <1> QED BY <1>1, EvalInvAlways, PTL

(* Between nodes evaluate() holds exactly what is still needed, and no node   *)
(* starts without its operands.                                            *)
THEOREM HeldCorrect == EvalSpec => []HeldIsNeeded
  <1>1. EvalInv => HeldIsNeeded
    <2>1. SUFFICES ASSUME EvalInv PROVE HeldIsNeeded
      OBVIOUS
    <2>2. phase \in {"select", "done"} =>
            Held = {i \in done \cap live : i \in pinned \/ ~(Consumers(prog, live, i) \subseteq done)}
      BY <2>1 DEF EvalInv, HeldInv, Computed, Kept
    <2>3. phase \in {"prepare", "operate"} => Operands(prog, current) \subseteq Held
      BY <2>1, OperandsHeld DEF Busy, Computed
    <2> QED BY <2>2, <2>3 DEF HeldIsNeeded
  <1> QED BY <1>1, EvalInvAlways, PTL

(* Every operation has the levels it takes, also when an operand prepared     *)
(* later rides along in the refresh of another or triggers a batch.          *)
THEOREM LevelsSuffice == EvalSpec => []LevelBudget
  <1>1. EvalInv => EvalTypeOK
    BY DEF EvalInv, EvalTyped, EvalTypeOK, Cipher
  <1>2. EvalInv => LevelBudget
    <2>1. SUFFICES ASSUME EvalInv, phase = "operate", NEW v \in Operands(prog, current),
                          prog.op[current] # "feedback"
                   PROVE  values[v].level + Cost(prog, current) <= Ceiling
      BY <1>1 DEF LevelBudget
    <2>2. ~(values[v].level + Cost(prog, current) > Ceiling)
      BY <2>1 DEF EvalInv, LevelsInv, NeedsRefresh
    <2>3. values[v].level \in Int /\ Cost(prog, current) \in Int /\ Ceiling \in Int
      BY <2>1, OperandsHeld, CostBounded, LevelsTyped DEF Busy, EvalInv, EvalTyped, Cipher
    <2> QED BY <2>2, <2>3
  <1> QED BY <1>2, EvalInvAlways, PTL
-----------------------------------------------------------------------------
(* Simulations *)

(* A simulation is a recursive function: that it has the values its equation  *)
(* names is shown by induction, from the least number where it would not.   *)
States(p) == [levels : [Nodes(p) -> Int], count : Int]

Runs(N, S, start, step) ==
  {g \in [0 .. N -> S] : g[0] = start /\ \A n \in 1 .. N : g[n] = step[n][g[n - 1]]}

(* A step iterated from a start: the states exist, so the recursive function  *)
(* that names them is one.                                                 *)
LEMMA Iterated ==
  ASSUME NEW N \in Nat, NEW S, NEW start \in S, NEW step \in [1 .. N -> [S -> S]]
  PROVE  Runs(N, S, start, step) # {}
  <1> DEFINE Upto(m, g) == /\ g \in [0 .. m -> S] /\ g[0] = start
                           /\ \A n \in 1 .. m : g[n] = step[n][g[n - 1]]
             Bad == {m \in 0 .. N : ~ \E g : Upto(m, g)}
  <1>1. SUFFICES ASSUME Bad # {} PROVE FALSE
    <2>1. ASSUME Bad = {} PROVE \E g : Upto(N, g)
      <3> HIDE DEF Upto
      <3>1. N \in 0 .. N
        OBVIOUS
      <3> QED BY <2>1, <3>1
    <2> QED BY <2>1 DEF Runs
  <1> DEFINE m == Min(Bad)
  <1>2. m \in Bad /\ \A y \in Bad : m <= y
    <2>1. Bad \subseteq Nat
      OBVIOUS
    <2> HIDE DEF Bad
    <2> QED BY <1>1, <2>1, LeastOf
  <1>3. m # 0
    <2>1. Upto(0, [n \in 0 .. 0 |-> start])
      OBVIOUS
    <2>2. 0 \notin Bad
      BY <2>1
    <2> HIDE DEF Bad
    <2> QED BY <1>2, <2>2
  <1> HIDE DEF m
  <1>4. m \in 1 .. N /\ m - 1 \in 0 .. N /\ ~(m <= m - 1)
    BY <1>2, <1>3
  <1>5. PICK g : Upto(m - 1, g)
    BY <1>2, <1>4
  <1> DEFINE h == [n \in 0 .. m |-> IF n = m THEN step[m][g[m - 1]] ELSE g[n]]
  <1>6. h \in [0 .. m -> S]
    BY <1>4, <1>5
  <1>7. h[0] = start
    BY <1>4, <1>5
  <1>8. ASSUME NEW n \in 1 .. m PROVE h[n] = step[n][h[n - 1]]
    <2>1. CASE n = m
      BY <1>4, <2>1
    <2>2. CASE n # m
      <3>1. n \in 1 .. m - 1 /\ n - 1 \in 0 .. m - 1 /\ n - 1 # m /\ n \in 0 .. m /\ n - 1 \in 0 .. m
        BY <1>4, <2>2
      <3>2. h[n] = g[n] /\ h[n - 1] = g[n - 1]
        BY <2>2, <3>1
      <3>3. g[n] = step[n][g[n - 1]]
        BY <1>5, <3>1
      <3> QED BY <3>2, <3>3
    <2> QED BY <2>1, <2>2
  <1>9. Upto(m, h)
    BY <1>6, <1>7, <1>8
  <1> QED BY <1>2, <1>9

(* Induction up to N, on a set instead of a predicate. *)
LEMMA InductionUpTo ==
  ASSUME NEW N \in Nat, NEW S, 0 \in S, \A n \in 1 .. N : n - 1 \in S => n \in S
  PROVE  \A n \in 0 .. N : n \in S
  <1> DEFINE Bad == (0 .. N) \ S
  <1>1. SUFFICES ASSUME Bad # {} PROVE FALSE
    OBVIOUS
  <1> DEFINE m == Min(Bad)
  <1>2. m \in Bad /\ \A y \in Bad : m <= y
    <2>1. Bad \subseteq Nat
      OBVIOUS
    <2> HIDE DEF Bad
    <2> QED BY <1>1, <2>1, LeastOf
  <1> HIDE DEF m
  <1>3. m \in 1 .. N /\ m - 1 \in 0 .. N /\ ~(m <= m - 1)
    BY <1>2
  <1>4. m - 1 \in S
    BY <1>2, <1>3
  <1> QED BY <1>2, <1>3, <1>4

LEMMA SourceShape ==
  ASSUME NEW p \in Programs, NEW i \in Nodes(p), p.op[i] = "source"
  PROVE  Operands(p, i) = {} /\ Cost(p, i) = 0
  <1>1. Len(p.parents[i]) = 0 /\ DOMAIN p.parents[i] = 1 .. Len(p.parents[i])
    BY ProgramsAssumption, ProgramShape DEF WellFormed, Arity
  <1>2. Operands(p, i) = {}
    BY <1>1 DEF Operands
  <1> QED BY <1>2, CostAssumption DEF Cost, Defers

(* The level a node is planned to have is a number: it is a maximum of at     *)
(* most three, as no operation has more than two operands.                 *)
LEMMA LevelOf ==
  ASSUME NEW p \in Programs, NEW i \in Nodes(p), NEW levels \in [Nodes(p) -> Int]
  PROVE  PlannedLevel(p, i, levels) \in Int
  <1> DEFINE L == {Fresh} \cup {levels[v] : v \in Operands(p, i)}
  <1>1. p \in Programs /\ Operands(p, i) \subseteq Nodes(p) /\ Cost(p, i) \in Int
    BY ProgramShape, CostBounded, LevelsTyped
  <1>2. L \subseteq Int /\ L # {}
    BY <1>1 DEF Fresh
  <1>3. \E b \in Int : \A x \in L : x <= b
    <2>1. ASSUME NEW a \in Int, NEW b \in Int, L = {Fresh, a, b}
          PROVE  \E c \in Int : \A x \in L : x <= c
      <3> DEFINE d == IF a <= b THEN b ELSE a
                 c == IF d <= Fresh THEN Fresh ELSE d
      <3>1. c \in Int /\ Fresh <= c /\ a <= c /\ b <= c
        BY DEF Fresh
      <3> HIDE DEF c, L
      <3> QED BY <2>1, <3>1
    <2>2. CASE p.op[i] \in {"add", "mul"}
      <3> DEFINE a == levels[p.parents[i][1]]
                 b == levels[p.parents[i][2]]
      <3>1. L = {Fresh, a, b} /\ a \in Int /\ b \in Int
        BY <2>2, OperandShape
      <3> HIDE DEF L, a, b
      <3> QED BY <2>1, <3>1
    <2>3. CASE p.op[i] \in {"feedback", "alias", "gather", "linear", "cheb"}
      <3> DEFINE a == levels[p.parents[i][1]]
      <3>1. L = {Fresh, a, a} /\ a \in Int
        BY <2>3, OperandShape
      <3> HIDE DEF L, a
      <3> QED BY <2>1, <3>1
    <2>4. CASE p.op[i] = "source"
      <3>1. L = {Fresh, Fresh, Fresh} /\ Fresh \in Int
        BY <2>4, SourceShape DEF Fresh
      <3> HIDE DEF L
      <3> QED BY <2>1, <3>1
    <2> QED BY <2>2, <2>3, <2>4, OperandShape DEF Arity
  <1>4. Max(L) \in Int
    <2> HIDE DEF L
    <2> QED BY <1>2, <1>3, GreatestOf
  <1> QED BY <1>1, <1>4 DEF PlannedLevel, Fresh
(* Fed is the function its recursion describes, and stays within the states. *)
LEMMA FedShape ==
  ASSUME NEW p \in Programs, NEW i \in Nodes(p), NEW state \in States(p)
  PROVE  /\ Len(p.parents[i]) \in Nat
         /\ Fed(p, i, state) \in [0 .. Len(p.parents[i]) -> States(p)]
         /\ Fed(p, i, state)[0] = state
         /\ \A k \in 1 .. Len(p.parents[i]) :
              Fed(p, i, state)[k] = FedBy(p, i, Fed(p, i, state)[k - 1], p.parents[i][k])
  <1> DEFINE N == Len(p.parents[i])
             step == [k \in 1 .. N |-> [s \in States(p) |-> FedBy(p, i, s, p.parents[i][k])]]
             Is(g) == g = [k \in 0 .. N |-> IF k = 0 THEN state
                                            ELSE FedBy(p, i, g[k - 1], p.parents[i][k])]
  <1>1. N \in Nat /\ \A k \in 1 .. N : p.parents[i][k] \in Nodes(p)
    BY ProgramShape, ProgramsAssumption DEF WellFormed, Operands
  <1>2. \A s \in States(p), v \in Nodes(p) : FedBy(p, i, s, v) \in States(p)
    BY LevelsTyped DEF States, FedBy
  <1>3. step \in [1 .. N -> [States(p) -> States(p)]]
    BY <1>1, <1>2
  <1>4. PICK g \in [0 .. N -> States(p)] :
          g[0] = state /\ \A n \in 1 .. N : g[n] = step[n][g[n - 1]]
    <2> DEFINE S == States(p)
    <2>1. N \in Nat /\ state \in S /\ step \in [1 .. N -> [S -> S]]
      BY <1>1, <1>3
    <2> HIDE DEF N, step, S
    <2>2. Runs(N, S, state, step) # {}
      BY <2>1, Iterated
    <2> QED BY <2>2 DEF Runs, S
  <1>5. \A n \in 1 .. N : g[n] = FedBy(p, i, g[n - 1], p.parents[i][n])
    <2>1. ASSUME NEW n \in 1 .. N PROVE n \in 0 .. N /\ n - 1 \in 0 .. N /\ n # 0
      BY <1>1
    <2> HIDE DEF N
    <2> QED BY <1>4, <2>1
  <1>6. Is(g)
    BY <1>1, <1>4, <1>5
  <1>7. Fed(p, i, state) = CHOOSE h : Is(h)
    BY DEF Fed
  <1>8. Is(Fed(p, i, state))
    <2> HIDE DEF Is
    <2> QED BY <1>6, <1>7
  <1> DEFINE f == Fed(p, i, state)
  <1> HIDE DEF f
  <1>9. /\ DOMAIN f = 0 .. N /\ f[0] = state
        /\ \A n \in 1 .. N : f[n] = FedBy(p, i, f[n - 1], p.parents[i][n])
    BY <1>1, <1>8 DEF f
  <1>10. \A n \in 0 .. N : f[n] = g[n]
    <2> DEFINE S == {n \in 0 .. N : f[n] = g[n]}
    <2>1. \A n \in 1 .. N : n - 1 \in S => n \in S
      BY <1>1, <1>5, <1>9
    <2>2. 0 \in S /\ N \in Nat
      BY <1>1, <1>4, <1>9
    <2>3. \A n \in 0 .. N : n \in S
      <3> HIDE DEF N, S
      <3> QED BY <2>1, <2>2, InductionUpTo
    <2> QED BY <2>3
  <1>11. f \in [0 .. N -> States(p)]
    <2> HIDE DEF N
    <2>1. f = [n \in 0 .. N |-> f[n]]
      BY <1>8 DEF f, N
    <2> QED BY <1>4, <1>10, <2>1
  <1> QED BY <1>1, <1>9, <1>11 DEF f

LEMMA AfterNodeTyped ==
  ASSUME NEW p \in Programs, NEW i \in Nodes(p), NEW lv \in SUBSET Nodes(p), NEW hoisted \in SUBSET Nodes(p), NEW state \in States(p)
  PROVE  AfterNode(p, i, lv, hoisted, state) \in States(p)
  <1> DEFINE fed == Fed(p, i, state)[Len(p.parents[i])]
  <1>1. fed \in States(p)
    BY FedShape
  <1>2. \A level \in Int : Settled(i, hoisted, fed, level) \in States(p)
    <2> HIDE DEF fed
    <2> QED BY <1>1, LevelsTyped DEF States, Settled
  <1>3. PlannedLevel(p, i, fed.levels) \in Int
    <2> HIDE DEF fed
    <2> QED BY <1>1, LevelOf DEF States
  <1> QED BY <1>2, <1>3 DEF AfterNode

(* So is Simulated. *)
LEMMA SimulatedShape ==
  ASSUME NEW p \in Programs, NEW lv \in SUBSET Nodes(p), NEW hoisted \in SUBSET Nodes(p)
  PROVE  /\ Cardinality(Nodes(p)) \in Nat /\ Nodes(p) = 0 .. (Cardinality(Nodes(p)) - 1)
         /\ Simulated(p, lv, hoisted) \in [0 .. Cardinality(Nodes(p)) -> States(p)]
         /\ Simulated(p, lv, hoisted)[0] = [levels |-> [i \in Nodes(p) |-> Fresh], count |-> 0]
         /\ \A n \in 1 .. Cardinality(Nodes(p)) :
              Simulated(p, lv, hoisted)[n]
                = AfterNode(p, n - 1, lv, hoisted, Simulated(p, lv, hoisted)[n - 1])
  <1> DEFINE N == Cardinality(Nodes(p))
             start == [levels |-> [i \in Nodes(p) |-> Fresh], count |-> 0]
             step == [n \in 1 .. N |-> [s \in States(p) |-> AfterNode(p, n - 1, lv, hoisted, s)]]
             Is(g) == g = [n \in 0 .. N |-> IF n = 0 THEN start
                                            ELSE AfterNode(p, n - 1, lv, hoisted, g[n - 1])]
  <1>1. N \in Nat /\ Nodes(p) = 0 .. (N - 1)
    BY ProgramsAssumption, FS_CardinalityType DEF WellFormed
  <1>2. \A n \in 1 .. N : n - 1 \in Nodes(p)
    BY <1>1
  <1>3. start \in States(p)
    BY DEF States, Fresh
  <1>4. step \in [1 .. N -> [States(p) -> States(p)]]
    BY <1>2, AfterNodeTyped
  <1>5. PICK g \in [0 .. N -> States(p)] :
          g[0] = start /\ \A n \in 1 .. N : g[n] = step[n][g[n - 1]]
    <2> DEFINE S == States(p)
    <2>1. N \in Nat /\ start \in S /\ step \in [1 .. N -> [S -> S]]
      BY <1>1, <1>3, <1>4
    <2> HIDE DEF N, step, S, start
    <2>2. Runs(N, S, start, step) # {}
      BY <2>1, Iterated
    <2> QED BY <2>2 DEF Runs, S
  <1>6. \A n \in 1 .. N : g[n] = AfterNode(p, n - 1, lv, hoisted, g[n - 1])
    <2>1. ASSUME NEW n \in 1 .. N PROVE n \in 0 .. N /\ n - 1 \in 0 .. N /\ n # 0
      BY <1>1
    <2> HIDE DEF N
    <2> QED BY <1>5, <2>1
  <1>7. Is(g)
    <2> HIDE DEF start
    <2> QED BY <1>1, <1>5, <1>6
  <1>8. Simulated(p, lv, hoisted) = CHOOSE h : Is(h)
    BY DEF Simulated
  <1>9. Is(Simulated(p, lv, hoisted))
    <2> HIDE DEF Is
    <2> QED BY <1>7, <1>8
  <1> DEFINE f == Simulated(p, lv, hoisted)
  <1> HIDE DEF f
  <1>10. /\ DOMAIN f = 0 .. N /\ f[0] = start /\ f = [n \in 0 .. N |-> f[n]]
         /\ \A n \in 1 .. N : f[n] = AfterNode(p, n - 1, lv, hoisted, f[n - 1])
    <2>1. Is(f)
      BY <1>9 DEF f
    <2> HIDE DEF start, f
    <2> QED BY <1>1, <2>1
  <1>11. \A n \in 0 .. N : f[n] = g[n]
    <2> DEFINE S == {n \in 0 .. N : f[n] = g[n]}
    <2>1. \A n \in 1 .. N : n - 1 \in S => n \in S
      <3>1. ASSUME NEW n \in 1 .. N PROVE n \in 0 .. N /\ n - 1 \in 0 .. N
        BY <1>1
      <3>2. ASSUME NEW n \in 1 .. N, f[n - 1] = g[n - 1] PROVE f[n] = g[n]
        BY <1>6, <1>10, <3>2
      <3> HIDE DEF N
      <3> QED BY <3>1, <3>2
    <2>2. 0 \in S /\ N \in Nat
      BY <1>1, <1>5, <1>10
    <2>3. \A n \in 0 .. N : n \in S
      <3> HIDE DEF N, S
      <3> QED BY <2>1, <2>2, InductionUpTo
    <2> QED BY <2>3
  <1>12. f \in [0 .. N -> States(p)]
    <2> HIDE DEF N
    <2> QED BY <1>5, <1>10, <1>11
  <1> QED BY <1>1, <1>10, <1>12 DEF f

(* Dead nodes leave the simulation as it is. *)
LEMMA DeadSkipped ==
  ASSUME NEW p \in Programs, NEW lv \in SUBSET Nodes(p), NEW hoisted \in SUBSET Nodes(p),
         NEW m \in 0 .. Cardinality(Nodes(p)), NEW n \in m .. Cardinality(Nodes(p)),
         \A i \in lv : ~(m <= i /\ i < n)
  PROVE  Simulated(p, lv, hoisted)[n] = Simulated(p, lv, hoisted)[m]
  <1> DEFINE N == Cardinality(Nodes(p))
             f == Simulated(p, lv, hoisted)
             Bad == {k \in m .. n : f[k] # f[m]}
  <1>1. /\ N \in Nat /\ Nodes(p) = 0 .. (N - 1)
        /\ \A k \in 1 .. N : f[k] = AfterNode(p, k - 1, lv, hoisted, f[k - 1])
    <2>1. N \in Nat /\ Nodes(p) = 0 .. (N - 1)
      BY SimulatedShape
    <2>2. \A k \in 1 .. N : f[k] = AfterNode(p, k - 1, lv, hoisted, f[k - 1])
      BY SimulatedShape
    <2> QED BY <2>1, <2>2
  <1> HIDE DEF f
  <1>2. SUFFICES ASSUME Bad # {} PROVE FALSE
    BY <1>1 DEF f
  <1> DEFINE k == Min(Bad)
  <1>3. k \in Bad /\ \A y \in Bad : k <= y
    <2>1. Bad \subseteq Nat
      BY <1>1
    <2> HIDE DEF Bad
    <2> QED BY <1>2, <2>1, LeastOf
  <1> HIDE DEF k
  <1>4. k \in 1 .. N /\ k # m /\ k - 1 \in m .. n /\ ~(k <= k - 1) /\ k - 1 < n /\ m <= k - 1
    BY <1>1, <1>3
  <1>5. f[k] = f[k - 1]
    BY <1>1, <1>4 DEF AfterNode
  <1>6. k - 1 \notin Bad
    BY <1>3, <1>4
  <1> QED BY <1>3, <1>4, <1>5, <1>6

-----------------------------------------------------------------------------
(* The run follows the simulation *)

(* Without batches every state of a run is one of the simulation's: between    *)
(* nodes that before some node up to which the live ones are done, while the  *)
(* operands are prepared that after as many of them, and after the planned    *)
(* refresh that before the next node.  Levels are compared for what is held:  *)
(* the simulation keeps those of released values too.                       *)
Size == Cardinality(Nodes(prog))
Before(n) == Simulated(prog, live, refreshAfter)[n]
LastOperand == Len(prog.parents[current])
FedTo(k) == Fed(prog, current, Before(current))[k]
Agrees(state, S) ==
  refreshes = state.count /\ \A v \in S : values[v].level = state.levels[v]
Reached(n) == \A i \in live : i \in done <=> i < n

PlanInv ==
  /\ phase \in {"select", "done"} => \E n \in 0 .. Size : Reached(n) /\ Agrees(Before(n), Held)
  /\ phase = "prepare" => /\ position - 1 \in 0 .. LastOperand
                          /\ Agrees(FedTo(position - 1), Held)
  /\ phase = "operate" => Agrees(FedTo(LastOperand), Held)
  /\ phase = "computed" =>
       /\ Agrees(FedTo(LastOperand), Held \ {current})
       /\ values[current].level = PlannedLevel(prog, current, FedTo(LastOperand).levels)
  /\ phase = "finish" => Agrees(Before(current + 1), Held)
  /\ phase = "done" => live \subseteq done

(* The simulation seen from a state of the run. *)
LEMMA PlanShape ==
  ASSUME EvalInv
  PROVE  /\ live \in SUBSET Nodes(prog) /\ refreshAfter \in SUBSET Nodes(prog)
         /\ Size \in Nat /\ Nodes(prog) = 0 .. (Size - 1)
         /\ \A n \in 0 .. Size : Before(n) \in States(prog)
         /\ \A n \in 1 .. Size :
              Before(n) = AfterNode(prog, n - 1, live, refreshAfter, Before(n - 1))
  <1>1. prog \in Programs /\ live \in SUBSET Nodes(prog) /\ refreshAfter \in SUBSET Nodes(prog)
    BY LiveShape DEF EvalInv, Base, EvalTyped
  <1>2. /\ Size \in Nat /\ Nodes(prog) = 0 .. (Size - 1)
        /\ Simulated(prog, live, refreshAfter) \in [0 .. Size -> States(prog)]
    BY <1>1, SimulatedShape DEF Size
  <1>3. ASSUME NEW n \in 1 .. Size
        PROVE  Before(n) = AfterNode(prog, n - 1, live, refreshAfter, Before(n - 1))
    BY <1>1, SimulatedShape DEF Size, Before
  <1> QED BY <1>1, <1>2, <1>3 DEF Before

LEMMA FedToShape ==
  ASSUME EvalInv, Busy
  PROVE  /\ current \in Nodes(prog) /\ LastOperand \in Nat
         /\ DOMAIN prog.parents[current] = 1 .. LastOperand
         /\ \A k \in 0 .. LastOperand : FedTo(k) \in States(prog)
         /\ FedTo(0) = Before(current)
         /\ \A k \in 1 .. LastOperand :
              FedTo(k) = FedBy(prog, current, FedTo(k - 1), prog.parents[current][k])
         /\ current + 1 \in 0 .. Size
         /\ Before(current + 1) = Settled(current, refreshAfter, FedTo(LastOperand),
                                          PlannedLevel(prog, current, FedTo(LastOperand).levels))
  <1>1. prog \in Programs /\ current \in Nodes(prog) /\ current \in live
    BY OperandsHeld
  <1>2. Size \in Nat /\ current \in 0 .. Size /\ current + 1 \in 1 .. Size
        /\ (current + 1) - 1 = current
    BY <1>1, PlanShape
  <1>3. Before(current) \in States(prog)
    BY <1>2, PlanShape
  <1>4. Before(current + 1) = AfterNode(prog, current, live, refreshAfter, Before(current))
    BY <1>2, PlanShape
  <1>5. Before(current + 1) = Settled(current, refreshAfter, FedTo(LastOperand),
                                      PlannedLevel(prog, current, FedTo(LastOperand).levels))
    BY <1>1, <1>4 DEF AfterNode, FedTo, LastOperand
  <1>6. DOMAIN prog.parents[current] = 1 .. LastOperand
    BY <1>1, ProgramShape DEF LastOperand
  <1>7. /\ LastOperand \in Nat /\ FedTo(0) = Before(current)
        /\ Fed(prog, current, Before(current)) \in [0 .. LastOperand -> States(prog)]
    BY <1>1, <1>3, FedShape DEF FedTo, LastOperand
  <1>8. ASSUME NEW k \in 1 .. LastOperand
        PROVE  FedTo(k) = FedBy(prog, current, FedTo(k - 1), prog.parents[current][k])
    BY <1>1, <1>3, FedShape DEF FedTo, LastOperand
  <1>9. \A k \in 0 .. LastOperand : FedTo(k) \in States(prog)
    BY <1>7 DEF FedTo
  <1> QED BY <1>1, <1>2, <1>5, <1>6, <1>7, <1>8, <1>9

LEMMA PlanFrame ==
  ASSUME UNCHANGED <<schedule, refreshAfter>>
  PROVE  /\ Size' = Size /\ prog' = prog /\ \A n : Before(n)' = Before(n)
         /\ \A n : Reached(n)' = Reached(n)
         /\ current' = current => /\ LastOperand' = LastOperand
                                  /\ \A k : FedTo(k)' = FedTo(k)
  BY DEF schedule, Size, Before, Reached, FedTo, LastOperand

LEMMA SelectPlan == ASSUME EvalInv, ~mode.batch, PlanInv, SelectNode PROVE PlanInv'
  <1>1. /\ phase = "select" /\ phase' = "prepare" /\ position' = 1 /\ current' = NodeToRun
        /\ UNCHANGED <<schedule, mode, refreshAfter, values, dirty, bases, refreshes>>
        /\ live \ done # {}
    BY DEF SelectNode
  <1>2. mode \in Modes /\ ~mode.frontier
    BY ModesAssumption DEF EvalInv, EvalTyped
  <1> DEFINE c == Min(live \ done)
  <1>3. c \in live \ done /\ \A j \in live \ done : c <= j
    <2>1. live \ done \subseteq Nat
      BY LiveShape, ProgramShape DEF EvalInv, Base
    <2> QED BY <1>1, <2>1, LeastOf
  <1>4. current' = c
    BY <1>1, <1>2 DEF NodeToRun
  <1> HIDE DEF c
  <1>5. PICK n \in 0 .. Size : Reached(n) /\ Agrees(Before(n), Held)
    BY <1>1 DEF PlanInv
  <1>6. /\ c \in Nodes(prog) /\ c \in 0 .. Size /\ live \in SUBSET Nodes(prog)
        /\ refreshAfter \in SUBSET Nodes(prog) /\ live \subseteq Int /\ Size \in Nat
        /\ prog \in Programs
    BY <1>3, PlanShape DEF EvalInv, Base
  <1>7. c \in n .. Size /\ \A i \in live : ~(n <= i /\ i < c)
    BY <1>3, <1>5, <1>6 DEF Reached
  <1>8. Before(c) = Before(n)
    BY <1>6, <1>7, DeadSkipped DEF Before, Size
  <1>9. FedTo(0)' = Before(c) /\ LastOperand' \in Nat
    <2>1. Before(c) \in States(prog)
      BY <1>6, PlanShape
    <2>2. Fed(prog, c, Before(c))[0] = Before(c) /\ Len(prog.parents[c]) \in Nat
      BY <1>6, <2>1, FedShape
    <2> QED BY <1>1, <1>4, <2>2, PlanFrame DEF FedTo, LastOperand
  <1>10. Held' = Held
    BY <1>1, PlanFrame DEF Held, Null
  <1>11. Agrees(FedTo(0), Held)'
    BY <1>1, <1>5, <1>8, <1>9, <1>10 DEF Agrees
  <1> QED BY <1>1, <1>9, <1>11 DEF PlanInv

(* Without batches only the value asked for is refreshed. *)
LEMMA RefreshedAlone ==
  ASSUME EvalInv, ~mode.batch, prog \in Programs, NEW v \in Held, NEW next, RefreshValue(v, next)
  PROVE  /\ refreshes' = refreshes + 1 /\ values'[v].level = Refreshed
         /\ \A u \in Nodes(prog) \ {v} : values'[u] = values[u]
  <1>1. Group(v, next) = {v} /\ Cardinality({v}) = 1
    BY FS_Singleton DEF Group
  <1>2. refreshes' = refreshes + 1 /\ \A u \in Nodes(prog) \ {v} : values'[u] = values[u]
    BY <1>1 DEF RefreshValue
  <1>3. values'[v].level = Refreshed
    BY RefreshShape DEF EvalInv
  <1> QED BY <1>2, <1>3

LEMMA HeldAfterRefresh ==
  ASSUME EvalInv, prog \in Programs, NEW v \in Held, NEW next,
         RefreshValue(v, next) \/ UNCHANGED <<values, dirty, refreshes>>,
         UNCHANGED <<schedule, mode, refreshAfter, bases, current>>, Computed' = Computed
  PROVE  Held' = Held
  <1>1. RefreshedOrSame
    BY RefreshShape, SameShape DEF EvalInv
  <1>2. Evaluated' = Evaluated
    BY Frame DEF Evaluated, EvalInv
  <1> QED BY <1>1, <1>2, RefreshKeeps

LEMMA PreparePlan == ASSUME EvalInv, ~mode.batch, PlanInv, PrepareOperand PROVE PlanInv'
  <1> DEFINE v == prog.parents[current][position]
  <1>1. /\ phase = "prepare" /\ position \in DOMAIN prog.parents[current]
        /\ IF NeedsRefresh(v, current) THEN RefreshValue(v, current)
           ELSE UNCHANGED <<values, dirty, refreshes>>
        /\ position' = position + 1
        /\ UNCHANGED <<schedule, mode, refreshAfter, bases, phase, current>>
    BY DEF PrepareOperand
  <1>2. Busy /\ ~Computed /\ Computed' = Computed
    BY <1>1 DEF Busy, Computed
  <1>3. /\ prog \in Programs /\ v \in Held /\ v \in Nodes(prog) /\ Held \subseteq Nodes(prog)
    <2>1. v \in Operands(prog, current)
      BY <1>1 DEF Operands
    <2> QED BY <1>2, <2>1, OperandsHeld DEF Held
  <1>4. position \in 1 .. LastOperand /\ position \in Int /\ position - 1 \in 0 .. LastOperand
    BY <1>1, <1>2, FedToShape
  <1> DEFINE old == FedTo(position - 1)
  <1>5. FedTo(position) = FedBy(prog, current, old, v) /\ old \in States(prog)
    BY <1>2, <1>4, FedToShape
  <1>6. Agrees(old, Held)
    BY <1>1 DEF PlanInv
  <1>7. Held' = Held
    BY <1>1, <1>2, <1>3, HeldAfterRefresh
  <1> HIDE DEF v, old
  <1>8. /\ refreshes' = FedTo(position).count
        /\ \A u \in Held : values'[u].level = FedTo(position).levels[u]
    <2>1. NeedsRefresh(v, current) <=>
            prog.op[current] # "feedback" /\ old.levels[v] + Cost(prog, current) > Ceiling
      BY <1>3, <1>6 DEF NeedsRefresh, Agrees
    <2>2. CASE NeedsRefresh(v, current)
      <3>1. FedTo(position) = [levels |-> [old.levels EXCEPT ![v] = Refreshed],
                               count |-> old.count + 1]
        BY <1>5, <2>1, <2>2 DEF FedBy
      <3>2. /\ refreshes' = refreshes + 1 /\ values'[v].level = Refreshed
            /\ \A u \in Nodes(prog) \ {v} : values'[u] = values[u]
        BY <1>1, <1>3, <2>2, RefreshedAlone
      <3>3. \A u \in Nodes(prog) : FedTo(position).levels[u]
                                     = IF u = v THEN Refreshed ELSE old.levels[u]
        BY <1>3, <1>5, <3>1 DEF States
      <3> QED BY <1>3, <1>6, <3>1, <3>2, <3>3 DEF Agrees
    <2>3. CASE ~NeedsRefresh(v, current)
      <3>1. FedTo(position) = old
        BY <1>5, <2>1, <2>3 DEF FedBy
      <3> QED BY <1>1, <1>6, <2>3, <3>1 DEF Agrees
    <2> QED BY <2>2, <2>3
  <1>9. /\ LastOperand' = LastOperand /\ FedTo(position)' = FedTo(position') 
        /\ position' - 1 = position /\ position \in 0 .. LastOperand
    BY <1>1, <1>4, PlanFrame
  <1> QED BY <1>1, <1>4, <1>7, <1>8, <1>9, PlanFrame DEF PlanInv, Agrees

LEMMA PreparedPlan == ASSUME EvalInv, ~mode.batch, PlanInv, Prepared PROVE PlanInv'
  <1>1. /\ phase = "prepare" /\ position \notin DOMAIN prog.parents[current] /\ phase' = "operate"
        /\ UNCHANGED <<schedule, mode, refreshAfter, values, dirty, bases, current, position,
                       refreshes>>
    BY DEF Prepared
  <1>2. /\ LastOperand \in Nat /\ position \notin 1 .. LastOperand /\ position \in Nat
        /\ position - 1 \in 0 .. LastOperand /\ position # 0
    BY <1>1, FedToShape DEF Busy, PlanInv, EvalInv, EvalTyped, LevelsInv
  <1>3. position - 1 = LastOperand
    BY <1>2
  <1>4. Agrees(FedTo(LastOperand), Held)
    BY <1>1, <1>3 DEF PlanInv
  <1>5. Held' = Held /\ FedTo(LastOperand)' = FedTo(LastOperand)
    BY <1>1, PlanFrame DEF Held, Null
  <1> QED BY <1>1, <1>4, <1>5 DEF PlanInv, Agrees

(* What an operation leaves held has its level still, and its result has the  *)
(* level planned.                                                          *)
LEMMA OperationLevels ==
  ASSUME EvalInv, Operate
  PROVE  /\ values'[current].level = OutLevel(current)
         /\ \A u \in Nodes(prog) \ {current} :
              values'[u] # Null => values[u] # Null /\ values'[u].level = values[u].level
  <1>1. /\ prog \in Programs /\ current \in Nodes(prog)
        /\ values \in [Nodes(prog) -> Cipher]
        /\ Operands(prog, current) \subseteq Nodes(prog)
    BY OperandsHeld DEF Operate, Busy, EvalInv, EvalTyped
  <1>2. CASE prog.op[current] = "alias"
    <2> DEFINE v == prog.parents[current][1]
    <2>1. /\ v \in Nodes(prog) /\ Operands(prog, current) = {v} /\ values[v].level \in Int
      BY <1>1, <1>2, OperandShape, LevelsTyped DEF Cipher, Fresh
    <2>2. Cost(prog, current) = 0
      BY <1>2, CostAssumption DEF Cost, Defers
    <2>3. OutLevel(current) = Max({values[v].level}) + 0
      BY <1>2, <2>1, <2>2 DEF OutLevel
    <2>4. Max({values[v].level}) = values[v].level
      BY <2>1 DEF Max
    <2>5. values' = [values EXCEPT ![current] = values[v]]
      BY <1>2 DEF Operate
    <2> QED BY <1>1, <2>1, <2>3, <2>4, <2>5
  <1>3. CASE prog.op[current] \in {"add", "mul"} /\ mode.reuse
    <2>1. ConsumeBinary(current)
      BY <1>3 DEF Operate
    <2>2. values'[current].level = OutLevel(current)
      BY <1>1, <2>1 DEF ConsumeBinary, Result
    <2>3. ASSUME NEW u \in Nodes(prog) \ {current}, values'[u] # Null
          PROVE  values'[u] \in {values[u], [values[u] EXCEPT !.content = Garbage]}
      BY <1>1, <2>1, <2>3 DEF ConsumeBinary
    <2>4. [Null EXCEPT !.content = Garbage] = Null
      BY DEF Null
    <2>5. ASSUME NEW c \in Cipher PROVE [c EXCEPT !.content = Garbage].level = c.level
      BY DEF Cipher
    <2> QED BY <1>1, <2>2, <2>3, <2>4, <2>5
  <1>4. CASE ~(prog.op[current] \in {"add", "mul"} /\ mode.reuse) /\ prog.op[current] # "alias"
    <2>1. \E id, right : values' = [values EXCEPT ![current] = Result(current, id, right)]
      BY <1>4 DEF Operate, EvaluateCheb
    <2> QED BY <1>1, <2>1 DEF Result
  <1> QED BY <1>2, <1>3, <1>4

LEMMA OutLevelPlanned ==
  ASSUME EvalInv, phase = "operate", NEW levels,
         \A v \in Operands(prog, current) : values[v].level = levels[v]
  PROVE  OutLevel(current) = PlannedLevel(prog, current, levels)
  <1>1. /\ prog \in Programs /\ current \in Nodes(prog)
        /\ Operands(prog, current) \subseteq Nodes(prog)
        /\ values \in [Nodes(prog) -> Cipher]
    BY OperandsHeld DEF Busy, EvalInv, EvalTyped
  <1> DEFINE S == {values[v].level : v \in Operands(prog, current)}
             T == {levels[v] : v \in Operands(prog, current)}
  <1>2. S = T
    OBVIOUS
  <1>3. CASE prog.op[current] = "feedback"
    BY <1>3 DEF OutLevel, PlannedLevel
  <1>4. CASE prog.op[current] = "source"
    <2>1. Operands(prog, current) = {} /\ Cost(prog, current) = 0
      BY <1>1, <1>4, SourceShape
    <2>2. PlannedLevel(prog, current, levels) = 0 + Max({Fresh})
      BY <1>4, <2>1 DEF PlannedLevel
    <2>3. Max({Fresh}) = Fresh
      BY DEF Max, Fresh
    <2> QED BY <1>4, <2>2, <2>3 DEF OutLevel, Fresh
  <1>5. CASE prog.op[current] \notin {"feedback", "source"}
    <2>1. S \subseteq Fresh .. Ceiling /\ S # {}
      BY <1>1, <1>5, OperandShape DEF Cipher, Arity
    <2> DEFINE R == {Fresh} \cup S
    <2>2. /\ S \subseteq Int /\ R \subseteq Int /\ R # {} /\ Ceiling \in Int
          /\ \A x \in S : Fresh <= x /\ x <= Ceiling
          /\ \A x \in R : x <= Ceiling
      <3> HIDE DEF S
      <3> QED BY <2>1, LevelsTyped DEF Fresh
    <2>3. /\ Max(S) \in S /\ (\A y \in S : Max(S) >= y)
          /\ Max(R) \in R /\ (\A y \in R : Max(R) >= y)
      <3> HIDE DEF S, R
      <3> QED BY <2>1, <2>2, GreatestOf
    <2>4. Max(R) = Max(S) /\ Max(S) \in Int
      <3>1. Max(R) >= Max(S) /\ Max(S) >= Fresh /\ Max(S) \in Int /\ Max(R) \in Int
        <4> HIDE DEF S
        <4> QED BY <2>2, <2>3 DEF Fresh
      <3>2. Max(S) >= Max(R)
        <4> HIDE DEF S
        <4> QED BY <2>3, <3>1 DEF Fresh
      <3> HIDE DEF S, R
      <3> QED BY <3>1, <3>2
    <2>5. Cost(prog, current) \in Int
      BY <1>1, CostBounded, LevelsTyped
    <2>6. OutLevel(current) = Max(S) + Cost(prog, current)
      BY <1>5 DEF OutLevel
    <2>7. PlannedLevel(prog, current, levels) = Cost(prog, current) + Max(R)
      BY <1>2, <1>5 DEF PlannedLevel
    <2> HIDE DEF S, R
    <2> QED BY <2>4, <2>5, <2>6, <2>7
  <1> QED BY <1>3, <1>4, <1>5

LEMMA OperatePlan == ASSUME EvalInv, ~mode.batch, PlanInv, Operate PROVE PlanInv'
  <1>1. /\ phase = "operate" /\ phase' = "computed"
        /\ UNCHANGED <<schedule, mode, refreshAfter, current, position, refreshes>>
    BY DEF Operate
  <1> DEFINE fed == FedTo(LastOperand)
  <1>2. Agrees(fed, Held)
    BY <1>1 DEF PlanInv
  <1>3. Operands(prog, current) \subseteq Held
    BY <1>1, OperandsHeld DEF Busy, Computed
  <1>4. values'[current].level = PlannedLevel(prog, current, fed.levels)
    <2>1. \A v \in Operands(prog, current) : values[v].level = fed.levels[v]
      BY <1>2, <1>3 DEF Agrees
    <2> HIDE DEF fed
    <2> QED BY <1>1, <2>1, OperationLevels, OutLevelPlanned
  <1>5. /\ LastOperand' = LastOperand /\ FedTo(LastOperand)' = fed /\ prog' = prog
    BY <1>1, PlanFrame
  <1> HIDE DEF fed
  <1>6. refreshes' = fed.count /\ \A u \in (Held \ {current})' : values'[u].level = fed.levels[u]
    <2>1. ASSUME NEW u \in (Held \ {current})' PROVE u \in Held /\ values'[u].level = values[u].level
      BY <1>1, <1>5, <2>1, OperationLevels DEF Held, Null
    <2> QED BY <1>1, <1>2, <2>1 DEF Agrees
  <1>7. PlannedLevel(prog, current, FedTo(LastOperand).levels)' = PlannedLevel(prog, current, fed.levels)
    BY <1>1, <1>5
  <1> QED BY <1>1, <1>4, <1>5, <1>6, <1>7 DEF PlanInv, Agrees

LEMMA RefreshResultPlan ==
  ASSUME EvalInv, ~mode.batch, PlanInv, RefreshResult PROVE PlanInv'
  <1>1. /\ phase = "computed" /\ phase' = "finish"
        /\ IF current \in refreshAfter /\ values[current].level > Refreshed
           THEN RefreshValue(current, current + 1)
           ELSE UNCHANGED <<values, dirty, refreshes>>
        /\ UNCHANGED <<schedule, mode, refreshAfter, bases, current, position>>
    BY DEF RefreshResult
  <1>2. Busy /\ Computed /\ Computed'
    BY <1>1 DEF Busy, Computed
  <1> DEFINE fed == FedTo(LastOperand)
             level == PlannedLevel(prog, current, fed.levels)
  <1>3. /\ prog \in Programs /\ current \in Held /\ current \in Nodes(prog)
        /\ Held \subseteq Nodes(prog) /\ fed \in States(prog)
        /\ Before(current + 1) = Settled(current, refreshAfter, fed, level)
    BY <1>2, OperandsHeld, FedToShape DEF Held
  <1>4. Agrees(fed, Held \ {current}) /\ values[current].level = level
    BY <1>1 DEF PlanInv
  <1>5. Held' = Held
    BY <1>1, <1>2, <1>3, HeldAfterRefresh
  <1> HIDE DEF fed, level
  <1>6. /\ refreshes' = Before(current + 1).count
        /\ \A u \in Held : values'[u].level = Before(current + 1).levels[u]
    <2>1. CASE current \in refreshAfter /\ level > Refreshed
      <3>1. Before(current + 1) = [levels |-> [fed.levels EXCEPT ![current] = Refreshed],
                                   count |-> fed.count + 1]
        BY <1>3, <2>1 DEF Settled
      <3>2. /\ refreshes' = refreshes + 1 /\ values'[current].level = Refreshed
            /\ \A u \in Nodes(prog) \ {current} : values'[u] = values[u]
        BY <1>1, <1>3, <1>4, <2>1, RefreshedAlone
      <3>3. \A u \in Nodes(prog) : Before(current + 1).levels[u]
                                     = IF u = current THEN Refreshed ELSE fed.levels[u]
        BY <1>3, <3>1 DEF States
      <3> QED BY <1>3, <1>4, <3>1, <3>2, <3>3 DEF Agrees
    <2>2. CASE ~(current \in refreshAfter /\ level > Refreshed)
      <3>1. Before(current + 1) = [levels |-> [fed.levels EXCEPT ![current] = level],
                                   count |-> fed.count]
        BY <1>3, <2>2 DEF Settled
      <3>2. UNCHANGED <<values, refreshes>>
        BY <1>1, <1>4, <2>2
      <3>3. \A u \in Nodes(prog) : Before(current + 1).levels[u]
                                     = IF u = current THEN level ELSE fed.levels[u]
        BY <1>3, <3>1 DEF States
      <3> QED BY <1>3, <1>4, <3>1, <3>2, <3>3 DEF Agrees
    <2> QED BY <2>1, <2>2
  <1>7. Agrees(Before(current + 1), Held)'
    BY <1>1, <1>5, <1>6, PlanFrame DEF Agrees
  <1> QED BY <1>1, <1>7 DEF PlanInv

LEMMA FinishPlan == ASSUME EvalInv, ~mode.batch, PlanInv, FinishNode PROVE PlanInv'
  <1>1. /\ phase = "finish" /\ phase' = "select"
        /\ UNCHANGED <<mode, refreshAfter, dirty, bases, current, position, refreshes>>
    BY DEF FinishNode
  <1>2. done' = done \cup {current} /\ prog' = prog /\ live' = live
    BY Finished
  <1>3. \A v \in Nodes(prog) : values'[v] \in {Null, values[v]}
    BY Finished
  <1>4. mode \in Modes /\ ~mode.frontier
    BY ModesAssumption DEF EvalInv, EvalTyped
  <1>5. /\ current \in live \ done /\ live \subseteq Int /\ current + 1 \in 0 .. Size
        /\ \A j \in live \ done : current <= j
        /\ \A i \in done \cap live, j \in live \ done : i < j
    BY <1>1, <1>4, PlanShape, FedToShape DEF Busy, EvalInv, CurrentIsNext, Ordered
  <1>6. \A n : Before(n)' = Before(n)
    BY <1>1, <1>2 DEF Before
  <1>7. Size' = Size
    BY <1>2 DEF Size
  <1>8. Reached(current + 1)'
    <2>1. ASSUME NEW i \in live PROVE i \in done' <=> i < current + 1
      BY <1>2, <1>5
    <2> QED BY <1>1, <1>2, <2>1 DEF Reached
  <1>9. Agrees(Before(current + 1), Held)'
    <2>1. Agrees(Before(current + 1), Held)
      BY <1>1 DEF PlanInv
    <2>2. \A u \in Held' : u \in Held /\ values'[u] = values[u]
      BY <1>2, <1>3 DEF Held, Null
    <2> QED BY <1>1, <1>6, <2>1, <2>2 DEF Agrees
  <1>10. \E n \in 0 .. Size' : Reached(n)' /\ Agrees(Before(n), Held)'
    BY <1>1, <1>5, <1>7, <1>8, <1>9
  <1> QED BY <1>1, <1>10 DEF PlanInv

LEMMA QuietPlan ==
  ASSUME PlanInv,
         phase' = phase \/ (phase = "select" /\ phase' = "done" /\ live \subseteq done),
         UNCHANGED <<schedule, mode, refreshAfter, values, dirty, bases, current, position,
                     refreshes>>
  PROVE  PlanInv'
  BY PlanFrame DEF PlanInv, Agrees, Held, Null, schedule

LEMMA InitPlan == ASSUME EvalInit PROVE PlanInv
  <1>1. EvalInv
    BY InitEvalInv
  <1>2. /\ done = Nodes(prog) \ live /\ phase = "select" /\ refreshes = 0
        /\ values = [i \in Nodes(prog) |-> Null]
    BY DEF EvalInit, Init, InitSchedule
  <1>3. prog \in Programs /\ 0 \in 0 .. Size /\ live \in SUBSET Nodes(prog)
        /\ refreshAfter \in SUBSET Nodes(prog) /\ Nodes(prog) \subseteq Nat
    BY <1>1, PlanShape, ProgramShape DEF EvalInv, Base
  <1>4. Before(0).count = 0
    <2>1. Simulated(prog, live, refreshAfter)[0]
            = [levels |-> [i \in Nodes(prog) |-> Fresh], count |-> 0]
      BY <1>3, SimulatedShape
    <2> QED BY <2>1 DEF Before
  <1>5. Held = {}
    BY <1>2 DEF Held
  <1>6. Reached(0)
    BY <1>2, <1>3 DEF Reached
  <1> QED BY <1>2, <1>3, <1>4, <1>5, <1>6 DEF PlanInv, Agrees

(* In file order and without batches a run makes exactly the refreshes that   *)
(* plan_packed_depth predicted by simulating it, in every program.          *)
THEOREM PlanCorrect == EvalSpec => []PlanExact
  <1> DEFINE Planned == EvalInv /\ (mode.batch \/ PlanInv)
  <1>1. EvalInit => Planned
    BY InitEvalInv, InitPlan
  <1>2. Planned /\ EvalInv' /\ [EvalNext]_allVars => Planned'
    <2> SUFFICES ASSUME Planned, [EvalNext]_allVars PROVE mode'.batch \/ PlanInv'
      OBVIOUS
    <2>1. mode' = mode
      BY DEF EvalNext, allVars, evaluator, SelectNode, PrepareOperand, Prepared, Operate,
             RefreshResult, FinishNode, Return, Returned
    <2> SUFFICES ASSUME ~mode.batch PROVE PlanInv'
      BY <2>1
    <2>2. CASE SelectNode       BY <2>2, SelectPlan
    <2>3. CASE PrepareOperand   BY <2>3, PreparePlan
    <2>4. CASE Prepared         BY <2>4, PreparedPlan
    <2>5. CASE Operate          BY <2>5, OperatePlan
    <2>6. CASE RefreshResult    BY <2>6, RefreshResultPlan
    <2>7. CASE FinishNode       BY <2>7, FinishPlan
    <2>8. CASE Return           BY <2>8, QuietPlan DEF Return
    <2>9. CASE UNCHANGED allVars
      BY <2>9, QuietPlan DEF allVars, evaluator
    <2> QED BY <2>2, <2>3, <2>4, <2>5, <2>6, <2>7, <2>8, <2>9 DEF EvalNext, Returned
  <1>3. Planned => PlanExact
    <2> SUFFICES ASSUME EvalInv, PlanInv, phase = "done" PROVE refreshes = Before(Size).count
      BY DEF PlanExact, Simulate, Before, Size
    <2>1. PICK n \in 0 .. Size : Reached(n) /\ Agrees(Before(n), Held)
      BY DEF PlanInv
    <2>2. /\ Size \in n .. Size /\ live \in SUBSET Nodes(prog) /\ live \subseteq done
          /\ refreshAfter \in SUBSET Nodes(prog) /\ prog \in Programs
          /\ live \subseteq Int
      BY PlanShape DEF PlanInv, EvalInv, Base
    <2>3. \A i \in live : ~(n <= i /\ i < Size)
      BY <2>1, <2>2 DEF Reached
    <2>4. Before(Size) = Before(n)
      BY <2>2, <2>3, DeadSkipped DEF Before, Size
    <2> QED BY <2>1, <2>4 DEF Agrees
  <1> QED BY <1>1, <1>2, <1>3, EvalInvAlways, PTL DEF EvalSpec
=============================================================================
