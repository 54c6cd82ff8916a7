-------------------------- MODULE MCPackedSchedule --------------------------
(***************************************************************************)
(* Every program of MaxNodes nodes over the operations that matter to the   *)
(* schedule: sources, feedbacks, unary and binary operations (a binary one  *)
(* may use an operand twice).  The last node is an output, and in half of   *)
(* the programs node 1 is another.                                         *)
(***************************************************************************)
EXTENDS PackedSchedule

CONSTANT MaxNodes

(* One more node: a source, a feedback or unary use of one earlier node, or  *)
(* a binary use of two.                                                    *)
NodeChoices(i) ==
  {[op |-> "source", parents |-> <<>>]}
  \cup {[op |-> o, parents |-> <<a>>] : o \in {"feedback", "gather"}, a \in 0 .. (i - 1)}
  \cup {[op |-> "mul", parents |-> <<ab[1], ab[2]>>] :
          ab \in {x \in (0 .. (i - 1)) \X (0 .. (i - 1)) : x[1] <= x[2]}}

Extend(p, c) == LET i == Cardinality(DOMAIN p.op)
                IN [op |-> [k \in 0 .. i |-> IF k = i THEN c.op ELSE p.op[k]],
                    parents |-> [k \in 0 .. i |-> IF k = i THEN c.parents ELSE p.parents[k]]]

Bodies[n \in 1 .. MaxNodes] ==
  IF n = 1 THEN {[op |-> [k \in {0} |-> "source"], parents |-> [k \in {0} |-> <<>>]]}
  ELSE {Extend(p, c) : p \in Bodies[n - 1], c \in NodeChoices(n - 1)}

MCPrograms ==
  {[op |-> b.op, parents |-> b.parents, size |-> [k \in DOMAIN b.op |-> 1],
    interval |-> [k \in DOMAIN b.op |-> 0],
    outputs |-> {MaxNodes - 1, o}] : b \in Bodies[MaxNodes], o \in {1, MaxNodes - 1}}
=============================================================================
