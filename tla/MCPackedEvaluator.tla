------------------------- MODULE MCPackedEvaluator -------------------------
(***************************************************************************)
(* Instances of PackedEvaluator: every program of four nodes, and every     *)
(* program of five nodes that starts with a source, a polynomial of it      *)
(* (also an output) and a linear map of it, so that two values near the     *)
(* ceiling coexist and an output has readers.  The first polynomial has      *)
(* interval 1, each later one 1 or 2.                                       *)
(***************************************************************************)
EXTENDS PackedEvaluator

Unary == {"feedback", "alias", "gather", "linear", "cheb"}

NodeChoices(i) ==
  {[op |-> o, parents |-> <<a>>, interval |-> 1] : o \in Unary, a \in 0 .. (i - 1)}
  \cup {[op |-> "cheb", parents |-> <<a>>, interval |-> 2] : a \in 0 .. (i - 1)}
  \cup {[op |-> o, parents |-> <<ab[1], ab[2]>>, interval |-> 1] :
          o \in {"add", "mul"}, ab \in {x \in (0 .. (i - 1)) \X (0 .. (i - 1)) : x[1] <= x[2]}}

Extend(p, c) == LET i == Cardinality(DOMAIN p.op)
                IN [op |-> [k \in 0 .. i |-> IF k = i THEN c.op ELSE p.op[k]],
                    parents |-> [k \in 0 .. i |-> IF k = i THEN c.parents ELSE p.parents[k]],
                    interval |-> [k \in 0 .. i |-> IF k = i THEN c.interval ELSE p.interval[k]]]
ExtendAll(ps, i) ==
  UNION {{Extend(p, c) : c \in {c \in NodeChoices(i) :
                                 c.interval = 2 => \E k \in DOMAIN p.op : p.op[k] = "cheb"}} :
         p \in ps}

Source == [op |-> [k \in {0} |-> "source"], parents |-> [k \in {0} |-> <<>>],
           interval |-> [k \in {0} |-> 1]]
ChebAndLinear ==
  Extend(Extend(Source, [op |-> "cheb", parents |-> <<0>>, interval |-> 1]),
         [op |-> "linear", parents |-> <<0>>, interval |-> 1])

Bodies == ExtendAll(ExtendAll(ExtendAll({Source}, 1), 2), 3)
          \cup ExtendAll(ExtendAll({ChebAndLinear}, 3), 4)

MCPrograms ==
  {[op |-> b.op, parents |-> b.parents, size |-> [k \in DOMAIN b.op |-> 1],
    interval |-> b.interval,
    outputs |-> {Cardinality(DOMAIN b.op) - 1}
                \cup IF Cardinality(DOMAIN b.op) = 5 THEN {1} ELSE {}] : b \in Bodies}

MCModes ==
  {[frontier |-> FALSE, batch |-> FALSE, reuse |-> FALSE, share |-> FALSE],
   [frontier |-> FALSE, batch |-> FALSE, reuse |-> TRUE, share |-> TRUE],
   [frontier |-> FALSE, batch |-> TRUE, reuse |-> TRUE, share |-> TRUE],
   [frontier |-> TRUE, batch |-> TRUE, reuse |-> TRUE, share |-> TRUE]}

(* The relations of packed_node_depth at a small scale: additions and       *)
(* aliases are free, a product or a routing costs one level, a masked       *)
(* linear map two, a polynomial as much as one refresh restores.            *)
MCCost == [source |-> 0, feedback |-> 0, add |-> 0, alias |-> 0,
           mul |-> 1, gather |-> 1, linear |-> 2, cheb |-> 3]
=============================================================================
