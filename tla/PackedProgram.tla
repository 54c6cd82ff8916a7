--------------------------- MODULE PackedProgram ---------------------------
(***************************************************************************)
(* A packed FHE program (packed_program.hpp) and what its planners derive   *)
(* from it.  A program is a record                                         *)
(*   op      : node -> operation                                           *)
(*   parents : node -> sequence of earlier nodes (operands, x*x twice)      *)
(*   size    : node -> logical width in slots                              *)
(*   interval: node -> normalization interval (of a polynomial, else unused) *)
(*   outputs : the nodes that are program outputs                          *)
(* over nodes 0 .. n-1.  Coefficients, masks and weights are left out.      *)
(*                                                                         *)
(* Operations are those of the file format, with one for each behaviour the  *)
(* planners and the evaluator tell apart.  "alias" is a scatter or repeat    *)
(* whose indices are the identity (it returns its operand's own handle) and  *)
(* "source" an input or public node.  The others of one operand (addp, mulp, *)
(* sum, a repeat or scatter that moves slots, linear_ref) go through the     *)
(* same steps as gather or linear, at other costs, and are left out.        *)
(***************************************************************************)
EXTENDS Integers, Sequences, FiniteSets

Nodes(p) == DOMAIN p.op
Operands(p, i) == {p.parents[i][k] : k \in DOMAIN p.parents[i]}

Arity == [source |-> 0, feedback |-> 1, add |-> 2, mul |-> 2, alias |-> 1,
          gather |-> 1, linear |-> 1, cheb |-> 1]

(* What the reader accepts: operands precede their user, the operand count  *)
(* fits the operation, element-wise operations keep the width.             *)
WellFormed(p) ==
  /\ IsFiniteSet(Nodes(p)) /\ Nodes(p) # {}
  /\ Nodes(p) = 0 .. (Cardinality(Nodes(p)) - 1)
  /\ DOMAIN p.parents = Nodes(p) /\ DOMAIN p.size = Nodes(p)
  /\ p.interval \in [Nodes(p) -> Nat]
  /\ p.outputs \subseteq Nodes(p) /\ p.outputs # {}
  /\ \A i \in Nodes(p) :
       /\ p.op[i] \in DOMAIN Arity
       /\ p.size[i] \in Nat \ {0}
       /\ p.parents[i] \in Seq(0 .. (i - 1))
       /\ Len(p.parents[i]) = Arity[p.op[i]]
       /\ p.op[i] \in {"add", "mul", "feedback", "cheb"} =>
            \A k \in DOMAIN p.parents[i] : p.size[p.parents[i][k]] = p.size[i]

(* Backward reachability from the outputs (plan_packed_depth): the smallest  *)
(* set that has the outputs and the operands of its members.               *)
Supplied(p, S) == p.outputs \subseteq S /\ \A i \in S : Operands(p, i) \subseteq S
LiveNodes(p) ==
  {i \in Nodes(p) : \A S \in SUBSET Nodes(p) : Supplied(p, S) => i \in S}

(* The uses of a value by live nodes, counted by edge: x * x uses x twice.  *)
UseEdges(p, live, i) ==
  {e \in live \X (1 .. 2) : /\ e[2] \in DOMAIN p.parents[e[1]]
                            /\ p.parents[e[1]][e[2]] = i}

Consumers(p, live, i) == {c \in live : i \in Operands(p, c)}

EdgesBetween(p, parent, i) ==
  Cardinality({k \in DOMAIN p.parents[i] : p.parents[i][k] = parent})

Feedbacks(p) == {i \in Nodes(p) : p.op[i] = "feedback"}

(* A feedback opens a new epoch, and belongs to it. *)
EpochOf(p, i) == Cardinality({f \in Feedbacks(p) : f <= i})
Epochs(p) == 0 .. Cardinality(Feedbacks(p))
=============================================================================
