---------------------------- MODULE PackedSources ----------------------------
(***************************************************************************)
(* What evaluate() of packed_fideslib.cpp feeds into a scheduled program:   *)
(* public sources, encrypted once per distinct vector under                 *)
(* --reuse-public-ciphertexts (public_ciphertext_reuse.hpp), and feedbacks,  *)
(* each a call of the client, which checks the hidden state against the     *)
(* reference of a program output before it selects the next token.          *)
(*                                                                         *)
(* A vector is a sequence of coefficients of which "zero" (positive zero) is *)
(* the padding; the input, which is never shared, is "input".               *)
(***************************************************************************)
EXTENDS PackedSchedule

CONSTANTS
  Slots,
  SourceData(_)         \* assignments of data to the nodes of a program

NoReference == -1
Input == "input"
Coefficients == {"zero", "negzero", "one"}

ASSUME SlotsAssumption == Slots \in Nat
ASSUME SourceDataAssumption ==
  \A p \in Programs : \A assigned \in SourceData(p) :
    /\ DOMAIN assigned = Nodes(p)
    /\ \A i \in Nodes(p) : assigned[i] = Input \/ assigned[i] \in Seq(Coefficients)

VARIABLES
  data,                 \* what the source nodes encrypt
  uses,                 \* plan_.uses: public nodes to come, per key
  seeds,                \* key -> the ciphertext kept to be cloned
  encryptions,          \* encryptions made, per key
  given,                \* public node -> what its ciphertext holds
  checked               \* <<feedback, reference>> of every client call

sourceVars == <<data, uses, seeds, encryptions, given, checked>>

-----------------------------------------------------------------------------
(* plan_public_ciphertexts *)

Padded(values) == [k \in 1 .. Slots |-> IF k \in DOMAIN values THEN values[k] ELSE "zero"]

\* Wrong on purpose: a negative zero is stripped like a positive one.
KeyOfNumbers(values) ==
  SubSeq(values, 1, Max({0} \cup {k \in DOMAIN values : values[k] \notin {"zero", "negzero"}}))
Key(values) ==
  SubSeq(values, 1, Max({0} \cup {k \in DOMAIN values : values[k] # "zero"}))

Publics(p, assigned, alive) ==
  {i \in alive : p.op[i] = "source" /\ assigned[i] # Input}
GroupOf(assigned, publics, key) == {i \in publics : Key(assigned[i]) = key}
Keys(assigned, publics) == {Key(assigned[i]) : i \in publics}

With(f, x, v) == [y \in DOMAIN f \cup {x} |-> IF y = x THEN v ELSE f[y]]

(* get(node): an independent ciphertext, the seed of its group cloned unless  *)
(* this is the only node that wants it.                                    *)
IsPublic(i) == i \in Publics(prog, data, live)

\* Wrong on purpose: the seed outlives the last node that wants it.
SeedsNeverFreed(key, seed) == With(seeds, key, seed)
SeedsAfter(key, seed) ==
  IF uses[key] > 1 THEN With(seeds, key, seed)
  ELSE [k \in DOMAIN seeds \ {key} |-> seeds[k]]

GetPublic(i) ==
  LET key == Key(data[i])
      seeded == key \in DOMAIN seeds
      seed == IF seeded THEN seeds[key] ELSE Padded(data[i])
  IN  /\ uses[key] > 0
      /\ uses' = [uses EXCEPT ![key] = @ - 1]
      /\ encryptions' = IF seeded THEN encryptions ELSE [encryptions EXCEPT ![key] = @ + 1]
      /\ seeds' = SeedsAfter(key, seed)
      /\ given' = With(given, i, seed)

(* client_feedback: the k-th call is checked against the k-th entry of       *)
(* feedback_outputs, which has one for every feedback of the file.          *)
FeedbackReferences ==
  [k \in 1 .. Cardinality(Feedbacks(prog)) |->
     LET f == CHOOSE g \in Feedbacks(prog) : EpochOf(prog, g) = k
         hidden == prog.parents[f][1]
     IN  IF hidden \in prog.outputs THEN hidden ELSE NoReference]

CallClient(i) == checked' = Append(checked, <<i, FeedbackReferences[Len(checked) + 1]>>)

Source(i) == IF IsPublic(i) THEN GetPublic(i) /\ UNCHANGED <<data, checked>>
             ELSE IF i \in Feedbacks(prog)
             THEN CallClient(i) /\ UNCHANGED <<data, uses, seeds, encryptions, given>>
             ELSE UNCHANGED sourceVars

SourcesInit ==
  \E p \in Programs, lim \in LiveLimits :
    /\ InitSchedule(p, lim)
    /\ \E assigned \in SourceData(p) :
         LET publics == Publics(p, assigned, live)
         IN  /\ data = assigned
             /\ uses = [key \in Keys(assigned, publics) |->
                          Cardinality(GroupOf(assigned, publics, key))]
             /\ encryptions = [key \in Keys(assigned, publics) |-> 0]
    /\ seeds = <<>> /\ given = <<>> /\ checked = <<>>

SourcesNext ==
  \E fits \in SUBSET ready :
    /\ ready \cap Feedbacks(prog) \subseteq fits
    /\ ready # {}
    /\ Source(Selection(fits))
    /\ Complete(Selection(fits))

SourcesSpec == SourcesInit /\ [][SourcesNext]_<<schedule, sourceVars>>

-----------------------------------------------------------------------------
(* Properties *)

(* Every public node got an encryption of its own vector, padded to the      *)
(* slots: sharing by stripped keys never confuses two vectors.              *)
PublicRight == \A i \in DOMAIN given : given[i] = Padded(data[i])

(* Under any order, uses counts the nodes still to come, a seed is kept      *)
(* exactly while some node of its group has come and another has not, no      *)
(* vector is encrypted twice, and no node is refused.                       *)
SeedsExact ==
  LET publics == Publics(prog, data, live)
      left(key) == Cardinality(GroupOf(data, publics, key) \ done)
      came(key) == GroupOf(data, publics, key) \cap done # {}
  IN  /\ DOMAIN given = publics \cap done
      /\ \A key \in Keys(data, publics) :
           /\ uses[key] = left(key)
           /\ encryptions[key] = IF came(key) THEN 1 ELSE 0
      /\ DOMAIN seeds = {key \in Keys(data, publics) : came(key) /\ left(key) > 0}

(* When no feedback is dead, every client call is checked against the        *)
(* reference of its own feedback, whatever the frontier does in between.     *)
ReferenceIsOwn ==
  Feedbacks(prog) \subseteq live =>
    \A k \in DOMAIN checked :
      LET hidden == prog.parents[checked[k][1]][1]
      IN  checked[k][2] = IF hidden \in prog.outputs THEN hidden ELSE NoReference
=============================================================================
