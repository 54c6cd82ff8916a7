--------------------------- MODULE Stage1Properties ---------------------------
(***************************************************************************)
(* What a Stage 1 run promises, and the scalar recurrence it implements.    *)
(***************************************************************************)
EXTENDS Stage1Handoff

----------------------------------------------------------------------------
(* The refinement mapping: slots read back as the vectors of the reference. *)

FirstSlots(ct, n) == IF ct.v = <<>> THEN Constant(n, 0) ELSE SubSeq(ct.v, 1, n)

InLayer ==
  pc \in {"residual", "block_norm", "in_proj", "conv", "gate", "dt", "decay", "expand",
          "scan", "skip_gate", "gated_norm", "out_proj"}
BeforeConv == pc \in {"residual", "block_norm", "in_proj", "conv"}
LastStream == stream = C.streams - 1

BarPend ==
  IF ~InLayer \/ BeforeConv \/ pc \in {"skip_gate", "gated_norm", "out_proj"} THEN {}
  ELSE IF pc = "scan" /\ LastStream
  THEN {h \in Heads : h \div G.group_heads >= group}
  ELSE Heads

XbcOf(ct) == SubSeq(ct.v, G.xbc0 + 1, G.xbc0 + Dims.conv_dim)

(* A coordinate of the state, in the last stream's ciphertext of its group, *)
(* times the scale it is stored under.                                     *)
Coordinate(k, h, p, n) ==
  LET g == h \div G.group_heads
      row == (h % G.group_heads) * Dims.head_dim + p
      ct == state[k][(C.streams - 1) * G.group_count + g + 1]
  IN  IF state[k] = <<>> \/ ct.v = <<>> THEN 0
      ELSE R(At(ct.v, n * G.block + row) * Unit(RowScale(Layer(k), G, C, g, row)))

Abs == INSTANCE Mamba2Reference WITH
  lay <- IF InLayer THEN layer ELSE IF pc = "final" THEN Len(Layered) + 1 ELSE 0,
  hid <- FirstSlots(reg.hidden, Dims.d_model),
  win <- [k \in DOMAIN Layered |-> <<>> \o [i \in DOMAIN fifo[k] |-> XbcOf(fifo[k][i])]],
  st <- [k \in DOMAIN Layered |-> [h \in Heads |-> [p \in 0 .. (Dims.head_dim - 1) |->
          [n \in 0 .. (Dims.state_size - 1) |-> Coordinate(k, h, p, n)]]]],
  pend <- BarPend,
  entered <- InLayer /\ ~BeforeConv,
  outs <- <<>> \o [t \in DOMAIN outs |->
            IF outs[t].v = <<>> THEN decrypted[t] ELSE Decrypted(outs[t])]

(* Every token of every stream, and every id, is the exported one, but for   *)
(* the tokens whose export is not the recurrence's (`wrong`).              *)
OutputsExported ==
  /\ \A t \in DOMAIN outs :
       IF decrypted[t] # <<>> THEN decrypted[t] = Reference[t] <=> t \notin LoadedPayload.wrong
       ELSE \A s \in 0 .. (C.streams - 1) :
              SubSeq(outs[t].v, s * G.stride + 1, s * G.stride + Dims.d_model) = Reference[t]
                <=> t \notin LoadedPayload.wrong
  /\ pc = "compare" => IdsRight

(* The packed, rotated, scaled, refreshed and cached circuit computes the   *)
(* reference recurrence, on every token, with every group of heads advanced *)
(* once; a process that dies starts over (run_layer, the token loop).  The  *)
(* exported outputs are those of the recurrence.                           *)
ComputesReference == Abs!Spec /\ []OutputsExported

----------------------------------------------------------------------------
(* Rotations *)

Covered(amount) ==
  \/ amount \in Keys
  \/ /\ Range(NafSteps(amount)) \subseteq Keys
     /\ SumSeq(NafSteps(amount)) = amount

(* No rotation throws "missing rotation key": an index has its own key or   *)
(* every step of its signed-digit form does, and the steps add up to it     *)
(* (rotate, required_rotations and the key plan).                          *)
KeysCover == pc # "start" => \A amount \in Rotations(events) : Covered(amount)

LayerEnds == pc = "final" \/ (pc = "residual" /\ layer > 1)
Counted == {i \in RequiredRotations(Dims, G, C) :
              FrequencyOf(RotationFamilies(Dims, G, C), i) > 0}

(* Every rotation of a layer is one that the frequencies count: the budget  *)
(* of the balanced key plan can prefer it to a colder one (rotate,          *)
(* rotation_frequencies).                                                  *)
RotationsCounted == rots \subseteq Counted

(* The frequencies that decide which keys are worth their memory count       *)
(* exactly the rotations a layer makes once it carries a state: none is      *)
(* missing, and none is counted that never happens.                         *)
RotationsExact ==
  LayerEnds =>
    /\ RotationsCounted
    /\ token > 0 /\ C.streams = 1 => Counted \subseteq rots

----------------------------------------------------------------------------
(* Levels *)

Live == {reg[f] : f \in DOMAIN reg} \cup Range(outs)
          \cup UNION {Range(fifo[k]) : k \in DOMAIN fifo}
          \cup UNION {Range(state[k]) : k \in DOMAIN state}
Boots == {e[2] : e \in {x \in events : x[1] = "boot"}}

(* No ciphertext is computed past the last level, although a refresh is     *)
(* skipped when its gain is below a floor and every segment is checked only *)
(* at its start (bootstrap_needed, the requirements of the depth planner).  *)
LevelsSuffice ==
  /\ \A ct \in Live : ct.lvl <= C.depth
  /\ \A b \in Boots : b.deepest <= C.depth

----------------------------------------------------------------------------
(* Plaintexts *)

(* Whatever the threads and the order of their jobs, a product encoded ahead *)
(* multiplies by what its serial loop would, at the same levels and in the  *)
(* same order (prefetch_from, the position loop of the product).            *)
AheadIsSerial ==
  \A name \in Products :
    ahead.name = name /\ ahead.next = EndOf(name) => ahead.used = Serial(name)

(* A plaintext encoded deeper than the ciphertext it meets would raise the   *)
(* product by the difference: none, cached or from a table, is; it is       *)
(* encoded in full, at the ciphertext's level, or above it (cached_plain).  *)
InTime(e) == e[3] \in {0, e[4]} \/ e[3] <= e[4]
CacheSpendsNoDepth == \A e \in events : e[1] = "pt" => InTime(e)

(* A product multiplies by the plaintexts of its serial loop, whoever        *)
(* encoded them, and loses no level by where they were kept.                *)
PlaintextsExact == AheadIsSerial /\ CacheSpendsNoDepth

(* The table of a product without replicas is used whatever the level of    *)
(* its entries; the option that gives them one asks the caller for a level   *)
(* that every use reaches, and 0 is always one (--pt-cache-level).          *)
TableKey(key) == \E name \in Products : key[1] = name /\ ~(ShapeOfProduct(name).replicas > 1)
TablesFull == \A key \in DOMAIN PlainCache : TableKey(key) => PlainCache[key].level = 0

----------------------------------------------------------------------------
(* Refresh bounds *)

Calibration(what) ==
  TrustedBounds(Layer(IF what.layer = 0 THEN Len(Layered) ELSE what.layer))

CarriedEnough(b) ==
  LET bounds == Calibration(b.what) IN
  IF b.what.kind = "fifo" THEN b.bound >= bounds.fifo
  ELSE ~C.normalized /\ bounds.heads # <<>> =>
         \A h \in HeadsOf(b.what.slot % G.group_count) : b.bound >= bounds.heads[h + 1]

TransientEnough(b) ==
  LET points == Calibration(b.what).points
      kind == b.what.kind
  IN  CASE kind = "y_scaled" /\ "y" \in DOMAIN points ->
             b.bound * YScale(Layer(b.what.layer)) >= 2 * points["y"]
        [] kind \in {"y", "y_out"} /\ "y" \in DOMAIN points -> b.bound >= points["y"]
        [] kind = "final_norm_scaled" /\ "output" \in DOMAIN points ->
             b.bound * FinalScale(LoadedPayload, C) >= 2 * points["output"]
        [] kind \in DOMAIN points -> b.bound >= points[kind]
        [] OTHER -> TRUE

Owned(b) == IF IsCarried(b.what) THEN CarriedEnough(b) ELSE TransientEnough(b)

(* A refresh divides by a bound on what it refreshes: the calibrated maximum *)
(* of the ciphertext's own layer, and of its own group of heads, not of the *)
(* layer whose bounds happen to be active (active_*, bootstrap_bound_for).   *)
BoundOfOwner == \A b \in Boots : Owned(b)

----------------------------------------------------------------------------
(* Outcome *)

OutputsWhole == \A t \in 0 .. (C.tokens - 1) : Present(OutputFile(t))

(* A run passes exactly when its outputs are the reference's: inline always, *)
(* over a handoff when, whatever died in between, every output was written   *)
(* whole and no secret key lies on the server's side.                        *)
VerdictExact ==
  verdict \in {"passed", "failed"} =>
    (verdict = "passed" <=>
       /\ LoadedPayload.wrong \cap 1 .. C.tokens = {}
       /\ Separated(C) => OutputsWhole /\ SecretFiles = {})

(* Every run ends, refused, failed or with a verdict, after deaths and       *)
(* relaunches of its processes.                                             *)
Concludes == <>(pc = "done")
=============================================================================
