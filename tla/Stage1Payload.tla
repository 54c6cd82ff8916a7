---------------------------- MODULE Stage1Payload ----------------------------
(***************************************************************************)
(* The host side of the Stage 1 decoder: the exported layer payloads, the  *)
(* options of a run, and the plaintext constants each layer folds out of   *)
(* its weights.  A polynomial is [c, a, b]: residue coefficients and the    *)
(* affine map of its interval.  Calibrated bounds are in half units (19 is *)
(* 9.5); as a residue, bound x is Div(x, 2).                               *)
(***************************************************************************)
EXTENDS Stage1Depth

CONSTANTS
  Dims,      \* d_model, d_inner, num_heads, head_dim, state_size, conv_dim, ...
  Payloads,  \* name -> [layers, final_w, final_eps, final_norm, vocab, head, ...]
  Configs    \* name -> the options of one invocation

(* The checkpoints that a calibration may bound. *)
CalibratedNames ==
  {"residual", "proj", "conv_silu", "dt", "y", "output", "gated_variance", "gated_newton"}

ASSUME DimsAssumption ==
  Dims \in [{"d_model", "d_inner", "num_heads", "head_dim", "state_size", "conv_dim",
             "conv_kernel", "proj_dim"} -> Nat \ {0}]

(* A chain has a layer (its reader refuses none), and a calibrated bound is  *)
(* the greatest magnitude seen.                                            *)
ASSUME PayloadsAssumption ==
  \A p \in DOMAIN Payloads :
    LET layers == Payloads[p].layers IN
    /\ layers \in Seq(Range(layers)) \ {<<>>}
    /\ \A k \in DOMAIN layers :
         LET bounds == layers[k].bounds IN
         /\ bounds \in [source : STRING, state : Nat, fifo : Nat, heads : Seq(Nat),
                        rows : Seq(Nat), points : {bounds.points}]
         /\ bounds.points \in [DOMAIN bounds.points -> Nat]
         /\ DOMAIN bounds.points \subseteq CalibratedNames
         /\ {layers[k].rms.iterations, layers[k].gated.iterations, layers[k].exp.squarings}
              \subseteq Int

(* What parse_args refuses, and one thing it does not: a margin between zero *)
(* and one, which divides a refreshed value by less than was measured.       *)
ASSUME ConfigsAssumption ==
  \A r \in DOMAIN Configs :
    LET c == Configs[r] IN
    /\ c.payload \in DOMAIN Payloads
    /\ {c.batch, c.streams, c.max_layers, c.tokens} \subseteq Nat /\ c.replicas \in Int
    /\ {c.norm_margin, c.state_margin} \subseteq Nat \ {0}
    /\ c.keys \in {"full", "compact", "balanced"}

Heads == 0 .. (Dims.num_heads - 1)
Unit(bound) == Div(bound, 2)

----------------------------------------------------------------------------
(* What the readers of meta.json and chain.json accept *)

ValidPoly(poly, norm) ==
  IF poly.kind = "scheduled"
  THEN norm /\ Len(poly.stages) \in 1 .. 64 /\ poly.seed # 0
  ELSE TRUE

ValidJointGate(joint) ==
  /\ joint.format = "fhemamba-m1-joint-v1"
  /\ \A row \in Range(joint.p) \cup Range(joint.q) : Len(row) = Dims.num_heads

ValidLayer(L) ==
  /\ ValidPoly(L.rms, TRUE) /\ ValidPoly(L.gated, TRUE)
  /\ \A poly \in {L.conv, L.gate, L.dt, L.exp} : ValidPoly(poly, FALSE)
  /\ Range(L.exp.mask) \subseteq {0, 1}
  /\ L.exp.mask # <<>> => Len(L.exp.mask) = Dims.num_heads
  /\ L.joint.on => ValidJointGate(L.joint) /\ 0 \notin Range(L.exp.mask)
  /\ L.bounds.heads # <<>> => Len(L.bounds.heads) = Dims.num_heads
  /\ L.bounds.rows # <<>> => Len(L.bounds.rows) = Dims.num_heads * Dims.head_dim
  /\ Dims.proj_dim = Dims.d_inner + Dims.conv_dim + Dims.num_heads
  /\ Dims.d_inner = Dims.num_heads * Dims.head_dim
  /\ Dims.conv_dim = Dims.d_inner + 2 * Dims.state_size

(* require_same_layer_dims holds by one Dims for all layers. *)
ValidPayload(p) ==
  /\ \A k \in DOMAIN p.layers : ValidLayer(p.layers[k])
  /\ p.final_norm.kind \in {"scheduled", "none"} /\ ValidPoly(p.final_norm, TRUE)

(* Bounds count only with the provenance of an independent calibration. *)
TrustedBounds(L) ==
  IF L.bounds.source = "calibration_text" THEN L.bounds
  ELSE [L.bounds EXCEPT !.state = 0, !.heads = <<>>, !.rows = <<>>, !.fifo = 0,
                        !.points = <<>>]

(* joint_coefficient_slots: value h at the decay slot of head h, per stream *)
(* or, periodic, repeated with the smallest period that divides the stride. *)
JointPeriod(G, c) ==
  CHOOSE n \in 1 .. G.stride :
    /\ PowerOfTwo(n) /\ n >= Dims.num_heads
    /\ \A k \in 1 .. (n - 1) : ~(PowerOfTwo(k) /\ k >= Dims.num_heads)

JointCoefficientSlots(G, row) ==
  Slots(G.batch, LAMBDA s :
    LET h == (s % G.stride) - G.dt0 IN IF h \in Heads THEN R(row[h + 1]) ELSE 0)

JointPeriodicSlots(G, c, row) ==
  Slots(G.batch, LAMBDA s :
    LET h == (s - G.dt0) % JointPeriod(G, c)
    IN  IF h \in Heads THEN R(row[h + 1]) ELSE 0)

----------------------------------------------------------------------------
(* make_layer_plan: norms run on V = sum(x^2) + width * eps, and every      *)
(* affine map, damping factor and sqrt(width) is folded into a constant.    *)

YScale(L) ==
  LET points == TrustedBounds(L).points IN
  IF "y" \in DOMAIN points THEN Max2(2, points["y"]) ELSE 2

MeanGated(L) == L.gated.kind \in {"sq-poly-newton", "scheduled"}

HeadMask(L, h) == IF L.exp.mask = <<>> THEN 1 ELSE L.exp.mask[h + 1]

GroupBounds(L, G) ==
  LET heads == TrustedBounds(L).heads IN
  IF heads = <<>> THEN <<>>
  ELSE <<>> \o [g \in 1 .. G.group_count |->
         SetMax({heads[(g - 1) * G.group_heads + h] : h \in 1 .. G.group_heads})]

(* Scale of a row of a group, in the coordinates the state is stored in. *)
RowScale(L, G, c, g, row) ==
  IF ~c.normalized THEN 2
  ELSE IF c.row THEN Max2(1, TrustedBounds(L).rows[g * G.block + row + 1])
  ELSE Max2(1, GroupBounds(L, G)[g + 1])

NormalizedPossible(L, G, c) ==
  c.normalized => /\ Len(GroupBounds(L, G)) = G.group_count
                  /\ c.row => TrustedBounds(L).rows # <<>>

(* build_normalized_state_layout and its row-wise form: the update mask     *)
(* selects the group's block of x * dt and divides by the scales, the       *)
(* readout mask multiplies by them on the rows a reduction leaves.          *)
NormalizedUpdateMask(L, G, c, g) ==
  Slots(G.batch, LAMBDA s :
    IF s \div G.block = g THEN Div(1, Unit(RowScale(L, G, c, g, s % G.block))) ELSE 0)

NormalizedReadoutMask(L, G, c, g) ==
  Slots(G.batch, LAMBDA s : IF s < G.block THEN Unit(RowScale(L, G, c, g, s)) ELSE 0)

(* A matrix whose columns take the norm's weights and a constant. *)
Folded(matrix, weights, factor) ==
  <<>> \o [o \in DOMAIN matrix |-> <<>> \o [i \in DOMAIN weights |->
    R(matrix[o][i] * weights[i] * factor)]]

InWFolded(L) ==
  Folded(L.in_w, L.block_norm_w, IF Scheduled(L.rms) THEN 1 ELSE Sqrt(Dims.d_model))

OutWFolded(L) ==
  Folded(L.out_w, L.gated_norm_w,
         IF MeanGated(L) THEN Unit(YScale(L)) ELSE Sqrt(Dims.d_inner))

ScaledCoeffs(poly, k) == <<>> \o [i \in DOMAIN poly.c |-> R(poly.c[i] * k)]

(* One vector per mask of the layer, tiled once per stream stride. *)
LayerPlan(L, G, c) ==
  LET Tile(Value(_)) == Slots(G.batch, LAMBDA s : R(Value(s % G.stride)))
      Channel(s) == s - G.xbc0
      Head0(s) == s - G.dt0
      OnXbc(s) == Channel(s) \in 0 .. (Dims.conv_dim - 1)
      OnDt(s)  == Head0(s) \in Heads
  IN
  [in_w |-> InWFolded(L), out_w |-> OutWFolded(L),
   taps |-> <<>> \o [t \in 1 .. Dims.conv_kernel |-> Tile(LAMBDA s :
      IF OnXbc(s) THEN L.conv.a * L.conv_w[Channel(s) + 1][t] ELSE 0)],
   conv_const |-> Tile(LAMBDA s :
      L.conv.b + (IF OnXbc(s) THEN L.conv.a * L.conv_b[Channel(s) + 1] ELSE 0)),
   gate_mask |-> Tile(LAMBDA s : IF s < Dims.d_inner THEN L.gate.a ELSE 0),
   dt_mask |-> Tile(LAMBDA s :
      IF ~OnDt(s) THEN 0 ELSE IF L.joint.on THEN L.joint.a[Head0(s) + 1] ELSE L.dt.a),
   dt_const |-> Tile(LAMBDA s :
      IF ~OnDt(s) THEN 0
      ELSE IF L.joint.on THEN L.joint.b[Head0(s) + 1]
      ELSE L.dt.a * L.dt_bias[Head0(s) + 1] + L.dt.b),
   joint_dt_bias |-> Tile(LAMBDA s : IF OnDt(s) THEN L.dt_bias[Head0(s) + 1] ELSE 0),
   a_vec |-> Tile(LAMBDA s :
      IF ~OnDt(s) THEN 0
      ELSE HeadMask(L, Head0(s)) * Div(L.exp.a, Pow2[L.exp.squarings])
             * L.a_neg[Head0(s) + 1]),
   d_vec |-> Tile(LAMBDA s :
      IF s < Dims.d_inner THEN L.d_skip[(s \div Dims.head_dim) + 1] ELSE 0),
   rms_coeffs |-> ScaledCoeffs(L.rms, Div(L.rms.damping, Sqrt(Dims.d_model))),
   a_rms_v |-> Div(L.rms.a, Dims.d_model),
   gate_coeffs |-> ScaledCoeffs(L.gate,
      IF MeanGated(L) THEN Div(1, Unit(YScale(L))) ELSE 1),
   a_gated_v |-> Div(L.gated.a, Dims.d_inner),
   gated_guess_v |-> Div(L.gated.guess, Sqrt(Dims.d_inner)),
   exp_squarings |-> IF L.joint.on THEN 0 ELSE L.exp.squarings,
   y_scale |-> Unit(YScale(L)),
   state_bound |-> IF c.normalized THEN 2 ELSE TrustedBounds(L).state,
   group_bounds |-> IF c.normalized THEN [g \in 1 .. G.group_count |-> 2]
                    ELSE GroupBounds(L, G),
   fifo_bound |-> TrustedBounds(L).fifo,
   points |-> TrustedBounds(L).points,
   req |-> Requirements(L, c)]

(* Constants of the final norm: a dedicated scheduled recipe, or the fit of *)
(* the last layer, on the residual divided by final_norm_scale.             *)
FinalScale(p, c) ==
  LET points == TrustedBounds(p.layers[Len(p.layers)]).points
  IN  IF "output" \in DOMAIN points THEN Max2(2, points["output"] * c.norm_margin) ELSE 2

FinalNorm(p, c) ==
  LET rms   == IF p.final_norm.kind = "scheduled" THEN p.final_norm
               ELSE p.layers[Len(p.layers)].rms
      scale == Unit(FinalScale(p, c))
  IN  [rms |-> rms, scale |-> scale,
       a_v |-> Div(rms.a * scale * scale, Dims.d_model),
       coeffs |-> ScaledCoeffs(rms, Div(rms.damping * scale, Sqrt(Dims.d_model))),
       w |-> <<>> \o [i \in DOMAIN p.final_w |->
               R(p.final_w[i] * (IF Scheduled(rms) THEN scale ELSE Sqrt(Dims.d_model)))]]

----------------------------------------------------------------------------
(* Options.  parse_args refuses what AcceptedOptions excludes, main what    *)
(* AcceptedGeometry and AcceptedPayload exclude, each by throwing before a *)
(* ciphertext or a file exists.                                            *)

Separated(c) == c.role # "inline"

AcceptedOptions(c) ==
  /\ c.role \in {"inline", "separated"}
  /\ Separated(c) => ~c.loop
  /\ c.tokens > 0 /\ c.depth > 0
  /\ c.refresh \cup c.reencrypt \subseteq 1 .. (c.tokens - 1)
  /\ c.refresh \cap c.reencrypt = {}
  /\ Separated(c) => c.reencrypt = {}          \* needs the secret key
  /\ {c.pt_level, c.pt_weight_level} \subseteq 0 .. (c.depth - 1)
  /\ c.encode_threads \in 1 .. 64
  /\ PowerOfTwo(c.streams)
  /\ c.streams > 1 => ~c.chain /\ c.replicas = -1
  /\ c.loop => c.streams = 1 /\ c.chain
  /\ (c.true_bsgs \/ c.interleaved) => c.replicas # -1
  /\ c.fused # "off" => c.true_bsgs
  /\ (c.row \/ c.normalized_meta) => c.normalized

(* max_layers = 0 loads every layer of a chain. *)
Layers(c) ==
  LET all == Payloads[c.payload].layers IN
  IF ~c.chain THEN SubSeq(all, 1, 1)
  ELSE IF c.max_layers > 0 /\ c.max_layers < Len(all) THEN SubSeq(all, 1, c.max_layers)
  ELSE all
FullChain(c, layers, p) == c.chain /\ Len(layers) = Len(p.layers)

VerifiedPolys(L) ==
  \A poly \in {L.rms, L.gated, L.conv, L.gate, L.dt, L.exp} :
    Len(poly.c) > 0 => PSVerified(poly.c)

(* What estimate_levels throws on. *)
ValidCounts(L) ==
  /\ \A norm \in {L.rms, L.gated} : Scheduled(norm) \/ norm.iterations >= 1
  /\ L.exp.squarings >= 0

AcceptedPayload(c) ==
  LET p == Payloads[c.payload]
      layers == Layers(c)
      last == layers[Len(layers)]
  IN  /\ ValidPayload(p)
      /\ FullChain(c, layers, p) /\ p.final_norm.kind # "scheduled" => ~Scheduled(last.rms)
      /\ c.loop => /\ p.prompt > 0 /\ FullChain(c, layers, p)
                   /\ c.tokens <= p.prompt + p.generate - 1
      /\ ~c.loop => c.tokens <= Len(p.inputs)
      /\ \A k \in DOMAIN layers : VerifiedPolys(layers[k]) /\ ValidCounts(layers[k])

AcceptedGeometry(c) ==
  /\ ValidGeometry(Dims, c)
  /\ LET g == DerivePacking(Dims, c) IN
       /\ \A k \in DOMAIN Layers(c) : NormalizedPossible(Layers(c)[k], g, c)
       /\ NafVerified(RequiredRotations(Dims, g, c))
       /\ FrequenciesAreRequired(Dims, g, c)

Accepted(c) == AcceptedOptions(c) /\ AcceptedPayload(c) /\ AcceptedGeometry(c)
=============================================================================
