------------------------------- MODULE MCStage1 -------------------------------
(***************************************************************************)
(* Instances of a Stage 1 run: a layer of eight heads of two channels and   *)
(* eight state coordinates, two layers, slots modulo 251.                   *)
(***************************************************************************)
EXTENDS Stage1Properties

Small ==
  [d_model |-> 4, d_inner |-> 16, num_heads |-> 8, head_dim |-> 2, state_size |-> 8,
   conv_dim |-> 32, conv_kernel |-> 2, proj_dim |-> 56]

----------------------------------------------------------------------------
(* Payloads: weights are small and spread over the residues.  The expected  *)
(* outputs are those of Mamba2Reference, evaluated once.                   *)

W(seed, i, j) == (17 * seed + 31 * i + 7 * j + 3 * i * j) % 11
Vec(seed, n) == <<>> \o [i \in 1 .. n |-> 1 + W(seed, i, 2 * i)]
Matrix(seed, rows, columns) ==
  <<>> \o [o \in 1 .. rows |-> <<>> \o [i \in 1 .. columns |-> W(seed, o, i)]]

Poly(c, a, b) == [kind |-> "cheb", c |-> c, a |-> a, b |-> b]
Newtons(kind, c, iterations) ==
  [kind |-> kind, c |-> c, a |-> 3, b |-> 2, damping |-> 5, guess |-> 7,
   iterations |-> iterations, stages |-> <<>>, seed |-> 0, bound |-> 0]
Schedule(n) ==
  [kind |-> "scheduled", c |-> <<>>, a |-> 1, b |-> 0, damping |-> 1, guess |-> 0,
   iterations |-> 0, stages |-> <<>> \o [i \in 1 .. n |-> [a |-> 2 + i, b |-> i]],
   seed |-> 6, bound |-> 8]
NoNorm == [kind |-> "none"]

NoJoint == [on |-> FALSE, format |-> "", p |-> <<>>, q |-> <<>>, a |-> <<>>, b |-> <<>>]
Joint ==
  [on |-> TRUE, format |-> "fhemamba-m1-joint-v1",
   p |-> <<Vec(1, 8), Vec(2, 8), Vec(3, 8)>>, q |-> <<Vec(4, 8), Vec(5, 8), Vec(7, 8)>>,
   a |-> Vec(6, 8), b |-> Vec(8, 8)]

(* Calibrated bounds, per head so that groups and layers differ. *)
Bounds(seed) ==
  [source |-> "calibration_text", state |-> 30 + seed, fifo |-> 14 + seed,
   heads |-> <<>> \o [h \in 1 .. 8 |-> 4 * h + seed],
   rows |-> <<>> \o [r \in 1 .. 16 |-> 2 * r + seed],
   points |-> [y |-> 10 + 2 * seed, residual |-> 18 + seed, output |-> 22 + seed,
               proj |-> 13 + seed, dt |-> 2 + seed, conv_silu |-> 20 + seed]]

LayerOf(seed) ==
  [in_w |-> Matrix(seed, 56, 4), out_w |-> Matrix(seed + 1, 4, 16),
   block_norm_w |-> Vec(seed, 4), gated_norm_w |-> Vec(seed + 2, 16),
   conv_w |-> Matrix(seed + 3, 32, 2), conv_b |-> Vec(seed + 3, 32),
   dt_bias |-> Vec(seed + 4, 8), a_neg |-> Vec(seed + 5, 8), d_skip |-> Vec(seed + 6, 8),
   eps_block |-> 9, eps_gated |-> 4,
   rms |-> Newtons("poly-newton", <<3, 5, 0, 2>>, 1),
   gated |-> Newtons("const-newton", <<>>, 2),
   conv |-> Poly(<<1, 4, 2, 0, 3, 6>>, 2, 1),
   gate |-> Poly(<<2, 5, 3>>, 3, 5),
   dt |-> Poly(<<4, 0, 1, 7>>, 2, 3),
   exp |-> [kind |-> "cheb", c |-> <<1, 6, 0, 2, 5>>, a |-> 3, b |-> 8, squarings |-> 2,
            mask |-> <<>>],
   joint |-> NoJoint, bounds |-> Bounds(seed), output |-> <<>>]

PayloadOf(layers) ==
  [layers |-> layers, final_w |-> Vec(9, 4), final_eps |-> 3, final_norm |-> NoNorm,
   inputs |-> <<Vec(10, 4), Vec(12, 4), Vec(15, 4)>>, prompt |-> 0, generate |-> 0,
   vocab |-> 0, embedding |-> <<>>, lm_head |-> <<>>, lm_bias |-> <<>>,
   expected |-> <<>>, expected_ids |-> <<>>, wrong |-> {}]

MaskedExp == [LayerOf(2).exp EXCEPT !.mask = <<1, 1, 0, 1, 0, 0, 0, 0>>]
FirstLayer ==
  [LayerOf(1) EXCEPT !.output = <<<<25, 63, 181, 94>>, <<80, 102, 246, 51>>,
                                  <<43, 131, 106, 24>>>>]
PlainPayload ==
  [PayloadOf(<<FirstLayer, [LayerOf(2) EXCEPT !.exp = MaskedExp]>>) EXCEPT !.expected =
     <<<<116, 54, 25, 132>>, <<235, 68, 165, 36>>, <<42, 120, 121, 191>>>>]

(* A reference that differs in the last value of the second token. *)
WrongPayload ==
  [PayloadOf(<<[FirstLayer EXCEPT !.output[2][4] = 52]>>) EXCEPT !.wrong = {2}]

BalancedPayload ==
  [PayloadOf(<<[LayerOf(3) EXCEPT !.gated = Newtons("sq-poly-newton", <<3, 2, 6>>, 1)],
               [LayerOf(4) EXCEPT !.gated = Newtons("sq-poly-newton", <<5, 1, 2>>, 1)]>>)
     EXCEPT !.expected =
     <<<<202, 231, 128, 60>>, <<147, 142, 21, 20>>, <<197, 193, 244, 18>>>>]

Scheduling(l) == [l EXCEPT !.rms = Schedule(2), !.gated = Schedule(1)]
ScheduledPayload ==
  [PayloadOf(<<Scheduling(LayerOf(5)), Scheduling([LayerOf(6) EXCEPT !.joint = Joint])>>)
     EXCEPT !.final_norm = Schedule(2), !.expected =
     <<<<117, 168, 237, 4>>, <<80, 124, 205, 22>>, <<202, 106, 250, 82>>>>]

LoopPayload ==
  [PayloadOf(<<[LayerOf(1) EXCEPT !.joint = Joint], LayerOf(7)>>)
     EXCEPT !.prompt = 2, !.generate = 2, !.vocab = 5, !.embedding = Matrix(5, 5, 4),
     !.expected_ids = <<0, 4>>, !.expected =
     <<<<107, 221, 16, 32>>, <<143, 235, 148, 174>>, <<162, 54, 235, 156>>>>]

(* A layer whose input projection is zero; read as far as that product. *)
ZeroPayload ==
  PayloadOf(<<[FirstLayer EXCEPT !.in_w = [o \in 1 .. 56 |-> <<0, 0, 0, 0>>]]>>)

Exported ==
  [zero |-> ZeroPayload, plain |-> PlainPayload, balanced |-> BalancedPayload, scheduled |-> ScheduledPayload,
   loop |-> LoopPayload, wrong |-> WrongPayload]

----------------------------------------------------------------------------
(* Invocations *)

Base ==
  [role |-> "inline", chain |-> TRUE, max_layers |-> 0, payload |-> "plain", tokens |-> 3,
   loop |-> FALSE, depth |-> 44, streams |-> 1, batch |-> 64, replicas |-> 0,
   interleaved |-> FALSE, true_bsgs |-> FALSE, fused |-> "off", logarithmic |-> FALSE,
   rep_blocks |-> FALSE, shared |-> FALSE, keys |-> "compact", affordable |-> 0,
   normalized |-> FALSE, row |-> FALSE, normalized_meta |-> FALSE,
   complex_pairing |-> FALSE, meta_bts |-> FALSE, meta_residual |-> {},
   norm_margin |-> 1, state_margin |-> 1, auto_headroom |-> 12, residual_headroom |-> 0,
   carried_headroom |-> 0, post |-> FALSE, post_layers |-> {}, interval |-> 0,
   refresh |-> {}, reencrypt |-> {}, pt_cache |-> "full", pt_level |-> 0,
   pt_weight_level |-> 0, pt_budget |-> 10000, miss_level |-> FALSE, late_level |-> FALSE,
   coefficient_aware |-> FALSE, joint_periodic |-> FALSE, encode_threads |-> 1]

Invocations ==
  [chain |-> [Base EXCEPT !.complex_pairing = TRUE, !.refresh = {1},
     !.auto_headroom = 3],
   wide |-> [Base EXCEPT !.payload = "balanced", !.depth = 36, !.auto_headroom = 9, !.batch = 128, !.interleaved = TRUE,
     !.true_bsgs = TRUE, !.fused = "all", !.logarithmic = TRUE, !.shared = TRUE,
     !.rep_blocks = TRUE, !.keys = "balanced", !.affordable = 40, !.normalized = TRUE,
     !.row = TRUE, !.meta_bts = TRUE, !.normalized_meta = TRUE, !.meta_residual = {2},
     !.post_layers = {2}, !.pt_level = 2, !.pt_weight_level = 4],
   streams |-> [Base EXCEPT !.chain = FALSE, !.depth = 36, !.auto_headroom = 6, !.batch = 128, !.streams = 2,
     !.replicas = -1, !.keys = "full", !.reencrypt = {1}, !.refresh = {2},
     !.pt_cache = "masks", !.miss_level = TRUE],
   loop |-> [Base EXCEPT !.payload = "loop", !.auto_headroom = 9, !.loop = TRUE, !.shared = TRUE,
     !.interval = 2, !.pt_cache = "off"],
   scheduled |-> [Base EXCEPT !.payload = "scheduled", !.depth = 48, !.auto_headroom = 6, !.joint_periodic = TRUE,
     !.late_level = TRUE, !.coefficient_aware = TRUE, !.normalized = TRUE,
     !.norm_margin = 2, !.pt_level = 3, !.pt_budget = 1200, !.post = TRUE],
   ahead |-> [Base EXCEPT !.chain = FALSE, !.tokens = 1, !.replicas = -1,
     !.encode_threads = 2, !.pt_budget = 1500],
   handoff |-> [Base EXCEPT !.role = "separated", !.max_layers = 1, !.tokens = 2,
     !.depth = 36],
   wrong |-> [Base EXCEPT !.payload = "wrong", !.chain = FALSE, !.tokens = 2],
   zero |-> [Base EXCEPT !.payload = "zero", !.chain = FALSE, !.tokens = 1, !.replicas = -1],
   blank |-> [Base EXCEPT !.payload = "zero", !.chain = FALSE, !.tokens = 1,
     !.pt_cache = "off"],
   refused |-> [Base EXCEPT !.streams = 2, !.batch = 128, !.replicas = -1]]

(* Definitions of their own, so that TLC evaluates each of them once. *)
MCDims == Small
MCPayloads == Exported
MCConfigs == Invocations
=============================================================================
