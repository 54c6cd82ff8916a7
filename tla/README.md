# fhe-mamba in TLA+

A specification of the parts of fhe-mamba that decide *what happens when*: the
Stage 1 decoder that runs Mamba-2 on ciphertexts, the evaluator that schedules
packed homomorphic programs, the prefetch ring that feeds it plaintexts, and the
runners that own a GPU, a process group and a budget. The modules are written from the source under `src/`; `PROJECT.json`
maps every definition to the lines it stands for, lists every run, theorem,
hazard and finding.

In the packed evaluator the arithmetic is abstracted to what the control flow
reads of it: which object holds whose value, how many levels it has left, whether
it was masked. In the Stage 1 decoder it is kept, on residues instead of doubles:
where a value goes, how often it is added and which constant multiplies it is then
checked exactly, and approximation error is not part of the model.

## 1. The system

Paths below omit the leading `src/`; `include/` and `native/` stand for
`native/fideslib_stage0/include/` and `native/fideslib_stage0/src/`.

| Component | State it keeps | Operations | Talks to | What is hard | Correct when |
|---|---|---|---|---|---|
| Prefetch ring, `include/bounded_prefetch.hpp` | claimed and consumed indices, ring or queue, stored exception, cancellation, one mutex and one condition variable | construct, `pop`, destroy; producer threads | producers call the plaintext encoder, the evaluator pops | many waiters on one condition, failure of one worker, destruction at any time | ordered, bounded, failure ends delivery, no lost wake-up |
| Packed program, `include/packed_program.hpp` | an immutable graph of nodes with operands, widths and outputs | parse and validate | read by planner, schedule and evaluator | dead nodes, one operand used twice, feedback nodes | operands precede users |
| Use planning and ready schedule, `include/packed_lifetime.hpp`, `include/packed_schedule.hpp` | operands missing, uses to come, ready set, retained set, active epoch | construct, `select`, `complete`, `next_consumer`, `final_use` | driven by the evaluator | counters updated per edge, epochs closed by feedbacks, live limit | never stuck, nothing needed is released, feedback is a barrier |
| Depth planner, `include/packed_depth.hpp` | plan: live nodes, costs, values to refresh early | `plan_packed_depth`, `simulate_packed_depth` | its plan steers the evaluator | the simulation must stay in step with the evaluator | predicted refreshes are the refreshes made |
| Packed evaluator, `native/packed_fideslib.cpp`, `include/chebyshev_basis_cache.hpp`, `include/owned_arithmetic.hpp` | a ciphertext per node, deferred masks, shared bases, counters | `evaluate`: select, refresh operands, operate, refresh result, release | schedule, planner, mask cache, prefetch ring, client callbacks | in-place reuse of shared ciphertexts, batches that refresh bystanders, stale bases | every node holds its own value; levels suffice; nothing is released early |
| Client generation loop, `native/packed_fideslib.cpp` | index of feedback calls, generated tokens, reference outputs | callback per feedback node, gate against the reference | called by the evaluator | indexing by call count | each feedback is compared with its own reference |
| Plaintext mask cache, `include/plaintext_cache.hpp`, `include/plaintext_mask.hpp`; ciphertext reuse, `include/public_ciphertext_reuse.hpp` | LRU list with an index; kept seeds with remaining uses | `get`; `seed`, `take` | evaluator | index and list must agree; drop with the last user | same hits, evictions and age as a linear scan |
| Rotations and routing, `include/rotation_steps.hpp`, `include/rotation_batch.hpp`, `include/packed_routing.hpp` | none | signed-digit steps, batching by hoisting, diagonals | evaluator, key generation | wrap-around at half the slots | the steps add up to the rotation |
| Job runner, `src/fhemamba/benchmarks/jobs.py`, `process.py` | record in memory, `run.json`, `completion.json`, events file, flock, process group | `run_job`, `run_process`, signal handlers | a shell command; other runners through the lock | signals during cleanup, descendants, deadline over lock and run | group reaped before the lock is released, one job at a time, truthful report |
| Packed runner and GPU budget, `benchmarks/packed.py` | JSON ledger under flock | `run`, `_run` | `run_process`; other runs through the ledger | admission against a shared balance; death during the rewrite | every second charged once, budget never exceeded |
| Campaign runner, `experiments/execution/run_dgx_campaign.py` | campaign report, promotion state, resume state | `main`, gates, resume, idle-GPU wait | runs steps as subprocesses, reads their reports | resume after a crash, promotion by identity | no step promoted past a failed gate; resume loses nothing |
| Stage 1 decoder, `native/stage1_mamba2_decode_fideslib.cpp` and `stage1_mamba2_{plan,depth,config,payload}.{cpp,hpp}`, `include/{rotation_steps,plaintext_mask,stage1_joint_gates,stage1_normalization}.hpp` | per layer: recurrent state and convolution window, encrypted from token to token; active bounds; static plaintext cache; look-ahead plaintexts; client's tokens | token loop, layer phases, refresh policy, look-ahead encoding, head, comparison | encoder, bootstrapping, process separation | packing and its rotations, keys for them, refreshes skipped near the ceiling, bounds of one layer used in another, cached encodings at the wrong level, two states in one bootstrap, worker threads | computes the reference recurrence; every rotation has its keys; levels suffice; the verdict is right |
| Stage 1 process separation, `stage1_mamba2_process.cpp`, `fideslib_handoff.cpp`, `fideslib_client_server_probe.cpp` | a directory with keys, ciphertexts and results | `client-init`, `server-eval`, `client-decrypt` | each other, through files | death while writing, phases started out of order, a misplaced secret | passes only on whole outputs and without a secret on the server's side |
| Encoder and kernels, `fideslib_plaintext_encoder.cpp`, `*.cu`, `stage1_*_eval.hpp` | device buffers | numeric | decoder, evaluator | numeric agreement | tested numerically |
| Layouts and keys, `state_layout.py`, `bsgs_layout.py`, `readout_layout.py`, `rotation_keys.py` | none | pure index computations | exporters | coverage, collisions | a layout is a bijection, keys cover the rotations |
| Models, exporters, inference, calibration, diagnostics, evidence | files | sequential numeric and file transformation | offline | numeric | tested numerically |

`PROJECT.json` has one entry per component with its status, and one entry per
hazard with the line where it bites.

How they interact at run time: a campaign runs its
experiments as shell scripts under `run_process`; a job takes the resource
lock and starts a command in a process group of its own; the command may be the
packed runner, which takes its share of the GPU budget and starts the native
program in another process group; the native program parses a packed program,
plans it, and evaluates it node by node, preparing the weights of a linear map ahead through the prefetch ring,
taking plaintexts from the mask cache, and handing values to the client at feedback nodes. The stage 1 decoder is
another native program; it encodes its plaintexts ahead in threads it joins at once.

## 2. Modules

```
PrefetchChannel            abstract: an ordered channel with failure and closing
  ^ implemented by
ParallelPrefetch           the ring, workers > 1        <- ParallelPrefetchProofs
SequentialPrefetch         the queue, workers = 1       <- SequentialPrefetchProofs
  PrefetchedTerms          a linear map over it         <- MCPrefetchedTerms, SequentialPrefetchProofs
    MaskCache              the cache of encoded masks, pure operators

PackedProgram              graphs, live nodes, edges, epochs
  PackedSchedule           PackedReadySchedule          <- MCPackedSchedule, PackedScheduleProofs
    PackedEvaluator        evaluate(), on top of it     <- MCPackedEvaluator, PackedEvaluatorProofs
    PackedSources          its public inputs and client <- MCPackedSources, PackedScheduleProofs

RunJob                     run_job around run_process   <- RunJobProofs
GpuBudget                  run() of the packed runner   <- GpuBudgetProofs

Campaign                   main() of the campaign runner <- MCCampaign, CampaignProofs

Mamba2Reference            abstract: the scalar recurrence of the Python reference
  ^ implemented by
Stage1Handoff              processes over a directory, deaths    <- Stage1Properties, Stage1Proofs
  Stage1Decoder            start-up, token loop, look-ahead, head     <- MCStage1
    Stage1Layer            run_layer, one action per phase
      Stage1Refresh        bootstrap policy, Newton, joint gates
        Stage1Kernels      ciphertext operations, products, placements
          Stage1Circuit    what an invocation derives: packing, masks, cache
            Stage1Payload  payloads, options, folded constants
              Stage1Depth  Chebyshev recursion, levels, requirements
                Stage1Plan layout, rotations, frequencies, keys
                  SlotVectors   vectors of residues
```

`PackedEvaluator` composes with `PackedSchedule`: in frontier mode its
`FinishNode` takes the schedule's `Complete` as part of the same step, and its
choice of a node is the schedule's `Selection` under the evaluator's own `Fits`.

**ParallelPrefetch, SequentialPrefetch.** A critical section of `mutex_` is one
step. `condition_variable::wait` is split where it releases the mutex: a thread
whose predicate is false joins `asleep`, and it tests its predicate again only
after a `notify_all` or a spurious wake-up took it out. Each `notify_all` runs
after the unlock in the code and is a step of its own, so the window between a
state change and its notification is explored. `produce` is a step that may
throw; starting a thread may fail (`SpawnFails`), in which case the constructor
cancels and joins. The consumer may call `pop` or destroy the object whenever it
is idle, also after a failure. `out`, `last` and the operators `channelStatus`
make up the refinement mapping to `PrefetchChannel`.

**MaskCache, PrefetchedTerms.** The terms of one linear map as `linear()` runs them:
a worker prepares the weights of term `k` (`Prepared`) and encodes them itself if the
cache would not admit them; the consumer pops them in order and takes the plaintext
from the cache or encodes on a miss (`UseItem`, part of the step that pops). Only the
consumer touches the cache, so its methods are operators and their interleaving is
that of the queue. An entry carries the number of the miss that made it; the index
holds such numbers where the code holds list iterators, which stay valid until their
entry is erased. The fingerprint of a mask and the bucket of a fingerprint and level
are arbitrary constants: equal hashes of different masks and colliding buckets are
part of every check and every proof. `method` is the cache off, the scan, or the index.

**PackedProgram, PackedSchedule.** A program is a record of functions over node
indices. Every counter of `PackedReadySchedule` is a variable of the same name in
camel case (`remainingUses`, `pending`, `epochRemaining`, `retained`, `liveValues`,
`peakLive`). `Complete(i)` is the whole method: decrement uses per edge, free
operands, release dependants, close the epoch and admit the next one. On its own
the module lets any subset of the ready nodes "fit" that contains the ready
feedbacks, as the evaluator's predicate does. A node has one of the operations that
planners and evaluator treat differently. The others of one operand (`addp`, `mulp`
and negation, `sum`, a `repeat` or `scatter` that moves slots, `linear_ref`) take
the same steps as `gather` or `linear` at other costs and are left out: any costs within
what a refresh restores are covered by the proofs.

**PackedSources.** What `evaluate` does at sources and feedbacks, as
part of the step of `PackedSchedule` that completes the node. A public node takes
its ciphertext from `PublicCiphertextReuse` (`GetPublic`): grouped by the key of its
vector, the coefficients without the positive zeros at the end (a negative zero is
kept), encrypted once and cloned while uses are left. A feedback calls the client
(`CallClient`), which compares the hidden value with an entry of `feedback_outputs`
chosen by how many calls it has had. That table has an entry for every feedback of
the file, and a dead feedback never calls, so from a dead one on the comparison
would be with another's reference; `ReferenceIsOwn` therefore speaks of programs
whose feedbacks are all live. A failing comparison, the argmax over the tokens and
the last selection after the program are left out.

**PackedEvaluator.** One node is five to eight steps: `SelectNode`,
`PrepareOperand` per operand (a bootstrap of one value or a batch if the operand
would run out of levels), `Prepared`, `Operate`, `RefreshResult`, `FinishNode`.
A ciphertext is `[id, level, content]`. Two nodes with one `id` share an object,
which is what an identity scatter produces, so an in-place operation on it shows
in both. `content` is the node whose value the object encrypts, or `Garbage`:
reading a wrong or unmasked operand, using a basis built from something else, or
bootstrapping what is not masked makes garbage. The greedy search of the planner
over `refresh_after` is over-approximated: the initial state picks any set of
multiply used live nodes, hence every plan the search could return. Polynomials of one operand over one
normalization interval form a group (`KeyOf`; the operand fixes the size in the key of
`plan_chebyshev_sharing`) and share a basis, which is `[from, interval]`: the ciphertext
it was built from and the interval it was normalized to. Like `matches()`, `BasisMatches`
looks at the ciphertext only; that the interval fits follows from the grouping, and
`ValuesRight` would find it if it did not. The members
of a batch are what one pass over the nodes in order collects; `Fills` says so of
the set instead of running the pass, and `Root`, the node whose value an alias
stands for, is the least of the nodes its chain of operands reaches: both are
written without recursion so that they can be proved about. The garbage a refresh of
something unmasked makes (`RefreshValue`) is never made by the code as it is; it is what
a dropped or misplaced mask would show. Cleaning a deferred mask before the bootstrap
costs a level that the bootstrap gives back, and is not counted apart.

**RunJob.** The program counter of a runner walks through `run_job` and the
`run_process` it calls. A signal raises at the current point and follows the
code's `except` and `finally` clauses (`UnwindsTo`). The command is external: its
leader forks, exits with any status and ignores SIGTERM as it pleases; its
descendants stay in the group or, when the command is the packed runner, lead a
session of their own. `SignalPoints` says where signals may strike and so
separates what holds from what does not. It never contains the points after the
handlers are restored (`jobs.py:152-154`): a signal there has its default effect, ends
the runner before the report is written and leaves `run.json` at running.
`ReportTruthful` is about calls that returned and does not see it.

**GpuBudget.** `run()` from the lock to its release. The ledger is a file with a
form (empty, torn, whole), the recorded limit and seconds; it is rewritten by
`Truncate`, possibly `WritePart`, and `Write`. `spent` is a history variable: the
wall time that was really used. `DeathPoints` says where a runner may die.

**Campaign.** `main` from launch to the end, one action per experiment outcome:
skipped by its gate, taken over from the previous report, refused by the GPU
preflight, or executed. Each appends a record and replaces the report in the same
step (`AddRecord`), which is what `write_json` does by renaming. An experiment that is
to be run first waits for an idle GPU (`Prepare`, then `PreflightFails` or
`StartScript`). The script is a
second actor while `pc = "run"`: it hashes the binary once, then per layer count it
clears the old artifact, and the binary leaves a new one or none, labelled with that
hash; it may end at any point. A signal ends a
launch anywhere (`Interrupt`); artifacts and report survive it, records do not.
An environment is a record `[source, binary, setting]`, made when the turn of the
experiment comes (`EnvironmentOf`), as `main` derives it in its loop. *Source* is
version and commit, found once per launch and compared always; the hash of the payload
is part of it where the platform computes one. *Binary* is the hash of the binary on
disk at that moment, or `Unset` when the environment names none (`Named`); *setting* is
every other variable, of which an artifact repeats the synchronization profile
(`Sync`, possibly `Unset`). `Matches` skips what is unset, and a resume demands a
binary (`CanResume`). `Rebuild` replaces the binary at any time, between two experiments
and between the hash and the script too. A gate's error threshold and its decryption
flags are one verdict per artifact (`AllDecrypt`): the gates look at them together and
each fails on an empty list. Malformed artifacts count as missing, since both are
an issue that blocks every use of them.

**SlotVectors to Stage1Circuit.** What the program computes before a ciphertext
exists, as pure operators: replicated and interleaved shapes with their masks, the
rotations a layer needs and how often, the signed-digit keys, the Paterson-Stockmeyer
recursion with its depth, the constants `make_layer_plan` folds out of the weights,
the options that are refused (`Accepted`), the plaintexts registered for the static
cache and those its byte budget selects. Coefficients, weights and slots are
residues modulo `P`, so division by a bound is exact and a square root is a root
of a square width; bounds are integers in half units, because their order matters.
`Host` is all of it for one invocation: `main` derives it once, so `Init` puts it into
the variable `host`, which no step changes.

**Stage1Kernels, Stage1Refresh.** A ciphertext is `[v, lvl, log]`: its slots, its
level, and what it took to compute it (rotations, plaintexts with the level of
their encoding and of their use, bootstraps). The operators are the lambdas of
`main`: `MulMask`, `Rotate`, `SlotBsgs`, `ReplicatedBsgs`, `PlaceHeads`,
`MaybeBootstrap`, ... A bootstrap divides by its bound and multiplies it back, adds
what its inputs are short of, and logs bound and deepest level. A pair is recombined
from the conjugate sum and difference.

**Stage1Layer.** One action per phase of `run_layer`: `Residual` (which also makes
the layer's bounds the active ones), `BlockNorm`, `InProj`, `ConvFifo`, `Gate`,
`TimeStep`, `Decay`, and then per stream `Expand` and one `Scan` per batch of head
groups, `EndStream`; finally `SkipGate`, `GatedNorm`, `OutProj`. `reg` holds the
ciphertexts local to the layer, `fifo` and `state` what it carries.

**Stage1Decoder.** `Start` may lose the plaintext cache (the reuse check) and the
worker threads (the self-test of the encoder). A token is `Reencrypt`,
`ScheduledRefresh`, `EncryptInput` or `LoadInput`, its layers, and `Finalize`, in
which the client of an autoregressive run consumes the output. Look-ahead encoding
interleaves: a batch of missing positions is dealt to workers, each `EncodeJob` is a
step, `Join` keeps the results by position, and the serial loop takes them. A product whose
masks are all zero throws (`EmptyProduct`).

**Stage1Handoff.** One process at a time runs: the only one, or `client-init`,
`server-eval` and `client-decrypt`, which an operator starts in this order, each
after the one before ended, well or badly, and again after a crash. Every file is a
step; a death loses the memory of the process and may leave the file at work torn;
the secret key may be copied to the server's side. These faults, the launches and
the memory loss are the external part.

**Mamba2Reference.** The layer of `reference.py` per channel and head under the
exported polynomials: `Embed`, `Enter` (projection and window), `Advance` for any
set of heads that still wait, `Leave`, `Finish`. Its variables are those of the
decoder through the mapping of `Stage1Properties`: the first slots of the hidden
ciphertext, the xBC slots of the window entries, and state coordinate `(h, p, n)` at
slot `n * block + row` of its group's ciphertext, times the scale of its row.

## 3. Runs

| Run | Instance | States | What it shows |
|---|---|---|---|
| `parallel_prefetch` | 4 items, 3 slots, 3 workers | 98 k | see below |
| `sequential_prefetch` | 4 terms, queue of 2, cache of 2 | 256 k | the same promises by the other implementation, and the mask cache behind it |
| `packed_schedule` | all programs of 5 nodes | 152 k | the schedule under any evaluator, with public inputs and client calls |
| `packed_evaluator` | 4- and 5-node programs, 4 modes, all plans | 650 k | evaluation |
| `run_job` | 2 runners, 2 signals | 46 k | reaping, exclusion, report, return |
| `run_job_signals` | as above, signals in the grace period | violation | finding 1 |
| `run_job_nested` | nested session, no signals | violation | finding 2 |
| `gpu_budget` | 3 runs | 77 k | exact, bounded ledger |
| `gpu_budget_death` | 2 runs, death while charging | violation | finding 3 |
| `campaign` | 3 experiments, 3 launches, 1 rebuild | 2.6 M | promotion, acceptance, resume |
| `campaign_settings` | 2 launches, 2 settings | violation | finding 4 |
| `stage1` | 11 invocations, two layers, up to 3 tokens | 2 k | the decoder, inline and over a handoff |

*Prefetch.* `RingInv`: the claimed and unconsumed indices span at most the
capacity, every one has a single holder, and delivery is in order although
workers finish out of order; so two indices never meet in a slot.
`NothingLost`, `PayloadBound`: no claimed index disappears, no wake-up does (a thread
that waits though its condition holds has a notification coming), and the payloads alive
never exceed the capacity; `QueueInv` says the same of the queue. `ChannelSpec`: the ring implements the ordered channel,
in particular a recorded error wins over items that are ready. `CallsReturn`:
`pop` and the destructor come back, no wake-up is lost. More items than slots makes indices wrap;
as many workers as slots lets them all be in flight and all be blocked;
one consumer is what the class is for.

*Mask cache.* `TermsRight`: every term is multiplied by its own weights, encoded at
its own level. `CacheIsLatest`: by scan or by index, the cache is the list of the
latest distinct requests, newest first, and its counters are those of a run without
look-ahead, which is what `packed_fideslib.cpp:185-186` claims. `IndexExact`: one
iterator per entry, none dangling, none lost to a collision. Of four masks two share
a fingerprint, one differs, one is dense and bypasses the cache; two levels make two
plaintexts of one mask; mask 1 at level 2 and mask 3 at level 1 share a bucket. Room
for two entries makes four terms hit, promote, evict and return to what was evicted.
The inputs take the masks up to the symmetry of 1 and 2.

*Schedule.* Over every five-node program of sources, feedbacks, unary and binary
nodes, with dead nodes and operands used twice: each counter means what its name
says (`CountersExact`), exactly the needed values are retained, a feedback is a
barrier both ways, and the frontier never is empty while nodes remain. Five
nodes suffice for two epochs with a dead or empty one between, a value used
across a feedback, and a double edge. The live limits are none, and one that is
reached.

*Public inputs and client.* `PublicRight`: sharing by stripped keys gives no node the
vector of another. `SeedsExact`: a seed lives exactly from the first to the last node
of its group, in whatever order the frontier takes them, and no vector is encrypted
twice. `ReferenceIsOwn`: although calls are only counted, each meets the reference of
its own feedback. Where node 1 is an output two sources are equal but for padding and
a third differs by a negative zero; elsewhere one is the input and the rest repeat.

*Evaluator.* `ValuesRight`: no shared ciphertext is overwritten, no stale basis
is used, no unmasked coordinate is bootstrapped. `HeldIsNeeded`: file order and
frontier order release by different rules (last use, remaining uses), and both
hold exactly the values that are still needed. `LevelBudget`: when the operation
starts, its operands can pay for it and nothing is past the ceiling, although the test of one operand precedes a
refresh that may move the other. `PlanExact`: the planner's own simulation
predicts the number of refreshes in file order without batches. `Evaluates`: the
loop ends. Levels are scaled: a ceiling of 3, a refreshed level of 0 and costs 0
to 3 keep the relations of the real ones (39, 22 and 0 to 17): a polynomial costs
at most one refresh, several cheap nodes fit between refreshes, and one more
cheap node does not. The second of two polynomials of one operand has its interval or
another. Two slots of width one allow a batch with one bystander.

*Job runner.* Signals may strike while a runner waits for the lock or for its
command and around them. Two runners are what it takes to contend; two signals
allow one each or both at one runner.

The types of `RunJob` and `GpuBudget` are proved (section 5) and not part of the runs.

*Budget.* A limit of 6, a reserve of 2 and an overrun up to it make admission
close to the reserve, refusals, and a campaign that is used up happen; the third
run sees what two left behind; one run may name a different limit and is refused.

*Campaign.* A ladder of three experiments, the first with two layer counts so that
a script can end between them. `PromotedOnEvidence`: whatever is run or taken over
has, in the same report, a source with every artifact present and passing; a
skipped source has no artifacts and must not open the next gate. `PassedIsComplete`:
a passed report has a record of every experiment, each that was not skipped has all its
artifacts, passing and of the identity on that record, and they all come from one
source. It does **not** say that one binary made them. Nothing in the code compares
experiments with each other: the binary is hashed again for each
(`run_dgx_campaign.py:167-178`), an override of one experiment may name another, and
where none is named none is compared (225-231). A binary rebuilt between two experiments
of one launch thus gives a passed report that holds both; asked for one binary per passed
report, TLC shows that trace at once. Manifests want one
(`experiments/manifests/dgx_spark_row_state_ab.json:82`: "Both arms must use the same
[...] native binary"): whoever reads the report has to compare the hashes on the
records. `NothingRerun`: whatever point the previous launch was interrupted
at, what its report vouches for is taken over, if its environment names a binary. Three
launches are what it takes to
measure, to resume in another environment, and to come back to the first; one rebuild,
to differ once from what was hashed, before or after an experiment or under it. Two
sources and two settings are all that equality can tell apart; one setting names the
binary and a profile, the other does not. A failure
of the second experiment may be continued, the others abort.

*Stage 1.* `ComputesReference` is the refinement of `Mamba2Reference`: after every
step the hidden vector, the windows, every state coordinate, the outputs and the
selected ids are those of the scalar recurrence, in each of the eleven
invocations, and that the exported outputs are the recurrence's but for the tokens of
`wrong`, as the decoder's own comparison finds them (`OutputsExported`).
`KeysCover`: whatever amount is rotated, there is a key for it or for each step of
its signed-digit form, which adds up to it. `RotationsExact`: the hand-written table
of frequencies, from which the balanced mode chooses keys, names exactly the
rotations a layer makes once it carries state; that it names all of them
(`RotationsCounted`) is proved. `LevelsSuffice`: no ciphertext
passes the last level. `PlaintextsExact`: a product whose diagonals worker threads encode
ahead multiplies by the plaintexts of its serial loop, at the same levels and in the same
order (`AheadIsSerial`), and no plaintext, cached, from a table or encoded ahead, is
encoded deeper than the ciphertext it meets (`CacheSpendsNoDepth`). `BoundOfOwner`: every
refresh divides by at least the calibrated maximum of its own layer, group and
checkpoint. `VerdictExact`: a run passes exactly when every expected output is the recurrence's, and
over a handoff when besides each was written whole and no secret lies on the server's side.
`Concludes`: every run ends with a verdict or an error.

The instance has eight heads of two channels and eight state coordinates, `d_model`
4 and a window of 2, in 64 or 128 slots, so that there are two to four groups of
heads, replicated products have several replicas, giants and a guard, the window
wraps at the third token, and a state survives two updates. Widths are squares, as
the folded roots need. The prime 251 makes an accidental equality of 64 slots
negligible; weights are fixed and spread over small residues. The recurrence is
deterministic: what varies is the invocation, start-up, the order of worker threads
and the faults, which is why the states are few and each is expensive.

| Invocation | Depth, headroom | What it turns on |
|---|---|---|
| `chain` | 44, 3 | complex pairing, refresh before token 1, compact keys, masked decays |
| `wide` | 36, 9 | interleaved shapes, true and fused baby steps, logarithmic sums, shared heads, row-wise normalized states, balanced keys, two-bootstrap refreshes, cache entries at levels 2 and 4 |
| `streams` | 36, 6 | two streams, no replicas, full keys, masks only, encoding at the level of use, re-encryption |
| `loop` | 44, 9 | autoregressive client, a joint gate, post refresh every second token, no cache |
| `scheduled` | 48, 6 | scheduled normalizations, periodic joint gate, late levels, coefficient-aware baby sizes, small cache |
| `ahead` | 44, 12 | two encoding threads, a batch of two per thread, a cache that holds part of the table |
| `handoff` | 36, 12 | three processes, one layer of the chain, faults |
| `wrong` | 44, 12 | a reference that differs in one value |
| `zero`, `blank` | 44, 12 | weights that are all zero: a product has no terms and the run fails, replicated and not |
| `refused` | | options that are rejected |

Between them every checkpoint is refreshed at least once except `y_out`, the final
Newton iterate and a `state` on entry without pairing, whose conditions these depths
do not meet. One fault (`MaxFaults`) suffices to lose any process at any of its
steps; the phases that follow see what it left.

`LevelsSuffice` holds thanks to `auto_bootstrap_headroom` (12 by default, 3 to 12
here). The requirements of the depth planner alone do not carry it: a residual that
ends a token at the last level is scaled once more before the check of the final
norm, and a refresh itself spends a level on the division. With a headroom of zero
TLC finds both, so the headroom is a necessary reserve and not a tuning knob.
Other facts the model records without a property: a Newton iterate is checked for
two levels although its step takes three when the variance is deeper; the output
projection is checked for two and takes three when it is replicated; the floor on the
gain lets a segment start unrefreshed up to level 25; `client-decrypt` compares the
first stream only, where the inline run compares all; a `client-init` that died
leaves a directory the next one refuses.

`CHECK_DEADLOCK FALSE` is used only in `PackedSchedule.cfg`: the schedule stops
when nothing remains, and `NeverStuck` states that it stops only then.

**Fairness.** Prefetch: weak fairness of every worker and of the consumer's own
steps, that is, the operating system schedules threads and `produce` returns or
throws; calling `pop` or the destructor is the caller's choice and not fair.
Evaluator: a single thread keeps running. Job runner: runners are scheduled and
time passes (`DeadlinePasses`); the command owes nothing, so it may ignore
SIGTERM for ever. Taking the lock is a step like others under weak fairness: the
deadline, not fairness of the lock, makes waiting end. Stage 1: while the run is
not done, some step other than a fault happens; the operator starts the next phase
and a process that runs keeps running. It is written without ENABLED, which would
evaluate the circuit again in every state: `Progress` is possible in every state that
is not done, or TLC would report a deadlock, so the formula is weak fairness.

## 4. Findings

1. **A signal during cleanup leaves the process group alive**
   (`run_job_signals`). `run_job` installs handlers that raise for SIGINT and
   SIGTERM and keeps them while `run_process` cleans up. A signal in the grace
   wait of the `finally` leaves it before SIGKILL, and the lock is released over a
   living group, where `process.py:13-17` promises reaping "on every exit path"
   before "a caller can safely release its lock".
2. **A nested `run_process` is out of reach** (`run_job_nested`). The packed
   runner as the command of a job starts the native program in a session of its
   own and dies of the outer SIGTERM without cleanup, so the native program
   outlives the job, where `process.py:1` says descendants cannot.
3. **A run that dies is not charged** (`gpu_budget_death`). The charge is written
   only in the `finally` clause, by truncating and rewriting; `packed.py:287` says
   the budget is charged conservatively. A ledger left empty reads as a new
   campaign.
4. **Leftover artifacts are recorded as executed** (`campaign_settings`). After a
   resume that was rejected for a changed environment the script runs again, its
   exit code decides nothing, and the artifacts found are recorded under the new
   environment. If the script refused to start, they are those of the old one,
   where `docs/validation.md:412` says that "any mismatch causes the stale artifact
   to be rerun". The identity inside the artifact does not name the settings, so
   the check at line 908 cannot tell.

## 5. Proofs

All are for every value of the constants, under the assumptions the modules
name.

**ParallelPrefetchProofs** (any item count, any capacity > 0, any number of
workers > 1). What `RingInv` says of slots and order (`SlotsInv`) is not inductive alone: whether a worker that fails may
leave the window, and whether an item may be delivered after a failure, depends
on the types of its parts and on a recorded error implying that production is
cancelled (`FailureStops`). The inductive invariant is `TypeOK /\ SlotsInv /\
FailureStops`. The arithmetic core is the lemma `SameSlot`: two
indices of a window of `Capacity` consecutive numbers with the same remainder are
the same. From it follow `TypeCorrect`, `RingCorrect`, `PayloadBounded` (with
`CountInv`: the counter is the number of occupied slots; the payloads are
distinct members of a window of `Capacity` numbers) and
`ImplementsChannel`, the refinement: every step is a step of `PrefetchChannel` or
leaves the mapped variables unchanged. `NoneLost` (`NothingLost`): `Store` moves
the index a worker carries into an empty slot, `PopItem` takes the oldest, and
an index is dropped only when production is cancelled; every step that makes the
condition of a sleeping thread true is followed by a notification of the same thread
(`WakeupsHeld`). `NeverDeadlocks`: until the ring is closed some worker or the consumer
has a step. In the model a spurious wake-up is always possible for one who waits, so
TLC's own deadlock check cannot see a ring that stands still; the theorem leaves the
spurious wake-ups out. If `pop` waits, its index is stored, owed by a worker, or
claimed next, because the oldest index always has room (`PopServed`); if the
destructor waits, production is cancelled (`StopInv`) and every sleeper has been woken.

**SequentialPrefetchProofs** (any item count, any depth > 0). The invariant ties
the queue to the producing thread: while a payload is prepared its index is still
owed, the end is announced only after the last item or a failure, and the thread
exists from the constructor's return on. `QueueCorrect`, with the wake-ups of both
threads, `NeverDeadlocks` and the refinement `ImplementsChannel` follow. Behind the queue (any cache size, fingerprint, bucket hash,
masks and levels) `TermsInv` adds that every entry holds the encoding of its own mask
under a number no other entry has, and that the index is the image of the entries.
`PromoteShape` and `PushFrontShape` say where each entry goes; numbers are never given
twice, so an eviction takes only its own iterator out of the index (`MissRight`).
`QueueInv` says that the item popped is the next term's, hence `TermsCorrect`; with
`IndexCorrect` the index is exact. `CacheCorrect` (`CacheIsLatest`) reads the cache
against the history of requests, with `RecencyInv` on top of `TermsInv`: what is held was
asked for, in the order of its last request, and what was asked for and is not held was
pushed out of a full cache by later requests (`Recent`). A lookup finds exactly the
entries of the plaintext asked for (`FoundWhenHeld`, with the fingerprint of every entry
that of its mask), so a hit promotes the one entry (`HitRecent`) and a miss evicts the
one that was asked for longest ago (`MissRecent`). Distinct last requests make the
entries distinct, hence the size of the cache (`HeldMany`) and its counters.

**PackedScheduleProofs** (any finite set of well-formed programs, any live limits).
`CountersExact` is split into one formula per counter, each preserved by `Complete`
for a reason of its own (an operand removed from a node's missing operands, an edge
from a value's uses left, a node from its epoch); with what is retained and that
every node of an earlier epoch is done they are inductive. `LeastOf`, that a set of
naturals has a minimum, comes from the well-foundedness of strict inclusion on
finite sets, since the library's theorems of induction cannot be instantiated; it
stands in for induction wherever one is needed (a least counterexample). That
live nodes are the *least* supplied set shows that each live node is an output or
has a live reader. `Advances` (`NeverStuck`): the least node that is not done has all
its operands and is in the active epoch. `BarrierHolds` (`FeedbackBarrier`)
needs what `select()` chooses, the oldest ready node or a fitting one, and that
ready feedbacks always fit.

**PackedScheduleProofs, the public inputs** (any programs, vectors and slots). `PaddedByKey`: a key
determines the padded vector, because the padding it loses is what encryption adds.
The invariant of the reuse is `SeedsExact`, `PublicRight` and that a seed holds the
vector of every node of its group (`PublicCorrect`, `SeedsCorrect`). For the client,
`NextCall`: when a feedback is about to run, `BarrierHolds` says that every feedback
before it is done and none after it, so the epoch it opens is one more than the calls
so far, which is the index the code uses (`ReferenceCorrect`).

**CampaignProofs** (any manifest of experiments and gates, any number of launches and
rebuilds, any sources, binaries and settings). The invariant says when a record is sound
(a record without an issue has every layer's artifact, present and of the record's own
identity), that all records of a report are of one source, that `passed` is written only
for an accepted whole report, and what `main` knows at each of its program points.
`PromotionIsEarned` (`PromotedOnEvidence`) assumes that every gate demands the
decryption of all tokens, an error bound, or both, as every manifest of the repository
does (`dgx_leveldrop_confirm.json` has no bound): `passed` alone would be met by an
experiment that was skipped.
`PassedMeansComplete` assumes an acceptance object in the manifest; it claims of identity
what `PassedIsComplete` does, the record's own and one source, not one binary.
`NothingIsRerun` has no condition.

**RunJobProofs** (any number of runners and signals). `TypeCorrect` needs that
what is recorded is the exit of a reaped leader. `ReapsBeforeRelease` and
`ResourceIsExclusive` follow from one invariant: a group is alive only between
the fork and SIGKILL, and its runner holds the lock all that time. They assume
`Orderly`: no signal strikes in the window between the fork and the `try` or
inside the `finally`, and no descendant leaves the group. Findings 1 and 2 show
that neither part can be dropped. `ReportIsTruthful` has no such condition: it
holds for signals at any point; its invariant follows a verdict from where it is
decided to the two files.

**GpuBudgetProofs** (any number of runs, any budget, reserve and timeouts).
`TypeCorrect` holds wherever runners die. `LedgerIsExact` and `BudgetRespected` assume that no runner dies while it is
charged; finding 3 shows why. `WithinBudget` speaks only of what is on disk, so
the invariant says what each program point knows: at `locked` and `release` the
ledger is balanced; at `run` it equals what was read and the timeout leaves the
reserve; at `truncate` and `write` what was spent is what was read plus the wall
time and fits the budget asked for. That the holder of the lock is still inside
`run()` is needed for the death of a run that does not hold it.

**PackedEvaluatorProofs** (any programs, costs, ceiling, margin, batch size, slots and
modes). `ValuesCorrect`, `HeldCorrect` and `LevelsSuffice` follow from
one invariant `EvalInv`. In frontier mode it contains the invariant of
`PackedScheduleProofs`, which is carried through every step of the evaluator: the
theorem is about the composition. In file order it says instead that the done nodes
come first. `LastUseMeans` shows that the two tests for the last use of an operand
(the schedule's remaining uses, the planner's last index) mean the same: not an
output, and every reader done or this one. So what is held is `Kept(done)` between
nodes, and between `Kept` of the done nodes with and without the current one from
the operation to the end of the node (`HeldInv`). `IdsInv` says that a refresh makes an
object whose identity no basis has, hence `BasesInv`: a shared basis with the identity
of its operand's ciphertext is that ciphertext's, it is over the interval of its group,
and some reader of it is left, so its operand is never taken. `SomethingFills` shows that every request has a batch, from
the least node up to which there is none. `LevelsInv` is needed because operands are
prepared one by one: a refresh for a later operand keeps the earlier ones usable. The
assumption on costs is that an operation's fits between the refreshed level and
the ceiling, that a linear map consumes a level (its output mask), and that sources and
aliases cost nothing (`packed_depth.hpp:47` for inputs, `packed_depth.hpp:32` for the
identity). `PlanCorrect` (`PlanExact`) follows a run in file order without batches
along the planner's simulation, which is written as recursive functions over the nodes
and over the operands of a node. `Iterated` and `InductionUpTo` show by a least
counterexample that such a function exists and equals its equation at every step.
`PlanInv` then says at which point of the simulation the run is: at `select` that levels
and refreshes are those simulated up to the first node that is not done (a dead node
changes neither, `DeadSkipped`), while operands are prepared that they are those after
as many operands of the node, and after its operation those of `Settled` once the hoisted
refreshes of the node are made. Levels are compared for the ciphertexts held only: the
simulation keeps those of released and taken values too.

**Stage1Proofs** (any dimensions, payloads, options, packing, number of tokens and
layers, and faults). `KeysCoverHolds` (`KeysCover`), `RotationsCountedHolds`
(`RotationsCounted`, the first half of `RotationsExact`) and `BoundOfOwnerHolds`
(`BoundOfOwner`) are about what the circuit logs: `GoodEvent` says that a rotation has
its keys and is counted and that a refresh divides by a bound of its own and that a plaintext is in time or a table's,
`Good` that every event of a log is so. One lemma per kernel says that what it adds to the logs of its operands is
good, and one per phase that what the phase logs is (`ConvGood`, `ScanLogGood`,
`FinalOutputGood`, ...). *Rotations.* `RequiredCovered`: under each key plan an amount
that `required_rotations` lists is covered, since `Accepted` makes the plan cover what is
required and a balanced plan keeps the base keys. Then the amounts a kernel really turns
by are matched with that list: powers of two up to a width
(`PowersTurn`, `LaddersGood`; `BelowLog2` and `Pow2Grows` are about recursive functions
and rest on `SetInduction`), babies and giants of either shape of product
(`SlotBsgsGood`, `ReplicatedBsgsGood`, with `ShapeTyped` for what the shapes are), the
offsets at which heads and groups are placed (`PlacedGood`, `GroupTurns`), and the turns
between streams (`ShiftGood`). Counted is more than required: `Families` lists what the
table of frequencies holds, and `CountedOnce` that an index of one family whose count is
positive has a positive sum, so that the table, which is written apart from the list, is
compared with the kernels family by family (`FamilyTurns`, `ProductTurns`, `PowersTurn`).
It needs that a stride holds a block (`StrideWide`, from `ValidGeometry` and the
dimensions `ValidLayer` ties together). The steps then add nothing else to the rotations
of a layer (`StepTurns`). *Bounds.* `CarriedOwned` and `TransientOwned`: a point of
the circuit refreshed under the bounds of its own layer (`PointOK`) gets at least the
calibrated maximum; `GroupBoundHolds` that of every head of its group. The iterations
that refresh their own iterates are folds over ranges whose ends the payload decides;
`NewtonRefineGood`, `ScheduledInverseGood` and `DecayPolyGood` follow them value by value.
The inductive invariant `Inv` says besides that what an invocation derives never changes
and a process past its start was accepted (`HostInv`), that the active bounds are those
of the layer at work, or of the last one at the head, and how far stream and group may
go (`PhaseInv`), that a ciphertext kept between two steps, in a register, a window, a
state or a file, brings no events of an earlier step with it (`RegInv`, `CarriedInv`,
`DiskInv`), and that a running process has every state ciphertext of every layer.
Assumed are what the readers of payload and options guarantee (`PayloadsAssumption`,
`ConfigsAssumption`, `DimsAssumption`) and that both refresh margins are at least one.
`parse_args` (`stage1_mamba2_config.cpp:333-337`) asks only that they be positive; with a
margin of a half a refresh would divide by half of what was measured, and `BoundOfOwner`
would be false.

*Plaintexts.* `AheadIsSerialHolds` (`AheadIsSerial`) needs a second invariant,
`AheadInv`, about the product that encodes ahead. `UsedInv`: what it has taken is what
its serial loop would have built up to the same position (`Taken`, `SerialAt`).
`ReadyInv`: what is ready is the encoding of its own diagonal. `BatchInv`: of the batch
in work every position is encoded or still `Owed` by some worker, a multiple of its stride
ahead of where it is; so once every worker is past the end nothing is left out and the join
may publish. A worker that skipped a position, or stored a result under another one,
breaks it. A cache that is full leaves the position to the loop itself, which encodes
the same plaintext. `OnlyTablesSpend` is about depth: what goes through `cached_plain` is
encoded in full (level 0), at the ciphertext's level, or above it. The table of a product without
replicas is multiplied whatever the ciphertext's level, so its entries are as deep as
the option `--pt-cache-level` puts them. Hence `PlaintextsExactHolds` (`PlaintextsExact`) is
conditional on `TablesFull`, that these tables are encoded at level 0, which the option's
comment calls always safe (`stage1_mamba2_config.hpp:58-63`); at another level the comment
asks the caller that every use reaches it. That the greedy choice of diagonals keeps the
registered level is an induction over the data, so `TablesFull` is a hypothesis here. The
run satisfies it: `ahead` has such a table at level 0, and where its invocations give
another level every product has replicas.

*Verdict.* `VerdictHolds` is conditional: if the evaluation is right (`OutputsExported`,
which TLC checks as a part of `ComputesReference`), the verdict is (`VerdictExact`). What
is proved is the protocol around the evaluation. The invariant `Settled` says which
processes there are and how many files each has written (`ProcInv`), that there is an
output per token that is done and that a handoff has none a client consumed (`TokenInv`),
that a whole output file holds the output of its own token although its name may have
been written before, torn, by a process that died (`OutputInv`), and that after the
verdict no file changes (`VerdictInv`). So `client-decrypt` judges by the files what the
inline run judges in memory. The comparison of the first stream alone suffices for that,
since a token that is wrong is wrong in every stream (`TokenJudged`).

**Only model-checked.** Liveness under fairness (`CallsReturn`, `Evaluates`,
`JobsReturn`, `Concludes`) is out of the prover's reach. Of Stage 1,
`ComputesReference` (equality of slots, an induction over the data), `LevelsSuffice`
(levels, which the proofs do not follow through the kernels), the part of
`PlaintextsExact` about tables that are not encoded in full,
and the second half of `RotationsExact` (that a rotation which is counted does happen
depends on masks and shapes) stay with TLC.

## 6. Not modelled

- Approximation: scales, noise, the error of polynomials, GPU kernels, encoders and
  the plaintext encoder's numeric agreement. The project tests them numerically.
- Stage 1: parsing of JSON and tensors, debug dumps and their decryptions,
  timing, memory and level counters, the report, and the remaining-refresh
  estimates printed with it. None of them decides what is computed.
- The probes (`*_probe.cpp`), which measure one kernel each.
- Validation of files and options before any state changes, except which options of
  Stage 1 are refused.
- The unplanned mode of the packed evaluator (refresh thresholds instead of a plan)
  and the memory and timing counters of its report.
- What the client of the packed evaluator does with a hidden state: the comparison
  itself, the argmax and the token it returns. In `PackedEvaluator` a feedback node is a
  fresh value; which reference a call meets is in `PackedSources`.
- Death of a job runner between its files; process-id reuse.
- A campaign that is killed outright, or by a second signal while its script is
  being ended, and leaves the script running; the polls of the idle-GPU wait; the
  dry run.
- Everything `PROJECT.json` lists as not modelled: offline exporters, models other
  than Mamba-2, layouts studied in Python, calibration, diagnostics and evidence.
  They are sequential transformations of data.

## 7. What could follow

1. *Batching and diagonals* of the packed evaluator against reference definitions.
2. *Stage 1 proofs*: levels through the kernels.
