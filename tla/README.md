# A verification project for lcupsi

lcupsi is a prototype of updatable private set intersection (UPSI). Two parties
hold sets X and Y; the first round intersects them bucket by bucket, every later
round applies a delta to Y and re-evaluates only the buckets it changed. Both
parties run in one process. This directory holds TLA+ modules of that code, the
TLC configurations that check them on small instances, and theorems about them
that TLAPS has checked.

    tlc -config InitialRound_pool.cfg MCInitialRound      # and so on, see "Runs"
    tlapm UpdateProtocol_proofs.tla                       # and so on, see "Theorems"

All paths below are relative to `src/lcupsi_imp/`.

## Inventory

| part | state | operations | interacts with |
|---|---|---|---|
| bucketing, `src/upsi_bucket.cpp` | none; works on the caller's `Buckets` | `BucketOf`, `BuildBuckets`, `ApplyBucketDelta` (with `RemoveOne`) | called by both rounds |
| initial round, `src/upsi_protocol_initial.cpp` | locals of one call | `RunInitialRound(WithStats)`, `NaiveIntersection` | evaluates every bucket, in a loop or a pool |
| update protocol, `src/upsi_protocol_update.cpp` | `UpdateProtocolState`: configuration, X and Y buckets, the current intersection | `InitializeUpdateState`, `RunUpdateRound(WithStats)` | applies the delta, evaluates the flagged buckets, in a loop or a pool |
| thread pool, in both rounds | atomic `next`, atomic `failed`, a result slot per bucket | claim, evaluate, store, join, merge | each worker initialises and cleans RELIC |
| statistics, `include/upsi_metrics.h` | `RoundEvalStats`, a `ThreadEvalSums` per thread, `BucketEvalStats` per bucket | timers around every stage, `AccumulateBucketStats` | filled by both rounds, read by the benchmark |
| bucket evaluation, `src/upsi_protocol_bucket_eval.cpp` | locals: the bridge, the candidate parameters, keys with dummies, the chosen table | `EvalBucketIntersectionNoInit`, `BuildSelfCheckSampleIndices` | RELIC bridge, OKVS adapter, parameter policy |
| parameter policy, `include/upsi_okvs_param_policy.h` | none | padded size, band and expansion, shape test | bucket evaluation, constructor of the encoder |
| OKVS adapter, `src/upsi_okvs_adapter.cpp` | one table per 128-bit block | `Encode`, `SetTables`, `Decode` | one band OKVS per block |
| band OKVS, `third_party/okvs/` | the table `p_` | `Encode` (hash, sort, eliminate, solve), `Decode` | |
| RELIC bridge, `src/upsi_relic_bridge.c` | a bucket's keys and accumulators, on the heap | `global_init`, `global_clean`, `bucket_create`, `sign`, `verify_x`, `destroy` | RELIC's core context |
| benchmark, `src/upsi_exp_4_3_2_bench.cpp` | a base state, the points of the trials, rows of a CSV file | sets, trials of both rounds, medians | everything |
| tests, build files, scripts | | | |

What makes these correct, and what is hard about it:

* **Bucketing.** The maintained buckets equal those of a fresh bucketing; every
  bucket that changed is flagged. Deltas may delete what is absent, delete and
  add the same item, and repeat items.
* **Pool.** Every queued bucket is evaluated exactly once, with RELIC up; a
  failure anywhere makes the call return false and nothing else does; the call
  returns; RELIC is down afterwards. The atomics are relaxed and workers fail at
  any point.
* **Update round.** The stored intersection is exact. The hazard is the partial
  failure: the delta is applied first, everything after it may fail, and the
  caller may go on.
* **Statistics.** Times of overlapping threads, of stages and of the whole fit
  together, P1's online window contains what P1 did online, and bytes summed in
  two ways agree.
* **Bucket evaluation.** True means the matches are exact although the encoder
  silently loses keys; every retry is made before giving up, and on other keys;
  the keys encoded are distinct; the bridge is freed once.
* **Adapter.** A short last block and independent encoders give whole payloads or
  visibly lost ones, never mixtures that the self-check accepts.
* **Encoder.** The table decodes every key whenever that is possible at all.
* **Bridge.** No allocation leaks on any of its exits; a match is reported exactly
  for the scalar that was signed, and missed only for exponents that degenerate.
* **Benchmark.** Its inputs never make a round fail, and its trials do not
  disturb each other.

`PROJECT.json` lists the hazards at their lines with the properties for each.

## Modules

    UpsiBuckets            bags, buckets, deltas
      BatchEvaluation      the loop and the pool          -- uses BucketContract
        InitialRound       RunInitialRound over it
          UpdateProtocol   its call, and rounds           --implements--> UpsiRounds
            BucketDelta    the loops of ApplyBucketDelta, beside it
      BenchmarkSets, Benchmark   the driver
    RoundStats             clocks and counters of a round
    OkvsParams             the parameter policy
      BucketEval           one bucket: retries, self-check, bridge
                                                          --implements--> BucketService
    BucketContract         what an evaluation depends on  <- BucketService
    DummyTail              dummy keys and sampled positions of every attempt
    SplitMix               SplitMix64 on short words, for the run of DummyTail
    BandOkvs               elimination, solving, decoding
      BlockSplit           a payload in blocks, an encoder for each
    RelicBridge            a bucket's handle, its heap and its verdicts

`MC*.tla` give the constants of a run their values; `*_proofs.tla` hold theorems.
A comment `Mutant:` marks an operator that is a deliberately wrong variant of the
definition after it; a property of the runs refutes it.

**UpsiBuckets.** A vector of items is a bag. `ApplyBucketDelta` and
`ChangedFlags` are the closed forms of the two loops. Order is not observable:
every result is sorted and made unique.

**BucketDelta.** The loops themselves, as recursive functions of the number of items
done, over vectors, beside UpdateProtocol: before every round `LoopsMatchClosedForms`
compares what they make of the maintained buckets, in any order, with the closed forms
the round uses.

**BatchEvaluation.** `pc[0]` is the caller, `pc[w]` worker w. `Begin` is the entry
(empty queue, loop or pool); `SeqInit ... SeqClean` the loop; `WorkerInit`,
`Claim`, `ClaimNothing`, `Stop`, `Eval`, `EvalFailsIn`, `WorkerClean` the lambda of
a pool thread; `Join` the join, the test of `failed` and the merge. `failedBy` is
the set of workers that stored `failed`: a worker sees its own store, another's at
an arbitrary later time, so `Claim` does not depend on it and `Stop` may happen as
soon as somebody failed. `relicUp` is RELIC's context, one per thread or one per
process (`PerThreadContext`). The result of evaluating a bucket is BucketContract's:
with an empty side it succeeds, with a duplicate on side Y it fails, otherwise it
gives the matches or, as a fault, fails. That a duplicate always fails needs a check of
all real keys, which every configuration in the repository makes; strict robust mode
with the sampled check (`bucket_eval_sampled`) is outside of it.

**InitialRound, UpdateProtocol.** A call is `RunInitialRound(xs, ys)`,
`InitializeUpdateState(xs, ys)` or `RunUpdateRound(add, del)`, then the steps of the
batch, then the return. `InitializeUpdateState` takes the step of `RunInitialRound`, as
the code calls the function; `InitialSpec` is RunInitialRound called on its own.
`RunUpdateRound` applies the delta and filters the old
intersection (`Kept`) in one step, as nothing can be observed between; the fallible
part is the batch; `RunUpdateReturn` commits or, on failure, leaves the delta
applied and the intersection old. `dirty` is a history variable: the buckets some
round changed and no successful round has evaluated since.

**UpsiRounds.** The service a caller sees: a request, an answer, and the promise
`exact` that a success is exact, which a failure withdraws. UpdateProtocol
implements it with `exact <- dirty \subseteq flags`.

**RoundStats.** The same two paths, loop and pool, seen by their clocks: `Tick`
lets time pass between any two steps, each step reads the clock where the code
does, `ThreadTimes` is the maximum over the threads that overwrites the sums, and
`Online` P1's time: in the pool the span between the first ciphertext and the last
result, in the loop the evaluation less the first ciphertext's creation. `firstCi` and
`lastResult` are what really happened, for the property only. Two of the five timed
phases of a bucket stand for all: the first and the last. `Queues` may be any set of
sequences of buckets; the sums over a queue are taken per bucket.

**OkvsParams.** The policy of the header and the constructor's test. Expansions are
integers (hundredths); that rounding of the product may make `ceil` one larger than
the policy's sum is kept as a choice (`ConstructorMs`).

**BucketEval.** The function from entry to return. What an encoding does to the real
keys is a set `lost`, any set that loses all but one copy of a duplicate; for the
dummies it is whether one is lost, in the sample or outside. Without dummies a retry
repeats the last outcome, since the keys and so the rows are the same. P0 decodes the
payload of its key's row or, without one, anything but a lost row's (`Decoded`), and a
payload verifies for the scalar it was signed for (`Verifies`, RelicBridge's result).
Signing, decoding and verifying may each fail and leave by their own exit (`Abort`).

**BucketContract, BucketService.** The promise of one evaluation. BatchEvaluation
takes its outcomes from the first; BucketEval implements the second, for default,
strict, sampled and unpadded configurations, exact where all real keys are checked.

**DummyTail, SplitMix.** What BucketEval leaves out of an attempt: the do-while loops
that draw dummies and sample positions from a wrapping counter through SplitMix64, over
an array that still holds the last attempt's keys. `WordRange` stands for 2^64;
`SplitMix64` and `WordXor` are constants, a bijection on the words and an operation on them
(`WordAssumption`), so that no proof depends on the bits. The run gives them SplitMix's
definitions: the code's, with word length, shifts and multipliers cut to W bits. An
item's key is made of its hash as a dummy's is of the counter (`KeyOf`), so that each
item stands for one counter whose draw is passed over; `ItemHashes` holds hashes an
attempt draws first, draws later and never draws.

**BandOkvs.** Rows are sets of columns, xor is symmetric difference. The code's word
shifted to its lowest set bit is the set itself with its first column. `dropped` is a
history variable; the code forgets these rows.

**BlockSplit.** BandOkvs once per block, step by step, over the same keys and a slice
of the payloads; then `SetTables` on the receiver's object and `Decode` for every
row anybody may ask for. A byte is one bit. The assumption on the sizes is the test of
the encoder's constructor.

**RelicBridge.** A block of the heap is named by the field that points to it. The
steps of a call are its allocations and RELIC calls, each of which may fail and take
the code's exit. Group elements are exponents modulo a prime, the pairing is their
product, so every coincidence of the random exponents is a behaviour.

**Benchmark.** Opening the file, then the loops over sizes, deltas and trials with a
round as one step;
`UpdateTrial` works on a copy of `base_state`. `BenchmarkSets` are its inputs; `Items`
is assumed to hold every number that the sets of a listed size name.

## Runs

| run | shows | size |
|---|---|---|
| `initial_pool` | three threads, three buckets, one fault anywhere: claims distinct, RELIC up when used and down after, the returned value exact, a success is the naive intersection, the call returns | 13k states |
| `update_rounds` | any history of initialisations and rounds: buckets track the sets, clean buckets are exact, a success is exact outside the buckets of failed rounds, unchanged buckets are reused, the caller can foresee the verdict from its own sets, `UpsiRounds` is implemented, every call is answered; the loops over vectors agree with the closed forms for all orders of up to 5 items of Y and deltas of up to 2 and 2 | 28k |
| `bucket_eval` | eight configurations, six Y buckets, four X buckets, every outcome of every attempt, a failure on any of the ways out; `BucketService` is implemented | 55k |
| `band_okvs` | all systems of 4 rows, band 3, 7 slots | 435k |
| `block_split` | all systems of 3 rows and all payloads of a full and a short block | 565k |
| `relic_bridge` | any sequence of calls, any allocation failing, all exponents modulo 5 | 1.1M |
| `round_stats` | both rounds, loop and pool of two threads, up to two buckets, clocks up to 3 | 1.2M |
| `benchmark` | sizes 1, 2, 3, 6, 7 with deltas 1, 2, 8 and up to 4 trials, one fault | 1k |
| `dummy_tail` | no, one and several dummies, items whose hashes the attempts' counters reach or not, five sample caps, three attempts on two parameters | 60k |
| `update_naive` | violation: `SuccessIsNaive` | |
| `initial_shared` | violation: `ContextLive` | |
| `bucket_eval_sampled` | violation: `TrueIsExact` | |

What the properties of the newer runs say:

* `block_split`: all blocks keep and drop the same rows (`KeptRowsWhole`), so what is
  decoded for any row is one combination of whole payloads (`LinearAcrossBlocks`),
  and a self-check that compares a payload detects a loss in any block
  (`SelfCheckSound`).
* `relic_bridge`: between calls and at every exit the heap holds the handle's blocks
  and nothing else (`HeapExact`); a payload is never reported for a scalar other
  than the signed one, also when pairings degenerate (`NoFalseMatch`), and for the
  signed one always, unless a blinding is zero or the secret key meets a scalar
  (`MatchFound`).
* `round_stats`: the phases of the slowest thread fit into the evaluation
  (`PhasesFitEval`), the stages into the total (`StagesFitTotal`), the online time
  covers every ciphertext and result of P1 (`OnlineCoversWindow`) and in a pool is no
  longer than from the first call that sends a ciphertext to the end of the last
  (`OnlineWithinCalls`). In the loop it may be, see "Observations". That bytes per
  direction add up to the bytes per kind (`BytesAgree`) is proved instead.
* `dummy_tail`: the encoder gets distinct keys (`KeysDistinct`), a retry encodes a
  set of dummies not tried before under the same parameter (`RetryDiffers`; two attempts
  may agree where the first counter of one is an item's hash), the sample
  has the size asked for without repetition, and dummies only beside all real keys
  (`SampleCovers`), and no attempt hangs
  (`Returns`).
* `update_rounds`, the verdict: a call that ends without a fault returns true exactly if
  each flagged bucket is empty on a side or holds no item of Y twice, in the sets the
  caller keeps (`VerdictForeseen`).
* `benchmark`: exit code 1 only after a fault (`FailsOnlyByFault`); on 0 every row is
  there with the overlap the sets have (`RowsComplete`).

The bounds. Two items share a bucket and one is alone, so that a delta changes a
bucket without changing every item of it; two buckets give rounds that flag none,
one (the loop) or both (the pool); a third bucket and a third thread in
`initial_pool` let one worker finish while two race. `MaxFaults = 1` bounds the
environment faults in one call; duplicates fail without one, so two failures in a
call still happen. `MaxCopies = 2` bounds the copies of an item: two are enough to
be a duplicate and a deletion brings it back to one. In `bucket_eval`, six keys are
the fewest that have a shape without padding, and `SizeRange = 2^16` stands for
2^64: the only thing it does is to wrap. In `band_okvs`, four rows over two starts
give chains of reductions, cancelling rows, equal rows and contradictions; in
`block_split` three rows do, and blocks of two bytes with payloads of three give a
short last block, as 81 bytes in blocks of 16 do. In `relic_bridge`, p = 5 with
three scalars lets a secret meet a scalar or miss all of them; three points give an
accumulator beyond the fewest. In `round_stats`, `MaxTime = 3` lets two threads
overlap partly, and be idle before, between and after. In `dummy_tail`,
`WordRange = 64`, six bits, is enough for the 17 between two parameters and for salts that reach past a carry.

The type invariants of BatchEvaluation, BucketEval and BandOkvs are proved instead
of run; `update_rounds` checks its own, which contains that of the
batch.

### Findings

* **A failed update round is not undone** (`update_naive`). The delta is in
  `state.y_buckets` before RELIC starts; if the round then fails, its matches never
  reach `state.intersection`, and a later successful round that does not touch the
  same bucket reports the old ones. Retrying the same delta is no way out: it adds
  the items again, and a bucket with a duplicate cannot be encoded.
  `CleanBucketsExact`, `SuccessExact` and `SuccessfulRoundNaive` say exactly how far
  the damage goes.
* **Workers clean a shared RELIC context** (`initial_shared`). Without MULTI, the
  default of `rebuild_relic_for_upsi.ps1`, RELIC has one context for the process, and
  a worker that has run out of buckets takes it down under the others. Two threads,
  no fault.
* **The sampled self-check misses real keys** (`bucket_eval_sampled`). In "strict
  robust" mode with its default sampling the check covers a prefix of the real keys;
  the mode that is not strict covers all of them.

### Observations

Met while modelling, of no consequence for a result; no run is kept for them.

* The loop's online time is not P1's window. `include/upsi_metrics.h:68-69` defines
  `p1_online_ms` as "from first received Ci in this round to last P0 message in this
  round". The loop subtracts the creation of the first ciphertext from the whole
  evaluation (`src/upsi_protocol_update.cpp:206-209`,
  `src/upsi_protocol_initial.cpp:151-153`), so buckets with an empty side before the
  first or after the last message are counted, which the pool leaves out
  (`src/upsi_protocol_update.cpp:91-93`). `OnlineWithinCalls` is therefore stated for the
  pool only; without `~LoopPath` it fails in `round_stats`.
  Both paths take a call's begin plus the creation time for the arrival of the
  ciphertext, although scalars and parameters come before the creation: the time
  reported starts earlier by as much. `OnlineCoversWindow` is all that holds of both.
* `p1_sign_item_count` and `p0_verify_item_count` ("Workload counters for per-item
  normalization", `include/upsi_metrics.h:64`) also count the items of buckets with
  an empty side, where nothing is signed or verified
  (`src/upsi_protocol_bucket_eval.cpp:79-82`, `src/upsi_protocol_update.cpp:64-65`):
  times per item come out too small.
* `src/upsi_exp_4_3_2_bench.cpp:265` says "Delete from upper half of current Y", but
  the items deleted are the lowest of Y (`:249-251`, `:266-269`), all in X. Both rows
  of the benchmark therefore report the same overlap, as `RowsComplete` says.
* `include/upsi_okvs_param_policy.h:11` speaks of "random dummies"; they come from a
  counter that is the same for every bucket, and a retry may share all dummies but one
  with the attempt before it. `RetryDiffers` shows that at least one is new, if the first
  counters of the two are no item's hash. Without that condition a retry can repeat the
  dummies, and `dummy_tail` reaches such buckets; with 64-bit hashes they are as unlikely
  as a collision.

### Fairness

`BatchFairness` is weak fairness of the loop, of the join and of each worker: the
operating system schedules every runnable thread, and `join` returns once the thread
has ended. It is on a thread's steps as a whole: whether a step fails is not
constrained, and a stale read of `failed` may go on for ever without keeping a worker
from its end, since the queue runs out. BucketEval and DummyTail are sequential code
that runs until it returns, hence weak fairness of their steps. The other modules
state safety only and assume no fairness.

## Theorems

All hold for every number of items, buckets and threads, every hash, any bound on
faults, any size of a system, a band or a handle, from the assumptions named in the
modules.

* `UpdateProtocol_proofs`, on buckets, batches and the initial round:
  * Buckets: applying a delta commutes with bucketing (`DeltaTracksSet`); unflagged
    buckets are unchanged (`UnflaggedUnchanged`).
  * Batches, lemmas: types are kept by every step of the loop and the pool
    (`BatchTypeStep`), and so are `BatchProgress` (`BatchProgressStep`) and `PoolSound`
    (`PoolSoundStep`).
  * The initial round: `InitialTypeCorrect`, and `PoolAlwaysSound`, the inductive
    invariant of the pool: positions claimed are distinct and below `next`, a worker's
    context follows its control state, and a slot without a result has a worker that is
    at it or has reported a failure. From it `ClaimsDistinct`, `ExactVerdict`,
    `ContextsSafe` (with a context per thread RELIC is up when used and down after) and
    `InitialRoundNaive`.
  * The end of a call, for both rounds: `InitialRoundEnds`, `RoundsEnd`. `StepsLeft`
    counts two steps for an unclaimed position, one to four for a worker by where it is,
    and the caller's; every step of a batch decreases it (`BatchShrinks`), as a worker
    that goes back to claiming has used up a position. The queue holds a bucket once
    (`ClaimsOnce`), which bounds it.
* `UpdateProtocol_proofs`, on the rounds:
  * `TypeCorrect`: `TypeOK`. Inductive as it stands.
  * `BucketsTrack`: `BucketsTrackSets`, by `DeltaTracksSet`; the batch touches no bucket.
  * `ProgressInvariant`: `RoundProgress`. It is needed because exactness is
    established only by the last step of a batch: the invariant says what the
    accumulator holds at every point of the loop, that filled slots are right, that
    the pool merges only after the join, and that the queue lists exactly the flags.
  * `CleanExact`: `CleanBucketsExact`, from the three above: on a success, an item of
    a flagged bucket is in the accumulator exactly if both maintained buckets hold it
    (progress), which is that both sets do (tracking); an item of another bucket was
    kept, and the bucket has not changed.
  * `SuccessfulRoundExact`, `SuccessfulRoundNaive`, `HistoryReused`: consequences.
  * `RoundVerdictExact`, `RoundClaimsDistinct`, `RoundContextsSafe`: the pool's
    guarantees in every round of any history, from the same lemmas about `PoolSound`.
  * `VerdictFromSets`: `VerdictForeseen`, as bucketing keeps copies and emptiness
    (`EvaluableBucket`). Two consequences: while X and Y are sets no round fails without
    a fault (`SetsNeverFail`), and an item twice in a flagged bucket of Y beside items
    of X fails every round (`DuplicateFails`), a retried delta with additions included.
  * `ImplementsRounds`: `RoundsSpec`. Every step maps to a step of `UpsiRounds` or a
    stutter; a success without the promise answers with items of X because the stored
    intersection always does.
  * `LoopsAlwaysMatch`: `LoopsMatchClosedForms`, for every vector and delta. `Deleted`
    and `Added` say what the first k rounds of the two loops of `ApplyBucketDelta` have
    made of the buckets and flags: an item's copies are those of its vector less the
    deletions met so far, truncated at zero, and a bucket without a flag is the vector
    it was, order included.
* `BucketEval_proofs`, on the policy: for every bucket size and candidate a padded
  bucket has a valid shape (`PaddedShapesValid`), and the constructor accepts it,
  whichever way the product is rounded (`PaddedConstructorAccepts`).
* `BucketEval_proofs`, on the evaluation, one strengthening on top of another:
  * `Typed` (the ladder stays within its bounds: `TypeCorrect`), `BridgeKept` (the
    bridge lives exactly between its creation and a return: `BridgeAlwaysSound`),
    `TableKept` (what was encoded has more slots than keys: `EncodingFits`),
    `MatchesKept` (what has been reported so far is the decodable part of the X items
    looked at). From the last, `DuplicatesNeverTrue` and `CheckedTrueReportsAll`.
  * `AttemptsKept`: the attempts made are those before the current one, each once, for
    every candidate that has a shape; hence `AlwaysGivesUpLast`, unless a call failed.
  * `EvaluationEnds`: stages, candidates, attempts and items left decrease
    lexicographically with every step.
  * `CheckedTrueExact`: the list reported is `Held`, P0's items that P1 holds in P0's
    order, one item longer or not with every X item looked at.
  * `ImplementsService`: every step is a step of `BucketService` or none.
* `DummyTail_proofs`, for every word length, bijection and xor:
  * `DistinctKeys` and `RetriesDiffer`: the keys filled in so far are distinct, and those of
    the dummies are keys of successive counters, no more than `n_enc` of them
    (`DrawsKept`). The dummies of an earlier attempt are remembered with its first draw
    (`BeforeKept`). If a retry had the same dummies, each attempt would hold the other's
    first draw, so each start would lie less than half a round of the counter ahead of
    the other (`StartsMeet`): the starts would be equal, but attempts on one parameter
    have different salts.
  * `SampleCoversKeys`: `SampleCovers`, as the real positions come first, in order.
  * `FillEnds`: an attempt has drawn no more dummies than it has entries filled, since a
    draw that adds nothing has met another entry (`DrawsFit`). `SampleEnds`: the sample is
    complete before its counter has gone round, since a bijection would by then have come
    to every position, and a short sample misses one (`PlaceTwice`).
* `BandOkvs_proofs`:
  * `Banded`, the invariant that the row being reduced and every pivot begin at their
    first column, stay within the band and end before the last w slots, is inductive
    because xor with a pivot of the same first column removes that column and reaches no
    further than the longer of the two. It gives `TypeCorrect` and `EchelonAlways`.
  * `Spanned`, on top of it, for any right-hand sides: the pivots' equations have the
    same solutions as those of the rows taken so far (`Equations`), and every row taken
    left a pivot or is a sum of earlier rows (`Accounted`). The witnesses are carried
    through an elimination step by the algebra of sums over GF(2) (`SumXor`,
    `SumLinear`): pivots are sums of rows (`PivotSumsAreRowSums`) and rows of pivots. During
    back substitution the columns below `i` are free and those done are satisfied
    (`Solved`). It gives `RowsAlwaysSpanned`, `DecodesAlways` and `DroppedAreDependent`:
    which rows are lost depends on the keys alone.
* `BlockSplit_proofs`: `SplitKept`, the invariant that every finished table solves what is
  solvable of its block, uses the invariants of `BandOkvs_proofs` for the current block.
  As lost rows depend on the keys alone, blocks lose the same ones:
  `KeptRowsAlwaysWhole`, `AlwaysLinear`, `SelfCheckAlwaysSound`.
* `RelicBridge_proofs`: `HeapAt` names the blocks allocated at every point of every call;
  `HeapAlwaysExact` follows. For the verdict, the loop of `verify_x` holds a partial
  product (`Partial`); with arithmetic modulo a prime the pairings of a payload agree
  exactly if the scalars do, unless an exponent degenerates: `NeverFalseMatch`,
  `AlwaysMatchFound`.
* `RoundStats_proofs`: `IInv` says that the phases of a thread lie one after the other
  between the start of the evaluation and now, and keeps a bucket that sent its
  ciphertext first and one that ended last. It gives `PhasesAlwaysFit`,
  `StagesAlwaysFit`, `OnlineAlwaysCovers`, `OnlineAlwaysWithin`, and `BytesAlwaysAgree`.
* `Benchmark_proofs`: arithmetic on the intervals of `BenchmarkSets` shows that no input
  holds an item twice and that the overlap has the same size before and after an update
  (`InitialOverlap`, `UpdatedOverlap`). `IInv` carries it through the loops: every
  trial found the same overlap, every pair of a size and a delta has left two rows.
  Hence `FailsAlwaysByFault` and `RowsAlwaysComplete`.

Where these arguments count or sum (`CountUp`, `GrowToAll`, `FirstIsLeast`,
`PartialExists`), induction is a least counterexample, by the well-foundedness of `<`
(`WFMin`), as the induction rules themselves take an operator.

Every invariant and action property of the passing runs is a theorem; `ContextLive` and
`NoContextLeft` need a context per thread, without which `initial_shared` refutes the
first. Liveness is only model-checked, as it needs ENABLED: `Returns` of the initial round
and of DummyTail, `CallsReturn`, and the fairness in `ServiceSpec` (every call of the
evaluation is answered).
What can be proved of it is: each of these calls takes boundedly many steps
(`InitialRoundEnds`, `RoundsEnd`, `EvaluationEnds`, `FillEnds`, `SampleEnds`); that one of
its steps is always enabled until it returns is what TLC adds. Of `ServiceSpec`,
`ImplementsService` is the safety part.

## Not modelled, and why

* Hash functions are constants; keys and scalars of two items are assumed not to
  collide. An item's key and a dummy's may (DummyTail).
* The pairings and RELIC's inside are external; group elements are exponents.
* Exceptions (`std::bad_alloc`, a thread that cannot be started) end the process.
* In RoundStats, rounds that fail (nobody reads their statistics) and three of five
  phases of a bucket; in Benchmark, the fixed configuration, the formatting of the
  file, and figures that depend on the clock. As the figures left are the same in every
  trial, which of the two middle ones `Median` takes of an even number is not checked.
* The adapter's returns of false for a wrong number of keys or bytes, which its only
  caller cannot provoke. The words of `uint.h` are sets of columns.
* `Mul` and GF(2^128) in the third-party OKVS: nothing calls them. Tests, build files
  and scripts keep no state of the system.
* A caller that ignores a failed `InitializeUpdateState`; `bucket_count = 0`.

## Plan

What the project has left: a model of callers that use a half-initialised state, and, once
the prover handles ENABLED, the enabledness that turns `InitialRoundEnds`, `RoundsEnd` and
`EvaluationEnds` into the liveness properties of the runs.
