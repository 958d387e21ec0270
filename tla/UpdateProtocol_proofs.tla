------------------------ MODULE UpdateProtocol_proofs ------------------------
(***************************************************************************)
(* The buckets, the batch evaluation of a round, the initial round and the *)
(* update protocol, for all sets a caller may pass, every hash, number of  *)
(* buckets, number of threads and bound on faults.                         *)
(*                                                                         *)
(* The lemmas about buckets and batches serve both specifications.  The    *)
(* inductive invariant of InitialSpec is                                   *)
(*    BatchTypeOK /\ PoolSound /\ RoundTracks                              *)
(* and that of Spec, the update protocol,                                  *)
(*    TypeOK /\ PoolSound /\ BucketsTrackSets /\ RoundProgress             *)
(*      /\ CleanBucketsExact                                               *)
(*                                                                         *)
(* The last part is about the loops of upsi_bucket.cpp over vectors, for   *)
(* every vector and delta.  A loop is a recursive function: LoopRuns shows *)
(* that it has a value after every round, and Deleted and Added say what   *)
(* the first k rounds have made of the buckets and flags.  Induction over  *)
(* k is CountUp, by a least counterexample.                                *)
(***************************************************************************)
EXTENDS BucketDelta, TLAPS, FiniteSetTheorems, WellFoundedInduction

----------------------------------------------------------------------------
(* What the operations of upsi_bucket.cpp return, for every set of items,  *)
(* every hash and every number of buckets.                                 *)

(* Every item has a bucket. *)
LEMMA BucketOfType == \A i \in Items : BucketOf(i) \in BucketIds
BY BucketAssumption DEF BucketOf, BucketIds

(* Bucketing a set gives a bag per bucket. *)
LEMMA BuildBucketsType ==
  ASSUME NEW set \in Bags
  PROVE  BuildBuckets(set) \in BucketArrays
BY DEF BuildBuckets, BucketArrays, Bags

(* Applying a delta to a bag per bucket gives a bag per bucket. *)
LEMMA ApplyBucketDeltaType ==
  ASSUME NEW b \in BucketArrays, NEW add \in Bags, NEW del \in Bags
  PROVE  ApplyBucketDelta(b, add, del) \in BucketArrays
<1>1. \A k \in BucketIds, i \in Items :
        /\ b[k][i] \in Nat
        /\ RemoveUpTo(b[k][i], del[i]) + add[i] \in Nat
  BY DEF BucketArrays, Bags, RemoveUpTo
<1> QED
  BY <1>1 DEF ApplyBucketDelta, BucketArrays, Bags

(* The caller's set stays a bag. *)
LEMMA LiveAfterType ==
  ASSUME NEW set \in Bags, NEW add \in Bags, NEW del \in Bags
  PROVE  LiveAfter(set, add, del) \in Bags
BY DEF LiveAfter, Bags, RemoveUpTo

(* ApplyBucketDelta on the buckets of a set yields the buckets of the      *)
(* updated set: incremental maintenance equals building them afresh.       *)
THEOREM DeltaTracksSet ==
  ASSUME NEW set \in Bags, NEW add \in Bags, NEW del \in Bags
  PROVE  ApplyBucketDelta(BuildBuckets(set), add, del)
           = BuildBuckets(LiveAfter(set, add, del))
<1>1. \A b \in BucketIds, i \in Items :
        ApplyBucketDelta(BuildBuckets(set), add, del)[b][i]
          = BuildBuckets(LiveAfter(set, add, del))[b][i]
  BY DEF ApplyBucketDelta, BuildBuckets, LiveAfter
<1>2. \A b \in BucketIds :
        ApplyBucketDelta(BuildBuckets(set), add, del)[b]
          = BuildBuckets(LiveAfter(set, add, del))[b]
  BY <1>1, Zenon DEF ApplyBucketDelta, BuildBuckets
<1> QED
  BY <1>2, Zenon DEF ApplyBucketDelta, BuildBuckets

(* An item whose bucket is not flagged keeps its number of copies, so the  *)
(* stored result for the bucket stays valid.                               *)
THEOREM UnflaggedUnchanged ==
  ASSUME NEW set \in Bags, NEW add \in Bags, NEW del \in Bags, NEW i \in Items,
         BucketOf(i) \notin ChangedFlags(BuildBuckets(set), add, del)
  PROVE  LiveAfter(set, add, del)[i] = set[i]
<1>1. BucketOf(i) \in BucketIds
  BY BucketOfType
<1>2. BuildBuckets(set)[BucketOf(i)][i] = set[i]
  BY <1>1 DEF BuildBuckets
<1>3. ~(add[i] > 0) /\ ~(del[i] > 0 /\ set[i] > 0)
  BY <1>1, <1>2 DEF ChangedFlags
<1>4. set[i] \in Nat /\ add[i] \in Nat /\ del[i] \in Nat
  BY DEF Bags
<1> QED
  BY <1>3, <1>4 DEF LiveAfter, RemoveUpTo

----------------------------------------------------------------------------

(* Bucket indices are a finite set of naturals. *)
LEMMA BucketIdsFinite == IsFiniteSet(BucketIds) /\ BucketIds \subseteq Nat
<1>1. IsFiniteSet(0 .. (BucketCount - 1))
  BY FS_Interval, BucketAssumption
<1> QED
  BY <1>1, BucketAssumption DEF BucketIds

(* changed_idx is a sequence of bucket indices that lists its set exactly. *)
LEMMA EnumerationsList ==
  ASSUME NEW S \in SUBSET BucketIds, NEW q \in Enumerations(S)
  PROVE  /\ q \in Seq(BucketIds)
         /\ \A b \in BucketIds : b \in S <=> \E k \in 1 .. Len(q) : q[k] = b
<1>1. Cardinality(S) \in Nat
  BY BucketIdsFinite, FS_Subset, FS_CardinalityType
<1>2. q \in [1 .. Cardinality(S) -> S]
  BY DEF Enumerations
<1>3. q \in Seq(BucketIds) /\ Len(q) = Cardinality(S)
  BY <1>1, <1>2
<1>4. \A b \in S : \E k \in 1 .. Len(q) : q[k] = b
  BY <1>3 DEF Enumerations
<1> QED
  BY <1>2, <1>3, <1>4

(* No set lists to the empty sequence but the empty one. *)
LEMMA EnumerationOfNothing ==
  ASSUME NEW S \in SUBSET BucketIds, NEW q \in Enumerations(S), Len(q) = 0
  PROVE  S = {}
BY EnumerationsList

(* The main thread is not a worker, and all threads are naturals. *)
LEMMA ThreadsApart ==
  /\ Main \in Procs
  /\ Main \notin Workers
  /\ Workers \subseteq Procs
  /\ \A t \in Procs : Context(t) \in Procs
BY BatchAssumption DEF Main, Workers, WorkerThreads, Procs, Context

(* What an evaluation contributes is a set of items. *)
LEMMA MatchesType == \A b : Matches(b) \subseteq Items
BY DEF Matches, Contract!Matches

(* Counting a fault keeps the counter a number. *)
LEMMA EvalFailsType ==
  ASSUME faults \in Nat, NEW b, EvalFails(b)
  PROVE  faults' \in Nat
BY DEF EvalFails, Fault

----------------------------------------------------------------------------
(* Every step of a running batch keeps its variables well typed. *)
LEMMA BatchTypeStep ==
  ASSUME BatchTypeOK, BatchNext
  PROVE  BatchTypeOK'
<1> USE DEF BatchTypeOK, Positions, buckets
<1>a. /\ xb' = xb /\ yb' = yb /\ queue' = queue
  BY DEF BatchNext, Sequential, Worker, SeqInit, SeqInitFails, SeqEval,
         SeqEvalFails, SeqDone, SeqClean, Join, WorkerInit, WorkerInitFails,
         Claim, ClaimNothing, Stop, Eval, EvalFailsIn, WorkerClean
<1>1. CASE SeqInit
  BY <1>1, ThreadsApart DEF SeqInit, Main, Workers
<1>2. CASE SeqInitFails
  <2>1. relicUp' \in [Procs -> BOOLEAN]
    BY <1>2, ThreadsApart DEF SeqInitFails
  <2>2. faults' \in Nat
    BY <1>2 DEF SeqInitFails, Fault
  <2> QED
    BY <1>2, <2>1, <2>2, ThreadsApart DEF SeqInitFails, Main, Workers
<1>3. CASE SeqEval
  BY <1>3, MatchesType DEF SeqEval
<1>4. CASE SeqEvalFails
  BY <1>4, EvalFailsType, ThreadsApart DEF SeqEvalFails, Main, Workers
<1>5. CASE SeqDone
  BY <1>5, ThreadsApart DEF SeqDone, Main, Workers
<1>6. CASE SeqClean
  BY <1>6, ThreadsApart DEF SeqClean, Main, Workers
<1>7. CASE Join
  <2>1. acc' \subseteq Items
    <3>1. \A k \in Mergeable : results[queue[k]].matched \subseteq Items
      BY DEF Mergeable, Results
    <3> QED
      BY <1>7, <3>1 DEF Join
  <2>2. \A w \in Workers : pc'[w] = "off"
    BY <1>7, ThreadsApart DEF Join
  <2>3. pc' \in [Procs -> {"return", "off"}]
    BY <1>7 DEF Join
  <2>4. ok' \in BOOLEAN
    BY <1>7, Zenon DEF Join
  <2> QED
    BY <1>7, <2>1, <2>2, <2>3, <2>4 DEF Join
<1>8. ASSUME NEW w \in Workers, Worker(w)
      PROVE  BatchTypeOK'
  <2>1. CASE WorkerInit(w)
    BY <2>1, ThreadsApart DEF WorkerInit
  <2>2. CASE WorkerInitFails(w)
    <3>1. relicUp' \in [Procs -> BOOLEAN]
      BY <2>2, ThreadsApart DEF WorkerInitFails
    <3>2. faults' \in Nat
      BY <2>2 DEF WorkerInitFails, Fault
    <3> QED
      BY <2>2, <3>1, <3>2, ThreadsApart DEF WorkerInitFails
  <2>3. CASE Claim(w)
    <3>1. next + 1 \in 1 .. Len(queue)
      BY <2>3 DEF Claim
    <3> QED
      BY <2>3, <3>1, ThreadsApart DEF Claim
  <2>4. CASE ClaimNothing(w)
    BY <2>4, ThreadsApart DEF ClaimNothing
  <2>5. CASE Stop(w)
    BY <2>5, ThreadsApart DEF Stop
  <2>6. CASE Eval(w)
    <3>1. [attempted |-> TRUE, ok |-> TRUE, matched |-> Matches(queue[at[w]])]
            \in Results
      BY MatchesType DEF Results
    <3>2. results' \in [BucketIds -> Results]
      BY <2>6, <3>1 DEF Eval
    <3> QED
      BY <2>6, <3>2, ThreadsApart DEF Eval
  <2>7. CASE EvalFailsIn(w)
    <3>1. [attempted |-> TRUE, ok |-> FALSE, matched |-> {}] \in Results
      BY DEF Results
    <3>2. results' \in [BucketIds -> Results]
      BY <2>7, <3>1 DEF EvalFailsIn
    <3>3. faults' \in Nat
      BY <2>7, EvalFailsType DEF EvalFailsIn
    <3> QED
      BY <2>7, <3>2, <3>3, ThreadsApart DEF EvalFailsIn
  <2>8. CASE WorkerClean(w)
    BY <2>8, ThreadsApart DEF WorkerClean
  <2> QED
    BY <1>8, <2>1, <2>2, <2>3, <2>4, <2>5, <2>6, <2>7, <2>8 DEF Worker
<1> QED
  BY <1>1, <1>2, <1>3, <1>4, <1>5, <1>6, <1>7, <1>8 DEF BatchNext, Sequential

(* Starting a batch on a listed set of buckets, with a base of items. *)
LEMMA BeginType ==
  ASSUME BatchTypeOK,
         NEW S \in SUBSET BucketIds, NEW q \in Enumerations(S),
         NEW base \in SUBSET Items, Begin(q, base),
         xb' \in BucketArrays, yb' \in BucketArrays
  PROVE  BatchTypeOK'
<1>1. q \in Seq(BucketIds)
  BY EnumerationsList
<1>2. results' \in [BucketIds -> Results]
  BY DEF Begin, NoResult, Results
<1>3. pc' \in [Procs -> {"return", "init", "join", "off"}]
  BY DEF Begin
<1> QED
  BY <1>1, <1>2, <1>3, ThreadsApart DEF BatchTypeOK, Begin

(* Ending a batch. *)
LEMMA EndType ==
  ASSUME BatchTypeOK, End, UNCHANGED buckets
  PROVE  BatchTypeOK'
<1>1. results' \in [BucketIds -> Results]
  BY DEF End, NoResult, Results
<1>2. pc' \in [Procs -> {"idle", "off"}]
  BY DEF End
<1> QED
  BY <1>1, <1>2, ThreadsApart DEF BatchTypeOK, End, buckets

(* Before the first call. *)
LEMMA InitType ==
  ASSUME BatchInit, xb \in BucketArrays, yb \in BucketArrays
  PROVE  BatchTypeOK
<1>1. results \in [BucketIds -> Results]
  BY DEF BatchInit, NoResult, Results
<1>2. pc \in [Procs -> {"idle", "off"}]
  BY DEF BatchInit
<1> QED
  BY <1>1, <1>2, ThreadsApart DEF BatchTypeOK, BatchInit

(* A stutter. *)
LEMMA StutterType ==
  ASSUME BatchTypeOK, UNCHANGED <<buckets, batch>>
  PROVE  BatchTypeOK'
BY DEF BatchTypeOK, buckets, batch, Positions

----------------------------------------------------------------------------
(* A worker moves only while the caller waits, and leaves it waiting. *)
LEMMA WorkerInJoin ==
  ASSUME BatchTypeOK, PoolJoined, NEW w \in Workers, Worker(w)
  PROVE  pc[Main] = "join" /\ pc'[Main] = "join"
<1>1. pc[w] # "off" /\ pc'[Main] = pc[Main]
  BY ThreadsApart
  DEF BatchTypeOK, Worker, WorkerInit, WorkerInitFails, Claim, ClaimNothing,
      Stop, Eval, EvalFailsIn, WorkerClean
<1> QED
  BY <1>1 DEF PoolJoined

(* No step of a batch leaves a thread running outside the join, starts a   *)
(* call or ends one.                                                       *)
LEMMA BatchStaysInCall ==
  ASSUME BatchTypeOK, BatchNext, PoolJoined
  PROVE  PoolJoined' /\ pc[Main] # "idle" /\ pc'[Main] # "idle"
<1> USE DEF BatchTypeOK, PoolJoined
<1>1. CASE Sequential
  <2>1. /\ pc[Main] \in {"init", "eval", "clean"}
        /\ \A w \in Workers : pc'[w] = pc[w]
        /\ pc'[Main] \in {"eval", "clean", "return"}
    BY <1>1, ThreadsApart DEF Sequential, SeqInit, SeqInitFails, SeqEval,
       SeqEvalFails, SeqDone, SeqClean
  <2> QED
    BY <2>1
<1>2. CASE Join
  BY <1>2, ThreadsApart DEF Join
<1>3. ASSUME NEW w \in Workers, Worker(w)
      PROVE  pc[Main] = "join" /\ pc'[Main] = "join"
  BY <1>3, WorkerInJoin
<1> QED
  BY <1>1, <1>2, <1>3 DEF BatchNext

(* Every step of a running batch keeps its progress, whatever entries it   *)
(* started from.                                                           *)
LEMMA BatchProgressStep ==
  ASSUME BatchTypeOK, BatchNext, PoolJoined, NEW base, BatchProgress(base)
  PROVE  BatchProgress(base)'
<1> USE DEF BatchTypeOK, BatchProgress, Positions, buckets, Collected
<1>a. /\ xb' = xb /\ yb' = yb /\ queue' = queue
  BY DEF BatchNext, Sequential, Worker, SeqInit, SeqInitFails, SeqEval,
         SeqEvalFails, SeqDone, SeqClean, Join, WorkerInit, WorkerInitFails,
         Claim, ClaimNothing, Stop, Eval, EvalFailsIn, WorkerClean
<1>b. \A b : Matches(b)' = Matches(b)
  BY <1>a DEF Matches, Contract!Matches
<1>c. Len(queue) # 0
  <2>1. ASSUME pc[Main] = "return" PROVE ~BatchNext
    <3>1. \A w \in Workers : ~Worker(w)
      BY <2>1, WorkerInJoin
    <3> QED
      BY <2>1, <3>1 DEF BatchNext, Sequential, SeqInit, SeqInitFails, SeqEval,
         SeqEvalFails, SeqDone, SeqClean, Join
  <2> QED
    BY <2>1
<1>1. CASE SeqInit
  BY <1>1, <1>a, <1>b, <1>c, ThreadsApart DEF SeqInit
<1>2. CASE SeqInitFails
  BY <1>2, <1>a, <1>b, <1>c, ThreadsApart DEF SeqInitFails
<1>3. CASE SeqEval
  <2>1. 1 .. (next + 1) = (1 .. next) \cup {next + 1}
    OBVIOUS
  <2>2. acc' = Collected(base, next + 1)
    BY <1>3, <2>1 DEF SeqEval
  <2> QED
    BY <1>3, <1>a, <1>b, <1>c, <2>2, ThreadsApart DEF SeqEval
<1>4. CASE SeqEvalFails
  BY <1>4, <1>a, <1>b, <1>c, ThreadsApart DEF SeqEvalFails
<1>5. CASE SeqDone
  BY <1>5, <1>a, <1>b, <1>c, ThreadsApart DEF SeqDone
<1>6. CASE SeqClean
  BY <1>6, <1>a, <1>b, <1>c, ThreadsApart DEF SeqClean
<1>7. CASE Join
  <2>1. ASSUME ok' PROVE acc' = Collected(base, Len(queue))
    <3>1. failedBy = {} /\ Mergeable = 1 .. Len(queue)
      BY <1>7, <2>1 DEF Join
    <3>2. \A k \in 1 .. Len(queue) : results[queue[k]].matched = Matches(queue[k])
      BY <3>1 DEF Mergeable
    <3>3. acc' = base \cup UNION {results[queue[k]].matched : k \in 1 .. Len(queue)}
      BY <1>7, <3>1 DEF Join
    <3> QED
      BY <3>2, <3>3
  <2>2. pc'[Main] = "return" /\ \A w \in Workers : pc'[w] = "off"
    BY <1>7, ThreadsApart DEF Join
  <2>3. results' = results
    BY <1>7 DEF Join
  <2>4. ok' => acc' = Collected(base, Len(queue))'
    BY <1>a, <1>b, <1>c, <2>1
  <2> QED
    BY <1>a, <1>b, <1>c, <2>2, <2>3, <2>4
<1>8. ASSUME NEW w \in Workers, Worker(w)
      PROVE  BatchProgress(base)'
  <2>1. pc[Main] = "join" /\ pc'[Main] = "join"
    BY <1>8, WorkerInJoin
  <2>2. acc' = acc
    BY <1>8
    DEF Worker, WorkerInit, WorkerInitFails, Claim, ClaimNothing, Stop, Eval,
        EvalFailsIn, WorkerClean
  <2>3. \A b \in BucketIds :
          results'[b].attempted /\ results'[b].ok => results'[b].matched = Matches(b)
    <3>1. CASE Eval(w)
      BY <3>1 DEF Eval
    <3>2. CASE EvalFailsIn(w)
      BY <3>2 DEF EvalFailsIn
    <3>3. CASE ~Eval(w) /\ ~EvalFailsIn(w)
      <4>1. results' = results
        BY <1>8, <3>3
        DEF Worker, WorkerInit, WorkerInitFails, Claim, ClaimNothing, Stop,
            WorkerClean
      <4> QED
        BY <4>1
    <3> QED
      BY <3>1, <3>2, <3>3
  <2> QED
    BY <1>a, <1>b, <1>c, <2>1, <2>2, <2>3
<1> QED
  BY <1>1, <1>2, <1>3, <1>4, <1>5, <1>6, <1>7, <1>8 DEF BatchNext, Sequential

(* A batch that just began has made no progress and owes none. *)
LEMMA BeginProgress ==
  ASSUME NEW S \in SUBSET BucketIds, NEW q \in Enumerations(S),
         NEW base, Begin(q, base)
  PROVE  BatchProgress(base)' /\ PoolJoined' /\ pc'[Main] # "idle"
<1>1. q \in Seq(BucketIds)
  BY EnumerationsList
<1>2. pc' = [t \in Procs |->
              IF t = Main
                THEN IF Len(q) = 0 THEN "return"
                     ELSE IF WorkerThreads = 1 \/ Len(q) <= 1 THEN "init"
                     ELSE "join"
                ELSE IF WorkerThreads > 1 /\ Len(q) > 1 /\ t <= Len(q)
                     THEN "init" ELSE "off"]
  BY DEF Begin
<1>3. pc'[Main] \in {"return", "init", "join"}
  BY <1>2, ThreadsApart
<1>4. pc'[Main] # "join" => \A w \in Workers : pc'[w] = "off"
  BY <1>1, <1>2, ThreadsApart, BatchAssumption DEF WorkerThreads
<1>5. pc'[Main] = "return" <=> Len(queue') = 0
  BY <1>1, <1>2, ThreadsApart DEF Begin
<1>6. \A b \in BucketIds : ~results'[b].attempted
  BY DEF Begin, NoResult
<1>7. acc' = base /\ next' = 0 /\ ok'
  BY DEF Begin
<1>8. pc'[Main] = "return" => acc' = Collected(base, Len(queue))'
  <2>1. 1 .. 0 = {}
    OBVIOUS
  <2> QED
    BY <1>5, <1>7, <2>1 DEF Collected
<1> QED
  BY <1>3, <1>4, <1>5, <1>6, <1>7, <1>8 DEF BatchProgress, PoolJoined

----------------------------------------------------------------------------
(* What no step of a running batch touches. *)
LEMMA BatchKeeps ==
  ASSUME BatchNext
  PROVE  xb' = xb /\ yb' = yb /\ queue' = queue
BY DEF BatchNext, Sequential, Worker, SeqInit, SeqInitFails, SeqEval,
       SeqEvalFails, SeqDone, SeqClean, Join, WorkerInit, WorkerInitFails,
       Claim, ClaimNothing, Stop, Eval, EvalFailsIn, WorkerClean, buckets

(* So what evaluating a bucket comes to stays the same. *)
LEMMA EvalSucceedsKept ==
  ASSUME BatchNext
  PROVE  \A b : EvalSucceeds(b)' <=> EvalSucceeds(b)
BY BatchKeeps, Zenon
   DEF EvalSucceeds, EmptySide, DuplicateKey, Contract!EmptySide,
       Contract!DuplicateKey

(* The main thread's steps leave the workers where they are. *)
LEMMA SequentialLeavesPool ==
  ASSUME BatchTypeOK, Sequential
  PROVE  /\ results' = results /\ at' = at /\ failedBy' = failedBy
         /\ \A w \in Workers : pc'[w] = pc[w]
         /\ pc[Main] \in {"init", "eval", "clean"}
         /\ pc'[Main] \in {"eval", "clean", "return"}
BY ThreadsApart
   DEF BatchTypeOK, Sequential, SeqInit, SeqInitFails, SeqEval, SeqEvalFails,
       SeqDone, SeqClean

(* The queue of a batch lists every bucket once. *)
LEMMA EnumerationsInjective ==
  ASSUME NEW S \in SUBSET BucketIds, NEW q \in Enumerations(S)
  PROVE  \A j, k \in 1 .. Len(q) : q[j] = q[k] => j = k
<1>1. Cardinality(S) \in Nat
  BY BucketIdsFinite, FS_Subset, FS_CardinalityType
<1>2. Len(q) = Cardinality(S)
  BY <1>1 DEF Enumerations
<1>3. \A j \in 1 .. Len(q) : q[j] \in Nat
  BY <1>2, BucketIdsFinite DEF Enumerations
<1>4. \A j, k \in 1 .. Len(q) : j < k => q[j] < q[k]
  BY <1>2 DEF Enumerations
<1> QED
  BY <1>1, <1>2, <1>3, <1>4

----------------------------------------------------------------------------
(* Every step of a running batch keeps the claims apart. *)
LEMMA ClaimsOnceStep ==
  ASSUME BatchTypeOK, PoolJoined, BatchNext, ClaimsOnce
  PROVE  ClaimsOnce'
<1> USE DEF BatchTypeOK, ClaimsOnce, DistinctClaims, Positions
<1>a. queue' = queue
  BY BatchKeeps
<1>1. CASE Sequential
  <2>1. \A w \in Workers : pc'[w] # "eval"
    BY <1>1, SequentialLeavesPool DEF PoolJoined
  <2>2. results' = results
    BY <1>1, SequentialLeavesPool
  <2>3. next' \in Nat /\ next' >= next
    BY <1>1 DEF Sequential, SeqInit, SeqInitFails, SeqEval, SeqEvalFails,
       SeqDone, SeqClean
  <2> QED
    BY <1>a, <2>1, <2>2, <2>3
<1>2. CASE Join
  <2>1. \A w \in Workers : pc'[w] = "off"
    BY <1>2, ThreadsApart DEF Join
  <2>2. results' = results /\ next' = next
    BY <1>2 DEF Join
  <2> QED
    BY <1>a, <2>1, <2>2
<1>3. ASSUME NEW w \in Workers, Worker(w)
      PROVE  ClaimsOnce'
  <2>1. CASE WorkerInit(w) \/ WorkerInitFails(w) \/ ClaimNothing(w) \/ Stop(w)
             \/ WorkerClean(w)
    <3>1. /\ results' = results /\ at' = at
          /\ next' \in Nat /\ next' >= next
      BY <2>1 DEF WorkerInit, WorkerInitFails, ClaimNothing, Stop, WorkerClean
    <3>2. \A v \in Workers : pc'[v] = "eval" => pc[v] = "eval"
      BY <2>1, ThreadsApart
      DEF WorkerInit, WorkerInitFails, ClaimNothing, Stop, WorkerClean
    <3> QED
      BY <1>a, <3>1, <3>2
  <2>2. CASE Claim(w)
    <3>1. /\ results' = results /\ next' = next + 1 /\ next < Len(queue)
          /\ at' = [at EXCEPT ![w] = next + 1]
          /\ pc' = [pc EXCEPT ![w] = "eval"]
      BY <2>2 DEF Claim
    <3>2. next + 1 \in Positions /\ ~results[queue[next + 1]].attempted
      BY <3>1
    <3>3. \A v \in Workers \ {w} : pc'[v] = pc[v] /\ at'[v] = at[v]
      BY <3>1, ThreadsApart
    <3>4. at'[w] = next + 1 /\ pc'[w] = "eval"
      BY <3>1, ThreadsApart
    <3>5. \A v \in Workers \ {w} : pc'[v] = "eval" => at'[v] <= next
      BY <3>3
    <3> QED
      BY <1>a, <3>1, <3>2, <3>3, <3>4, <3>5
  <2>3. CASE Eval(w) \/ EvalFailsIn(w)
    <3>1. /\ pc[w] = "eval" /\ next' = next
          /\ pc' = [pc EXCEPT ![w] = "claim"]
          /\ at' = [at EXCEPT ![w] = 0]
          /\ \A b \in BucketIds : b # queue[at[w]] => results'[b] = results[b]
      BY <2>3 DEF Eval, EvalFailsIn
    <3>2. \A v \in Workers \ {w} : pc'[v] = pc[v] /\ at'[v] = at[v]
      BY <3>1, ThreadsApart
    <3>3. pc'[w] = "claim"
      BY <3>1, ThreadsApart
    <3>4. \A k \in Positions : k # at[w] => results'[queue[k]] = results[queue[k]]
      BY <3>1
    <3>5. \A k \in Positions : k > next' => ~results'[queue[k]].attempted
      BY <3>1, <3>4
    <3>6. ASSUME NEW v \in Workers, pc'[v] = "eval"
          PROVE  /\ at'[v] <= next'
                 /\ ~results'[queue[at'[v]]].attempted
                 /\ \A u \in Workers \ {v} : pc'[u] = "eval" => at'[u] # at'[v]
      <4>1. v # w /\ pc[v] = "eval" /\ at'[v] = at[v] /\ at[v] \in Positions
        BY <3>2, <3>3, <3>6
      <4>2. at[v] # at[w]
        BY <3>1, <4>1
      <4> QED
        BY <3>1, <3>2, <3>3, <3>4, <4>1, <4>2
    <3> QED
      BY <1>a, <3>5, <3>6
  <2> QED
    BY <1>3, <2>1, <2>2, <2>3 DEF Worker
<1> QED
  BY <1>1, <1>2, <1>3 DEF BatchNext

(* Every step of a running batch keeps the contexts with their threads. *)
LEMMA ContextsKeptStep ==
  ASSUME BatchTypeOK, PoolJoined, BatchNext, ContextsKept
  PROVE  ContextsKept'
<1> SUFFICES ASSUME PerThreadContext
             PROVE  \A t \in Procs :
                      relicUp'[t] <=> pc'[t] \in {"claim", "eval", "clean"}
  BY DEF ContextsKept
<1> USE DEF BatchTypeOK, ContextsKept, Context
<1>1. CASE SeqInit \/ SeqInitFails \/ SeqClean
  BY <1>1, ThreadsApart DEF SeqInit, SeqInitFails, SeqClean
<1>2. CASE SeqEval \/ SeqEvalFails \/ SeqDone
  BY <1>2, ThreadsApart DEF SeqEval, SeqEvalFails, SeqDone
<1>3. CASE Join
  BY <1>3, ThreadsApart DEF Join, Procs
<1>4. ASSUME NEW w \in Workers, Worker(w)
      PROVE  \A t \in Procs :
               relicUp'[t] <=> pc'[t] \in {"claim", "eval", "clean"}
  <2>1. CASE WorkerInit(w) \/ WorkerClean(w)
    BY <2>1, ThreadsApart DEF WorkerInit, WorkerClean
  <2>2. CASE WorkerInitFails(w)
    BY <2>2, ThreadsApart DEF WorkerInitFails
  <2>3. CASE Claim(w) \/ ClaimNothing(w) \/ Stop(w) \/ Eval(w) \/ EvalFailsIn(w)
    BY <2>3, ThreadsApart DEF Claim, ClaimNothing, Stop, Eval, EvalFailsIn
  <2> QED
    BY <1>4, <2>1, <2>2, <2>3 DEF Worker
<1> QED
  BY <1>1, <1>2, <1>3, <1>4 DEF BatchNext, Sequential

(* The first worker exists. *)
LEMMA FirstWorker == 1 \in Workers
BY BatchAssumption DEF Workers, WorkerThreads

(* Joining a pool in which nobody failed finds every slot filled: a worker *)
(* left only because all positions were claimed, and nobody evaluates.     *)
LEMMA JoinComplete ==
  ASSUME BatchTypeOK, VerdictKept, Join, failedBy = {}
  PROVE  Faultless /\ Mergeable = Positions
<1> USE DEF BatchTypeOK, Positions
<1>1. pc[Main] = "join" /\ \A w \in Workers : pc[w] \in {"done", "off"}
  BY DEF Join
<1>2. pc[1] = "done"
  BY <1>1, FirstWorker DEF VerdictKept
<1>3. next >= Len(queue)
  BY <1>1, <1>2, FirstWorker DEF VerdictKept
<1>4. \A k \in Positions : results[queue[k]].attempted
  BY <1>1, <1>3 DEF VerdictKept
<1>5. \A k \in Positions : results[queue[k]].ok /\ EvalSucceeds(queue[k])
  BY <1>1, <1>4 DEF VerdictKept
<1>6. faults = 0
  BY <1>1 DEF VerdictKept
<1> QED
  BY <1>4, <1>5, <1>6 DEF Faultless, Mergeable

(* An evaluation that fails leaves a reason behind. *)
LEMMA EvalFailsReason ==
  ASSUME faults \in Nat, NEW b, EvalFails(b)
  PROVE  faults' > 0 \/ ~EvalSucceeds(b)
BY DEF EvalFails, Fault, EvalSucceeds

(* Every step of a running batch keeps the verdict exact. *)
LEMMA VerdictKeptStep ==
  ASSUME BatchTypeOK, PoolJoined, ClaimsOnce, BatchNext, VerdictKept
  PROVE  VerdictKept'
<1> USE DEF BatchTypeOK, Positions
<1>a. queue' = queue
  BY BatchKeeps
<1>b. \A b : EvalSucceeds(b)' <=> EvalSucceeds(b)
  BY EvalSucceedsKept
<1>c. faults' = faults => (Faultless' <=> Faultless)
  BY <1>a, <1>b DEF Faultless
<1>d. faults' > 0 => ~Faultless'
  BY DEF Faultless
<1>1. CASE SeqInit
  <2>1. /\ pc[Main] = "init" /\ pc'[Main] = "eval"
        /\ next' = next /\ ok' = ok /\ faults' = faults
    BY <1>1, ThreadsApart DEF SeqInit
  <2> QED
    BY <1>b, <1>a, <2>1 DEF VerdictKept
<1>2. CASE SeqInitFails
  <2>1. pc'[Main] = "return" /\ ~ok' /\ faults' > 0
    BY <1>2, ThreadsApart DEF SeqInitFails, Fault
  <2> QED
    BY <1>d, <2>1 DEF VerdictKept
<1>3. CASE SeqEval
  <2>1. /\ pc[Main] = "eval" /\ pc'[Main] = "eval"
        /\ next' = next + 1 /\ ok' = ok /\ faults' = faults
        /\ EvalSucceeds(queue[next + 1])
    BY <1>3, ThreadsApart DEF SeqEval
  <2>2. \A k \in 1 .. next' : EvalSucceeds(queue[k])
    <3>1. \A k \in 1 .. next' : k \in 1 .. next \/ k = next + 1
      BY <2>1
    <3> QED
      BY <2>1, <3>1 DEF VerdictKept
  <2> QED
    BY <1>a, <1>b, <2>1, <2>2 DEF VerdictKept
<1>4. CASE SeqEvalFails
  <2>1. /\ pc'[Main] = "clean" /\ ~ok'
        /\ next + 1 \in Positions
        /\ EvalFails(queue[next + 1])
    BY <1>4, ThreadsApart DEF SeqEvalFails
  <2>2. faults' > 0 \/ ~EvalSucceeds(queue[next + 1])
    BY <2>1, EvalFailsReason
  <2>3. ~Faultless'
    BY <1>a, <1>b, <2>1, <2>2 DEF Faultless
  <2> QED
    BY <2>1, <2>3 DEF VerdictKept
<1>5. CASE SeqDone
  <2>1. /\ pc[Main] = "eval" /\ pc'[Main] = "clean"
        /\ next = Len(queue) /\ ok' = ok /\ faults' = faults
    BY <1>5, ThreadsApart DEF SeqDone
  <2>2. Faultless /\ ok
    BY <2>1 DEF VerdictKept, Faultless
  <2> QED
    BY <1>c, <2>1, <2>2 DEF VerdictKept
<1>6. CASE SeqClean
  <2>1. /\ pc[Main] = "clean" /\ pc'[Main] = "return"
        /\ ok' = ok /\ faults' = faults
    BY <1>6, ThreadsApart DEF SeqClean
  <2> QED
    BY <1>c, <2>1 DEF VerdictKept
<1>7. CASE Join
  <2>1. /\ pc[Main] = "join" /\ pc'[Main] = "return"
        /\ ok' = (failedBy = {} /\ Mergeable = Positions)
        /\ faults' = faults
    BY <1>7, ThreadsApart DEF Join
  <2>2. failedBy = {} => Faultless /\ Mergeable = Positions
    BY <1>7, JoinComplete
  <2>3. failedBy # {} => ~Faultless
    BY <2>1 DEF VerdictKept
  <2>4. ok' <=> Faultless
    BY <2>1, <2>2, <2>3, Zenon
  <2> QED
    BY <1>c, <2>1, <2>4 DEF VerdictKept
<1>8. ASSUME NEW w \in Workers, Worker(w)
      PROVE  VerdictKept'
  <2>1. pc[Main] = "join" /\ pc'[Main] = "join"
    BY <1>8, WorkerInJoin
  <2>2. pc'[1] # "off"
    <3>1. pc[1] # "off"
      BY <2>1 DEF VerdictKept
    <3>2. \A v \in Workers : pc'[v] = "off" => pc[v] = "off"
      BY <1>8, ThreadsApart
      DEF Worker, WorkerInit, WorkerInitFails, Claim, ClaimNothing, Stop, Eval,
          EvalFailsIn, WorkerClean
    <3> QED
      BY <3>1, <3>2, FirstWorker
  <2>3. CASE WorkerInitFails(w)
    <3>1. faults' > 0 /\ failedBy' # {}
      BY <2>3 DEF WorkerInitFails, Fault
    <3> QED
      BY <1>d, <2>1, <2>2, <3>1 DEF VerdictKept
  <2>4. CASE EvalFailsIn(w)
    <3>1. failedBy' # {} /\ EvalFails(queue[at[w]]) /\ at[w] \in Positions
      BY <2>4 DEF EvalFailsIn
    <3>2. ~Faultless'
      BY <1>a, <1>b, <3>1, EvalFailsReason DEF Faultless
    <3> QED
      BY <2>1, <2>2, <3>1, <3>2 DEF VerdictKept
  <2>5. CASE failedBy # {} /\ faults' = faults /\ failedBy' = failedBy
    BY <1>c, <2>1, <2>2, <2>5 DEF VerdictKept
  <2>6. CASE failedBy = {} /\ (WorkerInit(w) \/ WorkerClean(w))
    <3>1. /\ results' = results /\ next' = next /\ at' = at /\ faults' = faults
          /\ failedBy' = failedBy
          /\ \A v \in Workers : pc[v] = "eval" <=> pc'[v] = "eval"
          /\ \A v \in Workers : pc'[v] \in {"clean", "done"} =>
               pc[v] \in {"clean", "done"}
      BY <2>6, ThreadsApart DEF WorkerInit, WorkerClean
    <3> QED
      BY <1>a, <1>b, <2>1, <2>2, <2>6, <3>1 DEF VerdictKept
  <2>7. CASE failedBy = {} /\ ClaimNothing(w)
    <3>1. /\ results' = results /\ next' = next + 1 /\ at' = at
          /\ faults' = faults /\ failedBy' = failedBy
          /\ next >= Len(queue)
          /\ \A v \in Workers : pc[v] = "eval" <=> pc'[v] = "eval"
      BY <2>7, ThreadsApart DEF ClaimNothing
    <3> QED
      BY <1>a, <1>b, <2>1, <2>2, <2>7, <3>1 DEF VerdictKept
  <2>8. CASE failedBy = {} /\ Claim(w)
    <3>1. /\ results' = results /\ next' = next + 1
          /\ faults' = faults /\ failedBy' = failedBy
          /\ pc' = [pc EXCEPT ![w] = "eval"]
          /\ at' = [at EXCEPT ![w] = next + 1]
          /\ pc[w] = "claim"
      BY <2>8 DEF Claim
    <3>2. pc'[w] = "eval" /\ at'[w] = next + 1
      BY <3>1, ThreadsApart
    <3>3. \A v \in Workers \ {w} : pc'[v] = pc[v] /\ at'[v] = at[v]
      BY <3>1, ThreadsApart
    <3>4. ASSUME NEW k \in Positions, k <= next',
                 ~results'[queue[k]].attempted
          PROVE  \E v \in Workers : pc'[v] = "eval" /\ at'[v] = k
      <4>1. CASE k = next + 1
        BY <3>2, <4>1
      <4>2. CASE k <= next
        <5>1. PICK v \in Workers : pc[v] = "eval" /\ at[v] = k
          BY <2>1, <2>8, <3>1, <3>4, <4>2 DEF VerdictKept
        <5>2. v # w
          BY <3>1, <5>1
        <5> QED
          BY <3>3, <5>1, <5>2
      <4> QED
        BY <3>1, <3>4, <4>1, <4>2
    <3>5. \A v \in Workers : pc'[v] \in {"clean", "done"} => next >= Len(queue)
      BY <2>1, <2>8, <3>2, <3>3 DEF VerdictKept
    <3>6. faults' = 0
      BY <2>1, <2>8, <3>1 DEF VerdictKept
    <3>7. \A k \in Positions : results'[queue[k]].attempted =>
            results'[queue[k]].ok /\ EvalSucceeds(queue[k])
      BY <2>1, <2>8, <3>1 DEF VerdictKept
    <3>8. failedBy' = {}
      BY <2>8, <3>1
    <3>9. next' \in Nat /\ next' >= next
      BY <3>1
    <3> QED
      BY <1>a, <1>b, <2>1, <2>2, <3>4, <3>5, <3>6, <3>7, <3>8, <3>9
      DEF VerdictKept
  <2>9. CASE failedBy = {} /\ Eval(w)
    <3>1. /\ pc[w] = "eval" /\ EvalSucceeds(queue[at[w]])
          /\ next' = next /\ faults' = faults /\ failedBy' = failedBy
          /\ pc' = [pc EXCEPT ![w] = "claim"]
          /\ at' = [at EXCEPT ![w] = 0]
          /\ results' = [results EXCEPT ![queue[at[w]]] =
                [attempted |-> TRUE, ok |-> TRUE,
                 matched |-> Matches(queue[at[w]])]]
      BY <2>9 DEF Eval
    <3>2. at[w] \in Positions
      BY <3>1
    <3>3. \A k \in Positions : k # at[w] => results'[queue[k]] = results[queue[k]]
      BY <3>1, <3>2 DEF ClaimsOnce
    <3>4. results'[queue[at[w]]].attempted /\ results'[queue[at[w]]].ok
      BY <3>1, <3>2
    <3>5. \A v \in Workers \ {w} : pc'[v] = pc[v] /\ at'[v] = at[v]
      BY <3>1, ThreadsApart
    <3>6. pc'[w] = "claim"
      BY <3>1, ThreadsApart
    <3>7. \A k \in Positions : results'[queue[k]].attempted =>
            results'[queue[k]].ok /\ EvalSucceeds(queue[k])
      BY <2>1, <2>9, <3>1, <3>3, <3>4 DEF VerdictKept
    <3>8. ASSUME NEW k \in Positions, k <= next',
                 ~results'[queue[k]].attempted
          PROVE  \E v \in Workers : pc'[v] = "eval" /\ at'[v] = k
      <4>1. k # at[w]
        BY <3>4, <3>8
      <4>2. PICK v \in Workers : pc[v] = "eval" /\ at[v] = k
        BY <2>1, <2>9, <3>1, <3>3, <3>8, <4>1 DEF VerdictKept
      <4> QED
        BY <3>5, <4>1, <4>2
    <3>9. \A v \in Workers : pc'[v] \in {"clean", "done"} => next >= Len(queue)
      BY <2>1, <2>9, <3>5, <3>6 DEF VerdictKept
    <3>10. faults' = 0 /\ failedBy' = {}
      BY <2>1, <2>9, <3>1 DEF VerdictKept
    <3> QED
      BY <1>a, <1>b, <2>1, <2>2, <3>1, <3>7, <3>8, <3>9, <3>10 DEF VerdictKept
  <2>10. CASE Stop(w)
    BY <2>5, <2>10 DEF Stop
  <2>11. CASE WorkerInit(w) \/ Claim(w) \/ ClaimNothing(w) \/ Eval(w)
              \/ WorkerClean(w)
    <3>1. failedBy' = failedBy /\ faults' = faults
      BY <2>11 DEF WorkerInit, Claim, ClaimNothing, Eval, WorkerClean
    <3> QED
      BY <2>5, <2>6, <2>7, <2>8, <2>9, <2>11, <3>1
  <2> QED
    BY <1>8, <2>3, <2>4, <2>10, <2>11 DEF Worker
<1> QED
  BY <1>1, <1>2, <1>3, <1>4, <1>5, <1>6, <1>7, <1>8 DEF BatchNext, Sequential

(* The pool's bookkeeping is kept by every step of a running batch,        *)
LEMMA PoolSoundStep ==
  ASSUME BatchTypeOK, BatchNext, PoolSound
  PROVE  PoolSound'
BY ClaimsOnceStep, ContextsKeptStep, VerdictKeptStep, BatchStaysInCall
   DEF PoolSound

(* right when a batch begins,                                              *)
LEMMA BeginPoolSound ==
  ASSUME BatchTypeOK, PoolSound, NEW S \in SUBSET BucketIds,
         NEW q \in Enumerations(S), NEW base, Begin(q, base)
  PROVE  PoolSound'
<1> USE DEF BatchTypeOK, Positions
<1>1. q \in Seq(BucketIds) /\ queue' = q
  BY EnumerationsList DEF Begin
<1>2. pc' = [t \in Procs |->
              IF t = Main
                THEN IF Len(q) = 0 THEN "return"
                     ELSE IF WorkerThreads = 1 \/ Len(q) <= 1 THEN "init"
                     ELSE "join"
                ELSE IF WorkerThreads > 1 /\ Len(q) > 1 /\ t <= Len(q)
                     THEN "init" ELSE "off"]
  BY DEF Begin
<1>3. \A t \in Procs : pc'[t] \in {"return", "init", "join", "off"}
  BY <1>2
<1>4. \A b \in BucketIds : ~results'[b].attempted
  BY DEF Begin, NoResult
<1>5. next' = 0 /\ failedBy' = {} /\ ok' = TRUE /\ faults' = 0 /\ relicUp' = relicUp
  BY DEF Begin
<1>6. PoolJoined'
  BY BeginProgress
<1>7. ClaimsOnce'
  <2>1. \A j, k \in Positions' : queue'[j] = queue'[k] => j = k
    BY <1>1, EnumerationsInjective
  <2>2. \A k \in Positions' : ~results'[queue'[k]].attempted
    BY <1>1, <1>4
  <2>3. \A w \in Workers : pc'[w] # "eval"
    BY <1>3, ThreadsApart
  <2> QED
    BY <2>1, <2>2, <2>3 DEF ClaimsOnce, DistinctClaims
<1>8. ContextsKept'
  <2>1. \A t \in Procs : pc[t] \in {"idle", "off"}
    BY ThreadsApart DEF Begin, PoolSound, PoolJoined, Procs
  <2> QED
    BY <1>3, <1>5, <2>1 DEF PoolSound, ContextsKept
<1>9. VerdictKept'
  <2>1. pc'[Main] \in {"return", "init", "join"}
    BY <1>2, ThreadsApart
  <2>2. CASE pc'[Main] = "init"
    BY <1>5, <2>2 DEF VerdictKept
  <2>3. CASE pc'[Main] = "return"
    <3>1. Len(queue') = 0
      BY <1>1, <1>2, <2>3, ThreadsApart
    <3>2. Faultless'
      BY <1>5, <3>1 DEF Faultless
    <3> QED
      BY <1>5, <2>3, <3>2 DEF VerdictKept
  <2>4. CASE pc'[Main] = "join"
    <3>1. WorkerThreads # 1 /\ Len(q) > 1
      BY <1>1, <1>2, <2>4, ThreadsApart
    <3>2. pc'[1] = "init"
      BY <1>1, <1>2, <3>1, FirstWorker, ThreadsApart, BatchAssumption
      DEF WorkerThreads
    <3>3. \A v \in Workers : pc'[v] \in {"init", "off"}
      BY <1>2, ThreadsApart
    <3>4. \A k \in Positions' : ~results'[queue'[k]].attempted
      BY <1>1, <1>4
    <3> QED
      BY SMTT(30), <1>5, <2>4, <3>2, <3>3, <3>4 DEF VerdictKept
  <2> QED
    BY <2>1, <2>2, <2>3, <2>4
<1> QED
  BY <1>6, <1>7, <1>8, <1>9 DEF PoolSound

(* when it ends                                                            *)
LEMMA EndPoolSound ==
  ASSUME BatchTypeOK, PoolSound, End
  PROVE  PoolSound'
<1> USE DEF BatchTypeOK, Positions
<1>1. queue' = <<>> /\ next' = 0 /\ relicUp' = relicUp
  BY DEF End
<1>2. pc'[Main] = "idle" /\ \A w \in Workers : pc'[w] = "off"
  BY ThreadsApart DEF End
<1>3. \A t \in Procs : ~(pc[t] \in {"claim", "eval", "clean"})
  BY ThreadsApart DEF End, PoolSound, PoolJoined, Procs
<1>4. \A t \in Procs : ~(pc'[t] \in {"claim", "eval", "clean"})
  BY <1>2 DEF Procs
<1>5. ClaimsOnce'
  BY <1>1, <1>2 DEF ClaimsOnce, DistinctClaims
<1>6. ContextsKept'
  BY <1>1, <1>3, <1>4 DEF PoolSound, ContextsKept
<1> QED
  BY <1>2, <1>5, <1>6 DEF PoolSound, PoolJoined, VerdictKept

(* and before the first one.                                               *)
LEMMA InitPoolSound ==
  ASSUME BatchInit
  PROVE  PoolSound
<1> USE DEF Positions
<1>1. pc[Main] = "idle" /\ \A w \in Workers : pc[w] = "off"
  BY ThreadsApart DEF BatchInit
<1>2. queue = <<>> /\ \A t \in Procs : ~relicUp[t]
  BY DEF BatchInit
<1>3. \A t \in Procs : ~(pc[t] \in {"claim", "eval", "clean"})
  BY <1>1 DEF Procs
<1> QED
  BY <1>1, <1>2, <1>3
  DEF PoolSound, PoolJoined, ClaimsOnce, DistinctClaims, ContextsKept,
      VerdictKept

(* A stutter changes nothing.                                              *)
LEMMA StutterPoolSound ==
  ASSUME PoolSound, UNCHANGED <<buckets, batch>>
  PROVE  PoolSound'
<1>1. \A b : EvalSucceeds(b)' <=> EvalSucceeds(b)
  BY Zenon DEF buckets, EvalSucceeds, EmptySide, DuplicateKey,
     Contract!EmptySide, Contract!DuplicateKey
<1> QED
  BY <1>1
  DEF batch, PoolSound, PoolJoined, ClaimsOnce, DistinctClaims, ContextsKept,
      VerdictKept, Faultless, Positions

(* What the bookkeeping says of a batch: claims are distinct, the verdict  *)
(* is exact and, with a context per thread, contexts are up exactly while  *)
(* they are needed.                                                        *)
LEMMA PoolSoundImplies ==
  ASSUME BatchTypeOK, PoolSound
  PROVE  /\ DistinctClaims
         /\ VerdictExact
         /\ PerThreadContext => ContextLive /\ NoContextLeft
<1>1. DistinctClaims
  BY DEF PoolSound, ClaimsOnce
<1>2. VerdictExact
  BY DEF PoolSound, VerdictKept, VerdictExact, Faultless
<1>3. ASSUME PerThreadContext PROVE ContextLive /\ NoContextLeft
  BY <1>3, ThreadsApart
  DEF PoolSound, PoolJoined, ContextsKept, ContextLive, NoContextLeft, Context,
      Procs
<1> QED
  BY <1>1, <1>2, <1>3

----------------------------------------------------------------------------
(* Every step of a batch brings the call closer to its end. *)

(* How many workers are at one of some places, and how many positions are  *)
(* not yet claimed.                                                        *)
InPlace(S) == Cardinality({w \in Workers : pc[w] \in S})
Unclaimed == IF next < Len(queue) THEN Len(queue) - next ELSE 0

(* The most steps that are left: a worker passes clean, claim, eval, init  *)
(* upwards from its end, and comes back to claim once for every position.  *)
WorkersLeft ==
  InPlace({"init"}) + InPlace({"init", "eval"})
    + InPlace({"init", "eval", "claim"}) + InPlace({"init", "eval", "claim", "clean"})

MainLeft ==
  IF pc[Main] = "init" THEN 3
  ELSE IF pc[Main] = "eval" THEN 2
  ELSE IF pc[Main] \in {"clean", "join"} THEN 1 ELSE 0

StepsLeft == 2 * Unclaimed + WorkersLeft + MainLeft

(* There are finitely many workers. *)
LEMMA WorkersFinite ==
  /\ WorkerThreads \in Nat
  /\ IsFiniteSet(Workers) /\ Cardinality(Workers) = WorkerThreads
  /\ \A S : /\ IsFiniteSet({w \in Workers : pc[w] \in S})
           /\ InPlace(S) \in 0 .. WorkerThreads
<1>1. WorkerThreads \in Nat
  BY BatchAssumption DEF WorkerThreads
<1>2. IsFiniteSet(Workers) /\ Cardinality(Workers) = WorkerThreads
  BY <1>1, FS_Interval DEF Workers
<1>3. ASSUME NEW S, S \subseteq Workers
      PROVE  IsFiniteSet(S) /\ Cardinality(S) \in 0 .. WorkerThreads
  BY <1>1, <1>2, <1>3, FS_Subset, FS_CardinalityType
<1>4. \A S : {w \in Workers : pc[w] \in S} \subseteq Workers
  OBVIOUS
<1> QED
  BY <1>1, <1>2, <1>3, <1>4 DEF InPlace

LEMMA WorkersLeftType == WorkersLeft \in Nat /\ WorkersLeft <= 4 * WorkerThreads
<1> DEFINE N == WorkerThreads
           A == InPlace({"init"})
           B == InPlace({"init", "eval"})
           C == InPlace({"init", "eval", "claim"})
           D == InPlace({"init", "eval", "claim", "clean"})
<1>1. N \in Nat
  BY WorkersFinite
<1>2. A \in 0 .. N /\ B \in 0 .. N /\ C \in 0 .. N /\ D \in 0 .. N
  BY WorkersFinite
<1>3. WorkersLeft = A + B + C + D
  BY DEF WorkersLeft
<1> HIDE DEF A, B, C, D, N
<1>4. A + B + C + D \in Nat /\ A + B + C + D <= 4 * N
  BY <1>1, <1>2
<1> QED
  BY <1>3, <1>4 DEF N

(* A worker that moves leaves one place and comes to another. *)
LEMMA PlaceCounts ==
  ASSUME BatchTypeOK, NEW S, NEW w \in Workers, NEW v, pc' = [pc EXCEPT ![w] = v]
  PROVE  /\ InPlace(S) \in Nat /\ InPlace(S)' \in Nat
         /\ pc[w] \in S /\ v \notin S => InPlace(S)' = InPlace(S) - 1
         /\ pc[w] \notin S /\ v \in S => InPlace(S)' = InPlace(S) + 1
         /\ (pc[w] \in S <=> v \in S) => InPlace(S)' = InPlace(S)
<1> DEFINE A == {u \in Workers : pc[u] \in S}
           B == {u \in Workers : pc'[u] \in S}
<1>1. /\ pc'[w] = v /\ \A u \in Workers \ {w} : pc'[u] = pc[u]
  BY ThreadsApart DEF BatchTypeOK
<1>2. IsFiniteSet(A) /\ Cardinality(A) \in Nat
  BY WorkersFinite, FS_CardinalityType
<1>3. InPlace(S) = Cardinality(A) /\ InPlace(S)' = Cardinality(B)
  BY DEF InPlace
<1>4. CASE pc[w] \in S /\ v \notin S
  <2>1. B = A \ {w} /\ w \in A
    BY <1>1, <1>4
  <2>2. Cardinality(A \ {w}) = Cardinality(A) - 1 /\ IsFiniteSet(A \ {w})
    BY <1>2, <2>1, FS_RemoveElement
  <2> HIDE DEF A, B
  <2> QED
    BY <1>2, <1>3, <1>4, <2>1, <2>2, FS_CardinalityType
<1>5. CASE pc[w] \notin S /\ v \in S
  <2>1. B = A \cup {w} /\ w \notin A
    BY <1>1, <1>5
  <2>2. Cardinality(A \cup {w}) = Cardinality(A) + 1
    BY <1>2, <2>1, FS_AddElement
  <2> HIDE DEF A, B
  <2> QED
    BY <1>2, <1>3, <1>5, <2>1, <2>2
<1>6. CASE pc[w] \in S <=> v \in S
  <2>1. B = A
    BY <1>1, <1>6
  <2> HIDE DEF A, B
  <2> QED
    BY <1>2, <1>3, <1>6, <2>1
<1> QED
  BY <1>4, <1>5, <1>6

LEMMA WorkerShrinks ==
  ASSUME BatchTypeOK, NEW w \in Workers, Worker(w)
  PROVE  StepsLeft \in Nat /\ StepsLeft' \in Nat /\ StepsLeft' < StepsLeft
<1>1. PICK v \in {"claim", "eval", "clean", "done"} :
        /\ pc' = [pc EXCEPT ![w] = v]
        /\ queue' = queue
        /\ \/ pc[w] = "init" /\ v \in {"claim", "done"} /\ next' = next
           \/ pc[w] = "claim" /\ v = "eval" /\ next < Len(queue) /\ next' = next + 1
           \/ pc[w] = "claim" /\ v = "clean" /\ next >= Len(queue) /\ next' = next + 1
           \/ pc[w] = "claim" /\ v = "clean" /\ next' = next
           \/ pc[w] = "eval" /\ v = "claim" /\ next' = next
           \/ pc[w] = "clean" /\ v = "done" /\ next' = next
  BY DEF Worker, WorkerInit, WorkerInitFails, Claim, ClaimNothing, Stop, Eval,
         EvalFailsIn, WorkerClean
<1>2. pc'[Main] = pc[Main]
  BY <1>1, ThreadsApart DEF BatchTypeOK
<1>3. MainLeft' = MainLeft /\ MainLeft \in Nat
  BY <1>2 DEF MainLeft
<1>4. Len(queue) \in Nat /\ next \in Nat
  BY DEF BatchTypeOK
<1> DEFINE A == InPlace({"init"})
           B == InPlace({"init", "eval"})
           C == InPlace({"init", "eval", "claim"})
           D == InPlace({"init", "eval", "claim", "clean"})
           A1 == InPlace({"init"})'
           B1 == InPlace({"init", "eval"})'
           C1 == InPlace({"init", "eval", "claim"})'
           D1 == InPlace({"init", "eval", "claim", "clean"})'
<1>5. /\ A \in Nat /\ A1 \in Nat
      /\ pc[w] = "init" => A1 = A - 1
      /\ pc[w] # "init" => A1 = A
  BY <1>1, PlaceCounts
<1>6. /\ B \in Nat /\ B1 \in Nat
      /\ pc[w] \in {"init", "eval"} => B1 = B - 1
      /\ pc[w] = "claim" /\ v = "eval" => B1 = B + 1
      /\ pc[w] \in {"claim", "clean"} /\ v # "eval" => B1 = B
  BY <1>1, PlaceCounts
<1>7. /\ C \in Nat /\ C1 \in Nat
      /\ v \in {"clean", "done"} /\ pc[w] # "clean" => C1 = C - 1
      /\ v \in {"claim", "eval"} \/ pc[w] = "clean" => C1 = C
  BY <1>1, PlaceCounts
<1>8. /\ D \in Nat /\ D1 \in Nat
      /\ v = "done" => D1 = D - 1
      /\ v # "done" => D1 = D
  BY <1>1, PlaceCounts
<1>9. WorkersLeft = A + B + C + D /\ WorkersLeft' = A1 + B1 + C1 + D1
  BY DEF WorkersLeft
<1> HIDE DEF A, B, C, D, A1, B1, C1, D1
<1>10. WorkersLeft \in Nat /\ WorkersLeft' \in Nat
  BY <1>5, <1>6, <1>7, <1>8, <1>9
<1>11. /\ Unclaimed \in Nat /\ Unclaimed' \in Nat
       /\ next' = next => Unclaimed' = Unclaimed
       /\ next >= Len(queue) /\ next' = next + 1 => Unclaimed' = Unclaimed
       /\ next < Len(queue) /\ next' = next + 1 => Unclaimed' = Unclaimed - 1
  BY <1>1, <1>4 DEF Unclaimed
<1>12. /\ StepsLeft = 2 * Unclaimed + WorkersLeft + MainLeft
       /\ StepsLeft' = 2 * Unclaimed' + WorkersLeft' + MainLeft'
  BY DEF StepsLeft
<1> DEFINE u == Unclaimed     u1 == Unclaimed'
           p == WorkersLeft   p1 == WorkersLeft'
           m == MainLeft      m1 == MainLeft'
           n == StepsLeft     n1 == StepsLeft'
<1>20. /\ u \in Nat /\ u1 \in Nat /\ p \in Nat /\ p1 \in Nat /\ m \in Nat /\ m1 \in Nat
       /\ n = 2 * u + p + m /\ n1 = 2 * u1 + p1 + m1
  BY <1>3, <1>10, <1>11, <1>12
<1>21. /\ m1 = m
       /\ next' = next => u1 = u
       /\ next >= Len(queue) /\ next' = next + 1 => u1 = u
       /\ next < Len(queue) /\ next' = next + 1 => u1 = u - 1
  BY <1>3, <1>11
<1>22. p = A + B + C + D /\ p1 = A1 + B1 + C1 + D1
  BY <1>9
<1> SUFFICES n \in Nat /\ n1 \in Nat /\ n1 < n
  OBVIOUS
<1> HIDE DEF u, u1, p, p1, m, m1, n, n1
<1>13. CASE pc[w] = "init" /\ v \in {"claim", "done"} /\ next' = next
  <2>1. A1 = A - 1 /\ B1 = B - 1 /\ C1 <= C /\ D1 <= D
    BY <1>13, <1>5, <1>6, <1>7, <1>8
  <2>2. p1 < p
    BY <2>1, <1>5, <1>6, <1>7, <1>8, <1>22
  <2> QED
    BY <2>2, <1>13, <1>20, <1>21
<1>14. CASE pc[w] = "claim" /\ v = "eval" /\ next < Len(queue) /\ next' = next + 1
  <2>1. A1 = A /\ B1 = B + 1 /\ C1 = C /\ D1 = D
    BY <1>14, <1>5, <1>6, <1>7, <1>8
  <2>2. p1 = p + 1
    BY <2>1, <1>5, <1>6, <1>7, <1>8, <1>22
  <2> QED
    BY <2>2, <1>14, <1>20, <1>21
<1>15. CASE /\ pc[w] = "claim" /\ v = "clean"
            /\ next' = next \/ (next >= Len(queue) /\ next' = next + 1)
  <2>1. A1 = A /\ B1 = B /\ C1 = C - 1 /\ D1 = D
    BY <1>15, <1>5, <1>6, <1>7, <1>8
  <2>2. p1 < p
    BY <2>1, <1>5, <1>6, <1>7, <1>8, <1>22
  <2> QED
    BY <2>2, <1>15, <1>20, <1>21
<1>16. CASE pc[w] = "eval" /\ v = "claim" /\ next' = next
  <2>1. A1 = A /\ B1 = B - 1 /\ C1 = C /\ D1 = D
    BY <1>16, <1>5, <1>6, <1>7, <1>8
  <2>2. p1 < p
    BY <2>1, <1>5, <1>6, <1>7, <1>8, <1>22
  <2> QED
    BY <2>2, <1>16, <1>20, <1>21
<1>17. CASE pc[w] = "clean" /\ v = "done" /\ next' = next
  <2>1. A1 = A /\ B1 = B /\ C1 = C /\ D1 = D - 1
    BY <1>17, <1>5, <1>6, <1>7, <1>8
  <2>2. p1 < p
    BY <2>1, <1>5, <1>6, <1>7, <1>8, <1>22
  <2> QED
    BY <2>2, <1>17, <1>20, <1>21
<1> QED
  BY <1>1, <1>13, <1>14, <1>15, <1>16, <1>17

(* So does every step of the caller: in the loop there are no workers, at  *)
(* the join they have none left to take.                                   *)
LEMMA MainShrinks ==
  ASSUME BatchTypeOK, PoolJoined, Sequential \/ Join
  PROVE  StepsLeft \in Nat /\ StepsLeft' \in Nat /\ StepsLeft' < StepsLeft
<1>1. /\ Main \in Procs /\ \A w \in Workers : w \in Procs /\ w # Main
      /\ DOMAIN pc = Procs
  BY ThreadsApart DEF BatchTypeOK
<1>2. /\ next \in Nat /\ Len(queue) \in Nat /\ queue' = queue
      /\ next' = next \/ (next < Len(queue) /\ next' = next + 1)
  BY DEF BatchTypeOK, Sequential, SeqInit, SeqInitFails, SeqEval, SeqEvalFails,
         SeqDone, SeqClean, Join
<1>3. /\ Unclaimed \in Nat /\ Unclaimed' \in Nat /\ Unclaimed' <= Unclaimed
      /\ next < Len(queue) /\ next' = next + 1 => Unclaimed' < Unclaimed
  <2>1. Unclaimed = IF next < Len(queue) THEN Len(queue) - next ELSE 0
    BY DEF Unclaimed
  <2>2. Unclaimed' = IF next' < Len(queue) THEN Len(queue) - next' ELSE 0
    BY <1>2 DEF Unclaimed
  <2>3. CASE next' = next
    BY <1>2, <2>1, <2>2, <2>3
  <2>4. CASE next < Len(queue) /\ next' = next + 1
    BY <1>2, <2>1, <2>2, <2>4
  <2> QED
    BY <1>2, <2>3, <2>4
<1>4. WorkersLeft \in Nat
  BY WorkersLeftType
<1>5. WorkersLeft' = 0
  <2>1. \A w \in Workers : pc'[w] = "off"
    <3>1. CASE Join
      BY <3>1, <1>1 DEF Join
    <3>2. CASE Sequential
      <4>1. pc[Main] # "join"
        BY <3>2 DEF Sequential, SeqInit, SeqInitFails, SeqEval, SeqEvalFails,
                    SeqDone, SeqClean
      <4>2. \A w \in Workers : pc'[w] = pc[w]
        BY <3>2, <1>1 DEF Sequential, SeqInit, SeqInitFails, SeqEval,
                          SeqEvalFails, SeqDone, SeqClean
      <4> QED
        BY <4>1, <4>2 DEF PoolJoined
    <3> QED
      BY <3>1, <3>2
  <2>2. ASSUME NEW S, "off" \notin S PROVE InPlace(S)' = 0
    <3>1. {w \in Workers : pc'[w] \in S} = {}
      BY <2>1, <2>2
    <3> QED
      BY <3>1, FS_EmptySet DEF InPlace
  <2>3. /\ InPlace({"init"})' = 0 /\ InPlace({"init", "eval"})' = 0
        /\ InPlace({"init", "eval", "claim"})' = 0
        /\ InPlace({"init", "eval", "claim", "clean"})' = 0
    BY <2>2
  <2> QED
    BY <2>3 DEF WorkersLeft
<1>6. /\ MainLeft \in Nat /\ MainLeft' \in Nat
      /\ \/ MainLeft' < MainLeft
         \/ next < Len(queue) /\ next' = next + 1 /\ MainLeft' = MainLeft
  BY <1>1 DEF MainLeft, Sequential, SeqInit, SeqInitFails, SeqEval, SeqEvalFails,
              SeqDone, SeqClean, Join
<1>7. /\ StepsLeft = 2 * Unclaimed + WorkersLeft + MainLeft
      /\ StepsLeft' = 2 * Unclaimed' + WorkersLeft' + MainLeft'
  BY DEF StepsLeft
<1> DEFINE u == Unclaimed     u1 == Unclaimed'
           p == WorkersLeft   p1 == WorkersLeft'
           m == MainLeft      m1 == MainLeft'
           n == StepsLeft     n1 == StepsLeft'
<1>8. /\ u \in Nat /\ u1 \in Nat /\ p \in Nat /\ p1 \in Nat /\ m \in Nat /\ m1 \in Nat
       /\ n = 2 * u + p + m /\ n1 = 2 * u1 + p1 + m1
  BY <1>3, <1>4, <1>5, <1>6, <1>7
<1>9. /\ u1 <= u /\ p1 = 0
      /\ next < Len(queue) /\ next' = next + 1 => u1 < u
      /\ m1 < m \/ (next < Len(queue) /\ next' = next + 1 /\ m1 = m)
  BY <1>3, <1>5, <1>6
<1> SUFFICES n \in Nat /\ n1 \in Nat /\ n1 < n
  OBVIOUS
<1> HIDE DEF u, u1, p, p1, m, m1, n, n1
<1>10. CASE m1 < m
  BY <1>8, <1>9, <1>10
<1>11. CASE u1 < u /\ m1 = m
  BY <1>8, <1>9, <1>11
<1> QED
  BY <1>9, <1>10, <1>11

LEMMA BatchShrinks ==
  ASSUME BatchTypeOK, PoolJoined, BatchNext
  PROVE  StepsLeft \in Nat /\ StepsLeft' \in Nat /\ StepsLeft' < StepsLeft
<1>1. CASE Sequential \/ Join
  BY <1>1, MainShrinks
<1>2. ASSUME NEW w \in Workers, Worker(w)
      PROVE  StepsLeft \in Nat /\ StepsLeft' \in Nat /\ StepsLeft' < StepsLeft
  BY <1>2, WorkerShrinks
<1> QED
  BY <1>1, <1>2 DEF BatchNext

(* The queue holds every bucket at most once, so it is no longer than the  *)
(* bucket array.                                                           *)
LEMMA QueueShort ==
  ASSUME BatchTypeOK, ClaimsOnce
  PROVE  Len(queue) \in Nat /\ Len(queue) <= BucketCount
<1>1. Len(queue) \in Nat /\ \A k \in 1 .. Len(queue) : queue[k] \in BucketIds
  BY DEF BatchTypeOK
<1>2. BucketCount \in Nat /\ BucketCount >= 1
  BY BucketAssumption
<1>3. IsFiniteSet(BucketIds) /\ Cardinality(BucketIds) = BucketCount
  <2>1. BucketIds = 0 .. (BucketCount - 1)
    BY DEF BucketIds
  <2> QED
    BY <1>2, <2>1, FS_Interval
<1>4. /\ IsFiniteSet(1 .. Len(queue)) /\ Cardinality(1 .. Len(queue)) = Len(queue)
  <2>1. ASSUME NEW n \in Nat PROVE IsFiniteSet(1 .. n) /\ Cardinality(1 .. n) = n
    BY FS_Interval
  <2> QED
    BY <1>1, <2>1
<1> DEFINE f == [k \in 1 .. Len(queue) |-> queue[k]]
<1>5. f \in [1 .. Len(queue) -> BucketIds]
  BY <1>1
<1>6. \A j, k \in 1 .. Len(queue) : f[j] = f[k] => j = k
  BY DEF ClaimsOnce, Positions
<1>7. ASSUME NEW S, NEW T, IsFiniteSet(S), IsFiniteSet(T), NEW g \in [S -> T],
             \A a, c \in S : g[a] = g[c] => a = c
      PROVE  Cardinality(S) <= Cardinality(T)
  <2>1. CASE Cardinality(T) < Cardinality(S)
    BY <1>7, <2>1, FS_PigeonHole
  <2> QED
    BY <1>7, <2>1, FS_CardinalityType
<1> HIDE DEF f
<1>8. Cardinality(1 .. Len(queue)) <= Cardinality(BucketIds)
  BY <1>3, <1>4, <1>5, <1>6, <1>7
<1> QED
  BY <1>1, <1>3, <1>4, <1>8

LEMMA StepsBounded ==
  ASSUME BatchTypeOK, ClaimsOnce
  PROVE  /\ StepsLeft \in Nat
         /\ StepsLeft <= 2 * BucketCount + 4 * WorkerThreads + 3
<1>1. Len(queue) \in Nat /\ next \in Nat /\ Len(queue) <= BucketCount
  BY QueueShort DEF BatchTypeOK
<1>2. BucketCount \in Nat
  BY BucketAssumption
<1>3. Unclaimed \in Nat /\ Unclaimed <= BucketCount
  BY <1>1, <1>2 DEF Unclaimed
<1>4. MainLeft \in Nat /\ MainLeft <= 3
  BY DEF MainLeft
<1>5. WorkerThreads \in Nat
  BY WorkersFinite
<1>6. ASSUME NEW u \in Nat, NEW p \in Nat, NEW m \in Nat, NEW b \in Nat, NEW t \in Nat,
             u <= b, p <= 4 * t, m <= 3
      PROVE  2 * u + p + m \in Nat /\ 2 * u + p + m <= 2 * b + 4 * t + 3
  BY <1>6
<1> HIDE DEF Unclaimed, MainLeft, WorkersLeft, WorkerThreads
<1> QED
  BY <1>2, <1>3, <1>4, <1>5, <1>6, WorkersLeftType DEF StepsLeft

LEMMA StepsInterval ==
  ASSUME StepsLeft \in Nat, StepsLeft <= 2 * BucketCount + 4 * WorkerThreads + 3
  PROVE  StepsLeft \in 0 .. (2 * BucketCount + 4 * WorkerThreads + 3)
<1>1. BucketCount \in Nat /\ WorkerThreads \in Nat
  BY BucketAssumption, WorkersFinite
<1> HIDE DEF StepsLeft, WorkerThreads
<1> QED
  BY <1>1

----------------------------------------------------------------------------
(* The initial round: types. *)

LEMMA InitialTypeInit == InitialInit => BatchTypeOK
<1> SUFFICES ASSUME InitialInit PROVE BatchTypeOK
  OBVIOUS
<1>1. x \in Bags /\ y \in Bags
  BY InputAssumption DEF InitialInit
<1>2. xb \in BucketArrays /\ yb \in BucketArrays
  BY <1>1, BuildBucketsType DEF InitialInit
<1> QED
  BY <1>2, InitType DEF InitialInit

LEMMA InitialTypeStep ==
  ASSUME BatchTypeOK, [InitialNext]_initial_vars
  PROVE  BatchTypeOK'
<1>1. ASSUME NEW xs \in XSets, NEW ys \in YSets, RunInitialRound(xs, ys)
      PROVE  BatchTypeOK'
  <2>1. xs \in Bags /\ ys \in Bags
    BY InputAssumption
  <2>2. xb' \in BucketArrays /\ yb' \in BucketArrays
    BY <1>1, <2>1, BuildBucketsType DEF RunInitialRound
  <2>3. PICK q \in Enumerations(BucketIds) : Begin(q, {})
    BY <1>1 DEF RunInitialRound
  <2> QED
    BY <2>2, <2>3, BeginType
<1>2. CASE RunInitialReturn
  BY <1>2, EndType DEF RunInitialReturn
<1>3. CASE BatchNext
  BY <1>3, BatchTypeStep
<1>4. CASE UNCHANGED initial_vars
  BY <1>4, StutterType DEF initial_vars
<1> QED
  BY <1>1, <1>2, <1>3, <1>4 DEF InitialNext

(* Every variable keeps its type; a worker that evaluates holds a position *)
(* of the queue.                                                           *)
THEOREM InitialTypeCorrect == InitialSpec => []BatchTypeOK
<1>1. InitialInit => BatchTypeOK
  BY InitialTypeInit
<1>2. BatchTypeOK /\ [InitialNext]_initial_vars => BatchTypeOK'
  BY InitialTypeStep
<1> QED
  BY <1>1, <1>2, PTL DEF InitialSpec

----------------------------------------------------------------------------
(* The initial round: the pool. *)

LEMMA InitialPoolStep ==
  ASSUME BatchTypeOK, PoolSound, [InitialNext]_initial_vars
  PROVE  PoolSound'
<1>1. ASSUME NEW xs \in XSets, NEW ys \in YSets, RunInitialRound(xs, ys)
      PROVE  PoolSound'
  <2>1. PICK q \in Enumerations(BucketIds) : Begin(q, {})
    BY <1>1 DEF RunInitialRound
  <2> QED
    BY <2>1, BeginPoolSound
<1>2. CASE RunInitialReturn
  BY <1>2, EndPoolSound DEF RunInitialReturn
<1>3. CASE BatchNext
  BY <1>3, PoolSoundStep
<1>4. CASE UNCHANGED initial_vars
  BY <1>4, StutterPoolSound DEF initial_vars
<1> QED
  BY <1>1, <1>2, <1>3, <1>4 DEF InitialNext

(* The pool's bookkeeping, from which the theorems below follow. *)
THEOREM PoolAlwaysSound == InitialSpec => []PoolSound
<1>1. InitialInit => PoolSound
  BY InitPoolSound DEF InitialInit
<1>2. BatchTypeOK /\ PoolSound /\ [InitialNext]_initial_vars => PoolSound'
  BY InitialPoolStep
<1> QED
  BY <1>1, <1>2, InitialTypeCorrect, PTL DEF InitialSpec

(* The unsynchronised writes to the result slots never meet: every bucket  *)
(* is evaluated by one worker, once.                                       *)
THEOREM ClaimsDistinct == InitialSpec => []DistinctClaims
<1>1. BatchTypeOK /\ PoolSound => DistinctClaims
  BY PoolSoundImplies
<1> QED
  BY <1>1, InitialTypeCorrect, PoolAlwaysSound, PTL

(* The round returns false exactly if a fault happened or a bucket cannot  *)
(* be evaluated, although `failed' is read and written relaxed.            *)
THEOREM ExactVerdict == InitialSpec => []VerdictExact
<1>1. BatchTypeOK /\ PoolSound => VerdictExact
  BY PoolSoundImplies
<1> QED
  BY <1>1, InitialTypeCorrect, PoolAlwaysSound, PTL

(* With a RELIC context per thread, buckets are evaluated only under an    *)
(* initialised context, and a round leaves no context behind.  (With one   *)
(* per process the first is false: run initial_shared.)                    *)
THEOREM ContextsSafe ==
  ASSUME PerThreadContext
  PROVE  InitialSpec => [](ContextLive /\ NoContextLeft)
<1>1. BatchTypeOK /\ PoolSound => ContextLive /\ NoContextLeft
  BY PoolSoundImplies
<1> QED
  BY <1>1, InitialTypeCorrect, PoolAlwaysSound, PTL

(* A call ends: every step the loop, a worker or the join takes leaves     *)
(* fewer steps to take, whatever fails and whatever stale `failed' a       *)
(* worker reads, and there are never more than two for a bucket and four   *)
(* for a worker, beside those of the caller.                               *)
THEOREM InitialRoundEnds ==
  /\ InitialSpec => [](StepsLeft \in 0 .. (2 * BucketCount + 4 * WorkerThreads + 3))
  /\ InitialSpec => [][BatchNext => StepsLeft' < StepsLeft]_initial_vars
<1>1. BatchTypeOK /\ PoolSound => StepsLeft \in 0 .. (2 * BucketCount + 4 * WorkerThreads + 3)
  BY StepsBounded, StepsInterval DEF PoolSound
<1>2. BatchTypeOK /\ PoolSound /\ BatchNext => StepsLeft' < StepsLeft
  BY BatchShrinks DEF PoolSound
<1> QED
  BY <1>1, <1>2, InitialTypeCorrect, PoolAlwaysSound, PTL

----------------------------------------------------------------------------
(* The initial round: the result. *)

(* The buckets are those of the arguments, and a running call has every    *)
(* bucket in its queue and the progress to show for it.                    *)
RoundTracks ==
  /\ x \in Bags /\ y \in Bags
  /\ xb = BuildBuckets(x) /\ yb = BuildBuckets(y)
  /\ pc[Main] # "idle" =>
       /\ BatchProgress({})
       /\ \A b \in BucketIds : \E k \in Positions : queue[k] = b

LEMMA InitialTracksInit == InitialInit => RoundTracks
BY InputAssumption, ThreadsApart DEF InitialInit, BatchInit, RoundTracks

LEMMA InitialTracksStep ==
  ASSUME BatchTypeOK, PoolSound, RoundTracks, [InitialNext]_initial_vars
  PROVE  RoundTracks'
<1>1. ASSUME NEW xs \in XSets, NEW ys \in YSets, RunInitialRound(xs, ys)
      PROVE  RoundTracks'
  <2>1. PICK q \in Enumerations(BucketIds) : Begin(q, {})
    BY <1>1 DEF RunInitialRound
  <2>2. BatchProgress({})'
    BY <2>1, BeginProgress
  <2>3. queue' = q
    BY <2>1 DEF Begin
  <2>4. \A b \in BucketIds : \E k \in 1 .. Len(queue') : queue'[k] = b
    BY <2>1, <2>3, EnumerationsList
  <2>5. x' \in Bags /\ y' \in Bags /\ xb' = BuildBuckets(x') /\ yb' = BuildBuckets(y')
    BY <1>1, InputAssumption DEF RunInitialRound
  <2> QED
    BY <2>2, <2>4, <2>5 DEF RoundTracks, Positions
<1>2. CASE RunInitialReturn
  <2>1. pc'[Main] = "idle"
    BY <1>2, ThreadsApart DEF RunInitialReturn, End
  <2> QED
    BY <1>2, <2>1 DEF RoundTracks, RunInitialReturn, buckets
<1>3. CASE BatchNext /\ UNCHANGED <<x, y>>
  <2>1. pc[Main] # "idle"
    BY <1>3, BatchStaysInCall DEF PoolSound
  <2>2. BatchProgress({})'
    BY <1>3, <2>1, BatchProgressStep DEF PoolSound, RoundTracks
  <2> QED
    BY <1>3, <2>1, <2>2, BatchKeeps DEF RoundTracks, Positions
<1>4. CASE UNCHANGED initial_vars
  <2>1. BatchProgress({}) => BatchProgress({})'
    <3>1. \A b : Matches(b)' = Matches(b)
      BY <1>4 DEF initial_vars, buckets, Matches, Contract!Matches
    <3> QED
      BY <1>4, <3>1 DEF initial_vars, batch, BatchProgress, Collected
  <2> QED
    BY <1>4, <2>1 DEF RoundTracks, Positions, initial_vars, buckets, batch
<1> QED
  BY <1>1, <1>2, <1>3, <1>4 DEF InitialNext

(* All buckets together contribute the common items of the two sets. *)
LEMMA BucketsCover ==
  ASSUME NEW p \in Bags, NEW q \in Bags
  PROVE  UNION {Contract!Matches(BuildBuckets(p)[b], BuildBuckets(q)[b]) :
                  b \in BucketIds}
           = NaiveIntersection(p, q)
<1>1. \A b \in BucketIds, i \in Items :
        i \in Contract!Matches(BuildBuckets(p)[b], BuildBuckets(q)[b])
          <=> BucketOf(i) = b /\ p[i] > 0 /\ q[i] > 0
  BY DEF Contract!Matches, BuildBuckets
<1>2. \A b : Contract!Matches(BuildBuckets(p)[b], BuildBuckets(q)[b]) \subseteq Items
  BY DEF Contract!Matches
<1> QED
  BY <1>1, <1>2, BucketOfType DEF NaiveIntersection

(* A call that returns true has found exactly the common items, whichever  *)
(* threads evaluated which buckets.                                        *)
THEOREM InitialRoundNaive == InitialSpec => []InitialIsNaive
<1>1. InitialInit => RoundTracks
  BY InitialTracksInit
<1>2. BatchTypeOK /\ PoolSound /\ RoundTracks /\ [InitialNext]_initial_vars => RoundTracks'
  BY InitialTracksStep
<1>3. BatchTypeOK /\ RoundTracks => InitialIsNaive
  <2> SUFFICES ASSUME BatchTypeOK, RoundTracks, pc[Main] = "return", ok
               PROVE  acc = NaiveIntersection(x, y)
    BY DEF InitialIsNaive
  <2>1. acc = UNION {Matches(queue[k]) : k \in Positions}
    BY DEF RoundTracks, BatchProgress, Collected, Positions
  <2>2. \A k \in Positions : queue[k] \in BucketIds
    BY DEF BatchTypeOK, Positions
  <2>3. acc = UNION {Matches(b) : b \in BucketIds}
    BY <2>1, <2>2 DEF RoundTracks
  <2>4. \A b : Matches(b) = Contract!Matches(BuildBuckets(x)[b], BuildBuckets(y)[b])
    BY DEF Matches, RoundTracks
  <2>5. UNION {Contract!Matches(BuildBuckets(x)[b], BuildBuckets(y)[b]) :
                 b \in BucketIds} = NaiveIntersection(x, y)
    BY BucketsCover DEF RoundTracks
  <2> QED
    BY <2>3, <2>4, <2>5
<1> QED
  BY <1>1, <1>2, <1>3, InitialTypeCorrect, PoolAlwaysSound, PTL DEF InitialSpec

----------------------------------------------------------------------------
(* The update protocol: types. *)

LEMMA TypeInit == Init => TypeOK
<1> SUFFICES ASSUME Init PROVE TypeOK
  OBVIOUS
<1>1. x \in Bags /\ y \in Bags
  BY DEF Init, Bags
<1>2. xb \in BucketArrays /\ yb \in BucketArrays
  BY <1>1, BuildBucketsType DEF Init
<1>3. BatchTypeOK
  BY <1>2, InitType DEF Init
<1> QED
  BY <1>1, <1>3 DEF Init, TypeOK

LEMMA TypeStep ==
  ASSUME TypeOK, [Next]_vars
  PROVE  TypeOK'
<1> USE InputAssumption, CallerAssumption DEF TypeOK
<1>1. ASSUME NEW xs \in XSets, NEW ys \in YSets, InitializeUpdateState(xs, ys)
      PROVE  TypeOK'
  <2>1. xs \in Bags /\ ys \in Bags
    OBVIOUS
  <2>2. xb' \in BucketArrays /\ yb' \in BucketArrays
    BY <1>1, <2>1, BuildBucketsType DEF InitializeUpdateState, RunInitialRound
  <2>3. PICK q \in Enumerations(BucketIds) : Begin(q, {})
    BY <1>1 DEF InitializeUpdateState, RunInitialRound
  <2>4. BatchTypeOK'
    BY <2>2, <2>3, BeginType
  <2> QED
    BY <1>1, <2>1, <2>4 DEF InitializeUpdateState, RunInitialRound
<1>2. CASE InitializeReturn
  <2>1. BatchTypeOK'
    BY <1>2, EndType DEF InitializeReturn
  <2> QED
    BY <1>2, <2>1 DEF InitializeReturn, BatchTypeOK
<1>3. ASSUME NEW add \in AddSets, NEW del \in DelSets, RunUpdateRound(add, del)
      PROVE  TypeOK'
  <2>1. add \in Bags /\ del \in Bags
    OBVIOUS
  <2>2. y' \in Bags
    BY <1>3, <2>1, LiveAfterType DEF RunUpdateRound
  <2>3. xb' \in BucketArrays /\ yb' \in BucketArrays
    BY <1>3, <2>1, ApplyBucketDeltaType DEF RunUpdateRound, BatchTypeOK
  <2>4. flags' \subseteq BucketIds
    BY <1>3 DEF RunUpdateRound, ChangedFlags
  <2>5. PICK q \in Enumerations(flags') : Begin(q, Kept(inter, flags'))
    BY <1>3 DEF RunUpdateRound
  <2>6. Kept(inter, flags') \subseteq Items
    BY DEF Kept
  <2>7. BatchTypeOK'
    BY <2>3, <2>4, <2>5, <2>6, BeginType
  <2> QED
    BY <1>3, <2>2, <2>4, <2>7 DEF RunUpdateRound
<1>4. CASE RunUpdateReturn
  <2>1. BatchTypeOK'
    BY <1>4, EndType DEF RunUpdateReturn
  <2> QED
    BY <1>4, <2>1 DEF RunUpdateReturn, BatchTypeOK
<1>5. CASE BatchNext /\ UNCHANGED state
  BY <1>5, BatchTypeStep DEF state
<1>6. CASE UNCHANGED vars
  BY <1>6, StutterType DEF vars, state
<1> QED
  BY <1>1, <1>2, <1>3, <1>4, <1>5, <1>6 DEF Next

(* Every variable keeps its type in every state of every execution. *)
THEOREM TypeCorrect == Spec => []TypeOK
<1>1. Init => TypeOK
  BY TypeInit
<1>2. TypeOK /\ [Next]_vars => TypeOK'
  BY TypeStep
<1> QED
  BY <1>1, <1>2, PTL DEF Spec

----------------------------------------------------------------------------
(* The buckets. *)

LEMMA TracksStep ==
  ASSUME TypeOK, BucketsTrackSets, [Next]_vars
  PROVE  BucketsTrackSets'
<1> USE DEF BucketsTrackSets
<1>1. ASSUME NEW xs \in XSets, NEW ys \in YSets, InitializeUpdateState(xs, ys)
      PROVE  BucketsTrackSets'
  BY <1>1 DEF InitializeUpdateState, RunInitialRound
<1>2. CASE InitializeReturn
  BY <1>2 DEF InitializeReturn, buckets
<1>3. ASSUME NEW add \in AddSets, NEW del \in DelSets, RunUpdateRound(add, del)
      PROVE  BucketsTrackSets'
  <2>1. y \in Bags /\ add \in Bags /\ del \in Bags
    BY InputAssumption, CallerAssumption DEF TypeOK
  <2>2. yb' = ApplyBucketDelta(BuildBuckets(y), add, del)
    BY <1>3 DEF RunUpdateRound
  <2>3. yb' = BuildBuckets(LiveAfter(y, add, del))
    BY <2>1, <2>2, DeltaTracksSet
  <2> QED
    BY <1>3, <2>3 DEF RunUpdateRound
<1>4. CASE RunUpdateReturn
  BY <1>4 DEF RunUpdateReturn, buckets
<1>5. CASE BatchNext /\ UNCHANGED state
  BY <1>5, BatchKeeps DEF state
<1>6. CASE UNCHANGED vars
  BY <1>6 DEF vars, state, buckets
<1> QED
  BY <1>1, <1>2, <1>3, <1>4, <1>5, <1>6 DEF Next

(* Maintaining the buckets by deltas never drifts from the caller's sets,  *)
(* whatever rounds fail in between.                                        *)
THEOREM BucketsTrack == Spec => []BucketsTrackSets
<1>1. Init => BucketsTrackSets
  BY DEF Init, BucketsTrackSets
<1>2. TypeOK /\ BucketsTrackSets /\ [Next]_vars => BucketsTrackSets'
  BY TracksStep
<1> QED
  BY <1>1, <1>2, TypeCorrect, PTL DEF Spec

----------------------------------------------------------------------------
(* The running call. *)

(* The entries the running call started from. *)
Base == IF mode = "updating" THEN Kept(inter, flags) ELSE {}

LEMMA ProgressStep ==
  ASSUME TypeOK, RoundProgress, [Next]_vars
  PROVE  RoundProgress'
<1> USE DEF RoundProgress
<1>1. ASSUME NEW xs \in XSets, NEW ys \in YSets, InitializeUpdateState(xs, ys)
      PROVE  RoundProgress'
  <2>1. PICK q \in Enumerations(BucketIds) : Begin(q, {})
    BY <1>1 DEF InitializeUpdateState, RunInitialRound
  <2>2. BatchProgress({})' /\ PoolJoined' /\ pc'[Main] # "idle"
    BY <2>1, BeginProgress
  <2>3. mode' = "initializing" /\ flags' = BucketIds /\ dirty' = BucketIds
    BY <1>1 DEF InitializeUpdateState, RunInitialRound
  <2>4. \A b \in BucketIds : b \in BucketIds <=> \E k \in 1 .. Len(q) : q[k] = b
    BY <2>1, EnumerationsList
  <2>5. queue' = q
    BY <2>1 DEF Begin
  <2>6. \A b \in BucketIds :
          b \in flags' <=> \E k \in 1 .. Len(queue') : queue'[k] = b
    BY <2>3, <2>4, <2>5
  <2> QED
    BY <2>2, <2>3, <2>6 DEF Positions
<1>2. CASE InitializeReturn
  <2>1. pc'[Main] = "idle" /\ \A w \in Workers : pc'[w] = "off"
    BY <1>2, ThreadsApart DEF InitializeReturn, End
  <2>2. mode' \in {"none", "ready"} /\ flags' = {}
    BY <1>2 DEF InitializeReturn
  <2> QED
    BY <2>1, <2>2 DEF PoolJoined
<1>3. ASSUME NEW add \in AddSets, NEW del \in DelSets, RunUpdateRound(add, del)
      PROVE  RoundProgress'
  <2>1. flags' \in SUBSET BucketIds
    BY <1>3 DEF RunUpdateRound, ChangedFlags
  <2>2. PICK q \in Enumerations(flags') : Begin(q, Kept(inter, flags'))
    BY <1>3 DEF RunUpdateRound
  <2>3. PICK S \in SUBSET BucketIds : S = flags'
    BY <2>1
  <2>4. PICK base : base = Kept(inter, flags')
    OBVIOUS
  <2>5. BatchProgress(base)' /\ PoolJoined' /\ pc'[Main] # "idle"
    BY <2>2, <2>3, <2>4, BeginProgress
  <2>6. mode' = "updating" /\ inter' = inter /\ flags' \subseteq dirty'
    BY <1>3 DEF RunUpdateRound
  <2>7. \A b \in BucketIds : b \in S <=> \E k \in 1 .. Len(q) : q[k] = b
    BY <2>2, <2>3, EnumerationsList
  <2>8. queue' = q
    BY <2>2 DEF Begin
  <2>9. \A b \in BucketIds :
          b \in flags' <=> \E k \in 1 .. Len(queue') : queue'[k] = b
    BY <2>3, <2>7, <2>8
  <2>10. base = Kept(inter', flags')
    BY <2>4, <2>6
  <2> QED
    BY <2>5, <2>6, <2>9, <2>10 DEF Positions
<1>4. CASE RunUpdateReturn
  <2>1. pc'[Main] = "idle" /\ \A w \in Workers : pc'[w] = "off"
    BY <1>4, ThreadsApart DEF RunUpdateReturn, End
  <2>2. mode' = "ready" /\ flags' = {}
    BY <1>4 DEF RunUpdateReturn
  <2> QED
    BY <2>1, <2>2 DEF PoolJoined
<1>5. CASE BatchNext /\ UNCHANGED state
  <2>1. BatchTypeOK
    BY DEF TypeOK
  <2>2. PoolJoined' /\ pc[Main] # "idle" /\ pc'[Main] # "idle"
    BY <1>5, <2>1, BatchStaysInCall
  <2>3. mode \in {"initializing", "updating"}
    BY <2>2 DEF TypeOK
  <2>4. PICK base : base = Base
    OBVIOUS
  <2>5. BatchProgress(base)
    BY <2>3, <2>4 DEF Base
  <2>6. BatchProgress(base)'
    BY <1>5, <2>1, <2>5, BatchProgressStep
  <2>7. UNCHANGED <<mode, inter, flags, dirty, queue>>
    BY <1>5, BatchKeeps DEF state
  <2>8. base = Base'
    BY <2>4, <2>7 DEF Base, Kept
  <2> QED
    BY <2>2, <2>3, <2>6, <2>7, <2>8 DEF Positions, Base
<1>6. CASE UNCHANGED vars
  BY <1>6 DEF vars, state, batch, buckets, PoolJoined, BatchProgress, Positions,
     Collected, Matches, Kept
<1> QED
  BY <1>1, <1>2, <1>3, <1>4, <1>5, <1>6 DEF Next

(* At every step, sequential or in a pool, what a round has gathered is    *)
(* what the buckets it has finished contribute.                            *)
THEOREM ProgressInvariant == Spec => []RoundProgress
<1>1. Init => RoundProgress
  BY ThreadsApart DEF Init, BatchInit, RoundProgress, PoolJoined
<1>2. TypeOK /\ RoundProgress /\ [Next]_vars => RoundProgress'
  BY ProgressStep
<1> QED
  BY <1>1, <1>2, TypeCorrect, PTL DEF Spec

----------------------------------------------------------------------------
(* The intersection. *)

(* What the evaluation of a bucket finds is the reference intersection     *)
(* restricted to that bucket.                                              *)
LEMMA MatchesAreNaive ==
  ASSUME TypeOK, BucketsTrackSets, NEW b \in BucketIds, NEW i \in Items
  PROVE  i \in Matches(b) <=> BucketOf(i) = b /\ i \in NaiveIntersection(x, y)
BY DEF TypeOK, BucketsTrackSets, Matches, Contract!Matches, BuildBuckets, NaiveIntersection, Bags

(* A batch that has merged its whole queue is exact on a flagged bucket,   *)
(* and on an unflagged one if the entries it started from were.            *)
LEMMA CollectedExact ==
  ASSUME TypeOK, BucketsTrackSets, RoundProgress,
         mode \in {"initializing", "updating"}, pc[Main] = "return", ok,
         NEW b \in BucketIds, b \in flags \/ (mode = "updating" /\ ExactOn(b, inter))
  PROVE  ExactOn(b, acc)
<1>1. acc = Collected(Base, Len(queue))
  BY DEF RoundProgress, BatchProgress, Base
<1>2. \A k \in 1 .. Len(queue) : queue[k] \in BucketIds
  BY DEF TypeOK, BatchTypeOK
<1>3. \A c \in BucketIds : c \in flags <=> \E k \in 1 .. Len(queue) : queue[k] = c
  BY DEF RoundProgress, Positions
<1>4. SUFFICES ASSUME NEW i \in Items, BucketOf(i) = b
               PROVE  i \in acc <=> i \in NaiveIntersection(x, y)
  BY DEF ExactOn
<1>5. i \in acc <=> i \in Base \/ \E k \in 1 .. Len(queue) : i \in Matches(queue[k])
  BY <1>1 DEF Collected
<1>6. (\E k \in 1 .. Len(queue) : i \in Matches(queue[k]))
        <=> b \in flags /\ i \in NaiveIntersection(x, y)
  BY <1>2, <1>3, <1>4, MatchesAreNaive
<1>7. CASE b \in flags
  <2>1. i \notin Base
    BY <1>4, <1>7 DEF Base, Kept
  <2> QED
    BY <1>5, <1>6, <1>7, <2>1
<1>8. CASE b \notin flags
  <2>1. i \in Base <=> i \in NaiveIntersection(x, y)
    BY <1>4, <1>8 DEF Base, Kept, ExactOn
  <2> QED
    BY <1>5, <1>6, <1>8, <2>1
<1> QED
  BY <1>7, <1>8

LEMMA CleanStep ==
  ASSUME TypeOK, BucketsTrackSets, RoundProgress, CleanBucketsExact, [Next]_vars
  PROVE  CleanBucketsExact'
<1> USE DEF CleanBucketsExact
<1>1. ASSUME NEW xs \in XSets, NEW ys \in YSets, InitializeUpdateState(xs, ys)
      PROVE  CleanBucketsExact'
  BY <1>1 DEF InitializeUpdateState, RunInitialRound
<1>2. CASE InitializeReturn
  <2>1. pc[Main] = "return" /\ mode = "initializing" /\ x' = x /\ y' = y
    BY <1>2 DEF InitializeReturn, End
  <2>2. CASE ok
    <3>1. \A b \in BucketIds : ExactOn(b, acc)
      BY <2>1, <2>2, CollectedExact DEF RoundProgress
    <3> QED
      BY <1>2, <2>1, <2>2, <3>1 DEF InitializeReturn, ExactOn
  <2>3. CASE ~ok
    BY <1>2, <2>3 DEF InitializeReturn
  <2> QED
    BY <2>2, <2>3
<1>3. ASSUME NEW add \in AddSets, NEW del \in DelSets, RunUpdateRound(add, del)
      PROVE  CleanBucketsExact'
  <2>1. y \in Bags /\ add \in Bags /\ del \in Bags
    BY InputAssumption, CallerAssumption DEF TypeOK
  <2>2. /\ mode = "ready" /\ x' = x /\ inter' = inter
        /\ y' = LiveAfter(y, add, del)
        /\ flags' = ChangedFlags(BuildBuckets(y), add, del)
        /\ dirty' = dirty \cup flags'
    BY <1>3 DEF RunUpdateRound, BucketsTrackSets
  <2>3. SUFFICES ASSUME NEW b \in BucketIds, b \notin dirty', NEW i \in Items,
                        BucketOf(i) = b
                 PROVE  i \in inter' <=> i \in NaiveIntersection(x', y')
    BY DEF ExactOn
  <2>4. y'[i] = y[i]
    BY <2>1, <2>2, <2>3, UnflaggedUnchanged
  <2>5. i \in inter <=> i \in NaiveIntersection(x, y)
    BY <2>2, <2>3 DEF ExactOn
  <2> QED
    BY <2>2, <2>4, <2>5 DEF NaiveIntersection
<1>4. CASE RunUpdateReturn
  <2>1. pc[Main] = "return" /\ mode = "updating" /\ x' = x /\ y' = y
    BY <1>4 DEF RunUpdateReturn, End
  <2>2. CASE ok
    <3>1. inter' = acc /\ dirty' = dirty \ flags
      BY <1>4, <2>2 DEF RunUpdateReturn
    <3>2. \A b \in BucketIds \ dirty' : ExactOn(b, acc)
      BY <2>1, <2>2, <3>1, CollectedExact
    <3> QED
      BY <2>1, <3>1, <3>2 DEF ExactOn
  <2>3. CASE ~ok
    BY <1>4, <2>1, <2>3 DEF RunUpdateReturn, ExactOn
  <2> QED
    BY <2>2, <2>3
<1>5. CASE BatchNext /\ UNCHANGED state
  BY <1>5 DEF state, ExactOn
<1>6. CASE UNCHANGED vars
  BY <1>6 DEF vars, state, ExactOn
<1> QED
  BY <1>1, <1>2, <1>3, <1>4, <1>5, <1>6 DEF Next

(* Outside the buckets damaged by failed rounds the stored intersection is *)
(* exact, after any sequence of rounds.                                    *)
THEOREM CleanExact == Spec => []CleanBucketsExact
<1>1. Init => CleanBucketsExact
  BY DEF Init, CleanBucketsExact
<1>2. /\ TypeOK /\ BucketsTrackSets /\ RoundProgress
      /\ CleanBucketsExact /\ [Next]_vars
      => CleanBucketsExact'
  BY CleanStep
<1> QED
  BY <1>1, <1>2, TypeCorrect, BucketsTrack, ProgressInvariant, PTL DEF Spec

(* A round that returns true is exact on every bucket it evaluated and on  *)
(* every bucket no failed round has left behind.                           *)
THEOREM SuccessfulRoundExact == Spec => []SuccessExact
<1>1. TypeOK /\ BucketsTrackSets /\ RoundProgress /\ CleanBucketsExact
      => SuccessExact
  BY CollectedExact DEF SuccessExact, CleanBucketsExact
<1> QED
  BY <1>1, TypeCorrect, BucketsTrack, ProgressInvariant, CleanExact, PTL

(* If no round has failed since the state was last exact, or this round    *)
(* touched everything they changed, success is the naive intersection.     *)
THEOREM SuccessfulRoundNaive ==
  Spec => [](/\ mode = "updating" /\ pc[Main] = "return" /\ ok
             /\ dirty \subseteq flags
             => acc = NaiveIntersection(x, y))
<1>1. TypeOK /\ SuccessExact
      => (/\ mode = "updating" /\ pc[Main] = "return" /\ ok
          /\ dirty \subseteq flags
          => acc = NaiveIntersection(x, y))
  <2> SUFFICES ASSUME TypeOK, SuccessExact, mode = "updating",
                      pc[Main] = "return", ok, dirty \subseteq flags
               PROVE  acc = NaiveIntersection(x, y)
    OBVIOUS
  <2>1. \A i \in Items : i \in acc <=> i \in NaiveIntersection(x, y)
    BY BucketOfType DEF SuccessExact, ExactOn
  <2> QED
    BY <2>1 DEF TypeOK, BatchTypeOK, NaiveIntersection
<1> QED
  BY <1>1, TypeCorrect, SuccessfulRoundExact, PTL

(* Whatever a round does, the stored entries of the buckets it did not     *)
(* flag are the ones it found.                                             *)
THEOREM HistoryReused == Spec => UnflaggedReused
<1> DEFINE Reused ==
      mode = "updating" /\ mode' = "ready" =>
        \A i \in Items : BucketOf(i) \notin flags => (i \in inter' <=> i \in inter)
<1>1. TypeOK /\ BucketsTrackSets /\ RoundProgress /\ [Next]_vars => Reused
  <2> SUFFICES ASSUME TypeOK, BucketsTrackSets, RoundProgress, [Next]_vars,
                      mode = "updating", mode' = "ready",
                      NEW i \in Items, BucketOf(i) \notin flags
               PROVE  i \in inter' <=> i \in inter
    OBVIOUS
  <2>1. RunUpdateReturn
    BY DEF Next, InitializeUpdateState, InitializeReturn, RunUpdateRound, state,
       vars
  <2>2. CASE ok
    <3>1. pc[Main] = "return" /\ inter' = acc
      BY <2>1, <2>2 DEF RunUpdateReturn, End
    <3>2. acc = Collected(Base, Len(queue))
      BY <2>2, <3>1 DEF RoundProgress, BatchProgress, Base
    <3>3. \A k \in 1 .. Len(queue) : queue[k] \in flags
      BY DEF RoundProgress, Positions, TypeOK, BatchTypeOK
    <3>4. \A k \in 1 .. Len(queue) : i \notin Matches(queue[k])
      BY <3>3, MatchesAreNaive DEF TypeOK
    <3>5. i \in Base <=> i \in inter
      BY DEF Base, Kept
    <3> QED
      BY <3>1, <3>2, <3>4, <3>5 DEF Collected
  <2>3. CASE ~ok
    BY <2>1, <2>3 DEF RunUpdateReturn
  <2> QED
    BY <2>2, <2>3
<1>2. TypeOK /\ BucketsTrackSets /\ RoundProgress /\ [Next]_vars => [Reused]_vars
  BY <1>1
<1> QED
  BY <1>2, TypeCorrect, BucketsTrack, ProgressInvariant, PTL
  DEF Spec, UnflaggedReused

----------------------------------------------------------------------------
(* The refinement of UpsiRounds. *)

(* The stored intersection names only items of the own side's set. *)
FromX == mode \in {"ready", "updating"} => \A i \in inter : x[i] > 0

(* So does the one a round reports. *)
LEMMA CollectedFromX ==
  ASSUME TypeOK, BucketsTrackSets, RoundProgress, FromX,
         mode \in {"initializing", "updating"}, pc[Main] = "return", ok
  PROVE  \A i \in acc : x[i] > 0
<1>1. acc = Collected(Base, Len(queue))
  BY DEF RoundProgress, BatchProgress, Base
<1>2. \A i \in Base : x[i] > 0
  BY DEF Base, Kept, FromX
<1>3. \A k \in 1 .. Len(queue) : queue[k] \in BucketIds
  BY DEF TypeOK, BatchTypeOK
<1>4. \A k \in 1 .. Len(queue) : \A i \in Matches(queue[k]) :
        i \in NaiveIntersection(x, y)
  BY <1>3, MatchesAreNaive, MatchesType
<1> QED
  BY <1>1, <1>2, <1>4 DEF Collected, NaiveIntersection

LEMMA FromXStep ==
  ASSUME TypeOK, BucketsTrackSets, RoundProgress, FromX, [Next]_vars
  PROVE  FromX'
<1> USE DEF FromX
<1>1. ASSUME NEW xs \in XSets, NEW ys \in YSets, InitializeUpdateState(xs, ys)
      PROVE  FromX'
  BY <1>1 DEF InitializeUpdateState, RunInitialRound
<1>2. CASE InitializeReturn
  BY <1>2, CollectedFromX DEF InitializeReturn, End
<1>3. ASSUME NEW add \in AddSets, NEW del \in DelSets, RunUpdateRound(add, del)
      PROVE  FromX'
  BY <1>3 DEF RunUpdateRound
<1>4. CASE RunUpdateReturn
  BY <1>4, CollectedFromX DEF RunUpdateReturn, End
<1>5. CASE BatchNext /\ UNCHANGED state
  BY <1>5 DEF state
<1>6. CASE UNCHANGED vars
  BY <1>6 DEF vars, state
<1> QED
  BY <1>1, <1>2, <1>3, <1>4, <1>5, <1>6 DEF Next

(* One step of the protocol is one step of the service, or a stutter. *)
LEMMA StepImplements ==
  ASSUME TypeOK, BucketsTrackSets, RoundProgress, CleanBucketsExact, FromX,
         [Next]_vars
  PROVE  [Rounds!Next]_(Rounds!vars)
<1>1. ASSUME NEW xs \in XSets, NEW ys \in YSets, InitializeUpdateState(xs, ys)
      PROVE  Rounds!Next
  <2>1. (dirty' \subseteq flags') = TRUE
    BY <1>1 DEF InitializeUpdateState, RunInitialRound
  <2>2. Rounds!Initialize(xs, ys)
    BY <1>1, <2>1 DEF InitializeUpdateState, RunInitialRound, Rounds!Initialize
  <2> QED
    BY <2>2 DEF Rounds!Next
<1>2. CASE InitializeReturn
  <2>1. pc[Main] = "return" /\ mode = "initializing" /\ flags' = {}
    BY <1>2 DEF InitializeReturn, End
  <2>2. flags = BucketIds /\ flags \subseteq dirty
    BY <2>1 DEF RoundProgress
  <2>3. CASE ok
    <3>1. \A i \in Items : i \in acc <=> i \in NaiveIntersection(x, y)
      BY <2>1, <2>2, <2>3, CollectedExact, BucketOfType DEF ExactOn
    <3>2. inter' = NaiveIntersection(x, y)
      BY <1>2, <2>3, <3>1
      DEF InitializeReturn, TypeOK, BatchTypeOK, NaiveIntersection
    <3>3. (dirty' \subseteq flags') = (dirty \subseteq flags)
      BY <1>2, <2>2, <2>3 DEF InitializeReturn, TypeOK
    <3>4. Rounds!Initialized
      BY <1>2, <2>3, <3>2, <3>3
      DEF InitializeReturn, Rounds!Initialized, Rounds!NaiveIntersection,
          NaiveIntersection
    <3> QED
      BY <3>4 DEF Rounds!Next
  <2>4. CASE ~ok
    <3>1. 0 \in BucketIds
      BY BucketAssumption DEF BucketIds
    <3>2. (dirty' \subseteq flags') = FALSE
      BY <1>2, <2>1, <2>2, <2>4, <3>1 DEF InitializeReturn
    <3>3. Rounds!InitializeFailed
      BY <1>2, <2>4, <3>2 DEF InitializeReturn, Rounds!InitializeFailed
    <3> QED
      BY <3>3 DEF Rounds!Next
  <2> QED
    BY <2>3, <2>4
<1>3. ASSUME NEW add \in AddSets, NEW del \in DelSets, RunUpdateRound(add, del)
      PROVE  Rounds!Next
  <2>1. flags = {} /\ mode = "ready"
    BY <1>3 DEF RunUpdateRound, RoundProgress
  <2>2. (dirty \subseteq flags) => (dirty' \subseteq flags')
    BY <1>3, <2>1 DEF RunUpdateRound
  <2>3. (dirty' \subseteq flags') \in {(dirty \subseteq flags), TRUE}
    BY <2>2
  <2>4. Rounds!Update(add, del)
    BY <1>3, <2>3
    DEF RunUpdateRound, Rounds!Update, Rounds!LiveAfter, LiveAfter,
        Rounds!RemoveUpTo, RemoveUpTo
  <2> QED
    BY <2>4 DEF Rounds!Next
<1>4. CASE RunUpdateReturn
  <2>1. pc[Main] = "return" /\ mode = "updating" /\ flags' = {}
    BY <1>4 DEF RunUpdateReturn, End
  <2>2. CASE ok
    <3>1. inter' = acc /\ dirty' = dirty \ flags
      BY <1>4, <2>2 DEF RunUpdateReturn
    <3>2. (dirty' \subseteq flags') = (dirty \subseteq flags)
      BY <2>1, <3>1
    <3>3. CASE dirty \subseteq flags
      <4>1. \A b \in BucketIds : b \in flags \/ b \notin dirty
        BY <3>3
      <4>2. \A i \in Items : i \in acc <=> i \in NaiveIntersection(x, y)
        BY <2>1, <2>2, <4>1, CollectedExact, BucketOfType
        DEF ExactOn, CleanBucketsExact
      <4>3. inter' = NaiveIntersection(x, y)
        BY <3>1, <4>2 DEF TypeOK, BatchTypeOK, NaiveIntersection
      <4>4. Rounds!Updated
        BY <1>4, <3>2, <3>3, <4>3
        DEF RunUpdateReturn, Rounds!Updated, Rounds!NaiveIntersection,
            NaiveIntersection
      <4> QED
        BY <4>4 DEF Rounds!Next
    <3>4. CASE ~(dirty \subseteq flags)
      <4>1. inter' \in SUBSET {i \in Items : x[i] > 0}
        BY <2>1, <2>2, <3>1, CollectedFromX DEF TypeOK, BatchTypeOK
      <4>2. Rounds!Updated
        BY <1>4, <3>2, <3>4, <4>1 DEF RunUpdateReturn, Rounds!Updated
      <4> QED
        BY <4>2 DEF Rounds!Next
    <3> QED
      BY <3>3, <3>4
  <2>3. CASE ~ok
    <3>1. Len(queue) # 0
      BY <2>1, <2>3 DEF RoundProgress, BatchProgress
    <3>2. queue[1] \in BucketIds /\ 1 \in Positions
      BY <3>1 DEF TypeOK, BatchTypeOK, Positions
    <3>3. queue[1] \in flags /\ flags \subseteq dirty
      BY <2>1, <3>2 DEF RoundProgress
    <3>4. (dirty' \subseteq flags') = FALSE
      BY <1>4, <2>1, <2>3, <3>3 DEF RunUpdateReturn
    <3>5. Rounds!UpdateFailed
      BY <1>4, <2>3, <3>4 DEF RunUpdateReturn, Rounds!UpdateFailed
    <3> QED
      BY <3>5 DEF Rounds!Next
  <2> QED
    BY <2>2, <2>3
<1>5. CASE BatchNext /\ UNCHANGED state
  BY <1>5 DEF state, Rounds!vars
<1>6. CASE UNCHANGED vars
  BY <1>6 DEF vars, state, Rounds!vars
<1> QED
  BY <1>1, <1>2, <1>3, <1>4, <1>5, <1>6 DEF Next

(* The protocol with its buckets, threads, faults and partial rounds       *)
(* implements the interface a caller relies on.                            *)
THEOREM ImplementsRounds == Spec => RoundsSpec
<1>1. Init => Rounds!Init
  <2>1. ASSUME Init PROVE (dirty \subseteq flags) = TRUE
    BY <2>1 DEF Init
  <2> QED
    BY <2>1 DEF Init, Rounds!Init
<1>2. Init => FromX
  BY DEF Init, FromX
<1>3. /\ TypeOK /\ BucketsTrackSets /\ RoundProgress /\ FromX /\ [Next]_vars
      => FromX'
  BY FromXStep
<1>4. /\ TypeOK /\ BucketsTrackSets /\ RoundProgress /\ CleanBucketsExact
      /\ FromX /\ [Next]_vars
      => [Rounds!Next]_(Rounds!vars)
  BY StepImplements
<1> QED
  BY <1>1, <1>2, <1>3, <1>4, TypeCorrect, BucketsTrack, ProgressInvariant,
     CleanExact, PTL
  DEF Spec, RoundsSpec, Rounds!Spec

----------------------------------------------------------------------------
(* The pool inside the rounds. *)

LEMMA RoundPoolStep ==
  ASSUME TypeOK, PoolSound, [Next]_vars
  PROVE  PoolSound'
<1> USE DEF TypeOK
<1>1. ASSUME NEW xs \in XSets, NEW ys \in YSets, InitializeUpdateState(xs, ys)
      PROVE  PoolSound'
  <2>1. PICK q \in Enumerations(BucketIds) : Begin(q, {})
    BY <1>1 DEF InitializeUpdateState, RunInitialRound
  <2> QED
    BY <2>1, BeginPoolSound
<1>2. CASE InitializeReturn \/ RunUpdateReturn
  BY <1>2, EndPoolSound DEF InitializeReturn, RunUpdateReturn
<1>3. ASSUME NEW add \in AddSets, NEW del \in DelSets, RunUpdateRound(add, del)
      PROVE  PoolSound'
  <2>1. flags' \in SUBSET BucketIds
    BY <1>3 DEF RunUpdateRound, ChangedFlags
  <2>2. PICK q \in Enumerations(flags') : Begin(q, Kept(inter, flags'))
    BY <1>3 DEF RunUpdateRound
  <2>3. PICK S \in SUBSET BucketIds : S = flags'
    BY <2>1
  <2>4. PICK base : base = Kept(inter, flags')
    OBVIOUS
  <2>5. q \in Enumerations(S) /\ Begin(q, base)
    BY <2>2, <2>3, <2>4
  <2> QED
    BY <2>5, BeginPoolSound
<1>4. CASE BatchNext /\ UNCHANGED state
  BY <1>4, PoolSoundStep
<1>5. CASE UNCHANGED vars
  BY <1>5, StutterPoolSound DEF vars, state
<1> QED
  BY <1>1, <1>2, <1>3, <1>4, <1>5 DEF Next

LEMMA RoundPoolSound == Spec => []PoolSound
<1>1. Init => PoolSound
  BY InitPoolSound DEF Init
<1>2. TypeOK /\ PoolSound /\ [Next]_vars => PoolSound'
  BY RoundPoolStep
<1> QED
  BY <1>1, <1>2, TypeCorrect, PTL DEF Spec

(* A round returns false exactly if a fault happened while it ran or a     *)
(* queued bucket cannot be evaluated, for every number of threads and      *)
(* whatever a worker sees of the others' `failed'.                         *)
THEOREM RoundVerdictExact == Spec => []VerdictExact
<1>1. TypeOK /\ PoolSound => VerdictExact
  BY PoolSoundImplies DEF TypeOK
<1> QED
  BY <1>1, TypeCorrect, RoundPoolSound, PTL

(* The slots of an update round are filled by one worker each, once. *)
THEOREM RoundClaimsDistinct == Spec => []DistinctClaims
<1>1. TypeOK /\ PoolSound => DistinctClaims
  BY PoolSoundImplies DEF TypeOK
<1> QED
  BY <1>1, TypeCorrect, RoundPoolSound, PTL

(* With a RELIC context per thread, the buckets of every round are         *)
(* evaluated under an initialised context, and a round leaves none behind. *)
THEOREM RoundContextsSafe ==
  ASSUME PerThreadContext
  PROVE  Spec => [](ContextLive /\ NoContextLeft)
<1>1. TypeOK /\ PoolSound => ContextLive /\ NoContextLeft
  BY PoolSoundImplies DEF TypeOK
<1> QED
  BY <1>1, TypeCorrect, RoundPoolSound, PTL

(* The same bound on the steps of every call of the protocol, that of an   *)
(* update round included.                                                  *)
THEOREM RoundsEnd ==
  /\ Spec => [](StepsLeft \in 0 .. (2 * BucketCount + 4 * WorkerThreads + 3))
  /\ Spec => [][BatchNext => StepsLeft' < StepsLeft]_vars
<1>1. TypeOK /\ PoolSound => StepsLeft \in 0 .. (2 * BucketCount + 4 * WorkerThreads + 3)
  BY StepsBounded, StepsInterval DEF PoolSound, TypeOK
<1>2. TypeOK /\ PoolSound /\ BatchNext => StepsLeft' < StepsLeft
  BY BatchShrinks DEF PoolSound, TypeOK
<1> QED
  BY <1>1, <1>2, TypeCorrect, RoundPoolSound, PTL

----------------------------------------------------------------------------
(* The verdict, as the caller can foresee it from its own sets. *)

(* Bucketing a set keeps what the evaluation depends on. *)
LEMMA EvaluableBucket ==
  ASSUME TypeOK, BucketsTrackSets, NEW b \in BucketIds
  PROVE  EvalSucceeds(b) <=> Evaluable(b)
<1>1. \A i \in Items :
        /\ xb[b][i] = (IF BucketOf(i) = b THEN x[i] ELSE 0)
        /\ yb[b][i] = (IF BucketOf(i) = b THEN y[i] ELSE 0)
  BY DEF BucketsTrackSets, BuildBuckets
<1>2. \A i \in Items : x[i] \in Nat /\ y[i] \in Nat
  BY DEF TypeOK, Bags
<1>3. EmptySide(b) <=> \/ \A i \in Items : BucketOf(i) = b => x[i] = 0
                      \/ \A i \in Items : BucketOf(i) = b => y[i] = 0
  BY <1>1 DEF EmptySide, Contract!EmptySide
<1>4. ~DuplicateKey(b) <=> \A i \in Items : BucketOf(i) = b => y[i] <= 1
  BY <1>1, <1>2 DEF DuplicateKey, Contract!DuplicateKey
<1> QED
  BY <1>3, <1>4 DEF EvalSucceeds, Evaluable

(* A round returns false exactly if a fault happened or it flags a bucket  *)
(* with items of side X in which side Y holds an item twice, whatever      *)
(* rounds came before and whichever threads evaluated it.                  *)
THEOREM VerdictFromSets == Spec => []VerdictForeseen
<1>1. ASSUME TypeOK, BucketsTrackSets, RoundProgress, VerdictExact
      PROVE  VerdictForeseen
  <2> SUFFICES ASSUME mode \in {"initializing", "updating"}, pc[Main] = "return"
               PROVE  ok <=> faults = 0 /\ \A b \in flags : Evaluable(b)
    BY DEF VerdictForeseen
  <2>1. ok <=> faults = 0 /\ \A k \in Positions : EvalSucceeds(queue[k])
    BY <1>1 DEF VerdictExact
  <2>2. \A b \in BucketIds : b \in flags <=> \E k \in Positions : queue[k] = b
    BY <1>1 DEF RoundProgress
  <2>3. \A k \in Positions : queue[k] \in BucketIds
    BY <1>1 DEF TypeOK, BatchTypeOK, Positions
  <2>4. flags \subseteq BucketIds
    BY <1>1 DEF TypeOK
  <2>5. \A b \in BucketIds : EvalSucceeds(b) <=> Evaluable(b)
    BY <1>1, EvaluableBucket
  <2> QED
    BY <2>1, <2>2, <2>3, <2>4, <2>5
<1> QED
  BY <1>1, TypeCorrect, BucketsTrack, ProgressInvariant, RoundVerdictExact, PTL

(* A caller whose side Y holds no item twice loses a round to faults only: *)
(* no history of failed rounds makes a later one fail.                     *)
THEOREM SetsNeverFail ==
  Spec => [](/\ mode \in {"initializing", "updating"} /\ pc[Main] = "return"
             /\ \A i \in Items : y[i] <= 1
             => (ok <=> faults = 0))
<1>1. TypeOK /\ VerdictForeseen
        => (/\ mode \in {"initializing", "updating"} /\ pc[Main] = "return"
            /\ \A i \in Items : y[i] <= 1
            => (ok <=> faults = 0))
  BY DEF VerdictForeseen, Evaluable
<1> QED
  BY <1>1, TypeCorrect, VerdictFromSets, PTL

(* An item that side Y holds twice in a bucket with items of side X fails  *)
(* every round that flags the bucket, a retry of the delta included.       *)
THEOREM DuplicateFails ==
  ASSUME NEW i \in Items, NEW j \in Items, BucketOf(j) = BucketOf(i)
  PROVE  Spec => [](/\ mode \in {"initializing", "updating"} /\ pc[Main] = "return"
                    /\ BucketOf(i) \in flags /\ y[i] > 1 /\ x[j] > 0
                    => ~ok)
<1>1. TypeOK /\ VerdictForeseen
        => (/\ mode \in {"initializing", "updating"} /\ pc[Main] = "return"
            /\ BucketOf(i) \in flags /\ y[i] > 1 /\ x[j] > 0
            => ~ok)
  <2> SUFFICES ASSUME TypeOK, VerdictForeseen,
                      mode \in {"initializing", "updating"}, pc[Main] = "return",
                      BucketOf(i) \in flags, y[i] > 1, x[j] > 0, ok
               PROVE  FALSE
    OBVIOUS
  <2>1. Evaluable(BucketOf(i))
    BY DEF VerdictForeseen
  <2>2. x[j] \in Nat /\ y[i] \in Nat
    BY DEF TypeOK, Bags
  <2> QED
    BY <2>1, <2>2 DEF Evaluable
<1> QED
  BY <1>1, TypeCorrect, VerdictFromSets, PTL

----------------------------------------------------------------------------
(* A set that holds 0 and with a number the next one holds them all. *)
LEMMA CountUp ==
  ASSUME NEW S, 0 \in S, \A n \in Nat : n \in S => n + 1 \in S
  PROVE  Nat \subseteq S
<1> SUFFICES ASSUME NEW k \in Nat \ S PROVE FALSE
  OBVIOUS
<1> DEFINE R == OpToRel(<, Nat)
           Missing == Nat \ S
<1>1. \E c \in Missing : \A d \in Missing : ~(<<d, c>> \in R)
  <2>1. Missing \subseteq Nat /\ Missing # {}
    OBVIOUS
  <2> HIDE DEF R, Missing
  <2> QED
    BY <2>1, NatLessThanWellFounded, WFMin, Zenon DEF R
<1>2. PICK c \in Missing : \A d \in Missing : ~(<<d, c>> \in R)
  BY <1>1
<1>3. c # 0 /\ c - 1 \in Nat /\ c - 1 < c
  OBVIOUS
<1>4. <<c - 1, c>> \in R
  BY <1>3 DEF OpToRel
<1>5. c - 1 \in S
  <2> HIDE DEF R
  <2> QED
    BY <1>2, <1>3, <1>4
<1>6. (c - 1) + 1 \in S
  BY <1>3, <1>5
<1> QED
  BY <1>6

(* A loop over n rounds: what its step keeps, and the values it goes through. *)
Keeps(step, D, n) == \A d \in D, k \in 1 .. n : step[<<d, k>>] \in D

IsRun(s, D, start, n, step) ==
  /\ s \in [0 .. n -> D]
  /\ s[0] = start
  /\ \A k \in 1 .. n : s[k] = step[<<s[k - 1], k>>]

LEMMA LoopRuns ==
  ASSUME NEW D, NEW start \in D, NEW n \in Nat, NEW step, Keeps(step, D, n)
  PROVE  \E s : IsRun(s, D, start, n, step)
<1> DEFINE Run(s, m) == /\ s \in [0 .. m -> D] /\ s[0] = start
                        /\ \A k \in 1 .. m : s[k] = step[<<s[k - 1], k>>]
           S == {m \in Nat : m <= n => \E s : Run(s, m)}
<1>1. 0 \in S
  <2>1. Run([k \in 0 .. 0 |-> start], 0)
    OBVIOUS
  <2> QED
    BY <2>1
<1>2. ASSUME NEW m \in Nat, m \in S
      PROVE  m + 1 \in S
  <2> SUFFICES ASSUME m + 1 <= n PROVE \E s : Run(s, m + 1)
    OBVIOUS
  <2>1. PICK s : Run(s, m)
    BY <1>2
  <2>2. m \in 0 .. m /\ m + 1 \in 1 .. n /\ s[m] \in D
    BY <2>1
  <2> DEFINE v == step[<<s[m], m + 1>>]
             g == [k \in 0 .. m + 1 |-> IF k = m + 1 THEN v ELSE s[k]]
  <2>3. v \in D
    BY <2>2 DEF Keeps
  <2> HIDE DEF v
  <2>4. g \in [0 .. m + 1 -> D]
    BY <2>1, <2>3
  <2>5. g[0] = start
    BY <2>1
  <2>6. ASSUME NEW k \in 1 .. m + 1
        PROVE  g[k] = step[<<g[k - 1], k>>]
    <3>1. CASE k = m + 1
      <4>1. g[k] = v /\ g[k - 1] = s[m]
        BY <3>1
      <4> QED
        BY <3>1, <4>1 DEF v
    <3>2. CASE k \in 1 .. m
      <4>1. g[k] = s[k] /\ g[k - 1] = s[k - 1]
        BY <3>2
      <4> QED
        BY <2>1, <3>2, <4>1
    <3> QED
      BY <3>1, <3>2
  <2> HIDE DEF g
  <2> QED
    BY <2>4, <2>5, <2>6
<1>3. n \in S
  <2> HIDE DEF S
  <2> QED
    BY <1>1, <1>2, CountUp
<1> QED
  BY <1>3 DEF IsRun

----------------------------------------------------------------------------
(* How often an item is among the first k of a list. *)
Copies(list, k, item) == Cardinality({j \in 1 .. k : list[j] = item})

(* Counting copies, place by place. *)
LEMMA CopiesCount ==
  ASSUME NEW list, NEW item
  PROVE  /\ Copies(list, 0, item) = 0
         /\ \A k \in Nat :
              /\ Copies(list, k, item) \in Nat
              /\ Copies(list, k + 1, item) =
                   Copies(list, k, item) + (IF list[k + 1] = item THEN 1 ELSE 0)
<1> DEFINE At(k) == {j \in 1 .. k : list[j] = item}
<1>1. At(0) = {}
  OBVIOUS
<1>2. ASSUME NEW k \in Nat
      PROVE  IsFiniteSet(At(k))
  <2>1. IsFiniteSet(1 .. k)
    BY FS_Interval
  <2>2. At(k) \subseteq 1 .. k
    OBVIOUS
  <2> HIDE DEF At
  <2> QED
    BY <2>1, <2>2, FS_Subset
<1>3. ASSUME NEW k \in Nat
      PROVE  Cardinality(At(k + 1)) =
               Cardinality(At(k)) + (IF list[k + 1] = item THEN 1 ELSE 0)
  <2>1. At(k + 1) = IF list[k + 1] = item THEN At(k) \cup {k + 1} ELSE At(k)
    OBVIOUS
  <2>2. k + 1 \notin At(k)
    OBVIOUS
  <2>3. Cardinality(At(k)) \in Nat
    BY <1>2, FS_CardinalityType
  <2> HIDE DEF At
  <2>4. Cardinality(At(k) \cup {k + 1}) = Cardinality(At(k)) + 1
    BY <1>2, <2>2, FS_AddElement
  <2> QED
    BY <2>1, <2>3, <2>4
<1>4. \A k \in Nat : Cardinality(At(k)) \in Nat
  <2> HIDE DEF At
  <2> QED
    BY <1>2, FS_CardinalityType
<1> QED
  BY <1>1, <1>3, <1>4, FS_EmptySet DEF Copies

(* A vector's bag counts the copies among all its items. *)
LEMMA BagCounts ==
  ASSUME NEW list \in Seq(Items)
  PROVE  /\ Len(list) \in Nat /\ DOMAIN list = 1 .. Len(list)
         /\ BagOf(list) \in Bags
         /\ \A item \in Items : BagOf(list)[item] = Copies(list, Len(list), item)
<1>1. Len(list) \in Nat /\ DOMAIN list = 1 .. Len(list)
  OBVIOUS
<1>2. \A item \in Items : BagOf(list)[item] = Copies(list, Len(list), item)
  BY <1>1 DEF BagOf, Copies
<1>3. \A item \in Items : Copies(list, Len(list), item) \in Nat
  BY <1>1, CopiesCount
<1>4. BagOf(list) = [item \in Items |-> BagOf(list)[item]]
  BY DEF BagOf
<1> QED
  BY <1>1, <1>2, <1>3, <1>4 DEF Bags

(* The same items in the first places are the same copies. *)
LEMMA CopiesSame ==
  ASSUME NEW s, NEW t, NEW k \in Nat, \A j \in 1 .. k : s[j] = t[j], NEW item
  PROVE  Copies(s, k, item) = Copies(t, k, item)
<1>1. {j \in 1 .. k : s[j] = item} = {j \in 1 .. k : t[j] = item}
  OBVIOUS
<1> QED
  BY <1>1 DEF Copies

(* Appending an item adds a copy of it. *)
LEMMA AppendCounts ==
  ASSUME NEW s \in Seq(Items), NEW e \in Items, NEW item \in Items
  PROVE  /\ Append(s, e) \in Seq(Items)
         /\ BagOf(Append(s, e))[item] = BagOf(s)[item] + (IF e = item THEN 1 ELSE 0)
<1> DEFINE t == Append(s, e)
           n == Len(s)
<1>1. /\ n \in Nat /\ t \in Seq(Items) /\ Len(t) = n + 1 /\ t[n + 1] = e
      /\ \A j \in 1 .. n : t[j] = s[j]
  OBVIOUS
<1> HIDE DEF t, n
<1>2. Copies(t, n, item) = Copies(s, n, item)
  BY <1>1, CopiesSame
<1>3. Copies(t, n + 1, item) = Copies(t, n, item) + (IF e = item THEN 1 ELSE 0)
  BY <1>1, CopiesCount
<1>4. BagOf(s)[item] = Copies(s, n, item) /\ BagOf(t)[item] = Copies(t, n + 1, item)
  BY <1>1, BagCounts DEF n
<1> QED
  BY <1>1, <1>2, <1>3, <1>4 DEF t

(* An item is in a bucket if it has a copy there. *)
LEMMA HoldsCounts ==
  ASSUME NEW s \in Seq(Items), NEW item \in Items
  PROVE  Holds(s, item) <=> BagOf(s)[item] > 0
<1> DEFINE A == {k \in DOMAIN s : s[k] = item}
<1>1. BagOf(s)[item] = Cardinality(A)
  BY DEF BagOf
<1>2. IsFiniteSet(A)
  <2>1. A \subseteq 1 .. Len(s) /\ Len(s) \in Nat
    OBVIOUS
  <2>2. IsFiniteSet(1 .. Len(s))
    BY FS_Interval
  <2> HIDE DEF A
  <2> QED
    BY <2>1, <2>2, FS_Subset
<1>3. Holds(s, item) <=> A # {}
  BY DEF Holds
<1> HIDE DEF A
<1>4. Cardinality(A) \in Nat /\ (Cardinality(A) = 0 <=> A = {})
  BY <1>2, FS_CardinalityType, FS_EmptySet
<1> QED
  BY <1>1, <1>3, <1>4

(* Erasing a place takes one copy of the item there. *)
LEMMA EraseCounts ==
  ASSUME NEW s \in Seq(Items), NEW p \in 1 .. Len(s), NEW item \in Items
  PROVE  /\ Erase(s, p) \in Seq(Items)
         /\ BagOf(s)[item] = BagOf(Erase(s, p))[item] + (IF s[p] = item THEN 1 ELSE 0)
<1> DEFINE e == Erase(s, p)
           n == Len(s)
           d == IF s[p] = item THEN 1 ELSE 0
<1>1. n \in Nat /\ p \in 1 .. n /\ n - 1 \in Nat /\ p \in Nat /\ p - 1 \in Nat
      /\ \A j \in 1 .. n : s[j] \in Items
  OBVIOUS
<1>2. /\ e \in Seq(Items) /\ Len(e) = n - 1
      /\ \A j \in 1 .. n - 1 : e[j] = IF j < p THEN s[j] ELSE s[j + 1]
  <2>1. \A j \in 1 .. n - 1 : (IF j < p THEN j ELSE j + 1) \in 1 .. n
    BY <1>1
  <2>2. e = [j \in 1 .. n - 1 |-> s[IF j < p THEN j ELSE j + 1]]
    BY DEF Erase
  <2>3. e \in [1 .. n - 1 -> Items]
    BY <1>1, <2>1, <2>2
  <2> HIDE DEF e, n
  <2>4. e \in Seq(Items) /\ Len(e) = n - 1
    BY <1>1, <2>3
  <2> QED
    BY <2>2, <2>4
<1>3. d \in {0, 1}
  OBVIOUS
<1> HIDE DEF e, n
<1> DEFINE S == {j \in Nat : j + 1 <= n =>
                   IF j < p THEN Copies(e, j, item) = Copies(s, j, item)
                            ELSE Copies(s, j + 1, item) = Copies(e, j, item) + d}
<1>c. \A j \in Nat :
        /\ Copies(e, j, item) \in Nat /\ Copies(s, j, item) \in Nat
        /\ Copies(e, j + 1, item) =
             Copies(e, j, item) + (IF e[j + 1] = item THEN 1 ELSE 0)
        /\ Copies(s, j + 1, item) =
             Copies(s, j, item) + (IF s[j + 1] = item THEN 1 ELSE 0)
  BY CopiesCount
<1>4. 0 \in S
  BY <1>1, CopiesCount
<1>5. ASSUME NEW j \in Nat, j \in S
      PROVE  j + 1 \in S
  <2> SUFFICES ASSUME (j + 1) + 1 <= n
               PROVE  IF j + 1 < p
                        THEN Copies(e, j + 1, item) = Copies(s, j + 1, item)
                        ELSE Copies(s, (j + 1) + 1, item) = Copies(e, j + 1, item) + d
    OBVIOUS
  <2>1. j + 1 \in 1 .. n - 1 /\ j + 1 <= n /\ j + 1 \in Nat
    BY <1>1
  <2>2. /\ Copies(e, j + 1, item) =
             Copies(e, j, item) + (IF e[j + 1] = item THEN 1 ELSE 0)
        /\ Copies(s, j + 1, item) =
             Copies(s, j, item) + (IF s[j + 1] = item THEN 1 ELSE 0)
        /\ Copies(s, (j + 1) + 1, item) =
             Copies(s, j + 1, item) + (IF s[(j + 1) + 1] = item THEN 1 ELSE 0)
        /\ Copies(e, j, item) \in Nat /\ Copies(s, j, item) \in Nat
        /\ Copies(s, j + 1, item) \in Nat
    BY <1>c, <2>1
  <2>3. e[j + 1] = IF j + 1 < p THEN s[j + 1] ELSE s[(j + 1) + 1]
    BY <1>2, <2>1
  <2>4. CASE j + 1 < p
    <3>1. Copies(e, j, item) = Copies(s, j, item)
      BY <1>1, <1>5, <2>1, <2>4
    <3> QED
      BY <2>2, <2>3, <2>4, <3>1
  <2>5. CASE j + 1 = p
    <3>1. Copies(e, j, item) = Copies(s, j, item)
      BY <1>1, <1>5, <2>1, <2>5
    <3>2. (IF s[j + 1] = item THEN 1 ELSE 0) = d
      BY <2>5
    <3> HIDE DEF d
    <3> QED
      BY <1>1, <1>3, <2>2, <2>3, <2>5, <3>1, <3>2
  <2>6. CASE j + 1 > p
    <3>1. Copies(s, j + 1, item) = Copies(e, j, item) + d
      BY <1>1, <1>5, <2>1, <2>6
    <3> HIDE DEF d
    <3> QED
      BY <1>1, <1>3, <2>2, <2>3, <2>6, <3>1
  <2> QED
    BY <1>1, <2>1, <2>4, <2>5, <2>6
<1>6. n - 1 \in S
  <2> HIDE DEF S
  <2> QED
    BY <1>1, <1>4, <1>5, CountUp
<1>7. Copies(s, n, item) = Copies(e, n - 1, item) + d
  <2>1. (n - 1) + 1 = n
    BY <1>1
  <2>2. CASE n - 1 < p
    <3>1. p = n /\ Copies(e, n - 1, item) = Copies(s, n - 1, item)
      BY <1>1, <1>6, <2>1, <2>2
    <3>2. Copies(s, n, item) = Copies(s, n - 1, item) + d
      BY <1>1, <1>c, <2>1, <3>1
    <3> QED
      BY <3>1, <3>2
  <2>3. CASE ~(n - 1 < p)
    <3> HIDE DEF d
    <3> QED
      BY <1>1, <1>6, <2>1, <2>3
  <2> QED
    BY <2>2, <2>3
<1>8. BagOf(s)[item] = Copies(s, n, item) /\ BagOf(e)[item] = Copies(e, n - 1, item)
  BY <1>2, BagCounts DEF n
<1> QED
  BY <1>2, <1>7, <1>8 DEF e

(* What is there has a first copy. *)
LEMMA FirstCopyFound ==
  ASSUME NEW s \in Seq(Items), NEW item \in Items, Holds(s, item)
  PROVE  FirstCopy(s, item) \in 1 .. Len(s) /\ s[FirstCopy(s, item)] = item
<1> DEFINE A == {k \in DOMAIN s : s[k] = item}
           R == OpToRel(<, Nat)
<1>1. A \subseteq Nat /\ A # {} /\ DOMAIN s = 1 .. Len(s)
  BY DEF Holds
<1>2. \E c \in A : \A d \in A : ~(<<d, c>> \in R)
  <2> HIDE DEF A, R
  <2> QED
    BY <1>1, NatLessThanWellFounded, WFMin, Zenon DEF R
<1>3. PICK c \in A : \A d \in A : ~(<<d, c>> \in R)
  BY <1>2
<1>4. ASSUME NEW j \in 1 .. c - 1
      PROVE  s[j] # item
  <2>1. c \in 1 .. Len(s) /\ c \in Nat /\ j \in Nat /\ j < c /\ j \in DOMAIN s
    BY <1>1
  <2>2. <<j, c>> \in R
    BY <2>1 DEF OpToRel
  <2>3. j \notin A
    <3> HIDE DEF A, R
    <3> QED
      BY <1>3, <2>2
  <2> QED
    BY <2>1, <2>3
<1>5. c \in DOMAIN s /\ s[c] = item
  OBVIOUS
<1> HIDE DEF A, R
<1> QED
  BY <1>1, <1>4, <1>5, Zenon DEF FirstCopy

----------------------------------------------------------------------------
(* The loops. *)

Vectors == [BucketIds -> Seq(Items)]
LoopStates == [buckets : Vectors, flags : SUBSET BucketIds]

(* Bucketing a vector item by item gives the buckets of its bag. *)
LEMMA BuildLoop ==
  ASSUME NEW list \in Seq(Items)
  PROVE  /\ BuildVectors(list) \in Vectors
         /\ \A b \in BucketIds, i \in Items :
              BagOf(BuildVectors(list)[b])[i] = BuildBuckets(BagOf(list))[b][i]
<1> DEFINE n == Len(list)
           Built(f) == f = [k \in 0 .. n |->
             IF k = 0 THEN [b \in BucketIds |-> <<>>]
             ELSE [f[k - 1] EXCEPT ![BucketOf(list[k])] = Append(@, list[k])]]
           f == CHOOSE f : Built(f)
<1>1. n \in Nat /\ \A k \in 1 .. n : list[k] \in Items /\ BucketOf(list[k]) \in BucketIds
  BY BucketOfType
<1>2. BuildVectors(list) = f[n]
  BY DEF BuildVectors
<1>3. \E g : Built(g)
  <2> DEFINE step == [p \in Vectors \X (1 .. n) |->
                       [p[1] EXCEPT ![BucketOf(list[p[2]])] = Append(@, list[p[2]])]]
             start == [b \in BucketIds |-> <<>>]
  <2>1. start \in Vectors
    BY DEF Vectors
  <2>2. ASSUME NEW v \in Vectors, NEW k \in 1 .. n
        PROVE  /\ [v EXCEPT ![BucketOf(list[k])] = Append(@, list[k])] \in Vectors
               /\ step[<<v, k>>] = [v EXCEPT ![BucketOf(list[k])] = Append(@, list[k])]
    <3>1. Append(v[BucketOf(list[k])], list[k]) \in Seq(Items)
      BY <1>1 DEF Vectors
    <3> HIDE DEF n
    <3> QED
      BY <3>1 DEF Vectors
  <2>3. Keeps(step, Vectors, n)
    BY <2>2 DEF Keeps
  <2> HIDE DEF step, start, n
  <2>4. PICK s : IsRun(s, Vectors, start, n, step)
    BY <1>1, <2>1, <2>3, LoopRuns
  <2>5. ASSUME NEW k \in 0 .. n
        PROVE  s[k] = IF k = 0 THEN [b \in BucketIds |-> <<>>]
                      ELSE [s[k - 1] EXCEPT ![BucketOf(list[k])] = Append(@, list[k])]
    <3>1. CASE k = 0
      BY <2>4, <3>1 DEF IsRun, start
    <3>2. CASE k # 0
      <4>1. k \in 1 .. n /\ s[k - 1] \in Vectors
        BY <1>1, <2>4, <3>2 DEF IsRun
      <4> QED
        BY <2>2, <2>4, <3>2, <4>1 DEF IsRun
    <3> QED
      BY <3>1, <3>2
  <2>6. Built(s)
    BY <2>4, <2>5 DEF IsRun
  <2> QED
    BY <2>6
<1>4. Built(f)
  <2> HIDE DEF Built
  <2> QED
    BY <1>3
<1> HIDE DEF f
<1>5. f[0] = [b \in BucketIds |-> <<>>]
  BY <1>1, <1>4
<1>6. \A k \in 1 .. n :
        f[k] = [f[k - 1] EXCEPT ![BucketOf(list[k])] = Append(@, list[k])]
  <2> SUFFICES ASSUME NEW k \in 1 .. n
               PROVE  f[k] = [f[k - 1] EXCEPT ![BucketOf(list[k])] = Append(@, list[k])]
    OBVIOUS
  <2>1. k \in 0 .. n /\ k # 0
    BY <1>1
  <2> HIDE DEF n
  <2> QED
    BY <1>4, <2>1, Zenon
<1> HIDE DEF n, Built
<1> DEFINE S == {k \in Nat : k <= n =>
                   /\ f[k] \in Vectors
                   /\ \A b \in BucketIds, i \in Items :
                        BagOf(f[k][b])[i] =
                          IF BucketOf(i) = b THEN Copies(list, k, i) ELSE 0}
<1>7. 0 \in S
  <2>1. f[0] \in Vectors
    BY <1>5 DEF Vectors
  <2>2. ASSUME NEW b \in BucketIds, NEW i \in Items
        PROVE  BagOf(f[0][b])[i] = 0
    <3>1. f[0][b] = <<>> /\ <<>> \in Seq(Items) /\ Len(<<>>) = 0
      BY <1>5
    <3>2. BagOf(<<>>)[i] = Copies(<<>>, 0, i)
      BY <3>1, BagCounts
    <3> QED
      BY <3>1, <3>2, CopiesCount
  <2>3. \A i : Copies(list, 0, i) = 0
    BY CopiesCount
  <2> QED
    BY <2>1, <2>2, <2>3
<1>8. ASSUME NEW k \in Nat, k \in S
      PROVE  k + 1 \in S
  <2> SUFFICES ASSUME k + 1 <= n
               PROVE  /\ f[k + 1] \in Vectors
                      /\ \A b \in BucketIds, i \in Items :
                           BagOf(f[k + 1][b])[i] =
                             IF BucketOf(i) = b THEN Copies(list, k + 1, i) ELSE 0
    OBVIOUS
  <2> DEFINE e == list[k + 1]
             idx == BucketOf(e)
  <2>1. k + 1 \in 1 .. n /\ (k + 1) - 1 = k /\ k <= n
    BY <1>1
  <2>2. /\ f[k] \in Vectors
        /\ \A b \in BucketIds, i \in Items :
             BagOf(f[k][b])[i] = IF BucketOf(i) = b THEN Copies(list, k, i) ELSE 0
    BY <1>8, <2>1
  <2>3. e \in Items /\ idx \in BucketIds
    BY <1>1, <2>1
  <2>4. f[k + 1] = [f[k] EXCEPT ![idx] = Append(f[k][idx], e)]
    BY <1>6, <2>1
  <2>5. f[k][idx] \in Seq(Items) /\ Append(f[k][idx], e) \in Seq(Items)
    BY <2>2, <2>3 DEF Vectors
  <2>6. f[k + 1] \in Vectors /\ f[k + 1][idx] = Append(f[k][idx], e)
        /\ \A b \in BucketIds : b # idx => f[k + 1][b] = f[k][b]
    BY <2>2, <2>3, <2>4, <2>5 DEF Vectors
  <2>7. ASSUME NEW i \in Items
        PROVE  /\ Copies(list, k, i) \in Nat
               /\ Copies(list, k + 1, i) = Copies(list, k, i) + (IF e = i THEN 1 ELSE 0)
    BY CopiesCount
  <2> HIDE DEF e
  <2>8. ASSUME NEW b \in BucketIds, NEW i \in Items
        PROVE  BagOf(f[k + 1][b])[i] =
                 IF BucketOf(i) = b THEN Copies(list, k + 1, i) ELSE 0
    <3>1. CASE b = idx
      <4>1. BagOf(f[k + 1][b])[i] = BagOf(f[k][b])[i] + (IF e = i THEN 1 ELSE 0)
        <5> DEFINE q == f[k][idx]
        <5>1. q \in Seq(Items) /\ f[k + 1][b] = Append(q, e) /\ f[k][b] = q
          BY <2>5, <2>6, <3>1
        <5> HIDE DEF q, idx
        <5> QED
          BY <2>3, <5>1, AppendCounts
      <4>2. CASE BucketOf(i) = b
        BY <2>2, <2>7, <4>1, <4>2
      <4>3. CASE BucketOf(i) # b
        BY <2>2, <3>1, <4>1, <4>3
      <4> QED
        BY <4>2, <4>3
    <3>2. CASE b # idx
      <4>1. BucketOf(i) = b => e # i
        BY <3>2
      <4> HIDE DEF idx
      <4> QED
        BY <2>2, <2>6, <2>7, <3>2, <4>1
    <3> QED
      BY <3>1, <3>2
  <2> QED
    BY <2>6, <2>8
<1>9. n \in S
  <2> HIDE DEF S
  <2> QED
    BY <1>1, <1>7, <1>8, CountUp
<1>10. \A i \in Items : BagOf(list)[i] = Copies(list, n, i)
  BY BagCounts DEF n
<1>11. \A b \in BucketIds, i \in Items :
         BuildBuckets(BagOf(list))[b][i] = IF BucketOf(i) = b THEN BagOf(list)[i] ELSE 0
  BY DEF BuildBuckets
<1> QED
  BY <1>1, <1>2, <1>9, <1>10, <1>11

(* One deletion takes a copy from the item's own bucket and raises its     *)
(* flag, or finds none and changes nothing.                                *)
LEMMA DeleteOne ==
  ASSUME NEW out \in LoopStates, NEW e \in Items,
         NEW new, new = DeleteItem(out, e), NEW idx, idx = BucketOf(e)
  PROVE  /\ new \in LoopStates /\ idx \in BucketIds
         /\ BagOf(out.buckets[idx])[e] > 0 =>
              /\ new.flags = out.flags \cup {idx}
              /\ \A b \in BucketIds \ {idx} : new.buckets[b] = out.buckets[b]
              /\ \A i \in Items : BagOf(out.buckets[idx])[i] =
                   BagOf(new.buckets[idx])[i] + (IF i = e THEN 1 ELSE 0)
         /\ ~(BagOf(out.buckets[idx])[e] > 0) => new = out
<1> DEFINE q == out.buckets[idx]
           r == Erase(q, FirstCopy(q, e))
<1>1. idx \in BucketIds /\ out.buckets \in Vectors /\ q \in Seq(Items)
  BY BucketOfType DEF LoopStates, Vectors
<1>2. Holds(q, e) <=> BagOf(q)[e] > 0
  <2> HIDE DEF q
  <2> QED
    BY <1>1, HoldsCounts
<1>3. CASE Holds(q, e)
  <2>1. /\ r \in Seq(Items)
        /\ \A i \in Items : BagOf(q)[i] = BagOf(r)[i] + (IF i = e THEN 1 ELSE 0)
    <3> DEFINE p == FirstCopy(q, e)
    <3> HIDE DEF q
    <3>1. p \in 1 .. Len(q) /\ q[p] = e
      BY <1>1, <1>3, FirstCopyFound
    <3> HIDE DEF p
    <3>2. ASSUME NEW i \in Items
          PROVE  /\ Erase(q, p) \in Seq(Items)
                 /\ BagOf(q)[i] = BagOf(Erase(q, p))[i] + (IF q[p] = i THEN 1 ELSE 0)
      BY <1>1, <3>1, EraseCounts
    <3> QED
      BY <3>1, <3>2 DEF p
  <2>2. new = [buckets |-> [out.buckets EXCEPT ![idx] = r],
               flags |-> out.flags \cup {idx}]
    BY <1>3 DEF DeleteItem
  <2> HIDE DEF r
  <2>3. [out.buckets EXCEPT ![idx] = r] \in Vectors
    BY <1>1, <2>1 DEF Vectors
  <2>4. new \in LoopStates /\ new.flags = out.flags \cup {idx}
        /\ new.buckets = [out.buckets EXCEPT ![idx] = r]
    BY <1>1, <2>2, <2>3 DEF LoopStates
  <2>5. new.buckets[idx] = r /\ \A b \in BucketIds \ {idx} : new.buckets[b] = out.buckets[b]
    BY <1>1, <2>4 DEF Vectors
  <2> QED
    BY <1>1, <1>2, <1>3, <2>1, <2>4, <2>5
<1>4. CASE ~Holds(q, e)
  <2>1. new = out
    BY <1>4 DEF DeleteItem
  <2> QED
    BY <1>1, <1>2, <1>4, <2>1
<1> QED
  BY <1>3, <1>4

(* One addition puts a copy into the item's own bucket and raises its flag. *)
LEMMA AddOne ==
  ASSUME NEW out \in LoopStates, NEW e \in Items,
         NEW new, new = AddItem(out, e), NEW idx, idx = BucketOf(e)
  PROVE  /\ new \in LoopStates /\ idx \in BucketIds
         /\ new.flags = out.flags \cup {idx}
         /\ \A b \in BucketIds \ {idx} : new.buckets[b] = out.buckets[b]
         /\ \A i \in Items : BagOf(new.buckets[idx])[i] =
              BagOf(out.buckets[idx])[i] + (IF i = e THEN 1 ELSE 0)
<1> DEFINE q == out.buckets[idx]
           r == Append(q, e)
<1>1. idx \in BucketIds /\ out.buckets \in Vectors /\ q \in Seq(Items)
  BY BucketOfType DEF LoopStates, Vectors
<1>2. /\ r \in Seq(Items)
      /\ \A i \in Items : BagOf(r)[i] = BagOf(q)[i] + (IF i = e THEN 1 ELSE 0)
  <2> HIDE DEF q
  <2>1. r \in Seq(Items)
    BY <1>1
  <2>2. ASSUME NEW i \in Items
        PROVE  BagOf(r)[i] = BagOf(q)[i] + (IF e = i THEN 1 ELSE 0)
    BY <1>1, AppendCounts
  <2> QED
    BY <2>1, <2>2
<1>3. new = [buckets |-> [out.buckets EXCEPT ![idx] = r],
             flags |-> out.flags \cup {idx}]
  BY DEF AddItem
<1> HIDE DEF r
<1>4. [out.buckets EXCEPT ![idx] = r] \in Vectors
  BY <1>1, <1>2 DEF Vectors
<1>5. new \in LoopStates /\ new.flags = out.flags \cup {idx}
      /\ new.buckets = [out.buckets EXCEPT ![idx] = r]
  BY <1>1, <1>3, <1>4 DEF LoopStates
<1>6. new.buckets[idx] = r /\ \A b \in BucketIds \ {idx} : new.buckets[b] = out.buckets[b]
  BY <1>1, <1>5 DEF Vectors
<1> QED
  BY <1>1, <1>2, <1>5, <1>6

(* What the first k deletions leave of the vectors.  An unflagged bucket   *)
(* is the vector it was, order included.                                   *)
Deleted(out, vectors, del, k) ==
  /\ out \in LoopStates
  /\ \A b \in BucketIds, i \in Items :
       BagOf(out.buckets[b])[i] =
         IF BucketOf(i) = b THEN RemoveUpTo(BagOf(vectors[b])[i], Copies(del, k, i))
                            ELSE BagOf(vectors[b])[i]
  /\ \A b \in BucketIds :
       b \in out.flags <=> \E i \in Items : /\ BucketOf(i) = b
                                            /\ Copies(del, k, i) > 0
                                            /\ BagOf(vectors[b])[i] > 0
  /\ \A b \in BucketIds \ out.flags : out.buckets[b] = vectors[b]

(* What the first k additions make of the state the deletions left. *)
Added(out, deleted, add, k) ==
  /\ out \in LoopStates
  /\ \A b \in BucketIds, i \in Items :
       BagOf(out.buckets[b])[i] =
         BagOf(deleted.buckets[b])[i] + (IF BucketOf(i) = b THEN Copies(add, k, i) ELSE 0)
  /\ \A b \in BucketIds :
       b \in out.flags <=> \/ b \in deleted.flags
                           \/ \E i \in Items : BucketOf(i) = b /\ Copies(add, k, i) > 0
  /\ \A b \in BucketIds \ out.flags : out.buckets[b] = deleted.buckets[b]

(* The counts of a vector are numbers. *)
LEMMA CountsType ==
  ASSUME NEW v \in Vectors, NEW b \in BucketIds, NEW i \in Items
  PROVE  BagOf(v[b])[i] \in Nat
<1>1. v[b] \in Seq(Items)
  BY DEF Vectors
<1> QED
  BY <1>1, BagCounts DEF Bags

(* Before the first deletion nothing has changed. *)
LEMMA DeletedStart ==
  ASSUME NEW vectors \in Vectors, NEW del
  PROVE  Deleted([buckets |-> vectors, flags |-> {}], vectors, del, 0)
<1>1. \A i : Copies(del, 0, i) = 0
  BY CopiesCount
<1>2. \A b \in BucketIds, i \in Items : BagOf(vectors[b])[i] \in Nat
  BY CountsType
<1>3. \A n \in Nat : RemoveUpTo(n, 0) = n
  BY DEF RemoveUpTo
<1> QED
  BY <1>1, <1>2, <1>3 DEF Deleted, LoopStates

(* Before the first addition nothing has changed. *)
LEMMA AddedStart ==
  ASSUME NEW deleted \in LoopStates, NEW add
  PROVE  Added(deleted, deleted, add, 0)
<1>1. \A i : Copies(add, 0, i) = 0
  BY CopiesCount
<1>2. deleted.buckets \in Vectors
  BY DEF LoopStates
<1>3. \A b \in BucketIds, i \in Items : BagOf(deleted.buckets[b])[i] \in Nat
  BY <1>2, CountsType
<1> QED
  BY <1>1, <1>3 DEF Added

(* One more deletion. *)
LEMMA DeletedStep ==
  ASSUME NEW vectors \in Vectors, NEW del, NEW k \in Nat, del[k + 1] \in Items,
         NEW out, Deleted(out, vectors, del, k)
  PROVE  Deleted(DeleteItem(out, del[k + 1]), vectors, del, k + 1)
<1> DEFINE e == del[k + 1]
           idx == BucketOf(e)
           new == DeleteItem(out, e)
           was(b, i) == BagOf(vectors[b])[i]
           left(b, i) == BagOf(out.buckets[b])[i]
           c(i) == Copies(del, k, i)
           d(i) == Copies(del, k + 1, i)
<1>1. /\ out \in LoopStates /\ new \in LoopStates /\ idx \in BucketIds /\ e \in Items
      /\ left(idx, e) > 0 =>
           /\ new.flags = out.flags \cup {idx}
           /\ \A b \in BucketIds \ {idx} : new.buckets[b] = out.buckets[b]
           /\ \A i \in Items : left(idx, i) =
                BagOf(new.buckets[idx])[i] + (IF i = e THEN 1 ELSE 0)
      /\ ~(left(idx, e) > 0) => new = out
  BY DeleteOne DEF Deleted
<1>2. \A i : c(i) \in Nat /\ d(i) = c(i) + (IF e = i THEN 1 ELSE 0)
  BY CopiesCount
<1>3. \A b \in BucketIds, i \in Items :
        /\ was(b, i) \in Nat
        /\ left(b, i) = IF BucketOf(i) = b THEN RemoveUpTo(was(b, i), c(i)) ELSE was(b, i)
  BY CountsType DEF Deleted
<1>4. /\ \A b \in BucketIds :
           b \in out.flags <=> \E i \in Items : BucketOf(i) = b /\ c(i) > 0 /\ was(b, i) > 0
      /\ \A b \in BucketIds \ out.flags : out.buckets[b] = vectors[b]
  BY DEF Deleted
<1>5. \A b \in BucketIds, i \in Items : BagOf(new.buckets[b])[i] \in Nat
  BY <1>1, CountsType DEF LoopStates
<1>6. BucketOf(e) = idx
  OBVIOUS
<1>7. SUFFICES
        /\ \A b \in BucketIds, i \in Items :
             BagOf(new.buckets[b])[i] =
               IF BucketOf(i) = b THEN RemoveUpTo(was(b, i), d(i)) ELSE was(b, i)
        /\ \A b \in BucketIds :
             b \in new.flags <=>
               \E i \in Items : BucketOf(i) = b /\ d(i) > 0 /\ was(b, i) > 0
        /\ \A b \in BucketIds \ new.flags : new.buckets[b] = vectors[b]
  BY <1>1 DEF Deleted
<1> HIDE DEF e, idx, new, was, c, d
<1>8. CASE left(idx, e) > 0
  <2>1. was(idx, e) > c(e)
    BY <1>1, <1>2, <1>3, <1>6, <1>8 DEF RemoveUpTo
  <2>2. ASSUME NEW b \in BucketIds, NEW i \in Items
        PROVE  BagOf(new.buckets[b])[i] =
                 IF BucketOf(i) = b THEN RemoveUpTo(was(b, i), d(i)) ELSE was(b, i)
    <3>1. CASE b = idx /\ i = e
      <4>1. left(b, i) = BagOf(new.buckets[b])[i] + 1
        BY <1>1, <1>8, <3>1
      <4>2. d(i) = c(i) + 1 /\ c(i) \in Nat /\ was(b, i) \in Nat /\ was(b, i) > c(i)
        BY <1>2, <1>3, <2>1, <3>1
      <4>3. BagOf(new.buckets[b])[i] \in Nat /\ BucketOf(i) = b
        BY <1>5, <1>6, <3>1
      <4>4. left(b, i) = was(b, i) - c(i)
        BY <1>3, <4>2, <4>3 DEF RemoveUpTo
      <4> HIDE DEF left
      <4> QED
        BY <4>1, <4>2, <4>3, <4>4 DEF RemoveUpTo
    <3>2. CASE b = idx /\ i # e
      <4>1. left(b, i) = BagOf(new.buckets[b])[i]
        BY <1>1, <1>5, <1>8, <3>2
      <4>2. d(i) = c(i)
        BY <1>2, <3>2
      <4> QED
        BY <1>3, <4>1, <4>2
    <3>3. CASE b # idx
      <4>1. left(b, i) = BagOf(new.buckets[b])[i]
        BY <1>1, <1>8, <3>3
      <4>2. BucketOf(i) = b => d(i) = c(i)
        BY <1>2, <1>6, <3>3
      <4> QED
        BY <1>3, <4>1, <4>2
    <3> QED
      BY <3>1, <3>2, <3>3
  <2>3. ASSUME NEW b \in BucketIds
        PROVE  b \in new.flags <=>
                 \E i \in Items : BucketOf(i) = b /\ d(i) > 0 /\ was(b, i) > 0
    <3>1. CASE b = idx
      <4>1. d(e) > 0 /\ was(b, e) > 0
        BY <1>1, <1>2, <1>3, <2>1, <3>1
      <4> QED
        BY <1>1, <1>6, <1>8, <3>1, <4>1
    <3>2. CASE b # idx
      <4>1. \A i \in Items : BucketOf(i) = b => d(i) = c(i)
        BY <1>2, <1>6, <3>2
      <4> QED
        BY <1>1, <1>4, <1>8, <3>2, <4>1
    <3> QED
      BY <3>1, <3>2
  <2> QED
    BY <1>1, <1>4, <1>8, <2>2, <2>3
<1>9. CASE ~(left(idx, e) > 0)
  <2>1. was(idx, e) <= c(e)
    BY <1>1, <1>2, <1>3, <1>6, <1>9 DEF RemoveUpTo
  <2>2. ASSUME NEW b \in BucketIds, NEW i \in Items, BucketOf(i) = b
        PROVE  /\ RemoveUpTo(was(b, i), d(i)) = RemoveUpTo(was(b, i), c(i))
               /\ was(b, i) > 0 => (d(i) > 0 <=> c(i) > 0)
    <3>1. CASE i = e
      <4>1. b = idx
        BY <1>6, <2>2, <3>1
      <4>2. d(i) = c(i) + 1 /\ c(i) \in Nat /\ was(b, i) \in Nat /\ was(b, i) <= c(i)
        BY <1>2, <1>3, <2>1, <3>1, <4>1
      <4> QED
        BY <4>2 DEF RemoveUpTo
    <3>2. CASE i # e
      <4>1. d(i) = c(i)
        BY <1>2, <3>2
      <4> QED
        BY <4>1
    <3> QED
      BY <3>1, <3>2
  <2> QED
    BY <1>1, <1>3, <1>4, <1>9, <2>2
<1> QED
  BY <1>8, <1>9

(* One more addition. *)
LEMMA AddedStep ==
  ASSUME NEW deleted \in LoopStates, NEW add, NEW k \in Nat, add[k + 1] \in Items,
         NEW out, Added(out, deleted, add, k)
  PROVE  Added(AddItem(out, add[k + 1]), deleted, add, k + 1)
<1> DEFINE e == add[k + 1]
           idx == BucketOf(e)
           new == AddItem(out, e)
           was(b, i) == BagOf(deleted.buckets[b])[i]
           c(i) == Copies(add, k, i)
           d(i) == Copies(add, k + 1, i)
<1>1. /\ out \in LoopStates /\ new \in LoopStates /\ idx \in BucketIds /\ e \in Items
      /\ new.flags = out.flags \cup {idx}
      /\ \A b \in BucketIds \ {idx} : new.buckets[b] = out.buckets[b]
      /\ \A i \in Items : BagOf(new.buckets[idx])[i] =
           BagOf(out.buckets[idx])[i] + (IF i = e THEN 1 ELSE 0)
  BY AddOne, SMTT(30) DEF Added
<1>2. \A i : c(i) \in Nat /\ d(i) = c(i) + (IF e = i THEN 1 ELSE 0)
  BY CopiesCount
<1>3. \A b \in BucketIds, i \in Items :
        /\ was(b, i) \in Nat
        /\ BagOf(out.buckets[b])[i] = was(b, i) + (IF BucketOf(i) = b THEN c(i) ELSE 0)
  BY CountsType DEF Added, LoopStates
<1>4. /\ \A b \in BucketIds :
           b \in out.flags <=>
             b \in deleted.flags \/ \E i \in Items : BucketOf(i) = b /\ c(i) > 0
      /\ \A b \in BucketIds \ out.flags : out.buckets[b] = deleted.buckets[b]
  BY DEF Added
<1>5. BucketOf(e) = idx
  OBVIOUS
<1>6. SUFFICES
        /\ \A b \in BucketIds, i \in Items :
             BagOf(new.buckets[b])[i] = was(b, i) + (IF BucketOf(i) = b THEN d(i) ELSE 0)
        /\ \A b \in BucketIds :
             b \in new.flags <=>
               b \in deleted.flags \/ \E i \in Items : BucketOf(i) = b /\ d(i) > 0
        /\ \A b \in BucketIds \ new.flags : new.buckets[b] = deleted.buckets[b]
  BY <1>1 DEF Added
<1> HIDE DEF e, idx, new, was, c, d
<1>7. ASSUME NEW b \in BucketIds, NEW i \in Items
      PROVE  BagOf(new.buckets[b])[i] = was(b, i) + (IF BucketOf(i) = b THEN d(i) ELSE 0)
  <2>1. CASE b = idx
    <3>1. /\ BagOf(new.buckets[b])[i] = BagOf(out.buckets[b])[i] + (IF i = e THEN 1 ELSE 0)
          /\ i = e => BucketOf(i) = b
      BY <1>1, <1>5, <2>1
    <3>2. /\ was(b, i) \in Nat /\ c(i) \in Nat
          /\ BagOf(out.buckets[b])[i] = was(b, i) + (IF BucketOf(i) = b THEN c(i) ELSE 0)
          /\ d(i) = c(i) + (IF e = i THEN 1 ELSE 0)
      BY <1>2, <1>3
    <3> QED
      BY <3>1, <3>2
  <2>2. CASE b # idx
    <3>1. BagOf(new.buckets[b])[i] = BagOf(out.buckets[b])[i]
      BY <1>1, <2>2
    <3>2. BucketOf(i) = b => d(i) = c(i)
      BY <1>2, <1>5, <2>2
    <3> QED
      BY <1>3, <3>1, <3>2
  <2> QED
    BY <2>1, <2>2
<1>8. ASSUME NEW b \in BucketIds
      PROVE  b \in new.flags <=>
               b \in deleted.flags \/ \E i \in Items : BucketOf(i) = b /\ d(i) > 0
  <2>1. CASE b = idx
    <3>1. d(e) > 0
      BY <1>2
    <3> QED
      BY <1>1, <1>5, <2>1, <3>1
  <2>2. CASE b # idx
    <3>1. \A i \in Items : BucketOf(i) = b => d(i) = c(i)
      BY <1>2, <1>5, <2>2
    <3> QED
      BY <1>1, <1>4, <2>2, <3>1
  <2> QED
    BY <2>1, <2>2
<1> QED
  BY <1>1, <1>4, <1>7, <1>8

(* The first loop of ApplyBucketDelta. *)
LEMMA DeleteLoop ==
  ASSUME NEW vectors \in Vectors, NEW del \in Seq(Items)
  PROVE  Deleted(Deletions(vectors, del), vectors, del, Len(del))
<1> DEFINE n == Len(del)
           start == [buckets |-> vectors, flags |-> {}]
           IsLoop(f) == f = [k \in 0 .. n |->
             IF k = 0 THEN [buckets |-> vectors, flags |-> {}]
             ELSE DeleteItem(f[k - 1], del[k])]
           f == CHOOSE f : IsLoop(f)
<1>1. n \in Nat /\ \A k \in 1 .. n : del[k] \in Items
  OBVIOUS
<1>2. Deletions(vectors, del) = f[n]
  BY DEF Deletions
<1>3. start \in LoopStates
  BY DEF LoopStates
<1>4. \E g : IsLoop(g)
  <2> DEFINE step == [p \in LoopStates \X (1 .. n) |-> DeleteItem(p[1], del[p[2]])]
  <2>1. ASSUME NEW v \in LoopStates, NEW k \in 1 .. n
        PROVE  /\ DeleteItem(v, del[k]) \in LoopStates
               /\ step[<<v, k>>] = DeleteItem(v, del[k])
    <3>1. DeleteItem(v, del[k]) \in LoopStates
      BY <1>1, DeleteOne
    <3> QED
      BY <3>1
  <2>2. Keeps(step, LoopStates, n)
    BY <2>1 DEF Keeps
  <2> HIDE DEF step, start, n
  <2>3. PICK s : IsRun(s, LoopStates, start, n, step)
    BY <1>1, <1>3, <2>2, LoopRuns
  <2>4. ASSUME NEW k \in 0 .. n
        PROVE  s[k] = IF k = 0 THEN [buckets |-> vectors, flags |-> {}]
                      ELSE DeleteItem(s[k - 1], del[k])
    <3>1. CASE k = 0
      BY <2>3, <3>1 DEF IsRun, start
    <3>2. CASE k # 0
      <4>1. k \in 1 .. n /\ s[k - 1] \in LoopStates
        BY <1>1, <2>3, <3>2 DEF IsRun
      <4> QED
        BY <2>1, <2>3, <3>2, <4>1 DEF IsRun
    <3> QED
      BY <3>1, <3>2
  <2>5. IsLoop(s)
    BY <2>3, <2>4 DEF IsRun
  <2> QED
    BY <2>5
<1>5. IsLoop(f)
  <2> HIDE DEF IsLoop
  <2> QED
    BY <1>4
<1> HIDE DEF f
<1>6. f[0] = start
  BY <1>1, <1>5
<1>7. ASSUME NEW k \in 1 .. n
      PROVE  f[k] = DeleteItem(f[k - 1], del[k])
  <2>1. k \in 0 .. n /\ k # 0
    BY <1>1
  <2> HIDE DEF n
  <2> QED
    BY <1>5, <2>1, Zenon
<1> DEFINE S == {k \in Nat : k <= n => Deleted(f[k], vectors, del, k)}
<1>8. 0 \in S
  <2>1. Deleted(start, vectors, del, 0)
    BY DeletedStart
  <2> HIDE DEF start, IsLoop, n
  <2> QED
    BY <1>6, <2>1
<1> HIDE DEF n, IsLoop, start
<1>9. ASSUME NEW k \in Nat, k \in S
      PROVE  k + 1 \in S
  <2> SUFFICES ASSUME k + 1 <= n PROVE Deleted(f[k + 1], vectors, del, k + 1)
    OBVIOUS
  <2>1. k + 1 \in 1 .. n /\ (k + 1) - 1 = k /\ k <= n
    BY <1>1
  <2>2. Deleted(f[k], vectors, del, k) /\ del[k + 1] \in Items
    BY <1>1, <1>9, <2>1
  <2>3. f[k + 1] = DeleteItem(f[k], del[k + 1])
    BY <1>7, <2>1
  <2> HIDE DEF S
  <2> QED
    BY <2>2, <2>3, DeletedStep
<1>10. n \in S
  <2> HIDE DEF S
  <2> QED
    BY <1>1, <1>8, <1>9, CountUp
<1> QED
  BY <1>1, <1>2, <1>10 DEF n

(* The second loop of ApplyBucketDelta. *)
LEMMA AddLoop ==
  ASSUME NEW deleted \in LoopStates, NEW add \in Seq(Items)
  PROVE  Added(Additions(deleted, add), deleted, add, Len(add))
<1> DEFINE n == Len(add)
           start == deleted
           IsLoop(f) == f = [k \in 0 .. n |->
             IF k = 0 THEN deleted
             ELSE AddItem(f[k - 1], add[k])]
           f == CHOOSE f : IsLoop(f)
<1>1. n \in Nat /\ \A k \in 1 .. n : add[k] \in Items
  OBVIOUS
<1>2. Additions(deleted, add) = f[n]
  BY DEF Additions
<1>3. start \in LoopStates
  BY DEF LoopStates
<1>4. \E g : IsLoop(g)
  <2> DEFINE step == [p \in LoopStates \X (1 .. n) |-> AddItem(p[1], add[p[2]])]
  <2>1. ASSUME NEW v \in LoopStates, NEW k \in 1 .. n
        PROVE  /\ AddItem(v, add[k]) \in LoopStates
               /\ step[<<v, k>>] = AddItem(v, add[k])
    <3>1. AddItem(v, add[k]) \in LoopStates
      BY <1>1, AddOne
    <3> QED
      BY <3>1
  <2>2. Keeps(step, LoopStates, n)
    BY <2>1 DEF Keeps
  <2> HIDE DEF step, start, n
  <2>3. PICK s : IsRun(s, LoopStates, start, n, step)
    BY <1>1, <1>3, <2>2, LoopRuns
  <2>4. ASSUME NEW k \in 0 .. n
        PROVE  s[k] = IF k = 0 THEN deleted
                      ELSE AddItem(s[k - 1], add[k])
    <3>1. CASE k = 0
      BY <2>3, <3>1 DEF IsRun, start
    <3>2. CASE k # 0
      <4>1. k \in 1 .. n /\ s[k - 1] \in LoopStates
        BY <1>1, <2>3, <3>2 DEF IsRun
      <4> QED
        BY <2>1, <2>3, <3>2, <4>1 DEF IsRun
    <3> QED
      BY <3>1, <3>2
  <2>5. IsLoop(s)
    BY <2>3, <2>4 DEF IsRun
  <2> QED
    BY <2>5
<1>5. IsLoop(f)
  <2> HIDE DEF IsLoop
  <2> QED
    BY <1>4
<1> HIDE DEF f
<1>6. f[0] = start
  BY <1>1, <1>5
<1>7. ASSUME NEW k \in 1 .. n
      PROVE  f[k] = AddItem(f[k - 1], add[k])
  <2>1. k \in 0 .. n /\ k # 0
    BY <1>1
  <2> HIDE DEF n
  <2> QED
    BY <1>5, <2>1, Zenon
<1> DEFINE S == {k \in Nat : k <= n => Added(f[k], deleted, add, k)}
<1>8. 0 \in S
  <2>1. Added(start, deleted, add, 0)
    BY AddedStart
  <2> HIDE DEF start, IsLoop, n
  <2> QED
    BY <1>6, <2>1
<1> HIDE DEF n, IsLoop, start
<1>9. ASSUME NEW k \in Nat, k \in S
      PROVE  k + 1 \in S
  <2> SUFFICES ASSUME k + 1 <= n PROVE Added(f[k + 1], deleted, add, k + 1)
    OBVIOUS
  <2>1. k + 1 \in 1 .. n /\ (k + 1) - 1 = k /\ k <= n
    BY <1>1
  <2>2. Added(f[k], deleted, add, k) /\ add[k + 1] \in Items
    BY <1>1, <1>9, <2>1
  <2>3. f[k + 1] = AddItem(f[k], add[k + 1])
    BY <1>7, <2>1
  <2> HIDE DEF S
  <2> QED
    BY <2>2, <2>3, AddedStep
<1>10. n \in S
  <2> HIDE DEF S
  <2> QED
    BY <1>1, <1>8, <1>9, CountUp
<1> QED
  BY <1>1, <1>2, <1>10 DEF n

(* For every vector the buckets can be built from, and every delta, the    *)
(* loops of upsi_bucket.cpp over vectors leave the bags and the flags of   *)
(* the closed forms, and an unflagged bucket exactly as it was.            *)
THEOREM LoopsAlwaysMatch == Spec => []LoopsMatchClosedForms
<1>1. LoopsMatchClosedForms
  <2> SUFFICES ASSUME NEW list \in YLists, BuildBuckets(BagOf(list)) = yb,
                      NEW add \in DeltaLists, NEW del \in DeltaLists
               PROVE  LET vectors == BuildVectors(list)
                          out == DeltaLoops(vectors, add, del)
                      IN /\ [b \in BucketIds |-> BagOf(out.buckets[b])] =
                              ApplyBucketDelta(yb, BagOf(add), BagOf(del))
                         /\ out.flags = ChangedFlags(yb, BagOf(add), BagOf(del))
                         /\ \A b \in BucketIds \ out.flags : out.buckets[b] = vectors[b]
    BY DEF LoopsMatchClosedForms
  <2> DEFINE vectors == BuildVectors(list)
             out == DeltaLoops(vectors, add, del)
  <2> DEFINE mid == Deletions(vectors, del)
             a(i) == BagOf(add)[i]
             d(i) == BagOf(del)[i]
  <2>1. /\ list \in Seq(Items) /\ add \in Seq(Items) /\ del \in Seq(Items)
    BY ListAssumption
  <2>2. /\ vectors \in Vectors
        /\ \A b \in BucketIds, i \in Items : BagOf(vectors[b])[i] = yb[b][i]
    BY <2>1, BuildLoop
  <2>3. \A i \in Items : /\ a(i) = Copies(add, Len(add), i) /\ a(i) \in Nat
                         /\ d(i) = Copies(del, Len(del), i) /\ d(i) \in Nat
    BY <2>1, BagCounts DEF Bags
  <2>4. Deleted(mid, vectors, del, Len(del))
    BY <2>1, <2>2, DeleteLoop
  <2>5. mid \in LoopStates
    BY <2>4 DEF Deleted
  <2>6. Added(out, mid, add, Len(add))
    BY <2>1, <2>5, AddLoop DEF DeltaLoops
  <2> HIDE DEF vectors, out, mid, a, d
  <2>7. \A b \in BucketIds, i \in Items :
          BagOf(mid.buckets[b])[i] =
            IF BucketOf(i) = b THEN RemoveUpTo(yb[b][i], d(i)) ELSE yb[b][i]
    <3> SUFFICES ASSUME NEW b \in BucketIds, NEW i \in Items
                 PROVE  BagOf(mid.buckets[b])[i] =
                          IF BucketOf(i) = b THEN RemoveUpTo(yb[b][i], d(i)) ELSE yb[b][i]
      OBVIOUS
    <3>1. BagOf(mid.buckets[b])[i] =
            IF BucketOf(i) = b
              THEN RemoveUpTo(BagOf(vectors[b])[i], Copies(del, Len(del), i))
              ELSE BagOf(vectors[b])[i]
      BY <2>4 DEF Deleted
    <3>2. BagOf(vectors[b])[i] = yb[b][i] /\ d(i) = Copies(del, Len(del), i)
      BY <2>2, <2>3
    <3> QED
      BY <3>1, <3>2
  <2>8. \A b \in BucketIds, i \in Items :
          BagOf(out.buckets[b])[i] =
            BagOf(mid.buckets[b])[i] + (IF BucketOf(i) = b THEN a(i) ELSE 0)
    BY <2>3, <2>6 DEF Added
  <2>9. out.buckets \in Vectors /\ mid.buckets \in Vectors
    BY <2>5, <2>6 DEF Added, LoopStates
  <2>10. \A b \in BucketIds, i \in Items :
           BagOf(out.buckets[b])[i] =
             IF BucketOf(i) = b THEN RemoveUpTo(yb[b][i], d(i)) + a(i) ELSE yb[b][i]
    <3> SUFFICES ASSUME NEW b \in BucketIds, NEW i \in Items
                 PROVE  BagOf(out.buckets[b])[i] =
                          IF BucketOf(i) = b THEN RemoveUpTo(yb[b][i], d(i)) + a(i)
                                             ELSE yb[b][i]
      OBVIOUS
    <3>1. BagOf(mid.buckets[b])[i] \in Nat
      BY <2>9, CountsType
    <3> QED
      BY <2>7, <2>8, <3>1
  <2>11. [b \in BucketIds |-> BagOf(out.buckets[b])] =
           ApplyBucketDelta(yb, BagOf(add), BagOf(del))
    <3>1. \A b \in BucketIds :
            BagOf(out.buckets[b]) = [i \in Items |-> BagOf(out.buckets[b])[i]]
      BY DEF BagOf
    <3>2. \A b \in BucketIds :
            BagOf(out.buckets[b]) =
              [i \in Items |->
                 IF BucketOf(i) = b THEN RemoveUpTo(yb[b][i], d(i)) + a(i) ELSE yb[b][i]]
      BY <2>10, <3>1
    <3> QED
      BY <3>2 DEF ApplyBucketDelta, a, d
  <2>12. ASSUME NEW b \in BucketIds
         PROVE  b \in out.flags <=>
                  \E i \in Items : /\ BucketOf(i) = b
                                   /\ a(i) > 0 \/ (d(i) > 0 /\ yb[b][i] > 0)
    <3>1. b \in mid.flags <=>
            \E i \in Items : BucketOf(i) = b /\ d(i) > 0 /\ yb[b][i] > 0
      BY <2>2, <2>3, <2>4 DEF Deleted
    <3>2. b \in out.flags <=>
            b \in mid.flags \/ \E i \in Items : BucketOf(i) = b /\ a(i) > 0
      BY <2>3, <2>6 DEF Added
    <3> QED
      BY <3>1, <3>2
  <2>13. out.flags = ChangedFlags(yb, BagOf(add), BagOf(del))
    <3>1. out.flags \subseteq BucketIds
      BY <2>6 DEF Added, LoopStates
    <3> QED
      BY <2>12, <3>1 DEF ChangedFlags, a, d
  <2>14. ASSUME NEW b \in BucketIds \ out.flags
         PROVE  out.buckets[b] = vectors[b]
    <3>1. out.buckets[b] = mid.buckets[b] /\ b \notin mid.flags
      BY <2>6 DEF Added
    <3> QED
      BY <2>4, <3>1 DEF Deleted
  <2> QED
    BY <2>11, <2>13, <2>14 DEF vectors, out
<1> QED
  BY <1>1, PTL

=============================================================================
