-------------------------- MODULE BatchEvaluation --------------------------
(***************************************************************************)
(* Evaluating a batch of buckets, the part RunInitialRoundWithStats and    *)
(* RunUpdateRoundWithStats share: RELIC is initialised, every queued       *)
(* bucket goes through EvalBucketIntersectionNoInit, RELIC is cleaned.     *)
(* One thread does it in a loop, or a pool of std::threads claims queue    *)
(* positions from an atomic counter and leaves its results in per-bucket   *)
(* slots which the caller merges after joining the pool.                   *)
(*                                                                         *)
(* `failed' is accessed with memory_order_relaxed: a worker sees its own   *)
(* store, but may miss another worker's for any time.  failedBy is the set *)
(* of workers that stored it.  Because a stale read is always possible,    *)
(* reading the flag and claiming a position, or filling a result slot and  *)
(* raising the flag, are one step each without losing a behaviour.  The    *)
(* join makes every store visible to the caller.                           *)
(***************************************************************************)
EXTENDS UpsiBuckets, Sequences, FiniteSets

CONSTANTS
  Threads,           (* InitialRoundConfig.bucket_parallel_threads         *)
  PerThreadContext,  (* RELIC built with MULTI: its core context is        *)
                     (* thread-local; otherwise the process shares one     *)
  MaxFaults          (* bound on the environment faults of one call        *)

ASSUME BatchAssumption ==
  /\ Threads \in Nat
  /\ PerThreadContext \in BOOLEAN
  /\ MaxFaults \in Nat

VARIABLES
  xb, yb,    (* the two sides' buckets                                     *)
  queue,     (* bucket indices to evaluate, ascending                      *)
  next,      (* positions of the queue taken so far                        *)
  acc,       (* intersection under construction, as a set                  *)
  results,   (* per bucket: BucketTaskResult                               *)
  failedBy,  (* workers that have set `failed'                             *)
  ok,        (* what the evaluation returns                                *)
  pc,        (* per thread: where it is                                    *)
  at,        (* per worker: the queue position it evaluates, or 0          *)
  relicUp,   (* per context: core_init has been done                       *)
  faults     (* environment faults in this call                            *)

buckets == <<xb, yb>>
batch == <<queue, next, acc, results, failedBy, ok, pc, at, relicUp, faults>>

----------------------------------------------------------------------------
WorkerThreads == IF Threads = 0 THEN 1 ELSE Threads
Main == 0
Workers == 1 .. WorkerThreads
Procs == {Main} \cup Workers

Context(t) == IF PerThreadContext THEN t ELSE Main

Positions == 1 .. Len(queue)

(* The ascending enumeration of a set of buckets. *)
Enumerations(S) ==
  {q \in [1 .. Cardinality(S) -> S] :
     /\ \A i, j \in 1 .. Cardinality(S) : i < j => q[i] < q[j]
     /\ \A b \in S : \E i \in 1 .. Cardinality(S) : q[i] = b}

NoResult == [attempted |-> FALSE, ok |-> FALSE, matched |-> {}]
Results == [attempted : BOOLEAN, ok : BOOLEAN, matched : SUBSET Items]

(* One environment fault: no memory for the bridge context, RELIC refuses  *)
(* to start, or the rows of a bucket stay dependent in every OKVS attempt. *)
Fault == /\ faults < MaxFaults
         /\ faults' = faults + 1

----------------------------------------------------------------------------
(* What EvalBucketIntersectionNoInit does with bucket b, seen from outside *)
(* (module BucketEval shows that it keeps this contract, given that all    *)
(* real keys of a bucket are checked, as in every caller's configuration). *)
Contract == INSTANCE BucketContract

EmptySide(b) == Contract!EmptySide(xb[b], yb[b])
DuplicateKey(b) == Contract!DuplicateKey(yb[b])
Matches(b) == Contract!Matches(xb[b], yb[b])

EvalSucceeds(b) == EmptySide(b) \/ ~DuplicateKey(b)

EvalFails(b) ==
  /\ ~EmptySide(b)
  /\ IF DuplicateKey(b) THEN UNCHANGED faults ELSE Fault

----------------------------------------------------------------------------
(* Entry: the empty queue returns at once; one thread or one bucket takes  *)
(* the loop; anything else a pool of min(worker_threads, queue) threads.   *)
Begin(q, base) ==
  /\ pc[Main] = "idle"
  /\ queue' = q
  /\ acc' = base
  /\ next' = 0
  /\ results' = [b \in BucketIds |-> NoResult]
  /\ failedBy' = {}
  /\ ok' = TRUE
  /\ faults' = 0
  /\ pc' = [t \in Procs |->
             IF t = Main
               THEN IF Len(q) = 0 THEN "return"
                    ELSE IF WorkerThreads = 1 \/ Len(q) <= 1 THEN "init"
                    ELSE "join"
               ELSE IF WorkerThreads > 1 /\ Len(q) > 1 /\ t <= Len(q)
                    THEN "init" ELSE "off"]
  /\ UNCHANGED <<at, relicUp>>

----------------------------------------------------------------------------
(* The sequential loop. *)

SeqInit ==
  /\ pc[Main] = "init"
  /\ relicUp' = [relicUp EXCEPT ![Context(Main)] = TRUE]
  /\ pc' = [pc EXCEPT ![Main] = "eval"]
  /\ UNCHANGED <<buckets, queue, next, acc, results, failedBy, ok, at, faults>>

(* upsi_relic_global_init cleans up after pc_param_set_any fails. *)
SeqInitFails ==
  /\ pc[Main] = "init"
  /\ Fault
  /\ ok' = FALSE
  /\ relicUp' = [relicUp EXCEPT ![Context(Main)] = FALSE]
  /\ pc' = [pc EXCEPT ![Main] = "return"]
  /\ UNCHANGED <<buckets, queue, next, acc, results, failedBy, at>>

SeqEval ==
  /\ pc[Main] = "eval"
  /\ next < Len(queue)
  /\ EvalSucceeds(queue[next + 1])
  /\ acc' = acc \cup Matches(queue[next + 1])
  /\ next' = next + 1
  /\ UNCHANGED <<buckets, queue, results, failedBy, ok, pc, at, relicUp, faults>>

(* Mutant: a failed bucket is tried again. *)
SeqEvalRetries ==
  /\ pc[Main] = "eval"
  /\ next < Len(queue)
  /\ EvalFails(queue[next + 1])
  /\ UNCHANGED <<buckets, queue, next, acc, results, failedBy, ok, pc, at,
                 relicUp>>

SeqEvalFails ==
  /\ pc[Main] = "eval"
  /\ next < Len(queue)
  /\ EvalFails(queue[next + 1])
  /\ ok' = FALSE
  /\ pc' = [pc EXCEPT ![Main] = "clean"]
  /\ UNCHANGED <<buckets, queue, next, acc, results, failedBy, at, relicUp>>

SeqDone ==
  /\ pc[Main] = "eval"
  /\ next = Len(queue)
  /\ pc' = [pc EXCEPT ![Main] = "clean"]
  /\ UNCHANGED <<buckets, queue, next, acc, results, failedBy, ok, at, relicUp,
                 faults>>

SeqClean ==
  /\ pc[Main] = "clean"
  /\ relicUp' = [relicUp EXCEPT ![Context(Main)] = FALSE]
  /\ pc' = [pc EXCEPT ![Main] = "return"]
  /\ UNCHANGED <<buckets, queue, next, acc, results, failedBy, ok, at, faults>>

Sequential == SeqInit \/ SeqInitFails \/ SeqEval \/ SeqEvalFails \/ SeqDone
              \/ SeqClean

----------------------------------------------------------------------------
(* The pool.  A worker's own failure is visible to it; another worker's    *)
(* may or may not be.                                                      *)

WorkerInit(w) ==
  /\ pc[w] = "init"
  /\ relicUp' = [relicUp EXCEPT ![Context(w)] = TRUE]
  /\ pc' = [pc EXCEPT ![w] = "claim"]
  /\ UNCHANGED <<buckets, queue, next, acc, results, failedBy, ok, at, faults>>

(* Mutant: the outcome of upsi_relic_global_init is not looked at. *)
WorkerInitIgnored(w) ==
  /\ pc[w] = "init"
  /\ Fault
  /\ pc' = [pc EXCEPT ![w] = "claim"]
  /\ UNCHANGED <<buckets, queue, next, acc, results, failedBy, ok, at, relicUp>>

(* core_init fails and leaves the context alone, or pc_param_set_any fails *)
(* and the context is torn down; the worker returns without cleaning.      *)
WorkerInitFails(w) ==
  /\ pc[w] = "init"
  /\ Fault
  /\ failedBy' = failedBy \cup {w}
  /\ relicUp' \in {relicUp, [relicUp EXCEPT ![Context(w)] = FALSE]}
  /\ pc' = [pc EXCEPT ![w] = "done"]
  /\ UNCHANGED <<buckets, queue, next, acc, results, ok, at>>

(* Mutant: the position is read without being taken. *)
ClaimWithoutIncrement(w) ==
  /\ pc[w] = "claim"
  /\ w \notin failedBy
  /\ next < Len(queue)
  /\ next' \in {next, next + 1}
  /\ at' = [at EXCEPT ![w] = next + 1]
  /\ pc' = [pc EXCEPT ![w] = "eval"]
  /\ UNCHANGED <<buckets, queue, acc, results, failedBy, ok, relicUp, faults>>

(* `failed' reads false and next.fetch_add hands out a position. *)
Claim(w) ==
  /\ pc[w] = "claim"
  /\ w \notin failedBy
  /\ next < Len(queue)
  /\ next' = next + 1
  /\ at' = [at EXCEPT ![w] = next + 1]
  /\ pc' = [pc EXCEPT ![w] = "eval"]
  /\ UNCHANGED <<buckets, queue, acc, results, failedBy, ok, relicUp, faults>>

(* `failed' reads false and the queue is exhausted. *)
ClaimNothing(w) ==
  /\ pc[w] = "claim"
  /\ w \notin failedBy
  /\ next >= Len(queue)
  /\ next' = next + 1
  /\ pc' = [pc EXCEPT ![w] = "clean"]
  /\ UNCHANGED <<buckets, queue, acc, results, failedBy, ok, at, relicUp, faults>>

(* Mutant: a worker may give up although nobody has failed. *)
StopEarly(w) ==
  /\ pc[w] = "claim"
  /\ pc' = [pc EXCEPT ![w] = "clean"]
  /\ UNCHANGED <<buckets, queue, next, acc, results, failedBy, ok, at, relicUp,
                 faults>>

(* `failed' reads true. *)
Stop(w) ==
  /\ pc[w] = "claim"
  /\ failedBy # {}
  /\ pc' = [pc EXCEPT ![w] = "clean"]
  /\ UNCHANGED <<buckets, queue, next, acc, results, failedBy, ok, at, relicUp,
                 faults>>

Eval(w) ==
  /\ pc[w] = "eval"
  /\ EvalSucceeds(queue[at[w]])
  /\ results' = [results EXCEPT ![queue[at[w]]] =
        [attempted |-> TRUE, ok |-> TRUE, matched |-> Matches(queue[at[w]])]]
  /\ pc' = [pc EXCEPT ![w] = "claim"]
  /\ at' = [at EXCEPT ![w] = 0]
  /\ UNCHANGED <<buckets, queue, next, acc, failedBy, ok, relicUp, faults>>

(* Mutant: the worker tries a failed bucket again. *)
EvalRetries(w) ==
  /\ pc[w] = "eval"
  /\ EvalFails(queue[at[w]])
  /\ UNCHANGED <<buckets, queue, next, acc, results, failedBy, ok, pc, at, relicUp>>

EvalFailsIn(w) ==
  /\ pc[w] = "eval"
  /\ EvalFails(queue[at[w]])
  /\ results' = [results EXCEPT ![queue[at[w]]] =
        [attempted |-> TRUE, ok |-> FALSE, matched |-> {}]]
  /\ failedBy' = failedBy \cup {w}
  /\ pc' = [pc EXCEPT ![w] = "claim"]
  /\ at' = [at EXCEPT ![w] = 0]
  /\ UNCHANGED <<buckets, queue, next, acc, ok, relicUp>>

(* Mutant: the worker leaves RELIC initialised. *)
WorkerLeaves(w) ==
  /\ pc[w] = "clean"
  /\ pc' = [pc EXCEPT ![w] = "done"]
  /\ UNCHANGED <<buckets, queue, next, acc, results, failedBy, ok, at, relicUp,
                 faults>>

WorkerClean(w) ==
  /\ pc[w] = "clean"
  /\ relicUp' = [relicUp EXCEPT ![Context(w)] = FALSE]
  /\ pc' = [pc EXCEPT ![w] = "done"]
  /\ UNCHANGED <<buckets, queue, next, acc, results, failedBy, ok, at, faults>>

Worker(w) ==
  \/ WorkerInit(w) \/ WorkerInitFails(w)
  \/ Claim(w) \/ ClaimNothing(w) \/ Stop(w)
  \/ Eval(w) \/ EvalFailsIn(w)
  \/ WorkerClean(w)

(* The positions the merge loop passes before it meets a slot that was     *)
(* never filled or reports a failure.                                      *)
Mergeable ==
  {k \in Positions : \A j \in 1 .. k :
     results[queue[j]].attempted /\ results[queue[j]].ok}

(* Mutant: the caller merges without waiting for the last thread. *)
JoinFirst ==
  /\ pc[Main] = "join"
  /\ \E w \in Workers : pc[w] = "done"
  /\ ok' = (failedBy = {})
  /\ acc' = acc \cup UNION {results[queue[k]].matched : k \in Positions}
  /\ pc' = [t \in Procs |-> IF t = Main THEN "return" ELSE "off"]
  /\ at' = [w \in Workers |-> 0]
  /\ UNCHANGED <<buckets, queue, next, results, failedBy, relicUp, faults>>

(* Every thread joined; then `failed', then the slots in queue order. *)
Join ==
  /\ pc[Main] = "join"
  /\ \A w \in Workers : pc[w] \in {"done", "off"}
  /\ ok' = (failedBy = {} /\ Mergeable = Positions)
  /\ acc' = IF failedBy = {}
              THEN acc \cup UNION {results[queue[k]].matched : k \in Mergeable}
              ELSE acc
  /\ pc' = [t \in Procs |-> IF t = Main THEN "return" ELSE "off"]
  /\ UNCHANGED <<buckets, queue, next, results, failedBy, at, relicUp, faults>>

----------------------------------------------------------------------------
(* No call is running: the locals of a batch have no content. *)
BatchInit ==
  /\ queue = <<>>
  /\ next = 0
  /\ acc = {}
  /\ results = [b \in BucketIds |-> NoResult]
  /\ failedBy = {}
  /\ ok = TRUE
  /\ pc = [t \in Procs |-> IF t = Main THEN "idle" ELSE "off"]
  /\ at = [w \in Workers |-> 0]
  /\ relicUp = [t \in Procs |-> FALSE]
  /\ faults = 0

(* The call returns and its locals end. *)
End ==
  /\ pc[Main] = "return"
  /\ queue' = <<>>
  /\ next' = 0
  /\ acc' = {}
  /\ results' = [b \in BucketIds |-> NoResult]
  /\ failedBy' = {}
  /\ ok' = TRUE
  /\ pc' = [t \in Procs |-> IF t = Main THEN "idle" ELSE "off"]
  /\ at' = [w \in Workers |-> 0]
  /\ faults' = 0
  /\ UNCHANGED relicUp

BatchNext == Sequential \/ Join \/ \E w \in Workers : Worker(w)

(* The caller runs until it blocks in join; every thread is scheduled.     *)
(* Nothing forces a fault: fairness is on the steps of a thread, and a     *)
(* thread that could fail always has a step.                               *)
BatchFairness ==
  /\ WF_batch(Sequential)
  /\ WF_batch(Join)
  /\ \A w \in Workers : WF_batch(Worker(w))

----------------------------------------------------------------------------
BatchTypeOK ==
  /\ xb \in BucketArrays
  /\ yb \in BucketArrays
  /\ queue \in Seq(BucketIds)
  /\ next \in Nat
  /\ acc \subseteq Items
  /\ results \in [BucketIds -> Results]
  /\ failedBy \subseteq Workers
  /\ ok \in BOOLEAN
  /\ pc \in [Procs -> {"idle", "init", "eval", "claim", "clean", "join",
                       "return", "done", "off"}]
  /\ at \in [Workers -> Nat]
  /\ \A w \in Workers : pc[w] = "eval" => at[w] \in Positions
  /\ relicUp \in [Procs -> BOOLEAN]
  /\ faults \in Nat

(* No two workers evaluate the same bucket, and none evaluates a bucket    *)
(* whose slot is filled: the atomic counter hands out each position once,  *)
(* so the unsynchronised writes to results[i] never meet.                  *)
DistinctClaims ==
  \A w \in Workers : pc[w] = "eval" =>
    /\ ~results[queue[at[w]]].attempted
    /\ \A v \in Workers \ {w} : pc[v] = "eval" => at[v] # at[w]

(* A bucket is only evaluated while the RELIC context of its thread is     *)
(* initialised, as upsi_protocol_bucket_eval.h:12 requires, whatever the   *)
(* other threads have finished or failed to do.                            *)
ContextLive ==
  \A t \in Procs : pc[t] = "eval" => relicUp[Context(t)]

(* When a call returns, every context it brought up is down again, on the  *)
(* error paths too.                                                        *)
NoContextLeft ==
  pc[Main] \in {"idle", "return"} => \A t \in Procs : ~relicUp[t]

(* The value returned is exact although workers may miss each other's      *)
(* `failed': false if and only if a fault happened or a queued bucket      *)
(* cannot be evaluated.  In particular the second check of the slots       *)
(* (initial.cpp:241, update.cpp:292) is never what makes a call fail.      *)
VerdictExact ==
  pc[Main] = "return" =>
    (ok <=> faults = 0 /\ \A k \in Positions : EvalSucceeds(queue[k]))

(* The matches a batch has collected after n positions of its queue. *)
Collected(base, n) == base \cup UNION {Matches(queue[k]) : k \in 1 .. n}

(* Threads of the pool exist only while the caller waits for them. *)
PoolJoined == pc[Main] # "join" => \A w \in Workers : pc[w] = "off"

(* What a running batch has to show for itself, given the entries it       *)
(* started from: the loop has merged what it has passed, the pool has      *)
(* merged nothing before the join and its filled slots are right, a batch  *)
(* about to return true has merged every queued bucket, and with nothing   *)
(* queued nothing can fail.                                                *)
BatchProgress(base) ==
  /\ Len(queue) = 0 => pc[Main] = "return" /\ ok
  /\ \A b \in BucketIds :
       results[b].attempted /\ results[b].ok => results[b].matched = Matches(b)
  /\ pc[Main] \in {"init", "join"} => acc = base
  /\ pc[Main] = "init" => next = 0
  /\ pc[Main] = "eval" => next <= Len(queue) /\ acc = Collected(base, next)
  /\ pc[Main] \in {"clean", "return"} /\ ok => acc = Collected(base, Len(queue))

(* Every position of the queue is another bucket, a filled slot is one of  *)
(* a position that was claimed, and no claimed position is evaluated twice.*)
ClaimsOnce ==
  /\ \A j, k \in Positions : queue[j] = queue[k] => j = k
  /\ \A k \in Positions : k > next => ~results[queue[k]].attempted
  /\ \A w \in Workers : pc[w] = "eval" => at[w] <= next
  /\ DistinctClaims

(* With a context per thread, a thread's context is up exactly from its    *)
(* initialisation to its clean-up.                                         *)
ContextsKept ==
  PerThreadContext =>
    \A t \in Procs : relicUp[t] <=> pc[t] \in {"claim", "eval", "clean"}

(* Nothing happened to the batch that has to make it fail. *)
Faultless == faults = 0 /\ \A k \in Positions : EvalSucceeds(queue[k])

(* Why the verdict is exact: the loop has passed only buckets that         *)
(* succeed; in the pool `failed' is set exactly if there was a reason, and *)
(* if it is not, then no claimed position is forgotten and a worker has    *)
(* left its loop only because all are claimed.                             *)
VerdictKept ==
  /\ pc[Main] \in {"init", "eval"} =>
       ok /\ faults = 0 /\ \A k \in 1 .. next : EvalSucceeds(queue[k])
  /\ pc[Main] = "init" => next = 0
  /\ pc[Main] \in {"clean", "return"} => (ok <=> Faultless)
  /\ pc[Main] = "join" =>
       /\ pc[1] # "off"
       /\ failedBy # {} => ~Faultless
       /\ failedBy = {} =>
            /\ faults = 0
            /\ \A k \in Positions : results[queue[k]].attempted =>
                 results[queue[k]].ok /\ EvalSucceeds(queue[k])
            /\ \A k \in Positions : k <= next =>
                 \/ results[queue[k]].attempted
                 \/ \E w \in Workers : pc[w] = "eval" /\ at[w] = k
            /\ \A w \in Workers : pc[w] \in {"clean", "done"} =>
                 next >= Len(queue)

(* The pool's bookkeeping, as one invariant. *)
PoolSound == PoolJoined /\ ClaimsOnce /\ ContextsKept /\ VerdictKept

(* A call that starts returns, under the scheduling of BatchFairness: no   *)
(* interleaving of claims, stale flags and failures keeps join waiting.    *)
Returns == pc[Main] \in {"init", "join"} ~> pc[Main] = "return"

============================================================================
