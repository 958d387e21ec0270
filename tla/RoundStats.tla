----------------------------- MODULE RoundStats -----------------------------
(***************************************************************************)
(* What the two rounds report in RoundEvalStats: every stage and every     *)
(* bucket reads a clock, one thread or a pool evaluates the buckets, and   *)
(* per-bucket counters and times are added up in two different ways.       *)
(*                                                                         *)
(* Time passes whenever it likes (Tick) and every step may take none.      *)
(* Creating the bridge and verifying stand for the five timed phases of a  *)
(* bucket, the first and the last of them.  Only successful rounds: the    *)
(* callers do not look at the statistics of a round that failed.           *)
(***************************************************************************)
EXTENDS Integers, Sequences, FiniteSetsExt

CONSTANTS
  ThreadCounts, (* values of bucket_parallel_threads                       *)
  Queues,       (* the sequences of buckets that may have to be evaluated: *)
                (* [nx, ny, match_count, okvs_table_bytes]                 *)
  FlagCount,    (* buckets there are: a flag each in an update round       *)
  CiBytes,      (* upsi_relic_default_ci_bytes                             *)
  ResultBytes,  (* per match: 16                                           *)
  MaxTime       (* bound on the clock                                      *)

Bucket == [nx : Nat, ny : Nat, match_count : Nat, okvs_table_bytes : Nat]

ASSUME RoundStatsAssumption ==
  /\ ThreadCounts \subseteq Nat \ {0}
  /\ CiBytes \in Nat \ {0} /\ ResultBytes \in Nat /\ MaxTime \in Nat
  /\ FlagCount \in Nat \ {0}
  /\ Queues \subseteq Seq(Bucket)
  /\ \A q \in Queues : Len(q) <= FlagCount

VARIABLES
  round,      (* "initial" or "update"                                     *)
  threads,    (* bucket_parallel_threads                                   *)
  queue,      (* the buckets to evaluate                                   *)
  now,        (* the clock; t_begin_ms is 0                                *)
  stage,      (* "prepare", "filter", "eval", "sort" or "done"             *)
  since,      (* when the stage began                                      *)
  next,       (* buckets taken from the queue                              *)
  thread,     (* per thread: where it is, since when, with which bucket    *)
  sums,       (* per thread: ThreadEvalSums                                *)
  results,    (* per bucket: the times of BucketEvalStats                  *)
  window,     (* when t_eval_begin_ms and t_eval_end_ms were read          *)
  stats,      (* RoundEvalStats                                            *)
  firstCi, lastResult  (* when P1 really had its first ciphertext and its  *)
                       (* last result; -1 before                           *)

evaluation == <<next, thread, sums, results, window, firstCi, lastResult>>
vars == <<round, threads, queue, now, stage, since, evaluation, stats>>

----------------------------------------------------------------------------
LoopPath == threads = 1 \/ Len(queue) <= 1
Pool == 1 .. IF LoopPath THEN 1 ELSE Min({threads, Len(queue)})

(* nx = 0 or ny = 0: the evaluation returns with nothing but nx and ny.    *)
IsEmpty(k) == queue[k].nx = 0 \/ queue[k].ny = 0
Evaluated == {k \in DOMAIN queue : ~IsEmpty(k)}

SumOf(f) ==
  LET sum[k \in 0 .. Len(f)] == IF k = 0 THEN 0 ELSE sum[k - 1] + f[k]
  IN sum[Len(f)]
Larger(a, b) == IF a > b THEN a ELSE b

(* The bytes a bucket reports, and its own totals of them, which           *)
(* AccumulateBucketStats adds up apart from the parts.                     *)
Sent(bytes) == [k \in DOMAIN queue |-> IF IsEmpty(k) THEN 0 ELSE bytes[k]]
ci_bytes == Sent([k \in DOMAIN queue |-> CiBytes])
result_bytes == Sent([k \in DOMAIN queue |-> ResultBytes * queue[k].match_count])
okvs_bytes == Sent([k \in DOMAIN queue |-> queue[k].okvs_table_bytes])
p0_to_p1_bytes == [k \in DOMAIN queue |-> ci_bytes[k] + result_bytes[k]]
total_comm_bytes == [k \in DOMAIN queue |-> p0_to_p1_bytes[k] + okvs_bytes[k]]

NoSums == [relic_init |-> 0, relic_clean |-> 0, create |-> 0, verify |-> 0]
NoTimes == [begin |-> 0, end |-> 0, create |-> 0, verify |-> 0]
NewStats ==
  [total |-> 0, prepare |-> 0, filter |-> 0, sort |-> 0, eval_total |-> 0,
   relic_init |-> 0, relic_clean |-> 0, create |-> 0, verify |-> 0,
   p1_online |-> 0, p1_sign_items |-> 0, p0_verify_items |-> 0,
   ci |-> 0, okvs |-> 0, result |-> 0, flag |-> 0,
   p0_to_p1 |-> 0, p1_to_p0 |-> 0, total_comm |-> 0]

----------------------------------------------------------------------------
Init ==
  /\ round \in {"initial", "update"}
  /\ queue \in IF round = "initial" THEN Queues \ {<<>>} ELSE Queues
  /\ threads \in ThreadCounts
  /\ now = 0 /\ stage = "prepare" /\ since = 0
  /\ next = 0
  /\ thread = [t \in 1 .. threads |-> [pc |-> "off", since |-> 0, k |-> 0]]
  /\ sums = [t \in 1 .. threads |-> NoSums]
  /\ results = [k \in DOMAIN queue |-> NoTimes]
  /\ window = [begin |-> 0, end |-> 0]
  /\ stats = NewStats
  /\ firstCi = -1 /\ lastResult = -1

Tick ==
  /\ now < MaxTime /\ stage # "done"
  /\ now' = now + 1
  /\ UNCHANGED <<round, threads, queue, stage, since, evaluation, stats>>

(* The pool reads t_eval_begin_ms before it spawns its threads; the loop   *)
(* reads it after RELIC has been initialised.                              *)
StartEval ==
  /\ since' = now
  /\ stage' = IF queue = <<>> THEN "sort" ELSE "eval"
  /\ thread' = [t \in 1 .. threads |->
                 IF t \in Pool /\ queue # <<>>
                   THEN [pc |-> "init", since |-> now, k |-> 0]
                   ELSE thread[t]]
  /\ window' = [window EXCEPT !.begin = now]
  /\ UNCHANGED <<next, sums, results, firstCi, lastResult>>

(* BuildBuckets in the initial round, ApplyBucketDelta in an update.       *)
Prepare ==
  /\ stage = "prepare"
  /\ stats' = [stats EXCEPT !.prepare = now - since]
  /\ IF round = "initial" THEN StartEval
     ELSE /\ stage' = "filter" /\ since' = now
          /\ UNCHANGED evaluation
  /\ UNCHANGED <<round, threads, queue, now>>

Filter ==
  /\ stage = "filter"
  /\ stats' = [stats EXCEPT !.filter = now - since]
  /\ StartEval
  /\ UNCHANGED <<round, threads, queue, now>>

----------------------------------------------------------------------------
(* The next step of a thread: a clock reading and the bucket it is at.     *)
Goto(t, pc, k) ==
  thread' = [thread EXCEPT ![t] = [pc |-> pc, since |-> now, k |-> k]]

InitDone(t) ==
  /\ thread[t].pc = "init"
  /\ sums' = [sums EXCEPT ![t].relic_init = now - thread[t].since]
  /\ window' = IF LoopPath THEN [window EXCEPT !.begin = now] ELSE window
  /\ Goto(t, "claim", 0)
  /\ UNCHANGED <<round, threads, queue, now, stage, since, next, results, stats, firstCi,
                 lastResult>>

Claim(t) ==
  /\ thread[t].pc = "claim"
  /\ next < Len(queue)
  /\ next' = next + 1
  /\ results' = [results EXCEPT ![next + 1].begin = now]
  /\ Goto(t, "create", next + 1)
  /\ UNCHANGED <<round, threads, queue, now, stage, since, sums, window, stats, firstCi,
                 lastResult>>

EvalEmpty(t) ==
  /\ thread[t].pc = "create"
  /\ IsEmpty(thread[t].k)
  /\ results' = [results EXCEPT ![thread[t].k].end = now]
  /\ Goto(t, "claim", 0)
  /\ UNCHANGED <<round, threads, queue, now, stage, since, next, sums, window, stats,
                 firstCi, lastResult>>

(* Creating the bridge is timed from some moment after the call began:     *)
(* sizes, parameters and scalars come first.                               *)
Created(t) ==
  /\ thread[t].pc = "create"
  /\ ~IsEmpty(thread[t].k)
  /\ \E ms \in 0 .. now - thread[t].since :
       /\ results' = [results EXCEPT ![thread[t].k].create = ms]
       /\ sums' = [sums EXCEPT ![t].create = @ + ms]
  /\ firstCi' = IF firstCi = -1 THEN now ELSE firstCi
  /\ Goto(t, "verify", thread[t].k)
  /\ UNCHANGED <<round, threads, queue, now, stage, since, next, window, stats, lastResult>>

(* Verifying is the last part of what follows. *)
Verified(t) ==
  /\ thread[t].pc = "verify"
  /\ \E ms \in 0 .. now - thread[t].since :
       /\ results' = [results EXCEPT ![thread[t].k].verify = ms,
                                     ![thread[t].k].end = now]
       /\ sums' = [sums EXCEPT ![t].verify = @ + ms]
  /\ lastResult' = now
  /\ Goto(t, "claim", 0)
  /\ UNCHANGED <<round, threads, queue, now, stage, since, next, window, stats, firstCi>>

(* The loop reads t_eval_end_ms before it cleans up. *)
ClaimNothing(t) ==
  /\ thread[t].pc = "claim"
  /\ next >= Len(queue)
  /\ window' = IF LoopPath THEN [window EXCEPT !.end = now] ELSE window
  /\ Goto(t, "clean", 0)
  /\ UNCHANGED <<round, threads, queue, now, stage, since, next, sums, results, stats,
                 firstCi, lastResult>>

CleanDone(t) ==
  /\ thread[t].pc = "clean"
  /\ sums' = [sums EXCEPT ![t].relic_clean = now - thread[t].since]
  /\ Goto(t, "joined", 0)
  /\ UNCHANGED <<round, threads, queue, now, stage, since, next, results, window, stats,
                 firstCi, lastResult>>

----------------------------------------------------------------------------
(* Mutant: the times of all threads are added up. *)
SumOverThreads ==
  [relic_init |-> SumOf([t \in Pool |-> sums[t].relic_init]),
   relic_clean |-> SumOf([t \in Pool |-> sums[t].relic_clean]),
   create |-> SumOf([t \in Pool |-> sums[t].create]),
   verify |-> SumOf([t \in Pool |-> sums[t].verify])]

(* The pool takes the busiest thread for each time; in the loop the only   *)
(* thread's sums are what AccumulateBucketStats has added up.              *)
ThreadTimes ==
  [relic_init |-> Max({sums[t].relic_init : t \in Pool}),
   relic_clean |-> Max({sums[t].relic_clean : t \in Pool}),
   create |-> Max({sums[t].create : t \in Pool}),
   verify |-> Max({sums[t].verify : t \in Pool})]

(* Mutant: the duration that AccumulateBucketStats has added up is not     *)
(* overwritten.                                                            *)
SumOfBuckets(end) ==
  SumOf([k \in DOMAIN queue |-> results[k].end - results[k].begin])

EvalTotal(end) == end - window.begin

(* Mutant: the window starts with the first call's end. *)
OnlineFromEnds(eval_total) ==
  IF Evaluated = {} THEN 0
  ELSE Larger(0, Max({results[k].end : k \in Evaluated})
                   - Min({results[k].end : k \in Evaluated}))

(* Mutant: buckets that sent no ciphertext count as well.                  *)
OnlineOfAll(eval_total) ==
  IF Evaluated = {} THEN 0
  ELSE Larger(0, Max({results[k].end : k \in DOMAIN queue})
                   - Min({results[k].begin + results[k].create :
                            k \in DOMAIN queue}))

(* SetOnlineStatFromBucketWindows, and the loop's rule: all of the         *)
(* evaluation but the time the first ciphertext took to create.            *)
Online(eval_total) ==
  IF Evaluated = {} THEN 0
  ELSE IF LoopPath
    THEN Larger(0, eval_total - results[Min(Evaluated)].create)
    ELSE Larger(0, Max({results[k].end : k \in Evaluated})
                     - Min({results[k].begin + results[k].create :
                              k \in Evaluated}))

Join ==
  /\ stage = "eval"
  /\ \A t \in Pool : thread[t].pc = "joined"
  /\ LET end == IF LoopPath THEN window.end ELSE now
     IN stats' =
          [stats EXCEPT
             !.eval_total = EvalTotal(end),
             !.relic_init = ThreadTimes.relic_init,
             !.relic_clean = ThreadTimes.relic_clean,
             !.create = ThreadTimes.create, !.verify = ThreadTimes.verify,
             !.p1_online = Online(EvalTotal(end)),
             !.p1_sign_items = SumOf([k \in DOMAIN queue |-> queue[k].ny]),
             !.p0_verify_items = SumOf([k \in DOMAIN queue |-> queue[k].nx]),
             !.ci = SumOf(ci_bytes), !.okvs = SumOf(okvs_bytes),
             !.result = SumOf(result_bytes),
             !.p0_to_p1 = SumOf(p0_to_p1_bytes),
             !.p1_to_p0 = SumOf(okvs_bytes),
             !.total_comm = SumOf(total_comm_bytes)]
  /\ stage' = "sort" /\ since' = now
  /\ UNCHANGED <<round, threads, queue, now, evaluation>>

(* An update round sends a flag for every bucket there is, and adds it to  *)
(* the sums.                                                               *)
Sort ==
  /\ stage = "sort"
  /\ LET flags == IF round = "update" THEN FlagCount ELSE 0
     IN stats' = [stats EXCEPT !.sort = now - since, !.total = now,
                               !.flag = flags, !.p0_to_p1 = @ + flags,
                               !.total_comm = @ + flags]
  /\ stage' = "done"
  /\ UNCHANGED <<round, threads, queue, now, since, evaluation>>

Next ==
  \/ Tick \/ Prepare \/ Filter \/ Join \/ Sort
  \/ \E t \in Pool : \/ InitDone(t) \/ Claim(t) \/ EvalEmpty(t) \/ Created(t)
                     \/ Verified(t) \/ ClaimNothing(t) \/ CleanDone(t)

Spec == Init /\ [][Next]_vars

----------------------------------------------------------------------------
Times == 0 .. MaxTime

(* The totals and their decomposition agree, although the buckets add up   *)
(* their own and the round adds the flags to two of them; nothing is       *)
(* counted for a bucket that sent nothing.                                 *)
BytesAgree ==
  stage = "done" =>
    /\ stats.p0_to_p1 = stats.ci + stats.result + stats.flag
    /\ stats.p1_to_p0 = stats.okvs
    /\ stats.total_comm = stats.p0_to_p1 + stats.p1_to_p0

(* No phase takes longer than the evaluation it is a part of, however many *)
(* threads it was spread over, and initialising and cleaning RELIC fit     *)
(* into it as well where every thread does it.                             *)
PhasesFitEval ==
  stage = "done" =>
    /\ stats.create <= stats.eval_total
    /\ stats.verify <= stats.eval_total
    /\ ~LoopPath => /\ stats.relic_init <= stats.eval_total
                    /\ stats.relic_clean <= stats.eval_total

(* The stages of a round come one after the other: together they take no   *)
(* longer than the round.                                                  *)
StagesFitTotal ==
  stage = "done" =>
    stats.prepare + stats.filter + stats.eval_total + stats.sort
      + (IF LoopPath THEN stats.relic_init + stats.relic_clean ELSE 0)
    <= stats.total

(* The time P1 is reported to be online covers the whole window from the   *)
(* first ciphertext to the last result, over all threads, and lies within  *)
(* the evaluation.                                                         *)
OnlineCoversWindow ==
  stage = "done" =>
    /\ firstCi # -1 => stats.p1_online >= lastResult - firstCi
    /\ stats.p1_online <= stats.eval_total

(* From the first call that sent a ciphertext to the last one's end; the   *)
(* window of upsi_metrics.h:68-69 lies inside of it.                       *)
CallWindow ==
  IF Evaluated = {} THEN 0
  ELSE Larger(0, Max({results[k].end : k \in Evaluated})
                   - Min({results[k].begin : k \in Evaluated}))

(* In a pool, waiting before and after the buckets that exchange messages  *)
(* is not reported as time online: neither a bucket with an empty side nor *)
(* the start of a thread widens the window.  The loop makes no such        *)
(* promise: it counts all of the evaluation but one ciphertext's creation. *)
OnlineWithinCalls ==
  stage = "done" /\ ~LoopPath => stats.p1_online <= CallWindow

=============================================================================
