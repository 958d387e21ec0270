------------------------- MODULE RoundStats_proofs -------------------------
(***************************************************************************)
(* The statistics of a round, for every queue of buckets, any number of    *)
(* threads and any time a step may take.                                   *)
(*                                                                         *)
(* IInv is inductive.  The loop passes its phases one after the other, so  *)
(* their sums fit in front of the clock (LoopTimes); in the pool that      *)
(* holds of each thread (PoolTimes), hence of the maximum the merge takes. *)
(* For the online window the invariant keeps a bucket created when the     *)
(* first ciphertext was sent or before, and one that ended with the last   *)
(* result or after (PoolWindow, LoopWindow): the minimum and the maximum   *)
(* over the buckets can only widen what the two witnesses span.            *)
(***************************************************************************)
EXTENDS RoundStats, TLAPS, WellFoundedInduction

----------------------------------------------------------------------------
(* Numbers. *)

LEMMA LeastNumber ==
  ASSUME NEW S, S \subseteq Nat, S # {}
  PROVE  \E c \in S : \A d \in S : c <= d
<1> DEFINE R == OpToRel(<, Nat)
<1>1. \E c \in S : \A d \in S : ~(<<d, c>> \in R)
  <2> HIDE DEF R
  <2> QED
    BY NatLessThanWellFounded, WFMin, Zenon DEF R
<1>2. PICK c \in S : \A d \in S : ~(<<d, c>> \in R)
  BY <1>1
<1>3. \A d \in S : c <= d
  <2> SUFFICES ASSUME NEW d \in S PROVE c <= d
    OBVIOUS
  <2>1. ~(<<d, c>> \in R)
    BY <1>2
  <2>2. d \in Nat /\ c \in Nat
    OBVIOUS
  <2>3. d < c => <<d, c>> \in R
    BY <2>2 DEF OpToRel
  <2> HIDE DEF R
  <2> QED
    BY <2>1, <2>2, <2>3
<1> QED
  BY <1>3

LEMMA MinIsLeast ==
  ASSUME NEW S, S \subseteq Nat, S # {}
  PROVE  Min(S) \in S /\ \A y \in S : Min(S) <= y
BY LeastNumber DEF Min

LEMMA MaxIsGreatest ==
  ASSUME NEW S, S \subseteq Nat, S # {}, NEW B \in Nat, \A y \in S : y <= B
  PROVE  Max(S) \in S /\ \A y \in S : Max(S) >= y
<1> DEFINE T == {d \in Nat : B - d \in S}
<1>1. T \subseteq Nat /\ T # {}
  <2>1. PICK y \in S : TRUE
    OBVIOUS
  <2>2. B - y \in Nat /\ B - (B - y) = y
    BY <2>1
  <2> QED
    BY <2>1, <2>2
<1>2. PICK c \in T : \A d \in T : c <= d
  <2> HIDE DEF T
  <2> QED
    BY <1>1, LeastNumber
<1>3. B - c \in S /\ c \in Nat
  BY <1>2
<1>4. ASSUME NEW y \in S
      PROVE  B - c >= y
  <2>1. y \in Nat /\ y <= B
    OBVIOUS
  <2>2. B - y \in Nat /\ B - (B - y) = y
    BY <2>1
  <2>3. B - y \in T
    BY <2>2
  <2>4. c <= B - y
    BY <1>2, <2>3
  <2> QED
    BY <1>3, <2>1, <2>4
<1>5. \E z \in S : \A y \in S : z >= y
  BY <1>3, <1>4
<1> QED
  BY <1>5 DEF Max

(* A set that holds 0 and with a number the next one holds them all. *)
LEMMA CountUp ==
  ASSUME NEW S, 0 \in S, \A n \in Nat : n \in S => n + 1 \in S
  PROVE  Nat \subseteq S
<1> SUFFICES ASSUME NEW k \in Nat \ S PROVE FALSE
  OBVIOUS
<1> DEFINE R == OpToRel(<, Nat)
           Missing == Nat \ S
<1>1. \E c \in Missing : \A d \in Missing : ~(<<d, c>> \in R)
  <2>1. Missing \subseteq Nat /\ Missing # {}
    OBVIOUS
  <2> HIDE DEF R, Missing
  <2> QED
    BY <2>1, NatLessThanWellFounded, WFMin, Zenon DEF R
<1>2. PICK c \in Missing : \A d \in Missing : ~(<<d, c>> \in R)
  BY <1>1
<1>3. c # 0 /\ c - 1 \in Nat /\ c - 1 < c
  OBVIOUS
<1>4. <<c - 1, c>> \in R
  BY <1>3 DEF OpToRel
<1>5. c - 1 \in S
  <2> HIDE DEF R
  <2> QED
    BY <1>2, <1>3, <1>4
<1>6. (c - 1) + 1 \in S
  BY <1>3, <1>5
<1> QED
  BY <1>6

(* The sums of the first values, as far as n. *)
Partial(s, f, n) ==
  s = [k \in 0 .. n |-> IF k = 0 THEN 0 ELSE s[k - 1] + f[k]]

LEMMA PartialExists ==
  ASSUME NEW f, NEW n \in Nat
  PROVE  \E s : Partial(s, f, n)
<1> DEFINE S == {k \in Nat : \E s : Partial(s, f, k)}
<1>1. 0 \in S
  <2>1. Partial([k \in 0 .. 0 |-> 0], f, 0)
    BY DEF Partial
  <2> QED
    BY <2>1
<1>2. ASSUME NEW k \in Nat, k \in S
      PROVE  k + 1 \in S
  <2>1. PICK s : Partial(s, f, k)
    BY <1>2
  <2> DEFINE v == s[k] + f[k + 1]
             g == [j \in 0 .. k + 1 |-> IF j = k + 1 THEN v ELSE s[j]]
  <2>2. ASSUME NEW j \in 0 .. k + 1
        PROVE  g[j] = IF j = 0 THEN 0 ELSE g[j - 1] + f[j]
    <3>1. CASE j = k + 1
      <4>1. g[j - 1] = s[k] /\ g[j] = v /\ j # 0
        BY <3>1
      <4> QED
        BY <3>1, <4>1
    <3>2. CASE j \in 0 .. k
      <4>1. s[j] = IF j = 0 THEN 0 ELSE s[j - 1] + f[j]
        BY <2>1, <3>2 DEF Partial
      <4>2. g[j] = s[j] /\ (j # 0 => g[j - 1] = s[j - 1])
        BY <3>2
      <4> QED
        BY <4>1, <4>2
    <3> QED
      BY <3>1, <3>2
  <2>3. Partial(g, f, k + 1)
    <3>1. g = [j \in 0 .. k + 1 |-> g[j]]
      OBVIOUS
    <3> HIDE DEF g
    <3> QED
      BY <2>2, <3>1 DEF Partial
  <2> QED
    BY <2>3
<1>3. Nat \subseteq S
  <2> HIDE DEF S
  <2> QED
    BY <1>1, <1>2, CountUp
<1> QED
  BY <1>3

LEMMA SumSteps ==
  ASSUME NEW f \in Seq(Int)
  PROVE  \E s : /\ s[0] = 0
                /\ \A k \in 1 .. Len(f) : s[k] = s[k - 1] + f[k]
                /\ SumOf(f) = s[Len(f)]
<1> DEFINE s == CHOOSE s : Partial(s, f, Len(f))
<1>0. Len(f) \in Nat
  OBVIOUS
<1>1. Partial(s, f, Len(f))
  BY <1>0, PartialExists
<1>2. SumOf(f) = s[Len(f)]
  BY DEF SumOf, Partial
<1> HIDE DEF s
<1>3. \A k \in 0 .. Len(f) : s[k] = IF k = 0 THEN 0 ELSE s[k - 1] + f[k]
  BY <1>1 DEF Partial
<1> QED
  BY <1>0, <1>2, <1>3

(* A sum is a number, and adding up sums is adding up the parts. *)
LEMMA SumsAdd ==
  ASSUME NEW f \in Seq(Int), NEW g \in Seq(Int), NEW h \in Seq(Int),
         Len(g) = Len(f), Len(h) = Len(f),
         \A k \in 1 .. Len(f) : h[k] = f[k] + g[k]
  PROVE  /\ SumOf(f) \in Int /\ SumOf(g) \in Int
         /\ SumOf(h) = SumOf(f) + SumOf(g)
<1> DEFINE n == Len(f)
<1>n. n \in Nat
  OBVIOUS
<1>1. PICK a : /\ a[0] = 0
               /\ \A k \in 1 .. n : a[k] = a[k - 1] + f[k]
               /\ SumOf(f) = a[n]
  BY SumSteps
<1>2. PICK b : /\ b[0] = 0
               /\ \A k \in 1 .. n : b[k] = b[k - 1] + g[k]
               /\ SumOf(g) = b[n]
  BY SumSteps
<1>3. PICK c : /\ c[0] = 0
               /\ \A k \in 1 .. n : c[k] = c[k - 1] + h[k]
               /\ SumOf(h) = c[n]
  BY SumSteps
<1>t. \A k \in 1 .. n : f[k] \in Int /\ g[k] \in Int /\ h[k] = f[k] + g[k]
  OBVIOUS
<1> HIDE DEF n
<1> DEFINE S == {k \in Nat : k <= n => /\ a[k] \in Int /\ b[k] \in Int
                                      /\ c[k] = a[k] + b[k]}
<1>4. 0 \in S
  BY <1>1, <1>2, <1>3
<1>5. ASSUME NEW k \in Nat, k \in S
      PROVE  k + 1 \in S
  <2> SUFFICES ASSUME k + 1 <= n
               PROVE  /\ a[k + 1] \in Int /\ b[k + 1] \in Int
                      /\ c[k + 1] = a[k + 1] + b[k + 1]
    OBVIOUS
  <2>1. k + 1 \in 1 .. n /\ (k + 1) - 1 = k /\ k <= n
    BY <1>n
  <2>2. a[k] \in Int /\ b[k] \in Int /\ c[k] = a[k] + b[k]
    BY <1>5, <2>1
  <2>3. /\ a[k + 1] = a[k] + f[k + 1]
        /\ b[k + 1] = b[k] + g[k + 1]
        /\ c[k + 1] = c[k] + h[k + 1]
    BY <1>1, <1>2, <1>3, <2>1
  <2>4. f[k + 1] \in Int /\ g[k + 1] \in Int /\ h[k + 1] = f[k + 1] + g[k + 1]
    BY <1>t, <2>1
  <2>5. a[k + 1] \in Int /\ b[k + 1] \in Int
    <3>1. \A p, q \in Int : p + q \in Int
      OBVIOUS
    <3>2. a[k] + f[k + 1] \in Int /\ b[k] + g[k + 1] \in Int
      BY <2>2, <2>4, <3>1
    <3> QED
      BY <2>3, <3>2
  <2>6. \A p, q, u, v \in Int : (p + q) + (u + v) = (p + u) + (q + v)
    OBVIOUS
  <2>7. c[k + 1] = (a[k] + f[k + 1]) + (b[k] + g[k + 1])
    BY <2>2, <2>3, <2>4, <2>6, SMTT(30)
  <2> QED
    BY <2>3, <2>5, <2>7
<1>6. Nat \subseteq S
  <2> HIDE DEF S
  <2> QED
    BY <1>4, <1>5, CountUp
<1>7. n \in S
  BY <1>6, <1>n
<1> QED
  BY <1>1, <1>2, <1>3, <1>7, <1>n

----------------------------------------------------------------------------
(* The invariant. *)

PCs == {"off", "init", "claim", "create", "verify", "clean", "joined"}
SumsType == [relic_init : Nat, relic_clean : Nat, create : Nat, verify : Nat]
TimesType == [begin : Nat, end : Nat, create : Nat, verify : Nat]

Typed ==
  /\ round \in {"initial", "update"}
  /\ queue \in Queues /\ threads \in ThreadCounts
  /\ now \in Nat /\ since \in Nat /\ since <= now
  /\ stage \in {"prepare", "filter", "eval", "sort", "done"}
  /\ next \in 0 .. Len(queue)
  /\ thread \in [1 .. threads -> [pc : PCs, since : Nat, k : Nat]]
  /\ sums \in [1 .. threads -> SumsType]
  /\ results \in [1 .. Len(queue) -> TimesType]
  /\ window \in [begin : Nat, end : Nat]
  /\ firstCi \in Nat \cup {-1} /\ lastResult \in Nat \cup {-1}

(* Before the evaluation nothing is measured but the stages. *)
Planned ==
  /\ stage \in {"prepare", "filter"} =>
       /\ sums = [t \in 1 .. threads |-> NoSums]
       /\ results = [k \in DOMAIN queue |-> NoTimes]
       /\ next = 0 /\ firstCi = -1 /\ lastResult = -1
  /\ stage = "prepare" => since = 0 /\ stats = NewStats
  /\ stage = "filter" => stats = [NewStats EXCEPT !.prepare = since]
  /\ stage = "eval" =>
       /\ queue # <<>>
       /\ \E a \in 0 .. since :
            stats = [NewStats EXCEPT !.prepare = a, !.filter = since - a]

(* Nothing runs but in the evaluation. *)
Idle == stage # "eval" => \A t \in Pool : thread[t].pc \in {"off", "joined"}

Working == {"create", "verify"}

(* Every claim is a bucket of its own, begun when it was claimed. *)
Claimed ==
  stage = "eval" =>
    \A t \in Pool :
      /\ thread[t].pc # "off"
      /\ since <= thread[t].since /\ thread[t].since <= now
      /\ thread[t].pc \in Working =>
           /\ thread[t].k \in 1 .. next
           /\ \A u \in Pool \ {t} :
                thread[u].pc \in Working => thread[u].k # thread[t].k
      /\ thread[t].pc = "create" =>
           results[thread[t].k].begin = thread[t].since
      /\ thread[t].pc = "verify" => ~IsEmpty(thread[t].k)
      /\ thread[t].pc \in {"clean", "joined"} => next >= Len(queue)

(* In the loop one thread passes through all the phases, one after the     *)
(* other.                                                                  *)
LoopTimes ==
  stage = "eval" /\ LoopPath =>
    LET s == sums[1]
        th == thread[1]
    IN /\ th.pc = "init" =>
            /\ th.since = since /\ window.begin = since
            /\ s.create + s.verify = 0
       /\ th.pc # "init" =>
            /\ since + s.relic_init = window.begin
            /\ window.begin <= th.since
       /\ th.pc \in {"claim", "create", "verify"} =>
            window.begin + s.create + s.verify <= th.since
       /\ th.pc \in {"clean", "joined"} =>
            window.begin + s.create + s.verify <= window.end
       /\ th.pc = "clean" => window.end = th.since
       /\ th.pc = "joined" => window.end + s.relic_clean = th.since

(* In the pool every thread does, from the moment the pool was started.    *)
PoolTimes ==
  stage = "eval" /\ ~LoopPath =>
    /\ window.begin = since
    /\ \A t \in Pool :
         /\ since + sums[t].create + sums[t].verify <= thread[t].since
         /\ since + sums[t].relic_init <= now
         /\ since + sums[t].relic_clean <= now

(* No bucket is timed outside the evaluation. *)
BucketTimes ==
  stage = "eval" =>
    /\ \A k \in 1 .. next : since <= results[k].begin
    /\ \A k \in 1 .. Len(queue) : results[k].end <= now

(* A bucket that was created when the first ciphertext was sent, or        *)
(* before, and one that ended with the last result, or after.              *)
PoolWindow ==
  stage = "eval" =>
    /\ firstCi # -1 =>
         \E k \in Evaluated \cap (1 .. next) :
           /\ results[k].begin + results[k].create <= firstCi
           /\ \A t \in Pool : thread[t].pc = "create" => thread[t].k # k
    /\ lastResult # -1 =>
         \E k \in Evaluated \cap (1 .. next) : lastResult <= results[k].end
    /\ lastResult <= now

(* In the loop the first of the evaluated buckets sent it, and the last    *)
(* result came before the loop was left.                                   *)
LoopWindow ==
  stage = "eval" /\ LoopPath =>
    LET th == thread[1]
    IN /\ th.pc \in Working => th.k = next
       /\ th.pc = "init" => next = 0
       /\ firstCi = -1 =>
            /\ th.pc # "verify"
            /\ \A k \in 1 .. next :
                 (th.pc = "create" => k # next) => IsEmpty(k)
       /\ firstCi # -1 =>
            \E k \in Evaluated \cap (1 .. next) :
              /\ \A l \in Evaluated : k <= l
              /\ th.pc = "create" => k # next
              /\ window.begin + results[k].create <= firstCi
       /\ th.pc \in {"init", "claim", "create", "verify"} => lastResult <= th.since
       /\ th.pc \in {"clean", "joined"} => lastResult <= window.end

(* What the reports say once the evaluation is over. *)
StatsType ==
  [total : Int, prepare : Int, filter : Int, sort : Int, eval_total : Int,
   relic_init : Int, relic_clean : Int, create : Int, verify : Int,
   p1_online : Int, p1_sign_items : Int, p0_verify_items : Int,
   ci : Int, okvs : Int, result : Int, flag : Int,
   p0_to_p1 : Int, p1_to_p0 : Int, total_comm : Int]

Bytes ==
  /\ stats.p0_to_p1 = stats.ci + stats.result + stats.flag
  /\ stats.p1_to_p0 = stats.okvs
  /\ stats.total_comm = stats.p0_to_p1 + stats.p1_to_p0

Phases ==
  /\ stats.create <= stats.eval_total
  /\ stats.verify <= stats.eval_total
  /\ ~LoopPath => /\ stats.relic_init <= stats.eval_total
                  /\ stats.relic_clean <= stats.eval_total

OnlineWindow ==
  /\ stats.p1_online <= stats.eval_total
  /\ firstCi # -1 => stats.p1_online >= lastResult - firstCi
  /\ ~LoopPath => stats.p1_online <= CallWindow

Stages ==
  stats.prepare + stats.filter + stats.eval_total
    + (IF LoopPath THEN stats.relic_init + stats.relic_clean ELSE 0)

Reported ==
  /\ stage \in {"sort", "done"} =>
       stats \in StatsType /\ Bytes /\ Phases /\ OnlineWindow
  /\ stage = "sort" => stats.flag = 0 /\ Stages <= since
  /\ stage = "done" => Stages + stats.sort <= stats.total

IInv ==
  /\ Typed /\ Planned /\ Idle /\ Claimed /\ LoopTimes /\ PoolTimes
  /\ BucketTimes /\ PoolWindow /\ LoopWindow /\ Reported

----------------------------------------------------------------------------
(* What never changes: the queue, the threads and what depends on them. *)

LEMMA PoolFacts ==
  ASSUME Typed
  PROVE  /\ threads \in Nat \ {0} /\ Len(queue) \in Nat
         /\ DOMAIN queue = 1 .. Len(queue)
         /\ \A k \in 1 .. Len(queue) : queue[k] \in Bucket
         /\ Pool \subseteq 1 .. threads /\ 1 \in Pool
         /\ LoopPath => Pool = {1}
<1>1. threads \in Nat \ {0} /\ queue \in Seq(Bucket)
  BY RoundStatsAssumption DEF Typed
<1>2. Len(queue) \in Nat /\ DOMAIN queue = 1 .. Len(queue)
      /\ \A k \in 1 .. Len(queue) : queue[k] \in Bucket
  BY <1>1
<1>3. CASE LoopPath
  <2>1. Pool = 1 .. 1
    BY <1>3 DEF Pool
  <2>2. 1 .. 1 = {1}
    OBVIOUS
  <2> QED
    BY <1>1, <1>2, <2>1, <2>2
<1>4. CASE ~LoopPath
  <2>1. Len(queue) > 1
    BY <1>2, <1>4 DEF LoopPath
  <2>2. PICK m \in {threads, Len(queue)} : m = Min({threads, Len(queue)}) /\ m <= threads
    <3> DEFINE S == {threads, Len(queue)}
    <3>1. S \subseteq Nat /\ S # {} /\ threads \in S
      BY <1>1, <1>2
    <3> HIDE DEF S
    <3>2. Min(S) \in S /\ Min(S) <= threads
      BY <3>1, MinIsLeast
    <3> QED
      BY <3>2 DEF S
  <2>3. m \in Nat /\ 1 <= m
    BY <1>1, <1>2, <2>1, <2>2
  <2>4. Pool = 1 .. m
    BY <1>4, <2>2 DEF Pool
  <2> QED
    BY <1>1, <1>2, <1>4, <2>2, <2>3, <2>4
<1> QED
  BY <1>3, <1>4

LEMMA Fixed ==
  ASSUME UNCHANGED <<threads, queue>>
  PROVE  /\ Pool' = Pool /\ (LoopPath' <=> LoopPath) /\ Evaluated' = Evaluated
         /\ \A k : IsEmpty(k)' <=> IsEmpty(k)
BY DEF Pool, LoopPath, Evaluated, IsEmpty

(* The window of the calls is what their times say. *)
LEMMA WindowFixed ==
  ASSUME UNCHANGED <<queue, results>>
  PROVE  CallWindow' = CallWindow
<1>1. Evaluated' = Evaluated
  BY DEF Evaluated, IsEmpty
<1> QED
  BY <1>1 DEF CallWindow

LEMMA InitHolds == Init => IInv
<1> SUFFICES ASSUME Init PROVE IInv
  OBVIOUS
<1>1. Typed
  <2>1. queue \in Queues /\ queue \in Seq(Bucket) /\ threads \in ThreadCounts
    BY RoundStatsAssumption DEF Init
  <2>2. Len(queue) \in Nat /\ DOMAIN queue = 1 .. Len(queue)
    BY <2>1
  <2>3. NoSums \in SumsType /\ NoTimes \in TimesType
    BY DEF NoSums, NoTimes, SumsType, TimesType
  <2> QED
    BY <2>1, <2>2, <2>3 DEF Init, Typed, PCs
<1>2. Planned
  BY DEF Init, Planned
<1>3. Idle
  <2>1. Pool \subseteq 1 .. threads
    BY <1>1, PoolFacts
  <2> QED
    BY <2>1 DEF Init, Idle
<1> QED
  BY <1>1, <1>2, <1>3
  DEF Init, IInv, Claimed, LoopTimes, PoolTimes, BucketTimes, PoolWindow,
      LoopWindow, Reported

(* Time passes: only what is compared with the clock is concerned. *)
LEMMA TickKeeps ==
  ASSUME IInv, Tick
  PROVE  IInv'
<1>1. now \in Nat /\ since \in Nat /\ now' = now + 1 /\ since <= now
  BY DEF Tick, IInv, Typed
<1>2. Pool' = Pool /\ (LoopPath' <=> LoopPath) /\ Evaluated' = Evaluated
      /\ \A k : IsEmpty(k)' <=> IsEmpty(k)
  BY Fixed DEF Tick
<1>3. Pool \subseteq 1 .. threads
  BY PoolFacts DEF IInv
<1>4. Typed'
  BY <1>1 DEF Tick, IInv, Typed, evaluation
<1>5. Claimed'
  BY <1>1, <1>2, <1>3 DEF Tick, IInv, Typed, Claimed, evaluation
<1>6. PoolTimes'
  <2>1. \A t \in Pool : sums[t].relic_init \in Nat /\ sums[t].relic_clean \in Nat
    BY <1>3 DEF IInv, Typed, SumsType
  <2> QED
    BY <1>1, <1>2, <2>1 DEF Tick, IInv, PoolTimes, evaluation
<1>7. BucketTimes'
  BY <1>1, SMTT(30) DEF Tick, IInv, Typed, BucketTimes, TimesType, evaluation
<1>8. PoolWindow'
  BY <1>1, <1>2 DEF Tick, IInv, Typed, PoolWindow, evaluation
<1>9. Planned' /\ Idle' /\ LoopTimes'
  BY <1>2 DEF Tick, IInv, Planned, Idle, LoopTimes, evaluation
<1>10. LoopWindow'
  BY <1>2 DEF Tick, IInv, LoopWindow, evaluation
<1>11. Reported'
  BY <1>2, WindowFixed DEF Tick, IInv, Reported, Bytes, Phases, OnlineWindow, Stages, evaluation
<1> QED
  BY <1>4, <1>5, <1>6, <1>7, <1>8, <1>9, <1>10, <1>11 DEF IInv

(* The evaluation starts from nothing, or is over at once. *)
LEMMA StartEvalKeeps ==
  ASSUME IInv, stage \in {"prepare", "filter"}, StartEval,
         UNCHANGED <<round, threads, queue, now>>,
         NEW a \in 0 .. now,
         stats' = [NewStats EXCEPT !.prepare = a, !.filter = now - a]
  PROVE  IInv'
<1>1. /\ now \in Nat /\ since' = now /\ now' = now
      /\ next = 0 /\ next' = 0 /\ firstCi' = -1 /\ lastResult' = -1
      /\ sums' = [t \in 1 .. threads |-> NoSums]
      /\ results' = [k \in 1 .. Len(queue) |-> NoTimes]
      /\ window' = [window EXCEPT !.begin = now] /\ window'.begin = now
  BY PoolFacts DEF StartEval, IInv, Typed, Planned
<1>2. Pool' = Pool /\ (LoopPath' <=> LoopPath) /\ Evaluated' = Evaluated
      /\ \A k : IsEmpty(k)' <=> IsEmpty(k)
  BY Fixed
<1>3. /\ threads \in Nat \ {0} /\ Len(queue) \in Nat
      /\ Pool \subseteq 1 .. threads /\ 1 \in Pool
      /\ LoopPath => Pool = {1}
  BY PoolFacts DEF IInv
<1>4. /\ NoSums \in SumsType /\ NoTimes \in TimesType
      /\ NoSums.relic_init = 0 /\ NoSums.relic_clean = 0
      /\ NoSums.create = 0 /\ NoSums.verify = 0
      /\ NoTimes.end = 0
  BY DEF NoSums, NoTimes, SumsType, TimesType
<1>5. Typed'
  <2>1. thread' \in [1 .. threads -> [pc : PCs, since : Nat, k : Nat]]
    BY <1>1 DEF StartEval, IInv, Typed, PCs
  <2>2. window' \in [begin : Nat, end : Nat]
    BY <1>1 DEF IInv, Typed
  <2>3. sums' \in [1 .. threads -> SumsType]
        /\ results' \in [1 .. Len(queue) -> TimesType]
    BY <1>1, <1>4
  <2>4. stage' \in {"sort", "eval"}
    BY DEF StartEval
  <2>5. /\ round' \in {"initial", "update"}
        /\ queue' \in Queues /\ threads' \in ThreadCounts
    BY DEF IInv, Typed
  <2>6. next' \in 0 .. Len(queue) /\ since' \in Nat /\ since' <= now'
    BY <1>1, <1>3
  <2> QED
    BY <1>1, <2>1, <2>2, <2>3, <2>4, <2>5, <2>6 DEF Typed
<1>6. CASE queue # <<>>
  <2>1. stage' = "eval" /\ stage' # "sort"
    BY <1>6 DEF StartEval
  <2>2. \A t \in Pool : thread'[t] = [pc |-> "init", since |-> now, k |-> 0]
    BY <1>3, <1>6 DEF StartEval
  <2>3. \A t \in Pool : thread'[t].pc = "init" /\ thread'[t].since = now
    BY <2>2
  <2>4. \A t \in Pool : sums'[t] = NoSums
    BY <1>1, <1>3
  <2>5. Planned'
    BY <1>1, <1>6, <2>1 DEF Planned
  <2>6. Claimed'
    BY <1>1, <1>2, <2>3 DEF Claimed, Working
  <2>7. LoopTimes'
    <3>1. thread'[1].pc = "init" /\ thread'[1].since = now /\ sums'[1] = NoSums
      BY <1>3, <2>3, <2>4
    <3>2. sums'[1].create + sums'[1].verify = 0
      BY <1>4, <3>1
    <3> QED
      BY <1>1, <3>1, <3>2 DEF LoopTimes
  <2>8. PoolTimes'
    <3>1. ASSUME NEW t \in Pool
          PROVE  /\ now + sums'[t].create + sums'[t].verify <= thread'[t].since
                 /\ now + sums'[t].relic_init <= now
                 /\ now + sums'[t].relic_clean <= now
      <4>1. /\ sums'[t].create = 0 /\ sums'[t].verify = 0
            /\ sums'[t].relic_init = 0 /\ sums'[t].relic_clean = 0
        BY <1>4, <2>4
      <4>2. now + 0 + 0 <= now /\ now + 0 <= now
        BY <1>1
      <4>3. thread'[t].since = now
        BY <2>3
      <4> QED
        BY <4>1, <4>2, <4>3
    <3> QED
      BY <1>1, <1>2, <3>1 DEF PoolTimes
  <2>9. BucketTimes'
    BY <1>1, <1>4 DEF BucketTimes
  <2>10. PoolWindow'
    BY <1>1 DEF PoolWindow
  <2>11. LoopWindow'
    BY <1>1, <1>3, <2>3 DEF LoopWindow, Working
  <2>12. Idle' /\ Reported'
    BY <2>1 DEF Idle, Reported
  <2> QED
    BY <1>5, <2>5, <2>6, <2>7, <2>8, <2>9, <2>10, <2>11, <2>12 DEF IInv
<1>7. CASE queue = <<>>
  <2>1. stage' = "sort" /\ LoopPath
    BY <1>7 DEF StartEval, LoopPath
  <2>2. thread' = thread
    BY <1>7 DEF StartEval, IInv, Typed
  <2>3. Idle'
    BY <1>2, <2>2 DEF IInv, Idle
  <2>4. stats' \in StatsType
    <3>1. a \in Int /\ now - a \in Int
      BY <1>1
    <3>2. NewStats \in StatsType
      BY DEF NewStats, StatsType
    <3> QED
      BY <3>1, <3>2 DEF StatsType
  <2>5. Bytes' /\ stats'.flag = 0
    BY DEF NewStats, Bytes
  <2>6. Phases' /\ OnlineWindow' /\ Stages' <= since'
    BY <1>1, <1>2, <2>1 DEF NewStats, Phases, OnlineWindow, Stages
  <2>7. Reported'
    BY <2>1, <2>4, <2>5, <2>6 DEF Reported
  <2>8. Planned' /\ Claimed' /\ LoopTimes' /\ PoolTimes' /\ BucketTimes'
        /\ PoolWindow' /\ LoopWindow'
    BY <2>1
    DEF Planned, Claimed, LoopTimes, PoolTimes, BucketTimes, PoolWindow, LoopWindow
  <2> QED
    BY <1>5, <2>3, <2>7, <2>8 DEF IInv
<1> QED
  BY <1>6, <1>7

LEMMA PrepareKeeps ==
  ASSUME IInv, Prepare
  PROVE  IInv'
<1>1. stage = "prepare" /\ since = 0 /\ stats = NewStats /\ now \in Nat
  BY DEF Prepare, IInv, Planned, Typed
<1>2. stats' = [NewStats EXCEPT !.prepare = now]
  BY <1>1 DEF Prepare
<1>3. CASE round = "initial"
  <2>1. stats' = [NewStats EXCEPT !.prepare = now, !.filter = now - now]
    <3>1. now - now = 0
      BY <1>1
    <3>2. [NewStats EXCEPT !.prepare = now, !.filter = 0]
          = [NewStats EXCEPT !.prepare = now]
      <4> DEFINE r == [NewStats EXCEPT !.prepare = now]
      <4>1. NewStats \in StatsType /\ NewStats.filter = 0
        BY DEF NewStats, StatsType
      <4>2. r \in StatsType /\ r.filter = 0
        BY <1>1, <4>1 DEF StatsType
      <4> HIDE DEF r
      <4>3. [r EXCEPT !.filter = 0] = r
        BY <4>2 DEF StatsType
      <4> QED
        BY <4>3 DEF r
    <3> QED
      BY <1>2, <3>1, <3>2
  <2>2. now \in 0 .. now
    BY <1>1
  <2> QED
    BY <1>1, <1>3, <2>1, <2>2, StartEvalKeeps DEF Prepare
<1>4. CASE round # "initial"
  <2>1. stage' = "filter" /\ since' = now /\ now' = now
        /\ UNCHANGED <<round, threads, queue, next, thread, sums, results, window,
                       firstCi, lastResult>>
    BY <1>4 DEF Prepare, evaluation
  <2>2. Pool' = Pool
    BY <2>1, Fixed
  <2>3. Typed' /\ Planned' /\ Idle'
    BY <1>1, <1>2, <2>1, <2>2 DEF IInv, Typed, Planned, Idle
  <2>4. Claimed' /\ LoopTimes' /\ PoolTimes' /\ BucketTimes'
        /\ PoolWindow' /\ LoopWindow' /\ Reported'
    BY <2>1
    DEF Claimed, LoopTimes, PoolTimes, BucketTimes, PoolWindow, LoopWindow, Reported
  <2> QED
    BY <2>3, <2>4 DEF IInv
<1> QED
  BY <1>3, <1>4

LEMMA FilterKeeps ==
  ASSUME IInv, Filter
  PROVE  IInv'
<1>1. /\ stage = "filter" /\ stats = [NewStats EXCEPT !.prepare = since]
      /\ now \in Nat /\ since \in 0 .. now
  BY DEF Filter, IInv, Planned, Typed
<1>2. stats' = [NewStats EXCEPT !.prepare = since, !.filter = now - since]
  BY <1>1 DEF Filter
<1> QED
  BY <1>1, <1>2, StartEvalKeeps DEF Filter

----------------------------------------------------------------------------
(* The threads. *)

(* What has happened by some time has happened by a later one. *)
LEMMA ByThen ==
  ASSUME NEW a \in Nat, NEW b \in Nat, NEW c \in Nat, NEW d \in Nat, NEW e \in Nat,
         a + b + c <= d, d <= e
  PROVE  a + b + c <= e
OBVIOUS

(* Whoever takes a step does so in the evaluation. *)
LEMMA Running ==
  ASSUME IInv, NEW t \in Pool, thread[t].pc \notin {"off", "joined"}
  PROVE  /\ stage = "eval" /\ queue # <<>>
         /\ now \in Nat /\ since \in Nat /\ since <= now
         /\ next \in Nat /\ next <= Len(queue) /\ Len(queue) \in Nat
         /\ DOMAIN queue = 1 .. Len(queue)
         /\ Pool \subseteq 1 .. threads /\ threads \in Nat
         /\ LoopPath => Pool = {1} /\ t = 1
         /\ \A u \in Pool : /\ thread[u].pc \in PCs
                            /\ thread[u].since \in Nat /\ thread[u].k \in Nat
                            /\ sums[u] \in SumsType
         /\ \A k \in 1 .. Len(queue) : results[k] \in TimesType
         /\ window \in [begin : Nat, end : Nat]
         /\ firstCi \in Nat \cup {-1} /\ lastResult \in Nat \cup {-1}
<1>1. stage = "eval"
  BY DEF IInv, Idle
<1>2. \A u \in 1 .. threads :
        thread[u] \in [pc : PCs, since : Nat, k : Nat] /\ sums[u] \in SumsType
  BY DEF IInv, Typed
<1>3. next \in Nat /\ next <= Len(queue) /\ Len(queue) \in Nat
  BY PoolFacts DEF IInv, Typed
<1> QED
  BY <1>1, <1>2, <1>3, PoolFacts DEF IInv, Typed, Planned

(* What a step of a thread leaves as it is. *)
LEMMA Moves ==
  ASSUME IInv, NEW t \in Pool, thread[t].pc \notin {"off", "joined"},
         NEW pc \in PCs, NEW k \in Nat, Goto(t, pc, k),
         UNCHANGED <<round, threads, queue, now, stage, since, stats>>
  PROVE  /\ Pool' = Pool /\ (LoopPath' <=> LoopPath) /\ Evaluated' = Evaluated
         /\ \A l : IsEmpty(l)' <=> IsEmpty(l)
         /\ thread'[t].pc = pc /\ thread'[t].since = now /\ thread'[t].k = k
         /\ \A u \in Pool \ {t} : thread'[u] = thread[u]
         /\ thread' \in [1 .. threads -> [pc : PCs, since : Nat, k : Nat]]
         /\ Planned' /\ Idle' /\ Reported'
<1>1. stage = "eval" /\ stage' = "eval" /\ now \in Nat /\ t \in 1 .. threads
      /\ Pool \subseteq 1 .. threads
  BY Running
<1>2. Pool' = Pool /\ (LoopPath' <=> LoopPath) /\ Evaluated' = Evaluated
      /\ \A l : IsEmpty(l)' <=> IsEmpty(l)
  BY Fixed
<1>3. thread \in [1 .. threads -> [pc : PCs, since : Nat, k : Nat]]
  BY DEF IInv, Typed
<1>4. thread' = [thread EXCEPT ![t] = [pc |-> pc, since |-> now, k |-> k]]
  BY DEF Goto
<1>5. thread'[t] = [pc |-> pc, since |-> now, k |-> k]
      /\ \A u \in Pool \ {t} : thread'[u] = thread[u]
  BY <1>1, <1>3, <1>4
<1>6. thread' \in [1 .. threads -> [pc : PCs, since : Nat, k : Nat]]
  BY <1>1, <1>3, <1>4
<1>7. Planned' /\ Idle' /\ Reported'
  BY <1>1 DEF IInv, Planned, Idle, Reported
<1> QED
  BY <1>2, <1>5, <1>6, <1>7

LEMMA InitDoneKeeps ==
  ASSUME IInv, NEW t \in Pool, InitDone(t)
  PROVE  IInv'
<1>1. /\ thread[t].pc = "init" /\ Goto(t, "claim", 0)
      /\ UNCHANGED <<round, threads, queue, now, stage, since, stats>>
      /\ UNCHANGED <<next, results, firstCi, lastResult>>
      /\ sums' = [sums EXCEPT ![t].relic_init = now - thread[t].since]
      /\ window' = IF LoopPath THEN [window EXCEPT !.begin = now] ELSE window
  BY DEF InitDone
<1>r. thread[t].pc \notin {"off", "joined"} /\ 0 \in Nat /\ "claim" \in PCs
  BY <1>1 DEF PCs
<1>2. /\ stage = "eval" /\ now \in Nat /\ since \in Nat /\ since <= now
      /\ Pool \subseteq 1 .. threads
      /\ LoopPath => Pool = {1} /\ t = 1
      /\ \A u \in Pool : thread[u].since \in Nat /\ sums[u] \in SumsType
      /\ window \in [begin : Nat, end : Nat]
      /\ lastResult \in Nat \cup {-1}
  BY <1>r, Running
<1>3. /\ Pool' = Pool /\ (LoopPath' <=> LoopPath) /\ Evaluated' = Evaluated
      /\ \A l : IsEmpty(l)' <=> IsEmpty(l)
      /\ thread'[t].pc = "claim" /\ thread'[t].since = now
      /\ \A u \in Pool \ {t} : thread'[u] = thread[u]
      /\ thread' \in [1 .. threads -> [pc : PCs, since : Nat, k : Nat]]
      /\ Planned' /\ Idle' /\ Reported'
  BY <1>1, <1>r, Moves
<1>4. /\ thread[t].since \in Nat /\ since <= thread[t].since
      /\ thread[t].since <= now /\ now - thread[t].since \in Nat
  BY <1>2 DEF IInv, Claimed
<1>5. /\ \A u \in Pool \ {t} : sums'[u] = sums[u]
      /\ sums'[t].relic_init = now - thread[t].since
      /\ sums'[t].relic_clean = sums[t].relic_clean
      /\ sums'[t].create = sums[t].create /\ sums'[t].verify = sums[t].verify
      /\ sums' \in [1 .. threads -> SumsType]
  BY <1>1, <1>2, <1>4 DEF IInv, Typed, SumsType
<1>6. /\ LoopPath => window'.begin = now /\ window'.end = window.end
      /\ ~LoopPath => window' = window
      /\ window' \in [begin : Nat, end : Nat]
  BY <1>1, <1>2
<1>7. Typed'
  BY <1>1, <1>3, <1>5, <1>6 DEF IInv, Typed
<1>8. Claimed'
  BY <1>1, <1>2, <1>3, SMTT(30) DEF IInv, Claimed, Working
<1>9. LoopTimes'
  <2> SUFFICES ASSUME LoopPath
               PROVE  /\ since + sums'[1].relic_init = window'.begin
                      /\ window'.begin <= thread'[1].since
                      /\ window'.begin + sums'[1].create + sums'[1].verify
                           <= thread'[1].since
    BY <1>1, <1>2, <1>3 DEF LoopTimes
  <2>1. /\ thread[1].since = since /\ window.begin = since
        /\ sums[1].create + sums[1].verify = 0
    BY <1>1, <1>2 DEF IInv, LoopTimes
  <2>2. sums[1].create \in Nat /\ sums[1].verify \in Nat
    BY <1>2 DEF SumsType
  <2> QED
    BY <1>2, <1>3, <1>5, <1>6, <2>1, <2>2, SMTT(30)
<1>10. PoolTimes'
  <2> SUFFICES ASSUME ~LoopPath
               PROVE  PoolTimes'
    BY <1>3 DEF PoolTimes
  <2>1. ASSUME NEW u \in Pool
        PROVE  /\ since + sums'[u].create + sums'[u].verify <= thread'[u].since
               /\ since + sums'[u].relic_init <= now
               /\ since + sums'[u].relic_clean <= now
    <3>1. /\ since + sums[u].create + sums[u].verify <= thread[u].since
          /\ since + sums[u].relic_init <= now
          /\ since + sums[u].relic_clean <= now
          /\ thread[u].since <= now
      BY <1>2 DEF IInv, PoolTimes, Claimed
    <3>2. /\ sums[u].create \in Nat /\ sums[u].verify \in Nat
          /\ thread[u].since \in Nat
      BY <1>2 DEF SumsType
    <3>3. CASE u # t
      BY <1>3, <1>5, <3>1, <3>3
    <3>4. CASE u = t
      <4>1. since + sums[t].create + sums[t].verify <= now
        BY <1>2, <3>1, <3>2, <3>4
      <4>2. since + (now - thread[t].since) <= now
        BY <1>2, <1>4
      <4> QED
        BY <1>3, <1>5, <3>1, <3>4, <4>1, <4>2
    <3> QED
      BY <3>3, <3>4
  <2> QED
    BY <1>1, <1>2, <1>3, <1>6, <2>1 DEF IInv, PoolTimes
<1>11. BucketTimes'
  BY <1>1 DEF IInv, BucketTimes
<1>12. PoolWindow'
  BY <1>1, <1>2, <1>3 DEF IInv, PoolWindow
<1>13. LoopWindow'
  BY <1>1, <1>2, <1>3, <1>6 DEF IInv, LoopWindow, Working, PoolWindow
<1> QED
  BY <1>3, <1>7, <1>8, <1>9, <1>10, <1>11, <1>12, <1>13 DEF IInv

LEMMA ClaimKeeps ==
  ASSUME IInv, NEW t \in Pool, Claim(t)
  PROVE  IInv'
<1>1. /\ thread[t].pc = "claim" /\ Goto(t, "create", next + 1)
      /\ next < Len(queue) /\ next' = next + 1
      /\ UNCHANGED <<round, threads, queue, now, stage, since, stats>>
      /\ UNCHANGED <<sums, window, firstCi, lastResult>>
      /\ results' = [results EXCEPT ![next + 1].begin = now]
  BY DEF Claim
<1>r. thread[t].pc \notin {"off", "joined"} /\ "create" \in PCs
  BY <1>1 DEF PCs
<1>2. /\ stage = "eval" /\ now \in Nat /\ since \in Nat /\ since <= now
      /\ next \in Nat /\ Len(queue) \in Nat
      /\ Pool \subseteq 1 .. threads
      /\ LoopPath => Pool = {1} /\ t = 1
      /\ \A u \in Pool : thread[u].since \in Nat /\ sums[u] \in SumsType
      /\ \A k \in 1 .. Len(queue) : results[k] \in TimesType
      /\ window \in [begin : Nat, end : Nat]
      /\ lastResult \in Nat \cup {-1}
  BY <1>r, Running
<1>n. next + 1 \in Nat /\ next + 1 \in 1 .. Len(queue) /\ next + 1 \notin 1 .. next
      /\ 1 .. next' = (1 .. next) \cup {next + 1} /\ 1 .. next \subseteq 1 .. Len(queue)
  BY <1>1, <1>2
<1>3. /\ Pool' = Pool /\ (LoopPath' <=> LoopPath) /\ Evaluated' = Evaluated
      /\ \A l : IsEmpty(l)' <=> IsEmpty(l)
      /\ thread'[t].pc = "create" /\ thread'[t].since = now /\ thread'[t].k = next + 1
      /\ \A u \in Pool \ {t} : thread'[u] = thread[u]
      /\ thread' \in [1 .. threads -> [pc : PCs, since : Nat, k : Nat]]
      /\ Planned' /\ Idle' /\ Reported'
  BY <1>1, <1>r, <1>n, Moves
<1>4. since <= thread[t].since /\ thread[t].since <= now
  BY <1>2 DEF IInv, Claimed
<1>5. /\ results' \in [1 .. Len(queue) -> TimesType]
      /\ results'[next + 1].begin = now /\ results'[next + 1].end = results[next + 1].end
      /\ \A k \in 1 .. Len(queue) : k # next + 1 => results'[k] = results[k]
  BY <1>1, <1>2, <1>n DEF IInv, Typed, TimesType
<1>7. Typed'
  BY <1>1, <1>n, <1>3, <1>5 DEF IInv, Typed
<1>8. Claimed'
  <2> SUFFICES ASSUME NEW u \in Pool
               PROVE  /\ thread'[u].pc # "off"
                      /\ since <= thread'[u].since /\ thread'[u].since <= now
                      /\ thread'[u].pc \in Working =>
                           /\ thread'[u].k \in 1 .. next'
                           /\ \A v \in Pool \ {u} :
                                thread'[v].pc \in Working => thread'[v].k # thread'[u].k
                      /\ thread'[u].pc = "create" =>
                           results'[thread'[u].k].begin = thread'[u].since
                      /\ thread'[u].pc = "verify" => ~IsEmpty(thread'[u].k)
                      /\ thread'[u].pc \in {"clean", "joined"} => next' >= Len(queue)
    BY <1>1, <1>2, <1>3 DEF Claimed
  <2>1. \A v \in Pool \ {t} : thread[v].pc \in Working => thread[v].k \in 1 .. next
    BY <1>2 DEF IInv, Claimed
  <2>2. CASE u = t
    <3>1. \A v \in Pool \ {t} : thread'[v].pc \in Working => thread'[v].k # next + 1
      BY <1>3, <1>n, <2>1
    <3> QED
      BY <1>n, <1>2, <1>3, <1>5, <2>2, <3>1
  <2>3. CASE u # t
    <3>1. thread'[u] = thread[u]
      BY <1>3, <2>3
    <3>2. /\ thread[u].pc # "off"
          /\ since <= thread[u].since /\ thread[u].since <= now
          /\ thread[u].pc \in Working =>
               /\ thread[u].k \in 1 .. next
               /\ \A v \in Pool \ {u} :
                    thread[v].pc \in Working => thread[v].k # thread[u].k
          /\ thread[u].pc = "create" =>
               results[thread[u].k].begin = thread[u].since
          /\ thread[u].pc = "verify" => ~IsEmpty(thread[u].k)
          /\ thread[u].pc \in {"clean", "joined"} => next >= Len(queue)
      BY <1>2 DEF IInv, Claimed
    <3>3. thread[u].pc \in Working =>
            /\ thread[u].k \in 1 .. next'
            /\ \A v \in Pool \ {u} :
                 thread'[v].pc \in Working => thread'[v].k # thread[u].k
      BY <1>3, <1>n, <2>3, <3>2
    <3>4. thread[u].pc = "create" => results'[thread[u].k].begin = thread[u].since
      BY <1>5, <1>n, <3>2 DEF Working
    <3>5. thread[u].pc \in {"clean", "joined"} => next' >= Len(queue)
      BY <1>1, <1>2, <3>2
    <3> QED
      BY <3>1, <3>2, <3>3, <3>4, <3>5
  <2> QED
    BY <2>2, <2>3
<1>9. LoopTimes'
  <2> SUFFICES ASSUME LoopPath
               PROVE  /\ since + sums[1].relic_init = window.begin
                      /\ window.begin <= thread'[1].since
                      /\ window.begin + sums[1].create + sums[1].verify
                           <= thread'[1].since
    BY <1>1, <1>2, <1>3 DEF LoopTimes
  <2>1. /\ since + sums[1].relic_init = window.begin
        /\ window.begin <= thread[1].since
        /\ window.begin + sums[1].create + sums[1].verify <= thread[1].since
    BY <1>1, <1>2 DEF IInv, LoopTimes
  <2>2. sums[1].create \in Nat /\ sums[1].verify \in Nat /\ window.begin \in Nat
    BY <1>2 DEF SumsType
  <2>3. thread[1].since \in Nat /\ thread[1].since <= now /\ thread'[1].since = now
    BY <1>2, <1>3, <1>4
  <2>4. window.begin + sums[1].create + sums[1].verify <= now
    BY <1>2, <2>1, <2>2, <2>3, ByThen
  <2> QED
    BY <1>2, <2>1, <2>2, <2>3, <2>4
<1>10. PoolTimes'
  <2> SUFFICES ASSUME ~LoopPath
               PROVE  PoolTimes'
    BY <1>3 DEF PoolTimes
  <2>1. ASSUME NEW u \in Pool
        PROVE  since + sums[u].create + sums[u].verify <= thread'[u].since
    <3>1. since + sums[u].create + sums[u].verify <= thread[u].since
          /\ thread[u].since <= now
      BY <1>2 DEF IInv, PoolTimes, Claimed
    <3>2. /\ sums[u].create \in Nat /\ sums[u].verify \in Nat
          /\ thread[u].since \in Nat
      BY <1>2 DEF SumsType
    <3>3. since + sums[u].create + sums[u].verify <= now
      BY <1>2, <3>1, <3>2, ByThen
    <3> QED
      BY <1>3, <3>1, <3>3
  <2> QED
    BY <1>1, <1>2, <1>3, <2>1 DEF IInv, PoolTimes
<1>11. BucketTimes'
  BY <1>1, <1>2, <1>5, <1>n DEF IInv, BucketTimes
<1>12. PoolWindow'
  <2>1. ASSUME NEW k \in Evaluated \cap (1 .. next)
        PROVE  k \in Evaluated \cap (1 .. next') /\ results'[k] = results[k]
               /\ k # next + 1
    BY <1>n, <1>5
  <2>2. /\ firstCi # -1 =>
             \E k \in Evaluated \cap (1 .. next) :
               /\ results[k].begin + results[k].create <= firstCi
               /\ \A u \in Pool : thread[u].pc = "create" => thread[u].k # k
        /\ lastResult # -1 =>
             \E k \in Evaluated \cap (1 .. next) : lastResult <= results[k].end
        /\ lastResult <= now
    BY <1>2 DEF IInv, PoolWindow
  <2>3. ASSUME firstCi # -1
        PROVE  \E k \in Evaluated \cap (1 .. next') :
                 /\ results'[k].begin + results'[k].create <= firstCi
                 /\ \A u \in Pool : thread'[u].pc = "create" => thread'[u].k # k
    <3>1. PICK k \in Evaluated \cap (1 .. next) :
            /\ results[k].begin + results[k].create <= firstCi
            /\ \A u \in Pool : thread[u].pc = "create" => thread[u].k # k
      BY <2>2, <2>3
    <3>2. \A u \in Pool : thread'[u].pc = "create" => thread'[u].k # k
      BY <1>3, <2>1, <3>1
    <3> QED
      BY <2>1, <3>1, <3>2
  <2> QED
    BY <1>1, <1>3, <2>1, <2>2, <2>3 DEF PoolWindow
<1>13. LoopWindow'
  <2> SUFFICES ASSUME LoopPath
               PROVE  LoopWindow'
    BY <1>3 DEF LoopWindow
  <2>1. /\ firstCi = -1 => \A k \in 1 .. next : IsEmpty(k)
        /\ lastResult <= now
        /\ t = 1
    BY <1>1, <1>2 DEF IInv, LoopWindow, PoolWindow
  <2>2. firstCi # -1 =>
          \E k \in Evaluated \cap (1 .. next) :
            /\ \A l \in Evaluated : k <= l
            /\ window.begin + results[k].create <= firstCi
    BY <1>1, <1>2, <2>1 DEF IInv, LoopWindow
  <2>3. ASSUME NEW k \in Evaluated \cap (1 .. next)
        PROVE  k \in Evaluated \cap (1 .. next') /\ results'[k] = results[k]
               /\ k # next + 1
    BY <1>n, <1>5
  <2> QED
    BY <1>1, <1>3, <1>n, <2>1, <2>2, <2>3 DEF LoopWindow, Working
<1> QED
  BY <1>3, <1>7, <1>8, <1>9, <1>10, <1>11, <1>12, <1>13 DEF IInv

(* A thread that takes no bucket leaves the claims as they are. *)
LEMMA ClaimsKept ==
  ASSUME IInv, NEW t \in Pool, thread[t].pc \notin {"off", "joined"},
         NEW pc \in {"claim", "verify", "clean", "joined"}, NEW k \in Nat,
         Goto(t, pc, k),
         UNCHANGED <<round, threads, queue, now, stage, since, stats>>, next' = next,
         \A l \in 1 .. Len(queue) : results'[l].begin = results[l].begin,
         pc = "verify" => thread[t].pc \in Working /\ k = thread[t].k /\ ~IsEmpty(k),
         pc \in {"clean", "joined"} => next >= Len(queue)
  PROVE  Claimed'
<1>r. pc \in PCs
  BY DEF PCs
<1>1. /\ stage = "eval" /\ now \in Nat /\ since \in Nat /\ since <= now
      /\ next \in Nat /\ next <= Len(queue) /\ Len(queue) \in Nat
      /\ \A u \in Pool : thread[u].since \in Nat
  BY Running
<1>2. /\ Pool' = Pool /\ \A l : IsEmpty(l)' <=> IsEmpty(l)
      /\ thread'[t].pc = pc /\ thread'[t].since = now /\ thread'[t].k = k
      /\ \A u \in Pool \ {t} : thread'[u] = thread[u]
  BY <1>r, Moves
<1>3. \A u \in Pool :
        /\ thread[u].pc # "off"
        /\ since <= thread[u].since /\ thread[u].since <= now
        /\ thread[u].pc \in Working =>
             /\ thread[u].k \in 1 .. next
             /\ \A v \in Pool \ {u} :
                  thread[v].pc \in Working => thread[v].k # thread[u].k
        /\ thread[u].pc = "create" =>
             results[thread[u].k].begin = thread[u].since
        /\ thread[u].pc = "verify" => ~IsEmpty(thread[u].k)
        /\ thread[u].pc \in {"clean", "joined"} => next >= Len(queue)
  BY <1>1 DEF IInv, Claimed
<1>4. \A l \in 1 .. next : results'[l].begin = results[l].begin
  BY <1>1
<1> SUFFICES ASSUME NEW u \in Pool
             PROVE  /\ thread'[u].pc # "off"
                    /\ since <= thread'[u].since /\ thread'[u].since <= now
                    /\ thread'[u].pc \in Working =>
                         /\ thread'[u].k \in 1 .. next
                         /\ \A v \in Pool \ {u} :
                              thread'[v].pc \in Working => thread'[v].k # thread'[u].k
                    /\ thread'[u].pc = "create" =>
                         results'[thread'[u].k].begin = thread'[u].since
                    /\ thread'[u].pc = "verify" => ~IsEmpty(thread'[u].k)
                    /\ thread'[u].pc \in {"clean", "joined"} => next >= Len(queue)
  BY <1>2 DEF Claimed
<1>5. CASE u = t
  <2>1. pc # "off" /\ pc # "create" /\ (pc \in Working => pc = "verify")
    BY DEF Working
  <2>2. pc = "verify" => /\ k \in 1 .. next
                         /\ \A v \in Pool \ {t} :
                              thread'[v].pc \in Working => thread'[v].k # k
    BY <1>2, <1>3
  <2> QED
    BY <1>1, <1>2, <1>5, <2>1, <2>2
<1>6. CASE u # t
  <2>1. thread'[u] = thread[u]
    BY <1>2, <1>6
  <2>2. thread[u].pc \in Working =>
          \A v \in Pool \ {u} :
            thread'[v].pc \in Working => thread'[v].k # thread[u].k
    <3> SUFFICES ASSUME thread[u].pc \in Working, NEW v \in Pool \ {u},
                        thread'[v].pc \in Working
                 PROVE  thread'[v].k # thread[u].k
      OBVIOUS
    <3>1. CASE v = t
      <4>1. pc = "verify"
        BY <1>2, <3>1 DEF Working
      <4> QED
        BY <1>2, <1>3, <1>6, <3>1, <4>1
    <3>2. CASE v # t
      BY <1>2, <1>3, <3>2
    <3> QED
      BY <3>1, <3>2
  <2>3. thread[u].pc = "create" => results'[thread[u].k].begin = thread[u].since
    BY <1>3, <1>4 DEF Working
  <2> QED
    BY <1>3, <2>1, <2>2, <2>3
<1> QED
  BY <1>5, <1>6

(* In the pool a thread's times fit between the start and now. *)
LEMMA PoolTimesKept ==
  ASSUME IInv, NEW t \in Pool, thread[t].pc \notin {"off", "joined"},
         NEW pc \in PCs, NEW k \in Nat, Goto(t, pc, k),
         UNCHANGED <<round, threads, queue, now, stage, since, stats>>,
         ~LoopPath => window' = window,
         \A u \in Pool \ {t} : sums'[u] = sums[u],
         ~LoopPath => /\ since + sums'[t].create + sums'[t].verify <= now
                      /\ since + sums'[t].relic_init <= now
                      /\ since + sums'[t].relic_clean <= now
  PROVE  PoolTimes'
<1>1. stage = "eval" /\ stage' = "eval"
  BY Running
<1>2. /\ Pool' = Pool /\ (LoopPath' <=> LoopPath)
      /\ thread'[t].since = now
      /\ \A u \in Pool \ {t} : thread'[u] = thread[u]
  BY Moves
<1> SUFFICES ASSUME ~LoopPath
             PROVE  PoolTimes'
  BY <1>2 DEF PoolTimes
<1>3. /\ window.begin = since
      /\ \A u \in Pool : /\ since + sums[u].create + sums[u].verify <= thread[u].since
                         /\ since + sums[u].relic_init <= now
                         /\ since + sums[u].relic_clean <= now
  BY <1>1 DEF IInv, PoolTimes
<1>4. ASSUME NEW u \in Pool
      PROVE  /\ since + sums'[u].create + sums'[u].verify <= thread'[u].since
             /\ since + sums'[u].relic_init <= now
             /\ since + sums'[u].relic_clean <= now
  <2>1. CASE u = t
    BY <1>2, <2>1
  <2>2. CASE u # t
    BY <1>2, <1>3, <2>2
  <2> QED
    BY <2>1, <2>2
<1> QED
  BY <1>2, <1>3, <1>4 DEF PoolTimes

(* With no new time the sums still fit. *)
LEMMA SumsFit ==
  ASSUME IInv, NEW t \in Pool, thread[t].pc \notin {"off", "joined"}, ~LoopPath
  PROVE  /\ since + sums[t].create + sums[t].verify <= now
         /\ since + sums[t].relic_init <= now
         /\ since + sums[t].relic_clean <= now
<1>1. stage = "eval" /\ now \in Nat /\ since \in Nat
      /\ thread[t].since \in Nat /\ sums[t] \in SumsType
  BY Running
<1>2. /\ since + sums[t].create + sums[t].verify <= thread[t].since
      /\ since + sums[t].relic_init <= now
      /\ since + sums[t].relic_clean <= now
      /\ thread[t].since <= now
  BY <1>1 DEF IInv, PoolTimes, Claimed
<1>3. sums[t].create \in Nat /\ sums[t].verify \in Nat
  BY <1>1 DEF SumsType
<1> QED
  BY <1>1, <1>2, <1>3, ByThen

LEMMA EvalEmptyKeeps ==
  ASSUME IInv, NEW t \in Pool, EvalEmpty(t)
  PROVE  IInv'
<1> DEFINE b == thread[t].k
<1>1. /\ thread[t].pc = "create" /\ IsEmpty(b) /\ Goto(t, "claim", 0)
      /\ UNCHANGED <<round, threads, queue, now, stage, since, stats>>
      /\ UNCHANGED <<next, sums, window, firstCi, lastResult>>
      /\ results' = [results EXCEPT ![b].end = now]
  BY DEF EvalEmpty
<1>r. thread[t].pc \notin {"off", "joined"} /\ "claim" \in PCs /\ 0 \in Nat
  BY <1>1 DEF PCs
<1>2. /\ stage = "eval" /\ now \in Nat /\ since \in Nat /\ since <= now
      /\ next \in Nat /\ next <= Len(queue) /\ Len(queue) \in Nat
      /\ DOMAIN queue = 1 .. Len(queue)
      /\ LoopPath => Pool = {1} /\ t = 1
      /\ \A u \in Pool : thread[u].since \in Nat /\ sums[u] \in SumsType
      /\ \A k \in 1 .. Len(queue) : results[k] \in TimesType
      /\ window \in [begin : Nat, end : Nat]
  BY <1>r, Running
<1>3. /\ Pool' = Pool /\ (LoopPath' <=> LoopPath) /\ Evaluated' = Evaluated
      /\ \A l : IsEmpty(l)' <=> IsEmpty(l)
      /\ thread'[t].pc = "claim" /\ thread'[t].since = now
      /\ \A u \in Pool \ {t} : thread'[u] = thread[u]
      /\ thread' \in [1 .. threads -> [pc : PCs, since : Nat, k : Nat]]
      /\ Planned' /\ Idle' /\ Reported'
  BY <1>1, <1>r, Moves
<1>4. /\ b \in 1 .. next /\ b \in 1 .. Len(queue) /\ b \notin Evaluated
      /\ since <= thread[t].since /\ thread[t].since <= now
      /\ 1 .. next \subseteq 1 .. Len(queue)
  BY <1>1, <1>2 DEF IInv, Claimed, Working, Evaluated
<1>5. /\ results' \in [1 .. Len(queue) -> TimesType]
      /\ results'[b].end = now
      /\ \A l \in 1 .. Len(queue) : /\ results'[l].begin = results[l].begin
                                    /\ l # b => results'[l] = results[l]
  BY <1>1, <1>2, <1>4 DEF IInv, Typed, TimesType
<1> HIDE DEF b
<1>7. Typed'
  BY <1>1, <1>3, <1>5 DEF IInv, Typed
<1>8. Claimed'
  BY <1>1, <1>r, <1>5, ClaimsKept
<1>9. LoopTimes'
  <2> SUFFICES ASSUME LoopPath
               PROVE  /\ since + sums[1].relic_init = window.begin
                      /\ window.begin <= thread'[1].since
                      /\ window.begin + sums[1].create + sums[1].verify
                           <= thread'[1].since
    BY <1>1, <1>2, <1>3 DEF LoopTimes
  <2>1. /\ since + sums[1].relic_init = window.begin
        /\ window.begin <= thread[1].since
        /\ window.begin + sums[1].create + sums[1].verify <= thread[1].since
    BY <1>1, <1>2 DEF IInv, LoopTimes
  <2>2. sums[1].create \in Nat /\ sums[1].verify \in Nat /\ window.begin \in Nat
    BY <1>2 DEF SumsType
  <2>3. thread[1].since \in Nat /\ thread[1].since <= now /\ thread'[1].since = now
    BY <1>2, <1>3, <1>4
  <2>4. window.begin + sums[1].create + sums[1].verify <= now
    BY <1>2, <2>1, <2>2, <2>3, ByThen
  <2> QED
    BY <1>2, <2>1, <2>2, <2>3, <2>4
<1>10. PoolTimes'
  BY <1>1, <1>r, SumsFit, PoolTimesKept
<1>11. BucketTimes'
  BY <1>1, <1>2, <1>4, <1>5 DEF IInv, BucketTimes
<1>12. \A k \in Evaluated \cap (1 .. next) : results'[k] = results[k]
  BY <1>4, <1>5
<1>13. PoolWindow'
  BY <1>1, <1>3, <1>12 DEF IInv, PoolWindow
<1>14. LoopWindow'
  <2> SUFFICES ASSUME LoopPath
               PROVE  LoopWindow'
    BY <1>3 DEF LoopWindow
  <2>1. /\ firstCi = -1 => \A k \in 1 .. next : IsEmpty(k)
        /\ lastResult <= now
        /\ t = 1
    BY <1>1, <1>2 DEF b, IInv, LoopWindow, PoolWindow, Working
  <2>2. firstCi # -1 =>
          \E k \in Evaluated \cap (1 .. next) :
            /\ \A l \in Evaluated : k <= l
            /\ window.begin + results[k].create <= firstCi
    BY <1>1, <1>2, <2>1 DEF IInv, LoopWindow
  <2> QED
    BY <1>1, <1>3, <1>12, <2>1, <2>2 DEF LoopWindow, Working
<1> QED
  BY <1>3, <1>7, <1>8, <1>9, <1>10, <1>11, <1>13, <1>14 DEF IInv

(* What was measured since then has passed since then. *)
LEMMA AddedByThen ==
  ASSUME NEW a \in Nat, NEW b \in Nat, NEW c \in Nat, NEW d \in Nat, NEW e \in Nat,
         d <= e, NEW ms \in 0 .. e - d, a + b + c <= d
  PROVE  a + (b + ms) + c <= e /\ a + b + (c + ms) <= e
OBVIOUS

LEMMA CreatedKeeps ==
  ASSUME IInv, NEW t \in Pool, Created(t)
  PROVE  IInv'
<1> DEFINE b == thread[t].k
<1>0. PICK ms \in 0 .. now - thread[t].since :
        /\ results' = [results EXCEPT ![b].create = ms]
        /\ sums' = [sums EXCEPT ![t].create = @ + ms]
  BY DEF Created
<1>1. /\ thread[t].pc = "create" /\ ~IsEmpty(b) /\ Goto(t, "verify", b)
      /\ UNCHANGED <<round, threads, queue, now, stage, since, stats>>
      /\ UNCHANGED <<next, window, lastResult>>
      /\ firstCi' = IF firstCi = -1 THEN now ELSE firstCi
  BY DEF Created
<1>r. thread[t].pc \notin {"off", "joined"} /\ "verify" \in PCs
  BY <1>1 DEF PCs
<1>2. /\ stage = "eval" /\ now \in Nat /\ since \in Nat /\ since <= now
      /\ next \in Nat /\ next <= Len(queue) /\ Len(queue) \in Nat
      /\ DOMAIN queue = 1 .. Len(queue)
      /\ Pool \subseteq 1 .. threads /\ threads \in Nat
      /\ LoopPath => Pool = {1} /\ t = 1
      /\ \A u \in Pool : /\ thread[u].since \in Nat /\ thread[u].k \in Nat
                         /\ sums[u] \in SumsType
      /\ \A k \in 1 .. Len(queue) : results[k] \in TimesType
      /\ window \in [begin : Nat, end : Nat]
      /\ firstCi \in Nat \cup {-1}
  BY <1>r, Running
<1>4. /\ b \in Nat /\ b \in 1 .. next /\ b \in 1 .. Len(queue) /\ b \in Evaluated
      /\ since <= thread[t].since /\ thread[t].since <= now
      /\ 1 .. next \subseteq 1 .. Len(queue)
      /\ results[b].begin = thread[t].since
      /\ \A u \in Pool \ {t} : thread[u].pc \in Working => thread[u].k # b
  BY <1>1, <1>2, SMTT(30) DEF IInv, Claimed, Working, Evaluated
<1>3. /\ Pool' = Pool /\ (LoopPath' <=> LoopPath) /\ Evaluated' = Evaluated
      /\ \A l : IsEmpty(l)' <=> IsEmpty(l)
      /\ thread'[t].pc = "verify" /\ thread'[t].since = now /\ thread'[t].k = b
      /\ \A u \in Pool \ {t} : thread'[u] = thread[u]
      /\ thread' \in [1 .. threads -> [pc : PCs, since : Nat, k : Nat]]
      /\ Planned' /\ Idle' /\ Reported'
  BY <1>1, <1>4, <1>r, Moves
<1>m. ms \in Nat /\ ms <= now - thread[t].since
  BY <1>2, <1>4
<1>5. /\ results' \in [1 .. Len(queue) -> TimesType]
      /\ results'[b].create = ms
      /\ \A l \in 1 .. Len(queue) : /\ results'[l].begin = results[l].begin
                                    /\ results'[l].end = results[l].end
                                    /\ l # b => results'[l] = results[l]
  <2>1. results \in [1 .. Len(queue) -> TimesType]
    BY DEF IInv, Typed
  <2> HIDE DEF b
  <2> QED
    BY <1>0, <1>4, <1>m, <2>1 DEF TimesType
<1>6. /\ \A u \in Pool \ {t} : sums'[u] = sums[u]
      /\ sums'[t].create = sums[t].create + ms
      /\ sums'[t].verify = sums[t].verify
      /\ sums'[t].relic_init = sums[t].relic_init
      /\ sums'[t].relic_clean = sums[t].relic_clean
      /\ sums' \in [1 .. threads -> SumsType]
      /\ sums[t].create \in Nat /\ sums[t].verify \in Nat
  <2>1. sums \in [1 .. threads -> SumsType]
    BY DEF IInv, Typed
  <2>2. \A p \in Nat : p + ms \in Nat
    BY <1>m
  <2> QED
    BY <1>0, <1>2, <1>m, <2>1, <2>2 DEF SumsType
<1> HIDE DEF b
<1>7. Typed'
  BY <1>1, <1>2, <1>3, <1>5, <1>6 DEF IInv, Typed
<1>8. Claimed'
  BY <1>1, <1>r, <1>4, <1>5, ClaimsKept DEF b, Working
<1>9. LoopTimes'
  <2> SUFFICES ASSUME LoopPath
               PROVE  /\ since + sums'[1].relic_init = window.begin
                      /\ window.begin <= thread'[1].since
                      /\ window.begin + sums'[1].create + sums'[1].verify
                           <= thread'[1].since
    BY <1>1, <1>2, <1>3 DEF LoopTimes
  <2>1. /\ since + sums[1].relic_init = window.begin
        /\ window.begin <= thread[1].since
        /\ window.begin + sums[1].create + sums[1].verify <= thread[1].since
        /\ window.begin \in Nat
    BY <1>1, <1>2 DEF IInv, LoopTimes
  <2>3. thread[1].since \in Nat /\ thread[1].since <= now /\ thread'[1].since = now
    BY <1>2, <1>3, <1>4
  <2>4. window.begin + (sums[1].create + ms) + sums[1].verify <= now
    BY <1>2, <1>6, <2>1, <2>3, AddedByThen
  <2>5. window.begin <= now
    BY <1>2, <2>1, <2>3
  <2>6. /\ sums'[1].relic_init = sums[1].relic_init
        /\ sums'[1].create = sums[1].create + ms
        /\ sums'[1].verify = sums[1].verify
    BY <1>2, <1>6
  <2> QED
    BY <2>1, <2>3, <2>4, <2>5, <2>6
<1>10. PoolTimes'
  <2>1. ASSUME ~LoopPath
        PROVE  /\ since + sums'[t].create + sums'[t].verify <= now
               /\ since + sums'[t].relic_init <= now
               /\ since + sums'[t].relic_clean <= now
    <3>1. since + sums[t].create + sums[t].verify <= thread[t].since
      BY <1>2, <2>1 DEF IInv, PoolTimes
    <3>2. since + (sums[t].create + ms) + sums[t].verify <= now
      BY <1>2, <1>4, <1>6, <3>1, AddedByThen
    <3> QED
      BY <1>r, <1>6, <2>1, <3>2, SumsFit
  <2> QED
    BY <1>1, <1>r, <1>4, <1>6, <2>1, PoolTimesKept
<1>11. BucketTimes'
  BY <1>1, <1>2, <1>4, <1>5 DEF IInv, BucketTimes
<1>12. firstCi' \in Nat
  BY <1>1, <1>2
<1>13. PoolWindow'
  <2>1. /\ firstCi # -1 =>
             \E k \in Evaluated \cap (1 .. next) :
               /\ results[k].begin + results[k].create <= firstCi
               /\ \A u \in Pool : thread[u].pc = "create" => thread[u].k # k
        /\ lastResult # -1 =>
             \E k \in Evaluated \cap (1 .. next) : lastResult <= results[k].end
        /\ lastResult <= now
    BY <1>2 DEF IInv, PoolWindow
  <2>2. \E k \in Evaluated \cap (1 .. next) :
          /\ results'[k].begin + results'[k].create <= firstCi'
          /\ \A u \in Pool : thread'[u].pc = "create" => thread'[u].k # k
    <3>1. CASE firstCi = -1
      <4>1. thread[t].since + ms <= now
        BY <1>2, <1>4, <1>m
      <4>2. results'[b].begin + results'[b].create <= firstCi'
        BY <1>1, <1>4, <1>5, <3>1, <4>1
      <4>3. \A u \in Pool : thread'[u].pc = "create" => thread'[u].k # b
        BY <1>3, <1>4 DEF Working
      <4> QED
        BY <1>4, <4>2, <4>3
    <3>2. CASE firstCi # -1
      <4>1. PICK k \in Evaluated \cap (1 .. next) :
              /\ results[k].begin + results[k].create <= firstCi
              /\ \A u \in Pool : thread[u].pc = "create" => thread[u].k # k
        BY <2>1, <3>2
      <4>2. k # b /\ results'[k] = results[k] /\ firstCi' = firstCi
        BY <1>1, <1>4, <1>5, <3>2, <4>1 DEF b
      <4>3. \A u \in Pool : thread'[u].pc = "create" => thread'[u].k # k
        BY <1>3, <4>1
      <4> QED
        BY <4>1, <4>2, <4>3
    <3> QED
      BY <3>1, <3>2
  <2>3. \A k \in 1 .. next : results'[k].end = results[k].end
    BY <1>4, <1>5
  <2> QED
    BY <1>1, <1>3, <2>1, <2>2, <2>3 DEF PoolWindow
<1>14. LoopWindow'
  <2> SUFFICES ASSUME LoopPath
               PROVE  LoopWindow'
    BY <1>3 DEF LoopWindow
  <2>1. /\ firstCi = -1 => \A k \in 1 .. next : k # next => IsEmpty(k)
        /\ lastResult <= now
        /\ t = 1 /\ b = next
        /\ window.begin <= thread[1].since /\ window.begin \in Nat
    BY <1>1, <1>2 DEF b, IInv, LoopWindow, PoolWindow, LoopTimes, Working
  <2>2. \E k \in Evaluated \cap (1 .. next) :
          /\ \A l \in Evaluated : k <= l
          /\ window.begin + results'[k].create <= firstCi'
    <3>1. CASE firstCi = -1
      <4>1. \A l \in Evaluated : b <= l
        BY <1>2, <2>1, <3>1 DEF Evaluated
      <4>2. window.begin + ms <= now
        BY <1>2, <1>4, <1>m, <2>1
      <4> QED
        BY <1>1, <1>4, <1>5, <3>1, <4>1, <4>2
    <3>2. CASE firstCi # -1
      <4>1. PICK k \in Evaluated \cap (1 .. next) :
              /\ \A l \in Evaluated : k <= l
              /\ k # next
              /\ window.begin + results[k].create <= firstCi
        BY <1>1, <1>2, <2>1, <3>2 DEF IInv, LoopWindow
      <4>2. results'[k] = results[k] /\ firstCi' = firstCi
        BY <1>1, <1>4, <1>5, <2>1, <3>2, <4>1
      <4> QED
        BY <4>1, <4>2
    <3> QED
      BY <3>1, <3>2
  <2> QED
    BY <1>1, <1>3, <1>12, <2>1, <2>2 DEF LoopWindow, Working
<1> QED
  BY <1>3, <1>7, <1>8, <1>9, <1>10, <1>11, <1>13, <1>14 DEF IInv

LEMMA VerifiedKeeps ==
  ASSUME IInv, NEW t \in Pool, Verified(t)
  PROVE  IInv'
<1> DEFINE b == thread[t].k
<1>0. PICK ms \in 0 .. now - thread[t].since :
        /\ results' = [results EXCEPT ![b].verify = ms, ![b].end = now]
        /\ sums' = [sums EXCEPT ![t].verify = @ + ms]
  BY DEF Verified
<1>1. /\ thread[t].pc = "verify" /\ Goto(t, "claim", 0)
      /\ UNCHANGED <<round, threads, queue, now, stage, since, stats>>
      /\ UNCHANGED <<next, window, firstCi>>
      /\ lastResult' = now
  BY DEF Verified
<1>r. thread[t].pc \notin {"off", "joined"} /\ "claim" \in PCs /\ 0 \in Nat
  BY <1>1 DEF PCs
<1>2. /\ stage = "eval" /\ now \in Nat /\ since \in Nat /\ since <= now
      /\ next \in Nat /\ next <= Len(queue) /\ Len(queue) \in Nat
      /\ DOMAIN queue = 1 .. Len(queue)
      /\ Pool \subseteq 1 .. threads /\ threads \in Nat
      /\ LoopPath => Pool = {1} /\ t = 1
      /\ \A u \in Pool : /\ thread[u].since \in Nat /\ thread[u].k \in Nat
                         /\ sums[u] \in SumsType
      /\ \A k \in 1 .. Len(queue) : results[k] \in TimesType
      /\ window \in [begin : Nat, end : Nat]
  BY <1>r, Running
<1>3. /\ Pool' = Pool /\ (LoopPath' <=> LoopPath) /\ Evaluated' = Evaluated
      /\ \A l : IsEmpty(l)' <=> IsEmpty(l)
      /\ thread'[t].pc = "claim" /\ thread'[t].since = now
      /\ \A u \in Pool \ {t} : thread'[u] = thread[u]
      /\ thread' \in [1 .. threads -> [pc : PCs, since : Nat, k : Nat]]
      /\ Planned' /\ Idle' /\ Reported'
  BY <1>1, <1>r, Moves
<1>4. /\ b \in 1 .. next /\ b \in 1 .. Len(queue) /\ b \in Evaluated
      /\ since <= thread[t].since /\ thread[t].since <= now
      /\ 1 .. next \subseteq 1 .. Len(queue)
  BY <1>1, <1>2, SMTT(30) DEF IInv, Claimed, Working, Evaluated
<1>m. ms \in Nat /\ ms <= now - thread[t].since
  BY <1>2, <1>4
<1>5. /\ results' \in [1 .. Len(queue) -> TimesType]
      /\ results'[b].end = now
      /\ \A l \in 1 .. Len(queue) : /\ results'[l].begin = results[l].begin
                                    /\ results'[l].create = results[l].create
                                    /\ l # b => results'[l] = results[l]
  <2>1. results \in [1 .. Len(queue) -> TimesType]
    BY DEF IInv, Typed
  <2> HIDE DEF b
  <2> QED
    BY <1>0, <1>2, <1>4, <1>m, <2>1 DEF TimesType
<1>6. /\ \A u \in Pool \ {t} : sums'[u] = sums[u]
      /\ sums'[t].create = sums[t].create
      /\ sums'[t].verify = sums[t].verify + ms
      /\ sums'[t].relic_init = sums[t].relic_init
      /\ sums'[t].relic_clean = sums[t].relic_clean
      /\ sums' \in [1 .. threads -> SumsType]
      /\ sums[t].create \in Nat /\ sums[t].verify \in Nat
  <2>1. sums \in [1 .. threads -> SumsType]
    BY DEF IInv, Typed
  <2>2. \A p \in Nat : p + ms \in Nat
    BY <1>m
  <2> QED
    BY <1>0, <1>2, <1>m, <2>1, <2>2 DEF SumsType
<1> HIDE DEF b
<1>7. Typed'
  BY <1>1, <1>2, <1>3, <1>5, <1>6 DEF IInv, Typed
<1>8. Claimed'
  BY <1>1, <1>r, <1>5, ClaimsKept
<1>9. LoopTimes'
  <2> SUFFICES ASSUME LoopPath
               PROVE  /\ since + sums'[1].relic_init = window.begin
                      /\ window.begin <= thread'[1].since
                      /\ window.begin + sums'[1].create + sums'[1].verify
                           <= thread'[1].since
    BY <1>1, <1>2, <1>3 DEF LoopTimes
  <2>1. /\ since + sums[1].relic_init = window.begin
        /\ window.begin <= thread[1].since
        /\ window.begin + sums[1].create + sums[1].verify <= thread[1].since
        /\ window.begin \in Nat
    BY <1>1, <1>2 DEF IInv, LoopTimes
  <2>3. thread[1].since \in Nat /\ thread[1].since <= now /\ thread'[1].since = now
    BY <1>2, <1>3, <1>4
  <2>4. window.begin + sums[1].create + (sums[1].verify + ms) <= now
    BY <1>2, <1>6, <2>1, <2>3, AddedByThen
  <2>5. window.begin <= now
    BY <1>2, <2>1, <2>3
  <2>6. /\ sums'[1].relic_init = sums[1].relic_init
        /\ sums'[1].create = sums[1].create
        /\ sums'[1].verify = sums[1].verify + ms
    BY <1>2, <1>6
  <2> QED
    BY <2>1, <2>3, <2>4, <2>5, <2>6
<1>10. PoolTimes'
  <2>1. ~LoopPath => /\ since + sums'[t].create + sums'[t].verify <= now
                     /\ since + sums'[t].relic_init <= now
                     /\ since + sums'[t].relic_clean <= now
    <3> SUFFICES ASSUME ~LoopPath
                 PROVE  /\ since + sums'[t].create + sums'[t].verify <= now
                        /\ since + sums'[t].relic_init <= now
                        /\ since + sums'[t].relic_clean <= now
      OBVIOUS
    <3>1. since + sums[t].create + sums[t].verify <= thread[t].since
      BY <1>2 DEF IInv, PoolTimes
    <3>2. since + sums[t].create + (sums[t].verify + ms) <= now
      BY <1>2, <1>4, <1>6, <3>1, AddedByThen
    <3> QED
      BY <1>r, <1>6, <3>2, SumsFit
  <2> QED
    BY <1>1, <1>r, <1>6, <2>1, PoolTimesKept
<1>11. BucketTimes'
  <2>1. /\ \A k \in 1 .. next : since <= results[k].begin
        /\ \A k \in 1 .. Len(queue) : results[k].end <= now
    BY <1>2 DEF IInv, BucketTimes
  <2>2. \A k \in 1 .. next : since <= results'[k].begin
    BY <1>4, <1>5, <2>1
  <2>3. \A k \in 1 .. Len(queue) : results'[k].end <= now
    BY <1>2, <1>5, <2>1
  <2> QED
    BY <1>1, <2>2, <2>3 DEF BucketTimes
<1>12. \A k \in 1 .. next : /\ results'[k].begin = results[k].begin
                            /\ results'[k].create = results[k].create
  BY <1>4, <1>5
<1>13. PoolWindow'
  <2>1. firstCi # -1 =>
          \E k \in Evaluated \cap (1 .. next) :
            /\ results'[k].begin + results'[k].create <= firstCi
            /\ \A u \in Pool : thread'[u].pc = "create" => thread'[u].k # k
    <3> SUFFICES ASSUME firstCi # -1
                 PROVE  \E k \in Evaluated \cap (1 .. next) :
                          /\ results'[k].begin + results'[k].create <= firstCi
                          /\ \A u \in Pool :
                               thread'[u].pc = "create" => thread'[u].k # k
      OBVIOUS
    <3>1. PICK k \in Evaluated \cap (1 .. next) :
            /\ results[k].begin + results[k].create <= firstCi
            /\ \A u \in Pool : thread[u].pc = "create" => thread[u].k # k
      BY <1>2 DEF IInv, PoolWindow
    <3>2. \A u \in Pool : thread'[u].pc = "create" => thread'[u].k # k
      BY <1>3, <3>1
    <3> QED
      BY <1>12, <3>1, <3>2
  <2>2. lastResult' <= results'[b].end
    BY <1>1, <1>2, <1>5
  <2> QED
    BY <1>1, <1>2, <1>3, <1>4, <2>1, <2>2, SMTT(30) DEF PoolWindow
<1>14. LoopWindow'
  <2> SUFFICES ASSUME LoopPath
               PROVE  LoopWindow'
    BY <1>3 DEF LoopWindow
  <2>1. t = 1 /\ firstCi # -1
    BY <1>1, <1>2 DEF IInv, LoopWindow
  <2>2. \E k \in Evaluated \cap (1 .. next) :
          /\ \A l \in Evaluated : k <= l
          /\ window.begin + results[k].create <= firstCi
    BY <1>1, <1>2, <2>1 DEF IInv, LoopWindow
  <2>3. lastResult' <= now
    BY <1>1, <1>2
  <2> QED
    BY <1>1, <1>3, <1>12, <2>1, <2>2, <2>3 DEF LoopWindow, Working
<1> QED
  BY <1>3, <1>7, <1>8, <1>9, <1>10, <1>11, <1>13, <1>14 DEF IInv

LEMMA ClaimNothingKeeps ==
  ASSUME IInv, NEW t \in Pool, ClaimNothing(t)
  PROVE  IInv'
<1>1. /\ thread[t].pc = "claim" /\ Goto(t, "clean", 0) /\ next >= Len(queue)
      /\ UNCHANGED <<round, threads, queue, now, stage, since, stats>>
      /\ UNCHANGED <<next, sums, results, firstCi, lastResult>>
      /\ window' = IF LoopPath THEN [window EXCEPT !.end = now] ELSE window
  BY DEF ClaimNothing
<1>r. thread[t].pc \notin {"off", "joined"} /\ 0 \in Nat /\ "clean" \in PCs
  BY <1>1 DEF PCs
<1>2. /\ stage = "eval" /\ now \in Nat /\ since \in Nat /\ since <= now
      /\ LoopPath => Pool = {1} /\ t = 1
      /\ \A u \in Pool : thread[u].since \in Nat /\ sums[u] \in SumsType
      /\ window \in [begin : Nat, end : Nat]
      /\ lastResult \in Nat \cup {-1}
  BY <1>r, Running
<1>3. /\ Pool' = Pool /\ (LoopPath' <=> LoopPath) /\ Evaluated' = Evaluated
      /\ \A l : IsEmpty(l)' <=> IsEmpty(l)
      /\ thread'[t].pc = "clean" /\ thread'[t].since = now
      /\ \A u \in Pool \ {t} : thread'[u] = thread[u]
      /\ thread' \in [1 .. threads -> [pc : PCs, since : Nat, k : Nat]]
      /\ Planned' /\ Idle' /\ Reported'
  BY <1>1, <1>r, Moves
<1>4. since <= thread[t].since /\ thread[t].since <= now
  BY <1>2 DEF IInv, Claimed
<1>6. /\ LoopPath => window'.end = now /\ window'.begin = window.begin
      /\ ~LoopPath => window' = window
      /\ window' \in [begin : Nat, end : Nat]
  BY <1>1, <1>2
<1>7. Typed'
  BY <1>1, <1>3, <1>6 DEF IInv, Typed
<1>8. Claimed'
  BY <1>1, <1>r, ClaimsKept
<1>9. LoopTimes'
  <2> SUFFICES ASSUME LoopPath
               PROVE  /\ since + sums[1].relic_init = window.begin
                      /\ window.begin <= now
                      /\ window.begin + sums[1].create + sums[1].verify <= now
    BY <1>1, <1>2, <1>3, <1>6 DEF LoopTimes
  <2>1. /\ since + sums[1].relic_init = window.begin
        /\ window.begin <= thread[1].since
        /\ window.begin + sums[1].create + sums[1].verify <= thread[1].since
    BY <1>1, <1>2 DEF IInv, LoopTimes
  <2>2. sums[1].create \in Nat /\ sums[1].verify \in Nat /\ window.begin \in Nat
    BY <1>2 DEF SumsType
  <2>3. thread[1].since \in Nat /\ thread[1].since <= now
    BY <1>2, <1>4
  <2>4. window.begin + sums[1].create + sums[1].verify <= now
    BY <1>2, <2>1, <2>2, <2>3, ByThen
  <2> QED
    BY <1>2, <2>1, <2>2, <2>3, <2>4
<1>10. PoolTimes'
  BY <1>1, <1>r, <1>6, SumsFit, PoolTimesKept
<1>11. BucketTimes'
  BY <1>1 DEF IInv, BucketTimes
<1>12. PoolWindow'
  BY <1>1, <1>2, <1>3 DEF IInv, PoolWindow
<1>13. LoopWindow'
  <2> SUFFICES ASSUME LoopPath
               PROVE  LoopWindow'
    BY <1>3 DEF LoopWindow
  <2>1. lastResult <= now /\ t = 1
    BY <1>2 DEF IInv, PoolWindow
  <2> QED
    BY <1>1, <1>2, <1>3, <1>6, <2>1 DEF IInv, LoopWindow, Working
<1> QED
  BY <1>3, <1>7, <1>8, <1>9, <1>10, <1>11, <1>12, <1>13 DEF IInv

LEMMA CleanDoneKeeps ==
  ASSUME IInv, NEW t \in Pool, CleanDone(t)
  PROVE  IInv'
<1>1. /\ thread[t].pc = "clean" /\ Goto(t, "joined", 0)
      /\ UNCHANGED <<round, threads, queue, now, stage, since, stats>>
      /\ UNCHANGED <<next, results, window, firstCi, lastResult>>
      /\ sums' = [sums EXCEPT ![t].relic_clean = now - thread[t].since]
  BY DEF CleanDone
<1>r. thread[t].pc \notin {"off", "joined"} /\ 0 \in Nat /\ "joined" \in PCs
  BY <1>1 DEF PCs
<1>2. /\ stage = "eval" /\ now \in Nat /\ since \in Nat /\ since <= now
      /\ Pool \subseteq 1 .. threads
      /\ LoopPath => Pool = {1} /\ t = 1
      /\ \A u \in Pool : thread[u].since \in Nat /\ sums[u] \in SumsType
      /\ window \in [begin : Nat, end : Nat]
  BY <1>r, Running
<1>3. /\ Pool' = Pool /\ (LoopPath' <=> LoopPath) /\ Evaluated' = Evaluated
      /\ \A l : IsEmpty(l)' <=> IsEmpty(l)
      /\ thread'[t].pc = "joined" /\ thread'[t].since = now
      /\ \A u \in Pool \ {t} : thread'[u] = thread[u]
      /\ thread' \in [1 .. threads -> [pc : PCs, since : Nat, k : Nat]]
      /\ Planned' /\ Idle' /\ Reported'
  BY <1>1, <1>r, Moves
<1>4. /\ thread[t].since \in Nat /\ since <= thread[t].since
      /\ thread[t].since <= now /\ now - thread[t].since \in Nat
      /\ next >= Len(queue)
  BY <1>1, <1>2 DEF IInv, Claimed
<1>5. /\ \A u \in Pool \ {t} : sums'[u] = sums[u]
      /\ sums'[t].relic_clean = now - thread[t].since
      /\ sums'[t].relic_init = sums[t].relic_init
      /\ sums'[t].create = sums[t].create /\ sums'[t].verify = sums[t].verify
      /\ sums' \in [1 .. threads -> SumsType]
  BY <1>1, <1>2, <1>4 DEF IInv, Typed, SumsType
<1>7. Typed'
  BY <1>1, <1>3, <1>5 DEF IInv, Typed
<1>8. Claimed'
  BY <1>1, <1>r, <1>4, ClaimsKept
<1>9. LoopTimes'
  <2> SUFFICES ASSUME LoopPath
               PROVE  /\ since + sums'[1].relic_init = window.begin
                      /\ window.begin <= now
                      /\ window.begin + sums'[1].create + sums'[1].verify <= window.end
                      /\ window.end + sums'[1].relic_clean = now
    BY <1>1, <1>2, <1>3 DEF LoopTimes
  <2>1. /\ since + sums[1].relic_init = window.begin
        /\ window.begin <= thread[1].since
        /\ window.begin + sums[1].create + sums[1].verify <= window.end
        /\ window.end = thread[1].since
        /\ window.begin \in Nat
    BY <1>1, <1>2 DEF IInv, LoopTimes
  <2>2. thread[1].since \in Nat /\ thread[1].since <= now
    BY <1>2, <1>4
  <2>3. /\ sums'[1].relic_init = sums[1].relic_init
        /\ sums'[1].relic_clean = now - thread[1].since
        /\ sums'[1].create = sums[1].create /\ sums'[1].verify = sums[1].verify
    BY <1>2, <1>5
  <2>4. window.begin <= now /\ thread[1].since + (now - thread[1].since) = now
    BY <1>2, <2>1, <2>2
  <2> QED
    BY <2>1, <2>3, <2>4
<1>10. PoolTimes'
  <2>1. since + (now - thread[t].since) <= now
    BY <1>2, <1>4, SMTT(30)
  <2> QED
    BY <1>1, <1>r, <1>5, <2>1, SumsFit, PoolTimesKept
<1>11. BucketTimes'
  BY <1>1 DEF IInv, BucketTimes
<1>12. PoolWindow'
  BY <1>1, <1>2, <1>3 DEF IInv, PoolWindow
<1>13. LoopWindow'
  <2> SUFFICES ASSUME LoopPath
               PROVE  LoopWindow'
    BY <1>3 DEF LoopWindow
  <2> QED
    BY <1>1, <1>2, <1>3 DEF IInv, LoopWindow, Working
<1> QED
  BY <1>3, <1>7, <1>8, <1>9, <1>10, <1>11, <1>12, <1>13 DEF IInv

----------------------------------------------------------------------------
(* The report. *)

LEMMA SumIsNumber ==
  ASSUME NEW f \in Seq(Int)
  PROVE  SumOf(f) \in Int
<1> DEFINE h == [k \in 1 .. Len(f) |-> f[k] + f[k]]
<1>1. \A k \in 1 .. Len(f) : f[k] \in Int /\ f[k] + f[k] \in Int
  OBVIOUS
<1>2. h \in Seq(Int) /\ Len(h) = Len(f) /\ \A k \in 1 .. Len(f) : h[k] = f[k] + f[k]
  BY <1>1
<1> HIDE DEF h
<1> QED
  BY <1>2, SumsAdd

(* The buckets' own totals are the sums of the parts. *)
LEMMA ByteSums ==
  ASSUME Typed
  PROVE  /\ SumOf(ci_bytes) \in Int /\ SumOf(result_bytes) \in Int
         /\ SumOf(okvs_bytes) \in Int
         /\ SumOf(p0_to_p1_bytes) = SumOf(ci_bytes) + SumOf(result_bytes)
         /\ SumOf(total_comm_bytes) = SumOf(p0_to_p1_bytes) + SumOf(okvs_bytes)
         /\ SumOf([k \in DOMAIN queue |-> queue[k].ny]) \in Int
         /\ SumOf([k \in DOMAIN queue |-> queue[k].nx]) \in Int
<1> DEFINE n == Len(queue)
<1>1. /\ n \in Nat /\ DOMAIN queue = 1 .. n
      /\ \A k \in 1 .. n : queue[k].nx \in Nat /\ queue[k].ny \in Nat
                           /\ queue[k].match_count \in Nat
                           /\ queue[k].okvs_table_bytes \in Nat
  BY PoolFacts DEF Bucket
<1>2. CiBytes \in Nat /\ ResultBytes \in Nat
  BY RoundStatsAssumption
<1> HIDE DEF n
<1>3. \A k \in 1 .. n : ResultBytes * queue[k].match_count \in Nat
  BY <1>1, <1>2
<1>4. /\ ci_bytes \in [1 .. n -> Int] /\ result_bytes \in [1 .. n -> Int]
      /\ okvs_bytes \in [1 .. n -> Int]
  BY <1>1, <1>2, <1>3 DEF ci_bytes, result_bytes, okvs_bytes, Sent
<1>5. /\ p0_to_p1_bytes = [k \in 1 .. n |-> ci_bytes[k] + result_bytes[k]]
      /\ total_comm_bytes = [k \in 1 .. n |-> p0_to_p1_bytes[k] + okvs_bytes[k]]
  BY <1>1 DEF p0_to_p1_bytes, total_comm_bytes
<1>6. p0_to_p1_bytes \in [1 .. n -> Int]
  BY <1>4, <1>5
<1>7. total_comm_bytes \in [1 .. n -> Int]
  BY <1>4, <1>5, <1>6
<1>8. \A f \in [1 .. n -> Int] : f \in Seq(Int) /\ Len(f) = n
  BY <1>1
<1>s. ASSUME NEW f \in [1 .. n -> Int], NEW g \in [1 .. n -> Int],
             NEW h \in [1 .. n -> Int], \A k \in 1 .. n : h[k] = f[k] + g[k]
      PROVE  /\ SumOf(f) \in Int /\ SumOf(g) \in Int
             /\ SumOf(h) = SumOf(f) + SumOf(g)
  <2>1. /\ f \in Seq(Int) /\ g \in Seq(Int) /\ h \in Seq(Int)
        /\ Len(f) = n /\ Len(g) = n /\ Len(h) = n
    BY <1>8
  <2> QED
    BY <1>s, <2>1, SumsAdd
<1>9. /\ [k \in DOMAIN queue |-> queue[k].ny] \in [1 .. n -> Int]
      /\ [k \in DOMAIN queue |-> queue[k].nx] \in [1 .. n -> Int]
  BY <1>1
<1>10. /\ SumOf(ci_bytes) \in Int /\ SumOf(result_bytes) \in Int
       /\ SumOf(p0_to_p1_bytes) = SumOf(ci_bytes) + SumOf(result_bytes)
  <2>1. \A k \in 1 .. n : p0_to_p1_bytes[k] = ci_bytes[k] + result_bytes[k]
    BY <1>5
  <2> QED
    BY <1>4, <1>6, <1>s, <2>1
<1>11. /\ SumOf(okvs_bytes) \in Int
       /\ SumOf(total_comm_bytes) = SumOf(p0_to_p1_bytes) + SumOf(okvs_bytes)
  <2>1. \A k \in 1 .. n : total_comm_bytes[k] = p0_to_p1_bytes[k] + okvs_bytes[k]
    BY <1>5
  <2> QED
    BY <1>4, <1>6, <1>7, <1>s, <2>1
<1>12. /\ SumOf([k \in DOMAIN queue |-> queue[k].ny]) \in Int
       /\ SumOf([k \in DOMAIN queue |-> queue[k].nx]) \in Int
  BY <1>8, <1>9, SumIsNumber
<1> QED
  BY <1>10, <1>11, <1>12

(* The evaluation as both rounds time it: the loop until it was left, the  *)
(* pool until now.                                                         *)
EvalTime == EvalTotal(IF LoopPath THEN window.end ELSE now)

(* When all threads have joined: in the loop the phases fit between the    *)
(* two clock readings, and initialising and cleaning before and after; in  *)
(* the pool everything fits.                                               *)
LEMMA JoinedTimes ==
  ASSUME IInv, stage = "eval", \A t \in Pool : thread[t].pc = "joined"
  PROVE  /\ EvalTime \in Nat
         /\ ThreadTimes.relic_init \in Nat /\ ThreadTimes.relic_clean \in Nat
         /\ ThreadTimes.create \in Nat /\ ThreadTimes.create <= EvalTime
         /\ ThreadTimes.verify \in Nat /\ ThreadTimes.verify <= EvalTime
         /\ LoopPath =>
              since + EvalTime + (ThreadTimes.relic_init + ThreadTimes.relic_clean) <= now
         /\ ~LoopPath =>
              /\ ThreadTimes.relic_init <= EvalTime /\ ThreadTimes.relic_clean <= EvalTime
              /\ EvalTime = now - since
<1>1. /\ now \in Nat /\ since \in Nat /\ since <= now
      /\ window.begin \in Nat /\ window.end \in Nat
  BY DEF IInv, Typed
<1>2. /\ Pool \subseteq 1 .. threads /\ 1 \in Pool /\ (LoopPath => Pool = {1})
      /\ \A t \in Pool : thread[t].since \in Nat
  BY PoolFacts DEF IInv, Typed
<1>3. \A t \in Pool : /\ sums[t].relic_init \in Nat /\ sums[t].relic_clean \in Nat
                      /\ sums[t].create \in Nat /\ sums[t].verify \in Nat
  BY <1>2 DEF IInv, Typed, SumsType
<1>4. \A t \in Pool : since <= thread[t].since /\ thread[t].since <= now
  BY DEF IInv, Claimed
<1> DEFINE I == {sums[t].relic_init : t \in Pool}
           C == {sums[t].relic_clean : t \in Pool}
           M == {sums[t].create : t \in Pool}
           V == {sums[t].verify : t \in Pool}
<1>5. /\ I \subseteq Nat /\ I # {} /\ C \subseteq Nat /\ C # {}
      /\ M \subseteq Nat /\ M # {} /\ V \subseteq Nat /\ V # {}
  BY <1>2, <1>3
<1>6. /\ ThreadTimes.relic_init = Max(I) /\ ThreadTimes.relic_clean = Max(C)
      /\ ThreadTimes.create = Max(M) /\ ThreadTimes.verify = Max(V)
  BY DEF ThreadTimes
<1>7. CASE LoopPath
  <2>1. EvalTime = window.end - window.begin
    BY <1>7 DEF EvalTime, EvalTotal
  <2>2. /\ since + sums[1].relic_init = window.begin
        /\ window.begin + sums[1].create + sums[1].verify <= window.end
        /\ window.end + sums[1].relic_clean = thread[1].since
    BY <1>2, <1>7 DEF IInv, LoopTimes
  <2>3. /\ sums[1].relic_init \in Nat /\ sums[1].relic_clean \in Nat
        /\ sums[1].create \in Nat /\ sums[1].verify \in Nat
        /\ thread[1].since \in Nat /\ thread[1].since <= now
    BY <1>2, <1>3, <1>4
  <2>4. /\ EvalTime \in Nat /\ sums[1].create <= EvalTime /\ sums[1].verify <= EvalTime
        /\ since + EvalTime + (sums[1].relic_init + sums[1].relic_clean) = thread[1].since
    BY <1>1, <2>1, <2>2, <2>3
  <2>5. /\ I = {sums[1].relic_init} /\ C = {sums[1].relic_clean}
        /\ M = {sums[1].create} /\ V = {sums[1].verify}
    BY <1>2, <1>7
  <2>6. ASSUME NEW x \in Nat
        PROVE  Max({x}) = x
    <3>1. Max({x}) \in {x}
      BY MaxIsGreatest
    <3> QED
      BY <3>1
  <2>7. /\ ThreadTimes.relic_init = sums[1].relic_init
        /\ ThreadTimes.relic_clean = sums[1].relic_clean
        /\ ThreadTimes.create = sums[1].create
        /\ ThreadTimes.verify = sums[1].verify
    BY <1>6, <2>3, <2>5, <2>6
  <2> QED
    BY <1>7, <2>3, <2>4, <2>7
<1>8. CASE ~LoopPath
  <2>1. window.begin = since
    BY <1>8 DEF IInv, PoolTimes
  <2>2. EvalTime = now - since /\ EvalTime \in Nat
    BY <1>1, <1>8, <2>1 DEF EvalTime, EvalTotal
  <2>3. ASSUME NEW t \in Pool
        PROVE  /\ sums[t].create <= EvalTime /\ sums[t].verify <= EvalTime
               /\ sums[t].relic_init <= EvalTime /\ sums[t].relic_clean <= EvalTime
    <3>1. /\ since + sums[t].create + sums[t].verify <= thread[t].since
          /\ since + sums[t].relic_init <= now
          /\ since + sums[t].relic_clean <= now
      BY <1>8 DEF IInv, PoolTimes
    <3>2. \A p, q, r, d, e \in Nat :
            p + q + r <= d /\ d <= e => q <= e - p /\ r <= e - p
      OBVIOUS
    <3>3. \A p, q, e \in Nat : p + q <= e => q <= e - p
      OBVIOUS
    <3> QED
      BY <1>1, <1>2, <1>3, <1>4, <2>2, <3>1, <3>2, <3>3
  <2>4. /\ \A y \in I : y <= EvalTime
        /\ \A y \in C : y <= EvalTime
        /\ \A y \in M : y <= EvalTime
        /\ \A y \in V : y <= EvalTime
    BY <2>3
  <2> HIDE DEF I, C, M, V
  <2>5. /\ Max(I) \in I /\ Max(C) \in C /\ Max(M) \in M /\ Max(V) \in V
    BY <1>5, <2>2, <2>4, MaxIsGreatest
  <2>6. /\ Max(I) \in Nat /\ Max(C) \in Nat /\ Max(M) \in Nat /\ Max(V) \in Nat
        /\ Max(I) <= EvalTime /\ Max(C) <= EvalTime /\ Max(M) <= EvalTime /\ Max(V) <= EvalTime
    BY <1>5, <2>4, <2>5
  <2> QED
    BY <1>6, <1>8, <2>2, <2>6
<1> QED
  BY <1>7, <1>8

(* The time P1 was online covers the window and fits the evaluation; in    *)
(* the pool it fits the calls that exchanged messages.                     *)
LEMMA JoinedOnline ==
  ASSUME IInv, stage = "eval", \A t \in Pool : thread[t].pc = "joined"
  PROVE  /\ Online(EvalTime) \in Int /\ Online(EvalTime) <= EvalTime
         /\ firstCi # -1 => Online(EvalTime) >= lastResult - firstCi
         /\ ~LoopPath => Online(EvalTime) <= CallWindow
<1>1. /\ now \in Nat /\ since \in Nat /\ since <= now
      /\ window.begin \in Nat /\ window.end \in Nat
      /\ firstCi \in Nat \cup {-1} /\ lastResult \in Nat \cup {-1}
      /\ next \in 0 .. Len(queue)
      /\ results \in [1 .. Len(queue) -> TimesType]
  BY DEF IInv, Typed
<1>2. Len(queue) \in Nat /\ DOMAIN queue = 1 .. Len(queue) /\ 1 \in Pool
      /\ (LoopPath => Pool = {1})
  BY PoolFacts DEF IInv
<1>3. next = Len(queue)
  <2>1. next >= Len(queue)
    BY <1>2 DEF IInv, Claimed
  <2>2. next \in Nat /\ Len(queue) \in Nat /\ next <= Len(queue)
    BY <1>1, <1>2
  <2> QED
    BY <2>1, <2>2
<1>4. Evaluated \subseteq 1 .. Len(queue) /\ Evaluated \subseteq Nat
      /\ Evaluated \cap (1 .. next) = Evaluated
  BY <1>2, <1>3 DEF Evaluated
<1>5. EvalTime \in Nat /\ (~LoopPath => EvalTime = now - since)
  BY JoinedTimes
<1>6. \A k \in Evaluated : /\ results[k].begin \in Nat /\ results[k].end \in Nat
                           /\ results[k].create \in Nat
  BY <1>1, <1>4 DEF TimesType
<1>7. CASE Evaluated = {}
  <2>1. Online(EvalTime) = 0
    BY <1>7 DEF Online
  <2>2. firstCi = -1
    BY <1>7 DEF IInv, PoolWindow
  <2>3. CallWindow = 0
    BY <1>7 DEF CallWindow
  <2> QED
    BY <1>1, <1>5, <2>1, <2>2, <2>3
<1>8. CASE Evaluated # {} /\ LoopPath
  <2> DEFINE m == Min(Evaluated)
             c == results[m].create
  <2>1. m \in Evaluated /\ \A k \in Evaluated : m <= k
    BY <1>4, <1>8, MinIsLeast
  <2>2. Online(EvalTime) = Larger(0, EvalTime - c)
    BY <1>8 DEF Online
  <2>3. c \in Nat
    BY <1>6, <2>1
  <2>4. EvalTime = window.end - window.begin
    BY <1>8 DEF EvalTime, EvalTotal
  <2>5. ASSUME firstCi # -1
        PROVE  EvalTime - c >= lastResult - firstCi
    <3>1. PICK k \in Evaluated : /\ \A l \in Evaluated : k <= l
                                 /\ window.begin + results[k].create <= firstCi
      BY <1>8, <2>5 DEF IInv, LoopWindow
    <3>2. k = m
      <4>1. k <= m /\ m <= k /\ k \in Nat /\ m \in Nat
        BY <1>4, <2>1, <3>1
      <4> QED
        BY <4>1
    <3>3. window.begin + c <= firstCi
      BY <3>1, <3>2
    <3>4. lastResult <= window.end
      BY <1>2, <1>8 DEF IInv, LoopWindow
    <3> HIDE DEF m, c
    <3> QED
      BY <1>1, <2>3, <2>4, <2>5, <3>3, <3>4
  <2> HIDE DEF m, c
  <2>6. /\ Larger(0, EvalTime - c) \in Int /\ Larger(0, EvalTime - c) <= EvalTime
        /\ Larger(0, EvalTime - c) >= EvalTime - c
    BY <1>5, <2>3 DEF Larger
  <2>7. firstCi # -1 => Larger(0, EvalTime - c) >= lastResult - firstCi
    BY <1>1, <1>5, <2>3, <2>5, <2>6
  <2> QED
    BY <1>8, <2>2, <2>6, <2>7
<1>9. CASE Evaluated # {} /\ ~LoopPath
  <2> DEFINE Ends == {results[k].end : k \in Evaluated}
             Firsts == {results[k].begin + results[k].create : k \in Evaluated}
             e == Max(Ends)
             f == Min(Firsts)
             Begins == {results[k].begin : k \in Evaluated}
             b == Min(Begins)
  <2>1. Online(EvalTime) = Larger(0, e - f)
    BY <1>9 DEF Online
  <2>2. \A k \in Evaluated : since <= results[k].begin /\ results[k].end <= now
    BY <1>3, <1>4 DEF IInv, BucketTimes
  <2>3. Ends \subseteq Nat /\ Ends # {} /\ \A y \in Ends : y <= now
    BY <1>6, <1>9, <2>2
  <2>4. Firsts \subseteq Nat /\ Firsts # {} /\ \A y \in Firsts : since <= y
    <3>1. \A p, q \in Nat : p + q \in Nat /\ (since <= p => since <= p + q)
      BY <1>1
    <3> QED
      BY <1>6, <1>9, <2>2, <3>1
  <2>5. e \in Ends /\ \A y \in Ends : e >= y
    <3> HIDE DEF Ends
    <3> QED
      BY <1>1, <2>3, MaxIsGreatest
  <2>6. f \in Firsts /\ \A y \in Firsts : f <= y
    <3> HIDE DEF Firsts
    <3> QED
      BY <2>4, MinIsLeast
  <2>7. e \in Nat /\ e <= now /\ f \in Nat /\ since <= f
    BY <2>3, <2>4, <2>5, <2>6
  <2>8. ASSUME firstCi # -1
        PROVE  f <= firstCi /\ lastResult <= e
    <3>1. PICK k \in Evaluated : results[k].begin + results[k].create <= firstCi
      BY <2>8 DEF IInv, PoolWindow
    <3>2. results[k].begin + results[k].create \in Firsts
      OBVIOUS
    <3>3. f <= firstCi
      <4>1. f <= results[k].begin + results[k].create
            /\ results[k].begin + results[k].create \in Nat
        BY <2>4, <2>6, <3>2
      <4> HIDE DEF f
      <4> QED
        BY <1>1, <2>7, <3>1, <4>1
    <3>4. CASE lastResult = -1
      <4> HIDE DEF e, f
      <4> QED
        BY <2>7, <3>3, <3>4
    <3>5. CASE lastResult # -1
      <4>1. PICK l \in Evaluated : lastResult <= results[l].end
        BY <3>5 DEF IInv, PoolWindow
      <4>2. results[l].end <= e /\ results[l].end \in Nat
        BY <1>6, <2>5
      <4> HIDE DEF e, f
      <4> QED
        BY <1>1, <2>7, <3>3, <4>1, <4>2
    <3> QED
      BY <3>4, <3>5
  <2>9. Begins \subseteq Nat /\ Begins # {}
    BY <1>6, <1>9
  <2>10. b \in Begins /\ \A y \in Begins : b <= y
    <3> HIDE DEF Begins
    <3> QED
      BY <2>9, MinIsLeast
  <2>11. PICK j \in Evaluated : f = results[j].begin + results[j].create
    <3> HIDE DEF f
    <3> QED
      BY <2>6
  <2>12. b \in Nat /\ b <= f
    <3>1. b <= results[j].begin /\ b \in Nat
      BY <2>9, <2>10
    <3>2. results[j].begin \in Nat /\ results[j].create \in Nat
      BY <1>6
    <3> HIDE DEF b, f
    <3> QED
      BY <2>11, <3>1, <3>2
  <2>13. CallWindow = Larger(0, e - b)
    BY <1>9 DEF CallWindow
  <2> HIDE DEF e, f, b, Begins
  <2>14. Larger(0, e - f) <= Larger(0, e - b)
    BY <2>7, <2>12 DEF Larger
  <2>15. /\ Larger(0, e - f) \in Int /\ Larger(0, e - f) <= EvalTime
        /\ Larger(0, e - f) >= e - f
    BY <1>1, <1>5, <1>9, <2>7 DEF Larger
  <2>16. firstCi # -1 => Larger(0, e - f) >= lastResult - firstCi
    BY <1>1, <2>7, <2>8, <2>15
  <2> QED
    BY <2>1, <2>15, <2>16, <2>13, <2>14
<1> QED
  BY <1>7, <1>8, <1>9

LEMMA JoinKeeps ==
  ASSUME IInv, Join
  PROVE  IInv'
<1> DEFINE E == EvalTime
<1>1. /\ stage = "eval" /\ stage' = "sort" /\ since' = now /\ now' = now
      /\ \A t \in Pool : thread[t].pc = "joined"
      /\ UNCHANGED <<round, threads, queue, next, thread, sums, results, window,
                     firstCi, lastResult>>
  BY DEF Join, evaluation
<1>2. now \in Nat /\ since \in Nat /\ since <= now
  BY DEF IInv, Typed
<1>3. Pool' = Pool /\ (LoopPath' <=> LoopPath)
  BY <1>1, Fixed
<1>4. Typed'
  BY <1>1, <1>2 DEF IInv, Typed
<1>5. Idle'
  BY <1>1, <1>3 DEF Idle
<1>6. Planned' /\ Claimed' /\ LoopTimes' /\ PoolTimes' /\ BucketTimes'
      /\ PoolWindow' /\ LoopWindow'
  BY <1>1
  DEF Planned, Claimed, LoopTimes, PoolTimes, BucketTimes, PoolWindow, LoopWindow
<1>7. PICK a \in 0 .. since :
        stats = [NewStats EXCEPT !.prepare = a, !.filter = since - a]
  BY <1>1 DEF IInv, Planned
<1>8. /\ E \in Nat
      /\ ThreadTimes.relic_init \in Nat /\ ThreadTimes.relic_clean \in Nat
      /\ ThreadTimes.create \in Nat /\ ThreadTimes.create <= E
      /\ ThreadTimes.verify \in Nat /\ ThreadTimes.verify <= E
      /\ LoopPath =>
           since + E + (ThreadTimes.relic_init + ThreadTimes.relic_clean) <= now
      /\ ~LoopPath =>
           /\ ThreadTimes.relic_init <= E /\ ThreadTimes.relic_clean <= E
           /\ E = now - since
  <2> HIDE DEF E
  <2> QED
    BY <1>1, JoinedTimes DEF E
<1>9. /\ Online(E) \in Int /\ Online(E) <= E
      /\ firstCi # -1 => Online(E) >= lastResult - firstCi
      /\ ~LoopPath => Online(E) <= CallWindow
  <2> HIDE DEF E
  <2> QED
    BY <1>1, JoinedOnline DEF E
<1>10. stats' =
         [stats EXCEPT
            !.eval_total = E,
            !.relic_init = ThreadTimes.relic_init,
            !.relic_clean = ThreadTimes.relic_clean,
            !.create = ThreadTimes.create, !.verify = ThreadTimes.verify,
            !.p1_online = Online(E),
            !.p1_sign_items = SumOf([k \in DOMAIN queue |-> queue[k].ny]),
            !.p0_verify_items = SumOf([k \in DOMAIN queue |-> queue[k].nx]),
            !.ci = SumOf(ci_bytes), !.okvs = SumOf(okvs_bytes),
            !.result = SumOf(result_bytes),
            !.p0_to_p1 = SumOf(p0_to_p1_bytes),
            !.p1_to_p0 = SumOf(okvs_bytes),
            !.total_comm = SumOf(total_comm_bytes)]
  BY DEF Join, EvalTime
<1> HIDE DEF E
<1>11. /\ SumOf(ci_bytes) \in Int /\ SumOf(result_bytes) \in Int
       /\ SumOf(okvs_bytes) \in Int
       /\ SumOf(p0_to_p1_bytes) = SumOf(ci_bytes) + SumOf(result_bytes)
       /\ SumOf(total_comm_bytes) = SumOf(p0_to_p1_bytes) + SumOf(okvs_bytes)
       /\ SumOf(p0_to_p1_bytes) \in Int /\ SumOf(total_comm_bytes) \in Int
       /\ SumOf([k \in DOMAIN queue |-> queue[k].ny]) \in Int
       /\ SumOf([k \in DOMAIN queue |-> queue[k].nx]) \in Int
  BY ByteSums DEF IInv
<1>12. /\ NewStats \in StatsType /\ NewStats.sort = 0 /\ NewStats.flag = 0
  BY DEF NewStats, StatsType
<1>13. /\ stats \in StatsType /\ stats.sort = 0 /\ stats.flag = 0
       /\ stats.prepare = a /\ stats.filter = since - a
       /\ a \in Nat /\ since - a \in Int
  <2>1. a \in Nat /\ a \in Int /\ since - a \in Int
    BY <1>2
  <2>2. stats \in StatsType
    BY <1>7, <1>12, <2>1 DEF StatsType
  <2> QED
    BY <1>7, <1>12, <2>1, <2>2 DEF StatsType
<1>14. stats' \in StatsType
  <2> DEFINE timed == [stats EXCEPT
                         !.eval_total = E,
                         !.relic_init = ThreadTimes.relic_init,
                         !.relic_clean = ThreadTimes.relic_clean,
                         !.create = ThreadTimes.create, !.verify = ThreadTimes.verify,
                         !.p1_online = Online(E)]
  <2>1. timed \in StatsType
    <3>1. /\ E \in Int
          /\ ThreadTimes.relic_init \in Int /\ ThreadTimes.relic_clean \in Int
          /\ ThreadTimes.create \in Int /\ ThreadTimes.verify \in Int
          /\ Online(E) \in Int
      BY <1>8, <1>9
    <3> QED
      BY <1>13, <3>1 DEF StatsType
  <2>2. stats' =
          [timed EXCEPT
             !.p1_sign_items = SumOf([k \in DOMAIN queue |-> queue[k].ny]),
             !.p0_verify_items = SumOf([k \in DOMAIN queue |-> queue[k].nx]),
             !.ci = SumOf(ci_bytes), !.okvs = SumOf(okvs_bytes),
             !.result = SumOf(result_bytes),
             !.p0_to_p1 = SumOf(p0_to_p1_bytes),
             !.p1_to_p0 = SumOf(okvs_bytes),
             !.total_comm = SumOf(total_comm_bytes)]
    BY <1>10
  <2> HIDE DEF timed
  <2> QED
    BY <1>11, <2>1, <2>2 DEF StatsType
<1>15. /\ stats'.prepare = a /\ stats'.filter = since - a /\ stats'.flag = 0
       /\ stats'.eval_total = E
       /\ stats'.relic_init = ThreadTimes.relic_init
       /\ stats'.relic_clean = ThreadTimes.relic_clean
       /\ stats'.create = ThreadTimes.create /\ stats'.verify = ThreadTimes.verify
       /\ stats'.p1_online = Online(E)
  BY <1>10, <1>13 DEF StatsType
<1>16. /\ stats'.ci = SumOf(ci_bytes) /\ stats'.okvs = SumOf(okvs_bytes)
       /\ stats'.result = SumOf(result_bytes)
       /\ stats'.p0_to_p1 = SumOf(p0_to_p1_bytes)
       /\ stats'.p1_to_p0 = SumOf(okvs_bytes)
       /\ stats'.total_comm = SumOf(total_comm_bytes)
  BY <1>10, <1>13 DEF StatsType
<1>17. Bytes'
  BY <1>11, <1>15, <1>16 DEF Bytes
<1>18. Phases' /\ OnlineWindow'
  BY <1>1, <1>3, <1>8, <1>9, <1>15, WindowFixed DEF Phases, OnlineWindow
<1>19. Stages' <= since'
  <2>1. CASE LoopPath
    <3>1. Stages' = a + (since - a) + E + (ThreadTimes.relic_init + ThreadTimes.relic_clean)
      BY <1>3, <1>15, <2>1 DEF Stages
    <3>2. a + (since - a) = since
      BY <1>2, <1>13
    <3> QED
      BY <1>1, <1>8, <2>1, <3>1, <3>2
  <2>2. CASE ~LoopPath
    <3>1. Stages' = a + (since - a) + E + 0
      BY <1>3, <1>15, <2>2 DEF Stages
    <3> QED
      BY <1>1, <1>2, <1>8, <1>13, <2>2, <3>1
  <2> QED
    BY <2>1, <2>2
<1>20. Reported'
  BY <1>1, <1>14, <1>15, <1>17, <1>18, <1>19 DEF Reported
<1> QED
  BY <1>4, <1>5, <1>6, <1>20 DEF IInv

LEMMA SortKeeps ==
  ASSUME IInv, Sort
  PROVE  IInv'
<1> DEFINE flags == IF round = "update" THEN FlagCount ELSE 0
<1>1. /\ stage = "sort" /\ stage' = "done" /\ UNCHANGED <<since, now>>
      /\ UNCHANGED <<round, threads, queue, next, thread, sums, results, window,
                     firstCi, lastResult>>
      /\ stats' = [stats EXCEPT !.sort = now - since, !.total = now,
                                !.flag = flags, !.p0_to_p1 = @ + flags,
                                !.total_comm = @ + flags]
  BY DEF Sort, evaluation
<1>2. now \in Nat /\ since \in Nat /\ since <= now
  BY DEF IInv, Typed
<1>3. Pool' = Pool /\ (LoopPath' <=> LoopPath)
  BY <1>1, Fixed
<1>4. Typed' /\ Idle'
  BY <1>1, <1>3 DEF IInv, Typed, Idle
<1>5. Planned' /\ Claimed' /\ LoopTimes' /\ PoolTimes' /\ BucketTimes'
      /\ PoolWindow' /\ LoopWindow'
  BY <1>1
  DEF Planned, Claimed, LoopTimes, PoolTimes, BucketTimes, PoolWindow, LoopWindow
<1>6. flags \in Int
  BY RoundStatsAssumption
<1> HIDE DEF flags
<1>7. /\ stats \in StatsType /\ Bytes /\ Phases /\ OnlineWindow
      /\ stats.flag = 0 /\ Stages <= since
  BY <1>1 DEF IInv, Reported
<1>8. now - since \in Int /\ now \in Int /\ stats.p0_to_p1 + flags \in Int
      /\ stats.total_comm + flags \in Int
  <2>1. stats.p0_to_p1 \in Int /\ stats.total_comm \in Int
    BY <1>7 DEF StatsType
  <2> QED
    BY <1>2, <1>6, <2>1
<1>9. stats' \in StatsType
  <2> DEFINE d == now - since
             p == stats.p0_to_p1 + flags
             c == stats.total_comm + flags
  <2>1. stats' = [stats EXCEPT !.sort = d, !.total = now, !.flag = flags,
                               !.p0_to_p1 = p, !.total_comm = c]
    BY <1>1
  <2>2. d \in Int /\ p \in Int /\ c \in Int
    BY <1>8
  <2> HIDE DEF d, p, c
  <2> QED
    BY <1>6, <1>7, <1>8, <2>1, <2>2 DEF StatsType
<1>10. /\ stats'.sort = now - since /\ stats'.total = now /\ stats'.flag = flags
       /\ stats'.p0_to_p1 = stats.p0_to_p1 + flags
       /\ stats'.total_comm = stats.total_comm + flags
       /\ stats'.ci = stats.ci /\ stats'.okvs = stats.okvs
       /\ stats'.result = stats.result /\ stats'.p1_to_p0 = stats.p1_to_p0
  BY <1>1, <1>7 DEF StatsType
<1>11. /\ stats'.prepare = stats.prepare /\ stats'.filter = stats.filter
       /\ stats'.eval_total = stats.eval_total
       /\ stats'.relic_init = stats.relic_init
       /\ stats'.relic_clean = stats.relic_clean
       /\ stats'.create = stats.create /\ stats'.verify = stats.verify
       /\ stats'.p1_online = stats.p1_online
  BY <1>1, <1>7 DEF StatsType
<1>12. Bytes'
  <2>1. \A c, r, o, g \in Int : /\ (c + r + 0) + g = c + r + g
                                /\ ((c + r + 0) + o) + g = ((c + r + 0) + g) + o
    OBVIOUS
  <2>2. stats.ci \in Int /\ stats.result \in Int /\ stats.okvs \in Int
    BY <1>7 DEF StatsType
  <2> QED
    BY <1>6, <1>7, <1>10, <2>1, <2>2 DEF Bytes
<1>13. Phases' /\ OnlineWindow'
  BY <1>1, <1>3, <1>7, <1>11, WindowFixed DEF Phases, OnlineWindow
<1>14. Stages' + stats'.sort <= stats'.total
  <2>1. Stages' = Stages
    BY <1>3, <1>11 DEF Stages
  <2>2. Stages \in Int
    BY <1>7 DEF Stages, StatsType
  <2> HIDE DEF Stages
  <2> QED
    BY <1>2, <1>7, <1>10, <2>1, <2>2
<1>15. Reported'
  BY <1>1, <1>9, <1>12, <1>13, <1>14 DEF Reported
<1> QED
  BY <1>4, <1>5, <1>15 DEF IInv

LEMMA StepHolds == IInv /\ [Next]_vars => IInv'
<1> SUFFICES ASSUME IInv, [Next]_vars PROVE IInv'
  OBVIOUS
<1>1. CASE Tick
  BY <1>1, TickKeeps
<1>2. CASE Prepare
  BY <1>2, PrepareKeeps
<1>3. CASE Filter
  BY <1>3, FilterKeeps
<1>4. CASE Join
  BY <1>4, JoinKeeps
<1>5. CASE Sort
  BY <1>5, SortKeeps
<1>6. ASSUME NEW t \in Pool,
             InitDone(t) \/ Claim(t) \/ EvalEmpty(t) \/ Created(t)
               \/ Verified(t) \/ ClaimNothing(t) \/ CleanDone(t)
      PROVE  IInv'
  BY <1>6, InitDoneKeeps, ClaimKeeps, EvalEmptyKeeps, CreatedKeeps, VerifiedKeeps,
     ClaimNothingKeeps, CleanDoneKeeps
<1>7. CASE UNCHANGED vars
  <2>1. Pool' = Pool /\ (LoopPath' <=> LoopPath) /\ Evaluated' = Evaluated
        /\ \A k : IsEmpty(k)' <=> IsEmpty(k)
    BY <1>7, Fixed DEF vars
  <2>2. Typed' /\ Planned' /\ Idle' /\ Reported'
    BY <1>7, <2>1, WindowFixed
    DEF vars, evaluation, IInv, Typed, Planned, Idle, Reported, Bytes, Phases,
        OnlineWindow, Stages
  <2>3. Claimed' /\ LoopTimes' /\ PoolTimes' /\ BucketTimes'
    BY <1>7, <2>1
    DEF vars, evaluation, IInv, Claimed, LoopTimes, PoolTimes, BucketTimes
  <2>4. PoolWindow' /\ LoopWindow'
    BY <1>7, <2>1 DEF vars, evaluation, IInv, PoolWindow, LoopWindow
  <2> QED
    BY <2>2, <2>3, <2>4 DEF IInv
<1> QED
  BY <1>1, <1>2, <1>3, <1>4, <1>5, <1>6, <1>7 DEF Next

LEMMA Invariant == Spec => []IInv
<1> QED
  BY InitHolds, StepHolds, PTL DEF Spec

----------------------------------------------------------------------------
(* The byte totals of a round are the sums of the parts it reports. *)
THEOREM BytesAlwaysAgree == Spec => []BytesAgree
<1>1. IInv => BytesAgree
  BY DEF IInv, Reported, Bytes, BytesAgree
<1> QED
  BY <1>1, Invariant, PTL

(* No phase is reported to take longer than the evaluation, in the loop or *)
(* in a pool of any size.                                                  *)
THEOREM PhasesAlwaysFit == Spec => []PhasesFitEval
<1>1. IInv => PhasesFitEval
  BY DEF IInv, Reported, Phases, PhasesFitEval
<1> QED
  BY <1>1, Invariant, PTL

(* The stages of a round never take longer than the round. *)
THEOREM StagesAlwaysFit == Spec => []StagesFitTotal
<1>1. IInv => StagesFitTotal
  <2> SUFFICES ASSUME IInv, stage = "done"
               PROVE  stats.prepare + stats.filter + stats.eval_total + stats.sort
                        + (IF LoopPath THEN stats.relic_init + stats.relic_clean ELSE 0)
                      <= stats.total
    BY DEF StagesFitTotal
  <2> DEFINE r == IF LoopPath THEN stats.relic_init + stats.relic_clean ELSE 0
  <2>1. stats \in StatsType
        /\ stats.prepare + stats.filter + stats.eval_total + r + stats.sort
             <= stats.total
    BY DEF IInv, Reported, Stages
  <2>2. /\ stats.prepare \in Int /\ stats.filter \in Int /\ stats.eval_total \in Int
        /\ stats.sort \in Int /\ stats.total \in Int /\ r \in Int
    BY <2>1 DEF StatsType
  <2>3. \A p, f, e, s, q \in Int : p + f + e + s + q = p + f + e + q + s
    OBVIOUS
  <2> HIDE DEF r
  <2>4. stats.prepare + stats.filter + stats.eval_total + stats.sort + r
        = stats.prepare + stats.filter + stats.eval_total + r + stats.sort
    BY <2>2, <2>3
  <2>5. stats.prepare + stats.filter + stats.eval_total + stats.sort + r <= stats.total
    BY <2>1, <2>4
  <2> QED
    BY <2>5 DEF r
<1> QED
  BY <1>1, Invariant, PTL

(* However the buckets were spread over the threads, the time P1 is said   *)
(* to be online covers all of its work and lies within the evaluation.     *)
THEOREM OnlineAlwaysCovers == Spec => []OnlineCoversWindow
<1>1. IInv => OnlineCoversWindow
  BY DEF IInv, Reported, OnlineWindow, OnlineCoversWindow
<1> QED
  BY <1>1, Invariant, PTL

(* In a pool of any size the time P1 is said to be online fits between the *)
(* first call that sent a ciphertext and the last one's end.               *)
THEOREM OnlineAlwaysWithin == Spec => []OnlineWithinCalls
<1>1. IInv => OnlineWithinCalls
  BY DEF IInv, Reported, OnlineWindow, OnlineWithinCalls
<1> QED
  BY <1>1, Invariant, PTL

=============================================================================
