----------------------------- MODULE Benchmark -----------------------------
(***************************************************************************)
(* The benchmark driver upsi_exp_4_3_2_bench.cpp: for every size and delta *)
(* it runs trials of the initial round, sets an update state up once, runs *)
(* trials of one update round on copies of it, compares every result with  *)
(* a reference and writes the medians of both kinds of trials as a row.    *)
(*                                                                         *)
(* A round is one step here: it fails if a bucket it has to encode holds   *)
(* an item twice, and may fail by a fault of its environment (modules      *)
(* BatchEvaluation and UpdateProtocol).  Of a trial's figures those are    *)
(* kept that do not depend on the clock: the size of the intersection and  *)
(* the changed buckets.                                                    *)
(***************************************************************************)
EXTENDS BenchmarkSets, Integers, Sequences, FiniteSets

CONSTANTS
  n_list, delta_list,  (* sequences of sizes                               *)
  Trials,              (* values of the trials argument                    *)
  MaxFaults            (* bound on the faults of the environment           *)

(* Items holds every number that the sets of some size name. *)
ASSUME BenchmarkAssumption ==
  /\ n_list \in Seq(Nat \ {0}) /\ delta_list \in Seq(Nat \ {0})
  /\ Items \subseteq Nat
  /\ \A k \in DOMAIN n_list : 1 .. n_list[k] + n_list[k] \div 2 \subseteq Items
  /\ Trials \subseteq Nat
  /\ MaxFaults \in Nat

VARIABLES
  pc,
  trials,        (* the argument                                           *)
  ni, di, t,     (* the loop counters                                      *)
  base_state,    (* x_buckets, y_buckets and intersection                  *)
  points,        (* init_pts or upd_pts                                    *)
  rows,          (* rows of the CSV file                                   *)
  code,          (* exit code, -1 while the driver runs                    *)
  faults

vars == <<pc, trials, ni, di, t, base_state, points, rows, code, faults>>
loops == <<trials, ni, di>>

----------------------------------------------------------------------------
n == n_list[ni + 1]
delta_sz == DeltaSize(n, delta_list[di + 1])

x_set == XSet(n)
y_set == YSet(n)
add_set == AddSet(n, delta_sz)
del_set == DelSet(n, delta_sz)

NoState == [x_buckets |-> <<>>, y_buckets |-> <<>>, intersection |-> {}]

(* What a round computes for the buckets S, and whether it can. *)
MatchesIn(xb, yb, S) ==
  {i \in Items : BucketOf(i) \in S /\ xb[BucketOf(i)][i] > 0
                                   /\ yb[BucketOf(i)][i] > 0}
Encodable(xb, yb, S) ==
  \A b \in S : \/ \A i \in Items : xb[b][i] = 0
               \/ \A i \in Items : yb[b][i] <= 1

xb0 == BuildBuckets(x_set)
yb0 == BuildBuckets(y_set)

NonEmptyBuckets ==
  {b \in BucketIds : \E i \in Items : xb0[b][i] > 0 \/ yb0[b][i] > 0}

(* The element in the middle of the sorted values, the upper of the two if *)
(* their number is even, 0 if there is none.                               *)
Median(xs) ==
  IF xs = <<>> THEN 0
  ELSE CHOOSE v \in {xs[i] : i \in DOMAIN xs} :
         /\ Cardinality({i \in DOMAIN xs : xs[i] < v}) <= Len(xs) \div 2
         /\ Cardinality({i \in DOMAIN xs : xs[i] <= v}) > Len(xs) \div 2

(* MedianStat takes the median of every figure on its own. *)
MedianStat ==
  [intersection |-> Median([i \in DOMAIN points |-> points[i].intersection]),
   changed |-> Median([i \in DOMAIN points |-> points[i].changed])]

Row(stage) ==
  [stage |-> stage, n |-> n, delta |-> delta_sz, trials |-> trials,
   median |-> MedianStat]

Exit(c) == pc' = "exit" /\ code' = c

(* The file did not open, a round returned false, or its result is not the *)
(* reference.                                                              *)
Fault == faults < MaxFaults /\ faults' = faults + 1

----------------------------------------------------------------------------
Init ==
  /\ pc = "open"
  /\ trials \in Trials
  /\ ni = 0 /\ di = 0 /\ t = 0
  /\ base_state = NoState
  /\ points = <<>> /\ rows = <<>>
  /\ code = -1 /\ faults = 0

OpenCsv ==
  /\ pc = "open" /\ pc' = "point"
  /\ UNCHANGED <<loops, t, base_state, points, rows, code, faults>>

(* The output file cannot be opened: nothing has been run yet.             *)
OpenFails ==
  /\ pc = "open"
  /\ Fault /\ Exit(1)
  /\ UNCHANGED <<loops, t, base_state, points, rows>>

Point ==
  /\ pc = "point"
  /\ IF ni < Len(n_list)
       THEN pc' = "delta" /\ UNCHANGED code
       ELSE Exit(0)
  /\ di' = 0
  /\ UNCHANGED <<trials, ni, t, base_state, points, rows, faults>>

(* Mutant: off by one, the last delta is left out. *)
DeltaButLast ==
  /\ pc = "delta"
  /\ IF di + 1 < Len(delta_list)
       THEN pc' = "initial" /\ UNCHANGED ni
       ELSE pc' = "point" /\ ni' = ni + 1
  /\ t' = 0 /\ points' = <<>>
  /\ UNCHANGED <<trials, di, base_state, rows, code, faults>>

Delta ==
  /\ pc = "delta"
  /\ IF di < Len(delta_list)
       THEN pc' = "initial" /\ UNCHANGED ni
       ELSE pc' = "point" /\ ni' = ni + 1
  /\ t' = 0 /\ points' = <<>>
  /\ UNCHANGED <<trials, di, base_state, rows, code, faults>>

(* Without the fault the round succeeds where its buckets can be encoded.  *)
(* The pool and the loop evaluate every bucket.                            *)
InitialTrial ==
  /\ pc = "initial" /\ t < trials
  /\ LET result == MatchesIn(xb0, yb0, BucketIds)
     IN IF /\ Encodable(xb0, yb0, BucketIds)
           /\ result = NaiveIntersection(x_set, y_set)
          THEN /\ points' = Append(points,
                    [intersection |-> Cardinality(result),
                     changed |-> Cardinality(NonEmptyBuckets)])
               /\ t' = t + 1
               /\ UNCHANGED <<pc, code>>
          ELSE Exit(1) /\ UNCHANGED <<points, t>>
  /\ UNCHANGED <<loops, base_state, rows, faults>>

InitialTrialFails ==
  /\ pc = "initial" /\ t < trials
  /\ Fault /\ Exit(1)
  /\ UNCHANGED <<loops, t, base_state, points, rows>>

InitialRow ==
  /\ pc = "initial" /\ t = trials
  /\ rows' = Append(rows, Row("initial"))
  /\ pc' = "setup"
  /\ UNCHANGED <<loops, t, base_state, points, code, faults>>

Setup ==
  /\ pc = "setup"
  /\ LET result == MatchesIn(xb0, yb0, BucketIds)
     IN IF /\ Encodable(xb0, yb0, BucketIds)
           /\ result = NaiveIntersection(x_set, y_set)
          THEN /\ base_state' = [x_buckets |-> xb0, y_buckets |-> yb0,
                                 intersection |-> result]
               /\ pc' = "update" /\ UNCHANGED code
          ELSE Exit(1) /\ UNCHANGED base_state
  /\ t' = 0 /\ points' = <<>>
  /\ UNCHANGED <<loops, rows, faults>>

SetupFails ==
  /\ pc = "setup"
  /\ Fault /\ Exit(1)
  /\ UNCHANGED <<loops, t, base_state, points, rows>>

(* What an update round leaves in its state, and the buckets it flags.     *)
flags == ChangedFlags(base_state.y_buckets, add_set, del_set)
updated == ApplyBucketDelta(base_state.y_buckets, add_set, del_set)
updated_intersection ==
  {i \in base_state.intersection : BucketOf(i) \notin flags}
    \cup MatchesIn(base_state.x_buckets, updated, flags)

UpdateSucceeds ==
  /\ Encodable(base_state.x_buckets, updated, flags)
  /\ updated_intersection =
       NaiveIntersection(x_set, LiveAfter(y_set, add_set, del_set))

UpdatePoint == [intersection |-> Cardinality(updated_intersection),
                changed |-> Cardinality(flags)]

(* Mutant: the round runs on the state itself, not on a copy. *)
UpdateTrialInPlace ==
  /\ pc = "update" /\ t < trials
  /\ IF UpdateSucceeds
       THEN /\ points' = Append(points, UpdatePoint)
            /\ base_state' = [base_state EXCEPT !.y_buckets = updated,
                                !.intersection = updated_intersection]
            /\ t' = t + 1
            /\ UNCHANGED <<pc, code>>
       ELSE Exit(1) /\ UNCHANGED <<points, t, base_state>>
  /\ UNCHANGED <<loops, rows, faults>>

(* A copy of base_state is updated: base_state stays. *)
UpdateTrial ==
  /\ pc = "update" /\ t < trials
  /\ IF UpdateSucceeds
       THEN /\ points' = Append(points, UpdatePoint)
            /\ t' = t + 1
            /\ UNCHANGED <<pc, code>>
       ELSE Exit(1) /\ UNCHANGED <<points, t>>
  /\ UNCHANGED <<loops, base_state, rows, faults>>

UpdateTrialFails ==
  /\ pc = "update" /\ t < trials
  /\ Fault /\ Exit(1)
  /\ UNCHANGED <<loops, t, base_state, points, rows>>

UpdateRow ==
  /\ pc = "update" /\ t = trials
  /\ rows' = Append(rows, Row("update"))
  /\ di' = di + 1
  /\ pc' = "delta"
  /\ UNCHANGED <<trials, ni, t, base_state, points, code, faults>>

Next ==
  \/ OpenCsv \/ OpenFails
  \/ Point \/ Delta
  \/ InitialTrial \/ InitialTrialFails \/ InitialRow
  \/ Setup \/ SetupFails
  \/ UpdateTrial \/ UpdateTrialFails \/ UpdateRow

Spec == Init /\ [][Next]_vars

----------------------------------------------------------------------------
(* The driver fails only by a fault of its environment, a file that does   *)
(* not open or a round that fails: none of its inputs makes a bucket hold  *)
(* an item twice, for even, odd and single sizes, and every result is the  *)
(* reference, in every trial.                                              *)
FailsOnlyByFault == code = 1 => faults > 0

(* When the driver returns 0 every pair of a size and a delta has its two  *)
(* rows, in order.  Deletions hit the intersection as often as additions   *)
(* do, so that both rows report the same overlap.                          *)
RowsComplete ==
  code = 0 =>
    /\ Len(rows) = 2 * Len(n_list) * Len(delta_list)
    /\ \A r \in 1 .. Len(n_list) * Len(delta_list) :
         LET first == rows[2 * r - 1]
             second == rows[2 * r]
             size == n_list[1 + ((r - 1) \div Len(delta_list))]
         IN /\ first.stage = "initial" /\ second.stage = "update"
            /\ first.n = size /\ second.n = size
            /\ first.delta = second.delta
            /\ \A row \in {first, second} :
                 row.median.intersection =
                   IF trials = 0 THEN 0 ELSE size - size \div 2

=============================================================================
