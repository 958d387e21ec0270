------------------------- MODULE Benchmark_proofs -------------------------
(***************************************************************************)
(* The benchmark driver, for every list of sizes and of deltas, every      *)
(* number of trials, every hash and number of buckets and every bound on   *)
(* faults.  That its inputs never make a round fail and always have the    *)
(* same overlap is arithmetic on the intervals of BenchmarkSets; the       *)
(* inductive invariant IInv carries it through the loops.                  *)
(***************************************************************************)
EXTENDS Benchmark, TLAPS, FiniteSetTheorems

----------------------------------------------------------------------------
(* Numbers. *)

LEMMA Half ==
  ASSUME NEW size \in Nat \ {0}
  PROVE  /\ size \div 2 \in Nat /\ size \div 2 < size
         /\ 2 * (size \div 2) <= size /\ size <= 2 * (size \div 2) + 1
OBVIOUS

(* A delta is never empty and fits beside the deleted half of X. *)
LEMMA DeltaFits ==
  ASSUME NEW size \in Nat \ {0}, NEW delta \in Nat \ {0}
  PROVE  /\ DeltaSize(size, delta) \in Nat
         /\ 1 <= DeltaSize(size, delta)
         /\ size \div 2 + DeltaSize(size, delta) <= size
<1> DEFINE h == size \div 2
<1>1. h \in Nat /\ h < size /\ 2 * h <= size
  BY Half
<1> HIDE DEF h
<1> QED
  BY <1>1 DEF DeltaSize, Smaller, Larger, h

----------------------------------------------------------------------------
(* The inputs. *)

LEMMA RunValues ==
  ASSUME NEW first \in Int, NEW last \in Int, NEW i \in Items
  PROVE  Run(first, last)[i] = IF first <= i /\ i <= last THEN 1 ELSE 0
BY DEF Run

(* An update leaves no item of side Y twice: what it adds is not there, or *)
(* it deletes it first.                                                    *)
LEMMA UpdatedSide ==
  ASSUME NEW size \in Nat \ {0}, NEW dz \in Nat, 1 <= dz, size \div 2 + dz <= size,
         NEW i \in Items
  PROVE  LET live == LiveAfter(YSet(size), AddSet(size, dz), DelSet(size, dz))
         IN live[i] = IF \/ 1 <= i /\ i <= dz
                         \/ size \div 2 + dz < i /\ i <= size + size \div 2
                        THEN 1 ELSE 0
<1> DEFINE h == size \div 2
           ys == YSet(size)
           as == AddSet(size, dz)
           ds == DelSet(size, dz)
<1>1. h \in Nat /\ i \in Nat /\ h + dz <= size
  BY Half, BenchmarkAssumption
<1>2. LiveAfter(ys, as, ds)[i] = RemoveUpTo(ys[i], ds[i]) + as[i]
  BY DEF LiveAfter
<1>3. /\ ys[i] = IF 1 + h <= i /\ i <= size + h THEN 1 ELSE 0
      /\ as[i] = IF 1 <= i /\ i <= dz THEN 1 ELSE 0
      /\ ds[i] = IF h + 1 <= i /\ i <= h + dz THEN 1 ELSE 0
  <2> HIDE DEF h
  <2> QED
    BY <1>1, RunValues DEF YSet, AddSet, DelSet, Run, h
<1> HIDE DEF h, ys, as, ds
<1>4. LiveAfter(ys, as, ds)[i] =
        IF (1 <= i /\ i <= dz) \/ (h + dz < i /\ i <= size + h) THEN 1 ELSE 0
  BY <1>1, <1>2, <1>3 DEF RemoveUpTo
<1> QED
  BY <1>4 DEF h, ys, as, ds

(* The items of the sets of a size of the list. *)
Sizes == {size \in Nat \ {0} : 1 .. size + size \div 2 \subseteq Items}

(* Half of side X lies in side Y. *)
LEMMA InitialOverlap ==
  ASSUME NEW size \in Sizes
  PROVE  Cardinality(NaiveIntersection(XSet(size), YSet(size))) = size - size \div 2
<1> DEFINE h == size \div 2
<1>1. size \in Nat \ {0} /\ h \in Nat /\ h < size /\ 1 .. size + h \subseteq Items
  BY Half DEF Sizes
<1>2. NaiveIntersection(XSet(size), YSet(size)) = h + 1 .. size
  <2> HIDE DEF h
  <2>1. ASSUME NEW i \in Items
        PROVE  XSet(size)[i] > 0 /\ YSet(size)[i] > 0 <=> i \in h + 1 .. size
    <3>1. i \in Nat
      BY BenchmarkAssumption
    <3>2. /\ XSet(size)[i] = IF 1 <= i /\ i <= size THEN 1 ELSE 0
          /\ YSet(size)[i] = IF 1 + h <= i /\ i <= size + h THEN 1 ELSE 0
      BY <1>1, RunValues DEF XSet, YSet, Run, h
    <3> QED
      BY <1>1, <3>1, <3>2
  <2>2. h + 1 .. size \subseteq Items
    BY <1>1
  <2> QED
    BY <2>1, <2>2 DEF NaiveIntersection
<1> HIDE DEF h
<1>3. Cardinality(h + 1 .. size) = size - h
  BY <1>1, FS_Interval
<1> QED
  BY <1>2, <1>3 DEF h

(* An update deletes as many items of the overlap as it adds. *)
LEMMA UpdatedOverlap ==
  ASSUME NEW size \in Sizes, NEW dz \in Nat, 1 <= dz, size \div 2 + dz <= size
  PROVE  Cardinality(NaiveIntersection(XSet(size),
                       LiveAfter(YSet(size), AddSet(size, dz), DelSet(size, dz))))
           = size - size \div 2
<1> DEFINE h == size \div 2
           live == LiveAfter(YSet(size), AddSet(size, dz), DelSet(size, dz))
           kept == h + dz + 1 .. size
           added == 1 .. dz
<1>1. /\ size \in Nat \ {0} /\ h \in Nat /\ h < size /\ h + dz <= size
      /\ 1 .. size + h \subseteq Items
  BY Half DEF Sizes
<1>2. ASSUME NEW i \in Items
      PROVE  live[i] = IF (1 <= i /\ i <= dz) \/ (h + dz < i /\ i <= size + h)
                         THEN 1 ELSE 0
  BY <1>1, UpdatedSide
<1>3. NaiveIntersection(XSet(size), live) = kept \cup added
  <2> HIDE DEF h, live
  <2>1. ASSUME NEW i \in Items
        PROVE  XSet(size)[i] > 0 /\ live[i] > 0 <=> i \in kept \cup added
    <3>1. i \in Nat
      BY BenchmarkAssumption
    <3>2. XSet(size)[i] = IF 1 <= i /\ i <= size THEN 1 ELSE 0
      BY <1>1, RunValues DEF XSet, Run
    <3> QED
      BY <1>1, <1>2, <3>1, <3>2
  <2>2. kept \cup added \subseteq Items
    BY <1>1
  <2> HIDE DEF kept, added
  <2> QED
    BY <2>1, <2>2 DEF NaiveIntersection
<1> HIDE DEF h, live
<1>4. IsFiniteSet(kept) /\ Cardinality(kept) = size - h - dz
  <2>1. h + dz + 1 \in Int /\ size \in Int /\ size - (h + dz + 1) + 1 = size - h - dz
    BY <1>1
  <2>2. h + dz + 1 > size => size - h - dz = 0
    BY <1>1
  <2> QED
    BY <2>1, <2>2, FS_Interval
<1>5. IsFiniteSet(added) /\ Cardinality(added) = dz
  BY <1>1, FS_Interval
<1>6. kept \cap added = {}
  BY <1>1
<1> HIDE DEF kept, added
<1>7. Cardinality(kept \cup added) = Cardinality(kept) + Cardinality(added)
  <2>1. Cardinality(kept \cap added) = 0
    BY <1>6, FS_EmptySet
  <2> QED
    <3>1. Cardinality(kept \cup added)
            = Cardinality(kept) + Cardinality(added) - Cardinality(kept \cap added)
      BY <1>4, <1>5, FS_Union
    <3>2. Cardinality(kept) \in Nat /\ Cardinality(added) \in Nat
      BY <1>4, <1>5, FS_CardinalityType
    <3> QED
      BY <2>1, <3>1, <3>2
<1> QED
  BY <1>1, <1>3, <1>4, <1>5, <1>7 DEF h, live

----------------------------------------------------------------------------
(* The rounds. *)

LEMMA ItemHasBucket == \A i \in Items : BucketOf(i) \in BucketIds
BY BucketAssumption DEF BucketOf, BucketIds

(* Over all buckets a round finds the reference. *)
LEMMA RoundFinds ==
  ASSUME NEW xs, NEW ys
  PROVE  MatchesIn(BuildBuckets(xs), BuildBuckets(ys), BucketIds)
           = NaiveIntersection(xs, ys)
<1>1. \A i \in Items : /\ BuildBuckets(xs)[BucketOf(i)][i] = xs[i]
                       /\ BuildBuckets(ys)[BucketOf(i)][i] = ys[i]
  BY ItemHasBucket DEF BuildBuckets
<1> QED
  BY <1>1, ItemHasBucket DEF MatchesIn, NaiveIntersection

(* A side without duplicates can be encoded. *)
LEMMA RoundEncodes ==
  ASSUME NEW xb, NEW ys, \A i \in Items : ys[i] \in {0, 1},
         NEW S \in SUBSET BucketIds
  PROVE  Encodable(xb, BuildBuckets(ys), S)
<1>1. \A b \in S, i \in Items : BuildBuckets(ys)[b][i] \in {0, 1}
  BY DEF BuildBuckets
<1>2. \A v \in {0, 1} : v <= 1
  OBVIOUS
<1> QED
  BY <1>1, <1>2 DEF Encodable

(* Applying a delta to the buckets of a set gives those of the set with    *)
(* the delta applied.                                                      *)
LEMMA DeltaApplied ==
  ASSUME NEW ys \in Bags, NEW as \in Bags, NEW ds \in Bags
  PROVE  ApplyBucketDelta(BuildBuckets(ys), as, ds) = BuildBuckets(LiveAfter(ys, as, ds))
<1>1. ASSUME NEW b \in BucketIds, NEW i \in Items
      PROVE  (IF BucketOf(i) = b
                THEN RemoveUpTo(BuildBuckets(ys)[b][i], ds[i]) + as[i]
                ELSE BuildBuckets(ys)[b][i])
               = IF BucketOf(i) = b THEN LiveAfter(ys, as, ds)[i] ELSE 0
  BY DEF BuildBuckets, LiveAfter
<1> QED
  BY <1>1, Zenon DEF ApplyBucketDelta, BuildBuckets

LEMMA RemoveNothing ==
  ASSUME NEW have \in Nat, NEW add \in Nat, NEW del \in Nat,
         ~(add > 0), ~(del > 0 /\ have > 0)
  PROVE  RemoveUpTo(have, del) + add = have
BY DEF RemoveUpTo

(* What an update keeps and what it finds anew are the reference. *)
LEMMA UpdateFinds ==
  ASSUME NEW xs, NEW ys \in Bags, NEW as \in Bags, NEW ds \in Bags,
         NEW S, S = ChangedFlags(BuildBuckets(ys), as, ds)
  PROVE  {i \in NaiveIntersection(xs, ys) : BucketOf(i) \notin S}
           \cup MatchesIn(BuildBuckets(xs), BuildBuckets(LiveAfter(ys, as, ds)), S)
         = NaiveIntersection(xs, LiveAfter(ys, as, ds))
<1> DEFINE live == LiveAfter(ys, as, ds)
<1>1. \A i \in Items : live[i] = RemoveUpTo(ys[i], ds[i]) + as[i]
  BY DEF LiveAfter
<1>2. ASSUME NEW i \in Items, BucketOf(i) \notin S
      PROVE  live[i] = ys[i]
  <2>1. BuildBuckets(ys)[BucketOf(i)][i] = ys[i]
    BY ItemHasBucket DEF BuildBuckets
  <2>2. ~(as[i] > 0) /\ ~(ds[i] > 0 /\ ys[i] > 0)
    BY <1>2, <2>1, ItemHasBucket DEF ChangedFlags
  <2>3. as[i] \in Nat /\ ds[i] \in Nat /\ ys[i] \in Nat
    BY DEF Bags
  <2> HIDE DEF live
  <2> QED
    BY <1>1, <2>2, <2>3, RemoveNothing
<1>3. \A i \in Items : /\ BuildBuckets(xs)[BucketOf(i)][i] = xs[i]
                       /\ BuildBuckets(live)[BucketOf(i)][i] = live[i]
  BY ItemHasBucket DEF BuildBuckets
<1> HIDE DEF live
<1>4. \A i \in Items :
        i \in {j \in NaiveIntersection(xs, ys) : BucketOf(j) \notin S}
                \cup MatchesIn(BuildBuckets(xs), BuildBuckets(live), S)
          <=> i \in NaiveIntersection(xs, live)
  BY <1>2, <1>3 DEF NaiveIntersection, MatchesIn
<1> QED
  BY <1>4 DEF NaiveIntersection, MatchesIn, live

----------------------------------------------------------------------------
(* The inductive invariant. *)

IsSeq(s) == \E S : s \in Seq(S)

(* The loop counters follow the control state. *)
Control ==
  /\ pc \in {"open", "point", "delta", "initial", "setup", "update", "exit"}
  /\ trials \in Nat /\ ni \in Nat /\ di \in Nat /\ t \in Nat /\ faults \in Nat
  /\ ni <= Len(n_list) /\ di <= Len(delta_list)
  /\ pc \in {"delta", "initial", "setup", "update"} => ni < Len(n_list)
  /\ pc \in {"initial", "setup", "update"} => di < Len(delta_list)
  /\ code \in {-1, 0, 1}
  /\ pc = "exit" <=> code # -1
  /\ code = 0 => ni = Len(n_list)

(* The trials of an update round start from what the set-up left. *)
StateReady ==
  pc = "update" =>
    base_state = [x_buckets |-> xb0, y_buckets |-> yb0,
                  intersection |-> NaiveIntersection(x_set, y_set)]

(* Every trial so far found the same overlap. *)
PointsExact ==
  pc \in {"initial", "update"} =>
    /\ IsSeq(points) /\ Len(points) = t /\ t <= trials
    /\ \A k \in 1 .. t : points[k].intersection = n - n \div 2

(* Two rows per pair of a size and a delta that is done, one more while    *)
(* the second is being measured.                                           *)
RowsWritten ==
  /\ IsSeq(rows)
  /\ code # 1 =>
       Len(rows) = 2 * (ni * Len(delta_list) + (IF pc \in {"open", "point", "exit"} THEN 0 ELSE di))
                     + (IF pc \in {"setup", "update"} THEN 1 ELSE 0)

IsRow(row, stage, many, a, b) ==
  /\ row.stage = stage
  /\ row.n = n_list[a + 1]
  /\ row.delta = DeltaSize(n_list[a + 1], delta_list[b + 1])
  /\ row.median.intersection =
       IF many = 0 THEN 0 ELSE n_list[a + 1] - n_list[a + 1] \div 2

RowsExact ==
  \A a \in 0 .. Len(n_list) - 1, b \in 0 .. Len(delta_list) - 1 :
    LET p == a * Len(delta_list) + b
    IN /\ 2 * p + 1 <= Len(rows) => IsRow(rows[2 * p + 1], "initial", trials, a, b)
       /\ 2 * p + 2 <= Len(rows) => IsRow(rows[2 * p + 2], "update", trials, a, b)

IInv ==
  /\ Control /\ StateReady /\ PointsExact /\ RowsWritten /\ RowsExact
  /\ FailsOnlyByFault

----------------------------------------------------------------------------
(* What a state under the invariant knows of its size and delta. *)

LEMMA Lists ==
  /\ Len(n_list) \in Nat /\ Len(delta_list) \in Nat
  /\ \A a \in 0 .. Len(n_list) - 1 : n_list[a + 1] \in Sizes
  /\ \A b \in 0 .. Len(delta_list) - 1 : delta_list[b + 1] \in Nat \ {0}
<1>1. /\ n_list \in Seq(Nat \ {0}) /\ delta_list \in Seq(Nat \ {0})
      /\ \A k \in DOMAIN n_list : 1 .. n_list[k] + n_list[k] \div 2 \subseteq Items
  BY BenchmarkAssumption
<1>2. /\ Len(n_list) \in Nat /\ Len(delta_list) \in Nat
      /\ DOMAIN n_list = 1 .. Len(n_list)
      /\ \A k \in 1 .. Len(n_list) : n_list[k] \in Nat \ {0}
      /\ \A k \in 1 .. Len(delta_list) : delta_list[k] \in Nat \ {0}
  BY <1>1
<1>3. \A a \in 0 .. Len(n_list) - 1 : a + 1 \in 1 .. Len(n_list)
  BY <1>2
<1>4. \A b \in 0 .. Len(delta_list) - 1 : b + 1 \in 1 .. Len(delta_list)
  BY <1>2
<1>5. \A k \in 1 .. Len(n_list) : n_list[k] \in Sizes
  BY <1>1, <1>2 DEF Sizes
<1> QED
  BY <1>2, <1>3, <1>4, <1>5

LEMMA CurrentSize ==
  ASSUME Control, ni < Len(n_list)
  PROVE  n \in Sizes /\ ni \in 0 .. Len(n_list) - 1
<1>1. ni \in 0 .. Len(n_list) - 1
  BY Lists DEF Control
<1> QED
  BY <1>1, Lists DEF n

LEMMA CurrentDelta ==
  ASSUME Control, ni < Len(n_list), di < Len(delta_list)
  PROVE  /\ di \in 0 .. Len(delta_list) - 1
         /\ delta_sz \in Nat /\ 1 <= delta_sz /\ n \div 2 + delta_sz <= n
<1>1. di \in 0 .. Len(delta_list) - 1
  BY Lists DEF Control
<1>2. delta_list[di + 1] \in Nat \ {0} /\ n \in Nat \ {0}
  BY <1>1, Lists, CurrentSize DEF Sizes
<1> QED
  BY <1>1, <1>2, DeltaFits DEF delta_sz

(* The set-up and every trial of the initial round can encode its buckets  *)
(* and finds the reference.                                                *)
LEMMA InitialSucceeds ==
  ASSUME Control, ni < Len(n_list)
  PROVE  /\ Encodable(xb0, yb0, BucketIds)
         /\ MatchesIn(xb0, yb0, BucketIds) = NaiveIntersection(x_set, y_set)
         /\ Cardinality(NaiveIntersection(x_set, y_set)) = n - n \div 2
<1>1. n \in Sizes
  BY CurrentSize
<1>2. \A i \in Items : y_set[i] \in {0, 1}
  BY DEF y_set, YSet, Run
<1>3. Encodable(xb0, yb0, BucketIds)
  BY <1>2, RoundEncodes DEF yb0
<1>4. MatchesIn(xb0, yb0, BucketIds) = NaiveIntersection(x_set, y_set)
  BY RoundFinds DEF xb0, yb0
<1>5. Cardinality(NaiveIntersection(x_set, y_set)) = n - n \div 2
  BY <1>1, InitialOverlap DEF x_set, y_set
<1> QED
  BY <1>3, <1>4, <1>5

(* So can and does every trial of the update round. *)
LEMMA UpdateAlwaysSucceeds ==
  ASSUME Control, StateReady, pc = "update"
  PROVE  /\ UpdateSucceeds
         /\ Cardinality(updated_intersection) = n - n \div 2
<1> DEFINE live == LiveAfter(y_set, add_set, del_set)
<1>1. /\ ni < Len(n_list) /\ di < Len(delta_list)
      /\ base_state.x_buckets = xb0 /\ base_state.y_buckets = yb0
      /\ base_state.intersection = NaiveIntersection(x_set, y_set)
  BY DEF Control, StateReady
<1>2. /\ n \in Sizes /\ n \in Nat \ {0}
      /\ delta_sz \in Nat /\ 1 <= delta_sz /\ n \div 2 + delta_sz <= n
  BY <1>1, CurrentSize, CurrentDelta DEF Sizes
<1>3. y_set \in Bags /\ add_set \in Bags /\ del_set \in Bags
  BY DEF y_set, add_set, del_set, YSet, AddSet, DelSet, Run, Bags
<1>4. updated = BuildBuckets(live)
  BY <1>1, <1>3, DeltaApplied DEF updated, yb0
<1>5. flags = ChangedFlags(BuildBuckets(y_set), add_set, del_set)
  BY <1>1 DEF flags, yb0
<1>6. flags \subseteq BucketIds
  BY <1>5 DEF ChangedFlags
<1>7. \A i \in Items : live[i] \in {0, 1}
  BY <1>2, UpdatedSide DEF y_set, add_set, del_set
<1>8. updated_intersection = NaiveIntersection(x_set, live)
  <2> DEFINE S == flags
  <2>1. {i \in NaiveIntersection(x_set, y_set) : BucketOf(i) \notin S}
          \cup MatchesIn(BuildBuckets(x_set), BuildBuckets(live), S)
        = NaiveIntersection(x_set, live)
    <3> HIDE DEF S
    <3>1. S = ChangedFlags(BuildBuckets(y_set), add_set, del_set)
      BY <1>5 DEF S
    <3> QED
      BY <1>3, <3>1, UpdateFinds
  <2> QED
    BY <1>1, <1>4, <2>1 DEF updated_intersection, xb0
<1> HIDE DEF live
<1>9. Encodable(base_state.x_buckets, updated, flags)
  BY <1>4, <1>6, <1>7, RoundEncodes
<1>10. Cardinality(NaiveIntersection(x_set, live)) = n - n \div 2
  BY <1>2, UpdatedOverlap DEF x_set, y_set, add_set, del_set, live
<1> QED
  BY <1>8, <1>9, <1>10 DEF UpdateSucceeds, live

----------------------------------------------------------------------------
(* Sequences and medians. *)

LEMMA AppendKeeps ==
  ASSUME NEW s, IsSeq(s), NEW e
  PROVE  /\ IsSeq(Append(s, e)) /\ Len(s) \in Nat
         /\ Len(Append(s, e)) = Len(s) + 1
         /\ Append(s, e)[Len(s) + 1] = e
         /\ \A k \in 1 .. Len(s) : Append(s, e)[k] = s[k]
<1>1. PICK S : s \in Seq(S)
  BY DEF IsSeq
<1> DEFINE T == S \cup {e}
<1>2. s \in [1 .. Len(s) -> S] /\ Len(s) \in Nat
  BY <1>1
<1>3. s \in Seq(T)
  <2>1. s \in [1 .. Len(s) -> T]
    BY <1>2
  <2> HIDE DEF T
  <2> QED
    BY <1>2, <2>1
<1>4. e \in T
  OBVIOUS
<1> HIDE DEF T
<1>5. Append(s, e) \in Seq(T)
  BY <1>3, <1>4
<1> QED
  BY <1>2, <1>3, <1>4, <1>5 DEF IsSeq

(* The median of one value, however often it was measured. *)
LEMMA MedianOfOneValue ==
  ASSUME NEW m \in Nat, NEW c \in Nat, NEW xs, xs \in [1 .. m -> {c}]
  PROVE  Median(xs) = IF m = 0 THEN 0 ELSE c
<1>1. xs \in Seq({c}) /\ Len(xs) = m /\ DOMAIN xs = 1 .. m
  OBVIOUS
<1>2. xs = <<>> <=> m = 0
  BY <1>1
<1>3. CASE m = 0
  BY <1>2, <1>3 DEF Median
<1>4. CASE m # 0
  <2> DEFINE Mid(v) == /\ Cardinality({i \in DOMAIN xs : xs[i] < v}) <= Len(xs) \div 2
                       /\ Cardinality({i \in DOMAIN xs : xs[i] <= v}) > Len(xs) \div 2
  <2>1. {xs[i] : i \in DOMAIN xs} = {c}
    <3>1. 1 \in DOMAIN xs /\ \A i \in DOMAIN xs : xs[i] = c
      BY <1>1, <1>4
    <3> QED
      BY <3>1
  <2>2. {i \in DOMAIN xs : xs[i] < c} = {}
    BY <1>1
  <2>3. {i \in DOMAIN xs : xs[i] <= c} = 1 .. m
    BY <1>1
  <2>4. Cardinality({}) = 0 /\ Cardinality(1 .. m) = m
    BY FS_EmptySet, FS_Interval
  <2>5. 0 <= m \div 2 /\ m > m \div 2
    BY <1>4
  <2>6. Mid(c)
    BY <1>1, <2>2, <2>3, <2>4, <2>5
  <2>7. Median(xs) = CHOOSE v \in {c} : Mid(v)
    BY <1>2, <1>4, <2>1 DEF Median
  <2> HIDE DEF Mid
  <2> QED
    BY <1>4, <2>6, <2>7
<1> QED
  BY <1>3, <1>4

(* After all its trials a row reports the common overlap. *)
LEMMA RowReports ==
  ASSUME Control, PointsExact, pc \in {"initial", "update"}, t = trials, NEW stage
  PROVE  IsRow(Row(stage), stage, trials, ni, di)
<1>1. /\ IsSeq(points) /\ Len(points) = t /\ t \in Nat
      /\ \A k \in 1 .. t : points[k].intersection = n - n \div 2
      /\ ni < Len(n_list)
  BY DEF Control, PointsExact
<1>2. n - n \div 2 \in Nat
  <2>1. n \in Nat \ {0}
    BY <1>1, CurrentSize DEF Sizes
  <2>2. n \div 2 \in Nat /\ n \div 2 < n
    BY <2>1, Half
  <2> QED
    BY <2>1, <2>2
<1> DEFINE xs == [i \in DOMAIN points |-> points[i].intersection]
           c == n - n \div 2
<1>3. DOMAIN points = 1 .. t
  BY <1>1 DEF IsSeq
<1>4. xs \in [1 .. t -> {c}]
  BY <1>1, <1>3
<1> HIDE DEF xs, c
<1>5. Median(xs) = IF t = 0 THEN 0 ELSE c
  BY <1>1, <1>2, <1>4, MedianOfOneValue DEF c
<1>6. MedianStat.intersection = IF trials = 0 THEN 0 ELSE n - n \div 2
  BY <1>5 DEF MedianStat, xs, c
<1> QED
  BY <1>6 DEF IsRow, Row, n, delta_sz

----------------------------------------------------------------------------
(* Every step keeps the invariant. *)

LEMMA ControlStep ==
  ASSUME Control, [Next]_vars
  PROVE  Control'
<1> USE DEF Control, loops
<1>a. Len(n_list) \in Nat /\ Len(delta_list) \in Nat
  BY Lists
<1>1. CASE Point
  BY <1>a, <1>1 DEF Point, Exit
<1>2. CASE Delta
  BY <1>a, <1>2 DEF Delta
<1>3. CASE InitialTrial
  BY <1>a, <1>3 DEF InitialTrial, Exit
<1>4. CASE InitialTrialFails
  BY <1>a, <1>4 DEF InitialTrialFails, Exit, Fault
<1>5. CASE InitialRow
  BY <1>a, <1>5 DEF InitialRow
<1>6. CASE Setup
  BY <1>a, <1>6 DEF Setup, Exit
<1>7. CASE SetupFails
  BY <1>a, <1>7 DEF SetupFails, Exit, Fault
<1>8. CASE UpdateTrial
  BY <1>a, <1>8 DEF UpdateTrial, Exit
<1>9. CASE UpdateTrialFails
  BY <1>a, <1>9 DEF UpdateTrialFails, Exit, Fault
<1>10. CASE UpdateRow
  BY <1>a, <1>10 DEF UpdateRow
<1>11. CASE UNCHANGED vars
  BY <1>11 DEF vars
<1>12. CASE OpenCsv
  BY <1>a, <1>12 DEF OpenCsv
<1>13. CASE OpenFails
  BY <1>a, <1>13 DEF OpenFails, Exit, Fault
<1> QED
  BY <1>1, <1>2, <1>3, <1>4, <1>5, <1>6, <1>7, <1>8, <1>9, <1>10, <1>11, <1>12,
     <1>13 DEF Next

(* While the counters stay, so do the sizes and the sets. *)
LEMMA SameInputs ==
  ASSUME UNCHANGED <<ni, di>>
  PROVE  /\ n' = n /\ delta_sz' = delta_sz /\ x_set' = x_set /\ y_set' = y_set
         /\ xb0' = xb0 /\ yb0' = yb0
BY DEF n, delta_sz, x_set, y_set, xb0, yb0

LEMMA StateReadyStep ==
  ASSUME Control, StateReady, [Next]_vars
  PROVE  StateReady'
<1> USE DEF StateReady, loops
<1>1. CASE Point
  BY <1>1 DEF Point, Exit
<1>2. CASE Delta
  BY <1>2 DEF Delta
<1>3. CASE InitialTrial
  BY <1>3 DEF InitialTrial, Exit
<1>4. CASE InitialTrialFails
  BY <1>4 DEF InitialTrialFails, Exit
<1>5. CASE InitialRow
  BY <1>5 DEF InitialRow
<1>6. CASE Setup
  <2>1. ni < Len(n_list)
    BY <1>6 DEF Setup, Control
  <2>2. /\ Encodable(xb0, yb0, BucketIds)
        /\ MatchesIn(xb0, yb0, BucketIds) = NaiveIntersection(x_set, y_set)
    BY <2>1, InitialSucceeds
  <2>3. base_state' = [x_buckets |-> xb0, y_buckets |-> yb0,
                       intersection |-> NaiveIntersection(x_set, y_set)]
    BY <1>6, <2>2 DEF Setup
  <2>4. xb0' = xb0 /\ yb0' = yb0 /\ x_set' = x_set /\ y_set' = y_set
    BY <1>6, SameInputs DEF Setup
  <2> QED
    BY <2>3, <2>4
<1>7. CASE SetupFails
  BY <1>7 DEF SetupFails, Exit
<1>8. CASE UpdateTrial
  <2>1. /\ pc = "update" /\ base_state' = base_state
        /\ xb0' = xb0 /\ yb0' = yb0 /\ x_set' = x_set /\ y_set' = y_set
    BY <1>8, SameInputs DEF UpdateTrial
  <2> QED
    BY <2>1
<1>9. CASE UpdateTrialFails
  BY <1>9 DEF UpdateTrialFails, Exit
<1>10. CASE UpdateRow
  BY <1>10 DEF UpdateRow
<1>11. CASE UNCHANGED vars
  <2>1. /\ pc' = pc /\ base_state' = base_state
        /\ xb0' = xb0 /\ yb0' = yb0 /\ x_set' = x_set /\ y_set' = y_set
    BY <1>11, SameInputs DEF vars
  <2> QED
    BY <2>1
<1>12. CASE OpenCsv
  BY <1>12 DEF OpenCsv
<1>13. CASE OpenFails
  BY <1>13 DEF OpenFails, Exit
<1> QED
  BY <1>1, <1>2, <1>3, <1>4, <1>5, <1>6, <1>7, <1>8, <1>9, <1>10, <1>11, <1>12,
     <1>13 DEF Next

(* A further trial with the overlap of the others. *)
LEMMA TrialAdds ==
  ASSUME IsSeq(points), t \in Nat, trials \in Nat, Len(points) = t, t < trials,
         \A k \in 1 .. t : points[k].intersection = n - n \div 2,
         NEW point, point.intersection = n - n \div 2,
         points' = Append(points, point), t' = t + 1, trials' = trials, n' = n
  PROVE  /\ IsSeq(points') /\ Len(points') = t' /\ t' <= trials'
         /\ \A k \in 1 .. t' : points'[k].intersection = n' - n' \div 2
<1>1. /\ IsSeq(points') /\ Len(points') = t + 1 /\ points'[t + 1] = point
      /\ \A k \in 1 .. t : points'[k] = points[k]
  BY AppendKeeps
<1>2. ASSUME NEW k \in 1 .. t + 1
      PROVE  points'[k].intersection = n - n \div 2
  <2>1. k = t + 1 \/ k \in 1 .. t
    OBVIOUS
  <2> QED
    BY <1>1, <2>1
<1> QED
  BY <1>1, <1>2

LEMMA PointsExactStep ==
  ASSUME Control, StateReady, PointsExact, [Next]_vars
  PROVE  PointsExact'
<1> USE DEF PointsExact, loops
<1>1. CASE Point
  BY <1>1 DEF Point, Exit
<1>2. CASE Delta
  <2>1. points' = <<>> /\ t' = 0 /\ trials' = trials /\ trials \in Nat
    BY <1>2 DEF Delta, Control
  <2>2. IsSeq(<<>>) /\ Len(<<>>) = 0
    <3>1. <<>> \in Seq({})
      OBVIOUS
    <3> QED
      BY <3>1 DEF IsSeq
  <2> QED
    BY <2>1, <2>2
<1>3. CASE InitialTrial
  <2>1. /\ pc = "initial" /\ t < trials /\ ni < Len(n_list)
        /\ t \in Nat /\ trials \in Nat
    BY <1>3 DEF InitialTrial, Control
  <2> DEFINE result == MatchesIn(xb0, yb0, BucketIds)
             point == [intersection |-> Cardinality(result),
                       changed |-> Cardinality(NonEmptyBuckets)]
  <2>2. Encodable(xb0, yb0, BucketIds) /\ result = NaiveIntersection(x_set, y_set)
        /\ Cardinality(result) = n - n \div 2
    BY <2>1, InitialSucceeds
  <2>3. points' = Append(points, point) /\ t' = t + 1 /\ trials' = trials
    BY <1>3, <2>2 DEF InitialTrial
  <2>4. point.intersection = n - n \div 2
    BY <2>2
  <2>5. n' = n
    BY <1>3, SameInputs DEF InitialTrial
  <2> HIDE DEF point
  <2> QED
    BY <2>1, <2>3, <2>4, <2>5, TrialAdds
<1>4. CASE InitialTrialFails
  BY <1>4 DEF InitialTrialFails, Exit
<1>5. CASE InitialRow
  BY <1>5 DEF InitialRow
<1>6. CASE Setup
  <2>1. points' = <<>> /\ t' = 0 /\ trials' = trials /\ trials \in Nat
    BY <1>6 DEF Setup, Control
  <2>2. IsSeq(<<>>) /\ Len(<<>>) = 0
    <3>1. <<>> \in Seq({})
      OBVIOUS
    <3> QED
      BY <3>1 DEF IsSeq
  <2> QED
    BY <2>1, <2>2
<1>7. CASE SetupFails
  BY <1>7 DEF SetupFails, Exit
<1>8. CASE UpdateTrial
  <2>1. pc = "update" /\ t < trials /\ t \in Nat /\ trials \in Nat
    BY <1>8 DEF UpdateTrial, Control
  <2>2. UpdateSucceeds /\ Cardinality(updated_intersection) = n - n \div 2
    BY <2>1, UpdateAlwaysSucceeds
  <2>3. points' = Append(points, UpdatePoint) /\ t' = t + 1 /\ trials' = trials
    BY <1>8, <2>2 DEF UpdateTrial
  <2>4. UpdatePoint.intersection = n - n \div 2
    BY <2>2 DEF UpdatePoint
  <2>5. n' = n
    BY <1>8, SameInputs DEF UpdateTrial
  <2> QED
    BY <2>1, <2>3, <2>4, <2>5, TrialAdds
<1>9. CASE UpdateTrialFails
  BY <1>9 DEF UpdateTrialFails, Exit
<1>10. CASE UpdateRow
  BY <1>10 DEF UpdateRow
<1>11. CASE UNCHANGED vars
  <2>1. n' = n
    BY <1>11, SameInputs DEF vars
  <2> QED
    BY <1>11, <2>1 DEF vars
<1>12. CASE OpenCsv
  BY <1>12 DEF OpenCsv
<1>13. CASE OpenFails
  BY <1>13 DEF OpenFails, Exit
<1> QED
  BY <1>1, <1>2, <1>3, <1>4, <1>5, <1>6, <1>7, <1>8, <1>9, <1>10, <1>11, <1>12,
     <1>13 DEF Next

(* None of the driver's own inputs makes it fail. *)
LEMMA FailsStep ==
  ASSUME Control, StateReady, FailsOnlyByFault, [Next]_vars
  PROVE  FailsOnlyByFault'
<1> USE DEF FailsOnlyByFault, loops
<1>1. CASE Point
  BY <1>1 DEF Point, Exit
<1>2. CASE Delta
  BY <1>2 DEF Delta
<1>3. CASE InitialTrial
  <2>1. ni < Len(n_list)
    BY <1>3 DEF InitialTrial, Control
  <2>2. code' = code /\ faults' = faults
    BY <1>3, <2>1, InitialSucceeds DEF InitialTrial
  <2> QED
    BY <2>2
<1>4. CASE InitialTrialFails
  BY <1>4 DEF InitialTrialFails, Exit, Fault, Control
<1>5. CASE InitialRow
  BY <1>5 DEF InitialRow
<1>6. CASE Setup
  <2>1. ni < Len(n_list)
    BY <1>6 DEF Setup, Control
  <2>2. code' = code /\ faults' = faults
    BY <1>6, <2>1, InitialSucceeds DEF Setup
  <2> QED
    BY <2>2
<1>7. CASE SetupFails
  BY <1>7 DEF SetupFails, Exit, Fault, Control
<1>8. CASE UpdateTrial
  <2>1. UpdateSucceeds
    BY <1>8, UpdateAlwaysSucceeds DEF UpdateTrial
  <2>2. code' = code /\ faults' = faults
    BY <1>8, <2>1 DEF UpdateTrial
  <2> QED
    BY <2>2
<1>9. CASE UpdateTrialFails
  BY <1>9 DEF UpdateTrialFails, Exit, Fault, Control
<1>10. CASE UpdateRow
  BY <1>10 DEF UpdateRow
<1>11. CASE UNCHANGED vars
  BY <1>11 DEF vars
<1>12. CASE OpenCsv
  BY <1>12 DEF OpenCsv
<1>13. CASE OpenFails
  BY <1>13 DEF OpenFails, Exit, Fault, Control
<1> QED
  BY <1>1, <1>2, <1>3, <1>4, <1>5, <1>6, <1>7, <1>8, <1>9, <1>10, <1>11, <1>12,
     <1>13 DEF Next

(* A pair of a size and a delta has one number. *)
LEMMA PairsApart ==
  ASSUME NEW D \in Nat, NEW a \in Nat, NEW b \in Nat, NEW c \in Nat, NEW d \in Nat,
         b < D, d < D, a * D + b = c * D + d
  PROVE  a = c /\ b = d
<1>1. \A e \in Nat, f \in Nat, g \in Nat, h \in Nat :
        e < f /\ g < D => e * D + g < f * D + h
  <2> SUFFICES ASSUME NEW e \in Nat, NEW f \in Nat, NEW g \in Nat, NEW h \in Nat,
                      e < f, g < D
               PROVE  e * D + g < f * D + h
    OBVIOUS
  <2> DEFINE m == f - e - 1
  <2>1. m \in Nat /\ f = e + 1 + m
    OBVIOUS
  <2>2. f * D = e * D + D + m * D /\ e * D \in Nat /\ m * D \in Nat
    <3> HIDE DEF m
    <3> QED
      BY <2>1
  <2> HIDE DEF m
  <2> QED
    BY <2>2
<1>2. ~(a < c) /\ ~(c < a)
  <2>1. a * D + b \in Nat /\ c * D + d \in Nat
    OBVIOUS
  <2> QED
    BY <1>1, <2>1
<1>3. a = c
  BY <1>2
<1>4. a * D \in Nat
  OBVIOUS
<1> QED
  BY <1>3, <1>4

LEMMA NextPair ==
  ASSUME NEW a \in Nat, NEW D \in Nat
  PROVE  (a + 1) * D = a * D + D /\ a * D \in Nat
OBVIOUS

LEMMA RowsWrittenStep ==
  ASSUME Control, RowsWritten, [Next]_vars
  PROVE  RowsWritten'
<1> DEFINE D == Len(delta_list)
           q == ni * D
<1>a. D \in Nat /\ Len(n_list) \in Nat /\ ni \in Nat /\ di \in Nat /\ di <= D
  BY Lists DEF Control
<1>b. q \in Nat /\ (ni + 1) * D = q + D
  BY <1>a, NextPair
<1>c. /\ IsSeq(rows)
      /\ code # 1 => Len(rows) = 2 * (q + (IF pc \in {"open", "point", "exit"} THEN 0 ELSE di))
                                   + (IF pc \in {"setup", "update"} THEN 1 ELSE 0)
  BY DEF RowsWritten
<1>d. pc # "exit" <=> code = -1
  BY DEF Control
<1>e. SUFFICES /\ IsSeq(rows')
               /\ code' # 1 =>
                    Len(rows') =
                      2 * (ni' * D + (IF pc' \in {"open", "point", "exit"} THEN 0 ELSE di'))
                        + (IF pc' \in {"setup", "update"} THEN 1 ELSE 0)
  BY DEF RowsWritten
<1>f. ni' = ni => ni' * D = q
  OBVIOUS
<1> HIDE DEF D, q
<1> USE DEF loops
<1>1. CASE Point
  BY <1>a, <1>b, <1>c, <1>d, <1>f, <1>1 DEF Point, Exit
<1>2. CASE Delta
  <2>1. pc = "delta" /\ rows' = rows /\ di' = di /\ Len(rows) = 2 * (q + di)
    BY <1>a, <1>b, <1>c, <1>d, <1>2 DEF Delta
  <2>2. CASE di < D
    BY <1>c, <1>f, <1>2, <2>1, <2>2, <1>a, <1>b DEF Delta, D
  <2>3. CASE ~(di < D)
    <3>1. di = D /\ pc' = "point" /\ ni' = ni + 1
      BY <1>a, <1>2, <2>3 DEF Delta, D
    <3> QED
      BY <1>a, <1>b, <1>c, <2>1, <3>1
  <2> QED
    BY <2>2, <2>3
<1>3. CASE InitialTrial
  BY <1>a, <1>b, <1>c, <1>d, <1>f, <1>3 DEF InitialTrial, Exit
<1>4. CASE InitialTrialFails
  BY <1>c, <1>4 DEF InitialTrialFails, Exit
<1>5. CASE InitialRow
  <2>1. Len(rows) = 2 * (q + di) /\ rows' = Append(rows, Row("initial"))
        /\ pc' = "setup" /\ ni' = ni /\ di' = di
    BY <1>a, <1>b, <1>c, <1>d, <1>5 DEF InitialRow
  <2>2. IsSeq(rows') /\ Len(rows') = Len(rows) + 1
    BY <1>c, <2>1, AppendKeeps
  <2> QED
    BY <1>a, <1>b, <1>f, <2>1, <2>2
<1>6. CASE Setup
  BY <1>a, <1>b, <1>c, <1>d, <1>f, <1>6 DEF Setup, Exit
<1>7. CASE SetupFails
  BY <1>c, <1>7 DEF SetupFails, Exit
<1>8. CASE UpdateTrial
  BY <1>a, <1>b, <1>c, <1>d, <1>f, <1>8 DEF UpdateTrial, Exit
<1>9. CASE UpdateTrialFails
  BY <1>c, <1>9 DEF UpdateTrialFails, Exit
<1>10. CASE UpdateRow
  <2>1. Len(rows) = 2 * (q + di) + 1 /\ rows' = Append(rows, Row("update"))
        /\ pc' = "delta" /\ ni' = ni /\ di' = di + 1
    BY <1>a, <1>b, <1>c, <1>d, <1>10 DEF UpdateRow
  <2>2. IsSeq(rows') /\ Len(rows') = Len(rows) + 1
    BY <1>c, <2>1, AppendKeeps
  <2> QED
    BY <1>a, <1>b, <1>f, <2>1, <2>2
<1>11. CASE UNCHANGED vars
  BY <1>c, <1>f, <1>11 DEF vars
<1>12. CASE OpenCsv
  BY <1>a, <1>b, <1>c, <1>d, <1>f, <1>12 DEF OpenCsv
<1>13. CASE OpenFails
  BY <1>c, <1>13 DEF OpenFails, Exit
<1> QED
  BY <1>1, <1>2, <1>3, <1>4, <1>5, <1>6, <1>7, <1>8, <1>9, <1>10, <1>11, <1>12,
     <1>13 DEF Next

(* A row is appended where the numbering of the pairs expects it. *)
LEMMA RowsGrow ==
  ASSUME IsSeq(rows), RowsExact, trials' = trials, NEW row,
         rows' = Append(rows, row), ni \in 0 .. Len(n_list) - 1,
         di \in 0 .. Len(delta_list) - 1,
         LET q == ni * Len(delta_list) + di
         IN \/ Len(rows) = 2 * q /\ IsRow(row, "initial", trials, ni, di)
            \/ Len(rows) = 2 * q + 1 /\ IsRow(row, "update", trials, ni, di)
  PROVE  RowsExact'
<1> DEFINE D == Len(delta_list)
           q == ni * D + di
           len == Len(rows)
<1>a. D \in Nat /\ Len(n_list) \in Nat /\ ni \in Nat /\ di \in Nat /\ di < D
  BY Lists
<1>b. q \in Nat
  BY <1>a
<1>1. /\ len \in Nat /\ Len(rows') = len + 1 /\ rows'[len + 1] = row
      /\ \A k \in 1 .. len : rows'[k] = rows[k]
  BY AppendKeeps
<1>2. \/ len = 2 * q /\ IsRow(row, "initial", trials, ni, di)
      \/ len = 2 * q + 1 /\ IsRow(row, "update", trials, ni, di)
  OBVIOUS
<1>3. SUFFICES ASSUME NEW a \in 0 .. Len(n_list) - 1, NEW b \in 0 .. Len(delta_list) - 1
               PROVE  LET p == a * Len(delta_list) + b
                      IN /\ 2 * p + 1 <= Len(rows') => IsRow(rows'[2 * p + 1], "initial", trials, a, b)
                         /\ 2 * p + 2 <= Len(rows') => IsRow(rows'[2 * p + 2], "update", trials, a, b)
  BY DEF RowsExact
<1> DEFINE p == a * D + b
<1>4. /\ 2 * p + 1 <= len => IsRow(rows[2 * p + 1], "initial", trials, a, b)
      /\ 2 * p + 2 <= len => IsRow(rows[2 * p + 2], "update", trials, a, b)
  BY <1>3 DEF RowsExact
<1>5. a \in Nat /\ b \in Nat /\ b < D /\ p \in Nat
  BY <1>a, <1>3, SMTT(30)
<1>6. p = q => a = ni /\ b = di
  <2> HIDE DEF D
  <2> QED
    BY <1>a, <1>3, <1>5, PairsApart
<1> HIDE DEF q, len
<1>c. len = 2 * q \/ len = 2 * q + 1
  BY <1>2
<1> HIDE DEF p
<1>7. 2 * p + 1 <= len + 1 => 2 * p + 1 <= len \/ (p = q /\ len = 2 * q)
  BY <1>b, <1>c, <1>5
<1>8. 2 * p + 2 <= len + 1 => 2 * p + 2 <= len \/ (p = q /\ len = 2 * q + 1)
  BY <1>b, <1>c, <1>5
<1>9. ASSUME 2 * p + 1 <= len + 1
      PROVE  IsRow(rows'[2 * p + 1], "initial", trials, a, b)
  <2>1. CASE 2 * p + 1 <= len
    <3>1. 2 * p + 1 \in 1 .. len
      BY <1>1, <1>5, <2>1, SMTT(30)
    <3> QED
      BY <1>1, <1>4, <2>1, <3>1
  <2>2. CASE p = q /\ len = 2 * q
    <3>1. rows'[2 * p + 1] = row /\ IsRow(row, "initial", trials, ni, di)
      BY <1>1, <1>2, <1>b, <2>2
    <3> QED
      BY <1>6, <2>2, <3>1
  <2> QED
    BY <1>7, <1>9, <2>1, <2>2
<1>10. ASSUME 2 * p + 2 <= len + 1
       PROVE  IsRow(rows'[2 * p + 2], "update", trials, a, b)
  <2>1. CASE 2 * p + 2 <= len
    <3>1. 2 * p + 2 \in 1 .. len
      BY <1>1, <1>5, <2>1, SMTT(30)
    <3> QED
      BY <1>1, <1>4, <2>1, <3>1
  <2>2. CASE p = q /\ len = 2 * q + 1
    <3>1. len + 1 = 2 * p + 2
      BY <1>b, <2>2
    <3>2. rows'[2 * p + 2] = row /\ IsRow(row, "update", trials, ni, di)
      BY <1>1, <1>2, <1>b, <2>2, <3>1
    <3> QED
      BY <1>6, <2>2, <3>2
  <2> QED
    BY <1>8, <1>10, <2>1, <2>2
<1> QED
  BY <1>1, <1>9, <1>10 DEF p

LEMMA RowsExactStep ==
  ASSUME Control, PointsExact, RowsWritten, RowsExact, [Next]_vars
  PROVE  RowsExact'
<1> USE DEF loops
<1>s. rows' = rows /\ trials' = trials => RowsExact'
  BY DEF RowsExact
<1>1. CASE Point
  BY <1>s, <1>1 DEF Point
<1>2. CASE Delta
  BY <1>s, <1>2 DEF Delta
<1>3. CASE InitialTrial
  BY <1>s, <1>3 DEF InitialTrial
<1>4. CASE InitialTrialFails
  BY <1>s, <1>4 DEF InitialTrialFails
<1>5. CASE InitialRow
  <2>1. /\ pc = "initial" /\ t = trials /\ trials' = trials
        /\ rows' = Append(rows, Row("initial"))
    BY <1>5 DEF InitialRow
  <2>2. IsRow(Row("initial"), "initial", trials, ni, di)
    BY <2>1, RowReports
  <2>3. ni \in 0 .. Len(n_list) - 1 /\ di \in 0 .. Len(delta_list) - 1
    BY <2>1, CurrentSize, CurrentDelta DEF Control
  <2>4. Len(rows) = 2 * (ni * Len(delta_list) + di)
    <3>1. Len(rows) = 2 * (ni * Len(delta_list) + di) + 0
      BY <2>1 DEF RowsWritten, Control
    <3>2. ni * Len(delta_list) \in Nat /\ di \in Nat
      BY Lists, NextPair DEF Control
    <3> QED
      BY <3>1, <3>2
  <2>5. IsSeq(rows)
    BY DEF RowsWritten
  <2> QED
    BY <2>1, <2>2, <2>3, <2>4, <2>5, RowsGrow
<1>6. CASE Setup
  BY <1>s, <1>6 DEF Setup
<1>7. CASE SetupFails
  BY <1>s, <1>7 DEF SetupFails
<1>8. CASE UpdateTrial
  BY <1>s, <1>8 DEF UpdateTrial
<1>9. CASE UpdateTrialFails
  BY <1>s, <1>9 DEF UpdateTrialFails
<1>10. CASE UpdateRow
  <2>1. /\ pc = "update" /\ t = trials /\ trials' = trials
        /\ rows' = Append(rows, Row("update"))
    BY <1>10 DEF UpdateRow
  <2>2. IsRow(Row("update"), "update", trials, ni, di)
    BY <2>1, RowReports
  <2>3. ni \in 0 .. Len(n_list) - 1 /\ di \in 0 .. Len(delta_list) - 1
    BY <2>1, CurrentSize, CurrentDelta DEF Control
  <2>4. Len(rows) = 2 * (ni * Len(delta_list) + di) + 1
    BY <2>1 DEF RowsWritten, Control
  <2>5. IsSeq(rows)
    BY DEF RowsWritten
  <2> QED
    BY <2>1, <2>2, <2>3, <2>4, <2>5, RowsGrow
<1>11. CASE UNCHANGED vars
  BY <1>s, <1>11 DEF vars
<1>12. CASE OpenCsv
  BY <1>s, <1>12 DEF OpenCsv
<1>13. CASE OpenFails
  BY <1>s, <1>13 DEF OpenFails
<1> QED
  BY <1>1, <1>2, <1>3, <1>4, <1>5, <1>6, <1>7, <1>8, <1>9, <1>10, <1>11, <1>12,
     <1>13 DEF Next

LEMMA InvariantInit == Init => IInv
<1> SUFFICES ASSUME Init PROVE IInv
  OBVIOUS
<1>1. /\ pc = "open" /\ trials \in Nat /\ ni = 0 /\ di = 0 /\ t = 0
      /\ rows = <<>> /\ code = -1 /\ faults = 0
  BY BenchmarkAssumption DEF Init
<1>2. Control
  BY <1>1, Lists DEF Control
<1>3. IsSeq(rows) /\ Len(rows) = 0
  <2>1. <<>> \in Seq({}) /\ Len(<<>>) = 0
    OBVIOUS
  <2> QED
    BY <1>1, <2>1 DEF IsSeq
<1>4. RowsWritten
  <2>1. 0 * Len(delta_list) = 0
    BY Lists
  <2> QED
    BY <1>1, <1>3, <2>1 DEF RowsWritten
<1>5. RowsExact
  <2> SUFFICES ASSUME NEW a \in 0 .. Len(n_list) - 1, NEW b \in 0 .. Len(delta_list) - 1
               PROVE  LET p == a * Len(delta_list) + b
                      IN ~(2 * p + 1 <= Len(rows)) /\ ~(2 * p + 2 <= Len(rows))
    BY DEF RowsExact
  <2> DEFINE p == a * Len(delta_list) + b
  <2>1. a \in Nat /\ b \in Nat
    BY Lists
  <2>2. p \in Nat
    BY <2>1, Lists, NextPair
  <2> HIDE DEF p
  <2>3. ~(2 * p + 1 <= 0) /\ ~(2 * p + 2 <= 0)
    BY <2>2
  <2> QED
    BY <1>3, <2>3 DEF p
<1>6. StateReady /\ PointsExact /\ FailsOnlyByFault
  BY <1>1 DEF StateReady, PointsExact, FailsOnlyByFault
<1> QED
  BY <1>2, <1>4, <1>5, <1>6 DEF IInv

LEMMA InvariantStep == IInv /\ [Next]_vars => IInv'
BY ControlStep, StateReadyStep, PointsExactStep, RowsWrittenStep, RowsExactStep,
   FailsStep DEF IInv

LEMMA Invariant == Spec => []IInv
BY InvariantInit, InvariantStep, PTL DEF Spec

----------------------------------------------------------------------------
(* The driver returns 1 only after a fault of its environment: no size and *)
(* no delta of its lists, even, odd or single, gives a bucket an item      *)
(* twice or a result other than the reference.                             *)
THEOREM FailsAlwaysByFault == Spec => []FailsOnlyByFault
<1>1. IInv => FailsOnlyByFault
  BY DEF IInv
<1> QED
  BY <1>1, Invariant, PTL

LEMMA QuotientOfPair ==
  ASSUME NEW p \in Nat, NEW N \in Nat, NEW D \in Nat, p < N * D
  PROVE  /\ p \div D \in 0 .. N - 1 /\ p % D \in 0 .. D - 1
         /\ p = ((p \div D) * D) + (p % D)
<1>1. D # 0 /\ D > 0
  OBVIOUS
<1> DEFINE a == p \div D
           b == p % D
<1>2. a \in Nat /\ b \in 0 .. D - 1 /\ p = a * D + b
  BY <1>1
<1> HIDE DEF a, b
<1>3. a < N
  <2> SUFFICES ASSUME N <= a PROVE FALSE
    BY <1>2
  <2> DEFINE m == a - N
  <2>1. m \in Nat /\ a = N + m
    BY <1>2
  <2> HIDE DEF m
  <2>2. a * D = N * D + m * D /\ m * D \in Nat /\ N * D \in Nat /\ b \in Nat
    BY <1>2, <2>1
  <2> QED
    BY <1>2, <2>2
<1>4. a \in 0 .. N - 1
  BY <1>2, <1>3
<1> QED
  BY <1>2, <1>4 DEF a, b

(* When the driver returns 0 its file is complete, in order, and every row *)
(* reports the overlap of its size.                                        *)
THEOREM RowsAlwaysComplete == Spec => []RowsComplete
<1>1. IInv => RowsComplete
  <2> SUFFICES ASSUME IInv, code = 0 PROVE RowsComplete
    BY DEF RowsComplete
  <2> DEFINE D == Len(delta_list)
             N == Len(n_list)
  <2>1. D \in Nat /\ N \in Nat /\ N * D \in Nat
    BY Lists, NextPair
  <2>2. pc = "exit" /\ ni = N
    BY DEF IInv, Control
  <2>3. Len(rows) = 2 * (N * D)
    <3>1. Len(rows) = 2 * (N * D + 0) + 0
      BY <2>2 DEF IInv, RowsWritten
    <3> HIDE DEF N, D
    <3> QED
      BY <2>1, <3>1
  <2>4. 2 * N * D = 2 * (N * D)
    <3> HIDE DEF N, D
    <3> QED
      BY <2>1
  <2>5. ASSUME NEW r \in 1 .. N * D
        PROVE  LET first == rows[2 * r - 1]
                   second == rows[2 * r]
                   size == n_list[1 + ((r - 1) \div D)]
               IN /\ first.stage = "initial" /\ second.stage = "update"
                  /\ first.n = size /\ second.n = size
                  /\ first.delta = second.delta
                  /\ \A row \in {first, second} :
                       row.median.intersection =
                         IF trials = 0 THEN 0 ELSE size - size \div 2
    <3> DEFINE a == (r - 1) \div D
               b == (r - 1) % D
    <3>1. r - 1 \in Nat /\ r - 1 < N * D /\ r \in Nat
      BY <2>1
    <3>2. a \in 0 .. N - 1 /\ b \in 0 .. D - 1 /\ r - 1 = a * D + b
      <4> HIDE DEF N, D
      <4> QED
        BY <2>1, <3>1, QuotientOfPair
    <3>3. /\ 2 * (a * D + b) + 1 <= Len(rows) =>
               IsRow(rows[2 * (a * D + b) + 1], "initial", trials, a, b)
          /\ 2 * (a * D + b) + 2 <= Len(rows) =>
               IsRow(rows[2 * (a * D + b) + 2], "update", trials, a, b)
      <4> HIDE DEF a, b
      <4> QED
        BY <3>2 DEF IInv, RowsExact
    <3>4. 1 + a = a + 1
      <4> HIDE DEF a
      <4> QED
        BY <2>1, <3>2
    <3> HIDE DEF a, b, N, D
    <3>5. /\ 2 * (a * D + b) + 1 = 2 * r - 1 /\ 2 * r - 1 <= Len(rows)
          /\ 2 * (a * D + b) + 2 = 2 * r /\ 2 * r <= Len(rows)
      <4>1. \A v \in Nat : v = r - 1 => 2 * v + 1 = 2 * r - 1 /\ 2 * v + 2 = 2 * r
        BY <3>1
      <4> QED
        BY <2>1, <2>3, <3>1, <3>2, <4>1
    <3>6. /\ IsRow(rows[2 * r - 1], "initial", trials, a, b)
          /\ IsRow(rows[2 * r], "update", trials, a, b)
      BY <3>3, <3>5
    <3> QED
      BY <3>4, <3>6 DEF IsRow, a
  <2> QED
    BY <2>3, <2>4, <2>5 DEF RowsComplete
<1> QED
  BY <1>1, Invariant, PTL

=============================================================================
