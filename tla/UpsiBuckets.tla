---------------------------- MODULE UpsiBuckets ----------------------------
(***************************************************************************)
(* The data the protocol works on, and the operations of upsi_bucket.cpp.  *)
(*                                                                         *)
(* A std::vector<Item> is a bag: a function from items to the number of    *)
(* copies.  The order of a vector is never observable through the protocol *)
(* (every result is sorted and made unique before it is stored); that the  *)
(* loops of upsi_bucket.cpp over vectors compute the closed forms below is *)
(* checked by module BucketDelta.                                          *)
(***************************************************************************)
EXTENDS Naturals

CONSTANTS
  Items,        (* the items parties may hold                              *)
  BucketCount,  (* BucketConfig.bucket_count                               *)
  Hash          (* SplitMix64(Fnv1a64(item) ^ seed), per item              *)

(* BuildBuckets indexes an empty vector when bucket_count is 0: every      *)
(* caller in the repository passes at least one bucket.                    *)
ASSUME BucketAssumption ==
  /\ BucketCount \in Nat \ {0}
  /\ Hash \in [Items -> Nat]

BucketIds == 0 .. (BucketCount - 1)

Bags == [Items -> Nat]

(* Buckets: one bag per bucket index. *)
BucketArrays == [BucketIds -> Bags]

----------------------------------------------------------------------------

BucketOf(item) == Hash[item] % BucketCount

BuildBuckets(set) ==
  [b \in BucketIds |-> [i \in Items |-> IF BucketOf(i) = b THEN set[i] ELSE 0]]

(* Mutant: RemoveOne erases without having found the item. *)
RemoveUnchecked(have, n) == have - n

(* n calls of RemoveOne on a bucket that holds `have' copies. *)
RemoveUpTo(have, n) == IF have > n THEN have - n ELSE 0

(* Mutant: additions are counted before the deletions. *)
ApplyAddsFirst(buckets, add, del) ==
  [b \in BucketIds |-> [i \in Items |->
     IF BucketOf(i) = b THEN RemoveUpTo(buckets[b][i] + add[i], del[i])
                        ELSE buckets[b][i]]]

(* ApplyBucketDelta on the buckets: all deletions, then all additions. *)
ApplyBucketDelta(buckets, add, del) ==
  [b \in BucketIds |-> [i \in Items |->
     IF BucketOf(i) = b THEN RemoveUpTo(buckets[b][i], del[i]) + add[i]
                        ELSE buckets[b][i]]]

(* Mutant: a deletion does not raise the flag of its bucket. *)
FlagsOfAddsOnly(buckets, add, del) ==
  {b \in BucketIds : \E i \in Items : BucketOf(i) = b /\ add[i] > 0}

(* The buckets whose flag ApplyBucketDelta sets: an item was added, or one *)
(* to delete was found.                                                    *)
ChangedFlags(buckets, add, del) ==
  {b \in BucketIds : \E i \in Items :
     /\ BucketOf(i) = b
     /\ add[i] > 0 \/ (del[i] > 0 /\ buckets[b][i] > 0)}

----------------------------------------------------------------------------
(* The caller's own copy of a set, as the tests keep it: one RemoveOne per *)
(* deletion, then one push_back per addition.                              *)
LiveAfter(set, add, del) ==
  [i \in Items |-> RemoveUpTo(set[i], del[i]) + add[i]]

(* The reference result: the distinct items both sides hold. *)
NaiveIntersection(xs, ys) == {i \in Items : xs[i] > 0 /\ ys[i] > 0}

=============================================================================
