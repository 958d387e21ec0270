---------------------------- MODULE BucketDelta ----------------------------
(***************************************************************************)
(* The loops of upsi_bucket.cpp over vectors: the delta is applied item by *)
(* item, all deletions before all additions, and leaves the bags and flags *)
(* that RunUpdateRound takes from UpsiBuckets in closed form.              *)
(***************************************************************************)
EXTENDS UpdateProtocol, FiniteSets

CONSTANTS YLists, DeltaLists   (* vectors: side Y, and those of a delta    *)

ASSUME ListAssumption ==
  YLists \subseteq Seq(Items) /\ DeltaLists \subseteq Seq(Items)

----------------------------------------------------------------------------
BagOf(list) == [item \in Items |-> Cardinality({k \in DOMAIN list : list[k] = item})]

BuildVectors(list) ==
  LET built[k \in 0 .. Len(list)] ==
        IF k = 0 THEN [b \in BucketIds |-> <<>>]
        ELSE [built[k - 1] EXCEPT ![BucketOf(list[k])] = Append(@, list[k])]
  IN built[Len(list)]

Holds(bucket, item) == \E k \in DOMAIN bucket : bucket[k] = item

Erase(bucket, k) ==
  [j \in 1 .. Len(bucket) - 1 |-> bucket[IF j < k THEN j ELSE j + 1]]

(* The loop of RemoveOne stops at the first copy. *)
FirstCopy(bucket, item) ==
  CHOOSE k \in DOMAIN bucket : /\ bucket[k] = item
                               /\ \A j \in 1 .. k - 1 : bucket[j] # item

(* Mutant: every copy is erased. *)
DeleteAllCopies(out, item) ==
  LET idx == BucketOf(item)
  IN IF Holds(out.buckets[idx], item)
     THEN [buckets |-> [out.buckets EXCEPT ![idx] =
                          SelectSeq(@, LAMBDA other : other # item)],
           flags |-> out.flags \cup {idx}]
     ELSE out

(* RemoveOne erases the first copy, and finds none of an absent item. *)
DeleteItem(out, item) ==
  LET idx == BucketOf(item)
  IN IF Holds(out.buckets[idx], item)
     THEN [buckets |-> [out.buckets EXCEPT ![idx] = Erase(@, FirstCopy(@, item))],
           flags |-> out.flags \cup {idx}]
     ELSE out

AddItem(out, item) ==
  LET idx == BucketOf(item)
  IN [buckets |-> [out.buckets EXCEPT ![idx] = Append(@, item)],
      flags |-> out.flags \cup {idx}]

(* The buckets and the indices whose flag is 1, after each of the loops. *)
Deletions(vectors, del_set) ==
  LET out[k \in 0 .. Len(del_set)] ==
        IF k = 0 THEN [buckets |-> vectors, flags |-> {}]
        ELSE DeleteItem(out[k - 1], del_set[k])
  IN out[Len(del_set)]

Additions(deleted, add_set) ==
  LET out[k \in 0 .. Len(add_set)] ==
        IF k = 0 THEN deleted ELSE AddItem(out[k - 1], add_set[k])
  IN out[Len(add_set)]

DeltaLoops(vectors, add_set, del_set) ==
  Additions(Deletions(vectors, del_set), add_set)

----------------------------------------------------------------------------
(* Whatever order the maintained buckets have before a round, the loops    *)
(* leave the bags and flags that the closed forms make of them, for deltas *)
(* that repeat items, delete absent ones or delete what they also add; and *)
(* a bucket that is not flagged is the vector it was, order included.      *)
LoopsMatchClosedForms ==
  mode = "ready" =>
    \A list \in YLists : BuildBuckets(BagOf(list)) = yb =>
      \A add_set \in DeltaLists, del_set \in DeltaLists :
        LET vectors == BuildVectors(list)
            out == DeltaLoops(vectors, add_set, del_set)
        IN /\ [b \in BucketIds |-> BagOf(out.buckets[b])] =
                ApplyBucketDelta(yb, BagOf(add_set), BagOf(del_set))
           /\ out.flags = ChangedFlags(yb, BagOf(add_set), BagOf(del_set))
           /\ \A b \in BucketIds \ out.flags : out.buckets[b] = vectors[b]

=============================================================================
