-------------------------- MODULE MCUpdateProtocol --------------------------
(* Three items in two buckets, a and d together: a round flags no bucket, *)
(* one (the sequential loop) or both (the pool).                          *)
EXTENDS BucketDelta

CONSTANTS a, d, e

MCItems == {a, d, e}
MCHash == [i \in MCItems |-> IF i = e THEN 3 ELSE 2]

Holding(S) == [i \in MCItems |-> IF i \in S THEN 1 ELSE 0]

MCXSets == {Holding({a, e}), Holding({a, d, e})}
MCYSets == {Holding({d}), Holding({a, e})}

(* Nothing, one bucket, both. *)
MCAddSets == {Holding({}), Holding({a}), Holding({d, e})}
MCDelSets == {Holding({}), Holding({a}), Holding({d, e})}

(* For the loops of a delta: every vector of up to five items for side Y   *)
(* and of up to two for each half of the delta.                            *)
ListsUpTo(k) == UNION {[1 .. len -> MCItems] : len \in 0 .. k}
MCYLists == ListsUpTo(5)
MCDeltaLists == ListsUpTo(2)
============================================================================
