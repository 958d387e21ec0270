--------------------------- MODULE MCInitialRound ---------------------------
(* Three items: a and d share a bucket, e has one of its own, a third     *)
(* bucket is always empty.                                                *)
EXTENDS InitialRound

CONSTANTS a, d, e

MCItems == {a, d, e}
MCHash == [i \in MCItems |-> IF i = e THEN 1 ELSE 0]

Holding(S) == [i \in MCItems |-> IF i \in S THEN 1 ELSE 0]

(* Everything, and a bag of two copies of e: there the bucket of a and d  *)
(* has an empty side, so a duplicate in y_set stays out of sight.         *)
MCXSets == {Holding({a, d, e}), [i \in MCItems |-> IF i = e THEN 2 ELSE 0]}

(* A disjoint side, a partial overlap, a full one; one bag holds a twice. *)
MCYSets ==
  {Holding({d}), Holding({a, e}), Holding({a, d, e}),
   [i \in MCItems |-> IF i = a THEN 2 ELSE 1]}

============================================================================
