--------------------------- MODULE BucketContract ---------------------------
(***************************************************************************)
(* What the evaluation of one bucket depends on, seen from outside: the    *)
(* items of the two sides as bags.  BatchEvaluation works with these       *)
(* operators, BucketService promises an answer in terms of them, and       *)
(* BucketEval is shown to keep the promise.                                *)
(***************************************************************************)
EXTENDS Naturals

CONSTANT Items

(* nx = 0 or ny = 0 returns before anything can fail. *)
EmptySide(x, y) == (\A i \in Items : x[i] = 0) \/ (\A i \in Items : y[i] = 0)

(* Two copies of an item are one OKVS key with two random payloads: a      *)
(* check of all real keys rejects every attempt.  Every caller of the      *)
(* repository has such a check: strict robust mode with the sampled one,   *)
(* which may look at neither copy, is in no configuration a round is run   *)
(* with (BucketEval!DuplicateNeverTrue, BucketEval_sampled.cfg).           *)
DuplicateKey(y) == \E i \in Items : y[i] > 1

Matches(x, y) == {i \in Items : x[i] > 0 /\ y[i] > 0}

=============================================================================
