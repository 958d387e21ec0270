--------------------------- MODULE BenchmarkSets ---------------------------
(***************************************************************************)
(* The inputs of upsi_exp_4_3_2_bench.cpp: item i is the number i, X holds *)
(* 1 .. n, Y holds n/2+1 .. n/2+n, an update adds the first delta items    *)
(* and deletes delta items from n/2+1 on.                                  *)
(***************************************************************************)
EXTENDS UpsiBuckets

Larger(a, b) == IF a > b THEN a ELSE b
Smaller(a, b) == IF a < b THEN a ELSE b

(* The bag with one copy of every item from first to last. *)
Run(first, last) ==
  [i \in Items |-> IF first <= i /\ i <= last THEN 1 ELSE 0]

(* BuildBaseSets *)
XSet(n) == Run(1, n)
YSet(n) == Run(1 + n \div 2, n + n \div 2)

(* delta_sz: no more than half of n, but at least one. *)
DeltaSize(n, delta) == Smaller(delta, Larger(1, n \div 2))

(* BuildDeltaSets *)
AddSet(n, delta_sz) == Run(1, delta_sz)

DelSet(n, delta_sz) == Run(n \div 2 + 1, n \div 2 + delta_sz)

=============================================================================
