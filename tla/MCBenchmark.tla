---------------------------- MODULE MCBenchmark ----------------------------
(* Sizes down to one, odd and even, deltas below and above half of a size. *)
EXTENDS Benchmark

MCItems == 1 .. 10
MCHash == [i \in MCItems |-> (i * i + i \div 3)]
MCNList == <<1, 2, 3, 6, 7>>
MCDeltaList == <<1, 2, 8>>
MCTrials == 0 .. 4

=============================================================================
