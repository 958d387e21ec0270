---------------------------- MODULE MCDummyTail ----------------------------
(* Counters of six bits: enough for the 17 between two parameters and for  *)
(* the salts to reach past a carry.  The first attempts start at 31, 30    *)
(* and 29, and at 14, 13 and 12 with the second parameter: the hashes are  *)
(* that of a first draw of each, of later draws, and of none.              *)
EXTENDS DummyTail

Mix == INSTANCE SplitMix WITH W <- 6

MCSplitMix64 == Mix!ShortSplitMix64
MCWordXor(a, b) == Mix!XorOfWords(a, b)

MCItemHashes == {31, 32, 34, 14, 2, 50}

(* No dummy, one, and several; buckets of one to three items. *)
MCSizes == {<<1, 1>>, <<1, 2>>, <<1, 5>>, <<2, 4>>, <<3, 3>>, <<3, 6>>}

=============================================================================
