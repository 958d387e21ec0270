------------------------------ MODULE DummyTail ------------------------------
(***************************************************************************)
(* The keys that EvalBucketIntersectionNoInit adds to a small bucket, and  *)
(* the sample of all keys its self-check looks at.  Both come from a       *)
(* 64-bit counter fed to SplitMix64, whose period the loops rely on; here  *)
(* there are WordRange values of a counter.                                *)
(*                                                                         *)
(* An item's key is made from its hash exactly as a dummy's key is from    *)
(* the counter, with the same seeds, so that every item's key is the key   *)
(* of some counter, and an attempt may come to it.  The encoder and the    *)
(* check are module BucketEval: an attempt ends here with the table        *)
(* accepted or not.                                                        *)
(***************************************************************************)
EXTENDS Integers, Sequences, FiniteSets

CONSTANTS
  WordRange,     (* values of a counter: 2^64                              *)
  SplitMix64,    (* the hash, a bijection: module SplitMix                 *)
  WordXor(_, _), (* of two words                                           *)
  ItemHashes,    (* the values of Fnv1a64 the items of a bucket may have   *)
  Sizes,         (* the pairs <<ny, n_enc>> of a bucket                    *)
  SampleCaps,    (* values of okvs_robust_self_check_sample_keys           *)
  Retries, Candidates,  (* attempts per parameter, parameters              *)
  h2_seed1, h2_seed2

Words == 0 .. WordRange - 1

(* A vector of n_enc keys of 16 bytes is far shorter than 2^64; retries is *)
(* a size_t; there are at most four parameters.                            *)
ASSUME DummyTailAssumption ==
  /\ WordRange \in Nat \ {0}
  /\ Sizes \subseteq Nat \X Nat
  /\ \A s \in Sizes : 0 < s[1] /\ s[1] <= s[2] /\ 2 * s[2] <= WordRange
  /\ SampleCaps \subseteq Nat
  /\ Retries \in Nat \ {0} /\ Retries <= WordRange
  /\ Candidates \in Nat \ {0} /\ 17 * (Candidates - 1) <= WordRange
  /\ h2_seed1 \in Words /\ h2_seed2 \in Words
  /\ ItemHashes \subseteq Words

ASSUME WordAssumption ==
  /\ SplitMix64 \in [Words -> Words]
  /\ \A a, b \in Words : a # b => SplitMix64[a] # SplitMix64[b]
  /\ \A a, b \in Words :
       /\ WordXor(a, b) \in Words
       /\ WordXor(a, b) = WordXor(b, a)
       /\ WordXor(a, WordXor(a, b)) = b

VARIABLES
  ny, n_enc, sample_cap,
  keys_enc,      (* entries of the last attempt stay until overwritten     *)
  pc,
  ci, attempt,
  i,             (* entries filled                                         *)
  dummy_ctr,
  ctr, idx,      (* of BuildSelfCheckSampleIndices                         *)
  before         (* dummies of the earlier attempts with this parameter    *)

vars == <<ny, n_enc, sample_cap, keys_enc, pc, ci, attempt, i, dummy_ctr,
          ctr, idx, before>>

bucket == <<ny, n_enc, sample_cap>>
ladder == <<ci, attempt, before>>
tail == <<keys_enc, i, dummy_ctr>>
sample == <<ctr, idx>>

----------------------------------------------------------------------------
Word(x) == x % WordRange

(* H2ToUint128 of an item with this hash, and a dummy with this counter.   *)
KeyOf ==
  [c \in Words |->
     <<SplitMix64[WordXor(c, h2_seed1)], SplitMix64[WordXor(c, h2_seed2)]>>]

(* Mutant: the salt of every attempt is that of the first. *)
OneSalt == 17 * ci

Salt == attempt + 17 * ci

(* Mutant: the cap is not cut to the number of keys. *)
UncutTarget == IF sample_cap = 0 THEN 1 ELSE sample_cap

Target == IF sample_cap = 0 THEN 1
          ELSE IF sample_cap < n_enc THEN sample_cap ELSE n_enc

FilledTo(k) == {keys_enc[j] : j \in 1 .. k}
Dummies == {keys_enc[j] : j \in ny + 1 .. n_enc}

----------------------------------------------------------------------------
Init ==
  /\ \E s \in Sizes : ny = s[1] /\ n_enc = s[2]
  /\ sample_cap \in SampleCaps
  /\ \E hash \in [1 .. ny -> ItemHashes] :
       /\ \A j, k \in 1 .. ny : j # k => hash[j] # hash[k]
       /\ keys_enc = [j \in 1 .. n_enc |->
                        IF j <= ny THEN KeyOf[hash[j]] ELSE <<0, 0>>]
  /\ pc = "attempt"
  /\ ci = 0 /\ attempt = 0 /\ before = {}
  /\ i = 0 /\ dummy_ctr = 0
  /\ ctr = 0 /\ idx = <<>>

StartTail ==
  /\ pc = "attempt"
  /\ dummy_ctr' = WordXor(Word(31), Word(Salt))
  /\ i' = ny
  /\ pc' = "fill"
  /\ UNCHANGED <<bucket, ladder, keys_enc, sample>>

(* Mutant: a key that is taken is used all the same. *)
TakeAnyDummy ==
  /\ pc = "fill"
  /\ i < n_enc
  /\ dummy_ctr' = Word(dummy_ctr + 1)
  /\ keys_enc' = [keys_enc EXCEPT ![i + 1] = KeyOf[dummy_ctr']]
  /\ i' = i + 1
  /\ UNCHANGED <<bucket, ladder, pc, sample>>

(* One round of the do loop. *)
TryDummy ==
  /\ pc = "fill"
  /\ i < n_enc
  /\ dummy_ctr' = Word(dummy_ctr + 1)
  /\ IF KeyOf[dummy_ctr'] \in FilledTo(i)
       THEN UNCHANGED <<keys_enc, i>>
       ELSE /\ keys_enc' = [keys_enc EXCEPT ![i + 1] = KeyOf[dummy_ctr']]
            /\ i' = i + 1
  /\ UNCHANGED <<bucket, ladder, pc, sample>>

(* The tail is full, the table is encoded and the sample begins with the   *)
(* real keys.                                                              *)
StartSample ==
  /\ pc = "fill"
  /\ i = n_enc
  /\ idx' = [k \in 1 .. (IF ny < Target THEN ny ELSE Target) |-> k]
  /\ ctr' = WordXor(Word((ci + 1) * 131 + (attempt + 1) * 977), Word(21))
  /\ pc' = "sample"
  /\ UNCHANGED <<bucket, ladder, tail>>

(* Positions count from 1.  The sample needs dummies only if it has all    *)
(* real keys: then ny < n_enc.                                             *)
Index(c) ==
  1 + (IF ny < n_enc THEN ny + (SplitMix64[c] % (n_enc - ny))
                     ELSE SplitMix64[c] % n_enc)

(* Mutant: a position that is already in the sample is taken again. *)
TakeAnyIndex ==
  /\ pc = "sample"
  /\ Len(idx) < Target
  /\ ctr' = Word(ctr + 1)
  /\ idx' = Append(idx, Index(ctr'))
  /\ UNCHANGED <<bucket, ladder, tail, pc>>

TryIndex ==
  /\ pc = "sample"
  /\ Len(idx) < Target
  /\ ctr' = Word(ctr + 1)
  /\ idx' = IF \E k \in DOMAIN idx : idx[k] = Index(ctr') THEN idx
            ELSE Append(idx, Index(ctr'))
  /\ UNCHANGED <<bucket, ladder, tail, pc>>

Accept ==
  /\ pc = "sample"
  /\ Len(idx) = Target
  /\ pc' = "ready"
  /\ UNCHANGED <<bucket, ladder, tail, sample>>

(* The table loses a key: the next attempt, the next parameter or none. *)
Refuse ==
  /\ pc = "sample"
  /\ Len(idx) = Target
  /\ IF attempt + 1 < Retries
       THEN attempt' = attempt + 1 /\ ci' = ci /\ before' = before \cup {Dummies}
       ELSE attempt' = 0 /\ ci' = ci + 1 /\ before' = {}
  /\ pc' = IF ci' < Candidates THEN "attempt" ELSE "failed"
  /\ i' = 0 /\ dummy_ctr' = 0 /\ ctr' = 0 /\ idx' = <<>>
  /\ UNCHANGED <<bucket, keys_enc>>

Next ==
  \/ StartTail \/ TryDummy \/ StartSample \/ TryIndex \/ Accept \/ Refuse

(* Sequential code: it runs until it has an answer. *)
Spec == Init /\ [][Next]_vars /\ WF_vars(Next)

----------------------------------------------------------------------------
(* The encoder gets n_enc different keys, whichever keys the items happen  *)
(* to have and whatever the last attempt left in the array: a dummy that   *)
(* is a real key would take its row with another payload.                  *)
KeysDistinct ==
  pc = "sample" =>
    \A j, k \in 1 .. n_enc : j # k => keys_enc[j] # keys_enc[k]

(* The counter of attempt a's first draw. *)
FirstDraw(a) == Word(WordXor(Word(31), Word(a + 17 * ci)) + 1)

(* A retry never encodes the keys of an earlier attempt with the same      *)
(* parameter again, where there is a dummy to change: it would fail in the *)
(* same way.  Excepted are buckets with an item that takes an attempt's    *)
(* first draw: the attempt then goes on to what may be the next one's.     *)
RetryDiffers ==
  /\ pc = "sample" /\ ny < n_enc
  /\ \A a \in 0 .. attempt : KeyOf[FirstDraw(a)] \notin FilledTo(ny)
  => Dummies \notin before

(* A sampled self-check looks at as many different keys as it was asked    *)
(* for, and at dummies only beside all the real ones: the real payloads    *)
(* are what the caller depends on.                                         *)
SampleCovers ==
  pc = "ready" =>
    /\ Len(idx) = Target
    /\ \A j, k \in 1 .. Target : j # k => idx[j] # idx[k]
    /\ \/ \A k \in 1 .. Target : idx[k] <= ny
       \/ \A j \in 1 .. ny : \E k \in 1 .. Target : idx[k] = j

(* Both loops find what they look for before the counter has gone round:   *)
(* the evaluation cannot hang in an attempt.                               *)
Returns == <>(pc \in {"ready", "failed"})

=============================================================================
