-------------------------- MODULE DummyTail_proofs --------------------------
(***************************************************************************)
(* The dummy keys and the sampled positions of an attempt, for every       *)
(* number of counter values, every bijection in the place of SplitMix64,   *)
(* all keys the items may have and every size of a bucket.                 *)
(*                                                                         *)
(* What both loops rely on is that a counter's next WordRange values, and  *)
(* so the hashes of them, are different (CountersDiffer, HashesDiffer).    *)
(* The inductive invariant is                                              *)
(*    TailTypeOK /\ KeysKept /\ DrawsKept /\ BeforeKept /\ SampleKept      *)
(***************************************************************************)
EXTENDS DummyTail, TLAPS, FiniteSetTheorems

----------------------------------------------------------------------------
(* Counters. *)

(* Every number has a word, *)
LEMMA WordType ==
  ASSUME NEW n \in Nat
  PROVE  Word(n) \in Words
<1>1. n % WordRange \in 0 .. WordRange - 1
  BY DummyTailAssumption
<1> QED
  BY <1>1 DEF Word, Words

(* that of a sum of two words by at most one subtraction. *)
LEMMA WordWraps ==
  ASSUME NEW n \in Nat, n < 2 * WordRange
  PROVE  Word(n) = IF n < WordRange THEN n ELSE n - WordRange
<1> DEFINE M == WordRange
           q == n \div M
           r == n % M
<1>1. M \in Nat \ {0}
  BY DummyTailAssumption
<1>2. r \in 0 .. M - 1 /\ q \in Int /\ r = n - M * q
  BY <1>1
<1> HIDE DEF q, r, M
<1>3. q < 0 => M * q <= -M
  BY <1>1, <1>2
<1>4. q > 1 => M * q >= 2 * M
  BY <1>1, <1>2
<1>5. n < 2 * M
  BY DEF M
<1>6. q \in 0 .. 1
  BY <1>1, <1>2, <1>3, <1>4, <1>5
<1>7. r = IF n < M THEN n ELSE n - M
  BY <1>1, <1>2, <1>6
<1> QED
  BY <1>7 DEF Word, M, r

(* A counter's next WordRange values are different. *)
LEMMA CountersDiffer ==
  ASSUME NEW s \in Words, NEW a \in 1 .. WordRange, NEW b \in 1 .. WordRange,
         Word(s + a) = Word(s + b)
  PROVE  a = b
<1>1. WordRange \in Nat \ {0} /\ s \in Nat /\ s < WordRange
  BY DummyTailAssumption DEF Words
<1>2. s + a \in Nat /\ s + b \in Nat /\ s + a < 2 * WordRange
        /\ s + b < 2 * WordRange
  BY <1>1
<1>3. Word(s + a) = IF s + a < WordRange THEN s + a ELSE (s + a) - WordRange
  BY <1>2, WordWraps
<1>4. Word(s + b) = IF s + b < WordRange THEN s + b ELSE (s + b) - WordRange
  BY <1>2, WordWraps
<1> QED
  BY <1>1, <1>2, <1>3, <1>4

(* The first value is the one after, and the last is the start again. *)
LEMMA CounterSteps ==
  ASSUME NEW s \in Words, NEW k \in 0 .. WordRange - 1
  PROVE  /\ Word(s + 0) = s
         /\ Word(s + k) \in Words
         /\ Word(Word(s + k) + 1) = Word(s + (k + 1))
<1>1. WordRange \in Nat \ {0} /\ s \in Nat /\ s < WordRange
  BY DummyTailAssumption DEF Words
<1>2. /\ Word(s + 0) = s
      /\ Word(s + k) = IF s + k < WordRange THEN s + k ELSE (s + k) - WordRange
      /\ Word(s + (k + 1)) = IF s + (k + 1) < WordRange THEN s + (k + 1)
                             ELSE (s + (k + 1)) - WordRange
  BY <1>1, WordWraps
<1>3. Word(s + k) \in Nat /\ Word(s + k) < WordRange
  BY <1>1, <1>2
<1>4. Word(Word(s + k) + 1) = IF Word(s + k) + 1 < WordRange THEN Word(s + k) + 1
                              ELSE (Word(s + k) + 1) - WordRange
  BY <1>1, <1>3, WordWraps
<1>5. Word(Word(s + k) + 1) = Word(s + (k + 1))
  BY <1>1, <1>2, <1>4
<1> QED
  BY <1>1, <1>2, <1>3, <1>5 DEF Words

(* WordXor with a seed is a bijection of the words. *)
LEMMA XorInjective ==
  ASSUME NEW a \in Words, NEW b \in Words, NEW c \in Words
  PROVE  /\ WordXor(a, b) \in Words
         /\ WordXor(a, c) = WordXor(b, c) => a = b
         /\ WordXor(c, a) = WordXor(c, b) => a = b
<1>1. \A d \in Words : WordXor(c, WordXor(c, d)) = d /\ WordXor(d, c) = WordXor(c, d)
  BY WordAssumption
<1>2. WordXor(c, a) = WordXor(c, b) => a = b
  <2> SUFFICES ASSUME WordXor(c, a) = WordXor(c, b) PROVE a = b
    OBVIOUS
  <2>1. WordXor(c, WordXor(c, a)) = WordXor(c, WordXor(c, b))
    OBVIOUS
  <2> QED
    BY <1>1, <2>1
<1> QED
  BY <1>1, <1>2, WordAssumption

(* Different words, counters or hashes of items, make different keys. *)
LEMMA HashesDiffer ==
  ASSUME NEW c \in Words, NEW d \in Words
  PROVE  /\ KeyOf[c] \in Words \X Words
         /\ KeyOf[c] = KeyOf[d] => c = d
<1>1. h2_seed1 \in Words /\ h2_seed2 \in Words
  BY DummyTailAssumption
<1>2. /\ WordXor(c, h2_seed1) \in Words /\ WordXor(c, h2_seed2) \in Words
      /\ WordXor(d, h2_seed1) \in Words
      /\ WordXor(c, h2_seed1) = WordXor(d, h2_seed1) => c = d
  BY <1>1, XorInjective
<1>3. /\ KeyOf[c] = <<SplitMix64[WordXor(c, h2_seed1)], SplitMix64[WordXor(c, h2_seed2)]>>
      /\ KeyOf[d] = <<SplitMix64[WordXor(d, h2_seed1)], SplitMix64[WordXor(d, h2_seed2)]>>
  BY DEF KeyOf
<1>4. SplitMix64[WordXor(c, h2_seed1)] \in Words /\ SplitMix64[WordXor(c, h2_seed2)] \in Words
  BY <1>2, WordAssumption
<1>5. SplitMix64[WordXor(c, h2_seed1)] = SplitMix64[WordXor(d, h2_seed1)] => c = d
  BY <1>2, WordAssumption
<1> QED
  BY <1>3, <1>4, <1>5

----------------------------------------------------------------------------
(* Types. *)

Keys == Words \X Words

(* An attempt has begun, and its answer is not yet known. *)
Trying == pc \in {"fill", "sample", "ready"}

TailTypeOK ==
  /\ ny \in Nat /\ n_enc \in Nat
  /\ 0 < ny /\ ny <= n_enc /\ 2 * n_enc <= WordRange
  /\ sample_cap \in Nat
  /\ keys_enc \in [1 .. n_enc -> Keys]
  /\ pc \in {"attempt", "fill", "sample", "ready", "failed"}
  /\ ci \in 0 .. Candidates /\ (pc # "failed" => ci < Candidates)
  /\ attempt \in 0 .. Retries - 1
  /\ i \in 0 .. n_enc /\ (Trying => ny <= i)
  /\ dummy_ctr \in Words
  /\ ctr \in Words
  /\ idx \in Seq(1 .. n_enc)

(* A sample is never larger than the bucket. *)
LEMMA TargetType ==
  ASSUME TailTypeOK
  PROVE  Target \in 1 .. n_enc
BY DEF TailTypeOK, Target

(* A sampled position is one of the bucket, and of a dummy if it has any. *)
LEMMA IndexType ==
  ASSUME TailTypeOK, NEW c \in Words
  PROVE  /\ Index(c) \in 1 .. n_enc
         /\ ny < n_enc => Index(c) = 1 + (ny + (SplitMix64[c] % (n_enc - ny)))
<1>1. SplitMix64[c] \in Nat
  BY WordAssumption DEF Words
<1>2. ny < n_enc => SplitMix64[c] % (n_enc - ny) \in 0 .. (n_enc - ny) - 1
  BY <1>1 DEF TailTypeOK
<1>3. SplitMix64[c] % n_enc \in 0 .. n_enc - 1
  BY <1>1 DEF TailTypeOK
<1> DEFINE r == SplitMix64[c] % (n_enc - ny)
           q == SplitMix64[c] % n_enc
<1>4. Index(c) = 1 + (IF ny < n_enc THEN ny + r ELSE q)
  BY DEF Index
<1>5. (ny < n_enc => r \in 0 .. (n_enc - ny) - 1) /\ q \in 0 .. n_enc - 1
  BY <1>2, <1>3
<1> HIDE DEF r, q
<1>6. Index(c) \in 1 .. n_enc /\ (ny < n_enc => Index(c) = 1 + (ny + r))
  BY <1>4, <1>5 DEF TailTypeOK
<1> QED
  BY <1>6 DEF r

(* Appending, as the solver does it.                                       *)
LEMMA AppendLasts ==
  ASSUME NEW S, NEW list \in Seq(S), NEW e \in S
  PROVE  /\ Append(list, e) \in Seq(S)
         /\ Len(Append(list, e)) = Len(list) + 1
         /\ \A k \in 1 .. Len(list) : Append(list, e)[k] = list[k]
         /\ Append(list, e)[Len(list) + 1] = e
OBVIOUS

LEMMA TailTypeInit == Init => TailTypeOK
<1> SUFFICES ASSUME Init PROVE TailTypeOK
  OBVIOUS
<1>1. PICK s \in Sizes : ny = s[1] /\ n_enc = s[2]
  BY DEF Init
<1>2. /\ ny \in Nat /\ n_enc \in Nat
      /\ 0 < ny /\ ny <= n_enc /\ 2 * n_enc <= WordRange
  BY <1>1, DummyTailAssumption
<1>3. 0 \in Words
  BY DummyTailAssumption DEF Words
<1>4. keys_enc \in [1 .. n_enc -> Keys]
  <2>1. PICK hash \in [1 .. ny -> ItemHashes] :
          keys_enc = [j \in 1 .. n_enc |->
                       IF j <= ny THEN KeyOf[hash[j]] ELSE <<0, 0>>]
    BY DEF Init
  <2>2. \A j \in 1 .. n_enc : j <= ny => hash[j] \in Words
    BY <1>2, DummyTailAssumption
  <2>3. \A j \in 1 .. n_enc : j <= ny => KeyOf[hash[j]] \in Words \X Words
    BY <2>2, HashesDiffer
  <2> QED
    BY <1>3, <2>1, <2>3 DEF Keys
<1>5. sample_cap \in Nat /\ 0 \in 0 .. Candidates /\ 0 < Candidates
        /\ 0 \in 0 .. Retries - 1
  BY DummyTailAssumption DEF Init
<1> QED
  BY <1>2, <1>3, <1>4, <1>5 DEF Init, TailTypeOK, Trying

LEMMA TailTypeStep ==
  ASSUME TailTypeOK, [Next]_vars
  PROVE  TailTypeOK'
<1>a. \A c \in Words : Word(c + 1) \in Words
  <2>1. \A c \in Words : c + 1 \in Nat
    BY DummyTailAssumption DEF Words
  <2> QED
    BY <2>1, WordType
<1>b. Word(dummy_ctr + 1) \in Words /\ Word(ctr + 1) \in Words /\ 0 \in Words
  <2>1. dummy_ctr \in Words /\ ctr \in Words
    BY DEF TailTypeOK
  <2> QED
    BY <1>a, <2>1, DummyTailAssumption DEF Words
<1>c. \A c \in Words : Index(c) \in 1 .. n_enc
  BY IndexType
<1> USE DEF TailTypeOK, Trying, bucket, ladder, tail, sample
<1>1. CASE StartTail
  <2>1. Word(31) \in Words /\ Word(Salt) \in Words
    BY WordType DEF Salt
  <2> QED
    BY <1>1, <2>1, XorInjective DEF StartTail
<1>2. CASE TryDummy
  <2>1. KeyOf[dummy_ctr'] \in Keys
    BY <1>2, <1>b, HashesDiffer DEF TryDummy, Keys
  <2>2. keys_enc' \in [1 .. n_enc -> Keys] /\ i' \in {i, i + 1}
    BY <1>2, <2>1 DEF TryDummy
  <2> QED
    BY <1>2, <1>b, <2>2 DEF TryDummy
<1>3. CASE StartSample
  <2>1. /\ Word((ci + 1) * 131 + (attempt + 1) * 977) \in Words
        /\ Word(21) \in Words
    BY WordType
  <2>2. ctr' \in Words
    BY <1>3, <2>1, XorInjective DEF StartSample
  <2>3. Target \in 1 .. n_enc
    BY TargetType
  <2> DEFINE real == IF ny < Target THEN ny ELSE Target
  <2>4. real \in 1 .. n_enc /\ idx' = [k \in 1 .. real |-> k]
    BY <1>3, <2>3 DEF StartSample
  <2> HIDE DEF real
  <2>5. idx' \in Seq(1 .. n_enc)
    BY <2>4
  <2> QED
    BY <1>3, <2>2, <2>5 DEF StartSample
<1>4. CASE TryIndex
  <2>1. ctr' \in Words
    BY <1>4, <1>b DEF TryIndex
  <2>2. Index(ctr') \in 1 .. n_enc
    BY <2>1, <1>c
  <2>3. idx' = idx \/ idx' = Append(idx, Index(ctr'))
    BY <1>4 DEF TryIndex
  <2>4. Append(idx, Index(ctr')) \in Seq(1 .. n_enc)
    BY <2>2, AppendLasts
  <2> QED
    BY <1>4, <1>b, <2>3, <2>4 DEF TryIndex
<1>5. CASE Accept
  BY <1>5 DEF Accept
<1>6. CASE Refuse
  BY <1>6, <1>b, DummyTailAssumption DEF Refuse
<1>7. CASE UNCHANGED vars
  BY <1>7 DEF vars
<1> QED
  BY <1>1, <1>2, <1>3, <1>4, <1>5, <1>6, <1>7 DEF Next

(* Types of the bucket's keys and samples, for every size of a bucket. *)
THEOREM TailTypeCorrect == Spec => []TailTypeOK
BY TailTypeInit, TailTypeStep, PTL DEF Spec

----------------------------------------------------------------------------
(* The keys. *)

(* What is filled is without duplicates, from the items' keys on. *)
KeysKept ==
  /\ \A j, k \in 1 .. ny : j # k => keys_enc[j] # keys_enc[k]
  /\ Trying => \A j, k \in 1 .. i : j # k => keys_enc[j] # keys_enc[k]
  /\ pc \in {"sample", "ready"} => i = n_enc

LEMMA KeysKeptInit == Init => KeysKept
<1> SUFFICES ASSUME Init PROVE KeysKept
  OBVIOUS
<1>1. TailTypeOK
  BY TailTypeInit
<1>2. PICK hash \in [1 .. ny -> ItemHashes] :
        /\ \A j, k \in 1 .. ny : j # k => hash[j] # hash[k]
        /\ keys_enc = [j \in 1 .. n_enc |->
                         IF j <= ny THEN KeyOf[hash[j]] ELSE <<0, 0>>]
  BY DEF Init
<1>3. \A j \in 1 .. ny : keys_enc[j] = KeyOf[hash[j]] /\ hash[j] \in Words
  <2>1. \A j \in 1 .. ny : j \in 1 .. n_enc /\ j <= ny
    BY <1>1 DEF TailTypeOK
  <2>2. \A j \in 1 .. ny : hash[j] \in Words
    BY DummyTailAssumption
  <2> QED
    BY <1>2, <2>1, <2>2
<1>4. \A j, k \in 1 .. ny : j # k => keys_enc[j] # keys_enc[k]
  <2>1. \A c, d \in Words : KeyOf[c] = KeyOf[d] => c = d
    BY HashesDiffer
  <2> QED
    BY <1>2, <1>3, <2>1
<1> QED
  BY <1>4 DEF Init, KeysKept, Trying

(* An entry up to i stays: TryDummy writes the one after. *)
LEMMA EntriesStay ==
  ASSUME TailTypeOK, Next
  PROVE  /\ ny' = ny /\ n_enc' = n_enc /\ sample_cap' = sample_cap
         /\ \A j \in 1 .. ny : keys_enc'[j] = keys_enc[j]
         /\ pc = "fill" => \A j \in 1 .. i : keys_enc'[j] = keys_enc[j]
         /\ pc # "fill" => keys_enc' = keys_enc
<1> USE DEF bucket, ladder, tail, sample
<1>1. CASE TryDummy
  <2>1. ny <= i /\ pc = "fill"
    BY <1>1 DEF TryDummy, TailTypeOK, Trying
  <2>2. \A j \in 1 .. i : keys_enc'[j] = keys_enc[j]
    BY <1>1 DEF TryDummy, TailTypeOK
  <2> QED
    BY <1>1, <2>1, <2>2 DEF TryDummy, TailTypeOK
<1>2. CASE StartTail \/ StartSample \/ TryIndex \/ Accept \/ Refuse
  BY <1>2 DEF StartTail, StartSample, TryIndex, Accept, Refuse
<1> QED
  BY <1>1, <1>2 DEF Next

(* What TryDummy adds is not there yet. *)
LEMMA KeysKeptStep ==
  ASSUME TailTypeOK, KeysKept, [Next]_vars
  PROVE  KeysKept'
<1>1. CASE TryDummy
  <2>a. Next
    BY <1>1 DEF Next
  <2> USE DEF TryDummy
  <2>1. pc = "fill" /\ pc' = "fill" /\ i \in Nat /\ ny <= i /\ i < n_enc
    BY <1>1 DEF TailTypeOK, Trying, bucket, ladder
  <2>2. /\ \A j \in 1 .. i : keys_enc'[j] = keys_enc[j]
        /\ ny' = ny
    BY <2>1, <2>a, EntriesStay
  <2>3. \A j, k \in 1 .. i : j # k => keys_enc'[j] # keys_enc'[k]
    BY <2>1, <2>2 DEF KeysKept, Trying
  <2>4. CASE i' = i
    <3>1. 1 .. ny \subseteq 1 .. i
      BY <2>1 DEF TailTypeOK
    <3>2. \A j, k \in 1 .. ny : j # k => keys_enc'[j] # keys_enc'[k]
      BY <2>3, <3>1
    <3> QED
      BY <2>1, <2>2, <2>3, <2>4, <3>2 DEF KeysKept
  <2>5. CASE KeyOf[dummy_ctr'] \notin FilledTo(i)
    <3>1. i' = i + 1 /\ keys_enc'[i + 1] = KeyOf[dummy_ctr']
      BY <1>1, <2>1, <2>5 DEF TailTypeOK
    <3>2. \A j \in 1 .. i : keys_enc'[j] # keys_enc'[i + 1]
      BY <2>2, <2>5, <3>1 DEF FilledTo
    <3>3. \A j \in 1 .. i + 1 : j \in 1 .. i \/ j = i + 1
      BY <2>1
    <3>4. \A j, k \in 1 .. i + 1 : j # k => keys_enc'[j] # keys_enc'[k]
      BY <2>3, <3>2, <3>3
    <3>5. 1 .. ny \subseteq 1 .. i + 1
      BY <2>1 DEF TailTypeOK
    <3> QED
      BY <2>1, <2>2, <3>1, <3>4, <3>5 DEF KeysKept
  <2> QED
    BY <1>1, <2>4, <2>5
<1>2. CASE StartTail
  BY <1>2 DEF StartTail, KeysKept, Trying, bucket, ladder, sample
<1>3. CASE StartSample
  BY <1>3 DEF StartSample, KeysKept, Trying, bucket, ladder, tail
<1>4. CASE TryIndex \/ Accept
  BY <1>4 DEF TryIndex, Accept, KeysKept, Trying, bucket, ladder, tail, sample
<1>5. CASE Refuse
  <2>1. pc' \in {"attempt", "failed"}
    BY <1>5 DEF Refuse
  <2> QED
    BY <1>5, <2>1 DEF Refuse, KeysKept, Trying, bucket
<1>6. CASE UNCHANGED vars
  BY <1>6 DEF vars, KeysKept, Trying
<1> QED
  BY <1>1, <1>2, <1>3, <1>4, <1>5, <1>6 DEF Next

LEMMA KeysAlwaysKept == Spec => []KeysKept
BY KeysKeptInit, KeysKeptStep, TailTypeCorrect, PTL DEF Spec

(* The encoder never gets a key twice, whichever keys the items have and   *)
(* whatever the attempts before have left in the array.                    *)
THEOREM DistinctKeys == Spec => []KeysDistinct
<1>1. KeysKept => KeysDistinct
  BY DEF KeysKept, KeysDistinct, Trying
<1> QED
  BY <1>1, KeysAlwaysKept, PTL

----------------------------------------------------------------------------
(* The draws of an attempt. *)

(* The start of the counter in attempt a. *)
StartOf(a) == WordXor(Word(31), Word(a + 17 * ci))

(* The salts of two attempts with a parameter are different words. *)
LEMMA StartsDiffer ==
  ASSUME NEW c \in 0 .. Candidates - 1,
         NEW a \in 0 .. Retries - 1, NEW b \in 0 .. Retries - 1
  PROVE  /\ WordXor(Word(31), Word(a + 17 * c)) \in Words
         /\ WordXor(Word(31), Word(a + 17 * c)) = WordXor(Word(31), Word(b + 17 * c))
              => a = b
<1>1. /\ WordRange \in Nat /\ Retries <= WordRange
      /\ 17 * c \in Nat /\ 17 * c <= WordRange
  BY DummyTailAssumption
<1> DEFINE p == 17 * c
<1> HIDE DEF p
<1>2. /\ a + p \in Nat /\ a + p < 2 * WordRange
      /\ b + p \in Nat /\ b + p < 2 * WordRange
  BY <1>1, DummyTailAssumption DEF p
<1>3. /\ Word(a + p) = IF a + p < WordRange THEN a + p ELSE (a + p) - WordRange
      /\ Word(b + p) = IF b + p < WordRange THEN b + p ELSE (b + p) - WordRange
  BY <1>2, WordWraps
<1>4. Word(a + p) = Word(b + p) => a = b
  BY <1>1, <1>2, <1>3, DummyTailAssumption DEF p
<1>5. Word(31) \in Words /\ Word(a + p) \in Words /\ Word(b + p) \in Words
  BY <1>2, WordType
<1> QED
  BY <1>4, <1>5, XorInjective DEF p

(* Every key the attempt has drawn is among the filled entries, refused or *)
(* not, and every dummy is one it has drawn.                               *)
DrawsKept ==
  Trying =>
    \E k \in i - ny .. i :
      /\ dummy_ctr = Word(StartOf(attempt) + k)
      /\ \A l \in 1 .. k : KeyOf[Word(StartOf(attempt) + l)] \in FilledTo(i)
      /\ \A j \in ny + 1 .. i :
           \E l \in 1 .. k : keys_enc[j] = KeyOf[Word(StartOf(attempt) + l)]

(* More things than places: two of them share one. *)
LEMMA PlaceTwice ==
  ASSUME NEW k \in Nat, NEW p \in Nat, p < k, NEW f \in [1 .. k -> 1 .. p]
  PROVE  \E a, b \in 1 .. k : a # b /\ f[a] = f[b]
<1>1. /\ IsFiniteSet(1 .. k) /\ Cardinality(1 .. k) = k
      /\ IsFiniteSet(1 .. p) /\ Cardinality(1 .. p) = p
  BY FS_Interval
<1>2. ASSUME NEW S, IsFiniteSet(S), NEW T, IsFiniteSet(T),
             Cardinality(T) < Cardinality(S), NEW g, g \in [S -> T]
      PROVE  \E a, b \in S : a # b /\ g[a] = g[b]
  BY <1>2, FS_PigeonHole
<1>3. Cardinality(1 .. p) < Cardinality(1 .. k)
  BY <1>1
<1> QED
  BY <1>1, <1>2, <1>3

(* Draws are different keys, so that they are at most as many as the       *)
(* entries that hold them.                                                 *)
HoldsDraws(f, p, s, k) ==
  \A l \in 1 .. k : \E j \in 1 .. p : f[j] = KeyOf[Word(s + l)]
LEMMA DrawsFit ==
  ASSUME NEW s \in Words, NEW k \in 0 .. WordRange, NEW p \in Nat, NEW f,
         HoldsDraws(f, p, s, k)
  PROVE  k <= p
<1> SUFFICES ASSUME k > p PROVE FALSE
  BY DummyTailAssumption
<1> DEFINE place == [l \in 1 .. k |-> CHOOSE j \in 1 .. p : f[j] = KeyOf[Word(s + l)]]
<1>1. \A l \in 1 .. k : place[l] \in 1 .. p /\ f[place[l]] = KeyOf[Word(s + l)]
  BY DEF HoldsDraws
<1>2. place \in [1 .. k -> 1 .. p]
  BY <1>1
<1> HIDE DEF place
<1>3. k \in Nat
  BY DummyTailAssumption
<1>4. PICK a, b \in 1 .. k : a # b /\ place[a] = place[b]
  BY <1>2, <1>3, PlaceTwice
<1>5. KeyOf[Word(s + a)] = KeyOf[Word(s + b)]
  BY <1>1, <1>4
<1>6. a \in 1 .. WordRange /\ b \in 1 .. WordRange
  BY DummyTailAssumption
<1>7. Word(s + a) \in Words /\ Word(s + b) \in Words
  <2>1. s + a \in Nat /\ s + b \in Nat
    BY DummyTailAssumption DEF Words
  <2> QED
    BY <2>1, WordType
<1>8. Word(s + a) = Word(s + b)
  BY <1>5, <1>7, HashesDiffer
<1> QED
  BY <1>4, <1>6, <1>8, CountersDiffer

LEMMA DrawsKeptStep ==
  ASSUME TailTypeOK, KeysKept, DrawsKept, [Next]_vars
  PROVE  DrawsKept'
<1>1. CASE UNCHANGED vars
  BY <1>1 DEF vars, DrawsKept, Trying, FilledTo, StartOf
<1>2. CASE StartTail
  <2>1. /\ i' = ny /\ ci' = ci /\ attempt' = attempt
        /\ dummy_ctr' = StartOf(attempt)
    BY <1>2 DEF StartTail, ladder, StartOf, Salt
  <2>2. StartOf(attempt) \in Words
    BY <1>2, StartsDiffer, DummyTailAssumption DEF StartTail, TailTypeOK, StartOf
  <2>3. dummy_ctr' = Word(StartOf(attempt) + 0) /\ StartOf(attempt)' = StartOf(attempt)
    BY <2>1, <2>2, CounterSteps, DummyTailAssumption DEF StartOf
  <2>4. ny' = ny /\ 0 \in i' - ny' .. i' /\ 1 .. 0 = {} /\ ny' + 1 .. i' = {}
    BY <1>2, <2>1 DEF TailTypeOK, StartTail, bucket
  <2> QED
    BY <2>3, <2>4 DEF DrawsKept
<1>3. CASE TryDummy
  <2>1. /\ pc = "fill" /\ i < n_enc /\ ci' = ci /\ attempt' = attempt
        /\ dummy_ctr' = Word(dummy_ctr + 1)
    BY <1>3 DEF TryDummy, ladder
  <2> DEFINE s == StartOf(attempt)
  <2>2. s \in Words /\ s' = s
    BY <2>1, StartsDiffer, DummyTailAssumption DEF TailTypeOK, StartOf
  <2> HIDE DEF s
  <2>3. PICK k \in i - ny .. i :
          /\ dummy_ctr = Word(s + k)
          /\ \A l \in 1 .. k : KeyOf[Word(s + l)] \in FilledTo(i)
          /\ \A j \in ny + 1 .. i :
               \E l \in 1 .. k : keys_enc[j] = KeyOf[Word(s + l)]
    BY <2>1 DEF DrawsKept, Trying, s
  <2>4. /\ i \in Nat /\ n_enc \in Nat /\ 2 * n_enc <= WordRange /\ WordRange \in Nat
        /\ ny \in Nat /\ ny <= i /\ ny' = ny
    BY <1>3, <2>1, DummyTailAssumption DEF TailTypeOK, Trying, TryDummy, bucket
  <2>5. k \in 0 .. WordRange - 1 /\ k + 1 \in 0 .. WordRange /\ k \in Nat
    BY <2>1, <2>3, <2>4
  <2>6. dummy_ctr' = Word(s + (k + 1))
    BY <2>1, <2>2, <2>3, <2>5, CounterSteps
  <2>7. /\ i' \in {i, i + 1} /\ \A j \in 1 .. i : keys_enc'[j] = keys_enc[j]
        /\ KeyOf[dummy_ctr'] \in FilledTo(i)'
        /\ i' = i + 1 => keys_enc'[i'] = KeyOf[dummy_ctr']
    <3>1. \A j \in 1 .. i : keys_enc'[j] = keys_enc[j]
      BY <1>3, <2>1, EntriesStay DEF Next
    <3>2. CASE KeyOf[dummy_ctr'] \in FilledTo(i)
      <4>1. i' = i /\ keys_enc' = keys_enc
        BY <1>3, <3>2 DEF TryDummy
      <4> QED
        BY <2>4, <3>2, <4>1 DEF FilledTo
    <3>3. CASE KeyOf[dummy_ctr'] \notin FilledTo(i)
      <4>1. /\ i' = i + 1
            /\ keys_enc' = [keys_enc EXCEPT ![i + 1] = KeyOf[dummy_ctr']]
        BY <1>3, <3>3 DEF TryDummy
      <4>2. i + 1 \in 1 .. n_enc /\ keys_enc \in [1 .. n_enc -> Keys]
        BY <2>1, <2>4 DEF TailTypeOK
      <4>3. keys_enc'[i'] = KeyOf[dummy_ctr'] /\ i' \in 1 .. i'
        BY <4>1, <4>2
      <4> QED
        BY <3>1, <4>1, <4>3 DEF FilledTo
    <3> QED
      BY <3>1, <3>2, <3>3, <1>3 DEF TryDummy
  <2>8. FilledTo(i) \subseteq FilledTo(i)'
    BY <2>4, <2>7 DEF FilledTo
  <2>9. \A l \in 1 .. k + 1 : KeyOf[Word(s + l)] \in FilledTo(i)'
    <3>1. \A l \in 1 .. k + 1 : l \in 1 .. k \/ l = k + 1
      BY <2>5
    <3> QED
      BY <2>3, <2>6, <2>7, <2>8, <3>1
  <2>10. k + 1 <= i'
    <3>1. \A l \in 1 .. k + 1 : \E j \in 1 .. i' : keys_enc'[j] = KeyOf[Word(s + l)]
      BY <2>9 DEF FilledTo
    <3>2. i' \in Nat
      BY <2>4, <2>7
    <3> DEFINE m == k + 1
               p == i'
               f == keys_enc'
    <3>3. m \in 0 .. WordRange /\ p \in Nat /\ s \in Words
      BY <2>2, <2>5, <3>2
    <3>4. HoldsDraws(f, p, s, m)
      BY <3>1 DEF HoldsDraws
    <3> HIDE DEF m, p, f
    <3>5. m <= p
      BY <3>3, <3>4, DrawsFit
    <3> QED
      BY <3>5 DEF m, p
  <2>11. k + 1 \in i' - ny' .. i'
    <3> DEFINE j == i'
    <3>1. j \in {i, i + 1} /\ k + 1 <= j
      BY <2>7, <2>10
    <3> HIDE DEF j
    <3>2. k + 1 \in j - ny .. j
      BY <2>3, <2>4, <2>5, <3>1
    <3> QED
      BY <2>4, <3>2 DEF j
  <2>12. \A j \in ny' + 1 .. i' :
           \E l \in 1 .. k + 1 : keys_enc'[j] = KeyOf[Word(s + l)]
    <3> SUFFICES ASSUME NEW j \in ny' + 1 .. i'
                 PROVE  \E l \in 1 .. k + 1 : keys_enc'[j] = KeyOf[Word(s + l)]
      OBVIOUS
    <3>1. CASE j \in ny + 1 .. i
      <4>1. keys_enc'[j] = keys_enc[j]
        BY <2>4, <2>7, <3>1
      <4>2. PICK l \in 1 .. k : keys_enc[j] = KeyOf[Word(s + l)]
        BY <2>3, <3>1
      <4>3. l \in 1 .. k + 1
        BY <2>5
      <4> QED
        BY <4>1, <4>2, <4>3
    <3>2. CASE j = i' /\ i' = i + 1
      <4>1. k + 1 \in 1 .. k + 1
        BY <2>5
      <4> QED
        BY <2>6, <2>7, <3>2, <4>1
    <3>3. j \in ny + 1 .. i \/ (j = i' /\ i' = i + 1)
      BY <2>4, <2>7
    <3> QED
      BY <3>1, <3>2, <3>3
  <2> QED
    BY <2>1, <2>2, <2>6, <2>9, <2>11, <2>12 DEF DrawsKept, s
<1>4. CASE StartSample \/ TryIndex \/ Accept
  <2>1. /\ Trying /\ i' = i /\ dummy_ctr' = dummy_ctr /\ keys_enc' = keys_enc
        /\ ci' = ci /\ attempt' = attempt /\ ny' = ny
    BY <1>4 DEF StartSample, TryIndex, Accept, Trying, ladder, tail, bucket
  <2> QED
    BY <2>1 DEF DrawsKept, FilledTo, StartOf
<1>5. CASE Refuse
  <2>1. ~Trying'
    BY <1>5 DEF Refuse, Trying
  <2> QED
    BY <2>1 DEF DrawsKept
<1> QED
  BY <1>1, <1>2, <1>3, <1>4, <1>5 DEF Next

LEMMA DrawsAlwaysKept == Spec => []DrawsKept
<1>1. Init => DrawsKept
  BY DEF Init, DrawsKept, Trying
<1>2. TailTypeOK /\ KeysKept /\ DrawsKept /\ [Next]_vars => DrawsKept'
  BY DrawsKeptStep
<1> QED
  BY <1>1, <1>2, TailTypeCorrect, KeysAlwaysKept, PTL DEF Spec

(* Whatever keys the items have, and whatever the array still holds from   *)
(* earlier attempts, an attempt draws at most as many dummies as it has    *)
(* filled entries: the do loop ends within n_enc draws.                    *)
THEOREM FillEnds ==
  Spec => [](Trying => \E k \in 0 .. i : dummy_ctr = Word(StartOf(attempt) + k))
<1>1. TailTypeOK /\ DrawsKept =>
        (Trying => \E k \in 0 .. i : dummy_ctr = Word(StartOf(attempt) + k))
  BY DEF DrawsKept, TailTypeOK
<1> QED
  BY <1>1, TailTypeCorrect, DrawsAlwaysKept, PTL

----------------------------------------------------------------------------
(* The attempts. *)

(* The keys of the n_enc counters from a start on. *)
Drawn(s) == {KeyOf[Word(s + l)] : l \in 1 .. n_enc}

(* The dummies of an earlier attempt are draws of it, the first of them    *)
(* included unless an item has taken it.                                   *)
Remembers(D, a) ==
  /\ D \subseteq Drawn(StartOf(a))
  /\ KeyOf[FirstDraw(a)] \notin FilledTo(ny) => KeyOf[FirstDraw(a)] \in D
BeforeKept ==
  ny < n_enc => \A D \in before : \E a \in 0 .. attempt - 1 : Remembers(D, a)

(* Two attempts whose dummies include both first draws start at the same   *)
(* counter: from either start, the other's first draw lies less than half  *)
(* a round ahead.                                                          *)
LEMMA StartsMeet ==
  ASSUME TailTypeOK, NEW s \in Words, NEW t \in Words, NEW D,
         D \subseteq Drawn(s), D \subseteq Drawn(t),
         KeyOf[Word(s + 1)] \in D, KeyOf[Word(t + 1)] \in D
  PROVE  s = t
<1>1. /\ WordRange \in Nat \ {0} /\ n_enc \in Nat /\ 2 * n_enc <= WordRange
      /\ s \in 0 .. WordRange - 1 /\ t \in 0 .. WordRange - 1 /\ n_enc > 0
  BY DummyTailAssumption DEF TailTypeOK, Words
<1>2. \A u \in Words, k \in 1 .. n_enc : Word(u + k) \in Words
  <2>1. \A k \in 1 .. n_enc : k \in 0 .. WordRange - 1
    BY <1>1
  <2> QED
    BY <2>1, CounterSteps
<1>3. PICK l \in 1 .. n_enc : KeyOf[Word(s + 1)] = KeyOf[Word(t + l)]
  BY DEF Drawn
<1>4. PICK m \in 1 .. n_enc : KeyOf[Word(t + 1)] = KeyOf[Word(s + m)]
  BY DEF Drawn
<1>5. Word(s + 1) = Word(t + l) /\ Word(t + 1) = Word(s + m)
  <2>1. 1 \in 1 .. n_enc
    BY <1>1
  <2> QED
    BY <1>2, <1>3, <1>4, <2>1, HashesDiffer
<1>6. ASSUME NEW u \in 0 .. WordRange - 1, NEW k \in 1 .. n_enc
      PROVE  Word(u + k) = IF u + k < WordRange THEN u + k ELSE (u + k) - WordRange
  <2>1. u + k \in Nat /\ u + k < 2 * WordRange
    BY <1>1
  <2> QED
    BY <2>1, WordWraps
<1>7. /\ Word(s + 1) = IF s + 1 < WordRange THEN s + 1 ELSE (s + 1) - WordRange
      /\ Word(t + 1) = IF t + 1 < WordRange THEN t + 1 ELSE (t + 1) - WordRange
      /\ Word(t + l) = IF t + l < WordRange THEN t + l ELSE (t + l) - WordRange
      /\ Word(s + m) = IF s + m < WordRange THEN s + m ELSE (s + m) - WordRange
  <2>1. 1 \in 1 .. n_enc
    BY <1>1
  <2> QED
    BY <1>1, <1>6, <2>1
<1> QED
  BY <1>1, <1>5, <1>7, SMTT(30)

(* What a full tail holds. *)
LEMMA TailIsDrawn ==
  ASSUME TailTypeOK, DrawsKept, Trying, i = n_enc, ny < n_enc
  PROVE  Remembers(Dummies, attempt)
<1> DEFINE s == StartOf(attempt)
<1>1. PICK k \in i - ny .. i :
        /\ \A l \in 1 .. k : KeyOf[Word(s + l)] \in FilledTo(i)
        /\ \A j \in ny + 1 .. i : \E l \in 1 .. k : keys_enc[j] = KeyOf[Word(s + l)]
  BY DEF DrawsKept
<1>2. FirstDraw(attempt) = Word(s + 1)
  BY DEF FirstDraw, StartOf
<1> HIDE DEF s
<1>3. /\ ny \in Nat /\ n_enc \in Nat /\ 1 \in 1 .. k /\ 1 .. k \subseteq 1 .. n_enc
  BY <1>1 DEF TailTypeOK
<1>4. Dummies \subseteq Drawn(s)
  BY <1>1, <1>3 DEF Dummies, Drawn
<1>5. KeyOf[Word(s + 1)] \in FilledTo(i)
  BY <1>1, <1>3
<1>6. FilledTo(i) \subseteq FilledTo(ny) \cup Dummies
  <2>1. \A j \in 1 .. i : j \in 1 .. ny \/ j \in ny + 1 .. n_enc
    BY <1>3
  <2> QED
    BY <2>1 DEF FilledTo, Dummies
<1> QED
  BY <1>2, <1>4, <1>5, <1>6 DEF Remembers, s

LEMMA BeforeKeptStep ==
  ASSUME TailTypeOK, KeysKept, DrawsKept, BeforeKept, [Next]_vars
  PROVE  BeforeKept'
<1>1. CASE UNCHANGED vars
  BY <1>1 DEF vars, BeforeKept, Remembers, FilledTo, Drawn, StartOf, FirstDraw
<1> SUFFICES ASSUME Next PROVE BeforeKept'
  BY <1>1
<1>2. ny' = ny /\ n_enc' = n_enc /\ FilledTo(ny)' = FilledTo(ny)
  BY EntriesStay DEF FilledTo
<1>3. ci' = ci => \A D, a : Remembers(D, a)' = Remembers(D, a)
  BY <1>2 DEF Remembers, Drawn, StartOf, FirstDraw
<1>4. CASE before' = before /\ ci' = ci /\ attempt' = attempt
  BY <1>2, <1>3, <1>4 DEF BeforeKept
<1>5. CASE Refuse
  <2>1. Trying /\ i = n_enc
    BY <1>5 DEF Refuse, Trying, KeysKept
  <2>2. CASE before' = {}
    BY <2>2 DEF BeforeKept
  <2>3. CASE /\ attempt' = attempt + 1 /\ ci' = ci
             /\ before' = before \cup {Dummies}
    <3> SUFFICES ASSUME ny < n_enc, NEW D \in before \cup {Dummies}
                 PROVE  \E a \in 0 .. attempt : Remembers(D, a)
      <4>1. 0 .. attempt' - 1 = 0 .. attempt
        BY <2>3 DEF TailTypeOK
      <4> QED
        BY <1>2, <1>3, <2>3, <4>1 DEF BeforeKept
    <3>1. CASE D \in before
      <4>1. 0 .. attempt - 1 \subseteq 0 .. attempt
        BY DEF TailTypeOK
      <4> QED
        BY <3>1, <4>1 DEF BeforeKept
    <3>2. CASE D = Dummies
      <4>1. attempt \in 0 .. attempt
        BY DEF TailTypeOK
      <4> QED
        BY <2>1, <3>2, <4>1, TailIsDrawn
    <3> QED
      BY <3>1, <3>2
  <2> QED
    BY <1>5, <2>2, <2>3 DEF Refuse
<1>6. CASE StartTail \/ TryDummy \/ StartSample \/ TryIndex \/ Accept
  BY <1>4, <1>6 DEF StartTail, TryDummy, StartSample, TryIndex, Accept, ladder
<1> QED
  BY <1>5, <1>6 DEF Next

LEMMA BeforeAlwaysKept == Spec => []BeforeKept
<1>1. Init => BeforeKept
  BY DEF Init, BeforeKept
<1> QED
  BY <1>1, BeforeKeptStep, TailTypeCorrect, KeysAlwaysKept, DrawsAlwaysKept,
     PTL DEF Spec

(* A retry with the same parameter encodes other dummies, for every number *)
(* of dummies, attempts and parameters and all items but those that take   *)
(* an attempt's first draw.                                                *)
THEOREM RetriesDiffer == Spec => []RetryDiffers
<1>1. ASSUME TailTypeOK, KeysKept, DrawsKept, BeforeKept
      PROVE  RetryDiffers
  <2> SUFFICES ASSUME pc = "sample", ny < n_enc, Dummies \in before,
                      \A a \in 0 .. attempt : KeyOf[FirstDraw(a)] \notin FilledTo(ny)
               PROVE  FALSE
    BY DEF RetryDiffers
  <2>1. Remembers(Dummies, attempt)
    BY <1>1, TailIsDrawn DEF KeysKept, Trying
  <2>2. PICK a \in 0 .. attempt - 1 : Remembers(Dummies, a)
    BY <1>1 DEF BeforeKept
  <2>3. /\ attempt \in 0 .. Retries - 1 /\ a \in 0 .. Retries - 1 /\ a # attempt
        /\ a \in 0 .. attempt /\ attempt \in 0 .. attempt
        /\ ci \in 0 .. Candidates - 1
    BY <1>1, DummyTailAssumption DEF TailTypeOK
  <2>4. /\ StartOf(a) \in Words /\ StartOf(attempt) \in Words
        /\ StartOf(a) # StartOf(attempt)
    BY <2>3, StartsDiffer DEF StartOf
  <2>5. \A b : FirstDraw(b) = Word(StartOf(b) + 1)
    BY DEF FirstDraw, StartOf
  <2>6. /\ KeyOf[Word(StartOf(a) + 1)] \in Dummies
        /\ KeyOf[Word(StartOf(attempt) + 1)] \in Dummies
    BY <2>1, <2>2, <2>3, <2>5 DEF Remembers
  <2> QED
    BY <1>1, <2>1, <2>2, <2>4, <2>6, StartsMeet DEF Remembers
<1> QED
  BY <1>1, TailTypeCorrect, KeysAlwaysKept, DrawsAlwaysKept, BeforeAlwaysKept, PTL

----------------------------------------------------------------------------
(* The loop that samples positions ends, with a sample that is right. *)

SampleStart == WordXor(Word((ci + 1) * 131 + (attempt + 1) * 977), Word(21))
TakeReal == IF ny < Target THEN ny ELSE Target

(* The sample has no position twice and the real keys' positions first,    *)
(* and every position a counter has come to is in it.                      *)
SampleKept ==
  pc \in {"sample", "ready"} =>
    /\ Len(idx) <= Target /\ (pc = "ready" => Len(idx) = Target)
    /\ \A j, k \in 1 .. Len(idx) : j # k => idx[j] # idx[k]
    /\ TakeReal <= Len(idx) /\ \A j \in 1 .. TakeReal : idx[j] = j
    /\ \E k \in 0 .. WordRange :
         /\ ctr = Word(SampleStart + k)
         /\ \A l \in 1 .. k :
              \E j \in 1 .. Len(idx) : idx[j] = Index(Word(SampleStart + l))

(* A counter comes to every word. *)
LEMMA EveryWord ==
  ASSUME NEW s \in Words, NEW c \in Words
  PROVE  \E l \in 1 .. WordRange : Word(s + l) = c
<1>1. /\ WordRange \in Nat \ {0}
      /\ s \in 0 .. WordRange - 1 /\ c \in 0 .. WordRange - 1
  BY DummyTailAssumption DEF Words
<1>2. ASSUME NEW l \in 1 .. WordRange
      PROVE  Word(s + l) = IF s + l < WordRange THEN s + l ELSE (s + l) - WordRange
  BY <1>1, WordWraps
<1>3. CASE s < c
  <2>1. c - s \in 1 .. WordRange /\ s + (c - s) = c
    BY <1>1, <1>3
  <2> QED
    BY <1>1, <1>2, <2>1
<1>4. CASE c <= s
  <2>1. (c - s) + WordRange \in 1 .. WordRange /\ s + ((c - s) + WordRange) = c + WordRange
    BY <1>1, <1>4
  <2> QED
    BY <1>1, <1>2, <2>1
<1> QED
  BY <1>1, <1>3, <1>4

(* SplitMix64 takes every value. *)
LEMMA EveryHash ==
  ASSUME NEW v \in Words
  PROVE  \E c \in Words : SplitMix64[c] = v
<1>1. IsFiniteSet(Words)
  BY FS_Interval, DummyTailAssumption DEF Words
<1>2. SplitMix64 \in Injection(Words, Words)
  BY WordAssumption DEF Injection, IsInjective
<1>3. SplitMix64 \in Surjection(Words, Words)
  BY <1>1, <1>2, FS_Injection
<1> QED
  BY <1>3 DEF Surjection

(* A small number is its own remainder. *)
LEMMA SmallRemainder ==
  ASSUME NEW d \in Nat, NEW v \in 0 .. d - 1
  PROVE  v % d = v
<1> DEFINE q == v \div d
           r == v % d
<1>1. d \in Nat \ {0}
  OBVIOUS
<1>2. r \in 0 .. d - 1 /\ q \in Int /\ r = v - d * q
  BY <1>1
<1> HIDE DEF q, r
<1>3. q > 0 => d * q >= d
  BY <1>1, <1>2
<1>4. q < 0 => d * q <= -d
  BY <1>1, <1>2
<1>5. q = 0
  BY <1>1, <1>2, <1>3, <1>4
<1>6. r = v
  BY <1>1, <1>2, <1>5
<1> QED
  BY <1>6 DEF r

(* A sample that has come to every counter has every position: it is not   *)
(* short.                                                                  *)
LEMMA AllDrawn ==
  ASSUME TailTypeOK, NEW s \in Words, Len(idx) < Target,
         TakeReal <= Len(idx), \A j \in 1 .. TakeReal : idx[j] = j,
         \A l \in 1 .. WordRange :
           \E j \in 1 .. Len(idx) : idx[j] = Index(Word(s + l))
  PROVE  FALSE
<1>1. /\ Target \in 1 .. n_enc /\ Len(idx) \in Nat
      /\ ny \in Nat /\ n_enc \in Nat /\ 0 < ny
  BY TargetType DEF TailTypeOK
<1>2. TakeReal = ny /\ ny < n_enc
  BY <1>1 DEF TakeReal
<1>3. \A c \in Words : \E j \in 1 .. Len(idx) : idx[j] = Index(c)
  BY EveryWord
<1>4. ASSUME NEW p \in ny + 1 .. n_enc
      PROVE  \E j \in 1 .. Len(idx) : idx[j] = p
  <2> DEFINE d == n_enc - ny
             v == p - (ny + 1)
  <2>1. d \in Nat /\ v \in 0 .. d - 1 /\ 1 + (ny + v) = p
    BY <1>1, <1>2
  <2>2. v \in Words
    BY <1>1, <2>1, DummyTailAssumption DEF TailTypeOK, Words
  <2> HIDE DEF v
  <2>3. PICK c \in Words : SplitMix64[c] = v
    BY <2>2, EveryHash
  <2>4. Index(c) = 1 + (ny + (SplitMix64[c] % d))
    BY <1>2, <2>3, IndexType
  <2> HIDE DEF d
  <2>5. v % d = v
    BY <2>1, SmallRemainder
  <2>6. Index(c) = p
    BY <2>1, <2>3, <2>4, <2>5
  <2> QED
    BY <1>3, <2>6
<1>5. \A p \in 1 .. n_enc : \E j \in 1 .. Len(idx) : idx[j] = p
  <2>1. \A p \in 1 .. n_enc : p \in 1 .. ny \/ p \in ny + 1 .. n_enc
    BY <1>1
  <2>2. \A p \in 1 .. ny : p \in 1 .. Len(idx) /\ idx[p] = p
    BY <1>1, <1>2
  <2> QED
    BY <1>4, <2>1, <2>2
<1> DEFINE place == [p \in 1 .. n_enc |-> CHOOSE j \in 1 .. Len(idx) : idx[j] = p]
<1>6. \A p \in 1 .. n_enc : place[p] \in 1 .. Len(idx) /\ idx[place[p]] = p
  BY <1>5
<1>7. place \in [1 .. n_enc -> 1 .. Len(idx)]
  BY <1>6
<1> HIDE DEF place
<1>8. Len(idx) < n_enc
  BY <1>1
<1>9. PICK a, b \in 1 .. n_enc : a # b /\ place[a] = place[b]
  <2>1. n_enc \in Nat /\ Len(idx) \in Nat
    BY <1>1
  <2>2. ASSUME NEW k \in Nat, NEW p \in Nat, p < k, NEW f \in [1 .. k -> 1 .. p]
        PROVE  \E a, b \in 1 .. k : a # b /\ f[a] = f[b]
    BY <2>2, PlaceTwice
  <2> QED
    BY <1>7, <1>8, <2>1, <2>2
<1> QED
  BY <1>6, <1>9

LEMMA SampleStartType ==
  ASSUME TailTypeOK
  PROVE  SampleStart \in Words
<1>1. (ci + 1) * 131 + (attempt + 1) * 977 \in Nat
  BY DummyTailAssumption DEF TailTypeOK
<1> QED
  BY <1>1, WordType, XorInjective DEF SampleStart

LEMMA SampleKeptStep ==
  ASSUME TailTypeOK, SampleKept, [Next]_vars
  PROVE  SampleKept'
<1>a. Target \in 1 .. n_enc /\ Len(idx) \in Nat /\ ny \in Nat /\ n_enc \in Nat
        /\ 0 < ny
  BY TargetType DEF TailTypeOK
<1>b. SampleStart \in Words
  BY SampleStartType
<1>c. 0 \in 0 .. WordRange /\ WordRange \in Nat /\ 1 .. 0 = {}
  BY DummyTailAssumption
<1>1. CASE UNCHANGED vars
  BY <1>1 DEF vars, SampleKept, SampleStart, TakeReal, Target, Index
<1>2. CASE StartTail \/ TryDummy
  <2>1. pc' = "fill"
    BY <1>2 DEF StartTail, TryDummy
  <2> QED
    BY <2>1 DEF SampleKept
<1>3. CASE StartSample
  <2>1. /\ ny' = ny /\ n_enc' = n_enc /\ sample_cap' = sample_cap
        /\ ci' = ci /\ attempt' = attempt /\ ctr' = SampleStart
        /\ idx' = [k \in 1 .. TakeReal |-> k] /\ pc' = "sample"
    BY <1>3 DEF StartSample, bucket, ladder, SampleStart, TakeReal
  <2>2. TakeReal \in Nat /\ TakeReal <= Target
    BY <1>a DEF TakeReal
  <2>3. Len(idx') = TakeReal /\ \A j \in 1 .. TakeReal : idx'[j] = j
    BY <2>1, <2>2
  <2>4. TakeReal' = TakeReal /\ Target' = Target /\ SampleStart' = SampleStart
    BY <2>1 DEF TakeReal, Target, SampleStart
  <2>5. ctr' = Word(SampleStart + 0)
    BY <1>b, <1>c, <2>1, CounterSteps, DummyTailAssumption
  <2> QED
    BY <1>c, <2>1, <2>2, <2>3, <2>4, <2>5 DEF SampleKept
<1>4. CASE TryIndex
  <2>1. /\ ny' = ny /\ n_enc' = n_enc /\ sample_cap' = sample_cap
        /\ ci' = ci /\ attempt' = attempt /\ pc = "sample" /\ Len(idx) < Target
        /\ ctr' = Word(ctr + 1) /\ pc' = "sample"
    BY <1>4 DEF TryIndex, bucket, ladder
  <2>2. TakeReal' = TakeReal /\ Target' = Target /\ SampleStart' = SampleStart
    BY <2>1 DEF TakeReal, Target, SampleStart
  <2>3. \A c : Index(c)' = Index(c)
    BY <2>1 DEF Index
  <2>4. PICK k \in 0 .. WordRange :
          /\ ctr = Word(SampleStart + k)
          /\ \A l \in 1 .. k :
               \E j \in 1 .. Len(idx) : idx[j] = Index(Word(SampleStart + l))
    BY <2>1 DEF SampleKept
  <2>5. TakeReal <= Len(idx) /\ \A j \in 1 .. TakeReal : idx[j] = j
    BY <2>1 DEF SampleKept
  <2>6. k # WordRange
    BY <1>b, <2>1, <2>4, <2>5, AllDrawn
  <2>7. k \in 0 .. WordRange - 1 /\ k + 1 \in 0 .. WordRange /\ k \in Nat
    BY <1>c, <2>4, <2>6
  <2>8. ctr' = Word(SampleStart + (k + 1)) /\ ctr' \in Words
    <3>1. ctr' = Word(SampleStart + (k + 1))
      BY <1>b, <2>1, <2>4, <2>7, CounterSteps
    <3>2. SampleStart + (k + 1) \in Nat
      BY <1>b, <2>7, DummyTailAssumption DEF Words
    <3> QED
      BY <3>1, <3>2, WordType
  <2> DEFINE p == Index(ctr')
  <2>9. p \in 1 .. n_enc
    BY <2>8, IndexType
  <2>10. idx' = IF \E j \in DOMAIN idx : idx[j] = p THEN idx ELSE Append(idx, p)
    BY <1>4 DEF TryIndex
  <2>11. DOMAIN idx = 1 .. Len(idx) /\ idx \in Seq(1 .. n_enc)
    BY DEF TailTypeOK
  <2>12. p = Index(Word(SampleStart + (k + 1)))
    BY <2>8
  <2> HIDE DEF p
  <2>13. /\ Len(idx') \in Nat /\ Len(idx) <= Len(idx') /\ Len(idx') <= Target
         /\ \A j \in 1 .. Len(idx) : idx'[j] = idx[j]
         /\ \E j \in 1 .. Len(idx') : idx'[j] = p
         /\ \A j, l \in 1 .. Len(idx') : j # l => idx'[j] # idx'[l]
    <3>0. \A j, l \in 1 .. Len(idx) : j # l => idx[j] # idx[l]
      BY <2>1 DEF SampleKept
    <3>1. CASE \E j \in DOMAIN idx : idx[j] = p
      BY <1>a, <2>1, <2>10, <2>11, <3>0, <3>1
    <3>2. CASE ~\E j \in DOMAIN idx : idx[j] = p
      <4>1. idx' = Append(idx, p)
        BY <2>10, <3>2
      <4>2. /\ Len(idx') = Len(idx) + 1
            /\ \A j \in 1 .. Len(idx) : idx'[j] = idx[j]
            /\ idx'[Len(idx) + 1] = p
        BY <2>9, <2>11, <4>1, AppendLasts
      <4>3. \A j \in 1 .. Len(idx) : idx'[j] # p
        BY <2>11, <3>2, <4>2
      <4>4. \A j \in 1 .. Len(idx') : j \in 1 .. Len(idx) \/ j = Len(idx) + 1
        BY <1>a, <4>2
      <4>5. \A j, l \in 1 .. Len(idx') : j # l => idx'[j] # idx'[l]
        BY <3>0, <4>2, <4>3, <4>4
      <4>6. Len(idx') \in 1 .. Len(idx') /\ idx'[Len(idx')] = p
        BY <1>a, <4>2
      <4>7. Len(idx') \in Nat /\ Len(idx) <= Len(idx') /\ Len(idx') <= Target
        BY <1>a, <2>1, <4>2
      <4> QED
        BY <4>2, <4>5, <4>6, <4>7
    <3> QED
      BY <3>1, <3>2
  <2>14. 1 .. Len(idx) \subseteq 1 .. Len(idx')
    BY <1>a, <2>13
  <2>15. \A l \in 1 .. k + 1 :
           \E j \in 1 .. Len(idx') : idx'[j] = Index(Word(SampleStart + l))
    <3>1. \A l \in 1 .. k + 1 : l \in 1 .. k \/ l = k + 1
      BY <2>7
    <3> QED
      BY <2>4, <2>12, <2>13, <2>14, <3>1
  <2>16. TakeReal <= Len(idx') /\ \A j \in 1 .. TakeReal : idx'[j] = j
    <3>1. TakeReal \in Nat
      BY <1>a DEF TakeReal
    <3>2. \A j \in 1 .. TakeReal : j \in 1 .. Len(idx)
      BY <1>a, <2>5, <3>1
    <3> QED
      BY <1>a, <2>5, <2>13, <3>1, <3>2
  <2>17. \E n \in 0 .. WordRange :
           /\ ctr' = Word(SampleStart + n)
           /\ \A l \in 1 .. n :
                \E j \in 1 .. Len(idx') : idx'[j] = Index(Word(SampleStart + l))
    BY <2>7, <2>8, <2>15
  <2>18. pc' # "ready"
    BY <2>1
  <2> QED
    BY <2>2, <2>3, <2>13, <2>16, <2>17, <2>18 DEF SampleKept
<1>5. CASE Accept
  <2>1. /\ ny' = ny /\ n_enc' = n_enc /\ sample_cap' = sample_cap
        /\ ci' = ci /\ attempt' = attempt /\ pc = "sample"
        /\ ctr' = ctr /\ idx' = idx /\ Len(idx) = Target
    BY <1>5 DEF Accept, bucket, ladder, sample
  <2>2. TakeReal' = TakeReal /\ Target' = Target /\ SampleStart' = SampleStart
    BY <2>1 DEF TakeReal, Target, SampleStart
  <2>3. \A c : Index(c)' = Index(c)
    BY <2>1 DEF Index
  <2> QED
    BY <2>1, <2>2, <2>3 DEF SampleKept
<1>6. CASE Refuse
  <2>1. pc' \in {"attempt", "failed"}
    BY <1>6 DEF Refuse
  <2> QED
    BY <2>1 DEF SampleKept
<1> QED
  BY <1>1, <1>2, <1>3, <1>4, <1>5, <1>6 DEF Next

LEMMA SampleAlwaysKept == Spec => []SampleKept
<1>1. Init => SampleKept
  BY DEF Init, SampleKept
<1>2. TailTypeOK /\ SampleKept /\ [Next]_vars => SampleKept'
  BY SampleKeptStep
<1> QED
  BY <1>1, <1>2, TailTypeCorrect, PTL DEF Spec

(* A sampled self-check looks at Target different keys, at dummies only    *)
(* beside all real ones.                                                   *)
THEOREM SampleCoversKeys == Spec => []SampleCovers
<1>1. ASSUME TailTypeOK, SampleKept
      PROVE  SampleCovers
  <2>1. Target \in 1 .. n_enc /\ ny \in Nat /\ 0 < ny
    BY <1>1, TargetType DEF TailTypeOK
  <2>2. SUFFICES ASSUME pc = "ready"
                 PROVE  /\ Len(idx) = Target
                        /\ \A j, k \in 1 .. Target : j # k => idx[j] # idx[k]
                        /\ \/ \A k \in 1 .. Target : idx[k] <= ny
                           \/ \A j \in 1 .. ny : \E k \in 1 .. Target : idx[k] = j
    BY DEF SampleCovers
  <2>3. /\ Len(idx) = Target
        /\ \A j, k \in 1 .. Len(idx) : j # k => idx[j] # idx[k]
        /\ \A j \in 1 .. TakeReal : idx[j] = j
    BY <1>1, <2>2 DEF SampleKept
  <2>4. CASE ny < Target
    BY <2>1, <2>3, <2>4 DEF TakeReal
  <2>5. CASE Target <= ny
    BY <2>1, <2>3, <2>5 DEF TakeReal
  <2> QED
    BY <2>1, <2>3, <2>4, <2>5
<1> QED
  BY <1>1, TailTypeCorrect, SampleAlwaysKept, PTL

(* The loop that fills a sample ends within WordRange draws: SplitMix64    *)
(* being a bijection, its counter comes to every position before it has    *)
(* gone round, and a sample with every position is not short.              *)
THEOREM SampleEnds ==
  Spec => [](pc = "sample" =>
               \E k \in 0 .. WordRange :
                 /\ ctr = Word(SampleStart + k)
                 /\ Len(idx) < Target => k < WordRange)
<1>1. ASSUME TailTypeOK, SampleKept, pc = "sample"
      PROVE  \E k \in 0 .. WordRange :
               /\ ctr = Word(SampleStart + k)
               /\ Len(idx) < Target => k < WordRange
  <2>1. PICK k \in 0 .. WordRange :
          /\ ctr = Word(SampleStart + k)
          /\ \A l \in 1 .. k :
               \E j \in 1 .. Len(idx) : idx[j] = Index(Word(SampleStart + l))
    BY <1>1 DEF SampleKept
  <2>2. TakeReal <= Len(idx) /\ \A j \in 1 .. TakeReal : idx[j] = j
    BY <1>1 DEF SampleKept
  <2>3. Len(idx) < Target => k # WordRange
    BY <1>1, <2>1, <2>2, SampleStartType, AllDrawn
  <2>4. Len(idx) < Target => k < WordRange
    BY <2>1, <2>3, DummyTailAssumption
  <2> QED
    BY <2>1, <2>4
<1> QED
  BY <1>1, TailTypeCorrect, SampleAlwaysKept, PTL

=============================================================================
