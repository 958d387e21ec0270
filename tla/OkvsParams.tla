----------------------------- MODULE OkvsParams -----------------------------
(***************************************************************************)
(* The parameter policy of the OKVS: how many keys a bucket is padded to,  *)
(* which band width w and expansion e it gets, the stronger candidates     *)
(* tried after it, and when the encoder's constructor accepts them.        *)
(* Expansions are in hundredths: 1.12 is 112.                              *)
(***************************************************************************)
EXTENDS Integers

Config(width, expansion) == [w |-> width, e |-> expansion]
Larger(a, b) == IF a > b THEN a ELSE b
Smaller(a, b) == IF a < b THEN a ELSE b

kOkvsMinStableN == 32
kMaxBandBits == 768

(* Mutant: small buckets keep their size. *)
UnpaddedOkvsN(n) == n

PaddedOkvsN(n) == IF n < kOkvsMinStableN THEN kOkvsMinStableN ELSE n

SelectOkvsConfigByN(n) ==
  IF n <= 32 THEN Config(8, 300)
  ELSE IF n <= 64 THEN Config(12, 135)
  ELSE IF n <= 128 THEN Config(16, 125)
  ELSE IF n <= 256 THEN Config(24, 118)
  ELSE IF n <= 2048 THEN Config(24, 112)
  ELSE IF n <= 4096 THEN Config(48, 112)
  ELSE Config(64, 112)

(* static_cast<int64_t>(n * e + 0.999999), the policy's table size. *)
PolicyM(n, c) == (n * c.e + 99) \div 100

(* std::ceil(n * e), the constructor's: rounding in the product may carry  *)
(* it past an integer the policy's sum does not reach.                     *)
ConstructorMs(n, c) == {PolicyM(n, c), PolicyM(n, c) + 1}

(* Mutant: the band is taken off once. *)
BandCountedOnce(n, c) == PolicyM(n, c) - c.w + 1 > 0

IsOkvsParamShapeValid(n, c) == PolicyM(n, c) - 2 * c.w + 1 > 0

(* The constructor of OKVSBKV2 with table size m does not throw. *)
ConstructorAccepts(n, c, m) ==
  /\ c.w <= kMaxBandBits
  /\ n > 0 /\ c.w > 0 /\ m > 0
  /\ (m - c.w) - c.w + 1 > 0

(* The stronger parameters, in the order they are tried, never fall below *)
(* the policy's own.                                                       *)
Strengths == <<Config(12, 150), Config(16, 175), Config(24, 200)>>

(* The ci-th candidate for an encoding of n keys. *)
Candidate(n, ci) ==
  LET base == SelectOkvsConfigByN(n)
  IN IF ci = 0 THEN base
     ELSE Config(Larger(base.w, Strengths[ci].w), Larger(base.e, Strengths[ci].e))

=============================================================================
