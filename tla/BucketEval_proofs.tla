------------------------- MODULE BucketEval_proofs -------------------------
(***************************************************************************)
(* The evaluation of a bucket, for all buckets, all configurations and     *)
(* every set of rows an encoding may lose.                                 *)
(***************************************************************************)
EXTENDS BucketEval, TLAPS, FiniteSetTheorems, WellFoundedInduction

----------------------------------------------------------------------------
(* The policy is sound for every bucket size: tests/                       *)
(* test_okvs_param_policy.cpp tries seventeen of them.                     *)

(* Two table slots per bit of the band are enough for a valid shape. *)
LEMMA ShapeArithmetic ==
  ASSUME NEW n \in Nat, NEW w \in Nat, NEW e \in Nat, 200 * w <= n * e
  PROVE  IsOkvsParamShapeValid(n, Config(w, e))
<1>1. PICK k \in Nat : k = n * e
  OBVIOUS
<1>2. (k + 99) \div 100 >= 2 * w
  BY <1>1
<1> QED
  BY <1>1, <1>2 DEF IsOkvsParamShapeValid, PolicyM, Config

(* A band that fits the table, and can be strengthened without outgrowing  *)
(* it: only large buckets get one wider than 24.                           *)
Roomy(n, c) ==
  /\ c = Config(c.w, c.e)
  /\ c.w \in 1 .. 64 /\ c.e \in 112 .. 300
  /\ 200 * c.w <= 112 * n
  /\ n >= 32

(* Shapes the table of n keys holds twice over. *)
Fits(n, c) == c.w \in 1 .. 64 /\ c.e \in 112 .. 300 /\ 200 * c.w <= n * c.e

(* What the policy picks for a padded bucket is roomy. *)
LEMMA PolicyRoomy ==
  ASSUME NEW n \in Nat, n >= 32
  PROVE  Roomy(n, SelectOkvsConfigByN(n))
<1>1. CASE n = 32
  <2>1. SelectOkvsConfigByN(n) = Config(8, 300)
    BY <1>1 DEF SelectOkvsConfigByN
  <2>2. Roomy(n, Config(8, 300))
    BY <1>1 DEF Roomy, Config
  <2> QED
    BY <2>1, <2>2
<1>2. CASE n \in 33 .. 64
  <2>1. SelectOkvsConfigByN(n) = Config(12, 135)
    BY <1>2 DEF SelectOkvsConfigByN
  <2>2. Roomy(n, Config(12, 135))
    BY <1>2 DEF Roomy, Config
  <2> QED
    BY <2>1, <2>2
<1>3. CASE n \in 65 .. 128
  <2>1. SelectOkvsConfigByN(n) = Config(16, 125)
    BY <1>3 DEF SelectOkvsConfigByN
  <2>2. Roomy(n, Config(16, 125))
    BY <1>3 DEF Roomy, Config
  <2> QED
    BY <2>1, <2>2
<1>4. CASE n \in 129 .. 256
  <2>1. SelectOkvsConfigByN(n) = Config(24, 118)
    BY <1>4 DEF SelectOkvsConfigByN
  <2>2. Roomy(n, Config(24, 118))
    BY <1>4 DEF Roomy, Config
  <2> QED
    BY <2>1, <2>2
<1>5. CASE n \in 257 .. 2048
  <2>1. SelectOkvsConfigByN(n) = Config(24, 112)
    BY <1>5 DEF SelectOkvsConfigByN
  <2>2. Roomy(n, Config(24, 112))
    BY <1>5 DEF Roomy, Config
  <2> QED
    BY <2>1, <2>2
<1>6. CASE n \in 2049 .. 4096
  <2>1. SelectOkvsConfigByN(n) = Config(48, 112)
    BY <1>6 DEF SelectOkvsConfigByN
  <2>2. Roomy(n, Config(48, 112))
    BY <1>6 DEF Roomy, Config
  <2> QED
    BY <2>1, <2>2
<1>7. CASE n > 4096
  <2>1. SelectOkvsConfigByN(n) = Config(64, 112)
    BY <1>7 DEF SelectOkvsConfigByN
  <2>2. Roomy(n, Config(64, 112))
    BY <1>7 DEF Roomy, Config
  <2> QED
    BY <2>1, <2>2
<1> QED
  BY <1>1, <1>2, <1>3, <1>4, <1>5, <1>6, <1>7

LEMMA MonotoneProduct ==
  ASSUME NEW n \in Nat, NEW a \in Nat, NEW b \in Nat, a <= b
  PROVE  n * a <= n * b
<1>1. PICK d \in Nat : b = a + d
  <2> WITNESS b - a \in Nat
  <2> QED
    OBVIOUS
<1>2. n * b = n * a + n * d
  BY <1>1
<1>3. n * a \in Nat /\ n * d \in Nat
  OBVIOUS
<1> QED
  BY <1>2, <1>3

(* Raising the band to at most what the raised expansion carries leaves    *)
(* room for it.                                                            *)
LEMMA StrongerFits ==
  ASSUME NEW n \in Nat, NEW c, Roomy(n, c),
         NEW w \in 1 .. 64, NEW e \in 112 .. 300, 25 * w <= 4 * e
  PROVE  Fits(n, Config(Larger(c.w, w), Larger(c.e, e)))
<1> DEFINE W == Larger(c.w, w)
           E == Larger(c.e, e)
<1>1. /\ n >= 32
      /\ c.w \in 1 .. 64 /\ c.e \in 112 .. 300
      /\ 200 * c.w <= 112 * n
  BY DEF Roomy
<1>2. W \in 1 .. 64 /\ E \in 112 .. 300 /\ E >= e /\ W \in {c.w, w}
  BY <1>1 DEF Larger
<1> HIDE DEF W, E
<1>3. n * E \in Nat /\ n * e \in Nat /\ n * 112 <= n * E /\ n * e <= n * E
  BY <1>2, MonotoneProduct
<1>4. 32 * e <= n * e
  <2>1. e * 32 <= e * n
    BY <1>1, MonotoneProduct
  <2> QED
    BY <2>1
<1>5. 200 * w <= n * e
  BY <1>3, <1>4
<1>6. 200 * c.w <= n * E
  BY <1>1, <1>3
<1>7. 200 * w <= n * E
  BY <1>3, <1>5
<1>8. 200 * W <= n * E
  BY <1>2, <1>6, <1>7
<1>9. Fits(n, Config(W, E))
  BY <1>2, <1>8 DEF Fits, Config
<1> QED
  BY <1>9 DEF W, E

(* Every candidate is a configuration whose band fits the table twice. *)
LEMMA CandidateFits ==
  ASSUME NEW n \in Nat, n >= 32, NEW rung \in 0 .. 3
  PROVE  /\ Fits(n, Candidate(n, rung))
         /\ Candidate(n, rung) = Config(Candidate(n, rung).w, Candidate(n, rung).e)
<1> DEFINE base == SelectOkvsConfigByN(n)
<1>1. Roomy(n, base)
  BY PolicyRoomy
<1>2. /\ base = Config(base.w, base.e)
      /\ base.w \in 1 .. 64 /\ base.e \in 112 .. 300
      /\ 200 * base.w <= 112 * n
  BY <1>1 DEF Roomy
<1> HIDE DEF base
<1>3. CASE rung = 0
  <2>1. Candidate(n, rung) = base
    BY <1>3 DEF Candidate, base
  <2>2. n * 112 <= n * base.e
    BY <1>2, MonotoneProduct
  <2>3. n * base.e \in Nat
    BY <1>2
  <2>4. 200 * base.w <= n * base.e
    BY <1>2, <2>2, <2>3
  <2>5. Fits(n, base)
    BY <1>2, <2>4 DEF Fits
  <2> QED
    BY <1>2, <2>1, <2>5
<1>4. CASE rung # 0
  <2> DEFINE w == Strengths[rung].w
             e == Strengths[rung].e
  <2>1. w \in 1 .. 64 /\ e \in 112 .. 300 /\ 25 * w <= 4 * e
    BY <1>4 DEF Strengths, Config
  <2>2. Candidate(n, rung) = Config(Larger(base.w, w), Larger(base.e, e))
    BY <1>4 DEF Candidate, base
  <2> HIDE DEF w, e
  <2>3. Fits(n, Config(Larger(base.w, w), Larger(base.e, e)))
    BY <1>1, <2>1, StrongerFits
  <2> QED
    BY <2>2, <2>3 DEF Config
<1> QED
  BY <1>3, <1>4

(* Every candidate has a valid shape for every padded bucket: neither the  *)
(* early return at bucket_eval.cpp:112 nor the skip at :226 is ever taken  *)
(* while pad_small_buckets is on.                                          *)
THEOREM PaddedShapesValid ==
  ASSUME NEW bucket \in Nat, NEW rung \in 0 .. 3
  PROVE  IsOkvsParamShapeValid(PaddedOkvsN(bucket),
                               Candidate(PaddedOkvsN(bucket), rung))
<1> DEFINE n == PaddedOkvsN(bucket)
<1>1. n \in Nat /\ n >= 32
  BY DEF PaddedOkvsN, kOkvsMinStableN
<1> HIDE DEF n
<1>2. PICK w \in 1 .. 64, e \in 112 .. 300 :
        Candidate(n, rung) = Config(w, e) /\ 200 * w <= n * e
  BY <1>1, CandidateFits, ZenonT(60) DEF Fits
<1>3. IsOkvsParamShapeValid(n, Config(w, e))
  BY <1>1, <1>2, ShapeArithmetic
<1> QED
  BY <1>2, <1>3 DEF n

(* The OKVS constructor never throws on a padded bucket: its table size is *)
(* the policy's or one more, and its own tests are weaker.                 *)
THEOREM PaddedConstructorAccepts ==
  ASSUME NEW bucket \in Nat, NEW rung \in 0 .. 3,
         NEW m \in ConstructorMs(PaddedOkvsN(bucket),
                                 Candidate(PaddedOkvsN(bucket), rung))
  PROVE  ConstructorAccepts(PaddedOkvsN(bucket),
                            Candidate(PaddedOkvsN(bucket), rung), m)
<1> DEFINE n == PaddedOkvsN(bucket)
<1>1. n \in Nat /\ n >= 32
  BY DEF PaddedOkvsN, kOkvsMinStableN
<1> HIDE DEF n
<1>2. PICK w \in 1 .. 64, e \in 112 .. 300 :
        Candidate(n, rung) = Config(w, e) /\ 200 * w <= n * e
  BY <1>1, CandidateFits, ZenonT(60) DEF Fits
<1>3. PICK k \in Nat : k = n * e
  BY <1>1
<1>4. m \in {(k + 99) \div 100, (k + 99) \div 100 + 1}
  BY <1>2, <1>3 DEF ConstructorMs, PolicyM, Config, n
<1>5. m \in Nat /\ m >= 2 * w
  BY <1>2, <1>3, <1>4
<1> QED
  BY <1>1, <1>2, <1>5 DEF ConstructorAccepts, Config, kMaxBandBits, n

----------------------------------------------------------------------------

(* The sizes and bounds that the configuration determines are numbers. *)
LEMMA BoundsType ==
  ASSUME xs \in Seq(Items), ys \in Seq(Items), cfg \in ConfigType
  PROVE  /\ nx \in Nat /\ ny \in Nat
         /\ LogicalN \in Nat /\ NEnc \in Nat /\ LogicalN <= NEnc
         /\ MaxExtra \in 0 .. 3
         /\ Retries \in Nat /\ Retries >= 1
         /\ SampleTarget \in Nat
<1>1. nx \in Nat /\ ny \in Nat
  BY DEF nx, ny
<1>2. /\ cfg.okvs_bucket_slack \in Nat
      /\ cfg.okvs_robust_retries_per_param \in Nat
      /\ cfg.okvs_robust_param_levels \in Nat
      /\ cfg.okvs_robust_self_check_sample_keys \in Nat
  BY DEF ConfigType
<1>3. LogicalN \in Nat
  BY <1>1, <1>2, BucketEvalAssumption DEF LogicalN
<1>4. NEnc \in Nat /\ LogicalN <= NEnc
  BY <1>3 DEF NEnc, PaddedOkvsN, kOkvsMinStableN
<1>5. Len(Strengths) = 3
  BY DEF Strengths
<1>6. MaxExtra \in 0 .. 3
  BY <1>2, <1>5 DEF MaxExtra, Smaller
<1>7. Retries \in Nat /\ Retries >= 1
  BY <1>2 DEF Retries, Larger
<1>8. SampleTarget \in Nat
  BY <1>2, <1>4 DEF SampleTarget, Larger, Smaller
<1> QED
  BY <1>1, <1>3, <1>4, <1>6, <1>7, <1>8

(* The same of the arguments a call brings. *)
LEMMA BoundsLater ==
  ASSUME xs' \in Seq(Items), ys' \in Seq(Items), cfg' \in ConfigType
  PROVE  nx' \in Nat /\ MaxExtra' \in Nat /\ Retries' - 1 \in Nat
<1>1. /\ cfg'.okvs_robust_retries_per_param \in Nat
      /\ cfg'.okvs_robust_param_levels \in Nat
  BY DEF ConfigType
<1>2. Len(Strengths) = 3
  BY DEF Strengths
<1>3. MaxExtra' \in Nat
  BY <1>1, <1>2 DEF MaxExtra, Smaller
<1>4. Retries' - 1 \in Nat
  BY <1>1 DEF Retries, Larger
<1> QED
  BY <1>3, <1>4 DEF nx

(* Before the search begins the locals are untouched. *)
Fresh ==
  /\ pc \in {"idle", "enter"} => bridge = "none" /\ bridgeSize = 0
  /\ pc \in {"idle", "enter", "sign"} =>
    /\ ci = 0 /\ attempt = 0 /\ attempts = 0
    /\ lost = {} /\ tailLost = "none"
    /\ matched = <<>> /\ xi = 0 /\ verdict = FALSE

(* A table exists only for a candidate of the ladder. *)
OnLadder == pc \in {"check", "verify"} => ci <= MaxExtra

Typed == TypeOK /\ Fresh /\ OnLadder

(* The ways out after a failed call of the bridge or decoding. *)
Aborting == SignFails \/ DecodeFails \/ VerifyFails

LEMMA AbortLeaves ==
  ASSUME Aborting
  PROVE  /\ pc \in {"sign", "verify"} /\ pc' = "return"
         /\ xs' = xs /\ ys' = ys /\ cfg' = cfg /\ arguments' = arguments
         /\ bridge' = "freed" /\ bridgeSize' = bridgeSize /\ aborted' = TRUE
         /\ ci' = ci /\ attempt' = attempt /\ attempts' = attempts
         /\ lost' = lost /\ tailLost' = tailLost
         /\ matched' = matched /\ xi' = xi /\ verdict' = FALSE
<1>1. Abort /\ pc \in {"sign", "verify"}
  BY DEF Aborting, SignFails, DecodeFails, VerifyFails
<1> QED
  BY <1>1, Zenon DEF Abort, Leave, arguments, search

LEMMA TypedInit == Init => Typed
<1> SUFFICES ASSUME Init PROVE Typed
  OBVIOUS
<1>1. xs \in Seq(Items) /\ ys \in Seq(Items) /\ cfg \in ConfigType
  BY BucketEvalAssumption DEF Init
<1>2. Fresh
  BY Zenon DEF Init, Fresh
<1>3. MaxExtra \in Nat /\ Retries - 1 \in Nat /\ nx \in Nat
  BY <1>1, BoundsType
<1>4. matched \in Seq(Items) /\ verdict \in BOOLEAN /\ aborted \in BOOLEAN
  <2>1. <<>> \in Seq(Items)
    OBVIOUS
  <2> QED
    BY <2>1, Zenon DEF Init
<1>5. ci \in 0 .. MaxExtra + 1 /\ attempt \in 0 .. Retries - 1 /\ xi \in 0 .. nx
  BY <1>3 DEF Init
<1> QED
  BY <1>1, <1>2, <1>4, <1>5 DEF Init, Typed, TypeOK, OnLadder

LEMMA TypedStep ==
  ASSUME Typed, [Next]_vars
  PROVE  Typed'
<1> USE DEF Typed, TypeOK, Fresh, OnLadder
<1>a. /\ nx \in Nat /\ ny \in Nat /\ MaxExtra \in 0 .. 3
      /\ Retries \in Nat /\ Retries >= 1
  BY BoundsType
<1>b. arguments' = arguments =>
        /\ nx' = nx /\ ny' = ny /\ MaxExtra' = MaxExtra /\ Retries' = Retries
  BY DEF arguments, nx, ny, MaxExtra, Retries, strict_robust
<1>1. ASSUME NEW u \in XBuckets, NEW v \in YBuckets, NEW c \in Configs,
             Call(u, v, c)
      PROVE  Typed'
  <2>1. xs' \in Seq(Items) /\ ys' \in Seq(Items) /\ cfg' \in ConfigType
    BY <1>1, BucketEvalAssumption DEF Call
  <2>2. nx' \in Nat /\ MaxExtra' \in Nat /\ Retries' - 1 \in Nat
    BY <2>1, BoundsLater
  <2>3. /\ bridge' = bridge /\ bridgeSize' = bridgeSize /\ ci' = ci
        /\ attempt' = attempt /\ attempts' = attempts /\ lost' = lost
        /\ tailLost' = tailLost /\ matched' = matched /\ xi' = xi
        /\ verdict' = verdict /\ aborted' = aborted
        /\ pc = "idle" /\ pc' = "enter"
    BY <1>1, Zenon DEF Call, context, search, answer
  <2>4. Fresh
    BY DEF Typed
  <2>5. Fresh'
    BY <2>3, <2>4, Zenon DEF Fresh
  <2>6. ci' = 0 /\ attempt' = 0 /\ lost' = {} /\ xi' = 0
    BY <2>3, <2>4 DEF Fresh
  <2>7. /\ ci' \in 0 .. MaxExtra' + 1 /\ attempt' \in 0 .. Retries' - 1
        /\ xi' \in 0 .. nx' /\ lost' \subseteq 1 .. ny'
    <3>1. \A M, R, N \in Nat : 0 \in 0 .. M + 1 /\ 0 \in 0 .. R /\ 0 \in 0 .. N
      OBVIOUS
    <3>2. ci' \in 0 .. MaxExtra' + 1 /\ attempt' \in 0 .. Retries' - 1 /\ xi' \in 0 .. nx'
      BY <2>2, <2>6, <3>1, Zenon
    <3> QED
      BY <2>6, <3>2
  <2> QED
    BY <2>1, <2>3, <2>5, <2>7
<1>2. CASE EmptyReturn \/ Reject \/ CreateFails
  BY <1>2, <1>a, <1>b
  DEF EmptyReturn, Reject, CreateFails, Accepted, Leave, arguments, context,
      search
<1>3. CASE Create
  BY <1>3, <1>a, <1>b DEF Create, Accepted, Larger, arguments, search, answer
<1>13. CASE Sign
  BY <1>13, <1>a, <1>b DEF Sign, arguments, context, search, answer
<1>14. CASE Aborting
  <2>1. /\ pc' = "return" /\ xs' = xs /\ ys' = ys /\ cfg' = cfg
        /\ bridge' = "freed" /\ bridgeSize' = bridgeSize /\ aborted' = TRUE
        /\ ci' = ci /\ attempt' = attempt /\ attempts' = attempts
        /\ lost' = lost /\ tailLost' = tailLost
        /\ matched' = matched /\ xi' = xi /\ verdict' = FALSE
        /\ nx' = nx /\ ny' = ny /\ MaxExtra' = MaxExtra /\ Retries' = Retries
    BY <1>14, <1>b, AbortLeaves
  <2>2. verdict' \in BOOLEAN /\ aborted' \in BOOLEAN
    BY <2>1, Zenon
  <2>3. Fresh' /\ OnLadder'
    BY <2>1
  <2> QED
    BY <2>1, <2>2, <2>3
<1>4. CASE SkipCandidate
  BY <1>4, <1>a, <1>b DEF SkipCandidate, arguments, context, answer
<1>5. CASE Encode
  <2>1. lost' \subseteq 1 .. ny /\ tailLost' \in {"none", "unsampled", "sampled"}
    BY <1>5 DEF Encode, Losable
  <2> QED
    BY <1>5, <1>a, <1>b, <2>1 DEF Encode, arguments, context, answer
<1>6. CASE CheckFails
  BY <1>6, <1>a, <1>b DEF CheckFails, DropTable, arguments, context, answer
<1>7. CASE CheckPasses
  BY <1>7, <1>a, <1>b DEF CheckPasses, arguments, context, search, answer
<1>8. CASE Exhausted
  BY <1>8, <1>a, <1>b DEF Exhausted, Leave, arguments, search
<1>9. CASE Verify
  <2>1. xi + 1 \in 1 .. Len(xs)
    BY <1>9, <1>a DEF Verify, nx
  <2>2. matched' \in Seq(Items)
    BY <1>9, <2>1 DEF Verify
  <2>3. xi' \in 0 .. nx /\ pc' = "verify" /\ verdict' = verdict
    BY <1>9, <1>a DEF Verify
  <2> QED
    BY <1>9, <1>a, <1>b, <2>2, <2>3 DEF Verify, arguments, context, search
<1>10. CASE Finish
  BY <1>10, <1>a, <1>b DEF Finish, Leave, arguments, search
<1>11. CASE Return
  <2>1. /\ pc' = "idle" /\ arguments' = arguments
        /\ bridge' = "none" /\ bridgeSize' = 0 /\ aborted' = FALSE
        /\ ci' = 0 /\ attempt' = 0
        /\ attempts' = 0 /\ lost' = {} /\ tailLost' = "none"
        /\ matched' = <<>> /\ xi' = 0 /\ verdict' = FALSE
    BY <1>11, Zenon DEF Return
  <2>2. Fresh'
    BY <2>1, Zenon DEF Fresh
  <2>3. matched' \in Seq(Items)
    BY <2>1
  <2>4. verdict' \in BOOLEAN /\ aborted' \in BOOLEAN
    BY <2>1, Zenon
  <2>5. /\ ci' \in 0 .. MaxExtra' + 1 /\ attempt' \in 0 .. Retries' - 1
        /\ xi' \in 0 .. nx' /\ lost' \subseteq 1 .. ny'
    BY <1>a, <1>b, <2>1
  <2>6. xs' \in Seq(Items) /\ ys' \in Seq(Items) /\ cfg' \in ConfigType
    BY <2>1 DEF arguments
  <2> QED
    BY <2>1, <2>2, <2>3, <2>4, <2>5, <2>6
<1>12. CASE UNCHANGED vars
  BY <1>12, <1>a, <1>b DEF vars, arguments
<1> QED
  BY <1>1, <1>2, <1>3, <1>4, <1>5, <1>6, <1>7, <1>8, <1>9, <1>10, <1>11,
     <1>12, <1>13, <1>14 DEF Next, Evaluation, Aborting

LEMMA TypedAlways == Spec => []Typed
<1>1. Init => Typed
  BY TypedInit
<1>2. Typed /\ [Next]_vars => Typed'
  BY TypedStep
<1> QED
  BY <1>1, <1>2, PTL DEF Spec

(* Every variable keeps its type: the loop counters within the ladder, the *)
(* verified index within the bucket.                                       *)
THEOREM TypeCorrect == Spec => []TypeOK
<1>1. Typed => TypeOK
  BY DEF Typed
<1> QED
  BY <1>1, TypedAlways, PTL

----------------------------------------------------------------------------
(* The bridge. *)

BridgeKept ==
  /\ pc \in {"sign", "encode", "check", "verify"} =>
       /\ bridge = "live" /\ bridgeSize = Larger(nx, 2)
       /\ nx > 0 /\ ny > 0 /\ ~SlackOverflows
  /\ pc = "return" => bridge # "live"
  /\ bridge # "none" => bridgeSize >= 2

LEMMA BridgeStep ==
  ASSUME Typed, BridgeKept, [Next]_vars
  PROVE  BridgeKept'
<1>a. nx \in Nat /\ ny \in Nat
  BY BoundsType DEF Typed, TypeOK
<1>b. arguments' = arguments =>
        nx' = nx /\ ny' = ny /\ (SlackOverflows' <=> SlackOverflows)
  BY DEF arguments, nx, ny, SlackOverflows, LogicalN
<1> USE DEF BridgeKept
<1>1. ASSUME NEW u \in XBuckets, NEW v \in YBuckets, NEW c \in Configs,
             Call(u, v, c)
      PROVE  BridgeKept'
  BY <1>1 DEF Call, context, Typed, Fresh
<1>2. CASE EmptyReturn \/ Reject \/ CreateFails
  BY <1>2 DEF EmptyReturn, Reject, CreateFails, Accepted, Leave, context,
     Typed, Fresh
<1>3. CASE Create
  BY <1>3, <1>a, <1>b DEF Create, Accepted, Larger
<1>4. CASE Sign \/ SkipCandidate \/ Encode \/ CheckFails \/ CheckPasses
           \/ Verify
  BY <1>4, <1>b
  DEF Sign, SkipCandidate, Encode, CheckFails, CheckPasses, Verify, context
<1>8. CASE Aborting
  BY <1>8, <1>a, <1>b, AbortLeaves DEF Larger
<1>5. CASE Exhausted \/ Finish
  BY <1>5, <1>a DEF Exhausted, Finish, Leave, Larger
<1>6. CASE Return
  BY <1>6 DEF Return
<1>7. CASE UNCHANGED vars
  BY <1>7, <1>b DEF vars, arguments
<1> QED
  BY <1>1, <1>2, <1>3, <1>4, <1>5, <1>6, <1>7, <1>8
  DEF Next, Evaluation, Aborting

LEMMA BridgeAlways == Spec => []BridgeKept
<1>1. Init => BridgeKept
  BY DEF Init, BridgeKept
<1>2. Typed /\ BridgeKept /\ [Next]_vars => BridgeKept'
  BY BridgeStep
<1> QED
  BY <1>1, <1>2, TypedAlways, PTL DEF Spec

(* The bridge is live wherever it is used, large enough for every index    *)
(* that is verified, never of the size RELIC gets wrong, and no way out of *)
(* the function leaks it.                                                  *)
THEOREM BridgeAlwaysSound == Spec => []BridgeSound
<1>1. Typed /\ BridgeKept => BridgeSound
  <2> SUFFICES ASSUME Typed, BridgeKept PROVE BridgeSound
    OBVIOUS
  <2>1. nx \in Nat
    BY BoundsType DEF Typed, TypeOK
  <2> QED
    BY <2>1 DEF BridgeKept, BridgeSound, Typed, Fresh, Larger
<1> QED
  BY <1>1, TypedAlways, BridgeAlways, PTL

----------------------------------------------------------------------------
(* What is encoded. *)

(* Every configuration the policy or the ladder offers has a band of 8 to  *)
(* 64 columns and some expansion.                                          *)
LEMMA CandidateType ==
  ASSUME NEW n \in Nat, NEW k \in 0 .. 3
  PROVE  Candidate(n, k).w \in 8 .. 64 /\ Candidate(n, k).e \in Nat
<1>1. /\ SelectOkvsConfigByN(n).w \in 8 .. 64
      /\ SelectOkvsConfigByN(n).e \in Nat
  BY DEF SelectOkvsConfigByN, Config
<1>2. CASE k = 0
  BY <1>1, <1>2 DEF Candidate
<1>3. CASE k # 0
  <2>1. k \in {1, 2, 3}
    BY <1>3
  <2>2. Strengths[k].w \in 8 .. 64 /\ Strengths[k].e \in Nat
    BY <2>1 DEF Strengths, Config
  <2> QED
    BY <1>1, <1>3, <2>2 DEF Candidate, Config, Larger
<1> QED
  BY <1>2, <1>3

(* What the policy's test accepts, the constructor accepts: the two round  *)
(* the size of the table differently, which may add a slot but not take    *)
(* one.                                                                    *)
LEMMA ValidShapeAccepted ==
  ASSUME NEW n \in Nat, n > 0, NEW k \in 0 .. 3,
         IsOkvsParamShapeValid(n, Candidate(n, k)),
         NEW m \in ConstructorMs(n, Candidate(n, k))
  PROVE  ConstructorAccepts(n, Candidate(n, k), m)
<1> DEFINE c == Candidate(n, k)
<1>1. c.w \in 8 .. 64 /\ c.e \in Nat
  BY CandidateType
<1>2. PICK p \in Nat : p = n * c.e
  BY <1>1
<1>3. PICK M : M = PolicyM(n, c)
  OBVIOUS
<1>4. M \in Int
  BY <1>2, <1>3 DEF PolicyM
<1>5. M - 2 * c.w + 1 > 0 /\ m \in {M, M + 1}
  BY <1>3 DEF IsOkvsParamShapeValid, ConstructorMs
<1> HIDE DEF c
<1>6. ConstructorAccepts(n, c, m)
  BY <1>1, <1>4, <1>5 DEF ConstructorAccepts, kMaxBandBits
<1> QED
  BY <1>6 DEF c

(* The table at hand is one of a candidate whose shape is valid, and so is *)
(* the last one where a retry is to come.                                  *)
ValidAt(k) == k <= MaxExtra /\ IsOkvsParamShapeValid(NEnc, Candidate(NEnc, k))

TableKept ==
  /\ pc \in {"check", "verify"} => lost \in Losable /\ ValidAt(ci)
  /\ pc = "encode" /\ attempt > 0 =>
       ValidAt(ci) /\ (NEnc = ny => lost \in Losable)
  /\ pc = "verify" => SelfCheckPasses

LEMMA TableStep ==
  ASSUME Typed, TableKept, [Next]_vars
  PROVE  TableKept'
<1>a. arguments' = arguments =>
        /\ NEnc' = NEnc /\ Losable' = Losable /\ ny' = ny
        /\ \A k : ValidAt(k)' <=> ValidAt(k)
  BY Zenon
  DEF arguments, NEnc, LogicalN, Losable, ny, ValidAt, MaxExtra, strict_robust
<1>b. arguments' = arguments /\ lost' = lost /\ tailLost' = tailLost =>
        (SelfCheckPasses' <=> SelfCheckPasses)
  <2>1. arguments' = arguments =>
          /\ ny' = ny /\ SampleTarget' = SampleTarget
          /\ (use_full_self_check' <=> use_full_self_check)
          /\ (strict_robust' <=> strict_robust)
    BY Zenon DEF arguments, ny, SampleTarget, use_full_self_check,
       strict_robust, NEnc, LogicalN
  <2> QED
    BY <2>1, Zenon DEF SelfCheckPasses
<1> USE DEF TableKept
<1>1. ASSUME pc' \in {"idle", "enter", "sign", "return"} PROVE TableKept'
  BY <1>1
<1>2. CASE Sign
  <2>1. attempt = 0 /\ attempt' = attempt /\ pc' = "encode"
    BY <1>2 DEF Sign, search, Typed, Fresh
  <2> QED
    BY <2>1
<1>3. CASE SkipCandidate
  <2>1. ~ValidAt(ci) /\ pc = "encode" /\ attempt' = attempt /\ pc' = pc
    BY <1>3 DEF SkipCandidate, ValidAt
  <2> QED
    BY <2>1
<1>4. CASE Encode
  <2>1. lost' \in Losable
    BY <1>4 DEF Encode, Typed, TypeOK
  <2>2. pc' = "check" /\ arguments' = arguments /\ ci' = ci /\ ValidAt(ci)
    BY <1>4 DEF Encode, ValidAt
  <2> QED
    BY <1>a, <2>1, <2>2
<1>5. CASE CheckFails
  <2>1. pc = "check" /\ pc' = "encode" /\ arguments' = arguments
    BY <1>5 DEF CheckFails
  <2>2. CASE attempt + 1 < Retries
    BY <1>5, <1>a, <2>1, <2>2 DEF CheckFails, DropTable
  <2>3. CASE ~(attempt + 1 < Retries)
    BY <1>5, <2>1, <2>3 DEF CheckFails
  <2> QED
    BY <2>2, <2>3
<1>6. CASE CheckPasses
  <2>1. /\ pc = "check" /\ pc' = "verify" /\ SelfCheckPasses
        /\ arguments' = arguments /\ lost' = lost /\ tailLost' = tailLost
        /\ ci' = ci
    BY <1>6 DEF CheckPasses, search
  <2> QED
    BY <1>a, <1>b, <2>1
<1>7. CASE Verify \/ UNCHANGED vars
  <2>1. /\ pc' = pc /\ ci' = ci /\ attempt' = attempt
        /\ arguments' = arguments /\ lost' = lost /\ tailLost' = tailLost
    BY <1>7 DEF Verify, search, vars, arguments
  <2> QED
    BY <1>a, <1>b, <2>1
<1>8. CASE EmptyReturn \/ Reject \/ CreateFails \/ Create \/ Exhausted \/ Finish
           \/ Aborting \/ Return
  <2>1. pc' \in {"idle", "sign", "return"}
    BY <1>8, AbortLeaves
    DEF EmptyReturn, Reject, CreateFails, Create, Exhausted, Finish, Return, Leave
  <2> QED
    BY <1>1, <2>1
<1>9. ASSUME NEW u \in XBuckets, NEW v \in YBuckets, NEW c \in Configs,
             Call(u, v, c)
      PROVE  TableKept'
  BY <1>1, <1>9 DEF Call
<1> QED
  BY <1>2, <1>3, <1>4, <1>5, <1>6, <1>7, <1>8, <1>9
  DEF Next, Evaluation, Aborting

LEMMA TableAlways == Spec => []TableKept
<1>1. Init => TableKept
  BY DEF Init, TableKept
<1>2. Typed /\ TableKept /\ [Next]_vars => TableKept'
  BY TableStep
<1> QED
  BY <1>1, <1>2, TypedAlways, PTL DEF Spec

(* A slack that does not wrap around leaves room for every real key. *)
LEMMA RoomForKeys ==
  ASSUME Typed, ~SlackOverflows, Len(ys) < SizeRange
  PROVE  ny <= NEnc
<1>1. /\ ny \in Nat /\ LogicalN \in Nat /\ LogicalN <= NEnc /\ NEnc \in Nat
  BY BoundsType DEF Typed, TypeOK
<1>2. cfg.okvs_bucket_slack \in Nat
  BY DEF Typed, TypeOK, ConfigType
<1>3. CASE cfg.okvs_bucket_slack = 0
  <2>1. LogicalN = ny
    BY <1>1, <1>3, BucketEvalAssumption DEF LogicalN, ny
  <2> QED
    BY <1>1, <2>1
<1>4. CASE cfg.okvs_bucket_slack > 0
  BY <1>1, <1>4 DEF SlackOverflows
<1> QED
  BY <1>2, <1>3, <1>4

(* The caller's bucket fits into a size_t. *)
LEMMA BucketsFit == Spec => [](Len(ys) < SizeRange)
<1>1. Init => Len(ys) < SizeRange
  BY BucketEvalAssumption DEF Init
<1>2. Len(ys) < SizeRange /\ [Next]_vars => (Len(ys) < SizeRange)'
  BY BucketEvalAssumption, AbortLeaves
  DEF Next, Evaluation, Call, EmptyReturn, Reject, CreateFails, Create, Sign,
      SkipCandidate, Encode, CheckFails, CheckPasses, Exhausted, Verify,
      Finish, Aborting, Return, arguments, vars
<1> QED
  BY <1>1, <1>2, PTL DEF Spec

(* Whatever the slack does, an encoding has an entry for every real key,   *)
(* and the constructor, whose exception nobody catches, never throws.      *)
THEOREM EncodingFits == Spec => []EncodeFits
<1>1. Typed /\ BridgeKept /\ TableKept /\ Len(ys) < SizeRange => EncodeFits
  <2> SUFFICES ASSUME Typed, BridgeKept, TableKept, Len(ys) < SizeRange,
                      pc \in {"encode", "check"}, ci <= MaxExtra
               PROVE  /\ ny <= NEnc
                      /\ pc = "check" =>
                           \A m \in ConstructorMs(NEnc, Candidate(NEnc, ci)) :
                             ConstructorAccepts(NEnc, Candidate(NEnc, ci), m)
    BY DEF EncodeFits
  <2>1. ny \in Nat /\ NEnc \in Nat /\ MaxExtra \in 0 .. 3
    BY BoundsType DEF Typed, TypeOK
  <2>2. ny > 0 /\ ny <= NEnc
    BY RoomForKeys DEF BridgeKept
  <2>3. NEnc > 0 /\ ci \in 0 .. 3
    BY <2>1, <2>2 DEF Typed, TypeOK
  <2>4. ASSUME pc = "check",
               NEW m \in ConstructorMs(NEnc, Candidate(NEnc, ci))
        PROVE  ConstructorAccepts(NEnc, Candidate(NEnc, ci), m)
    <3>1. IsOkvsParamShapeValid(NEnc, Candidate(NEnc, ci))
      BY <2>4 DEF TableKept, ValidAt
    <3> QED
      BY <2>1, <2>3, <2>4, <3>1, ValidShapeAccepted
  <2> QED
    BY <2>2, <2>4
<1> QED
  BY <1>1, TypedAlways, BridgeAlways, TableAlways, BucketsFit, PTL

----------------------------------------------------------------------------
(* What is reported. *)

(* The table has a row of x's key. *)
HasRow(i) == \E j \in (1 .. ny) \ lost : ys[j] = xs[i]

(* Whatever is decoded for a key verifies exactly if the table has its row.*)
LEMMA RowVerifies ==
  ASSUME ny \in Nat, NEW i, NEW p \in Decoded(i)
  PROVE  Verifies(p, i) <=> HasRow(i)
<1>1. HasRow(i) <=> RowsOf(i) # {}
  BY DEF HasRow, RowsOf
<1>2. CASE RowsOf(i) # {}
  BY <1>1, <1>2 DEF Decoded, RowsOf, Verifies
<1>3. CASE RowsOf(i) = {}
  BY <1>1, <1>3 DEF Decoded, Verifies
<1> QED
  BY <1>2, <1>3

LEMMA VerifyMatches ==
  ASSUME ny \in Nat, Verify
  PROVE  matched' = IF HasRow(xi + 1) THEN Append(matched, xs[xi + 1])
                    ELSE matched
<1>1. PICK p \in Decoded(xi + 1) :
        matched' = IF Verifies(p, xi + 1) THEN Append(matched, xs[xi + 1])
                   ELSE matched
  BY DEF Verify
<1>2. Verifies(p, xi + 1) <=> HasRow(xi + 1)
  BY RowVerifies
<1> QED
  BY <1>1, <1>2

Signed == {j \in 1 .. xi : HasRow(j)}
Found == {matched[k] : k \in 1 .. Len(matched)}

(* The items verified so far that a kept table gave a signed payload are   *)
(* the ones reported, and true is returned only after a full pass.         *)
MatchesKept ==
  /\ pc \notin {"verify", "return"} => xi = 0
  /\ xi = 0 => matched = <<>>
  /\ Found = {xs[k] : k \in Signed}
  /\ pc = "return" /\ verdict =>
       \/ nx = 0 \/ ny = 0
       \/ xi = nx /\ lost \in Losable /\ SelfCheckPasses

LEMMA MatchesStep ==
  ASSUME Typed, BridgeKept, TableKept, MatchesKept, [Next]_vars
  PROVE  MatchesKept'
<1>a. nx \in Nat /\ ny \in Nat
  BY BoundsType DEF Typed, TypeOK
<1>1. ASSUME xi' = 0, matched' = <<>>, ~(pc' = "return" /\ verdict')
      PROVE  MatchesKept'
  <2>1. 1 .. xi' = {} /\ 1 .. Len(matched') = {}
    BY <1>1
  <2> QED
    BY <1>1, <2>1 DEF MatchesKept, Signed, Found
<1>2. ASSUME NEW u \in XBuckets, NEW v \in YBuckets, NEW c \in Configs,
             Call(u, v, c)
      PROVE  MatchesKept'
  <2>1. xi' = 0 /\ matched' = <<>> /\ pc' = "enter"
    BY <1>2 DEF Call, answer, Typed, Fresh
  <2> QED
    BY <1>1, <2>1
<1>3. CASE EmptyReturn
  <2>1. /\ xi' = 0 /\ matched' = <<>> /\ (nx = 0 \/ ny = 0)
        /\ arguments' = arguments
    BY <1>3 DEF EmptyReturn, Leave, Typed, Fresh
  <2>2. 1 .. xi' = {} /\ 1 .. Len(matched') = {}
    BY <2>1
  <2>3. nx' = 0 \/ ny' = 0
    BY <2>1 DEF arguments, nx, ny
  <2> QED
    BY <1>3, <2>1, <2>2, <2>3
    DEF MatchesKept, Signed, Found, EmptyReturn, Leave
<1>4. CASE Reject \/ CreateFails
  <2>1. xi' = 0 /\ matched' = <<>> /\ ~verdict'
    BY <1>4 DEF Reject, CreateFails, Accepted, Leave, Typed, Fresh
  <2> QED
    BY <1>1, <2>1
<1>5. CASE Create \/ Sign \/ SkipCandidate \/ Encode \/ CheckFails \/ CheckPasses
  <2>1. /\ xi' = xi /\ matched' = matched
        /\ pc' \in {"sign", "encode", "check", "verify"}
    BY <1>5 DEF Create, Sign, SkipCandidate, Encode, CheckFails, CheckPasses, answer
  <2>2. xi = 0
    BY <1>5
    DEF Create, Accepted, Sign, SkipCandidate, Encode, CheckFails, CheckPasses,
        MatchesKept
  <2> QED
    BY <1>1, <2>1, <2>2 DEF MatchesKept
<1>6. CASE Exhausted
  <2>1. xi' = 0 /\ matched' = <<>> /\ ~verdict'
    BY <1>6 DEF Exhausted, Leave, MatchesKept
  <2> QED
    BY <1>1, <2>1
<1>7. CASE Verify
  <2>1. /\ xs' = xs /\ ys' = ys /\ lost' = lost /\ pc' = "verify"
        /\ xi' = xi + 1 /\ pc = "verify"
        /\ matched' = IF HasRow(xi + 1) THEN Append(matched, xs[xi + 1])
                      ELSE matched
    BY <1>7, <1>a, VerifyMatches DEF Verify, arguments, search
  <2>2. xi \in Nat /\ matched \in Seq(Items)
    BY <1>a DEF Typed, TypeOK
  <2>4. 1 .. xi + 1 = (1 .. xi) \cup {xi + 1}
    BY <2>2
  <2>5. Signed' = {j \in 1 .. xi + 1 : HasRow(j)}
    BY <2>1 DEF Signed, HasRow, ny
  <2>6. CASE HasRow(xi + 1)
    <3>1. matched' = Append(matched, xs[xi + 1])
      BY <2>1, <2>6
    <3>2. /\ Len(matched') = Len(matched) + 1
          /\ matched'[Len(matched) + 1] = xs[xi + 1]
          /\ \A k \in 1 .. Len(matched) : matched'[k] = matched[k]
      BY <2>2, <3>1
    <3>3. Found' = Found \cup {xs[xi + 1]}
      BY <2>2, <3>2 DEF Found
    <3>4. Signed' = Signed \cup {xi + 1}
      BY <2>4, <2>5, <2>6 DEF Signed
    <3>5. Found' = {xs'[k] : k \in Signed'}
      BY <2>1, <3>3, <3>4 DEF MatchesKept
    <3>6. matched' # <<>> /\ xi' # 0
      <4>1. Len(matched') > 0 /\ xi' > 0
        BY <2>1, <2>2, <3>2
      <4>2. matched' = <<>> => Len(matched') = 0
        OBVIOUS
      <4> QED
        BY <4>1, <4>2
    <3> QED
      BY <2>1, <3>5, <3>6 DEF MatchesKept
  <2>7. CASE ~HasRow(xi + 1)
    <3>1. matched' = matched
      BY <2>1, <2>7
    <3>2. Signed' = Signed
      BY <2>4, <2>5, <2>7 DEF Signed
    <3>3. Found' = {xs'[k] : k \in Signed'}
      BY <2>1, <3>1, <3>2 DEF MatchesKept, Found
    <3>4. xi' # 0
      BY <2>1, <2>2
    <3> QED
      BY <2>1, <3>3, <3>4 DEF MatchesKept
  <2> QED
    BY <2>6, <2>7
<1>8. ASSUME arguments' = arguments, lost' = lost, tailLost' = tailLost,
             xi' = xi, matched' = matched
      PROVE  /\ xi = 0 => matched' = <<>>
             /\ Found' = {xs'[k] : k \in Signed'}
             /\ nx' = nx /\ ny' = ny /\ Losable' = Losable
             /\ SelfCheckPasses' <=> SelfCheckPasses
  <2>1. /\ nx' = nx /\ ny' = ny /\ xs' = xs /\ ys' = ys
        /\ Losable' = Losable /\ SampleTarget' = SampleTarget
        /\ (use_full_self_check' <=> use_full_self_check)
        /\ (strict_robust' <=> strict_robust)
    BY <1>8, Zenon DEF arguments, nx, ny, Losable, SampleTarget,
       use_full_self_check, strict_robust, NEnc, LogicalN
  <2>2. SelfCheckPasses' <=> SelfCheckPasses
    BY <1>8, <2>1, Zenon DEF SelfCheckPasses
  <2>3. Signed' = Signed /\ Found' = Found
    BY <1>8, <2>1 DEF HasRow, Signed, Found
  <2> QED
    BY <1>8, <2>1, <2>2, <2>3 DEF MatchesKept
<1>9. CASE Finish
  <2>1. /\ arguments' = arguments /\ lost' = lost /\ tailLost' = tailLost
        /\ xi' = xi /\ matched' = matched /\ pc = "verify" /\ pc' = "return"
        /\ xi = nx
    BY <1>9 DEF Finish, Leave, search
  <2>2. lost \in Losable /\ SelfCheckPasses
    BY <2>1 DEF TableKept
  <2> QED
    BY <1>8, <2>1, <2>2 DEF MatchesKept
<1>10. CASE Return
  <2>1. xi' = 0 /\ matched' = <<>> /\ pc' = "idle"
    BY <1>10 DEF Return
  <2> QED
    BY <1>1, <2>1
<1>12. CASE Aborting
  <2>1. /\ arguments' = arguments /\ lost' = lost /\ tailLost' = tailLost
        /\ xi' = xi /\ matched' = matched /\ pc' = "return" /\ ~verdict'
    BY <1>12, AbortLeaves
  <2> QED
    BY <1>8, <2>1 DEF MatchesKept
<1>11. CASE UNCHANGED vars
  <2>1. /\ arguments' = arguments /\ lost' = lost /\ tailLost' = tailLost
        /\ xi' = xi /\ matched' = matched /\ pc' = pc /\ verdict' = verdict
    BY <1>11 DEF vars, arguments
  <2> QED
    BY <1>8, <2>1 DEF MatchesKept
<1> QED
  BY <1>2, <1>3, <1>4, <1>5, <1>6, <1>7, <1>9, <1>10, <1>11, <1>12
  DEF Next, Evaluation, Aborting

LEMMA MatchesAlways == Spec => []MatchesKept
<1>1. Init => MatchesKept
  <2> SUFFICES ASSUME Init PROVE MatchesKept
    OBVIOUS
  <2>1. xi = 0 /\ matched = <<>> /\ pc = "idle"
    BY DEF Init
  <2>2. 1 .. xi = {} /\ 1 .. Len(matched) = {}
    BY <2>1
  <2> QED
    BY <2>1, <2>2 DEF MatchesKept, Signed, Found
<1>2. Typed /\ BridgeKept /\ TableKept /\ MatchesKept /\ [Next]_vars
        => MatchesKept'
  BY MatchesStep
<1> QED
  BY <1>1, <1>2, TypedAlways, BridgeAlways, TableAlways, PTL DEF Spec

(* A table that passes a check of all real keys has lost none of them, so  *)
(* that none of them occurs twice.                                         *)
LEMMA CheckedKeepsAll ==
  ASSUME lost \in Losable, SelfCheckPasses, ChecksAllRealKeys,
         ny \in Nat, SampleTarget \in Nat
  PROVE  /\ lost = {}
         /\ \A i, j \in 1 .. ny : i # j => ys[i] # ys[j]
<1>1. lost \subseteq 1 .. ny
  BY DEF Losable
<1>2. lost = {}
  <2>1. CASE SampleTarget >= ny
    <3>1. lost \subseteq 1 .. SampleTarget
      BY <1>1, <2>1
    <3>2. lost = {} \/ lost \cap (1 .. SampleTarget) = {}
      BY DEF SelfCheckPasses
    <3> QED
      BY <3>1, <3>2
  <2>2. CASE ~strict_robust \/ use_full_self_check
    BY <2>2 DEF SelfCheckPasses, use_full_self_check
  <2> QED
    BY <2>1, <2>2 DEF ChecksAllRealKeys
<1>3. \A i, j \in 1 .. ny : i < j => ys[i] # ys[j]
  BY <1>2 DEF Losable
<1> QED
  BY <1>2, <1>3

(* A checked bucket that holds an item twice is never encoded, whatever    *)
(* the retries and the levels: EvalBucketIntersectionNoInit answers true   *)
(* for it only if it has an empty side.                                    *)
THEOREM DuplicatesNeverTrue == Spec => []DuplicateNeverTrue
<1>1. Typed /\ MatchesKept => DuplicateNeverTrue
  <2> SUFFICES ASSUME Typed, MatchesKept, pc = "return", verdict,
                      ChecksAllRealKeys, nx > 0,
                      NEW i \in 1 .. ny, NEW j \in 1 .. ny, i # j
               PROVE  ys[i] # ys[j]
    BY DEF DuplicateNeverTrue
  <2>1. nx \in Nat /\ ny \in Nat /\ SampleTarget \in Nat
    BY BoundsType DEF Typed, TypeOK
  <2>2. lost \in Losable /\ SelfCheckPasses
    BY <2>1 DEF MatchesKept
  <2>3. \A k, l \in 1 .. ny : k < l => ys[k] # ys[l]
    BY <2>1, <2>2, CheckedKeepsAll
  <2>4. CASE i < j
    BY <2>3, <2>4
  <2>5. CASE j < i
    BY <2>3, <2>5
  <2> QED
    BY <2>1, <2>4, <2>5
<1> QED
  BY <1>1, TypedAlways, MatchesAlways, PTL

(* Where every real key is checked, true means that the items reported are *)
(* the items of P0's bucket that P1's holds, as sets.                      *)
THEOREM CheckedTrueReportsAll ==
  Spec => [](pc = "return" /\ verdict /\ ChecksAllRealKeys =>
               Found = {xs[i] : i \in {k \in 1 .. nx :
                                        \E j \in 1 .. ny : ys[j] = xs[k]}})
<1>1. ASSUME Typed, MatchesKept, pc = "return", verdict, ChecksAllRealKeys
      PROVE  Found = {xs[i] : i \in {k \in 1 .. nx :
                                      \E j \in 1 .. ny : ys[j] = xs[k]}}
  <2>1. nx \in Nat /\ ny \in Nat /\ SampleTarget \in Nat /\ xi \in 0 .. nx
    BY <1>1, BoundsType DEF Typed, TypeOK
  <2> DEFINE Both == {k \in 1 .. nx : \E j \in 1 .. ny : ys[j] = xs[k]}
  <2>2. CASE nx = 0 \/ ny = 0
    <3>1. Signed = {} /\ Both = {}
      BY <2>1, <2>2 DEF Signed, HasRow
    <3> QED
      BY <1>1, <3>1 DEF MatchesKept
  <2>3. CASE xi = nx /\ lost \in Losable /\ SelfCheckPasses
    <3>1. lost = {}
      BY <1>1, <2>1, <2>3, CheckedKeepsAll
    <3>2. Signed = Both
      BY <2>3, <3>1 DEF Signed, HasRow
    <3> QED
      BY <1>1, <3>2 DEF MatchesKept
  <2> QED
    BY <1>1, <2>2, <2>3 DEF MatchesKept
<1> QED
  BY <1>1, TypedAlways, MatchesAlways, PTL

----------------------------------------------------------------------------
(* How many attempts are made. *)

(* The rungs of the ladder below k: each of them has had all its attempts. *)
Below(k) == {j \in Ladder : j < k}

LEMMA LadderSize ==
  ASSUME Typed
  PROVE  /\ IsFiniteSet(Ladder) /\ Cardinality(Ladder) \in Nat
         /\ Cardinality(Ladder) * Retries \in Nat
         /\ Retries \in Nat /\ Retries >= 1
         /\ Below(0) = {} /\ Below(MaxExtra + 1) = Ladder
         /\ \A k \in 0 .. MaxExtra :
              /\ IsFiniteSet(Below(k)) /\ Cardinality(Below(k)) \in Nat
              /\ IF k \in Ladder
                   THEN /\ Cardinality(Below(k + 1)) = Cardinality(Below(k)) + 1
                        /\ Cardinality(Below(k)) + 1 <= Cardinality(Ladder)
                   ELSE Below(k + 1) = Below(k)
<1>1. MaxExtra \in 0 .. 3 /\ Retries \in Nat /\ Retries >= 1
  BY BoundsType DEF Typed, TypeOK
<1>2. Ladder \in SUBSET (0 .. MaxExtra)
  BY DEF Ladder
<1>3. IsFiniteSet(Ladder) /\ Cardinality(Ladder) \in Nat
  <2>1. IsFiniteSet(0 .. MaxExtra)
    BY <1>1, FS_Interval
  <2>2. IsFiniteSet(Ladder)
    BY <2>1, <1>2, FS_Subset
  <2> QED
    BY <2>2, FS_CardinalityType
<1>n. \A j \in Ladder : j \in Int /\ 0 <= j /\ j <= MaxExtra
  BY <1>1, <1>2
<1>4. Below(0) = {} /\ Below(MaxExtra + 1) = Ladder
  <2>1. \A j \in Ladder : ~(j < 0) /\ j < MaxExtra + 1
    BY <1>1, <1>n
  <2> QED
    BY <2>1 DEF Below
<1>5. ASSUME NEW k \in 0 .. MaxExtra
      PROVE  /\ IsFiniteSet(Below(k)) /\ Cardinality(Below(k)) \in Nat
             /\ IF k \in Ladder
                  THEN /\ Cardinality(Below(k + 1)) = Cardinality(Below(k)) + 1
                       /\ Cardinality(Below(k)) + 1 <= Cardinality(Ladder)
                  ELSE Below(k + 1) = Below(k)
  <2>1. Below(k) \in SUBSET Ladder /\ Below(k + 1) \in SUBSET Ladder
    BY DEF Below
  <2>2. IsFiniteSet(Below(k)) /\ Cardinality(Below(k)) \in Nat
    BY <1>3, <2>1, FS_Subset, FS_CardinalityType
  <2>3. k \notin Below(k) /\ k \in Int
    BY <1>1 DEF Below
  <2>4. CASE k \in Ladder
    <3>1. Below(k + 1) = Below(k) \cup {k}
      <4>1. \A j \in Ladder : j < k + 1 <=> j < k \/ j = k
        BY <1>n, <2>3
      <4>2. ~(k < k) /\ k < k + 1
        BY <2>3
      <4> QED
        BY <4>1, <4>2, <2>4 DEF Below
    <3>2. Cardinality(Below(k + 1)) = Cardinality(Below(k)) + 1
      BY <2>2, <2>3, <3>1, FS_AddElement
    <3>3. Cardinality(Below(k + 1)) <= Cardinality(Ladder)
      BY <1>3, <2>1, FS_Subset
    <3> QED
      BY <2>2, <2>4, <3>2, <3>3
  <2>5. CASE k \notin Ladder
    <3>1. Below(k + 1) = Below(k)
      <4>1. \A j \in Ladder : j < k + 1 <=> j < k
        BY <1>n, <2>3, <2>5
      <4> QED
        BY <4>1 DEF Below
    <3> QED
      BY <2>2, <2>5, <3>1
  <2> QED
    BY <2>4, <2>5
<1>6. Cardinality(Ladder) * Retries \in Nat
  BY <1>1, <1>3
<1> QED
  BY <1>1, <1>3, <1>4, <1>5, <1>6

(* The attempts made so far: all of the rungs below, and those of the rung *)
(* at hand.                                                                *)
AttemptsKept ==
  /\ attempts <= Cardinality(Ladder) * Retries
  /\ pc = "encode" =>
       /\ attempt > 0 => ci \in Ladder
       /\ attempts = Cardinality(Below(ci)) * Retries + attempt
  /\ pc = "check" =>
       /\ ci \in Ladder
       /\ attempts = Cardinality(Below(ci)) * Retries + attempt + 1
  /\ pc = "return" /\ ~verdict /\ bridge = "freed" /\ ~aborted =>
       attempts = Cardinality(Ladder) * Retries

LEMMA AttemptsStep ==
  ASSUME Typed, Typed', AttemptsKept, [Next]_vars
  PROVE  AttemptsKept'
<1>a. /\ ci \in 0 .. MaxExtra + 1 /\ attempt \in 0 .. Retries - 1
      /\ attempts \in Nat /\ MaxExtra \in Nat
  <2>1. MaxExtra \in 0 .. 3
    BY BoundsType DEF Typed, TypeOK
  <2> QED
    BY <2>1 DEF Typed, TypeOK
<1>l. /\ Cardinality(Ladder) * Retries \in Nat /\ Cardinality(Ladder) \in Nat
      /\ Retries \in Nat /\ Retries >= 1
      /\ Below(0) = {} /\ Below(MaxExtra + 1) = Ladder
      /\ \A k \in 0 .. MaxExtra :
           /\ Cardinality(Below(k)) \in Nat
           /\ IF k \in Ladder
                THEN /\ Cardinality(Below(k + 1)) = Cardinality(Below(k)) + 1
                     /\ Cardinality(Below(k)) + 1 <= Cardinality(Ladder)
                ELSE Below(k + 1) = Below(k)
  BY LadderSize
<1>b. ASSUME arguments' = arguments
      PROVE  /\ Ladder' = Ladder /\ Retries' = Retries
             /\ \A k : Below(k)' = Below(k)
  <2>1. /\ MaxExtra' = MaxExtra /\ NEnc' = NEnc /\ Retries' = Retries
    BY <1>b DEF arguments, MaxExtra, strict_robust, NEnc, LogicalN, ny, Retries
  <2>2. Ladder' = Ladder
    BY <2>1 DEF Ladder
  <2> QED
    BY <2>1, <2>2 DEF Below
<1>m. Retries - 1 >= attempt /\ attempt >= 0
  BY <1>a, <1>l
<1>1. ASSUME NEW u \in XBuckets, NEW v \in YBuckets, NEW c \in Configs,
             Call(u, v, c)
      PROVE  AttemptsKept'
  <2>1. attempts' = 0 /\ pc' = "enter"
    BY <1>1 DEF Call, search, Typed, Fresh
  <2>2. (Cardinality(Ladder) * Retries \in Nat)'
    BY LadderSize, PTL
  <2> QED
    BY <2>1, <2>2 DEF AttemptsKept
<1>2. CASE EmptyReturn \/ Reject \/ CreateFails
  <2>1. /\ arguments' = arguments /\ attempts' = 0 /\ bridge' = "none"
        /\ pc' = "return"
    BY <1>2 DEF EmptyReturn, Reject, CreateFails, Accepted, Leave, context,
       search, Typed, Fresh
  <2> QED
    BY <2>1, <1>b, <1>l DEF AttemptsKept
<1>11. CASE Create
  <2>1. arguments' = arguments /\ attempts' = 0 /\ pc' = "sign"
    BY <1>11 DEF Create, Accepted, search, Typed, Fresh
  <2> QED
    BY <2>1, <1>b, <1>l DEF AttemptsKept
<1>12. CASE Aborting
  <2>1. /\ arguments' = arguments /\ attempts' = attempts /\ pc' = "return"
        /\ aborted'
    BY <1>12, AbortLeaves
  <2> QED
    BY <2>1, <1>b DEF AttemptsKept
<1>3. CASE Sign
  <2>1. /\ arguments' = arguments /\ attempts' = 0 /\ attempt' = 0 /\ ci' = 0
        /\ pc' = "encode"
    BY <1>3 DEF Sign, search, Typed, Fresh
  <2>2. Cardinality(Below(0)) = 0
    BY <1>l, FS_EmptySet
  <2> QED
    BY <2>1, <2>2, <1>b, <1>l DEF AttemptsKept
<1>4. CASE SkipCandidate
  <2>1. /\ arguments' = arguments /\ attempts' = attempts /\ attempt' = attempt
        /\ ci' = ci + 1 /\ pc = "encode" /\ pc' = "encode"
        /\ ci \in 0 .. MaxExtra /\ ci \notin Ladder
    BY <1>4, <1>a DEF SkipCandidate, Ladder
  <2>2. attempt = 0
    BY <1>m, <1>a, <2>1 DEF AttemptsKept
  <2>3. Below(ci + 1) = Below(ci)
    BY <1>l, <2>1
  <2> QED
    BY <2>1, <2>2, <2>3, <1>b, <1>l DEF AttemptsKept
<1>5. CASE Encode
  <2>1. /\ arguments' = arguments /\ attempts' = attempts + 1
        /\ attempt' = attempt /\ ci' = ci /\ pc = "encode" /\ pc' = "check"
        /\ ci \in 0 .. MaxExtra /\ ci \in Ladder
    BY <1>5, <1>a DEF Encode, Ladder
  <2> DEFINE c == Cardinality(Below(ci))
             l == Cardinality(Ladder)
  <2>2. c \in Nat /\ c + 1 <= l /\ l \in Nat
    BY <1>l, <2>1
  <2>3. attempts = c * Retries + attempt
    BY <2>1 DEF AttemptsKept
  <2> HIDE DEF c, l
  <2>4. (c + 1) * Retries <= l * Retries
    BY <2>2, <1>l
  <2>5. (c + 1) * Retries = c * Retries + Retries
    BY <2>2, <1>l
  <2>6. c * Retries \in Nat /\ l * Retries \in Nat
    BY <2>2, <1>l
  <2>7. attempts + 1 = c * Retries + attempt + 1 /\ attempts + 1 <= l * Retries
    BY <2>3, <2>4, <2>5, <2>6, <1>m, <1>a, <1>l
  <2> QED
    BY <2>1, <2>7, <1>b DEF AttemptsKept, c, l
<1>6. CASE CheckFails
  <2>1. /\ arguments' = arguments /\ attempts' = attempts
        /\ pc = "check" /\ pc' = "encode"
        /\ IF attempt + 1 < Retries THEN attempt' = attempt + 1 /\ ci' = ci
           ELSE attempt' = 0 /\ ci' = ci + 1
    BY <1>6 DEF CheckFails
  <2>2. ci \in Ladder /\ ci \in 0 .. MaxExtra
    BY <2>1, <1>a DEF AttemptsKept, Ladder
  <2> DEFINE c == Cardinality(Below(ci))
  <2>3. c \in Nat /\ Cardinality(Below(ci + 1)) = c + 1
    BY <1>l, <2>2
  <2>4. attempts = c * Retries + attempt + 1
    BY <2>1 DEF AttemptsKept
  <2>5. c * Retries \in Nat /\ (c + 1) * Retries = c * Retries + Retries
    <3> HIDE DEF c
    <3> QED
      BY <2>3, <1>l
  <2>6. CASE attempt + 1 < Retries
    <3>1. attempt' = attempt + 1 /\ ci' = ci
      BY <2>1, <2>6
    <3>2. attempts = c * Retries + (attempt + 1)
      <4> HIDE DEF c
      <4> QED
        BY <2>4, <2>5, <1>a
    <3> QED
      BY <2>1, <2>2, <3>1, <3>2, <1>b DEF AttemptsKept
  <2>7. CASE ~(attempt + 1 < Retries)
    <3>1. attempt' = 0 /\ ci' = ci + 1
      BY <2>1, <2>7
    <3>2. attempts = Cardinality(Below(ci + 1)) * Retries + 0
      <4> HIDE DEF c
      <4>1. attempt + 1 = Retries
        BY <2>7, <1>m, <1>a, <1>l
      <4>2. attempts = c * Retries + Retries
        BY <4>1, <2>4, <2>5, <1>a, <1>l
      <4> QED
        BY <4>2, <2>3, <2>5, <1>l
    <3> QED
      BY <2>1, <3>1, <3>2, <1>b, <1>l DEF AttemptsKept
  <2> QED
    BY <2>6, <2>7
<1>7. CASE CheckPasses \/ Verify \/ Finish
  <2>1. /\ arguments' = arguments /\ attempts' = attempts
        /\ pc' \in {"verify", "return"} /\ (pc' = "return" => verdict')
    BY <1>7 DEF CheckPasses, Verify, Finish, Leave, search
  <2> QED
    BY <2>1, <1>b DEF AttemptsKept
<1>8. CASE Exhausted
  <2>1. /\ arguments' = arguments /\ attempts' = attempts /\ pc = "encode"
        /\ pc' = "return" /\ ci = MaxExtra + 1
    BY <1>8, <1>a DEF Exhausted, Leave, search
  <2>2. attempt = 0
    <3>1. ci \notin Ladder
      BY <2>1, <1>a DEF Ladder
    <3> QED
      BY <3>1, <2>1, <1>m, <1>a DEF AttemptsKept
  <2>3. attempts = Cardinality(Ladder) * Retries + 0
    BY <2>1, <2>2, <1>l DEF AttemptsKept
  <2>4. attempts = Cardinality(Ladder) * Retries
    BY <2>3, <1>l
  <2> QED
    BY <2>1, <2>4, <1>b DEF AttemptsKept
<1>9. CASE Return
  <2>1. arguments' = arguments /\ attempts' = 0 /\ pc' = "idle"
    BY <1>9 DEF Return
  <2> QED
    BY <2>1, <1>b, <1>l DEF AttemptsKept
<1>10. CASE UNCHANGED vars
  <2>1. /\ arguments' = arguments /\ attempts' = attempts /\ pc' = pc
        /\ attempt' = attempt /\ ci' = ci /\ verdict' = verdict
        /\ bridge' = bridge /\ aborted' = aborted
    BY <1>10 DEF vars, arguments
  <2> QED
    BY <2>1, <1>b DEF AttemptsKept
<1> QED
  BY <1>1, <1>2, <1>3, <1>4, <1>5, <1>6, <1>7, <1>8, <1>9, <1>10, <1>11, <1>12
  DEF Next, Evaluation, Aborting

(* After encoding began, false is returned only when every candidate with  *)
(* a shape has had all its attempts, or a call of the bridge or the        *)
(* decoding failed, and no attempt is made twice.                          *)
THEOREM AlwaysGivesUpLast == Spec => []GivesUpLast
<1>1. Init => Typed
  BY TypedInit
<1>2. Init /\ Typed => AttemptsKept
  <2> SUFFICES ASSUME Init, Typed PROVE AttemptsKept
    OBVIOUS
  <2>1. attempts = 0 /\ pc = "idle"
    BY DEF Init
  <2>2. Cardinality(Ladder) * Retries \in Nat
    BY LadderSize
  <2> QED
    BY <2>1, <2>2 DEF AttemptsKept
<1>3. Typed /\ Typed' /\ AttemptsKept /\ [Next]_vars => AttemptsKept'
  BY AttemptsStep
<1>4. AttemptsKept => GivesUpLast
  BY DEF AttemptsKept, GivesUpLast
<1> QED
  BY <1>1, <1>2, <1>3, <1>4, TypedAlways, PTL DEF Spec

----------------------------------------------------------------------------
(* The evaluation comes to an end. *)

(* What is left to do: stages of the function, candidates, attempts with   *)
(* this candidate, and steps that neither of them counts.                  *)
StagesLeft ==
  IF pc = "enter" THEN 4
  ELSE IF pc = "sign" THEN 3
  ELSE IF pc \in {"encode", "check"} THEN 2
  ELSE IF pc = "verify" THEN 1 ELSE 0
CandidatesLeft == MaxExtra + 1 - ci
AttemptsLeft == Retries - attempt
StepsLeft ==
  IF pc = "verify" THEN nx - xi ELSE IF pc = "encode" THEN 1 ELSE 0

(* A step forward in the lexicographic order of the four. *)
Closer ==
  \/ StagesLeft' < StagesLeft
  \/ /\ StagesLeft' = StagesLeft
     /\ \/ CandidatesLeft' < CandidatesLeft
        \/ /\ CandidatesLeft' = CandidatesLeft
           /\ AttemptsLeft' < AttemptsLeft \/ (AttemptsLeft' = AttemptsLeft /\ StepsLeft' < StepsLeft)

LEMMA MeasuresType ==
  ASSUME Typed
  PROVE  /\ StagesLeft \in Nat /\ CandidatesLeft \in Nat
         /\ AttemptsLeft \in Nat /\ StepsLeft \in Nat
<1>1. /\ nx \in Nat /\ MaxExtra \in Nat /\ Retries \in Nat
      /\ ci \in 0 .. MaxExtra + 1 /\ attempt \in 0 .. Retries - 1 /\ xi \in 0 .. nx
  BY BoundsType DEF Typed, TypeOK
<1>2. StagesLeft \in Nat
  BY DEF StagesLeft
<1>3. CandidatesLeft \in Nat /\ AttemptsLeft \in Nat
  BY <1>1 DEF CandidatesLeft, AttemptsLeft
<1>4. StepsLeft \in Nat
  BY <1>1 DEF StepsLeft
<1> QED
  BY <1>2, <1>3, <1>4

LEMMA EvaluationCloser ==
  ASSUME Typed, Evaluation
  PROVE  Closer
<1>1. /\ nx \in Nat /\ MaxExtra \in Nat /\ Retries \in Nat
      /\ ci \in 0 .. MaxExtra + 1 /\ attempt \in 0 .. Retries - 1 /\ xi \in 0 .. nx
  BY BoundsType DEF Typed, TypeOK
<1>2. arguments' = arguments =>
        nx' = nx /\ MaxExtra' = MaxExtra /\ Retries' = Retries
  BY DEF arguments, nx, MaxExtra, Retries, strict_robust
<1>3. CASE EmptyReturn \/ Reject \/ CreateFails \/ Create \/ Sign \/ CheckPasses
           \/ Exhausted \/ Finish
  BY <1>3 DEF EmptyReturn, Reject, CreateFails, Create, Accepted, Sign, CheckPasses,
              Exhausted, Finish, Leave, Closer, StagesLeft
<1>8. CASE Aborting
  BY <1>8, AbortLeaves DEF Closer, StagesLeft
<1>4. CASE SkipCandidate
  <2>1. pc = "encode" /\ pc' = pc /\ ci' = ci + 1 /\ arguments' = arguments
    BY <1>4 DEF SkipCandidate
  <2>2. StagesLeft' = StagesLeft
    BY <2>1 DEF StagesLeft
  <2>3. CandidatesLeft' < CandidatesLeft
    BY <1>1, <1>2, <2>1 DEF CandidatesLeft
  <2> QED
    BY <2>2, <2>3 DEF Closer
<1>5. CASE Encode
  <2>1. /\ pc = "encode" /\ pc' = "check" /\ ci' = ci /\ attempt' = attempt
        /\ arguments' = arguments
    BY <1>5 DEF Encode
  <2>2. StagesLeft' = StagesLeft /\ StepsLeft' < StepsLeft
    BY <2>1 DEF StagesLeft, StepsLeft
  <2>3. CandidatesLeft' = CandidatesLeft /\ AttemptsLeft' = AttemptsLeft
    BY <1>2, <2>1 DEF CandidatesLeft, AttemptsLeft
  <2> QED
    BY <2>2, <2>3 DEF Closer
<1>6. CASE CheckFails
  <2>1. pc = "check" /\ pc' = "encode" /\ arguments' = arguments
    BY <1>6 DEF CheckFails
  <2>2. StagesLeft' = StagesLeft
    BY <2>1 DEF StagesLeft
  <2>3. CASE attempt' = attempt + 1 /\ ci' = ci
    <3>1. CandidatesLeft' = CandidatesLeft
      BY <1>2, <2>1, <2>3 DEF CandidatesLeft
    <3>2. AttemptsLeft' < AttemptsLeft
      BY <1>1, <1>2, <2>1, <2>3 DEF AttemptsLeft
    <3> QED
      BY <2>2, <3>1, <3>2 DEF Closer
  <2>4. CASE ci' = ci + 1
    <3>1. CandidatesLeft' < CandidatesLeft
      BY <1>1, <1>2, <2>1, <2>4 DEF CandidatesLeft
    <3> QED
      BY <2>2, <3>1 DEF Closer
  <2> QED
    BY <1>6, <2>3, <2>4 DEF CheckFails
<1>7. CASE Verify
  <2>1. /\ pc = "verify" /\ pc' = pc /\ xi' = xi + 1 /\ ci' = ci
        /\ attempt' = attempt /\ arguments' = arguments
    BY <1>7 DEF Verify, search
  <2>2. StagesLeft' = StagesLeft
    BY <2>1 DEF StagesLeft
  <2>3. CandidatesLeft' = CandidatesLeft /\ AttemptsLeft' = AttemptsLeft
    BY <1>2, <2>1 DEF CandidatesLeft, AttemptsLeft
  <2>4. StepsLeft' < StepsLeft
    BY <1>1, <1>2, <2>1 DEF StepsLeft
  <2> QED
    BY <2>2, <2>3, <2>4 DEF Closer
<1> QED
  BY <1>3, <1>4, <1>5, <1>6, <1>7, <1>8 DEF Evaluation, Aborting

(* No failed check, dropped candidate or retry sends an evaluation back:   *)
(* its four measures are natural numbers, and every step of the function   *)
(* decreases them lexicographically.                                       *)
THEOREM EvaluationEnds ==
  /\ Spec => [](/\ StagesLeft \in Nat /\ CandidatesLeft \in Nat
               /\ AttemptsLeft \in Nat /\ StepsLeft \in Nat)
  /\ Spec => [][Evaluation => Closer]_vars
<1>1. Typed => /\ StagesLeft \in Nat /\ CandidatesLeft \in Nat
               /\ AttemptsLeft \in Nat /\ StepsLeft \in Nat
  BY MeasuresType
<1>2. Typed /\ Evaluation => Closer
  BY EvaluationCloser
<1> QED
  BY <1>1, <1>2, TypedAlways, PTL

----------------------------------------------------------------------------
(* The order of what is reported. *)

(* A set that holds 0 and with a number the next one holds them all. *)
LEMMA CountUp ==
  ASSUME NEW S, 0 \in S, \A n \in Nat : n \in S => n + 1 \in S
  PROVE  Nat \subseteq S
<1> SUFFICES ASSUME NEW k \in Nat \ S PROVE FALSE
  OBVIOUS
<1> DEFINE R == OpToRel(<, Nat)
           Missing == Nat \ S
<1>1. \E c \in Missing : \A d \in Missing : ~(<<d, c>> \in R)
  <2>1. Missing \subseteq Nat /\ Missing # {}
    OBVIOUS
  <2> HIDE DEF R, Missing
  <2> QED
    BY <2>1, NatLessThanWellFounded, WFMin, Zenon DEF R
<1>2. PICK c \in Missing : \A d \in Missing : ~(<<d, c>> \in R)
  BY <1>1
<1>3. c # 0 /\ c - 1 \in Nat /\ c - 1 < c
  OBVIOUS
<1>4. <<c - 1, c>> \in R
  BY <1>3 DEF OpToRel
<1>5. c - 1 \in S
  <2> HIDE DEF R
  <2> QED
    BY <1>2, <1>3, <1>4
<1>6. (c - 1) + 1 \in S
  BY <1>3, <1>5
<1> QED
  BY <1>6

IsHeld(k) == \E j \in 1 .. ny : ys[j] = xs[k]

(* The held items among the first k, for k up to n. *)
Held(f, n) ==
  f = [k \in 0 .. n |-> IF k = 0 THEN <<>>
                        ELSE IF IsHeld(k) THEN Append(f[k - 1], xs[k])
                        ELSE f[k - 1]]

LEMMA HeldExists ==
  ASSUME NEW n \in Nat
  PROVE  \E f : Held(f, n)
<1> DEFINE S == {k \in Nat : \E f : Held(f, k)}
<1>1. 0 \in S
  <2>1. Held([k \in 0 .. 0 |-> <<>>], 0)
    BY DEF Held
  <2> QED
    BY <2>1
<1>2. ASSUME NEW k \in Nat, k \in S
      PROVE  k + 1 \in S
  <2>1. PICK f : Held(f, k)
    BY <1>2
  <2> DEFINE v == IF IsHeld(k + 1) THEN Append(f[k], xs[k + 1]) ELSE f[k]
             g == [j \in 0 .. k + 1 |-> IF j = k + 1 THEN v ELSE f[j]]
  <2>2. ASSUME NEW j \in 0 .. k + 1
        PROVE  g[j] = IF j = 0 THEN <<>>
                      ELSE IF IsHeld(j) THEN Append(g[j - 1], xs[j])
                      ELSE g[j - 1]
    <3>1. CASE j = k + 1
      <4>1. g[j - 1] = f[k] /\ g[j] = v /\ j # 0
        BY <3>1
      <4> QED
        BY <3>1, <4>1
    <3>2. CASE j \in 0 .. k
      <4>1. f[j] = IF j = 0 THEN <<>>
                   ELSE IF IsHeld(j) THEN Append(f[j - 1], xs[j])
                   ELSE f[j - 1]
        BY <2>1, <3>2 DEF Held
      <4>2. g[j] = f[j] /\ (j # 0 => g[j - 1] = f[j - 1])
        BY <3>2
      <4> QED
        BY <4>1, <4>2
    <3> QED
      BY <3>1, <3>2
  <2>3. Held(g, k + 1)
    <3>1. g = [j \in 0 .. k + 1 |-> g[j]]
      OBVIOUS
    <3> HIDE DEF g
    <3> QED
      BY <2>2, <3>1 DEF Held
  <2> QED
    BY <2>3
<1>3. Nat \subseteq S
  <2> HIDE DEF S
  <2> QED
    BY <1>1, <1>2, CountUp
<1> QED
  BY <1>3

HeldList == CHOOSE f : Held(f, nx)

LEMMA HeldListType ==
  ASSUME nx \in Nat
  PROVE  /\ ExactMatches = HeldList[nx]
         /\ HeldList[0] = <<>>
         /\ \A k \in 0 .. nx - 1 :
              HeldList[k + 1] = IF IsHeld(k + 1)
                                  THEN Append(HeldList[k], xs[k + 1])
                                  ELSE HeldList[k]
<1>1. Held(HeldList, nx)
  BY HeldExists DEF HeldList
<1>2. ExactMatches = HeldList[nx]
  BY DEF ExactMatches, HeldList, Held, IsHeld
<1>3. \A k \in 0 .. nx :
        HeldList[k] = IF k = 0 THEN <<>>
                      ELSE IF IsHeld(k) THEN Append(HeldList[k - 1], xs[k])
                      ELSE HeldList[k - 1]
  BY <1>1 DEF Held
<1>4. ASSUME NEW k \in 0 .. nx - 1
      PROVE  HeldList[k + 1] = IF IsHeld(k + 1)
                                 THEN Append(HeldList[k], xs[k + 1])
                                 ELSE HeldList[k]
  <2>1. k + 1 \in 0 .. nx /\ k + 1 # 0 /\ (k + 1) - 1 = k
    OBVIOUS
  <2> QED
    BY <1>3, <2>1
<1> QED
  BY <1>2, <1>3, <1>4

LEMMA HeldFirst == nx \in Nat => HeldList[0] = <<>>
  BY HeldListType

(* With a table that lost no row, the matches so far are the held items    *)
(* among those verified, in their order.                                   *)
InOrder == lost = {} => matched = HeldList[xi]

LEMMA InOrderStep ==
  ASSUME Typed, MatchesKept, InOrder, [Next]_vars, nx' \in Nat
  PROVE  InOrder'
<1>a. nx \in Nat /\ ny \in Nat /\ xi \in 0 .. nx
  BY BoundsType DEF Typed, TypeOK
<1>b. arguments' = arguments =>
        /\ nx' = nx /\ HeldList' = HeldList
  BY DEF arguments, nx, ny, HeldList, Held, IsHeld
<1>1. ASSUME xi' = 0, matched' = <<>>
      PROVE  InOrder'
  <2>1. HeldList'[0] = <<>>
    <3>1. (nx \in Nat => HeldList[0] = <<>>)'
      BY HeldFirst, PTL
    <3> QED
      BY <3>1
  <2> QED
    BY <1>1, <2>1 DEF InOrder
<1>2. ASSUME NEW u \in XBuckets, NEW v \in YBuckets, NEW c \in Configs,
             Call(u, v, c)
      PROVE  InOrder'
  <2>1. xi' = 0 /\ matched' = <<>>
    BY <1>2 DEF Call, answer, Typed, Fresh
  <2> QED
    BY <1>1, <2>1
<1>3. CASE EmptyReturn \/ Reject \/ CreateFails \/ Create
  <2>1. xi' = 0 /\ matched' = <<>>
    BY <1>3 DEF EmptyReturn, Reject, CreateFails, Create, Accepted, Leave, answer,
       Typed, Fresh
  <2> QED
    BY <1>1, <2>1
<1>4. CASE Sign \/ SkipCandidate \/ Encode \/ CheckFails \/ Exhausted
  <2>1. xi' = 0 /\ matched' = <<>>
    BY <1>4 DEF Sign, SkipCandidate, Encode, CheckFails, Exhausted, Leave, answer,
       MatchesKept
  <2> QED
    BY <1>1, <2>1
<1>5. CASE Verify
  <2>1. /\ arguments' = arguments /\ lost' = lost /\ xi' = xi + 1 /\ xi < nx
        /\ matched' = IF HasRow(xi + 1) THEN Append(matched, xs[xi + 1])
                      ELSE matched
    BY <1>5, <1>a, VerifyMatches DEF Verify, search
  <2>2. xi \in 0 .. nx - 1
    BY <1>a, <2>1
  <2>3. lost = {} => (HasRow(xi + 1) <=> IsHeld(xi + 1))
    BY DEF HasRow, IsHeld
  <2>4. HeldList[xi + 1] = IF IsHeld(xi + 1) THEN Append(HeldList[xi], xs[xi + 1])
                           ELSE HeldList[xi]
    BY <1>a, <2>2, HeldListType
  <2> QED
    BY <1>b, <2>1, <2>3, <2>4 DEF InOrder
<1>6. CASE CheckPasses \/ Finish \/ Aborting \/ UNCHANGED vars
  <2>1. /\ arguments' = arguments /\ lost' = lost /\ xi' = xi
        /\ matched' = matched
    BY <1>6, AbortLeaves DEF CheckPasses, Finish, Leave, search, answer, vars, arguments
  <2> QED
    BY <1>b, <2>1 DEF InOrder
<1>7. CASE Return
  <2>1. xi' = 0 /\ matched' = <<>>
    BY <1>7 DEF Return
  <2> QED
    BY <1>1, <2>1
<1> QED
  BY <1>2, <1>3, <1>4, <1>5, <1>6, <1>7 DEF Next, Evaluation, Aborting

LEMMA InOrderAlways == Spec => []InOrder
<1>0. Typed => nx \in Nat
  BY BoundsType DEF Typed, TypeOK
<1>1. Init /\ Typed => InOrder
  <2> SUFFICES ASSUME Init, Typed PROVE InOrder
    OBVIOUS
  <2>1. xi = 0 /\ matched = <<>>
    BY DEF Init
  <2> QED
    BY <1>0, <2>1, HeldListType DEF InOrder
<1>2. Typed /\ MatchesKept /\ InOrder /\ [Next]_vars /\ (nx \in Nat)' => InOrder'
  BY InOrderStep
<1> QED
  BY <1>0, <1>1, <1>2, TypedAlways, MatchesAlways, PTL DEF Spec

(* Where one side is empty nothing is held. *)
LEMMA EmptyHeld ==
  ASSUME nx \in Nat, ny \in Nat, nx = 0 \/ ny = 0
  PROVE  ExactMatches = <<>>
<1> DEFINE S == {k \in Nat : k <= nx => HeldList[k] = <<>>}
<1>1. 0 \in S
  BY HeldListType
<1>2. ASSUME NEW k \in Nat, k \in S
      PROVE  k + 1 \in S
  <2>1. CASE k + 1 <= nx
    <3>1. k \in 0 .. nx - 1 /\ HeldList[k] = <<>> /\ ny = 0
      BY <1>2, <2>1
    <3>2. ~IsHeld(k + 1)
      BY <3>1 DEF IsHeld
    <3> QED
      BY <3>1, <3>2, HeldListType
  <2>2. CASE ~(k + 1 <= nx)
    BY <2>2
  <2> QED
    BY <2>1, <2>2
<1>3. nx \in S
  <2> HIDE DEF S
  <2> QED
    BY <1>1, <1>2, CountUp
<1> QED
  BY <1>3, HeldListType

(* Where every real key is checked, true means exact: every item of P0's   *)
(* bucket that P1's holds, in P0's order, and nothing else.                *)
THEOREM CheckedTrueExact == Spec => []CheckedTrueIsExact
<1>1. Typed /\ MatchesKept /\ InOrder => CheckedTrueIsExact
  <2> SUFFICES ASSUME Typed, MatchesKept, InOrder, ChecksAllRealKeys,
                      pc = "return", verdict
               PROVE  matched = ExactMatches
    BY DEF CheckedTrueIsExact, TrueIsExact
  <2>1. nx \in Nat /\ ny \in Nat /\ SampleTarget \in Nat /\ matched \in Seq(Items)
        /\ xi \in 0 .. nx
    BY BoundsType DEF Typed, TypeOK
  <2>2. CASE nx = 0 \/ ny = 0
    <3>1. Signed = {}
      BY <2>1, <2>2 DEF Signed, HasRow
    <3>2. Found = {}
      BY <3>1 DEF MatchesKept
    <3>3. matched = <<>>
      <4>1. 1 .. Len(matched) = {}
        BY <3>2 DEF Found
      <4>2. Len(matched) \in Nat
        BY <2>1
      <4>3. ~(1 <= Len(matched))
        <5>1. 1 <= Len(matched) => 1 \in 1 .. Len(matched)
          BY <4>2
        <5> QED
          BY <4>1, <5>1
      <4>4. Len(matched) = 0
        BY <4>2, <4>3
      <4> QED
        BY <2>1, <4>4
    <3> QED
      BY <2>1, <2>2, <3>3, EmptyHeld
  <2>3. CASE xi = nx /\ lost \in Losable /\ SelfCheckPasses
    <3>1. lost = {}
      BY <2>1, <2>3, CheckedKeepsAll
    <3> QED
      BY <2>1, <2>3, <3>1, HeldListType DEF InOrder
  <2> QED
    BY <2>2, <2>3 DEF MatchesKept
<1> QED
  BY <1>1, TypedAlways, MatchesAlways, InOrderAlways, PTL

----------------------------------------------------------------------------
(* The evaluation implements the service. *)

(* Bags count the positions of an item. *)
LEMMA BagOfList ==
  ASSUME NEW list \in Seq(Items)
  PROVE  /\ BagOf(list) \in [Items -> Nat]
         /\ \A i \in Items :
              BagOf(list)[i] > 0 <=> \E k \in 1 .. Len(list) : list[k] = i
         /\ (\A i \in Items : BagOf(list)[i] = 0) <=> Len(list) = 0
         /\ (\A k, l \in 1 .. Len(list) : k # l => list[k] # list[l])
              => \A i \in Items : ~(BagOf(list)[i] > 1)
<1> DEFINE At(i) == {k \in DOMAIN list : list[k] = i}
<1>1. DOMAIN list = 1 .. Len(list) /\ Len(list) \in Nat
  OBVIOUS
<1>2. ASSUME NEW i \in Items
      PROVE  IsFiniteSet(At(i)) /\ Cardinality(At(i)) \in Nat
             /\ (Cardinality(At(i)) = 0 <=> At(i) = {})
  <2>1. IsFiniteSet(1 .. Len(list))
    BY <1>1, FS_Interval
  <2>2. At(i) \in SUBSET (1 .. Len(list))
    BY <1>1
  <2>3. IsFiniteSet(At(i))
    BY <2>1, <2>2, FS_Subset
  <2> QED
    BY <2>3, FS_CardinalityType, FS_EmptySet
<1>3. BagOf(list) = [i \in Items |-> Cardinality(At(i))]
  BY DEF BagOf
<1>4. BagOf(list) \in [Items -> Nat]
  BY <1>2, <1>3
<1>5. ASSUME NEW i \in Items
      PROVE  BagOf(list)[i] > 0 <=> \E k \in 1 .. Len(list) : list[k] = i
  <2>1. BagOf(list)[i] = Cardinality(At(i))
    BY <1>3
  <2>2. BagOf(list)[i] > 0 <=> At(i) # {}
    <3> HIDE DEF At
    <3> QED
      BY <2>1, <1>2
  <2> QED
    BY <2>2, <1>1
<1>6. (\A i \in Items : BagOf(list)[i] = 0) <=> Len(list) = 0
  <2>1. ASSUME Len(list) = 0, NEW i \in Items
        PROVE  BagOf(list)[i] = 0
    <3>1. ~(BagOf(list)[i] > 0)
      BY <2>1, <1>5
    <3> QED
      BY <3>1, <1>4
  <2>2. ASSUME Len(list) # 0
        PROVE  \E i \in Items : BagOf(list)[i] # 0
    <3>1. 1 \in 1 .. Len(list) /\ list[1] \in Items
      BY <1>1, <2>2
    <3>2. BagOf(list)[list[1]] > 0
      BY <3>1, <1>5
    <3> QED
      BY <3>1, <3>2
  <2> QED
    BY <2>1, <2>2
<1>7. ASSUME \A k, l \in 1 .. Len(list) : k # l => list[k] # list[l],
             NEW i \in Items
      PROVE  ~(BagOf(list)[i] > 1)
  <2>1. BagOf(list)[i] = Cardinality(At(i))
    BY <1>3
  <2>2. CASE At(i) = {}
    <3> HIDE DEF At
    <3>1. Cardinality(At(i)) = 0
      BY <2>2, <1>2
    <3>2. BagOf(list)[i] = 0
      BY <2>1, <3>1
    <3> QED
      BY <3>2
  <2>3. ASSUME NEW k \in At(i)
        PROVE  ~(BagOf(list)[i] > 1)
    <3>1. At(i) = {k}
      BY <1>1, <1>7
    <3> HIDE DEF At
    <3>2. Cardinality(At(i)) = 1
      BY <3>1, FS_Singleton
    <3> QED
      BY <2>1, <3>2
  <2> QED
    BY <2>2, <2>3
<1> QED
  BY <1>4, <1>5, <1>6, <1>7

(* What the two buckets are to the service. *)
LEMMA BagsOfBuckets ==
  ASSUME Typed
  PROVE  /\ BagOf(xs) \in [Items -> Nat] /\ BagOf(ys) \in [Items -> Nat]
         /\ Service!EmptySide(BagOf(xs), BagOf(ys)) <=> nx = 0 \/ ny = 0
         /\ (\A i, j \in 1 .. ny : i # j => ys[i] # ys[j])
              => ~Service!DuplicateKey(BagOf(ys))
         /\ Service!Matches(BagOf(xs), BagOf(ys))
              = {xs[i] : i \in {k \in 1 .. nx : IsHeld(k)}}
<1>1. xs \in Seq(Items) /\ ys \in Seq(Items)
  BY DEF Typed, TypeOK
<1>2. /\ BagOf(xs) \in [Items -> Nat] /\ BagOf(ys) \in [Items -> Nat]
      /\ (\A i \in Items : BagOf(xs)[i] = 0) <=> nx = 0
      /\ (\A i \in Items : BagOf(ys)[i] = 0) <=> ny = 0
      /\ \A i \in Items : BagOf(xs)[i] > 0 <=> \E k \in 1 .. nx : xs[k] = i
      /\ \A i \in Items : BagOf(ys)[i] > 0 <=> \E k \in 1 .. ny : ys[k] = i
      /\ (\A i, j \in 1 .. ny : i # j => ys[i] # ys[j])
           => \A i \in Items : ~(BagOf(ys)[i] > 1)
  BY <1>1, BagOfList DEF nx, ny
<1>3. \A k \in 1 .. nx : xs[k] \in Items
  BY <1>1 DEF nx
<1>4. Service!Matches(BagOf(xs), BagOf(ys))
        = {xs[i] : i \in {k \in 1 .. nx : IsHeld(k)}}
  <2>1. ASSUME NEW i \in Items
        PROVE  BagOf(xs)[i] > 0 /\ BagOf(ys)[i] > 0
                 <=> \E k \in 1 .. nx : IsHeld(k) /\ xs[k] = i
    BY <1>2 DEF IsHeld
  <2> QED
    BY <2>1, <1>3 DEF Service!Matches
<1> QED
  BY <1>2, <1>4 DEF Service!EmptySide, Service!DuplicateKey

(* What an answer reports: the items whose keys decoded, all of the held   *)
(* ones if every real key was checked.                                     *)
LEMMA AnswerIsService ==
  ASSUME Typed, MatchesKept
  PROVE  /\ Found \subseteq Service!Matches(BagOf(xs), BagOf(ys))
         /\ /\ xi = nx /\ lost \in Losable /\ SelfCheckPasses
            /\ ChecksAllRealKeys
            => /\ ~Service!DuplicateKey(BagOf(ys))
               /\ Found = Service!Matches(BagOf(xs), BagOf(ys))
<1>1. nx \in Nat /\ ny \in Nat /\ SampleTarget \in Nat /\ xi \in 0 .. nx
  BY BoundsType DEF Typed, TypeOK
<1>2. Service!Matches(BagOf(xs), BagOf(ys))
        = {xs[i] : i \in {k \in 1 .. nx : IsHeld(k)}}
  BY BagsOfBuckets
<1>3. Signed \subseteq {k \in 1 .. nx : IsHeld(k)}
  BY <1>1 DEF Signed, HasRow, IsHeld
<1>4. Found \subseteq Service!Matches(BagOf(xs), BagOf(ys))
  BY <1>2, <1>3 DEF MatchesKept
<1>5. ASSUME xi = nx, lost \in Losable, SelfCheckPasses, ChecksAllRealKeys
      PROVE  /\ ~Service!DuplicateKey(BagOf(ys))
             /\ Found = Service!Matches(BagOf(xs), BagOf(ys))
  <2>1. lost = {} /\ \A i, j \in 1 .. ny : i # j => ys[i] # ys[j]
    BY <1>1, <1>5, CheckedKeepsAll
  <2>2. Signed = {k \in 1 .. nx : IsHeld(k)}
    BY <1>5, <2>1 DEF Signed, HasRow, IsHeld
  <2>3. ~Service!DuplicateKey(BagOf(ys))
    BY <2>1, BagsOfBuckets
  <2> QED
    BY <1>2, <2>2, <2>3 DEF MatchesKept
<1> QED
  BY <1>4, <1>5

LEMMA ServiceInit ==
  ASSUME Init, Typed
  PROVE  Service!Init
<1>1. pc = "idle" /\ ~Returned
  BY DEF Init, Returned
<1>2. BagOf(xs) \in [Items -> Nat] /\ BagOf(ys) \in [Items -> Nat]
  BY BagsOfBuckets
<1>3. ChecksAllRealKeys \in BOOLEAN
  BY Zenon DEF ChecksAllRealKeys
<1>4. (Returned /\ verdict) = FALSE
  BY <1>1, Zenon
<1>5. Reported = {}
  BY <1>1 DEF Reported
<1> QED
  BY <1>1, <1>2, <1>3, <1>4, <1>5 DEF Service!Init, Service!Bags

LEMMA ServiceStep ==
  ASSUME Typed, Typed', BridgeKept, TableKept, MatchesKept, MatchesKept',
         [Next]_vars
  PROVE  [Service!Next]_(Service!vars)
<1> DEFINE bx == BagOf(xs)
           by == BagOf(ys)
<1>t. matched \in Seq(Items) /\ verdict \in BOOLEAN
      /\ matched' \in Seq(Items) /\ verdict' \in BOOLEAN
  BY DEF Typed, TypeOK
<1>r. /\ pc # "return" => Reported = {} /\ (Returned /\ verdict) = FALSE
      /\ pc' = "return" => Reported' = IF verdict' THEN Found' ELSE {}
      /\ pc' # "return" => Reported' = {} /\ (Returned /\ verdict)' = FALSE
  <2>1. DOMAIN matched = 1 .. Len(matched) /\ DOMAIN matched' = 1 .. Len(matched')
    BY <1>t
  <2> QED
    BY <2>1 DEF Reported, Returned, Found
<1>v. /\ pc' = "return" /\ verdict' => (Returned /\ verdict)' = TRUE
      /\ pc' = "return" /\ ~verdict' => (Returned /\ verdict)' = FALSE
  BY Zenon DEF Returned
<1>b. arguments' = arguments =>
        bx' = bx /\ by' = by /\ ChecksAllRealKeys' = ChecksAllRealKeys
  <2>1. arguments' = arguments => bx' = bx /\ by' = by
    BY DEF arguments, BagOf
  <2>2. arguments' = arguments => ChecksAllRealKeys' = ChecksAllRealKeys
    BY Zenon
    DEF arguments, ChecksAllRealKeys, strict_robust, use_full_self_check,
        SampleTarget, NEnc, LogicalN, ny
  <2> QED
    BY <2>1, <2>2
<1>e. Service!EmptySide(bx, by) <=> nx = 0 \/ ny = 0
  BY BagsOfBuckets
<1> HIDE DEF bx, by
<1>f. ASSUME arguments' = arguments, pc \notin {"idle", "return"},
             pc' = "return", ~Service!EmptySide(bx, by), ~verdict'
      PROVE  Service!Answer
  <2>1. Reported' = {}
    BY <1>f, <1>r
  <2> QED
    BY <1>f, <1>b, <1>v, <2>1
    DEF Service!Answer, Service!Fail, Returned, bx, by
<1>1. ASSUME NEW u \in XBuckets, NEW v \in YBuckets, NEW c \in Configs,
             Call(u, v, c)
      PROVE  Service!Ask
  <2>1. pc = "idle" /\ pc' = "enter"
    BY <1>1 DEF Call
  <2>2. (BagOf(xs) \in [Items -> Nat] /\ BagOf(ys) \in [Items -> Nat])'
    <3>1. Typed => BagOf(xs) \in [Items -> Nat] /\ BagOf(ys) \in [Items -> Nat]
      BY BagsOfBuckets
    <3> QED
      BY BagsOfBuckets, PTL
  <2>3. ChecksAllRealKeys' \in BOOLEAN
    BY Zenon DEF ChecksAllRealKeys
  <2> QED
    BY <2>1, <2>2, <2>3, <1>r DEF Service!Ask, Service!Bags, Returned
<1>2. CASE EmptyReturn
  <2>1. /\ arguments' = arguments /\ pc = "enter" /\ pc' = "return" /\ verdict'
        /\ matched' = <<>> /\ Service!EmptySide(bx, by)
    BY <1>2, <1>e DEF EmptyReturn, Leave, Typed, Fresh
  <2>2. 1 .. Len(matched') = {}
    BY <2>1
  <2>3. Reported' = {}
    BY <2>1, <2>2, <1>r DEF Found
  <2> QED
    BY <2>1, <2>3, <1>b, <1>v
    DEF Service!Next, Service!Answer, Service!Succeed, Returned, bx, by
<1>3. CASE Reject \/ CreateFails
  <2>1. arguments' = arguments /\ pc = "enter" /\ pc' = "return" /\ ~verdict'
    BY <1>3 DEF Reject, CreateFails, Accepted, Leave
  <2>2. ~Service!EmptySide(bx, by)
    <3>1. nx > 0 /\ ny > 0
      BY <1>3 DEF Reject, CreateFails, Accepted
    <3>2. nx \in Nat /\ ny \in Nat
      BY BoundsType DEF Typed, TypeOK
    <3> QED
      BY <3>1, <3>2, <1>e
  <2> QED
    BY <1>f, <2>1, <2>2 DEF Service!Next
<1>4. CASE Exhausted \/ Aborting
  <2>1. /\ arguments' = arguments /\ pc \in {"sign", "encode", "verify"}
        /\ pc' = "return" /\ ~verdict'
    BY <1>4, AbortLeaves DEF Exhausted, Leave
  <2>2. ~Service!EmptySide(bx, by)
    <3>1. nx > 0 /\ ny > 0
      BY <2>1 DEF BridgeKept
    <3>2. nx \in Nat /\ ny \in Nat
      BY BoundsType DEF Typed, TypeOK
    <3> QED
      BY <3>1, <3>2, <1>e
  <2> QED
    BY <1>f, <2>1, <2>2 DEF Service!Next
<1>5. CASE Finish
  <2>1. /\ arguments' = arguments /\ pc = "verify" /\ pc' = "return" /\ verdict'
        /\ matched' = matched /\ xi = nx
    BY <1>5 DEF Finish, Leave
  <2>2. lost \in Losable /\ SelfCheckPasses
    BY <2>1 DEF TableKept
  <2>3. Reported' = Found
    BY <2>1, <1>r DEF Found
  <2>4. /\ Found \subseteq Service!Matches(bx, by)
        /\ ChecksAllRealKeys => /\ ~Service!DuplicateKey(by)
                                /\ Found = Service!Matches(bx, by)
    BY <2>1, <2>2, AnswerIsService DEF bx, by
  <2> QED
    BY <2>1, <2>3, <2>4, <1>b, <1>v
    DEF Service!Next, Service!Answer, Service!Succeed, Returned, bx, by
<1>6. CASE Return
  <2>1. arguments' = arguments /\ pc = "return" /\ pc' = "idle"
    BY <1>6 DEF Return
  <2> QED
    BY <2>1, <1>b, <1>r
    DEF Service!Next, Service!Take, Returned, bx, by
<1>7. ASSUME arguments' = arguments, pc' \notin {"idle", "return"},
             pc \notin {"idle", "return"}
      PROVE  UNCHANGED Service!vars
  BY <1>7, <1>b, <1>r DEF Service!vars, Returned, bx, by
<1>8. CASE Create \/ Sign \/ SkipCandidate \/ Encode \/ CheckFails \/ CheckPasses
           \/ Verify
  <2>1. /\ arguments' = arguments
        /\ pc \in {"enter", "sign", "encode", "check", "verify"}
        /\ pc' \in {"sign", "encode", "check", "verify"}
    BY <1>8 DEF Create, Accepted, Sign, SkipCandidate, Encode, CheckFails,
       CheckPasses, Verify
  <2> QED
    BY <2>1, <1>7
<1>9. CASE UNCHANGED vars
  <2>1. /\ arguments' = arguments /\ pc' = pc /\ verdict' = verdict
        /\ matched' = matched
    BY <1>9 DEF vars, arguments
  <2>2. Reported' = Reported /\ (Returned /\ verdict)' = (Returned /\ verdict)
    BY <2>1 DEF Reported, Returned
  <2> QED
    BY <2>1, <2>2, <1>b DEF Service!vars, Returned, bx, by
<1> QED
  BY <1>1, <1>2, <1>3, <1>4, <1>5, <1>6, <1>8, <1>9
  DEF Next, Evaluation, Aborting, Service!Next

(* Every step of the evaluation is a step of the service it is taken for,  *)
(* or none: one answer to a call, exact where all real keys are checked.   *)
THEOREM ImplementsService == Spec => Service!Init /\ [][Service!Next]_(Service!vars)
<1>1. Init /\ Typed => Service!Init
  BY ServiceInit
<1>2. /\ Typed /\ Typed' /\ BridgeKept /\ TableKept /\ MatchesKept
      /\ MatchesKept' /\ [Next]_vars
      => [Service!Next]_(Service!vars)
  BY ServiceStep
<1> QED
  BY <1>1, <1>2, TypedAlways, BridgeAlways, TableAlways, MatchesAlways, PTL
  DEF Spec

=============================================================================
