----------------------------- MODULE BucketEval -----------------------------
(***************************************************************************)
(* EvalBucketIntersectionNoInit: P1's bucket is encoded in an OKVS under   *)
(* ever stronger parameters until a self-check accepts the table, P0       *)
(* decodes its own keys from it and verifies what it gets, and the RELIC   *)
(* context of the bucket (the bridge) is freed on every way out.           *)
(*                                                                         *)
(* Keys, payloads and signatures are abstract.  A decoded payload is the   *)
(* position of the y item it is signed for, or 0 if it is none of them; it *)
(* verifies for the scalar it is signed for and no other (RelicBridge's    *)
(* NoFalseMatch, with its exceptions; hashes do not collide).  What the    *)
(* OKVS does to a set of keys is the set of keys it loses, those whose row *)
(* of the band matrix depends on the others: the encoder drops such a row  *)
(* and reports success (module BandOkvs).                                  *)
(***************************************************************************)
EXTENDS OkvsParams, Sequences, FiniteSets

CONSTANTS
  Items,       (* items of the bucket                                      *)
  XBuckets, YBuckets,  (* the buckets a caller may pass                    *)
  Configs,     (* the InitialRoundConfigs a caller may pass                *)
  SizeRange    (* values of size_t                                         *)

ConfigType ==
  [pad_small_buckets : BOOLEAN, okvs_bucket_slack : Nat,
   enable_okvs_encode_robust_mode : BOOLEAN,
   okvs_robust_retries_per_param : Nat, okvs_robust_param_levels : Nat,
   okvs_robust_enable_sampled_self_check : BOOLEAN,
   okvs_robust_self_check_sample_keys : Nat,
   okvs_robust_full_check_max_n : Nat]

ASSUME BucketEvalAssumption ==
  /\ XBuckets \subseteq Seq(Items) /\ YBuckets \subseteq Seq(Items)
  /\ Configs \subseteq ConfigType
  /\ SizeRange \in Nat \ {0}
  /\ \A b \in XBuckets \cup YBuckets : Len(b) < SizeRange
  /\ \A c \in Configs : c.okvs_bucket_slack < SizeRange

VARIABLES
  xs, ys, cfg,   (* the arguments                                          *)
  pc,
  bridge,        (* "none", "live" or "freed"                              *)
  bridgeSize,    (* scalars the bridge was created for                     *)
  aborted,       (* left because the signing, decoding or verifying failed *)
  ci, attempt,   (* the two loop counters                                  *)
  attempts,      (* okvs_encode_attempts                                   *)
  lost,          (* positions of ys the candidate's table does not decode  *)
  tailLost,      (* dummies it does not decode: none of them, only ones    *)
                 (* outside the sample, or one inside it                   *)
  matched,       (* out_intersection                                       *)
  xi,            (* elements of xs verified                                *)
  verdict        (* the value returned                                     *)

vars == <<xs, ys, cfg, pc, bridge, bridgeSize, aborted, ci, attempt,
          attempts, lost, tailLost, matched, xi, verdict>>

arguments == <<xs, ys, cfg>>
context == <<bridge, bridgeSize, aborted>>
search == <<ci, attempt, attempts, lost, tailLost>>
answer == <<matched, xi, verdict>>

----------------------------------------------------------------------------
nx == Len(xs)
ny == Len(ys)

LogicalN == (ny + cfg.okvs_bucket_slack) % SizeRange
SlackOverflows == cfg.okvs_bucket_slack > 0 /\ LogicalN < ny

NEnc == IF cfg.pad_small_buckets THEN PaddedOkvsN(LogicalN) ELSE LogicalN

strict_robust == cfg.enable_okvs_encode_robust_mode

(* Candidates after the policy's own. *)
MaxExtra ==
  IF ~strict_robust THEN 1
  ELSE IF cfg.okvs_robust_param_levels = 0 THEN 0
  ELSE Smaller(cfg.okvs_robust_param_levels - 1, Len(Strengths))

Retries ==
  IF strict_robust THEN Larger(1, cfg.okvs_robust_retries_per_param) ELSE 1

use_full_self_check ==
  /\ strict_robust
  /\ \/ ~cfg.okvs_robust_enable_sampled_self_check
     \/ NEnc <= cfg.okvs_robust_full_check_max_n

(* BuildSelfCheckSampleIndices: real keys first, then dummies. *)
SampleTarget ==
  Larger(1, Smaller(NEnc, cfg.okvs_robust_self_check_sample_keys))

(* Mutant: every strict check samples. *)
SelfCheckSamples ==
  IF strict_robust
    THEN /\ lost \cap (1 .. SampleTarget) = {}
         /\ SampleTarget > ny => tailLost # "sampled"
    ELSE lost = {}

(* Mutant: there is no check outside strict mode. *)
SelfCheckOnlyStrict ==
  IF use_full_self_check THEN lost = {} /\ tailLost = "none"
  ELSE strict_robust =>
         /\ lost \cap (1 .. SampleTarget) = {}
         /\ SampleTarget > ny => tailLost # "sampled"

(* Decode gives back the payloads of the keys that are looked at. *)
SelfCheckPasses ==
  IF use_full_self_check THEN lost = {} /\ tailLost = "none"
  ELSE IF strict_robust
    THEN /\ lost \cap (1 .. SampleTarget) = {}
         /\ SampleTarget > ny => tailLost # "sampled"
    ELSE lost = {}

(* Two copies of an item are one key with two random payloads: a table     *)
(* decodes at most one of them.                                            *)
Losable ==
  {S \in SUBSET (1 .. ny) :
     \A i, j \in 1 .. ny : i < j /\ ys[i] = ys[j] => i \in S \/ j \in S}

----------------------------------------------------------------------------
Leave(result) ==
  /\ verdict' = result
  /\ pc' = "return"

Call(x, y, c) ==
  /\ pc = "idle"
  /\ xs' = x /\ ys' = y /\ cfg' = c
  /\ pc' = "enter"
  /\ UNCHANGED <<context, search, answer>>

(* Mutant: a bucket with an empty side is an error. *)
EmptyRefused ==
  /\ pc = "enter"
  /\ nx = 0 \/ ny = 0
  /\ Leave(FALSE)
  /\ UNCHANGED <<arguments, context, search, matched, xi>>

EmptyReturn ==
  /\ pc = "enter"
  /\ nx = 0 \/ ny = 0
  /\ Leave(TRUE)
  /\ UNCHANGED <<arguments, context, search, matched, xi>>

(* The slack wraps around, or the policy has no shape for so few keys. *)
Reject ==
  /\ pc = "enter"
  /\ nx > 0 /\ ny > 0
  /\ SlackOverflows \/ ~IsOkvsParamShapeValid(NEnc, SelectOkvsConfigByN(NEnc))
  /\ Leave(FALSE)
  /\ UNCHANGED <<arguments, context, search, matched, xi>>

Accepted ==
  /\ pc = "enter"
  /\ nx > 0 /\ ny > 0
  /\ ~SlackOverflows
  /\ IsOkvsParamShapeValid(NEnc, SelectOkvsConfigByN(NEnc))

(* No memory, or cp_pbpsi_gen or cp_pbpsi_ask fails: the bridge has freed  *)
(* what it allocated.                                                      *)
CreateFails ==
  /\ Accepted
  /\ Leave(FALSE)
  /\ UNCHANGED <<arguments, context, search, matched, xi>>

(* One scalar is padded to two. *)
Create ==
  /\ Accepted
  /\ bridge' = "live"
  /\ bridgeSize' = Larger(nx, 2)
  /\ pc' = "sign"
  /\ UNCHANGED <<arguments, aborted, search, answer>>

(* A call of the bridge or the decoding returns false.  The matches found  *)
(* by then stay in the caller's vector.                                    *)
Abort ==
  /\ bridge' = "freed"
  /\ Leave(FALSE)
  /\ aborted' = TRUE
  /\ UNCHANGED <<arguments, bridgeSize, search, matched, xi>>

Sign ==
  /\ pc = "sign"
  /\ pc' = "encode"
  /\ UNCHANGED <<arguments, context, search, answer>>

SignFails == pc = "sign" /\ Abort

(* A candidate the band does not fit. *)
SkipCandidate ==
  /\ pc = "encode"
  /\ ci <= MaxExtra
  /\ ~IsOkvsParamShapeValid(NEnc, Candidate(NEnc, ci))
  /\ ci' = ci + 1
  /\ UNCHANGED <<arguments, pc, context, attempt, attempts, lost, tailLost,
                 answer>>

(* Fresh dummies and a fresh table.  Without dummies the keys are the same *)
(* as in the last attempt, and so is what the table loses.                 *)
Encode ==
  /\ pc = "encode"
  /\ ci <= MaxExtra
  /\ IsOkvsParamShapeValid(NEnc, Candidate(NEnc, ci))
  /\ attempts' = attempts + 1
  /\ IF NEnc = ny
       THEN /\ lost' \in IF attempt = 0 THEN Losable ELSE {lost}
            /\ tailLost' = "none"
       ELSE /\ lost' \in Losable
            /\ tailLost' \in {"none", "unsampled", "sampled"}
  /\ pc' = "check"
  /\ UNCHANGED <<arguments, context, ci, attempt, answer>>

(* The rejected candidate goes out of scope.  What it lost is remembered   *)
(* only where the next attempt will repeat it.                             *)
DropTable ==
  /\ lost' = IF NEnc = ny /\ ci' = ci THEN lost ELSE {}
  /\ tailLost' = "none"

(* Mutant: a failed check leaves the loop over the attempts. *)
OneAttemptOnly ==
  /\ pc = "check"
  /\ ~SelfCheckPasses
  /\ attempt' = 0 /\ ci' = ci + 1
  /\ pc' = "encode"
  /\ DropTable
  /\ UNCHANGED <<arguments, context, attempts, answer>>

CheckFails ==
  /\ pc = "check"
  /\ ~SelfCheckPasses
  /\ IF attempt + 1 < Retries
       THEN attempt' = attempt + 1 /\ ci' = ci
       ELSE attempt' = 0 /\ ci' = ci + 1
  /\ pc' = "encode"
  /\ DropTable
  /\ UNCHANGED <<arguments, context, attempts, answer>>

CheckPasses ==
  /\ pc = "check"
  /\ SelfCheckPasses
  /\ pc' = "verify"
  /\ UNCHANGED <<arguments, context, search, answer>>

(* No candidate was accepted. *)
Exhausted ==
  /\ pc = "encode"
  /\ ci > MaxExtra
  /\ bridge' = "freed"
  /\ Leave(FALSE)
  /\ UNCHANGED <<arguments, bridgeSize, aborted, search, matched, xi>>

(* The rows of the table that belong to x's key. *)
RowsOf(i) == {j \in (1 .. ny) \ lost : ys[j] = xs[i]}

(* What the table may decode for x's key: the payload of its row, and if   *)
(* it has none, anything but the payload of a row of its own it has lost.  *)
Decoded(i) ==
  IF RowsOf(i) # {} THEN RowsOf(i)
  ELSE {p \in 0 .. ny : p = 0 \/ ys[p] # xs[i]}

(* upsi_relic_bucket_verify_x: a payload verifies for the scalar it was    *)
(* signed for.                                                             *)
Verifies(p, i) == p > 0 /\ ys[p] = xs[i]

Verify ==
  /\ pc = "verify"
  /\ xi < nx
  /\ xi' = xi + 1
  /\ \E p \in Decoded(xi + 1) :
       matched' = IF Verifies(p, xi + 1) THEN Append(matched, xs[xi + 1])
                  ELSE matched
  /\ UNCHANGED <<arguments, pc, context, search, verdict>>

(* The decoding comes before the first x is verified. *)
DecodeFails == pc = "verify" /\ xi = 0 /\ Abort

(* Mutant: the exit from inside the loop keeps the bridge. *)
VerifyLeaks ==
  /\ pc = "verify"
  /\ xi < nx
  /\ Leave(FALSE)
  /\ aborted' = TRUE
  /\ UNCHANGED <<arguments, bridge, bridgeSize, search, matched, xi>>

VerifyFails == pc = "verify" /\ xi < nx /\ Abort

Finish ==
  /\ pc = "verify"
  /\ xi = nx
  /\ bridge' = "freed"
  /\ Leave(TRUE)
  /\ UNCHANGED <<arguments, bridgeSize, aborted, search, matched, xi>>

(* The caller takes the answer and the locals end. *)
Return ==
  /\ pc = "return"
  /\ pc' = "idle"
  /\ bridge' = "none" /\ bridgeSize' = 0 /\ aborted' = FALSE
  /\ ci' = 0 /\ attempt' = 0 /\ attempts' = 0
  /\ lost' = {} /\ tailLost' = "none"
  /\ matched' = <<>> /\ xi' = 0 /\ verdict' = FALSE
  /\ UNCHANGED arguments

Evaluation ==
  \/ EmptyReturn \/ Reject \/ CreateFails \/ Create \/ Sign \/ SignFails
  \/ SkipCandidate \/ Encode \/ CheckFails \/ CheckPasses \/ Exhausted
  \/ DecodeFails \/ Verify \/ VerifyFails \/ Finish

Init ==
  /\ xs \in XBuckets /\ ys \in YBuckets /\ cfg \in Configs
  /\ bridge = "none" /\ bridgeSize = 0 /\ aborted = FALSE
  /\ ci = 0 /\ attempt = 0 /\ attempts = 0
  /\ lost = {} /\ tailLost = "none"
  /\ matched = <<>> /\ xi = 0 /\ verdict = FALSE
  /\ pc = "idle"

Next ==
  \/ \E x \in XBuckets, y \in YBuckets, c \in Configs : Call(x, y, c)
  \/ Evaluation
  \/ Return

(* The function is sequential code: it runs until it returns. *)
Spec == Init /\ [][Next]_vars /\ WF_vars(Evaluation)

----------------------------------------------------------------------------
TypeOK ==
  /\ xs \in Seq(Items) /\ ys \in Seq(Items) /\ cfg \in ConfigType
  /\ pc \in {"idle", "enter", "sign", "encode", "check", "verify", "return"}
  /\ bridge \in {"none", "live", "freed"}
  /\ bridgeSize \in Nat
  /\ aborted \in BOOLEAN
  /\ ci \in 0 .. MaxExtra + 1
  /\ attempt \in 0 .. Retries - 1
  /\ attempts \in Nat
  /\ lost \subseteq 1 .. ny
  /\ tailLost \in {"none", "unsampled", "sampled"}
  /\ matched \in Seq(Items)
  /\ xi \in 0 .. nx
  /\ verdict \in BOOLEAN

(* The bridge is live wherever it is used, for every index the loop        *)
(* verifies (so upsi_relic_bucket_verify_x never refuses one), its size    *)
(* avoids RELIC's edge case at one scalar, and none of the ways out of the *)
(* function, five of which destroy it by hand, leaks it.                   *)
BridgeSound ==
  /\ pc \in {"sign", "encode", "check", "verify"} => bridge = "live"
  /\ pc = "verify" => nx <= bridgeSize
  /\ bridge # "none" => bridgeSize >= 2
  /\ pc \in {"idle", "enter", "return"} => bridge # "live"

(* The items of P0's bucket that P1's holds, in P0's order. *)
ExactMatches ==
  LET held[k \in 0 .. nx] ==
        IF k = 0 THEN <<>>
        ELSE IF \E j \in 1 .. ny : ys[j] = xs[k] THEN Append(held[k - 1], xs[k])
        ELSE held[k - 1]
  IN held[nx]

(* True means exact: every x item P1 holds, in order, and nothing else.    *)
(* This is what BatchEvaluation relies on.                                 *)
TrueIsExact ==
  pc = "return" /\ verdict => matched = ExactMatches

(* The same where every real key is checked: in the default mode, and in   *)
(* strict robust mode unless the check samples fewer keys than the bucket  *)
(* has.                                                                    *)
ChecksAllRealKeys ==
  \/ ~strict_robust \/ use_full_self_check
  \/ SampleTarget >= ny
CheckedTrueIsExact == ChecksAllRealKeys => TrueIsExact

(* A checked bucket that holds an item twice is never encoded, however     *)
(* many attempts are made: RunUpdateRound must not let one arise.          *)
DuplicateNeverTrue ==
  /\ pc = "return" /\ verdict /\ ChecksAllRealKeys
  /\ nx > 0
  => \A i, j \in 1 .. ny : i # j => ys[i] # ys[j]

(* The configurations with a shape for the bucket's keys. *)
Ladder == {k \in 0 .. MaxExtra :
             IsOkvsParamShapeValid(NEnc, Candidate(NEnc, k))}

(* After encoding began, false is returned only when every candidate has   *)
(* had all its attempts, or a call of the bridge or the decoding failed,   *)
(* and no attempt is made twice.                                           *)
GivesUpLast ==
  /\ attempts <= Cardinality(Ladder) * Retries
  /\ pc = "return" /\ ~verdict /\ bridge = "freed" /\ ~aborted =>
       attempts = Cardinality(Ladder) * Retries

(* What an encoding relies on: the arrays of NEnc entries have room for    *)
(* every real key although the slack may wrap around, and the encoder's    *)
(* constructor, which throws and is nowhere caught, accepts the candidate  *)
(* that the policy's own test let through.                                 *)
EncodeFits ==
  pc \in {"encode", "check"} /\ ci <= MaxExtra =>
    /\ ny <= NEnc
    /\ pc = "check" =>
         \A m \in ConstructorMs(NEnc, Candidate(NEnc, ci)) :
           ConstructorAccepts(NEnc, Candidate(NEnc, ci), m)

(* The evaluation implements the service that BatchEvaluation takes it     *)
(* for, for any configuration: exact where all real keys are checked, one  *)
(* answer to every call.  The round that called it fails with it, so that  *)
(* what a failed call has appended is in no result.                        *)
BagOf(list) == [i \in Items |-> Cardinality({k \in DOMAIN list : list[k] = i})]
Returned == pc = "return"
Reported ==
  IF Returned /\ verdict THEN {matched[k] : k \in DOMAIN matched} ELSE {}

Service == INSTANCE BucketService WITH
  phase <- IF pc = "idle" THEN "idle" ELSE IF Returned THEN "answered" ELSE "asked",
  x <- BagOf(xs), y <- BagOf(ys),
  checked <- ChecksAllRealKeys,
  verdict <- Returned /\ verdict,
  matched <- Reported
ServiceSpec == Service!Spec

=============================================================================
