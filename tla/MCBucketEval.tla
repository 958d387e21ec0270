---------------------------- MODULE MCBucketEval ----------------------------
(* Buckets of up to two distinct items with their duplicates, and of six   *)
(* and seven: six is the fewest keys that have a shape without padding, so *)
(* that seven still have one when the slack takes one away by wrapping.    *)
EXTENDS BucketEval

CONSTANTS a, d, e, f, g, h

MCItems == {a, d, e, f, g, h}

MCXBuckets == {<<>>, <<a>>, <<a, d>>, <<d, e, a>>}
MCYBuckets == {<<>>, <<a>>, <<d, a>>, <<a, d, d>>, <<a, d, e, f, g, h>>,
               <<a, d, e, f, g, h, h>>}

(* robust, retries, levels, sampled, sample, fullMax, pad, slack *)
Cfg(robust, retries, levels, sampled, sample, fullMax, pad, slack) ==
  [pad_small_buckets |-> pad, okvs_bucket_slack |-> slack,
   enable_okvs_encode_robust_mode |-> robust,
   okvs_robust_retries_per_param |-> retries,
   okvs_robust_param_levels |-> levels,
   okvs_robust_enable_sampled_self_check |-> sampled,
   okvs_robust_self_check_sample_keys |-> sample,
   okvs_robust_full_check_max_n |-> fullMax]

(* A power of two above every bucket size, far below 2^64.                 *)
MCSizeRange == 2^16

MCConfigs ==
  {Cfg(FALSE, 4, 4, TRUE, 64, 192, TRUE, 0),     (* the defaults           *)
   Cfg(TRUE, 2, 4, FALSE, 1, 0, TRUE, 0),        (* strict, full check     *)
   Cfg(TRUE, 0, 0, TRUE, 64, 192, TRUE, 128),    (* one attempt; slack     *)
   Cfg(TRUE, 2, 2, TRUE, 1, 0, TRUE, 0),         (* strict, one key seen   *)
   Cfg(TRUE, 1, 9, TRUE, 64, 0, TRUE, 0),        (* dummies seen as well   *)
   Cfg(TRUE, 2, 3, FALSE, 64, 192, FALSE, 0),    (* no padding             *)
   Cfg(FALSE, 1, 1, TRUE, 64, 192, FALSE, 8),    (* slack for padding      *)
   Cfg(FALSE, 1, 1, TRUE, 64, 192, FALSE, 2^16 - 1)}  (* slack wraps around *)

=============================================================================
