---------------------------- MODULE InitialRound ----------------------------
(***************************************************************************)
(* RunInitialRound on its own: both sets are bucketed, every bucket is     *)
(* evaluated, the matches are the result.  The function keeps nothing      *)
(* between calls except what it leaves behind in RELIC.  Its call is also  *)
(* a step of UpdateProtocol, which extends this module.                    *)
(***************************************************************************)
EXTENDS BatchEvaluation

CONSTANTS
  XSets, YSets   (* the bags a caller may pass as x_set and y_set          *)

ASSUME InputAssumption == XSets \subseteq Bags /\ YSets \subseteq Bags

VARIABLES x, y   (* the arguments of the call                              *)

initial_vars == <<x, y, buckets, batch>>

RunInitialRound(xs, ys) ==
  /\ x' = xs
  /\ y' = ys
  /\ xb' = BuildBuckets(xs)
  /\ yb' = BuildBuckets(ys)
  /\ \E q \in Enumerations(BucketIds) : Begin(q, {})

RunInitialReturn == End /\ UNCHANGED <<x, y, buckets>>

InitialInit ==
  /\ x \in XSets
  /\ y \in YSets
  /\ xb = BuildBuckets(x)
  /\ yb = BuildBuckets(y)
  /\ BatchInit

InitialNext ==
  \/ \E xs \in XSets, ys \in YSets : RunInitialRound(xs, ys)
  \/ RunInitialReturn
  \/ BatchNext /\ UNCHANGED <<x, y>>

InitialSpec == InitialInit /\ [][InitialNext]_initial_vars /\ BatchFairness

----------------------------------------------------------------------------
(* A call that returns true has found exactly the common items of the two  *)
(* sets, whichever threads evaluated which buckets and even if the sets    *)
(* hold duplicates (tests/test_initial_round_small.cpp compares the two).  *)
InitialIsNaive ==
  pc[Main] = "return" /\ ok => acc = NaiveIntersection(x, y)

============================================================================
