--------------------------- MODULE BucketService ---------------------------
(***************************************************************************)
(* The abstract service behind EvalBucketIntersectionNoInit: it is asked   *)
(* for the matches of two bags and gives one answer.  A bucket with an     *)
(* empty side always succeeds.  Success under a check of all real keys is  *)
(* exact and excludes a key that occurs twice; a sampled check promises    *)
(* only that what is reported is a match.  Any other bucket may fail, and  *)
(* a failure reports nothing.                                              *)
(***************************************************************************)
EXTENDS BucketContract

VARIABLES
  phase,     (* "idle", "asked" or "answered"                              *)
  x, y,      (* the bags asked for                                         *)
  checked,   (* whether the configuration checks all real keys             *)
  verdict,   (* the answer                                                 *)
  matched    (* ... and the items reported with it                         *)

vars == <<phase, x, y, checked, verdict, matched>>

Bags == [Items -> Nat]

Init ==
  /\ phase = "idle"
  /\ x \in Bags /\ y \in Bags /\ checked \in BOOLEAN
  /\ verdict = FALSE /\ matched = {}

Ask ==
  /\ phase = "idle"
  /\ phase' = "asked"
  /\ x' \in Bags /\ y' \in Bags /\ checked' \in BOOLEAN
  /\ UNCHANGED <<verdict, matched>>

Succeed ==
  /\ verdict' = TRUE
  /\ matched' \in SUBSET Matches(x, y)
  /\ ~EmptySide(x, y) /\ checked =>
       /\ ~DuplicateKey(y)
       /\ matched' = Matches(x, y)

Fail ==
  /\ ~EmptySide(x, y)
  /\ verdict' = FALSE
  /\ matched' = {}

Answer ==
  /\ phase = "asked"
  /\ phase' = "answered"
  /\ Succeed \/ Fail
  /\ UNCHANGED <<x, y, checked>>

Take ==
  /\ phase = "answered"
  /\ phase' = "idle"
  /\ verdict' = FALSE /\ matched' = {}
  /\ UNCHANGED <<x, y, checked>>

Next == Ask \/ Answer \/ Take

Spec == Init /\ [][Next]_vars /\ WF_vars(Answer)

=============================================================================
