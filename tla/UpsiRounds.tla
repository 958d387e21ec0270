----------------------------- MODULE UpsiRounds -----------------------------
(***************************************************************************)
(* What the interface of the updatable protocol promises its caller: a     *)
(* service that takes sets and deltas and answers with an intersection.    *)
(* There are no buckets, threads or contexts.  A call is a request and a   *)
(* response, and the answer changes only with a response that reports      *)
(* success.                                                                *)
(*                                                                         *)
(* exact says whether a success of the current (or next) call is promised  *)
(* to be the exact intersection.  A failed call withdraws the promise; a   *)
(* later round may renew it, and initialising always does.                 *)
(***************************************************************************)
EXTENDS UpsiBuckets

CONSTANTS XSets, YSets, AddSets, DelSets

VARIABLES mode, x, y, inter, exact

vars == <<mode, x, y, inter, exact>>

Init ==
  /\ mode = "none"
  /\ x = [i \in Items |-> 0]
  /\ y = [i \in Items |-> 0]
  /\ inter = {}
  /\ exact = TRUE

Initialize(xs, ys) ==
  /\ mode \in {"none", "ready"}
  /\ mode' = "initializing"
  /\ x' = xs
  /\ y' = ys
  /\ exact' = TRUE
  /\ UNCHANGED inter

Initialized ==
  /\ mode = "initializing"
  /\ mode' = "ready"
  /\ inter' = NaiveIntersection(x, y)
  /\ UNCHANGED <<x, y, exact>>

InitializeFailed ==
  /\ mode = "initializing"
  /\ mode' = "none"
  /\ exact' = FALSE
  /\ UNCHANGED <<x, y, inter>>

Update(add, del) ==
  /\ mode = "ready"
  /\ mode' = "updating"
  /\ y' = LiveAfter(y, add, del)
  /\ exact' \in {exact, TRUE}
  /\ UNCHANGED <<x, inter>>

(* Without the promise the answer still names only items of x_set. *)
Updated ==
  /\ mode = "updating"
  /\ mode' = "ready"
  /\ IF exact THEN inter' = NaiveIntersection(x, y)
              ELSE inter' \in SUBSET {i \in Items : x[i] > 0}
  /\ UNCHANGED <<x, y, exact>>

UpdateFailed ==
  /\ mode = "updating"
  /\ mode' = "ready"
  /\ exact' = FALSE
  /\ UNCHANGED <<x, y, inter>>

Next ==
  \/ \E xs \in XSets, ys \in YSets : Initialize(xs, ys)
  \/ Initialized \/ InitializeFailed
  \/ \E add \in AddSets, del \in DelSets : Update(add, del)
  \/ Updated \/ UpdateFailed

Spec == Init /\ [][Next]_vars

=============================================================================
