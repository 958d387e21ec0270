--------------------------- MODULE UpdateProtocol ---------------------------
(***************************************************************************)
(* The updatable protocol: InitializeUpdateState sets an                   *)
(* UpdateProtocolState up, RunUpdateRound applies a delta to side Y and    *)
(* re-evaluates only the buckets the delta touched.                        *)
(*                                                                         *)
(* The caller holds x_set and keeps y_live as the tests do: the delta is   *)
(* applied to it when the round is called, because the round applies it to *)
(* state.y_buckets before anything can fail.  A caller may go on after a   *)
(* round that returned false; after InitializeUpdateState returned false   *)
(* it initialises again.  x and y are the caller's x_set and y_live.       *)
(***************************************************************************)
EXTENDS InitialRound

CONSTANTS
  AddSets,        (* the bags a caller may pass as add_set                 *)
  DelSets,        (* ... and as del_set of an update round                 *)
  MaxCopies       (* bound on the copies of an item in side Y              *)

ASSUME CallerAssumption ==
  /\ AddSets \subseteq Bags /\ DelSets \subseteq Bags
  /\ MaxCopies \in Nat

VARIABLES
  mode,    (* the call that runs, or what the caller may call next         *)
  inter,   (* state.intersection, as a set                                 *)
  flags,   (* delta.flags: the buckets of this round, as a set             *)
  dirty    (* history: buckets changed by a round and not yet evaluated by *)
           (* a round that returned true                                   *)

state == <<mode, x, y, inter, flags, dirty>>
vars == <<state, buckets, batch>>

----------------------------------------------------------------------------
InitializeUpdateState(xs, ys) ==
  /\ mode \in {"none", "ready"}
  /\ mode' = "initializing"
  /\ RunInitialRound(xs, ys)
  /\ flags' = BucketIds
  /\ dirty' = BucketIds
  /\ UNCHANGED inter

(* On failure the buckets are those of the new sets, the intersection that *)
(* of whatever the state held before.                                      *)
InitializeReturn ==
  /\ mode = "initializing"
  /\ IF ok THEN /\ mode' = "ready"
                /\ inter' = acc
                /\ dirty' = {}
           ELSE /\ mode' = "none"
                /\ UNCHANGED <<inter, dirty>>
  /\ flags' = {}
  /\ End
  /\ UNCHANGED <<x, y, buckets>>

(* Mutant: the whole of the old intersection is kept. *)
KeptAll(old, changed) == old

(* The entries of the old intersection that lie in unchanged buckets. *)
Kept(old, changed) == {i \in old : BucketOf(i) \notin changed}

RunUpdateRound(add, del) ==
  /\ mode = "ready"
  /\ \A i \in Items : RemoveUpTo(y[i], del[i]) + add[i] <= MaxCopies
  /\ mode' = "updating"
  /\ y' = LiveAfter(y, add, del)
  /\ yb' = ApplyBucketDelta(yb, add, del)
  /\ flags' = ChangedFlags(yb, add, del)
  /\ dirty' = dirty \cup flags'
  /\ \E q \in Enumerations(flags') : Begin(q, Kept(inter, flags'))
  /\ UNCHANGED <<x, xb, inter>>

(* Mutant: the intersection under construction is stored before the        *)
(* outcome of the round is known.                                          *)
CommitAlways ==
  /\ mode = "updating"
  /\ mode' = "ready"
  /\ inter' = acc
  /\ dirty' = IF ok THEN dirty \ flags ELSE dirty
  /\ flags' = {}
  /\ End
  /\ UNCHANGED <<x, y, buckets>>

(* Mutant: a round that fails drops the stored intersection. *)
ClearOnFailure ==
  /\ mode = "updating"
  /\ mode' = "ready"
  /\ IF ok THEN /\ inter' = acc
                /\ dirty' = dirty \ flags
           ELSE /\ inter' = {}
                /\ UNCHANGED dirty
  /\ flags' = {}
  /\ End
  /\ UNCHANGED <<x, y, buckets>>

(* Every failure returns before state.intersection is assigned. *)
RunUpdateReturn ==
  /\ mode = "updating"
  /\ mode' = "ready"
  /\ IF ok THEN /\ inter' = acc
                /\ dirty' = dirty \ flags
           ELSE UNCHANGED <<inter, dirty>>
  /\ flags' = {}
  /\ End
  /\ UNCHANGED <<x, y, buckets>>

----------------------------------------------------------------------------
(* A state is initialised by its caller before anything else. *)
Init ==
  /\ mode = "none"
  /\ x = [i \in Items |-> 0]
  /\ y = [i \in Items |-> 0]
  /\ xb = BuildBuckets(x)
  /\ yb = BuildBuckets(y)
  /\ inter = {}
  /\ flags = {}
  /\ dirty = {}
  /\ BatchInit

Next ==
  \/ \E xs \in XSets, ys \in YSets : InitializeUpdateState(xs, ys)
  \/ InitializeReturn
  \/ \E add \in AddSets, del \in DelSets : RunUpdateRound(add, del)
  \/ RunUpdateReturn
  \/ BatchNext /\ UNCHANGED state

Fairness ==
  /\ BatchFairness
  /\ WF_vars(InitializeReturn)
  /\ WF_vars(RunUpdateReturn)

Spec == Init /\ [][Next]_vars /\ Fairness

----------------------------------------------------------------------------
TypeOK ==
  /\ BatchTypeOK
  /\ mode \in {"none", "ready", "initializing", "updating"}
  /\ x \in Bags
  /\ y \in Bags
  /\ inter \subseteq Items
  /\ flags \subseteq BucketIds
  /\ dirty \subseteq BucketIds

(* The incrementally maintained buckets are those a fresh bucketing of the *)
(* caller's sets would give, after any history of deltas, deletions of     *)
(* absent items, retries and failed rounds included.                       *)
BucketsTrackSets ==
  /\ xb = BuildBuckets(x)
  /\ yb = BuildBuckets(y)

(* A result set and the reference agree on the items of bucket b. *)
ExactOn(b, set) ==
  \A i \in Items : BucketOf(i) = b => (i \in set <=> i \in NaiveIntersection(x, y))

(* The queue of a running call lists exactly the buckets it has flagged,   *)
(* and every step of the batch adds up to what those buckets contribute.   *)
RoundProgress ==
  /\ PoolJoined
  /\ mode \in {"none", "ready"} <=> pc[Main] = "idle"
  /\ mode \in {"none", "ready"} => flags = {}
  /\ mode \in {"initializing", "updating"} =>
       /\ BatchProgress(IF mode = "updating" THEN Kept(inter, flags) ELSE {})
       /\ \A b \in BucketIds : b \in flags <=> \E k \in Positions : queue[k] = b
       /\ flags \subseteq dirty
  /\ mode = "initializing" => flags = BucketIds

(* Failed rounds damage the stored intersection only in the buckets they   *)
(* changed: everywhere else state.intersection is exact.                   *)
CleanBucketsExact ==
  mode \in {"ready", "updating"} =>
    \A b \in BucketIds \ dirty : ExactOn(b, inter)

(* A round that returns true reports the exact intersection, except in     *)
(* buckets an earlier failed round changed and this one did not touch.     *)
SuccessExact ==
  mode = "updating" /\ pc[Main] = "return" /\ ok =>
    \A b \in BucketIds : b \in flags \/ b \notin dirty => ExactOn(b, acc)

(* Bucket b can be evaluated: one side is empty there, or side Y holds no  *)
(* item twice.                                                             *)
Evaluable(b) ==
  \/ \A i \in Items : BucketOf(i) = b => x[i] = 0
  \/ \A i \in Items : BucketOf(i) = b => y[i] = 0
  \/ \A i \in Items : BucketOf(i) = b => y[i] <= 1

(* A caller can foresee what a round returns from the sets it keeps: true  *)
(* unless a fault happens or the delta touches a bucket in which, counting *)
(* the additions of rounds that failed, side Y holds an item twice beside  *)
(* items of side X.  Retrying a delta with additions is such a case.       *)
VerdictForeseen ==
  mode \in {"initializing", "updating"} /\ pc[Main] = "return" =>
    (ok <=> faults = 0 /\ \A b \in flags : Evaluable(b))

(* What tests/test_update_round_small.cpp:80-85 expects of every round     *)
(* that returns true: the intersection of x_set and y_live.                *)
SuccessIsNaive ==
  mode = "updating" /\ pc[Main] = "return" /\ ok =>
    acc = NaiveIntersection(x, y)

(* A round reuses the historical results of the buckets it does not flag,  *)
(* whether it succeeds or fails (README.md:8).                             *)
UnflaggedReused ==
  [][mode = "updating" /\ mode' = "ready" =>
       \A i \in Items : BucketOf(i) \notin flags => (i \in inter' <=> i \in inter)]_vars

(* Every call returns to its caller, whatever fails while it runs. *)
CallsReturn ==
  mode \in {"initializing", "updating"} ~> mode \in {"none", "ready"}

(* The promise of the interface: see UpsiRounds. *)
Rounds == INSTANCE UpsiRounds WITH exact <- dirty \subseteq flags
RoundsSpec == Rounds!Spec

============================================================================
