---------------------------- MODULE RelicBridge ----------------------------
(***************************************************************************)
(* upsi_relic_bridge.c: one bucket's handle around RELIC's pairing-based   *)
(* set intersection, with every allocation that may fail, and the verdict  *)
(* of upsi_relic_bucket_verify_x.                                          *)
(*                                                                         *)
(* RELIC is external: a group element is its exponent modulo the prime p,  *)
(* a pairing multiplies the exponents, the hash of a pairing is injective. *)
(* The group order is far above 2^64, so that distinct scalars stay        *)
(* distinct; here they are numbers below a small p, and every value the    *)
(* random exponents could take, the unlucky ones included, is a choice.    *)
(* A block of the heap is named by the field or local that points to it;   *)
(* bn_new, g1_new, g2_new and gt_new always succeed.                       *)
(***************************************************************************)
EXTENDS Integers, Sequences, FiniteSets

CONSTANTS
  p,        (* order of the groups                                         *)
  Scalars,  (* the items' scalars                                          *)
  MaxX      (* bound on the scalars a handle is created for                *)

ASSUME RelicBridgeAssumption ==
  /\ p \in Nat \ {0, 1}
  /\ \A a, b \in 1 .. p - 1 : (a * b) % p # 0      (* p is prime *)
  /\ Scalars \subseteq 0 .. p - 1
  /\ MaxX \in Nat \ {0, 1}

VARIABLES
  pc,       (* "idle", or where the call is                                *)
  heap,     (* blocks allocated                                            *)
  x,        (* the scalars of the call that created the handle             *)
  handle,   (* the context the caller holds, or NoHandle                   *)
  payload,  (* what P1 signed last, or NoPayload                           *)
  arg,      (* verify_x: the payload and the index it is called with       *)
  ret       (* verify_x: the value returned and *is_match                  *)

vars == <<pc, heap, x, handle, payload, arg, ret>>

Exponents == 0 .. p - 1
nx == Len(x)

(* EvalBucketIntersectionNoInit pads a single scalar to two.               *)
ScalarLists == UNION {[1 .. k -> Scalars] : k \in 2 .. MaxX}

NoHandle == [nx |-> 0, sk |-> 0, d |-> <<>>]

(* Bytes of a payload that are no signature.                               *)
Untagged == -1
Malformed == -2
Invalid == -3
NoHash == -1

(* y and t are P1's secrets: only the properties look at them.             *)
NoPayload == [cy |-> Untagged, v |-> NoHash, y |-> NoHash, t |-> 0]

(* What the OKVS gives for a key that P1 did not encode: bytes that do not *)
(* start like a point, that no point has, that are no valid point, or a    *)
(* point with bytes that are no hash.                                      *)
Junk ==
  {[NoPayload EXCEPT !.cy = c] :
     c \in {Untagged, Malformed, Invalid} \cup Exponents}

NoReturn == [value |-> 0, is_match |-> FALSE]
NoArg == [payload |-> NoPayload, index |-> 0]

----------------------------------------------------------------------------
Fixed == {"ctx", "q", "sk", "r", "ss"} \X {0}

(* An array of n points or scalars: 0 stands for the array, the other      *)
(* numbers for what its entries hold.                                      *)
Array(name, n) == {<<name, k>> : k \in 0 .. n}

Points(n) == Array("s", n + 1) \cup Array("d", n + 1)

XBn(n) == Array("x_bn", n)

(* upsi_relic_bucket_destroy: the arrays that are NULL, and the entries    *)
(* that were never created, are skipped.                                   *)
Destroyed(blocks, n) == blocks \ (Fixed \cup Points(n))

Locals == {"cy", "echeck"} \X {0}

(* Product of (sk - x[j]) over the scalars but the one at i; i = 0 leaves  *)
(* none out.                                                               *)
ProductBut(sk, i) ==
  LET f[j \in 0 .. nx] ==
        IF j = 0 THEN 1
        ELSE IF j = i THEN f[j - 1] ELSE (f[j - 1] * (sk - x[j])) % p
  IN f[nx]

----------------------------------------------------------------------------
(* upsi_relic_bucket_create *)

CreateCtx(scalars) ==
  /\ pc = "idle" /\ handle = NoHandle
  /\ x' = scalars
  /\ ret' = NoReturn
  /\ \/ pc' = "idle" /\ UNCHANGED heap                    (* malloc fails *)
     \/ pc' = "points" /\ heap' = heap \cup Fixed
  /\ UNCHANGED <<handle, payload, arg>>

(* Mutant: a missing array returns without destroying the context. *)
CreatePointsLeaks ==
  /\ pc = "points"
  /\ \/ pc' = "scalars" /\ heap' = heap \cup Points(nx)
     \/ pc' = "idle" /\ UNCHANGED heap
  /\ UNCHANGED <<x, handle, payload, arg, ret>>

(* s and d are both requested before either is looked at.  No entry exists *)
(* yet when one of them is missing.                                        *)
CreatePoints ==
  /\ pc = "points"
  /\ \/ pc' = "scalars" /\ heap' = heap \cup Points(nx)
     \/ \E got \in {{}, {<<"s", 0>>}, {<<"d", 0>>}} :
          /\ heap' = Destroyed(heap \cup got, nx)
          /\ pc' = "idle"
  /\ UNCHANGED <<x, handle, payload, arg, ret>>

CreateScalars ==
  /\ pc = "scalars"
  /\ \/ pc' = "ask" /\ heap' = heap \cup XBn(nx)
     \/ pc' = "idle" /\ heap' = Destroyed(heap, nx)
  /\ UNCHANGED <<x, handle, payload, arg, ret>>

(* Mutant: a failure destroys the context but not the scalars. *)
CreateAskFailsLeaks ==
  /\ pc = "ask"
  /\ heap' = Destroyed(heap, nx)
  /\ pc' = "idle"
  /\ UNCHANGED <<x, handle, payload, arg, ret>>

(* cp_pbpsi_gen or cp_pbpsi_ask reports an error.                          *)
CreateAskFails ==
  /\ pc = "ask"
  /\ heap' = Destroyed(heap \ XBn(nx), nx)
  /\ pc' = "idle"
  /\ UNCHANGED <<x, handle, payload, arg, ret>>

(* cp_pbpsi_gen draws sk; cp_pbpsi_ask draws r and leaves in d[0] r times  *)
(* the product over all scalars, in d[i] the one without scalar i.         *)
CreateAsk ==
  /\ pc = "ask"
  /\ \E sk, r \in Exponents :
       handle' = [nx |-> nx, sk |-> sk,
                  d |-> [i \in 0 .. nx |-> (r * ProductBut(sk, i)) % p]]
  /\ heap' = heap \ XBn(nx)
  /\ pc' = "idle"
  /\ UNCHANGED <<x, payload, arg, ret>>

Destroy ==
  /\ pc = "idle" /\ handle # NoHandle
  /\ heap' = Destroyed(heap, handle.nx)
  /\ handle' = NoHandle
  /\ payload' = NoPayload /\ arg' = NoArg /\ ret' = NoReturn
  /\ UNCHANGED <<pc, x>>

----------------------------------------------------------------------------
(* upsi_relic_bucket_sign, for one y: the iterations are independent.  Its *)
(* caller passes no NULL and a stride of cy_bytes + vy_bytes, and it frees *)
(* its locals on its only way out.                                         *)
Sign(y) ==
  /\ pc = "idle" /\ handle # NoHandle
  /\ \E t \in Exponents :
       payload' = [cy |-> (t * (handle.sk - y)) % p,
                   v |-> (t * handle.d[0]) % p,
                   y |-> y, t |-> t]
  /\ arg' = NoArg /\ ret' = NoReturn
  /\ UNCHANGED <<pc, heap, x, handle>>

----------------------------------------------------------------------------
(* upsi_relic_bucket_verify_x *)

(* x_index is i - 1.  The identity is written as a zero byte, which is no  *)
(* point's tag.                                                            *)
VerifyBegin(i, load) ==
  /\ pc = "idle" /\ handle # NoHandle
  /\ arg' = [payload |-> load, index |-> i]
  /\ IF i > handle.nx
       THEN ret' = NoReturn /\ pc' = "idle"
       ELSE /\ ret' = [value |-> 1, is_match |-> FALSE]
            /\ pc' = IF load.cy \in {Untagged, 0} THEN "idle" ELSE "parse"
  /\ UNCHANGED <<heap, x, handle, payload>>

(* The locals are created; the parser may raise an error, or give up with  *)
(* a point that g1_is_valid refuses.                                       *)
VerifyParse ==
  /\ pc = "parse"
  /\ \/ /\ arg.payload.cy = Malformed
        /\ pc' = "idle" /\ UNCHANGED heap      (* the locals are freed     *)
     \/ pc' = "point" /\ heap' = heap \cup Locals
  /\ UNCHANGED <<x, handle, payload, arg, ret>>

(* Mutant: the early return keeps the locals. *)
VerifyPointLeaks ==
  /\ pc = "point"
  /\ IF arg.payload.cy \in Exponents
       THEN pc' = "pair" /\ UNCHANGED heap
       ELSE pc' = "idle" /\ UNCHANGED heap
  /\ UNCHANGED <<x, handle, payload, arg, ret>>

VerifyPoint ==
  /\ pc = "point"
  /\ IF arg.payload.cy \in Exponents
       THEN pc' = "pair" /\ UNCHANGED heap
       ELSE pc' = "idle" /\ heap' = heap \ Locals
  /\ UNCHANGED <<x, handle, payload, arg, ret>>

echeck == (arg.payload.cy * handle.d[arg.index]) % p

(* Mutant: a pairing that comes out as unity is compared like any other. *)
VerifyPairUnity ==
  /\ pc = "pair"
  /\ heap' = heap \ Locals
  /\ pc' = "idle"
  /\ ret' = [ret EXCEPT !.is_match = arg.payload.v = echeck]
  /\ UNCHANGED <<x, handle, payload, arg>>

(* Mutant: the entry of d before the scalar's is paired. *)
VerifyPairOffByOne ==
  /\ pc = "pair"
  /\ heap' = heap \ Locals
  /\ pc' = "idle"
  /\ LET e == (arg.payload.cy * handle.d[arg.index - 1]) % p
     IN ret' = [ret EXCEPT !.is_match = e # 0 /\ arg.payload.v = e]
  /\ UNCHANGED <<x, handle, payload, arg>>

(* Both ways out free the locals. *)
VerifyPair ==
  /\ pc = "pair"
  /\ heap' = heap \ Locals
  /\ pc' = "idle"
  /\ ret' = [ret EXCEPT !.is_match = echeck # 0 /\ arg.payload.v = echeck]
  /\ UNCHANGED <<x, handle, payload, arg>>

----------------------------------------------------------------------------
Init ==
  /\ pc = "idle"
  /\ heap = {}
  /\ x \in ScalarLists
  /\ handle = NoHandle
  /\ payload = NoPayload
  /\ arg = NoArg
  /\ ret = NoReturn

(* The rest of a call that has begun. *)
Continue ==
  \/ CreatePoints \/ CreateScalars \/ CreateAskFails \/ CreateAsk
  \/ VerifyParse \/ VerifyPoint \/ VerifyPair

Next ==
  \/ \E scalars \in ScalarLists : CreateCtx(scalars)
  \/ Destroy
  \/ \E y \in Scalars : Sign(y)
  \/ \E i \in 1 .. MaxX + 1, load \in {payload} \cup Junk : VerifyBegin(i, load)
  \/ Continue

Spec == Init /\ [][Next]_vars

----------------------------------------------------------------------------
(* Between two calls exactly the blocks of the handle are allocated:       *)
(* create frees everything it has whichever of its steps fails, destroy    *)
(* frees everything create left, verify_x its locals on every way out.     *)
HeapExact ==
  pc = "idle" =>
    heap = IF handle = NoHandle THEN {} ELSE Fixed \cup Points(handle.nx)

(* verify_x reports a match only for a payload signed for the very scalar, *)
(* with whatever the random exponents come out as: also if the secret key  *)
(* meets a scalar or a blinding is zero, when pairings degenerate.         *)
NoFalseMatch ==
  ret.is_match => /\ arg.index \in 1 .. nx
                  /\ arg.payload.y = x[arg.index]

(* It does report one if the exponents are not degenerate: d[0] is not the *)
(* identity, P1's blinding is not zero.  This holds for scalars that occur *)
(* twice.                                                                  *)
MatchFound ==
  /\ pc = "idle"
  /\ arg.index \in 1 .. nx
  /\ arg.payload.y = x[arg.index]
  /\ handle.d[0] # 0 /\ arg.payload.t # 0
  => ret.is_match

=============================================================================
