------------------------------ MODULE SplitMix ------------------------------
(***************************************************************************)
(* SplitMix64 (upsi_hash.cpp) on words of W bits: the multipliers are      *)
(* those of the code modulo 2^W, and odd; the shifts are scaled to W.      *)
(* Every step is a bijection, and that is all DummyTail, which takes the   *)
(* function as a constant, assumes of it.                                  *)
(***************************************************************************)
EXTENDS Integers, Bitwise

CONSTANT W   (* bits of a word *)

Words == 0 .. 2^W - 1

XorShift(x, s) == x ^^ shiftR(x, s)

ShortSplitMix64 ==
  LET First == [x \in Words |->
                  XorShift((x + 21) % 2^W, W \div 2) * 57 % 2^W]
      Second == [x \in Words |-> XorShift(x, W \div 2 - 1) * 43 % 2^W]
  IN [x \in Words |-> XorShift(Second[First[x]], W \div 2)]

XorOfWords(a, b) == a ^^ b

=============================================================================
