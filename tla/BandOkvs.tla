------------------------------ MODULE BandOkvs ------------------------------
(***************************************************************************)
(* The band OKVS over GF(2): Encode turns n keys into rows of w columns,   *)
(* sorts them by their first column, eliminates them one by one into a     *)
(* table of pivots and solves that backwards; Decode adds up the table     *)
(* slots of a key's row.                                                   *)
(*                                                                         *)
(* A row is the set of its columns, a value the set of its bits, so that   *)
(* xor is symmetric difference.  The code keeps a row as a word shifted to *)
(* start at `offset', here the first column of the set: the word is        *)
(* shifted until its lowest bit is set.  A key is the row GenerateBandWord *)
(* hashes it to: a key occurring twice, and two keys that collide, are     *)
(* equal rows.                                                             *)
(***************************************************************************)
EXTENDS Integers, Sequences, FiniteSets

CONSTANTS
  n, m, w,     (* keys, table slots, band length                           *)
  Bits         (* bits of a value                                          *)

(* What the constructor checks. *)
ASSUME BandOkvsAssumption ==
  /\ n \in Nat \ {0} /\ m \in Nat \ {0} /\ w \in Nat \ {0}
  /\ (m - w) - w + 1 > 0

VARIABLES
  keys, values,      (* the rows in the order of std::sort, their values   *)
  pc,
  i,                 (* rows taken; in the solver, the slots not yet done  *)
  raw_band, value,   (* the row being reduced                              *)
  reduced_matrix, reduced_values, (* per slot: the row with that pivot     *)
  dropped            (* rows that left no pivot; the code keeps no record  *)

vars == <<keys, values, pc, i, raw_band, value, reduced_matrix,
          reduced_values, dropped>>

input == <<keys, values>>

----------------------------------------------------------------------------
Xor(u, v) == (u \ v) \cup (v \ u)

(* Sum over GF(2) of the sets f[c], c in C. *)
SumOf(C, f, universe) ==
  {b \in universe : Cardinality({c \in C : b \in f[c]}) % 2 = 1}

r == m - w
Columns == 0 .. m - 1

First(S) == CHOOSE c \in S : \A d \in S : c <= d

BandsFrom(s) == {{s} \cup T : T \in SUBSET (s + 1 .. s + w - 1)}

(* Mutant: the divisor forgets that the table ends w slots before m.       *)
BandsToTheEnd == UNION {BandsFrom(s) : s \in 0 .. m - w}

(* GenerateBandWord: the start is a hash modulo r - w + 1, the bits are    *)
(* hashed too except the lowest, which SetBlocks forces to one.            *)
Bands == UNION {BandsFrom(s) : s \in 0 .. r - w}

Sorted(rows) ==
  \A j, k \in 1 .. n : j < k => First(rows[j]) <= First(rows[k])

(* Decode: the slots of the row, added up. *)
Decoded(key) == SumOf(key, reduced_values, Bits)

----------------------------------------------------------------------------
(* EncodeImpl has hashed the keys and sorted the rows. *)
Init ==
  /\ keys \in [1 .. n -> Bands]
  /\ values \in [1 .. n -> SUBSET Bits]
  /\ Sorted(keys)
  /\ pc = "next" /\ i = 0
  /\ raw_band = {} /\ value = {}
  /\ reduced_matrix = [c \in Columns |-> {}]
  /\ reduced_values = [c \in Columns |-> {}]
  /\ dropped = {}

TakeRow ==
  /\ pc = "next" /\ i < n
  /\ i' = i + 1
  /\ raw_band' = keys[i + 1]
  /\ value' = values[i + 1]
  /\ pc' = "reduce"
  /\ UNCHANGED <<input, reduced_matrix, reduced_values, dropped>>

(* Mutant: the right-hand side is not added. *)
ReduceBandOnly ==
  /\ pc = "reduce"
  /\ raw_band # {}
  /\ reduced_matrix[First(raw_band)] # {}
  /\ raw_band' = Xor(raw_band, reduced_matrix[First(raw_band)])
  /\ UNCHANGED <<input, pc, i, value, reduced_matrix, reduced_values, dropped>>

(* The pivot at the row's first column is added, and the row shifted. *)
Reduce ==
  /\ pc = "reduce"
  /\ raw_band # {}
  /\ reduced_matrix[First(raw_band)] # {}
  /\ raw_band' = Xor(raw_band, reduced_matrix[First(raw_band)])
  /\ value' = Xor(value, reduced_values[First(raw_band)])
  /\ UNCHANGED <<input, pc, i, reduced_matrix, reduced_values, dropped>>

(* The row has vanished: nothing is left to place, whatever its value. *)
Drop ==
  /\ pc = "reduce"
  /\ raw_band = {}
  /\ dropped' = dropped \cup {i}
  /\ value' = {}
  /\ pc' = "next"
  /\ UNCHANGED <<input, i, raw_band, reduced_matrix, reduced_values>>

Place ==
  /\ pc = "reduce"
  /\ raw_band # {}
  /\ reduced_matrix[First(raw_band)] = {}
  /\ reduced_matrix' = [reduced_matrix EXCEPT ![First(raw_band)] = raw_band]
  /\ reduced_values' = [reduced_values EXCEPT ![First(raw_band)] = value]
  /\ raw_band' = {} /\ value' = {}
  /\ pc' = "next"
  /\ UNCHANGED <<input, i, dropped>>

(* ReduceToRowEchelon returns true. *)
StartSolve ==
  /\ pc = "next" /\ i = n
  /\ i' = m
  /\ pc' = "solve"
  /\ UNCHANGED <<input, raw_band, value, reduced_matrix, reduced_values,
                 dropped>>

(* Mutant: off by one, the last column of the band is left out. *)
SolveShortBand ==
  /\ pc = "solve" /\ i > 0
  /\ i' = i - 1
  /\ reduced_values' =
       IF reduced_matrix[i - 1] = {} THEN reduced_values
       ELSE [reduced_values EXCEPT ![i - 1] =
               SumOf(reduced_matrix[i - 1] \ {i + w - 2}, reduced_values, Bits)]
  /\ UNCHANGED <<input, pc, raw_band, value, reduced_matrix, dropped>>

(* Slot by slot from the end, each from its own value and later slots. *)
SolveSlot ==
  /\ pc = "solve" /\ i > 0
  /\ i' = i - 1
  /\ reduced_values' =
       IF reduced_matrix[i - 1] = {} THEN reduced_values
       ELSE [reduced_values EXCEPT ![i - 1] =
               SumOf(reduced_matrix[i - 1], reduced_values, Bits)]
  /\ UNCHANGED <<input, pc, raw_band, value, reduced_matrix, dropped>>

(* The table is copied out and Encode returns true. *)
Finish ==
  /\ pc = "solve" /\ i = 0
  /\ pc' = "done"
  /\ UNCHANGED <<input, i, raw_band, value, reduced_matrix, reduced_values,
                 dropped>>

Next == TakeRow \/ Reduce \/ Drop \/ Place \/ StartSolve \/ SolveSlot \/ Finish

Spec == Init /\ [][Next]_vars

----------------------------------------------------------------------------
TypeOK ==
  /\ \A j \in 1 .. n : keys[j] \subseteq Columns /\ values[j] \subseteq Bits
  /\ pc \in {"next", "reduce", "solve", "done"}
  /\ i \in 0 .. n + m
  /\ raw_band \subseteq Columns /\ value \subseteq Bits
  /\ reduced_matrix \in [Columns -> SUBSET Columns]
  /\ reduced_values \in [Columns -> SUBSET Bits]
  /\ dropped \subseteq 1 .. n

Pivots == {c \in Columns : reduced_matrix[c] # {}}

(* Echelon form: a pivot's row begins at its slot and is no longer than    *)
(* the band, and no row ever reaches the last w slots: the bound on i + j  *)
(* in Solve and the exits at offset >= m for a row that has not vanished   *)
(* are never taken.                                                        *)
EchelonForm ==
  /\ \A c \in Pivots : /\ First(reduced_matrix[c]) = c
                       /\ reduced_matrix[c] \subseteq c .. c + w - 1
                       /\ reduced_matrix[c] \subseteq 0 .. r - 1
  /\ raw_band # {} => raw_band \subseteq First(raw_band) .. r - 1

(* Between two rows the pivots' equations imply those of every row taken,  *)
(* but for a dropped one whose value contradicts them; and the pivots and  *)
(* the dropped rows account for every row.                                 *)
RowsSpanned ==
  pc = "next" =>
    /\ Cardinality(Pivots) + Cardinality(dropped) = i
    /\ \A j \in 1 .. i : \E C \in SUBSET Pivots :
         /\ SumOf(C, reduced_matrix, Columns) = keys[j]
         /\ j \notin dropped => SumOf(C, reduced_values, Bits) = values[j]

(* The equations have a solution: rows that add up to nothing have values  *)
(* that do.                                                                *)
Consistent ==
  \A S \in SUBSET (1 .. n) :
    SumOf(S, keys, Columns) = {} => SumOf(S, values, Bits) = {}

(* The finished table decodes every row that left a pivot, and it decodes  *)
(* all of them exactly if the equations have a solution.  So Encode's      *)
(* "true" says nothing, and the self-checks of BucketEval are needed.      *)
DecodesWhatItCan ==
  pc = "done" =>
    /\ \A j \in (1 .. n) \ dropped : Decoded(keys[j]) = values[j]
    /\ (\A j \in 1 .. n : Decoded(keys[j]) = values[j]) <=> Consistent

=============================================================================
