-------------------------- MODULE BandOkvs_proofs --------------------------
(***************************************************************************)
(* The band OKVS, for every number of keys, table size and band length the *)
(* constructor accepts: elimination keeps the pivots in echelon form, no   *)
(* row outgrows the band or reaches the last w slots; no row is lost on    *)
(* the way; and the solved table decodes what can be decoded.              *)
(***************************************************************************)
EXTENDS BandOkvs, TLAPS, WellFoundedInduction, FiniteSetTheorems

(* CHOOSE finds the least element of a set of columns. *)
LEMMA FirstIsLeast ==
  ASSUME NEW S, S \subseteq Nat, S # {}
  PROVE  First(S) \in S /\ \A d \in S : First(S) <= d
<1> DEFINE R == OpToRel(<, Nat)
<1>1. \E c \in S : \A d \in S : ~(<<d, c>> \in R)
  <2> HIDE DEF R
  <2> QED
    BY NatLessThanWellFounded, WFMin, Zenon DEF R
<1>2. PICK c \in S : \A d \in S : ~(<<d, c>> \in R)
  BY <1>1
<1>3. \A d \in S : c <= d
  <2> SUFFICES ASSUME NEW d \in S PROVE c <= d
    OBVIOUS
  <2>1. ~(<<d, c>> \in R)
    BY <1>2
  <2>2. d \in Nat /\ c \in Nat
    OBVIOUS
  <2>3. d < c => <<d, c>> \in R
    BY <2>2 DEF OpToRel
  <2> HIDE DEF R
  <2> QED
    BY <2>1, <2>2, <2>3
<1> QED
  BY <1>3 DEF First

LEMMA FirstUnique ==
  ASSUME NEW S, S \subseteq Nat, NEW c \in S, \A d \in S : c <= d
  PROVE  First(S) = c
<1>1. First(S) \in S /\ First(S) <= c /\ c <= First(S)
  BY FirstIsLeast
<1>2. First(S) \in Nat /\ c \in Nat
  BY <1>1
<1> QED
  BY <1>1, <1>2

----------------------------------------------------------------------------
LEMMA Sizes == n \in Nat /\ m \in Nat /\ w \in Nat /\ w > 0 /\ m > 0
               /\ r \in Nat /\ w <= r /\ r < m /\ n > 0
BY BandOkvsAssumption DEF r

(* A row fits the band and ends before the last w slots of the table. *)
Row(S) ==
  /\ S \subseteq 0 .. r - 1
  /\ \A a, b \in S : a - b < w

LEMMA BandsAreRows ==
  ASSUME NEW S \in Bands
  PROVE  S # {} /\ Row(S) /\ S \subseteq Columns
<1>1. PICK s \in 0 .. r - w : S \in BandsFrom(s)
  BY DEF Bands
<1>2. PICK T \in SUBSET (s + 1 .. s + w - 1) : S = {s} \cup T
  BY <1>1 DEF BandsFrom
<1>3. S \subseteq s .. s + w - 1
  BY <1>2, Sizes
<1>4. S \subseteq 0 .. r - 1
  BY <1>3, Sizes
<1>5. \A a, b \in S : a - b < w
  BY <1>3, Sizes
<1> QED
  BY <1>2, <1>4, <1>5, Sizes DEF Row, Columns

(* Adding the pivot of a row's first column leaves a row that begins       *)
(* later and still fits the band.                                          *)
LEMMA XorFits ==
  ASSUME NEW S, NEW T, Row(S), Row(T), S # {}, T # {}, First(T) = First(S)
  PROVE  Row(Xor(S, T)) /\ \A d \in Xor(S, T) : First(S) < d
<1>1. S \subseteq Nat /\ T \subseteq Nat
  BY Sizes DEF Row
<1> DEFINE f == First(S)
<1>2. f \in S /\ f \in T /\ (\A d \in S : f <= d) /\ (\A d \in T : f <= d)
  BY <1>1, FirstIsLeast
<1>3. f \in Nat
  BY <1>1, <1>2
<1> HIDE DEF f
<1>4. \A d \in S \cup T : f <= d /\ d - f < w /\ d \in 0 .. r - 1
  BY <1>2 DEF Row
<1>5. Xor(S, T) \subseteq S \cup T /\ f \notin Xor(S, T)
  BY <1>2 DEF Xor
<1>6. ASSUME NEW d \in Xor(S, T) PROVE f < d
  <2>1. d \in Nat /\ f <= d /\ d # f
    BY <1>1, <1>4, <1>5
  <2> QED
    BY <1>3, <2>1
<1>7. ASSUME NEW a \in Xor(S, T), NEW b \in Xor(S, T) PROVE a - b < w
  <2>1. a \in Nat /\ b \in Nat /\ f <= b /\ a - f < w
    BY <1>1, <1>4, <1>5
  <2> QED
    BY <1>3, <2>1, Sizes
<1>8. Xor(S, T) \subseteq 0 .. r - 1
  BY <1>4, <1>5
<1> QED
  BY <1>6, <1>7, <1>8 DEF Row, f

----------------------------------------------------------------------------
(* Inductive: keys are rows of Bands; the row being reduced and every      *)
(* pivot fit the band, and a pivot begins at its slot.                     *)
Pivot(c) ==
  /\ c \in reduced_matrix[c]
  /\ \A d \in reduced_matrix[c] : c <= d
  /\ Row(reduced_matrix[c])

Banded ==
  /\ TypeOK
  /\ \A j \in 1 .. n : keys[j] \in Bands
  /\ pc \in {"next", "reduce"} => i \in 0 .. n
  /\ pc = "reduce" => i \in 1 .. n
  /\ pc \in {"solve", "done"} => i \in 0 .. m
  /\ Row(raw_band)
  /\ \A c \in Columns : reduced_matrix[c] # {} => Pivot(c)

LEMMA BandedInit == Init => Banded
<1> SUFFICES ASSUME Init PROVE Banded
  OBVIOUS
<1>1. /\ keys \in [1 .. n -> Bands] /\ values \in [1 .. n -> SUBSET Bits]
      /\ pc = "next" /\ i = 0 /\ raw_band = {} /\ value = {}
      /\ reduced_matrix = [c \in Columns |-> {}]
      /\ reduced_values = [c \in Columns |-> {}]
      /\ dropped = {}
  BY DEF Init
<1>2. \A j \in 1 .. n : keys[j] \in Bands /\ keys[j] \subseteq Columns
  BY <1>1, BandsAreRows
<1>3. TypeOK
  BY <1>1, <1>2, Sizes DEF TypeOK
<1>4. Row(raw_band)
  BY <1>1, Sizes DEF Row
<1> QED
  BY <1>1, <1>2, <1>3, <1>4, Sizes DEF Banded

LEMMA BandedStep == Banded /\ [Next]_vars => Banded'
<1> SUFFICES ASSUME Banded, [Next]_vars PROVE Banded'
  OBVIOUS
<1> USE DEF Banded
<1>a. Columns \subseteq Nat
  BY Sizes DEF Columns
<1>1. CASE TakeRow
  <2>1. /\ i < n /\ i' = i + 1 /\ raw_band' = keys[i + 1] /\ pc' = "reduce"
        /\ value' = values[i + 1] /\ pc = "next"
        /\ keys' = keys /\ values' = values
        /\ reduced_matrix' = reduced_matrix
        /\ reduced_values' = reduced_values /\ dropped' = dropped
    BY <1>1 DEF TakeRow, input
  <2>2. i' \in 1 .. n
    BY <2>1, Sizes
  <2>3. Row(raw_band') /\ raw_band' \subseteq Columns
    BY <2>1, <2>2, BandsAreRows
  <2>4. value' \subseteq Bits
    BY <2>1, <2>2 DEF TypeOK
  <2>5. TypeOK'
    BY <2>1, <2>2, <2>3, <2>4, Sizes DEF TypeOK
  <2> QED
    BY <2>1, <2>2, <2>3, <2>5 DEF Pivot, Row, r
<1>2. CASE Reduce
  <2> DEFINE f == First(raw_band)
  <2>1. /\ raw_band # {} /\ reduced_matrix[f] # {} /\ pc = "reduce"
        /\ raw_band' = Xor(raw_band, reduced_matrix[f])
        /\ value' = Xor(value, reduced_values[f])
        /\ keys' = keys /\ values' = values /\ pc' = pc /\ i' = i
        /\ reduced_matrix' = reduced_matrix
        /\ reduced_values' = reduced_values /\ dropped' = dropped
    BY <1>2 DEF Reduce, input
  <2>2. raw_band \subseteq Nat /\ raw_band \subseteq Columns
    BY <1>a DEF TypeOK
  <2>3. f \in Columns
    BY <2>1, <2>2, FirstIsLeast
  <2>4. Pivot(f)
    BY <2>1, <2>3
  <2>5. First(reduced_matrix[f]) = f
    <3>1. reduced_matrix[f] \subseteq Nat
      BY <2>3, <1>a DEF TypeOK
    <3> HIDE DEF f
    <3> QED
      BY <3>1, <2>4, FirstUnique DEF Pivot
  <2>6. Row(raw_band')
    BY <2>1, <2>4, <2>5, XorFits DEF Pivot
  <2>7. raw_band' \subseteq Columns /\ value' \subseteq Bits
    BY <2>1, <2>3 DEF TypeOK, Xor
  <2>8. TypeOK'
    BY <2>1, <2>7 DEF TypeOK
  <2> QED
    BY <2>1, <2>6, <2>8 DEF Pivot, Row, r
<1>3. CASE Drop
  <2>1. /\ pc = "reduce" /\ dropped' = dropped \cup {i} /\ value' = {}
        /\ pc' = "next" /\ i' = i /\ raw_band' = raw_band
        /\ keys' = keys /\ values' = values
        /\ reduced_matrix' = reduced_matrix
        /\ reduced_values' = reduced_values
    BY <1>3 DEF Drop, input
  <2>2. i \in 1 .. n
    BY <2>1
  <2>3. TypeOK'
    BY <2>1, <2>2 DEF TypeOK
  <2> QED
    BY <2>1, <2>2, <2>3, Sizes DEF Pivot, Row, r
<1>4. CASE Place
  <2> DEFINE f == First(raw_band)
  <2>1. /\ raw_band # {} /\ pc = "reduce" /\ pc' = "next" /\ i' = i
        /\ reduced_matrix' = [reduced_matrix EXCEPT ![f] = raw_band]
        /\ reduced_values' = [reduced_values EXCEPT ![f] = value]
        /\ raw_band' = {} /\ value' = {}
        /\ keys' = keys /\ values' = values /\ dropped' = dropped
    BY <1>4 DEF Place, input
  <2>2. raw_band \subseteq Nat /\ raw_band \subseteq Columns
    BY <1>a DEF TypeOK
  <2>3. f \in raw_band /\ f \in Columns /\ \A d \in raw_band : f <= d
    BY <2>1, <2>2, FirstIsLeast
  <2> HIDE DEF f
  <2>4. TypeOK'
    BY <2>1, <2>2, <2>3 DEF TypeOK
  <2>5. \A c \in Columns : reduced_matrix'[c]
                             = IF c = f THEN raw_band ELSE reduced_matrix[c]
    BY <2>1, <2>3 DEF TypeOK
  <2>6. \A c \in Columns : reduced_matrix'[c] # {} => Pivot(c)'
    <3> SUFFICES ASSUME NEW c \in Columns, reduced_matrix'[c] # {}
                 PROVE  /\ c \in reduced_matrix'[c]
                        /\ \A d \in reduced_matrix'[c] : c <= d
                        /\ Row(reduced_matrix'[c])
      BY DEF Pivot, Row, r
    <3>1. CASE c = f
      BY <2>3, <2>5, <3>1
    <3>2. CASE c # f
      BY <2>5, <3>2 DEF Pivot
    <3> QED
      BY <3>1, <3>2
  <2>7. Row({})
    BY Sizes DEF Row
  <2> QED
    BY <2>1, <2>4, <2>6, <2>7, Sizes DEF Row, r
<1>5. CASE StartSolve
  <2>1. /\ i' = m /\ pc' = "solve" /\ keys' = keys /\ values' = values
        /\ raw_band' = raw_band /\ value' = value /\ dropped' = dropped
        /\ reduced_matrix' = reduced_matrix
        /\ reduced_values' = reduced_values
    BY <1>5 DEF StartSolve, input
  <2>2. TypeOK'
    BY <2>1, Sizes DEF TypeOK
  <2> QED
    BY <2>1, <2>2, Sizes DEF Pivot, Row, r
<1>6. CASE SolveSlot
  <2>1. /\ pc = "solve" /\ i > 0 /\ i' = i - 1 /\ pc' = pc
        /\ reduced_values' =
             IF reduced_matrix[i - 1] = {} THEN reduced_values
             ELSE [reduced_values EXCEPT ![i - 1] =
                     SumOf(reduced_matrix[i - 1], reduced_values, Bits)]
        /\ keys' = keys /\ values' = values
        /\ raw_band' = raw_band /\ value' = value /\ dropped' = dropped
        /\ reduced_matrix' = reduced_matrix
    BY <1>6 DEF SolveSlot, input
  <2>2. i' \in 0 .. m - 1
    BY <2>1, Sizes
  <2>3. SumOf(reduced_matrix[i - 1], reduced_values, Bits) \subseteq Bits
    BY DEF SumOf
  <2>4. reduced_values' \in [Columns -> SUBSET Bits]
    BY <2>1, <2>3 DEF TypeOK
  <2>5. TypeOK'
    BY <2>1, <2>2, <2>4, Sizes DEF TypeOK
  <2> QED
    BY <2>1, <2>2, <2>5, Sizes DEF Pivot, Row, r
<1>7. CASE Finish
  <2>1. /\ pc = "solve" /\ pc' = "done" /\ i' = i
        /\ keys' = keys /\ values' = values
        /\ raw_band' = raw_band /\ value' = value /\ dropped' = dropped
        /\ reduced_matrix' = reduced_matrix
        /\ reduced_values' = reduced_values
    BY <1>7 DEF Finish, input
  <2>2. TypeOK'
    BY <2>1 DEF TypeOK
  <2> QED
    BY <2>1, <2>2 DEF Pivot, Row, r
<1>8. CASE UNCHANGED vars
  BY <1>8 DEF vars, TypeOK, Pivot, Row, r
<1> QED
  BY <1>1, <1>2, <1>3, <1>4, <1>5, <1>6, <1>7, <1>8 DEF Next

LEMMA BandedAlways == Spec => []Banded
BY BandedInit, BandedStep, PTL DEF Spec

(* Every slot, value and counter of the encoder keeps its type; in         *)
(* particular no row taken has a column outside the table.                 *)
THEOREM TypeCorrect == Spec => []TypeOK
<1>1. Banded => TypeOK
  BY DEF Banded
<1> QED
  BY <1>1, BandedAlways, PTL

(* ReduceToRowEchelon leaves an echelon form: a pivot's row begins at its  *)
(* slot, fits the band, and ends before the last w slots.                  *)
THEOREM EchelonAlways == Spec => []EchelonForm
<1>1. Banded => EchelonForm
  <2> SUFFICES ASSUME Banded PROVE EchelonForm
    OBVIOUS
  <2>a. Columns \subseteq Nat
    BY Sizes DEF Columns
  <2>1. ASSUME NEW c \in Pivots
        PROVE  /\ First(reduced_matrix[c]) = c
               /\ reduced_matrix[c] \subseteq c .. c + w - 1
               /\ reduced_matrix[c] \subseteq 0 .. r - 1
    <3>1. c \in Columns /\ Pivot(c) /\ reduced_matrix[c] \subseteq Nat
      BY <2>a DEF Pivots, Banded, TypeOK
    <3>2. First(reduced_matrix[c]) = c
      BY <3>1, FirstUnique DEF Pivot
    <3>3. \A d \in reduced_matrix[c] : d \in Nat /\ c <= d /\ d - c < w
      BY <3>1 DEF Pivot, Row
    <3>4. \A d \in reduced_matrix[c] : d \in c .. c + w - 1
      BY <3>1, <3>3, <2>a, Sizes
    <3> QED
      BY <3>1, <3>2, <3>4 DEF Pivot, Row
  <2>2. ASSUME raw_band # {}
        PROVE  raw_band \subseteq First(raw_band) .. r - 1
    <3>1. raw_band \subseteq Nat /\ raw_band \subseteq 0 .. r - 1
      BY Sizes DEF Banded, Row
    <3>2. First(raw_band) \in Nat /\ \A d \in raw_band : First(raw_band) <= d
      BY <2>2, <3>1, FirstIsLeast
    <3> QED
      BY <3>1, <3>2, Sizes
  <2> QED
    BY <2>1, <2>2 DEF EchelonForm
<1> QED
  BY <1>1, BandedAlways, PTL

----------------------------------------------------------------------------
(* Sums over GF(2).                                                        *)

(* A family of subsets of S that holds the empty set, and with a set every *)
(* set one element larger, holds S: induction, with the set of instances   *)
(* for which the claim is true in the place of the claim.                  *)
LEMMA GrowToAll ==
  ASSUME NEW S, IsFiniteSet(S), NEW F, {} \in F,
         \A T \in F : \A x \in S : T \subseteq S => T \cup {x} \in F
  PROVE  S \in F
<1> DEFINE G == {T \in F : T \subseteq S}
           N == {Cardinality(S \ T) : T \in G}
<1>1. \A T \in G : IsFiniteSet(S \ T) /\ Cardinality(S \ T) \in Nat
  BY FS_Subset, FS_CardinalityType
<1>2. N \subseteq Nat /\ N # {}
  BY <1>1
<1>3. PICK T \in G : \A U \in G : Cardinality(S \ T) <= Cardinality(S \ U)
  <2>1. First(N) \in N /\ \A d \in N : First(N) <= d
    <3> HIDE DEF N
    <3> QED
      BY <1>2, FirstIsLeast
  <2> QED
    BY <2>1
<1>4. ASSUME NEW x \in S \ T PROVE FALSE
  <2>1. T \cup {x} \in G
    OBVIOUS
  <2>2. S \ (T \cup {x}) = (S \ T) \ {x}
    OBVIOUS
  <2>3. Cardinality((S \ T) \ {x}) = Cardinality(S \ T) - 1
    BY <1>1, FS_RemoveElement
  <2>4. Cardinality(S \ T) <= Cardinality(S \ (T \cup {x}))
    BY <1>3, <2>1
  <2>5. Cardinality(S \ T) \in Nat
    BY <1>1
  <2>6. Cardinality(S \ (T \cup {x})) = Cardinality(S \ T) - 1
    BY <2>2, <2>3, Zenon
  <2> QED
    BY <2>4, <2>5, <2>6
<1>5. T = S
  BY <1>4
<1> QED
  BY <1>5

LEMMA SumNone ==
  ASSUME NEW f, NEW U
  PROVE  SumOf({}, f, U) = {}
<1>1. ASSUME NEW b \in U PROVE Cardinality({c \in {} : b \in f[c]}) % 2 # 1
  <2>1. {c \in {} : b \in f[c]} = {}
    OBVIOUS
  <2>2. Cardinality({}) = 0
    BY FS_EmptySet
  <2> QED
    BY <2>1, <2>2
<1> QED
  BY <1>1 DEF SumOf

LEMMA SumSingle ==
  ASSUME NEW c, NEW f, NEW U, f[c] \subseteq U
  PROVE  SumOf({c}, f, U) = f[c]
<1>1. ASSUME NEW b \in U
      PROVE  Cardinality({x \in {c} : b \in f[x]}) % 2 = 1 <=> b \in f[c]
  <2>1. CASE b \in f[c]
    <3>1. {x \in {c} : b \in f[x]} = {c}
      BY <2>1
    <3>2. Cardinality({c}) = 1
      BY FS_Singleton
    <3>3. 1 % 2 = 1
      OBVIOUS
    <3> QED
      BY <2>1, <3>1, <3>2, <3>3, Zenon
  <2>2. CASE b \notin f[c]
    <3>1. {x \in {c} : b \in f[x]} = {}
      BY <2>2
    <3>2. Cardinality({}) = 0
      BY FS_EmptySet
    <3> QED
      BY <2>2, <3>1, <3>2
  <2> QED
    BY <2>1, <2>2
<1> QED
  BY <1>1 DEF SumOf

(* Only the summands count. *)
LEMMA SumSame ==
  ASSUME NEW S, NEW f, NEW g, NEW U, \A c \in S : f[c] = g[c]
  PROVE  SumOf(S, f, U) = SumOf(S, g, U)
<1>1. \A b \in U : {c \in S : b \in f[c]} = {c \in S : b \in g[c]}
  OBVIOUS
<1> QED
  BY <1>1 DEF SumOf

LEMMA Parity ==
  ASSUME NEW a \in Nat, NEW b \in Nat, NEW k \in Nat
  PROVE  (a - k + (b - k)) % 2 = 1 <=> (a % 2 = 1 /\ b % 2 # 1)
                                       \/ (a % 2 # 1 /\ b % 2 = 1)
OBVIOUS

LEMMA XorParity ==
  ASSUME NEW S, NEW T, IsFiniteSet(S), IsFiniteSet(T)
  PROVE  Cardinality(Xor(S, T)) % 2 = 1
           <=> (Cardinality(S) % 2 = 1 /\ Cardinality(T) % 2 # 1)
               \/ (Cardinality(S) % 2 # 1 /\ Cardinality(T) % 2 = 1)
<1>1. /\ IsFiniteSet(S \ T) /\ IsFiniteSet(T \ S)
      /\ IsFiniteSet(S \cap T) /\ IsFiniteSet(T \cap S)
  BY FS_Subset
<1>2. /\ Cardinality(S) \in Nat /\ Cardinality(T) \in Nat
      /\ Cardinality(S \cap T) \in Nat
  BY <1>1, FS_CardinalityType
<1>3. /\ Cardinality(S \ T) = Cardinality(S) - Cardinality(S \cap T)
      /\ Cardinality(T \ S) = Cardinality(T) - Cardinality(T \cap S)
  BY FS_Difference
<1>4. T \cap S = S \cap T /\ (S \ T) \cap (T \ S) = {}
  OBVIOUS
<1>5. Cardinality(Xor(S, T)) = Cardinality(S \ T) + Cardinality(T \ S) - 0
  BY <1>1, <1>4, FS_Union, FS_EmptySet DEF Xor
<1>6. Cardinality(Xor(S, T))
        = Cardinality(S) - Cardinality(S \cap T)
          + (Cardinality(T) - Cardinality(S \cap T))
  BY <1>2, <1>3, <1>4, <1>5
<1> QED
  BY <1>2, <1>6, Parity

(* A sum over the symmetric difference is the difference of the sums.      *)
LEMMA SumXor ==
  ASSUME NEW S, NEW T, IsFiniteSet(S), IsFiniteSet(T), NEW f, NEW U
  PROVE  SumOf(Xor(S, T), f, U) = Xor(SumOf(S, f, U), SumOf(T, f, U))
<1> DEFINE At(Z, b) == {c \in Z : b \in f[c]}
<1>1. ASSUME NEW b \in U
      PROVE  Cardinality(At(Xor(S, T), b)) % 2 = 1
               <=> (Cardinality(At(S, b)) % 2 = 1
                    /\ Cardinality(At(T, b)) % 2 # 1)
                   \/ (Cardinality(At(S, b)) % 2 # 1
                       /\ Cardinality(At(T, b)) % 2 = 1)
  <2>1. At(Xor(S, T), b) = Xor(At(S, b), At(T, b))
    BY DEF Xor
  <2>2. IsFiniteSet(At(S, b)) /\ IsFiniteSet(At(T, b))
    BY FS_Subset
  <2> HIDE DEF At
  <2> QED
    BY <2>1, <2>2, XorParity
<1>2. \A Z : SumOf(Z, f, U) = {b \in U : Cardinality(At(Z, b)) % 2 = 1}
  BY DEF SumOf
<1> HIDE DEF At
<1> QED
  BY <1>1, <1>2 DEF Xor

LEMMA SumInside ==
  ASSUME NEW S, NEW f, NEW U
  PROVE  SumOf(S, f, U) \subseteq U
BY DEF SumOf

(* One more summand. *)
LEMMA SumGrow ==
  ASSUME NEW S, IsFiniteSet(S), NEW x, x \notin S, NEW f, NEW U, f[x] \subseteq U
  PROVE  SumOf(S \cup {x}, f, U) = Xor(SumOf(S, f, U), f[x])
<1>1. S \cup {x} = Xor(S, {x})
  BY DEF Xor
<1>2. IsFiniteSet({x})
  BY FS_Singleton
<1>3. SumOf(Xor(S, {x}), f, U) = Xor(SumOf(S, f, U), SumOf({x}, f, U))
  BY <1>2, SumXor
<1> QED
  BY <1>1, <1>3, SumSingle

LEMMA SumGrows ==
  ASSUME NEW S, IsFiniteSet(S), NEW x, x \notin S
  PROVE  \A F, U : F[x] \subseteq U =>
           SumOf(S \cup {x}, F, U) = Xor(SumOf(S, F, U), F[x])
BY SumGrow

(* Adding up over a sum of sets is adding up the sums over each of them.   *)
LEMMA SumLinear ==
  ASSUME NEW S, IsFiniteSet(S), NEW U, IsFiniteSet(U),
         NEW f, \A c \in S : f[c] \subseteq U, NEW g, NEW B,
         NEW h, \A c \in S : SumOf(f[c], g, B) = h[c]
  PROVE  SumOf(SumOf(S, f, U), g, B) = SumOf(S, h, B)
<1> DEFINE F == {T \in SUBSET S :
                   SumOf(SumOf(T, f, U), g, B) = SumOf(T, h, B)}
<1>1. {} \in F
  <2> SUFFICES SumOf(SumOf({}, f, U), g, B) = SumOf({}, h, B)
    OBVIOUS
  <2> QED
    BY SumNone, Zenon
<1>2. ASSUME NEW T \in F, NEW x \in S, x \notin T PROVE T \cup {x} \in F
  <2>1. /\ T \subseteq S /\ IsFiniteSet(T)
        /\ SumOf(SumOf(T, f, U), g, B) = SumOf(T, h, B)
    BY FS_Subset
  <2>2. SumOf(T \cup {x}, f, U) = Xor(SumOf(T, f, U), f[x])
    BY <1>2, <2>1, SumGrow
  <2>3. SumOf(T, f, U) \subseteq U /\ f[x] \subseteq U
    BY SumInside
  <2>4. IsFiniteSet(SumOf(T, f, U)) /\ IsFiniteSet(f[x])
    BY <2>3, FS_Subset
  <2>5. SumOf(Xor(SumOf(T, f, U), f[x]), g, B)
          = Xor(SumOf(SumOf(T, f, U), g, B), SumOf(f[x], g, B))
    BY <2>4, SumXor
  <2>6. SumOf(f[x], g, B) = h[x]
    OBVIOUS
  <2>7. SumOf(T \cup {x}, h, B) = Xor(SumOf(T, h, B), h[x])
    <3>1. h[x] \subseteq B
      BY <2>6, SumInside
    <3>2. x \notin T /\ IsFiniteSet(T)
      BY <1>2, <2>1
    <3> QED
      BY <3>1, <3>2, SumGrow
  <2>8. SumOf(SumOf(T \cup {x}, f, U), g, B) = SumOf(T \cup {x}, h, B)
    BY <2>1, <2>2, <2>5, <2>6, <2>7, Zenon
  <2> QED
    BY <2>1, <2>8
<1>3. ASSUME NEW T \in F, NEW x \in S PROVE T \cup {x} \in F
  <2>1. CASE x \in T
    <3>1. T \cup {x} = T
      BY <2>1
    <3> HIDE DEF F
    <3> QED
      BY <3>1
  <2>2. CASE x \notin T
    BY <1>2, <2>2
  <2> QED
    BY <2>1, <2>2
<1>4. S \in F
  <2> HIDE DEF F
  <2> QED
    BY <1>1, <1>3, GrowToAll
<1> QED
  BY <1>4

----------------------------------------------------------------------------
(* The equations of the pivots, with right-hand sides rhs, and those of    *)
(* the first k rows imply one another, but for the dropped rows, of which  *)
(* only the left-hand side is implied.                                     *)
Equations(rhs, k) ==
  /\ \A c \in Pivots : \E S \in SUBSET (1 .. k) :
       /\ SumOf(S, keys, Columns) = reduced_matrix[c]
       /\ SumOf(S, values, Bits) = rhs[c]
  /\ \A j \in 1 .. k : \E C \in SUBSET Pivots :
       /\ SumOf(C, reduced_matrix, Columns) = keys[j]
       /\ j \notin dropped => SumOf(C, rhs, Bits) = values[j]

(* Row j is a sum of earlier rows. *)
Dependent(j) ==
  \E S \in SUBSET (1 .. j - 1) : SumOf(S, keys, Columns) = keys[j]

Accounted(k) ==
  /\ dropped = {j \in 1 .. k : Dependent(j)}
  /\ Cardinality(Pivots) + Cardinality(dropped) = k

(* What is left of row i is a sum of rows, and row i less some pivots.     *)
Remainder ==
  /\ \E S \in SUBSET (1 .. i) : /\ SumOf(S, keys, Columns) = raw_band
                               /\ SumOf(S, values, Bits) = value
  /\ \E C \in SUBSET Pivots :
       /\ Xor(SumOf(C, reduced_matrix, Columns), raw_band) = keys[i]
       /\ Xor(SumOf(C, reduced_values, Bits), value) = values[i]

(* Slots from i on satisfy the equation of their pivot, earlier ones still *)
(* hold its right-hand side.                                               *)
Solved(rhs) ==
  \A c \in Pivots :
    IF c < i THEN reduced_values[c] = rhs[c]
    ELSE SumOf(reduced_matrix[c], reduced_values, Bits) = rhs[c]

(* Inductive: elimination and solving do not change the solutions.         *)
Spanned ==
  /\ pc = "next" => Equations(reduced_values, i) /\ Accounted(i)
  /\ pc = "reduce" => /\ Equations(reduced_values, i - 1)
                      /\ Accounted(i - 1) /\ Remainder
  /\ pc \in {"solve", "done"} =>
       /\ dropped = {j \in 1 .. n : Dependent(j)}
       /\ \E rhs \in [Columns -> SUBSET Bits] : Equations(rhs, n) /\ Solved(rhs)
  /\ pc = "done" => i = 0

LEMMA XorNone == \A u : Xor({}, u) = u /\ Xor(u, {}) = u
BY DEF Xor

LEMMA XorBoth == \A u, v, p : Xor(Xor(u, p), Xor(v, p)) = Xor(u, v)
BY DEF Xor

LEMMA FinitePieces ==
  /\ \A S \in SUBSET (1 .. n) : IsFiniteSet(S)
  /\ \A C \in SUBSET Columns : IsFiniteSet(C)
<1>1. IsFiniteSet(1 .. n) /\ IsFiniteSet(0 .. m - 1)
  BY Sizes, FS_Interval
<1> QED
  BY <1>1, FS_Subset DEF Columns

(* Rows and pivots span the same: the sums of pivots are sums of the rows  *)
(* taken, with the values adding up accordingly, and the other way round.  *)
LEMMA PivotSumsAreRowSums ==
  ASSUME NEW rhs, NEW k \in 0 .. n, Equations(rhs, k)
  PROVE  \A C \in SUBSET Pivots : \E T \in SUBSET (1 .. k) :
           /\ SumOf(T, keys, Columns) = SumOf(C, reduced_matrix, Columns)
           /\ SumOf(T, values, Bits) = SumOf(C, rhs, Bits)
<1> DEFINE taken == 1 .. k
           Good(S, c) == /\ SumOf(S, keys, Columns) = reduced_matrix[c]
                         /\ SumOf(S, values, Bits) = rhs[c]
           rowsOf == [c \in Pivots |-> CHOOSE S \in SUBSET taken : Good(S, c)]
<1>1. \A c \in Pivots : rowsOf[c] \in SUBSET taken /\ Good(rowsOf[c], c)
  <2> SUFFICES ASSUME NEW c \in Pivots
               PROVE  rowsOf[c] \in SUBSET taken /\ Good(rowsOf[c], c)
    OBVIOUS
  <2>1. \E S \in SUBSET taken : Good(S, c)
    BY DEF Equations
  <2>2. rowsOf[c] = CHOOSE S \in SUBSET taken : Good(S, c)
    OBVIOUS
  <2> HIDE DEF Good, rowsOf
  <2> QED
    BY <2>1, <2>2
<1>2. IsFiniteSet(taken)
  BY FS_Interval, Sizes
<1> HIDE DEF rowsOf, taken
<1>3. ASSUME NEW C, C \in SUBSET Pivots
      PROVE  /\ SumOf(SumOf(C, rowsOf, taken), keys, Columns)
                  = SumOf(C, reduced_matrix, Columns)
             /\ SumOf(SumOf(C, rowsOf, taken), values, Bits)
                  = SumOf(C, rhs, Bits)
  <2>1. /\ IsFiniteSet(C)
        /\ \A c \in C : rowsOf[c] \subseteq taken
    BY <1>1, <1>3, FinitePieces DEF Pivots
  <2>2. /\ \A c \in C : SumOf(rowsOf[c], keys, Columns) = reduced_matrix[c]
        /\ \A c \in C : SumOf(rowsOf[c], values, Bits) = rhs[c]
    BY <1>1, <1>3
  <2>3. SumOf(SumOf(C, rowsOf, taken), keys, Columns)
          = SumOf(C, reduced_matrix, Columns)
    BY <1>2, <2>1, <2>2, SumLinear
  <2>4. SumOf(SumOf(C, rowsOf, taken), values, Bits) = SumOf(C, rhs, Bits)
    BY <1>2, <2>1, <2>2, SumLinear
  <2> QED
    BY <2>3, <2>4
<1>4. \A C : SumOf(C, rowsOf, taken) \in SUBSET taken
  BY SumInside
<1> QED
  BY <1>3, <1>4 DEF taken

LEMMA RowSumsArePivotSums ==
  ASSUME NEW rhs, NEW k \in 0 .. n, Equations(rhs, k)
  PROVE  \A S \in SUBSET (1 .. k) : \E C \in SUBSET Pivots :
           SumOf(C, reduced_matrix, Columns) = SumOf(S, keys, Columns)
<1> DEFINE taken == 1 .. k
           Good(C, j) == SumOf(C, reduced_matrix, Columns) = keys[j]
           pivotsOf == [j \in taken |-> CHOOSE C \in SUBSET Pivots : Good(C, j)]
<1>1. \A j \in taken : pivotsOf[j] \in SUBSET Pivots /\ Good(pivotsOf[j], j)
  <2> SUFFICES ASSUME NEW j \in taken
               PROVE  pivotsOf[j] \in SUBSET Pivots /\ Good(pivotsOf[j], j)
    OBVIOUS
  <2>1. \E C \in SUBSET Pivots : Good(C, j)
    BY DEF Equations
  <2>2. pivotsOf[j] = CHOOSE C \in SUBSET Pivots : Good(C, j)
    OBVIOUS
  <2> HIDE DEF Good, pivotsOf
  <2> QED
    BY <2>1, <2>2
<1>2. IsFiniteSet(taken) /\ IsFiniteSet(Pivots)
  BY FS_Interval, FinitePieces, Sizes DEF Pivots
<1> HIDE DEF pivotsOf, taken
<1>3. ASSUME NEW S, S \in SUBSET taken
      PROVE  SumOf(SumOf(S, pivotsOf, Pivots), reduced_matrix, Columns)
               = SumOf(S, keys, Columns)
  <2>1. IsFiniteSet(S) /\ \A j \in S : pivotsOf[j] \subseteq Pivots
    BY <1>1, <1>2, <1>3, FS_Subset
  <2>2. \A j \in S : SumOf(pivotsOf[j], reduced_matrix, Columns) = keys[j]
    BY <1>1, <1>3
  <2> QED
    BY <1>2, <2>1, <2>2, SumLinear
<1>4. \A S : SumOf(S, pivotsOf, Pivots) \in SUBSET Pivots
  BY SumInside
<1> QED
  BY <1>3, <1>4 DEF taken

(* A sum of pivots begins at the first of them: they are independent.      *)
LEMMA SumBeginsAtFirst ==
  ASSUME Banded, NEW D \in SUBSET Pivots, D # {}
  PROVE  First(SumOf(D, reduced_matrix, Columns)) \in Pivots
<1> DEFINE f == First(D)
           sum == SumOf(D, reduced_matrix, Columns)
           At(b) == {c \in D : b \in reduced_matrix[c]}
<1>1. /\ D \subseteq Nat /\ D \subseteq Columns /\ Columns \subseteq Nat
      /\ \A c \in D : Pivot(c)
  BY Sizes DEF Pivots, Columns, Banded
<1>2. f \in D /\ \A c \in D : f <= c
  BY <1>1, FirstIsLeast
<1> HIDE DEF f
<1>3. f \in sum
  <2>1. At(f) = {f}
    <3>1. ASSUME NEW c \in At(f) PROVE c = f
      <4>1. c \in Nat /\ f \in Nat /\ c <= f /\ f <= c
        BY <1>1, <1>2 DEF Pivot
      <4> QED
        BY <4>1
    <3>2. f \in At(f)
      BY <1>1, <1>2 DEF Pivot
    <3> QED
      BY <3>1, <3>2
  <2>2. Cardinality({f}) = 1
    BY FS_Singleton
  <2>3. 1 % 2 = 1
    OBVIOUS
  <2>4. Cardinality(At(f)) % 2 = 1
    BY <2>1, <2>2, <2>3, Zenon
  <2>5. f \in Columns
    BY <1>1, <1>2
  <2> QED
    BY <2>4, <2>5 DEF SumOf
<1>4. ASSUME NEW d \in sum PROVE f <= d
  <2>1. d \in Columns /\ Cardinality(At(d)) % 2 = 1
    BY DEF SumOf
  <2>2. At(d) # {}
    <3>1. Cardinality({}) % 2 # 1
      BY FS_EmptySet
    <3> HIDE DEF At
    <3> QED
      BY <2>1, <3>1
  <2>3. PICK c \in D : d \in reduced_matrix[c]
    BY <2>2
  <2>4. c \in Nat /\ d \in Nat /\ f \in Nat /\ c <= d /\ f <= c
    BY <1>1, <1>2, <2>1, <2>3 DEF Pivot
  <2> QED
    BY <2>4
<1>5. sum \subseteq Nat
  BY <1>1, SumInside
<1> HIDE DEF sum
<1>6. First(sum) = f
  BY <1>3, <1>4, <1>5, FirstUnique
<1> QED
  BY <1>2, <1>6 DEF sum

LEMMA DependentKept ==
  ASSUME keys' = keys
  PROVE  \A j : Dependent(j)' <=> Dependent(j)
BY DEF Dependent, Columns

LEMMA SpannedInit == Init => Spanned
<1> SUFFICES ASSUME Init PROVE Spanned
  OBVIOUS
<1>1. /\ pc = "next" /\ i = 0 /\ dropped = {}
      /\ reduced_matrix = [c \in Columns |-> {}]
  BY DEF Init
<1>2. Pivots = {} /\ 1 .. i = {}
  BY <1>1 DEF Pivots
<1>3. Accounted(i)
  <2>1. Cardinality(Pivots) = 0 /\ Cardinality(dropped) = 0
    BY <1>1, <1>2, FS_EmptySet
  <2> QED
    BY <1>1, <2>1 DEF Accounted
<1> QED
  BY <1>1, <1>2, <1>3 DEF Spanned, Equations

LEMMA SpannedTakeRow == Banded /\ Spanned /\ TakeRow => Spanned'
<1> SUFFICES ASSUME Banded, Spanned, TakeRow PROVE Spanned'
  OBVIOUS
<1>1. /\ i < n /\ i' = i + 1 /\ raw_band' = keys[i + 1] /\ pc' = "reduce"
      /\ value' = values[i + 1] /\ pc = "next"
      /\ keys' = keys /\ values' = values
      /\ reduced_matrix' = reduced_matrix
      /\ reduced_values' = reduced_values /\ dropped' = dropped
  BY DEF TakeRow, input
<1>2. i \in 0 .. n /\ i + 1 \in 1 .. n /\ i' - 1 = i
  BY <1>1, Sizes DEF Banded
<1>3. keys[i + 1] \subseteq Columns /\ values[i + 1] \subseteq Bits
  BY <1>2 DEF Banded, TypeOK
<1>4. Equations(reduced_values, i) /\ Accounted(i)
  BY <1>1 DEF Spanned
<1>5. /\ SumOf({i + 1}, keys, Columns) = keys[i + 1]
      /\ SumOf({i + 1}, values, Bits) = values[i + 1]
  BY <1>3, SumSingle
<1>6. /\ Xor(SumOf({}, reduced_matrix, Columns), keys[i + 1]) = keys[i + 1]
      /\ Xor(SumOf({}, reduced_values, Bits), values[i + 1]) = values[i + 1]
  BY SumNone, XorNone
<1>7. Remainder'
  <2>1. {i + 1} \in SUBSET (1 .. i') /\ {} \in SUBSET Pivots'
    BY <1>1, <1>2
  <2>2. \E S \in SUBSET (1 .. i') : /\ SumOf(S, keys, Columns)' = raw_band'
                                  /\ SumOf(S, values, Bits)' = value'
    <3>1. /\ SumOf({i + 1}, keys', Columns) = raw_band'
          /\ SumOf({i + 1}, values', Bits) = value'
      BY <1>1, <1>5
    <3> QED
      BY <2>1, <3>1 DEF SumOf, Columns
  <2>3. \E C \in SUBSET Pivots' :
          /\ Xor(SumOf(C, reduced_matrix', Columns), raw_band') = keys'[i']
          /\ Xor(SumOf(C, reduced_values', Bits), value') = values'[i']
    BY <1>1, <1>6, <2>1
  <2> QED
    BY <2>2, <2>3 DEF Remainder, Columns
<1>8. Equations(reduced_values, i - 1)' /\ Accounted(i - 1)'
  BY <1>1, <1>2, <1>4, DependentKept DEF Equations, Accounted, Pivots, Columns
<1> QED
  BY <1>1, <1>7, <1>8 DEF Spanned

LEMMA SpannedReduce == Banded /\ Spanned /\ Reduce => Spanned'
<1> SUFFICES ASSUME Banded, Spanned, Reduce PROVE Spanned'
  OBVIOUS
<1> DEFINE f == First(raw_band)
           p == reduced_matrix[f]
           v == reduced_values[f]
<1>1. /\ raw_band # {} /\ p # {} /\ pc = "reduce"
      /\ raw_band' = Xor(raw_band, p) /\ value' = Xor(value, v)
      /\ keys' = keys /\ values' = values /\ pc' = pc /\ i' = i
      /\ reduced_matrix' = reduced_matrix
      /\ reduced_values' = reduced_values /\ dropped' = dropped
  BY DEF Reduce, input
<1>2. f \in Pivots /\ f \in Columns /\ p \subseteq Columns /\ v \subseteq Bits
  <2>1. raw_band \subseteq Nat /\ raw_band \subseteq Columns
    BY Sizes DEF Banded, TypeOK, Columns
  <2>2. f \in Columns
    BY <1>1, <2>1, FirstIsLeast
  <2> QED
    BY <1>1, <2>2 DEF Pivots, Banded, TypeOK
<1> HIDE DEF f
<1>3. Equations(reduced_values, i - 1) /\ Accounted(i - 1) /\ Remainder
  BY <1>1 DEF Spanned
<1>4. \E S \in SUBSET (1 .. i) : /\ SumOf(S, keys, Columns) = Xor(raw_band, p)
                                /\ SumOf(S, values, Bits) = Xor(value, v)
  <2>1. PICK S \in SUBSET (1 .. i) : /\ SumOf(S, keys, Columns) = raw_band
                                    /\ SumOf(S, values, Bits) = value
    BY <1>3 DEF Remainder
  <2>2. PICK T \in SUBSET (1 .. i - 1) : /\ SumOf(T, keys, Columns) = p
                                        /\ SumOf(T, values, Bits) = v
    BY <1>2, <1>3 DEF Equations
  <2>a. i \in 1 .. n /\ T \subseteq 1 .. i /\ S \subseteq 1 .. n /\ T \subseteq 1 .. n
    BY <1>1, Sizes DEF Banded
  <2>3. IsFiniteSet(S) /\ IsFiniteSet(T)
    BY <2>a, FinitePieces
  <2>4. /\ SumOf(Xor(S, T), keys, Columns) = Xor(raw_band, p)
        /\ SumOf(Xor(S, T), values, Bits) = Xor(value, v)
    BY <2>1, <2>2, <2>3, SumXor
  <2>5. Xor(S, T) \in SUBSET (1 .. i)
    BY <2>a DEF Xor
  <2> QED
    BY <2>4, <2>5
<1>5. \E C \in SUBSET Pivots :
        /\ Xor(SumOf(C, reduced_matrix, Columns), Xor(raw_band, p)) = keys[i]
        /\ Xor(SumOf(C, reduced_values, Bits), Xor(value, v)) = values[i]
  <2>1. PICK C \in SUBSET Pivots :
          /\ Xor(SumOf(C, reduced_matrix, Columns), raw_band) = keys[i]
          /\ Xor(SumOf(C, reduced_values, Bits), value) = values[i]
    BY <1>3 DEF Remainder
  <2>2. IsFiniteSet(C) /\ IsFiniteSet({f})
    BY FinitePieces, FS_Singleton DEF Pivots
  <2>3. /\ SumOf(Xor(C, {f}), reduced_matrix, Columns)
             = Xor(SumOf(C, reduced_matrix, Columns), p)
        /\ SumOf(Xor(C, {f}), reduced_values, Bits)
             = Xor(SumOf(C, reduced_values, Bits), v)
    <3>1. /\ SumOf({f}, reduced_matrix, Columns) = p
          /\ SumOf({f}, reduced_values, Bits) = v
      BY <1>2, SumSingle
    <3> QED
      BY <2>2, <3>1, SumXor
  <2>4. Xor(C, {f}) \in SUBSET Pivots
    BY <1>2 DEF Xor
  <2>5. /\ Xor(SumOf(Xor(C, {f}), reduced_matrix, Columns), Xor(raw_band, p))
             = keys[i]
        /\ Xor(SumOf(Xor(C, {f}), reduced_values, Bits), Xor(value, v))
             = values[i]
    <3> HIDE DEF p, v
    <3> QED
      BY <2>1, <2>3, XorBoth
  <2> QED
    BY <2>4, <2>5
<1>6. Remainder'
  <2>1. \E S \in SUBSET (1 .. i') : /\ SumOf(S, keys', Columns) = raw_band'
                                  /\ SumOf(S, values', Bits) = value'
    BY <1>1, <1>4
  <2>2. \E C \in SUBSET Pivots' :
          /\ Xor(SumOf(C, reduced_matrix', Columns), raw_band') = keys'[i']
          /\ Xor(SumOf(C, reduced_values', Bits), value') = values'[i']
    <3>1. Pivots' = Pivots
      BY <1>1 DEF Pivots, Columns
    <3> QED
      BY <1>1, <1>5, <3>1
  <2> QED
    BY <2>1, <2>2 DEF Remainder, Columns
<1>7. Equations(reduced_values, i - 1)' /\ Accounted(i - 1)'
  BY <1>1, <1>3, DependentKept DEF Equations, Accounted, Pivots, Columns
<1> QED
  BY <1>1, <1>6, <1>7 DEF Spanned

LEMMA SpannedDrop == Banded /\ Spanned /\ Drop => Spanned'
<1> SUFFICES ASSUME Banded, Spanned, Drop PROVE Spanned'
  OBVIOUS
<1>1. /\ pc = "reduce" /\ dropped' = dropped \cup {i} /\ pc' = "next"
      /\ i' = i /\ raw_band = {} /\ keys' = keys /\ values' = values
      /\ reduced_matrix' = reduced_matrix
      /\ reduced_values' = reduced_values
  BY DEF Drop, input
<1>2. Equations(reduced_values, i - 1) /\ Accounted(i - 1) /\ Remainder
  BY <1>1 DEF Spanned
<1>3. i \in 1 .. n /\ i - 1 \in 0 .. n /\ i \notin dropped
  <2>1. i \in 1 .. n /\ i - 1 \in 0 .. n /\ i \notin 1 .. i - 1
    BY <1>1, Sizes DEF Banded
  <2>2. dropped = {j \in 1 .. i - 1 : Dependent(j)}
    BY <1>2 DEF Accounted
  <2> QED
    BY <2>1, <2>2
<1>4. \E C \in SUBSET Pivots : SumOf(C, reduced_matrix, Columns) = keys[i]
  BY <1>1, <1>2, XorNone DEF Remainder
<1>5. ASSUME NEW j \in 1 .. i
      PROVE  \E C \in SUBSET Pivots :
               /\ SumOf(C, reduced_matrix, Columns) = keys[j]
               /\ j \notin dropped' => SumOf(C, reduced_values, Bits) = values[j]
  <2>1. CASE j = i
    BY <1>1, <1>4, <2>1
  <2>2. CASE j # i
    <3>1. j \in 1 .. i - 1
      BY <1>3, <2>2
    <3>2. j \notin dropped' => j \notin dropped
      BY <1>1
    <3> QED
      BY <1>2, <3>1, <3>2 DEF Equations
  <2> QED
    BY <2>1, <2>2
<1>6. Equations(reduced_values, i)'
  <2>1. \A S \in SUBSET (1 .. i - 1) : S \in SUBSET (1 .. i)
    BY <1>3
  <2>2. \A c \in Pivots : \E S \in SUBSET (1 .. i) :
          /\ SumOf(S, keys, Columns) = reduced_matrix[c]
          /\ SumOf(S, values, Bits) = reduced_values[c]
    BY <1>2, <2>1 DEF Equations
  <2> QED
    BY <1>1, <1>5, <2>2 DEF Equations, Pivots, Columns
<1>a. Dependent(i)
  <2>1. PICK C \in SUBSET Pivots : SumOf(C, reduced_matrix, Columns) = keys[i]
    BY <1>4
  <2>2. \E T \in SUBSET (1 .. i - 1) :
          SumOf(T, keys, Columns) = SumOf(C, reduced_matrix, Columns)
    BY <1>2, <1>3, PivotSumsAreRowSums
  <2> QED
    BY <2>1, <2>2 DEF Dependent
<1>b. dropped' = {j \in 1 .. i : Dependent(j)}
  <2>1. 1 .. i = (1 .. i - 1) \cup {i}
    BY <1>3
  <2> QED
    BY <1>1, <1>2, <1>a, <2>1 DEF Accounted
<1>7. Accounted(i)'
  <2>1. IsFiniteSet(dropped)
    BY FinitePieces, Sizes DEF Banded, TypeOK
  <2>2. Cardinality(dropped') = Cardinality(dropped) + 1
    BY <1>1, <1>3, <2>1, FS_AddElement
  <2>3. Cardinality(Pivots) \in Nat /\ Cardinality(dropped) \in Nat
    BY <2>1, FinitePieces, FS_CardinalityType DEF Pivots
  <2>4. Cardinality(Pivots) + Cardinality(dropped') = i
    BY <1>2, <1>3, <2>2, <2>3 DEF Accounted
  <2> QED
    BY <1>1, <1>b, <2>4, DependentKept DEF Accounted, Pivots, Columns
<1> QED
  BY <1>1, <1>6, <1>7 DEF Spanned

LEMMA SpannedPlace == Banded /\ Spanned /\ Place => Spanned'
<1> SUFFICES ASSUME Banded, Spanned, Place PROVE Spanned'
  OBVIOUS
<1> DEFINE f == First(raw_band)
<1>1. /\ raw_band # {} /\ reduced_matrix[f] = {} /\ pc = "reduce"
      /\ pc' = "next" /\ i' = i /\ dropped' = dropped
      /\ reduced_matrix' = [reduced_matrix EXCEPT ![f] = raw_band]
      /\ reduced_values' = [reduced_values EXCEPT ![f] = value]
      /\ keys' = keys /\ values' = values
  BY DEF Place, input
<1>2. f \in Columns /\ raw_band \subseteq Columns /\ value \subseteq Bits
  <2>1. raw_band \subseteq Nat /\ raw_band \subseteq Columns
    BY Sizes DEF Banded, TypeOK, Columns
  <2> QED
    BY <1>1, <2>1, FirstIsLeast DEF Banded, TypeOK
<1> HIDE DEF f
<1>3. Equations(reduced_values, i - 1) /\ Accounted(i - 1) /\ Remainder
  BY <1>1 DEF Spanned
<1>4. i \in 1 .. n /\ i - 1 \in 0 .. n /\ i \notin dropped
  <2>1. i \in 1 .. n /\ i - 1 \in 0 .. n /\ i \notin 1 .. i - 1
    BY <1>1, Sizes DEF Banded
  <2>2. dropped = {j \in 1 .. i - 1 : Dependent(j)}
    BY <1>3 DEF Accounted
  <2> QED
    BY <2>1, <2>2
<1>5. /\ \A c \in Columns : c # f => /\ reduced_matrix'[c] = reduced_matrix[c]
                                    /\ reduced_values'[c] = reduced_values[c]
      /\ reduced_matrix'[f] = raw_band /\ reduced_values'[f] = value
  BY <1>1, <1>2 DEF Banded, TypeOK
<1>6. Pivots' = Pivots \cup {f} /\ f \notin Pivots
  <2>1. \A c \in Columns : c \in Pivots' <=> reduced_matrix'[c] # {}
    BY DEF Pivots, Columns
  <2>2. \A c : c \in Pivots' => c \in Columns
    BY DEF Pivots, Columns
  <2>3. \A c \in Columns : c \in Pivots <=> reduced_matrix[c] # {}
    BY DEF Pivots
  <2>4. Pivots \subseteq Columns
    BY DEF Pivots
  <2> QED
    BY <1>1, <1>2, <1>5, <2>1, <2>2, <2>3, <2>4
<1>7. \A C \in SUBSET Pivots :
        /\ SumOf(C, reduced_matrix', Columns) = SumOf(C, reduced_matrix, Columns)
        /\ SumOf(C, reduced_values', Bits) = SumOf(C, reduced_values, Bits)
  <2> SUFFICES ASSUME NEW C \in SUBSET Pivots
               PROVE  /\ SumOf(C, reduced_matrix', Columns)
                            = SumOf(C, reduced_matrix, Columns)
                      /\ SumOf(C, reduced_values', Bits)
                            = SumOf(C, reduced_values, Bits)
    OBVIOUS
  <2>1. \A c \in C : c \in Columns /\ c # f
    BY <1>6 DEF Pivots
  <2>2. \A c \in C : /\ reduced_matrix'[c] = reduced_matrix[c]
                     /\ reduced_values'[c] = reduced_values[c]
    BY <1>5, <2>1
  <2> QED
    BY <2>2, SumSame
<1>8. \E C \in SUBSET Pivots' :
        /\ SumOf(C, reduced_matrix', Columns) = keys[i]
        /\ SumOf(C, reduced_values', Bits) = values[i]
  <2>1. PICK C \in SUBSET Pivots :
          /\ Xor(SumOf(C, reduced_matrix, Columns), raw_band) = keys[i]
          /\ Xor(SumOf(C, reduced_values, Bits), value) = values[i]
    BY <1>3 DEF Remainder
  <2>2. IsFiniteSet(C) /\ f \notin C
    BY <1>6, FinitePieces DEF Pivots
  <2>3. reduced_matrix'[f] \subseteq Columns /\ reduced_values'[f] \subseteq Bits
    BY <1>2, <1>5
  <2>4. /\ SumOf(C \cup {f}, reduced_matrix', Columns)
             = Xor(SumOf(C, reduced_matrix', Columns), reduced_matrix'[f])
        /\ SumOf(C \cup {f}, reduced_values', Bits)
             = Xor(SumOf(C, reduced_values', Bits), reduced_values'[f])
    <3> DEFINE rows == reduced_matrix'
               sides == reduced_values'
    <3>1. rows[f] \subseteq Columns /\ sides[f] \subseteq Bits
      BY <2>3
    <3> HIDE DEF rows, sides
    <3>2. \A F, U : F[f] \subseteq U =>
            SumOf(C \cup {f}, F, U) = Xor(SumOf(C, F, U), F[f])
      BY <2>2, SumGrows
    <3>3. SumOf(C \cup {f}, rows, Columns)
            = Xor(SumOf(C, rows, Columns), rows[f])
      BY <3>1, <3>2
    <3>4. SumOf(C \cup {f}, sides, Bits) = Xor(SumOf(C, sides, Bits), sides[f])
      BY <3>1, <3>2
    <3> QED
      BY <3>3, <3>4 DEF rows, sides
  <2>5. /\ SumOf(C \cup {f}, reduced_matrix', Columns) = keys[i]
        /\ SumOf(C \cup {f}, reduced_values', Bits) = values[i]
    BY <1>5, <1>7, <2>1, <2>4
  <2> QED
    BY <1>6, <2>5
<1>9. ASSUME NEW j \in 1 .. i
      PROVE  \E C \in SUBSET Pivots' :
               /\ SumOf(C, reduced_matrix', Columns) = keys[j]
               /\ j \notin dropped => SumOf(C, reduced_values', Bits) = values[j]
  <2>1. CASE j = i
    BY <1>8, <2>1
  <2>2. CASE j # i
    <3>1. j \in 1 .. i - 1
      BY <1>4, <2>2
    <3>2. PICK C \in SUBSET Pivots :
            /\ SumOf(C, reduced_matrix, Columns) = keys[j]
            /\ j \notin dropped => SumOf(C, reduced_values, Bits) = values[j]
      BY <1>3, <3>1 DEF Equations
    <3> QED
      BY <1>6, <1>7, <3>2
  <2> QED
    BY <2>1, <2>2
<1>10. ASSUME NEW c \in Pivots'
       PROVE  \E S \in SUBSET (1 .. i) :
                /\ SumOf(S, keys, Columns) = reduced_matrix'[c]
                /\ SumOf(S, values, Bits) = reduced_values'[c]
  <2>1. CASE c = f
    BY <1>3, <1>5, <2>1 DEF Remainder
  <2>2. CASE c # f
    <3>1. c \in Pivots /\ c \in Columns
      BY <1>6, <2>2 DEF Pivots
    <3>2. \A S \in SUBSET (1 .. i - 1) : S \in SUBSET (1 .. i)
      BY <1>4
    <3>3. PICK S \in SUBSET (1 .. i - 1) :
            /\ SumOf(S, keys, Columns) = reduced_matrix[c]
            /\ SumOf(S, values, Bits) = reduced_values[c]
      BY <1>3, <3>1 DEF Equations
    <3> QED
      BY <1>5, <2>2, <3>1, <3>2, <3>3
  <2> QED
    BY <2>1, <2>2
<1>11. Equations(reduced_values, i)'
  BY <1>1, <1>9, <1>10 DEF Equations, Columns
<1>a. ~Dependent(i)
  <2> SUFFICES ASSUME Dependent(i) PROVE FALSE
    OBVIOUS
  <2>1. PICK S \in SUBSET (1 .. i - 1) : SumOf(S, keys, Columns) = keys[i]
    BY DEF Dependent
  <2>2. PICK D \in SUBSET Pivots :
          SumOf(D, reduced_matrix, Columns) = SumOf(S, keys, Columns)
    BY <1>3, <1>4, RowSumsArePivotSums
  <2>3. PICK C \in SUBSET Pivots :
          Xor(SumOf(C, reduced_matrix, Columns), raw_band) = keys[i]
    BY <1>3 DEF Remainder
  <2>4. SumOf(Xor(C, D), reduced_matrix, Columns)
          = Xor(SumOf(C, reduced_matrix, Columns),
                SumOf(D, reduced_matrix, Columns))
    BY FinitePieces, SumXor DEF Pivots
  <2>5. \A u, v : Xor(u, Xor(u, v)) = v
    BY DEF Xor
  <2>6. SumOf(Xor(C, D), reduced_matrix, Columns) = raw_band
    BY <2>1, <2>2, <2>3, <2>4, <2>5
  <2>7. Xor(C, D) \in SUBSET Pivots
    BY DEF Xor
  <2>8. Xor(C, D) # {}
    BY <1>1, <2>6, SumNone
  <2>9. First(raw_band) \in Pivots
    BY <2>6, <2>7, <2>8, SumBeginsAtFirst
  <2> QED
    BY <1>6, <2>9 DEF f
<1>b. dropped = {j \in 1 .. i : Dependent(j)}
  <2>1. 1 .. i = (1 .. i - 1) \cup {i}
    BY <1>4
  <2> QED
    BY <1>3, <1>a, <2>1 DEF Accounted
<1>12. Accounted(i)'
  <2>1. IsFiniteSet(Pivots) /\ IsFiniteSet(dropped)
    BY FinitePieces DEF Pivots, Banded, TypeOK
  <2>2. Cardinality(Pivots') = Cardinality(Pivots) + 1
    BY <1>6, <2>1, FS_AddElement
  <2>3. Cardinality(Pivots) \in Nat /\ Cardinality(dropped) \in Nat
    BY <2>1, FS_CardinalityType
  <2>4. Cardinality(Pivots') + Cardinality(dropped) = i
    BY <1>3, <1>4, <2>2, <2>3 DEF Accounted
  <2> QED
    BY <1>1, <1>b, <2>4, DependentKept DEF Accounted
<1> QED
  BY <1>1, <1>11, <1>12 DEF Spanned

LEMMA SpannedStartSolve == Banded /\ Spanned /\ StartSolve => Spanned'
<1> SUFFICES ASSUME Banded, Spanned, StartSolve PROVE Spanned'
  OBVIOUS
<1>1. /\ pc = "next" /\ i = n /\ i' = m /\ pc' = "solve"
      /\ keys' = keys /\ values' = values /\ dropped' = dropped
      /\ reduced_matrix' = reduced_matrix
      /\ reduced_values' = reduced_values
  BY DEF StartSolve, input
<1>2. Equations(reduced_values, n) /\ dropped = {j \in 1 .. n : Dependent(j)}
  BY <1>1 DEF Spanned, Accounted
<1>3. PICK rhs \in [Columns -> SUBSET Bits] : rhs = reduced_values
  BY DEF Banded, TypeOK
<1>4. Equations(rhs, n)
  BY <1>2, <1>3
<1>5. Equations(rhs, n)'
  BY <1>1, <1>4 DEF Equations, Pivots, Columns
<1>6. Solved(rhs)'
  BY <1>1, <1>3, Sizes DEF Solved, Pivots, Columns
<1>7. [Columns -> SUBSET Bits]' = [Columns -> SUBSET Bits]
  BY DEF Columns
<1>8. dropped' = {j \in 1 .. n : Dependent(j)'}
  BY <1>1, <1>2, DependentKept
<1> QED
  BY <1>1, <1>5, <1>6, <1>7, <1>8 DEF Spanned

(* Solving a slot: the equation of its pivot holds from now on, and those  *)
(* of the later slots, which do not mention it, still do.                  *)
LEMMA SpannedSolveSlot == Banded /\ Spanned /\ SolveSlot => Spanned'
<1> SUFFICES ASSUME Banded, Spanned, SolveSlot PROVE Spanned'
  OBVIOUS
<1> DEFINE k == i - 1
           row == reduced_matrix[k]
           old == reduced_values
           new == reduced_values'
<1>1. /\ pc = "solve" /\ i > 0 /\ i' = k /\ pc' = pc
      /\ reduced_values' =
           IF row = {} THEN reduced_values
           ELSE [reduced_values EXCEPT ![k] = SumOf(row, reduced_values, Bits)]
      /\ keys' = keys /\ values' = values /\ dropped' = dropped
      /\ reduced_matrix' = reduced_matrix
  BY DEF SolveSlot, input
<1>2. /\ i \in 1 .. m /\ k \in Columns /\ k \in Nat /\ k < i
      /\ old \in [Columns -> SUBSET Bits]
  BY <1>1, Sizes DEF Banded, TypeOK, Columns
<1>3. PICK rhs \in [Columns -> SUBSET Bits] : Equations(rhs, n) /\ Solved(rhs)
  BY <1>1 DEF Spanned
<1>4. ASSUME NEW c \in Pivots, c < k PROVE new[c] = rhs[c]
  <2>1. c < i /\ c # k /\ c \in Columns
    BY <1>2, <1>4 DEF Pivots, Columns
  <2>2. old[c] = rhs[c]
    BY <1>3, <2>1 DEF Solved
  <2>3. new[c] = old[c]
    BY <1>1, <1>2, <2>1
  <2> QED
    BY <2>2, <2>3
<1>5. ASSUME NEW c \in Pivots, c > k
      PROVE  SumOf(reduced_matrix[c], new, Bits) = rhs[c]
  <2>1. c \in Nat /\ c \in Columns /\ ~(c < i)
    BY <1>2, <1>5 DEF Pivots, Columns
  <2>2. SumOf(reduced_matrix[c], old, Bits) = rhs[c]
    BY <1>3, <2>1 DEF Solved
  <2>3. \A d \in reduced_matrix[c] : c <= d /\ d \in Columns
    BY <2>1 DEF Banded, TypeOK, Pivot, Pivots
  <2>4. \A d \in reduced_matrix[c] : d # k
    BY <1>2, <1>5, <2>1, <2>3 DEF Columns
  <2>5. \A d \in reduced_matrix[c] : old[d] = new[d]
    BY <1>1, <1>2, <2>3, <2>4
  <2> QED
    BY <2>2, <2>5, SumSame
<1>6. ASSUME k \in Pivots PROVE SumOf(row, new, Bits) = rhs[k]
  <2>1. old[k] = rhs[k] /\ row # {}
    BY <1>2, <1>3, <1>6 DEF Solved, Pivots
  <2>2. k \in row /\ row \subseteq Columns
    BY <1>2, <2>1 DEF Banded, TypeOK, Pivot
  <2> DEFINE rest == row \ {k}
  <2>3. IsFiniteSet(rest) /\ k \notin rest /\ row = rest \cup {k}
    BY <2>2, FinitePieces
  <2>4. /\ new[k] = SumOf(row, old, Bits)
        /\ \A d \in rest : old[d] = new[d]
    BY <1>1, <1>2, <2>1, <2>2
  <2>5. old[k] \subseteq Bits /\ new[k] \subseteq Bits
    BY <1>2, <2>4, SumInside
  <2> HIDE DEF rest, row, k, new
  <2>g. \A F, U : F[k] \subseteq U =>
          SumOf(row, F, U) = Xor(SumOf(rest, F, U), F[k])
    <3>1. \A F, U : F[k] \subseteq U =>
            SumOf(rest \cup {k}, F, U) = Xor(SumOf(rest, F, U), F[k])
      BY <2>3, SumGrows
    <3> QED
      BY <2>3, <3>1, Zenon
  <2>6. SumOf(row, old, Bits) = Xor(SumOf(rest, old, Bits), old[k])
    BY <2>5, <2>g
  <2>7. SumOf(row, new, Bits) = Xor(SumOf(rest, new, Bits), new[k])
    BY <2>5, <2>g
  <2>8. SumOf(rest, new, Bits) = SumOf(rest, old, Bits)
    BY <2>4, SumSame
  <2>9. \A u, v : Xor(u, Xor(u, v)) = v
    BY DEF Xor
  <2> QED
    BY <2>1, <2>4, <2>6, <2>7, <2>8, <2>9
<1>7. Solved(rhs)'
  <2> SUFFICES ASSUME NEW c \in Pivots
               PROVE  IF c < k THEN new[c] = rhs[c]
                      ELSE SumOf(reduced_matrix[c], new, Bits) = rhs[c]
    BY <1>1 DEF Solved, Pivots, Columns
  <2>1. c \in Nat
    BY Sizes DEF Pivots, Columns
  <2>2. c < k \/ c > k \/ c = k
    BY <1>2, <2>1
  <2>3. CASE c < k
    BY <1>4, <2>3
  <2>4. CASE c > k
    BY <1>2, <1>5, <2>1, <2>4
  <2>5. CASE c = k
    BY <1>2, <1>6, <2>5
  <2> QED
    BY <2>2, <2>3, <2>4, <2>5
<1>8. Equations(rhs, n)'
  BY <1>1, <1>3 DEF Equations, Pivots, Columns
<1>9. [Columns -> SUBSET Bits]' = [Columns -> SUBSET Bits]
  BY DEF Columns
<1>10. dropped' = {j \in 1 .. n : Dependent(j)'}
  BY <1>1, DependentKept DEF Spanned
<1> QED
  BY <1>1, <1>3, <1>7, <1>8, <1>9, <1>10 DEF Spanned

LEMMA SpannedStep == Banded /\ Spanned /\ [Next]_vars => Spanned'
<1> SUFFICES ASSUME Banded, Spanned, [Next]_vars PROVE Spanned'
  OBVIOUS
<1>1. CASE Finish
  <2>1. /\ pc = "solve" /\ i = 0 /\ pc' = "done" /\ i' = i
        /\ keys' = keys /\ values' = values /\ dropped' = dropped
        /\ reduced_matrix' = reduced_matrix
        /\ reduced_values' = reduced_values
    BY <1>1 DEF Finish, input
  <2>2. PICK rhs \in [Columns -> SUBSET Bits] : Equations(rhs, n) /\ Solved(rhs)
    BY <2>1 DEF Spanned
  <2>3. Equations(rhs, n)' /\ Solved(rhs)'
    BY <2>1, <2>2 DEF Equations, Solved, Pivots, Columns
  <2>4. [Columns -> SUBSET Bits]' = [Columns -> SUBSET Bits]
    BY DEF Columns
  <2>5. \E sides \in [Columns -> SUBSET Bits]' :
          Equations(sides, n)' /\ Solved(sides)'
    BY <2>3, <2>4, Zenon
  <2>6. pc' # "next" /\ pc' # "reduce" /\ i' = 0
    BY <2>1
  <2>7. dropped' = {j \in 1 .. n : Dependent(j)'}
    BY <2>1, DependentKept DEF Spanned
  <2> QED
    BY <2>5, <2>6, <2>7 DEF Spanned
<1>2. CASE UNCHANGED vars
  <2>1. /\ pc' = pc /\ i' = i /\ keys' = keys /\ values' = values
        /\ raw_band' = raw_band /\ value' = value /\ dropped' = dropped
        /\ reduced_matrix' = reduced_matrix
        /\ reduced_values' = reduced_values
    BY <1>2 DEF vars
  <2>2. Pivots' = Pivots /\ Columns' = Columns
    BY <2>1 DEF Pivots, Columns
  <2>3. \A k : Equations(reduced_values, k)' <=> Equations(reduced_values, k)
    BY <2>1, <2>2 DEF Equations
  <2>4. \A rhs, k : Equations(rhs, k)' <=> Equations(rhs, k)
    BY <2>1, <2>2 DEF Equations
  <2>5. \A rhs : Solved(rhs)' <=> Solved(rhs)
    BY <2>1, <2>2 DEF Solved
  <2>6. \A k : Accounted(k)' <=> Accounted(k)
    BY <2>1, <2>2, DependentKept DEF Accounted
  <2>7. Remainder' <=> Remainder
    BY <2>1, <2>2 DEF Remainder
  <2>8. {j \in 1 .. n : Dependent(j)'} = {j \in 1 .. n : Dependent(j)}
    BY <2>1, DependentKept
  <2> QED
    BY <2>1, <2>2, <2>3, <2>4, <2>5, <2>6, <2>7, <2>8 DEF Spanned
<1> QED
  BY <1>1, <1>2, SpannedTakeRow, SpannedReduce, SpannedDrop, SpannedPlace,
     SpannedStartSolve, SpannedSolveSlot DEF Next

LEMMA SpannedAlways == Spec => []Spanned
BY BandedAlways, SpannedInit, SpannedStep, PTL DEF Spec

(* Between two rows the pivots' equations imply those of the rows taken,   *)
(* but for a dropped row's value, and no row is unaccounted for: nothing   *)
(* is lost when ReduceToRowEchelon adds, shifts and drops rows.            *)
THEOREM RowsAlwaysSpanned == Spec => []RowsSpanned
<1>1. Spanned => RowsSpanned
  BY DEF Spanned, Equations, Accounted, RowsSpanned
<1> QED
  BY <1>1, SpannedAlways, PTL

----------------------------------------------------------------------------
(* In a solved table a sum of pivots decodes to the sum of their sides.    *)
LEMMA PivotSumsDecode ==
  ASSUME Banded, i = 0, NEW rhs, Solved(rhs), NEW C \in SUBSET Pivots
  PROVE  Decoded(SumOf(C, reduced_matrix, Columns)) = SumOf(C, rhs, Bits)
<1>1. /\ IsFiniteSet(C) /\ IsFiniteSet(Columns)
      /\ \A c \in C : reduced_matrix[c] \subseteq Columns
  BY FinitePieces DEF Pivots, Banded, TypeOK
<1>2. \A c \in C : SumOf(reduced_matrix[c], reduced_values, Bits) = rhs[c]
  <2> SUFFICES ASSUME NEW c \in C
               PROVE  SumOf(reduced_matrix[c], reduced_values, Bits) = rhs[c]
    OBVIOUS
  <2>1. c \in Pivots /\ ~(c < i)
    BY Sizes DEF Pivots, Columns
  <2> QED
    BY <2>1 DEF Solved
<1> QED
  BY <1>1, <1>2, SumLinear DEF Decoded

(* A table that decodes every row proves the equations consistent.         *)
LEMMA DecodedConsistent ==
  ASSUME Banded, \A j \in 1 .. n : Decoded(keys[j]) = values[j]
  PROVE  Consistent
<1>1. ASSUME NEW S, S \in SUBSET (1 .. n)
      PROVE  SumOf(SumOf(S, keys, Columns), reduced_values, Bits)
               = SumOf(S, values, Bits)
  <2>1. /\ IsFiniteSet(S) /\ IsFiniteSet(Columns)
        /\ \A j \in S : keys[j] \subseteq Columns
        /\ \A j \in S : SumOf(keys[j], reduced_values, Bits) = values[j]
    BY <1>1, FinitePieces DEF Banded, TypeOK, Decoded
  <2> QED
    BY <2>1, SumLinear
<1>2. SumOf({}, reduced_values, Bits) = {}
  BY SumNone
<1> QED
  BY <1>1, <1>2 DEF Consistent

(* If the equations are consistent, a row that is a sum of pivots has the  *)
(* sum of their sides as its value: the pivots are sums of rows, and with  *)
(* the row itself those rows add up to nothing.                            *)
LEMMA ConsistentSides ==
  ASSUME Banded, Consistent, NEW rhs, Equations(rhs, n),
         NEW j \in 1 .. n, NEW C \in SUBSET Pivots,
         SumOf(C, reduced_matrix, Columns) = keys[j]
  PROVE  SumOf(C, rhs, Bits) = values[j]
<1>1. PICK T \in SUBSET (1 .. n) :
        /\ SumOf(T, keys, Columns) = keys[j]
        /\ SumOf(T, values, Bits) = SumOf(C, rhs, Bits)
  <2>1. n \in 0 .. n
    BY Sizes
  <2> QED
    BY <2>1, PivotSumsAreRowSums
<1>2. IsFiniteSet(T) /\ IsFiniteSet({j})
  BY FinitePieces, FS_Singleton
<1>3. /\ SumOf({j}, keys, Columns) = keys[j]
      /\ SumOf({j}, values, Bits) = values[j]
  BY SumSingle DEF Banded, TypeOK
<1>4. /\ SumOf(Xor(T, {j}), keys, Columns) = Xor(keys[j], keys[j])
      /\ SumOf(Xor(T, {j}), values, Bits)
           = Xor(SumOf(C, rhs, Bits), values[j])
  BY <1>1, <1>2, <1>3, SumXor
<1>5. Xor(keys[j], keys[j]) = {} /\ Xor(T, {j}) \in SUBSET (1 .. n)
  BY DEF Xor
<1>6. Xor(SumOf(C, rhs, Bits), values[j]) = {}
  BY <1>4, <1>5 DEF Consistent
<1>7. \A u, v : Xor(u, v) = {} => u = v
  BY DEF Xor
<1> QED
  BY <1>6, <1>7

LEMMA DoneDecodes == Banded /\ Spanned => DecodesWhatItCan
<1> SUFFICES ASSUME Banded, Spanned, pc = "done"
             PROVE  /\ \A j \in (1 .. n) \ dropped :
                          Decoded(keys[j]) = values[j]
                    /\ (\A j \in 1 .. n : Decoded(keys[j]) = values[j])
                          <=> Consistent
  BY DEF DecodesWhatItCan
<1>1. PICK rhs : Equations(rhs, n) /\ Solved(rhs)
  BY DEF Spanned
<1>2. i = 0
  BY DEF Spanned
<1>3. ASSUME NEW j \in (1 .. n) \ dropped PROVE Decoded(keys[j]) = values[j]
  <2>1. PICK C \in SUBSET Pivots :
          /\ SumOf(C, reduced_matrix, Columns) = keys[j]
          /\ SumOf(C, rhs, Bits) = values[j]
    BY <1>1 DEF Equations
  <2>2. Decoded(SumOf(C, reduced_matrix, Columns)) = SumOf(C, rhs, Bits)
    BY <1>1, <1>2, PivotSumsDecode
  <2> QED
    BY <2>1, <2>2
<1>4. ASSUME Consistent, NEW j \in 1 .. n
      PROVE  Decoded(keys[j]) = values[j]
  <2>1. PICK C \in SUBSET Pivots : SumOf(C, reduced_matrix, Columns) = keys[j]
    BY <1>1 DEF Equations
  <2>2. Decoded(SumOf(C, reduced_matrix, Columns)) = SumOf(C, rhs, Bits)
    BY <1>1, <1>2, PivotSumsDecode
  <2>3. SumOf(C, rhs, Bits) = values[j]
    BY <1>1, <1>4, <2>1, ConsistentSides
  <2> QED
    BY <2>1, <2>2, <2>3
<1> QED
  BY <1>3, <1>4, DecodedConsistent

(* The finished table decodes every row that left a pivot to its value,    *)
(* and all rows exactly if the equations have a solution: Encode returns   *)
(* true in either case, which is why callers must check for themselves.    *)
THEOREM DecodesAlways == Spec => []DecodesWhatItCan
BY DoneDecodes, BandedAlways, SpannedAlways, PTL

(* A row leaves no pivot exactly if it is a sum of rows before it: which   *)
(* rows are dropped depends on the keys alone, not on the values encoded.  *)
THEOREM DroppedAreDependent ==
  Spec => [](pc = "done" =>
               dropped = {j \in 1 .. n :
                            \E S \in SUBSET (1 .. j - 1) :
                              SumOf(S, keys, Columns) = keys[j]})
<1>1. Spanned => (pc = "done" =>
                    dropped = {j \in 1 .. n :
                                 \E S \in SUBSET (1 .. j - 1) :
                                   SumOf(S, keys, Columns) = keys[j]})
  BY DEF Spanned, Dependent
<1> QED
  BY <1>1, SpannedAlways, PTL

=============================================================================
