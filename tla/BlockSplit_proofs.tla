------------------------- MODULE BlockSplit_proofs -------------------------
(***************************************************************************)
(* Cutting payloads into blocks, for every size of a payload, a block, a   *)
(* table and a band: what one block's encoder guarantees (BandOkvs_proofs) *)
(* adds up to the same guarantee about whole payloads.                     *)
(***************************************************************************)
EXTENDS BlockSplit, TLAPS

Encoder == INSTANCE BandOkvs_proofs

(* The model and its encoder's proofs speak of the same operators. *)
LEMMA SameSums == \A C, f, U : Encoder!SumOf(C, f, U) = Okvs!SumOf(C, f, U)
<1>1. \A S : Encoder!Cardinality(S) = Okvs!Cardinality(S)
  BY DEF Encoder!Cardinality, Okvs!Cardinality
<1> QED
  BY <1>1 DEF Encoder!SumOf, Okvs!SumOf

LEMMA Sizes == Encoder!BandOkvsAssumption
BY BlockSplitAssumption DEF Encoder!BandOkvsAssumption

LEMMA SumsOfSums ==
  ASSUME NEW S, Encoder!IsFiniteSet(S), NEW U, Encoder!IsFiniteSet(U),
         NEW f, \A c \in S : f[c] \subseteq U, NEW g, NEW B,
         NEW h, \A c \in S : Encoder!SumOf(f[c], g, B) = h[c]
  PROVE  Encoder!SumOf(Encoder!SumOf(S, f, U), g, B) = Encoder!SumOf(S, h, B)
BY Sizes, Encoder!SumLinear

LEMMA SameRows == /\ Encoder!Columns = Okvs!Columns
                  /\ Encoder!Bands = Okvs!Bands
BY DEF Encoder!Columns, Okvs!Columns, Encoder!Bands, Okvs!Bands,
       Encoder!BandsFrom, Okvs!BandsFrom, Encoder!r, Okvs!r

LEMMA SameSorted == \A rows : Encoder!Sorted(rows) <=> Okvs!Sorted(rows)
BY DEF Encoder!Sorted, Okvs!Sorted, Encoder!First, Okvs!First

LEMMA SameNext == Encoder!Next <=> Okvs!Next
BY SameSums, SameRows
   DEF Encoder!Next, Okvs!Next, Encoder!TakeRow, Okvs!TakeRow,
       Encoder!Reduce, Okvs!Reduce, Encoder!Drop, Okvs!Drop,
       Encoder!Place, Okvs!Place, Encoder!StartSolve, Okvs!StartSolve,
       Encoder!SolveSlot, Okvs!SolveSlot, Encoder!Finish, Okvs!Finish,
       Encoder!input, Okvs!input, Encoder!First, Okvs!First,
       Encoder!Xor, Okvs!Xor

----------------------------------------------------------------------------
(* A byte of a payload is in exactly one block, the one Decode looks in.   *)
Block(p) == p \div kBlockBytes

LEMMA BlockOfByte ==
  ASSUME NEW p \in Bytes
  PROVE  /\ Block(p) \in Nat /\ Block(p) < block_count
         /\ Offset(Block(p)) <= p
         /\ p < Offset(Block(p)) + BlockLen(Block(p))
         /\ p - Offset(Block(p)) \in 0 .. BlockLen(Block(p)) - 1
         /\ p - Offset(Block(p)) \in Bits
<1> DEFINE b == Block(p)
           base == b * kBlockBytes
<1>1. p \in Nat /\ p < payload_bytes /\ kBlockBytes \in Nat \ {0}
      /\ payload_bytes \in Nat
  BY BlockSplitAssumption DEF Bytes
<1>2. b \in Nat /\ base \in Nat /\ base <= p
  BY <1>1, SMT DEF Block
<1>3. p < base + kBlockBytes
  BY <1>1, SMT DEF Block
<1>4. b < block_count
  BY <1>1, SMT DEF Block, block_count
<1>5. p < base + BlockLen(b) /\ BlockLen(b) \in Nat /\ BlockLen(b) <= kBlockBytes
  <2> HIDE DEF b
  <2>1. base = Offset(b)
    BY DEF Offset
  <2> HIDE DEF base
  <2> QED
    BY <1>1, <1>2, <1>3, <2>1 DEF BlockLen
<1>6. base = Offset(b)
  BY DEF Offset
<1> HIDE DEF b, base
<1>7. p - base \in 0 .. BlockLen(b) - 1 /\ p - base \in Bits
  BY <1>1, <1>2, <1>5 DEF Bits
<1> QED
  BY <1>2, <1>4, <1>5, <1>6, <1>7 DEF b

(* BytesToBlock keeps a byte at its place in the block. *)
LEMMA ByteInBlock ==
  ASSUME NEW p \in Bytes, NEW payload
  PROVE  p - Offset(Block(p)) \in BytesToBlock(payload, Block(p))
           <=> p \in payload
<1> DEFINE base == Offset(Block(p))
           q == p - base
<1>1. base \in Nat /\ p \in Nat
  BY BlockOfByte, BlockSplitAssumption DEF Offset, Bytes
<1>2. q \in 0 .. BlockLen(Block(p)) - 1
  BY BlockOfByte
<1> HIDE DEF base
<1>3. base + q = p
  BY <1>1
<1> HIDE DEF q
<1>4. q \in BytesToBlock(payload, Block(p)) <=> base + q \in payload
  BY <1>2 DEF BytesToBlock, base
<1> QED
  BY <1>3, <1>4 DEF q, base

LEMMA BlocksCount ==
  /\ block_count \in Nat \ {0}
  /\ \A b \in Nat : b < block_count => Offset(b) < payload_bytes
<1>1. block_count \in Nat \ {0}
  BY BlockSplitAssumption, SMT DEF block_count
<1>2. ASSUME NEW b \in Nat, b < block_count PROVE b * kBlockBytes < payload_bytes
  <2>1. (b + 1) * kBlockBytes <= block_count * kBlockBytes
    BY <1>1, <1>2, BlockSplitAssumption, SMT
  <2>2. block_count * kBlockBytes <= payload_bytes + kBlockBytes - 1
    BY BlockSplitAssumption, SMT DEF block_count
  <2>3. (b + 1) * kBlockBytes = b * kBlockBytes + kBlockBytes
    BY BlockSplitAssumption, SMT
  <2>4. b * kBlockBytes \in Nat
    BY BlockSplitAssumption, SMT
  <2> DEFINE base == b * kBlockBytes
             all == block_count * kBlockBytes
             upto == (b + 1) * kBlockBytes
  <2>5. base \in Nat /\ upto = base + kBlockBytes /\ upto <= all
        /\ all <= payload_bytes + kBlockBytes - 1 /\ all \in Nat
    BY <1>1, <2>1, <2>2, <2>3, <2>4, BlockSplitAssumption
  <2> HIDE DEF base, all, upto
  <2>6. base < payload_bytes
    BY <2>5, BlockSplitAssumption
  <2> QED
    BY <2>6 DEF base
<1> QED
  BY <1>1, <1>2 DEF Offset

(* What a block's encoder is given fits its values. *)
LEMMA BlockValues ==
  ASSUME NEW b \in Nat, b < block_count, NEW payload
  PROVE  BytesToBlock(payload, b) \subseteq Bits
<1>1. Offset(b) \in Nat /\ Offset(b) < payload_bytes
  BY BlocksCount, BlockSplitAssumption DEF Offset
<1>2. BlockLen(b) \in Nat /\ BlockLen(b) <= kBlockBytes
  BY <1>1, BlockSplitAssumption DEF BlockLen
<1> QED
  BY <1>2, BlockSplitAssumption DEF BytesToBlock, Bits

----------------------------------------------------------------------------
(* Inductive: the running encoder keeps its own invariant and encodes the  *)
(* current block's values; every finished table decodes, for its block,    *)
(* the independent rows, and all rows if that block's equations allow it.  *)
ValuesOf(b) == [k \in 1 .. n |-> BytesToBlock(payloads[k], b)]

Solvable(b) ==
  \A S \in SUBSET (1 .. n) :
    Okvs!SumOf(S, keys, Okvs!Columns) = {}
      => Okvs!SumOf(S, ValuesOf(b), Bits) = {}

Gives(table, j, b) == DecodedFrom(table, keys[j]) = ValuesOf(b)[j]

TableGood(table, b) ==
  /\ \A j \in 1 .. n : ~Encoder!Dependent(j) => Gives(table, j, b)
  /\ Solvable(b) => \A j \in 1 .. n : Gives(table, j, b)

Output(row) ==
  {p \in Bytes :
     LET b == p \div kBlockBytes
     IN /\ b < block_count
        /\ p \in BlockToBytes(DecodedFrom(tables[b + 1], row), b, {})}

SplitKept ==
  /\ keys \in [1 .. n -> Okvs!Bands]
  /\ payloads \in [1 .. n -> SUBSET Bytes]
  /\ stage \in {"encode", "send", "decode", "done"}
  /\ tables \in Seq([Okvs!Columns -> SUBSET Bits])
  /\ \A b \in 0 .. Len(tables) - 1 : TableGood(tables[b + 1], b)
  /\ stage = "encode" =>
       /\ Encoder!Banded /\ Encoder!Spanned
       /\ values = ValuesOf(Current) /\ Current < block_count
       /\ Okvs!Sorted(keys)
  /\ stage # "encode" =>
       /\ dropped = {j \in 1 .. n : Encoder!Dependent(j)}
       /\ Len(tables) = block_count
  /\ stage \in {"decode", "done"} => received = tables
  /\ stage = "done" => payloads_out = [row \in Okvs!Bands |-> Output(row)]

(* A fresh encoder of the same keys satisfies the encoder's invariant.     *)
LEMMA FreshEncoder == Encoder!Init => Encoder!Banded /\ Encoder!Spanned
BY Sizes, Encoder!BandedInit, Encoder!SpannedInit

LEMMA FreshEncoderNext == Encoder!Init' => Encoder!Banded' /\ Encoder!Spanned'
BY FreshEncoder, PTL

LEMMA ValuesFit ==
  ASSUME payloads \in [1 .. n -> SUBSET Bytes],
         NEW b \in Nat, b < block_count
  PROVE  ValuesOf(b) \in [1 .. n -> SUBSET Bits]
BY BlockValues DEF ValuesOf

LEMMA SplitInit == Init => SplitKept
<1> SUFFICES ASSUME Init PROVE SplitKept
  OBVIOUS
<1>1. /\ keys \in [1 .. n -> Okvs!Bands] /\ Okvs!Sorted(keys)
      /\ payloads \in [1 .. n -> SUBSET Bytes]
      /\ values = ValuesOf(0) /\ tables = <<>> /\ stage = "encode"
  BY DEF Init, ValuesOf
<1>2. 0 < block_count /\ Len(tables) = 0 /\ Current = 0
  BY <1>1, BlocksCount DEF Current
<1>3. values \in [1 .. n -> SUBSET Bits]
  BY <1>1, <1>2, ValuesFit
<1>4. Encoder!Init
  BY <1>1, <1>3, SameRows, SameSorted DEF Init, Encoder!Init
<1> QED
  BY <1>1, <1>2, <1>4, FreshEncoder DEF SplitKept

LEMMA EncoderInput == Encoder!Next => keys' = keys /\ values' = values
BY DEF Encoder!Next, Encoder!TakeRow, Encoder!Reduce, Encoder!Drop,
       Encoder!Place, Encoder!StartSolve, Encoder!SolveSlot, Encoder!Finish,
       Encoder!input

LEMMA TableGoodKept ==
  ASSUME keys' = keys, payloads' = payloads
  PROVE  /\ \A t, b : TableGood(t, b)' <=> TableGood(t, b)
         /\ \A b : ValuesOf(b)' = ValuesOf(b)
         /\ \A j : Encoder!Dependent(j)' <=> Encoder!Dependent(j)
<1>1. \A b : ValuesOf(b)' = ValuesOf(b)
  BY DEF ValuesOf, BytesToBlock, BlockLen, Offset
<1>2. \A j : Encoder!Dependent(j)' <=> Encoder!Dependent(j)
  BY Encoder!DependentKept, Sizes
<1>3. \A b : Solvable(b)' <=> Solvable(b)
  BY <1>1 DEF Solvable, Bits, Okvs!Columns
<1>4. \A t, j, b : Gives(t, j, b)' <=> Gives(t, j, b)
  BY <1>1 DEF Gives, DecodedFrom, Bits
<1> QED
  BY <1>1, <1>2, <1>3, <1>4 DEF TableGood

(* A finished encoder's table is as good as its block allows. *)
LEMMA FinishedTable ==
  ASSUME SplitKept, stage = "encode", pc = "done"
  PROVE  /\ TableGood(reduced_values, Current)
         /\ reduced_values \in [Okvs!Columns -> SUBSET Bits]
         /\ dropped = {j \in 1 .. n : Encoder!Dependent(j)}
<1>1. Encoder!Banded /\ Encoder!Spanned /\ values = ValuesOf(Current)
  BY DEF SplitKept
<1>2. Encoder!DecodesWhatItCan
  BY <1>1, Sizes, Encoder!DoneDecodes
<1>3. reduced_values \in [Okvs!Columns -> SUBSET Bits]
  BY <1>1, SameRows DEF Encoder!Banded, Encoder!TypeOK
<1>4. dropped = {j \in 1 .. n : Encoder!Dependent(j)}
  BY <1>1 DEF Encoder!Spanned
<1>5. \A j : Gives(reduced_values, j, Current)
               <=> Encoder!Decoded(keys[j]) = values[j]
  BY <1>1, SameSums DEF Gives, DecodedFrom, Encoder!Decoded
<1>6. Solvable(Current) <=> Encoder!Consistent
  BY <1>1, SameSums, SameRows DEF Solvable, Encoder!Consistent
<1> HIDE DEF Current
<1>7. \A j \in 1 .. n : ~Encoder!Dependent(j)
                          => Gives(reduced_values, j, Current)
  BY <1>2, <1>4, <1>5 DEF Encoder!DecodesWhatItCan
<1>8. Solvable(Current) => \A j \in 1 .. n : Gives(reduced_values, j, Current)
  BY <1>2, <1>5, <1>6 DEF Encoder!DecodesWhatItCan
<1> QED
  BY <1>3, <1>4, <1>7, <1>8 DEF TableGood

(* Another good table of the right type. *)
LEMMA OneMoreTable ==
  ASSUME SplitKept, stage = "encode", pc = "done",
         keys' = keys, payloads' = payloads,
         tables' = Append(tables, reduced_values)
  PROVE  /\ tables' \in Seq([Okvs!Columns -> SUBSET Bits])
         /\ Len(tables') = Current + 1
         /\ \A b \in 0 .. Len(tables') - 1 : TableGood(tables[b + 1], b)'
<1> DEFINE T == [Okvs!Columns -> SUBSET Bits]
<1>1. tables \in Seq(T) /\ reduced_values \in T
  BY FinishedTable DEF SplitKept
<1> HIDE DEF T
<1>2. /\ tables' \in Seq(T) /\ Len(tables') = Current + 1 /\ Current \in Nat
      /\ \A k \in 1 .. Current : tables'[k] = tables[k]
      /\ tables'[Current + 1] = reduced_values
  BY <1>1 DEF Current
<1>3. ASSUME NEW b \in 0 .. Len(tables') - 1 PROVE TableGood(tables'[b + 1], b)
  <2>1. CASE b = Current
    BY <1>2, <2>1, FinishedTable
  <2>2. CASE b # Current
    <3>1. b \in 0 .. Len(tables) - 1 /\ b + 1 \in 1 .. Current
      BY <1>2, <2>2 DEF Current
    <3> QED
      BY <1>2, <3>1 DEF SplitKept
  <2> QED
    BY <2>1, <2>2
<1>4. \A b \in 0 .. Len(tables') - 1 : TableGood(tables[b + 1], b)'
  BY <1>3, TableGoodKept
<1> QED
  BY <1>2, <1>4 DEF T

LEMMA SplitStep == SplitKept /\ [Next]_vars => SplitKept'
<1> SUFFICES ASSUME SplitKept, [Next]_vars PROVE SplitKept'
  OBVIOUS
<1>1. CASE EncodeBlock
  <2>1. /\ stage = "encode" /\ stage' = stage /\ payloads' = payloads
        /\ tables' = tables /\ Encoder!Next
    BY <1>1, SameNext DEF EncodeBlock, adapter
  <2>2. keys' = keys /\ values' = values
    BY <2>1, EncoderInput
  <2>3. Encoder!Banded' /\ Encoder!Spanned'
    BY <2>1, Sizes, Encoder!BandedStep, Encoder!SpannedStep DEF SplitKept
  <2>4. \A b \in 0 .. Len(tables) - 1 : TableGood(tables[b + 1], b)'
    BY <2>1, <2>2, TableGoodKept DEF SplitKept
  <2>5. values' = ValuesOf(Current)' /\ Current' < block_count
    BY <2>1, <2>2, TableGoodKept DEF SplitKept, Current, ValuesOf
  <2> QED
    BY <2>1, <2>2, <2>3, <2>4, <2>5
       DEF SplitKept, TableGood, Gives, DecodedFrom, Okvs!Sorted, Bytes, Bits,
           Okvs!Bands, Okvs!Columns
<1>2. CASE NextBlock
  <2>1. /\ stage = "encode" /\ stage' = stage /\ pc = "done"
        /\ Current + 1 < block_count
        /\ payloads' = payloads /\ keys' = keys
        /\ tables' = Append(tables, reduced_values)
        /\ values' = ValuesOf(Current + 1)
        /\ pc' = "next" /\ i' = 0 /\ raw_band' = {} /\ value' = {}
        /\ reduced_matrix' = [c \in Okvs!Columns |-> {}]
        /\ reduced_values' = [c \in Okvs!Columns |-> {}] /\ dropped' = {}
    BY <1>2 DEF NextBlock, ValuesOf
  <2>2. /\ tables' \in Seq([Okvs!Columns -> SUBSET Bits])
        /\ Len(tables') = Current + 1
        /\ \A b \in 0 .. Len(tables') - 1 : TableGood(tables[b + 1], b)'
    BY <2>1, OneMoreTable
  <2>3. Current' = Current + 1 /\ Current' < block_count /\ Current + 1 \in Nat
    BY <2>1, <2>2 DEF Current, SplitKept
  <2>4. values' = ValuesOf(Current)'
    <3>1. \A b : ValuesOf(b)' = ValuesOf(b)
      BY <2>1, TableGoodKept
    <3> QED
      BY <2>1, <2>3, <3>1 DEF ValuesOf
  <2>5. values' \in [1 .. n -> SUBSET Bits]
    BY <2>1, <2>3, ValuesFit DEF SplitKept
  <2>6. Encoder!Init'
    <3>1. keys \in [1 .. n -> Encoder!Bands] /\ Encoder!Sorted(keys)
      BY <2>1, SameRows, SameSorted DEF SplitKept
    <3>2. (Encoder!Bands' = Encoder!Bands) /\ Encoder!Columns' = Encoder!Columns
      BY DEF Encoder!Bands, Encoder!BandsFrom, Encoder!r, Encoder!Columns
    <3>3. Encoder!Sorted(keys)'
      BY <2>1, <3>1 DEF Encoder!Sorted, Encoder!First
    <3> QED
      BY <2>1, <2>5, <3>1, <3>2, <3>3, SameRows DEF Encoder!Init
  <2>7. Encoder!Banded' /\ Encoder!Spanned'
    BY <2>6, FreshEncoderNext
  <2> QED
    BY <2>1, <2>2, <2>3, <2>4, <2>7 DEF SplitKept
<1>3. CASE LastBlock
  <2>1. /\ stage = "encode" /\ stage' = "send" /\ pc = "done"
        /\ Current + 1 = block_count
        /\ payloads' = payloads /\ keys' = keys /\ dropped' = dropped
        /\ tables' = Append(tables, reduced_values)
    BY <1>3 DEF LastBlock, encoder
  <2>2. /\ tables' \in Seq([Okvs!Columns -> SUBSET Bits])
        /\ Len(tables') = Current + 1
        /\ \A b \in 0 .. Len(tables') - 1 : TableGood(tables[b + 1], b)'
    BY <2>1, OneMoreTable
  <2>3. dropped' = {j \in 1 .. n : Encoder!Dependent(j)'}
    BY <2>1, FinishedTable, TableGoodKept
  <2> QED
    BY <2>1, <2>2, <2>3 DEF SplitKept
<1>4. CASE SetTables
  <2>1. /\ stage = "send" /\ stage' = "decode" /\ received' = tables
        /\ payloads' = payloads /\ keys' = keys /\ dropped' = dropped
        /\ tables' = tables
    BY <1>4 DEF SetTables, encoder
  <2> QED
    BY <2>1, TableGoodKept DEF SplitKept
<1>5. CASE Decode
  <2>1. /\ stage = "decode" /\ stage' = "done" /\ received' = received
        /\ payloads' = payloads /\ keys' = keys /\ dropped' = dropped
        /\ tables' = tables /\ received = tables
    BY <1>5 DEF Decode, encoder, SplitKept
  <2>2. payloads_out' = [row \in Okvs!Bands |-> Output(row)]
    BY <1>5, <2>1 DEF Decode, Output
  <2> QED
    BY <2>1, <2>2, TableGoodKept DEF SplitKept, Output
<1>6. CASE UNCHANGED vars
  <2>1. /\ UNCHANGED encoder /\ UNCHANGED adapter /\ keys' = keys
        /\ payloads' = payloads
    BY <1>6 DEF vars, encoder, adapter
  <2>2. UNCHANGED Encoder!vars
    BY <2>1 DEF Encoder!vars, encoder
  <2>3. stage = "encode" => Encoder!Banded' /\ Encoder!Spanned'
    BY <2>2, Sizes, Encoder!BandedStep, Encoder!SpannedStep DEF SplitKept
  <2> QED
    BY <2>1, <2>3, TableGoodKept DEF SplitKept, encoder, adapter, Output, Current
<1> QED
  BY <1>1, <1>2, <1>3, <1>4, <1>5, <1>6 DEF Next

LEMMA SplitAlways == Spec => []SplitKept
BY SplitInit, SplitStep, PTL DEF Spec

----------------------------------------------------------------------------
(* What Decode writes for a byte is the bit the table of its block gives.  *)
LEMMA ByteOut ==
  ASSUME SplitKept, stage = "done", NEW row \in Okvs!Bands, NEW p \in Bytes
  PROVE  p \in payloads_out[row]
           <=> p - Offset(Block(p)) \in DecodedFrom(tables[Block(p) + 1], row)
<1>1. payloads_out[row] = Output(row)
  BY DEF SplitKept
<1> DEFINE b == Block(p)
<1>2. /\ b < block_count /\ Offset(b) <= p /\ p < Offset(b) + BlockLen(b)
  BY BlockOfByte
<1>3. p \in Output(row)
        <=> /\ b < block_count
            /\ p \in BlockToBytes(DecodedFrom(tables[b + 1], row), b, {})
  BY DEF Output, Block
<1> HIDE DEF b
<1> QED
  BY <1>1, <1>2, <1>3 DEF BlockToBytes, b

(* The table of a byte's block is there, and good. *)
LEMMA BlockTable ==
  ASSUME SplitKept, stage = "done", NEW p \in Bytes
  PROVE  TableGood(tables[Block(p) + 1], Block(p))
<1>1. Block(p) \in 0 .. Len(tables) - 1
  BY BlockOfByte, BlocksCount DEF SplitKept
<1> QED
  BY <1>1 DEF SplitKept

(* A row decodes to a payload if the table of every block gives its part.  *)
LEMMA WholePayload ==
  ASSUME SplitKept, stage = "done", NEW j \in 1 .. n,
         \A p \in Bytes : Gives(tables[Block(p) + 1], j, Block(p))
  PROVE  payloads_out[keys[j]] = payloads[j]
<1>1. /\ keys[j] \in Okvs!Bands /\ payloads[j] \subseteq Bytes
      /\ payloads_out[keys[j]] \subseteq Bytes
  BY DEF SplitKept, Output
<1>2. ASSUME NEW p \in Bytes
      PROVE  p \in payloads_out[keys[j]] <=> p \in payloads[j]
  <2>1. p \in payloads_out[keys[j]]
          <=> p - Offset(Block(p)) \in BytesToBlock(payloads[j], Block(p))
    BY <1>1, ByteOut DEF Gives, ValuesOf
  <2> QED
    BY <2>1, ByteInBlock
<1> QED
  BY <1>1, <1>2

(* A key whose row the encoders kept decodes to its whole payload.         *)
THEOREM KeptRowsAlwaysWhole == Spec => []KeptRowsWhole
<1>1. SplitKept => KeptRowsWhole
  <2> SUFFICES ASSUME SplitKept, stage = "done", NEW k \in (1 .. n) \ dropped
               PROVE  payloads_out[keys[k]] = payloads[k]
    BY DEF KeptRowsWhole
  <2>1. ~Encoder!Dependent(k)
    BY DEF SplitKept
  <2>2. \A p \in Bytes : Gives(tables[Block(p) + 1], k, Block(p))
    BY <2>1, BlockTable DEF TableGood
  <2> QED
    BY <2>2, WholePayload
<1> QED
  BY <1>1, SplitAlways, PTL

(* One byte of what a sum of rows decodes to is the sum of the payloads'   *)
(* bytes, if each of the rows decodes to its payload's byte.               *)
LEMMA ByteOfSum ==
  ASSUME SplitKept, stage = "done", NEW p \in Bytes
  PROVE  \A S \in SUBSET (1 .. n) :
           (\A j \in S : p \in payloads_out[keys[j]] <=> p \in payloads[j])
             => (p - Offset(Block(p)) \in
                   DecodedFrom(tables[Block(p) + 1],
                               Okvs!SumOf(S, keys, Okvs!Columns))
                 <=> p \in Okvs!SumOf(S, payloads, Bytes))
<1> DEFINE q == p - Offset(Block(p))
           t == tables[Block(p) + 1]
           h == [j \in 1 .. n |-> Okvs!SumOf(keys[j], t, {q})]
<1>1. q \in Bits
  BY BlockOfByte
<1>2. \A row : q \in Okvs!SumOf(row, t, {q}) <=> q \in DecodedFrom(t, row)
  BY <1>1 DEF Okvs!SumOf, DecodedFrom
<1>3. ASSUME NEW j \in 1 .. n
      PROVE  q \in h[j] <=> p \in payloads_out[keys[j]]
  <2>1. keys[j] \in Okvs!Bands
    BY DEF SplitKept
  <2>2. p \in payloads_out[keys[j]] <=> q \in DecodedFrom(t, keys[j])
    BY <2>1, ByteOut
  <2> HIDE DEF q, t
  <2> QED
    BY <1>2, <2>2
<1> HIDE DEF q, t
<1>4. ASSUME NEW S, S \in SUBSET (1 .. n)
      PROVE  Okvs!SumOf(Okvs!SumOf(S, keys, Okvs!Columns), t, {q})
               = Okvs!SumOf(S, h, {q})
  <2>1. /\ Encoder!IsFiniteSet(S) /\ Encoder!IsFiniteSet(Encoder!Columns)
        /\ \A j \in S : keys[j] \subseteq Encoder!Columns
    <3>1. \A j \in S : keys[j] \in Encoder!Bands
      BY <1>4, SameRows DEF SplitKept
    <3>2. \A j \in S : keys[j] \subseteq Encoder!Columns
      BY <3>1, Sizes, Encoder!BandsAreRows
    <3> QED
      BY <1>4, <3>2, Sizes, Encoder!FinitePieces
  <2>2. \A j \in S : Encoder!SumOf(keys[j], t, {q}) = h[j]
    BY <1>4, SameSums
  <2> HIDE DEF h
  <2>3. ASSUME NEW B, \A j \in S : Encoder!SumOf(keys[j], t, B) = h[j]
        PROVE  Encoder!SumOf(Encoder!SumOf(S, keys, Encoder!Columns), t, B)
                 = Encoder!SumOf(S, h, B)
    BY <2>1, <2>3, SumsOfSums
  <2>4. Encoder!SumOf(Encoder!SumOf(S, keys, Encoder!Columns), t, {q})
          = Encoder!SumOf(S, h, {q})
    BY <2>2, <2>3
  <2> QED
    BY <2>4, SameSums, SameRows
<1> HIDE DEF h
<1> SUFFICES ASSUME NEW S \in SUBSET (1 .. n),
                    \A j \in S : p \in payloads_out[keys[j]]
                                 <=> p \in payloads[j]
             PROVE  q \in DecodedFrom(t, Okvs!SumOf(S, keys, Okvs!Columns))
                      <=> p \in Okvs!SumOf(S, payloads, Bytes)
  BY DEF q, t
<1>5. {j \in S : q \in h[j]} = {j \in S : p \in payloads[j]}
  BY <1>3
<1>6. q \in Okvs!SumOf(S, h, {q}) <=> p \in Okvs!SumOf(S, payloads, Bytes)
  BY <1>5 DEF Okvs!SumOf
<1> QED
  BY <1>2, <1>4, <1>6

(* A row that is a sum of kept rows decodes to the sum of their payloads,  *)
(* in every block by the same rows.                                        *)
THEOREM AlwaysLinear == Spec => []LinearAcrossBlocks
<1>1. SplitKept /\ KeptRowsWhole => LinearAcrossBlocks
  <2> SUFFICES ASSUME SplitKept, KeptRowsWhole, stage = "done",
                      NEW C \in SUBSET ((1 .. n) \ dropped),
                      Okvs!SumOf(C, keys, Okvs!Columns) \in Okvs!Bands
               PROVE  payloads_out[Okvs!SumOf(C, keys, Okvs!Columns)]
                        = Okvs!SumOf(C, payloads, Bytes)
    BY DEF LinearAcrossBlocks
  <2> DEFINE row == Okvs!SumOf(C, keys, Okvs!Columns)
  <2>1. \A j \in C : payloads_out[keys[j]] = payloads[j]
    BY DEF KeptRowsWhole
  <2>2. C \in SUBSET (1 .. n)
    OBVIOUS
  <2>3. ASSUME NEW p \in Bytes
        PROVE  p \in payloads_out[row] <=> p \in Okvs!SumOf(C, payloads, Bytes)
    <3>1. p - Offset(Block(p)) \in DecodedFrom(tables[Block(p) + 1], row)
            <=> p \in Okvs!SumOf(C, payloads, Bytes)
      BY <2>1, <2>2, ByteOfSum
    <3>2. p \in payloads_out[row]
            <=> p - Offset(Block(p)) \in DecodedFrom(tables[Block(p) + 1], row)
      BY ByteOut
    <3> QED
      BY <3>1, <3>2
  <2>4. payloads_out[row] \subseteq Bytes
    BY DEF SplitKept, Output
  <2>5. Okvs!SumOf(C, payloads, Bytes) \subseteq Bytes
    BY DEF Okvs!SumOf
  <2> QED
    BY <2>3, <2>4, <2>5
<1> QED
  BY <1>1, SplitAlways, KeptRowsAlwaysWhole, PTL

LEMMA NoSlotsNoBits ==
  ASSUME NEW t
  PROVE  DecodedFrom(t, {}) = {}
<1>1. Encoder!SumOf({}, t, Bits) = {}
  BY Sizes, Encoder!SumNone
<1> QED
  BY <1>1, SameSums DEF DecodedFrom

(* If rows that add up to nothing have payloads that do, so have they in   *)
(* every block.                                                            *)
LEMMA SolvableEverywhere ==
  ASSUME SplitKept,
         \A S \in SUBSET (1 .. n) :
           Okvs!SumOf(S, keys, Okvs!Columns) = {}
             => Okvs!SumOf(S, payloads, Bytes) = {},
         NEW b \in Nat
  PROVE  Solvable(b)
<1> SUFFICES ASSUME NEW S \in SUBSET (1 .. n), NEW q \in Bits,
                    Okvs!SumOf(S, payloads, Bytes) = {}
             PROVE  q \notin Okvs!SumOf(S, ValuesOf(b), Bits)
  BY DEF Solvable, Okvs!SumOf
<1> DEFINE p == Offset(b) + q
           InBlock == {j \in S : q \in ValuesOf(b)[j]}
           InPayload == {j \in S : p \in payloads[j]}
<1>1. q \in Okvs!SumOf(S, ValuesOf(b), Bits)
        <=> Okvs!Cardinality(InBlock) % 2 = 1
  BY DEF Okvs!SumOf
<1>2. \A j \in S : q \in ValuesOf(b)[j]
                     <=> q \in 0 .. BlockLen(b) - 1 /\ p \in payloads[j]
  BY DEF ValuesOf, BytesToBlock
<1>3. CASE q \in 0 .. BlockLen(b) - 1 /\ p \in Bytes
  <2>1. InBlock = InPayload
    BY <1>2, <1>3
  <2>2. Okvs!Cardinality(InPayload) % 2 # 1
    BY <1>3 DEF Okvs!SumOf
  <2> HIDE DEF InBlock, InPayload
  <2> QED
    BY <1>1, <2>1, <2>2
<1>4. CASE ~(q \in 0 .. BlockLen(b) - 1 /\ p \in Bytes)
  <2>1. InBlock = {}
    BY <1>2, <1>4 DEF SplitKept
  <2>2. Okvs!SumOf({}, ValuesOf(b), Bits) = {}
    BY Sizes, SameSums, Encoder!SumNone
  <2>3. {j \in {} : q \in ValuesOf(b)[j]} = {}
    OBVIOUS
  <2>4. Okvs!Cardinality({}) % 2 # 1
    BY <2>2, <2>3 DEF Okvs!SumOf
  <2> HIDE DEF InBlock
  <2> QED
    BY <1>1, <2>1, <2>4
<1> QED
  BY <1>3, <1>4

(* A self-check over whole payloads passes exactly if the equations of all *)
(* blocks together have a solution.                                        *)
THEOREM SelfCheckAlwaysSound == Spec => []SelfCheckSound
<1> DEFINE Whole == \A k \in 1 .. n : payloads_out[keys[k]] = payloads[k]
           Common == \A S \in SUBSET (1 .. n) :
                       Okvs!SumOf(S, keys, Okvs!Columns) = {}
                         => Okvs!SumOf(S, payloads, Bytes) = {}
<1>1. ASSUME SplitKept, stage = "done", Whole PROVE Common
  <2> SUFFICES ASSUME NEW S \in SUBSET (1 .. n), NEW p \in Bytes,
                      Okvs!SumOf(S, keys, Okvs!Columns) = {}
               PROVE  p \notin Okvs!SumOf(S, payloads, Bytes)
    BY DEF Okvs!SumOf
  <2>1. \A j \in S : p \in payloads_out[keys[j]] <=> p \in payloads[j]
    BY <1>1
  <2>2. p - Offset(Block(p)) \in DecodedFrom(tables[Block(p) + 1], {})
          <=> p \in Okvs!SumOf(S, payloads, Bytes)
    BY <1>1, <2>1, ByteOfSum
  <2> QED
    BY <2>2, NoSlotsNoBits
<1>2. ASSUME SplitKept, stage = "done", Common PROVE Whole
  <2> SUFFICES ASSUME NEW k \in 1 .. n
               PROVE  payloads_out[keys[k]] = payloads[k]
    OBVIOUS
  <2>1. ASSUME NEW p \in Bytes
        PROVE  Gives(tables[Block(p) + 1], k, Block(p))
    <3>1. Block(p) \in Nat
      BY BlockOfByte
    <3>2. Solvable(Block(p))
      BY <1>2, <3>1, SolvableEverywhere
    <3> QED
      BY <1>2, <3>2, BlockTable DEF TableGood
  <2> QED
    BY <1>2, <2>1, WholePayload
<1>3. SplitKept => SelfCheckSound
  BY <1>1, <1>2 DEF SelfCheckSound
<1> QED
  BY <1>3, SplitAlways, PTL

=============================================================================
