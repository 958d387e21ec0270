----------------------------- MODULE BlockSplit -----------------------------
(***************************************************************************)
(* BlockSplitOkvs: a payload of payload_bytes bytes is cut into blocks of  *)
(* kBlockBytes, every block is encoded in a band OKVS of its own, all over *)
(* the same keys, and decoding puts the blocks together again.             *)
(*                                                                         *)
(* The encoder of the current block is module BandOkvs, step by step.  A   *)
(* byte is one bit, a payload the set of its non-zero byte positions.  P1  *)
(* encodes; P0 gets the tables by SetTables on an object of its own and    *)
(* may ask for the row of any key, whether P1 encoded it or not.           *)
(***************************************************************************)
EXTENDS Integers, Sequences, FiniteSets

CONSTANTS
  n, m, w,         (* keys, table slots, band length                       *)
  kBlockBytes,     (* bytes of a block: 16                                 *)
  payload_bytes    (* bytes of a payload: 81 with the default signatures   *)

(* What the constructor of a block's encoder checks, and Encode of the     *)
(* payload size.                                                           *)
ASSUME BlockSplitAssumption ==
  /\ kBlockBytes \in Nat \ {0} /\ payload_bytes \in Nat \ {0}
  /\ n \in Nat \ {0} /\ m \in Nat \ {0} /\ w \in Nat \ {0}
  /\ (m - w) - w + 1 > 0

VARIABLES
  keys, values, pc, i, raw_band, value,       (* the block's encoder       *)
  reduced_matrix, reduced_values, dropped,
  payloads,      (* per key                                                *)
  tables,        (* P1's finished tables, in block order                   *)
  received,      (* tables_ of P0's object                                 *)
  stage,         (* "encode", "send", "decode" or "done"                   *)
  payloads_out   (* per row a caller may ask for: what Decode has written  *)

encoder == <<keys, values, pc, i, raw_band, value, reduced_matrix,
             reduced_values, dropped>>
adapter == <<payloads, tables, received, stage, payloads_out>>
vars == <<encoder, adapter>>

Bits == 0 .. kBlockBytes - 1
Bytes == 0 .. payload_bytes - 1

Okvs == INSTANCE BandOkvs

----------------------------------------------------------------------------
(* Mutant: the bytes that do not fill a block are left out. *)
WholeBlocks == payload_bytes \div kBlockBytes

block_count == (payload_bytes + kBlockBytes - 1) \div kBlockBytes

Offset(b) == b * kBlockBytes

BlockLen(b) ==
  IF kBlockBytes < payload_bytes - Offset(b) THEN kBlockBytes
                                             ELSE payload_bytes - Offset(b)

(* Mutant: every block reads the start of the payload. *)
FirstBytesToBlock(payload, b) == {k \in 0 .. BlockLen(b) - 1 : k \in payload}

BytesToBlock(payload, b) == {k \in 0 .. BlockLen(b) - 1 : Offset(b) + k \in payload}

(* The bytes of dst that a block covers are overwritten. *)
BlockToBytes(block, b, dst) ==
  {p \in Bytes : IF Offset(b) <= p /\ p < Offset(b) + BlockLen(b)
                   THEN p - Offset(b) \in block
                   ELSE p \in dst}

(* The block whose encoder runs. *)
Current == Len(tables)

(* What a table gives for a row: OKVSBKV2::DecodeOtherP. *)
DecodedFrom(table, row) == Okvs!SumOf(row, table, Bits)

----------------------------------------------------------------------------
(* Encode has accepted the sizes of keys and payloads, and the first block *)
(* begins.                                                                 *)
Init ==
  /\ keys \in [1 .. n -> Okvs!Bands]
  /\ Okvs!Sorted(keys)
  /\ payloads \in [1 .. n -> SUBSET Bytes]
  /\ values = [k \in 1 .. n |-> BytesToBlock(payloads[k], 0)]
  /\ pc = "next" /\ i = 0
  /\ raw_band = {} /\ value = {}
  /\ reduced_matrix = [c \in Okvs!Columns |-> {}]
  /\ reduced_values = [c \in Okvs!Columns |-> {}]
  /\ dropped = {}
  /\ tables = <<>> /\ received = <<>>
  /\ stage = "encode"
  /\ payloads_out = [row \in Okvs!Bands |-> {}]

EncodeBlock ==
  /\ stage = "encode"
  /\ Okvs!Next
  /\ UNCHANGED adapter

(* Mutant: the next block goes on with the encoder of the last one. *)
ReuseEncoder ==
  /\ stage = "encode" /\ pc = "done"
  /\ Current + 1 < block_count
  /\ tables' = Append(tables, reduced_values)
  /\ values' = [k \in 1 .. n |-> BytesToBlock(payloads[k], Current + 1)]
  /\ pc' = "next" /\ i' = 0
  /\ raw_band' = {} /\ value' = {}
  /\ UNCHANGED <<keys, reduced_matrix, reduced_values, dropped, payloads,
                 received, stage, payloads_out>>

(* A block is done and the next one gets an encoder of its own. *)
NextBlock ==
  /\ stage = "encode" /\ pc = "done"
  /\ Current + 1 < block_count
  /\ tables' = Append(tables, reduced_values)
  /\ values' = [k \in 1 .. n |-> BytesToBlock(payloads[k], Current + 1)]
  /\ pc' = "next" /\ i' = 0
  /\ raw_band' = {} /\ value' = {}
  /\ reduced_matrix' = [c \in Okvs!Columns |-> {}]
  /\ reduced_values' = [c \in Okvs!Columns |-> {}]
  /\ dropped' = {}
  /\ UNCHANGED <<keys, payloads, received, stage, payloads_out>>

(* Encode returns true. *)
LastBlock ==
  /\ stage = "encode" /\ pc = "done"
  /\ Current + 1 = block_count
  /\ tables' = Append(tables, reduced_values)
  /\ stage' = "send"
  /\ UNCHANGED <<encoder, payloads, received, payloads_out>>

SetTables ==
  /\ stage = "send"
  /\ received' = tables
  /\ stage' = "decode"
  /\ UNCHANGED <<encoder, payloads, tables, payloads_out>>

(* Decode finds a table for every block, and fills the output.  The blocks *)
(* write different bytes: their order is not observable.                   *)
Decode ==
  /\ stage = "decode"
  /\ Len(received) = block_count
  /\ payloads_out' =
       [row \in Okvs!Bands |->
          {p \in Bytes :
             LET b == p \div kBlockBytes
             IN /\ b < block_count
                /\ p \in BlockToBytes(DecodedFrom(received[b + 1], row), b, {})}]
  /\ stage' = "done"
  /\ UNCHANGED <<encoder, payloads, tables, received>>

Next == EncodeBlock \/ NextBlock \/ LastBlock \/ SetTables \/ Decode

Spec == Init /\ [][Next]_vars

----------------------------------------------------------------------------
(* The encoders of the blocks eliminate the same rows in the same order,   *)
(* so a key is dropped by all of them or by none.  (dropped is that of the *)
(* last block here: any block decodes every row it kept.)                  *)
KeptRowsWhole ==
  stage = "done" =>
    \A k \in (1 .. n) \ dropped : payloads_out[keys[k]] = payloads[k]

(* What P0 decodes is linear in whole payloads: a row that is a sum of     *)
(* kept rows gives the sum of their payloads, the same rows in every       *)
(* block and the bytes of the short last block included.  This holds for   *)
(* dropped rows and for keys P1 never encoded.                             *)
LinearAcrossBlocks ==
  stage = "done" =>
    \A C \in SUBSET ((1 .. n) \ dropped) :
      LET row == Okvs!SumOf(C, keys, Okvs!Columns)
      IN row \in Okvs!Bands =>
           payloads_out[row] = Okvs!SumOf(C, payloads, Bytes)

(* A self-check of whole payloads passes exactly if the equations over all *)
(* blocks have a common solution: Encode returned true either way.         *)
SelfCheckSound ==
  stage = "done" =>
    ((\A k \in 1 .. n : payloads_out[keys[k]] = payloads[k]) <=>
     (\A S \in SUBSET (1 .. n) :
        Okvs!SumOf(S, keys, Okvs!Columns) = {} =>
          Okvs!SumOf(S, payloads, Bytes) = {}))

=============================================================================
