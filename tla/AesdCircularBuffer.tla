------------------------- MODULE AesdCircularBuffer -------------------------
(***************************************************************************)
(* The circular buffer of aesd-char-driver/aesd-circular-buffer.c, as      *)
(* operators on one buffer value: a record with the fields of struct       *)
(* aesd_circular_buffer.  Every caller of these functions holds the device *)
(* mutex, so one call is one step of the driver.                           *)
(*                                                                         *)
(* Memory pointed to by buffptr is the sequence of bytes it holds; the     *)
(* NULL pointer is the empty sequence, which no allocated buffer is (the   *)
(* driver returns before it allocates for a write of zero bytes).          *)
(***************************************************************************)
EXTENDS Integers, Sequences, FiniteSetsExt

CONSTANTS
  MaxWriteOps,  \* AESDCHAR_MAX_WRITE_OPERATIONS_SUPPORTED (10 in the source)
  Byte          \* the bytes a client may write

ASSUME MaxWriteOpsAssumption == MaxWriteOps \in Nat \ {0}

NULL == <<>>

Slots == 0 .. MaxWriteOps - 1

BufferEntry == [buffptr : Seq(Byte), size : Nat]

CircularBuffer ==
  [entry : [Slots -> BufferEntry], in_offs : Slots, out_offs : Slots, full : BOOLEAN]

NoEntry == [buffptr |-> NULL, size |-> 0]

(* aesd_circular_buffer_init: every byte of the struct is zeroed. *)
BufferInit ==
  [entry |-> [s \in Slots |-> NoEntry], in_offs |-> 0, out_offs |-> 0, full |-> FALSE]

(* Mutant: the roll-over test is off by one. *)
AdvanceNoRollOver(offs) == IF offs + 1 > MaxWriteOps THEN 0 ELSE offs + 1

(* A slot index moves on by one and rolls over at the end of the array. *)
Advance(offs) == IF offs + 1 >= MaxWriteOps THEN 0 ELSE offs + 1

(* Mutant: full is computed from the read position before it moved. *)
AddEntryStaleOut(b, add_entry, complete_entry, new_entry) ==
  LET out == IF new_entry /\ b.full THEN Advance(b.out_offs) ELSE b.out_offs
      in  == IF complete_entry THEN Advance(b.in_offs) ELSE b.in_offs
  IN  [entry    |-> [b.entry EXCEPT ![b.in_offs] = add_entry],
       in_offs  |-> in,
       out_offs |-> out,
       full     |-> IF complete_entry THEN in = b.out_offs ELSE b.full]

(***************************************************************************)
(* aesd_circular_buffer_add_entry.  A new entry pushes the read position   *)
(* out of a full buffer; only a complete entry moves the write position    *)
(* and recomputes full.                                                    *)
(***************************************************************************)
AddEntry(b, add_entry, complete_entry, new_entry) ==
  LET out == IF new_entry /\ b.full THEN Advance(b.out_offs) ELSE b.out_offs
      in  == IF complete_entry THEN Advance(b.in_offs) ELSE b.in_offs
  IN  [entry    |-> [b.entry EXCEPT ![b.in_offs] = add_entry],
       in_offs  |-> in,
       out_offs |-> out,
       full     |-> IF complete_entry THEN in = out ELSE b.full]

-----------------------------------------------------------------------------
(* The slot both search loops look at in iteration cnt. *)
SlotAt(b, cnt) ==
  IF b.out_offs + cnt >= MaxWriteOps THEN b.out_offs + cnt - MaxWriteOps
                                     ELSE b.out_offs + cnt

SizeAt(b, cnt) == b.entry[SlotAt(b, cnt)].size

(* The loops' running byte count at the start of iteration cnt. *)
BytesBefore(b) ==
  LET bytecnt[cnt \in 0 .. MaxWriteOps] ==
        IF cnt = 0 THEN 0 ELSE bytecnt[cnt - 1] + SizeAt(b, cnt - 1)
  IN  bytecnt

Iterations == 0 .. MaxWriteOps - 1

(* Mutant: the byte just past an entry counts as the entry's. *)
FindEntryInclusive(b, char_offset) ==
  LET bytecnt == BytesBefore(b)
      hits    == {cnt \in Iterations : bytecnt[cnt] + SizeAt(b, cnt) >= char_offset}
      first   == Min(hits)
  IN  IF hits = {}
      THEN [found |-> FALSE, entry |-> NoEntry, byte |-> 0]
      ELSE [found |-> TRUE,
            entry |-> b.entry[SlotAt(b, first)],
            byte  |-> char_offset - bytecnt[first]]

(***************************************************************************)
(* aesd_circular_buffer_find_entry_offset_for_fpos: the first entry whose  *)
(* bytes reach past char_offset, and the byte in it; found is FALSE where  *)
(* the function returns the NULL entry.                                    *)
(***************************************************************************)
FindEntryOffsetForFpos(b, char_offset) ==
  LET bytecnt == BytesBefore(b)
      hits    == {cnt \in Iterations : bytecnt[cnt] + SizeAt(b, cnt) > char_offset}
      first   == Min(hits)
  IN  IF hits = {}
      THEN [found |-> FALSE, entry |-> NoEntry, byte |-> 0]
      ELSE [found |-> TRUE,
            entry |-> b.entry[SlotAt(b, first)],
            byte  |-> char_offset - bytecnt[first]]

(* Mutant: an offset equal to the entry's size is accepted. *)
BufferFindOffsetPastEnd(b, write_cmd, write_cmd_offset) ==
  LET bytecnt == BytesBefore(b)
      stops   == {cnt \in Iterations : \/ SlotAt(b, cnt) = write_cmd
                                       \/ SizeAt(b, cnt) > 0 /\ write_cmd = cnt}
      first   == Min(stops)
  IN  IF stops = {}
      THEN bytecnt[MaxWriteOps]
      ELSE IF SlotAt(b, first) # write_cmd
      THEN write_cmd_offset
      ELSE IF write_cmd_offset > SizeAt(b, first)
      THEN -1
      ELSE bytecnt[first] + write_cmd_offset

(***************************************************************************)
(* aesd_buffer_find_offset.  Iteration cnt stops the loop when the slot    *)
(* index itself is write_cmd, or when the slot is in use and cnt is        *)
(* write_cmd; the two stops compute different results.                     *)
(***************************************************************************)
BufferFindOffset(b, write_cmd, write_cmd_offset) ==
  LET bytecnt == BytesBefore(b)
      stops   == {cnt \in Iterations : \/ SlotAt(b, cnt) = write_cmd
                                       \/ SizeAt(b, cnt) > 0 /\ write_cmd = cnt}
      first   == Min(stops)
  IN  IF stops = {}
      THEN bytecnt[MaxWriteOps]
      ELSE IF SlotAt(b, first) # write_cmd
      THEN write_cmd_offset
      ELSE IF write_cmd_offset >= SizeAt(b, first)
      THEN -1
      ELSE bytecnt[first] + write_cmd_offset

=============================================================================
