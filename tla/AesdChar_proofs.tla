--------------------------- MODULE AesdChar_proofs ---------------------------
(***************************************************************************)
(* Proofs about the driver for every ring size, every set of threads,      *)
(* files and inputs, and every combination of failures.                    *)
(***************************************************************************)
EXTENDS AesdChar, AesdCircularBuffer_proofs

USE DEF EINVAL, ENOMEM, EFAULT, ERESTARTSYS, Inside

(* The part of the invariant that is about struct aesd_dev.                *)
DevInv ==
  /\ circ_buffer \in CircularBuffer
  /\ write_entry_new_flag \in BOOLEAN
  /\ size \in Nat
  /\ RingShape
  /\ EntriesWhole
  /\ NoHoles
  /\ SizeCoversData

(* A read looks for its data at a position that is not negative.           *)
ReadsForward ==
  \A t \in Threads :
    pc[t] = "copy" \/ (pc[t] = "lock" /\ call[t].op = "read") => call[t].pos \in Nat

(* A thread waiting for the mutex is in one of the three handlers.         *)
OpMatches == \A t \in Threads : pc[t] = "lock" => call[t].op # "none"

IInv == TypeOK /\ DevInv /\ ReadsForward /\ OpMatches /\ LockHeldInside /\ NoLiveBufferOverwritten

(* A device as it is when the module has been loaded.                      *)
Fresh ==
  /\ circ_buffer = BufferInit /\ write_entry_new_flag = TRUE /\ size = 0
  /\ mutex_lock = None
  /\ opened = {} /\ f_pos \in [Files -> Int]
  /\ pc = [t \in Threads |-> "idle"]
  /\ call = [t \in Threads |-> NoCall]

(* The ring is well formed when it is created.                             *)
LEMMA FreshInv == Fresh => IInv
<1> SUFFICES ASSUME Fresh PROVE IInv
  OBVIOUS
<1>1. circ_buffer \in CircularBuffer
  BY NoEntryType, MaxWriteOpsAssumption DEF Fresh, BufferInit, CircularBuffer, Slots
<1>2. NoCall \in CallType
  BY EmptySeq DEF NoCall, CallType
<1>3. TypeOK
  BY <1>1, <1>2 DEF Fresh, TypeOK
<1>4. RingShape /\ EntriesWhole /\ NoHoles
  <2>1. /\ circ_buffer.entry = [s \in Slots |-> NoEntry]
        /\ circ_buffer.in_offs = 0 /\ circ_buffer.out_offs = 0 /\ ~circ_buffer.full
    BY DEF Fresh, BufferInit
  <2>2. 0 \in Slots
    BY MaxWriteOpsAssumption DEF Slots
  <2>3. RingShape
    BY <2>1, <2>2 DEF RingShape
  <2>4. EntriesWhole
    BY <2>1, NoEntryType, EmptySeq DEF EntriesWhole, NULL
  <2>5. NoHoles
    BY <2>1 DEF NoHoles, Slots
  <2> QED
    BY <2>3, <2>4, <2>5
<1>5. SizeCoversData
  <2> DEFINE B == BytesBefore(circ_buffer)
             Odd == {n \in 0 .. MaxWriteOps : B[n] # 0}
  <2>1. \A cnt \in Iterations : SizeAt(circ_buffer, cnt) = 0
    <3> \A s \in Slots : circ_buffer.entry[s] = NoEntry
      BY DEF Fresh, BufferInit
    <3> QED
      BY <1>1, SlotAtType, NoEntryType DEF SizeAt
  <2>2. Odd = {}
    <3>1. SUFFICES ASSUME Odd # {} PROVE FALSE
      OBVIOUS
    <3>2. PICK n \in Odd : \A m \in Odd : n <= m
      <4> Odd \subseteq Nat
        BY MaxWriteOpsAssumption
      <4> QED
        BY <3>1, LeastNatural
    <3>3. n # 0
      BY <1>1, <3>2, BytesBeforeProperties
    <3>4. n - 1 \in Iterations /\ n - 1 \in 0 .. MaxWriteOps /\ (n - 1) + 1 = n /\ ~ (n <= n - 1)
      BY <3>2, <3>3, MaxWriteOpsAssumption DEF Iterations
    <3>5. B[n - 1] = 0
      BY <3>2, <3>4
    <3>6. B[n] = B[n - 1] + SizeAt(circ_buffer, n - 1)
      BY <1>1, <3>4, BytesBeforeProperties
    <3> QED
      BY <2>1, <3>2, <3>4, <3>5, <3>6
  <2> QED
    BY <2>2, MaxWriteOpsAssumption DEF SizeCoversData, Fresh
<1>6. LockHeldInside /\ NoLiveBufferOverwritten /\ ReadsForward /\ OpMatches
  BY ConstantsAssumption DEF Fresh, OpMatches, LockHeldInside, NoLiveBufferOverwritten, ReadsForward
<1> QED
  BY <1>1, <1>3, <1>4, <1>5, <1>6 DEF IInv, DevInv, TypeOK

LEMMA InitInv == Init => IInv
BY FreshInv DEF Init, Fresh

-----------------------------------------------------------------------------
(* The three steps that change the ring.                                   *)

(* Replacing the entry being written by another changes one slot.          *)
LEMMA EvictDev ==
  ASSUME IInv, NEW t \in Threads, WriteEvict(t)
  PROVE  DevInv' /\ InEntry'.buffptr \in Seq(Byte)
         /\ (write_entry_new_flag' => InEntry' = NoEntry)
<1> DEFINE b == circ_buffer
           in == circ_buffer.in_offs
<1>1. b \in CircularBuffer /\ in \in Slots /\ b.entry \in [Slots -> BufferEntry] /\ b.full \in BOOLEAN
      /\ write_entry_new_flag \in BOOLEAN /\ size \in Nat
  BY DEF IInv, DevInv, CircularBuffer
<1>2. RingShape /\ EntriesWhole /\ NoHoles /\ SizeCoversData
  BY DEF IInv, DevInv
<1>3. CASE b.full /\ write_entry_new_flag /\ InEntry.buffptr # NULL
  <2>1. /\ size' = size - b.entry[in].size
        /\ circ_buffer' = [b EXCEPT !.entry[in] = NoEntry]
        /\ write_entry_new_flag' = write_entry_new_flag
    BY <1>3 DEF WriteEvict, InEntry
  <2>2. /\ circ_buffer' \in CircularBuffer
        /\ circ_buffer'.in_offs = in /\ circ_buffer'.out_offs = b.out_offs /\ circ_buffer'.full = b.full
        /\ circ_buffer'.entry[in] = NoEntry
        /\ \A r \in Slots \ {in} : circ_buffer'.entry[r] = b.entry[r]
    BY <1>1, <2>1, NoEntryType DEF CircularBuffer
  <2>3. RingShape'
    BY <1>2, <1>3, <2>1, <2>2 DEF RingShape
  <2>4. EntriesWhole'
    BY <1>1, <1>2, <1>3, <2>1, <2>2, NoEntryType, EmptySeq DEF EntriesWhole, NULL
  <2>5. NoHoles'
    BY <1>2, <1>3, <2>2 DEF NoHoles
  <2>6. size' \in Nat /\ SizeCoversData'
    <3>1. Stored(circ_buffer') = Stored(b) - b.entry[in].size + 0
      BY <1>1, <2>2, NoEntryType, StoredProperties
    <3>2. /\ Stored(b) <= size /\ b.entry[in].size <= Stored(b)
          /\ Stored(b) \in Nat /\ Stored(circ_buffer') \in Nat
          /\ Stored(circ_buffer') = BytesBefore(circ_buffer')[MaxWriteOps]
      BY <1>1, <1>2, <2>2, StoredProperties DEF SizeCoversData
    <3>3. b.entry[in].size \in Nat
      BY <1>1 DEF BufferEntry
    <3> QED
      BY <1>1, <2>1, <3>1, <3>2, <3>3 DEF SizeCoversData
  <2>7. InEntry' = NoEntry
    BY <2>2 DEF InEntry
  <2> QED
    BY <1>1, <2>1, <2>2, <2>3, <2>4, <2>5, <2>6, <2>7, NoEntryType DEF DevInv, BufferEntry
<1>4. CASE ~ (b.full /\ write_entry_new_flag /\ InEntry.buffptr # NULL)
  <2>1. UNCHANGED dev
    BY <1>4 DEF WriteEvict, dev
  <2>2. DevInv'
    BY <2>1 DEF IInv, DevInv, dev, RingShape, EntriesWhole, NoHoles, SizeCoversData
  <2>3. b.entry[in] \in BufferEntry
    BY <1>1
  <2>4. write_entry_new_flag => b.entry[in] = NoEntry
    <3> SUFFICES ASSUME write_entry_new_flag PROVE b.entry[in] = NoEntry
      OBVIOUS
    <3>1. CASE b.full
      <4>1. b.entry[in].buffptr = <<>> /\ b.entry[in].size = Len(b.entry[in].buffptr)
        BY <1>1, <1>2, <1>4, <3>1 DEF InEntry, EntriesWhole, NULL
      <4>2. b.entry[in].size = 0
        BY <4>1, EmptySeq
      <4> QED
        BY <2>3, <4>1, <4>2 DEF NoEntry, NULL, BufferEntry
    <3>2. CASE ~b.full
      BY <1>2, <3>2 DEF RingShape
    <3> QED
      BY <3>1, <3>2
  <2> QED
    BY <2>1, <2>2, <2>3, <2>4 DEF InEntry, dev, BufferEntry
<1> QED
  BY <1>3, <1>4

LEMMA FaultDev ==
  ASSUME IInv, NEW t \in Threads, WriteFault(t)
  PROVE  DevInv'
<1> DEFINE b == circ_buffer
           in == circ_buffer.in_offs
<1>1. b \in CircularBuffer /\ in \in Slots /\ b.entry \in [Slots -> BufferEntry] /\ b.full \in BOOLEAN
      /\ write_entry_new_flag \in BOOLEAN /\ size \in Nat
  BY DEF IInv, DevInv, CircularBuffer
<1>2. RingShape /\ EntriesWhole /\ NoHoles /\ SizeCoversData
  BY DEF IInv, DevInv
<1>3. write_entry_new_flag' = write_entry_new_flag /\ size' = size
  BY DEF WriteFault
<1>4. CASE write_entry_new_flag
  <2>1. UNCHANGED dev
    BY <1>3, <1>4 DEF WriteFault, dev
  <2> QED
    BY <2>1 DEF IInv, DevInv, dev, RingShape, EntriesWhole, NoHoles, SizeCoversData
<1>5. CASE ~write_entry_new_flag
  <2>1. circ_buffer' = [b EXCEPT !.entry[in] = NoEntry]
    BY <1>5 DEF WriteFault
  <2>2. /\ circ_buffer' \in CircularBuffer
        /\ circ_buffer'.in_offs = in /\ circ_buffer'.out_offs = b.out_offs /\ circ_buffer'.full = b.full
        /\ circ_buffer'.entry[in] = NoEntry
        /\ \A r \in Slots \ {in} : circ_buffer'.entry[r] = b.entry[r]
    BY <1>1, <2>1, NoEntryType DEF CircularBuffer
  <2>3. RingShape'
    BY <1>1, <1>2, <1>3, <1>5, <2>2 DEF RingShape, Slots
  <2>4. EntriesWhole'
    BY <1>1, <1>2, <1>3, <2>2, NoEntryType, EmptySeq DEF EntriesWhole, NULL
  <2>5. NoHoles'
    BY <1>2, <2>2 DEF NoHoles
  <2>6. SizeCoversData'
    <3>1. Stored(circ_buffer') = Stored(b) - b.entry[in].size + 0
      BY <1>1, <2>2, NoEntryType, StoredProperties
    <3>2. /\ Stored(b) <= size /\ b.entry[in].size \in Nat
          /\ Stored(b) \in Nat /\ Stored(circ_buffer') \in Nat
          /\ Stored(circ_buffer') = BytesBefore(circ_buffer')[MaxWriteOps]
      BY <1>1, <1>2, <2>2, StoredProperties DEF SizeCoversData, BufferEntry
    <3> QED
      BY <1>1, <1>3, <3>1, <3>2 DEF SizeCoversData
  <2> QED
    BY <1>1, <1>3, <2>2, <2>3, <2>4, <2>5, <2>6 DEF DevInv
<1> QED
  BY <1>4, <1>5

LEMMA StoreDev ==
  ASSUME IInv, NEW t \in Threads, WriteStore(t)
  PROVE  DevInv'
<1> DEFINE b == circ_buffer
           in == circ_buffer.in_offs
           flag == write_entry_new_flag
           data == call[t].buf
           entry == IF flag THEN [buffptr |-> data, size |-> Len(data)]
                    ELSE [buffptr |-> InEntry.buffptr \o data, size |-> Len(data) + InEntry.size]
           complete == entry.buffptr[entry.size] = NL
           c == circ_buffer'
<1>1. /\ b \in CircularBuffer /\ in \in Slots /\ b.out_offs \in Slots
      /\ b.entry \in [Slots -> BufferEntry] /\ b.full \in BOOLEAN
      /\ flag \in BOOLEAN /\ size \in Nat /\ b.entry[in] \in BufferEntry
  BY DEF IInv, DevInv, CircularBuffer
<1>2. RingShape /\ EntriesWhole /\ NoHoles /\ SizeCoversData /\ (flag => b.entry[in] = NoEntry)
  BY DEF IInv, DevInv, NoLiveBufferOverwritten, WriteStore, InEntry
<1>3. data \in Seq(Byte) /\ data # <<>> /\ Len(data) \in Nat /\ Len(data) >= 1
  <2>1. data \in Seq(Byte) /\ data # <<>>
    BY DEF IInv, TypeOK, CallType, WriteStore
  <2> QED
    BY <2>1, EmptySeq
<1>4. /\ entry \in BufferEntry /\ entry.size = Len(entry.buffptr) /\ entry.buffptr # NULL
      /\ entry.size = b.entry[in].size + Len(data)
  <2>1. CASE flag
    BY <1>2, <1>3, <2>1, NoEntryType DEF BufferEntry, NULL
  <2>2. CASE ~flag
    <3>1. /\ b.entry[in].buffptr \in Seq(Byte) /\ b.entry[in].size \in Nat
          /\ b.entry[in].size = Len(b.entry[in].buffptr)
      BY <1>1, <1>2 DEF BufferEntry, EntriesWhole
    <3>2. /\ b.entry[in].buffptr \o data \in Seq(Byte)
          /\ Len(b.entry[in].buffptr \o data) = Len(b.entry[in].buffptr) + Len(data)
      BY <1>3, <3>1, ConcatProperties
    <3>3. b.entry[in].buffptr \o data # <<>>
      BY <1>3, <3>1, <3>2, EmptySeq
    <3>4. entry = [buffptr |-> b.entry[in].buffptr \o data, size |-> Len(data) + b.entry[in].size]
      BY <2>2 DEF InEntry
    <3>5. Len(data) + b.entry[in].size \in Nat
      <4>1. \A m, n \in Nat : m + n \in Nat
        OBVIOUS
      <4> QED
        BY <1>3, <3>1, <4>1, Zenon
    <3>6. Len(data) + b.entry[in].size = b.entry[in].size + Len(data)
      <4>1. \A m, n \in Nat : m + n = n + m
        OBVIOUS
      <4> QED
        BY <1>3, <3>1, <4>1, Zenon
    <3> HIDE DEF entry
    <3>7. entry.buffptr = b.entry[in].buffptr \o data /\ entry.size = Len(data) + b.entry[in].size
      BY <3>4
    <3>8. entry \in BufferEntry
      BY <3>2, <3>4, <3>5 DEF BufferEntry
    <3>9. entry.size = Len(entry.buffptr) /\ entry.size = b.entry[in].size + Len(data)
      BY <3>1, <3>2, <3>6, <3>7, Zenon
    <3> QED
      BY <3>3, <3>7, <3>8, <3>9 DEF NULL
  <2> QED
    BY <2>1, <2>2
<1>5. c = AddEntry(b, entry, complete, flag) /\ flag' = complete /\ size' = size + Len(data)
  BY DEF WriteStore
<1>6. complete \in BOOLEAN
  OBVIOUS
<1> HIDE DEF entry, complete
<1>7. /\ c.entry = [b.entry EXCEPT ![in] = entry]
      /\ c.in_offs = IF complete THEN Advance(in) ELSE in
      /\ c.out_offs = IF flag /\ b.full THEN Advance(b.out_offs) ELSE b.out_offs
      /\ c.full = IF complete THEN c.in_offs = c.out_offs ELSE b.full
  BY <1>5 DEF AddEntry
<1>8. c.entry[in] = entry /\ \A r \in Slots \ {in} : c.entry[r] = b.entry[r]
  BY <1>1, <1>7
<1>9. c.in_offs \in Slots /\ c.out_offs \in Slots
  BY <1>1, <1>7, AdvanceType
<1>10. c \in CircularBuffer
  <2>1. c.entry \in [Slots -> BufferEntry] /\ c.full \in BOOLEAN
    BY <1>1, <1>4, <1>7
  <2>2. c = [entry |-> c.entry, in_offs |-> c.in_offs, out_offs |-> c.out_offs, full |-> c.full]
    BY <1>5 DEF AddEntry
  <2> QED
    BY <1>9, <2>1, <2>2 DEF CircularBuffer
<1>11. RingShape'
  <2>1. b.full => b.out_offs = IF flag THEN in ELSE Advance(in)
    BY <1>2 DEF RingShape
  <2>2. ~b.full => /\ b.out_offs = 0
                   /\ \A s \in Slots : s > in => b.entry[s] = NoEntry
    BY <1>2 DEF RingShape
  <2>3. CASE b.full
    <3>1. CASE complete
      <4>1. c.in_offs = Advance(in) /\ c.out_offs = Advance(in)
        BY <1>7, <2>1, <2>3, <3>1
      <4>2. c.full /\ flag'
        BY <1>5, <1>7, <3>1, <4>1
      <4> QED
        BY <4>1, <4>2 DEF RingShape
    <3>2. CASE ~complete
      <4>1. c.in_offs = in /\ c.out_offs = Advance(in) /\ c.full /\ ~flag'
        BY <1>5, <1>7, <2>1, <2>3, <3>2
      <4> QED
        BY <4>1 DEF RingShape
    <3> QED
      BY <3>1, <3>2
  <2>4. CASE ~b.full
    <3>1. c.out_offs = 0
      BY <1>7, <2>2, <2>4
    <3>2. CASE complete /\ Advance(in) = 0
      BY <1>5, <1>7, <3>1, <3>2 DEF RingShape
    <3>3. CASE complete /\ Advance(in) # 0
      <4>1. c.in_offs = in + 1 /\ ~c.full /\ in + 1 \in Slots /\ in \in Nat
        <5>1. Advance(in) = in + 1
          BY <3>3 DEF Advance
        <5>2. c.in_offs = in + 1 /\ c.full = (in + 1 = 0)
          BY <1>7, <3>1, <3>3, <5>1
        <5>3. in \in Nat /\ in + 1 # 0
          BY <1>1, MaxWriteOpsAssumption DEF Slots
        <5> QED
          BY <1>9, <5>2, <5>3
      <4>2. \A s \in Slots : s >= in + 1 => s > in /\ s # in
        BY <1>1, <4>1 DEF Slots
      <4>3. \A s \in Slots : s >= in + 1 => c.entry[s] = NoEntry
        BY <1>8, <2>2, <2>4, <4>2
      <4>4. \A s \in Slots : s > c.in_offs => s >= in + 1
        BY <4>1 DEF Slots
      <4> QED
        BY <3>1, <4>1, <4>3, <4>4 DEF RingShape
    <3>4. CASE ~complete
      <4>1. c.in_offs = in /\ ~c.full /\ ~flag'
        BY <1>5, <1>7, <2>4, <3>4
      <4>2. \A s \in Slots : s > in => s # in /\ c.entry[s] = NoEntry
        BY <1>1, <1>8, <2>2, <2>4 DEF Slots
      <4> QED
        BY <3>1, <4>1, <4>2 DEF RingShape
    <3> QED
      BY <3>2, <3>3, <3>4
  <2> QED
    BY <2>3, <2>4
<1>12. EntriesWhole'
  <2> SUFFICES ASSUME NEW s \in Slots
               PROVE  /\ c.entry[s].size = Len(c.entry[s].buffptr)
                      /\ \/ c.entry[s].buffptr = NULL
                         \/ c.entry[s].buffptr[Len(c.entry[s].buffptr)] = NL
                         \/ s = c.in_offs /\ ~flag'
    BY DEF EntriesWhole
  <2>1. CASE s # in
    BY <1>1, <1>2, <1>8, <2>1 DEF EntriesWhole
  <2>2. CASE s = in /\ complete
    <3>1. entry.buffptr[Len(entry.buffptr)] = NL
      BY <1>4, <2>2 DEF complete
    <3> QED
      BY <1>4, <1>8, <2>2, <3>1
  <2>3. CASE s = in /\ ~complete
    BY <1>4, <1>5, <1>7, <1>8, <2>3
  <2> QED
    BY <2>1, <2>2, <2>3
<1>13. NoHoles'
  <2> SUFFICES ASSUME NEW s \in Slots, s # c.in_offs, c.full \/ s < c.in_offs
               PROVE  c.entry[s].buffptr # NULL
    BY DEF NoHoles
  <2>1. CASE s = in
    BY <1>4, <1>8, <2>1
  <2>2. CASE s # in
    <3>1. b.full \/ s < in
      BY <1>1, <1>2, <1>7, <2>2, MaxWriteOpsAssumption DEF RingShape, Advance, Slots
    <3> QED
      BY <1>2, <1>8, <2>2, <3>1 DEF NoHoles
  <2> QED
    BY <2>1, <2>2
<1>14. SizeCoversData' /\ size' \in Nat
  <2>1. Stored(c) = Stored(b) - b.entry[in].size + entry.size
    BY <1>1, <1>8, <1>10, StoredProperties
  <2>2. /\ Stored(b) <= size /\ Stored(b) \in Nat /\ Stored(c) \in Nat
        /\ Stored(c) = BytesBefore(c)[MaxWriteOps] /\ b.entry[in].size \in Nat
    BY <1>1, <1>2, <1>10, StoredProperties DEF SizeCoversData, BufferEntry
  <2>3. Stored(c) <= size'
    <3>1. Stored(c) = Stored(b) - b.entry[in].size + (b.entry[in].size + Len(data))
      BY <1>4, <2>1
    <3>2. \A p, q, m, n \in Nat : p <= q => p - m + (m + n) <= q + n
      OBVIOUS
    <3>3. Stored(b) - b.entry[in].size + (b.entry[in].size + Len(data)) <= size + Len(data)
      BY <1>1, <1>3, <2>2, <3>2
    <3> QED
      BY <1>5, <3>1, <3>3
  <2> QED
    BY <1>1, <1>3, <1>5, <2>2, <2>3 DEF SizeCoversData
<1> QED
  BY <1>5, <1>6, <1>10, <1>11, <1>12, <1>13, <1>14 DEF DevInv

-----------------------------------------------------------------------------
(* What a read delivers is bytes of the entry it found.                    *)
LEMMA ReadType ==
  ASSUME IInv, NEW t \in Threads, pc[t] = "copy",
         FindEntryOffsetForFpos(circ_buffer, call[t].pos).found
  PROVE  LET hit == FindEntryOffsetForFpos(circ_buffer, call[t].pos)
             n   == ReadLength(hit.entry, hit.byte, call[t].count)
         IN  n \in Nat \ {0} /\ SubSeq(hit.entry.buffptr, hit.byte + 1, hit.byte + n) \in Seq(Byte)
<1> DEFINE hit == FindEntryOffsetForFpos(circ_buffer, call[t].pos)
           low == Min({hit.entry.size, call[t].count})
           n   == ReadLength(hit.entry, hit.byte, call[t].count)
<1>1. circ_buffer \in CircularBuffer /\ EntriesWhole /\ call[t].count \in Nat /\ call[t].pos \in Nat
  BY DEF IInv, DevInv, TypeOK, CallType, ReadsForward
<1>2. /\ hit.entry \in BufferEntry /\ hit.byte \in Nat /\ hit.byte < hit.entry.size
      /\ \E s \in Slots : hit.entry = circ_buffer.entry[s]
  <2> HIDE DEF hit
  <2>1. /\ hit.entry \in BufferEntry /\ hit.byte \in Nat
        /\ \E cnt \in Iterations : /\ hit.entry = circ_buffer.entry[SlotAt(circ_buffer, cnt)]
                                   /\ hit.byte < hit.entry.size
    BY <1>1, FindEntryCorrect DEF hit
  <2> QED
    BY <1>1, <2>1, SlotAtType
<1>3. hit.entry.size = Len(hit.entry.buffptr) /\ hit.entry.buffptr \in Seq(Byte) /\ hit.entry.size \in Nat
  BY <1>1, <1>2 DEF EntriesWhole, BufferEntry
<1> HIDE DEF hit
<1>4. low \in Nat /\ low <= hit.entry.size
  <2>1. {hit.entry.size, call[t].count} \subseteq Nat /\ hit.entry.size \in {hit.entry.size, call[t].count}
    BY <1>1, <1>3
  <2> QED
    BY <2>1, MinNatural
<1>5. \A x \in Int : Max({1, x}) = IF x >= 1 THEN x ELSE 1
  BY DEF Max
<1>6. n \in Nat \ {0} /\ hit.byte + n <= hit.entry.size
  <2>1. n = Max({1, low - hit.byte})
    BY DEF ReadLength
  <2> HIDE DEF n, low
  <2> QED
    BY <1>2, <1>3, <1>4, <1>5, <2>1
<1>7. SubSeq(hit.entry.buffptr, hit.byte + 1, hit.byte + n) \in Seq(Byte)
  <2>1. \A k \in hit.byte + 1 .. hit.byte + n : hit.entry.buffptr[k] \in Byte
    BY <1>2, <1>3, <1>6, ElementOfSeq
  <2> HIDE DEF n
  <2> QED
    BY <1>2, <1>6, <2>1, SubSeqProperties
<1> QED
  BY <1>6, <1>7 DEF hit

-----------------------------------------------------------------------------
(* The variables of the threads and files.                                 *)
ThreadType ==
  /\ mutex_lock \in Threads \cup {None}
  /\ opened \subseteq Files
  /\ f_pos \in [Files -> Int]
  /\ pc \in [Threads -> {"idle", "lock", "return"} \cup Inside]
  /\ call \in [Threads -> CallType]

LEMMA CallFields ==
  ASSUME NEW r \in CallType, NEW ret \in Int, NEW pos \in Int, NEW buf \in Seq(Byte)
  PROVE  /\ [[[r EXCEPT !.ret = ret] EXCEPT !.pos = pos] EXCEPT !.buf = buf] \in CallType
         /\ [r EXCEPT !.ret = ret] \in CallType
         /\ [r EXCEPT !.pos = pos] \in CallType
BY DEF CallType

LEMMA UnlockType ==
  ASSUME ThreadType, NEW t \in Threads, NEW ret \in Int, NEW pos \in Int, NEW buf \in Seq(Byte),
         Unlock(t, ret, pos, buf)
  PROVE  /\ mutex_lock' \in Threads \cup {None}
         /\ pc' \in [Threads -> {"idle", "lock", "return"} \cup Inside]
         /\ call' \in [Threads -> CallType]
<1>1. call[t] \in CallType
  BY DEF ThreadType
<1>2. [[[call[t] EXCEPT !.ret = ret] EXCEPT !.pos = pos] EXCEPT !.buf = buf] \in CallType
  BY <1>1, CallFields
<1>3. call' = [call EXCEPT ![t] = [[[call[t] EXCEPT !.ret = ret] EXCEPT !.pos = pos] EXCEPT !.buf = buf]]
  BY DEF Unlock, ThreadType
<1>4. call' \in [Threads -> CallType]
  BY <1>2, <1>3 DEF ThreadType
<1> QED
  BY <1>4 DEF Unlock, ThreadType

LEMMA RequestType ==
  ASSUME NEW f \in Files, NEW pos \in Int, NEW count \in Nat, NEW buf \in Seq(Byte),
         NEW cmd \in Nat, NEW offset \in Nat
  PROVE  /\ NoCall \in CallType
         /\ [NoCall EXCEPT !.op = "read", !.filp = f, !.pos = pos, !.count = count] \in CallType
         /\ [NoCall EXCEPT !.op = "write", !.filp = f, !.pos = pos, !.buf = buf] \in CallType
         /\ [NoCall EXCEPT !.op = "ioctl", !.filp = f, !.cmd = cmd, !.offset = offset] \in CallType
         /\ [[NoCall EXCEPT !.op = "ioctl", !.filp = f, !.cmd = cmd, !.offset = offset]
               EXCEPT !.ret = EINVAL] \in CallType
<1>1. NoCall \in CallType
  BY EmptySeq DEF NoCall, CallType
<1>2. [NoCall EXCEPT !.op = "read", !.filp = f, !.pos = pos, !.count = count] \in CallType
  BY <1>1 DEF CallType
<1>3. [NoCall EXCEPT !.op = "write", !.filp = f, !.pos = pos, !.buf = buf] \in CallType
  BY <1>1 DEF CallType
<1>4. [NoCall EXCEPT !.op = "ioctl", !.filp = f, !.cmd = cmd, !.offset = offset] \in CallType
  BY <1>1 DEF CallType
<1>5. EINVAL \in Int
  OBVIOUS
<1>6. [[NoCall EXCEPT !.op = "ioctl", !.filp = f, !.cmd = cmd, !.offset = offset]
         EXCEPT !.ret = EINVAL] \in CallType
  BY <1>4, <1>5, CallFields, EmptySeq
<1> QED
  BY <1>1, <1>2, <1>3, <1>4, <1>6

LEMMA ThreadTypeStep == IInv /\ [Next]_vars => ThreadType'
<1> SUFFICES ASSUME IInv, [Next]_vars PROVE ThreadType'
  OBVIOUS
<1> USE DEF ThreadType
<1>1. /\ ThreadType /\ size \in Nat /\ circ_buffer \in CircularBuffer
      /\ InEntry \in BufferEntry /\ InEntry.size \in Nat
  BY DEF IInv, DevInv, TypeOK, InEntry, CircularBuffer, BufferEntry
<1>2. \A t \in Threads : /\ call[t] \in CallType /\ call[t].pos \in Int /\ call[t].buf \in Seq(Byte)
                         /\ call[t].cmd \in Nat /\ call[t].offset \in Nat
  BY <1>1 DEF CallType
<1>3. ASSUME NEW f \in Files, AesdOpen(f) PROVE ThreadType'
  BY <1>1, <1>3 DEF AesdOpen
<1>4. ASSUME NEW f \in Files, AesdRelease(f) PROVE ThreadType'
  BY <1>1, <1>4 DEF AesdRelease
<1>5. ASSUME NEW f \in Files, NEW off \in SeekOffsets, NEW whence \in {"SEEK_SET", "SEEK_CUR", "SEEK_END"},
             AesdLlseek(f, off, whence)
      PROVE  ThreadType'
  <2> DEFINE newpos == CASE whence = "SEEK_SET" -> off
                         [] whence = "SEEK_CUR" -> f_pos[f] + off
                         [] whence = "SEEK_END" -> size
  <2>1. newpos \in Int /\ f_pos' = [f_pos EXCEPT ![f] = newpos] /\ UNCHANGED <<mutex_lock, opened, pc, call>>
    BY <1>5, ConstantsAssumption DEF AesdLlseek
  <2> HIDE DEF newpos
  <2> QED
    BY <1>1, <2>1
<1>6. ASSUME NEW t \in Threads, NEW f \in Files, NEW count \in ReadCounts, ReadCall(t, f, count)
      PROVE  ThreadType'
  <2>1. [NoCall EXCEPT !.op = "read", !.filp = f, !.pos = f_pos[f], !.count = count] \in CallType
    BY <1>1, RequestType, ConstantsAssumption, EmptySeq
  <2> QED
    BY <1>1, <1>6, <2>1 DEF ReadCall, Enter
<1>7. ASSUME NEW t \in Threads, NEW f \in Files, NEW data \in WriteInputs, WriteCall(t, f, data)
      PROVE  ThreadType'
  <2>1. [NoCall EXCEPT !.op = "write", !.filp = f, !.pos = f_pos[f], !.buf = data] \in CallType
    BY <1>1, RequestType, ConstantsAssumption
  <2> QED
    BY <1>1, <1>7, <2>1 DEF WriteCall, Enter
<1>8. ASSUME NEW t \in Threads, NEW f \in Files, NEW cmd \in SeekCmds, NEW offset \in SeekCmdOffsets,
             IoctlCall(t, f, cmd, offset)
      PROVE  ThreadType'
  <2> DEFINE request == [NoCall EXCEPT !.op = "ioctl", !.filp = f, !.cmd = cmd, !.offset = offset]
  <2>1. request \in CallType /\ \A err \in {EFAULT, EINVAL} : [request EXCEPT !.ret = err] \in CallType
    <3>1. 0 \in Int /\ 0 \in Nat /\ <<>> \in Seq(Byte) /\ cmd \in Nat /\ offset \in Nat
      BY ConstantsAssumption, EmptySeq
    <3>2. request \in CallType
      BY <3>1, RequestType
    <3> HIDE DEF request
    <3>3. \A err \in {EFAULT, EINVAL} : err \in Int
      OBVIOUS
    <3> QED  BY <3>1, <3>2, <3>3, CallFields
  <2>2. \E r \in CallType, to \in {"lock", "return"} : Enter(t, f, r) /\ pc' = [pc EXCEPT ![t] = to]
    BY <1>8, <2>1 DEF IoctlCall
  <2> QED
    BY <1>1, <2>2 DEF Enter
<1>9. ASSUME NEW t \in Threads, Lock(t) PROVE ThreadType'
  <2>1. UNCHANGED <<opened, f_pos, call>> /\ mutex_lock' = t /\ call[t].op \in {"none", "read", "write", "ioctl"}
    BY <1>2, <1>9 DEF Lock, CallType
  <2>2. pc' \in [Threads -> {"idle", "lock", "return"} \cup Inside]
    <3> DEFINE x == CASE call[t].op = "write" -> "evict"
                      [] call[t].op = "read"  -> "copy"
                      [] call[t].op = "ioctl" -> "seek"
    <3>1. call[t].op # "none" => x \in Inside
      BY <2>1
    <3>2. call[t].op # "none"
      BY <1>9 DEF IInv, OpMatches, Lock
    <3> QED
      BY <1>1, <1>9, <3>1, <3>2 DEF Lock
  <2> QED
    BY <1>1, <2>1, <2>2
<1>10. ASSUME NEW t \in Threads, LockInterrupted(t) PROVE ThreadType'
  <2> DEFINE ret == IF call[t].op = "ioctl" THEN 0 ELSE ERESTARTSYS
  <2>0. ret \in Int
    OBVIOUS
  <2> HIDE DEF ret
  <2>1. [call[t] EXCEPT !.ret = ret] \in CallType
    BY <1>2, <2>0, CallFields, EmptySeq
  <2>2. call' = [call EXCEPT ![t] = [call[t] EXCEPT !.ret = ret]]
    BY <1>1, <1>10 DEF LockInterrupted, ret
  <2> QED
    BY <1>1, <1>10, <2>1, <2>2 DEF LockInterrupted
<1>11. ASSUME NEW t \in Threads, WriteEvict(t) PROVE ThreadType'
  <2>1. CASE UNCHANGED call
    BY <1>1, <1>11, <2>1 DEF WriteEvict
  <2>2. CASE call' = [call EXCEPT ![t].pos = @ - InEntry.size]
    <3>1. call' = [call EXCEPT ![t] = [call[t] EXCEPT !.pos = call[t].pos - InEntry.size]]
      BY <1>1, <2>2
    <3>2. call[t].pos - InEntry.size \in Int
      BY <1>1, <1>2
    <3>3. [call[t] EXCEPT !.pos = call[t].pos - InEntry.size] \in CallType
      BY <1>2, <3>2, CallFields
    <3> QED
      BY <1>1, <1>11, <3>1, <3>3 DEF WriteEvict
  <2> QED
    BY <1>11, <2>1, <2>2 DEF WriteEvict
<1>12. ASSUME NEW t \in Threads, WriteNoMemory(t) PROVE ThreadType'
  <2>1. Unlock(t, ENOMEM, call[t].pos, call[t].buf) /\ UNCHANGED <<opened, f_pos>>
    BY <1>12 DEF WriteNoMemory
  <2> QED
    BY <1>1, <1>2, <2>1, UnlockType
<1>13. ASSUME NEW t \in Threads, WriteZero(t) PROVE ThreadType'
  <2>1. PICK ret \in {-1, 0} : Unlock(t, ret, call[t].pos, call[t].buf)
    BY <1>13 DEF WriteZero, UninitRet
  <2>2. UNCHANGED <<opened, f_pos>> /\ ret \in Int
    BY <1>13 DEF WriteZero
  <2> QED
    BY <1>1, <1>2, <2>1, <2>2, UnlockType
<1>14. ASSUME NEW t \in Threads, WriteFault(t) PROVE ThreadType'
  <2>1. Unlock(t, EFAULT, call[t].pos, call[t].buf) /\ UNCHANGED <<opened, f_pos>>
    BY <1>14 DEF WriteFault
  <2> QED
    BY <1>1, <1>2, <2>1, UnlockType
<1>15. ASSUME NEW t \in Threads, WriteStore(t) PROVE ThreadType'
  <2>1. Unlock(t, Len(call[t].buf), call[t].pos + Len(call[t].buf), call[t].buf) /\ UNCHANGED <<opened, f_pos>>
    BY <1>15 DEF WriteStore
  <2>2. Len(call[t].buf) \in Nat
    BY <1>2, LenProperties
  <2>3. Len(call[t].buf) \in Int /\ call[t].pos + Len(call[t].buf) \in Int
    <3>1. \A m \in Int, n \in Nat : n \in Int /\ m + n \in Int
      OBVIOUS
    <3> QED
      BY <1>2, <2>2, <3>1, Zenon
  <2> QED
    BY <1>1, <1>2, <2>1, <2>3, UnlockType
<1>16. ASSUME NEW t \in Threads, ReadCopy(t) PROVE ThreadType'
  <2> DEFINE hit == FindEntryOffsetForFpos(circ_buffer, call[t].pos)
             n   == ReadLength(hit.entry, hit.byte, call[t].count)
             buf == SubSeq(hit.entry.buffptr, hit.byte + 1, hit.byte + n)
  <2>1. pc[t] = "copy" /\ UNCHANGED <<opened, f_pos>>
    BY <1>16 DEF ReadCopy
  <2>2. CASE Unlock(t, 0, call[t].pos, <<>>)
    <3>1. 0 \in Int /\ <<>> \in Seq(Byte)
      BY EmptySeq
    <3> QED
      BY <1>1, <1>2, <2>1, <2>2, <3>1, UnlockType
  <2>3. CASE hit.found /\ Unlock(t, n, call[t].pos + n, buf)
    <3>1. n \in Nat \ {0} /\ buf \in Seq(Byte)
      BY <2>1, <2>3, ReadType
    <3> HIDE DEF n, buf
    <3>2. n \in Int /\ call[t].pos + n \in Int
      BY <1>2, <3>1
    <3> QED
      BY <1>1, <2>1, <2>3, <3>1, <3>2, UnlockType
  <2> QED
    BY <1>16, <2>2, <2>3 DEF ReadCopy
<1>17. ASSUME NEW t \in Threads, ReadSpin(t) PROVE ThreadType'
  BY <1>1, <1>17 DEF ReadSpin
<1>18. ASSUME NEW t \in Threads, IoctlSeek(t) PROVE ThreadType'
  <2> DEFINE offset == BufferFindOffset(circ_buffer, call[t].cmd, call[t].offset)
  <2>1. offset \in Int
    BY <1>1, <1>2, BufferFindOffsetType
  <2>2. /\ f_pos' = IF offset < 0 THEN f_pos ELSE [f_pos EXCEPT ![call[t].filp] = offset]
        /\ Unlock(t, offset, call[t].pos, call[t].buf) /\ UNCHANGED opened
    BY <1>18 DEF IoctlSeek
  <2> HIDE DEF offset
  <2>3. f_pos' \in [Files -> Int]
    BY <1>1, <2>1, <2>2
  <2> QED
    BY <1>1, <1>2, <2>1, <2>2, <2>3, UnlockType
<1>19. ASSUME NEW t \in Threads, Return(t) PROVE ThreadType'
  <2>1. f_pos' \in [Files -> Int]
    <3>1. CASE f_pos' = f_pos
      BY <1>1, <3>1
    <3>2. CASE f_pos' = [f_pos EXCEPT ![call[t].filp] = call[t].pos]
      BY <1>1, <1>2, <3>2
    <3> QED
      BY <1>19, <3>1, <3>2 DEF Return
  <2>2. NoCall \in CallType
    BY EmptySeq DEF NoCall, CallType
  <2> QED
    BY <1>1, <1>19, <2>1, <2>2 DEF Return
<1>20. CASE UNCHANGED vars
  BY <1>1, <1>20 DEF vars
<1> QED
  BY <1>3, <1>4, <1>5, <1>6, <1>7, <1>8, <1>9, <1>10, <1>11, <1>12, <1>13, <1>14, <1>15, <1>16, <1>17,
     <1>18, <1>19, <1>20 DEF Next, Client, KernelStep, Progress, Write, Read

-----------------------------------------------------------------------------
(* A step of one thread leaves the others where they are.                  *)
LEMMA OthersStay ==
  ASSUME IInv, NEW t \in Threads, KernelStep(t), NEW u \in Threads \ {t}
  PROVE  pc'[u] = pc[u] /\ call'[u] = call[u]
<1>1. pc \in [Threads -> {"idle", "lock", "return"} \cup Inside] /\ call \in [Threads -> CallType]
  BY DEF IInv, TypeOK
<1>2. CASE Lock(t) \/ LockInterrupted(t) \/ Return(t)
  BY <1>1, <1>2 DEF Lock, LockInterrupted, Return
<1>3. CASE WriteEvict(t) \/ ReadSpin(t)
  BY <1>1, <1>3 DEF WriteEvict, ReadSpin
<1>4. CASE \E ret, pos, buf : Unlock(t, ret, pos, buf)
  BY <1>1, <1>4 DEF Unlock
<1>5. WriteNoMemory(t) \/ WriteZero(t) \/ WriteFault(t) \/ WriteStore(t) \/ ReadCopy(t) \/ IoctlSeek(t)
        => \E ret, pos, buf : Unlock(t, ret, pos, buf)
  BY DEF WriteNoMemory, WriteZero, WriteFault, WriteStore, ReadCopy, IoctlSeek
<1> QED
  BY <1>2, <1>3, <1>4, <1>5 DEF KernelStep, Progress, Write, Read

(* The five kinds of step a thread takes, by what they do to the mutex.    *)
LEMMA StepKinds ==
  ASSUME IInv, NEW t \in Threads, KernelStep(t)
  PROVE  \/ /\ Lock(t) /\ pc'[t] \in {"evict", "copy", "seek"}
         \/ /\ pc[t] = "lock" /\ pc'[t] = "return" /\ UNCHANGED <<dev, mutex_lock>>
         \/ /\ pc[t] = "return" /\ pc'[t] = "idle" /\ UNCHANGED <<dev, mutex_lock>>
         \/ /\ pc[t] = "evict" /\ pc'[t] = "store" /\ mutex_lock' = mutex_lock /\ WriteEvict(t)
         \/ /\ pc[t] = "copy" /\ pc'[t] = "spin" /\ UNCHANGED <<dev, mutex_lock>>
         \/ /\ pc[t] \in Inside /\ pc'[t] = "return" /\ mutex_lock' = None
<1>1. pc \in [Threads -> {"idle", "lock", "return"} \cup Inside] /\ call[t] \in CallType
  BY DEF IInv, TypeOK
<1>2. CASE Lock(t)
  <2>1. call[t].op \in {"read", "write", "ioctl"}
    BY <1>1, <1>2 DEF IInv, OpMatches, Lock, CallType
  <2> QED
    BY <1>1, <1>2, <2>1 DEF Lock
<1>3. CASE LockInterrupted(t)
  BY <1>1, <1>3 DEF LockInterrupted, dev
<1>4. CASE Return(t)
  BY <1>1, <1>4 DEF Return, dev
<1>5. CASE WriteEvict(t)
  BY <1>1, <1>5 DEF WriteEvict
<1>6. CASE ReadSpin(t)
  BY <1>1, <1>6 DEF ReadSpin, dev
<1>7. CASE WriteNoMemory(t) \/ WriteZero(t) \/ WriteFault(t) \/ WriteStore(t) \/ ReadCopy(t) \/ IoctlSeek(t)
  <2>1. pc[t] \in Inside /\ \E ret, pos, buf : Unlock(t, ret, pos, buf)
    BY <1>7 DEF WriteNoMemory, WriteZero, WriteFault, WriteStore, ReadCopy, IoctlSeek
  <2>2. mutex_lock' = None /\ pc'[t] = "return"
    BY <1>1, <2>1 DEF Unlock
  <2> QED
    BY <2>1, <2>2
<1> QED
  BY <1>2, <1>3, <1>4, <1>5, <1>6, <1>7 DEF KernelStep, Progress, Write, Read

LEMMA LockStep ==
  ASSUME IInv, NEW t \in Threads, KernelStep(t)
  PROVE  LockHeldInside'
<1>1. \A u \in Threads : pc[u] \in Inside <=> mutex_lock = u
  BY DEF IInv, LockHeldInside
<1>2. \A u \in Threads \ {t} : pc'[u] = pc[u]
  BY OthersStay
<1>3. t # None /\ None \notin Threads
  BY ConstantsAssumption
<1>4. CASE Lock(t) /\ pc'[t] \in {"evict", "copy", "seek"}
  BY <1>1, <1>2, <1>3, <1>4 DEF Lock, LockHeldInside
<1>5. CASE mutex_lock' = mutex_lock /\ (pc[t] \in Inside <=> pc'[t] \in Inside)
  BY <1>1, <1>2, <1>5 DEF LockHeldInside
<1>6. CASE pc[t] \in Inside /\ pc'[t] = "return" /\ mutex_lock' = None
  BY <1>1, <1>2, <1>3, <1>6 DEF LockHeldInside
<1> QED
  BY <1>4, <1>5, <1>6, StepKinds

LEMMA LiveStep ==
  ASSUME IInv, NEW t \in Threads, KernelStep(t)
  PROVE  NoLiveBufferOverwritten'
<1> SUFFICES ASSUME NEW u \in Threads, pc'[u] = "store", write_entry_new_flag'
             PROVE  InEntry' = NoEntry
  BY DEF NoLiveBufferOverwritten
<1>1. \A v \in Threads : pc[v] \in Inside <=> mutex_lock = v
  BY DEF IInv, LockHeldInside
<1>2. CASE u = t
  <2>1. WriteEvict(t)
    BY <1>2, StepKinds
  <2> QED
    BY <2>1, EvictDev
<1>3. CASE u # t
  <2>1. pc[u] = "store" /\ mutex_lock = u /\ pc[t] \notin Inside
    BY <1>1, <1>3, OthersStay
  <2>2. UNCHANGED dev
    <3>1. u # None
      BY ConstantsAssumption
    <3>2. ~Lock(t)
      BY <2>1, <3>1 DEF Lock
    <3> QED
      BY <2>1, <3>2, StepKinds
  <2> QED
    BY <2>1, <2>2 DEF IInv, NoLiveBufferOverwritten, InEntry, dev
<1> QED
  BY <1>2, <1>3

LEMMA CallStep ==
  ASSUME IInv, NEW t \in Threads, KernelStep(t)
  PROVE  ReadsForward' /\ OpMatches'
<1>1. \A u \in Threads \ {t} : pc'[u] = pc[u] /\ call'[u] = call[u]
  BY OthersStay
<1>2. pc'[t] # "lock"
  BY StepKinds
<1>3. pc'[t] = "copy" => pc[t] = "lock" /\ call[t].op = "read" /\ call' = call
  <2> SUFFICES ASSUME pc'[t] = "copy" PROVE pc[t] = "lock" /\ call[t].op = "read" /\ call' = call
    OBVIOUS
  <2>1. Lock(t)
    BY StepKinds
  <2>2. call[t].op \in {"read", "write", "ioctl"}
    BY <2>1 DEF IInv, TypeOK, CallType, OpMatches, Lock
  <2> QED
    BY <2>1, <2>2 DEF IInv, TypeOK, Lock
<1>4. ReadsForward /\ OpMatches
  BY DEF IInv
<1> QED
  BY <1>1, <1>2, <1>3, <1>4 DEF ReadsForward, OpMatches

(* A client's step enters a handler and touches nothing of the device.     *)
LEMMA ClientStep ==
  ASSUME IInv, Client
  PROVE  /\ UNCHANGED <<dev, mutex_lock>>
         /\ \A u \in Threads : /\ pc'[u] # pc[u] => pc[u] = "idle" /\ pc'[u] \in {"lock", "return"}
                               /\ pc[u] # "idle" => call'[u] = call[u]
         /\ ReadsForward' /\ OpMatches'
<1>1. /\ pc \in [Threads -> {"idle", "lock", "return"} \cup Inside] /\ call \in [Threads -> CallType]
      /\ f_pos \in [Files -> Int] /\ ReadsForward /\ OpMatches
  BY DEF IInv, TypeOK
<1>2. UNCHANGED <<dev, mutex_lock>>
  <2>1. \A t \in Threads, f \in Files : \A cmd \in SeekCmds, offset \in SeekCmdOffsets :
          IoctlCall(t, f, cmd, offset) => UNCHANGED <<dev, mutex_lock>>
    BY DEF IoctlCall, Enter
  <2> QED
    BY <2>1 DEF Client, AesdOpen, AesdRelease, AesdLlseek, ReadCall, WriteCall, Enter
<1>3. CASE UNCHANGED <<pc, call>>
  BY <1>1, <1>2, <1>3 DEF ReadsForward, OpMatches
<1>4. ASSUME NEW t \in Threads, NEW f \in Files, NEW count \in ReadCounts, ReadCall(t, f, count)
      PROVE  /\ \A u \in Threads : /\ pc'[u] # pc[u] => pc[u] = "idle" /\ pc'[u] \in {"lock", "return"}
                                   /\ pc[u] # "idle" => call'[u] = call[u]
             /\ ReadsForward' /\ OpMatches'
  <2>1. /\ pc[t] = "idle" /\ pc'[t] = "lock" /\ call'[t].op = "read" /\ call'[t].pos \in Nat
        /\ \A u \in Threads \ {t} : pc'[u] = pc[u] /\ call'[u] = call[u]
    BY <1>1, <1>4 DEF ReadCall, Enter, NoCall
  <2> QED
    BY <1>1, <2>1 DEF ReadsForward, OpMatches
<1>5. ASSUME NEW t \in Threads, NEW f \in Files, NEW data \in WriteInputs, WriteCall(t, f, data)
      PROVE  /\ \A u \in Threads : /\ pc'[u] # pc[u] => pc[u] = "idle" /\ pc'[u] \in {"lock", "return"}
                                   /\ pc[u] # "idle" => call'[u] = call[u]
             /\ ReadsForward' /\ OpMatches'
  <2>1. /\ pc[t] = "idle" /\ pc'[t] = "lock" /\ call'[t].op = "write"
        /\ \A u \in Threads \ {t} : pc'[u] = pc[u] /\ call'[u] = call[u]
    BY <1>1, <1>5 DEF WriteCall, Enter, NoCall
  <2> QED
    BY <1>1, <2>1 DEF ReadsForward, OpMatches
<1>6. ASSUME NEW t \in Threads, NEW f \in Files, NEW cmd \in SeekCmds, NEW offset \in SeekCmdOffsets,
             IoctlCall(t, f, cmd, offset)
      PROVE  /\ \A u \in Threads : /\ pc'[u] # pc[u] => pc[u] = "idle" /\ pc'[u] \in {"lock", "return"}
                                   /\ pc[u] # "idle" => call'[u] = call[u]
             /\ ReadsForward' /\ OpMatches'
  <2>1. /\ pc[t] = "idle" /\ pc'[t] \in {"lock", "return"} /\ call'[t].op = "ioctl"
        /\ \A u \in Threads \ {t} : pc'[u] = pc[u] /\ call'[u] = call[u]
    BY <1>1, <1>6 DEF IoctlCall, Enter, NoCall
  <2> QED
    BY <1>1, <2>1 DEF ReadsForward, OpMatches
<1>7. \/ UNCHANGED <<pc, call>>
      \/ \E t \in Threads, f \in Files :
           \/ \E count \in ReadCounts : ReadCall(t, f, count)
           \/ \E data \in WriteInputs : WriteCall(t, f, data)
           \/ \E cmd \in SeekCmds, offset \in SeekCmdOffsets : IoctlCall(t, f, cmd, offset)
  BY DEF Client, AesdOpen, AesdRelease, AesdLlseek
<1> QED
  BY <1>2, <1>3, <1>4, <1>5, <1>6, <1>7

LEMMA DevStep == IInv /\ [Next]_vars => DevInv'
<1> SUFFICES ASSUME IInv, [Next]_vars PROVE DevInv'
  OBVIOUS
<1>1. CASE UNCHANGED dev
  BY <1>1 DEF IInv, DevInv, dev, RingShape, EntriesWhole, NoHoles, SizeCoversData
<1>2. ASSUME NEW t \in Threads, WriteEvict(t) PROVE DevInv'
  BY <1>2, EvictDev
<1>3. ASSUME NEW t \in Threads, WriteFault(t) PROVE DevInv'
  BY <1>3, FaultDev
<1>4. ASSUME NEW t \in Threads, WriteStore(t) PROVE DevInv'
  BY <1>4, StoreDev
<1>5. ASSUME NEW t \in Threads, KernelStep(t)
      PROVE  UNCHANGED dev \/ WriteEvict(t) \/ WriteFault(t) \/ WriteStore(t)
  BY <1>5 DEF KernelStep, Progress, Write, Read, Lock, LockInterrupted, WriteNoMemory, WriteZero,
              ReadCopy, ReadSpin, IoctlSeek, Return
<1>6. CASE Client
  BY <1>1, <1>6, ClientStep
<1>7. CASE UNCHANGED vars
  BY <1>1, <1>7 DEF vars, dev
<1> QED
  BY <1>1, <1>2, <1>3, <1>4, <1>5, <1>6, <1>7 DEF Next

(* The invariant is inductive.                                             *)
LEMMA NextInv == IInv /\ [Next]_vars => IInv'
<1> SUFFICES ASSUME IInv, [Next]_vars PROVE IInv'
  OBVIOUS
<1>1. DevInv' /\ ThreadType'
  BY DevStep, ThreadTypeStep
<1>2. TypeOK'
  BY <1>1 DEF DevInv, ThreadType, TypeOK
<1>3. CASE Client
  <2>1. UNCHANGED <<dev, mutex_lock>> /\ ReadsForward' /\ OpMatches'
    BY <1>3, ClientStep
  <2>2. \A u \in Threads : pc'[u] # pc[u] => pc[u] = "idle" /\ pc'[u] \in {"lock", "return"}
    BY <1>3, ClientStep
  <2>3. LockHeldInside'
    BY <2>1, <2>2 DEF IInv, LockHeldInside
  <2>4. NoLiveBufferOverwritten'
    BY <2>1, <2>2 DEF IInv, NoLiveBufferOverwritten, InEntry, dev
  <2> QED
    BY <1>1, <1>2, <2>1, <2>3, <2>4 DEF IInv
<1>4. ASSUME NEW t \in Threads, KernelStep(t) PROVE IInv'
  BY <1>1, <1>2, <1>4, LockStep, LiveStep, CallStep DEF IInv
<1>5. CASE UNCHANGED vars
  BY <1>1, <1>2, <1>5 DEF IInv, vars, ReadsForward, OpMatches, LockHeldInside,
                          NoLiveBufferOverwritten, InEntry
<1> QED
  BY <1>3, <1>4, <1>5 DEF Next

THEOREM Invariance == Spec => []IInv
<1> QED
  BY InitInv, NextInv, PTL DEF Spec

-----------------------------------------------------------------------------
(* Every variable keeps its type; in particular size, an unsigned long     *)
(* from which aesd_write subtracts the sizes of entries, never wraps.      *)
THEOREM TypeCorrect == Spec => []TypeOK
<1>1. IInv => TypeOK
  BY DEF IInv
<1> QED
  BY <1>1, Invariance, PTL

(* in_offs, out_offs, full and write_entry_new_flag always agree on which  *)
(* slots hold commands.                                                    *)
THEOREM RingShapeCorrect == Spec => []RingShape
<1>1. IInv => RingShape
  BY DEF IInv, DevInv
<1> QED
  BY <1>1, Invariance, PTL

(* Every entry's size is the length of its memory, whatever write failed,  *)
(* and every command but the one being written ends in '\n'.               *)
THEOREM EntriesWholeCorrect == Spec => []EntriesWhole
<1>1. IInv => EntriesWhole
  BY DEF IInv, DevInv
<1> QED
  BY <1>1, Invariance, PTL

(* Failed and empty writes leave no hole among the stored commands.        *)
THEOREM NoHolesCorrect == Spec => []NoHoles
<1>1. IInv => NoHoles
  BY DEF IInv, DevInv
<1> QED
  BY <1>1, Invariance, PTL

(* The memory of a command is freed before its slot is reused.             *)
THEOREM NoLeak == Spec => []NoLiveBufferOverwritten
<1>1. IInv => NoLiveBufferOverwritten
  BY DEF IInv
<1> QED
  BY <1>1, Invariance, PTL

(* One thread at a time is inside, and it holds the mutex.                 *)
THEOREM MutualExclusion == Spec => []LockHeldInside
<1>1. IInv => LockHeldInside
  BY DEF IInv
<1> QED
  BY <1>1, Invariance, PTL

(* Every byte a reader can reach lies before SEEK_END.                     *)
THEOREM SizeCovers == Spec => []SizeCoversData
<1>1. IInv => SizeCoversData
  BY DEF IInv, DevInv
<1> QED
  BY <1>1, Invariance, PTL

-----------------------------------------------------------------------------
LEMMA WriteMovesBoth ==
  ASSUME IInv, NEW t \in Threads, pc[t] \in {"evict", "store"}, KernelStep(t)
  PROVE  call'[t].pos - size' = call[t].pos - size
<1>1. /\ call[t] \in CallType /\ call[t].pos \in Int /\ call[t].buf \in Seq(Byte) /\ size \in Nat
      /\ call \in [Threads -> CallType] /\ InEntry.size \in Nat
  BY DEF IInv, DevInv, TypeOK, CallType, InEntry, CircularBuffer, BufferEntry
<1>2. ASSUME NEW ret, NEW pos, NEW buf, Unlock(t, ret, pos, buf) PROVE call'[t].pos = pos
  BY <1>1, <1>2 DEF Unlock, CallType
<1>3. CASE WriteEvict(t)
  <2>1. CASE UNCHANGED <<size, call>>
    BY <2>1
  <2>2. CASE size' = size - InEntry.size /\ call' = [call EXCEPT ![t].pos = @ - InEntry.size]
    <3>1. call'[t].pos = call[t].pos - InEntry.size
      BY <1>1, <2>2 DEF CallType
    <3>2. \A m \in Int, s, n \in Nat : (m - n) - (s - n) = m - s
      OBVIOUS
    <3>3. call'[t].pos - size' = (call[t].pos - InEntry.size) - (size - InEntry.size)
      BY <2>2, <3>1
    <3>4. (call[t].pos - InEntry.size) - (size - InEntry.size) = call[t].pos - size
      BY <1>1, <3>2
    <3> QED
      BY <3>3, <3>4
  <2> QED
    BY <1>3, <2>1, <2>2 DEF WriteEvict
<1>4. CASE WriteNoMemory(t) \/ WriteZero(t) \/ WriteFault(t)
  <2>1. size' = size /\ \E ret : Unlock(t, ret, call[t].pos, call[t].buf)
    BY <1>4 DEF WriteNoMemory, WriteZero, WriteFault, dev
  <2> QED
    BY <1>2, <2>1
<1>5. CASE WriteStore(t)
  <2> DEFINE count == Len(call[t].buf)
  <2>1. size' = size + count /\ Unlock(t, count, call[t].pos + count, call[t].buf)
    BY <1>5 DEF WriteStore
  <2>2. count \in Nat
    BY <1>1, LenProperties
  <2>3. call'[t].pos = call[t].pos + count
    BY <1>2, <2>1
  <2>4. \A m \in Int, s, n \in Nat : (m + n) - (s + n) = m - s
    OBVIOUS
  <2> HIDE DEF count
  <2>5. call'[t].pos - size' = (call[t].pos + count) - (size + count)
    BY <2>1, <2>3
  <2>6. (call[t].pos + count) - (size + count) = call[t].pos - size
    BY <1>1, <2>2, <2>4
  <2> QED
    BY <2>5, <2>6
<1>6. ~ (Lock(t) \/ LockInterrupted(t) \/ Read(t) \/ IoctlSeek(t) \/ Return(t))
  BY DEF Lock, LockInterrupted, Read, ReadCopy, ReadSpin, IoctlSeek, Return
<1> QED
  BY <1>3, <1>4, <1>5, <1>6 DEF KernelStep, Progress, Write

(* A write keeps its position as far from the end of the device as it      *)
(* found it, whatever it stores, evicts or fails at, and whatever other    *)
(* threads do meanwhile: none of them can touch size.                      *)
THEOREM PositionFollowsSize == Spec => PosTracksSize
<1> DEFINE Kept == \A t \in Threads :
             pc[t] \in {"evict", "store"} => call'[t].pos - size' = call[t].pos - size
<1>1. IInv /\ [Next]_vars => [Kept]_vars
  <2> SUFFICES ASSUME IInv, Next, NEW t \in Threads, pc[t] \in {"evict", "store"}
               PROVE  call'[t].pos - size' = call[t].pos - size
    OBVIOUS
  <2>1. CASE Client
    <3>1. UNCHANGED dev
      BY <2>1, ClientStep
    <3>2. call'[t] = call[t]
      BY <2>1, ClientStep
    <3> QED
      BY <3>1, <3>2 DEF dev
  <2>2. ASSUME NEW u \in Threads, KernelStep(u) PROVE call'[t].pos - size' = call[t].pos - size
    <3>1. CASE u = t
      BY <2>2, <3>1, WriteMovesBoth
    <3>2. CASE u # t
      <4>1. call'[t] = call[t]
        BY <2>2, <3>2, OthersStay
      <4>2. mutex_lock = t /\ pc[u] \notin Inside /\ t # None
        BY <3>2, ConstantsAssumption DEF IInv, LockHeldInside
      <4>3. UNCHANGED dev
        BY <2>2, <4>2, StepKinds DEF Lock
      <4> QED
        BY <4>1, <4>3 DEF dev
    <3> QED
      BY <3>1, <3>2
  <2> QED
    BY <2>1, <2>2 DEF Next
<1>2. PosTracksSize <=> [][Kept]_vars
  BY PTL DEF PosTracksSize
<1> QED
  BY <1>1, <1>2, Invariance, PTL DEF Spec

-----------------------------------------------------------------------------
(* The driver implements CommandLog, and its calls return what the         *)
(* commands it holds, put end to end, contain.                             *)

LEMMA ReadOff ==
  /\ Commands = CommandsIn(circ_buffer, write_entry_new_flag)
  /\ Partial = PartialIn(circ_buffer, write_entry_new_flag)
BY DEF Commands, CommandsIn, Complete, CompleteIn, Oldest, OldestIn, Partial, PartialIn, BeingWritten

LEMMA ReadOffNext ==
  /\ Commands' = CommandsIn(circ_buffer', write_entry_new_flag')
  /\ Partial' = PartialIn(circ_buffer', write_entry_new_flag')
BY DEF Commands, CommandsIn, Complete, CompleteIn, Oldest, OldestIn, Partial, PartialIn, BeingWritten

-----------------------------------------------------------------------------
(* A thread brings to aesd_write what a client may write.                  *)
BringsInput ==
  \A t \in Threads :
    (pc[t] = "lock" /\ call[t].op = "write") \/ pc[t] \in {"evict", "store"}
      => call[t].buf \in WriteInputs

LogInv == IInv /\ BringsInput

LEMMA BringsInputClient == LogInv /\ Client => BringsInput'
<1> SUFFICES ASSUME LogInv, Client PROVE BringsInput'
  OBVIOUS
<1>1. /\ pc \in [Threads -> {"idle", "lock", "return"} \cup Inside]
      /\ call \in [Threads -> CallType] /\ BringsInput
  BY DEF LogInv, IInv, TypeOK
<1>2. CASE UNCHANGED <<pc, call>>
  BY <1>1, <1>2 DEF BringsInput
<1>3. ASSUME NEW t \in Threads, NEW f \in Files, NEW request,
             request.op # "write" \/ request.buf \in WriteInputs,
             Enter(t, f, request), \E where \in {"lock", "return"} : pc' = [pc EXCEPT ![t] = where]
      PROVE  BringsInput'
  <2>1. /\ call'[t] = request /\ pc'[t] \in {"lock", "return"}
        /\ \A u \in Threads \ {t} : pc'[u] = pc[u] /\ call'[u] = call[u]
    BY <1>1, <1>3 DEF Enter
  <2> QED  BY <1>1, <1>3, <2>1 DEF BringsInput
<1>4. ASSUME NEW t \in Threads, NEW f \in Files, NEW count \in ReadCounts, ReadCall(t, f, count)
      PROVE  BringsInput'
  BY <1>3, <1>4 DEF ReadCall, NoCall
<1>5. ASSUME NEW t \in Threads, NEW f \in Files, NEW data \in WriteInputs, WriteCall(t, f, data)
      PROVE  BringsInput'
  BY <1>3, <1>5 DEF WriteCall, NoCall
<1>6. ASSUME NEW t \in Threads, NEW f \in Files, NEW cmd \in SeekCmds, NEW offset \in SeekCmdOffsets,
             IoctlCall(t, f, cmd, offset)
      PROVE  BringsInput'
  <2> DEFINE request == [NoCall EXCEPT !.op = "ioctl", !.filp = f, !.cmd = cmd, !.offset = offset]
  <2>1. request.op = "ioctl" /\ \A err : [request EXCEPT !.ret = err].op = "ioctl"
    BY DEF NoCall
  <2>2. \/ \E err \in {EFAULT, EINVAL} :
             Enter(t, f, [request EXCEPT !.ret = err]) /\ pc' = [pc EXCEPT ![t] = "return"]
        \/ Enter(t, f, request) /\ pc' = [pc EXCEPT ![t] = "lock"]
    BY <1>6 DEF IoctlCall
  <2> HIDE DEF request
  <2> QED  BY <1>3, <2>1, <2>2
<1>7. \/ UNCHANGED <<pc, call>>
      \/ \E t \in Threads, f \in Files :
           \/ \E count \in ReadCounts : ReadCall(t, f, count)
           \/ \E data \in WriteInputs : WriteCall(t, f, data)
           \/ \E cmd \in SeekCmds, offset \in SeekCmdOffsets : IoctlCall(t, f, cmd, offset)
  BY DEF Client, AesdOpen, AesdRelease, AesdLlseek
<1> QED  BY <1>2, <1>4, <1>5, <1>6, <1>7

LEMMA BringsInputKernel ==
  ASSUME LogInv, NEW t \in Threads, KernelStep(t)
  PROVE  BringsInput'
<1>1. /\ pc \in [Threads -> {"idle", "lock", "return"} \cup Inside]
      /\ call \in [Threads -> CallType] /\ BringsInput
  BY DEF LogInv, IInv, TypeOK
<1>2. \A u \in Threads \ {t} : pc'[u] = pc[u] /\ call'[u] = call[u]
  BY OthersStay DEF LogInv
<1>3. pc'[t] # "lock"
  BY StepKinds DEF LogInv
<1>4. ASSUME pc'[t] = "evict" PROVE call'[t].buf \in WriteInputs
  <2>1. Lock(t) /\ call[t].op \in {"read", "write", "ioctl"}
    <3>1. Lock(t)
      BY <1>4, StepKinds DEF LogInv
    <3> QED  BY <3>1 DEF Lock, LogInv, IInv, TypeOK, CallType, OpMatches
  <2>2. call[t].op = "write" /\ call' = call
    BY <1>1, <1>4, <2>1 DEF Lock
  <2> QED  BY <1>1, <2>1, <2>2 DEF BringsInput, Lock
<1>5. ASSUME pc'[t] = "store" PROVE call'[t].buf \in WriteInputs
  <2>1. WriteEvict(t)
    BY <1>5, StepKinds DEF LogInv
  <2>2. call'[t].buf = call[t].buf
    BY <1>1, <2>1 DEF WriteEvict, CallType
  <2> QED  BY <1>1, <2>1, <2>2 DEF BringsInput, WriteEvict
<1> QED  BY <1>2, <1>3, <1>4, <1>5, <1>1 DEF BringsInput

LEMMA LogInvInitial == Init => LogInv
BY InitInv DEF LogInv, BringsInput, Init

LEMMA LogInvStep == LogInv /\ [Next]_vars => LogInv'
<1> SUFFICES ASSUME LogInv, [Next]_vars PROVE LogInv'
  OBVIOUS
<1>1. IInv'
  BY NextInv DEF LogInv
<1>2. CASE UNCHANGED vars
  BY <1>1, <1>2 DEF LogInv, BringsInput, vars
<1> QED  BY <1>1, <1>2, BringsInputClient, BringsInputKernel DEF LogInv, Next

LEMMA LogInvariance == Spec => []LogInv
BY LogInvInitial, LogInvStep, PTL DEF Spec

-----------------------------------------------------------------------------
LEMMA DevShape ==
  ASSUME IInv
  PROVE  /\ circ_buffer \in CircularBuffer /\ write_entry_new_flag \in BOOLEAN
         /\ Shaped(circ_buffer, write_entry_new_flag)
         /\ RingShape /\ EntriesWhole /\ NoHoles
<1>1. /\ circ_buffer \in CircularBuffer /\ write_entry_new_flag \in BOOLEAN
      /\ RingShape /\ EntriesWhole /\ NoHoles
  BY DEF IInv, DevInv
<1> QED  BY <1>1 DEF RingShape, Shaped

(* The driver starts with no command and none begun.                       *)
LEMMA LogInit == Init => Log!Init
<1> SUFFICES ASSUME Init PROVE Log!Init
  OBVIOUS
<1>1. circ_buffer \in CircularBuffer /\ Shaped(circ_buffer, TRUE)
  BY InitInv, DevShape DEF Init
<1>2. CompleteIn(circ_buffer, TRUE) = 0
  BY DEF Init, BufferInit, CompleteIn
<1>3. CommandsIn(circ_buffer, TRUE) = <<>>
  <2>1. CommandsIn(circ_buffer, TRUE) \in Seq(Seq(Byte)) /\ Len(CommandsIn(circ_buffer, TRUE)) = 0
    BY <1>1, <1>2, CommandsProperties
  <2> QED  BY <2>1, EmptySeq
<1>4. PartialIn(circ_buffer, TRUE) = <<>>
  BY DEF PartialIn
<1> QED  BY <1>3, <1>4, ReadOff DEF Init, Log!Init

(* The eviction of a full ring's oldest entry is DropOldest.               *)
LEMMA EvictRefines ==
  ASSUME LogInv, NEW t \in Threads, WriteEvict(t)
  PROVE  Log!DropOldest \/ UNCHANGED Log!logvars
<1> DEFINE b == circ_buffer
           in == circ_buffer.in_offs
<1>1. /\ b \in CircularBuffer /\ in \in Slots /\ b.entry \in [Slots -> BufferEntry]
      /\ Shaped(b, write_entry_new_flag)
  BY DevShape DEF LogInv, CircularBuffer
<1>2. CASE b.full /\ write_entry_new_flag /\ InEntry.buffptr # NULL
  <2>1. /\ circ_buffer' = [b EXCEPT !.entry[in] = NoEntry]
        /\ write_entry_new_flag = TRUE /\ write_entry_new_flag' = TRUE
    BY <1>2, DevShape DEF WriteEvict, InEntry, LogInv
  <2>2. /\ circ_buffer' \in CircularBuffer
        /\ circ_buffer'.in_offs = in /\ circ_buffer'.out_offs = b.out_offs /\ circ_buffer'.full
        /\ circ_buffer'.entry[in] = NoEntry
        /\ \A r \in Slots \ {in} : circ_buffer'.entry[r] = b.entry[r]
    BY <1>1, <1>2, <2>1, NoEntryType DEF CircularBuffer
  <2>3. /\ Len(CommandsIn(b, TRUE)) = MaxWriteOps
        /\ CommandsIn(circ_buffer', TRUE) = Tail(CommandsIn(b, TRUE))
    BY <1>1, <1>2, <2>1, <2>2, EvictCommands DEF InEntry
  <2>4. /\ Commands = CommandsIn(b, TRUE) /\ Partial = <<>>
        /\ Commands' = CommandsIn(circ_buffer', TRUE) /\ Partial' = <<>>
    BY <2>1, ReadOff, ReadOffNext DEF PartialIn
  <2>5. Len(Commands) = MaxWriteOps /\ Commands' = Tail(Commands)
    BY <2>3, <2>4
  <2>6. Log!Held = MaxWriteOps
    <3>1. Partial = <<>> /\ Len(Commands) = MaxWriteOps /\ MaxWriteOps \in Nat
      BY <2>4, <2>5, MaxWriteOpsAssumption
    <3>2. Log!Held = Len(Commands) + 0
      BY <3>1 DEF Log!Held
    <3> QED  BY <3>1, <3>2
  <2>7. UNCHANGED Partial
    BY <2>4
  <2> QED  BY <2>4, <2>5, <2>6, <2>7 DEF Log!DropOldest
<1>3. CASE ~ (b.full /\ write_entry_new_flag /\ InEntry.buffptr # NULL)
  <2>1. UNCHANGED dev
    BY <1>3 DEF WriteEvict, dev
  <2> QED  BY <2>1, ReadOff, ReadOffNext DEF dev, Log!logvars
<1> QED  BY <1>2, <1>3

(* A fault while a command is being written is LosePartial, once.          *)
LEMMA FaultRefines ==
  ASSUME LogInv, NEW t \in Threads, WriteFault(t)
  PROVE  Log!LosePartial \/ UNCHANGED Log!logvars
<1> DEFINE b == circ_buffer
           in == circ_buffer.in_offs
<1>1. /\ b \in CircularBuffer /\ in \in Slots /\ b.entry \in [Slots -> BufferEntry]
      /\ write_entry_new_flag \in BOOLEAN /\ Shaped(b, write_entry_new_flag)
  BY DevShape DEF LogInv, CircularBuffer
<1>2. CASE write_entry_new_flag
  <2>1. UNCHANGED dev
    BY <1>2 DEF WriteFault, dev
  <2> QED  BY <2>1, ReadOff, ReadOffNext DEF dev, Log!logvars
<1>3. CASE ~write_entry_new_flag
  <2>1. /\ circ_buffer' = [b EXCEPT !.entry[in] = NoEntry]
        /\ write_entry_new_flag = FALSE /\ write_entry_new_flag' = FALSE
    BY <1>1, <1>3 DEF WriteFault
  <2>2. /\ circ_buffer' \in CircularBuffer
        /\ circ_buffer'.in_offs = in /\ circ_buffer'.out_offs = b.out_offs /\ circ_buffer'.full = b.full
        /\ circ_buffer'.entry[in] = NoEntry
        /\ \A r \in Slots \ {in} : circ_buffer'.entry[r] = b.entry[r]
    BY <1>1, <2>1, NoEntryType DEF CircularBuffer
  <2>3. CommandsIn(circ_buffer', FALSE) = CommandsIn(b, FALSE)
    BY <1>1, <2>1, <2>2, FaultCommands
  <2>4. PartialIn(circ_buffer', FALSE) = <<>>
    BY <2>2, NoEntryType DEF PartialIn, NULL
  <2>5. Commands' = Commands /\ Partial' = <<>>
    BY <2>1, <2>3, <2>4, ReadOff, ReadOffNext
  <2> QED  BY <2>5 DEF Log!LosePartial, Log!logvars
<1> QED  BY <1>2, <1>3

(* What aesd_write stores extends the command being written, and completes *)
(* it when it ends in '\n'.                                                *)
LEMMA StoreRefines ==
  ASSUME LogInv, NEW t \in Threads, WriteStore(t)
  PROVE  call[t].buf \in WriteInputs \ {<<>>} /\ Log!Write(call[t].buf)
<1> DEFINE b == circ_buffer
           in == circ_buffer.in_offs
           flag == write_entry_new_flag
           data == call[t].buf
           part == PartialIn(b, flag)
           entry == IF flag THEN [buffptr |-> data, size |-> Len(data)]
                    ELSE [buffptr |-> InEntry.buffptr \o data, size |-> Len(data) + InEntry.size]
           complete == entry.buffptr[entry.size] = NL
           c == circ_buffer'
<1>1. /\ b \in CircularBuffer /\ in \in Slots /\ b.entry[in] \in BufferEntry
      /\ flag \in BOOLEAN /\ Shaped(b, flag) /\ EntriesWhole /\ NoHoles
      /\ c \in CircularBuffer
  BY DevShape, StoreDev DEF LogInv, CircularBuffer, DevInv
<1>2. data \in WriteInputs /\ data \in Seq(Byte) /\ data # <<>>
  BY DEF LogInv, BringsInput, IInv, TypeOK, CallType, WriteStore
<1>3. Len(data) \in Nat /\ Len(data) >= 1
  BY <1>2, EmptySeq
<1>4. b.entry[in].buffptr \in Seq(Byte) /\ b.entry[in].size = Len(b.entry[in].buffptr)
      /\ Len(b.entry[in].buffptr) \in Nat
  BY <1>1, EmptySeq DEF BufferEntry, EntriesWhole
<1>5. flag => b.entry[in].buffptr = NULL
  BY NoEntryType DEF LogInv, IInv, NoLiveBufferOverwritten, WriteStore, InEntry
<1>6. part \in Seq(Byte) /\ Len(part) \in Nat
  BY <1>1, <1>4, EmptySeq DEF PartialIn
<1>7. /\ part \o data \in Seq(Byte) /\ Len(part \o data) = Len(part) + Len(data)
      /\ \A i \in 1 .. Len(part) + Len(data) :
           (part \o data)[i] = IF i <= Len(part) THEN part[i] ELSE data[i - Len(part)]
  <2> HIDE DEF part, data
  <2> QED  BY <1>2, <1>6, ConcatProperties
<1>8. entry.buffptr = part \o data /\ entry.size = Len(part) + Len(data)
  <2>1. CASE flag
    <3>1. part = <<>> /\ entry = [buffptr |-> data, size |-> Len(data)]
      BY <2>1 DEF PartialIn
    <3>2. <<>> \o data = data /\ Len(<<>>) = 0
      BY <1>2, ConcatEmptySeq, EmptySeq
    <3> HIDE DEF part, entry, data
    <3>3. Len(part) + Len(data) = Len(data)
      BY <1>3, <3>1, <3>2
    <3> QED  BY <3>1, <3>2, <3>3
  <2>2. CASE ~flag
    <3>1. /\ part = b.entry[in].buffptr
          /\ entry = [buffptr |-> part \o data, size |-> Len(data) + Len(part)]
      BY <1>4, <2>2 DEF PartialIn, InEntry
    <3> HIDE DEF part, entry, data
    <3>2. Len(data) + Len(part) = Len(part) + Len(data)
      BY <1>3, <1>6
    <3> QED  BY <3>1, <3>2
  <2> QED  BY <2>1, <2>2
<1>9. entry \in BufferEntry
  <2>1. entry = [buffptr |-> entry.buffptr, size |-> entry.size]
    OBVIOUS
  <2> HIDE DEF entry, part, data
  <2>2. entry.buffptr \in Seq(Byte) /\ entry.size \in Nat
    BY <1>3, <1>6, <1>7, <1>8
  <2> QED  BY <2>1, <2>2 DEF BufferEntry
<1>10. c = AddEntry(b, entry, complete, flag) /\ write_entry_new_flag' = complete /\ complete \in BOOLEAN
  BY DEF WriteStore
<1>11. Commands = CommandsIn(b, flag) /\ Partial = part
  BY ReadOff
<1>12. Commands' = CommandsIn(c, complete) /\ Partial' = PartialIn(c, complete)
  BY <1>10, ReadOffNext
<1> HIDE DEF entry, part, data
<1>13. complete <=> Log!EndsInNL(data)
  <2>1. entry.buffptr[entry.size] = data[Len(data)]
    <3>1. Len(part) + Len(data) \in 1 .. Len(part) + Len(data)
      BY <1>3, <1>6
    <3>2. (part \o data)[Len(part) + Len(data)] = data[(Len(part) + Len(data)) - Len(part)]
      <4>1. ~ (Len(part) + Len(data) <= Len(part))
        BY <1>3, <1>6
      <4> QED  BY <1>7, <3>1, <4>1
    <3>3. (Len(part) + Len(data)) - Len(part) = Len(data)
      BY <1>3, <1>6
    <3> QED  BY <1>8, <3>2, <3>3
  <2> QED  BY <2>1 DEF Log!EndsInNL
<1>14. entry.buffptr # NULL
  <2>1. Len(part \o data) # 0
    BY <1>3, <1>6, <1>7
  <2> QED  BY <1>8, <2>1, EmptySeq DEF NULL
<1> HIDE DEF complete
<1>15. /\ CompleteIn(b, flag) < MaxWriteOps
       /\ CommandsIn(c, complete) = IF complete THEN Append(CommandsIn(b, flag), entry.buffptr)
                                    ELSE CommandsIn(b, flag)
       /\ PartialIn(c, complete) = IF complete THEN <<>> ELSE entry.buffptr
  <2>1. \A s \in Slots \ {in} : b.full \/ s < in => b.entry[s].buffptr # NULL
    BY <1>1 DEF NoHoles
  <2>2. CanStore(b, flag)
    BY <1>1, <1>5, <2>1 DEF CanStore
  <2>3. \A new, whole \in BOOLEAN, e \in BufferEntry, d \in CircularBuffer :
          CanStore(b, new) /\ e.buffptr # NULL /\ d = AddEntry(b, e, whole, new) =>
            /\ CompleteIn(b, new) < MaxWriteOps
            /\ CommandsIn(d, whole) = IF whole THEN Append(CommandsIn(b, new), e.buffptr)
                                      ELSE CommandsIn(b, new)
            /\ PartialIn(d, whole) = IF whole THEN <<>> ELSE e.buffptr
    <3> HIDE DEF b, c, in
    <3> QED  BY <1>1, StoreCommands
  <2> HIDE DEF b, c, in, flag
  <2> QED  BY <1>1, <1>9, <1>10, <1>14, <2>2, <2>3
<1>16. Len(Commands) < MaxWriteOps
  BY <1>1, <1>11, <1>15, CommandsProperties
<1>17. Partial # <<>> \/ Log!Held < MaxWriteOps
  <2>1. Len(Commands) \in Nat
    BY <1>1, <1>11, CommandsProperties, EmptySeq
  <2> QED  BY <1>16, <2>1 DEF Log!Held
<1>18. complete => Commands' = Append(Commands, Partial \o data) /\ Partial' = <<>>
  BY <1>8, <1>10, <1>11, <1>12, <1>15 DEF PartialIn
<1>19. ~complete => Commands' = Commands /\ Partial' = Partial \o data
  BY <1>8, <1>10, <1>11, <1>12, <1>15
<1>20. Log!Write(data)
  BY <1>13, <1>17, <1>18, <1>19 DEF Log!Write
<1> QED  BY <1>2, <1>20 DEF data

LEMMA LogStep == LogInv /\ [Next]_vars => [Log!Next]_(Log!logvars)
<1> SUFFICES ASSUME LogInv, [Next]_vars PROVE Log!Next \/ UNCHANGED Log!logvars
  OBVIOUS
<1>1. CASE UNCHANGED dev
  BY <1>1, ReadOff, ReadOffNext DEF dev, Log!logvars
<1>2. ASSUME NEW t \in Threads, KernelStep(t)
      PROVE  Log!Next \/ UNCHANGED Log!logvars
  <2>1. UNCHANGED dev \/ WriteEvict(t) \/ WriteFault(t) \/ WriteStore(t)
    BY <1>2 DEF KernelStep, Progress, Write, Read, Lock, LockInterrupted, WriteNoMemory, WriteZero,
                ReadCopy, ReadSpin, IoctlSeek, Return
  <2> QED  BY <1>1, <2>1, EvictRefines, FaultRefines, StoreRefines DEF Log!Next
<1>3. CASE Client
  BY <1>1, <1>3, ClientStep DEF LogInv
<1>4. CASE UNCHANGED vars
  BY <1>1, <1>4 DEF vars, dev
<1> QED  BY <1>2, <1>3, <1>4 DEF Next

(* The driver keeps the last MaxWriteOps commands, each as its writes made *)
(* it: whatever fails and however threads interleave, every step of        *)
(* aesd_write is a step of CommandLog or changes nothing a client sees.    *)
THEOREM ImplementsLog == Spec => KeepsLog
BY LogInit, LogStep, LogInvariance, PTL DEF Spec, KeepsLog, Log!Spec

-----------------------------------------------------------------------------
LEMMA ContentsProperties ==
  ASSUME IInv
  PROVE  /\ circ_buffer \in CircularBuffer /\ Whole(circ_buffer)
         /\ Contents = FlattenSeq(Pieces(circ_buffer)) /\ Contents \in Seq(Byte)
<1>1. /\ circ_buffer \in CircularBuffer /\ write_entry_new_flag \in BOOLEAN
      /\ Shaped(circ_buffer, write_entry_new_flag) /\ RingShape /\ EntriesWhole
  BY DevShape
<1>2. Whole(circ_buffer)
  BY <1>1 DEF EntriesWhole, Whole
<1>3. RestEmpty(circ_buffer, write_entry_new_flag)
  BY <1>1, NoEntryType DEF RingShape, RestEmpty, NULL
<1>4. FlattenSeq(Pieces(circ_buffer)) = FlattenSeq(Commands) \o Partial
  BY <1>1, <1>2, <1>3, ContentsOfRing, ReadOff
<1>5. FlattenSeq(Pieces(circ_buffer)) \in Seq(Byte)
  BY <1>1, <1>2, PiecesProperties, FlattenProperties
<1> QED  BY <1>1, <1>2, <1>4, <1>5 DEF Contents

(* What a lookup finds, in terms of the contents.                          *)
Reads(all, char_offset) ==
  LET hit == FindEntryOffsetForFpos(circ_buffer, char_offset)
  IN  /\ hit.entry \in BufferEntry /\ hit.byte \in Nat
      /\ hit.found <=> char_offset < Len(all)
      /\ hit.found =>
           /\ hit.byte < hit.entry.size /\ hit.entry.size = Len(hit.entry.buffptr)
           /\ char_offset + (hit.entry.size - hit.byte) <= Len(all)
           /\ \A j \in 1 .. hit.entry.size - hit.byte :
                hit.entry.buffptr[hit.byte + j] = all[char_offset + j]

LEMMA FindInContents ==
  ASSUME IInv, NEW char_offset \in Nat
  PROVE  Reads(Contents, char_offset)
<1>1. \A b \in CircularBuffer : Whole(b) /\ b = circ_buffer => Reads(FlattenSeq(Pieces(b)), char_offset)
  BY FindEntryReads DEF Reads
<1>2. Reads(FlattenSeq(Pieces(circ_buffer)), char_offset)
  BY <1>1, ContentsProperties
<1> QED  BY <1>2, ContentsProperties

(* Every offset is found where the bytes put end to end have it.           *)
LEMMA FindMatches == IInv => FindMatchesContents
<1> SUFFICES ASSUME IInv, NEW off \in 0 .. Len(Contents)
             PROVE  LET hit == FindEntryOffsetForFpos(circ_buffer, off)
                    IN  /\ hit.found <=> off < Len(Contents)
                        /\ hit.found => /\ hit.byte < hit.entry.size
                                        /\ hit.entry.buffptr[hit.byte + 1] = Contents[off + 1]
  BY DEF FindMatchesContents
<1> DEFINE hit == FindEntryOffsetForFpos(circ_buffer, off)
<1>1. Len(Contents) \in Nat /\ off \in Nat
  <2>1. Len(Contents) \in Nat
    BY ContentsProperties, LenProperties
  <2> QED  BY <2>1
<1>2. /\ hit.entry \in BufferEntry /\ hit.byte \in Nat
      /\ hit.found <=> off < Len(Contents)
      /\ hit.found =>
           /\ hit.byte < hit.entry.size
           /\ \A j \in 1 .. hit.entry.size - hit.byte :
                hit.entry.buffptr[hit.byte + j] = Contents[off + j]
  BY <1>1, FindInContents DEF Reads
<1>3. hit.found => 1 \in 1 .. hit.entry.size - hit.byte
  <2>1. hit.entry.size \in Nat
    BY <1>2 DEF BufferEntry
  <2> HIDE DEF hit
  <2> QED  BY <1>2, <2>1
<1> QED  BY <1>2, <1>3

(* The search loop agrees with the concatenation of the commands, for      *)
(* every ring that the driver can build.                                   *)
THEOREM SearchMatchesContents == Spec => []FindMatchesContents
BY FindMatches, Invariance, PTL

-----------------------------------------------------------------------------
(* How many bytes the copy loop takes: at least one, never past the entry, *)
(* and more than one only up to count.                                     *)
LEMMA ReadLengthBounds ==
  ASSUME NEW entry \in BufferEntry, NEW byte \in Nat, byte < entry.size, NEW count \in Nat
  PROVE  LET n == ReadLength(entry, byte, count)
         IN  n \in Nat /\ 1 <= n /\ n <= entry.size - byte /\ (n > 1 => n <= count - byte)
<1> DEFINE size1 == entry.size
           least == Min({size1, count})
           n == ReadLength(entry, byte, count)
<1>1. size1 \in Nat
  BY DEF BufferEntry
<1> HIDE DEF size1
<1>2. least \in Nat /\ least <= size1 /\ least <= count
  <2>1. \E x \in {size1, count} : \A y \in {size1, count} : x <= y
    BY <1>1
  <2> QED  BY <1>1, <2>1 DEF Min
<1> HIDE DEF least
<1>3. Max({1, least - byte}) \in {1, least - byte} /\ \A y \in {1, least - byte} : Max({1, least - byte}) >= y
  <2>1. \E x \in {1, least - byte} : \A y \in {1, least - byte} : x >= y
    BY <1>2
  <2> QED  BY <2>1 DEF Max
<1>4. n = Max({1, least - byte})
  BY DEF ReadLength, least, size1
<1> HIDE DEF n
<1>5. byte < size1
  BY DEF size1
<1>6. n \in Nat /\ 1 <= n /\ n <= size1 - byte /\ (n > 1 => n <= count - byte)
  BY <1>1, <1>2, <1>3, <1>4, <1>5
<1> QED  BY <1>6 DEF n, size1

(* A position that is looked up is not negative; the search and the copy   *)
(* are made on the same ring.                                              *)
LEMMA CopyReturns ==
  ASSUME IInv, NEW t \in Threads, ReadCopy(t)
  PROVE  /\ call'[t].buf = SubSeq(Contents, call[t].pos + 1, call'[t].pos)
         /\ call'[t].ret = call'[t].pos - call[t].pos
         /\ call'[t].ret = 0 <=> call[t].pos >= Len(Contents)
         /\ call'[t].ret <= call[t].count \/ (call[t].count = 0 /\ call'[t].ret = 1)
<1> DEFINE pos == call[t].pos
           hit == FindEntryOffsetForFpos(circ_buffer, pos)
           n == ReadLength(hit.entry, hit.byte, call[t].count)
<1>1. /\ call \in [Threads -> CallType] /\ call[t] \in CallType /\ call[t].count \in Nat
      /\ pos \in Nat
  BY DEF IInv, TypeOK, CallType, ReadsForward, ReadCopy
<1>2. Contents \in Seq(Byte) /\ Len(Contents) \in Nat /\ \A i \in 1 .. Len(Contents) : Contents[i] \in Byte
  BY ContentsProperties, LenProperties, ElementOfSeq
<1>3. /\ hit.entry \in BufferEntry /\ hit.byte \in Nat
      /\ hit.found <=> pos < Len(Contents)
      /\ hit.found =>
           /\ hit.byte < hit.entry.size /\ hit.entry.size = Len(hit.entry.buffptr)
           /\ pos + (hit.entry.size - hit.byte) <= Len(Contents)
           /\ \A j \in 1 .. hit.entry.size - hit.byte :
                hit.entry.buffptr[hit.byte + j] = Contents[pos + j]
  BY <1>1, FindInContents DEF Reads
<1>4. ASSUME NEW ret, NEW to, NEW buf, Unlock(t, ret, to, buf)
      PROVE  call'[t].ret = ret /\ call'[t].pos = to /\ call'[t].buf = buf
  BY <1>1, <1>4 DEF Unlock, CallType
<1>5. CASE ~hit.found
  <2>1. Unlock(t, 0, pos, <<>>)
    BY <1>5 DEF ReadCopy
  <2>2. call'[t].ret = 0 /\ call'[t].pos = pos /\ call'[t].buf = <<>>
    BY <1>4, <2>1
  <2>3. SubSeq(Contents, pos + 1, pos) = <<>>
    BY <1>1, SubSeqEmpty
  <2>4. pos >= Len(Contents) /\ pos - pos = 0
    BY <1>1, <1>2, <1>3, <1>5
  <2>5. call[t].count >= 0
    BY <1>1
  <2> QED  BY <2>2, <2>3, <2>4, <2>5
<1>6. CASE hit.found
  <2> DEFINE mem == hit.entry.buffptr
             at == hit.byte
  <2>1. Unlock(t, n, pos + n, SubSeq(mem, at + 1, at + n))
    BY <1>6 DEF ReadCopy
  <2>2. call'[t].ret = n /\ call'[t].pos = pos + n /\ call'[t].buf = SubSeq(mem, at + 1, at + n)
    BY <1>4, <2>1
  <2>3. n \in Nat /\ 1 <= n /\ n <= hit.entry.size - at /\ (n > 1 => n <= call[t].count - at)
    BY <1>1, <1>3, <1>6, ReadLengthBounds
  <2>4. at \in Nat /\ hit.entry.size \in Nat /\ hit.entry.size = Len(mem) /\ mem \in Seq(Byte) /\ at < hit.entry.size
    BY <1>3, <1>6 DEF BufferEntry
  <2> DEFINE sz == hit.entry.size
  <2>5. \A j \in 1 .. sz - at : mem[at + j] = Contents[pos + j]
    BY <1>3, <1>6
  <2>6. pos + (sz - at) <= Len(Contents)
    BY <1>3, <1>6
  <2>7. \A i \in 1 .. sz : mem[i] \in Byte
    BY <2>4, ElementOfSeq
  <2> HIDE DEF n, hit, mem, at, sz, pos
  <2>8. sz \in Nat /\ n <= sz - at /\ at < sz
    BY <2>3, <2>4 DEF sz
  <2>9. /\ SubSeq(mem, at + 1, at + n) \in Seq(Byte) /\ Len(SubSeq(mem, at + 1, at + n)) = n
        /\ \A i \in 1 .. n : SubSeq(mem, at + 1, at + n)[i] = mem[at + i]
    <3>1. /\ at + 1 \in Int /\ at + n \in Int /\ (at + n) - (at + 1) + 1 = n /\ at + 1 <= at + n
          /\ \A i \in at + 1 .. at + n : mem[i] \in Byte
          /\ \A i \in 1 .. n : (at + 1) + i - 1 = at + i
      BY <2>3, <2>4, <2>7, <2>8
    <3>2. /\ SubSeq(mem, at + 1, at + n) \in Seq(Byte)
          /\ Len(SubSeq(mem, at + 1, at + n)) = (at + n) - (at + 1) + 1
          /\ \A i \in 1 .. (at + n) - (at + 1) + 1 :
               SubSeq(mem, at + 1, at + n)[i] = mem[(at + 1) + i - 1]
      BY <3>1, SubSeqProperties
    <3> QED  BY <3>1, <3>2
  <2>10. /\ SubSeq(Contents, pos + 1, pos + n) \in Seq(Byte)
         /\ Len(SubSeq(Contents, pos + 1, pos + n)) = n
         /\ \A i \in 1 .. n : SubSeq(Contents, pos + 1, pos + n)[i] = Contents[pos + i]
    <3>1. /\ pos + 1 \in Int /\ pos + n \in Int /\ (pos + n) - (pos + 1) + 1 = n /\ pos + 1 <= pos + n
          /\ \A i \in pos + 1 .. pos + n : i \in 1 .. Len(Contents)
          /\ \A i \in 1 .. n : (pos + 1) + i - 1 = pos + i
      BY <1>1, <1>2, <2>3, <2>4, <2>6, <2>8
    <3>2. \A i \in pos + 1 .. pos + n : Contents[i] \in Byte
      BY <1>2, <3>1
    <3>3. /\ SubSeq(Contents, pos + 1, pos + n) \in Seq(Byte)
          /\ Len(SubSeq(Contents, pos + 1, pos + n)) = (pos + n) - (pos + 1) + 1
          /\ \A i \in 1 .. (pos + n) - (pos + 1) + 1 :
               SubSeq(Contents, pos + 1, pos + n)[i] = Contents[(pos + 1) + i - 1]
      BY <3>1, <3>2, SubSeqProperties
    <3> QED  BY <3>1, <3>3
  <2>11. \A i \in 1 .. n : mem[at + i] = Contents[pos + i]
    BY <2>3, <2>4, <2>5, <2>8
  <2>12. SubSeq(mem, at + 1, at + n) = SubSeq(Contents, pos + 1, pos + n)
    <3> DEFINE v == SubSeq(mem, at + 1, at + n)
               w == SubSeq(Contents, pos + 1, pos + n)
    <3>1. v \in Seq(Byte) /\ w \in Seq(Byte) /\ Len(v) = Len(w) /\ \A i \in 1 .. Len(v) : v[i] = w[i]
      BY <2>9, <2>10, <2>11
    <3> HIDE DEF v, w
    <3>2. v = w
      BY <3>1, SeqEqual
    <3> QED  BY <3>2 DEF v, w
  <2>13. n = (pos + n) - pos /\ n # 0
    BY <1>1, <2>3
  <2>14. ~ (pos >= Len(Contents))
    BY <1>1, <1>2, <1>3, <1>6
  <2>15. n <= call[t].count \/ (call[t].count = 0 /\ n = 1)
    BY <1>1, <2>3, <2>4
  <2> QED  BY <2>2, <2>12, <2>13, <2>14, <2>15 DEF pos
<1> QED  BY <1>5, <1>6

(* A read delivers the bytes at its position, for every interleaving.      *)
THEOREM ReadsAreExact == Spec => ReadReturnsContents
<1> DEFINE Exact == \A t \in Threads :
             pc[t] = "copy" /\ pc'[t] = "return" =>
               /\ call'[t].buf = SubSeq(Contents, call[t].pos + 1, call'[t].pos)
               /\ call'[t].ret = call'[t].pos - call[t].pos
               /\ call'[t].ret = 0 <=> call[t].pos >= Len(Contents)
               /\ call'[t].ret <= call[t].count \/ (call[t].count = 0 /\ call'[t].ret = 1)
<1>1. IInv /\ [Next]_vars => [Exact]_vars
  <2> SUFFICES ASSUME IInv, Next, NEW t \in Threads, pc[t] = "copy", pc'[t] = "return"
               PROVE  /\ call'[t].buf = SubSeq(Contents, call[t].pos + 1, call'[t].pos)
                      /\ call'[t].ret = call'[t].pos - call[t].pos
                      /\ call'[t].ret = 0 <=> call[t].pos >= Len(Contents)
                      /\ call'[t].ret <= call[t].count \/ (call[t].count = 0 /\ call'[t].ret = 1)
    OBVIOUS
  <2>1. ~Client
    <3>1. pc[t] # "idle" /\ pc'[t] # pc[t]
      OBVIOUS
    <3> QED  BY <3>1, ClientStep
  <2>2. PICK u \in Threads : KernelStep(u)
    BY <2>1 DEF Next
  <2>3. u = t
    BY <2>2, OthersStay
  <2>4. ReadCopy(t)
    <3>1. KernelStep(t)
      BY <2>2, <2>3
    <3>2. ~ (Lock(t) \/ LockInterrupted(t) \/ Write(t) \/ IoctlSeek(t) \/ Return(t))
      BY DEF Lock, LockInterrupted, Write, WriteEvict, WriteNoMemory, WriteZero, WriteFault, WriteStore,
             IoctlSeek, Return
    <3>3. ~ReadSpin(t)
      BY DEF ReadSpin, IInv, TypeOK
    <3> QED  BY <3>1, <3>2, <3>3 DEF KernelStep, Progress, Read
  <2> QED  BY <2>4, CopyReturns
<1>2. ReadReturnsContents <=> [][Exact]_vars
  BY PTL DEF ReadReturnsContents
<1> QED  BY <1>1, <1>2, Invariance, PTL DEF Spec

-----------------------------------------------------------------------------
(* A loop is entered with more left than its counter can count, and the    *)
(* ring it reads cannot change: its thread holds the mutex.                *)
SpinInv == IInv /\ SpinOnlyOnLongEntry

LEMMA SpinStarts ==
  ASSUME IInv, NEW t \in Threads, ReadSpin(t)
  PROVE  LET hit == FindEntryOffsetForFpos(circ_buffer, call[t].pos)
         IN  hit.entry.size - hit.byte > ReadBytesMax /\ call[t].count > ReadBytesMax
<1> DEFINE pos == call[t].pos
           count == call[t].count
           hit == FindEntryOffsetForFpos(circ_buffer, pos)
           n == ReadLength(hit.entry, hit.byte, count)
<1>1. count \in Nat /\ pos \in Nat
  BY DEF IInv, TypeOK, CallType, ReadsForward, ReadSpin
<1>2. /\ hit.entry \in BufferEntry /\ hit.byte \in Nat /\ hit.byte < hit.entry.size
      /\ hit.entry.size = Len(hit.entry.buffptr)
  BY <1>1, FindInContents DEF ReadSpin, Reads
<1>3. hit.entry.size \in Nat
  BY <1>2 DEF BufferEntry
<1>4. hit.entry.buffptr # NULL
  <2> HIDE DEF hit
  <2>1. hit.entry.size # 0
    BY <1>2, <1>3
  <2> QED  BY <1>2, <2>1, EmptySeq DEF NULL
<1>5. n > ReadBytesMax
  BY <1>4 DEF ReadSpin
<1>6. n \in Nat /\ 1 <= n /\ n <= hit.entry.size - hit.byte /\ (n > 1 => n <= count - hit.byte)
  BY <1>1, <1>2, ReadLengthBounds
<1>7. ReadBytesMax \in Nat /\ ReadBytesMax >= 1
  BY ConstantsAssumption
<1> DEFINE sz == hit.entry.size
           at == hit.byte
<1>8. sz - at > ReadBytesMax /\ count > ReadBytesMax
  <2>1. at \in Nat /\ sz \in Nat
    BY <1>2, <1>3
  <2> HIDE DEF sz, at, n, hit, count
  <2>2. n <= sz - at /\ (n > 1 => n <= count - at)
    BY <1>6 DEF sz, at
  <2> QED  BY <1>1, <1>5, <1>6, <1>7, <2>1, <2>2
<1> QED  BY <1>8

LEMMA SpinStep == SpinInv /\ [Next]_vars => SpinInv'
<1> SUFFICES ASSUME SpinInv, [Next]_vars PROVE SpinInv'
  OBVIOUS
<1>1. IInv /\ IInv' /\ SpinOnlyOnLongEntry
  BY NextInv DEF SpinInv
<1>2. SUFFICES ASSUME NEW t \in Threads, pc'[t] = "spin"
               PROVE  LET hit == FindEntryOffsetForFpos(circ_buffer', call'[t].pos)
                      IN  hit.entry.size - hit.byte > ReadBytesMax /\ call'[t].count > ReadBytesMax
  BY <1>1 DEF SpinInv, SpinOnlyOnLongEntry
<1>3. CASE pc[t] = "spin" /\ call'[t] = call[t] /\ UNCHANGED dev
  BY <1>1, <1>3 DEF SpinOnlyOnLongEntry, dev
<1>4. CASE UNCHANGED vars
  BY <1>2, <1>3, <1>4 DEF vars, dev
<1>5. CASE Client
  <2>1. UNCHANGED dev /\ pc[t] = "spin"
    BY <1>1, <1>2, <1>5, ClientStep
  <2>2. call'[t] = call[t]
    BY <1>1, <1>5, <2>1, ClientStep
  <2> QED  BY <1>3, <2>1, <2>2
<1>6. ASSUME NEW u \in Threads, KernelStep(u)
      PROVE  LET hit == FindEntryOffsetForFpos(circ_buffer', call'[t].pos)
             IN  hit.entry.size - hit.byte > ReadBytesMax /\ call'[t].count > ReadBytesMax
  <2>1. CASE u = t
    <3>1. pc[t] = "copy" /\ UNCHANGED dev /\ ReadSpin(t)
      <4>1. KernelStep(t)
        BY <1>6, <2>1
      <4>2. pc[t] = "copy"
        BY <1>1, <1>2, <4>1, StepKinds
      <4>3. ~ (Lock(t) \/ LockInterrupted(t) \/ Write(t) \/ IoctlSeek(t) \/ Return(t))
        BY <4>2 DEF Lock, LockInterrupted, Write, WriteEvict, WriteNoMemory, WriteZero, WriteFault,
                    WriteStore, IoctlSeek, Return
      <4>4. ~ReadCopy(t)
        BY <1>1, <1>2 DEF ReadCopy, Unlock, IInv, TypeOK
      <4> QED  BY <4>1, <4>2, <4>3, <4>4 DEF KernelStep, Progress, Read, ReadSpin
    <3>2. circ_buffer' = circ_buffer /\ call' = call
      BY <3>1 DEF ReadSpin, dev
    <3> QED  BY <1>1, <3>1, <3>2, SpinStarts
  <2>2. CASE u # t
    <3>1. pc[t] = "spin" /\ call'[t] = call[t]
      BY <1>1, <1>2, <1>6, <2>2, OthersStay
    <3>2. \A v \in Threads : pc[v] \in Inside <=> mutex_lock = v
      <4>1. LockHeldInside
        BY <1>1 DEF IInv
      <4> QED  BY <4>1 DEF LockHeldInside
    <3>3. mutex_lock = t /\ pc[u] \notin Inside /\ t # None
      <4>1. pc[t] \in Inside
        BY <3>1 DEF Inside
      <4>2. mutex_lock = t
        BY <3>2, <4>1
      <4>3. pc[u] \notin Inside
        BY <1>6, <2>2, <3>2, <4>2
      <4> QED  BY <4>2, <4>3, ConstantsAssumption
    <3>4. ~Lock(u)
      BY <3>3 DEF Lock
    <3>5. UNCHANGED dev
      <4>1. pc[u] \notin {"evict", "copy"}
        BY <3>3 DEF Inside
      <4> QED  BY <1>1, <1>6, <3>3, <3>4, <4>1, StepKinds
    <3> QED  BY <1>3, <3>1, <3>5
  <2> QED  BY <2>1, <2>2
<1> QED  BY <1>4, <1>5, <1>6 DEF Next

(* aesd_read loops for ever only where its counter is too narrow: no       *)
(* damaged entry and no step of another thread sends it there.             *)
THEOREM SpinsAreLong == Spec => []SpinOnlyOnLongEntry
<1>1. Init => SpinInv
  BY InitInv DEF SpinInv, SpinOnlyOnLongEntry, Init
<1>2. SpinInv => SpinOnlyOnLongEntry
  BY DEF SpinInv
<1> QED  BY <1>1, <1>2, SpinStep, PTL DEF Spec

-----------------------------------------------------------------------------
(* A thread in aesd_adjust_file_offset has passed its check of write_cmd,  *)
(* on a file that is open.                                                 *)
SeeksChecked ==
  \A t \in Threads :
    (pc[t] = "lock" /\ call[t].op = "ioctl") \/ pc[t] = "seek"
      => call[t].cmd < MaxWriteOps - 1 /\ call[t].filp \in Files

SeekInv == IInv /\ SeeksChecked

LEMMA SeeksCheckedClient == SeekInv /\ Client => SeeksChecked'
<1> SUFFICES ASSUME SeekInv, Client PROVE SeeksChecked'
  OBVIOUS
<1>1. /\ pc \in [Threads -> {"idle", "lock", "return"} \cup Inside]
      /\ call \in [Threads -> CallType] /\ SeeksChecked
  BY DEF SeekInv, IInv, TypeOK
<1>2. CASE UNCHANGED <<pc, call>>
  BY <1>1, <1>2 DEF SeeksChecked
<1>3. ASSUME NEW t \in Threads, NEW f \in Files, NEW request, NEW where \in {"lock", "return"},
             request.op # "ioctl" \/ where = "return" \/ (request.cmd < MaxWriteOps - 1 /\ request.filp = f),
             Enter(t, f, request), pc' = [pc EXCEPT ![t] = where]
      PROVE  SeeksChecked'
  <2>1. /\ call'[t] = request /\ pc'[t] = where
        /\ \A u \in Threads \ {t} : pc'[u] = pc[u] /\ call'[u] = call[u]
    BY <1>1, <1>3 DEF Enter
  <2> QED  BY <1>1, <1>3, <2>1 DEF SeeksChecked
<1>4. ASSUME NEW t \in Threads, NEW f \in Files, NEW count \in ReadCounts, ReadCall(t, f, count)
      PROVE  SeeksChecked'
  BY <1>3, <1>4 DEF ReadCall, NoCall
<1>5. ASSUME NEW t \in Threads, NEW f \in Files, NEW data \in WriteInputs, WriteCall(t, f, data)
      PROVE  SeeksChecked'
  BY <1>3, <1>5 DEF WriteCall, NoCall
<1>6. ASSUME NEW t \in Threads, NEW f \in Files, NEW cmd \in SeekCmds, NEW offset \in SeekCmdOffsets,
             IoctlCall(t, f, cmd, offset)
      PROVE  SeeksChecked'
  <2> DEFINE request == [NoCall EXCEPT !.op = "ioctl", !.filp = f, !.cmd = cmd, !.offset = offset]
  <2>1. request.cmd = cmd /\ request.filp = f
    BY DEF NoCall
  <2>2. \/ \E err \in {EFAULT, EINVAL} :
             Enter(t, f, [request EXCEPT !.ret = err]) /\ pc' = [pc EXCEPT ![t] = "return"]
        \/ /\ Enter(t, f, request) /\ pc' = [pc EXCEPT ![t] = "lock"]
           /\ cmd < MaxWriteOps - 1
    BY <1>6 DEF IoctlCall
  <2> HIDE DEF request
  <2> QED  BY <1>3, <2>1, <2>2
<1>7. \/ UNCHANGED <<pc, call>>
      \/ \E t \in Threads, f \in Files :
           \/ \E count \in ReadCounts : ReadCall(t, f, count)
           \/ \E data \in WriteInputs : WriteCall(t, f, data)
           \/ \E cmd \in SeekCmds, offset \in SeekCmdOffsets : IoctlCall(t, f, cmd, offset)
  BY DEF Client, AesdOpen, AesdRelease, AesdLlseek
<1> QED  BY <1>2, <1>4, <1>5, <1>6, <1>7

LEMMA SeekInvStep == SeekInv /\ [Next]_vars => SeekInv'
<1> SUFFICES ASSUME SeekInv, [Next]_vars PROVE SeekInv'
  OBVIOUS
<1>1. IInv /\ IInv' /\ SeeksChecked
  BY NextInv DEF SeekInv
<1>2. CASE UNCHANGED vars
  BY <1>1, <1>2 DEF SeekInv, SeeksChecked, vars
<1>3. ASSUME NEW t \in Threads, KernelStep(t) PROVE SeeksChecked'
  <2>1. \A u \in Threads \ {t} : pc'[u] = pc[u] /\ call'[u] = call[u]
    BY <1>1, <1>3, OthersStay
  <2>2. pc'[t] # "lock"
    BY <1>1, <1>3, StepKinds
  <2>3. ASSUME pc'[t] = "seek" PROVE call'[t].cmd < MaxWriteOps - 1 /\ call'[t].filp \in Files
    <3>1. Lock(t)
      BY <1>1, <1>3, <2>3, StepKinds
    <3>2. call[t].op \in {"read", "write", "ioctl"} /\ call' = call /\ pc[t] = "lock"
      BY <1>1, <3>1 DEF Lock, IInv, TypeOK, CallType, OpMatches
    <3>3. call[t].op = "ioctl"
      BY <1>1, <2>3, <3>1, <3>2 DEF Lock, IInv, TypeOK
    <3> QED  BY <1>1, <3>2, <3>3 DEF SeeksChecked
  <2> QED  BY <1>1, <2>1, <2>2, <2>3 DEF SeeksChecked
<1> QED  BY <1>1, <1>2, <1>3, SeeksCheckedClient DEF SeekInv, Next

(* With the oldest command in slot 0, slot k is command k, and the search  *)
(* finds what should be found in any of them.                              *)
LEMMA HeldSlots ==
  ASSUME IInv, circ_buffer.out_offs = 0, Oldest = 0, NEW cmd \in Nat, cmd < MaxWriteOps,
         NEW offset \in Nat
  PROVE  BufferFindOffset(circ_buffer, cmd, offset) = SeekTarget(cmd, offset)
<1> DEFINE b == circ_buffer
           flag == write_entry_new_flag
           q == Pieces(b)
           u == CommandsIn(b, flag)
           part == PartialIn(b, flag)
           n == CompleteIn(b, flag)
           held == Append(u, part)
<1>1. /\ b \in CircularBuffer /\ Whole(b) /\ flag \in BOOLEAN
      /\ Shaped(b, flag) /\ RingShape
  BY ContentsProperties, DevShape
<1>2. /\ b.in_offs \in Slots /\ MaxWriteOps \in Nat /\ MaxWriteOps >= 1
      /\ b.in_offs \in Nat /\ b.in_offs < MaxWriteOps /\ b.full \in BOOLEAN
      /\ cmd \in Iterations /\ cmd \in Slots
  BY <1>1, MaxWriteOpsAssumption DEF CircularBuffer, Iterations, Slots
<1>3. /\ u \in Seq(Seq(Byte)) /\ Len(u) = n /\ part \in Seq(Byte) /\ n \in Nat
      /\ OldestIn(b, flag) = 0
  <2>1. OldestIn(b, flag) = 0
    BY DEF Oldest, OldestIn
  <2> QED  BY <1>1, <1>2, <2>1, CommandsProperties
<1>4. q \in Seq(Seq(Byte)) /\ Len(q) = MaxWriteOps
  BY <1>1, PiecesProperties
<1>5. /\ held \in Seq(Seq(Byte)) /\ Len(held) = n + 1
      /\ \A k \in 1 .. n : held[k] = u[k]
      /\ held[n + 1] = part
  <2> HIDE DEF u, part, n
  <2> QED  BY <1>3, AppendProperties
<1>6. Append(Commands, Partial) = held
  BY ReadOff
<1>7. \A k \in 0 .. MaxWriteOps - 1 : q[k + 1] = b.entry[k].buffptr
  <2>1. \A k \in 0 .. MaxWriteOps - 1 : SlotAt(b, k) = k /\ k \in Iterations
    BY <1>2 DEF SlotAt, Iterations
  <2> QED  BY <1>1, <2>1, PiecesProperties
<1>8. n < MaxWriteOps => part = b.entry[n].buffptr
  <2>1. CASE ~b.full
    <3>1. n = b.in_offs
      BY <2>1 DEF CompleteIn
    <3>2. flag => b.entry[b.in_offs].buffptr = <<>>
      BY <1>1, <2>1, NoEntryType DEF RingShape, NULL
    <3> QED  BY <1>1, <3>1, <3>2 DEF PartialIn
  <2>2. CASE b.full /\ ~flag
    <3>1. n = MaxWriteOps - 1 /\ Advance(b.in_offs) = 0
      BY <1>1, <2>2 DEF CompleteIn, Shaped
    <3>2. b.in_offs = MaxWriteOps - 1
      BY <1>2, <3>1 DEF Advance
    <3> QED  BY <2>2, <3>1, <3>2 DEF PartialIn
  <2>3. CASE b.full /\ flag
    <3>1. n = MaxWriteOps - 0
      BY <1>3, <2>3 DEF CompleteIn
    <3> QED  BY <1>2, <3>1
  <2> QED  BY <1>1, <1>2, <2>1, <2>2, <2>3
<1>9. \A k \in Slots : k > n => b.entry[k].size = 0
  <2>1. CASE ~b.full
    <3>1. n = b.in_offs
      BY <2>1 DEF CompleteIn
    <3> QED  BY <1>1, <2>1, <3>1, NoEntryType DEF RingShape
  <2>2. CASE b.full
    <3>1. n >= MaxWriteOps - 1
      BY <1>2, <1>3, <2>2 DEF CompleteIn
    <3> QED  BY <1>2, <1>3, <3>1 DEF Slots
  <2> QED  BY <1>2, <2>1, <2>2
<1>10. ASSUME NEW k \in 0 .. n, k < MaxWriteOps PROVE held[k + 1] = b.entry[k].buffptr
  <2>1. CASE k < n
    <3>1. k + 1 \in 1 .. n /\ 0 + (k + 1) - 1 = k
      BY <1>3, <2>1
    <3>2. \A i \in 1 .. n : u[i] = b.entry[SlotAt(b, OldestIn(b, flag) + i - 1)].buffptr
      BY <1>1, CommandsProperties
    <3>3. SlotAt(b, k) = k
      BY <1>2, <1>3, <1>10 DEF SlotAt
    <3>4. u[k + 1] = b.entry[k].buffptr
      <4> HIDE DEF u, b, n
      <4> QED  BY <1>3, <3>1, <3>2, <3>3
    <3> QED  BY <1>5, <3>1, <3>4
  <2>2. CASE k = n
    BY <1>5, <1>10, <1>8, <2>2
  <2>3. k < n \/ k = n
    <3> HIDE DEF n
    <3> QED  BY <1>3
  <2> QED  BY <2>1, <2>2, <2>3
<1>11. BufferFindOffset(b, cmd, offset) =
        IF offset >= b.entry[cmd].size THEN -1 ELSE BytesBefore(b)[cmd] + offset
  BY <1>1, <1>2, FindOffsetExactAtZero
<1>12. b.entry[cmd].size \in Nat /\ b.entry[cmd].size = Len(b.entry[cmd].buffptr)
  BY <1>1, <1>2 DEF Whole, CircularBuffer, BufferEntry
<1>13. SeekTarget(cmd, offset) =
         IF cmd < Len(held) /\ offset < Len(held[cmd + 1])
         THEN Len(FlattenSeq(SubSeq(held, 1, cmd))) + offset ELSE -1
  BY <1>6 DEF SeekTarget
<1>14. CASE cmd <= n
  <2>1. cmd \in 0 .. n /\ cmd < n + 1
    BY <1>3, <1>14
  <2>2. held[cmd + 1] = b.entry[cmd].buffptr
    BY <1>10, <2>1
  <2>3. SubSeq(held, 1, cmd) = SubSeq(q, 1, cmd)
    <3> DEFINE v == SubSeq(held, 1, cmd)
               w == SubSeq(q, 1, cmd)
    <3>1. cmd \in Nat /\ cmd < Len(held) /\ cmd < Len(q)
      BY <1>2, <1>4, <1>5, <2>1
    <3> HIDE DEF held, q
    <3>2. v \in Seq(Seq(Byte)) /\ w \in Seq(Seq(Byte))
      BY <1>4, <1>5, <3>1, FlattenPrefix
    <3>3. \A i \in 1 .. cmd : held[i] \in Seq(Byte) /\ q[i] \in Seq(Byte)
      <4>1. \A i \in 1 .. cmd : i \in 1 .. Len(held) /\ i \in 1 .. Len(q)
        BY <1>2, <1>4, <1>5, <3>1
      <4> QED  BY <1>4, <1>5, <4>1, ElementOfSeq
    <3>4. /\ Len(v) = (IF 1 <= cmd THEN cmd - 1 + 1 ELSE 0) /\ Len(w) = Len(v)
          /\ \A i \in 1 .. cmd - 1 + 1 : v[i] = held[1 + i - 1] /\ w[i] = q[1 + i - 1]
      BY <3>3, SubSeqProperties
    <3>5. Len(v) = cmd /\ Len(w) = cmd
      BY <3>4
    <3>6. \A i \in 1 .. cmd : held[i] = q[i]
      <4> SUFFICES ASSUME NEW i \in 1 .. cmd PROVE held[i] = q[i]
        OBVIOUS
      <4>1. i - 1 \in 0 .. n /\ i - 1 \in 0 .. MaxWriteOps - 1 /\ i - 1 < MaxWriteOps /\ (i - 1) + 1 = i
        BY <1>2, <1>3, <2>1
      <4> QED  BY <1>7, <1>10, <4>1
    <3>7. \A i \in 1 .. cmd : v[i] = w[i]
      <4>1. \A i \in 1 .. cmd : 1 + i - 1 = i /\ i \in 1 .. cmd - 1 + 1
        OBVIOUS
      <4> QED  BY <3>4, <3>6, <4>1
    <3> HIDE DEF v, w
    <3>8. v = w
      BY <3>2, <3>5, <3>7, SameCommands
    <3> QED  BY <3>8 DEF v, w
  <2>4. Len(FlattenSeq(SubSeq(q, 1, cmd))) = BytesBefore(b)[cmd]
    <3>1. cmd \in 0 .. MaxWriteOps
      BY <1>2
    <3> QED  BY <1>1, <3>1, PiecesProperties
  <2>5. BufferFindOffset(b, cmd, offset) = SeekTarget(cmd, offset)
    <3> DEFINE sz == b.entry[cmd].size
    <3>1. Len(FlattenSeq(SubSeq(held, 1, cmd))) = BytesBefore(b)[cmd]
      <4> HIDE DEF held, q, b
      <4> QED  BY <2>3, <2>4
    <3>2. cmd < Len(held) /\ Len(held[cmd + 1]) = sz /\ sz \in Nat
      <4> HIDE DEF held, b
      <4> QED  BY <1>5, <1>12, <2>1, <2>2
    <3> HIDE DEF b, held, q, n
    <3>3. SeekTarget(cmd, offset) = IF offset < sz THEN BytesBefore(b)[cmd] + offset ELSE -1
      <4> HIDE DEF sz
      <4> QED  BY <1>13, <3>1, <3>2
    <3>4. offset >= sz <=> ~(offset < sz)
      <4> HIDE DEF sz
      <4> QED  BY <3>2
    <3> QED  BY <1>11, <3>3, <3>4
  <2> QED  BY <2>5
<1>15. CASE ~ (cmd <= n)
  <2>1. cmd > n /\ ~ (cmd < n + 1)
    BY <1>3, <1>15
  <2>2. b.entry[cmd].size = 0
    BY <1>2, <1>9, <2>1
  <2>3. BufferFindOffset(b, cmd, offset) = SeekTarget(cmd, offset)
    <3> HIDE DEF b, held, n
    <3>1. offset >= b.entry[cmd].size
      BY <2>2
    <3>2. BufferFindOffset(b, cmd, offset) = -1
      BY <1>11, <3>1
    <3> QED  BY <1>5, <1>13, <2>1, <3>2
  <2> QED  BY <2>3
<1> QED  BY <1>14, <1>15

LEMMA SeekLands ==
  ASSUME SeekInv, NEW t \in Threads, IoctlSeek(t), circ_buffer.out_offs = 0, Oldest = 0
  PROVE  LET target == SeekTarget(call[t].cmd, call[t].offset)
         IN  /\ call'[t] = [call[t] EXCEPT !.ret = target]
             /\ IF target < 0 THEN UNCHANGED f_pos ELSE f_pos'[call[t].filp] = target
             /\ call[t].cmd < MaxWriteOps - 1
<1> DEFINE cmd == call[t].cmd
           to == BufferFindOffset(circ_buffer, cmd, call[t].offset)
<1>1. /\ call \in [Threads -> CallType] /\ cmd \in Nat /\ call[t].offset \in Nat
      /\ f_pos \in [Files -> Int] /\ circ_buffer \in CircularBuffer
  BY DEF SeekInv, IInv, TypeOK, CallType
<1>2. cmd < MaxWriteOps - 1 /\ call[t].filp \in Files
  BY DEF SeekInv, SeeksChecked, IoctlSeek
<1>3. cmd < MaxWriteOps
  BY <1>1, <1>2, MaxWriteOpsAssumption
<1>4. to = SeekTarget(cmd, call[t].offset)
  BY <1>1, <1>3, HeldSlots DEF SeekInv
<1>5. to \in Int
  BY <1>1, BufferFindOffsetType
<1>6. call'[t] = [call[t] EXCEPT !.ret = to]
  BY <1>1 DEF IoctlSeek, Unlock, CallType
<1>7. f_pos' = IF to < 0 THEN f_pos ELSE [f_pos EXCEPT ![call[t].filp] = to]
  BY DEF IoctlSeek
<1> HIDE DEF to
<1> QED  BY <1>1, <1>2, <1>4, <1>5, <1>6, <1>7

(* No command has a number above that of the last slot.                    *)
LEMMA NoCommandPastRing ==
  ASSUME IInv, NEW cmd \in Nat, cmd >= MaxWriteOps, NEW offset \in Nat
  PROVE  SeekTarget(cmd, offset) = -1
<1> DEFINE u == CommandsIn(circ_buffer, write_entry_new_flag)
           part == PartialIn(circ_buffer, write_entry_new_flag)
           n == CompleteIn(circ_buffer, write_entry_new_flag)
           held == Append(u, part)
<1>1. /\ n \in 0 .. MaxWriteOps /\ u \in Seq(Seq(Byte)) /\ Len(u) = n /\ part \in Seq(Byte)
  BY DevShape, CommandsProperties
<1>2. held \in Seq(Seq(Byte)) /\ Len(held) = n + 1 /\ held[n + 1] = part
  <2> HIDE DEF u, part, n
  <2> QED  BY <1>1, AppendProperties
<1>3. SeekTarget(cmd, offset) =
        IF cmd < Len(held) /\ offset < Len(held[cmd + 1])
        THEN Len(FlattenSeq(SubSeq(held, 1, cmd))) + offset ELSE -1
  BY ReadOff DEF SeekTarget
<1>4. ASSUME cmd < Len(held) PROVE Len(held[cmd + 1]) = 0
  <2>1. n = MaxWriteOps /\ cmd = n
    <3> HIDE DEF n, held
    <3> QED  BY <1>1, <1>2, <1>4, MaxWriteOpsAssumption
  <2>2. part = <<>>
    <3>1. circ_buffer.in_offs < MaxWriteOps /\ circ_buffer.in_offs \in Nat
      BY DevShape, MaxWriteOpsAssumption DEF CircularBuffer, Slots
    <3>2. write_entry_new_flag
      BY <2>1, <3>1, MaxWriteOpsAssumption DEF CompleteIn
    <3> QED  BY <3>2 DEF PartialIn
  <2>3. Len(<<>>) = 0
    BY EmptySeq
  <2> HIDE DEF n, held, part
  <2> QED  BY <1>2, <2>1, <2>2, <2>3
<1>5. cmd < Len(held) => ~ (offset < Len(held[cmd + 1]))
  <2> HIDE DEF held
  <2> QED  BY <1>4
<1> HIDE DEF held
<1> QED  BY <1>3, <1>5

(* A refusal by the bounds check moves no position, and is of a command in *)
(* the last slot or of none.                                               *)
LEMMA SeekRefused ==
  ASSUME IInv, Client, NEW t \in Threads, pc[t] = "idle", pc'[t] = "return",
         call'[t].op = "ioctl", call'[t].ret # EFAULT
  PROVE  /\ call'[t].ret < 0 /\ UNCHANGED f_pos
         /\ SeekTarget(call'[t].cmd, call'[t].offset) < 0 \/ call'[t].cmd = MaxWriteOps - 1
<1>1. /\ pc \in [Threads -> {"idle", "lock", "return"} \cup Inside]
      /\ call \in [Threads -> CallType]
  BY DEF IInv, TypeOK
<1>2. ~UNCHANGED pc
  OBVIOUS
<1>3. \A u \in Threads, f \in Files :
        /\ \A count \in ReadCounts : ~ReadCall(u, f, count)
        /\ \A data \in WriteInputs : ~WriteCall(u, f, data)
  BY <1>1 DEF ReadCall, WriteCall
<1>4. PICK u \in Threads, f \in Files, cmd \in SeekCmds, offset \in SeekCmdOffsets :
        IoctlCall(u, f, cmd, offset)
  BY <1>2, <1>3 DEF Client, AesdOpen, AesdRelease, AesdLlseek
<1> DEFINE request == [NoCall EXCEPT !.op = "ioctl", !.filp = f, !.cmd = cmd, !.offset = offset]
<1>5. \/ \E err \in {EFAULT, EINVAL} :
           /\ Enter(u, f, [request EXCEPT !.ret = err]) /\ pc' = [pc EXCEPT ![u] = "return"]
           /\ err = EFAULT \/ cmd >= MaxWriteOps - 1
      \/ Enter(u, f, request) /\ pc' = [pc EXCEPT ![u] = "lock"]
  BY <1>4 DEF IoctlCall
<1>6. u = t
  BY <1>1, <1>5
<1>7. PICK err \in {EFAULT, EINVAL} :
        /\ Enter(t, f, [request EXCEPT !.ret = err])
        /\ err = EFAULT \/ cmd >= MaxWriteOps - 1
  BY <1>1, <1>5, <1>6
<1>8. /\ call'[t] = [request EXCEPT !.ret = err] /\ UNCHANGED <<circ_buffer, write_entry_new_flag, f_pos>>
  BY <1>1, <1>7 DEF Enter, dev
<1>9. /\ call'[t].ret = err /\ call'[t].cmd = cmd /\ call'[t].offset = offset
  BY <1>8 DEF NoCall
<1>10. err = EINVAL /\ cmd >= MaxWriteOps - 1
  BY <1>7, <1>9
<1>11. cmd \in Nat /\ offset \in Nat
  BY ConstantsAssumption
<1>12. cmd = MaxWriteOps - 1 \/ SeekTarget(cmd, offset) = -1
  <2>1. cmd = MaxWriteOps - 1 \/ cmd >= MaxWriteOps
    BY <1>10, <1>11, MaxWriteOpsAssumption
  <2> QED  BY <1>11, <2>1, NoCommandPastRing
<1> QED  BY <1>8, <1>9, <1>10, <1>12

(* With the oldest command in slot 0 AESDCHAR_IOCSEEKTO finds the byte     *)
(* asked for and stores its offset in the file, or fails and leaves the    *)
(* file alone: where there is no such byte, and in the last slot.          *)
THEOREM SeeksAreExact == Spec => SeekExactFromSlotZero
<1> DEFINE Exact == \A t \in Threads :
             LET cmd    == call'[t].cmd
                 target == SeekTarget(cmd, call'[t].offset)
             IN  /\ pc[t] \in {"idle", "seek"} /\ pc'[t] = "return"
                 /\ call'[t].op = "ioctl" /\ call'[t].ret # EFAULT
                 /\ circ_buffer.out_offs = 0 /\ Oldest = 0
                 => IF target < 0 \/ cmd = MaxWriteOps - 1
                    THEN call'[t].ret < 0 /\ UNCHANGED f_pos
                    ELSE call'[t].ret = target /\ f_pos'[call'[t].filp] = target
<1>1. SeekInv /\ [Next]_vars => [Exact]_vars
  <2> SUFFICES ASSUME SeekInv, Next, NEW t \in Threads,
                      pc[t] \in {"idle", "seek"}, pc'[t] = "return",
                      call'[t].op = "ioctl", call'[t].ret # EFAULT,
                      circ_buffer.out_offs = 0, Oldest = 0
               PROVE  LET cmd    == call'[t].cmd
                          target == SeekTarget(cmd, call'[t].offset)
                      IN  IF target < 0 \/ cmd = MaxWriteOps - 1
                          THEN call'[t].ret < 0 /\ UNCHANGED f_pos
                          ELSE call'[t].ret = target /\ f_pos'[call'[t].filp] = target
    OBVIOUS
  <2>1. CASE Client
    <3>1. pc[t] = "idle"
      <4>1. pc'[t] # pc[t]
        OBVIOUS
      <4> QED  BY <2>1, <4>1, ClientStep DEF SeekInv
    <3> QED  BY <2>1, <3>1, SeekRefused DEF SeekInv
  <2>2. ASSUME NEW u \in Threads, KernelStep(u)
        PROVE  LET cmd    == call'[t].cmd
                   target == SeekTarget(cmd, call'[t].offset)
               IN  IF target < 0 \/ cmd = MaxWriteOps - 1
                   THEN call'[t].ret < 0 /\ UNCHANGED f_pos
                   ELSE call'[t].ret = target /\ f_pos'[call'[t].filp] = target
    <3>1. u = t
      BY <2>2, OthersStay DEF SeekInv
    <3>2. KernelStep(t)
      BY <2>2, <3>1
    <3>3. ~ (Lock(t) \/ LockInterrupted(t) \/ Write(t) \/ Read(t) \/ Return(t))
      BY DEF Lock, LockInterrupted, Write, WriteEvict, WriteNoMemory, WriteZero, WriteFault, WriteStore,
             Read, ReadCopy, ReadSpin, Return
    <3>4. IoctlSeek(t)
      BY <3>2, <3>3 DEF KernelStep, Progress
    <3>5. call[t] \in CallType
      BY DEF SeekInv, IInv, TypeOK
    <3>6. /\ call'[t] = [call[t] EXCEPT !.ret = SeekTarget(call[t].cmd, call[t].offset)]
          /\ IF SeekTarget(call[t].cmd, call[t].offset) < 0 THEN UNCHANGED f_pos
             ELSE f_pos'[call[t].filp] = SeekTarget(call[t].cmd, call[t].offset)
          /\ call[t].cmd < MaxWriteOps - 1
      BY <3>4, SeekLands
    <3>7. /\ call'[t].cmd = call[t].cmd /\ call'[t].offset = call[t].offset /\ call'[t].filp = call[t].filp
          /\ call'[t].ret = SeekTarget(call[t].cmd, call[t].offset)
          /\ call'[t].cmd # MaxWriteOps - 1
      <4>1. /\ call'[t].cmd = call[t].cmd /\ call'[t].offset = call[t].offset /\ call'[t].filp = call[t].filp
            /\ call'[t].ret = SeekTarget(call[t].cmd, call[t].offset)
        BY <3>5, <3>6 DEF CallType
      <4>2. call[t].cmd \in Nat
        BY <3>5 DEF CallType
      <4> QED  BY <3>6, <4>1, <4>2, MaxWriteOpsAssumption
    <3> QED  BY <3>6, <3>7
  <2> QED  BY <2>1, <2>2 DEF Next
<1>2. Init => SeekInv
  BY InitInv DEF SeekInv, SeeksChecked, Init
<1>3. SeekExactFromSlotZero <=> [][Exact]_vars
  BY PTL DEF SeekExactFromSlotZero
<1> QED  BY <1>1, <1>2, <1>3, SeekInvStep, PTL DEF Spec
=============================================================================
