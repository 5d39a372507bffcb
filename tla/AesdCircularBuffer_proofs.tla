---------------------- MODULE AesdCircularBuffer_proofs ----------------------
(***************************************************************************)
(* What the two search loops of aesd-circular-buffer.c return, for every   *)
(* size of the ring and every content of its slots.                        *)
(***************************************************************************)
EXTENDS AesdCircularBuffer, FlattenFacts

(* Min of a set of naturals is an element of it and below every other.     *)
LEMMA MinNatural ==
  ASSUME NEW T, T \subseteq Nat, T # {}
  PROVE  Min(T) \in T /\ \A y \in T : Min(T) <= y
BY LeastNatural DEF Min

LEMMA SlotAtType ==
  ASSUME NEW b \in CircularBuffer, NEW cnt \in Iterations
  PROVE  SlotAt(b, cnt) \in Slots /\ SizeAt(b, cnt) \in Nat
<1>1. b.out_offs \in Slots /\ b.entry \in [Slots -> BufferEntry]
  BY DEF CircularBuffer
<1>2. SlotAt(b, cnt) \in Slots
  BY <1>1, MaxWriteOpsAssumption DEF SlotAt, Slots, Iterations
<1>3. b.entry[SlotAt(b, cnt)] \in BufferEntry
  BY <1>1, <1>2
<1> QED
  BY <1>2, <1>3 DEF SizeAt, BufferEntry

(* The running byte count of the loops: for every buffer the recursion     *)
(* that defines it has a solution, so it is a natural number at every      *)
(* iteration and grows by the size of the slot just passed.                *)
LEMMA BytesBeforeProperties ==
  ASSUME NEW b \in CircularBuffer
  PROVE  /\ BytesBefore(b) \in [0 .. MaxWriteOps -> Nat]
         /\ BytesBefore(b)[0] = 0
         /\ \A cnt \in Iterations :
              BytesBefore(b)[cnt + 1] = BytesBefore(b)[cnt] + SizeAt(b, cnt)
<1> DEFINE Step(g, cnt) == IF cnt = 0 THEN 0 ELSE g[cnt - 1] + SizeAt(b, cnt - 1)
           Sums(n) == {g \in [0 .. n -> Nat] : \A cnt \in 0 .. n : g[cnt] = Step(g, cnt)}
           Bad == {n \in 0 .. MaxWriteOps : Sums(n) = {}}
<1>1. Bad = {}
  <2>1. SUFFICES ASSUME Bad # {} PROVE FALSE
    OBVIOUS
  <2>2. PICK n \in Bad : \A m \in Bad : n <= m
    <3> Bad \subseteq Nat
      BY MaxWriteOpsAssumption
    <3> QED
      BY <2>1, LeastNatural
  <2>3. CASE n = 0
    <3>1. [cnt \in 0 .. 0 |-> 0] \in Sums(0)
      OBVIOUS
    <3> QED
      BY <3>1, <2>2, <2>3
  <2>4. CASE n # 0
    <3>1. n \in Nat /\ n - 1 \in 0 .. MaxWriteOps /\ n - 1 \in Iterations
      BY <2>4, MaxWriteOpsAssumption DEF Iterations
    <3>2. n - 1 \notin Bad
      BY <2>2, <3>1
    <3>3. PICK g \in [0 .. n - 1 -> Nat] : \A cnt \in 0 .. n - 1 : g[cnt] = Step(g, cnt)
      BY <3>1, <3>2
    <3> DEFINE h == [cnt \in 0 .. n |-> IF cnt = n THEN g[n - 1] + SizeAt(b, n - 1) ELSE g[cnt]]
    <3>4. g[n - 1] + SizeAt(b, n - 1) \in Nat
      BY <3>1, <3>3, SlotAtType
    <3>5. h \in [0 .. n -> Nat]
      BY <3>1, <3>3, <3>4
    <3>6. \A cnt \in 0 .. n : h[cnt] = Step(h, cnt)
      BY <2>4, <3>1, <3>3
    <3> QED
      BY <3>5, <3>6, <2>2
  <2> QED
    BY <2>3, <2>4
<1>2. PICK g \in [0 .. MaxWriteOps -> Nat] : \A cnt \in 0 .. MaxWriteOps : g[cnt] = Step(g, cnt)
  <2>1. MaxWriteOps \in 0 .. MaxWriteOps
    BY MaxWriteOpsAssumption
  <2>2. Sums(MaxWriteOps) # {}
    BY <1>1, <2>1
  <2> QED
    BY <2>2
<1>3. g = [cnt \in 0 .. MaxWriteOps |-> IF cnt = 0 THEN 0 ELSE g[cnt - 1] + SizeAt(b, cnt - 1)]
  BY <1>2
<1> DEFINE Eq(f) == f = [cnt \in 0 .. MaxWriteOps |-> IF cnt = 0 THEN 0 ELSE f[cnt - 1] + SizeAt(b, cnt - 1)]
<1>4. Eq(BytesBefore(b))
  <2>1. BytesBefore(b) = CHOOSE f : Eq(f)
    BY DEF BytesBefore
  <2> QED
    BY <2>1, <1>3
<1>5. BytesBefore(b) \in [0 .. MaxWriteOps -> Nat]
  <2> DEFINE B == BytesBefore(b)
             Odd == {n \in 0 .. MaxWriteOps : B[n] \notin Nat}
  <2>1. SUFFICES ASSUME Odd # {} PROVE FALSE
    BY <1>4
  <2>2. PICK n \in Odd : \A m \in Odd : n <= m
    <3> Odd \subseteq Nat
      BY MaxWriteOpsAssumption
    <3> QED
      BY <2>1, LeastNatural
  <2>3. B[n] = IF n = 0 THEN 0 ELSE B[n - 1] + SizeAt(b, n - 1)
    BY <1>4, <2>2
  <2>4. n # 0
    BY <2>2, <2>3
  <2>5. n - 1 \in Iterations /\ n - 1 \in 0 .. MaxWriteOps /\ n - 1 < n
    BY <2>2, <2>4, MaxWriteOpsAssumption DEF Iterations
  <2>6. B[n - 1] \in Nat
    BY <2>2, <2>5
  <2> QED
    BY <2>2, <2>3, <2>4, <2>5, <2>6, SlotAtType
<1> QED
  BY <1>4, <1>5, MaxWriteOpsAssumption DEF Iterations

(* The count never goes down from one iteration to a later one.            *)
LEMMA BytesBeforeMonotonic ==
  ASSUME NEW b \in CircularBuffer,
         NEW m \in 0 .. MaxWriteOps, NEW n \in m .. MaxWriteOps
  PROVE  BytesBefore(b)[m] <= BytesBefore(b)[n]
<1> DEFINE B == BytesBefore(b)
           Low == {k \in m .. MaxWriteOps : ~ (B[m] <= B[k])}
<1>1. SUFFICES ASSUME Low # {} PROVE FALSE
  BY MaxWriteOpsAssumption
<1>2. PICK k \in Low : \A j \in Low : k <= j
  <2> Low \subseteq Nat
    BY MaxWriteOpsAssumption
  <2> QED
    BY <1>1, LeastNatural
<1>3. k # m /\ k \in Nat /\ m \in Nat /\ k > m
  BY <1>2, BytesBeforeProperties, MaxWriteOpsAssumption
<1>4. k - 1 \in Iterations /\ k - 1 \in m .. MaxWriteOps /\ k - 1 \in 0 .. MaxWriteOps
  BY <1>2, <1>3, MaxWriteOpsAssumption DEF Iterations
<1>5. B[m] <= B[k - 1]
  BY <1>2, <1>3, <1>4
<1>6. B[k] = B[k - 1] + SizeAt(b, k - 1)
  <2>1. (k - 1) + 1 = k
    BY <1>3
  <2> QED
    BY <1>4, <2>1, BytesBeforeProperties
<1>7. B[m] \in Nat /\ B[k - 1] \in Nat /\ SizeAt(b, k - 1) \in Nat
  BY <1>4, BytesBeforeProperties, SlotAtType
<1> QED
  BY <1>2, <1>5, <1>6, <1>7

(* aesd_circular_buffer_find_entry_offset_for_fpos is correct for every    *)
(* buffer and offset: it finds an entry exactly for the offsets below the  *)
(* number of bytes stored, and then the entry and the byte in it are those *)
(* of the concatenation that starts at out_offs.                           *)
THEOREM FindEntryCorrect ==
  ASSUME NEW b \in CircularBuffer, NEW char_offset \in Nat
  PROVE  LET hit == FindEntryOffsetForFpos(b, char_offset)
         IN  /\ hit.found <=> char_offset < BytesBefore(b)[MaxWriteOps]
             /\ hit.entry \in BufferEntry /\ hit.byte \in Nat
             /\ hit.found =>
                  \E cnt \in Iterations :
                    /\ hit.entry = b.entry[SlotAt(b, cnt)]
                    /\ hit.byte < hit.entry.size
                    /\ char_offset = BytesBefore(b)[cnt] + hit.byte
<1> DEFINE B == BytesBefore(b)
           hits == {cnt \in Iterations : B[cnt] + SizeAt(b, cnt) > char_offset}
           first == Min(hits)
           hit == FindEntryOffsetForFpos(b, char_offset)
<1>1. hits \subseteq Nat
  BY MaxWriteOpsAssumption DEF Iterations
<1>2. \A cnt \in Iterations : /\ B[cnt] \in Nat /\ SizeAt(b, cnt) \in Nat
                              /\ B[cnt + 1] = B[cnt] + SizeAt(b, cnt)
                              /\ cnt \in Nat /\ cnt + 1 \in 0 .. MaxWriteOps
  BY BytesBeforeProperties, SlotAtType, MaxWriteOpsAssumption DEF Iterations
<1>3. CASE hits = {}
  <2>1. hit = [found |-> FALSE, entry |-> NoEntry, byte |-> 0]
    BY <1>3 DEF FindEntryOffsetForFpos
  <2>2. NoEntry \in BufferEntry
    BY EmptySeq DEF NoEntry, NULL, BufferEntry
  <2>3. MaxWriteOps - 1 \in Iterations /\ (MaxWriteOps - 1) + 1 = MaxWriteOps
    BY MaxWriteOpsAssumption DEF Iterations
  <2>4. ~ (B[MaxWriteOps - 1] + SizeAt(b, MaxWriteOps - 1) > char_offset)
    BY <1>3, <2>3
  <2>5. ~ (char_offset < B[MaxWriteOps])
    BY <1>2, <2>3, <2>4
  <2> QED
    BY <2>1, <2>2, <2>5
<1>4. CASE hits # {}
  <2>1. first \in hits /\ \A y \in hits : first <= y
    BY <1>1, <1>4, MinNatural
  <2>2. hit = [found |-> TRUE, entry |-> b.entry[SlotAt(b, first)], byte |-> char_offset - B[first]]
    BY <1>4 DEF FindEntryOffsetForFpos
  <2>3. B[first] <= char_offset
    <3>1. CASE first = 0
      BY <3>1, BytesBeforeProperties
    <3>2. CASE first # 0
      <4>1. first - 1 \in Iterations /\ (first - 1) + 1 = first /\ ~ (first <= first - 1)
        BY <2>1, <3>2, MaxWriteOpsAssumption DEF Iterations
      <4>2. first - 1 \notin hits
        BY <2>1, <4>1
      <4> QED
        BY <1>2, <4>1, <4>2
    <3> QED
      BY <3>1, <3>2
  <2>4. SlotAt(b, first) \in Slots /\ b.entry[SlotAt(b, first)] \in BufferEntry
    BY <2>1, SlotAtType DEF CircularBuffer
  <2>5. char_offset - B[first] \in Nat /\ char_offset - B[first] < SizeAt(b, first)
    BY <1>2, <2>1, <2>3
  <2>6. char_offset < B[MaxWriteOps]
    <3>1. B[first + 1] <= B[MaxWriteOps]
      <4> MaxWriteOps \in first + 1 .. MaxWriteOps
        BY <2>1, MaxWriteOpsAssumption DEF Iterations
      <4> QED
        BY <1>2, <2>1, BytesBeforeMonotonic
    <3>2. B[MaxWriteOps] \in Nat
      BY BytesBeforeProperties, MaxWriteOpsAssumption
    <3> QED
      BY <1>2, <2>1, <3>1, <3>2
  <2>7. char_offset = B[first] + (char_offset - B[first])
    BY <1>2, <2>1
  <2>8. hit.found /\ hit.entry \in BufferEntry /\ hit.byte \in Nat
    BY <2>2, <2>4, <2>5
  <2>9. \E cnt \in Iterations : /\ hit.entry = b.entry[SlotAt(b, cnt)]
                                /\ hit.byte < hit.entry.size
                                /\ char_offset = B[cnt] + hit.byte
    <3>1. first \in Iterations /\ hit.entry = b.entry[SlotAt(b, first)]
      BY <2>1, <2>2
    <3>2. hit.byte < hit.entry.size /\ char_offset = B[first] + hit.byte
      BY <2>2, <2>5, <2>7 DEF SizeAt
    <3> QED
      BY <3>1, <3>2
  <2> HIDE DEF hit
  <2> QED
    BY <2>6, <2>8, <2>9 DEF hit
<1> QED
  BY <1>3, <1>4

(* aesd_buffer_find_offset returns a number.                               *)
LEMMA BufferFindOffsetType ==
  ASSUME NEW b \in CircularBuffer, NEW write_cmd \in Nat, NEW write_cmd_offset \in Nat
  PROVE  BufferFindOffset(b, write_cmd, write_cmd_offset) \in Int
<1> DEFINE B == BytesBefore(b)
           stops == {cnt \in Iterations : \/ SlotAt(b, cnt) = write_cmd
                                          \/ SizeAt(b, cnt) > 0 /\ write_cmd = cnt}
           first == Min(stops)
<1>1. CASE stops = {}
  <2>1. B[MaxWriteOps] \in Nat
    BY BytesBeforeProperties, MaxWriteOpsAssumption
  <2> QED
    BY <1>1, <2>1 DEF BufferFindOffset
<1>2. CASE stops # {}
  <2>1. stops \subseteq Nat
    BY MaxWriteOpsAssumption DEF Iterations
  <2>2. first \in Iterations
    BY <1>2, <2>1, MinNatural
  <2>3. B[first] \in Nat
    BY <2>2, BytesBeforeProperties, MaxWriteOpsAssumption DEF Iterations
  <2> QED
    BY <1>2, <2>3 DEF BufferFindOffset
<1> QED
  BY <1>1, <1>2
(* Read from slot 0, as it is until the ring first wraps, the buffer gives *)
(* aesd_buffer_find_offset slot numbers that are command numbers: it finds *)
(* the offset of the requested byte, or fails when the slot has no such    *)
(* byte.                                                                   *)
THEOREM FindOffsetExactAtZero ==
  ASSUME NEW b \in CircularBuffer, b.out_offs = 0,
         NEW write_cmd \in Iterations, NEW write_cmd_offset \in Nat
  PROVE  BufferFindOffset(b, write_cmd, write_cmd_offset) =
           IF write_cmd_offset >= b.entry[write_cmd].size THEN -1
           ELSE BytesBefore(b)[write_cmd] + write_cmd_offset
<1> DEFINE stops == {cnt \in Iterations : \/ SlotAt(b, cnt) = write_cmd
                                          \/ SizeAt(b, cnt) > 0 /\ write_cmd = cnt}
<1>1. \A cnt \in Iterations : SlotAt(b, cnt) = cnt
  BY MaxWriteOpsAssumption DEF SlotAt, Iterations
<1>2. stops = {write_cmd}
  BY <1>1
<1>3. Min(stops) = write_cmd
  <2>1. stops \subseteq Nat /\ stops # {}
    BY <1>2, MaxWriteOpsAssumption DEF Iterations
  <2> QED
    BY <1>2, <2>1, MinNatural
<1> QED
  BY <1>1, <1>2, <1>3 DEF BufferFindOffset, SizeAt

-----------------------------------------------------------------------------
(* The bytes in all slots do not depend on where reading starts.           *)
LEMMA RotationInvariant ==
  ASSUME NEW b \in CircularBuffer, NEW c \in CircularBuffer,
         c.entry = b.entry, c.out_offs = 0
  PROVE  BytesBefore(b)[MaxWriteOps] = BytesBefore(c)[MaxWriteOps]
<1> DEFINE B == BytesBefore(b)
           C == BytesBefore(c)
           o == b.out_offs
           Rotated(k) == IF o + k <= MaxWriteOps THEN C[o + k] - C[o]
                         ELSE C[MaxWriteOps] - C[o] + C[o + k - MaxWriteOps]
           Odd == {k \in 0 .. MaxWriteOps : B[k] # Rotated(k)}
<1>1. o \in Slots /\ o \in Nat /\ o \in 0 .. MaxWriteOps /\ o < MaxWriteOps /\ MaxWriteOps \in Nat
  BY MaxWriteOpsAssumption DEF CircularBuffer, Slots
<1>2. \A k \in 0 .. MaxWriteOps : C[k] \in Nat /\ B[k] \in Nat
  BY BytesBeforeProperties
<1>3. C[0] = 0 /\ B[0] = 0
  BY BytesBeforeProperties
<1>4. \A k \in Iterations : /\ SizeAt(c, k) = b.entry[k].size
                            /\ C[k + 1] = C[k] + b.entry[k].size
                            /\ b.entry[k].size \in Nat
  <2>1. \A k \in Iterations : SlotAt(c, k) = k
    BY MaxWriteOpsAssumption DEF SlotAt, Iterations
  <2>2. \A k \in Iterations : SizeAt(c, k) = b.entry[k].size
    BY <2>1 DEF SizeAt
  <2> QED
    BY <2>2, BytesBeforeProperties, SlotAtType
<1>5. Odd = {}
  <2>1. SUFFICES ASSUME Odd # {} PROVE FALSE
    OBVIOUS
  <2>2. PICK k \in Odd : \A j \in Odd : k <= j
    <3> Odd \subseteq Nat
      BY <1>1
    <3> QED
      BY <2>1, LeastNatural
  <2>3. k # 0
    BY <1>1, <1>2, <1>3, <2>2
  <2>4. k \in Nat /\ k <= MaxWriteOps /\ k - 1 \in Iterations /\ k - 1 \in 0 .. MaxWriteOps /\ ~ (k <= k - 1)
    BY <1>1, <2>2, <2>3 DEF Iterations
  <2>5. B[k - 1] = Rotated(k - 1)
    BY <2>2, <2>4
  <2>6. B[k] = B[k - 1] + b.entry[SlotAt(b, k - 1)].size
    <3>1. B[(k - 1) + 1] = B[k - 1] + SizeAt(b, k - 1) /\ (k - 1) + 1 = k
      BY <2>4, BytesBeforeProperties
    <3> QED
      BY <3>1 DEF SizeAt
  <2> HIDE DEF B, C
  <2>7. CASE o + k <= MaxWriteOps
    <3>1. SlotAt(b, k - 1) = o + (k - 1) /\ o + (k - 1) \in Iterations
      BY <1>1, <2>4, <2>7 DEF SlotAt, Iterations
    <3>2. C[o + (k - 1) + 1] = C[o + (k - 1)] + b.entry[o + (k - 1)].size
      BY <1>4, <3>1
    <3>3. o + (k - 1) + 1 = o + k /\ o + (k - 1) <= MaxWriteOps
      BY <1>1, <2>4, <2>7
    <3>4. C[o + (k - 1)] \in Nat /\ C[o + k] \in Nat /\ C[o] \in Nat /\ b.entry[o + (k - 1)].size \in Nat
      BY <1>1, <1>2, <1>4, <2>4, <2>7, <3>1
    <3>5. B[k - 1] = C[o + (k - 1)] - C[o]
      BY <2>5, <3>3
    <3>6. B[k] = C[o + k] - C[o]
      BY <2>6, <3>1, <3>2, <3>3, <3>4, <3>5
    <3> QED
      BY <2>2, <2>7, <3>6
  <2>8. CASE ~ (o + k <= MaxWriteOps)
    <3> DEFINE j == o + (k - 1) - MaxWriteOps
    <3>1. SlotAt(b, k - 1) = j /\ j \in Iterations /\ j \in 0 .. MaxWriteOps
      BY <1>1, <2>4, <2>8 DEF SlotAt, Iterations
    <3>2. C[j + 1] = C[j] + b.entry[j].size
      BY <1>4, <3>1
    <3>3. j + 1 = o + k - MaxWriteOps /\ j + 1 \in 0 .. MaxWriteOps
      BY <1>1, <2>4, <2>8
    <3>4. C[j] \in Nat /\ C[j + 1] \in Nat /\ C[o] \in Nat /\ C[MaxWriteOps] \in Nat /\ b.entry[j].size \in Nat
      BY <1>1, <1>2, <1>4, <3>1, <3>3
    <3>5. B[k - 1] = C[MaxWriteOps] - C[o] + C[j]
      <4>1. CASE o + (k - 1) = MaxWriteOps
        <5>1. j = 0
          BY <1>1, <2>4, <4>1
        <5>2. B[k - 1] = C[MaxWriteOps] - C[o]
          BY <1>1, <2>4, <2>5, <4>1
        <5> QED
          BY <5>1, <5>2, <1>3, <3>4
      <4>2. CASE ~ (o + (k - 1) <= MaxWriteOps)
        BY <2>5, <4>2
      <4> QED
        BY <4>1, <4>2, <1>1, <2>4, <2>8
    <3>6. B[k] = C[MaxWriteOps] - C[o] + C[j + 1]
      BY <2>6, <3>1, <3>2, <3>4, <3>5
    <3>7. B[k] = C[MaxWriteOps] - C[o] + C[o + k - MaxWriteOps]
      BY <3>3, <3>6
    <3> QED
      BY <2>2, <2>8, <3>7
  <2> QED
    BY <2>7, <2>8
<1>6. B[MaxWriteOps] = Rotated(MaxWriteOps)
  BY <1>1, <1>5
<1>7. o + MaxWriteOps - MaxWriteOps = o
  BY <1>1
<1>8. C[o] \in Nat /\ C[MaxWriteOps] \in Nat /\ B[MaxWriteOps] \in Nat
  BY <1>1, <1>2
<1> HIDE DEF B, C
<1>9. CASE o = 0
  BY <1>1, <1>3, <1>6, <1>8, <1>9 DEF B, C
<1>10. CASE o # 0
  BY <1>1, <1>6, <1>7, <1>8, <1>10 DEF B, C
<1> QED
  BY <1>9, <1>10 DEF B, C
(* A change to one slot changes the bytes in all slots by as much.         *)
LEMMA OneSlotChanged ==
  ASSUME NEW b \in CircularBuffer, NEW c \in CircularBuffer, NEW s \in Slots,
         c.out_offs = b.out_offs,
         \A r \in Slots \ {s} : c.entry[r] = b.entry[r]
  PROVE  BytesBefore(c)[MaxWriteOps]
           = BytesBefore(b)[MaxWriteOps] - b.entry[s].size + c.entry[s].size
<1> DEFINE B == BytesBefore(b)
           C == BytesBefore(c)
           \* the iteration that reaches slot s
           at == IF s >= b.out_offs THEN s - b.out_offs ELSE s - b.out_offs + MaxWriteOps
           Shifted(k) == IF k <= at THEN B[k] ELSE B[k] - b.entry[s].size + c.entry[s].size
           Odd == {k \in 0 .. MaxWriteOps : C[k] # Shifted(k)}
<1>1. /\ b.out_offs \in Nat /\ b.out_offs < MaxWriteOps /\ MaxWriteOps \in Nat /\ s \in Nat /\ s < MaxWriteOps
      /\ at \in Iterations
  BY MaxWriteOpsAssumption DEF CircularBuffer, Slots, Iterations
<1>2. \A k \in Iterations : /\ SlotAt(c, k) = SlotAt(b, k) /\ SlotAt(b, k) \in Slots
                            /\ SlotAt(b, k) = s <=> k = at
  BY <1>1, SlotAtType DEF SlotAt, Iterations
<1>3. \A k \in Iterations \ {at} : SizeAt(c, k) = SizeAt(b, k)
  BY <1>2 DEF SizeAt
<1>4. SizeAt(b, at) = b.entry[s].size /\ SizeAt(c, at) = c.entry[s].size
  BY <1>1, <1>2 DEF SizeAt
<1>5. b.entry[s].size \in Nat /\ c.entry[s].size \in Nat
  BY <1>1, <1>4, SlotAtType
<1>6. \A k \in 0 .. MaxWriteOps : B[k] \in Nat /\ C[k] \in Nat
  BY BytesBeforeProperties
<1>7. \A k \in Iterations : /\ B[k + 1] = B[k] + SizeAt(b, k) /\ C[k + 1] = C[k] + SizeAt(c, k)
                            /\ SizeAt(b, k) \in Nat /\ SizeAt(c, k) \in Nat
  BY BytesBeforeProperties, SlotAtType
<1>8. B[0] = 0 /\ C[0] = 0
  BY BytesBeforeProperties
<1> HIDE DEF B, C, at
<1>9. Odd = {}
  <2>1. SUFFICES ASSUME Odd # {} PROVE FALSE
    OBVIOUS
  <2>2. PICK k \in Odd : \A j \in Odd : k <= j
    <3> Odd \subseteq Nat
      BY <1>1
    <3> QED
      BY <2>1, LeastNatural
  <2>3. k # 0
    BY <1>1, <1>8, <2>2 DEF Iterations
  <2>4. k \in Nat /\ k <= MaxWriteOps /\ k - 1 \in Iterations /\ k - 1 \in 0 .. MaxWriteOps
        /\ (k - 1) + 1 = k /\ ~ (k <= k - 1)
    BY <1>1, <2>2, <2>3 DEF Iterations
  <2>5. C[k - 1] = Shifted(k - 1)
    BY <2>2, <2>4
  <2>6. C[k] = C[k - 1] + SizeAt(c, k - 1) /\ B[k] = B[k - 1] + SizeAt(b, k - 1)
    BY <1>7, <2>4
  <2>7. B[k - 1] \in Nat /\ B[k] \in Nat /\ at \in Nat /\ SizeAt(b, k - 1) \in Nat /\ SizeAt(c, k - 1) \in Nat
    BY <1>1, <1>6, <1>7, <2>4 DEF Iterations
  <2>8. CASE k - 1 = at
    BY <1>4, <1>5, <2>2, <2>4, <2>5, <2>6, <2>7, <2>8
  <2>9. CASE k - 1 # at
    <3>1. SizeAt(c, k - 1) = SizeAt(b, k - 1)
      BY <1>3, <2>4, <2>9
    <3> QED
      BY <1>5, <2>2, <2>4, <2>5, <2>6, <2>7, <2>9, <3>1
  <2> QED
    BY <2>8, <2>9
<1>10. C[MaxWriteOps] = Shifted(MaxWriteOps) /\ ~ (MaxWriteOps <= at)
  BY <1>1, <1>9 DEF Iterations
<1> QED
  BY <1>10 DEF B, C

(* The bytes in all slots, counted from slot 0.                            *)
Stored(b) == BytesBefore([b EXCEPT !.out_offs = 0])[MaxWriteOps]

(* However the indices move, a buffer in which only slot s changed holds   *)
(* as many bytes more as the slot does, and no slot holds more than all.   *)
THEOREM StoredProperties ==
  ASSUME NEW b \in CircularBuffer
  PROVE  /\ Stored(b) \in Nat
         /\ Stored(b) = BytesBefore(b)[MaxWriteOps]
         /\ \A c \in CircularBuffer, s \in Slots :
              (\A r \in Slots \ {s} : c.entry[r] = b.entry[r]) =>
                 Stored(c) = Stored(b) - b.entry[s].size + c.entry[s].size
         /\ \A s \in Slots : b.entry[s].size <= Stored(b)
<1> DEFINE Z(x) == [x EXCEPT !.out_offs = 0]
<1>1. \A x \in CircularBuffer : Z(x) \in CircularBuffer /\ Z(x).entry = x.entry /\ Z(x).out_offs = 0
  BY MaxWriteOpsAssumption DEF CircularBuffer, Slots
<1>2. \A x \in CircularBuffer : Stored(x) \in Nat
  <2>1. MaxWriteOps \in 0 .. MaxWriteOps
    BY MaxWriteOpsAssumption
  <2> QED
    BY <1>1, <2>1, BytesBeforeProperties DEF Stored
<1>3. Stored(b) = BytesBefore(b)[MaxWriteOps]
  BY <1>1, RotationInvariant DEF Stored
<1>4. ASSUME NEW c \in CircularBuffer, NEW s \in Slots,
             \A r \in Slots \ {s} : c.entry[r] = b.entry[r]
      PROVE  Stored(c) = Stored(b) - b.entry[s].size + c.entry[s].size
  <2>1. Z(b) \in CircularBuffer /\ Z(c) \in CircularBuffer /\ Z(c).out_offs = Z(b).out_offs
        /\ Z(b).entry = b.entry /\ Z(c).entry = c.entry
    BY <1>1
  <2> HIDE DEF Z
  <2>2. BytesBefore(Z(c))[MaxWriteOps]
          = BytesBefore(Z(b))[MaxWriteOps] - Z(b).entry[s].size + Z(c).entry[s].size
    BY <1>4, <2>1, OneSlotChanged
  <2> QED
    BY <2>1, <2>2 DEF Stored, Z
<1>5. ASSUME NEW s \in Slots PROVE b.entry[s].size <= Stored(b)
  <2> DEFINE c == [b EXCEPT !.entry[s] = NoEntry]
  <2>1. c \in CircularBuffer /\ c.entry[s].size = 0 /\ \A r \in Slots \ {s} : c.entry[r] = b.entry[r]
    BY EmptySeq DEF CircularBuffer, NoEntry, NULL, BufferEntry
  <2>2. Stored(c) = Stored(b) - b.entry[s].size + c.entry[s].size
    BY <1>4, <2>1
  <2>3. Stored(c) \in Nat /\ Stored(b) \in Nat /\ b.entry[s].size \in Nat
    BY <1>2, <2>1 DEF CircularBuffer, BufferEntry
  <2> HIDE DEF c
  <2> QED
    BY <2>1, <2>2, <2>3
<1> QED
  BY <1>2, <1>3, <1>4, <1>5

-----------------------------------------------------------------------------
(* The memory of the slots in the order in which the loops pass them.      *)
Pieces(b) == [k \in 1 .. MaxWriteOps |-> b.entry[SlotAt(b, k - 1)].buffptr]

Whole(b) == \A s \in Slots : b.entry[s].size = Len(b.entry[s].buffptr)

(* While sizes are the lengths of the memory, the loops' running count is  *)
(* the number of bytes in the slots passed.                                *)
LEMMA PiecesProperties ==
  ASSUME NEW b \in CircularBuffer, Whole(b)
  PROVE  /\ Pieces(b) \in Seq(Seq(Byte)) /\ Len(Pieces(b)) = MaxWriteOps
         /\ \A cnt \in Iterations : /\ Pieces(b)[cnt + 1] = b.entry[SlotAt(b, cnt)].buffptr
                                    /\ Len(Pieces(b)[cnt + 1]) = SizeAt(b, cnt)
         /\ \A cnt \in 0 .. MaxWriteOps :
              Len(FlattenSeq(SubSeq(Pieces(b), 1, cnt))) = BytesBefore(b)[cnt]
<1> DEFINE q == Pieces(b)
           L(k) == Len(FlattenSeq(SubSeq(q, 1, k)))
           B == BytesBefore(b)
           Odd == {k \in 0 .. MaxWriteOps : L(k) # B[k]}
<1>1. MaxWriteOps \in Nat /\ MaxWriteOps >= 1 /\ b.entry \in [Slots -> BufferEntry]
  BY MaxWriteOpsAssumption DEF CircularBuffer
<1>2. \A k \in 1 .. MaxWriteOps : k - 1 \in Iterations /\ SlotAt(b, k - 1) \in Slots
  BY <1>1, SlotAtType DEF Iterations
<1>3. q \in Seq(Seq(Byte)) /\ Len(q) = MaxWriteOps
  <2>1. \A k \in 1 .. MaxWriteOps : b.entry[SlotAt(b, k - 1)].buffptr \in Seq(Byte)
    BY <1>1, <1>2 DEF BufferEntry
  <2> QED  BY <1>1, <2>1 DEF Pieces
<1>4. \A cnt \in Iterations : /\ q[cnt + 1] = b.entry[SlotAt(b, cnt)].buffptr
                              /\ Len(q[cnt + 1]) = SizeAt(b, cnt)
  <2> SUFFICES ASSUME NEW cnt \in Iterations
               PROVE  /\ q[cnt + 1] = b.entry[SlotAt(b, cnt)].buffptr
                      /\ Len(q[cnt + 1]) = SizeAt(b, cnt)
    OBVIOUS
  <2>1. cnt + 1 \in 1 .. MaxWriteOps /\ (cnt + 1) - 1 = cnt
    BY <1>1 DEF Iterations
  <2>2. q[cnt + 1] = b.entry[SlotAt(b, cnt)].buffptr
    BY <2>1 DEF Pieces
  <2> QED  BY <2>2, SlotAtType DEF SizeAt, Whole
<1> HIDE DEF q
<1>5. L(0) = B[0]
  <2>1. SubSeq(q, 1, 0) = <<>> /\ FlattenSeq(<<>>) = <<>>
    BY SubSeqEmpty, FlattenProperties
  <2> QED  BY <2>1, BytesBeforeProperties, EmptySeq
<1>6. ASSUME NEW k \in Iterations, L(k) = B[k] PROVE L(k + 1) = B[k + 1]
  <2> DEFINE s == SubSeq(q, 1, k)
  <2>1. k \in Nat /\ k < Len(q)
    BY <1>1, <1>3 DEF Iterations
  <2>2. /\ s \in Seq(Seq(Byte)) /\ q[k + 1] \in Seq(Byte)
        /\ FlattenSeq(SubSeq(q, 1, k + 1)) = FlattenSeq(s) \o q[k + 1]
    BY <1>3, <2>1, FlattenPrefix
  <2>3. FlattenSeq(s) \in Seq(Byte)
    BY <2>2, FlattenProperties
  <2>4. Len(FlattenSeq(s) \o q[k + 1]) = Len(FlattenSeq(s)) + Len(q[k + 1])
    BY <2>2, <2>3, ConcatProperties
  <2>5. B[k + 1] = B[k] + SizeAt(b, k)
    BY BytesBeforeProperties
  <2> QED  BY <1>4, <1>6, <2>2, <2>4, <2>5
<1> HIDE DEF L, B
<1>7. Odd = {}
  <2>1. SUFFICES ASSUME Odd # {} PROVE FALSE
    OBVIOUS
  <2>2. PICK n \in Odd : \A m \in Odd : n <= m
    <3> Odd \subseteq Nat
      BY <1>1
    <3> QED  BY <2>1, LeastNatural
  <2>3. n # 0
    BY <1>5, <2>2
  <2>4. n - 1 \in Iterations /\ (n - 1) + 1 = n /\ n - 1 \in 0 .. MaxWriteOps /\ ~ (n <= n - 1)
    BY <1>1, <2>2, <2>3 DEF Iterations
  <2>5. L(n - 1) = B[n - 1]
    BY <2>2, <2>4
  <2>6. L((n - 1) + 1) = B[(n - 1) + 1]
    BY <1>6, <2>4, <2>5
  <2> QED  BY <2>2, <2>4, <2>6
<1> QED  BY <1>3, <1>4, <1>7 DEF q, L, B

(* aesd_circular_buffer_find_entry_offset_for_fpos, read against the       *)
(* memory of the slots put end to end: it finds an entry for each offset   *)
(* within, and from the byte it gives to the entry's end the bytes are the *)
(* ones from that offset on.                                               *)
THEOREM FindEntryReads ==
  ASSUME NEW b \in CircularBuffer, Whole(b), NEW char_offset \in Nat
  PROVE  LET hit == FindEntryOffsetForFpos(b, char_offset)
             all == FlattenSeq(Pieces(b))
         IN  /\ all \in Seq(Byte)
             /\ hit.entry \in BufferEntry /\ hit.byte \in Nat
             /\ hit.found <=> char_offset < Len(all)
             /\ hit.found =>
                  /\ hit.byte < hit.entry.size /\ hit.entry.size = Len(hit.entry.buffptr)
                  /\ char_offset + (hit.entry.size - hit.byte) <= Len(all)
                  /\ \A j \in 1 .. hit.entry.size - hit.byte :
                       hit.entry.buffptr[hit.byte + j] = all[char_offset + j]
<1> DEFINE hit == FindEntryOffsetForFpos(b, char_offset)
           all == FlattenSeq(Pieces(b))
           q == Pieces(b)
           B == BytesBefore(b)
<1>1. MaxWriteOps \in Nat /\ MaxWriteOps \in 0 .. MaxWriteOps /\ MaxWriteOps >= 1
  BY MaxWriteOpsAssumption
<1>2. q \in Seq(Seq(Byte)) /\ Len(q) = MaxWriteOps /\ all \in Seq(Byte)
  BY PiecesProperties, FlattenProperties
<1>3. Len(all) = B[MaxWriteOps]
  <2>1. SubSeq(q, 1, Len(q)) = q
    BY <1>2, SubSeqFull
  <2>2. Len(FlattenSeq(SubSeq(q, 1, MaxWriteOps))) = B[MaxWriteOps]
    BY <1>1, PiecesProperties
  <2> QED  BY <1>2, <2>1, <2>2
<1>4. hit.entry \in BufferEntry /\ hit.byte \in Nat /\ (hit.found <=> char_offset < Len(all))
  BY <1>3, FindEntryCorrect
<1>5. ASSUME hit.found
      PROVE  /\ hit.byte < hit.entry.size /\ hit.entry.size = Len(hit.entry.buffptr)
             /\ char_offset + (hit.entry.size - hit.byte) <= Len(all)
             /\ \A j \in 1 .. hit.entry.size - hit.byte :
                  hit.entry.buffptr[hit.byte + j] = all[char_offset + j]
  <2>1. PICK cnt \in Iterations : /\ hit.entry = b.entry[SlotAt(b, cnt)]
                                  /\ hit.byte < hit.entry.size
                                  /\ char_offset = B[cnt] + hit.byte
    BY <1>5, FindEntryCorrect
  <2>2. cnt \in Nat /\ cnt < Len(q) /\ cnt \in 0 .. MaxWriteOps
    BY <1>1, <1>2 DEF Iterations
  <2>3. /\ hit.entry.buffptr = q[cnt + 1] /\ hit.entry.size = Len(q[cnt + 1])
        /\ Len(FlattenSeq(SubSeq(q, 1, cnt))) = B[cnt]
    BY <2>1, <2>2, PiecesProperties DEF SizeAt
  <2>4. /\ B[cnt] \in Nat /\ Len(q[cnt + 1]) \in Nat /\ Len(all) \in Nat
        /\ B[cnt] + Len(q[cnt + 1]) <= Len(all)
        /\ \A j \in 1 .. Len(q[cnt + 1]) : all[B[cnt] + j] = q[cnt + 1][j]
    <3> HIDE DEF q, B
    <3>1. LET before == Len(FlattenSeq(SubSeq(q, 1, cnt)))
          IN  /\ before \in Nat /\ Len(q[cnt + 1]) \in Nat /\ Len(FlattenSeq(q)) \in Nat
              /\ before + Len(q[cnt + 1]) <= Len(FlattenSeq(q))
              /\ \A j \in 1 .. Len(q[cnt + 1]) : FlattenSeq(q)[before + j] = q[cnt + 1][j]
      BY <1>2, <2>2, FlattenElement
    <3> QED  BY <2>3, <3>1 DEF q
  <2> DEFINE n == Len(q[cnt + 1])
             c == B[cnt]
             at == hit.byte
  <2>5. c \in Nat /\ n \in Nat /\ at \in Nat /\ at < n /\ hit.entry.size = n /\ char_offset = c + at
    BY <1>4, <2>1, <2>3, <2>4
  <2> HIDE DEF q, B, hit, all, n, c, at
  <2>6. char_offset + (n - at) = c + n
    BY <2>5
  <2>7. ASSUME NEW j \in 1 .. n - at PROVE hit.entry.buffptr[at + j] = all[char_offset + j]
    <3>1. at + j \in 1 .. n /\ c + (at + j) = char_offset + j
      BY <2>5
    <3>2. all[c + (at + j)] = q[cnt + 1][at + j]
      BY <2>4, <3>1 DEF n, c
    <3> QED  BY <2>3, <3>1, <3>2
  <2> QED  BY <2>1, <2>3, <2>4, <2>5, <2>6, <2>7 DEF at, n, c
<1> QED  BY <1>2, <1>4, <1>5

-----------------------------------------------------------------------------
(* The entry that holds nothing, and the slot after a slot. *)
LEMMA NoEntryType == NoEntry \in BufferEntry /\ NoEntry.buffptr = NULL /\ NoEntry.size = 0
BY EmptySeq DEF NoEntry, NULL, BufferEntry

(* The slot after a slot is a slot. *)
LEMMA AdvanceType == \A s \in Slots : Advance(s) \in Slots
BY MaxWriteOpsAssumption DEF Advance, Slots

(* The commands as they are read off a ring, for any ring and flag.        *)

OldestIn(b, new) == IF b.full /\ new /\ b.entry[b.out_offs].buffptr = NULL THEN 1 ELSE 0

CompleteIn(b, new) ==
  IF ~b.full THEN b.in_offs ELSE IF new THEN MaxWriteOps - OldestIn(b, new) ELSE MaxWriteOps - 1

CommandsIn(b, new) ==
  [k \in 1 .. CompleteIn(b, new) |-> b.entry[SlotAt(b, OldestIn(b, new) + k - 1)].buffptr]

PartialIn(b, new) == IF new THEN <<>> ELSE b.entry[b.in_offs].buffptr

(* Where the next command goes in a ring of the shape RingShape describes. *)
Shaped(b, new) ==
  IF b.full THEN b.out_offs = IF new THEN b.in_offs ELSE Advance(b.in_offs)
            ELSE b.out_offs = 0

(* The commands have the slots from the oldest on; the slot written next   *)
(* is not one of them, unless it holds the oldest command of a full ring.  *)
LEMMA CommandsProperties ==
  ASSUME NEW b \in CircularBuffer, NEW new \in BOOLEAN, Shaped(b, new)
  PROVE  /\ CompleteIn(b, new) \in 0 .. MaxWriteOps /\ OldestIn(b, new) \in {0, 1}
         /\ CommandsIn(b, new) \in Seq(Seq(Byte))
         /\ Len(CommandsIn(b, new)) = CompleteIn(b, new)
         /\ \A k \in 1 .. CompleteIn(b, new) :
              /\ OldestIn(b, new) + k - 1 \in Iterations
              /\ SlotAt(b, OldestIn(b, new) + k - 1) \in Slots
              /\ CommandsIn(b, new)[k] = b.entry[SlotAt(b, OldestIn(b, new) + k - 1)].buffptr
              /\ SlotAt(b, OldestIn(b, new) + k - 1) = b.in_offs => b.full /\ new /\ k = 1 /\ OldestIn(b, new) = 0
         /\ PartialIn(b, new) \in Seq(Byte)
<1> DEFINE n == CompleteIn(b, new)
           o == OldestIn(b, new)
<1>1. /\ b.in_offs \in Slots /\ b.out_offs \in Slots /\ b.full \in BOOLEAN
      /\ b.entry \in [Slots -> BufferEntry] /\ MaxWriteOps \in Nat /\ MaxWriteOps >= 1
  BY MaxWriteOpsAssumption DEF CircularBuffer
<1>2. o \in {0, 1} /\ (o = 1 => b.full /\ new)
  BY DEF OldestIn
<1>3. n = IF ~b.full THEN b.in_offs ELSE IF new THEN MaxWriteOps - o ELSE MaxWriteOps - 1
  BY DEF CompleteIn
<1> HIDE DEF n, o
<1>4. n \in 0 .. MaxWriteOps
  BY <1>1, <1>2, <1>3 DEF Slots
<1>5. \A k \in 1 .. n : o + k - 1 \in Iterations
  BY <1>1, <1>2, <1>3 DEF Slots, Iterations
<1>6. \A k \in 1 .. n : SlotAt(b, o + k - 1) \in Slots
  BY <1>5, SlotAtType
<1>7. \A k \in 1 .. n : b.entry[SlotAt(b, o + k - 1)].buffptr \in Seq(Byte)
  BY <1>1, <1>6 DEF BufferEntry
<1>8. ASSUME NEW k \in 1 .. n, SlotAt(b, o + k - 1) = b.in_offs
      PROVE  b.full /\ new /\ k = 1 /\ o = 0
  <2>1. CASE ~b.full
    BY <1>1, <1>2, <1>3, <1>4, <1>8, <2>1 DEF Shaped, SlotAt, Slots
  <2>2. CASE b.full /\ ~new
    BY <1>1, <1>2, <1>3, <1>4, <1>8, <2>2 DEF Shaped, SlotAt, Slots, Advance
  <2>3. CASE b.full /\ new
    BY <1>1, <1>2, <1>3, <1>4, <1>8, <2>3 DEF Shaped, SlotAt, Slots
  <2> QED  BY <2>1, <2>2, <2>3, <1>1
<1>9. CommandsIn(b, new) = [k \in 1 .. n |-> b.entry[SlotAt(b, o + k - 1)].buffptr]
  BY DEF CommandsIn, n, o
<1>10. CommandsIn(b, new) \in Seq(Seq(Byte)) /\ Len(CommandsIn(b, new)) = n
  BY <1>4, <1>7, <1>9
<1>11. PartialIn(b, new) \in Seq(Byte)
  BY <1>1, EmptySeq DEF PartialIn, BufferEntry
<1> QED  BY <1>2, <1>4, <1>5, <1>6, <1>8, <1>9, <1>10, <1>11 DEF n, o

(* Equal commands, from their lengths and their elements.                  *)
LEMMA SameCommands ==
  ASSUME NEW u \in Seq(Seq(Byte)), NEW v \in Seq(Seq(Byte)), Len(u) = Len(v),
         \A k \in 1 .. Len(v) : u[k] = v[k]
  PROVE  u = v
BY SeqEqual

LEMMA TailOfCommands ==
  ASSUME NEW u \in Seq(Seq(Byte)), Len(u) >= 1
  PROVE  /\ Tail(u) \in Seq(Seq(Byte)) /\ Len(Tail(u)) = Len(u) - 1
         /\ \A k \in 1 .. Len(u) - 1 : Tail(u)[k] = u[k + 1]
<1>1. u # <<>>
  BY EmptySeq
<1> QED  BY <1>1, HeadTailProperties

(* Freeing the oldest entry of a full ring drops the oldest command.       *)
LEMMA EvictCommands ==
  ASSUME NEW b \in CircularBuffer, Shaped(b, TRUE), b.full,
         b.entry[b.in_offs].buffptr # NULL,
         NEW c \in CircularBuffer, c.in_offs = b.in_offs, c.out_offs = b.out_offs, c.full,
         c.entry[b.in_offs] = NoEntry,
         \A r \in Slots \ {b.in_offs} : c.entry[r] = b.entry[r]
  PROVE  /\ Len(CommandsIn(b, TRUE)) = MaxWriteOps
         /\ CommandsIn(c, TRUE) = Tail(CommandsIn(b, TRUE))
<1> DEFINE u == CommandsIn(b, TRUE)
           v == CommandsIn(c, TRUE)
<1>1. /\ b.in_offs \in Slots /\ b.out_offs = b.in_offs /\ MaxWriteOps \in Nat /\ MaxWriteOps >= 1
      /\ Shaped(c, TRUE)
  BY MaxWriteOpsAssumption DEF CircularBuffer, Shaped
<1>2. OldestIn(b, TRUE) = 0 /\ CompleteIn(b, TRUE) = MaxWriteOps
  BY <1>1 DEF OldestIn, CompleteIn
<1>3. OldestIn(c, TRUE) = 1 /\ CompleteIn(c, TRUE) = MaxWriteOps - 1
  BY <1>1, NoEntryType DEF OldestIn, CompleteIn
<1>4. u \in Seq(Seq(Byte)) /\ v \in Seq(Seq(Byte)) /\ Len(u) = MaxWriteOps /\ Len(v) = MaxWriteOps - 1
  BY <1>1, <1>2, <1>3, CommandsProperties
<1>5. Tail(u) \in Seq(Seq(Byte)) /\ Len(Tail(u)) = MaxWriteOps - 1
      /\ \A k \in 1 .. MaxWriteOps - 1 : Tail(u)[k] = u[k + 1]
  <2> HIDE DEF u, v
  <2> QED  BY <1>1, <1>4, TailOfCommands
<1>6. ASSUME NEW k \in 1 .. MaxWriteOps - 1 PROVE v[k] = u[k + 1]
  <2>1. k + 1 \in 1 .. MaxWriteOps /\ 1 + k - 1 = 0 + (k + 1) - 1
    BY <1>1
  <2>2. u[k + 1] = b.entry[SlotAt(b, 0 + (k + 1) - 1)].buffptr
    <3>1. \A i \in 1 .. CompleteIn(b, TRUE) :
            u[i] = b.entry[SlotAt(b, OldestIn(b, TRUE) + i - 1)].buffptr
      BY CommandsProperties
    <3> QED  BY <1>2, <2>1, <3>1
  <2>3. /\ v[k] = c.entry[SlotAt(c, 1 + k - 1)].buffptr /\ SlotAt(c, 1 + k - 1) \in Slots
        /\ SlotAt(c, 1 + k - 1) # b.in_offs
    <3>1. \A i \in 1 .. CompleteIn(c, TRUE) :
            /\ v[i] = c.entry[SlotAt(c, OldestIn(c, TRUE) + i - 1)].buffptr
            /\ SlotAt(c, OldestIn(c, TRUE) + i - 1) \in Slots
            /\ SlotAt(c, OldestIn(c, TRUE) + i - 1) = c.in_offs => OldestIn(c, TRUE) = 0
      BY <1>1, CommandsProperties
    <3> DEFINE o == OldestIn(c, TRUE)
               n == CompleteIn(c, TRUE)
    <3>2. o = 1 /\ n = MaxWriteOps - 1
      BY <1>3
    <3>3. \A i \in 1 .. n :
            /\ v[i] = c.entry[SlotAt(c, o + i - 1)].buffptr
            /\ SlotAt(c, o + i - 1) \in Slots
            /\ SlotAt(c, o + i - 1) = c.in_offs => o = 0
      BY <3>1
    <3> HIDE DEF v, o, n
    <3> QED  BY <3>2, <3>3
  <2>4. SlotAt(c, 1 + k - 1) = SlotAt(b, 0 + (k + 1) - 1)
    BY <2>1 DEF SlotAt
  <2> QED  BY <2>2, <2>3, <2>4
<1> HIDE DEF u, v
<1>7. v = Tail(u)
  BY <1>4, <1>5, <1>6, SameCommands
<1> QED  BY <1>4, <1>7 DEF u, v

(* Freeing the entry being written leaves the commands alone.              *)
LEMMA FaultCommands ==
  ASSUME NEW b \in CircularBuffer, Shaped(b, FALSE),
         NEW c \in CircularBuffer, c.in_offs = b.in_offs, c.out_offs = b.out_offs, c.full = b.full,
         \A r \in Slots \ {b.in_offs} : c.entry[r] = b.entry[r]
  PROVE  CommandsIn(c, FALSE) = CommandsIn(b, FALSE)
<1> DEFINE u == CommandsIn(b, FALSE)
           v == CommandsIn(c, FALSE)
           n == CompleteIn(b, FALSE)
<1>1. Shaped(c, FALSE) /\ OldestIn(b, FALSE) = 0 /\ OldestIn(c, FALSE) = 0 /\ CompleteIn(c, FALSE) = n
  BY DEF Shaped, OldestIn, CompleteIn
<1>2. /\ u \in Seq(Seq(Byte)) /\ v \in Seq(Seq(Byte)) /\ Len(u) = n /\ Len(v) = n
  BY <1>1, CommandsProperties
<1>3. ASSUME NEW k \in 1 .. n PROVE v[k] = u[k]
  <2>1. /\ u[k] = b.entry[SlotAt(b, 0 + k - 1)].buffptr /\ SlotAt(b, 0 + k - 1) \in Slots
        /\ SlotAt(b, 0 + k - 1) # b.in_offs
    <3>1. \A i \in 1 .. CompleteIn(b, FALSE) :
            /\ u[i] = b.entry[SlotAt(b, OldestIn(b, FALSE) + i - 1)].buffptr
            /\ SlotAt(b, OldestIn(b, FALSE) + i - 1) \in Slots
            /\ SlotAt(b, OldestIn(b, FALSE) + i - 1) # b.in_offs
      BY CommandsProperties
    <3> QED  BY <1>1, <3>1
  <2>2. v[k] = c.entry[SlotAt(c, 0 + k - 1)].buffptr
    <3>1. \A i \in 1 .. CompleteIn(c, FALSE) :
            v[i] = c.entry[SlotAt(c, OldestIn(c, FALSE) + i - 1)].buffptr
      BY <1>1, CommandsProperties
    <3> QED  BY <1>1, <3>1
  <2>3. SlotAt(c, 0 + k - 1) = SlotAt(b, 0 + k - 1)
    BY DEF SlotAt
  <2> QED  BY <2>1, <2>2, <2>3
<1> QED  BY <1>2, <1>3, SameCommands

(* Storing an entry sets or extends the command being written, and appends *)
(* it to the commands when it is complete.                                 *)
CanStore(b, new) ==
  /\ Shaped(b, new)
  /\ new => b.entry[b.in_offs].buffptr = NULL
  /\ \A s \in Slots \ {b.in_offs} : b.full \/ s < b.in_offs => b.entry[s].buffptr # NULL

LEMMA StoreCommands ==
  ASSUME NEW b \in CircularBuffer, NEW new \in BOOLEAN, CanStore(b, new),
         NEW e \in BufferEntry, e.buffptr # NULL, NEW complete \in BOOLEAN,
         NEW c \in CircularBuffer, c = AddEntry(b, e, complete, new)
  PROVE  /\ CompleteIn(b, new) < MaxWriteOps
         /\ CommandsIn(c, complete) = IF complete THEN Append(CommandsIn(b, new), e.buffptr)
                                      ELSE CommandsIn(b, new)
         /\ PartialIn(c, complete) = IF complete THEN <<>> ELSE e.buffptr
<1> DEFINE in == b.in_offs
           u == CommandsIn(b, new)
           n == CompleteIn(b, new)
           o == OldestIn(b, new)
           v == CommandsIn(c, complete)
           m == CompleteIn(c, complete)
<1> USE DEF CanStore
<1>1. /\ in \in Slots /\ b.out_offs \in Slots /\ b.full \in BOOLEAN
      /\ b.entry \in [Slots -> BufferEntry] /\ MaxWriteOps \in Nat /\ MaxWriteOps >= 1
  BY MaxWriteOpsAssumption DEF CircularBuffer
<1>2. /\ c.entry = [b.entry EXCEPT ![in] = e]
      /\ c.in_offs = IF complete THEN Advance(in) ELSE in
      /\ c.out_offs = IF new /\ b.full THEN Advance(b.out_offs) ELSE b.out_offs
      /\ c.full = IF complete THEN c.in_offs = c.out_offs ELSE b.full
  BY DEF AddEntry
<1>3. c.entry[in] = e /\ \A r \in Slots \ {in} : c.entry[r] = b.entry[r]
  BY <1>1, <1>2
<1>4. c.out_offs = (IF b.full THEN Advance(in) ELSE 0) /\ (~b.full => b.out_offs = 0)
      /\ (b.full => b.out_offs = IF new THEN in ELSE Advance(in))
  BY <1>1, <1>2 DEF Shaped
<1>5. o = (IF b.full /\ new THEN 1 ELSE 0) /\ n = (IF b.full THEN MaxWriteOps - 1 ELSE in)
  <2>1. b.full /\ new => o = 1
    BY <1>4 DEF OldestIn
  <2>2. ~ (b.full /\ new) => o = 0
    BY DEF OldestIn
  <2> QED  BY <1>1, <2>1, <2>2 DEF CompleteIn
<1>6. n < MaxWriteOps /\ n \in Nat
  BY <1>1, <1>5 DEF Slots
<1>7. c.full = (IF complete THEN b.full \/ in = MaxWriteOps - 1 ELSE b.full)
  BY <1>1, <1>2, <1>4, <1>6 DEF Advance, Slots
<1>8. Shaped(c, complete)
  BY <1>1, <1>2, <1>4, <1>7 DEF Shaped
<1>9. OldestIn(c, complete) = 0
  <2>1. CASE ~ (complete /\ c.full)
    BY <2>1 DEF OldestIn
  <2>2. CASE complete /\ c.full
    <3>1. c.out_offs \in Slots /\ (c.out_offs # in => b.full \/ c.out_offs < in)
      BY <1>1, <1>4, <1>7, <2>2 DEF Advance, Slots
    <3>2. c.entry[c.out_offs].buffptr # NULL
      BY <1>3, <3>1
    <3> QED  BY <3>2 DEF OldestIn
  <2> QED  BY <2>1, <2>2
<1>10. m = IF complete THEN n + 1 ELSE n
  BY <1>1, <1>2, <1>4, <1>5, <1>7, <1>9 DEF CompleteIn, Advance, Slots
<1>11. u \in Seq(Seq(Byte)) /\ Len(u) = n /\ v \in Seq(Seq(Byte)) /\ Len(v) = m
  BY <1>8, CommandsProperties
<1>12. \A k \in 1 .. n : /\ u[k] = b.entry[SlotAt(b, o + k - 1)].buffptr
                         /\ SlotAt(b, o + k - 1) \in Slots /\ SlotAt(b, o + k - 1) # in
  <2>1. \A k \in 1 .. n : /\ u[k] = b.entry[SlotAt(b, o + k - 1)].buffptr
                          /\ SlotAt(b, o + k - 1) \in Slots
                          /\ SlotAt(b, o + k - 1) = in => b.full /\ new /\ o = 0
    BY CommandsProperties
  <2> QED  BY <1>5, <2>1
<1>13. \A k \in 1 .. m : v[k] = c.entry[SlotAt(c, 0 + k - 1)].buffptr
  BY <1>8, <1>9, CommandsProperties
<1> HIDE DEF u, n, o, v, m
<1>14. \A k \in 1 .. n : SlotAt(c, 0 + k - 1) = SlotAt(b, o + k - 1)
  <2> SUFFICES ASSUME NEW k \in 1 .. n PROVE SlotAt(c, 0 + k - 1) = SlotAt(b, o + k - 1)
    OBVIOUS
  <2>1. k \in Nat /\ k >= 1 /\ k <= n /\ 0 + k - 1 = k - 1
    BY <1>6
  <2>2. CASE ~b.full
    <3>1. o = 0 /\ c.out_offs = b.out_offs
      BY <1>4, <1>5, <2>2
    <3> QED  BY <3>1 DEF SlotAt
  <2>3. CASE b.full /\ ~new
    <3>1. o = 0 /\ c.out_offs = b.out_offs
      BY <1>4, <1>5, <2>3
    <3> QED  BY <3>1 DEF SlotAt
  <2>4. CASE b.full /\ new
    <3>1. o = 1 /\ n = MaxWriteOps - 1 /\ b.out_offs = in /\ c.out_offs = Advance(in)
      BY <1>4, <1>5, <2>4
    <3>2. o + k - 1 = k
      BY <2>1, <3>1
    <3>3. in \in Nat /\ in < MaxWriteOps
      BY <1>1 DEF Slots
    <3>4. SlotAt(b, o + k - 1) = (IF in + k >= MaxWriteOps THEN in + k - MaxWriteOps ELSE in + k)
      BY <1>1, <2>1, <3>1, <3>2, <3>3 DEF SlotAt
    <3>5. CASE in + 1 >= MaxWriteOps
      <4>1. c.out_offs = 0 /\ in = MaxWriteOps - 1
        BY <1>1, <3>1, <3>3, <3>5 DEF Advance
      <4>2. SlotAt(c, 0 + k - 1) = k - 1
        BY <1>1, <2>1, <3>1, <4>1 DEF SlotAt
      <4> QED  BY <1>1, <2>1, <3>1, <3>4, <4>1, <4>2
    <3>6. CASE in + 1 < MaxWriteOps
      <4>1. c.out_offs = in + 1
        BY <1>1, <3>1, <3>3, <3>6 DEF Advance
      <4>2. SlotAt(c, 0 + k - 1)
              = (IF in + k >= MaxWriteOps THEN in + k - MaxWriteOps ELSE in + k)
        BY <1>1, <2>1, <3>3, <4>1 DEF SlotAt
      <4> QED  BY <3>4, <4>2
    <3> QED  BY <1>1, <3>3, <3>5, <3>6
  <2> QED  BY <1>1, <2>2, <2>3, <2>4
<1>15. \A k \in 1 .. n : v[k] = u[k]
  <2> SUFFICES ASSUME NEW k \in 1 .. n PROVE v[k] = u[k]
    OBVIOUS
  <2>1. k \in 1 .. m
    BY <1>6, <1>10
  <2> QED  BY <1>3, <1>12, <1>13, <1>14, <2>1
<1>16. CASE complete
  <2>1. SlotAt(c, 0 + (n + 1) - 1) = in /\ n + 1 \in 1 .. m
    <3>1. n + 1 \in 1 .. m /\ 0 + (n + 1) - 1 = n
      BY <1>6, <1>10, <1>16
    <3>2. CASE b.full
      <4>1. n = MaxWriteOps - 1 /\ c.out_offs = Advance(in)
        BY <1>4, <1>5, <3>2
      <4> QED  BY <1>1, <3>1, <4>1 DEF SlotAt, Advance, Slots
    <3>3. CASE ~b.full
      <4>1. n = in /\ c.out_offs = 0
        BY <1>4, <1>5, <3>3
      <4> QED  BY <1>1, <3>1, <4>1 DEF SlotAt, Slots
    <3> QED  BY <1>1, <3>1, <3>2, <3>3
  <2>2. v[n + 1] = e.buffptr
    BY <1>3, <1>13, <2>1
  <2>3. e.buffptr \in Seq(Byte)
    BY DEF BufferEntry
  <2>4. /\ Append(u, e.buffptr) \in Seq(Seq(Byte)) /\ Len(Append(u, e.buffptr)) = n + 1
        /\ \A k \in 1 .. n : Append(u, e.buffptr)[k] = u[k]
        /\ Append(u, e.buffptr)[n + 1] = e.buffptr
    BY <1>11, <2>3, AppendProperties
  <2>5. \A k \in 1 .. n + 1 : v[k] = Append(u, e.buffptr)[k]
    <3> SUFFICES ASSUME NEW k \in 1 .. n + 1 PROVE v[k] = Append(u, e.buffptr)[k]
      OBVIOUS
    <3>1. k \in 1 .. n \/ k = n + 1
      BY <1>6
    <3> QED  BY <1>15, <2>2, <2>4, <3>1
  <2>6. v = Append(u, e.buffptr)
    BY <1>10, <1>11, <1>16, <2>4, <2>5, SameCommands
  <2>7. PartialIn(c, complete) = <<>>
    BY <1>16 DEF PartialIn
  <2> QED  BY <1>6, <1>16, <2>6, <2>7 DEF u, v, n
<1>17. CASE ~complete
  <2>1. v = u
    BY <1>10, <1>11, <1>15, <1>17, SameCommands
  <2>2. PartialIn(c, complete) = e.buffptr
    BY <1>2, <1>3, <1>17 DEF PartialIn
  <2> QED  BY <1>6, <1>17, <2>1, <2>2 DEF u, v, n
<1> QED  BY <1>16, <1>17

(* The slots past the one being written of a ring that has not filled.     *)
RestEmpty(b, new) ==
  ~b.full => /\ \A s \in Slots : s > b.in_offs => b.entry[s].buffptr = <<>>
             /\ new => b.entry[b.in_offs].buffptr = <<>>

(* The memory the search loops pass, put end to end, is the commands and   *)
(* the command being written.                                              *)
LEMMA ContentsOfRing ==
  ASSUME NEW b \in CircularBuffer, NEW new \in BOOLEAN, Shaped(b, new), RestEmpty(b, new), Whole(b)
  PROVE  FlattenSeq(Pieces(b)) = FlattenSeq(CommandsIn(b, new)) \o PartialIn(b, new)
<1> DEFINE q == Pieces(b)
           u == CommandsIn(b, new)
           part == PartialIn(b, new)
           n == CompleteIn(b, new)
           o == OldestIn(b, new)
<1>1. /\ b.in_offs \in Slots /\ b.out_offs \in Slots /\ b.full \in BOOLEAN
      /\ MaxWriteOps \in Nat /\ MaxWriteOps >= 1
  BY MaxWriteOpsAssumption DEF CircularBuffer
<1>2. q \in Seq(Seq(Byte)) /\ Len(q) = MaxWriteOps
  BY PiecesProperties
<1>3. \A k \in 1 .. MaxWriteOps : q[k] = b.entry[SlotAt(b, k - 1)].buffptr
  BY DEF Pieces
<1>4. u \in Seq(Seq(Byte)) /\ Len(u) = n /\ n \in Nat /\ part \in Seq(Byte) /\ o \in {0, 1}
  BY <1>1, CommandsProperties
<1>5. \A k \in 1 .. n : u[k] = b.entry[SlotAt(b, o + k - 1)].buffptr
  BY CommandsProperties
<1>6. FlattenSeq(u) \in Seq(Byte) /\ FlattenSeq(<<>>) = <<>>
  BY <1>4, FlattenProperties
<1>7. CASE b.full /\ ~new
  <2>1. n = MaxWriteOps - 1 /\ o = 0 /\ part = b.entry[b.in_offs].buffptr
    BY <1>7 DEF CompleteIn, OldestIn, PartialIn
  <2>2. SlotAt(b, MaxWriteOps - 1) = b.in_offs
    BY <1>1, <1>7 DEF Shaped, SlotAt, Advance, Slots
  <2> HIDE DEF q, u, n, o, part
  <2>3. /\ Append(u, part) \in Seq(Seq(Byte)) /\ Len(Append(u, part)) = n + 1
        /\ \A k \in 1 .. n : Append(u, part)[k] = u[k]
        /\ Append(u, part)[n + 1] = part
    BY <1>4, AppendProperties
  <2>4. \A k \in 1 .. MaxWriteOps : q[k] = Append(u, part)[k]
    <3> SUFFICES ASSUME NEW k \in 1 .. MaxWriteOps PROVE q[k] = Append(u, part)[k]
      OBVIOUS
    <3>1. CASE k \in 1 .. n
      <4>1. 0 + k - 1 = k - 1
        OBVIOUS
      <4> QED  BY <1>3, <1>5, <2>1, <2>3, <3>1, <4>1
    <3>2. CASE k = n + 1
      <4>1. k - 1 = MaxWriteOps - 1
        BY <1>1, <2>1, <3>2
      <4> QED  BY <1>3, <2>1, <2>2, <2>3, <3>2, <4>1
    <3>3. k \in 1 .. n \/ k = n + 1
      BY <1>1, <2>1
    <3> QED  BY <3>1, <3>2, <3>3
  <2>5. q = Append(u, part)
    <3>1. Len(Append(u, part)) = MaxWriteOps
      BY <1>1, <2>1, <2>3
    <3> QED  BY <1>2, <2>3, <2>4, <3>1, SameCommands
  <2> QED  BY <1>4, <2>5, FlattenProperties DEF q, u, part
<1>8. CASE b.full /\ new /\ o = 0
  <2>1. n = MaxWriteOps /\ part = <<>>
    <3>1. part = <<>>
      BY <1>8 DEF PartialIn
    <3>2. n = MaxWriteOps - o
      BY <1>8 DEF CompleteIn
    <3> HIDE DEF n, o
    <3>3. n = MaxWriteOps
      BY <1>1, <1>8, <3>2
    <3> QED  BY <3>1, <3>3
  <2> HIDE DEF q, u, n, o, part
  <2>2. \A k \in 1 .. MaxWriteOps : q[k] = u[k]
    <3> SUFFICES ASSUME NEW k \in 1 .. MaxWriteOps PROVE q[k] = u[k]
      OBVIOUS
    <3>1. 0 + k - 1 = k - 1
      OBVIOUS
    <3> QED  BY <1>3, <1>5, <1>8, <2>1, <3>1
  <2>3. q = u
    BY <1>2, <1>4, <2>1, <2>2, SameCommands
  <2> QED  BY <1>6, <2>1, <2>3, ConcatEmptySeq DEF q, u, part
<1>9. CASE b.full /\ new /\ o = 1
  <2>1. n = MaxWriteOps - 1 /\ part = <<>> /\ b.entry[b.out_offs].buffptr = <<>>
    BY <1>1, <1>9 DEF CompleteIn, PartialIn, OldestIn, NULL
  <2>2. SlotAt(b, 0) = b.out_offs
    BY <1>1 DEF SlotAt, Slots
  <2> DEFINE e == Append(<<>>, <<>>)
  <2> HIDE DEF q, u, n, o, part
  <2>3. /\ <<>> \in Seq(Byte) /\ <<>> \in Seq(Seq(Byte)) /\ Len(<<>>) = 0
    BY EmptySeq
  <2>4. e \in Seq(Seq(Byte)) /\ Len(e) = 1 /\ e[1] = <<>>
    <3>1. /\ Append(<<>>, <<>>) \in Seq(Seq(Byte)) /\ Len(Append(<<>>, <<>>)) = Len(<<>>) + 1
          /\ Append(<<>>, <<>>)[Len(<<>>) + 1] = <<>>
      BY <2>3, AppendProperties
    <3> QED  BY <2>3, <3>1
  <2>5. FlattenSeq(e) = <<>>
    <3>1. FlattenSeq(Append(<<>>, <<>>)) = FlattenSeq(<<>>) \o <<>>
      BY <2>3, FlattenProperties
    <3> QED  BY <1>6, <2>3, <3>1, ConcatEmptySeq
  <2> HIDE DEF e
  <2>6. /\ e \o u \in Seq(Seq(Byte)) /\ Len(e \o u) = 1 + n
        /\ \A k \in 1 .. 1 + n : (e \o u)[k] = IF k <= 1 THEN e[k] ELSE u[k - 1]
    <3>1. /\ e \o u \in Seq(Seq(Byte)) /\ Len(e \o u) = Len(e) + Len(u)
          /\ \A k \in 1 .. Len(e) + Len(u) : (e \o u)[k] = IF k <= Len(e) THEN e[k] ELSE u[k - Len(e)]
      BY <1>4, <2>4, ConcatProperties
    <3> QED  BY <1>4, <2>4, <3>1
  <2>7. \A k \in 1 .. MaxWriteOps : q[k] = (e \o u)[k]
    <3> SUFFICES ASSUME NEW k \in 1 .. MaxWriteOps PROVE q[k] = (e \o u)[k]
      OBVIOUS
    <3>1. CASE k = 1
      <4>1. k - 1 = 0 /\ k \in 1 .. 1 + n /\ k <= 1
        BY <1>4, <3>1
      <4>2. (e \o u)[k] = e[1]
        BY <2>6, <3>1, <4>1
      <4> QED  BY <1>3, <2>1, <2>2, <2>4, <4>1, <4>2
    <3>2. CASE k # 1
      <4>1. /\ k - 1 \in 1 .. n /\ 1 + (k - 1) - 1 = k - 1 /\ k \in 1 .. 1 + n /\ ~ (k <= 1)
        BY <1>1, <2>1, <3>2
      <4>2. (e \o u)[k] = u[k - 1]
        BY <2>6, <4>1
      <4>3. u[k - 1] = b.entry[SlotAt(b, k - 1)].buffptr
        BY <1>5, <1>9, <4>1
      <4> QED  BY <1>3, <4>2, <4>3
    <3> QED  BY <3>1, <3>2
  <2>8. q = e \o u
    <3>1. Len(e \o u) = MaxWriteOps
      BY <1>1, <2>1, <2>6
    <3> QED  BY <1>2, <2>6, <2>7, <3>1, SameCommands
  <2>9. FlattenSeq(e \o u) = <<>> \o FlattenSeq(u)
    BY <1>4, <2>4, <2>5, FlattenConcat
  <2> QED  BY <1>6, <2>1, <2>8, <2>9, ConcatEmptySeq DEF q, u, part
<1>10. CASE ~b.full
  <2> DEFINE x == b.entry[b.in_offs].buffptr
             m == MaxWriteOps - 1 - b.in_offs
             e == [i \in 1 .. m |-> <<>>]
  <2>1. /\ n = b.in_offs /\ o = 0 /\ b.out_offs = 0
    BY <1>10 DEF CompleteIn, OldestIn, Shaped
  <2>2. \A k \in 1 .. MaxWriteOps : SlotAt(b, k - 1) = k - 1
    BY <1>1, <2>1 DEF SlotAt
  <2>3. part = x /\ x \in Seq(Byte)
    <3>1. part = IF new THEN <<>> ELSE x
      BY DEF PartialIn
    <3> QED  BY <1>4, <1>10, <3>1, EmptySeq DEF RestEmpty
  <2>4. m \in Nat /\ n + 1 + m = MaxWriteOps
    BY <1>1, <2>1 DEF Slots
  <2>5. e \in Seq(Seq(Byte)) /\ Len(e) = m /\ \A i \in 1 .. m : e[i] = <<>>
    <3>1. <<>> \in Seq(Byte)
      BY EmptySeq
    <3> HIDE DEF m
    <3>2. e \in [1 .. m -> Seq(Byte)] /\ \A i \in 1 .. m : e[i] = <<>>
      BY <3>1
    <3> HIDE DEF e
    <3> QED  BY <2>4, <3>2
  <2>6. FlattenSeq(e) = <<>>
    BY <2>5, FlattenEmpty
  <2> HIDE DEF q, u, n, o, part, x, e, m
  <2> DEFINE v == Append(u, part)
  <2>7. /\ v \in Seq(Seq(Byte)) /\ Len(v) = n + 1
        /\ \A k \in 1 .. n : v[k] = u[k]
        /\ v[n + 1] = part
    BY <1>4, AppendProperties
  <2>8. FlattenSeq(v) = FlattenSeq(u) \o part
    BY <1>4, FlattenProperties
  <2> HIDE DEF v
  <2>9. /\ v \o e \in Seq(Seq(Byte)) /\ Len(v \o e) = (n + 1) + m
        /\ \A k \in 1 .. (n + 1) + m : (v \o e)[k] = IF k <= n + 1 THEN v[k] ELSE e[k - (n + 1)]
    <3>1. /\ v \o e \in Seq(Seq(Byte)) /\ Len(v \o e) = Len(v) + Len(e)
          /\ \A k \in 1 .. Len(v) + Len(e) : (v \o e)[k] = IF k <= Len(v) THEN v[k] ELSE e[k - Len(v)]
      BY <2>5, <2>7, ConcatProperties
    <3> QED  BY <2>5, <2>7, <3>1
  <2>10. \A k \in 1 .. MaxWriteOps : q[k] = (v \o e)[k]
    <3> SUFFICES ASSUME NEW k \in 1 .. MaxWriteOps PROVE q[k] = (v \o e)[k]
      OBVIOUS
    <3>1. q[k] = b.entry[k - 1].buffptr /\ k \in 1 .. (n + 1) + m
      BY <1>3, <2>2, <2>4
    <3>2. CASE k \in 1 .. n
      <4>1. 0 + k - 1 = k - 1 /\ k <= n + 1
        BY <1>4, <3>2
      <4>2. u[k] = b.entry[k - 1].buffptr
        BY <1>5, <2>1, <2>2, <3>2, <4>1
      <4>3. (v \o e)[k] = u[k]
        BY <2>7, <2>9, <3>1, <3>2, <4>1
      <4> QED  BY <3>1, <4>2, <4>3
    <3>3. CASE k = n + 1
      <4>1. k - 1 = b.in_offs /\ k <= n + 1
        BY <1>4, <2>1, <3>3
      <4>2. (v \o e)[k] = part
        BY <2>7, <2>9, <3>1, <3>3, <4>1
      <4> QED  BY <2>3, <3>1, <4>1, <4>2 DEF x
    <3>4. CASE k > n + 1
      <4>1. k - 1 \in Slots /\ k - 1 > b.in_offs /\ ~ (k <= n + 1) /\ k - (n + 1) \in 1 .. m
        BY <1>1, <1>4, <2>1, <2>4, <3>4 DEF Slots
      <4>2. (v \o e)[k] = <<>>
        BY <2>5, <2>9, <3>1, <4>1
      <4> QED  BY <1>10, <3>1, <4>1, <4>2 DEF RestEmpty
    <3>5. k \in 1 .. n \/ k = n + 1 \/ k > n + 1
      BY <1>4
    <3> QED  BY <3>2, <3>3, <3>4, <3>5
  <2>11. q = v \o e
    <3>1. Len(v \o e) = MaxWriteOps
      BY <2>4, <2>9
    <3> QED  BY <1>2, <2>9, <2>10, <3>1, SameCommands
  <2>12. FlattenSeq(v \o e) = FlattenSeq(v) \o <<>>
    BY <2>5, <2>6, <2>7, FlattenConcat
  <2>13. FlattenSeq(v) \in Seq(Byte)
    BY <2>7, FlattenProperties
  <2> QED  BY <2>8, <2>11, <2>12, <2>13, ConcatEmptySeq DEF q, u, part
<1> QED  BY <1>1, <1>4, <1>7, <1>8, <1>9, <1>10
=============================================================================
