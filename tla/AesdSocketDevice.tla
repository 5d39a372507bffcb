-------------------------- MODULE AesdSocketDevice --------------------------
(***************************************************************************)
(* The server of server/aesdsocket.c as the Makefile builds it, with       *)
(* USE_AESD_CHAR_DEVICE=1: the threads of AesdSocket over the driver's     *)
(* circular buffer.  Only the server uses the device, with file_mutex      *)
(* held, so what it does there in one critical section is one step.        *)
(*                                                                         *)
(* file is everything ever written to the device, which no action reads.   *)
(* A byte in the device, and in a response, is its index in file, so that  *)
(* properties can tell which byte it is.                                   *)
(***************************************************************************)
EXTENDS AesdSocket, AesdCircularBuffer

CONSTANTS
  Earlier,     \* commands written before the server started
  SeekRequest  \* per client: the two numbers of its seek command

ASSUME DeviceAssumption ==
  /\ UseCharDevice
  /\ Byte = Nat
  /\ Earlier \in Seq(Seq(Bytes) \ {<<>>}) /\ Len(Earlier) <= MaxWriteOps
  /\ \A k \in 1 .. Len(Earlier) : \A i \in 1 .. Len(Earlier[k]) :
       Earlier[k][i] = NL <=> i = Len(Earlier[k])
  /\ SeekRequest \in [Clients -> [cmd : Nat, offset : Nat]]

VARIABLES
  circ_buffer, write_entry_new_flag,  \* of struct aesd_dev
  offset                              \* per connection: aesdsocket_task's offset

devicevars == <<circ_buffer, write_entry_new_flag, offset>>
allvars    == <<vars, devicevars>>

(* The device holds what was written earlier, from its first slot on.      *)
(* Whose bytes these are does not matter: they carry the name of the       *)
(* timestamp thread, which this build does not have.                       *)
DInit ==
  LET from(k)    == Len(FlattenSeq(SubSeq(Earlier, 1, k - 1)))
      command(k) == [buffptr |-> [i \in 1 .. Len(Earlier[k]) |-> from(k) + i],
                     size    |-> Len(Earlier[k])]
  IN  /\ Start(By(Stamper, FlattenSeq(Earlier)))
      /\ circ_buffer = [entry    |-> [s \in Slots |-> IF s < Len(Earlier) THEN command(s + 1) ELSE NoEntry],
                        in_offs  |-> Len(Earlier) % MaxWriteOps,
                        out_offs |-> 0,
                        full     |-> Len(Earlier) = MaxWriteOps]
      /\ write_entry_new_flag = TRUE
      /\ offset = [c \in Clients |-> 0]

-----------------------------------------------------------------------------
(* readClientDataToFile: what its critical section does to the device. *)

(* Mutant: what is already in the entry is not kept. *)
DeviceWriteForgets(bytes, complete) ==
  /\ circ_buffer' = AddEntry(circ_buffer, [buffptr |-> bytes, size |-> Len(bytes)],
                             complete, write_entry_new_flag)
  /\ write_entry_new_flag' = complete

(* aesd_write, once for a block. It sets a new command in the place of the *)
(* oldest, or appends to the one being written, whoever began that.        *)
DeviceWrite(bytes, complete) ==
  LET entry == circ_buffer.entry[circ_buffer.in_offs]
      whole == IF write_entry_new_flag THEN bytes ELSE entry.buffptr \o bytes
  IN  /\ circ_buffer' = AddEntry(circ_buffer, [buffptr |-> whole, size |-> Len(whole)],
                                 complete, write_entry_new_flag)
      /\ write_entry_new_flag' = complete

DWriteBlock(c) ==
  LET block == task[c].buf
  IN  /\ ~Locked
      /\ ~IsSeek(block)
      /\ BlockDone(c, block, task[c].ended)
      /\ DeviceWrite([i \in 1 .. Len(block) |-> Len(file) + i], Last(block) = NL)
      /\ UNCHANGED offset

(* Mutants: the offset in the command is taken for the position; the last  *)
(* two slots are refused.                                                  *)
DeviceSeekInCommand(request) == request.offset
DeviceSeekRefusesTwo(request) ==
  IF request.cmd >= MaxWriteOps - 2 THEN -1
  ELSE BufferFindOffset(circ_buffer, request.cmd, request.offset)

(* AESDCHAR_IOCSEEKTO: the position, or a negative number. *)
DeviceSeek(request) ==
  IF request.cmd >= MaxWriteOps - 1 THEN -1
  ELSE BufferFindOffset(circ_buffer, request.cmd, request.offset)

(* A seek that succeeds gives the response its offset, and a seek that     *)
(* fails, or whose two numbers cannot be read, ends the packet; the        *)
(* newline ends it in any case.                                            *)
DSeek(c) ==
  LET position == DeviceSeek(SeekRequest[c])
  IN  /\ ~Locked
      /\ IsSeek(task[c].buf)
      /\ BlockDone(c, <<>>, task[c].ended \/ position < 0)
      /\ offset' = IF position < 0 THEN offset ELSE [offset EXCEPT ![c] = position]
      /\ UNCHANGED <<circ_buffer, write_entry_new_flag>>

-----------------------------------------------------------------------------
(* sendDataBackToClient: fread's calls of aesd_read, each of which returns *)
(* the rest of one command, until one returns nothing or the block is full.*)

ByteAt(pos) ==
  LET hit == FindEntryOffsetForFpos(circ_buffer, pos)
  IN  hit.entry.buffptr[hit.byte + 1]

DeviceBytes(pos, n) ==
  LET there == {i \in 1 .. n : FindEntryOffsetForFpos(circ_buffer, pos + i - 1).found}
  IN  [i \in 1 .. Cardinality(there) |-> ByteAt(pos + i - 1)]

(* Mutant: the response begins at the start of the device. *)
ReadIgnoresOffset(c) ==
  /\ LockAndRead(c, DeviceBytes(task[c].counter, BlockSize))
  /\ UNCHANGED devicevars

DReadBlock(c) ==
  /\ LockAndRead(c, DeviceBytes(task[c].counter + offset[c], BlockSize))
  /\ UNCHANGED devicevars

-----------------------------------------------------------------------------
DTask(c) ==
  \/ DWriteBlock(c) \/ DSeek(c) \/ DReadBlock(c)
  \/ Connection(c) /\ UNCHANGED devicevars

DNext ==
  /\ status = "running"
  /\ (\E c \in Clients : DTask(c)) \/ (Others /\ UNCHANGED devicevars)

DSpec == DInit /\ [][DNext]_allvars

-----------------------------------------------------------------------------
(* Properties *)

(* All the device holds, oldest first. *)
Held == FlattenSeq([k \in 1 .. MaxWriteOps |-> circ_buffer.entry[SlotAt(circ_buffer, k - 1)].buffptr])

NothingDropped == Len(Held) = Len(file)

EndsCommand(i) == i = 0 \/ file[i].byte = NL

(* The device holds the end of what was ever written, with no byte lost or *)
(* moved when the blocks of several connections join into one command; it  *)
(* drops whole commands, and only when it holds all it can.                *)
DeviceKeepsNewest ==
  LET dropped == Len(file) - Len(Held)
  IN  /\ \A i \in 1 .. Len(Held) : Held[i] = dropped + i
      /\ EndsCommand(dropped)
      /\ dropped > 0 =>
           Cardinality({i \in dropped + 1 .. Len(file) : EndsCommand(i)}) >= MaxWriteOps - 1

(* However often the device drops its oldest command between the blocks of *)
(* a response, which moves every later byte, no byte is sent twice and     *)
(* none after a later one.                                                 *)
ResponseInOrder ==
  \A c \in Clients : \A i, j \in 1 .. Len(Response(c)) :
    i < j => Response(c)[i] < Response(c)[j]

(* While nothing has been dropped, a response has no gaps and begins at    *)
(* the position the seek command asked for.                                *)
ResponseFromOffset ==
  NothingDropped =>
    \A c \in Clients : \A i \in 1 .. Len(Response(c)) : Response(c)[i] = offset[c] + i

(* While nothing has been dropped, the position a client sought is the     *)
(* requested byte of the requested command, counting every newline written *)
(* to the device, by whichever connection, as the end of a command.        *)
SeekFindsCommand ==
  NothingDropped =>
    \A c \in Clients :
      offset[c] > 0 =>
        LET from == offset[c] - SeekRequest[c].offset
        IN  /\ EndsCommand(from)
            /\ Cardinality({i \in 1 .. from : file[i].byte = NL}) = SeekRequest[c].cmd
            /\ \A i \in from + 1 .. offset[c] : file[i].byte # NL

(* The positions of the requested byte of the requested command: there is  *)
(* one, or, if no such byte has been written, none.                        *)
PositionsOf(request) ==
  {position \in request.offset .. Len(file) - 1 :
     LET from == position - request.offset
     IN  /\ EndsCommand(from)
         /\ Cardinality({i \in 1 .. from : file[i].byte = NL}) = request.cmd
         /\ \A i \in from + 1 .. position : file[i].byte # NL}

(* While nothing has been dropped, a seek command finds the requested      *)
(* byte, the one being written not excepted.  It is refused, which leaves  *)
(* the offset and ends the packet, only if there is no such byte, or if    *)
(* the command is in the last slot, whose number the driver refuses.       *)
SeekExactOnDevice ==
  [][\A c \in Clients :
       LET request == SeekRequest[c]
       IN  /\ task[c].pc = "write" /\ IsSeek(task[c].buf) /\ task'[c].pc # "write"
           /\ NothingDropped
           => IF request.cmd < MaxWriteOps - 1 /\ PositionsOf(request) # {}
              THEN offset'[c] \in PositionsOf(request)
              ELSE offset'[c] = offset[c] /\ task'[c].pc = "send"]_allvars

(* While nothing has been dropped, a client whose connection the server    *)
(* has closed without a signal has got back every byte the server received *)
(* from it, in order.                                                      *)
OwnPacketFromDevice ==
  \A c \in Clients :
    LET sent == [i \in 1 .. Len(Response(c)) |-> file[Response(c)[i]]]
    IN  /\ NothingDropped /\ interrupted = "nothing" /\ ~Seeks(c)
        /\ task[c].pc = "done" /\ net[c].state = "open"
        => BytesOf(WrittenBy(c, sent)) = Received(c)
=============================================================================
