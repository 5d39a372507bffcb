------------------------------ MODULE AesdChar ------------------------------
(***************************************************************************)
(* The character device of aesd-char-driver/main.c: the device state of    *)
(* struct aesd_dev, the open files, and the threads inside its file        *)
(* operations.  A call enters through the kernel's VFS (modelled from how  *)
(* the handlers are used: read and write work on a copy of the position    *)
(* and a negative return value leaves the file's position alone), waits    *)
(* for the device mutex, runs under it, and returns.  aesd_llseek takes no *)
(* lock and is one step.                                                   *)
(***************************************************************************)
EXTENDS AesdCircularBuffer, SequencesExt

CONSTANTS
  NL,              \* '\n', the byte that completes a command
  Files, Threads,  \* open file descriptions and the threads that use them
  None,            \* no thread, no file
  WriteInputs,     \* what a client writes in one call
  ReadCounts,      \* how many bytes a client asks for
  SeekOffsets,     \* the off argument of lseek
  SeekCmds, SeekCmdOffsets,  \* the two fields of struct aesd_seekto
  MayFail,         \* which of "EINTR", "ENOMEM", "EFAULT" can happen
  ReadBytesMax,    \* largest value of aesd_read's uint16_t read_bytes
  MaxEntry,        \* bound: bytes of the command being written
  MaxPos           \* bound: a file's position and the device's size

ASSUME ConstantsAssumption ==
  /\ NL \in Byte
  /\ None \notin Files \cup Threads
  /\ WriteInputs \subseteq Seq(Byte)
  /\ ReadCounts \subseteq Nat
  /\ SeekOffsets \subseteq Int
  /\ SeekCmds \subseteq Nat /\ SeekCmdOffsets \subseteq Nat
  /\ ReadBytesMax \in Nat \ {0} /\ MaxEntry \in Nat /\ MaxPos \in Nat

VARIABLES
  circ_buffer,           \* aesd_dev.circ_buffer
  write_entry_new_flag,  \* aesd_dev.write_entry_new_flag
  size,                  \* aesd_dev.size
  mutex_lock,            \* aesd_dev.mutex_lock: its holder or None
  opened,                \* the open files
  f_pos,                 \* struct file's f_pos, per file
  pc, call               \* per thread: where it is, and its call's data

dev  == <<circ_buffer, write_entry_new_flag, size>>
vars == <<circ_buffer, write_entry_new_flag, size, mutex_lock, opened, f_pos, pc, call>>

EINVAL == -22
ENOMEM == -12
EFAULT == -14
ERESTARTSYS == -512

(* aesd_write returns an uninitialised retval for a zero-byte write; all   *)
(* that its caller's step depends on is the sign.                          *)
UninitRet == {-1, 0}

(* buf is what a write brings or a read delivers; count belongs to read,   *)
(* cmd and offset to ioctl; pos is the position the handler works on.      *)
NoCall == [op |-> "none", filp |-> None, pos |-> 0, buf |-> <<>>, count |-> 0,
           cmd |-> 0, offset |-> 0, ret |-> 0]

Inside == {"evict", "store", "copy", "seek", "spin"}  \* with the mutex held

Init ==
  /\ circ_buffer = BufferInit
  /\ write_entry_new_flag = TRUE
  /\ size = 0
  /\ mutex_lock = None
  /\ opened = {}
  /\ f_pos = [f \in Files |-> 0]
  /\ pc = [t \in Threads |-> "idle"]
  /\ call = [t \in Threads |-> NoCall]

-----------------------------------------------------------------------------
(* Opening and closing; a file is released when no call is using it. *)

AesdOpen(f) ==
  /\ f \notin opened
  /\ opened' = opened \cup {f}
  /\ f_pos' = [f_pos EXCEPT ![f] = 0]
  /\ UNCHANGED <<dev, mutex_lock, pc, call>>

AesdRelease(f) ==
  /\ f \in opened
  /\ \A t \in Threads : call[t].filp # f
  /\ opened' = opened \ {f}
  /\ f_pos' = [f_pos EXCEPT ![f] = 0]
  /\ UNCHANGED <<dev, mutex_lock, pc, call>>

(* aesd_llseek: the position is set without the mutex and without a check, *)
(* and SEEK_END ignores off.                                               *)
AesdLlseek(f, off, whence) ==
  LET newpos == CASE whence = "SEEK_SET" -> off
                  [] whence = "SEEK_CUR" -> f_pos[f] + off
                  [] whence = "SEEK_END" -> size
  IN  /\ f \in opened
      /\ newpos \in -MaxPos .. MaxPos
      /\ f_pos' = [f_pos EXCEPT ![f] = newpos]
      /\ UNCHANGED <<dev, mutex_lock, opened, pc, call>>

-----------------------------------------------------------------------------
(* Entry of a system call. The VFS refuses a negative position. *)

Enter(t, f, request) ==
  /\ pc[t] = "idle"
  /\ f \in opened
  /\ call' = [call EXCEPT ![t] = request]
  /\ UNCHANGED <<dev, mutex_lock, opened, f_pos>>

BeingWritten == circ_buffer.entry[circ_buffer.in_offs].buffptr

ReadCall(t, f, count) ==
  /\ f_pos[f] >= 0
  /\ Enter(t, f, [NoCall EXCEPT !.op = "read", !.filp = f, !.pos = f_pos[f], !.count = count])
  /\ pc' = [pc EXCEPT ![t] = "lock"]

WriteCall(t, f, data) ==
  /\ f_pos[f] >= 0
  /\ f_pos[f] + Len(data) <= MaxPos /\ size + Len(data) <= MaxPos
  /\ write_entry_new_flag \/ Len(BeingWritten) + Len(data) <= MaxEntry
  /\ Enter(t, f, [NoCall EXCEPT !.op = "write", !.filp = f, !.pos = f_pos[f], !.buf = data])
  /\ pc' = [pc EXCEPT ![t] = "lock"]

(* aesd_ioctl with AESDCHAR_IOCSEEKTO, whose copy_from_user may fail, and   *)
(* the bounds check with which aesd_adjust_file_offset begins. (Any other  *)
(* command changes nothing.)                                               *)
IoctlCall(t, f, cmd, offset) ==
  LET request     == [NoCall EXCEPT !.op = "ioctl", !.filp = f, !.cmd = cmd, !.offset = offset]
      Refuse(err) == /\ Enter(t, f, [request EXCEPT !.ret = err])
                     /\ pc' = [pc EXCEPT ![t] = "return"]
  IN  \/ "EFAULT" \in MayFail /\ Refuse(EFAULT)
      \/ cmd >= MaxWriteOps - 1 /\ Refuse(EINVAL)
      \/ /\ cmd < MaxWriteOps - 1
         /\ Enter(t, f, request)
         /\ pc' = [pc EXCEPT ![t] = "lock"]

-----------------------------------------------------------------------------
(* mutex_lock_interruptible. *)

Lock(t) ==
  /\ pc[t] = "lock"
  /\ mutex_lock = None
  /\ mutex_lock' = t
  /\ pc' = [pc EXCEPT ![t] = CASE call[t].op = "write" -> "evict"
                               [] call[t].op = "read"  -> "copy"
                               [] call[t].op = "ioctl" -> "seek"]
  /\ UNCHANGED <<dev, opened, f_pos, call>>

(* A signal ends the wait. aesd_adjust_file_offset then returns its offset *)
(* variable, still 0, and not the error it has stored in retval.           *)
LockInterrupted(t) ==
  /\ "EINTR" \in MayFail
  /\ pc[t] = "lock"
  /\ mutex_lock # None
  /\ pc' = [pc EXCEPT ![t] = "return"]
  /\ call' = [call EXCEPT ![t].ret = IF call[t].op = "ioctl" THEN 0 ELSE ERESTARTSYS]
  /\ UNCHANGED <<dev, mutex_lock, opened, f_pos>>

(* Mutants: the handler's copy of the position is not moved; a handler     *)
(* that transfers nothing returns without unlocking.                       *)
UnlockKeepsPos(t, ret, pos, buf) ==
  /\ mutex_lock' = None
  /\ pc' = [pc EXCEPT ![t] = "return"]
  /\ call' = [call EXCEPT ![t].ret = ret, ![t].buf = buf]

UnlockOnlyOnBytes(t, ret, pos, buf) ==
  /\ mutex_lock' = IF ret > 0 THEN None ELSE mutex_lock
  /\ pc' = [pc EXCEPT ![t] = "return"]
  /\ call' = [call EXCEPT ![t].ret = ret, ![t].pos = pos, ![t].buf = buf]

(* The handlers' unlock label: release the mutex and return ret. *)
Unlock(t, ret, pos, buf) ==
  /\ mutex_lock' = None
  /\ pc' = [pc EXCEPT ![t] = "return"]
  /\ call' = [call EXCEPT ![t].ret = ret, ![t].pos = pos, ![t].buf = buf]

-----------------------------------------------------------------------------
(* aesd_write, under the mutex. *)

(* Mutant: the entry at the read position. *)
InEntryAtOut == circ_buffer.entry[circ_buffer.out_offs]

InEntry == circ_buffer.entry[circ_buffer.in_offs]

(* Make room: free the oldest entry of a full buffer. *)
WriteEvict(t) ==
  /\ pc[t] = "evict"
  /\ IF circ_buffer.full /\ write_entry_new_flag /\ InEntry.buffptr # NULL
     THEN /\ size' = size - InEntry.size
          /\ call' = [call EXCEPT ![t].pos = @ - InEntry.size]
          /\ circ_buffer' = [circ_buffer EXCEPT !.entry[circ_buffer.in_offs] = NoEntry]
     ELSE UNCHANGED <<size, call, circ_buffer>>
  /\ pc' = [pc EXCEPT ![t] = "store"]
  /\ UNCHANGED <<write_entry_new_flag, mutex_lock, opened, f_pos>>

(* Either kmalloc fails, before anything is stored. *)
WriteNoMemory(t) ==
  /\ "ENOMEM" \in MayFail
  /\ pc[t] = "store"
  /\ Unlock(t, ENOMEM, call[t].pos, call[t].buf)
  /\ UNCHANGED <<dev, opened, f_pos>>

WriteZero(t) ==
  /\ pc[t] = "store"
  /\ call[t].buf = <<>>
  /\ \E ret \in UninitRet : Unlock(t, ret, call[t].pos, call[t].buf)
  /\ UNCHANGED <<dev, opened, f_pos>>

(* Mutants: the freed entry's size is kept; the failed entry is stored. *)
WriteFaultKeepsSize(t) ==
  /\ "EFAULT" \in MayFail
  /\ pc[t] = "store"
  /\ call[t].buf # <<>>
  /\ circ_buffer' = IF write_entry_new_flag THEN circ_buffer
                    ELSE [circ_buffer EXCEPT !.entry[circ_buffer.in_offs].buffptr = NULL]
  /\ Unlock(t, EFAULT, call[t].pos, call[t].buf)
  /\ UNCHANGED <<write_entry_new_flag, size, opened, f_pos>>

WriteFaultStores(t) ==
  /\ "EFAULT" \in MayFail
  /\ pc[t] = "store"
  /\ call[t].buf # <<>>
  /\ circ_buffer' = AddEntry(circ_buffer, NoEntry, TRUE, write_entry_new_flag)
  /\ write_entry_new_flag' = TRUE
  /\ Unlock(t, EFAULT, call[t].pos, call[t].buf)
  /\ UNCHANGED <<size, opened, f_pos>>

(* copy_from_user fails: when appending, the old part is already freed. *)
WriteFault(t) ==
  /\ "EFAULT" \in MayFail
  /\ pc[t] = "store"
  /\ call[t].buf # <<>>
  /\ circ_buffer' = IF write_entry_new_flag THEN circ_buffer
                    ELSE [circ_buffer EXCEPT !.entry[circ_buffer.in_offs] = NoEntry]
  /\ Unlock(t, EFAULT, call[t].pos, call[t].buf)
  /\ UNCHANGED <<write_entry_new_flag, size, opened, f_pos>>

(* Store a new entry, or the entry being written with the data appended. *)
WriteStore(t) ==
  LET data      == call[t].buf
      count     == Len(data)
      new_entry == IF write_entry_new_flag
                   THEN [buffptr |-> data, size |-> count]
                   ELSE [buffptr |-> InEntry.buffptr \o data, size |-> count + InEntry.size]
      complete  == new_entry.buffptr[new_entry.size] = NL
  IN  /\ pc[t] = "store"
      /\ data # <<>>
      /\ circ_buffer' = AddEntry(circ_buffer, new_entry, complete, write_entry_new_flag)
      /\ write_entry_new_flag' = complete
      /\ size' = size + count
      /\ Unlock(t, count, call[t].pos + count, data)
      /\ UNCHANGED <<opened, f_pos>>

-----------------------------------------------------------------------------
(* aesd_read, under the mutex. *)

(* Mutant: the loop does not stop at the end of the entry. *)
ReadLengthPastEnd(entry, byte, count) == Max({1, count - byte})

(* The bytes the copy loop takes from an entry: it stops at the entry's    *)
(* end, or once read_bytes + entry_offset has reached count, which it      *)
(* first checks after one byte.                                            *)
ReadLength(entry, byte, count) == Max({1, Min({entry.size, count}) - byte})

ReadCopy(t) ==
  LET hit == FindEntryOffsetForFpos(circ_buffer, call[t].pos)
      n   == ReadLength(hit.entry, hit.byte, call[t].count)
  IN  /\ pc[t] = "copy"
      /\ \/ /\ ~hit.found
            /\ Unlock(t, 0, call[t].pos, <<>>)
         \/ /\ hit.found
            /\ hit.entry.buffptr # NULL
            /\ n <= ReadBytesMax
            /\ Unlock(t, n, call[t].pos + n, SubSeq(hit.entry.buffptr, hit.byte + 1, hit.byte + n))
      /\ UNCHANGED <<dev, opened, f_pos>>

(* read_bytes wraps around before the loop can end, or never moves: the    *)
(* loop runs for ever with the mutex held.                                 *)
ReadSpin(t) ==
  LET hit == FindEntryOffsetForFpos(circ_buffer, call[t].pos)
  IN  /\ pc[t] = "copy"
      /\ hit.found
      /\ \/ hit.entry.buffptr = NULL
         \/ ReadLength(hit.entry, hit.byte, call[t].count) > ReadBytesMax
      /\ pc' = [pc EXCEPT ![t] = "spin"]
      /\ UNCHANGED <<dev, mutex_lock, opened, f_pos, call>>

-----------------------------------------------------------------------------
(* aesd_adjust_file_offset, under the mutex. *)

IoctlSeek(t) ==
  LET offset == BufferFindOffset(circ_buffer, call[t].cmd, call[t].offset)
  IN  /\ pc[t] = "seek"
      /\ f_pos' = IF offset < 0 THEN f_pos ELSE [f_pos EXCEPT ![call[t].filp] = offset]
      /\ Unlock(t, offset, call[t].pos, call[t].buf)
      /\ UNCHANGED <<dev, opened>>

-----------------------------------------------------------------------------
(* Back in the VFS: a read or write that did not fail stores its position. *)

Return(t) ==
  /\ pc[t] = "return"
  /\ f_pos' = IF call[t].op \in {"read", "write"} /\ call[t].ret >= 0
              THEN [f_pos EXCEPT ![call[t].filp] = call[t].pos]
              ELSE f_pos
  /\ pc' = [pc EXCEPT ![t] = "idle"]
  /\ call' = [call EXCEPT ![t] = NoCall]
  /\ UNCHANGED <<dev, mutex_lock, opened>>

-----------------------------------------------------------------------------
Write(t) == \/ WriteEvict(t) \/ WriteNoMemory(t) \/ WriteZero(t)
            \/ WriteFault(t) \/ WriteStore(t)

Read(t) == ReadCopy(t) \/ ReadSpin(t)

Progress(t) == Lock(t) \/ Write(t) \/ Read(t) \/ IoctlSeek(t) \/ Return(t)

KernelStep(t) == Progress(t) \/ LockInterrupted(t)

Client ==
  \/ \E f \in Files : AesdOpen(f) \/ AesdRelease(f)
  \/ \E f \in Files, off \in SeekOffsets, whence \in {"SEEK_SET", "SEEK_CUR", "SEEK_END"} :
       AesdLlseek(f, off, whence)
  \/ \E t \in Threads, f \in Files :
       \/ \E count \in ReadCounts : ReadCall(t, f, count)
       \/ \E data \in WriteInputs : WriteCall(t, f, data)
       \/ \E cmd \in SeekCmds, offset \in SeekCmdOffsets : IoctlCall(t, f, cmd, offset)

Next == Client \/ \E t \in Threads : KernelStep(t)

Spec == Init /\ [][Next]_vars

(* The kernel schedules every thread, and hands its mutex to waiters in    *)
(* order, so no thread waits for ever while others come and go.  Nothing   *)
(* promises a signal that would end a wait.                                *)
FairSpec == Spec /\ \A t \in Threads : SF_vars(Progress(t))
-----------------------------------------------------------------------------
(* What the device holds, seen from outside: the complete commands, oldest *)
(* first, and the command being written.  Between the eviction and the     *)
(* store of one write (and after a write that failed there) the slot at    *)
(* out_offs is empty, and the oldest command is in the next one.           *)

Oldest == IF circ_buffer.full /\ write_entry_new_flag
             /\ circ_buffer.entry[circ_buffer.out_offs].buffptr = NULL THEN 1 ELSE 0

Complete == IF ~circ_buffer.full THEN circ_buffer.in_offs
            ELSE IF write_entry_new_flag THEN MaxWriteOps - Oldest ELSE MaxWriteOps - 1

Commands ==
  [k \in 1 .. Complete |-> circ_buffer.entry[SlotAt(circ_buffer, Oldest + k - 1)].buffptr]

Partial == IF write_entry_new_flag THEN <<>> ELSE BeingWritten

Contents == FlattenSeq(Commands) \o Partial

-----------------------------------------------------------------------------
CallType ==
  [op : {"none", "read", "write", "ioctl"}, filp : Files \cup {None}, pos : Int,
   buf : Seq(Byte), count : Nat, cmd : Nat, offset : Nat, ret : Int]

(* Every variable has its type; struct aesd_dev's fields are those of      *)
(* aesdchar.h and size, an unsigned long, never wraps below zero.          *)
TypeOK ==
  /\ circ_buffer \in CircularBuffer
  /\ write_entry_new_flag \in BOOLEAN
  /\ size \in Nat
  /\ mutex_lock \in Threads \cup {None}
  /\ opened \subseteq Files
  /\ f_pos \in [Files -> Int]
  /\ pc \in [Threads -> {"idle", "lock", "return"} \cup Inside]
  /\ call \in [Threads -> CallType]

(* The indices, the full flag and write_entry_new_flag, kept by two        *)
(* functions in two files, agree on which slots hold data: a full ring is  *)
(* read from where the next command goes (or, once the command there is    *)
(* begun, from the slot after it), and before the ring has filled once the *)
(* data is in the slots below in_offs.                                     *)
RingShape ==
  LET b == circ_buffer
  IN  IF b.full
      THEN b.out_offs = IF write_entry_new_flag THEN b.in_offs ELSE Advance(b.in_offs)
      ELSE /\ b.out_offs = 0
           /\ \A s \in Slots : s > b.in_offs => b.entry[s] = NoEntry
           /\ write_entry_new_flag => b.entry[b.in_offs] = NoEntry

(* Whatever write failed and wherever, an entry's size is the length of    *)
(* its memory and a freed entry is NULL with size 0 (aesd_read spins on    *)
(* any other), and every command but the one being written ends in '\n'.   *)
EntriesWhole ==
  \A s \in Slots :
    LET e == circ_buffer.entry[s]
    IN  /\ e.size = Len(e.buffptr)
        /\ \/ e.buffptr = NULL
           \/ e.buffptr[Len(e.buffptr)] = NL
           \/ s = circ_buffer.in_offs /\ ~write_entry_new_flag

(* A slot below in_offs, or any slot of a full ring but the one about to   *)
(* be written, holds a command: failed and empty writes leave no hole that *)
(* would shift the numbering of commands.                                  *)
NoHoles ==
  \A s \in Slots \ {circ_buffer.in_offs} :
    circ_buffer.full \/ s < circ_buffer.in_offs => circ_buffer.entry[s].buffptr # NULL

(* When aesd_write stores a new command, the slot it overwrites owns no    *)
(* memory: the oldest command was freed, so nothing leaks.                 *)
NoLiveBufferOverwritten ==
  \A t \in Threads :
    pc[t] = "store" /\ write_entry_new_flag => InEntry = NoEntry

(* One thread is between lock and unlock, and it holds the mutex; every    *)
(* error path has released it.                                             *)
LockHeldInside == \A t \in Threads : pc[t] \in Inside <=> mutex_lock = t

(* SEEK_END never falls short of the data: size counts at least the bytes  *)
(* that a reader can reach (it may count more, see SizeExact), so that     *)
(* subtracting an entry's size never wraps the unsigned long.              *)
SizeCoversData == BytesBefore(circ_buffer)[MaxWriteOps] <= size

(* aesd_circular_buffer_find_entry_offset_for_fpos finds the byte at every *)
(* offset of the commands concatenated end to end, and nothing past them.  *)
FindMatchesContents ==
  \A char_offset \in 0 .. Len(Contents) :
    LET hit == FindEntryOffsetForFpos(circ_buffer, char_offset)
    IN  /\ hit.found <=> char_offset < Len(Contents)
        /\ hit.found => /\ hit.byte < hit.entry.size
                        /\ hit.entry.buffptr[hit.byte + 1] = Contents[char_offset + 1]

(* A read returns the bytes at its position and moves the position by as   *)
(* many, whatever other threads did while it waited for the mutex: at      *)
(* least one unless it is at the end, and no more than were asked for, but *)
(* that a read of 0 bytes returns one.                                     *)
ReadReturnsContents ==
  [][\A t \in Threads :
       pc[t] = "copy" /\ pc'[t] = "return" =>
         /\ call'[t].buf = SubSeq(Contents, call[t].pos + 1, call'[t].pos)
         /\ call'[t].ret = call'[t].pos - call[t].pos
         /\ call'[t].ret = 0 <=> call[t].pos >= Len(Contents)
         /\ call'[t].ret <= call[t].count \/ (call[t].count = 0 /\ call'[t].ret = 1)]_vars

(* A write keeps its position as far from the end of the device as it      *)
(* found it: by the bytes it stores and the bytes it pushes out, when it   *)
(* fails half way too.                                                     *)
PosTracksSize ==
  [][\A t \in Threads :
       pc[t] \in {"evict", "store"} => call'[t].pos - size' = call[t].pos - size]_vars

(* Where a seek should lead: the offset of the requested byte of the       *)
(* requested command, the one being written included, or -1 if there is no *)
(* such byte.                                                              *)
SeekTarget(cmd, offset) ==
  LET held == Append(Commands, Partial)
  IN  IF cmd < Len(held) /\ offset < Len(held[cmd + 1])
      THEN Len(FlattenSeq(SubSeq(held, 1, cmd))) + offset ELSE -1

(* While the oldest command is in slot 0, which it is until the device     *)
(* drops one, AESDCHAR_IOCSEEKTO seeks to the requested byte of the        *)
(* requested command.  It fails, and leaves the position alone, when there *)
(* is no such byte, and for a command in the last slot, whose number       *)
(* aesd_adjust_file_offset refuses.                                        *)
SeekExactFromSlotZero ==
  [][\A t \in Threads :
       LET cmd    == call'[t].cmd
           target == SeekTarget(cmd, call'[t].offset)
       IN  /\ pc[t] \in {"idle", "seek"} /\ pc'[t] = "return"
           /\ call'[t].op = "ioctl" /\ call'[t].ret # EFAULT
           /\ circ_buffer.out_offs = 0 /\ Oldest = 0
           => IF target < 0 \/ cmd = MaxWriteOps - 1
              THEN call'[t].ret < 0 /\ UNCHANGED f_pos
              ELSE call'[t].ret = target /\ f_pos'[call'[t].filp] = target]_vars

(* aesd_read runs for ever only on an entry with more bytes left to copy   *)
(* than its uint16_t counter can count.                                    *)
SpinOnlyOnLongEntry ==
  \A t \in Threads :
    pc[t] = "spin" =>
      LET hit == FindEntryOffsetForFpos(circ_buffer, call[t].pos)
      IN  hit.entry.size - hit.byte > ReadBytesMax /\ call[t].count > ReadBytesMax

(* The driver keeps the last MaxWriteOps commands, each as its writes made *)
(* it, and drops only the oldest of a full device.                         *)
Log == INSTANCE CommandLog
         WITH Depth <- MaxWriteOps, Data <- WriteInputs \ {<<>>}, log <- Commands, partial <- Partial

KeepsLog == Log!Spec

(* Every system call on the device returns, unless a thread is caught in   *)
(* aesd_read's endless loop, which has no way out and keeps the mutex.     *)
CallReturns ==
  \A t \in Threads : pc[t] # "idle" ~> pc[t] = "idle" \/ \E u \in Threads : pc[u] = "spin"

-----------------------------------------------------------------------------
(* What comments in the source say and the code does not do.               *)

(* aesdchar.h: size is the "amount of data stored here".                   *)
SizeExact == (\A t \in Threads : pc[t] \notin Inside) => size = Len(Contents)

(* aesd_ioctl.h: write_cmd is "the zero referenced write command to seek   *)
(* into", write_cmd_offset "the zero referenced offset within the write".  *)
SeekLandsInCommand ==
  [][\A t \in Threads :
       pc[t] = "seek" /\ pc'[t] = "return" =>
         call'[t].ret \in {SeekTarget(call[t].cmd, call[t].offset), -1}]_vars

(* The same, of aesd_adjust_file_offset's first check: the number it       *)
(* refuses is not that of a command the device holds.                      *)
SeekRefusesNoHeldCommand ==
  [][\A t \in Threads :
       pc[t] = "idle" /\ pc'[t] = "return" /\ call'[t].op = "ioctl" =>
         SeekTarget(call'[t].cmd, call'[t].offset) = -1]_vars

(* aesd_adjust_file_offset: "Sets filp->f_pos to the located offset.       *)
(* Returns: offset value on success, negative error code on failure".      *)
SeekReportsFailure ==
  [][\A t \in Threads :
       /\ call[t].op = "ioctl"
       /\ pc[t] \in {"lock", "seek"} /\ pc'[t] = "return"
       /\ call'[t].ret >= 0
       => f_pos'[call[t].filp] = call'[t].ret]_vars
=============================================================================
