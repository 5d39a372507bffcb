# A verification project for the AESD assignments

TLA+ models of the two concurrent programs in this repository, the `aesdchar` kernel
driver (`src/aesd-char-driver`) and the `aesdsocket` server (`src/server`), each alone and
the server on the driver, and of the two libraries under `src/examples`, with TLC runs
that check them on small instances and TLAPS proofs for every size.
Line numbers below are those of the source files.

## 1. Inventory

| Component | State | Operations | Talks to |
|---|---|---|---|
| Circular buffer (`aesd-circular-buffer.c/.h`) | `entry[10]`, `in_offs`, `out_offs`, `full` | `aesd_circular_buffer_init`, `_add_entry`, `_find_entry_offset_for_fpos`, `aesd_buffer_find_offset` | called by the driver, which holds the device mutex |
| Driver file operations (`main.c` 39-392) | `struct aesd_dev` (`write_entry_new_flag`, `circ_buffer`, `mutex_lock`, `size`), each file's `f_pos` | open, release, read, write, llseek, ioctl | the kernel's VFS above, the circular buffer below |
| Driver life cycle (`main.c` 395-486) | `aesd_device`, `aesd_major`, the cdev | module init and cleanup | kernel |
| Socket server (`aesdsocket.c`) | `t_params`, `threads`, `file_mutex`, `client_started_sending`, `timestamp_thread_exit`, the data file | accept loop, one thread per connection (receive a packet, send the file back), timestamp thread, signal handler with teardown | clients over TCP; a regular file, or `/dev/aesdchar` in the default build |
| Timestamp arithmetic (`aesdsocket.c` 479-492) | none | `getTimespecDiffMs` | timestamp thread |
| `examples/systemcalls` | processes | `do_system`, `do_exec`, `do_exec_redirect` | fork, exec, wait |
| `examples/threading` | one argument block per thread | `threadfunc`, `start_thread_obtaining_mutex` | a mutex of the caller |
| `finder-app`, `autotest-validate`, scripts, CI | none | sequential glue | shell |

### What makes each component correct, and what is hard about it

*Circular buffer.* A lookup by position returns the byte at that position of the commands
concatenated oldest first; a lookup by command number returns where that command begins.
Two indices, a flag and the callers' `write_entry_new_flag` must agree through wrap-around,
commands written in parts, and slots emptied by an eviction whose write then failed.

*Driver.* It keeps the last ten commands, drops only the oldest, frees an entry's memory
exactly before its slot is reused, keeps `size` and the positions consistent, and releases
its mutex on every path. Hard: several threads and files share one partial command; a
write fails after it has evicted or freed something; a lock wait is interrupted;
`aesd_llseek` takes no lock; the VFS stores a position back after the handler has unlocked.

*Server.* Each byte received goes to the file once and in order, a client gets the file
back including its own packet, short packets are not split, shutdown waits for every
thread. Hard: the mutex is released between blocks; the peer disappears at any point;
`send` waits with the mutex held; the signal handler tears down what other threads use.

*Server on the device* (the build of the Makefile). The device keeps only the newest
commands. Hard: blocks of several connections between two newlines become one command, and
a command dropped between two blocks of a response moves every byte that is left.

*Driver life cycle.* The device must not go live before it is initialised, nor be freed
while it is used. Hard: every allocation of init may fail, a previous life leaves its
memory's contents, slots are half written when the module goes.

*Timestamp wait.* A timestamp is written ten seconds after the wait began. Hard: the
difference that decides is cut to 16 bits, and each part of it is rounded on its own.

*`systemcalls`.* A call reports how its own command ended, and returns once. Hard: `wait`
takes any child of the process, so calls on two threads rob each other; each of `open`,
`fork`, `dup2` and `execv` may fail, in either process.

*`threading`.* Every started thread gets the mutex, gives it back and reports success.

## 2. Modules

| Module | Stands for |
|---|---|
| `AesdCircularBuffer` | the buffer functions as operators on a record with the struct's fields |
| `AesdChar` | the driver: device, files, threads, VFS entry and return; its properties |
| `CommandLog` | abstract specification: a bounded log of commands and the one being written |
| `MCAesdChar` | values for TLC (inputs, symmetry) |
| `AesdCircularBuffer_proofs` | theorems on the buffer: the searches, and the commands a ring holds |
| `AesdChar_proofs` | theorems on the driver: its invariants, that it implements `CommandLog`, what its calls return |
| `FlattenFacts` | lemmas about `FlattenSeq`, with which the models put sequences end to end |
| `AesdModule` | loading and unloading the driver around the steps of `AesdChar` |
| `AesdSocket` | the server with a regular file, its clients, its properties |
| `AesdSocketDevice` | the same threads on the circular buffer: the default build |
| `TimestampWait` | `getTimespecDiffMs` and the loop that waits for the next timestamp |
| `Systemcalls`, `Threading` | the two libraries of `examples` |
| `MCAesdModule`, `MCAesdSocket`, `MCAesdSocketDevice`, `MCExamples` | values for TLC; the last puts the two libraries side by side |
| `AesdModule_proofs`, `TimestampWait_proofs`, `Systemcalls_proofs` | theorems on these modules |
| `AesdSocket_proofs`, `AesdSocketDevice_proofs` | theorems on the server, with the regular file and on the device |

`AesdChar` extends `AesdCircularBuffer` and refines `CommandLog` by
`log <- Commands, partial <- Partial`. `AesdModule` extends `AesdChar` and lets its steps
happen while the module is in. `AesdSocketDevice` extends `AesdSocket` and
`AesdCircularBuffer`: it keeps every action of the server but those that touch the file. Operators introduced as "Mutant" are plausible bugs
in one definition; they are used by nothing, and with the definition replaced by its
mutant each property of the passing runs is violated (`PROJECT.json` pairs them).

### The driver

| Code | Model |
|---|---|
| `aesd_open`, `aesd_release` | `AesdOpen`, `AesdRelease` (a file is released when no call uses it) |
| system call entry, `rw_verify_area` (kernel, external) | `ReadCall`, `WriteCall`, `IoctlCall`: request and position are copied into `call[t]`. `IoctlCall` is also `aesd_ioctl` up to the mutex: it may fail with `EFAULT` (322), or refuse `write_cmd` (361) |
| `mutex_lock_interruptible` | `Lock`, `LockInterrupted` |
| `aesd_write` 151-165 | `WriteEvict` |
| `aesd_write` 167-260 | `WriteStore`, or one of the failures `WriteNoMemory`, `WriteZero`, `WriteFault` |
| `aesd_read` 85-118 | `ReadCopy`, or `ReadSpin` where the loop cannot end |
| `aesd_adjust_file_offset` | `IoctlSeek`; its early return is in `IoctlCall`, its interrupted wait in `LockInterrupted` |
| `aesd_llseek` | `AesdLlseek`, one step without the mutex |
| VFS storing `f_pos` back (external) | `Return` |

A handler is several steps, so that the unlocked operations can come in between. Memory is the
sequence of its bytes, NULL the empty sequence. `retval` of a zero-byte write is uninitialised: the
model returns either sign. The entry structs that `aesd_write` leaks, and the results of
`copy_to_user` that `aesd_read` ignores, are not modelled.

### The server

The regular-file build (`USE_AESD_CHAR_DEVICE=0`), from the state `setup()` leaves. Every
byte in the file carries its writer, which no action looks at but the bound on timestamps.

| Code | Model |
|---|---|
| accept loop 569-577 | `Accept`, `Spawn` (`pthread_create` may fail, unnoticed) |
| `readClientDataToFile` 325-350 | `RecvByte`, `RecvNothing` (recv returned 0), `RecvFail` |
| 352-405, file on disk | `WriteBlock`: one step, as nothing in the critical section waits |
| `sendDataBackToClient` | `ReadBlock` takes the mutex and reads a block; `SendBlock`, `SendLost` or `SendKills` (SIGPIPE) ends `send` and unlocks |
| `aesdsocket_task` 473 | `CloseConnection` |
| `timestamp_task` | `StampTop`, `StampCheck`, `StampWrite` |
| `signalHandler`, `teardown` | `Signal`, `TeardownClose`, `TeardownJoin` per slot, `TeardownEnd` |
| clients (external) | `Connect`, `ClientSend`, `ClientRead`, `ClientClose` |

Undefined or platform behaviour is a choice: a newline in the last byte of a block may go
unseen (`strcmp` reads on, 343), joining a thread that was never created may crash or
return (247), a `send` to a closed connection may fail, lose the data or raise SIGPIPE.

### The life of the driver

| Code | Model |
|---|---|
| `aesd_init_module` 416-422, 424-431, 437-441 | `AllocRegion`, `AllocDevice`, `AllocBuffer`; the NULL that the code goes on to use leads to the stage "oops", where the kernel stops the process |
| `aesd_setup_cdev`, 443-449 | `SetupCdev`: the device is live, or stage "out" again: not loaded, its memory lost, and it may be loaded anew |
| `aesd_cleanup_module` | `CleanupCdev`, `CleanupEntries`, `CleanupFree` |
| `.owner = THIS_MODULE` (kernel, external) | `CleanupCdev` needs that no file is open; files open in stage "in" only |

### The server on the device

A byte in the device and in a response is its index in `file`, which here is the history of
all bytes ever written and is read by no action: so a property can say which byte it is.

| Code | Model |
|---|---|
| 393-402, one `write` per block | `DWriteBlock`, with `aesd_write` as `DeviceWrite` |
| 363-389 | `DSeek`: `sscanf` gives the numbers in `SeekRequest`, `aesd_adjust_file_offset` is `DeviceSeek`; numbers that cannot be read have the effect of a refused seek |
| 434-443, `fread`'s `read` calls | `DReadBlock`: from `counter + offset`, command after command, to the block's end |
| `timestamp_task` | not in this build |

The server takes `file_mutex` around every use of the device, and nobody else uses it here,
so each critical section is one step and the driver's own mutex is always free. What the
driver does under several users is `AesdChar`'s subject.

### The timestamp wait

`Begin`, `While`, `Wake` and `Stamp` are lines 506, 508, 511 and 515-543; a `timespec` is its
number of nanoseconds, `Sec` and `Nsec` its two fields. Time passes by any amount at any
moment. The macros and `getTimespecDiffMs` are translated with their widths.

### The examples

| Code | Model |
|---|---|
| `do_system` | `ForkChild`, `SystemWait`, `ForkFails` (`system` returns -1) |
| `do_exec`, `do_exec_redirect`, parent | `OpenFile`, `ForkChild` or `ForkFails`, `CloseFile`, `Wait` (one turn of the loop) |
| the child | `ChildExec`, `ChildExecFails` (exit 1), `ChildDupFails` (returns into the caller) |
| the command (external) | `ChildEnds`: exit 0, exit 1 or killed |
| `start_thread_obtaining_mutex` | `StartThread` |
| `threadfunc` | `ObtainMutex`, `ReleaseMutex`, `FinishThread` |
| the caller's own lock (external) | `CallerReleases` |

## 3. Runs

| Run | Question | Bounds |
|---|---|---|
| `ring` | does one client get a faithful log, faithful reads and, while the oldest command is in slot 0, seeks to where it asked? | 3 slots, writes of 0-2 bytes, reads of 0, 1, 2 and 5, positions to 6: wraps, evicts, appends, seeks into the last slot and before the start all occur |
| `threads` | do shape, memory, mutex, size and positions survive two threads, two files and every failure? | 2 slots; `ReadBytesMax = 1` stands for the 16-bit counter, so that it wraps |
| `live` | is the device initialised when it goes live, unused when it is freed, and does every call return unless a thread is in the endless loop of `aesd_read`? | 2 slots, 2 threads, one file, interrupted locks, every allocation of init may fail, any number of lives; `ReadBytesMax = 1` and `MaxEntry = 2`, so that the loop occurs |
| `packets` | are bytes kept, ordered and sent back when blocks interleave, and is every client answered, but for a newline missed at the end of a block and a client that stops reading? | block of 2 bytes, packets of 3 and 2: the second ends a block, where the newline may be missed; a socket takes 2 bytes that nobody reads; one timestamp |
| `shutdown` | what do a signal at any moment, a disconnect or a reset leave of the bytes and of what runs? | a client that writes two blocks and may go, one that sends a seek command, three slots, `pthread_create` may fail, file of about 5 bytes |
| `device` | does the default build lose, repeat or misplace bytes, and does a seek find its byte when blocks of several connections make the command? | two clients that send several lines in 7 and 6 bytes, blocks of 2, 4 slots of which 1 is filled before; the sought command 2 and the one before it may be of one connection's blocks or of both, or not there yet; a seek into the last slot is in `ring` |
| `examples` | do results, descriptors and processes stay with their calls, and does everything end? | two threads, any function each, every failure; two threads of the other library and a caller that may hold the mutex |
| `size_exact`, `seek_lands`, `seek_last`, `seek_reports`, `exits` | statements of comments and messages that the code does not keep | the smallest instance that shows it |

The constants are small because the code treats all slots, bytes and blocks alike: what can
go wrong needs a wrap-around (2 or 3 slots), a command in two parts (`MaxEntry`), a
second thread between two steps, or a packet longer than a block. `MaxPos`, `MaxEntry`,
`MaxFile` and `MaxStamps` bound what the code leaves unbounded. `CHECK_DEADLOCK FALSE`
is set where the system really stops: in `threads` a reader that spins with the mutex
blocks everyone, and the server has nothing to do once its clients are served, or waits
for a client that never sends.

What the passing runs show beyond the theorems is every property about progress; the
safety properties are proved as well. `OwnPacketInResponse`, `ResponsePrefix` and
`BytesInOrder` hold in spite of the mutex being released between blocks, because the
file only grows and the response is resumed by a byte counter. Packets longer than a
block do interleave in the file; `SmallPacketContiguous` says which do not. The zeros
that `calloc` left in a block are sent to the file when the client is gone, or its descriptor
closed, in the middle of one: they are the only bytes in the file that nobody sent, and these
properties speak of the others.

`device` has no signal: teardown is the same code as in `shutdown`, and touches the device
not at all in this build. Its clients send several lines at once: after a line whose newline
is missed at the end of a block the server goes on with the next, so one connection can make
two commands, and `seek` can write before it seeks. With the command written before the
server started (`Earlier`, which stands for an earlier run of it) that makes up to five for
four slots, the last of which drops the first, also while a response is under way. The bytes
of `Earlier` carry the name of the timestamp thread, which this build
does not have, so that no client's property takes them for its own. Once a command
has been dropped, a response may miss bytes, its own packet's included; `ResponseInOrder`
holds even then, the other three response properties say `NothingDropped`.

`examples` runs two components that share nothing in one state space, which is small enough
for their product.

### Fairness

`live` assumes strong fairness of each thread's kernel steps: the kernel mutex hands over
to its waiters in order, so a waiter is not overtaken for ever. `CallReturns` excepts one
thing: a thread in the endless loop of `aesd_read` holds the mutex for ever, and those that
wait for it without being interrupted never return either.

`packets` and `exits` assume weak fairness of each server thread (`ServedSpec`). Weak
fairness is enough for `file_mutex` there, since every connection takes it finitely
often and the timestamp thread sleeps between two stamps. Nothing is assumed of the clients
in `packets`. Instead `Answered` names what may keep a client that has sent its packet
waiting: its own newline, at the end of a block, was missed (`NewlineMissed`, line 343), or
some client has stopped reading for ever (`WaitsForReader`), as `send` waits for it with the
mutex held. The clients are one with a packet that ends within a block and one whose packet
fills it; a third exceeds the time a run may take. `exits` adds that clients read
(`FairSpec`), so that its counterexample is not a client's doing.

In `live` the same strong fairness holds while the module is in; nobody has to load or
unload it. In `examples` the processes and threads are scheduled, commands and sleeps end
and a caller lets its mutex go: all weak fairness, since each thread takes the mutex once
and nothing else is taken from a process that waits. `Returns` names the two ways in which a
call of `do_exec` still never returns.

### What does not hold

* `seek_lands`: after the ring has wrapped, `aesd_buffer_find_offset` compares `write_cmd`
  with slot indices, or returns `write_cmd_offset` without the bytes before it
  (`aesd-circular-buffer.c` 78 and 94-97). While the oldest command is in slot 0, a seek
  leads to the requested byte or is refused, and it is refused for two reasons only: there is
  no such byte, or the command is in the last slot (`SeekExactFromSlotZero`, checked in `ring` and proved).
* `seek_last`: `aesd_adjust_file_offset` compares `write_cmd` with the number of slots less
  one (`main.c` 361), so that the command in the last slot, the tenth, cannot be sought into
  although the device holds it.
* `read_bytes` (`main.c` 67) is a `uint16_t`. If an entry has more than 65535 bytes left and
  a read asks for as many, it wraps and the loop of `aesd_read` (`main.c` 99-115) never ends;
  the mutex stays locked. `threads` and `live` have such reads: `CallReturns` excepts them,
  and `SpinOnlyOnLongEntry` says that nothing else makes it spin.
* `seek_reports`: `aesd_adjust_file_offset` returns `offset`, not `retval`; an interrupted
  wait reports success at 0.
* `size_exact`: a fault while appending loses the partial command but keeps its bytes in
  `dev->size`, so SEEK_END is too far. `SizeCoversData` is what remains true.
* `exits`: after "Caught signal, exiting" the server may go on, or wait for ever in
  `pthread_join`.

* On the device a response is not a prefix of anything: see `NothingDropped` above.
* `do_system` takes -1 from `system` for success (`systemcalls.c` 25; 13-15 say false), when
  it cannot fork or another thread's `wait` took its child. `SystemReportsFailure` excepts
  these two cases. `do_exec` takes a killed command for a success (89, 161), which
  `TrueMeansOwnChild` allows for.
* A failed `fork` leaves the output file open (140; 101 says it is closed), a failed `dup2`
  makes the child return into the caller's program (145): the exceptions in `FileClosed`
  and `OneProcessReturns`.
* `aesd_init_module` leaves its memory when `cdev_add` fails (445), and uses NULL when
  either `kmalloc` fails (438, 463): the stage "oops".
* `threadfunc` sleeps its milliseconds as microseconds (`threading.c` 15, 17), and a failed
  `pthread_create` leaves the argument block; the model has no durations.

## 4. Proofs

All theorems hold for every value of the constants under the named assumptions of the modules:
any number of slots, threads, files, connections and calls, any packet, block size and choice
of failures.

`FlattenFacts`: `FlattenSeq` is a recursive function on the indices of its argument, chosen
by its recursion. `ChainExists` and `ChainUnique` show that there is exactly one such function
(each by a least counterexample, `LeastNatural`), which turns the definition into the facts
used elsewhere: one more sequence at the end, a concatenation, where an element's bytes lie.

`AesdCircularBuffer_proofs`: the lemma `BytesBeforeProperties` turns the recursive function of
the search loops into its recurrence; `FindEntryCorrect` and `FindOffsetExactAtZero` specify the
two searches; `FindEntryReads` says that a lookup returns the rest of one entry, and that
these are the bytes at that offset of all entries put end to end; `StoredProperties` says
that the sum of the sizes does not depend on where the ring starts (`RotationInvariant`) and
changes with one slot by the difference (`OneSlotChanged`).

`AesdChar_proofs`: the inductive invariant `IInv` is `TypeOK`, `RingShape`, `EntriesWhole`,
`NoHoles`, `SizeCoversData`, `LockHeldInside`, `NoLiveBufferOverwritten` and two facts about the program counters
(`ReadsForward`, `OpMatches`). Why it is needed: `size \in Nat` is
not inductive without `SizeCoversData` (eviction subtracts), that needs
`StoredProperties` and `RingShape` (a new command lands in a slot of size 0), which needs
`NoLiveBufferOverwritten` at the store step, and that survives other threads' steps only because of
`LockHeldInside`. The three steps that change the device have a lemma each
(`EvictDev`, `FaultDev`, `StoreDev`); `ThreadTypeStep` and `CallStep` handle the rest; `NextInv`
puts them together and `Invariance` concludes. One theorem per named invariant follows, and
`PositionFollowsSize` proves the action property `PosTracksSize` from `IInv`.

The abstract log rests on lemmas of `AesdCircularBuffer_proofs`, stated for any ring: the
commands as they are read off it (`CommandsProperties`), and what freeing the oldest entry,
losing the one being written and storing one does to them (`EvictCommands`, `FaultCommands`,
`StoreCommands`). From these and `IInv`, `LogStep` maps every step of the driver to a step of `CommandLog` or to a stutter, and
`ImplementsLog` is the refinement. `ContentsOfRing` says that what the search loops pass, put end
to end, is the commands and the one being written; with `FindEntryReads` it gives
`SearchMatchesContents` and `ReadsAreExact`: a read returns the contents at its position: at least one byte
unless that is their end, and no more than were asked for, but that a read of 0 bytes returns
one. `SpinsAreLong` and `SeeksAreExact` each
need one more conjunct beside `IInv` (which thread spins on what; that a seek under way has
passed the check of `write_cmd`). In a ring whose oldest command is in slot 0, slot numbers
are command numbers (`HeldSlots`): so a seek past the check lands where it should or finds
that there is no such byte (`SeekLands`), and what the check refuses is the last slot or
beyond all that a ring holds (`SeekRefused`, `NoCommandPastRing`). Together these are the two ways out of an
ioctl that `SeeksAreExact` is about. `AesdChar_proofs` assumes `ReadBytesMax \in Nat \ {0}`, which is
65535 in the code.

`AesdModule_proofs`: while the module is in, `IInv` holds (`EveryLife`), in every life of it:
`FreshInv` says that any device with an initialised buffer, size 0 and a free mutex satisfies
it, whoever had the memory before. The invariant adds what each stage has initialised and that
outside stage "in" no file is open. `LiveReady` and `FreedUnused` are the action properties;
that no thread is in a call when the device is freed follows from `opened = {}` by `IInv`.

`AesdSocket_proofs`: the inductive invariant `Inv` has the types (`Typed`, `FileTyped`,
`MainTyped`), `Queue` (a thread that runs belongs to an accepted connection, each in one
slot), `Mutex` (until it is destroyed, `file_mutex` belongs exactly to the thread that sends)
and `Down` (the slots below teardown's counter have been joined). `Types` is its first
consequence. `TornDown` needs that `NumThreads` slots cover all connections, which
is a pigeonhole argument on the queue (`QueueLength`) from the assumption
`NumThreads > Cardinality(Clients)`; the code never compares the two (576). `FileStable`
follows from `Mutex`. `Responses` proves `ResponsePrefix` with a second invariant, `Answering`: what
has been sent is the file's beginning, `counter` is its length while the client is there,
and the block in hand is what comes next. It survives the unlocked time between blocks
because the file only grows (`GrowthAnswers`).

The three properties about a connection's own bytes use one lemma, `NextStepOf`: every step of
the server is, for one connection, one of the kinds in `StepOf` (a byte is taken from the
socket, a block is put in the file, the response moves on, others write, nothing happens).
`Put` is what a connection has written to the file and has in hand. `InFileInOrder` proves that
`Put` grows by what is received, or by a zero when `Sound` allows one, and that no step
of another thread changes it. `OwnPackets` adds `Complete`: a thread that has answered a client
with its end still open had received what `Put` has, and its last block, which was short, ended at
the end of the file; this needs `Answering`. `SmallPackets` proves that a packet that fits a block has
its bytes in one block (`OneBlock`), that a block's bytes stay adjacent (`Together`) and
that nothing but zeros follows them (`Finished`).

`AesdSocketDevice_proofs`: the same threads over the ring. `Inv`, `StepOf` and the lemmas on
the threads are those of `AesdSocket_proofs`; they leave open what a block read from the file
or the device is. `DCore` is the invariant: `Inv`; `Line` (a block has a newline only at its
end, because receiving stops there); and `Past`, which relates the ring to the history `file`
of all bytes written. `Past` says that with `d` bytes dropped (`Dropped`) the commands of the
ring and the one being written are the bytes `d + 1`, `d + 2`, ... in order (`Chronicle`), that each complete
command ends with its only newline, that `d > 0` only in a full ring and `d = 0` only in one
that is read from slot 0. One lemma serves every write: a block joins the command being
written, may complete it, and may drop the oldest (`RingWriteCommands`, `ChronicleWrite`,
`ChronicleDrop`). `NewestHeld` draws `DeviceKeepsNewest` from it; newlines are counted against
commands by a least counterexample (`NewlinesCounted`).

Responses need one invariant more, `Answer`, of each connection: a block in hand was consecutive
when `D` bytes had been dropped, and all bytes sent before it are below it. As `d` only grows
(`DCoreNext`), the next block begins further on, which is why `ResponseInOrder` holds although what the
device holds moves between the blocks. `Replies` lists the kinds of step a response sees (it is kept, a
block is read, sent or lost, the client leaves). `Sought` says where a seek led: with nothing
dropped slot numbers are command numbers (`SlotsAreCommands`), so `FindOffsetExactAtZero`
applies (`PositionSought`), and bytes written later move nothing (`CommandByteStays`). `SeeksExact` is about the step
itself, which can only be a `DSeek` (`SeekStep`): if a byte of the history has the requested
numbers, which newlines count out, the ring gives its position (`PositionFound`), and what the
ring gives is such a byte (`PositionSought`); so a seek is refused only if there is none, or
for the last slot. `Own` adds for
`OwnPacketFromDevice` that a client served to the end has all it sent in the file (`PutStep`
again) and, from its last block on, writes nothing behind what it was sent (`NoMore`).

`Systemcalls_proofs`: one invariant relates each caller to its child (who may have reaped it,
with which descriptors it was forked); the four invariants of `examples` follow, for any
number of threads.

`TimestampWait_proofs`: `DiffWraps` and `DiffForgets` say what `getTimespecDiffMs` computes;
`StampNeverEarly` needs nothing else. `StampNotMissed` assumes `Prompt`: two reads of the
clock, one sleep of 250 ms apart in the code, are at most 55.535 s apart, which is 65.536 s
less the ten seconds and a rounding. A machine that sleeps longer may lose a timestamp.
These numbers exceed TLC's integers, so this module has no run; its properties are proved.

Only model-checked: liveness (`CallReturns`, `Answered`, `Returns`, `ThreadsComplete`), which
is beyond the prover. Every invariant and action property that a passing run checks, and the
refinement `KeepsLog`, is also a theorem.

## 5. Not modelled, and what could follow

The modules above cover the driver, the server and the two libraries. What could follow:
* `AesdSocketDevice` over `AesdChar` itself instead of its buffer, with a second program on the
  device.

Left out for good:
* `finder-app`, `autotest-validate`, shell scripts and build files: sequential glue around
  files and external tools, with no state of their own that outlives a call.
* `setup()`, `parse_args()`: a start-up sequence that exits at the first failure, before there
  is anything to interleave with.
* Logging, which includes the shared `client_addr` and `inet_ntoa` buffer; descriptor numbers
  and their reuse; kernel allocations that are leaked; running out of memory or
  descriptors in the server and in `threading`; a second signal while the handler runs.
