----------------------------- MODULE AesdSocket -----------------------------
(***************************************************************************)
(* The server of server/aesdsocket.c: the main thread accepts connections, *)
(* one thread per connection appends a packet to the data file and sends   *)
(* the file back, a timestamp thread appends a line from time to time, and *)
(* a signal handler on the main thread tears everything down.  One         *)
(* file_mutex guards the file.  Next is the build with a regular file;     *)
(* AesdSocketDevice has the accesses to the character device instead.      *)
(*                                                                         *)
(* A byte of the file carries who wrote it, so that properties can tell;   *)
(* the code looks at the byte alone.                                       *)
(***************************************************************************)
EXTENDS Integers, Sequences, SequencesExt, FiniteSets

CONSTANTS
  Clients, Packet,     \* the clients, and what each of them sends
  Closers, Resetters,  \* clients that may close early, those whose close resets
  BlockSize,           \* DATA_BLOCK_SIZE
  NumThreads,          \* NUM_THREADS
  SocketRoom,          \* bytes the client's socket can hold unread
  NL, SeekTo, Zero,    \* '\n'; "AESDCHAR_IOCSEEKTO:"; the '\0' calloc leaves
  Stamper, None,       \* the timestamp thread; no holder of the mutex
  UseCharDevice,       \* USE_AESD_CHAR_DEVICE
  MayHappen,           \* which of "signal", "create_fails", "overread" can happen
  MaxFile, MaxStamps   \* bounds: bytes in the file; timestamps before shutdown

ASSUME ConstantsAssumption ==
  /\ Stamper \notin Clients /\ None \notin Clients \cup {Stamper}
  /\ Zero # NL /\ Zero # SeekTo
  /\ IsFiniteSet(Clients) /\ \A c \in Clients : Packet[c] \in Seq(ToSet(Packet[c]))
  /\ BlockSize \in Nat \ {0} /\ SocketRoom \in Nat /\ SocketRoom >= BlockSize
  /\ NumThreads \in Nat /\ NumThreads > Cardinality(Clients)
  /\ Closers \subseteq Clients /\ Resetters \subseteq Closers
  /\ UseCharDevice \in BOOLEAN

VARIABLES
  status,                  \* the process: "running", "exited" or "killed"
  main, slot, interrupted, \* main thread; teardown's loop counter; what it interrupted
  tasks,                   \* the connections in the slots of t_params, from slot 1
  task,                    \* per connection: its thread's locals and its conf_fd
  net,                     \* per client: its end of the connection
  file, file_exists,       \* the data file
  file_mutex, destroyed,
  client_started_sending, timestamp_thread_exit,
  stamper                  \* where the timestamp thread is

filevars == <<file, file_exists>>
flags    == <<client_started_sending, timestamp_thread_exit>>
mainvars == <<main, slot, interrupted, tasks>>
vars == <<status, mainvars, task, net, filevars, file_mutex, destroyed, flags, stamper>>

NoTask == [pc |-> "none", buf |-> <<>>, ended |-> FALSE, counter |-> 0, conf_fd |-> "open"]
NewClient == [state |-> "new", sent |-> 0, rcvd |-> 0, out |-> <<>>, got |-> <<>>]

(* After setup(): listening, and the timestamp thread started, which the   *)
(* build with the character device does not have.                          *)
Start(contents) ==
  /\ status = "running"
  /\ main = "accept" /\ slot = 0 /\ interrupted = "nothing" /\ tasks = <<>>
  /\ task = [c \in Clients |-> NoTask]
  /\ net = [c \in Clients |-> NewClient]
  /\ file = contents /\ file_exists = UseCharDevice
  /\ file_mutex = None /\ destroyed = FALSE
  /\ client_started_sending = FALSE /\ timestamp_thread_exit = FALSE
  /\ stamper = IF UseCharDevice THEN "none" ELSE "top"

Init == ~UseCharDevice /\ Start(<<>>)

-----------------------------------------------------------------------------
(* The clients (not under src/). *)

Client(c, n) ==
  /\ net' = [net EXCEPT ![c] = n]
  /\ UNCHANGED <<status, mainvars, task, filevars, file_mutex, destroyed, flags, stamper>>

Connect(c) == net[c].state = "new" /\ Client(c, [net[c] EXCEPT !.state = "open"])

ClientSend(c) ==
  /\ net[c].state = "open" /\ net[c].sent < Len(Packet[c])
  /\ Client(c, [net[c] EXCEPT !.sent = @ + 1])

ClientRead(c) ==
  /\ net[c].state = "open" /\ net[c].out # <<>>
  /\ Client(c, [net[c] EXCEPT !.got = @ \o net[c].out, !.out = <<>>])

ClientClose(c) ==
  /\ c \in Closers
  /\ net[c].state = "open"
  /\ Client(c, [net[c] EXCEPT !.state = "closed", !.out = <<>>])

-----------------------------------------------------------------------------
(* main *)

Accept(c) ==
  /\ main = "accept"
  /\ net[c].state # "new" /\ ~ Contains(tasks, c)
  /\ tasks' = Append(tasks, c)
  /\ main' = "spawn"
  /\ UNCHANGED <<status, slot, interrupted, task, net, filevars, file_mutex, destroyed, flags, stamper>>

(* pthread_create, whose result is not looked at. *)
Spawn ==
  /\ main = "spawn"
  /\ \/ task' = [task EXCEPT ![Last(tasks)].pc = "recv"]
     \/ "create_fails" \in MayHappen /\ UNCHANGED task
  /\ main' = "accept"
  /\ UNCHANGED <<status, slot, interrupted, tasks, net, filevars, file_mutex, destroyed, flags, stamper>>

-----------------------------------------------------------------------------
(* readClientDataToFile *)

(* The newline test is strcmp(&buf[i], "\n"): it also reads the byte after, *)
(* which for the last byte of the block lies outside it.                   *)
NewlineSeen(b, k) ==
  IF b # NL THEN {FALSE}
  ELSE IF k = BlockSize /\ "overread" \in MayHappen THEN {TRUE, FALSE} ELSE {TRUE}

(* Mutant: the block ends one byte early. *)
BlockFullEarly(n) == n = BlockSize - 1

BlockFull(n) == n = BlockSize

(* A call that was under way when teardown closed conf_fd runs to its end; *)
(* the next one finds the descriptor closed.                               *)
AfterCall(conf_fd) == IF conf_fd = "closing" THEN "closed" ELSE conf_fd

(* One turn of the for loop: recv left byte b in the block, or failed. *)
Receive(c, b, failed) ==
  /\ \E seen \in NewlineSeen(b, Len(task[c].buf) + 1) :
       task' = [task EXCEPT ![c].buf = Append(@, b),
                            ![c].ended = @ \/ failed \/ seen,
                            ![c].pc = IF seen \/ BlockFull(Len(task[c].buf) + 1)
                                      THEN "write" ELSE "recv",
                            ![c].conf_fd = AfterCall(@)]
  /\ client_started_sending' = TRUE
  /\ UNCHANGED <<status, mainvars, filevars, file_mutex, destroyed, timestamp_thread_exit, stamper>>

RecvByte(c) ==
  /\ task[c].pc = "recv" /\ task[c].conf_fd # "closed"
  /\ net[c].rcvd < net[c].sent
  /\ Receive(c, Packet[c][net[c].rcvd + 1], FALSE)
  /\ net' = [net EXCEPT ![c].rcvd = @ + 1]

PeerGone(c) == net[c].state = "closed" /\ net[c].rcvd = net[c].sent

(* recv returns 0 once the client has closed: not FAIL, so the loop goes on. *)
RecvNothing(c) ==
  /\ task[c].pc = "recv" /\ task[c].conf_fd # "closed"
  /\ PeerGone(c)
  /\ Len(file) + BlockSize <= MaxFile
  /\ Receive(c, Zero, FALSE)
  /\ UNCHANGED net

(* recv fails: reset by the client, or conf_fd was closed by teardown.  The *)
(* for loop goes on here too.                                              *)
RecvFail(c) ==
  /\ task[c].pc = "recv"
  /\ task[c].conf_fd = "closed" \/ (c \in Resetters /\ PeerGone(c))
  /\ Receive(c, Zero, TRUE)
  /\ UNCHANGED net

Locked == file_mutex # None /\ ~destroyed  \* a destroyed mutex stops nobody

By(who, bytes) == [i \in 1 .. Len(bytes) |-> [by |-> who, byte |-> bytes[i]]]

(* The critical section, in which nothing waits: bytes are appended, and   *)
(* the packet may have ended.                                              *)
BlockDone(c, bytes, ended) ==
  /\ task[c].pc = "write"
  /\ file_exists' = TRUE
  /\ file' = file \o By(c, bytes)
  /\ task' = [task EXCEPT ![c].buf = <<>>,
                          ![c].ended = FALSE,
                          ![c].pc = IF ended THEN "send" ELSE "recv"]
  /\ UNCHANGED <<status, mainvars, net, file_mutex, destroyed, flags, stamper>>

IsSeek(block) == IsPrefix(<<SeekTo>>, block)

(* Mutants: no lock; the newline is not counted. *)
WriteBlockUnlocked(c) ==
  IF IsSeek(task[c].buf) THEN BlockDone(c, <<>>, TRUE)
                         ELSE BlockDone(c, task[c].buf, task[c].ended)
WriteBlockDropsNewline(c) ==
  /\ ~Locked
  /\ BlockDone(c, IF task[c].ended THEN Front(task[c].buf) ELSE task[c].buf, task[c].ended)

(* Append the block, or, for a seek command, fail in ioctl, which a        *)
(* regular file does not have.                                             *)
WriteBlock(c) ==
  /\ ~Locked
  /\ IF IsSeek(task[c].buf) THEN BlockDone(c, <<>>, TRUE)
                            ELSE BlockDone(c, task[c].buf, task[c].ended)

-----------------------------------------------------------------------------
(* sendDataBackToClient, and the end of aesdsocket_task *)

Block(w, k) == SubSeq(w, k + 1, IF k + BlockSize < Len(w) THEN k + BlockSize ELSE Len(w))

(* Lock, open the file and read a block of it. Without a file, fopen       *)
(* returns NULL and fileno(NULL) kills the process.                        *)
LockAndRead(c, block) ==
  /\ task[c].pc = "send"
  /\ ~Locked
  /\ IF file_exists
     THEN /\ file_mutex' = c
          /\ task' = [task EXCEPT ![c].pc = "sending",
                                  ![c].buf = block]
          /\ UNCHANGED status
     ELSE status' = "killed" /\ UNCHANGED <<file_mutex, task>>
  /\ UNCHANGED <<mainvars, net, filevars, destroyed, flags, stamper>>

(* The offset stays 0: only the character device has the seek command.     *)
ReadBlock(c) == LockAndRead(c, Block(file, task[c].counter))

EndBlock(c, counter, last, holder) ==
  /\ task' = [task EXCEPT ![c].buf = <<>>,
                          ![c].counter = counter,
                          ![c].conf_fd = AfterCall(@),
                          ![c].pc = IF last THEN "close" ELSE "send"]
  /\ file_mutex' = holder
  /\ UNCHANGED <<status, mainvars, filevars, destroyed, flags, stamper>>

ShortBlock(c) == Len(task[c].buf) < BlockSize
NewCounter(c) == task[c].counter + Len(task[c].buf)

(* Mutants: the counter does not move; one block is all; the last block    *)
(* leaves the mutex locked.                                                *)
SentKeepsCounter(c, failed) == EndBlock(c, 0, failed \/ ShortBlock(c), None)
SentStopsAtOnce(c, failed)  == EndBlock(c, NewCounter(c), TRUE, None)
SentKeepsLock(c, failed) ==
  EndBlock(c, NewCounter(c), failed \/ ShortBlock(c), IF ShortBlock(c) THEN c ELSE None)

(* send has returned: the loop ends after a short block or a failure. *)
Sent(c, failed) == EndBlock(c, NewCounter(c), failed \/ ShortBlock(c), None)

(* send waits, with the mutex held, until the client has made room. *)
SendBlock(c) ==
  /\ task[c].pc = "sending" /\ task[c].conf_fd # "closed"
  /\ net[c].state = "open"
  /\ Len(net[c].out) + Len(task[c].buf) <= SocketRoom
  /\ net' = [net EXCEPT ![c].out = @ \o task[c].buf]
  /\ Sent(c, FALSE)

(* The client has closed: send loses the data, or fails. *)
SendLost(c) ==
  /\ task[c].pc = "sending"
  /\ \/ task[c].conf_fd = "closed" /\ Sent(c, TRUE)
     \/ /\ net[c].state = "closed"
        /\ \E failed \in BOOLEAN : Sent(c, failed)
  /\ UNCHANGED net

(* ... or raises SIGPIPE, which nothing handles. *)
SendKills(c) ==
  /\ task[c].pc = "sending" /\ task[c].conf_fd # "closed"
  /\ net[c].state = "closed"
  /\ status' = "killed"
  /\ UNCHANGED <<mainvars, task, net, filevars, file_mutex, destroyed, flags, stamper>>

CloseConnection(c) ==
  /\ task[c].pc = "close"
  /\ task' = [task EXCEPT ![c].pc = "done", ![c].conf_fd = "closed"]
  /\ UNCHANGED <<status, mainvars, net, filevars, file_mutex, destroyed, flags, stamper>>

-----------------------------------------------------------------------------
(* timestamp_task *)

StampStep(to) ==
  /\ stamper' = to
  /\ UNCHANGED <<status, mainvars, task, net, file_mutex, destroyed, flags>>

StampTop ==
  /\ stamper = "top"
  /\ StampStep(IF timestamp_thread_exit THEN "done" ELSE "sleep")
  /\ UNCHANGED filevars

StampCheck ==
  /\ stamper = "sleep"
  /\ StampStep(IF client_started_sending THEN "wait" ELSE "top")
  /\ UNCHANGED filevars

Stamps == SelectSeq(file, LAMBDA e : e.by = Stamper)

(* The ten seconds are over, or the wait for them is cut short. *)
StampWrite ==
  /\ stamper = "wait"
  /\ ~Locked
  /\ timestamp_thread_exit \/ Len(Stamps) < MaxStamps
  /\ file' = Append(file, [by |-> Stamper, byte |-> NL])
  /\ file_exists' = TRUE
  /\ StampStep("top")

-----------------------------------------------------------------------------
(* signalHandler and teardown, on the main thread *)

Signal ==
  /\ "signal" \in MayHappen
  /\ main \in {"accept", "spawn"} /\ interrupted = "nothing"
  /\ interrupted' = main
  /\ main' = "close"
  /\ timestamp_thread_exit' = TRUE
  /\ UNCHANGED <<status, slot, tasks, task, net, filevars, file_mutex, destroyed,
                 client_started_sending, stamper>>

(* close(t_params[slot].conf_fd) does not wake a thread inside recv or     *)
(* send. Slots without a connection hold descriptor 0.                     *)
TeardownClose ==
  /\ main = "close"
  /\ main' = "join"
  /\ IF slot \in 1 .. Len(tasks)
     THEN LET c == tasks[slot]
          IN  \E inCall \in BOOLEAN :
                /\ inCall => task[c].pc \in {"recv", "sending"} /\ task[c].conf_fd = "open"
                /\ task' = [task EXCEPT ![c].conf_fd = IF inCall THEN "closing" ELSE "closed"]
     ELSE UNCHANGED task
  /\ UNCHANGED <<status, slot, interrupted, tasks, net, filevars, file_mutex, destroyed, flags, stamper>>

Started == (slot = 0 /\ ~UseCharDevice) \/ (slot \in 1 .. Len(tasks) /\ task[tasks[slot]].pc # "none")
Ended   == IF slot = 0 THEN stamper = "done" ELSE task[tasks[slot]].pc = "done"

(* Mutants: the loop over the slots ends one late, or one early. *)
NextSlotLate ==
  IF slot + 1 <= NumThreads THEN slot' = slot + 1 /\ main' = "close"
                            ELSE slot' = 0 /\ main' = "remove"
NextSlotEarly ==
  IF slot + 1 < NumThreads - 1 THEN slot' = slot + 1 /\ main' = "close"
                               ELSE slot' = 0 /\ main' = "remove"

NextSlot ==
  IF slot + 1 < NumThreads THEN slot' = slot + 1 /\ main' = "close"
                           ELSE slot' = 0 /\ main' = "remove"

(* pthread_join: waits for a thread that was started; of a thread that     *)
(* never was, the id is 0 and the outcome undefined.                       *)
TeardownJoin ==
  /\ main = "join"
  /\ \/ Started /\ Ended /\ NextSlot /\ UNCHANGED status
     \/ ~Started /\ NextSlot /\ UNCHANGED status
     \/ ~Started /\ status' = "killed" /\ UNCHANGED <<main, slot>>
  /\ UNCHANGED <<interrupted, tasks, task, net, filevars, file_mutex, destroyed, flags, stamper>>

(* A regular file is removed, and the mutex destroyed; then the handler returns.  *)
(* If it interrupted a waiting accept, that fails and main exits; if the   *)
(* signal came at any other moment, main goes on as before.                *)
TeardownEnd ==
  /\ main = "remove"
  /\ IF UseCharDevice THEN UNCHANGED filevars ELSE file' = <<>> /\ file_exists' = FALSE
  /\ destroyed' = TRUE
  /\ \/ interrupted = "accept" /\ status' = "exited" /\ UNCHANGED main
     \/ main' = interrupted /\ UNCHANGED status
  /\ UNCHANGED <<slot, interrupted, tasks, task, net, file_mutex, flags, stamper>>

-----------------------------------------------------------------------------
(* A connection's thread apart from its accesses to the file. *)
Connection(c) ==
  \/ RecvByte(c) \/ RecvNothing(c) \/ RecvFail(c)
  \/ SendBlock(c) \/ SendLost(c) \/ SendKills(c) \/ CloseConnection(c)

Task(c) == Connection(c) \/ WriteBlock(c) \/ ReadBlock(c)

Timestamps == StampTop \/ StampCheck \/ StampWrite

Main == (\E c \in Clients : Accept(c)) \/ Spawn

Teardown == TeardownClose \/ TeardownJoin \/ TeardownEnd

ClientStep(c) == Connect(c) \/ ClientSend(c) \/ ClientRead(c) \/ ClientClose(c)

(* Everybody but the threads that use the file. *)
Others == (\E c \in Clients : ClientStep(c)) \/ Main \/ Signal \/ Teardown

Next ==
  /\ status = "running"
  /\ (\E c \in Clients : Task(c)) \/ Timestamps \/ Others

Spec == Init /\ [][Next]_vars

Running(A) == status = "running" /\ A

(* The scheduler runs every thread.  Weak fairness is enough for the lock: *)
(* each thread takes it a bounded number of times, except the timestamp    *)
(* thread, which sleeps 250 ms between two of them.                        *)
ServerFairness ==
  /\ \A c \in Clients : WF_vars(Running(Task(c)))
  /\ WF_vars(Running(Timestamps))
  /\ WF_vars(Running(Main))
  /\ WF_vars(Running(Teardown))

(* Clients that go on reading what they are sent.                          *)
ReadersRead == \A c \in Clients : WF_vars(Running(ClientRead(c)))

ServedSpec == Spec /\ ServerFairness
FairSpec   == ServedSpec /\ ReadersRead
-----------------------------------------------------------------------------
(* Properties *)

Who     == Clients \cup {Stamper}
Bytes   == (UNION {ToSet(Packet[c]) : c \in Clients}) \cup {NL, Zero}
Written == [by : Who, byte : Bytes]
Reply   == IF UseCharDevice THEN Nat ELSE Written  \* bytes of a response: see AesdSocketDevice

TypeOK ==
  /\ status \in {"running", "exited", "killed"}
  /\ main \in {"accept", "spawn", "close", "join", "remove"}
  /\ slot \in 0 .. NumThreads - 1 /\ interrupted \in {"nothing", "accept", "spawn"}
  /\ tasks \in Seq(Clients) /\ IsInjective(tasks)
  /\ \A c \in Clients :
       /\ task[c].pc \in {"none", "recv", "write", "send", "sending", "close", "done"}
       /\ task[c].buf \in Seq(IF task[c].pc = "sending" THEN Reply ELSE Bytes)
       /\ Len(task[c].buf) <= BlockSize
       /\ task[c].ended \in BOOLEAN /\ task[c].counter \in Nat
       /\ task[c].conf_fd \in {"open", "closing", "closed"}
       /\ net[c].state \in {"new", "open", "closed"}
       /\ net[c].sent \in 0 .. Len(Packet[c]) /\ net[c].rcvd \in 0 .. net[c].sent
       /\ net[c].out \in Seq(Reply) /\ Len(net[c].out) <= SocketRoom
       /\ net[c].got \in Seq(Reply)
  /\ file \in Seq(Written) /\ file_exists \in BOOLEAN
  /\ file_mutex \in Clients \cup {None} /\ destroyed \in BOOLEAN
  /\ client_started_sending \in BOOLEAN /\ timestamp_thread_exit \in BOOLEAN
  /\ stamper \in {"none", "top", "sleep", "wait", "done"}

Response(c)  == net[c].got \o net[c].out
BytesOf(w)   == [i \in 1 .. Len(w) |-> w[i].byte]
Select(w, S) == FlattenSeq([i \in 1 .. Len(w) |-> IF w[i] \in S THEN <<w[i]>> ELSE <<>>])
WrittenBy(c, w) == Select(w, [by : {c}, byte : Bytes])
NoZeros(s)   == Select(s, Bytes \ {Zero})
OnItsWay(c)  == IF task[c].pc \in {"recv", "write"} THEN task[c].buf ELSE <<>>
Received(c)  == SubSeq(Packet[c], 1, net[c].rcvd)
Seeks(c)     == SeekTo \in ToSet(Packet[c])

(* What a client has been sent is the beginning of the data file, however  *)
(* often the file grew between the blocks of the response.                 *)
ResponsePrefix == ~destroyed => \A c \in Clients : IsPrefix(Response(c), file)

(* A client whose connection the server has closed without a signal has    *)
(* been sent everything the server received from it, in order.             *)
OwnPacketInResponse ==
  \A c \in Clients :
    interrupted = "nothing" /\ task[c].pc = "done" /\ net[c].state = "open" /\ ~Seeks(c) =>
      BytesOf(WrittenBy(c, Response(c))) = Received(c)

(* Every byte received is in the file or on its way there, once and in the *)
(* order received, whatever blocks of other threads lie between; the only  *)
(* other bytes a connection leaves in the file are calloc's zeros.         *)
BytesInOrder ==
  ~destroyed =>
    \A c \in Clients :
      ~Seeks(c) => NoZeros(BytesOf(WrittenBy(c, file)) \o OnItsWay(c)) = NoZeros(Received(c))

(* The bytes of a packet that fits one block are adjacent in the file: no  *)
(* other packet and no timestamp splits them.  (The zeros that follow when *)
(* the client is gone are not of the packet.)                              *)
SmallPacketContiguous ==
  \A i, k \in 1 .. Len(file) :
    /\ i < k /\ file[i].by = file[k].by /\ file[i].by \in Clients
    /\ file[i].byte # Zero /\ file[k].byte # Zero
    /\ Len(Packet[file[i].by]) <= BlockSize
    => \A j \in i .. k : file[j].by = file[i].by

(* While a thread sends a block, holding file_mutex, nobody else is there  *)
(* and the file does not change; teardown waits for it too.                *)
FileStableWhileSending ==
  [][~destroyed =>
       /\ Cardinality({c \in Clients : task'[c].pc = "sending"}) <= 1
       /\ file' # file => \A c \in Clients : task[c].pc # "sending"]_vars

(* When teardown removes the file and destroys the mutex, every thread     *)
(* that was started has ended and nobody holds the mutex.                  *)
TornDownWhenIdle ==
  [][destroyed' # destroyed =>
       /\ stamper \in {"none", "done"} /\ file_mutex = None
       /\ \A c \in Clients : task[c].pc \in {"none", "done"}]_vars

(* The newline test has missed the last newline of the packet, at the end  *)
(* of a block: the thread waits for bytes that the client has not got.     *)
NewlineMissed(c) ==
  /\ task[c].pc = "recv" /\ task[c].buf = <<>>
  /\ net[c].rcvd = Len(Packet[c]) /\ Len(Packet[c]) % BlockSize = 0

(* send waits for the client to read, with the mutex held.                 *)
WaitsForReader(d) ==
  task[d].pc = "sending" /\ Len(net[d].out) + Len(task[d].buf) > SocketRoom

(* A client that has sent its whole packet gets its answer and its         *)
(* connection closed, with two exceptions: a newline at the end of a block *)
(* may be missed, and a client that stops reading, this one or another,    *)
(* stops everybody.                                                        *)
Answered ==
  \A c \in Clients :
    net[c].sent = Len(Packet[c]) /\ task[c].pc # "none"
      ~> \/ task[c].pc = "done"
         \/ NewlineMissed(c)
         \/ \E d \in Clients : []WaitsForReader(d)

(* The handler's message: "Caught signal, exiting".                        *)
ExitsAfterSignal == interrupted # "nothing" ~> status # "running"
=============================================================================
