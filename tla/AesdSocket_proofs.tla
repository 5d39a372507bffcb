-------------------------- MODULE AesdSocket_proofs --------------------------
(***************************************************************************)
(* Proofs about the server for every set of clients, every packet and      *)
(* every block size: types, mutual exclusion on the file, an orderly       *)
(* teardown, responses that are what the file holds, and what becomes of   *)
(* every byte a client sends.                                              *)
(***************************************************************************)
EXTENDS AesdSocket, FlattenFacts, FiniteSetTheorems

Pcs == {"none", "recv", "write", "send", "sending", "close", "done"}

TaskType == [pc : Pcs, buf : Seq(Reply) \cup Seq(Bytes), ended : BOOLEAN, counter : Nat,
             conf_fd : {"open", "closing", "closed"}]

NetType == [state : {"new", "open", "closed"}, sent : Nat, rcvd : Nat,
            out : Seq(Reply), got : Seq(Reply)]

(* A block being received is not full; outside a block, the buffer is      *)
(* empty.                                                                  *)
WellFormed(r) ==
  /\ r.buf \in Seq(IF r.pc = "sending" THEN Reply ELSE Bytes)
  /\ Len(r.buf) <= BlockSize
  /\ r.pc = "recv" => Len(r.buf) < BlockSize
  /\ r.pc \in {"none", "send", "close", "done"} => r.buf = <<>>

NetFormed(c, n) ==
  /\ n.sent \in 0 .. Len(Packet[c]) /\ n.rcvd \in 0 .. n.sent
  /\ Len(n.out) <= SocketRoom

LEMMA PacketBytes ==
  ASSUME NEW c \in Clients, NEW k \in 1 .. Len(Packet[c])
  PROVE  Packet[c][k] \in Bytes
<1>1. Packet[c] \in Seq(ToSet(Packet[c]))
  BY ConstantsAssumption
<1>2. Packet[c][k] \in ToSet(Packet[c])
  BY <1>1, ElementOfSeq
<1> QED  BY <1>2 DEF Bytes

LEMMA SpecialBytes == NL \in Bytes /\ Zero \in Bytes /\ Stamper \in Who /\ Clients \subseteq Who
<1>1. NL \in {NL, Zero} /\ Zero \in {NL, Zero}
  OBVIOUS
<1>2. {NL, Zero} \subseteq Bytes
  BY DEF Bytes
<1> QED  BY <1>1, <1>2 DEF Who

LEMMA ByType ==
  ASSUME NEW who \in Who, NEW bytes \in Seq(Bytes)
  PROVE  By(who, bytes) \in Seq(Written) /\ Len(By(who, bytes)) = Len(bytes)
<1>1. Len(bytes) \in Nat /\ \A i \in 1 .. Len(bytes) : bytes[i] \in Bytes
  BY LenProperties, ElementOfSeq
<1>2. \A i \in 1 .. Len(bytes) : [by |-> who, byte |-> bytes[i]] \in Written
  BY <1>1 DEF Written
<1> QED  BY <1>1, <1>2, IsASeq DEF By

Typed == /\ task \in [Clients -> TaskType] /\ net \in [Clients -> NetType]
         /\ \A c \in Clients : WellFormed(task[c]) /\ NetFormed(c, net[c])

(* One task changes, from one place and counter to another.                *)
Moves(c, pcs, counter) ==
  /\ task' \in [Clients -> TaskType] /\ WellFormed(task'[c])
  /\ task'[c].pc \in pcs /\ task'[c].counter = counter
  /\ \A d \in Clients \ {c} : task'[d] = task[d]

LEMMA TaskUpdate ==
  ASSUME Typed, NEW c \in Clients, NEW r \in TaskType, WellFormed(r), task' = [task EXCEPT ![c] = r]
  PROVE  Moves(c, {r.pc}, r.counter) /\ task'[c] = r
BY DEF Typed, Moves

LEMMA BlockSizes == BlockSize \in Nat /\ BlockSize > 0 /\ SocketRoom \in Nat /\ SocketRoom >= BlockSize
BY ConstantsAssumption

LEMMA EmptyBuf ==
  /\ <<>> \in Seq(Reply) /\ <<>> \in Seq(Written) /\ <<>> \in Seq(Bytes) /\ Len(<<>>) = 0
BY EmptySeq

LEMMA FdType == \A fd \in {"open", "closing", "closed"} : AfterCall(fd) \in {"open", "closing", "closed"}
BY DEF AfterCall

LEMMA ReceiveMoves ==
  ASSUME Typed, NEW c \in Clients, task[c].pc = "recv", NEW b \in Bytes, NEW failed \in BOOLEAN,
         Receive(c, b, failed)
  PROVE  Moves(c, {"recv", "write"}, task[c].counter)
<1>1. PICK seen \in BOOLEAN :
        task' = [task EXCEPT ![c].buf = Append(@, b),
                             ![c].ended = @ \/ failed \/ seen,
                             ![c].pc = IF seen \/ BlockFull(Len(task[c].buf) + 1)
                                       THEN "write" ELSE "recv",
                             ![c].conf_fd = AfterCall(@)]
  BY DEF Receive, NewlineSeen
<1>2. /\ task \in [Clients -> TaskType] /\ task[c] \in TaskType
      /\ task[c].buf \in Seq(Bytes) /\ Len(task[c].buf) < BlockSize /\ task[c].ended \in BOOLEAN
  BY DEF Typed, WellFormed, TaskType
<1> DEFINE buf == Append(task[c].buf, b)
           to == IF seen \/ BlockFull(Len(task[c].buf) + 1) THEN "write" ELSE "recv"
           fd == AfterCall(task[c].conf_fd)
           e  == task[c].ended \/ failed \/ seen
<1>3. task' = [task EXCEPT ![c] = [[[[task[c] EXCEPT !.buf = buf] EXCEPT !.ended = e] EXCEPT !.pc = to]
                                      EXCEPT !.conf_fd = fd]]
  BY <1>1, <1>2
<1>4. buf \in Seq(Bytes) /\ Len(buf) = Len(task[c].buf) + 1 /\ Len(task[c].buf) \in Nat
  BY <1>2, AppendProperties, LenProperties
<1>5. to \in {"recv", "write"} /\ fd \in {"open", "closing", "closed"} /\ e \in BOOLEAN
  BY <1>2 DEF AfterCall, TaskType
<1>6. Len(buf) <= BlockSize /\ (to = "recv" => Len(buf) < BlockSize)
  BY <1>2, <1>4, BlockSizes DEF BlockFull
<1> HIDE DEF buf, to, fd, e
<1> DEFINE r == [[[[task[c] EXCEPT !.buf = buf] EXCEPT !.ended = e] EXCEPT !.pc = to]
                 EXCEPT !.conf_fd = fd]
<1>7. r \in TaskType /\ r.pc = to /\ r.buf = buf /\ r.counter = task[c].counter
  BY <1>2, <1>4, <1>5 DEF TaskType, Pcs
<1> HIDE DEF r
<1>8. WellFormed(r)
  BY <1>4, <1>5, <1>6, <1>7 DEF WellFormed
<1> QED  BY <1>3, <1>5, <1>7, <1>8, TaskUpdate DEF r, Moves

LEMMA BlockDoneMoves ==
  ASSUME Typed, NEW c \in Clients, NEW bytes, NEW ended \in BOOLEAN, BlockDone(c, bytes, ended)
  PROVE  task[c].pc = "write" /\ Moves(c, {"recv", "send"}, task[c].counter)
<1>1. task \in [Clients -> TaskType] /\ task[c] \in TaskType /\ task[c].pc = "write"
  BY DEF Typed, BlockDone
<1> DEFINE to == IF ended THEN "send" ELSE "recv"
           r  == [[[task[c] EXCEPT !.buf = <<>>] EXCEPT !.ended = FALSE] EXCEPT !.pc = to]
<1>2. task' = [task EXCEPT ![c] = r]
  BY <1>1 DEF BlockDone
<1>3. to \in {"recv", "send"}
  OBVIOUS
<1> HIDE DEF to
<1>4. r \in TaskType /\ r.pc = to /\ r.buf = <<>> /\ r.counter = task[c].counter
  BY <1>1, <1>3, EmptyBuf DEF TaskType, Pcs
<1> HIDE DEF r
<1>5. WellFormed(r)
  BY <1>3, <1>4, EmptyBuf, BlockSizes DEF WellFormed
<1> QED  BY <1>1, <1>2, <1>3, <1>4, <1>5, TaskUpdate DEF Moves

LEMMA LockAndReadMoves ==
  ASSUME Typed, NEW c \in Clients, NEW block \in Seq(Reply), Len(block) <= BlockSize,
         LockAndRead(c, block), file_exists
  PROVE  /\ task[c].pc = "send" /\ Moves(c, {"sending"}, task[c].counter)
         /\ task'[c].buf = block /\ file_mutex' = c
<1>1. /\ task \in [Clients -> TaskType] /\ task[c] \in TaskType /\ task[c].pc = "send"
      /\ file_mutex' = c
  BY DEF Typed, LockAndRead
<1> DEFINE r == [[task[c] EXCEPT !.pc = "sending"] EXCEPT !.buf = block]
<1>2. task' = [task EXCEPT ![c] = r]
  BY <1>1 DEF LockAndRead
<1>3. r \in TaskType /\ r.pc = "sending" /\ r.buf = block /\ r.counter = task[c].counter
  BY <1>1 DEF TaskType, Pcs
<1> HIDE DEF r
<1>4. WellFormed(r)
  BY <1>3 DEF WellFormed
<1> QED  BY <1>1, <1>2, <1>3, <1>4, TaskUpdate

LEMMA EndBlockMoves ==
  ASSUME Typed, NEW c \in Clients, NEW counter \in Nat, NEW last \in BOOLEAN, NEW holder,
         EndBlock(c, counter, last, holder)
  PROVE  Moves(c, {"close", "send"}, counter) /\ (task'[c].pc = "send" => ~ last)
<1>1. task \in [Clients -> TaskType] /\ task[c] \in TaskType
  BY DEF Typed
<1> DEFINE to == IF last THEN "close" ELSE "send"
           fd == AfterCall(task[c].conf_fd)
           r  == [[[[task[c] EXCEPT !.buf = <<>>] EXCEPT !.counter = counter] EXCEPT !.conf_fd = fd]
                    EXCEPT !.pc = to]
<1>2. task' = [task EXCEPT ![c] = r]
  BY <1>1 DEF EndBlock
<1>3. to \in {"close", "send"} /\ fd \in {"open", "closing", "closed"} /\ (to = "send" => ~ last)
  BY <1>1, FdType DEF TaskType
<1> HIDE DEF to, fd
<1>4. r \in TaskType /\ r.pc = to /\ r.buf = <<>> /\ r.counter = counter
  BY <1>1, <1>3, EmptyBuf DEF TaskType, Pcs
<1> HIDE DEF r
<1>5. WellFormed(r)
  BY <1>3, <1>4, EmptyBuf, BlockSizes DEF WellFormed
<1> QED  BY <1>2, <1>3, <1>4, <1>5, TaskUpdate DEF Moves

LEMMA CloseMoves ==
  ASSUME Typed, NEW c \in Clients, CloseConnection(c)
  PROVE  task[c].pc = "close" /\ Moves(c, {"done"}, task[c].counter)
<1>1. /\ task \in [Clients -> TaskType] /\ task[c] \in TaskType /\ task[c].pc = "close"
      /\ task[c].buf = <<>>
  BY DEF Typed, CloseConnection, WellFormed
<1> DEFINE r == [[task[c] EXCEPT !.pc = "done"] EXCEPT !.conf_fd = "closed"]
<1>2. task' = [task EXCEPT ![c] = r]
  BY <1>1 DEF CloseConnection
<1>3. r \in TaskType /\ r.pc = "done" /\ r.buf = <<>> /\ r.counter = task[c].counter
  BY <1>1 DEF TaskType, Pcs
<1> HIDE DEF r
<1>4. WellFormed(r)
  BY <1>3, EmptyBuf, BlockSizes DEF WellFormed
<1> QED  BY <1>1, <1>2, <1>3, <1>4, TaskUpdate

LEMMA SpawnMoves ==
  ASSUME Typed, NEW c \in Clients, task[c].pc = "none", task' = [task EXCEPT ![c].pc = "recv"]
  PROVE  Moves(c, {"recv"}, task[c].counter)
<1>1. task \in [Clients -> TaskType] /\ task[c] \in TaskType /\ task[c].buf = <<>>
  BY DEF Typed, WellFormed
<1> DEFINE r == [task[c] EXCEPT !.pc = "recv"]
<1>2. task' = [task EXCEPT ![c] = r]
  BY <1>1
<1>3. r \in TaskType /\ r.pc = "recv" /\ r.buf = <<>> /\ r.counter = task[c].counter
  BY <1>1 DEF TaskType, Pcs
<1> HIDE DEF r
<1>4. WellFormed(r)
  BY <1>3, EmptyBuf, BlockSizes DEF WellFormed
<1> QED  BY <1>2, <1>3, <1>4, TaskUpdate

(* Closing its descriptor leaves a thread where it is.                     *)
LEMMA FdMoves ==
  ASSUME Typed, NEW c \in Clients, NEW fd \in {"closing", "closed"}, task' = [task EXCEPT ![c].conf_fd = fd]
  PROVE  Moves(c, {task[c].pc}, task[c].counter) /\ task'[c].buf = task[c].buf
<1>1. task \in [Clients -> TaskType] /\ task[c] \in TaskType /\ WellFormed(task[c])
  BY DEF Typed
<1> DEFINE r == [task[c] EXCEPT !.conf_fd = fd]
<1>2. task' = [task EXCEPT ![c] = r]
  BY <1>1
<1>3. r \in TaskType /\ r.pc = task[c].pc /\ r.buf = task[c].buf /\ r.counter = task[c].counter
  BY <1>1 DEF TaskType, Pcs
<1> HIDE DEF r
<1>4. WellFormed(r)
  BY <1>1, <1>3 DEF WellFormed
<1> QED  BY <1>2, <1>3, <1>4, TaskUpdate

-----------------------------------------------------------------------------
(* The clients' side.                                                      *)

NetMoves(c, n) ==
  /\ net' \in [Clients -> NetType] /\ net'[c] = n /\ NetFormed(c, n)
  /\ \A d \in Clients \ {c} : net'[d] = net[d]

LEMMA NetUpdate ==
  ASSUME Typed, NEW c \in Clients, NEW n \in NetType, NetFormed(c, n), net' = [net EXCEPT ![c] = n]
  PROVE  NetMoves(c, n)
BY DEF Typed, NetMoves

LEMMA PacketLength == \A c \in Clients : Len(Packet[c]) \in Nat
<1>1. \A c \in Clients : Packet[c] \in Seq(ToSet(Packet[c]))
  BY ConstantsAssumption
<1> QED  BY <1>1, LenProperties

LEMMA ConnectMoves ==
  ASSUME Typed, NEW c \in Clients, Connect(c)
  PROVE  net[c].state = "new" /\ NetMoves(c, [net[c] EXCEPT !.state = "open"])
<1>1. net[c] \in NetType /\ NetFormed(c, net[c]) /\ net[c].state = "new"
  BY DEF Typed, Connect
<1>2. [net[c] EXCEPT !.state = "open"] \in NetType /\ NetFormed(c, [net[c] EXCEPT !.state = "open"])
  BY <1>1 DEF NetType, NetFormed
<1> QED  BY <1>1, <1>2, NetUpdate DEF Connect, Client

LEMMA NetFields ==
  ASSUME NEW n \in NetType, NEW k \in Nat
  PROVE  /\ [n EXCEPT !.sent = k] \in NetType /\ [n EXCEPT !.sent = k].sent = k
         /\ [n EXCEPT !.sent = k].rcvd = n.rcvd /\ [n EXCEPT !.sent = k].out = n.out
         /\ [n EXCEPT !.rcvd = k] \in NetType /\ [n EXCEPT !.rcvd = k].rcvd = k
         /\ [n EXCEPT !.rcvd = k].sent = n.sent /\ [n EXCEPT !.rcvd = k].out = n.out
BY DEF NetType

LEMMA SendMoves ==
  ASSUME Typed, NEW c \in Clients, ClientSend(c)
  PROVE  NetMoves(c, [net[c] EXCEPT !.sent = net[c].sent + 1])
<1>1. net \in [Clients -> NetType] /\ net[c] \in NetType /\ NetFormed(c, net[c]) /\ net[c].sent < Len(Packet[c])
  BY DEF Typed, ClientSend
<1>2. /\ [net[c] EXCEPT !.sent = net[c].sent + 1] \in NetType
      /\ NetFormed(c, [net[c] EXCEPT !.sent = net[c].sent + 1])
  <2> DEFINE n == [net[c] EXCEPT !.sent = net[c].sent + 1]
  <2>0. net[c].sent \in Nat /\ net[c].rcvd \in Nat /\ net[c].sent + 1 \in Nat
    BY <1>1 DEF NetType
  <2>1. n \in NetType /\ n.rcvd = net[c].rcvd /\ n.out = net[c].out /\ n.sent = net[c].sent + 1
    BY <1>1, <2>0, NetFields
  <2> HIDE DEF n
  <2>2. n.sent \in 0 .. Len(Packet[c]) /\ n.rcvd \in 0 .. n.sent
    BY <1>1, <2>0, <2>1, PacketLength DEF NetFormed
  <2>3. NetFormed(c, n)
    BY <1>1, <2>1, <2>2 DEF NetFormed
  <2> QED  BY <2>1, <2>3 DEF n
<1>3. net' = [net EXCEPT ![c] = [net[c] EXCEPT !.sent = net[c].sent + 1]]
  BY <1>1 DEF ClientSend, Client
<1> QED  BY <1>2, <1>3, NetUpdate

LEMMA ReadMoves ==
  ASSUME Typed, NEW c \in Clients, ClientRead(c)
  PROVE  /\ net[c].state = "open"
         /\ NetMoves(c, [[net[c] EXCEPT !.got = net[c].got \o net[c].out] EXCEPT !.out = <<>>])
<1> DEFINE got == net[c].got \o net[c].out
           n == [[net[c] EXCEPT !.got = got] EXCEPT !.out = <<>>]
<1>1. net \in [Clients -> NetType] /\ net[c] \in NetType /\ NetFormed(c, net[c])
  BY DEF Typed
<1>2. net[c].got \in Seq(Reply) /\ net[c].out \in Seq(Reply)
  BY <1>1 DEF NetType
<1>3. got \in Seq(Reply)
  BY <1>2, ConcatProperties
<1>4. net[c].state = "open" /\ net' = [net EXCEPT ![c] = n]
  BY <1>1 DEF ClientRead, Client
<1> HIDE DEF got
<1>5. n \in NetType /\ NetFormed(c, n)
  <2>1. n \in NetType /\ n.sent = net[c].sent /\ n.rcvd = net[c].rcvd /\ n.out = <<>>
    BY <1>1, <1>3, EmptyBuf DEF NetType
  <2> HIDE DEF n
  <2> QED  BY <1>1, <2>1, EmptyBuf, BlockSizes DEF NetFormed
<1> HIDE DEF n
<1>6. NetMoves(c, n)
  BY <1>4, <1>5, NetUpdate
<1> QED  BY <1>4, <1>6 DEF n, got

LEMMA LeaveMoves ==
  ASSUME Typed, NEW c \in Clients, ClientClose(c)
  PROVE  NetMoves(c, [[net[c] EXCEPT !.state = "closed"] EXCEPT !.out = <<>>])
<1> DEFINE n == [[net[c] EXCEPT !.state = "closed"] EXCEPT !.out = <<>>]
<1>1. net[c] \in NetType /\ NetFormed(c, net[c])
  BY DEF Typed
<1>2. n \in NetType /\ NetFormed(c, n)
  <2>1. n \in NetType /\ n.sent = net[c].sent /\ n.rcvd = net[c].rcvd /\ n.out = <<>>
    BY <1>1, EmptyBuf DEF NetType
  <2> HIDE DEF n
  <2> QED  BY <1>1, <2>1, EmptyBuf, BlockSizes DEF NetFormed
<1>3. net' = [net EXCEPT ![c] = n]
  BY DEF ClientClose, Client
<1> HIDE DEF n
<1>4. NetMoves(c, n)
  BY <1>2, <1>3, NetUpdate
<1> QED  BY <1>4 DEF n

LEMMA RecvMoves ==
  ASSUME Typed, NEW c \in Clients, RecvByte(c)
  PROVE  NetMoves(c, [net[c] EXCEPT !.rcvd = net[c].rcvd + 1])
<1>1. net \in [Clients -> NetType] /\ net[c] \in NetType /\ NetFormed(c, net[c]) /\ net[c].rcvd < net[c].sent
  BY DEF Typed, RecvByte
<1>2. /\ [net[c] EXCEPT !.rcvd = net[c].rcvd + 1] \in NetType
      /\ NetFormed(c, [net[c] EXCEPT !.rcvd = net[c].rcvd + 1])
  <2> DEFINE n == [net[c] EXCEPT !.rcvd = net[c].rcvd + 1]
  <2>0. net[c].sent \in Nat /\ net[c].rcvd \in Nat /\ net[c].rcvd + 1 \in Nat
    BY <1>1 DEF NetType
  <2>1. n \in NetType /\ n.rcvd = net[c].rcvd + 1 /\ n.out = net[c].out /\ n.sent = net[c].sent
    BY <1>1, <2>0, NetFields
  <2> HIDE DEF n
  <2>2. n.rcvd \in 0 .. n.sent
    BY <1>1, <2>0, <2>1
  <2>3. NetFormed(c, n)
    BY <1>1, <2>1, <2>2 DEF NetFormed
  <2> QED  BY <2>1, <2>3 DEF n
<1>3. net' = [net EXCEPT ![c] = [net[c] EXCEPT !.rcvd = net[c].rcvd + 1]]
  BY <1>1 DEF RecvByte
<1> QED  BY <1>2, <1>3, NetUpdate

LEMMA SendBlockNet ==
  ASSUME Typed, NEW c \in Clients, SendBlock(c)
  PROVE  /\ net[c].state = "open" /\ task[c].buf \in Seq(Reply)
         /\ NetMoves(c, [net[c] EXCEPT !.out = net[c].out \o task[c].buf])
<1> DEFINE out == net[c].out \o task[c].buf
           n == [net[c] EXCEPT !.out = out]
<1>1. net \in [Clients -> NetType] /\ net[c] \in NetType /\ NetFormed(c, net[c])
  BY DEF Typed
<1>2. net[c].out \in Seq(Reply) /\ task[c].buf \in Seq(Reply) /\ net[c].state = "open"
  BY <1>1 DEF NetType, SendBlock, Typed, WellFormed
<1>3. out \in Seq(Reply) /\ Len(out) <= SocketRoom
  BY <1>2, ConcatProperties DEF SendBlock
<1>4. net' = [net EXCEPT ![c] = n]
  BY <1>1 DEF SendBlock
<1> HIDE DEF out
<1>5. n \in NetType /\ NetFormed(c, n)
  BY <1>1, <1>3 DEF NetType, NetFormed
<1> HIDE DEF n
<1>6. NetMoves(c, n)
  BY <1>4, <1>5, NetUpdate
<1> QED  BY <1>2, <1>6 DEF n, out

-----------------------------------------------------------------------------
(* The invariant.                                                          *)

FileTyped ==
  /\ file \in Seq(Written) /\ file_exists \in BOOLEAN
  /\ file_mutex \in Clients \cup {None} /\ destroyed \in BOOLEAN
  /\ client_started_sending \in BOOLEAN /\ timestamp_thread_exit \in BOOLEAN
  /\ stamper \in {"none", "top", "sleep", "wait", "done"}

TearingDown == main \in {"close", "join", "remove"}

MainTyped ==
  /\ status \in {"running", "exited", "killed"}
  /\ main \in {"accept", "spawn", "close", "join", "remove"}
  /\ slot \in 0 .. NumThreads - 1 /\ interrupted \in {"nothing", "accept", "spawn"}
  /\ tasks \in Seq(Clients) /\ IsInjective(tasks)

InQueue(c) == \E k \in 1 .. Len(tasks) : tasks[k] = c

(* A thread belongs to an accepted connection, and the connection that     *)
(* main is about to start a thread for, or was when the signal came, has   *)
(* none yet.                                                               *)
Queue ==
  /\ \A c \in Clients : task[c].pc # "none" => InQueue(c)
  /\ main = "spawn" \/ (TearingDown /\ interrupted = "spawn") =>
       Len(tasks) > 0 /\ task[tasks[Len(tasks)]].pc = "none"

(* Until it is destroyed, the mutex belongs to the thread that is sending. *)
Mutex == ~ destroyed => \A c \in Clients : task[c].pc = "sending" <=> file_mutex = c

AtRest(c) == task[c].pc \in {"none", "done"}

(* The threads in the slots below n have ended.                            *)
Joined(n) ==
  /\ n > 0 => stamper \in {"none", "done"}
  /\ \A k \in 1 .. Len(tasks) : k < n => task[tasks[k]].pc \in {"none", "done"}

Down ==
  /\ TearingDown => interrupted # "nothing"
  /\ TearingDown /\ status = "running" => ~ destroyed
  /\ main \notin {"close", "join"} => slot = 0
  /\ destroyed => interrupted # "nothing"
  /\ UseCharDevice => stamper = "none"
  /\ main \in {"close", "join"} => Joined(slot)
  /\ main = "remove" => Joined(NumThreads)

Inv == Typed /\ FileTyped /\ MainTyped /\ Queue /\ Mutex /\ Down

LEMMA InvInit ==
  ASSUME NEW contents \in Seq(Written), Start(contents)
  PROVE  Inv
<1>1. /\ main = "accept" /\ slot = 0 /\ interrupted = "nothing" /\ tasks = <<>> /\ status = "running"
      /\ task = [c \in Clients |-> NoTask] /\ net = [c \in Clients |-> NewClient]
      /\ file = contents /\ file_exists = UseCharDevice /\ file_mutex = None /\ destroyed = FALSE
      /\ client_started_sending = FALSE /\ timestamp_thread_exit = FALSE
      /\ stamper = IF UseCharDevice THEN "none" ELSE "top"
  BY DEF Start
<1>2. Typed
  <2>1. NoTask \in TaskType /\ WellFormed(NoTask)
    BY EmptyBuf, BlockSizes DEF NoTask, TaskType, Pcs, WellFormed
  <2>2. NewClient \in NetType /\ \A c \in Clients : NetFormed(c, NewClient)
    BY EmptyBuf, BlockSizes, PacketLength DEF NewClient, NetType, NetFormed
  <2> QED  BY <1>1, <2>1, <2>2 DEF Typed
<1>3. FileTyped
  BY <1>1, ConstantsAssumption DEF FileTyped
<1>4. MainTyped
  <2>1. NumThreads \in Nat /\ NumThreads > 0
    <3>1. Cardinality(Clients) \in Nat
      BY ConstantsAssumption, FS_CardinalityType
    <3> QED  BY <3>1, ConstantsAssumption
  <2>2. <<>> \in Seq(Clients) /\ IsInjective(<<>>)
    BY DEF IsInjective
  <2> QED  BY <1>1, <2>1, <2>2 DEF MainTyped
<1>5. Queue
  BY <1>1 DEF Queue, NoTask, TearingDown
<1>6. Mutex
  <2>1. \A c \in Clients : task[c].pc = "none" /\ c # None
    BY <1>1, ConstantsAssumption DEF NoTask
  <2> QED  BY <1>1, <2>1 DEF Mutex
<1>7. Down
  BY <1>1 DEF Down, TearingDown
<1> QED  BY <1>2, <1>3, <1>4, <1>5, <1>6, <1>7 DEF Inv

(* A step of a thread moves that thread, which had been started and had    *)
(* not ended, and nothing of main's.                                       *)
LEMMA ThreadStepKeeps ==
  ASSUME Inv, NEW c \in Clients, ~ AtRest(c), task' \in [Clients -> TaskType],
         task'[c].pc # "none", \A d \in Clients \ {c} : task'[d] = task[d],
         UNCHANGED <<status, mainvars, destroyed, stamper>>
  PROVE  Queue' /\ Down'
<1>0. tasks \in Seq(Clients) /\ Len(tasks) \in Nat /\ \A k \in 1 .. Len(tasks) : tasks[k] \in Clients
  BY LenProperties, ElementOfSeq DEF Inv, MainTyped
<1>1. UNCHANGED <<status, main, slot, interrupted, tasks, destroyed, stamper>>
  BY DEF mainvars
<1>2. \A d \in Clients : task[d].pc \in {"none", "done"} => task'[d] = task[d]
  BY DEF AtRest
<1>3. Queue'
  <2>1. InQueue(c)
    BY DEF Inv, Queue, AtRest
  <2>2. \A d \in Clients : task'[d].pc # "none" => InQueue(d)
    BY <2>1 DEF Inv, Queue
  <2>3. main = "spawn" \/ (TearingDown /\ interrupted = "spawn") =>
          Len(tasks) > 0 /\ task'[tasks[Len(tasks)]].pc = "none"
    <3> SUFFICES ASSUME main = "spawn" \/ (TearingDown /\ interrupted = "spawn")
                 PROVE  Len(tasks) > 0 /\ task'[tasks[Len(tasks)]].pc = "none"
      OBVIOUS
    <3>1. Len(tasks) > 0 /\ task[tasks[Len(tasks)]].pc = "none"
      BY DEF Inv, Queue
    <3>2. tasks[Len(tasks)] \in Clients
      BY <1>0, <3>1
    <3> QED  BY <1>2, <3>1, <3>2
  <2> QED  BY <1>1, <2>2, <2>3 DEF Queue, InQueue, TearingDown
<1>4. Joined(slot) => Joined(slot)'
  BY <1>0, <1>1, <1>2 DEF Joined
<1>5. Joined(NumThreads) => Joined(NumThreads)'
  BY <1>0, <1>1, <1>2 DEF Joined
<1>6. Down'
  BY <1>1, <1>4, <1>5 DEF Inv, Down, TearingDown
<1> QED  BY <1>3, <1>6

LEMMA MutexStep ==
  ASSUME Inv, NEW c \in Clients, destroyed' = destroyed,
         \A d \in Clients \ {c} : task'[d] = task[d],
         \/ file_mutex' = file_mutex /\ (task'[c].pc = "sending" <=> task[c].pc = "sending")
         \/ ~ Locked /\ file_mutex' = c /\ task'[c].pc = "sending"
         \/ task[c].pc = "sending" /\ task'[c].pc # "sending" /\ file_mutex' = None
  PROVE  Mutex'
<1> SUFFICES ASSUME ~ destroyed, NEW d \in Clients
             PROVE  task'[d].pc = "sending" <=> file_mutex' = d
  BY DEF Mutex
<1>1. \A e \in Clients : task[e].pc = "sending" <=> file_mutex = e
  BY DEF Inv, Mutex
<1>2. c # None /\ d # None
  BY ConstantsAssumption
<1>3. CASE file_mutex' = file_mutex /\ (task'[c].pc = "sending" <=> task[c].pc = "sending")
  BY <1>1, <1>3
<1>4. CASE ~ Locked /\ file_mutex' = c /\ task'[c].pc = "sending"
  <2>1. file_mutex = None
    BY <1>4 DEF Locked
  <2> QED  BY <1>1, <1>2, <1>4, <2>1
<1>5. CASE task[c].pc = "sending" /\ task'[c].pc # "sending" /\ file_mutex' = None
  BY <1>1, <1>2, <1>5
<1> QED  BY <1>3, <1>4, <1>5

LEMMA MovedInv ==
  ASSUME Inv, NEW c \in Clients, ~ AtRest(c),
         NEW pcs, NEW counter, Moves(c, pcs, counter), task'[c].pc # "none",
         net' = net \/ (\E n : NetMoves(c, n)),
         UNCHANGED <<status, mainvars, destroyed, stamper>>,
         FileTyped', Mutex'
  PROVE  Inv'
<1>1. Queue' /\ Down'
  BY ThreadStepKeeps DEF Moves
<1>2. Typed'
  <2>1. net' \in [Clients -> NetType] /\ \A d \in Clients : NetFormed(d, net'[d])
    BY DEF Inv, Typed, NetMoves
  <2>2. task' \in [Clients -> TaskType] /\ \A d \in Clients : WellFormed(task'[d])
    BY DEF Inv, Typed, Moves
  <2> QED  BY <2>1, <2>2 DEF Typed
<1>3. MainTyped'
  BY DEF Inv, MainTyped, mainvars
<1> QED  BY <1>1, <1>2, <1>3 DEF Inv

(* Nothing changes but that the process is killed.                         *)
LEMMA KilledInv ==
  ASSUME Inv, status' = "killed",
         UNCHANGED <<mainvars, task, net, filevars, file_mutex, destroyed, flags, stamper>>
  PROVE  Inv'
<1>1. UNCHANGED <<main, slot, interrupted, tasks, task, net, file, file_exists, file_mutex, destroyed,
                  client_started_sending, timestamp_thread_exit, stamper>>
  BY DEF mainvars, filevars, flags
<1>2. Typed' /\ FileTyped' /\ MainTyped'
  BY <1>1 DEF Inv, Typed, FileTyped, MainTyped
<1>3. Queue' /\ Mutex'
  BY <1>1 DEF Inv, Queue, InQueue, TearingDown, Mutex
<1>4. Down'
  BY <1>1 DEF Inv, Down, TearingDown, Joined
<1> QED  BY <1>2, <1>3, <1>4 DEF Inv

-----------------------------------------------------------------------------
(* The steps of a connection's thread.                                     *)

LEMMA ReceiveInv ==
  ASSUME Inv, NEW c \in Clients, task[c].pc = "recv", NEW b \in Bytes, NEW failed \in BOOLEAN,
         Receive(c, b, failed), net' = net \/ (\E n : NetMoves(c, n))
  PROVE  Inv'
<1>1. Moves(c, {"recv", "write"}, task[c].counter)
  BY ReceiveMoves DEF Inv
<1>2. /\ UNCHANGED <<status, mainvars, file, file_exists, file_mutex, destroyed, timestamp_thread_exit, stamper>>
      /\ client_started_sending' = TRUE
  BY DEF Receive, filevars
<1>3. FileTyped'
  BY <1>2 DEF Inv, FileTyped
<1>4. Mutex'
  BY <1>1, <1>2, MutexStep DEF Moves
<1>5. task'[c].pc # "none" /\ ~ AtRest(c)
  BY <1>1 DEF Moves, AtRest
<1> QED  BY <1>1, <1>2, <1>3, <1>4, <1>5, MovedInv

LEMMA RecvInv ==
  ASSUME Inv, NEW c \in Clients, RecvByte(c) \/ RecvNothing(c) \/ RecvFail(c)
  PROVE  Inv'
<1>1. CASE RecvByte(c)
  <2>1. net[c] \in NetType /\ NetFormed(c, net[c]) /\ net[c].rcvd < net[c].sent
    BY <1>1 DEF Inv, Typed, RecvByte
  <2>2. net[c].rcvd + 1 \in 1 .. Len(Packet[c])
    BY <2>1, PacketLength DEF NetType, NetFormed
  <2>3. Packet[c][net[c].rcvd + 1] \in Bytes
    BY <2>2, PacketBytes
  <2>4. \E n : NetMoves(c, n)
    BY <1>1, RecvMoves DEF Inv
  <2> QED  BY <1>1, <2>3, <2>4, ReceiveInv DEF RecvByte
<1>2. CASE RecvNothing(c) \/ RecvFail(c)
  BY <1>2, SpecialBytes, ReceiveInv DEF RecvNothing, RecvFail
<1> QED  BY <1>1, <1>2

LEMMA BlockDoneInv ==
  ASSUME Inv, NEW c \in Clients, NEW bytes \in Seq(Bytes), NEW ended \in BOOLEAN, BlockDone(c, bytes, ended)
  PROVE  Inv'
<1>1. task[c].pc = "write" /\ Moves(c, {"recv", "send"}, task[c].counter)
  BY BlockDoneMoves DEF Inv
<1>2. /\ UNCHANGED <<status, mainvars, net, file_mutex, destroyed, stamper>>
      /\ UNCHANGED <<client_started_sending, timestamp_thread_exit>>
      /\ file' = file \o By(c, bytes) /\ file_exists' = TRUE
  BY DEF BlockDone, flags
<1>3. FileTyped'
  <2>1. By(c, bytes) \in Seq(Written)
    BY ByType, SpecialBytes
  <2>2. file' \in Seq(Written)
    BY <1>2, <2>1, ConcatProperties DEF Inv, FileTyped
  <2> QED  BY <1>2, <2>2 DEF Inv, FileTyped
<1>4. Mutex'
  BY <1>1, <1>2, MutexStep DEF Moves
<1>5. task'[c].pc # "none" /\ ~ AtRest(c)
  BY <1>1 DEF Moves, AtRest
<1> QED  BY <1>1, <1>2, <1>3, <1>4, <1>5, MovedInv

LEMMA WriteBlockInv == ASSUME Inv, NEW c \in Clients, WriteBlock(c) PROVE Inv'
<1>1. task[c].pc = "write"
  BY DEF WriteBlock, BlockDone
<1>2. task[c].buf \in Seq(Bytes) /\ task[c].ended \in BOOLEAN
  BY <1>1 DEF Inv, Typed, WellFormed, TaskType
<1> QED  BY <1>2, EmptyBuf, BlockDoneInv DEF WriteBlock

LEMMA LockAndReadInv ==
  ASSUME Inv, NEW c \in Clients, NEW block \in Seq(Reply), Len(block) <= BlockSize, LockAndRead(c, block)
  PROVE  Inv'
<1>1. CASE file_exists
  <2>1. /\ task[c].pc = "send" /\ Moves(c, {"sending"}, task[c].counter)
        /\ file_mutex' = c
    BY <1>1, LockAndReadMoves DEF Inv
  <2>2. /\ UNCHANGED <<status, mainvars, net, file, file_exists, destroyed, stamper>>
        /\ UNCHANGED <<client_started_sending, timestamp_thread_exit>> /\ ~ Locked
    BY <1>1 DEF LockAndRead, flags, filevars
  <2>3. FileTyped'
    BY <2>1, <2>2 DEF Inv, FileTyped
  <2>4. Mutex'
    BY <2>1, <2>2, MutexStep DEF Moves
  <2>5. task'[c].pc # "none" /\ ~ AtRest(c)
    BY <2>1 DEF Moves, AtRest
  <2> QED  BY <2>1, <2>2, <2>3, <2>4, <2>5, MovedInv
<1>2. CASE ~ file_exists
  BY <1>2, KilledInv DEF LockAndRead
<1> QED  BY <1>1, <1>2

(* The build with the regular file.                                        *)
FileInv == Inv /\ ~ UseCharDevice

LEMMA FileReply == FileInv => Inv /\ Reply = Written
BY DEF FileInv, Reply

(* A block of the file, from a counter on.                                 *)
LEMMA BlockType ==
  ASSUME NEW w \in Seq(Written), NEW k \in Nat
  PROVE  /\ Block(w, k) \in Seq(Written) /\ Len(Block(w, k)) <= BlockSize
         /\ Len(Block(w, k)) < BlockSize => Len(w) - k < BlockSize
<1> DEFINE n == IF k + BlockSize < Len(w) THEN k + BlockSize ELSE Len(w)
<1>1. Len(w) \in Nat /\ n \in Nat /\ n <= Len(w) /\ n <= k + BlockSize /\ BlockSize \in Nat
      /\ (n = k + BlockSize \/ n = Len(w))
  BY LenProperties, BlockSizes
<1>2. \A i \in k + 1 .. n : w[i] \in Written
  BY <1>1, ElementOfSeq
<1>3. Block(w, k) = SubSeq(w, k + 1, n)
  BY DEF Block
<1> HIDE DEF n
<1>4. Block(w, k) \in Seq(Written) /\ Len(Block(w, k)) = IF k + 1 <= n THEN n - k ELSE 0
  <2>1. k + 1 \in Int /\ n \in Int /\ n - (k + 1) + 1 = n - k
    BY <1>1
  <2> QED  BY <1>2, <1>3, <2>1, SubSeqProperties
<1> QED  BY <1>1, <1>4, BlockSizes

LEMMA ReadBlockInv == ASSUME FileInv, NEW c \in Clients, ReadBlock(c) PROVE Inv'
<1>1. file \in Seq(Written) /\ task[c].counter \in Nat /\ Inv /\ Reply = Written
  BY FileReply DEF Inv, FileTyped, Typed, TaskType
<1> QED  BY <1>1, BlockType, LockAndReadInv DEF ReadBlock

LEMMA SentInv ==
  ASSUME Inv, NEW c \in Clients, task[c].pc = "sending", NEW failed \in BOOLEAN, Sent(c, failed),
         net' = net \/ (\E n : NetMoves(c, n))
  PROVE  Inv'
<1>1. NewCounter(c) \in Nat
  <2>1. task[c].counter \in Nat /\ task[c].buf \in Seq(Reply)
    BY DEF Inv, Typed, TaskType, WellFormed
  <2>2. Len(task[c].buf) \in Nat
    BY <2>1, LenProperties
  <2> QED  BY <2>1, <2>2 DEF NewCounter
<1>2. Moves(c, {"close", "send"}, NewCounter(c))
  <2>1. (failed \/ ShortBlock(c)) \in BOOLEAN
    BY DEF ShortBlock
  <2> QED  BY <1>1, <2>1, EndBlockMoves DEF Sent, Inv
<1>3. /\ UNCHANGED <<status, mainvars, file, file_exists, destroyed, stamper>>
      /\ UNCHANGED <<client_started_sending, timestamp_thread_exit>> /\ file_mutex' = None
  BY DEF Sent, EndBlock, flags, filevars
<1>4. FileTyped'
  BY <1>3 DEF Inv, FileTyped
<1>5. Mutex'
  BY <1>2, <1>3, MutexStep DEF Moves
<1>6. task'[c].pc # "none" /\ ~ AtRest(c)
  BY <1>2 DEF Moves, AtRest
<1> QED  BY <1>2, <1>3, <1>4, <1>5, <1>6, MovedInv

LEMMA ConnectionInv == ASSUME Inv, NEW c \in Clients, Connection(c) PROVE Inv'
<1>1. CASE SendBlock(c)
  <2>1. \E n : NetMoves(c, n)
    BY <1>1, SendBlockNet DEF Inv
  <2> QED  BY <1>1, <2>1, SentInv DEF SendBlock
<1>2. CASE SendLost(c)
  BY <1>2, SentInv DEF SendLost
<1>3. CASE SendKills(c)
  BY <1>3, KilledInv DEF SendKills
<1>4. CASE CloseConnection(c)
  <2>1. task[c].pc = "close" /\ Moves(c, {"done"}, task[c].counter)
    BY <1>4, CloseMoves DEF Inv
  <2>2. /\ UNCHANGED <<status, mainvars, net, file, file_exists, file_mutex, destroyed, stamper>>
        /\ UNCHANGED <<client_started_sending, timestamp_thread_exit>>
    BY <1>4 DEF CloseConnection, flags, filevars
  <2>3. FileTyped'
    BY <2>2 DEF Inv, FileTyped
  <2>4. Mutex'
    BY <2>1, <2>2, MutexStep DEF Moves
  <2>5. task'[c].pc # "none" /\ ~ AtRest(c)
    BY <2>1 DEF Moves, AtRest
  <2> QED  BY <2>1, <2>2, <2>3, <2>4, <2>5, MovedInv
<1> QED  BY <1>1, <1>2, <1>3, <1>4, RecvInv DEF Connection

-----------------------------------------------------------------------------
(* The steps of the others.                                                *)

LEMMA StampStepInv ==
  ASSUME Inv, stamper \in {"top", "sleep", "wait"}, NEW to \in {"top", "sleep", "wait", "done"}, StampStep(to),
         file' \in Seq(Written), file_exists' \in BOOLEAN
  PROVE  Inv'
<1>1. /\ UNCHANGED <<status, main, slot, interrupted, tasks, task, net, file_mutex, destroyed,
                     client_started_sending, timestamp_thread_exit>>
      /\ stamper' = to
  BY DEF StampStep, mainvars, flags
<1>2. Typed' /\ FileTyped' /\ MainTyped'
  BY <1>1 DEF Inv, Typed, FileTyped, MainTyped
<1>3. Queue' /\ Mutex'
  BY <1>1 DEF Inv, Queue, InQueue, TearingDown, Mutex
<1>4. Down'
  <2>1. ~ UseCharDevice /\ ~ (Joined(slot) /\ slot > 0) /\ ~ (Joined(NumThreads) /\ NumThreads > 0)
    BY DEF Inv, Down, Joined
  <2>2. NumThreads \in Nat /\ slot \in 0 .. NumThreads - 1
    BY ConstantsAssumption DEF Inv, MainTyped
  <2>3. NumThreads > 0 /\ (slot > 0 \/ slot = 0)
    BY <2>2
  <2>4. main # "remove" /\ (main \in {"close", "join"} => slot = 0)
    BY <2>1, <2>3 DEF Inv, Down
  <2>5. slot = 0 => Joined(slot)'
    BY <1>1, LenProperties DEF Joined, Inv, MainTyped
  <2> QED  BY <1>1, <2>1, <2>4, <2>5 DEF Inv, Down, TearingDown
<1> QED  BY <1>2, <1>3, <1>4 DEF Inv

LEMMA TimestampsInv == ASSUME Inv, Timestamps PROVE Inv'
<1>1. file \in Seq(Written) /\ file_exists \in BOOLEAN
  BY DEF Inv, FileTyped
<1>2. CASE StampTop
  BY <1>1, <1>2, StampStepInv DEF StampTop, filevars
<1>3. CASE StampCheck
  BY <1>1, <1>3, StampStepInv DEF StampCheck, filevars
<1>4. CASE StampWrite
  <2>1. [by |-> Stamper, byte |-> NL] \in Written
    BY SpecialBytes DEF Written
  <2>2. file' \in Seq(Written) /\ file_exists' \in BOOLEAN
    BY <1>1, <1>4, <2>1, AppendProperties DEF StampWrite
  <2> QED  BY <1>4, <2>2, StampStepInv DEF StampWrite
<1> QED  BY <1>2, <1>3, <1>4 DEF Timestamps

LEMMA ClientStepInv == ASSUME Inv, NEW c \in Clients, ClientStep(c) PROVE Inv'
<1>1. \E n : NetMoves(c, n)
  BY ConnectMoves, SendMoves, ReadMoves, LeaveMoves DEF Inv, ClientStep
<1>2. UNCHANGED <<status, main, slot, interrupted, tasks, task, file, file_exists, file_mutex, destroyed,
                  client_started_sending, timestamp_thread_exit, stamper>>
  BY DEF ClientStep, Connect, ClientSend, ClientRead, ClientClose, Client, mainvars, filevars, flags
<1>3. Typed'
  BY <1>1, <1>2 DEF Inv, Typed, NetMoves
<1>4. FileTyped' /\ MainTyped'
  BY <1>2 DEF Inv, FileTyped, MainTyped
<1>5. Queue' /\ Mutex'
  BY <1>2 DEF Inv, Queue, InQueue, TearingDown, Mutex
<1>6. Down'
  BY <1>2 DEF Inv, Down, TearingDown, Joined
<1> QED  BY <1>3, <1>4, <1>5, <1>6 DEF Inv

LEMMA AcceptInv == ASSUME Inv, NEW c \in Clients, Accept(c) PROVE Inv'
<1>1. /\ UNCHANGED <<status, slot, interrupted, task, net, file, file_exists, file_mutex, destroyed,
                     client_started_sending, timestamp_thread_exit, stamper>>
      /\ main = "accept" /\ main' = "spawn" /\ tasks' = Append(tasks, c)
      /\ \A k \in 1 .. Len(tasks) : tasks[k] # c
  BY DEF Accept, filevars, flags, Contains
<1>2. /\ tasks \in Seq(Clients) /\ Len(tasks) \in Nat /\ tasks' \in Seq(Clients)
      /\ Len(tasks') = Len(tasks) + 1 /\ tasks'[Len(tasks')] = c
      /\ \A k \in 1 .. Len(tasks) : tasks'[k] = tasks[k]
  BY <1>1, AppendProperties, LenProperties DEF Inv, MainTyped
<1>3. Typed' /\ FileTyped'
  BY <1>1 DEF Inv, Typed, FileTyped
<1>4. MainTyped'
  <2>1. DOMAIN tasks = 1 .. Len(tasks) /\ DOMAIN tasks' = 1 .. Len(tasks')
    BY <1>2, LenProperties
  <2>2. \A a, b \in 1 .. Len(tasks) : tasks[a] = tasks[b] => a = b
    BY <2>1 DEF Inv, MainTyped, IsInjective
  <2>3. ASSUME NEW a \in 1 .. Len(tasks'), NEW b \in 1 .. Len(tasks'), tasks'[a] = tasks'[b]
        PROVE  a = b
    BY <1>1, <1>2, <2>2, <2>3
  <2>4. IsInjective(tasks')
    BY <2>1, <2>3 DEF IsInjective
  <2> QED  BY <1>1, <1>2, <2>4 DEF Inv, MainTyped
<1>5. Queue'
  <2>1. task[c].pc = "none"
    BY <1>1 DEF Inv, Queue, InQueue
  <2>2. \A d \in Clients : InQueue(d) => InQueue(d)'
    BY <1>2 DEF InQueue
  <2> QED  BY <1>1, <1>2, <2>1, <2>2 DEF Inv, Queue
<1>6. Mutex'
  BY <1>1 DEF Inv, Mutex
<1>7. Down'
  BY <1>1 DEF Inv, Down, TearingDown
<1> QED  BY <1>3, <1>4, <1>5, <1>6, <1>7 DEF Inv

LEMMA SpawnInv == ASSUME Inv, Spawn PROVE Inv'
<1> DEFINE c == tasks[Len(tasks)]
<1>1. /\ UNCHANGED <<status, slot, interrupted, tasks, net, file, file_exists, file_mutex, destroyed,
                     client_started_sending, timestamp_thread_exit, stamper>>
      /\ main = "spawn" /\ main' = "accept"
      /\ task' = [task EXCEPT ![c].pc = "recv"] \/ task' = task
  BY DEF Spawn, filevars, flags, Last
<1>2. tasks \in Seq(Clients) /\ Len(tasks) \in Nat /\ Len(tasks) > 0 /\ task[c].pc = "none"
  BY <1>1, LenProperties DEF Inv, MainTyped, Queue
<1>3. c \in Clients /\ InQueue(c)
  BY <1>2, ElementOfSeq DEF InQueue
<1> HIDE DEF c
<1>4. Moves(c, {"recv"}, task[c].counter) \/ task' = task
  BY <1>1, <1>2, <1>3, SpawnMoves DEF Inv
<1>5. Typed'
  BY <1>1, <1>3, <1>4 DEF Inv, Typed, Moves
<1>6. FileTyped' /\ MainTyped'
  BY <1>1 DEF Inv, FileTyped, MainTyped
<1>7. Queue'
  <2>1. \A d \in Clients : task'[d].pc # "none" => InQueue(d)
    BY <1>3, <1>4 DEF Inv, Queue, Moves
  <2> QED  BY <1>1, <2>1 DEF Queue, InQueue, TearingDown
<1>8. Mutex'
  <2>1. CASE task' = task
    BY <1>1, <2>1 DEF Inv, Mutex
  <2>2. CASE Moves(c, {"recv"}, task[c].counter)
    BY <1>1, <1>2, <1>3, <2>2, MutexStep DEF Moves
  <2> QED  BY <1>4, <2>1, <2>2
<1>9. Down'
  BY <1>1 DEF Inv, Down, TearingDown
<1> QED  BY <1>5, <1>6, <1>7, <1>8, <1>9 DEF Inv

LEMMA SignalInv == ASSUME Inv, Signal PROVE Inv'
<1>1. /\ UNCHANGED <<status, slot, tasks, task, net, file, file_exists, file_mutex, destroyed,
                     client_started_sending, stamper>>
      /\ timestamp_thread_exit' = TRUE /\ main \in {"accept", "spawn"} /\ interrupted = "nothing"
      /\ interrupted' = main /\ main' = "close"
  BY DEF Signal, filevars
<1>2. Typed' /\ FileTyped' /\ MainTyped'
  BY <1>1 DEF Inv, Typed, FileTyped, MainTyped
<1>3. Queue' /\ Mutex'
  BY <1>1 DEF Inv, Queue, InQueue, TearingDown, Mutex
<1>4. Down'
  <2>1. slot = 0 /\ ~ destroyed
    BY <1>1 DEF Inv, Down
  <2>2. Joined(slot)'
    BY <1>1, <2>1, LenProperties DEF Joined, Inv, MainTyped
  <2> QED  BY <1>1, <2>1, <2>2 DEF Inv, Down, TearingDown
<1> QED  BY <1>2, <1>3, <1>4 DEF Inv

LEMMA TeardownCloseInv == ASSUME Inv, TeardownClose PROVE Inv'
<1>1. /\ UNCHANGED <<status, slot, interrupted, tasks, net, file, file_exists, file_mutex, destroyed,
                     client_started_sending, timestamp_thread_exit, stamper>>
      /\ main = "close" /\ main' = "join"
  BY DEF TeardownClose, filevars, flags
<1>2. task' \in [Clients -> TaskType] /\ \A d \in Clients : WellFormed(task'[d]) /\ task'[d].pc = task[d].pc
  <2>1. CASE slot \in 1 .. Len(tasks)
    <3>1. tasks[slot] \in Clients
      BY <2>1, LenProperties, ElementOfSeq DEF Inv, MainTyped
    <3>2. \E fd \in {"closing", "closed"} : task' = [task EXCEPT ![tasks[slot]].conf_fd = fd]
      BY <2>1 DEF TeardownClose
    <3>3. Moves(tasks[slot], {task[tasks[slot]].pc}, task[tasks[slot]].counter)
      BY <3>1, <3>2, FdMoves DEF Inv
    <3> QED  BY <3>1, <3>3 DEF Moves, Inv, Typed
  <2>2. CASE slot \notin 1 .. Len(tasks)
    BY <2>2 DEF TeardownClose, Inv, Typed
  <2> QED  BY <2>1, <2>2
<1>3. \A k \in 1 .. Len(tasks) : task'[tasks[k]].pc = task[tasks[k]].pc
  BY <1>2, LenProperties, ElementOfSeq DEF Inv, MainTyped
<1>4. Typed' /\ FileTyped' /\ MainTyped'
  BY <1>1, <1>2 DEF Inv, Typed, FileTyped, MainTyped
<1>5. Queue'
  <2>1. \A d \in Clients : task'[d].pc # "none" => InQueue(d)
    BY <1>2 DEF Inv, Queue
  <2>2. Len(tasks) \in Nat
    BY LenProperties DEF Inv, MainTyped
  <2>3. interrupted = "spawn" => Len(tasks) > 0 /\ task[tasks[Len(tasks)]].pc = "none"
    BY <1>1 DEF Inv, Queue, TearingDown
  <2>4. interrupted = "spawn" => Len(tasks) > 0 /\ task'[tasks[Len(tasks)]].pc = "none"
    BY <1>3, <2>2, <2>3
  <2> QED  BY <1>1, <2>1, <2>4 DEF Queue, InQueue, TearingDown
<1>6. Mutex'
  BY <1>1, <1>2 DEF Inv, Mutex
<1>7. Joined(slot)'
  BY <1>1, <1>3 DEF Joined, Inv, Down
<1>8. Down'
  BY <1>1, <1>7 DEF Inv, Down, TearingDown
<1> QED  BY <1>4, <1>5, <1>6, <1>8 DEF Inv

(* The thread in the slot has ended, or was never started: so have all     *)
(* below the next slot.                                                    *)
LEMMA JoinedNext ==
  ASSUME Inv, main = "join", (Started /\ Ended) \/ ~ Started
  PROVE  Joined(slot + 1)
<1>1. /\ slot \in Nat /\ Len(tasks) \in Nat /\ Joined(slot)
      /\ UseCharDevice => stamper = "none"
  BY ConstantsAssumption, LenProperties DEF Inv, MainTyped, Down
<1>2. stamper \in {"none", "done"}
  <2>1. CASE slot = 0
    <3>1. ~ Started => UseCharDevice
      BY <2>1 DEF Started
    <3> QED  BY <1>1, <2>1, <3>1 DEF Ended
  <2>2. CASE slot > 0
    BY <1>1, <2>2 DEF Joined
  <2> QED  BY <1>1, <2>1, <2>2
<1>3. ASSUME NEW k \in 1 .. Len(tasks), k < slot + 1
      PROVE  task[tasks[k]].pc \in {"none", "done"}
  <2>1. CASE k < slot
    BY <1>1, <2>1 DEF Joined
  <2>2. CASE k = slot
    <3>1. slot # 0 /\ slot \in 1 .. Len(tasks)
      BY <2>2
    <3> QED  BY <2>2, <3>1 DEF Started, Ended
  <2> QED  BY <1>1, <1>3, <2>1, <2>2
<1> QED  BY <1>2, <1>3 DEF Joined

LEMMA TeardownJoinInv == ASSUME Inv, TeardownJoin PROVE Inv'
<1>1. CASE status' = "killed" /\ UNCHANGED <<main, slot>>
  BY <1>1, KilledInv DEF TeardownJoin, mainvars
<1>2. CASE ((Started /\ Ended) \/ ~ Started) /\ NextSlot /\ UNCHANGED status
  <2>1. /\ UNCHANGED <<status, interrupted, tasks, task, net, file, file_exists, file_mutex, destroyed,
                       client_started_sending, timestamp_thread_exit, stamper>>
        /\ main = "join"
    BY <1>2 DEF TeardownJoin, filevars, flags
  <2>2. Joined(slot + 1)
    BY <1>2, <2>1, JoinedNext
  <2>3. slot \in 0 .. NumThreads - 1 /\ NumThreads \in Nat
    BY ConstantsAssumption DEF Inv, MainTyped
  <2>4. \/ slot + 1 < NumThreads /\ slot' = slot + 1 /\ main' = "close"
        \/ slot + 1 = NumThreads /\ slot' = 0 /\ main' = "remove"
    BY <1>2, <2>3 DEF NextSlot
  <2>5. slot' \in 0 .. NumThreads - 1
    BY <2>3, <2>4
  <2>6. Typed' /\ FileTyped' /\ MainTyped'
    BY <2>1, <2>4, <2>5 DEF Inv, Typed, FileTyped, MainTyped
  <2>7. Queue' /\ Mutex'
    BY <2>1, <2>4 DEF Inv, Queue, InQueue, TearingDown, Mutex
  <2>8. (main' \in {"close", "join"} => Joined(slot)') /\ (main' = "remove" => Joined(NumThreads)')
    BY <2>1, <2>2, <2>4 DEF Joined
  <2>9. Down'
    BY <2>1, <2>4, <2>8 DEF Inv, Down, TearingDown
  <2> QED  BY <2>6, <2>7, <2>9 DEF Inv
<1> QED  BY <1>1, <1>2 DEF TeardownJoin

LEMMA TeardownEndInv == ASSUME Inv, TeardownEnd, status = "running" PROVE Inv'
<1>1. /\ UNCHANGED <<slot, interrupted, tasks, task, net, file_mutex,
                     client_started_sending, timestamp_thread_exit, stamper>>
      /\ main = "remove" /\ destroyed' = TRUE
      /\ (interrupted = "accept" /\ status' = "exited" /\ main' = main)
           \/ (main' = interrupted /\ status' = status)
      /\ (file' = file \/ file' = <<>>) /\ (file_exists' = file_exists \/ file_exists' = FALSE)
  BY DEF TeardownEnd, filevars, flags
<1>2. interrupted \in {"accept", "spawn"} /\ slot = 0
  BY <1>1 DEF Inv, MainTyped, Down, TearingDown
<1>3. Typed' /\ FileTyped' /\ MainTyped'
  BY <1>1, <1>2, EmptyBuf DEF Inv, Typed, FileTyped, MainTyped
<1>4. Queue' /\ Mutex'
  BY <1>1, <1>2 DEF Inv, Queue, InQueue, TearingDown, Mutex
<1>5. Joined(NumThreads) /\ Joined(NumThreads)'
  BY <1>1 DEF Inv, Down, Joined
<1>6. Down'
  BY <1>1, <1>2, <1>5 DEF Inv, Down, TearingDown
<1> QED  BY <1>3, <1>4, <1>6 DEF Inv

LEMMA OthersInv == ASSUME Inv, Others, status = "running" PROVE Inv'
BY ClientStepInv, AcceptInv, SpawnInv, SignalInv, TeardownCloseInv, TeardownJoinInv, TeardownEndInv
   DEF Others, Main, Teardown

LEMMA StutterInv == ASSUME Inv, UNCHANGED vars PROVE Inv'
<1>1. UNCHANGED <<status, main, slot, interrupted, tasks, task, net, file, file_exists, file_mutex, destroyed,
                  client_started_sending, timestamp_thread_exit, stamper>>
  BY DEF vars, mainvars, filevars, flags
<1>2. Typed' /\ FileTyped' /\ MainTyped'
  BY <1>1 DEF Inv, Typed, FileTyped, MainTyped
<1>3. Queue' /\ Mutex'
  BY <1>1 DEF Inv, Queue, InQueue, TearingDown, Mutex
<1>4. Down'
  BY <1>1 DEF Inv, Down, TearingDown, Joined
<1> QED  BY <1>2, <1>3, <1>4 DEF Inv

LEMMA NextInv == ASSUME FileInv, [Next]_vars PROVE FileInv'
<1>1. Inv
  BY DEF FileInv
<1>2. Inv'
  BY <1>1, StutterInv, OthersInv, TimestampsInv, ConnectionInv, WriteBlockInv, ReadBlockInv DEF Next, Task
<1> QED  BY <1>2 DEF FileInv

THEOREM Invariance == Spec => []FileInv
<1>1. Init => FileInv
  BY InvInit, EmptyBuf DEF Init, FileInv
<1>2. FileInv /\ [Next]_vars => FileInv'
  BY NextInv
<1> QED  BY <1>1, <1>2, PTL DEF Spec

-----------------------------------------------------------------------------
(* What the invariant is for.                                              *)

(* Types, the bounds of the block buffer and of the teardown's counter.    *)
THEOREM Types == Spec => []TypeOK
<1>1. Inv => TypeOK
  <2> SUFFICES ASSUME Inv PROVE TypeOK
    OBVIOUS
  <2>1. ASSUME NEW c \in Clients
        PROVE  /\ task[c].pc \in {"none", "recv", "write", "send", "sending", "close", "done"}
               /\ task[c].buf \in Seq(IF task[c].pc = "sending" THEN Reply ELSE Bytes)
               /\ Len(task[c].buf) <= BlockSize
               /\ task[c].ended \in BOOLEAN /\ task[c].counter \in Nat
               /\ task[c].conf_fd \in {"open", "closing", "closed"}
    BY DEF Inv, Typed, TaskType, Pcs, WellFormed
  <2>2. ASSUME NEW c \in Clients
        PROVE  /\ net[c].state \in {"new", "open", "closed"}
               /\ net[c].sent \in 0 .. Len(Packet[c]) /\ net[c].rcvd \in 0 .. net[c].sent
               /\ net[c].out \in Seq(Reply) /\ Len(net[c].out) <= SocketRoom
               /\ net[c].got \in Seq(Reply)
    BY DEF Inv, Typed, NetType, NetFormed
  <2> QED  BY <2>1, <2>2 DEF TypeOK, Inv, FileTyped, MainTyped
<1> QED  BY <1>1, FileReply, Invariance, PTL

(* There are fewer connections than slots.                                 *)
LEMMA QueueLength == Inv => Len(tasks) < NumThreads
<1> SUFFICES ASSUME Inv PROVE Len(tasks) < NumThreads
  OBVIOUS
<1>1. tasks \in [1 .. Len(tasks) -> Clients] /\ Len(tasks) \in Nat /\ IsInjective(tasks)
      /\ DOMAIN tasks = 1 .. Len(tasks)
  BY LenProperties DEF Inv, MainTyped
<1>2. IsFiniteSet(1 .. Len(tasks)) /\ Cardinality(1 .. Len(tasks)) = Len(tasks)
  <2> DEFINE n == Len(tasks)
  <2>1. n \in Nat
    BY <1>1
  <2> HIDE DEF n
  <2>2. 1 \in Int /\ n \in Int /\ (IF 1 > n THEN 0 ELSE n - 1 + 1) = n
    BY <2>1
  <2>3. IsFiniteSet(1 .. n) /\ Cardinality(1 .. n) = IF 1 > n THEN 0 ELSE n - 1 + 1
    BY <2>2, FS_Interval
  <2> QED  BY <2>2, <2>3 DEF n
<1>3. IsFiniteSet(Clients) /\ Cardinality(Clients) \in Nat /\ NumThreads \in Nat
      /\ Cardinality(Clients) < NumThreads
  BY FS_CardinalityType, ConstantsAssumption
<1>4. ~ Cardinality(Clients) < Cardinality(1 .. Len(tasks))
  <2>1. ~ \E i, k \in 1 .. Len(tasks) : i # k /\ tasks[i] = tasks[k]
    BY <1>1 DEF IsInjective
  <2> QED  BY <1>1, <1>2, <1>3, <2>1, FS_PigeonHole
<1> QED  BY <1>1, <1>2, <1>3, <1>4

LEMMA AllAtRest == ASSUME Inv, main = "remove" PROVE \A c \in Clients : AtRest(c)
<1> SUFFICES ASSUME NEW c \in Clients, task[c].pc # "none" PROVE task[c].pc = "done"
  BY DEF AtRest
<1>1. PICK k \in 1 .. Len(tasks) : tasks[k] = c
  BY DEF Inv, Queue, InQueue
<1>2. k < NumThreads
  BY QueueLength, LenProperties, ConstantsAssumption DEF Inv, MainTyped
<1> QED  BY <1>1, <1>2 DEF Inv, Down, Joined

(* Only teardown's end destroys the mutex.                                 *)
LEMMA DestroyStep ==
  ASSUME Inv, [Next]_vars, destroyed' # destroyed
  PROVE  TeardownEnd /\ status = "running"
BY DEF Next, Task, Connection, Timestamps, Others, Main, Teardown, ClientStep, vars,
       RecvByte, RecvNothing, RecvFail, Receive, SendBlock, SendLost, SendKills, Sent, EndBlock,
       CloseConnection, WriteBlock, BlockDone, ReadBlock, LockAndRead, StampTop, StampCheck, StampWrite,
       StampStep, Accept, Spawn, Signal, TeardownClose, TeardownJoin, Connect, ClientSend, ClientRead,
       ClientClose, Client

(* teardown removes the file and destroys the mutex when every thread that *)
(* was started has ended and nobody holds the mutex: the joins, in the     *)
(* order of the slots, have covered every connection that was accepted.    *)
THEOREM TornDown == Spec => TornDownWhenIdle
<1>1. Inv /\ [Next]_vars =>
        [destroyed' # destroyed =>
           /\ stamper \in {"none", "done"} /\ file_mutex = None
           /\ \A c \in Clients : task[c].pc \in {"none", "done"}]_vars
  <2> SUFFICES ASSUME Inv, [Next]_vars, destroyed' # destroyed
               PROVE  /\ stamper \in {"none", "done"} /\ file_mutex = None
                      /\ \A c \in Clients : task[c].pc \in {"none", "done"}
    OBVIOUS
  <2>1. main = "remove" /\ ~ destroyed
    BY DestroyStep DEF TeardownEnd, Inv, Down, TearingDown
  <2>2. \A c \in Clients : task[c].pc \in {"none", "done"}
    BY <2>1, AllAtRest DEF AtRest
  <2>3. file_mutex = None
    BY <2>1, <2>2 DEF Inv, Mutex, FileTyped
  <2>4. NumThreads > 0
    BY ConstantsAssumption, FS_CardinalityType
  <2>5. stamper \in {"none", "done"}
    BY <2>1, <2>4 DEF Inv, Down, Joined
  <2> QED  BY <2>2, <2>3, <2>5
<1> QED  BY <1>1, FileReply, Invariance, PTL DEF Spec, TornDownWhenIdle

(* The file changes in a critical section, or in teardown's end.           *)
LEMMA FileStep ==
  ASSUME Inv, [Next]_vars, file' # file
  PROVE  ~ Locked \/ TeardownEnd
BY DEF Next, Task, Connection, Timestamps, Others, Main, Teardown, ClientStep, vars, filevars,
       RecvByte, RecvNothing, RecvFail, Receive, SendBlock, SendLost, SendKills, Sent, EndBlock,
       CloseConnection, WriteBlock, ReadBlock, LockAndRead, StampTop, StampCheck, StampWrite,
       StampStep, Accept, Spawn, Signal, TeardownClose, TeardownJoin, Connect, ClientSend, ClientRead,
       ClientClose, Client

LEMMA AtMostOne == ASSUME NEW S, \A c, d \in S : c = d PROVE Cardinality(S) <= 1
<1>1. S = {} \/ \E c \in S : S = {c}
  OBVIOUS
<1>2. Cardinality(S) \in {0, 1}
  BY <1>1, FS_EmptySet, FS_Singleton
<1> QED  BY <1>2

(* While a thread sends a block, holding file_mutex, nobody else is there  *)
(* and the file does not change.                                           *)
THEOREM FileStable == Spec => FileStableWhileSending
<1>1. Inv /\ Inv' /\ [Next]_vars =>
        [~destroyed =>
           /\ Cardinality({c \in Clients : task'[c].pc = "sending"}) <= 1
           /\ file' # file => \A c \in Clients : task[c].pc # "sending"]_vars
  <2> SUFFICES ASSUME Inv, Inv', [Next]_vars, ~ destroyed
               PROVE  /\ Cardinality({c \in Clients : task'[c].pc = "sending"}) <= 1
                      /\ file' # file => \A c \in Clients : task[c].pc # "sending"
    OBVIOUS
  <2>1. \A c, d \in {c \in Clients : task'[c].pc = "sending"} : c = d
    <3>1. CASE destroyed' = destroyed
      BY <3>1 DEF Inv, Mutex
    <3>2. CASE destroyed' # destroyed
      <4>1. main = "remove" /\ task' = task
        BY <3>2, DestroyStep DEF TeardownEnd
      <4> QED  BY <4>1, AllAtRest DEF AtRest
    <3> QED  BY <3>1, <3>2
  <2>2. Cardinality({c \in Clients : task'[c].pc = "sending"}) <= 1
    BY <2>1, AtMostOne
  <2>3. ASSUME file' # file, NEW c \in Clients PROVE task[c].pc # "sending"
    <3>1. CASE ~ Locked
      BY <3>1, ConstantsAssumption DEF Locked, Inv, Mutex
    <3>2. CASE TeardownEnd
      BY <3>2, AllAtRest DEF TeardownEnd, AtRest
    <3> QED  BY <2>3, <3>1, <3>2, FileStep
  <2> QED  BY <2>2, <2>3
<1> QED  BY <1>1, FileReply, Invariance, PTL DEF Spec, FileStableWhileSending

-----------------------------------------------------------------------------
(* Responses.                                                              *)

(* r is the beginning of w, position by position.                          *)
Begins(r, w) == Len(r) <= Len(w) /\ \A i \in 1 .. Len(r) : r[i] = w[i]

LEMMA BeginsIsPrefix ==
  ASSUME NEW r \in Seq(Written), NEW w \in Seq(Written), Begins(r, w)
  PROVE  IsPrefix(r, w)
<1>1. Len(r) \in Nat /\ Len(w) \in Nat /\ Len(r) <= Len(w)
  BY LenProperties DEF Begins
<1>2. SubSeq(w, 1, Len(r)) = r
  <2> DEFINE s == SubSeq(w, 1, Len(r))
  <2>1. \A i \in 1 .. Len(r) : w[i] \in Written
    BY <1>1, ElementOfSeq
  <2>2. /\ s \in Seq(Written) /\ Len(s) = IF 1 <= Len(r) THEN Len(r) - 1 + 1 ELSE 0
        /\ \A i \in 1 .. Len(r) - 1 + 1 : s[i] = w[1 + i - 1]
    BY <1>1, <2>1, SubSeqProperties
  <2> HIDE DEF s
  <2>3. Len(s) = Len(r) /\ \A i \in 1 .. Len(r) : s[i] = r[i]
    BY <1>1, <2>2 DEF Begins
  <2>4. s = r
    BY <2>2, <2>3, SeqEqual
  <2> QED  BY <2>4 DEF s
<1>3. SubSeq(r, 1, Len(r)) = r
  BY SubSeqFull
<1> QED  BY <1>1, <1>2, <1>3 DEF IsPrefix

(* What has been sent is the beginning of the file; counter is how much    *)
(* that is, until the client leaves or the connection ends; and the block  *)
(* being sent is what comes next.                                          *)
Answering(c) ==
  /\ Begins(Response(c), file)
  /\ net[c].state # "closed" /\ task[c].pc \notin {"close", "done"} => task[c].counter = Len(Response(c))
  /\ task[c].pc = "sending" => task[c].buf = Block(file, task[c].counter)

Answers == ~ destroyed => \A c \in Clients : Answering(c)

LEMMA ResponseType ==
  ASSUME Typed, NEW c \in Clients
  PROVE  /\ net[c].got \in Seq(Reply) /\ net[c].out \in Seq(Reply)
         /\ Response(c) \in Seq(Reply) /\ Len(Response(c)) = Len(net[c].got) + Len(net[c].out)
         /\ Len(Response(c)) \in Nat
<1>1. net[c].got \in Seq(Reply) /\ net[c].out \in Seq(Reply)
  BY DEF Typed, NetType
<1> QED  BY <1>1, ConcatProperties, LenProperties DEF Response

(* A step that sends nothing: the file may grow, but not under a thread    *)
(* that is sending.                                                        *)
LEMMA AnsweringKept ==
  ASSUME Inv, NEW c \in Clients, Answering(c),
         Response(c)' = Response(c), net[c].state = "closed" => net'[c].state = "closed",
         task'[c].counter = task[c].counter,
         task[c].pc \in {"close", "done"} => task'[c].pc \in {"close", "done"},
         Len(file) <= Len(file'), \A i \in 1 .. Len(file) : file'[i] = file[i], Len(file') \in Nat,
         task'[c].pc = "sending" => task'[c].buf = Block(file', task'[c].counter)
  PROVE  Answering(c)'
<1>1. Len(Response(c)) \in Nat /\ Len(file) \in Nat
  BY ResponseType, LenProperties DEF Inv, FileTyped
<1>2. Begins(Response(c), file')
  BY <1>1 DEF Answering, Begins
<1> QED  BY <1>2 DEF Answering

(* A block is what the file holds from the counter on.                     *)
LEMMA BlockIs ==
  ASSUME NEW w \in Seq(Written), NEW k \in Nat, k <= Len(w)
  PROVE  /\ Len(Block(w, k)) \in Nat /\ k + Len(Block(w, k)) <= Len(w)
         /\ \A i \in 1 .. Len(Block(w, k)) : Block(w, k)[i] = w[k + i]
<1> DEFINE n == IF k + BlockSize < Len(w) THEN k + BlockSize ELSE Len(w)
           b == Block(w, k)
<1>1. Len(w) \in Nat /\ n \in Nat /\ n <= Len(w) /\ k <= n
  BY LenProperties, BlockSizes
<1>2. \A i \in k + 1 .. n : w[i] \in Written
  BY <1>1, ElementOfSeq
<1>3. b = SubSeq(w, k + 1, n)
  BY DEF Block
<1> HIDE DEF n, b
<1>4. /\ Len(b) = IF k + 1 <= n THEN n - (k + 1) + 1 ELSE 0
      /\ \A i \in 1 .. n - (k + 1) + 1 : b[i] = w[k + 1 + i - 1]
  <2>1. k + 1 \in Int /\ n \in Int
    BY <1>1
  <2> QED  BY <1>2, <1>3, <2>1, SubSeqProperties
<1>5. Len(b) = n - k /\ n - (k + 1) + 1 = n - k
  BY <1>1, <1>4
<1>6. ASSUME NEW i \in 1 .. Len(b) PROVE b[i] = w[k + i]
  <2>1. k + 1 + i - 1 = k + i
    BY <1>1
  <2> QED  BY <1>4, <1>5, <2>1
<1>7. Len(b) \in Nat /\ k + Len(b) <= Len(w)
  BY <1>1, <1>5
<1> QED  BY <1>6, <1>7 DEF b

(* A block that begins where the response ends extends it.                 *)
LEMMA BeginsExtended ==
  ASSUME NEW r \in Seq(Written), NEW w \in Seq(Written), Begins(r, w), NEW b \in Seq(Written),
         b = Block(w, Len(r))
  PROVE  Begins(r \o b, w) /\ Len(r \o b) = Len(r) + Len(b)
<1>1. Len(r) \in Nat /\ Len(w) \in Nat /\ Len(b) \in Nat /\ Len(r) <= Len(w)
  BY LenProperties DEF Begins
<1>2. Len(r) + Len(b) <= Len(w) /\ \A i \in 1 .. Len(b) : b[i] = w[Len(r) + i]
  BY <1>1, BlockIs
<1>3. /\ Len(r \o b) = Len(r) + Len(b)
      /\ \A i \in 1 .. Len(r) + Len(b) : (r \o b)[i] = IF i <= Len(r) THEN r[i] ELSE b[i - Len(r)]
  BY ConcatProperties
<1>4. ASSUME NEW i \in 1 .. Len(r) + Len(b) PROVE (r \o b)[i] = w[i]
  <2>1. CASE i <= Len(r)
    BY <1>1, <1>3, <2>1 DEF Begins
  <2>2. CASE i > Len(r)
    <3>1. i - Len(r) \in 1 .. Len(b) /\ Len(r) + (i - Len(r)) = i /\ ~ (i <= Len(r))
      BY <1>1, <2>2
    <3>2. (r \o b)[i] = b[i - Len(r)]
      BY <1>3, <3>1
    <3>3. b[i - Len(r)] = w[Len(r) + (i - Len(r))]
      BY <1>2, <3>1
    <3> QED  BY <3>1, <3>2, <3>3
  <2> QED  BY <1>1, <2>1, <2>2
<1> QED  BY <1>2, <1>3, <1>4 DEF Begins

LEMMA AnsweringSame ==
  ASSUME Inv, NEW c \in Clients, Answering(c), file' = file,
         Response(c)' = Response(c), net[c].state = "closed" => net'[c].state = "closed",
         task'[c].counter = task[c].counter,
         task[c].pc \in {"close", "done"} => task'[c].pc \in {"close", "done"},
         task'[c].pc = "sending" => task'[c].buf = Block(file, task'[c].counter)
  PROVE  Answering(c)'
<1>1. Len(file) \in Nat
  BY LenProperties DEF Inv, FileTyped
<1> QED  BY <1>1, AnsweringKept

(* One thread moves, sending nothing, while the file stays as it is.       *)
LEMMA MovesAnswer ==
  ASSUME Inv, \A d \in Clients : Answering(d), file' = file,
         \A d \in Clients : Response(d)' = Response(d) /\ net'[d].state = net[d].state,
         NEW c \in Clients, NEW pcs, Moves(c, pcs, task[c].counter),
         task[c].pc \in {"close", "done"} => task'[c].pc \in {"close", "done"},
         task'[c].pc = "sending" => task'[c].buf = Block(file, task'[c].counter)
  PROVE  \A d \in Clients : Answering(d)'
<1> SUFFICES ASSUME NEW d \in Clients PROVE Answering(d)'
  OBVIOUS
<1>1. CASE d = c
  BY <1>1, AnsweringSame DEF Moves
<1>2. CASE d # c
  <2>1. task'[d] = task[d]
    BY <1>2 DEF Moves
  <2> QED  BY <2>1, AnsweringSame DEF Answering
<1> QED  BY <1>1, <1>2

LEMMA SameNet == ASSUME net' = net PROVE \A d \in Clients : Response(d)' = Response(d) /\ net'[d].state = net[d].state
BY DEF Response

LEMMA ReceiveAnswers ==
  ASSUME Inv, \A d \in Clients : Answering(d), NEW c \in Clients, RecvByte(c) \/ RecvNothing(c) \/ RecvFail(c)
  PROVE  \A d \in Clients : Answering(d)'
<1>1. \A d \in Clients : Response(d)' = Response(d) /\ net'[d].state = net[d].state
  <2>1. CASE RecvByte(c)
    <3>1. net[c] \in NetType /\ NetMoves(c, [net[c] EXCEPT !.rcvd = net[c].rcvd + 1])
      BY <2>1, RecvMoves DEF Inv, Typed
    <3>2. /\ net'[c].got = net[c].got /\ net'[c].out = net[c].out /\ net'[c].state = net[c].state
          /\ \A d \in Clients \ {c} : net'[d] = net[d]
      BY <3>1 DEF NetMoves, NetType
    <3> QED  BY <3>2 DEF Response
  <2>2. CASE net' = net
    BY <2>2, SameNet
  <2> QED  BY <2>1, <2>2 DEF RecvNothing, RecvFail
<1>2. task[c].pc = "recv" /\ file' = file /\ \E b \in Bytes, failed \in BOOLEAN : Receive(c, b, failed)
  <2>1. CASE RecvByte(c)
    <3>1. net[c].rcvd + 1 \in 1 .. Len(Packet[c])
      BY <2>1, PacketLength DEF NetType, NetFormed, Inv, Typed, RecvByte
    <3> QED  BY <2>1, <3>1, PacketBytes DEF RecvByte, Receive, filevars
  <2>2. CASE RecvNothing(c) \/ RecvFail(c)
    BY <2>2, SpecialBytes DEF RecvNothing, RecvFail, Receive, filevars
  <2> QED  BY <2>1, <2>2
<1>3. Moves(c, {"recv", "write"}, task[c].counter)
  BY <1>2, ReceiveMoves DEF Inv
<1>4. task'[c].pc \in {"recv", "write"}
  BY <1>3 DEF Moves
<1> QED  BY <1>1, <1>2, <1>3, <1>4, MovesAnswer

(* The file grows while no thread is sending.                              *)
LEMMA GrowthAnswers ==
  ASSUME Inv, ~ destroyed, ~ Locked, \A d \in Clients : Answering(d),
         NEW w \in Seq(Written), file' = file \o w, net' = net,
         \A d \in Clients : /\ task'[d].counter = task[d].counter
                            /\ task'[d] = task[d] \/ (task[d].pc = "write" /\ task'[d].pc # "sending")
  PROVE  \A d \in Clients : Answering(d)'
<1> SUFFICES ASSUME NEW d \in Clients PROVE Answering(d)'
  OBVIOUS
<1>1. task[d].pc # "sending" /\ task'[d].pc # "sending"
      /\ (task[d].pc \in {"close", "done"} => task'[d].pc \in {"close", "done"})
  BY ConstantsAssumption DEF Locked, Inv, Mutex
<1>2. Len(file) <= Len(file') /\ Len(file') \in Nat /\ \A i \in 1 .. Len(file) : file'[i] = file[i]
  <2>1. file \in Seq(Written) /\ Len(file) \in Nat /\ Len(w) \in Nat
    BY LenProperties DEF Inv, FileTyped
  <2>2. /\ Len(file') = Len(file) + Len(w)
        /\ \A i \in 1 .. Len(file) + Len(w) : file'[i] = IF i <= Len(file) THEN file[i] ELSE w[i - Len(file)]
    BY <2>1, ConcatProperties
  <2> QED  BY <2>1, <2>2
<1>3. Response(d)' = Response(d) /\ net'[d].state = net[d].state
  BY SameNet
<1> QED  BY <1>1, <1>2, <1>3, AnsweringKept

LEMMA WriteAnswers ==
  ASSUME Inv, ~ destroyed, \A d \in Clients : Answering(d), NEW c \in Clients, WriteBlock(c)
  PROVE  \A d \in Clients : Answering(d)'
<1>1. task[c].buf \in Seq(Bytes) /\ task[c].ended \in BOOLEAN
  BY DEF Inv, Typed, WellFormed, TaskType, WriteBlock, BlockDone
<1>2. PICK bytes \in Seq(Bytes), ended \in BOOLEAN : BlockDone(c, bytes, ended)
  BY <1>1, EmptyBuf DEF WriteBlock
<1>3. task[c].pc = "write" /\ Moves(c, {"recv", "send"}, task[c].counter)
  BY <1>2, BlockDoneMoves DEF Inv
<1>4. By(c, bytes) \in Seq(Written)
  BY ByType, SpecialBytes
<1>5. \A d \in Clients : /\ task'[d].counter = task[d].counter
                         /\ task'[d] = task[d] \/ (task[d].pc = "write" /\ task'[d].pc # "sending")
  <2>1. \A d \in Clients \ {c} : task'[d] = task[d]
    BY <1>3 DEF Moves
  <2>2. task'[c].counter = task[c].counter /\ task[c].pc = "write" /\ task'[c].pc # "sending"
    BY <1>3 DEF Moves
  <2> QED  BY <2>1, <2>2
<1>6. file' = file \o By(c, bytes) /\ net' = net /\ ~ Locked
  BY <1>2 DEF BlockDone, WriteBlock
<1> QED  BY <1>4, <1>5, <1>6, GrowthAnswers

LEMMA ReadAnswers ==
  ASSUME FileInv, \A d \in Clients : Answering(d), NEW c \in Clients, ReadBlock(c)
  PROVE  \A d \in Clients : Answering(d)'
<1>0. Inv /\ Reply = Written
  BY FileReply
<1>1. net' = net /\ file' = file
  BY DEF ReadBlock, LockAndRead, filevars
<1>2. CASE file_exists
  <2>1. Block(file, task[c].counter) \in Seq(Written) /\ Len(Block(file, task[c].counter)) <= BlockSize
    BY <1>0, BlockType DEF Inv, FileTyped, Typed, TaskType
  <2>2. /\ task[c].pc = "send" /\ Moves(c, {"sending"}, task[c].counter)
        /\ task'[c].buf = Block(file, task[c].counter)
    BY <1>0, <1>2, <2>1, LockAndReadMoves DEF Inv, ReadBlock
  <2>3. task'[c].counter = task[c].counter
    BY <2>2 DEF Moves
  <2> QED  BY <1>0, <1>1, <2>2, <2>3, SameNet, MovesAnswer
<1>3. CASE ~ file_exists
  <2>1. task' = task
    BY <1>3 DEF ReadBlock, LockAndRead
  <2> QED  BY <1>0, <1>1, <2>1, SameNet, AnsweringSame DEF Answering
<1> QED  BY <1>2, <1>3

LEMMA SendAnswers ==
  ASSUME FileInv, \A d \in Clients : Answering(d), NEW c \in Clients, SendBlock(c)
  PROVE  \A d \in Clients : Answering(d)'
<1>0. Inv /\ Reply = Written
  BY FileReply
<1>1. /\ net[c] \in NetType /\ net[c].state = "open" /\ task[c].buf \in Seq(Written) /\ task[c].pc = "sending"
      /\ NetMoves(c, [net[c] EXCEPT !.out = net[c].out \o task[c].buf])
  BY <1>0, SendBlockNet DEF Inv, Typed, SendBlock
<1>2. /\ net'[c].got = net[c].got /\ net'[c].out = net[c].out \o task[c].buf
      /\ \A d \in Clients \ {c} : net'[d] = net[d]
  BY <1>1 DEF NetMoves, NetType
<1>3. /\ net[c].got \in Seq(Written) /\ net[c].out \in Seq(Written) /\ Response(c) \in Seq(Written)
      /\ Len(Response(c)) \in Nat
  BY <1>0, ResponseType DEF Inv
<1>4. Response(c)' = Response(c) \o task[c].buf
  <2>1. net[c].got \o (net[c].out \o task[c].buf) = (net[c].got \o net[c].out) \o task[c].buf
    <3>1. \A g, o, b \in Seq(Written) : g \o (o \o b) = (g \o o) \o b
      BY ConcatAssociative
    <3> QED  BY <1>1, <1>3, <3>1
  <2>2. Response(c)' = net'[c].got \o net'[c].out /\ Response(c) = net[c].got \o net[c].out
    BY DEF Response
  <2> QED  BY <1>2, <2>1, <2>2
<1>5. task[c].counter = Len(Response(c)) /\ task[c].buf = Block(file, Len(Response(c))) /\ Begins(Response(c), file)
  BY <1>1 DEF Answering
<1>6. file \in Seq(Written) /\ file' = file
  BY <1>0 DEF Inv, FileTyped, SendBlock, Sent, EndBlock, filevars
<1>7. Begins(Response(c)', file') /\ Len(Response(c)') = NewCounter(c)
  BY <1>1, <1>3, <1>4, <1>5, <1>6, BeginsExtended DEF NewCounter
<1>8. Moves(c, {"close", "send"}, NewCounter(c))
  <2>1. NewCounter(c) \in Nat /\ (FALSE \/ ShortBlock(c)) \in BOOLEAN
    BY <1>1, <1>3, <1>5, LenProperties DEF NewCounter
  <2> QED  BY <1>0, <2>1, EndBlockMoves DEF Inv, SendBlock, Sent
<1>9. Answering(c)'
  BY <1>7, <1>8 DEF Answering, Moves
<1>10. ASSUME NEW d \in Clients, d # c PROVE Answering(d)'
  <2>1. task'[d] = task[d] /\ net'[d] = net[d]
    BY <1>2, <1>8, <1>10 DEF Moves
  <2> QED  BY <1>6, <2>1 DEF Answering, Response
<1> QED  BY <1>9, <1>10

(* A send that loses its data ends the response, or the client has left.   *)
LEMMA LostAnswers ==
  ASSUME Inv, \A d \in Clients : Answering(d), NEW c \in Clients, SendLost(c)
  PROVE  \A d \in Clients : Answering(d)'
<1>1. /\ net' = net /\ task[c].pc = "sending"
      /\ \E failed \in BOOLEAN : Sent(c, failed) /\ (failed \/ net[c].state = "closed")
  BY DEF SendLost
<1>2. PICK failed \in BOOLEAN : Sent(c, failed) /\ (failed \/ net[c].state = "closed")
  BY <1>1
<1>3. NewCounter(c) \in Nat
  BY <1>1, LenProperties DEF NewCounter, Inv, Typed, TaskType, WellFormed
<1>4. /\ Moves(c, {"close", "send"}, NewCounter(c))
      /\ task'[c].pc = "send" => ~ failed
  <2>1. (failed \/ ShortBlock(c)) \in BOOLEAN
    BY DEF ShortBlock
  <2> QED  BY <1>2, <1>3, <2>1, EndBlockMoves DEF Inv, Sent
<1>5. file' = file
  BY <1>2 DEF Sent, EndBlock, filevars
<1>6. Answering(c)'
  <2>1. Response(c)' = Response(c) /\ net'[c].state = net[c].state
    BY <1>1, SameNet
  <2>2. net'[c].state # "closed" => task'[c].pc = "close"
    BY <1>2, <1>4, <2>1 DEF Moves
  <2>3. task'[c].pc # "sending"
    BY <1>4 DEF Moves
  <2> QED  BY <1>5, <2>1, <2>2, <2>3 DEF Answering
<1>7. ASSUME NEW d \in Clients, d # c PROVE Answering(d)'
  <2>1. task'[d] = task[d] /\ net'[d] = net[d]
    BY <1>1, <1>4, <1>7 DEF Moves
  <2> QED  BY <1>5, <2>1 DEF Answering, Response
<1> QED  BY <1>6, <1>7

LEMMA ConnectionAnswers ==
  ASSUME FileInv, \A d \in Clients : Answering(d), NEW c \in Clients, Connection(c)
  PROVE  \A d \in Clients : Answering(d)'
<1>0. Inv /\ Reply = Written
  BY FileReply
<1>1. CASE SendKills(c)
  <2>1. net' = net /\ file' = file /\ task' = task
    BY <1>1 DEF SendKills, filevars
  <2> QED  BY <2>1 DEF Answering, Response
<1>2. CASE CloseConnection(c)
  <2>1. net' = net /\ file' = file /\ task[c].pc = "close" /\ Moves(c, {"done"}, task[c].counter)
    BY <1>0, <1>2, CloseMoves DEF CloseConnection, filevars, Inv
  <2>2. task'[c].pc = "done"
    BY <2>1 DEF Moves
  <2> QED  BY <1>0, <2>1, <2>2, SameNet, MovesAnswer
<1> QED  BY <1>0, <1>1, <1>2, ReceiveAnswers, SendAnswers, LostAnswers DEF Connection

LEMMA TimestampsAnswers ==
  ASSUME Inv, ~ destroyed, \A d \in Clients : Answering(d), Timestamps
  PROVE  \A d \in Clients : Answering(d)'
<1>1. net' = net /\ task' = task
  BY DEF Timestamps, StampTop, StampCheck, StampWrite, StampStep
<1>2. CASE StampTop \/ StampCheck
  <2>1. file' = file
    BY <1>2 DEF StampTop, StampCheck, filevars
  <2> QED  BY <1>1, <2>1 DEF Answering, Response
<1>3. CASE StampWrite
  <2> DEFINE e == [by |-> Stamper, byte |-> NL]
  <2>1. e \in Written
    BY SpecialBytes DEF Written
  <2> HIDE DEF e
  <2>2. file' = file \o <<e>> /\ <<e>> \in Seq(Written) /\ ~ Locked
    BY <1>3, <2>1, AppendIsConcat DEF StampWrite, Inv, FileTyped, e
  <2> QED  BY <1>1, <2>2, GrowthAnswers
<1> QED  BY <1>2, <1>3 DEF Timestamps

LEMMA BeginningBegins ==
  ASSUME NEW g \in Seq(Written), NEW o \in Seq(Written), NEW w \in Seq(Written), Begins(g \o o, w)
  PROVE  Begins(g, w)
<1>1. Len(g) \in Nat /\ Len(o) \in Nat /\ Len(w) \in Nat
  BY LenProperties
<1>2. /\ Len(g \o o) = Len(g) + Len(o)
      /\ \A i \in 1 .. Len(g) + Len(o) : (g \o o)[i] = IF i <= Len(g) THEN g[i] ELSE o[i - Len(g)]
  BY ConcatProperties
<1> QED  BY <1>1, <1>2 DEF Begins

(* A client that reads keeps its response; one that leaves keeps what it   *)
(* had read.                                                               *)
LEMMA ClientAnswers ==
  ASSUME FileInv, \A d \in Clients : Answering(d), NEW c \in Clients, ClientStep(c)
  PROVE  \A d \in Clients : Answering(d)'
<1>0. Inv /\ Reply = Written
  BY FileReply
<1>1. task' = task /\ file' = file
  BY DEF ClientStep, Connect, ClientSend, ClientRead, ClientClose, Client, filevars
<1>2. net[c] \in NetType /\ net[c].got \in Seq(Written) /\ net[c].out \in Seq(Written)
      /\ Response(c) \in Seq(Written) /\ file \in Seq(Written)
  BY <1>0, ResponseType DEF Inv, Typed, FileTyped
<1>3. PICK n : NetMoves(c, n)
  BY <1>0, ConnectMoves, SendMoves, ReadMoves, LeaveMoves DEF Inv, ClientStep
<1>4. ASSUME NEW d \in Clients, d # c PROVE Answering(d)'
  <2>1. net'[d] = net[d]
    BY <1>3, <1>4 DEF NetMoves
  <2> QED  BY <1>1, <2>1 DEF Answering, Response
<1>5. Answering(c)'
  <2>1. CASE Response(c)' = Response(c) /\ (net[c].state = "closed" => net'[c].state = "closed")
    BY <1>0, <1>1, <2>1, AnsweringSame DEF Answering
  <2>2. CASE Connect(c) \/ ClientSend(c)
    <3>1. net'[c].got = net[c].got /\ net'[c].out = net[c].out /\ net[c].state # "closed"
      <4>1. CASE Connect(c)
        <5>1. net[c].state = "new" /\ NetMoves(c, [net[c] EXCEPT !.state = "open"])
          BY <1>0, <4>1, ConnectMoves DEF Inv
        <5> QED  BY <1>2, <5>1 DEF NetMoves, NetType
      <4>2. CASE ClientSend(c)
        BY <1>0, <1>2, <4>2, SendMoves DEF Inv, NetMoves, NetType, ClientSend
      <4> QED  BY <2>2, <4>1, <4>2
    <3> QED  BY <2>1, <3>1 DEF Response
  <2>3. CASE ClientRead(c)
    <3>1. net'[c].got = net[c].got \o net[c].out /\ net'[c].out = <<>> /\ net[c].state = "open"
      <4> DEFINE got == net[c].got \o net[c].out
      <4>1. net[c].state = "open" /\ NetMoves(c, [[net[c] EXCEPT !.got = got] EXCEPT !.out = <<>>])
        BY <1>0, <2>3, ReadMoves DEF Inv
      <4> HIDE DEF got
      <4>2. net'[c] = [[net[c] EXCEPT !.got = got] EXCEPT !.out = <<>>]
        BY <4>1 DEF NetMoves
      <4>3. net'[c].got = got /\ net'[c].out = <<>>
        BY <1>2, <4>2 DEF NetType
      <4> QED  BY <4>1, <4>3 DEF got
    <3>2. Response(c)' = Response(c) \o <<>>
      BY <3>1 DEF Response
    <3>3. Response(c) \o <<>> = Response(c)
      BY <1>2, ConcatEmptySeq
    <3> QED  BY <2>1, <3>1, <3>2, <3>3
  <2>4. CASE ClientClose(c)
    <3>1. net'[c].got = net[c].got /\ net'[c].out = <<>> /\ net'[c].state = "closed"
      BY <1>0, <1>2, <2>4, LeaveMoves DEF Inv, NetMoves, NetType
    <3>2. Response(c)' = net[c].got
      BY <1>2, <3>1, ConcatEmptySeq DEF Response
    <3>3. Begins(net[c].got, file)
      <4>1. Begins(net[c].got \o net[c].out, file)
        BY DEF Answering, Response
      <4> QED  BY <1>2, <4>1, BeginningBegins
    <3> QED  BY <1>1, <3>1, <3>2, <3>3 DEF Answering
  <2> QED  BY <2>2, <2>3, <2>4 DEF ClientStep
<1> QED  BY <1>4, <1>5

(* What main and the teardown do, apart from its end, sends nothing.       *)
LEMMA MainAnswers ==
  ASSUME Inv, \A d \in Clients : Answering(d), Main \/ Signal \/ TeardownClose \/ TeardownJoin
  PROVE  \A d \in Clients : Answering(d)'
<1>1. net' = net /\ file' = file
  BY DEF Main, Accept, Spawn, Signal, TeardownClose, TeardownJoin, filevars
<1>2. CASE task' = task
  BY <1>1, <1>2 DEF Answering, Response
<1>3. CASE Spawn /\ task' # task
  <2> DEFINE c == tasks[Len(tasks)]
  <2>1. main = "spawn" /\ task' = [task EXCEPT ![c].pc = "recv"]
    BY <1>3 DEF Spawn, Last
  <2>2. c \in Clients /\ task[c].pc = "none"
    BY <2>1, LenProperties, ElementOfSeq DEF Inv, MainTyped, Queue
  <2> HIDE DEF c
  <2>3. Moves(c, {"recv"}, task[c].counter)
    BY <2>1, <2>2, SpawnMoves DEF Inv
  <2>4. task'[c].pc = "recv"
    BY <2>3 DEF Moves
  <2> QED  BY <1>1, <2>2, <2>3, <2>4, SameNet, MovesAnswer
<1>4. CASE TeardownClose /\ task' # task
  <2>1. slot \in 1 .. Len(tasks)
    BY <1>4 DEF TeardownClose
  <2>2. PICK c \in Clients : \E fd \in {"closing", "closed"} : task' = [task EXCEPT ![c].conf_fd = fd]
    <3>1. tasks[slot] \in Clients
      BY <2>1, LenProperties, ElementOfSeq DEF Inv, MainTyped
    <3> QED  BY <1>4, <2>1, <3>1 DEF TeardownClose
  <2>3. Moves(c, {task[c].pc}, task[c].counter) /\ task'[c].buf = task[c].buf
    BY <2>2, FdMoves DEF Inv
  <2>4. task'[c].pc = task[c].pc /\ task'[c].counter = task[c].counter
    BY <2>3 DEF Moves
  <2>5. task'[c].pc = "sending" => task'[c].buf = Block(file, task'[c].counter)
    BY <2>3, <2>4 DEF Answering
  <2> QED  BY <1>1, <2>3, <2>4, <2>5, SameNet, MovesAnswer
<1> QED  BY <1>2, <1>3, <1>4 DEF Main, Accept, Signal, TeardownJoin

LEMMA AnswersNext == ASSUME FileInv, Answers, [Next]_vars PROVE Answers'
<1> SUFFICES ASSUME ~ destroyed' PROVE \A d \in Clients : Answering(d)'
  BY DEF Answers
<1>0. Inv
  BY FileReply
<1>1. ~ destroyed
  BY <1>0, DestroyStep DEF Inv, FileTyped, TeardownEnd
<1>2. \A d \in Clients : Answering(d)
  BY <1>1 DEF Answers
<1>3. CASE UNCHANGED vars
  <2>1. net' = net /\ file' = file /\ task' = task
    BY <1>3 DEF vars, filevars
  <2> QED  BY <1>2, <2>1 DEF Answering, Response
<1>4. ~ TeardownEnd
  BY DEF TeardownEnd
<1> QED  BY <1>0, <1>1, <1>2, <1>3, <1>4, ConnectionAnswers, WriteAnswers, ReadAnswers, TimestampsAnswers,
            ClientAnswers, MainAnswers DEF Next, Task, Others, Teardown

LEMMA AnswersInit == Init => Answers
<1> SUFFICES ASSUME Init, NEW c \in Clients PROVE Answering(c)
  BY DEF Answers
<1>1. Response(c) = <<>> /\ task[c].counter = 0 /\ task[c].pc = "none" /\ file = <<>>
  BY EmptyBuf, ConcatEmptySeq DEF Init, Start, NewClient, NoTask, Response
<1>2. Begins(<<>>, <<>>)
  BY EmptyBuf DEF Begins
<1> QED  BY <1>1, <1>2, EmptyBuf DEF Answering

(* What a client has been sent is the beginning of the data file: no block *)
(* is skipped, sent twice or out of date, although the mutex is released   *)
(* and other threads write between the blocks.                             *)
THEOREM Responses == Spec => []ResponsePrefix
<1>1. FileInv /\ Answers => ResponsePrefix
  <2> SUFFICES ASSUME FileInv, Answers, ~ destroyed, NEW c \in Clients PROVE IsPrefix(Response(c), file)
    BY DEF ResponsePrefix
  <2>1. Response(c) \in Seq(Written) /\ file \in Seq(Written)
    BY FileReply, ResponseType DEF Inv, FileTyped
  <2> QED  BY <2>1, BeginsIsPrefix DEF Answers, Answering
<1>2. FileInv /\ Answers /\ [Next]_vars => Answers'
  BY AnswersNext
<1> QED  BY <1>1, <1>2, AnswersInit, FileReply, Invariance, PTL DEF Spec

-----------------------------------------------------------------------------
(* Selecting elements of a sequence.                                       *)

Picked(w, S) == [i \in 1 .. Len(w) |-> IF w[i] \in S THEN <<w[i]>> ELSE <<>>]

LEMMA PickedType ==
  ASSUME NEW T, NEW S, NEW w \in Seq(T)
  PROVE  /\ Picked(w, S) \in Seq(Seq(T)) /\ Len(Picked(w, S)) = Len(w)
         /\ \A i \in 1 .. Len(w) : Picked(w, S)[i] = IF w[i] \in S THEN <<w[i]>> ELSE <<>>
<1>1. Len(w) \in Nat /\ \A i \in 1 .. Len(w) : w[i] \in T
  BY LenProperties, ElementOfSeq
<1>2. \A i \in 1 .. Len(w) : (IF w[i] \in S THEN <<w[i]>> ELSE <<>>) \in Seq(T)
  BY <1>1
<1> QED  BY <1>1, <1>2, IsASeq DEF Picked

LEMMA SelectConcat ==
  ASSUME NEW T, NEW S, NEW v \in Seq(T), NEW w \in Seq(T)
  PROVE  /\ Select(v \o w, S) = Select(v, S) \o Select(w, S)
         /\ Select(v, S) \in Seq(T)
<1> DEFINE p == Picked(v, S)
           q == Picked(w, S)
           r == Picked(v \o w, S)
<1>1. /\ v \o w \in Seq(T) /\ Len(v \o w) = Len(v) + Len(w) /\ Len(v) \in Nat /\ Len(w) \in Nat
      /\ \A i \in 1 .. Len(v) + Len(w) : (v \o w)[i] = IF i <= Len(v) THEN v[i] ELSE w[i - Len(v)]
  BY ConcatProperties, LenProperties
<1>2. /\ p \in Seq(Seq(T)) /\ q \in Seq(Seq(T)) /\ r \in Seq(Seq(T))
      /\ Len(p) = Len(v) /\ Len(q) = Len(w) /\ Len(r) = Len(v) + Len(w)
  <2>1. \A u \in Seq(T) : Picked(u, S) \in Seq(Seq(T)) /\ Len(Picked(u, S)) = Len(u)
    BY PickedType
  <2> HIDE DEF Picked
  <2> QED  BY <1>1, <2>1
<1>3. /\ \A i \in 1 .. Len(v) : p[i] = IF v[i] \in S THEN <<v[i]>> ELSE <<>>
      /\ \A i \in 1 .. Len(w) : q[i] = IF w[i] \in S THEN <<w[i]>> ELSE <<>>
      /\ \A i \in 1 .. Len(v \o w) : r[i] = IF (v \o w)[i] \in S THEN <<(v \o w)[i]>> ELSE <<>>
  <2>1. \A u \in Seq(T) : \A i \in 1 .. Len(u) :
          Picked(u, S)[i] = IF u[i] \in S THEN <<u[i]>> ELSE <<>>
    BY PickedType
  <2> QED  BY <1>1, <2>1
<1> HIDE DEF p, q, r
<1>4. /\ p \o q \in Seq(Seq(T)) /\ Len(p \o q) = Len(p) + Len(q)
      /\ \A i \in 1 .. Len(p) + Len(q) : (p \o q)[i] = IF i <= Len(p) THEN p[i] ELSE q[i - Len(p)]
  <2>1. p \in Seq(Seq(T)) /\ q \in Seq(Seq(T))
    BY <1>2
  <2> QED  BY <2>1, ConcatProperties
<1>5. ASSUME NEW i \in 1 .. Len(v) + Len(w) PROVE r[i] = (p \o q)[i]
  <2>1. CASE i <= Len(v)
    <3>1. i \in 1 .. Len(v) /\ (v \o w)[i] = v[i] /\ (p \o q)[i] = p[i]
      BY <1>1, <1>2, <1>4, <2>1
    <3> QED  BY <1>1, <1>3, <3>1
  <2>2. CASE ~ (i <= Len(v))
    <3>1. i - Len(v) \in 1 .. Len(w)
      BY <1>1, <2>2
    <3>2. (v \o w)[i] = w[i - Len(v)] /\ (p \o q)[i] = q[i - Len(v)]
      BY <1>1, <1>2, <1>4, <2>2
    <3> QED  BY <1>1, <1>3, <3>1, <3>2
  <2> QED  BY <2>1, <2>2
<1>6. r = p \o q
  <2>1. Len(r) = Len(p \o q)
    BY <1>2, <1>4
  <2>2. \A i \in 1 .. Len(r) : r[i] = (p \o q)[i]
    BY <1>2, <1>5
  <2> QED  BY <1>2, <1>4, <2>1, <2>2, SeqEqual
<1>7. FlattenSeq(p \o q) = FlattenSeq(p) \o FlattenSeq(q) /\ FlattenSeq(p) \in Seq(T)
  BY <1>2, FlattenConcat, FlattenProperties
<1>8. Select(v \o w, S) = FlattenSeq(r) /\ Select(v, S) = FlattenSeq(p) /\ Select(w, S) = FlattenSeq(q)
  BY DEF Select, Picked, p, q, r
<1> QED  BY <1>6, <1>7, <1>8

LEMMA SelectAll ==
  ASSUME NEW T, NEW S, NEW w \in Seq(T), \A i \in 1 .. Len(w) : w[i] \in S
  PROVE  Select(w, S) = w
<1>1. Picked(w, S) \in Seq(Seq(T)) /\ Len(Picked(w, S)) = Len(w)
  BY PickedType
<1>2. \A i \in 1 .. Len(w) : Picked(w, S)[i] = <<w[i]>>
  BY DEF Picked
<1>3. FlattenSeq(Picked(w, S)) = w
  BY <1>1, <1>2, FlattenSingles
<1> QED  BY <1>3 DEF Select, Picked

LEMMA SelectNone ==
  ASSUME NEW T, NEW S, NEW w \in Seq(T), \A i \in 1 .. Len(w) : w[i] \notin S
  PROVE  Select(w, S) = <<>>
<1>1. Picked(w, S) \in Seq(Seq(T)) /\ Len(Picked(w, S)) = Len(w)
  BY PickedType
<1>2. \A i \in 1 .. Len(Picked(w, S)) : Picked(w, S)[i] = <<>>
  BY <1>1 DEF Picked
<1> HIDE DEF Picked
<1>3. FlattenSeq(Picked(w, S)) = <<>>
  BY <1>1, <1>2, FlattenEmpty
<1> QED  BY <1>3 DEF Select, Picked

-----------------------------------------------------------------------------
(* What one client has written.                                            *)

Wrote(c, w) == BytesOf(WrittenBy(c, w))

LEMMA BytesOfConcat ==
  ASSUME NEW v \in Seq(Written), NEW w \in Seq(Written)
  PROVE  BytesOf(v \o w) = BytesOf(v) \o BytesOf(w) /\ BytesOf(v) \in Seq(Bytes)
<1>1. \A u \in Seq(Written) : /\ BytesOf(u) \in Seq(Bytes) /\ Len(BytesOf(u)) = Len(u)
                             /\ \A i \in 1 .. Len(u) : BytesOf(u)[i] = u[i].byte
  <2> SUFFICES ASSUME NEW u \in Seq(Written)
               PROVE  /\ BytesOf(u) \in Seq(Bytes) /\ Len(BytesOf(u)) = Len(u)
                      /\ \A i \in 1 .. Len(u) : BytesOf(u)[i] = u[i].byte
    OBVIOUS
  <2>1. Len(u) \in Nat /\ \A i \in 1 .. Len(u) : u[i] \in Written
    BY LenProperties, ElementOfSeq
  <2>2. \A i \in 1 .. Len(u) : u[i].byte \in Bytes
    BY <2>1 DEF Written
  <2> QED  BY <2>1, <2>2, IsASeq DEF BytesOf
<1>2. /\ v \o w \in Seq(Written) /\ Len(v \o w) = Len(v) + Len(w) /\ Len(v) \in Nat /\ Len(w) \in Nat
      /\ \A i \in 1 .. Len(v) + Len(w) : (v \o w)[i] = IF i <= Len(v) THEN v[i] ELSE w[i - Len(v)]
  BY ConcatProperties, LenProperties
<1> DEFINE p == BytesOf(v)
           q == BytesOf(w)
           r == BytesOf(v \o w)
<1>3. /\ p \in Seq(Bytes) /\ q \in Seq(Bytes) /\ r \in Seq(Bytes)
      /\ Len(p) = Len(v) /\ Len(q) = Len(w) /\ Len(r) = Len(v) + Len(w)
  BY <1>1, <1>2
<1>4. /\ \A i \in 1 .. Len(v) : p[i] = v[i].byte
      /\ \A i \in 1 .. Len(w) : q[i] = w[i].byte
      /\ \A i \in 1 .. Len(v \o w) : r[i] = (v \o w)[i].byte
  BY <1>1, <1>2
<1> HIDE DEF p, q, r
<1>5. /\ p \o q \in Seq(Bytes) /\ Len(p \o q) = Len(p) + Len(q)
      /\ \A i \in 1 .. Len(p) + Len(q) : (p \o q)[i] = IF i <= Len(p) THEN p[i] ELSE q[i - Len(p)]
  <2>1. p \in Seq(Bytes) /\ q \in Seq(Bytes)
    BY <1>3
  <2> QED  BY <2>1, ConcatProperties
<1>6. ASSUME NEW i \in 1 .. Len(v) + Len(w) PROVE r[i] = (p \o q)[i]
  <2>1. CASE i <= Len(v)
    <3>1. i \in 1 .. Len(v) /\ (v \o w)[i] = v[i] /\ (p \o q)[i] = p[i]
      BY <1>2, <1>3, <1>5, <2>1
    <3> QED  BY <1>2, <1>4, <3>1
  <2>2. CASE ~ (i <= Len(v))
    <3>1. i - Len(v) \in 1 .. Len(w)
      BY <1>2, <2>2
    <3>2. (v \o w)[i] = w[i - Len(v)] /\ (p \o q)[i] = q[i - Len(v)]
      BY <1>2, <1>3, <1>5, <2>2
    <3> QED  BY <1>2, <1>4, <3>1, <3>2
  <2> QED  BY <2>1, <2>2
<1>7. r = p \o q
  <2>1. Len(r) = Len(p \o q)
    BY <1>3, <1>5
  <2>2. \A i \in 1 .. Len(r) : r[i] = (p \o q)[i]
    BY <1>3, <1>6
  <2> QED  BY <1>3, <1>5, <2>1, <2>2, SeqEqual
<1> QED  BY <1>3, <1>7 DEF p, q, r

LEMMA WroteMore ==
  ASSUME NEW c \in Clients, NEW who \in Who, NEW w \in Seq(Written), NEW bytes \in Seq(Bytes)
  PROVE  /\ Wrote(c, w) \in Seq(Bytes)
         /\ Wrote(c, w \o By(who, bytes)) = IF who = c THEN Wrote(c, w) \o bytes ELSE Wrote(c, w)
<1> DEFINE S == [by : {c}, byte : Bytes]
           b == By(who, bytes)
<1>1. b \in Seq(Written) /\ Len(b) = Len(bytes)
  BY ByType
<1>2. Select(w \o b, S) = Select(w, S) \o Select(b, S) /\ Select(w, S) \in Seq(Written)
      /\ Select(b, S) \in Seq(Written)
  <2>1. \A u, v \in Seq(Written) : Select(u \o v, S) = Select(u, S) \o Select(v, S) /\ Select(u, S) \in Seq(Written)
    BY SelectConcat
  <2> HIDE DEF b, S
  <2> QED  BY <1>1, <2>1
<1>3. Len(bytes) \in Nat /\ \A i \in 1 .. Len(bytes) : bytes[i] \in Bytes
  BY LenProperties, ElementOfSeq
<1>4. Wrote(c, w) \in Seq(Bytes)
  <2>1. \A u \in Seq(Written) : BytesOf(u) \in Seq(Bytes)
    BY BytesOfConcat
  <2> QED  BY <1>2, <2>1 DEF Wrote, WrittenBy
<1>5. \A i \in 1 .. Len(bytes) : b[i] = [by |-> who, byte |-> bytes[i]]
  BY DEF By
<1> HIDE DEF b
<1>8. ASSUME NEW i \in 1 .. Len(bytes)
      PROVE  b[i] \in [by : {who}, byte : Bytes] /\ b[i].by = who /\ b[i].byte = bytes[i]
  <2>1. b[i] = [by |-> who, byte |-> bytes[i]] /\ bytes[i] \in Bytes
    BY <1>3, <1>5
  <2> QED  BY <2>1
<1>6. CASE who = c
  <2>1. \A i \in 1 .. Len(b) : b[i] \in S
    BY <1>1, <1>6, <1>8
  <2> HIDE DEF S
  <2>2. Select(b, S) = b
    BY <1>1, <2>1, SelectAll
  <2>3. BytesOf(Select(w, S) \o b) = BytesOf(Select(w, S)) \o BytesOf(b)
    BY <1>1, <1>2, BytesOfConcat
  <2>4. BytesOf(b) = bytes
    <3>1. BytesOf(b) \in Seq(Bytes)
      BY <1>1, BytesOfConcat
    <3>2. Len(BytesOf(b)) = Len(bytes) /\ \A i \in 1 .. Len(bytes) : BytesOf(b)[i] = bytes[i]
      <4>1. BytesOf(b) = [i \in 1 .. Len(bytes) |-> b[i].byte]
        BY <1>1 DEF BytesOf
      <4>2. \A i \in 1 .. Len(bytes) : b[i].byte = bytes[i]
        BY <1>8
      <4>3. Len(BytesOf(b)) = Len(bytes)
        BY <1>3, <3>1, <4>1, LenProperties
      <4> QED  BY <4>1, <4>2, <4>3
    <3> QED  BY <3>1, <3>2, SeqEqual
  <2> QED  BY <1>2, <1>4, <1>6, <2>2, <2>3, <2>4 DEF Wrote, WrittenBy, S, b
<1>7. CASE who # c
  <2>1. \A i \in 1 .. Len(b) : b[i] \notin S
    BY <1>1, <1>7, <1>8
  <2> HIDE DEF S
  <2>2. Select(b, S) = <<>>
    BY <1>1, <2>1, SelectNone
  <2>3. Select(w, S) \o <<>> = Select(w, S)
    BY <1>2, ConcatEmptySeq
  <2> QED  BY <1>2, <1>4, <1>7, <2>2, <2>3 DEF Wrote, WrittenBy, S, b
<1> QED  BY <1>4, <1>6, <1>7

-----------------------------------------------------------------------------
(* A step of the system as one connection sees it.                         *)

(* What has ended stays so, and the server closes no connection by itself. *)
KeepsEnd(c) ==
  /\ PeerGone(c) => PeerGone(c)'
  /\ net[c].state = "closed" => net'[c].state = "closed"
  /\ task[c].conf_fd = "closed" => task'[c].conf_fd = "closed"
  /\ interrupted # "nothing" => interrupted' # "nothing"
  /\ task[c].conf_fd = "open" /\ interrupted' = "nothing" /\ task'[c].pc # "done" =>
       task'[c].conf_fd = "open"

Takes(c, b) ==
  /\ task[c].pc = "recv" /\ task'[c].pc \in {"recv", "write"}
  /\ task'[c].buf = Append(task[c].buf, b)
  /\ task'[c].pc = "write" => task'[c].ended \/ Len(task'[c].buf) = BlockSize
  /\ task'[c].pc = "recv" => b # NL
  /\ file' = file

TakesByte(c) ==
  /\ task[c].conf_fd # "closed" /\ net[c].rcvd < net[c].sent
  /\ Takes(c, Packet[c][net[c].rcvd + 1])
  /\ net'[c].rcvd = net[c].rcvd + 1

TakesNothing(c) ==
  /\ task[c].conf_fd = "closed" \/ PeerGone(c)
  /\ Takes(c, Zero)
  /\ net'[c].rcvd = net[c].rcvd

Puts(c) ==
  /\ task[c].pc = "write" /\ task'[c].pc \in {"send", "recv"}
  /\ task'[c].pc = "recv" => ~ task[c].ended
  /\ task'[c].buf = <<>>
  /\ file' = file \o By(c, IF IsSeek(task[c].buf) THEN <<>> ELSE task[c].buf)
  /\ net'[c].rcvd = net[c].rcvd

Starts(c) ==
  /\ task[c].pc = "none" /\ task'[c].pc = "recv" /\ task'[c].buf = task[c].buf
  /\ net'[c].rcvd = net[c].rcvd /\ file' = file

Responds(c) ==
  /\ task[c].pc \in {"send", "sending", "close"}
  /\ task'[c].pc \in {"send", "sending", "close", "done"}
  /\ net'[c].rcvd = net[c].rcvd /\ file' = file
  /\ IF task[c].pc = "close" THEN Response(c)' = Response(c)
     ELSE task'[c].pc \in {"close", "done"} =>
            /\ task[c].pc = "sending"
            /\ \/ net'[c].state = "closed" \/ task[c].conf_fd = "closed"
               \/ ShortBlock(c) /\ Response(c)' = Response(c) \o task[c].buf

Waits(c) ==
  /\ task'[c].pc = task[c].pc /\ task'[c].buf = task[c].buf /\ task'[c].ended = task[c].ended
  /\ net'[c].rcvd = net[c].rcvd
  /\ Response(c)' = Response(c) \/ net'[c].state = "closed"
  /\ \/ file' = file
     \/ TeardownEnd /\ file' = <<>>
     \/ \E who \in Who \ {c}, bytes \in Seq(Bytes) : file' = file \o By(who, bytes)

StepOf(c) ==
  /\ KeepsEnd(c)
  /\ TakesByte(c) \/ TakesNothing(c) \/ Puts(c) \/ Starts(c) \/ Responds(c) \/ Waits(c)

LEMMA ReceiveFields ==
  ASSUME Typed, NEW c \in Clients, task[c].pc = "recv", NEW b \in Bytes, NEW failed \in BOOLEAN,
         Receive(c, b, failed)
  PROVE  Takes(c, b) /\ task'[c].conf_fd = AfterCall(task[c].conf_fd) /\ interrupted' = interrupted
<1>1. PICK seen \in NewlineSeen(b, Len(task[c].buf) + 1) :
        task' = [task EXCEPT ![c].buf = Append(@, b),
                             ![c].ended = @ \/ failed \/ seen,
                             ![c].pc = IF seen \/ BlockFull(Len(task[c].buf) + 1)
                                       THEN "write" ELSE "recv",
                             ![c].conf_fd = AfterCall(@)]
  BY DEF Receive
<1>2. task \in [Clients -> TaskType] /\ task[c] \in TaskType /\ task[c].ended \in BOOLEAN
  BY DEF Typed, TaskType
<1> DEFINE full == BlockFull(Len(task[c].buf) + 1)
<1>3. /\ task'[c].buf = Append(task[c].buf, b)
      /\ task'[c].ended = (task[c].ended \/ failed \/ seen)
      /\ task'[c].pc = IF seen \/ full THEN "write" ELSE "recv"
      /\ task'[c].conf_fd = AfterCall(task[c].conf_fd)
  <2> DEFINE buf == Append(task[c].buf, b)
             e == task[c].ended \/ failed \/ seen
             to == IF seen \/ full THEN "write" ELSE "recv"
             fd == AfterCall(task[c].conf_fd)
             r == [[[[task[c] EXCEPT !.buf = buf] EXCEPT !.ended = e] EXCEPT !.pc = to] EXCEPT !.conf_fd = fd]
  <2>1. task' = [task EXCEPT ![c] = r]
    BY <1>1, <1>2
  <2> HIDE DEF buf, e, to, fd
  <2>2. r.buf = buf /\ r.ended = e /\ r.pc = to /\ r.conf_fd = fd
    BY <1>2 DEF TaskType
  <2> HIDE DEF r
  <2>3. task'[c] = r
    BY <1>2, <2>1
  <2> QED  BY <2>2, <2>3 DEF buf, e, to, fd
<1>4. task[c].buf \in Seq(Bytes)
  BY DEF Typed, WellFormed
<1>5. Len(task'[c].buf) = Len(task[c].buf) + 1
  BY <1>3, <1>4, AppendProperties
<1>6. task'[c].pc = "write" => task'[c].ended \/ Len(task'[c].buf) = BlockSize
  BY <1>3, <1>5 DEF BlockFull
<1>7. task'[c].pc = "recv" => b # NL
  BY <1>3 DEF NewlineSeen, BlockFull
<1>8. file' = file /\ interrupted' = interrupted
  BY DEF Receive, filevars, mainvars
<1> QED  BY <1>3, <1>6, <1>7, <1>8 DEF Takes

LEMMA RecvStepOf ==
  ASSUME Inv, NEW c \in Clients, RecvByte(c) \/ RecvNothing(c) \/ RecvFail(c)
  PROVE  StepOf(c)
<1>1. /\ net[c] \in NetType /\ NetFormed(c, net[c]) /\ task[c].pc = "recv"
      /\ task[c].conf_fd \in {"open", "closing", "closed"}
  BY DEF Inv, Typed, TaskType, RecvByte, RecvNothing, RecvFail
<1>2. CASE RecvByte(c)
  <2>1. net[c].rcvd + 1 \in 1 .. Len(Packet[c]) /\ net[c].rcvd < net[c].sent
    BY <1>1, <1>2, PacketLength DEF NetFormed, RecvByte
  <2>2. Packet[c][net[c].rcvd + 1] \in Bytes
    BY <2>1, PacketBytes
  <2>3. Takes(c, Packet[c][net[c].rcvd + 1]) /\ task'[c].conf_fd = AfterCall(task[c].conf_fd)
        /\ interrupted' = interrupted
    BY <1>1, <1>2, <2>2, ReceiveFields DEF RecvByte, Inv
  <2>4. NetMoves(c, [net[c] EXCEPT !.rcvd = net[c].rcvd + 1])
    BY <1>2, RecvMoves DEF Inv
  <2>5. net'[c].rcvd = net[c].rcvd + 1 /\ net'[c].state = net[c].state
    BY <1>1, <2>4 DEF NetMoves, NetType
  <2>6. ~ PeerGone(c)
    BY <1>1, <2>1 DEF PeerGone, NetFormed
  <2>7. KeepsEnd(c)
    BY <2>3, <2>5, <2>6 DEF KeepsEnd, AfterCall
  <2> QED  BY <1>2, <2>1, <2>3, <2>5, <2>7 DEF StepOf, TakesByte, RecvByte
<1>3. CASE RecvNothing(c) \/ RecvFail(c)
  <2>1. PICK failed \in BOOLEAN : Receive(c, Zero, failed)
    BY <1>3 DEF RecvNothing, RecvFail
  <2>2. Takes(c, Zero) /\ task'[c].conf_fd = AfterCall(task[c].conf_fd) /\ interrupted' = interrupted
    BY <1>1, <2>1, ReceiveFields, SpecialBytes DEF Inv
  <2>3. net' = net /\ (task[c].conf_fd = "closed" \/ PeerGone(c))
    BY <1>3 DEF RecvNothing, RecvFail
  <2>4. KeepsEnd(c)
    BY <2>2, <2>3 DEF KeepsEnd, AfterCall, PeerGone
  <2> QED  BY <2>2, <2>3, <2>4 DEF StepOf, TakesNothing
<1> QED  BY <1>2, <1>3

LEMMA BlockStepOf ==
  ASSUME Inv, NEW c \in Clients, NEW ended \in BOOLEAN, task[c].ended => ended,
         BlockDone(c, IF IsSeek(task[c].buf) THEN <<>> ELSE task[c].buf, ended)
  PROVE  StepOf(c)
<1>1. task \in [Clients -> TaskType] /\ task[c] \in TaskType
  BY DEF Inv, Typed
<1> DEFINE b == IF IsSeek(task[c].buf) THEN <<>> ELSE task[c].buf
           to == IF ended THEN "send" ELSE "recv"
           r  == [[[task[c] EXCEPT !.buf = <<>>] EXCEPT !.ended = FALSE] EXCEPT !.pc = to]
<1>2. /\ task[c].pc = "write" /\ net' = net /\ interrupted' = interrupted
      /\ file' = file \o By(c, b)
      /\ task' = [task EXCEPT ![c] = r]
  BY <1>1 DEF BlockDone, mainvars
<1>3. to \in {"send", "recv"} /\ (to = "recv" => ~ task[c].ended)
  OBVIOUS
<1> HIDE DEF to
<1>4. r.buf = <<>> /\ r.pc = to /\ r.conf_fd = task[c].conf_fd
  BY <1>1 DEF TaskType
<1> HIDE DEF r
<1>5. task'[c].buf = <<>> /\ task'[c].pc = to /\ task'[c].conf_fd = task[c].conf_fd
  BY <1>1, <1>2, <1>4
<1>6. KeepsEnd(c)
  BY <1>2, <1>5 DEF KeepsEnd, PeerGone
<1>7. Puts(c)
  BY <1>2, <1>3, <1>5 DEF Puts
<1> QED  BY <1>6, <1>7 DEF StepOf

LEMMA WriteStepOf ==
  ASSUME Inv, NEW c \in Clients, WriteBlock(c)
  PROVE  StepOf(c)
<1>1. task[c] \in TaskType /\ task[c].ended \in BOOLEAN
  BY DEF Inv, Typed, TaskType
<1>2. CASE IsSeek(task[c].buf)
  BY <1>2, BlockStepOf DEF WriteBlock
<1>3. CASE ~ IsSeek(task[c].buf)
  BY <1>1, <1>3, BlockStepOf DEF WriteBlock
<1> QED  BY <1>2, <1>3

LEMMA ReadStepOf ==
  ASSUME Inv, NEW c \in Clients, NEW block, LockAndRead(c, block)
  PROVE  StepOf(c)
<1>1. task \in [Clients -> TaskType] /\ task[c] \in TaskType
  BY DEF Inv, Typed
<1>2. task[c].pc = "send" /\ net' = net /\ file' = file /\ interrupted' = interrupted
  BY DEF LockAndRead, filevars, mainvars
<1>3. task'[c].pc \in {"send", "sending"} /\ task'[c].conf_fd = task[c].conf_fd
  <2>1. CASE task' = task
    BY <1>2, <2>1
  <2>2. CASE file_exists
    <3> DEFINE r == [[task[c] EXCEPT !.pc = "sending"] EXCEPT !.buf = block]
    <3>1. task' = [task EXCEPT ![c] = r]
      BY <1>1, <2>2 DEF LockAndRead
    <3>2. r.pc = "sending" /\ r.conf_fd = task[c].conf_fd
      BY <1>1 DEF TaskType
    <3> HIDE DEF r
    <3> QED  BY <1>1, <3>1, <3>2
  <2> QED  BY <2>1, <2>2 DEF LockAndRead
<1>4. KeepsEnd(c)
  BY <1>2, <1>3 DEF KeepsEnd, PeerGone
<1>5. Responds(c)
  BY <1>2, <1>3 DEF Responds
<1> QED  BY <1>4, <1>5 DEF StepOf

LEMMA EndBlockFields ==
  ASSUME Typed, NEW c \in Clients, NEW counter, NEW last \in BOOLEAN, NEW holder,
         EndBlock(c, counter, last, holder)
  PROVE  /\ task'[c].pc = (IF last THEN "close" ELSE "send")
         /\ task'[c].conf_fd = AfterCall(task[c].conf_fd)
         /\ file' = file /\ interrupted' = interrupted
<1>1. task \in [Clients -> TaskType] /\ task[c] \in TaskType
  BY DEF Typed
<1> DEFINE to == IF last THEN "close" ELSE "send"
           fd == AfterCall(task[c].conf_fd)
           r  == [[[[task[c] EXCEPT !.buf = <<>>] EXCEPT !.counter = counter] EXCEPT !.conf_fd = fd]
                    EXCEPT !.pc = to]
<1>2. task' = [task EXCEPT ![c] = r]
  BY <1>1 DEF EndBlock
<1> HIDE DEF to, fd
<1>3. r.pc = to /\ r.conf_fd = fd
  BY <1>1 DEF TaskType
<1> HIDE DEF r
<1>4. task'[c].pc = to /\ task'[c].conf_fd = fd
  BY <1>1, <1>2, <1>3
<1>5. file' = file /\ interrupted' = interrupted
  BY DEF EndBlock, filevars, mainvars
<1> QED  BY <1>4, <1>5 DEF to, fd

LEMMA SendStepOf ==
  ASSUME Inv, NEW c \in Clients, SendBlock(c) \/ SendLost(c)
  PROVE  StepOf(c)
<1>1. /\ task[c].pc = "sending" /\ task[c].conf_fd \in {"open", "closing", "closed"}
      /\ net[c] \in NetType
  BY DEF Inv, Typed, TaskType, SendBlock, SendLost
<1>2. PICK failed \in BOOLEAN :
        /\ Sent(c, failed)
        /\ \/ failed = FALSE /\ SendBlock(c)
           \/ SendLost(c) /\ net' = net /\ (net[c].state = "closed" \/ task[c].conf_fd = "closed")
  BY DEF SendBlock, SendLost
<1>3. (failed \/ ShortBlock(c)) \in BOOLEAN
  BY DEF ShortBlock
<1>4. /\ task'[c].pc = (IF failed \/ ShortBlock(c) THEN "close" ELSE "send")
      /\ task'[c].conf_fd = AfterCall(task[c].conf_fd)
      /\ file' = file /\ interrupted' = interrupted
  BY <1>2, <1>3, EndBlockFields DEF Sent, Inv
<1>5. CASE failed = FALSE /\ SendBlock(c)
  <2>1. /\ net[c].state = "open" /\ task[c].buf \in Seq(Reply)
        /\ NetMoves(c, [net[c] EXCEPT !.out = net[c].out \o task[c].buf])
    BY <1>5, SendBlockNet DEF Inv
  <2>2. /\ net'[c].got = net[c].got /\ net'[c].out = net[c].out \o task[c].buf
        /\ net'[c].state = net[c].state /\ net'[c].rcvd = net[c].rcvd /\ net'[c].sent = net[c].sent
    BY <1>1, <2>1 DEF NetMoves, NetType
  <2>3. Response(c)' = Response(c) \o task[c].buf
    <3>1. net[c].got \in Seq(Reply) /\ net[c].out \in Seq(Reply)
      BY ResponseType DEF Inv
    <3>2. net[c].got \o (net[c].out \o task[c].buf) = (net[c].got \o net[c].out) \o task[c].buf
      <4>1. \A g, o, b \in Seq(Reply) : g \o (o \o b) = (g \o o) \o b
        BY ConcatAssociative
      <4> QED  BY <2>1, <3>1, <4>1
    <3>3. Response(c)' = net'[c].got \o net'[c].out /\ Response(c) = net[c].got \o net[c].out
      BY DEF Response
    <3> QED  BY <2>2, <3>2, <3>3
  <2>4. KeepsEnd(c)
    BY <1>4, <2>2 DEF KeepsEnd, AfterCall, PeerGone
  <2>5. Responds(c)
    BY <1>1, <1>4, <1>5, <2>2, <2>3 DEF Responds
  <2> QED  BY <2>4, <2>5 DEF StepOf
<1>6. CASE net' = net /\ (net[c].state = "closed" \/ task[c].conf_fd = "closed")
  <2>1. KeepsEnd(c)
    BY <1>4, <1>6 DEF KeepsEnd, AfterCall, PeerGone
  <2>2. Responds(c)
    BY <1>1, <1>4, <1>6 DEF Responds
  <2> QED  BY <2>1, <2>2 DEF StepOf
<1> QED  BY <1>2, <1>5, <1>6

-----------------------------------------------------------------------------
LEMMA ConnectionStepOf ==
  ASSUME Inv, NEW c \in Clients, Connection(c)
  PROVE  StepOf(c)
<1>1. CASE SendKills(c)
  <2>1. net' = net /\ file' = file /\ task' = task /\ interrupted' = interrupted /\ task[c].pc = "sending"
    BY <1>1 DEF SendKills, filevars, mainvars
  <2> QED  BY <2>1 DEF StepOf, KeepsEnd, PeerGone, Responds
<1>2. CASE CloseConnection(c)
  <2>1. task \in [Clients -> TaskType] /\ task[c] \in TaskType
    BY DEF Inv, Typed
  <2>2. net' = net /\ file' = file /\ task[c].pc = "close" /\ interrupted' = interrupted
    BY <1>2 DEF CloseConnection, filevars, mainvars
  <2> DEFINE r == [[task[c] EXCEPT !.pc = "done"] EXCEPT !.conf_fd = "closed"]
  <2>3. task' = [task EXCEPT ![c] = r]
    BY <1>2, <2>1 DEF CloseConnection
  <2>4. r.pc = "done" /\ r.conf_fd = "closed"
    BY <2>1 DEF TaskType
  <2> HIDE DEF r
  <2>5. task'[c].pc = "done" /\ task'[c].conf_fd = "closed"
    BY <2>1, <2>3, <2>4
  <2>6. Response(c)' = Response(c)
    BY <2>2, SameNet
  <2> QED  BY <2>2, <2>5, <2>6 DEF StepOf, KeepsEnd, PeerGone, Responds
<1> QED  BY <1>1, <1>2, RecvStepOf, SendStepOf DEF Connection

(* Somebody else moves.                                                    *)
LEMMA OthersStepOf ==
  ASSUME NEW c \in Clients, task'[c] = task[c], net'[c] = net[c],
         interrupted # "nothing" => interrupted' # "nothing",
         \/ file' = file
         \/ TeardownEnd /\ file' = <<>>
         \/ \E who \in Who \ {c}, bytes \in Seq(Bytes) : file' = file \o By(who, bytes)
  PROVE  StepOf(c)
<1>1. KeepsEnd(c)
  BY DEF KeepsEnd, PeerGone
<1>2. Waits(c)
  BY DEF Waits, Response
<1> QED  BY <1>1, <1>2 DEF StepOf

(* What a connection's thread does, on a file or on a device.              *)
UsesFile(d) ==
  \/ Connection(d)
  \/ \E bytes \in Seq(Bytes), ended \in BOOLEAN : BlockDone(d, bytes, ended)
  \/ \E block \in Seq(Reply) : LockAndRead(d, block)

LEMMA UsesFileStepOf ==
  ASSUME Inv, NEW c \in Clients, NEW d \in Clients, d # c, UsesFile(d)
  PROVE  StepOf(c)
<1>1. task \in [Clients -> TaskType] /\ net \in [Clients -> NetType]
  BY DEF Inv, Typed
<1>2. CASE Connection(d)
  <2>1. interrupted' = interrupted /\ file' = file
    BY <1>2 DEF Connection, RecvByte, RecvNothing, RecvFail, Receive, SendBlock, SendLost, SendKills, Sent,
           EndBlock, CloseConnection, mainvars, filevars
  <2>2. task'[c] = task[c]
    BY <1>1, <1>2 DEF Connection, RecvByte, RecvNothing, RecvFail, Receive, SendBlock, SendLost, SendKills,
           Sent, EndBlock, CloseConnection
  <2>3. net'[c] = net[c]
    BY <1>1, <1>2 DEF Connection, RecvByte, RecvNothing, RecvFail, SendBlock, SendLost, SendKills, CloseConnection
  <2> QED  BY <2>1, <2>2, <2>3, OthersStepOf
<1>3. ASSUME NEW bytes \in Seq(Bytes), NEW ended \in BOOLEAN, BlockDone(d, bytes, ended)
      PROVE  StepOf(c)
  <2>1. interrupted' = interrupted /\ net' = net /\ file' = file \o By(d, bytes) /\ task'[c] = task[c]
    BY <1>1, <1>3 DEF BlockDone, mainvars
  <2>2. d \in Who \ {c}
    BY SpecialBytes
  <2> QED  BY <2>1, <2>2, OthersStepOf
<1>4. ASSUME NEW block, LockAndRead(d, block)
      PROVE  StepOf(c)
  <2>1. interrupted' = interrupted /\ net' = net /\ file' = file /\ task'[c] = task[c]
    BY <1>1, <1>4 DEF LockAndRead, mainvars, filevars
  <2> QED  BY <2>1, OthersStepOf
<1> QED  BY <1>2, <1>3, <1>4 DEF UsesFile

LEMMA TaskStepOf ==
  ASSUME FileInv, NEW c \in Clients, NEW d \in Clients, Task(d)
  PROVE  StepOf(c)
<1>1. Inv /\ Reply = Written
  BY FileReply
<1>2. CASE d = c
  BY <1>1, <1>2, ConnectionStepOf, WriteStepOf, ReadStepOf DEF Task, ReadBlock
<1>3. CASE d # c
  <2>1. WriteBlock(d) => UsesFile(d)
    <3> SUFFICES ASSUME WriteBlock(d) PROVE UsesFile(d)
      OBVIOUS
    <3>1. task[d].buf \in Seq(Bytes) /\ task[d].ended \in BOOLEAN
      BY <1>1 DEF WriteBlock, BlockDone, Inv, Typed, WellFormed, TaskType
    <3> QED  BY <3>1, EmptyBuf DEF WriteBlock, UsesFile
  <2>2. ReadBlock(d) => UsesFile(d)
    <3>1. Block(file, task[d].counter) \in Seq(Reply)
      BY <1>1, BlockType DEF Inv, FileTyped, Typed, TaskType
    <3> QED  BY <3>1 DEF ReadBlock, UsesFile
  <2>3. UsesFile(d)
    BY <2>1, <2>2 DEF Task, UsesFile
  <2> QED  BY <1>1, <1>3, <2>3, UsesFileStepOf
<1> QED  BY <1>2, <1>3

LEMMA TimestampsStepOf ==
  ASSUME Inv, NEW c \in Clients, Timestamps
  PROVE  StepOf(c)
<1>1. net' = net /\ task' = task /\ interrupted' = interrupted
  BY DEF Timestamps, StampTop, StampCheck, StampWrite, StampStep, mainvars
<1>2. CASE StampTop \/ StampCheck
  <2>1. file' = file
    BY <1>2 DEF StampTop, StampCheck, filevars
  <2> QED  BY <1>1, <2>1, OthersStepOf
<1>3. CASE StampWrite
  <2> DEFINE e == [by |-> Stamper, byte |-> NL]
  <2>1. e \in Written
    BY SpecialBytes DEF Written
  <2>2. By(Stamper, <<NL>>) = <<e>>
    BY DEF By
  <2> HIDE DEF e
  <2>3. file' = file \o <<e>>
    BY <1>3, <2>1, AppendIsConcat DEF StampWrite, Inv, FileTyped, e
  <2>4. <<NL>> \in Seq(Bytes) /\ Stamper \in Who \ {c}
    BY SpecialBytes, ConstantsAssumption
  <2>5. file' = file \o By(Stamper, <<NL>>)
    BY <2>2, <2>3
  <2> QED  BY <1>1, <2>4, <2>5, OthersStepOf
<1> QED  BY <1>2, <1>3 DEF Timestamps

LEMMA ClientStepOf ==
  ASSUME Inv, NEW c \in Clients, NEW d \in Clients, ClientStep(d)
  PROVE  StepOf(c)
<1>1. task' = task /\ file' = file /\ interrupted' = interrupted
  BY DEF ClientStep, Connect, ClientSend, ClientRead, ClientClose, Client, filevars, mainvars
<1>2. PICK n : NetMoves(d, n)
  BY ConnectMoves, SendMoves, ReadMoves, LeaveMoves DEF Inv, ClientStep
<1>3. CASE d # c
  <2>1. net'[c] = net[c]
    BY <1>2, <1>3 DEF NetMoves
  <2> QED  BY <1>1, <2>1, OthersStepOf
<1>4. CASE d = c
  <2>1. net[c] \in NetType /\ NetFormed(c, net[c])
    BY DEF Inv, Typed
  <2>2. CASE Connect(c) \/ ClientSend(c)
    <3>1. net[c].state # "closed"
      BY <2>2 DEF Connect, ClientSend
    <3>2. net'[c].got = net[c].got /\ net'[c].out = net[c].out /\ net'[c].rcvd = net[c].rcvd
      BY <2>1, <2>2, ConnectMoves, SendMoves DEF Inv, NetMoves, NetType
    <3> QED  BY <1>1, <3>1, <3>2 DEF StepOf, KeepsEnd, PeerGone, Waits, Response
  <2>3. CASE ClientRead(c)
    <3> DEFINE got == net[c].got \o net[c].out
    <3>1. net[c].state = "open" /\ NetMoves(c, [[net[c] EXCEPT !.got = got] EXCEPT !.out = <<>>])
      BY <2>3, ReadMoves DEF Inv
    <3>2. net[c].got \in Seq(Reply) /\ net[c].out \in Seq(Reply) /\ Response(c) \in Seq(Reply)
      BY ResponseType DEF Inv
    <3> HIDE DEF got
    <3>3. net'[c].got = got /\ net'[c].out = <<>> /\ net'[c].rcvd = net[c].rcvd
      BY <2>1, <3>1 DEF NetMoves, NetType
    <3>4. Response(c)' = Response(c)
      <4>1. Response(c)' = Response(c) \o <<>>
        BY <3>3 DEF Response, got
      <4> QED  BY <3>2, <4>1, ConcatEmptySeq
    <3> QED  BY <1>1, <3>1, <3>3, <3>4 DEF StepOf, KeepsEnd, PeerGone, Waits
  <2>4. CASE ClientClose(c)
    <3>1. /\ net'[c].state = "closed" /\ net'[c].rcvd = net[c].rcvd /\ net'[c].sent = net[c].sent
      BY <2>1, <2>4, LeaveMoves DEF Inv, NetMoves, NetType
    <3> QED  BY <1>1, <3>1 DEF StepOf, KeepsEnd, PeerGone, Waits
  <2> QED  BY <1>4, <2>2, <2>3, <2>4 DEF ClientStep
<1> QED  BY <1>3, <1>4

LEMMA MainStepOf ==
  ASSUME Inv, NEW c \in Clients, Main \/ Signal \/ Teardown
  PROVE  StepOf(c)
<1>1. net' = net /\ task \in [Clients -> TaskType] /\ task[c] \in TaskType
  BY DEF Main, Accept, Spawn, Signal, Teardown, TeardownClose, TeardownJoin, TeardownEnd, Inv, Typed
<1>2. interrupted' = interrupted \/ (interrupted = "nothing" /\ interrupted' # "nothing" /\ task' = task)
  BY DEF Main, Accept, Spawn, Signal, Teardown, TeardownClose, TeardownJoin, TeardownEnd
<1>3. file' = file \/ (TeardownEnd /\ file' = <<>>)
  BY DEF Main, Accept, Spawn, Signal, Teardown, TeardownClose, TeardownJoin, TeardownEnd, filevars
<1>4. CASE task'[c] = task[c]
  BY <1>1, <1>2, <1>3, <1>4, OthersStepOf
<1>5. CASE Spawn /\ task'[c] # task[c]
  <2> DEFINE d == tasks[Len(tasks)]
  <2>1. main = "spawn" /\ task' = [task EXCEPT ![d].pc = "recv"] /\ file' = file /\ interrupted' = interrupted
    BY <1>5 DEF Spawn, Last, filevars
  <2>2. task[d].pc = "none"
    BY <2>1 DEF Inv, Queue
  <2> HIDE DEF d
  <2>3. d = c
    BY <1>1, <1>5, <2>1
  <2> DEFINE r == [task[c] EXCEPT !.pc = "recv"]
  <2>4. task'[c] = r
    BY <1>1, <2>1, <2>3
  <2>5. r.pc = "recv" /\ r.buf = task[c].buf /\ r.conf_fd = task[c].conf_fd
    BY <1>1 DEF TaskType
  <2> HIDE DEF r
  <2>6. KeepsEnd(c)
    BY <1>1, <2>1, <2>4, <2>5 DEF KeepsEnd, PeerGone
  <2>7. Starts(c)
    BY <1>1, <2>1, <2>2, <2>3, <2>4, <2>5 DEF Starts
  <2> QED  BY <2>6, <2>7 DEF StepOf
<1>6. CASE TeardownClose /\ task'[c] # task[c]
  <2>1. interrupted # "nothing" /\ interrupted' = interrupted /\ file' = file
    BY <1>6 DEF TeardownClose, Inv, Down, TearingDown, filevars
  <2> DEFINE d == tasks[slot]
  <2>2. PICK fd \in {"closing", "closed"} :
          /\ task' = [task EXCEPT ![d].conf_fd = fd]
          /\ fd = "closing" => task[d].conf_fd = "open"
    <3>1. slot \in 1 .. Len(tasks)
      BY <1>6 DEF TeardownClose
    <3>2. PICK inCall \in BOOLEAN :
            /\ inCall => task[tasks[slot]].conf_fd = "open"
            /\ task' = [task EXCEPT ![tasks[slot]].conf_fd = IF inCall THEN "closing" ELSE "closed"]
      BY <1>6, <3>1 DEF TeardownClose
    <3>3. CASE inCall
      <4>1. task' = [task EXCEPT ![tasks[slot]].conf_fd = "closing"]
        BY <3>2, <3>3
      <4> QED  BY <3>2, <3>3, <4>1
    <3>4. CASE ~ inCall
      <4>1. task' = [task EXCEPT ![tasks[slot]].conf_fd = "closed"]
        BY <3>2, <3>4
      <4> QED  BY <4>1
    <3> QED  BY <3>2, <3>3, <3>4
  <2> HIDE DEF d
  <2>3. d = c
    BY <1>1, <1>6, <2>2
  <2> DEFINE r == [task[c] EXCEPT !.conf_fd = fd]
  <2>4. task'[c] = r
    BY <1>1, <2>2, <2>3
  <2>5. r.pc = task[c].pc /\ r.buf = task[c].buf /\ r.ended = task[c].ended /\ r.conf_fd = fd
    BY <1>1 DEF TaskType
  <2> HIDE DEF r
  <2>6. KeepsEnd(c)
    BY <1>1, <2>1, <2>2, <2>3, <2>4, <2>5 DEF KeepsEnd, PeerGone
  <2>7. Response(c)' = Response(c)
    BY <1>1, SameNet
  <2>8. Waits(c)
    BY <1>1, <2>1, <2>4, <2>5, <2>7 DEF Waits
  <2> QED  BY <2>6, <2>8 DEF StepOf
<1>7. Main \/ Signal \/ TeardownJoin \/ TeardownEnd => task' = task \/ Spawn
  BY DEF Main, Accept, Signal, TeardownJoin, TeardownEnd
<1> QED  BY <1>4, <1>5, <1>6, <1>7 DEF Main, Teardown

LEMMA NextStepOf == ASSUME FileInv, [Next]_vars, NEW c \in Clients PROVE StepOf(c)
<1>0. Inv
  BY FileReply
<1>1. CASE UNCHANGED vars
  <2>1. task' = task /\ net' = net /\ file' = file /\ interrupted' = interrupted
    BY <1>1 DEF vars, filevars, mainvars
  <2> QED  BY <2>1, OthersStepOf
<1> QED  BY <1>0, <1>1, TaskStepOf, TimestampsStepOf, ClientStepOf, MainStepOf DEF Next, Others

-----------------------------------------------------------------------------
(* What a connection has taken from its client.                            *)

Mine(c) == {i \in 1 .. Len(file) : file[i].by = c}

(* A block holds bytes of the packet and zeros, and is written when it is  *)
(* full or its packet has ended.                                           *)
Sound(c) ==
  /\ task[c].pc \in {"recv", "write"} =>
       \A i \in 1 .. Len(task[c].buf) : task[c].buf[i] \in ToSet(Packet[c]) \cup {Zero}
  /\ task[c].pc = "write" => task[c].ended \/ Len(task[c].buf) = BlockSize
  /\ task[c].pc = "none" => net[c].rcvd = 0 /\ Mine(c) = {}
  /\ interrupted = "nothing" /\ task[c].pc # "done" => task[c].conf_fd = "open"

LEMMA FileGrows ==
  ASSUME NEW w \in Seq(Written), NEW who \in Who, NEW bytes \in Seq(Bytes)
  PROVE  LET v == w \o By(who, bytes)
         IN  /\ Len(v) = Len(w) + Len(bytes) /\ Len(w) \in Nat /\ Len(bytes) \in Nat
             /\ v \in Seq(Written)
             /\ \A i \in 1 .. Len(v) :
                  IF i <= Len(w) THEN v[i] = w[i]
                  ELSE /\ i - Len(w) \in 1 .. Len(bytes)
                       /\ v[i].by = who /\ v[i].byte = bytes[i - Len(w)]
<1> DEFINE b == By(who, bytes)
           v == w \o b
<1>1. b \in Seq(Written) /\ Len(b) = Len(bytes) /\ Len(w) \in Nat /\ Len(bytes) \in Nat
  BY ByType, LenProperties
<1>2. \A i \in 1 .. Len(bytes) : b[i].by = who /\ b[i].byte = bytes[i]
  BY DEF By
<1> HIDE DEF b
<1>3. /\ v \in Seq(Written) /\ Len(v) = Len(w) + Len(b)
      /\ \A i \in 1 .. Len(w) + Len(b) : v[i] = IF i <= Len(w) THEN w[i] ELSE b[i - Len(w)]
  BY <1>1, ConcatProperties
<1> HIDE DEF v
<1>4. ASSUME NEW i \in 1 .. Len(v)
      PROVE  IF i <= Len(w) THEN v[i] = w[i]
             ELSE /\ i - Len(w) \in 1 .. Len(bytes)
                  /\ v[i].by = who /\ v[i].byte = bytes[i - Len(w)]
  <2>1. CASE i <= Len(w)
    BY <1>1, <1>3, <2>1
  <2>2. CASE ~ (i <= Len(w))
    <3>1. i - Len(w) \in 1 .. Len(bytes)
      BY <1>1, <1>3, <2>2
    <3>2. v[i] = b[i - Len(w)]
      BY <1>1, <1>3, <2>2
    <3> QED  BY <1>2, <2>2, <3>1, <3>2
  <2> QED  BY <2>1, <2>2
<1> QED  BY <1>1, <1>3, <1>4 DEF v, b

(* What the bytes of c in the file are after a step of others, or after c  *)
(* has written a block.                                                    *)
LEMMA OthersLeaveMine ==
  ASSUME Inv, NEW c \in Clients, Waits(c)
  PROVE  \/ file' = <<>> /\ TeardownEnd
         \/ /\ Len(file) \in Nat /\ Len(file') \in Nat /\ Len(file) <= Len(file')
            /\ \A i \in 1 .. Len(file') : IF i <= Len(file) THEN file'[i] = file[i] ELSE file'[i].by # c
            /\ Mine(c)' = Mine(c)
<1>1. file \in Seq(Written) /\ Len(file) \in Nat
  BY LenProperties DEF Inv, FileTyped
<1>2. CASE file' = file
  BY <1>1, <1>2 DEF Mine
<1>3. ASSUME NEW who \in Who \ {c}, NEW bytes \in Seq(Bytes), file' = file \o By(who, bytes)
      PROVE  /\ Len(file) \in Nat /\ Len(file') \in Nat /\ Len(file) <= Len(file')
             /\ \A i \in 1 .. Len(file') : IF i <= Len(file) THEN file'[i] = file[i] ELSE file'[i].by # c
             /\ Mine(c)' = Mine(c)
  <2>1. /\ Len(file') = Len(file) + Len(bytes) /\ Len(bytes) \in Nat
        /\ \A i \in 1 .. Len(file') :
             IF i <= Len(file) THEN file'[i] = file[i] ELSE file'[i].by = who
    BY <1>1, <1>3, FileGrows
  <2> QED  BY <1>1, <2>1 DEF Mine
<1> QED  BY <1>2, <1>3 DEF Waits

LEMMA SoundStep ==
  ASSUME Inv, NEW c \in Clients, Sound(c), StepOf(c)
  PROVE  Sound(c)'
<1>1. /\ task[c].buf \in Seq(IF task[c].pc = "sending" THEN Reply ELSE Bytes)
      /\ KeepsEnd(c) /\ net[c].rcvd \in 0 .. net[c].sent /\ net[c].sent \in 0 .. Len(Packet[c])
      /\ task[c].conf_fd \in {"open", "closing", "closed"}
  BY DEF Inv, Typed, WellFormed, NetFormed, StepOf, TaskType
<1>2. interrupted' = "nothing" /\ task'[c].pc # "done" /\ task[c].pc # "done" => task'[c].conf_fd = "open"
  BY <1>1 DEF Sound, KeepsEnd
<1>3. ASSUME NEW b \in ToSet(Packet[c]) \cup {Zero}, Takes(c, b)
      PROVE  Sound(c)'
  <2>1. task[c].buf \in Seq(Bytes) /\ b \in Bytes
    <3>1. Packet[c] \in Seq(ToSet(Packet[c]))
      BY ConstantsAssumption
    <3>2. ToSet(Packet[c]) \subseteq Bytes
      BY DEF Bytes
    <3> QED  BY <1>1, <1>3, <3>2, SpecialBytes DEF Takes
  <2>2. /\ Len(task'[c].buf) = Len(task[c].buf) + 1 /\ Len(task[c].buf) \in Nat
        /\ \A i \in 1 .. Len(task[c].buf) : task'[c].buf[i] = task[c].buf[i]
        /\ task'[c].buf[Len(task[c].buf) + 1] = b
    BY <1>3, <2>1, AppendProperties, LenProperties DEF Takes
  <2>3. \A i \in 1 .. Len(task'[c].buf) : task'[c].buf[i] \in ToSet(Packet[c]) \cup {Zero}
    <3> SUFFICES ASSUME NEW i \in 1 .. Len(task'[c].buf) PROVE task'[c].buf[i] \in ToSet(Packet[c]) \cup {Zero}
      OBVIOUS
    <3>1. i \in 1 .. Len(task[c].buf) \/ i = Len(task[c].buf) + 1
      BY <2>2
    <3> QED  BY <1>3, <2>2, <3>1 DEF Sound, Takes
  <2> QED  BY <1>2, <1>3, <2>3 DEF Sound, Takes
<1>4. CASE TakesByte(c)
  <2>1. Packet[c][net[c].rcvd + 1] \in ToSet(Packet[c])
    <3>1. net[c].rcvd + 1 \in 1 .. Len(Packet[c])
      BY <1>1, <1>4, PacketLength DEF TakesByte
    <3> QED  BY <3>1, ConstantsAssumption, ElementOfSeq
  <2> QED  BY <1>3, <1>4, <2>1 DEF TakesByte
<1>5. CASE TakesNothing(c)
  BY <1>3, <1>5 DEF TakesNothing
<1>6. CASE Puts(c)
  <2>1. Len(task'[c].buf) = 0
    BY <1>6, EmptyBuf DEF Puts
  <2>2. task[c].pc = "write" /\ task'[c].pc \in {"send", "recv"}
    BY <1>6 DEF Puts
  <2>3. \A i \in 1 .. Len(task'[c].buf) : FALSE
    BY <2>1
  <2> QED  BY <1>2, <2>2, <2>3 DEF Sound
<1>7. CASE Starts(c)
  <2>1. task[c].buf = <<>> /\ Len(task'[c].buf) = 0
    BY <1>7, EmptyBuf DEF Starts, Inv, Typed, WellFormed
  <2>2. \A i \in 1 .. Len(task'[c].buf) : FALSE
    BY <2>1
  <2> QED  BY <1>2, <1>7, <2>2 DEF Sound, Starts
<1>8. CASE Responds(c)
  BY <1>2, <1>8 DEF Sound, Responds
<1>9. CASE Waits(c)
  <2>1. task[c].pc = "none" => Mine(c)' = {}
    <3>1. CASE file' = <<>>
      <4>1. Len(file') = 0
        BY <3>1, EmptyBuf
      <4> QED  BY <4>1 DEF Mine
    <3> QED  BY <1>9, <3>1, OthersLeaveMine DEF Sound
  <2> QED  BY <1>2, <1>9, <2>1 DEF Sound, Waits
<1> QED  BY <1>4, <1>5, <1>6, <1>7, <1>8, <1>9 DEF StepOf

Sounds == \A c \in Clients : Sound(c)

(* The file holds no byte of a connection.                                 *)
NotOurs(contents) == \A i \in 1 .. Len(contents) : contents[i].by \notin Clients

LEMMA SoundInit ==
  ASSUME NEW contents \in Seq(Written), Start(contents), NotOurs(contents)
  PROVE  Sounds
<1> SUFFICES ASSUME NEW c \in Clients PROVE Sound(c)
  BY DEF Sounds
<1>1. task[c] = NoTask /\ net[c] = NewClient /\ file = contents
  BY DEF Start
<1>2. task[c].pc = "none" /\ task[c].conf_fd = "open" /\ net[c].rcvd = 0
  BY <1>1 DEF NoTask, NewClient
<1>3. Mine(c) = {}
  BY <1>1 DEF Mine, NotOurs
<1> QED  BY <1>2, <1>3 DEF Sound

LEMMA SoundsNext == ASSUME FileInv, Sounds, [Next]_vars PROVE Sounds'
BY FileReply, NextStepOf, SoundStep DEF Sounds

LEMMA FileStarts == Init => Start(<<>>) /\ <<>> \in Seq(Written) /\ NotOurs(<<>>)
BY EmptyBuf DEF Init, NotOurs

-----------------------------------------------------------------------------
(* The bytes a connection has written and holds.                           *)

Put(c) == Wrote(c, file) \o OnItsWay(c)

LEMMA PutType ==
  ASSUME Inv, NEW c \in Clients
  PROVE  /\ Wrote(c, file) \in Seq(Bytes) /\ OnItsWay(c) \in Seq(Bytes) /\ Put(c) \in Seq(Bytes)
         /\ file \in Seq(Written)
<1>1. file \in Seq(Written) /\ <<>> \in Seq(Bytes) /\ Stamper \in Who
  BY EmptyBuf, SpecialBytes DEF Inv, FileTyped
<1>2. Wrote(c, file) \in Seq(Bytes)
  BY <1>1, WroteMore
<1>3. OnItsWay(c) \in Seq(Bytes)
  BY <1>1 DEF OnItsWay, Inv, Typed, WellFormed
<1> QED  BY <1>1, <1>2, <1>3, ConcatProperties DEF Put

(* A seek command is a block that begins with SeekTo.                      *)
LEMMA SeekBlock ==
  ASSUME Inv, NEW c \in Clients, Sound(c), task[c].pc = "write", IsSeek(task[c].buf)
  PROVE  Seeks(c)
<1> DEFINE b == task[c].buf
<1>1. b \in Seq(Bytes) /\ Len(b) \in Nat
  BY LenProperties DEF Inv, Typed, WellFormed
<1>2. 1 <= Len(b) /\ SubSeq(<<SeekTo>>, 1, 1) = SubSeq(b, 1, 1)
  <2>1. Len(<<SeekTo>>) = 1
    OBVIOUS
  <2> QED  BY <2>1 DEF IsSeek, IsPrefix
<1>3. SubSeq(b, 1, 1)[1] = b[1]
  <2>1. 1 \in 1 .. Len(b) /\ \A i \in 1 .. 1 : b[i] \in Bytes
    BY <1>1, <1>2, ElementOfSeq
  <2> HIDE DEF b
  <2> QED  BY <2>1, SubSeqProperties
<1>4. SubSeq(<<SeekTo>>, 1, 1) = <<SeekTo>>
  <2>1. <<SeekTo>> \in Seq({SeekTo}) /\ Len(<<SeekTo>>) = 1
    OBVIOUS
  <2> QED  BY <2>1, SubSeqFull
<1>5. b[1] = SeekTo
  BY <1>2, <1>3, <1>4
<1>6. b[1] \in ToSet(Packet[c]) \cup {Zero}
  BY <1>1, <1>2 DEF Sound
<1> QED  BY <1>5, <1>6, ConstantsAssumption DEF Seeks

(* It grows by what is received, and by calloc's zeros when the client has *)
(* gone or the connection is closed; writing a block changes nothing.      *)
LEMMA PutStep ==
  ASSUME Inv, NEW c \in Clients, Sound(c), StepOf(c), ~ Seeks(c), ~ TeardownEnd
  PROVE  \/ Put(c)' = Put(c) /\ net'[c].rcvd = net[c].rcvd
         \/ /\ Put(c)' = Put(c) \o <<Packet[c][net[c].rcvd + 1]>>
            /\ net'[c].rcvd = net[c].rcvd + 1 /\ net[c].rcvd < Len(Packet[c])
            /\ Packet[c][net[c].rcvd + 1] \in Bytes
         \/ /\ Put(c)' = Put(c) \o <<Zero>> /\ net'[c].rcvd = net[c].rcvd
            /\ task[c].pc = "recv" /\ (task[c].conf_fd = "closed" \/ PeerGone(c))
<1>1. /\ Wrote(c, file) \in Seq(Bytes) /\ OnItsWay(c) \in Seq(Bytes) /\ Put(c) \in Seq(Bytes)
      /\ file \in Seq(Written)
      /\ task[c].pc # "sending" => task[c].buf \in Seq(Bytes)
  BY PutType DEF Inv, Typed, WellFormed
<1>2. \A u, v, w \in Seq(Bytes) : (u \o v) \o w = u \o (v \o w)
  BY ConcatAssociative
<1>3. \A u \in Seq(Bytes) : u \o <<>> = u
  BY ConcatEmptySeq
<1>4. Put(c)' = Wrote(c, file') \o OnItsWay(c)'
  BY DEF Put, Wrote, WrittenBy
<1>5. ASSUME NEW b \in Bytes, Takes(c, b) PROVE Put(c)' = Put(c) \o <<b>>
  <2>1. OnItsWay(c) = task[c].buf /\ OnItsWay(c)' = Append(task[c].buf, b) /\ file' = file
    BY <1>5 DEF Takes, OnItsWay
  <2>2. task[c].buf \in Seq(Bytes) /\ <<b>> \in Seq(Bytes)
    BY <1>1, <1>5 DEF Takes
  <2>3. Append(task[c].buf, b) = task[c].buf \o <<b>>
    BY <2>2, AppendIsConcat
  <2>4. Wrote(c, file') = Wrote(c, file)
    BY <2>1
  <2>5. Put(c)' = Wrote(c, file) \o (task[c].buf \o <<b>>)
    BY <1>4, <2>1, <2>3, <2>4
  <2>6. (Wrote(c, file) \o task[c].buf) \o <<b>> = Wrote(c, file) \o (task[c].buf \o <<b>>)
    BY <1>1, <1>2, <2>2
  <2>7. Put(c) = Wrote(c, file) \o task[c].buf
    BY <2>1 DEF Put
  <2> QED  BY <2>5, <2>6, <2>7
<1>6. CASE TakesByte(c)
  <2>1. net[c].rcvd + 1 \in 1 .. Len(Packet[c]) /\ net[c].rcvd < Len(Packet[c])
    BY <1>6, PacketLength DEF TakesByte, Inv, Typed, NetFormed
  <2>2. Packet[c][net[c].rcvd + 1] \in Bytes
    BY <2>1, PacketBytes
  <2> QED  BY <1>5, <1>6, <2>1, <2>2 DEF TakesByte
<1>7. CASE TakesNothing(c)
  BY <1>5, <1>7, SpecialBytes DEF TakesNothing, Takes
<1>8. CASE Puts(c)
  <2>1. ~ IsSeek(task[c].buf)
    BY <1>8, SeekBlock DEF Puts
  <2>2. file' = file \o By(c, task[c].buf) /\ task[c].buf \in Seq(Bytes)
    BY <1>1, <1>8, <2>1 DEF Puts
  <2>3. Wrote(c, file') = Wrote(c, file) \o task[c].buf
    <3>1. \A w \in Seq(Written), bytes \in Seq(Bytes) : Wrote(c, w \o By(c, bytes)) = Wrote(c, w) \o bytes
      BY WroteMore, SpecialBytes
    <3> QED  BY <1>1, <2>2, <3>1
  <2>4. OnItsWay(c) = task[c].buf /\ OnItsWay(c)' = <<>>
    BY <1>8 DEF Puts, OnItsWay
  <2> QED  BY <1>1, <1>3, <1>4, <1>8, <2>3, <2>4 DEF Put, Puts
<1>9. CASE file' = file /\ OnItsWay(c)' = OnItsWay(c) /\ net'[c].rcvd = net[c].rcvd
  BY <1>4, <1>9 DEF Put
<1>10. CASE Starts(c)
  <2>1. task[c].buf = <<>>
    BY <1>10 DEF Starts, Inv, Typed, WellFormed
  <2>2. OnItsWay(c) = <<>> /\ OnItsWay(c)' = <<>>
    BY <1>10, <2>1 DEF Starts, OnItsWay
  <2> QED  BY <1>9, <1>10, <2>2 DEF Starts
<1>11. CASE Responds(c)
  BY <1>9, <1>11 DEF Responds, OnItsWay
<1>12. CASE Waits(c)
  <2>1. OnItsWay(c)' = OnItsWay(c) /\ net'[c].rcvd = net[c].rcvd
    BY <1>12 DEF Waits, OnItsWay
  <2>2. ASSUME NEW who \in Who \ {c}, NEW bytes \in Seq(Bytes), file' = file \o By(who, bytes)
        PROVE  Wrote(c, file') = Wrote(c, file)
    <3>1. \A w \in Seq(Written) : Wrote(c, w \o By(who, bytes)) = Wrote(c, w)
      BY WroteMore
    <3> QED  BY <1>1, <2>2, <3>1
  <2>3. Wrote(c, file') = Wrote(c, file)
    BY <1>12, <2>2 DEF Waits
  <2> QED  BY <1>4, <2>1, <2>3 DEF Put
<1> QED  BY <1>6, <1>7, <1>8, <1>10, <1>11, <1>12 DEF StepOf

-----------------------------------------------------------------------------
(* What was received, and what became of it.                               *)

LEMMA NoZerosOf ==
  /\ \A u, v \in Seq(Bytes) : NoZeros(u \o v) = NoZeros(u) \o NoZeros(v) /\ NoZeros(u) \in Seq(Bytes)
  /\ NoZeros(<<Zero>>) = <<>>
<1>1. \A u, v \in Seq(Bytes) : NoZeros(u \o v) = NoZeros(u) \o NoZeros(v) /\ NoZeros(u) \in Seq(Bytes)
  <2>1. \A u, v \in Seq(Bytes) :
          /\ Select(u \o v, Bytes \ {Zero}) = Select(u, Bytes \ {Zero}) \o Select(v, Bytes \ {Zero})
          /\ Select(u, Bytes \ {Zero}) \in Seq(Bytes)
    BY SelectConcat
  <2> QED  BY <2>1 DEF NoZeros
<1>2. NoZeros(<<Zero>>) = <<>>
  <2> DEFINE w == <<Zero>>
             S == Bytes \ {Zero}
  <2>1. w \in Seq(Bytes) /\ \A i \in 1 .. Len(w) : w[i] \notin S
    BY SpecialBytes
  <2> HIDE DEF w, S
  <2>2. Select(w, S) = <<>>
    BY <2>1, SelectNone
  <2> QED  BY <2>2 DEF NoZeros, w, S
<1> QED  BY <1>1, <1>2

LEMMA ReceivedType ==
  ASSUME Inv, NEW c \in Clients
  PROVE  Received(c) \in Seq(Bytes) /\ net[c].rcvd \in 0 .. Len(Packet[c]) /\ Packet[c] \in Seq(Bytes)
<1>1. net[c].rcvd \in 0 .. Len(Packet[c]) /\ Len(Packet[c]) \in Nat
  BY PacketLength DEF Inv, Typed, NetFormed
<1>2. Packet[c] \in Seq(Bytes)
  <2>1. Packet[c] \in Seq(ToSet(Packet[c])) /\ ToSet(Packet[c]) \subseteq Bytes
    BY ConstantsAssumption DEF Bytes
  <2> QED  BY <2>1, SeqMonotonic
<1>3. \A i \in 1 .. net[c].rcvd : Packet[c][i] \in Bytes
  BY <1>1, PacketBytes
<1>4. SubSeq(Packet[c], 1, net[c].rcvd) \in Seq(Bytes)
  <2>1. 1 \in Int /\ net[c].rcvd \in Int
    BY <1>1
  <2> QED  BY <1>3, <2>1, SubSeqProperties
<1> QED  BY <1>1, <1>2, <1>4 DEF Received

LEMMA ReceivedMore ==
  ASSUME Inv, NEW c \in Clients, net[c].rcvd < Len(Packet[c]), net'[c].rcvd = net[c].rcvd + 1
  PROVE  Received(c)' = Received(c) \o <<Packet[c][net[c].rcvd + 1]>>
<1> DEFINE n == net[c].rcvd + 1
           p == Packet[c]
<1>1. p \in Seq(Bytes) /\ 1 \in 1 .. Len(p) /\ n \in 1 .. Len(p) /\ n - 1 = net[c].rcvd
  BY ReceivedType, PacketLength
<1>2. Received(c)' = SubSeq(p, 1, n) /\ Received(c) = SubSeq(p, 1, n - 1)
  BY <1>1 DEF Received
<1> HIDE DEF n, p
<1>3. SubSeq(p, 1, n) = SubSeq(p, 1, n - 1) \o <<p[n]>>
  BY <1>1, SubSeqRecursiveSecond
<1> QED  BY <1>2, <1>3 DEF n, p

LEMMA NothingYet ==
  ASSUME NEW contents \in Seq(Written), Start(contents), NotOurs(contents), NEW c \in Clients
  PROVE  Put(c) = <<>> /\ Received(c) = <<>>
<1>1. task[c] = NoTask /\ net[c] = NewClient /\ file = contents
  BY DEF Start
<1>2. OnItsWay(c) = <<>> /\ net[c].rcvd = 0
  BY <1>1 DEF NoTask, NewClient, OnItsWay
<1>3. Wrote(c, contents) = <<>>
  <2> DEFINE S == [by : {c}, byte : Bytes]
  <2>1. \A i \in 1 .. Len(contents) : contents[i] \notin S
    BY DEF NotOurs
  <2> HIDE DEF S
  <2>2. Select(contents, S) = <<>>
    BY <2>1, SelectNone
  <2>3. BytesOf(<<>>) = <<>>
    <3>1. \A v \in Seq(Written) : BytesOf(v \o v) = BytesOf(v) \o BytesOf(v) /\ BytesOf(v) \in Seq(Bytes)
      BY BytesOfConcat
    <3>2. <<>> \in Seq(Written) /\ <<>> \o <<>> = <<>>
      BY EmptyBuf, ConcatEmptySeq
    <3>3. BytesOf(<<>>) = BytesOf(<<>>) \o BytesOf(<<>>) /\ BytesOf(<<>>) \in Seq(Bytes)
      BY <3>1, <3>2
    <3> QED  BY <3>3, ConcatEqualIffEmpty
  <2> QED  BY <2>2, <2>3 DEF Wrote, WrittenBy, S
<1>4. SubSeq(Packet[c], 1, 0) = <<>>
  BY SubSeqEmpty
<1> QED  BY <1>1, <1>2, <1>3, <1>4, EmptyBuf, ConcatEmptySeq DEF Put, Received

InOrder(c) == ~ Seeks(c) => NoZeros(Put(c)) = NoZeros(Received(c))

LEMMA InOrderStep ==
  ASSUME Inv, NEW c \in Clients, Sound(c), StepOf(c), ~ TeardownEnd, InOrder(c)
  PROVE  InOrder(c)'
<1> SUFFICES ASSUME ~ Seeks(c) PROVE NoZeros(Put(c)') = NoZeros(Received(c)')
  BY DEF InOrder, Seeks
<1>1. /\ Put(c) \in Seq(Bytes) /\ Received(c) \in Seq(Bytes)
      /\ NoZeros(Put(c)) = NoZeros(Received(c)) /\ NoZeros(Put(c)) \in Seq(Bytes)
  BY PutType, ReceivedType, NoZerosOf DEF InOrder
<1>2. CASE Put(c)' = Put(c) /\ net'[c].rcvd = net[c].rcvd
  <2>1. Received(c)' = Received(c)
    BY <1>2 DEF Received
  <2> QED  BY <1>1, <1>2, <2>1
<1>3. CASE /\ Put(c)' = Put(c) \o <<Packet[c][net[c].rcvd + 1]>>
           /\ net'[c].rcvd = net[c].rcvd + 1 /\ net[c].rcvd < Len(Packet[c])
           /\ Packet[c][net[c].rcvd + 1] \in Bytes
  <2> DEFINE b == <<Packet[c][net[c].rcvd + 1]>>
  <2>1. Received(c)' = Received(c) \o b
    BY <1>3, ReceivedMore
  <2>2. b \in Seq(Bytes) /\ Put(c)' = Put(c) \o b
    BY <1>3
  <2> HIDE DEF b
  <2>3. NoZeros(Put(c) \o b) = NoZeros(Put(c)) \o NoZeros(b)
    BY <1>1, <2>2, NoZerosOf
  <2>4. NoZeros(Received(c) \o b) = NoZeros(Received(c)) \o NoZeros(b)
    BY <1>1, <2>2, NoZerosOf
  <2> QED  BY <1>1, <2>1, <2>2, <2>3, <2>4
<1>4. CASE Put(c)' = Put(c) \o <<Zero>> /\ net'[c].rcvd = net[c].rcvd
  <2>1. Received(c)' = Received(c)
    BY <1>4 DEF Received
  <2>2. <<Zero>> \in Seq(Bytes)
    BY SpecialBytes
  <2>3. NoZeros(Put(c) \o <<Zero>>) = NoZeros(Put(c)) \o NoZeros(<<Zero>>)
    <3> DEFINE z == <<Zero>>
    <3> HIDE DEF z
    <3>1. z \in Seq(Bytes)
      BY <2>2 DEF z
    <3>2. NoZeros(Put(c) \o z) = NoZeros(Put(c)) \o NoZeros(z)
      BY <1>1, <3>1, NoZerosOf
    <3> QED  BY <3>2 DEF z
  <2>4. NoZeros(Put(c)) \o <<>> = NoZeros(Put(c))
    BY <1>1, ConcatEmptySeq
  <2> QED  BY <1>1, <1>4, <2>1, <2>3, <2>4, NoZerosOf
<1> QED  BY <1>2, <1>3, <1>4, PutStep

AllInOrder == ~ destroyed => \A c \in Clients : InOrder(c)

(* Every byte received is in the file or on its way there, once and in the *)
(* order received, whatever blocks of other threads lie between: no block  *)
(* is lost, written twice or overtaken, and calloc's zeros are all that is *)
(* added to it.                                                            *)
THEOREM InFileInOrder == Spec => []BytesInOrder
<1>1. Init => Sounds /\ AllInOrder
  BY FileStarts, SoundInit, NothingYet DEF AllInOrder, InOrder
<1>2. FileInv /\ Sounds /\ AllInOrder /\ [Next]_vars => Sounds' /\ AllInOrder'
  <2> SUFFICES ASSUME FileInv, Sounds, AllInOrder, [Next]_vars PROVE Sounds' /\ AllInOrder'
    OBVIOUS
  <2>0. Inv
    BY FileReply
  <2>1. ASSUME ~ destroyed', NEW c \in Clients PROVE InOrder(c)'
    <3>1. ~ destroyed /\ ~ TeardownEnd
      BY <2>0, <2>1, DestroyStep DEF TeardownEnd, Inv, FileTyped
    <3> QED  BY <2>0, <3>1, NextStepOf, InOrderStep DEF AllInOrder, Sounds
  <2> QED  BY <2>1, SoundsNext DEF AllInOrder
<1>3. AllInOrder => BytesInOrder
  BY DEF AllInOrder, InOrder, BytesInOrder, Put, Wrote
<1> QED  BY <1>1, <1>2, <1>3, FileReply, Invariance, PTL DEF Spec

-----------------------------------------------------------------------------
(* What a connection that is served to its end has been sent.              *)

Served(c) == interrupted = "nothing" /\ net[c].state # "closed" /\ ~ Seeks(c)

(* No zeros are added while the client is there and no signal has come;    *)
(* the last block of the response is short because the file ends there.    *)
Complete(c) ==
  /\ Served(c) => Put(c) = Received(c)
  /\ Served(c) /\ task[c].pc \in {"close", "done"} => Wrote(c, Response(c)) = Received(c)

LEMMA ShortBlockEnds ==
  ASSUME FileInv, NEW c \in Clients, Answering(c), task[c].pc = "sending", net[c].state # "closed", ShortBlock(c)
  PROVE  Response(c) \o task[c].buf = file
<1> DEFINE r == Response(c)
           b == task[c].buf
<1>1. /\ r \in Seq(Written) /\ file \in Seq(Written) /\ b \in Seq(Written)
      /\ Begins(r, file) /\ b = Block(file, Len(r)) /\ Len(b) < BlockSize
      /\ Len(r) \in Nat /\ Len(file) \in Nat /\ Len(r) <= Len(file)
  BY FileReply, ResponseType, LenProperties DEF Inv, Typed, WellFormed, FileTyped, Answering, ShortBlock, Begins
<1> HIDE DEF r, b
<1>2. Begins(r \o b, file) /\ Len(r \o b) = Len(r) + Len(b) /\ r \o b \in Seq(Written)
  BY <1>1, BeginsExtended, ConcatProperties
<1>3. Len(r) + Len(b) = Len(file)
  <2> DEFINE n == IF Len(r) + BlockSize < Len(file) THEN Len(r) + BlockSize ELSE Len(file)
  <2>1. n \in Nat /\ Len(r) \in Nat /\ n <= Len(file) /\ Len(r) <= n
    BY <1>1, BlockSizes
  <2>2. b = SubSeq(file, Len(r) + 1, n)
    BY <1>1 DEF Block
  <2>3. \A i \in Len(r) + 1 .. n : file[i] \in Written
    BY <1>1, <2>1, ElementOfSeq
  <2>4. Len(b) = n - Len(r)
    <3> HIDE DEF n
    <3>1. Len(r) + 1 \in Int /\ n \in Int
      BY <2>1
    <3>2. Len(b) = IF Len(r) + 1 <= n THEN n - (Len(r) + 1) + 1 ELSE 0
      BY <2>2, <2>3, <3>1, SubSeqProperties
    <3> QED  BY <2>1, <3>2
  <2> QED  BY <1>1, <2>1, <2>4, BlockSizes
<1>4. r \o b = file
  BY <1>1, <1>2, <1>3, SeqEqual DEF Begins
<1> QED  BY <1>4 DEF r, b

LEMMA CompleteStep ==
  ASSUME FileInv, NEW c \in Clients, Sound(c), Answers, StepOf(c), Complete(c)
  PROVE  Complete(c)'
<1> SUFFICES ASSUME Served(c)'
             PROVE  /\ Put(c)' = Received(c)'
                    /\ task'[c].pc \in {"close", "done"} => Wrote(c, Response(c))' = Received(c)'
  BY DEF Complete
<1>0. Inv
  BY FileReply
<1>1. /\ Served(c) /\ net'[c].state # "closed" /\ net[c].state # "closed"
      /\ interrupted = "nothing" /\ ~ Seeks(c)
  BY DEF Served, StepOf, KeepsEnd, Seeks
<1>2. ~ TeardownEnd /\ ~ destroyed
  BY <1>0, <1>1 DEF TeardownEnd, Inv, Down, TearingDown
<1>3. Put(c) = Received(c)
  BY <1>1 DEF Complete
<1>4. task[c].pc # "done" => task[c].conf_fd = "open"
  BY <1>1 DEF Sound
<1>5. ~ PeerGone(c)
  BY <1>1 DEF PeerGone
<1>6. Put(c)' = Received(c)'
  <2>1. CASE Put(c)' = Put(c) /\ net'[c].rcvd = net[c].rcvd
    BY <1>3, <2>1 DEF Received
  <2>2. CASE /\ Put(c)' = Put(c) \o <<Packet[c][net[c].rcvd + 1]>>
             /\ net'[c].rcvd = net[c].rcvd + 1 /\ net[c].rcvd < Len(Packet[c])
    BY <1>3, <2>2, <1>0, ReceivedMore
  <2>3. ~ (task[c].pc = "recv" /\ (task[c].conf_fd = "closed" \/ PeerGone(c)))
    BY <1>4, <1>5
  <2> QED  BY <1>1, <1>2, <2>1, <2>2, <2>3, <1>0, PutStep
<1>7. ASSUME task'[c].pc \in {"close", "done"} PROVE Wrote(c, Response(c))' = Received(c)'
  <2>1. CASE Responds(c) /\ task[c].pc # "close"
    <3>1. /\ task[c].pc = "sending" /\ ShortBlock(c) /\ Response(c)' = Response(c) \o task[c].buf
          /\ net'[c].rcvd = net[c].rcvd
      BY <1>1, <1>4, <1>7, <2>1 DEF Responds
    <3>2. Response(c)' = file
      BY <1>1, <1>2, <3>1, ShortBlockEnds DEF Answers
    <3>3. Put(c) = Wrote(c, file)
      BY <3>1, <1>0, PutType, ConcatEmptySeq DEF Put, OnItsWay
    <3>4. Wrote(c, Response(c))' = Wrote(c, Response(c)') /\ Received(c)' = Received(c)
      BY <3>1 DEF Wrote, WrittenBy, Received
    <3> QED  BY <1>3, <3>2, <3>3, <3>4
  <2>2. CASE (Responds(c) /\ task[c].pc = "close") \/ Waits(c)
    <3>1. task[c].pc \in {"close", "done"} /\ Response(c)' = Response(c) /\ net'[c].rcvd = net[c].rcvd
      BY <1>1, <1>7, <2>2 DEF Responds, Waits
    <3>2. Wrote(c, Response(c)) = Received(c)
      BY <1>1, <3>1 DEF Complete
    <3>3. Wrote(c, Response(c))' = Wrote(c, Response(c)') /\ Received(c)' = Received(c)
      BY <3>1 DEF Wrote, WrittenBy, Received
    <3> QED  BY <3>1, <3>2, <3>3
  <2>3. ~ (TakesByte(c) \/ TakesNothing(c) \/ Puts(c) \/ Starts(c))
    BY <1>7 DEF TakesByte, TakesNothing, Takes, Puts, Starts
  <2> QED  BY <2>1, <2>2, <2>3 DEF StepOf
<1> QED  BY <1>6, <1>7

Completes == \A c \in Clients : Complete(c)

(* A client whose connection the server has closed without a signal, and   *)
(* that has stayed, has been sent everything the server received from it,  *)
(* in order: nothing is left in a block, and the response goes on to the   *)
(* end of the file.                                                        *)
THEOREM OwnPackets == Spec => []OwnPacketInResponse
<1>1. Init => Sounds /\ Answers /\ Completes
  <2> SUFFICES ASSUME Init PROVE Completes
    BY FileStarts, SoundInit, AnswersInit
  <2>1. \A c \in Clients : task[c].pc = "none"
    BY DEF Init, Start, NoTask
  <2> QED  BY <2>1, FileStarts, NothingYet DEF Completes, Complete
<1>2. FileInv /\ Sounds /\ Answers /\ Completes /\ [Next]_vars => Sounds' /\ Answers' /\ Completes'
  <2> SUFFICES ASSUME FileInv, Sounds, Answers, Completes, [Next]_vars
               PROVE  Sounds' /\ Answers' /\ Completes'
    OBVIOUS
  <2>1. Completes'
    BY NextStepOf, CompleteStep DEF Completes, Sounds
  <2> QED  BY <2>1, SoundsNext, AnswersNext
<1>3. Completes => OwnPacketInResponse
  BY DEF Completes, Complete, Served, OwnPacketInResponse, Wrote
<1> QED  BY <1>1, <1>2, <1>3, FileReply, Invariance, PTL DEF Spec

-----------------------------------------------------------------------------
(* Packets that fit one block.                                             *)

(* Nothing more will be received of c.                                     *)
Finished(c) ==
  net[c].rcvd = Len(Packet[c]) \/ PeerGone(c) \/ task[c].conf_fd = "closed"

(* Until c has written, its block holds all that was received; once it has *)
(* written and receives on, nothing but zeros can follow.                  *)
OneBlock(c) ==
  /\ task[c].pc \in {"none", "recv", "write"} /\ Mine(c) = {} =>
       Len(task[c].buf) = net[c].rcvd \/ Finished(c)
  /\ task[c].pc \in {"recv", "write"} /\ Mine(c) # {} =>
       Finished(c) /\ \A i \in 1 .. Len(task[c].buf) : task[c].buf[i] = Zero

Together(c) ==
  \A i, k \in Mine(c) :
    i < k /\ file[i].byte # Zero /\ file[k].byte # Zero => \A j \in i .. k : file[j].by = c

Small(c) == Len(Packet[c]) <= BlockSize => OneBlock(c) /\ Together(c)

LEMMA FinishedStays ==
  ASSUME Inv, NEW c \in Clients, StepOf(c), Finished(c)
  PROVE  Finished(c)' /\ ~ TakesByte(c)
<1>1. /\ net[c].sent \in 0 .. Len(Packet[c]) /\ net[c].rcvd \in 0 .. net[c].sent
      /\ Len(Packet[c]) \in Nat
  BY PacketLength DEF Inv, Typed, NetFormed
<1>2. ~ TakesByte(c)
  BY <1>1 DEF TakesByte, Finished, PeerGone
<1>3. net'[c].rcvd = net[c].rcvd
  BY <1>2 DEF StepOf, TakesNothing, Puts, Starts, Responds, Waits
<1>4. Finished(c)'
  BY <1>3 DEF Finished, StepOf, KeepsEnd
<1> QED  BY <1>2, <1>4

(* What is taken into a block.                                             *)
LEMMA TakesOneBlock ==
  ASSUME Inv, NEW c \in Clients, StepOf(c), TakesByte(c) \/ TakesNothing(c), OneBlock(c)
  PROVE  OneBlock(c)'
<1>1. /\ file' = file /\ task[c].pc = "recv" /\ task'[c].pc \in {"recv", "write"}
      /\ task[c].buf \in Seq(Bytes) /\ Mine(c)' = Mine(c)
  BY DEF TakesByte, TakesNothing, Takes, Mine, Inv, Typed, WellFormed
<1>2. CASE Finished(c)
  <2>1. Finished(c)' /\ TakesNothing(c)
    BY <1>2, FinishedStays
  <2>2. task'[c].buf = Append(task[c].buf, Zero)
    BY <2>1 DEF TakesNothing, Takes
  <2>3. /\ Len(task'[c].buf) = Len(task[c].buf) + 1 /\ Len(task[c].buf) \in Nat
        /\ \A i \in 1 .. Len(task[c].buf) : task'[c].buf[i] = task[c].buf[i]
        /\ task'[c].buf[Len(task[c].buf) + 1] = Zero
    BY <1>1, <2>2, SpecialBytes, AppendProperties, LenProperties
  <2>4. ASSUME Mine(c) # {}, NEW i \in 1 .. Len(task'[c].buf) PROVE task'[c].buf[i] = Zero
    <3>1. i \in 1 .. Len(task[c].buf) \/ i = Len(task[c].buf) + 1
      BY <2>3
    <3> QED  BY <1>1, <2>3, <2>4, <3>1 DEF OneBlock
  <2> QED  BY <1>1, <2>1, <2>4 DEF OneBlock
<1>3. CASE ~ Finished(c)
  <2>1. TakesByte(c)
    BY <1>3 DEF TakesNothing, Finished
  <2>2. Mine(c) = {} /\ Len(task[c].buf) = net[c].rcvd
    BY <1>1, <1>3 DEF OneBlock
  <2>3. task'[c].buf = Append(task[c].buf, Packet[c][net[c].rcvd + 1]) /\ net'[c].rcvd = net[c].rcvd + 1
    BY <2>1 DEF TakesByte, Takes
  <2>4. Len(task'[c].buf) = net'[c].rcvd
    <3>1. net[c].rcvd + 1 \in 1 .. Len(Packet[c])
      BY <2>1, PacketLength DEF TakesByte, Inv, Typed, NetFormed
    <3>2. Packet[c][net[c].rcvd + 1] \in Bytes
      BY <3>1, PacketBytes
    <3> QED  BY <1>1, <2>2, <2>3, <3>2, AppendProperties
  <2> QED  BY <1>1, <2>2, <2>4 DEF OneBlock
<1> QED  BY <1>2, <1>3

(* A block is written: either it holds the whole packet, the first bytes   *)
(* of c in the file, or it holds zeros.                                    *)
LEMMA PutsSmall ==
  ASSUME Inv, NEW c \in Clients, StepOf(c), Puts(c), Sound(c), Len(Packet[c]) <= BlockSize,
         OneBlock(c), Together(c)
  PROVE  OneBlock(c)' /\ Together(c)'
<1> DEFINE seek == IsSeek(task[c].buf)
           b == IF seek THEN <<>> ELSE task[c].buf
<1>1. /\ file' = file \o By(c, b) /\ task[c].pc = "write" /\ task'[c].buf = <<>> /\ Len(task'[c].buf) = 0
      /\ task'[c].pc = "send" \/ (task'[c].pc = "recv" /\ ~ task[c].ended)
      /\ net'[c].rcvd = net[c].rcvd
  BY EmptyBuf DEF Puts
<1>2. task[c].buf \in Seq(Bytes) /\ b \in Seq(Bytes) /\ file \in Seq(Written) /\ c \in Who
  BY <1>1, EmptyBuf DEF Inv, Typed, WellFormed, FileTyped, Who
<1>3. Mine(c) # {} => \A i \in 1 .. Len(b) : b[i] = Zero
  <2>1. CASE seek
    <3>1. Len(b) = 0
      BY <2>1, EmptyBuf
    <3> QED  BY <3>1
  <2>2. CASE ~ seek
    BY <1>1, <2>2 DEF OneBlock
  <2> QED  BY <2>1, <2>2
<1>4. task'[c].pc = "recv" => Len(task[c].buf) = BlockSize
  BY <1>1 DEF Sound
<1> HIDE DEF b, seek
<1>5. /\ Len(file') = Len(file) + Len(b) /\ Len(file) \in Nat /\ Len(b) \in Nat
      /\ \A i \in 1 .. Len(file') :
           IF i <= Len(file) THEN file'[i] = file[i]
           ELSE /\ i - Len(file) \in 1 .. Len(b)
                /\ file'[i].by = c /\ file'[i].byte = b[i - Len(file)]
  BY <1>1, <1>2, FileGrows
<1>6. Together(c)'
  <2> SUFFICES ASSUME NEW i \in 1 .. Len(file'), NEW k \in 1 .. Len(file'), NEW j \in i .. k,
                      file'[i].by = c, file'[k].by = c, i < k,
                      file'[i].byte # Zero, file'[k].byte # Zero
               PROVE  file'[j].by = c
    BY DEF Together, Mine
  <2>1. CASE Mine(c) = {}
    <3>1. ~ (i <= Len(file))
      BY <1>5, <2>1 DEF Mine
    <3>2. j \in 1 .. Len(file') /\ ~ (j <= Len(file))
      BY <1>5, <3>1
    <3> QED  BY <1>5, <3>2
  <2>2. CASE Mine(c) # {}
    <3>1. i <= Len(file) /\ k <= Len(file)
      BY <1>3, <1>5, <2>2
    <3>2. i \in Mine(c) /\ k \in Mine(c) /\ file[i].byte # Zero /\ file[k].byte # Zero
      BY <1>5, <3>1 DEF Mine
    <3>3. j \in 1 .. Len(file') /\ j <= Len(file) /\ file[j].by = c
      BY <1>5, <3>1, <3>2 DEF Together
    <3> QED  BY <1>5, <3>3
  <2> QED  BY <2>1, <2>2
<1>7. OneBlock(c)'
  <2>1. CASE task'[c].pc = "send"
    BY <2>1 DEF OneBlock
  <2>2. CASE task'[c].pc = "recv"
    <3>1. Finished(c)'
      <4>1. Finished(c)
        <5>1. CASE Mine(c) = {} /\ Len(task[c].buf) = net[c].rcvd
          <6>1. net[c].rcvd \in 0 .. Len(Packet[c]) /\ Len(Packet[c]) \in Nat /\ net[c].rcvd = BlockSize
            BY <1>4, <2>2, <5>1, ReceivedType, PacketLength
          <6> QED  BY <6>1, BlockSizes DEF Finished
        <5> QED  BY <1>1, <5>1 DEF OneBlock
      <4> QED  BY <4>1, FinishedStays
    <3>2. \A i \in 1 .. Len(task'[c].buf) : FALSE
      BY <1>1
    <3> QED  BY <2>2, <3>1, <3>2 DEF OneBlock
  <2> QED  BY <1>1, <2>1, <2>2
<1> QED  BY <1>6, <1>7

LEMMA WaitsSmall ==
  ASSUME Inv, NEW c \in Clients, StepOf(c), Waits(c), Sound(c), OneBlock(c), Together(c)
  PROVE  OneBlock(c)' /\ Together(c)'
<1>1. task'[c].pc = task[c].pc /\ task'[c].buf = task[c].buf /\ net'[c].rcvd = net[c].rcvd
  BY DEF Waits
<1>2. Finished(c) => Finished(c)'
  BY FinishedStays
<1>3. CASE file' = <<>> /\ TeardownEnd
  <2>1. task[c].pc \in {"none", "done"}
    BY <1>3, AllAtRest DEF TeardownEnd, AtRest
  <2>2. Mine(c)' = {}
    <3>1. Len(file') = 0
      BY <1>3, EmptyBuf
    <3> QED  BY <3>1 DEF Mine
  <2>3. task[c].pc = "none" => Len(task[c].buf) = net[c].rcvd
    BY EmptyBuf DEF Sound, Inv, Typed, WellFormed
  <2> QED  BY <1>1, <2>1, <2>2, <2>3 DEF OneBlock, Together
<1>4. CASE /\ Len(file) \in Nat /\ Len(file') \in Nat /\ Len(file) <= Len(file')
           /\ \A i \in 1 .. Len(file') : IF i <= Len(file) THEN file'[i] = file[i] ELSE file'[i].by # c
           /\ Mine(c)' = Mine(c)
  <2>1. OneBlock(c)'
    BY <1>1, <1>2, <1>4 DEF OneBlock
  <2>2. Together(c)'
    <3> SUFFICES ASSUME NEW i \in Mine(c), NEW k \in Mine(c), NEW j \in i .. k, i < k,
                        file'[i].byte # Zero, file'[k].byte # Zero
                 PROVE  file'[j].by = c
      BY <1>4 DEF Together
    <3>1. i \in 1 .. Len(file) /\ k \in 1 .. Len(file) /\ j \in 1 .. Len(file)
      BY <1>4 DEF Mine
    <3>2. file'[i] = file[i] /\ file'[k] = file[k] /\ file'[j] = file[j]
      BY <1>4, <3>1
    <3> QED  BY <3>2 DEF Together
  <2> QED  BY <2>1, <2>2
<1> QED  BY <1>3, <1>4, OthersLeaveMine

LEMMA SmallStep ==
  ASSUME Inv, NEW c \in Clients, StepOf(c), Sound(c), Small(c)
  PROVE  Small(c)'
<1> SUFFICES ASSUME Len(Packet[c]) <= BlockSize PROVE OneBlock(c)' /\ Together(c)'
  BY DEF Small
<1>1. OneBlock(c) /\ Together(c)
  BY DEF Small
<1>2. CASE TakesByte(c) \/ TakesNothing(c)
  <2>1. file' = file
    BY <1>2 DEF TakesByte, TakesNothing, Takes
  <2>2. Together(c)'
    BY <1>1, <2>1 DEF Together, Mine
  <2> QED  BY <1>1, <1>2, <2>2, TakesOneBlock
<1>3. CASE Starts(c)
  <2>1. /\ file' = file /\ Mine(c) = {} /\ Mine(c)' = {} /\ task[c].pc = "none"
        /\ task'[c].buf = task[c].buf /\ net'[c].rcvd = net[c].rcvd
    BY <1>3 DEF Starts, Sound, Mine
  <2>2. OneBlock(c)'
    BY <1>1, <2>1, FinishedStays DEF OneBlock
  <2> QED  BY <2>1, <2>2 DEF Together
<1>4. CASE Responds(c)
  <2>1. file' = file /\ task'[c].pc \in {"send", "sending", "close", "done"}
    BY <1>4 DEF Responds
  <2> QED  BY <1>1, <2>1 DEF OneBlock, Together, Mine
<1> QED  BY <1>1, <1>2, <1>3, <1>4, PutsSmall, WaitsSmall DEF StepOf

Smalls == \A c \in Clients : Small(c)

(* The bytes of a packet that fits one block are adjacent in the file: no  *)
(* other packet and no timestamp splits them, although the block is filled *)
(* outside the critical section and the newline test may miss its end.     *)
THEOREM SmallPackets == Spec => []SmallPacketContiguous
<1>1. Init => Sounds /\ Smalls
  <2> SUFFICES ASSUME Init, NEW c \in Clients PROVE Small(c)
    BY FileStarts, SoundInit DEF Smalls
  <2>1. task[c] = NoTask /\ net[c] = NewClient
    BY DEF Init, Start
  <2>2. task[c].pc = "none" /\ Len(task[c].buf) = 0 /\ net[c].rcvd = 0
    BY <2>1, EmptyBuf DEF NoTask, NewClient
  <2>3. Mine(c) = {}
    BY <2>2, FileStarts, SoundInit DEF Sounds, Sound
  <2> QED  BY <2>2, <2>3 DEF Small, OneBlock, Together
<1>2. FileInv /\ Sounds /\ Smalls /\ [Next]_vars => Sounds' /\ Smalls'
  BY FileReply, NextStepOf, SmallStep, SoundsNext DEF Smalls, Sounds
<1>3. Inv /\ Smalls => SmallPacketContiguous
  <2> SUFFICES ASSUME Inv, Smalls, NEW i \in 1 .. Len(file), NEW k \in 1 .. Len(file), NEW j \in i .. k,
                      i < k, file[i].by = file[k].by, file[i].by \in Clients,
                      file[i].byte # Zero, file[k].byte # Zero, Len(Packet[file[i].by]) <= BlockSize
               PROVE  file[j].by = file[i].by
    BY DEF SmallPacketContiguous
  <2>1. Together(file[i].by)
    BY DEF Smalls, Small
  <2> QED  BY <2>1 DEF Together, Mine
<1> QED  BY <1>1, <1>2, <1>3, FileReply, Invariance, PTL DEF Spec
==============================================================================
