-------------------------- MODULE AesdModule_proofs --------------------------
(***************************************************************************)
(* Proofs about the driver module, loaded and unloaded any number of       *)
(* times: the invariant of AesdChar holds in every life of the device, and *)
(* the device's memory is given back only when nobody uses it.             *)
(***************************************************************************)
EXTENDS AesdModule, AesdChar_proofs

Stages == {"out", "region", "device", "buffer", "in", "deleted", "emptied", "oops"}

(* A thread inside a call holds a reference to an open file.               *)
Attached ==
  \A t \in Threads : IF pc[t] = "idle" THEN call[t] = NoCall ELSE call[t].filp \in opened

(* Nobody is using the device.                                             *)
Quiet ==
  /\ opened = {} /\ mutex_lock = None
  /\ pc = [t \in Threads |-> "idle"]
  /\ call = [t \in Threads |-> NoCall]

(* What has been initialised, taken and emptied at each stage.             *)
StageInv ==
  /\ stage \in {"region", "device", "buffer"} => "region" \in owned
  /\ stage \in {"device", "buffer"} => "device" \in owned
  /\ stage = "device" => size = 0
  /\ stage = "buffer" => /\ "buffer" \in owned
                         /\ circ_buffer = BufferInit /\ write_entry_new_flag = TRUE /\ size = 0
  /\ stage = "emptied" => \A s \in Slots : circ_buffer.entry[s].buffptr = NULL

MInv ==
  /\ stage \in Stages
  /\ circ_buffer \in CircularBuffer
  /\ f_pos \in [Files -> Int]
  /\ StageInv
  /\ IF stage = "in" THEN IInv /\ Attached ELSE Quiet

-----------------------------------------------------------------------------
(* The calls of one life.                                                  *)

LEMMA AttachedKernel ==
  ASSUME IInv, Attached, NEW t \in Threads, KernelStep(t)
  PROVE  Attached'
<1>1. pc \in [Threads -> {"idle", "lock", "return"} \cup Inside] /\ call \in [Threads -> CallType]
  BY DEF IInv, TypeOK
<1>2. opened' = opened /\ pc[t] # "idle"
  BY DEF KernelStep, Progress, Write, Read, Lock, LockInterrupted, WriteEvict, WriteNoMemory, WriteZero,
         WriteFault, WriteStore, ReadCopy, ReadSpin, IoctlSeek, Return
<1>3. \A u \in Threads \ {t} : pc'[u] = pc[u] /\ call'[u] = call[u]
  BY OthersStay
<1>4. IF pc'[t] = "idle" THEN call'[t] = NoCall ELSE call'[t].filp = call[t].filp
  <2>1. CASE Return(t)
    BY <1>1, <2>1 DEF Return
  <2>2. CASE Lock(t) \/ LockInterrupted(t) \/ WriteEvict(t) \/ ReadSpin(t)
    <3>1. call'[t].filp = call[t].filp
      BY <1>1, <2>2 DEF Lock, LockInterrupted, WriteEvict, ReadSpin, CallType
    <3>2. pc'[t] # "idle"
      <4>1. CASE Lock(t)
        <5>1. pc[t] = "lock"
          BY <4>1 DEF Lock
        <5> QED  BY <5>1, StepKinds
      <4>2. CASE LockInterrupted(t) \/ WriteEvict(t) \/ ReadSpin(t)
        BY <1>1, <4>2 DEF LockInterrupted, WriteEvict, ReadSpin
      <4> QED  BY <2>2, <4>1, <4>2
    <3> QED  BY <3>1, <3>2
  <2>3. CASE \E ret, pos, buf : Unlock(t, ret, pos, buf)
    BY <1>1, <2>3 DEF Unlock, CallType
  <2>4. WriteNoMemory(t) \/ WriteZero(t) \/ WriteFault(t) \/ WriteStore(t) \/ ReadCopy(t) \/ IoctlSeek(t)
          => \E ret, pos, buf : Unlock(t, ret, pos, buf)
    BY DEF WriteNoMemory, WriteZero, WriteFault, WriteStore, ReadCopy, IoctlSeek
  <2> QED  BY <2>1, <2>2, <2>3, <2>4 DEF KernelStep, Progress, Write, Read
<1> QED  BY <1>2, <1>3, <1>4 DEF Attached

LEMMA EnterAttached ==
  ASSUME IInv, Attached, NEW t \in Threads, NEW f \in Files, NEW request, request.filp = f,
         Enter(t, f, request), NEW to \in {"lock", "return"}, pc' = [pc EXCEPT ![t] = to]
  PROVE  Attached'
<1>1. pc \in [Threads -> {"idle", "lock", "return"} \cup Inside] /\ call \in [Threads -> CallType]
  BY DEF IInv, TypeOK
<1>2. /\ pc'[t] # "idle" /\ call'[t].filp \in opened /\ opened' = opened
      /\ \A u \in Threads \ {t} : pc'[u] = pc[u] /\ call'[u] = call[u]
  BY <1>1 DEF Enter
<1> QED  BY <1>2 DEF Attached

LEMMA AttachedClient == ASSUME IInv, Attached, Client PROVE Attached'
<1>1. ASSUME NEW f \in Files, AesdOpen(f)
      PROVE  Attached'
  BY <1>1 DEF AesdOpen, Attached
<1>2. ASSUME NEW f \in Files, AesdRelease(f)
      PROVE  Attached'
  BY <1>2 DEF AesdRelease, Attached
<1>3. ASSUME UNCHANGED <<opened, pc, call>>
      PROVE  Attached'
  BY <1>3 DEF Attached
<1>4. ASSUME NEW t \in Threads, NEW f \in Files, NEW count \in ReadCounts, ReadCall(t, f, count)
      PROVE  Attached'
  <2>1. [NoCall EXCEPT !.op = "read", !.filp = f, !.pos = f_pos[f], !.count = count].filp = f
    BY DEF NoCall
  <2> QED  BY <1>4, <2>1, EnterAttached DEF ReadCall
<1>5. ASSUME NEW t \in Threads, NEW f \in Files, NEW data \in WriteInputs, WriteCall(t, f, data)
      PROVE  Attached'
  <2>1. [NoCall EXCEPT !.op = "write", !.filp = f, !.pos = f_pos[f], !.buf = data].filp = f
    BY DEF NoCall
  <2> QED  BY <1>5, <2>1, EnterAttached DEF WriteCall
<1>6. ASSUME NEW t \in Threads, NEW f \in Files, NEW cmd \in SeekCmds, NEW offset \in SeekCmdOffsets,
             IoctlCall(t, f, cmd, offset)
      PROVE  Attached'
  <2> DEFINE r == [NoCall EXCEPT !.op = "ioctl", !.filp = f, !.cmd = cmd, !.offset = offset]
  <2>1. r.filp = f /\ \A err : [r EXCEPT !.ret = err].filp = f
    BY DEF NoCall
  <2>2. \/ \E err \in {EFAULT, EINVAL} :
             Enter(t, f, [r EXCEPT !.ret = err]) /\ pc' = [pc EXCEPT ![t] = "return"]
        \/ Enter(t, f, r) /\ pc' = [pc EXCEPT ![t] = "lock"]
    BY <1>6 DEF IoctlCall
  <2> HIDE DEF r
  <2>3. ASSUME NEW err, Enter(t, f, [r EXCEPT !.ret = err]), pc' = [pc EXCEPT ![t] = "return"]
        PROVE  Attached'
    BY <2>1, <2>3, EnterAttached
  <2>4. CASE Enter(t, f, r) /\ pc' = [pc EXCEPT ![t] = "lock"]
    BY <2>1, <2>4, EnterAttached
  <2> QED  BY <2>2, <2>3, <2>4
<1>7. ASSUME NEW f \in Files, NEW off \in SeekOffsets, NEW whence, AesdLlseek(f, off, whence)
      PROVE  Attached'
  BY <1>3, <1>7 DEF AesdLlseek
<1> QED  BY <1>1, <1>2, <1>4, <1>5, <1>6, <1>7 DEF Client

LEMMA LifeStep == ASSUME IInv, Attached, Next PROVE IInv' /\ Attached'
<1>1. IInv'
  BY NextInv
<1>2. Attached'
  BY AttachedClient, AttachedKernel DEF Next
<1> QED  BY <1>1, <1>2

-----------------------------------------------------------------------------
(* Loading and unloading.                                                  *)

LEMMA ModuleInit == MInit => MInv
<1> SUFFICES ASSUME MInit PROVE MInv
  OBVIOUS
<1>1. IInv /\ Init
  BY InitInv DEF MInit
<1>2. circ_buffer \in CircularBuffer /\ f_pos \in [Files -> Int]
  BY <1>1 DEF IInv, TypeOK
<1>3. Quiet
  BY <1>1 DEF Init, Quiet
<1>4. stage = "out" /\ StageInv
  BY DEF MInit, StageInv
<1> QED  BY <1>2, <1>3, <1>4 DEF MInv, Stages

LEMMA ModuleStepInv == ASSUME MInv, ModuleStep PROVE MInv'
<1>1. CASE AllocRegion
  <2>1. UNCHANGED vars /\ stage' \in {"out", "region"} /\ stage = "out"
        /\ (stage' = "region" => "region" \in owned')
    BY <1>1 DEF AllocRegion, ToStage
  <2>2. Quiet' /\ circ_buffer' \in CircularBuffer /\ f_pos' \in [Files -> Int]
    BY <2>1 DEF MInv, Quiet, vars
  <2> QED  BY <2>1, <2>2 DEF MInv, StageInv, Stages
<1>2. CASE AllocDevice
  <2>1. /\ UNCHANGED <<circ_buffer, opened, f_pos, pc, call>>
        /\ mutex_lock' \in {mutex_lock, None}
        /\ stage = "region"
        /\ \/ stage' = "device" /\ owned' = owned \cup {"device"} /\ size' = 0
           \/ stage' = "oops"
    BY <1>2 DEF AllocDevice, ToStage, vars
  <2>2. Quiet' /\ circ_buffer' \in CircularBuffer /\ f_pos' \in [Files -> Int]
    BY <2>1 DEF MInv, Quiet
  <2> QED  BY <2>1, <2>2 DEF MInv, StageInv, Stages
<1>3. CASE AllocBuffer
  <2>1. /\ UNCHANGED <<mutex_lock, opened, f_pos, pc, call>>
        /\ stage = "device" /\ size' = size
        /\ \/ /\ stage' = "buffer" /\ owned' = owned \cup {"buffer"}
              /\ circ_buffer' = BufferInit /\ write_entry_new_flag' = TRUE
           \/ stage' = "oops" /\ circ_buffer' = circ_buffer
    BY <1>3 DEF AllocBuffer, ToStage, vars
  <2>2. BufferInit \in CircularBuffer
    BY NoEntryType, MaxWriteOpsAssumption DEF BufferInit, CircularBuffer, Slots
  <2>3. Quiet' /\ circ_buffer' \in CircularBuffer /\ f_pos' \in [Files -> Int]
    BY <2>1, <2>2 DEF MInv, Quiet
  <2> QED  BY <2>1, <2>3 DEF MInv, StageInv, Stages
<1>4. CASE SetupCdev
  <2>1. UNCHANGED vars /\ stage = "buffer" /\ stage' \in {"in", "out"}
    BY <1>4 DEF SetupCdev, ToStage
  <2>2. Fresh
    BY <2>1 DEF MInv, StageInv, Quiet, Fresh
  <2>3. Fresh' /\ Attached' /\ Quiet' /\ circ_buffer' \in CircularBuffer /\ f_pos' \in [Files -> Int]
    BY <2>1, <2>2 DEF MInv, Fresh, Attached, Quiet, vars
  <2>4. IInv'
    <3>1. IInv
      BY <2>2, FreshInv
    <3> QED  BY <3>1, <2>1, NextInv
  <2> QED  BY <2>1, <2>3, <2>4 DEF MInv, StageInv, Stages
<1>5. CASE CleanupCdev
  <2>1. UNCHANGED vars /\ stage = "in" /\ stage' = "deleted" /\ opened = {}
    BY <1>5 DEF CleanupCdev, ToStage
  <2>2. IInv /\ Attached
    BY <2>1 DEF MInv
  <2>3. Quiet
    <3>1. \A t \in Threads : pc[t] = "idle" /\ call[t] = NoCall
      BY <2>1, <2>2 DEF Attached
    <3>2. mutex_lock = None
      <4>1. mutex_lock \in Threads \cup {None} /\ \A t \in Threads : pc[t] \in Inside <=> mutex_lock = t
        BY <2>2 DEF IInv, TypeOK, LockHeldInside
      <4>2. "idle" \notin Inside
        BY DEF Inside
      <4> QED  BY <3>1, <4>1, <4>2
    <3>3. pc = [t \in Threads |-> "idle"] /\ call = [t \in Threads |-> NoCall]
      BY <3>1, <2>2 DEF IInv, TypeOK
    <3> QED  BY <2>1, <3>2, <3>3 DEF Quiet
  <2>4. Quiet' /\ circ_buffer' \in CircularBuffer /\ f_pos' \in [Files -> Int]
    BY <2>1, <2>3 DEF MInv, Quiet, vars
  <2> QED  BY <2>1, <2>4 DEF MInv, StageInv, Stages
<1>6. CASE CleanupEntries
  <2> DEFINE e == [s \in Slots |-> IF s \in Slots THEN [circ_buffer.entry[s] EXCEPT !.buffptr = NULL]
                                                 ELSE circ_buffer.entry[s]]
  <2>1. /\ UNCHANGED <<mutex_lock, opened, f_pos, pc, call>>
        /\ stage = "deleted" /\ stage' = "emptied"
        /\ circ_buffer' = [circ_buffer EXCEPT !.entry = e]
    BY <1>6 DEF CleanupEntries, FreeSlots, ToStage
  <2>2. circ_buffer \in CircularBuffer
    BY DEF MInv
  <2>3. \A s \in Slots : [circ_buffer.entry[s] EXCEPT !.buffptr = NULL] \in BufferEntry
                         /\ [circ_buffer.entry[s] EXCEPT !.buffptr = NULL].buffptr = NULL
    BY <2>2, EmptySeq DEF CircularBuffer, BufferEntry, NULL
  <2>4. e \in [Slots -> BufferEntry] /\ \A s \in Slots : e[s].buffptr = NULL
    BY <2>3
  <2>5. circ_buffer' \in CircularBuffer /\ circ_buffer'.entry = e
    <3> HIDE DEF e
    <3> QED  BY <2>1, <2>2, <2>4 DEF CircularBuffer
  <2>6. Quiet' /\ f_pos' \in [Files -> Int]
    BY <2>1 DEF MInv, Quiet
  <2>7. \A s \in Slots : circ_buffer'.entry[s].buffptr = NULL
    BY <2>4, <2>5
  <2> QED  BY <2>1, <2>5, <2>6, <2>7 DEF MInv, StageInv, Stages
<1>7. CASE CleanupFree
  <2>1. UNCHANGED vars /\ stage = "emptied" /\ stage' = "out"
    BY <1>7 DEF CleanupFree, ToStage
  <2>2. Quiet' /\ circ_buffer' \in CircularBuffer /\ f_pos' \in [Files -> Int]
    BY <2>1 DEF MInv, Quiet, vars
  <2> QED  BY <2>1, <2>2 DEF MInv, StageInv, Stages
<1> QED  BY <1>1, <1>2, <1>3, <1>4, <1>5, <1>6, <1>7 DEF ModuleStep

LEMMA MNextInv == MInv /\ [MNext]_mvars => MInv'
<1> SUFFICES ASSUME MInv, [MNext]_mvars PROVE MInv'
  OBVIOUS
<1>1. CASE stage = "in" /\ Next /\ UNCHANGED modulevars
  <2>1. IInv' /\ Attached' /\ stage' = "in"
    BY <1>1, LifeStep DEF MInv, modulevars
  <2>2. circ_buffer' \in CircularBuffer /\ f_pos' \in [Files -> Int]
    BY <2>1 DEF IInv, TypeOK
  <2> QED  BY <2>1, <2>2 DEF MInv, StageInv, Stages
<1>2. CASE UNCHANGED mvars
  <2>1. UNCHANGED vars /\ UNCHANGED <<stage, owned>>
    BY <1>2 DEF mvars, modulevars
  <2>2. IInv => IInv'
    BY <2>1, NextInv
  <2>3. (Attached => Attached') /\ (Quiet => Quiet') /\ (StageInv => StageInv')
    BY <2>1 DEF vars, Attached, Quiet, StageInv
  <2>4. circ_buffer' = circ_buffer /\ f_pos' = f_pos /\ stage' = stage
    BY <2>1 DEF vars
  <2> QED  BY <2>2, <2>3, <2>4 DEF MInv
<1> QED  BY <1>1, <1>2, ModuleStepInv DEF MNext

LEMMA ModuleInvariance == MSpec => []MInv
BY ModuleInit, MNextInv, PTL DEF MSpec

-----------------------------------------------------------------------------
(* However often the module is unloaded and loaded again, the driver's     *)
(* invariant holds while it is in: types, shape of the ring, entries,      *)
(* mutual exclusion.                                                       *)
THEOREM EveryLife == MSpec => [](stage = "in" => IInv)
<1>1. MInv => (stage = "in" => IInv)
  BY DEF MInv
<1> QED  BY ModuleInvariance, <1>1, PTL

(* The first open finds a device that is initialised and nobody's.         *)
THEOREM LiveReady == MSpec => GoesLiveReady
<1> DEFINE Ready == stage # "in" /\ stage' = "in" =>
                      /\ {"region", "device", "buffer"} \subseteq owned
                      /\ circ_buffer = BufferInit /\ write_entry_new_flag
                      /\ size = 0 /\ mutex_lock = None
<1>1. MInv /\ [MNext]_mvars => [Ready]_mvars
  <2> SUFFICES ASSUME MInv, MNext, stage # "in", stage' = "in"
               PROVE  /\ {"region", "device", "buffer"} \subseteq owned
                      /\ circ_buffer = BufferInit /\ write_entry_new_flag
                      /\ size = 0 /\ mutex_lock = None
    OBVIOUS
  <2>1. stage = "buffer"
    BY DEF MNext, ModuleStep, AllocRegion, AllocDevice, AllocBuffer, SetupCdev,
           CleanupCdev, CleanupEntries, CleanupFree, ToStage
  <2> QED  BY <2>1 DEF MInv, StageInv, Quiet
<1> QED  BY ModuleInvariance, <1>1, PTL DEF MSpec, GoesLiveReady

(* The memory that unloading gives back is nobody's, and so is the memory  *)
(* that a failed load loses.                                               *)
THEOREM FreedUnused == MSpec => FreedWhenUnused
<1> DEFINE Unused == /\ opened = {} /\ mutex_lock = None
                     /\ \A t \in Threads : pc[t] = "idle"
                     /\ \A s \in Slots : circ_buffer.entry[s].buffptr = NULL
           Frees  == {"device", "buffer"} \cap (owned \ owned') # {}
<1>1. MInv /\ [MNext]_mvars => [Frees => Unused]_mvars
  <2> SUFFICES ASSUME MInv, MNext, Frees
               PROVE  Unused
    OBVIOUS
  <2>1. stage \in {"emptied", "buffer"}
    <3>1. CASE CleanupFree \/ SetupCdev
      BY <3>1 DEF CleanupFree, SetupCdev, ToStage
    <3>2. CASE AllocRegion \/ AllocDevice \/ AllocBuffer \/ CleanupEntries \/ UNCHANGED modulevars
      <4>1. owned \ owned' = {}
        BY <3>2 DEF AllocRegion, AllocDevice, AllocBuffer, CleanupEntries, modulevars
      <4> QED  BY <4>1
    <3>3. CASE CleanupCdev
      <4>1. owned \ owned' \subseteq {"cdev"}
        BY <3>3 DEF CleanupCdev
      <4> QED  BY <4>1
    <3> QED  BY <3>1, <3>2, <3>3 DEF MNext, ModuleStep
  <2>2. Quiet /\ \A s \in Slots : circ_buffer.entry[s].buffptr = NULL
    <3>1. Quiet
      BY <2>1 DEF MInv
    <3>2. CASE stage = "emptied"
      BY <3>1, <3>2 DEF MInv, StageInv
    <3>3. CASE stage = "buffer"
      <4>1. circ_buffer = BufferInit
        BY <3>3 DEF MInv, StageInv
      <4> QED  BY <3>1, <4>1 DEF BufferInit, NoEntry
    <3> QED  BY <2>1, <3>2, <3>3
  <2> QED  BY <2>2 DEF Quiet
<1> QED  BY ModuleInvariance, <1>1, PTL DEF MSpec, FreedWhenUnused
=============================================================================
