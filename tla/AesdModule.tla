----------------------------- MODULE AesdModule -----------------------------
(***************************************************************************)
(* The life of the driver module of aesd-char-driver/main.c: loading,      *)
(* which can fail in every allocation, the file operations of AesdChar     *)
(* while the module is in, and unloading.  The kernel counts the module's  *)
(* open files (.owner = THIS_MODULE), refuses to unload while there are    *)
(* any and opens none once unloading has begun.                            *)
(***************************************************************************)
EXTENDS AesdChar

CONSTANT InitMayFail  \* which of "region", "device", "buffer", "cdev" init may fail to get

VARIABLES
  stage,  \* where loading and unloading are; "in" between the two
  owned   \* what this load of the module has taken from the kernel and not given back

modulevars == <<stage, owned>>
mvars      == <<vars, modulevars>>

MInit == Init /\ stage = "out" /\ owned = {}

ToStage(from, to) == stage = from /\ stage' = to

-----------------------------------------------------------------------------
(* aesd_init_module *)

AllocRegion ==
  /\ \/ ToStage("out", "region") /\ owned' = owned \cup {"region"}
     \/ "region" \in InitMayFail /\ ToStage("out", "out") /\ UNCHANGED owned
  /\ UNCHANGED vars

(* kmalloc and memset. Without memory, the fail label calls                *)
(* aesd_cleanup_module, which passes an address in a NULL device on.       *)
AllocDevice ==
  \/ /\ ToStage("region", "device")
     /\ owned' = owned \cup {"device"}
     /\ write_entry_new_flag' = FALSE /\ size' = 0 /\ mutex_lock' = None
     /\ UNCHANGED <<circ_buffer, opened, f_pos, pc, call>>
  \/ /\ "device" \in InitMayFail
     /\ ToStage("region", "oops")
     /\ UNCHANGED <<owned, vars>>

(* kmalloc, whose result is not checked before memset uses it, and init. *)
AllocBuffer ==
  \/ /\ ToStage("device", "buffer")
     /\ owned' = owned \cup {"buffer"}
     /\ circ_buffer' = BufferInit /\ write_entry_new_flag' = TRUE
     /\ UNCHANGED <<size, mutex_lock, opened, f_pos, pc, call>>
  \/ /\ "buffer" \in InitMayFail
     /\ ToStage("device", "oops")
     /\ UNCHANGED <<owned, vars>>

(* Mutant: the device goes live before it is initialised. *)
SetupCdevEarly ==
  /\ ToStage("device", "in")
  /\ owned' = owned \cup {"cdev"}
  /\ UNCHANGED vars

(* cdev_add, from which on the device can be opened. When it fails, the    *)
(* device numbers are given back, the memory is lost, and the module, not  *)
(* loaded, may be loaded again.                                            *)
SetupCdev ==
  /\ \/ ToStage("buffer", "in") /\ owned' = owned \cup {"cdev"}
     \/ /\ "cdev" \in InitMayFail
        /\ ToStage("buffer", "out") /\ owned' = {}
  /\ UNCHANGED vars

-----------------------------------------------------------------------------
(* aesd_cleanup_module *)

CleanupCdev ==
  /\ opened = {}
  /\ ToStage("in", "deleted")
  /\ owned' = owned \ {"cdev"}
  /\ UNCHANGED vars

(* kfree, and buffptr = NULL, for each slot that has memory; size stays.   *)
FreeSlots(slots) ==
  circ_buffer' = [circ_buffer EXCEPT !.entry =
    [s \in Slots |-> IF s \in slots THEN [@[s] EXCEPT !.buffptr = NULL] ELSE @[s]]]

(* Mutant: the loop over the slots ends one early. *)
CleanupEntriesEarly ==
  /\ ToStage("deleted", "emptied")
  /\ FreeSlots(0 .. MaxWriteOps - 2)
  /\ UNCHANGED <<write_entry_new_flag, size, mutex_lock, opened, f_pos, pc, call, owned>>

CleanupEntries ==
  /\ ToStage("deleted", "emptied")
  /\ FreeSlots(Slots)
  /\ UNCHANGED <<write_entry_new_flag, size, mutex_lock, opened, f_pos, pc, call, owned>>

CleanupFree ==
  /\ ToStage("emptied", "out")
  /\ owned' = owned \ {"buffer", "device", "region"}
  /\ UNCHANGED vars

-----------------------------------------------------------------------------
ModuleStep ==
  \/ AllocRegion \/ AllocDevice \/ AllocBuffer \/ SetupCdev
  \/ CleanupCdev \/ CleanupEntries \/ CleanupFree

MNext ==
  \/ ModuleStep
  \/ stage = "in" /\ Next /\ UNCHANGED modulevars

MSpec == MInit /\ [][MNext]_mvars

(* As in AesdChar: threads inside a call are scheduled and get the mutex.  *)
(* Nobody has to load or unload the module.                                *)
MFairSpec ==
  MSpec /\ \A t \in Threads : SF_mvars(stage = "in" /\ Progress(t) /\ UNCHANGED modulevars)

-----------------------------------------------------------------------------
(* Properties *)

(* When cdev_add lets the first open in, the device is as the handlers     *)
(* expect it, whatever an earlier life of the module left in memory.       *)
GoesLiveReady ==
  [][stage # "in" /\ stage' = "in" =>
       /\ {"region", "device", "buffer"} \subseteq owned
       /\ circ_buffer = BufferInit /\ write_entry_new_flag
       /\ size = 0 /\ mutex_lock = None]_mvars

(* The device's memory is given back (or lost, by a load that failed) only *)
(* when no file is open, no call is in progress or waiting, and no slot    *)
(* owns memory any more, the slot of a half-written command included.      *)
FreedWhenUnused ==
  [][{"device", "buffer"} \cap (owned \ owned') # {} =>
       /\ opened = {} /\ mutex_lock = None
       /\ \A t \in Threads : pc[t] = "idle"
       /\ \A s \in Slots : circ_buffer.entry[s].buffptr = NULL]_mvars
=============================================================================
