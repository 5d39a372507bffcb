----------------------------- MODULE Threading -----------------------------
(***************************************************************************)
(* examples/threading/threading.c: start_thread_obtaining_mutex starts a   *)
(* thread that sleeps, locks the caller's mutex, sleeps, unlocks it and    *)
(* notes its success in the thread_data that it returns.  The caller may   *)
(* hold the mutex itself at first.                                         *)
(***************************************************************************)
CONSTANTS Starts, NoHolder  \* the calls, one thread each; no holder of the mutex

Caller == "caller"

ASSUME StartsAssumption == NoHolder # Caller /\ NoHolder \notin Starts /\ Caller \notin Starts

VARIABLES
  thread,    \* where each thread is
  data,      \* the calls whose thread_data is allocated and not yet returned
  complete,  \* the calls whose thread_data says thread_complete_success
  mutex      \* the holder of the mutex

threadvars == <<thread, data, complete, mutex>>

InitThreads ==
  /\ thread = [s \in Starts |-> "none"]
  /\ data = {} /\ complete = {}
  /\ mutex \in {NoHolder, Caller}

Step(s, from, to) == thread[s] = from /\ thread' = [thread EXCEPT ![s] = to]

-----------------------------------------------------------------------------
(* start_thread_obtaining_mutex: it does not wait; when pthread_create     *)
(* fails, the thread_data is left behind.                                  *)
StartThread(s) ==
  /\ Step(s, "none", "sleep") \/ Step(s, "none", "failed")
  /\ data' = data \cup {s}
  /\ UNCHANGED <<complete, mutex>>

(* threadfunc: usleep(wait_obtain_ms) has ended. *)
ObtainMutex(s) ==
  /\ mutex = NoHolder
  /\ Step(s, "sleep", "hold")
  /\ mutex' = s
  /\ UNCHANGED <<data, complete>>

(* Mutant: the mutex is not given back. *)
ReleaseForgotten(s) == Step(s, "hold", "released") /\ UNCHANGED <<data, complete, mutex>>

(* usleep(wait_release_ms) has ended. *)
ReleaseMutex(s) ==
  /\ Step(s, "hold", "released")
  /\ mutex' = NoHolder
  /\ UNCHANGED <<data, complete>>

FinishThread(s) ==
  /\ Step(s, "released", "done")
  /\ complete' = complete \cup {s}
  /\ data' = data \ {s}
  /\ UNCHANGED mutex

CallerReleases ==
  /\ mutex = Caller
  /\ mutex' = NoHolder
  /\ UNCHANGED <<thread, data, complete>>

ThreadFunc(s) == ObtainMutex(s) \/ ReleaseMutex(s) \/ FinishThread(s)

NextThreads == CallerReleases \/ \E s \in Starts : StartThread(s) \/ ThreadFunc(s)

(* Threads are scheduled, sleeps end and the caller lets the mutex go.     *)
(* Weak fairness is enough for the mutex: each thread takes it once.       *)
FairThreads ==
  WF_threadvars(CallerReleases) /\ \A s \in Starts : WF_threadvars(ThreadFunc(s))

-----------------------------------------------------------------------------
(* Every thread that was started gets the mutex, gives it back and reports *)
(* success, whoever else wants the same mutex.                             *)
ThreadsComplete ==
  \A s \in Starts : thread[s] \notin {"none", "failed"} ~> s \in complete
=============================================================================
