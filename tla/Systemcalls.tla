---------------------------- MODULE Systemcalls ----------------------------
(***************************************************************************)
(* examples/systemcalls/systemcalls.c: do_system, do_exec and              *)
(* do_exec_redirect, called by threads of one process, each once.  A       *)
(* caller also names the child that its call forks.  wait, unlike system,  *)
(* reaps whichever child of the process has ended.                         *)
(***************************************************************************)
EXTENDS Integers

CONSTANTS
  Callers,  \* the threads
  Nobody,   \* has not reaped a child
  Fns,      \* which of "do_system", "do_exec", "do_exec_redirect" are called
  Fails     \* which of "open", "fork", "dup2", "execv" may fail

ASSUME CallsAssumption ==
  /\ Nobody \notin Callers
  /\ Fns \subseteq {"do_system", "do_exec", "do_exec_redirect"}

VARIABLES
  caller,  \* per thread: the function it calls, where it is, and its result
  open,    \* callers whose output file is open in the process
  proc     \* per caller: its child, with wait status, reaper and descriptors

vars == <<caller, open, proc>>

(* What wait reports: exit(0), exit(1), killed by signal 9. *)
Exit0 == 0
Exit1 == 256
Killed == 9
WEXITSTATUS(status) == status \div 256

NotForked == [state |-> "none", status |-> 0, reaper |-> Nobody,
              open |-> {}, stdout |-> "inherited"]

Init ==
  /\ caller = [t \in Callers |-> [fn |-> "none", pc |-> "idle", result |-> FALSE]]
  /\ open = {}
  /\ proc = [t \in Callers |-> NotForked]

-----------------------------------------------------------------------------
GoTo(t, pc) == caller' = [caller EXCEPT ![t].pc = pc]

Return(t, result) == caller' = [caller EXCEPT ![t].pc = "returned", ![t].result = result]

Call(t) ==
  /\ caller[t].pc = "idle"
  /\ \E fn \in Fns :
       caller' = [caller EXCEPT ![t].fn = fn,
                                ![t].pc = IF fn = "do_exec_redirect" THEN "open" ELSE "fork"]
  /\ UNCHANGED <<open, proc>>

OpenFile(t) ==
  /\ caller[t].pc = "open"
  /\ \/ open' = open \cup {t} /\ GoTo(t, "fork")
     \/ "open" \in Fails /\ Return(t, FALSE) /\ UNCHANGED open
  /\ UNCHANGED proc

(* fork: the child gets every descriptor of the process.  For do_system,   *)
(* the fork inside system.                                                 *)
ForkChild(t) ==
  /\ caller[t].pc = "fork"
  /\ proc' = [proc EXCEPT ![t].state = "forked", ![t].open = open]
  /\ GoTo(t, IF caller[t].fn = "do_exec_redirect" THEN "close" ELSE "wait")
  /\ UNCHANGED open

(* Mutant: -1 counts as an error only where fork is called directly. *)
SystemResultOfExit(ret) == ~ (ret >= 256)

(* do_system: (system(cmd) > 0) ? false : true. *)
SystemResult(ret) == ~ (ret > 0)

(* The file stays open. *)
ForkFails(t) ==
  /\ "fork" \in Fails
  /\ caller[t].pc = "fork"
  /\ Return(t, IF caller[t].fn = "do_system" THEN SystemResult(-1) ELSE FALSE)
  /\ UNCHANGED <<open, proc>>

(* Mutant: the parent does not close the file. *)
CloseFileForgotten(t) == caller[t].pc = "close" /\ GoTo(t, "wait") /\ UNCHANGED <<open, proc>>

(* The parent of do_exec_redirect. *)
CloseFile(t) ==
  /\ caller[t].pc = "close"
  /\ open' = open \ {t}
  /\ GoTo(t, "wait")
  /\ UNCHANGED proc

-----------------------------------------------------------------------------
(* The child, a process of its own. *)

Child(t, p) == proc' = [proc EXCEPT ![t] = p] /\ UNCHANGED <<caller, open>>

Redirects(t) == caller[t].fn = "do_exec_redirect"

(* dup2 and close, if the call redirects, and execv. *)
ChildExec(t) ==
  /\ proc[t].state = "forked"
  /\ Child(t, [proc[t] EXCEPT !.state  = "runs",
                              !.open   = IF Redirects(t) THEN @ \ {t} ELSE @,
                              !.stdout = IF Redirects(t) THEN "file" ELSE @])

(* Mutant: no exit after execv. *)
ChildExecFailsReturns(t) ==
  /\ "execv" \in Fails
  /\ proc[t].state = "forked"
  /\ Child(t, [proc[t] EXCEPT !.state = "returned"])

(* execv fails: exit(1). (In system, the shell exits with 127.) *)
ChildExecFails(t) ==
  /\ "execv" \in Fails
  /\ proc[t].state = "forked"
  /\ Child(t, [proc[t] EXCEPT !.state = "zombie", !.status = Exit1])

(* dup2 fails: the child returns false into the code that called the       *)
(* function, which now runs in two processes.                              *)
ChildDupFails(t) ==
  /\ "dup2" \in Fails
  /\ proc[t].state = "forked" /\ Redirects(t)
  /\ Child(t, [proc[t] EXCEPT !.state = "returned"])

(* A command ends by itself, well or badly, or is killed. *)
ChildEnds(t) ==
  /\ proc[t].state = "runs"
  /\ \E status \in {Exit0, Exit1, Killed} :
       Child(t, [proc[t] EXCEPT !.state = "zombie", !.status = status])

-----------------------------------------------------------------------------
Reap(t, p) == proc' = [proc EXCEPT ![p].state = "reaped", ![p].reaper = t]

(* Mutants: any child will do; no child will. *)
LoopEndsAtOnce(t, p)  == TRUE
LoopNeverEnds(t, p)   == FALSE

(* The condition that ends the loop: tpid = pid. *)
LoopEnds(t, p) == p = t

(* One turn of do { tpid = wait(&status); } while (tpid != pid). When no   *)
(* child is left, wait returns -1 and the loop turns without a change.     *)
Wait(t) ==
  /\ caller[t].pc = "wait" /\ caller[t].fn # "do_system"
  /\ \E p \in Callers :
       /\ proc[p].state = "zombie"
       /\ Reap(t, p)
       /\ IF LoopEnds(t, p) THEN Return(t, WEXITSTATUS(proc[p].status) = 0)
                            ELSE UNCHANGED caller
  /\ UNCHANGED open

(* system waits for its own child, which another thread's wait may have    *)
(* taken from it; then it returns -1.                                      *)
SystemWait(t) ==
  /\ caller[t].pc = "wait" /\ caller[t].fn = "do_system"
  /\ \/ /\ proc[t].state = "zombie"
        /\ Reap(t, t)
        /\ Return(t, SystemResult(proc[t].status))
     \/ /\ proc[t].state = "reaped"
        /\ Return(t, SystemResult(-1))
        /\ UNCHANGED proc
  /\ UNCHANGED open

-----------------------------------------------------------------------------
Parent(t) ==
  OpenFile(t) \/ ForkChild(t) \/ ForkFails(t) \/ CloseFile(t) \/ Wait(t) \/ SystemWait(t)

OwnChild(t) == ChildExec(t) \/ ChildExecFails(t) \/ ChildDupFails(t) \/ ChildEnds(t)

Next == \E t \in Callers : Call(t) \/ Parent(t) \/ OwnChild(t)

Spec == Init /\ [][Next]_vars

(* Both processes are scheduled and commands end.                          *)
Fairness == \A t \in Callers : WF_vars(Parent(t)) /\ WF_vars(OwnChild(t))

-----------------------------------------------------------------------------
(* Properties *)

Execs(t) == caller[t].fn \in {"do_exec", "do_exec_redirect"}

(* do_exec and do_exec_redirect return true only when they have reaped     *)
(* their own child, whatever other children of the process ended first,    *)
(* and it did not exit with an error. (It may have been killed.)           *)
TrueMeansOwnChild ==
  \A t \in Callers :
    caller[t].result /\ Execs(t) =>
      proc[t].reaper = t /\ proc[t].status \in {Exit0, Killed}

(* do_system reports every command that failed, a killed one too, unless   *)
(* system itself failed: without a child, or robbed of it by another       *)
(* thread's wait.                                                          *)
SystemReportsFailure ==
  \A t \in Callers :
    caller[t].result /\ caller[t].fn = "do_system" =>
      proc[t].state = "none" \/ proc[t].reaper # t \/ proc[t].status = Exit0

(* A call returns in the parent alone; the one child that returns too is   *)
(* do_exec_redirect's, with dup2 failed and its output file still open.    *)
OneProcessReturns ==
  \A t \in Callers :
    proc[t].state = "returned" =>
      Redirects(t) /\ t \in proc[t].open /\ proc[t].stdout # "file"

(* The output file is closed when the call has returned, unless fork       *)
(* failed, and a command never runs with its own output file open twice.   *)
FileClosed ==
  \A t \in Callers :
    /\ caller[t].pc = "returned" /\ t \in open => proc[t].state = "none"
    /\ proc[t].state = "runs" => t \notin proc[t].open

(* Every call returns, or waits for ever for one of two reasons: another   *)
(* thread has reaped its child, or the child has returned and lives on.    *)
Returns ==
  \A t \in Callers :
    caller[t].pc # "idle" ~>
      \/ caller[t].pc = "returned"
      \/ proc[t].state = "reaped" /\ proc[t].reaper # t
      \/ proc[t].state = "returned"
=============================================================================
