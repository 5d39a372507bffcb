------------------------- MODULE Systemcalls_proofs -------------------------
(***************************************************************************)
(* The safety properties of Systemcalls, for any number of threads.        *)
(***************************************************************************)
EXTENDS Systemcalls, TLAPS

Functions == {"none", "do_system", "do_exec", "do_exec_redirect"}
Places    == {"idle", "open", "fork", "close", "wait", "returned"}
States    == {"none", "forked", "runs", "returned", "zombie", "reaped"}
Statuses  == {Exit0, Exit1, Killed}

CallerType == [fn : Functions, pc : Places, result : BOOLEAN]
ProcType   == [state : States, status : Statuses, reaper : Callers \cup {Nobody},
               open : SUBSET Callers, stdout : {"inherited", "file"}]

TypeOK ==
  /\ caller \in [Callers -> CallerType]
  /\ open \in SUBSET Callers
  /\ proc \in [Callers -> ProcType]

(* Where a caller is and what has become of its child. *)
CallShape(t) ==
  /\ caller[t].pc \in {"idle", "open", "fork"} => proc[t].state = "none"
  /\ caller[t].pc \in {"close", "wait"} => proc[t].state # "none"
  /\ caller[t].pc \in {"open", "close"} => Redirects(t)
  /\ caller[t].pc # "returned" => proc[t].reaper # t /\ ~caller[t].result
  /\ caller[t].pc = "idle" => ~Redirects(t)

(* The output file, in the parent and in the child. *)
FileShape(t) ==
  /\ caller[t].pc = "fork" /\ Redirects(t) => t \in open
  /\ t \in open => /\ Redirects(t)
                   /\ \/ caller[t].pc \in {"fork", "close"}
                      \/ caller[t].pc = "returned" /\ proc[t].state = "none"
  /\ proc[t].state = "forked" => (t \in proc[t].open <=> Redirects(t))
  /\ proc[t].state \in {"none", "forked"} => proc[t].stdout = "inherited"

(* The four properties, for one caller. *)
Promises(t) ==
  /\ caller[t].result /\ Execs(t) =>
       /\ proc[t].state = "reaped" /\ proc[t].reaper = t
       /\ proc[t].status \in {Exit0, Killed}
  /\ caller[t].result /\ caller[t].fn = "do_system" =>
       \/ proc[t].state = "none"
       \/ proc[t].state = "reaped" /\ (proc[t].reaper # t \/ proc[t].status = Exit0)
  /\ proc[t].state = "returned" =>
       Redirects(t) /\ t \in proc[t].open /\ proc[t].stdout # "file"
  /\ proc[t].state = "runs" => t \notin proc[t].open

Inv == TypeOK /\ \A t \in Callers : CallShape(t) /\ FileShape(t) /\ Promises(t)

-----------------------------------------------------------------------------
(* WEXITSTATUS of the three outcomes: a killed child looks like exit(0). *)
LEMMA ExitStatus ==
  /\ WEXITSTATUS(Exit0) = 0 /\ WEXITSTATUS(Exit1) # 0 /\ WEXITSTATUS(Killed) = 0
  /\ SystemResult(Exit0) /\ ~SystemResult(Exit1) /\ ~SystemResult(Killed)
  /\ Exit0 # Exit1 /\ Exit0 # Killed /\ Exit1 # Killed
BY SMT DEF WEXITSTATUS, Exit0, Exit1, Killed, SystemResult

LEMMA InitInv == Init => Inv
BY CallsAssumption DEF Init, Inv, TypeOK, CallerType, ProcType, Exit0, CallShape, FileShape, Promises, Functions, Places, States, Statuses,
       NotForked, Redirects, Execs

(* What a step of one caller, or of its child, leaves alone. *)
LEMMA OthersKept ==
  ASSUME Inv, NEW t \in Callers, NEW s \in Callers, s # t,
         caller'[s] = caller[s], proc'[s] = proc[s], s \in open' <=> s \in open
  PROVE  CallShape(s)' /\ FileShape(s)' /\ Promises(s)'
<1>1. CallShape(s) /\ FileShape(s) /\ Promises(s)
  BY DEF Inv
<1>2. CallShape(s)'
  BY <1>1 DEF CallShape, Redirects
<1>3. FileShape(s)'
  BY <1>1 DEF FileShape, Redirects
<1>4. Promises(s)'
  BY <1>1 DEF Promises, Redirects, Execs
<1> QED  BY <1>2, <1>3, <1>4

LEMMA ParentInv ==
  ASSUME Inv, NEW t \in Callers,
         Call(t) \/ OpenFile(t) \/ ForkChild(t) \/ ForkFails(t) \/ CloseFile(t)
  PROVE  Inv'
<1> USE DEF Inv
<1>t. CallShape(t) /\ FileShape(t) /\ Promises(t) /\ TypeOK
  OBVIOUS
<1>1. TypeOK'
  <2>1. CASE Call(t)
    <3>1. PICK fn \in Fns :
            caller' = [caller EXCEPT ![t].fn = fn,
                                     ![t].pc = IF fn = "do_exec_redirect" THEN "open" ELSE "fork"]
      BY <2>1 DEF Call
    <3>2. PICK pc \in Places : caller' = [caller EXCEPT ![t].fn = fn, ![t].pc = pc]
      BY <3>1 DEF Places
    <3>3. fn \in Functions
      BY CallsAssumption DEF Functions
    <3>4. caller' \in [Callers -> CallerType]
      BY <3>2, <3>3, <1>t DEF TypeOK, CallerType
    <3> QED  BY <3>4, <2>1, <1>t DEF Call, TypeOK
  <2>2. CASE OpenFile(t)
    <3>1. caller' \in [Callers -> CallerType]
      BY <2>2, <1>t DEF OpenFile, GoTo, Return, Places, TypeOK, CallerType
    <3> QED  BY <3>1, <2>2, <1>t DEF OpenFile, TypeOK
  <2>3. CASE ForkChild(t)
    <3>1. caller' \in [Callers -> CallerType]
      BY <2>3, <1>t DEF ForkChild, GoTo, Places, TypeOK, CallerType
    <3>2. proc' \in [Callers -> ProcType]
      BY <2>3, <1>t DEF ForkChild, States, TypeOK, ProcType
    <3> QED  BY <3>1, <3>2, <2>3, <1>t DEF ForkChild, TypeOK
  <2>4. CASE ForkFails(t)
    <3>1. SystemResult(-1) \in BOOLEAN
      BY DEF SystemResult
    <3>2. caller' \in [Callers -> CallerType]
      BY <3>1, <2>4, <1>t DEF ForkFails, Return, Places, TypeOK, CallerType
    <3> QED  BY <3>2, <2>4, <1>t DEF ForkFails, TypeOK
  <2>5. CASE CloseFile(t)
    <3>1. caller' \in [Callers -> CallerType]
      BY <2>5, <1>t DEF CloseFile, GoTo, Places, TypeOK, CallerType
    <3> QED  BY <3>1, <2>5, <1>t DEF CloseFile, TypeOK
  <2> QED  BY <2>1, <2>2, <2>3, <2>4, <2>5
<1>2. ASSUME NEW s \in Callers, s # t
      PROVE  CallShape(s)' /\ FileShape(s)' /\ Promises(s)'
  <2>1. caller'[s] = caller[s] /\ proc'[s] = proc[s] /\ (s \in open' <=> s \in open)
    BY <1>2, <1>t DEF Call, OpenFile, ForkChild, ForkFails, CloseFile, Return, GoTo, TypeOK
  <2> QED  BY <2>1, <1>2, OthersKept
<1>3. CallShape(t)' /\ FileShape(t)' /\ Promises(t)'
  <2>1. CASE Call(t)
    <3>1. /\ caller'[t].result = caller[t].result
          /\ \/ caller'[t].pc = "open" /\ caller'[t].fn = "do_exec_redirect"
             \/ caller'[t].pc = "fork" /\ caller'[t].fn # "do_exec_redirect"
      BY <2>1, <1>t DEF Call, TypeOK, CallerType
    <3>2. caller[t].pc = "idle" /\ open' = open /\ proc'[t] = proc[t]
      BY <2>1 DEF Call
    <3> QED  BY <3>1, <3>2, <1>t DEF CallShape, FileShape, Promises, Redirects
  <2>2. CASE OpenFile(t)
    BY <2>2, <1>t DEF OpenFile, Return, GoTo, TypeOK, CallerType, ProcType, CallShape, FileShape, Promises, Redirects, Execs
  <2>3. CASE ForkChild(t)
    <3>1. /\ caller'[t].result = caller[t].result /\ caller'[t].fn = caller[t].fn
          /\ caller'[t].pc = IF Redirects(t) THEN "close" ELSE "wait"
      BY <2>3, <1>t DEF ForkChild, GoTo, Redirects, TypeOK, CallerType
    <3>2. /\ proc'[t].state = "forked" /\ proc'[t].open = open /\ open' = open
          /\ proc'[t].reaper = proc[t].reaper /\ proc'[t].stdout = proc[t].stdout
      BY <2>3, <1>t DEF ForkChild, TypeOK, ProcType
    <3>3. caller[t].pc = "fork" /\ proc[t].stdout = "inherited"
      BY <2>3, <1>t DEF ForkChild, CallShape, FileShape
    <3> QED  BY <3>1, <3>2, <3>3, <1>t DEF CallShape, FileShape, Promises, Redirects, Execs
  <2>4. CASE ForkFails(t)
    BY <2>4, <1>t DEF ForkFails, Return, TypeOK, CallerType, ProcType, CallShape, FileShape, Promises, Redirects, Execs
  <2>5. CASE CloseFile(t)
    BY <2>5, <1>t DEF CloseFile, GoTo, TypeOK, CallerType, ProcType, CallShape, FileShape, Promises, Redirects, Execs
  <2> QED  BY <2>1, <2>2, <2>3, <2>4, <2>5
<1> QED  BY <1>1, <1>2, <1>3

LEMMA ChildInv == ASSUME Inv, NEW t \in Callers, OwnChild(t) PROVE Inv'
<1> USE DEF Inv
<1>t. CallShape(t) /\ FileShape(t) /\ Promises(t) /\ TypeOK
  OBVIOUS
<1>1. TypeOK'
  <2>1. /\ proc[t].open \in SUBSET Callers /\ proc[t].open \ {t} \in SUBSET Callers
        /\ proc[t].stdout \in {"inherited", "file"}
    BY <1>t DEF TypeOK, ProcType
  <2>2. proc' \in [Callers -> ProcType]
    <3>1. CASE ChildExec(t)
      <4> DEFINE opened == IF Redirects(t) THEN proc[t].open \ {t} ELSE proc[t].open
                 output == IF Redirects(t) THEN "file" ELSE proc[t].stdout
      <4>1. proc' = [proc EXCEPT ![t] = [proc[t] EXCEPT !.state = "runs", !.open = opened,
                                                        !.stdout = output]]
        BY <3>1 DEF ChildExec, Child
      <4>2. opened \in SUBSET Callers /\ output \in {"inherited", "file"}
        BY <2>1
      <4>3. proc[t] \in ProcType
        BY <1>t DEF TypeOK
      <4> HIDE DEF opened, output
      <4>4. \A p \in ProcType : [p EXCEPT !.state = "runs", !.open = opened, !.stdout = output]
                                 \in ProcType
        BY <4>2 DEF States, ProcType
      <4> QED  BY <4>1, <4>3, <4>4, <1>t DEF TypeOK
    <3>2. CASE ChildExecFails(t)
      BY <3>2, <1>t DEF ChildExecFails, Child, States, Statuses, TypeOK, ProcType
    <3>3. CASE ChildDupFails(t)
      BY <3>3, <1>t DEF ChildDupFails, Child, States, TypeOK, ProcType
    <3>4. CASE ChildEnds(t)
      <4>1. PICK status \in Statuses :
              proc' = [proc EXCEPT ![t] = [proc[t] EXCEPT !.state = "zombie", !.status = status]]
        BY <3>4 DEF ChildEnds, Child, Statuses
      <4>2. \A p \in ProcType : [p EXCEPT !.state = "zombie", !.status = status] \in ProcType
        BY DEF States, ProcType
      <4>3. proc[t] \in ProcType
        BY <1>t DEF TypeOK
      <4> QED  BY <4>1, <4>2, <4>3, <1>t DEF TypeOK
    <3> QED  BY <3>1, <3>2, <3>3, <3>4 DEF OwnChild
  <2> QED  BY <2>2, <1>t DEF OwnChild, ChildExec, ChildExecFails, ChildDupFails, ChildEnds, Child, TypeOK
<1>2. ASSUME NEW s \in Callers, s # t
      PROVE  CallShape(s)' /\ FileShape(s)' /\ Promises(s)'
  <2>1. caller'[s] = caller[s] /\ proc'[s] = proc[s] /\ (s \in open' <=> s \in open)
    BY <1>2, <1>t DEF OwnChild, ChildExec, ChildExecFails, ChildDupFails, ChildEnds, Child, TypeOK
  <2> QED  BY <2>1, <1>2, OthersKept
<1>3. CallShape(t)' /\ FileShape(t)' /\ Promises(t)'
  <2>1. CASE ChildExec(t)
    BY <2>1, <1>t DEF ChildExec, Child, TypeOK, CallerType, ProcType, CallShape, FileShape, Promises, Redirects, Execs
  <2>2. CASE ChildExecFails(t)
    BY <2>2, <1>t DEF ChildExecFails, Child, TypeOK, CallerType, ProcType, CallShape, FileShape, Promises, Redirects, Execs
  <2>3. CASE ChildDupFails(t)
    BY <2>3, <1>t DEF ChildDupFails, Child, TypeOK, CallerType, ProcType, CallShape, FileShape, Promises, Redirects, Execs
  <2>4. CASE ChildEnds(t)
    BY <2>4, <1>t DEF ChildEnds, Child, TypeOK, CallerType, ProcType, CallShape, FileShape, Promises, Redirects, Execs
  <2> QED  BY <2>1, <2>2, <2>3, <2>4 DEF OwnChild
<1> QED  BY <1>1, <1>2, <1>3

(* The loop: a child of somebody else's call may be reaped as well. *)
LEMMA WaitInv == ASSUME Inv, NEW t \in Callers, Wait(t) PROVE Inv'
<1> USE DEF Inv
<1>1. PICK p \in Callers :
        /\ proc[p].state = "zombie"
        /\ Reap(t, p)
        /\ IF p = t THEN Return(t, WEXITSTATUS(proc[p].status) = 0) ELSE UNCHANGED caller
  BY DEF Wait, LoopEnds
<1>t. TypeOK /\ \A s \in Callers : CallShape(s) /\ FileShape(s) /\ Promises(s)
  OBVIOUS
<1>w. caller[t].pc = "wait" /\ caller[t].fn # "do_system" /\ open' = open
  BY DEF Wait
<1>2. TypeOK'
  <2>1. proc' \in [Callers -> ProcType]
    BY <1>1, <1>t DEF Reap, States, TypeOK, ProcType
  <2>2. (WEXITSTATUS(proc[p].status) = 0) \in BOOLEAN
    OBVIOUS
  <2>3. caller' \in [Callers -> CallerType]
    BY <2>2, <1>1, <1>t DEF Return, Places, TypeOK, CallerType
  <2> QED  BY <2>1, <2>3, <1>t, <1>w DEF TypeOK
<1>3. ASSUME NEW s \in Callers, s # p, s # t
      PROVE  CallShape(s)' /\ FileShape(s)' /\ Promises(s)'
  <2>1. caller'[s] = caller[s] /\ proc'[s] = proc[s]
    BY <1>1, <1>3, <1>t DEF Reap, Return, TypeOK
  <2> QED  BY <2>1, <1>3, <1>w, OthersKept
<1>4. CASE p = t
  <2>1. proc' = [proc EXCEPT ![t].state = "reaped", ![t].reaper = t]
    BY <1>1, <1>4 DEF Reap
  <2>2. caller' = [caller EXCEPT ![t].pc = "returned",
                                 ![t].result = (WEXITSTATUS(proc[t].status) = 0)]
    BY <1>1, <1>4 DEF Return
  <2>3. WEXITSTATUS(proc[t].status) = 0 => proc[t].status \in {Exit0, Killed}
    BY <1>t, ExitStatus DEF TypeOK, ProcType, Statuses
  <2>4. CallShape(t)'
    BY <2>1, <2>2, <1>t, <1>w DEF TypeOK, CallerType, ProcType, CallShape, Redirects
  <2>5. FileShape(t)'
    BY <2>1, <2>2, <1>1, <1>t, <1>w DEF TypeOK, CallerType, ProcType, FileShape, Redirects
  <2>6. Promises(t)'
    BY <2>1, <2>2, <2>3, <1>t, <1>w DEF TypeOK, CallerType, ProcType, Promises, Redirects, Execs
  <2> QED  BY <2>4, <2>5, <2>6, <1>2, <1>3, <1>4
<1>5. CASE p # t
  <2>1. caller' = caller /\ proc' = [proc EXCEPT ![p].state = "reaped", ![p].reaper = t]
    BY <1>1, <1>5 DEF Reap
  <2>2. CallShape(t)' /\ FileShape(t)' /\ Promises(t)'
    <3>1. caller'[t] = caller[t] /\ proc'[t] = proc[t]
      BY <2>1, <1>5, <1>t DEF TypeOK
    <3> QED  BY <3>1, <1>5, <1>w, OthersKept
  <2>3. proc'[p].state = "reaped" /\ proc'[p].reaper = t /\ proc'[p].status = proc[p].status
        /\ caller'[p] = caller[p]
    BY <2>1, <1>t DEF TypeOK
  <2>4. CallShape(p)'
    BY <2>3, <1>1, <1>5, <1>t DEF CallShape, Redirects
  <2>5. FileShape(p)'
    BY <2>3, <1>1, <1>t, <1>w DEF FileShape, Redirects
  <2>6. Promises(p)'
    BY <2>3, <1>1, <1>5, <1>t DEF Promises, Redirects, Execs
  <2> QED  BY <2>2, <2>4, <2>5, <2>6, <1>2, <1>3, <1>5
<1> QED  BY <1>4, <1>5

LEMMA SystemWaitInv == ASSUME Inv, NEW t \in Callers, SystemWait(t) PROVE Inv'
<1> USE DEF Inv
<1>t. CallShape(t) /\ FileShape(t) /\ Promises(t) /\ TypeOK
  OBVIOUS
<1>1. TypeOK'
  <2>1. proc' \in [Callers -> ProcType]
    BY <1>t DEF SystemWait, Reap, States, TypeOK, ProcType
  <2>2. SystemResult(proc[t].status) \in BOOLEAN /\ SystemResult(-1) \in BOOLEAN
    BY DEF SystemResult
  <2>3. caller' \in [Callers -> CallerType]
    BY <2>2, <1>t DEF SystemWait, Return, Places, TypeOK, CallerType
  <2> QED  BY <2>1, <2>3, <1>t DEF SystemWait, TypeOK
<1>2. ASSUME NEW s \in Callers, s # t
      PROVE  CallShape(s)' /\ FileShape(s)' /\ Promises(s)'
  <2>1. caller'[s] = caller[s] /\ proc'[s] = proc[s] /\ (s \in open' <=> s \in open)
    BY <1>2, <1>t DEF SystemWait, Reap, Return, TypeOK
  <2> QED  BY <2>1, <1>2, OthersKept
<1>3. CallShape(t)' /\ FileShape(t)' /\ Promises(t)'
  <2>1. CASE proc[t].state = "zombie" /\ Reap(t, t) /\ Return(t, SystemResult(proc[t].status))
    <3>1. SystemResult(proc[t].status) => proc[t].status = Exit0
      BY <1>t, ExitStatus DEF TypeOK, ProcType, Statuses
    <3>2. /\ proc'[t].state = "reaped" /\ proc'[t].status = proc[t].status
          /\ caller'[t].pc = "returned" /\ caller'[t].fn = caller[t].fn
          /\ caller'[t].result = SystemResult(proc[t].status)
      BY <2>1, <1>t DEF Reap, Return, TypeOK
    <3> QED  BY <3>1, <3>2, <2>1, <1>t
             DEF SystemWait, CallShape, FileShape, Promises, Redirects, Execs
  <2>2. CASE proc[t].state = "reaped" /\ Return(t, SystemResult(-1)) /\ UNCHANGED proc
    BY <2>2, <1>t DEF SystemWait, Return, TypeOK, CallerType, ProcType, CallShape, FileShape, Promises, Redirects, Execs
  <2> QED  BY <2>1, <2>2 DEF SystemWait
<1> QED  BY <1>1, <1>2, <1>3

-----------------------------------------------------------------------------
LEMMA NextInv == ASSUME Inv, [Next]_vars PROVE Inv'
<1>1. CASE UNCHANGED vars
  BY <1>1 DEF vars, Inv, TypeOK, CallShape, FileShape, Promises, Redirects, Execs
<1>2. ASSUME NEW t \in Callers, Call(t) \/ Parent(t) \/ OwnChild(t) PROVE Inv'
  BY <1>2, ParentInv, ChildInv, WaitInv, SystemWaitInv DEF Parent
<1> QED  BY <1>1, <1>2 DEF Next

(* The invariant that the four promises follow from holds in every state   *)
(* of any number of concurrent calls.                                      *)
THEOREM Invariance == Spec => []Inv
<1>1. Init => Inv
  BY InitInv
<1>2. Inv /\ [Next]_vars => Inv'
  BY NextInv
<1> QED  BY <1>1, <1>2, PTL DEF Spec

(* do_exec and do_exec_redirect return true only for their own child,      *)
(* however many other threads are reaping children at the same time.       *)
THEOREM OwnChildReported == Spec => []TrueMeansOwnChild
<1>1. Inv => TrueMeansOwnChild
  BY DEF Inv, Promises, TrueMeansOwnChild
<1> QED  BY <1>1, Invariance, PTL

(* do_system hides no failure of a command that it could wait for.         *)
THEOREM SystemReports == Spec => []SystemReportsFailure
<1>1. Inv => SystemReportsFailure
  BY DEF Inv, Promises, SystemReportsFailure
<1> QED  BY <1>1, Invariance, PTL

(* Only a do_exec_redirect whose dup2 failed returns in two processes.     *)
THEOREM ReturnsOnce == Spec => []OneProcessReturns
<1>1. Inv => OneProcessReturns
  BY DEF Inv, Promises, OneProcessReturns
<1> QED  BY <1>1, Invariance, PTL

(* No call but one whose fork failed leaves its output file open.          *)
THEOREM FilesClosed == Spec => []FileClosed
<1>1. Inv => FileClosed
  BY DEF Inv, FileShape, Promises, FileClosed
<1> QED  BY <1>1, Invariance, PTL
=============================================================================
