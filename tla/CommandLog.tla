----------------------------- MODULE CommandLog -----------------------------
(***************************************************************************)
(* What /dev/aesdchar promises its clients, without slots or offsets: the  *)
(* device holds the last Depth commands, oldest first, and the command     *)
(* still being written.  Commands leave only from the old end, and only    *)
(* when Depth are held and a write asks for room.                          *)
(***************************************************************************)
EXTENDS Integers, Sequences

CONSTANTS
  Depth,   \* how many commands are kept
  NL,      \* the byte that ends a command
  Data     \* what one write may bring

VARIABLES
  log,     \* the complete commands, oldest first
  partial  \* the command being written, <<>> when there is none

logvars == <<log, partial>>

EndsInNL(data) == data[Len(data)] = NL

Held == Len(log) + (IF partial = <<>> THEN 0 ELSE 1)

Init == log = <<>> /\ partial = <<>>

(* A write that finds Depth commands makes room by dropping the oldest. *)
DropOldest ==
  /\ Held = Depth
  /\ partial = <<>>
  /\ log' = Tail(log)
  /\ UNCHANGED partial

(* A write extends the command being written, and completes it with NL. *)
Write(data) ==
  /\ partial # <<>> \/ Held < Depth
  /\ IF EndsInNL(data)
     THEN log' = Append(log, partial \o data) /\ partial' = <<>>
     ELSE partial' = partial \o data /\ UNCHANGED log

(* A write that faults half way loses the command being written. *)
LosePartial ==
  /\ partial # <<>>
  /\ partial' = <<>>
  /\ UNCHANGED log

Next == DropOldest \/ LosePartial \/ \E data \in Data : Write(data)

Spec == Init /\ [][Next]_logvars

=============================================================================
