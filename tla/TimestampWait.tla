---------------------------- MODULE TimestampWait ----------------------------
(***************************************************************************)
(* The ten-second wait of timestamp_task in server/aesdsocket.c: start is  *)
(* taken once, now after every sleep, and getTimespecDiffMs reduces their  *)
(* distance to sixteen bits.  A struct timespec is the number of           *)
(* nanoseconds it stands for.  The numbers are those of the source, beyond *)
(* TLC's integers: everything said here is proved.                         *)
(***************************************************************************)
EXTENDS Integers

TIMESTAMP_PRINT_DELAY_MS == 10000
U16(n) == n % 65536

Sec(t)  == t \div 1000000000
Nsec(t) == t % 1000000000

S_TO_MS(s)   == s * 1000
NS_TO_MS(ns) == U16(ns \div 1000000)

DiffMsec(t1, t2) ==
  (S_TO_MS(Sec(t2)) - S_TO_MS(Sec(t1))) + (NS_TO_MS(Nsec(t2)) - NS_TO_MS(Nsec(t1)))

GetTimespecDiffMs(t1, t2) == IF DiffMsec(t1, t2) > 0 THEN U16(DiffMsec(t1, t2)) ELSE 0

VARIABLES
  clock,                 \* CLOCK_MONOTONIC_RAW
  start, now,            \* timestamp_task's locals
  at,                    \* "poll", "while" (its test), "sleep" or "stamp"
  timestamp_thread_exit

vars == <<clock, start, now, at, timestamp_thread_exit>>

Init ==
  /\ clock \in Nat
  /\ start = 0 /\ now = 0 /\ at = "poll"
  /\ timestamp_thread_exit = FALSE

(* The wait begins, with now set to zero. (Whether it does is decided by   *)
(* StampTop and StampCheck of AesdSocket.)                                 *)
Begin ==
  /\ at = "poll" /\ at' = "while"
  /\ start' = clock /\ now' = 0
  /\ UNCHANGED <<clock, timestamp_thread_exit>>

While ==
  /\ at = "while"
  /\ at' = IF GetTimespecDiffMs(start, now) < TIMESTAMP_PRINT_DELAY_MS /\ ~timestamp_thread_exit
           THEN "sleep" ELSE "stamp"
  /\ UNCHANGED <<clock, start, now, timestamp_thread_exit>>

(* usleep is over, earlier than asked if a signal ended it. *)
Wake ==
  /\ at = "sleep" /\ at' = "while"
  /\ now' = clock
  /\ UNCHANGED <<clock, start, timestamp_thread_exit>>

Stamp ==
  /\ at = "stamp" /\ at' = "poll"
  /\ UNCHANGED <<clock, start, now, timestamp_thread_exit>>

Time == clock' \in Nat /\ clock' > clock /\ UNCHANGED <<start, now, at, timestamp_thread_exit>>

Shutdown == timestamp_thread_exit' = TRUE /\ UNCHANGED <<clock, start, now, at>>

Next == Begin \/ While \/ Wake \/ Stamp \/ Time \/ Shutdown

Spec == Init /\ [][Next]_vars

-----------------------------------------------------------------------------
(* Properties *)

MsNs    == 1000000               \* nanoseconds in a millisecond
DelayNs == TIMESTAMP_PRINT_DELAY_MS * MsNs
WrapNs  == 65536 * MsNs          \* where the difference starts again at zero

(* A timestamp is written ten seconds after the wait began, less at most   *)
(* the millisecond that rounding costs, unless the server is shutting      *)
(* down.                                                                   *)
NeverEarly == at = "stamp" => timestamp_thread_exit \/ now - start > DelayNs - MsNs

LastRead == IF now < start THEN start ELSE now

(* Two reads of the clock are at most 55.535 seconds apart: a read is not  *)
(* so late that it passes over the end of the wait and the wrap.           *)
PromptStep == at = "sleep" /\ at' = "while" => now' - LastRead <= WrapNs - DelayNs - MsNs

Prompt == [][PromptStep]_vars

(* The wait goes on only before the ten seconds are over.                  *)
NotMissed == at = "sleep" => LastRead - start < DelayNs
=============================================================================
