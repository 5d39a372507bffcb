------------------------ MODULE TimestampWait_proofs ------------------------
(***************************************************************************)
(* Proofs about the wait for the next timestamp.                           *)
(***************************************************************************)
EXTENDS TimestampWait, TLAPS

Msec(t) == t \div 1000000

(* The two roundings together are one.                                     *)
LEMMA SplitMsec == ASSUME NEW t \in Nat PROVE S_TO_MS(Sec(t)) + NS_TO_MS(Nsec(t)) = Msec(t)
BY SMTT(30) DEF S_TO_MS, NS_TO_MS, Sec, Nsec, Msec, U16

(* diff_msec is the distance in whole milliseconds.                        *)
LEMMA DiffIsMsec ==
  ASSUME NEW t1 \in Nat, NEW t2 \in Nat
  PROVE  DiffMsec(t1, t2) = Msec(t2) - Msec(t1)
BY SplitMsec DEF DiffMsec, S_TO_MS, NS_TO_MS, Sec, Nsec, Msec, U16

(* What the distance in milliseconds says of the distance in nanoseconds.  *)
LEMMA MsecDistance ==
  ASSUME NEW t1 \in Nat, NEW t2 \in Nat
  PROVE  /\ Msec(t1) \in Nat /\ Msec(t2) \in Nat
         /\ Msec(t2) - Msec(t1) >= 10000 => t2 - t1 > DelayNs - MsNs
         /\ Msec(t2) - Msec(t1) < 10000 => t2 - t1 < DelayNs
         /\ t1 <= t2 /\ t2 - t1 < WrapNs - MsNs =>
              Msec(t1) <= Msec(t2) /\ Msec(t2) - Msec(t1) <= 65535
BY SMTT(30) DEF Msec, DelayNs, MsNs, WrapNs, TIMESTAMP_PRINT_DELAY_MS

(* What is returned is never more than the distance, and is the distance   *)
(* as long as that is positive and fits sixteen bits.                      *)
THEOREM DiffWraps ==
  ASSUME NEW t1 \in Nat, NEW t2 \in Nat
  PROVE  LET d == Msec(t2) - Msec(t1)
         IN  /\ GetTimespecDiffMs(t1, t2) \in Nat
             /\ GetTimespecDiffMs(t1, t2) > 0 => GetTimespecDiffMs(t1, t2) <= d
             /\ 0 <= d /\ d <= 65535 => GetTimespecDiffMs(t1, t2) = d
<1>1. Msec(t1) \in Nat /\ Msec(t2) \in Nat
  BY MsecDistance
<1>2. GetTimespecDiffMs(t1, t2) = IF Msec(t2) - Msec(t1) > 0 THEN (Msec(t2) - Msec(t1)) % 65536 ELSE 0
  BY DiffIsMsec DEF GetTimespecDiffMs, U16
<1> QED  BY <1>1, <1>2, SMT

(* Sixty-five and a half seconds are taken for no time at all.             *)
THEOREM DiffForgets == GetTimespecDiffMs(0, WrapNs) = 0
<1>1. Msec(0) = 0 /\ Msec(WrapNs) = 65536 /\ WrapNs \in Nat
  BY SMT DEF Msec, WrapNs, MsNs
<1>2. DiffMsec(0, WrapNs) = 65536
  <2>1. DiffMsec(0, WrapNs) = Msec(WrapNs) - Msec(0)
    BY <1>1, DiffIsMsec
  <2> QED  BY <1>1, <2>1, SMT
<1> QED  BY <1>2, SMT DEF GetTimespecDiffMs, U16

-----------------------------------------------------------------------------
TypeInv ==
  /\ clock \in Nat /\ start \in Nat /\ now \in Nat
  /\ at \in {"poll", "while", "sleep", "stamp"}

LEMMA TypeInit == Init => TypeInv
BY DEF Init, TypeInv

LEMMA TypeNext == TypeInv /\ [Next]_vars => TypeInv'
BY DEF TypeInv, Next, Begin, While, Wake, Stamp, Time, Shutdown, vars

(* While a wait is going on, nothing but the test of the loop ends it, and *)
(* nothing but waking up moves now.                                        *)
LEMMA WaitSteps ==
  ASSUME TypeInv, [Next]_vars
  PROVE  \/ While
         \/ Begin
         \/ Wake /\ start' = start /\ at' = "while"
         \/ /\ at' = at \/ at' = "poll"
            /\ start' = start /\ now' = now
            /\ timestamp_thread_exit => timestamp_thread_exit'
BY DEF TypeInv, Next, Begin, While, Wake, Stamp, Time, Shutdown, vars

EarlyInv == TypeInv /\ NeverEarly

LEMMA EarlyNext == EarlyInv /\ [Next]_vars => EarlyInv'
<1> SUFFICES ASSUME EarlyInv, [Next]_vars PROVE NeverEarly'
  BY TypeNext DEF EarlyInv
<1>0. TypeInv /\ NeverEarly
  BY DEF EarlyInv
<1>1. CASE While
  <2> SUFFICES ASSUME at' = "stamp", ~ timestamp_thread_exit'
               PROVE  now' - start' > DelayNs - MsNs
    BY DEF NeverEarly
  <2>1. ~ (GetTimespecDiffMs(start, now) < 10000) /\ now' = now /\ start' = start
    BY <1>1 DEF While, TIMESTAMP_PRINT_DELAY_MS
  <2>2. start \in Nat /\ now \in Nat
    BY <1>0 DEF TypeInv
  <2>3. Msec(now) - Msec(start) >= 10000
    <3>1. GetTimespecDiffMs(start, now) > 0 => GetTimespecDiffMs(start, now) <= Msec(now) - Msec(start)
      BY <2>2, DiffWraps
    <3>2. GetTimespecDiffMs(start, now) \in Nat
      BY <2>2, DiffWraps
    <3>3. Msec(now) \in Nat /\ Msec(start) \in Nat
      BY <2>2, MsecDistance
    <3> QED  BY <3>1, <3>2, <3>3, <2>1, SMT
  <2> QED  BY <2>1, <2>2, <2>3, MsecDistance
<1>2. CASE Begin \/ (Wake /\ at' = "while")
  BY <1>2 DEF Begin, NeverEarly
<1>3. CASE /\ at' = at \/ at' = "poll"
           /\ start' = start /\ now' = now
           /\ timestamp_thread_exit => timestamp_thread_exit'
  BY <1>0, <1>3 DEF NeverEarly
<1> QED  BY <1>0, <1>1, <1>2, <1>3, WaitSteps

(* No timestamp comes before its ten seconds, whatever the clock reads and *)
(* however the difference wraps.                                           *)
THEOREM StampNeverEarly == Spec => []NeverEarly
<1>1. Init => EarlyInv
  BY TypeInit DEF Init, EarlyInv, NeverEarly
<1>2. EarlyInv => NeverEarly
  BY DEF EarlyInv
<1> QED  BY <1>1, EarlyNext, <1>2, PTL DEF Spec

-----------------------------------------------------------------------------
(* In front of the test, the wait has seen at most ten seconds and the     *)
(* distance of one prompt read.                                            *)
BeforeWrap == at = "while" => LastRead - start < WrapNs - MsNs

MissInv == TypeInv /\ NotMissed /\ BeforeWrap

LEMMA NsNumbers == DelayNs \in Nat /\ WrapNs \in Nat /\ MsNs \in Nat /\ 0 < DelayNs /\ DelayNs + MsNs < WrapNs
BY SMT DEF DelayNs, MsNs, WrapNs, TIMESTAMP_PRINT_DELAY_MS

LEMMA NsSums ==
  /\ \A n \in Nat : n - n < WrapNs - MsNs
  /\ \A t1, t2, t3 \in Nat :
       t2 - t1 < DelayNs /\ t3 - t2 <= WrapNs - DelayNs - MsNs => t3 - t1 < WrapNs - MsNs
BY NsNumbers, SMT

LEMMA MissNext == MissInv /\ [Next]_vars /\ [PromptStep]_vars => MissInv'
<1> SUFFICES ASSUME MissInv, [Next]_vars, [PromptStep]_vars PROVE NotMissed' /\ BeforeWrap'
  BY TypeNext DEF MissInv
<1>0. /\ TypeInv /\ NotMissed /\ BeforeWrap
      /\ start \in Nat /\ now \in Nat /\ clock \in Nat
      /\ LastRead \in Nat /\ LastRead >= start
  BY DEF MissInv, TypeInv, LastRead
<1>1. CASE While
  <2>1. at = "while" /\ start' = start /\ now' = now /\ at' # "while"
    BY <1>1 DEF While
  <2>2. ASSUME at' = "sleep" PROVE LastRead - start < DelayNs
    <3>1. CASE now < start
      BY <3>1, <1>0, NsNumbers, SMT DEF LastRead
    <3>2. CASE ~ (now < start)
      <4>1. GetTimespecDiffMs(start, now) < 10000
        BY <1>1, <2>2 DEF While, TIMESTAMP_PRINT_DELAY_MS
      <4>2. start <= now /\ LastRead = now /\ now - start < WrapNs - MsNs
        BY <3>2, <1>0, <2>1 DEF BeforeWrap, LastRead
      <4>3. /\ Msec(start) \in Nat /\ Msec(now) \in Nat
            /\ Msec(start) <= Msec(now) /\ Msec(now) - Msec(start) <= 65535
        BY <1>0, <4>2, MsecDistance
      <4>4. GetTimespecDiffMs(start, now) = Msec(now) - Msec(start)
        <5>1. 0 <= Msec(now) - Msec(start)
          BY <4>3, SMT
        <5> QED  BY <1>0, <4>3, <5>1, DiffWraps
      <4> QED  BY <1>0, <4>1, <4>2, <4>4, MsecDistance
    <3> QED  BY <3>1, <3>2
  <2> QED  BY <2>1, <2>2 DEF NotMissed, BeforeWrap, LastRead
<1>2. CASE Begin
  <2>1. start' \in Nat /\ now' = 0 /\ at' = "while"
    BY <1>0, <1>2 DEF Begin
  <2>2. LastRead' = start'
    BY <2>1 DEF LastRead
  <2>3. start' - start' < WrapNs - MsNs
    BY <2>1, NsSums
  <2> QED  BY <2>1, <2>2, <2>3 DEF NotMissed, BeforeWrap
<1>3. CASE Wake /\ start' = start /\ at' = "while"
  <2>1. at = "sleep" /\ now' \in Nat /\ LastRead - start < DelayNs
    BY <1>0, <1>3 DEF Wake, NotMissed
  <2>2. now' - LastRead <= WrapNs - DelayNs - MsNs
    BY <1>3, <2>1 DEF PromptStep, vars
  <2>3. LastRead' = IF now' < start THEN start ELSE now'
    BY <1>3 DEF LastRead
  <2>4. LastRead' - start < WrapNs - MsNs
    <3>1. CASE now' < start
      BY <1>0, <2>3, <3>1, NsNumbers, SMT
    <3>2. CASE ~ (now' < start)
      <4>1. LastRead' = now'
        BY <2>3, <3>2
      <4>2. now' - start < WrapNs - MsNs
        BY <1>0, <2>1, <2>2, NsSums
      <4> QED  BY <4>1, <4>2
    <3> QED  BY <3>1, <3>2
  <2> QED  BY <1>3, <2>4 DEF NotMissed, BeforeWrap
<1>4. CASE (at' = at \/ at' = "poll") /\ start' = start /\ now' = now
  BY <1>0, <1>4 DEF NotMissed, BeforeWrap, LastRead
<1> QED  BY <1>0, <1>1, <1>2, <1>3, <1>4, WaitSteps

(* When the thread reads the clock in time, it does not pass over the end  *)
(* of the ten seconds, although the difference wraps.                      *)
THEOREM StampNotMissed == Spec /\ Prompt => []NotMissed
<1>1. Init => MissInv
  BY TypeInit DEF Init, MissInv, NotMissed, BeforeWrap
<1>2. MissInv => NotMissed
  BY DEF MissInv
<1> QED  BY <1>1, MissNext, <1>2, PTL DEF Spec, Prompt
=============================================================================
