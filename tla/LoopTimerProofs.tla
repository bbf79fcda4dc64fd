-------------------------- MODULE LoopTimerProofs --------------------------
(***************************************************************************)
(* The pause between packets, for a clock of any width.                    *)
(***************************************************************************)
EXTENDS LoopTimer, TLAPS

(* While the interval is running and its sum did not come round, the clock
   and sendNextAt are exactly as far from the last packet as they seem. *)
Running ==
    elapsed < Interval /\ lastSend + Interval < Period
        => now = lastSend + elapsed /\ sendNextAt = lastSend + Interval

Inv == TypeOK /\ Running

LEMMA LaterType == ASSUME NEW t \in Nat, NEW k \in Nat
                   PROVE  Later(t, k) \in Clock
  BY TimerAssumption DEF Later, Clock

LEMMA LaterPlain == ASSUME NEW t \in Nat, NEW k \in Nat, t + k < Period
                    PROVE  Later(t, k) = t + k
  BY TimerAssumption DEF Later

LEMMA InitInv == Init => Inv
  BY TimerAssumption DEF Init, Inv, TypeOK, Running, Clock

LEMMA StepInv == Inv /\ [Next]_vars => Inv'
  <1> SUFFICES ASSUME Inv, [Next]_vars PROVE Inv'
    OBVIOUS
  <1>1. now \in Nat /\ sendNextAt \in Nat /\ lastSend \in Nat /\ elapsed \in Nat
        /\ Interval \in Nat /\ Period \in Nat
    BY TimerAssumption DEF Inv, TypeOK, Clock
  <1>2. ASSUME NEW k \in 0 .. MaxSend, Send(k) PROVE Inv'
    <2>1. k \in Nat /\ now' \in Clock /\ now' \in Nat
      BY <1>1, <1>2, LaterType, TimerAssumption DEF Send, Clock
    <2>2. sendNextAt' \in Clock
      BY <1>1, <1>2, <2>1, LaterType DEF Send
    <2>3. TypeOK'
      BY <1>1, <1>2, <2>1, <2>2 DEF Send, TypeOK
    <2>4. Running'
      BY <1>1, <1>2, <2>1, LaterPlain DEF Send, Running
    <2> QED
      BY <2>3, <2>4 DEF Inv
  <1>3. CASE Wait
    <2>1. now' \in Clock
      BY <1>1, <1>3, LaterType DEF Wait
    <2>2. elapsed' \in 0 .. Interval
      BY <1>1, <1>3 DEF Wait, AtMostInterval
    <2>3. TypeOK'
      BY <1>3, <2>1, <2>2 DEF Wait, Inv, TypeOK
    <2>4. Running'
      BY <1>1, <1>3, LaterPlain DEF Wait, AtMostInterval, Inv, Running
    <2> QED
      BY <2>3, <2>4 DEF Inv
  <1>4. CASE UNCHANGED vars
    BY <1>4 DEF vars, Inv, TypeOK, Running
  <1> QED
    BY <1>2, <1>3, <1>4 DEF Next, Sends

THEOREM Invariance == Spec => []Inv
  BY InitInv, StepInv, PTL DEF Spec

(* Packets keep their distance unless the sum of clock and interval wraps,
   whatever the width of the clock and the time a send takes. *)
THEOREM PauseIsKept == Spec => SpacedUnlessSumWraps
  <1>1. Inv /\ [Next]_vars
          => [Sends => elapsed = Interval \/ lastSend + Interval >= Period]_vars
    BY TimerAssumption
       DEF Inv, TypeOK, Running, Clock, Sends, Send, Due, vars
  <1> QED
    BY <1>1, Invariance, PTL DEF Spec, SpacedUnlessSumWraps
=============================================================================
