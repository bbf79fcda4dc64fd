----------------------------- MODULE LoopTimer -----------------------------
(***************************************************************************)
(* The timer of loop() in NB-IoT_node.ino: sendNextAt and millis() are     *)
(* unsigned numbers of the same width, so the clock comes round (after 49  *)
(* days on the board) and so may millis() + 10000.                         *)
(***************************************************************************)
EXTENDS Integers

CONSTANTS
    Period,      \* the clock counts modulo Period (2^32 on the board)
    Interval,    \* the pause between packets (10000)
    MaxSend      \* the longest an iteration that sends may take (a bound)

ASSUME TimerAssumption ==
    /\ Period \in Nat /\ Interval \in Nat /\ MaxSend \in Nat
    /\ 0 < Interval /\ Interval < Period

VARIABLES
    now,           \* millis()
    sendNextAt,    \* as in the sketch
    lastSend,      \* the clock when the last packet was done
    elapsed        \* the time since then, up to Interval

vars == <<now, sendNextAt, lastSend, elapsed>>

Clock == 0 .. Period - 1

(* Unsigned addition. *)
LaterUnbounded(t, k) == t + k  \* mutant
Later(t, k) == (t + k) % Period

AtMostInterval(k) == IF k > Interval THEN Interval ELSE k

(* setup() may take any time; sendNextAt is 0 and nothing was sent yet. *)
Init ==
    /\ now \in Clock
    /\ sendNextAt = 0
    /\ lastSend = Period - 1
    /\ elapsed = Interval

DueLate == sendNextAt + 1 < now  \* mutant
Due == sendNextAt < now

(* Mutant: the pause starts when the iteration does. *)
SendFromStart(k) ==
    /\ Due
    /\ now' = Later(now, k)
    /\ sendNextAt' = Later(now, Interval)
    /\ lastSend' = now'
    /\ elapsed' = 0

(* An iteration that sends; the pause starts when the packet is out. *)
Send(k) ==
    /\ Due
    /\ now' = Later(now, k)
    /\ sendNextAt' = Later(now', Interval)
    /\ lastSend' = now'
    /\ elapsed' = 0

(* Idle iterations, far shorter than a tick, until the clock moves on. *)
Wait ==
    /\ ~Due
    /\ now' = Later(now, 1)
    /\ elapsed' = AtMostInterval(elapsed + 1)
    /\ UNCHANGED <<sendNextAt, lastSend>>

Sends == \E k \in 0 .. MaxSend : Send(k)

Next == Sends \/ Wait

Spec == Init /\ [][Next]_vars

-----------------------------------------------------------------------------
TypeOK ==
    /\ now \in Clock
    /\ sendNextAt \in Clock
    /\ lastSend \in Clock
    /\ elapsed \in 0 .. Interval

(* Two packets are closer together than the interval only if the sum of the
   clock and the interval came round when the first was done: a burst before
   the clock itself comes round (NB-IoT_node.ino:86 and 170). *)
SpacedUnlessSumWraps ==
    [][Sends => elapsed = Interval \/ lastSend + Interval >= Period]_vars
=============================================================================
