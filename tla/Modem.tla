------------------------------- MODULE Modem -------------------------------
(***************************************************************************)
(* The SARA-N211 module as ATT_NBIOT.cpp uses it, and the serial line to   *)
(* it.  It works off its commands in order, at its own pace, and answers   *)
(* with lines; it holds the datagrams that arrive until they are read, and *)
(* announces each.  It may refuse commands; while it boots it hears none.  *)
(***************************************************************************)
EXTENDS Integers, Sequences

CONSTANTS
    Param,          \* the parameters AT+NCONFIG knows
    Length,         \* the lengths of the server's datagrams
    MaxRefusals,    \* commands the modem answers with an error (a bound)
    MaxArrivals     \* datagrams that arrive (a bound)

ASSUME ModemAssumption ==
    Length \subseteq Nat \ {0} /\ MaxRefusals \in Nat /\ MaxArrivals \in Nat

VARIABLES
    modem,       \* booting, radio, apn, the parameters that are right, sockets
    cmds,        \* the commands it has yet to work off
    lines,       \* the lines it has sent and the node has not read
    rx,          \* its buffer: for each datagram, the length and what is left
    refusals,
    arrivals,
    overlap      \* did it ever hold two datagrams, of different lengths even?

modemVars == <<modem, cmds, lines, rx, refusals, arrivals, overlap>>

Least(a, b) == IF a < b THEN a ELSE b

(* Commands and lines: what they say, a number and some parameters. *)
Text(kind, n, on) == [kind |-> kind, n |-> n, on |-> on]
Plain(kind) == Text(kind, 0, {})

ModemInit ==
    /\ modem \in [booting : {TRUE}, radio : {FALSE}, apn : {FALSE},
                  right : SUBSET Param, sockets : {0}]
    /\ cmds = <<>>
    /\ lines = <<>>
    /\ rx = <<>>
    /\ refusals = 0
    /\ arrivals = 0
    /\ overlap = "none"

(* The node's power pin goes low and high again. *)
PowerCycle ==
    /\ modem' = [modem EXCEPT !.booting = TRUE, !.radio = FALSE,
                              !.apn = FALSE, !.sockets = 0]
    /\ cmds' = <<>>
    /\ lines' = <<>>
    /\ rx' = <<>>
    /\ UNCHANGED <<refusals, arrivals, overlap>>

(* A command reaches the modem, unless it boots. *)
Sent(c) == cmds' = IF modem.booting THEN cmds ELSE Append(cmds, c)

-----------------------------------------------------------------------------
(* With AUTOCONNECT the radio may be on already when it says it is up. *)
BootDone ==
    /\ modem.booting
    /\ \E on \in BOOLEAN :
          modem' = [modem EXCEPT !.booting = FALSE, !.radio = on]
    /\ lines' = lines \o <<Plain("text"), Plain("OK")>>
    /\ UNCHANGED <<cmds, rx, refusals, arrivals, overlap>>

WorksOff(op) == ~modem.booting /\ cmds # <<>> /\ Head(cmds).kind = op

Answers(m, info) ==
    /\ modem' = m
    /\ cmds' = Tail(cmds)
    /\ lines' = lines \o info \o <<Plain("OK")>>
    /\ UNCHANGED <<refusals, arrivals, overlap>>

Restarts ==
    /\ WorksOff("NRB")
    /\ modem' = [modem EXCEPT !.booting = TRUE, !.radio = FALSE,
                              !.apn = FALSE, !.sockets = 0]
    /\ cmds' = <<>>
    /\ rx' = <<>>
    /\ UNCHANGED <<lines, refusals, arrivals, overlap>>

Obeys ==
    /\ UNCHANGED rx
    /\ \/ WorksOff("AT") /\ Answers(modem, <<>>)
       \/ WorksOff("CFUN") /\
             Answers([modem EXCEPT !.radio = (Head(cmds).n = 1)], <<>>)
       \/ WorksOff("CGDCONT") /\ Answers([modem EXCEPT !.apn = TRUE], <<>>)
       \/ WorksOff("COPS") /\ Answers(modem, <<>>)
       \/ WorksOff("NCONFIG") /\
             Answers([modem EXCEPT !.right = @ \cup Head(cmds).on], <<>>)
       \/ WorksOff("NCONFIG?") /\
             Answers(modem, <<Text("+NCONFIG", 0, modem.right)>>)
       \/ WorksOff("CGSN") /\ Answers(modem, <<Plain("+CGSN")>>)
       \/ WorksOff("NSOCR") /\ Answers([modem EXCEPT !.sockets = @ + 1],
                                       <<Text("number", modem.sockets, {})>>)
       \/ WorksOff("NSOST") /\ Answers(modem, <<Plain("text")>>)

(* The two answers that depend on the network: 0 for no signal, not attached. *)
Reports(n) ==
    /\ UNCHANGED rx
    /\ \/ WorksOff("CSQ") /\ Answers(modem, <<Text("+CSQ", n, {})>>)
       \/ WorksOff("CGATT?") /\ (n = 1 => modem.radio)
             /\ Answers(modem, <<Text("+CGATT", n, {})>>)

(* AT+NSORF takes at most k bytes of the oldest datagram, the rest stays. *)
HandsOver ==
    /\ WorksOff("NSORF")
    /\ LET k == Head(cmds).n
           d == Head(rx)
           n == Least(k, d.left)
       IN  IF rx = <<>>
           THEN UNCHANGED rx /\ Answers(modem, <<>>)
           ELSE /\ rx' = IF n = d.left THEN Tail(rx)
                         ELSE <<[d EXCEPT !.left = @ - n]>> \o Tail(rx)
                /\ Answers(modem,
                       <<Text(IF n = d.len THEN "whole" ELSE "piece", n, {})>>)

Refuses ==
    /\ ~modem.booting
    /\ cmds # <<>>
    /\ Head(cmds).kind \notin {"AT", "NRB"}
    /\ refusals < MaxRefusals
    /\ refusals' = refusals + 1
    /\ cmds' = Tail(cmds)
    /\ lines' = Append(lines, Plain("ERROR"))
    /\ UNCHANGED <<modem, rx, arrivals, overlap>>

Arrives(k) ==
    /\ ~modem.booting /\ modem.sockets > 0
    /\ arrivals < MaxArrivals
    /\ arrivals' = arrivals + 1
    /\ rx' = Append(rx, [len |-> k, left |-> k])
    /\ lines' = Append(lines, Text("+NSONMI", k, {}))
    /\ overlap' = IF \E i \in DOMAIN rx : rx[i].len # k THEN "mixed"
                  ELSE IF rx # <<>> /\ overlap = "none" THEN "alike"
                  ELSE overlap
    /\ UNCHANGED <<modem, cmds, refusals>>

ModemStep ==
    \/ Restarts
    \/ Obeys
    \/ \E n \in 0 .. 1 : Reports(n)
    \/ HandsOver
    \/ Refuses

ModemNext == BootDone \/ ModemStep \/ \E k \in Length : Arrives(k)

=============================================================================
