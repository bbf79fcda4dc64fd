---------------------------- MODULE DriverProofs ----------------------------
(***************************************************************************)
(* The order of commands and answers between the driver and the modem, and *)
(* what it means for the bytes the sketch counts and copies, for any       *)
(* parameters, lengths, bounds and width of an int.                        *)
(***************************************************************************)
EXTENDS Driver, SequenceTheorems, TLAPS

Final == {"OK", "ERROR"}
Info == {"+CSQ", "+CGATT"}

Cmds(kinds) == \A i \in 1 .. Len(cmds) : cmds[i].kind \in kinds
Lines(kinds) == \A i \in 1 .. Len(lines) : lines[i].kind \in kinds

-----------------------------------------------------------------------------
(* What holds whatever is shifted: no counter leaves its range, what a parser
   has accepted is for the command that waits, and a socket is asked for once. *)
TriesOK ==
    /\ pc = "AT" => tries < MaxAlive
    /\ pc \in {"CSQ", "CGATT?"} => tries < MaxPolls
    /\ pc \notin {"AT", "CSQ", "CGATT?", "failed"} => tries = 0

SocketOK ==
    /\ pc \in Connecting \ {"NSOCR"} =>
          modem.sockets = 0 /\ \A i \in 1 .. Len(cmds) : cmds[i].kind # "NSOCR"
    /\ \A i \in 1 .. Len(cmds) : cmds[i].kind = "NSOCR" =>
          /\ modem.sockets = 0
          /\ \A j \in 1 .. Len(cmds) : cmds[j].kind = "NSOCR" => j = i

TypeInv ==
    /\ TypeOK
    /\ TriesOK
    /\ SocketOK
    /\ got = Nothing \/ got.kind \in Accepted

-----------------------------------------------------------------------------
(* As long as nothing is shifted. *)

(* A modem that boots holds nothing, and a restart that is asked for is all it
   will answer to. *)
BootOK ==
    /\ modem.booting => lines = <<>> /\ cmds = <<>>
    /\ \A i \in 1 .. Len(cmds) :
          cmds[i].kind = "NRB" => i = 1 /\ lines = <<>> /\ modem.sockets = 0

(* The driver tries until all is quiet. *)
Quieting ==
    /\ pc = "AT" => Cmds({"AT", "NRB"}) /\ Lines({"text", "OK"})
    /\ pc = "purge" => Cmds({"AT"}) /\ Lines({"text", "OK"})
    /\ pc = "NRB" => Cmds({"NRB"}) /\ Lines({"text", "OK"})
    /\ pc \in Connecting \cup Looping => pc \in {"AT", "NRB"} \/ ~modem.booting
    /\ pc \in Connecting \ {"NSOCR"} => rx = <<>>
    /\ pc \in Connecting \ {"NSOCR"} => pending = 0

(* Then one command is asked at a time; its answer ends with the one line that
   says whether it was obeyed. *)
Single == {"CFUN", "NCONFIG?", "NCONFIG", "CGDCONT", "CFUN=1", "COPS", "CGSN"}
Op == IF pc = "CFUN=1" THEN "CFUN" ELSE pc
Waiting == lines = <<>> /\ Len(cmds) = 1 /\ cmds[1].kind = Op
            /\ (pc = "CFUN=1" => cmds[1].n = 1)
Ended ==
    /\ cmds = <<>> /\ lines # <<>>
    /\ \A i \in 1 .. Len(lines) :
          /\ lines[i].kind \in Final <=> i = Len(lines)
          /\ lines[i].kind # "+NSONMI"
    /\ lines[Len(lines)].kind = "OK" =>
          /\ pc = "CGDCONT" => modem.apn
          /\ pc = "CFUN=1" => modem.radio
          /\ pc = "CGSN" => deviceId \/ \E i \in 1 .. Len(lines) : lines[i].kind = "+CGSN"
OneByOne ==
    /\ pc \in Single => Waiting \/ Ended
    /\ pc \in {"CFUN=1", "COPS", "CGSN", "CSQ", "CGATT?", "NSOCR"} \cup Looping
          => modem.apn
    /\ pc \in {"COPS", "CGSN", "CSQ", "CGATT?", "NSOCR"} \cup Looping => modem.radio
    /\ pc \in {"CSQ", "CGATT?", "NSOCR"} \cup Looping => deviceId

(* The polls of signal and attachment may be answered late, but an answer with
   a report in front of its OK is never taken for one without. *)
Paired ==
    /\ Lines(Info \cup Final)
    /\ \A i \in 1 .. Len(lines) : lines[i].kind \in Info =>
          i < Len(lines) /\ lines[i + 1].kind = "OK"
    /\ \A i \in 2 .. Len(lines) : lines[i].kind = "OK" => lines[i - 1].kind \in Info
Polling ==
    /\ pc \in {"CSQ", "CGATT?"} => Cmds({"CSQ", "CGATT?"}) /\ Paired
    /\ pc = "CGATT?" /\ got # Nothing => lines # <<>> /\ lines[1].kind = "OK"

-----------------------------------------------------------------------------
(* k bytes are backed by a datagram the modem holds; by each, unless datagrams
   of different lengths were held together. *)
Backed(k) ==
    /\ k \in 1 .. ByteRange - 1
    /\ \E i \in 1 .. Len(rx) : k <= rx[i].left
    /\ overlap # "mixed" => \A i \in 1 .. Len(rx) : rx[i].len = k
Counted ==
    /\ -ByteRange < Signed(pending) /\ Signed(pending) < ByteRange
    /\ \/ Signed(pending) = 0
       \/ Signed(pending) < 0 /\ overlap = "mixed"
       \/ Backed(Signed(pending))
Untouched == overlap # "mixed" => \A i \in 1 .. Len(rx) : rx[i].left = rx[i].len

(* A backed announcement. *)
Announces(l) == l.kind = "+NSONMI" /\ Backed(l.n)

(* A count that m bytes have not been taken from yet which the modem has
   handed over. *)
Lags(k, m) ==
    /\ k \in 1 .. ByteRange - 1
    /\ k <= m \/ \E i \in 1 .. Len(rx) : k <= rx[i].left + m
    /\ overlap # "mixed" => k = m

(* The command has not been answered. *)
Unanswered(op) ==
    /\ Len(cmds) = 1 /\ cmds[1].kind = op
    /\ \A i \in 1 .. Len(lines) : Announces(lines[i])
    /\ Counted /\ got = Nothing
(* It has been, without a datagram. *)
Answered(kinds, infos) ==
    /\ cmds = <<>> /\ Counted
    /\ \E e \in 1 .. Len(lines) :
        /\ lines[e].kind \in kinds
        /\ \A i \in 1 .. Len(lines) :
              /\ i < e => Announces(lines[i]) \/ lines[i].kind \in infos
              /\ i > e => Announces(lines[i])
(* It has been, and m bytes of a datagram handed over. *)
HandedOver(m, kind) ==
    /\ cmds = <<>>
    /\ m \in 1 .. ByteRange - 1 /\ Lags(Signed(pending), m)
    /\ overlap # "mixed" => amount = m /\ kind = "whole"
    /\ \E e \in 1 .. Len(lines) :
        /\ lines[e].kind = "OK"
        /\ IF got = Nothing
           THEN /\ e > 1 /\ lines[e - 1].n = m
                /\ kind \in {"whole", "piece"} /\ lines[e - 1].kind = kind
           ELSE e = 1 /\ got.n = m /\ got.kind = kind
        /\ \A i \in 1 .. Len(lines) :
              /\ i < e - 1 => lines[i].kind = "+NSONMI" /\ Lags(lines[i].n, m)
              /\ i > e => Announces(lines[i])

(* The answers to polls are still to come, and the first of them ends the
   attempt to create a socket; or there is none, and nothing has arrived. *)
NotYet ==
    /\ got = Nothing /\ pending = 0
    /\ Cmds({"CSQ", "CGATT?", "NSOCR"})
    /\ \/ lines # <<>> /\ lines[1].kind \in Info \cup {"ERROR"}
       \/ /\ lines = <<>> /\ modem.sockets = 0 /\ cmds # <<>>
          /\ \/ cmds[1].kind \in {"CSQ", "CGATT?"}
             \/ Len(cmds) = 1 /\ cmds[1].kind = "NSOCR" /\ rx = <<>>

Opening ==
    pc = "NSOCR" => NotYet \/ (modem.sockets = 1 /\ Answered({"OK"}, {"number"}))
Idle ==
    pc = "loop" => /\ cmds = <<>> /\ Counted
                   /\ \A i \in 1 .. Len(lines) : Announces(lines[i])
Receiving ==
    pc = "NSORF" =>
        /\ amount \in 1 .. ByteRange - 1
        /\ \/ /\ Unanswered("NSORF") /\ cmds[1].n = amount
             /\ Backed(amount) /\ Backed(Signed(pending))
           \/ Answered({"ERROR"}, {}) /\ got = Nothing
           \/ \E m \in 1 .. ByteRange - 1, kind \in {"whole", "piece"} :
                 HandedOver(m, kind)
Sending == pc = "NSOST" => Unanswered("NSOST") \/ Answered(Final, {"text"})
Reading ==
    /\ pc \in Looping => modem.sockets = 1
    /\ pc # "copying"
    /\ pc \in Looping \cup {"NSOCR"} => Untouched
    /\ overlap # "mixed" => stored \in {"nothing", "whole"}

Orderly ==
    /\ BootOK /\ Quieting /\ OneByOne /\ Polling
    /\ Opening /\ Idle /\ Receiving /\ Sending /\ Reading

-----------------------------------------------------------------------------
(* Unless the purge before setApn has left answers behind.  Then each later
   command gets the answer of an earlier one, up to AT+CGATT?, which is asked
   until a report comes; behind that report only answers to the same command
   are left, and the first of them ends the attempt to create a socket. *)
Trailing == {"CGDCONT", "CFUN=1", "COPS", "CGSN", "CSQ", "CGATT?"}
Earlier == {"AT", "CGDCONT", "CFUN", "COPS", "CGSN", "CSQ"}
Known == Earlier \cup {"CGATT?", "NSOCR"}
Late == {"+CGATT", "ERROR"}

(* Two answers are still to come, or more. *)
Overdue ==
    \/ Len(cmds) >= 2
    \/ Len(cmds) = 1 /\ \E i \in 1 .. Len(lines) : lines[i].kind \in Final
    \/ \E i, j \in 1 .. Len(lines) :
          i < j /\ lines[i].kind \in Final /\ lines[j].kind \in Final

Attached ==
    /\ \A i, j \in 1 .. Len(cmds) :
          i < j /\ cmds[i].kind = "CGATT?" => cmds[j].kind = "CGATT?"
    /\ \A i \in 1 .. Len(lines) : lines[i].kind = "+CGATT" =>
          /\ Cmds({"CGATT?"})
          /\ i + 1 \in 1 .. Len(lines) /\ lines[i + 1].kind = "OK"
          /\ i + 2 \in 1 .. Len(lines) => lines[i + 2].kind \in Late
    /\ got # Nothing =>
          /\ Cmds({"CGATT?"})
          /\ 1 \in 1 .. Len(lines) /\ lines[1].kind = "OK"
          /\ 2 \in 1 .. Len(lines) => lines[2].kind \in Late

Unopened ==
    /\ got = Nothing
    /\ IF Len(lines) = 0
       THEN modem.sockets = 0 /\ 1 \in 1 .. Len(cmds) /\ cmds[1].kind = "CGATT?"
       ELSE lines[1].kind \in Late

Behind ==
    /\ ~modem.booting /\ Cmds(Known)
    /\ overlap # "mixed" => stored \in {"nothing", "whole"}
    /\ \/ /\ pc \in Trailing \ {"CGATT?"} /\ Overdue
          /\ Cmds(Earlier)
          /\ \A i \in 1 .. Len(lines) : lines[i].kind # "+CGATT"
       \/ pc = "CGATT?" /\ Overdue /\ Attached
       \/ pc = "NSOCR" /\ Unopened

-----------------------------------------------------------------------------
(* Nothing is left behind before the reboot: a modem that boots hears no AT,
   and the OK it ends with is the first the driver reads. *)
Starting ==
    ~rebooted /\ pc \in {"AT", "purge"} =>
        /\ Len(cmds) = 0
        /\ pc = "AT" /\ modem.booting => Len(lines) = 0
        /\ pc = "AT" /\ ~modem.booting =>
              /\ Len(lines) \in 1 .. 2 /\ lines[Len(lines)].kind = "OK"
              /\ Len(lines) = 2 => lines[1].kind = "text"
        /\ pc = "purge" => Len(lines) = 0 /\ ~modem.booting

(* The modem never stops within an answer. *)
Closed ==
    Len(lines) # 0 => lines[Len(lines)].kind \in Final \cup {"+NSONMI"}

Inv == TypeInv /\ Starting /\ Closed /\ (~shifted => Orderly \/ Behind)

-----------------------------------------------------------------------------
(* Sequences that grow by one or two and lose their first element. *)
LEMMA Appending ==
    ASSUME NEW S, NEW s \in Seq(S), NEW x \in S
    PROVE  /\ Append(s, x) \in Seq(S) /\ Append(s, x) # <<>>
           /\ Len(s) \in Nat /\ Len(Append(s, x)) = Len(s) + 1
           /\ \A i \in 1 .. Len(s) : Append(s, x)[i] = s[i]
           /\ Append(s, x)[Len(s) + 1] = x
           /\ s \o <<>> \o <<x>> = Append(s, x)
BY AppendProperties, AppendIsConcat, ConcatEmptySeq, LenProperties

LEMMA AppendingTwo ==
    ASSUME NEW S, NEW s \in Seq(S), NEW x \in S, NEW y \in S, NEW t,
           t = s \o <<x>> \o <<y>> \/ t = s \o <<x, y>>
    PROVE  /\ t \in Seq(S) /\ t # <<>>
           /\ Len(s) \in Nat /\ Len(t) = Len(s) + 2
           /\ \A i \in 1 .. Len(s) : t[i] = s[i]
           /\ t[Len(s) + 1] = x /\ t[Len(s) + 2] = y
<1>1. Len(s) \in Nat /\ <<x>> \in Seq(S) /\ <<y>> \in Seq(S) /\ <<x, y>> \in Seq(S)
    BY LenProperties
<1>2. CASE t = s \o <<x, y>>
    BY <1>1, <1>2, ConcatProperties, EmptySeq
<1>3. CASE t = s \o <<x>> \o <<y>>
    <2> DEFINE u == Append(s, x)
    <2>1. /\ u \in Seq(S) /\ Len(u) = Len(s) + 1
          /\ \A i \in 1 .. Len(s) : u[i] = s[i]
          /\ u[Len(s) + 1] = x
        BY AppendProperties
    <2>2. t = Append(u, y)
        BY <1>3, <2>1, AppendIsConcat
    <2>3. /\ t \in Seq(S) /\ t # <<>> /\ Len(t) = Len(u) + 1
          /\ \A i \in 1 .. Len(u) : t[i] = u[i]
          /\ t[Len(u) + 1] = y
        BY <2>1, <2>2, AppendProperties
    <2> QED
        BY <1>1, <2>1, <2>3
<1> QED
    BY <1>2, <1>3

LEMMA Shortening ==
    ASSUME NEW S, NEW s \in Seq(S), s # <<>>
    PROVE  /\ Tail(s) \in Seq(S) /\ Head(s) = s[1] /\ s[1] \in S
           /\ Len(s) \in Nat \ {0} /\ Len(Tail(s)) = Len(s) - 1
           /\ \A i \in 1 .. Len(s) - 1 : Tail(s)[i] = s[i + 1]
BY HeadTailProperties, EmptySeq

LEMMA Emptiness ==
    ASSUME NEW S, NEW s \in Seq(S)
    PROVE  Len(s) \in Nat /\ (s = <<>> <=> Len(s) = 0)
BY EmptySeq, LenProperties

-----------------------------------------------------------------------------
(* What a step of the modem does to its commands, lines and datagrams. *)
ModemTypeOK ==
    /\ modem \in [booting : BOOLEAN, radio : BOOLEAN, apn : BOOLEAN,
                  right : SUBSET Param, sockets : 0 .. 1]
    /\ cmds \in Seq(Command) /\ lines \in Seq(Line) /\ rx \in Seq(Datagram)

Worked ==
    /\ Len(cmds) \in Nat \ {0} /\ Len(cmds') = Len(cmds) - 1
    /\ \A i \in 1 .. Len(cmds) - 1 : cmds'[i] = cmds[i + 1]
Ends(kind) ==
    /\ Len(lines) \in Nat /\ Len(lines') = Len(lines) + 1
    /\ \A i \in 1 .. Len(lines) : lines'[i] = lines[i]
    /\ lines'[Len(lines) + 1] = Plain(kind)
Tells(kinds, n) ==
    /\ Len(lines) \in Nat /\ Len(lines') = Len(lines) + 2
    /\ \A i \in 1 .. Len(lines) : lines'[i] = lines[i]
    /\ lines'[Len(lines) + 1].kind \in kinds /\ lines'[Len(lines) + 1].n = n
    /\ lines'[Len(lines) + 2] = Plain("OK")

InfoOf(op) ==
    CASE op = "NCONFIG?" -> "+NCONFIG"
      [] op = "CGSN"     -> "+CGSN"
      [] op = "CSQ"      -> "+CSQ"
      [] op = "CGATT?"   -> "+CGATT"
      [] op = "NSOCR"    -> "number"
      [] OTHER           -> "text"

(* The oldest datagram loses n bytes, or goes when it has no more. *)
Gives(k, n) ==
    /\ Len(rx) \in Nat \ {0} /\ rx[1] \in Datagram /\ n = Least(k, rx[1].left)
    /\ \/ /\ n = rx[1].left /\ Len(rx') = Len(rx) - 1
          /\ \A i \in 1 .. Len(rx) - 1 : rx'[i] = rx[i + 1]
       \/ /\ n # rx[1].left /\ Len(rx') = Len(rx)
          /\ rx'[1].left = rx[1].left - n
          /\ \A i \in 2 .. Len(rx) : rx'[i] = rx[i]

(* An answer to the oldest command. *)
Reply ==
    LET op == cmds[1].kind IN
    /\ ModemTypeOK' /\ Worked
    /\ ~modem.booting /\ ~modem'.booting /\ op # "NRB"
    /\ UNCHANGED overlap
    /\ modem.apn => modem'.apn
    /\ op # "CFUN" /\ modem.radio => modem'.radio
    /\ op # "NSOCR" => modem'.sockets = modem.sockets
    /\ op # "NSORF" => rx' = rx
    /\ \/ /\ Ends("ERROR") /\ op # "AT"
          /\ rx' = rx /\ modem'.sockets = modem.sockets
       \/ /\ Ends("OK") /\ op \in {"AT", "CFUN", "CGDCONT", "COPS", "NCONFIG"}
          /\ op = "CGDCONT" => modem'.apn
          /\ op = "CFUN" /\ cmds[1].n = 1 => modem'.radio
       \/ /\ \E n \in 0 .. 1 : Tells({InfoOf(op)}, n)
          /\ op \in {"NCONFIG?", "CGSN", "CSQ", "CGATT?", "NSOCR", "NSOST"}
          /\ op = "NSOCR" => modem'.sockets = modem.sockets + 1
       \/ op = "NSORF" /\ Len(rx) = 0 /\ rx' = rx /\ Ends("OK")
       \/ /\ op = "NSORF"
          /\ \E n \in 0 .. ByteRange - 1 :
                /\ Gives(cmds[1].n, n)
                /\ Tells({IF n = rx[1].len THEN "whole" ELSE "piece"}, n)

LEMMA Widths ==
    /\ ByteRange \in Nat \ {0} /\ Wrap \in Nat /\ 2 * ByteRange <= Wrap
    /\ 0 \in 0 .. Wrap - 1 /\ 1 \in 0 .. Wrap - 1
    /\ 1 .. ByteRange - 1 \subseteq 0 .. Wrap - 1
    /\ Length \subseteq 1 .. ByteRange - 1
BY DriverAssumption, ModemAssumption

LEMMA Sayings ==
    /\ \A kind \in {"OK", "ERROR", "text", "nothing", "+CGSN"} :
          Plain(kind) \in Line /\ Plain(kind).kind = kind
    /\ \A kind \in {"+CSQ", "+CGATT", "number", "whole", "piece", "+NSONMI"},
         n \in 0 .. Wrap - 1 :
          /\ Text(kind, n, {}) \in Line
          /\ Text(kind, n, {}).kind = kind /\ Text(kind, n, {}).n = n
    /\ \A on \in SUBSET Param :
          /\ Text("+NCONFIG", 0, on) \in Line
          /\ Text("+NCONFIG", 0, on).kind = "+NCONFIG" /\ Text("+NCONFIG", 0, on).n = 0
BY Widths DEF Plain, Text, Line

LEMMA AnswersBriefly ==
    ASSUME ModemTypeOK, cmds # <<>>, NEW m, Answers(m, <<>>)
    PROVE  /\ Worked /\ Ends("OK") /\ modem' = m /\ overlap' = overlap
           /\ lines' \in Seq(Line) /\ cmds' \in Seq(Command)
<1>1. lines' = Append(lines, Plain("OK"))
    BY Sayings, Appending DEF Answers, ModemTypeOK
<1>2. Ends("OK") /\ lines' \in Seq(Line)
    BY <1>1, Sayings, Appending DEF ModemTypeOK, Ends
<1>3. Worked /\ cmds' \in Seq(Command)
    BY Shortening DEF ModemTypeOK, Worked, Answers
<1> QED
    BY <1>2, <1>3 DEF Answers

LEMMA AnswersInfo ==
    ASSUME ModemTypeOK, cmds # <<>>, NEW m, NEW l \in Line, Answers(m, <<l>>)
    PROVE  /\ Worked /\ Tells({l.kind}, l.n) /\ modem' = m /\ overlap' = overlap
           /\ lines' \in Seq(Line) /\ cmds' \in Seq(Command)
<1>1. lines' = lines \o <<l>> \o <<Plain("OK")>> /\ Plain("OK") \in Line
    BY Sayings DEF Answers
<1>2. Tells({l.kind}, l.n) /\ lines' \in Seq(Line)
    BY <1>1, AppendingTwo DEF ModemTypeOK, Tells
<1>3. Worked /\ cmds' \in Seq(Command)
    BY Shortening DEF ModemTypeOK, Worked, Answers
<1> QED
    BY <1>2, <1>3 DEF Answers

LEMMA Obeyed ==
    ASSUME ModemTypeOK, SocketOK, Obeys
    PROVE  Reply
<1> DEFINE op == cmds[1].kind
<1>1. /\ cmds # <<>> /\ Head(cmds) = cmds[1] /\ cmds[1] \in Command
      /\ Len(cmds) \in Nat \ {0} /\ ~modem.booting /\ rx' = rx
    BY Shortening DEF Obeys, WorksOff, ModemTypeOK
<1>2. CASE op \in {"AT", "COPS"} /\ Answers(modem, <<>>)
    BY <1>1, <1>2, AnswersBriefly DEF Reply, ModemTypeOK
<1>3. CASE op = "CFUN" /\ Answers([modem EXCEPT !.radio = (Head(cmds).n = 1)], <<>>)
    <2> DEFINE m == [modem EXCEPT !.radio = (cmds[1].n = 1)]
    <2>1. /\ m \in [booting : BOOLEAN, radio : BOOLEAN, apn : BOOLEAN,
                    right : SUBSET Param, sockets : 0 .. 1]
          /\ m.booting = modem.booting /\ m.apn = modem.apn
          /\ m.sockets = modem.sockets
        BY DEF ModemTypeOK
    <2>2. cmds[1].n = 1 => m.radio
        BY DEF ModemTypeOK
    <2>3. Worked /\ Ends("OK") /\ modem' = m /\ overlap' = overlap
          /\ lines' \in Seq(Line) /\ cmds' \in Seq(Command)
        BY <1>1, <1>3, AnswersBriefly
    <2> HIDE DEF m
    <2> QED
        BY <1>1, <1>3, <2>1, <2>2, <2>3 DEF Reply, ModemTypeOK
<1>4. CASE op = "CGDCONT" /\ Answers([modem EXCEPT !.apn = TRUE], <<>>)
    <2>1. /\ [modem EXCEPT !.apn = TRUE] \in
                 [booting : BOOLEAN, radio : BOOLEAN, apn : BOOLEAN,
                    right : SUBSET Param, sockets : 0 .. 1]
          /\ [modem EXCEPT !.apn = TRUE].booting = modem.booting
          /\ [modem EXCEPT !.apn = TRUE].radio = modem.radio
          /\ [modem EXCEPT !.apn = TRUE].apn
          /\ [modem EXCEPT !.apn = TRUE].sockets = modem.sockets
        BY DEF ModemTypeOK
    <2> QED
        BY <1>1, <1>4, <2>1, AnswersBriefly DEF Reply, ModemTypeOK
<1>5. CASE op = "NCONFIG"
           /\ Answers([modem EXCEPT !.right = @ \cup Head(cmds).on], <<>>)
    <2> DEFINE m == [modem EXCEPT !.right = @ \cup cmds[1].on]
    <2>0. modem.right \cup cmds[1].on \in SUBSET Param
        BY <1>1 DEF ModemTypeOK, Command
    <2>1. /\ m \in [booting : BOOLEAN, radio : BOOLEAN, apn : BOOLEAN,
                    right : SUBSET Param, sockets : 0 .. 1]
          /\ m.booting = modem.booting /\ m.apn = modem.apn
          /\ m.sockets = modem.sockets /\ m.radio = modem.radio
        BY <2>0 DEF ModemTypeOK
    <2>3. Worked /\ Ends("OK") /\ modem' = m /\ overlap' = overlap
          /\ lines' \in Seq(Line) /\ cmds' \in Seq(Command)
        BY <1>1, <1>5, AnswersBriefly
    <2> HIDE DEF m
    <2> QED
        BY <1>1, <1>5, <2>1, <2>3 DEF Reply, ModemTypeOK
<1>6. CASE op = "NCONFIG?" /\ Answers(modem, <<Text("+NCONFIG", 0, modem.right)>>)
    <2> DEFINE l == Text("+NCONFIG", 0, modem.right)
    <2>1. l \in Line /\ l.kind = "+NCONFIG" /\ l.n = 0
        BY Sayings DEF ModemTypeOK
    <2>2. Worked /\ Tells({l.kind}, l.n) /\ modem' = modem /\ overlap' = overlap
          /\ lines' \in Seq(Line) /\ cmds' \in Seq(Command)
        BY <1>1, <1>6, <2>1, AnswersInfo
    <2> HIDE DEF l
    <2> QED
        BY <1>1, <1>6, <2>1, <2>2 DEF Reply, ModemTypeOK, InfoOf
<1>7. CASE op = "CGSN" /\ Answers(modem, <<Plain("+CGSN")>>)
    <2> DEFINE l == Plain("+CGSN")
    <2>1. l \in Line /\ l.kind = "+CGSN" /\ l.n = 0
        BY Sayings DEF Plain, Text
    <2>2. Worked /\ Tells({l.kind}, l.n) /\ modem' = modem /\ overlap' = overlap
          /\ lines' \in Seq(Line) /\ cmds' \in Seq(Command)
        BY <1>1, <1>7, <2>1, AnswersInfo
    <2> HIDE DEF l
    <2> QED
        BY <1>1, <1>7, <2>1, <2>2 DEF Reply, ModemTypeOK, InfoOf
<1>8. CASE op = "NSOST" /\ Answers(modem, <<Plain("text")>>)
    <2> DEFINE l == Plain("text")
    <2>1. l \in Line /\ l.kind = "text" /\ l.n = 0
        BY Sayings DEF Plain, Text
    <2>2. Worked /\ Tells({l.kind}, l.n) /\ modem' = modem /\ overlap' = overlap
          /\ lines' \in Seq(Line) /\ cmds' \in Seq(Command)
        BY <1>1, <1>8, <2>1, AnswersInfo
    <2> HIDE DEF l
    <2> QED
        BY <1>1, <1>8, <2>1, <2>2 DEF Reply, ModemTypeOK, InfoOf
<1>9. CASE op = "NSOCR" /\ Answers([modem EXCEPT !.sockets = @ + 1],
                                   <<Text("number", modem.sockets, {})>>)
    <2> DEFINE l == Text("number", modem.sockets, {})
               m == [modem EXCEPT !.sockets = @ + 1]
    <2>0. modem.sockets = 0
        BY <1>1, <1>9 DEF SocketOK
    <2>1. l \in Line /\ l.kind = "number" /\ l.n = 0
        BY <2>0, Sayings, Widths
    <2>2. /\ m \in [booting : BOOLEAN, radio : BOOLEAN, apn : BOOLEAN,
                    right : SUBSET Param, sockets : 0 .. 1]
          /\ m.booting = modem.booting /\ m.apn = modem.apn
          /\ m.sockets = modem.sockets + 1 /\ m.radio = modem.radio
        BY <2>0 DEF ModemTypeOK
    <2>3. Worked /\ Tells({l.kind}, l.n) /\ modem' = m /\ overlap' = overlap
          /\ lines' \in Seq(Line) /\ cmds' \in Seq(Command)
        BY <1>1, <1>9, <2>1, AnswersInfo
    <2> HIDE DEF l, m
    <2> QED
        BY <1>1, <1>9, <2>1, <2>2, <2>3 DEF Reply, ModemTypeOK, InfoOf
<1> HIDE DEF op
<1> QED
    BY <1>1, <1>2, <1>3, <1>4, <1>5, <1>6, <1>7, <1>8, <1>9
       DEF Obeys, WorksOff, op

LEMMA Reported ==
    ASSUME ModemTypeOK, NEW n \in 0 .. 1, Reports(n)
    PROVE  Reply
<1> DEFINE op == cmds[1].kind
           l == IF op = "CSQ" THEN Text("+CSQ", n, {}) ELSE Text("+CGATT", n, {})
<1>1. /\ cmds # <<>> /\ Head(cmds) = cmds[1] /\ cmds[1] \in Command
      /\ Len(cmds) \in Nat \ {0} /\ ~modem.booting /\ rx' = rx
    BY Shortening DEF Reports, WorksOff, ModemTypeOK
<1>2. op \in {"CSQ", "CGATT?"} /\ Answers(modem, <<l>>)
    BY <1>1 DEF Reports, WorksOff
<1>3. l \in Line /\ l.kind = InfoOf(op) /\ l.n = n
    BY <1>2, Sayings, Widths DEF InfoOf
<1>4. Worked /\ Tells({l.kind}, l.n) /\ modem' = modem /\ overlap' = overlap
      /\ lines' \in Seq(Line) /\ cmds' \in Seq(Command)
    BY <1>1, <1>2, <1>3, AnswersInfo
<1> HIDE DEF l
<1> QED
    BY <1>1, <1>2, <1>3, <1>4 DEF Reply, ModemTypeOK

LEMMA Refused ==
    ASSUME ModemTypeOK, Refuses
    PROVE  Reply
<1>1. /\ cmds # <<>> /\ Head(cmds) = cmds[1]
      /\ Len(cmds) \in Nat \ {0} /\ cmds' \in Seq(Command) /\ Worked
    BY Shortening DEF Refuses, ModemTypeOK, Worked
<1>2. Ends("ERROR") /\ lines' \in Seq(Line)
    BY Sayings, Appending DEF Refuses, Ends, ModemTypeOK
<1> QED
    BY <1>1, <1>2 DEF Refuses, Reply, ModemTypeOK

LEMMA HandedOut ==
    ASSUME ModemTypeOK, HandsOver
    PROVE  Reply
<1> DEFINE k == cmds[1].n
           d == rx[1]
           n == Least(k, d.left)
           l == Text(IF n = d.len THEN "whole" ELSE "piece", n, {})
<1>1. /\ cmds # <<>> /\ Head(cmds) = cmds[1] /\ cmds[1] \in Command
      /\ Len(cmds) \in Nat \ {0} /\ ~modem.booting /\ cmds[1].kind = "NSORF"
    BY Shortening DEF HandsOver, WorksOff, ModemTypeOK
<1>2. CASE rx = <<>>
    <2>1. rx' = rx /\ Answers(modem, <<>>) /\ Len(rx) = 0
        BY <1>2 DEF HandsOver
    <2> QED
        BY <1>1, <2>1, AnswersBriefly DEF Reply, ModemTypeOK
<1>3. CASE rx # <<>>
    <2>1. /\ Head(rx) = d /\ d \in Datagram /\ Len(rx) \in Nat \ {0}
          /\ Tail(rx) \in Seq(Datagram) /\ Len(Tail(rx)) = Len(rx) - 1
          /\ \A i \in 1 .. Len(rx) - 1 : Tail(rx)[i] = rx[i + 1]
        BY <1>3, Shortening DEF ModemTypeOK
    <2>2. /\ rx' = IF n = d.left THEN Tail(rx)
                   ELSE <<[d EXCEPT !.left = @ - n]>> \o Tail(rx)
          /\ Answers(modem, <<l>>)
        BY <1>1, <1>3, <2>1 DEF HandsOver
    <2>3. k \in Nat /\ d.left \in 1 .. ByteRange - 1
        BY <1>1, <2>1, Widths DEF Command, Datagram
    <2>4. n \in 0 .. ByteRange - 1 /\ n <= d.left
        BY <2>3, Widths DEF Least
    <2>5. n \in 0 .. Wrap - 1
        BY <2>4, Widths
    <2>6. l \in Line /\ l.n = n /\ l.kind = IF n = d.len THEN "whole" ELSE "piece"
        BY <2>5, Sayings
    <2>7. Worked /\ Tells({l.kind}, l.n) /\ modem' = modem /\ overlap' = overlap
          /\ lines' \in Seq(Line) /\ cmds' \in Seq(Command)
        BY <1>1, <2>2, <2>6, AnswersInfo
    <2>8. rx' \in Seq(Datagram) /\ Gives(k, n)
        <3>1. CASE n = d.left
            BY <2>1, <2>2, <3>1 DEF Gives
        <3>2. CASE n # d.left
            <4> DEFINE e == [d EXCEPT !.left = @ - n]
            <4>1. d.left - n \in 1 .. ByteRange - 1
                BY <2>3, <2>4, <3>2, Widths
            <4>2. e \in Datagram /\ e.left = d.left - n
                BY <2>1, <4>1 DEF Datagram
            <4> HIDE DEF e
            <4>3. <<e>> \in Seq(Datagram) /\ Len(<<e>>) = 1 /\ <<e>>[1] = e
                BY <4>2
            <4>4. rx' = <<e>> \o Tail(rx)
                BY <2>2, <3>2 DEF e
            <4>5. /\ rx' \in Seq(Datagram) /\ Len(rx') = 1 + (Len(rx) - 1)
                  /\ \A i \in 1 .. 1 + (Len(rx) - 1) : rx'[i] =
                        IF i <= 1 THEN <<e>>[i] ELSE Tail(rx)[i - 1]
                BY <2>1, <4>3, <4>4, ConcatProperties
            <4>6. rx'[1] = e /\ Len(rx') = Len(rx)
                BY <2>1, <4>3, <4>5
            <4>7. \A i \in 2 .. Len(rx) : rx'[i] = rx[i]
                <5> TAKE i \in 2 .. Len(rx)
                <5>1. rx'[i] = Tail(rx)[i - 1]
                    BY <2>1, <4>5
                <5>2. Tail(rx)[i - 1] = rx[(i - 1) + 1]
                    BY <2>1
                <5> QED
                    BY <5>1, <5>2
            <4> QED
                BY <2>1, <3>2, <4>2, <4>5, <4>6, <4>7 DEF Gives
        <3> QED
            BY <3>1, <3>2
    <2> HIDE DEF n, l
    <2>9. \E j \in 0 .. ByteRange - 1 :
              Gives(cmds[1].n, j)
              /\ Tells({IF j = rx[1].len THEN "whole" ELSE "piece"}, j)
        BY <2>4, <2>6, <2>7, <2>8
    <2> QED
        BY <1>1, <2>7, <2>8, <2>9 DEF Reply, ModemTypeOK
<1> QED
    BY <1>2, <1>3

LEMMA Replies ==
    ASSUME ModemTypeOK, SocketOK, ModemStep, ~Restarts
    PROVE  Reply
BY Obeyed, Reported, HandedOut, Refused DEF ModemStep

(* Whether it is restarted or loses its power. *)
LEMMA Down ==
    ASSUME NEW m \in [booting : BOOLEAN, radio : BOOLEAN, apn : BOOLEAN,
                      right : SUBSET Param, sockets : 0 .. 1],
           NEW d, d = [m EXCEPT !.booting = TRUE, !.radio = FALSE,
                                !.apn = FALSE, !.sockets = 0]
    PROVE  /\ d \in [booting : BOOLEAN, radio : BOOLEAN, apn : BOOLEAN,
                     right : SUBSET Param, sockets : 0 .. 1]
           /\ d.booting /\ d.sockets = 0
<1>1. d = [booting |-> TRUE, radio |-> FALSE, apn |-> FALSE,
           right |-> m.right, sockets |-> 0]
    BY Zenon
<1>2. 0 \in 0 .. 1
    OBVIOUS
<1> QED
    BY <1>1, <1>2, Zenon

Restarted ==
    /\ ModemTypeOK' /\ Len(cmds) \in Nat \ {0} /\ cmds[1].kind = "NRB"
    /\ ~modem.booting /\ modem'.booting /\ modem'.sockets = 0
    /\ cmds' = <<>> /\ rx' = <<>> /\ lines' = lines /\ overlap' = overlap

LEMMA RestartEffect ==
    ASSUME ModemTypeOK, Restarts
    PROVE  Restarted
<1>1. /\ cmds # <<>> /\ Head(cmds) = cmds[1] /\ Len(cmds) \in Nat \ {0}
      /\ ~modem.booting /\ cmds[1].kind = "NRB"
    BY Shortening DEF Restarts, WorksOff, ModemTypeOK
<1>2. <<>> \in Seq(Command) /\ <<>> \in Seq(Datagram)
    BY EmptySeq
<1>3. /\ modem' \in [booting : BOOLEAN, radio : BOOLEAN, apn : BOOLEAN,
                     right : SUBSET Param, sockets : 0 .. 1]
      /\ modem'.booting /\ modem'.sockets = 0
    BY Down DEF Restarts, ModemTypeOK
<1>4. cmds' \in Seq(Command) /\ rx' \in Seq(Datagram) /\ lines' \in Seq(Line)
    BY <1>2 DEF Restarts, ModemTypeOK
<1> QED
    BY <1>1, <1>3, <1>4 DEF Restarts, Restarted, ModemTypeOK

Booted ==
    /\ ModemTypeOK' /\ modem.booting /\ ~modem'.booting
    /\ modem'.apn = modem.apn /\ modem'.sockets = modem.sockets
    /\ cmds' = cmds /\ rx' = rx /\ overlap' = overlap
    /\ Len(lines) \in Nat /\ Len(lines') = Len(lines) + 2
    /\ \A i \in 1 .. Len(lines) : lines'[i] = lines[i]
    /\ lines'[Len(lines) + 1] = Plain("text") /\ lines'[Len(lines) + 2] = Plain("OK")

LEMMA BootEffect ==
    ASSUME ModemTypeOK, BootDone
    PROVE  Booted
<1>1. PICK on \in BOOLEAN : modem' = [modem EXCEPT !.booting = FALSE, !.radio = on]
    BY DEF BootDone
<1>2. /\ modem' \in [booting : BOOLEAN, radio : BOOLEAN, apn : BOOLEAN,
                     right : SUBSET Param, sockets : 0 .. 1]
      /\ ~modem'.booting /\ modem'.apn = modem.apn /\ modem'.sockets = modem.sockets
    BY <1>1 DEF ModemTypeOK
<1>3. /\ lines' \in Seq(Line) /\ Len(lines) \in Nat /\ Len(lines') = Len(lines) + 2
      /\ \A i \in 1 .. Len(lines) : lines'[i] = lines[i]
      /\ lines'[Len(lines) + 1] = Plain("text")
      /\ lines'[Len(lines) + 2] = Plain("OK")
    BY Sayings, AppendingTwo DEF BootDone, ModemTypeOK
<1> QED
    BY <1>2, <1>3 DEF BootDone, Booted, ModemTypeOK

(* A datagram of k bytes comes in. *)
Arrived(k) ==
    /\ ModemTypeOK' /\ k \in 1 .. ByteRange - 1
    /\ ~modem.booting /\ modem.sockets = 1 /\ modem' = modem /\ cmds' = cmds
    /\ Len(lines) \in Nat /\ Len(lines') = Len(lines) + 1
    /\ \A i \in 1 .. Len(lines) : lines'[i] = lines[i]
    /\ lines'[Len(lines) + 1].kind = "+NSONMI" /\ lines'[Len(lines) + 1].n = k
    /\ Len(rx) \in Nat /\ Len(rx') = Len(rx) + 1
    /\ \A i \in 1 .. Len(rx) : rx'[i] = rx[i]
    /\ rx'[Len(rx) + 1].left = k /\ rx'[Len(rx) + 1].len = k
    /\ overlap' \in {"none", "alike", "mixed"}
    /\ overlap' # "mixed" =>
          overlap # "mixed" /\ \A i \in 1 .. Len(rx) : rx[i].len = k

LEMMA ArrivalEffect ==
    ASSUME ModemTypeOK, overlap \in {"none", "alike", "mixed"},
           NEW k \in Length, Arrives(k)
    PROVE  Arrived(k)
<1>1. k \in 1 .. ByteRange - 1 /\ k \in 0 .. Wrap - 1
    BY Widths
<1>2. [len |-> k, left |-> k] \in Datagram
    BY <1>1 DEF Datagram
<1>3. Text("+NSONMI", k, {}) \in Line /\ Text("+NSONMI", k, {}).kind = "+NSONMI"
      /\ Text("+NSONMI", k, {}).n = k
    BY <1>1, Sayings
<1>4. /\ lines' \in Seq(Line) /\ Len(lines) \in Nat /\ Len(lines') = Len(lines) + 1
      /\ \A i \in 1 .. Len(lines) : lines'[i] = lines[i]
      /\ lines'[Len(lines) + 1] = Text("+NSONMI", k, {})
    BY <1>3, Appending DEF Arrives, ModemTypeOK
<1>5. /\ rx' \in Seq(Datagram) /\ Len(rx) \in Nat /\ Len(rx') = Len(rx) + 1
      /\ \A i \in 1 .. Len(rx) : rx'[i] = rx[i]
      /\ rx'[Len(rx) + 1] = [len |-> k, left |-> k]
    BY <1>2, Appending DEF Arrives, ModemTypeOK
<1>6. DOMAIN rx = 1 .. Len(rx)
    BY LenProperties DEF ModemTypeOK
<1>7. /\ overlap' \in {"none", "alike", "mixed"}
      /\ overlap' # "mixed" =>
          overlap # "mixed" /\ \A i \in 1 .. Len(rx) : rx[i].len = k
    <2>1. CASE \E i \in 1 .. Len(rx) : rx[i].len # k
        BY <1>6, <2>1 DEF Arrives
    <2>2. CASE ~\E i \in 1 .. Len(rx) : rx[i].len # k
        <3>1. overlap' \in {"alike", overlap} /\ (overlap = "mixed" => overlap' = overlap)
            BY <1>6, <2>2 DEF Arrives
        <3> QED
            BY <2>2, <3>1
    <2> QED
        BY <2>1, <2>2
<1>8. modem.sockets = 1
    BY DEF Arrives, ModemTypeOK
<1> QED
    BY <1>1, <1>3, <1>4, <1>5, <1>7, <1>8 DEF Arrives, Arrived, ModemTypeOK

-----------------------------------------------------------------------------
(* Types: the modem's steps. *)
LEMMA ReplySockets ==
    ASSUME ModemTypeOK, SocketOK, Reply, pc' = pc
    PROVE  SocketOK'
<1> DEFINE op == cmds[1].kind
<1>1. /\ Len(cmds) \in Nat \ {0} /\ Len(cmds') = Len(cmds) - 1
      /\ \A i \in 1 .. Len(cmds) - 1 : cmds'[i] = cmds[i + 1]
    BY DEF Reply, Worked
<1>2. \A i \in 1 .. Len(cmds') : i + 1 \in 1 .. Len(cmds) /\ cmds'[i] = cmds[i + 1]
    BY <1>1
<1>3. CASE op = "NSOCR"
    <2>1. \A j \in 1 .. Len(cmds) : cmds[j].kind = "NSOCR" => j = 1
        BY <1>1, <1>3 DEF SocketOK
    <2>2. \A i \in 1 .. Len(cmds') : cmds'[i].kind # "NSOCR"
        BY <1>1, <1>2, <2>1
    <2>3. ~(pc \in Connecting \ {"NSOCR"})
        BY <1>1, <1>3 DEF SocketOK
    <2> QED
        BY <2>2, <2>3 DEF SocketOK
<1>4. CASE op # "NSOCR"
    <2>1. modem'.sockets = modem.sockets
        BY <1>4 DEF Reply
    <2>2. \A i \in 1 .. Len(cmds') : cmds'[i].kind = "NSOCR" =>
              /\ modem.sockets = 0
              /\ \A j \in 1 .. Len(cmds') : cmds'[j].kind = "NSOCR" => j = i
        <3> TAKE i \in 1 .. Len(cmds')
        <3> HAVE cmds'[i].kind = "NSOCR"
        <3>1. /\ modem.sockets = 0
              /\ \A j \in 1 .. Len(cmds) : cmds[j].kind = "NSOCR" => j = i + 1
            BY <1>2 DEF SocketOK
        <3>2. \A j \in 1 .. Len(cmds') : cmds'[j].kind = "NSOCR" => j + 1 = i + 1
            BY <1>2, <3>1
        <3> QED
            BY <1>1, <3>1, <3>2
    <2>3. pc \in Connecting \ {"NSOCR"} =>
             modem.sockets = 0 /\ \A i \in 1 .. Len(cmds') : cmds'[i].kind # "NSOCR"
        BY <1>2 DEF SocketOK
    <2> QED
        BY <2>1, <2>2, <2>3 DEF SocketOK
<1> QED
    BY <1>3, <1>4

LEMMA OthersSockets ==
    ASSUME ModemTypeOK, SocketOK, pc' = pc,
           Restarted \/ Booted \/ \E k \in Length : Arrived(k)
    PROVE  SocketOK'
<1>1. CASE Restarted
    <2>1. Len(cmds') = 0 /\ modem'.sockets = 0
        BY <1>1 DEF Restarted
    <2> QED
        BY <2>1 DEF SocketOK
<1>2. CASE Booted \/ \E k \in Length : Arrived(k)
    BY <1>2 DEF SocketOK, Booted, Arrived
<1> QED
    BY <1>1, <1>2

Stepped == Reply \/ Restarted \/ Booted \/ \E k \in Length : Arrived(k)

LEMMA Stepping ==
    ASSUME TypeInv, ModemNext
    PROVE  Stepped
<1>1. ModemTypeOK /\ SocketOK /\ overlap \in {"none", "alike", "mixed"}
    BY DEF TypeInv, TypeOK, ModemTypeOK
<1> QED
    BY <1>1, Replies, RestartEffect, BootEffect, ArrivalEffect
       DEF ModemNext, ModemStep, Stepped

LEMMA EnvironmentTypes ==
    ASSUME TypeInv, Environment
    PROVE  TypeInv' /\ Stepped
<1>1. ModemTypeOK /\ SocketOK /\ overlap \in {"none", "alike", "mixed"}
    BY DEF TypeInv, TypeOK, ModemTypeOK
<1>2. Stepped
    BY Stepping DEF Environment
<1>3. ModemTypeOK' /\ overlap' \in {"none", "alike", "mixed"}
    BY <1>1, <1>2 DEF Stepped, Reply, Restarted, Booted, Arrived
<1>4. UNCHANGED driverVars
    BY DEF Environment
<1>5. SocketOK'
    BY <1>1, <1>2, <1>4, ReplySockets, OthersSockets DEF Stepped, driverVars
<1>6. TypeOK'
    BY <1>3, <1>4 DEF TypeInv, TypeOK, ModemTypeOK, driverVars
<1>7. TriesOK' /\ (got = Nothing \/ got.kind \in Accepted)'
    BY <1>4 DEF TypeInv, TriesOK, driverVars, Accepted
<1> QED
    BY <1>2, <1>5, <1>6, <1>7 DEF TypeInv

-----------------------------------------------------------------------------
(* Types: the driver's steps. *)
Dropped ==
    /\ Len(lines) \in Nat \ {0} /\ Len(lines') = Len(lines) - 1
    /\ \A i \in 1 .. Len(lines) - 1 : lines'[i] = lines[i + 1]

(* The line that ends the answer, or none. *)
Returned(r) ==
    /\ modem' = modem /\ rx' = rx /\ overlap' = overlap
    /\ lines' \in Seq(Line) /\ deviceId' \in BOOLEAN
    /\ shifted => shifted'
    /\ deviceId => deviceId'
    /\ \/ /\ Dropped /\ r = Outcome(lines[1]) /\ r # "ResponseNotFound"
       \/ /\ lines = <<>> /\ lines' = <<>> /\ r = "ResponseTimeout"
          /\ pc \in {"NCONFIG", "NSORF", "NSOST"} /\ Len(cmds) # 0 => shifted'

LEMMA Returning ==
    ASSUME TypeInv, NEW r, Returns(r)
    PROVE  Returned(r)
<1>1. lines \in Seq(Line) /\ deviceId \in BOOLEAN /\ cmds \in Seq(Command)
    BY DEF TypeInv, TypeOK
<1>2. CASE ReturnsLine(r)
    <2>1. Dropped /\ lines' \in Seq(Line) /\ Head(lines) = lines[1]
        BY <1>1, <1>2, Shortening DEF ReturnsLine, Dropped
    <2>2. deviceId' \in BOOLEAN /\ (deviceId => deviceId')
        BY <1>2 DEF ReturnsLine
    <2>3. shifted => shifted'
        BY <1>2 DEF ReturnsLine
    <2> QED
        BY <1>2, <2>1, <2>2, <2>3 DEF ReturnsLine, Returned, Returns
<1>3. CASE ReturnsTimeout(r)
    <2>1. (shifted => shifted')
          /\ (pc \in {"NCONFIG", "NSORF", "NSOST"} /\ cmds # <<>> => shifted')
        BY <1>3, Zenon DEF ReturnsTimeout
    <2>2. cmds = <<>> <=> Len(cmds) = 0
        BY <1>1, Emptiness
    <2>3. deviceId' \in BOOLEAN /\ (deviceId => deviceId')
        BY <1>1, <1>3 DEF ReturnsTimeout
    <2> QED
        BY <1>1, <1>3, <2>1, <2>2, <2>3 DEF ReturnsTimeout, Returned, Returns
<1> QED
    BY <1>2, <1>3 DEF Returns

(* What is sent reaches the modem as its last command, unless it boots. *)
Sends(c) ==
    /\ cmds' \in Seq(Command) /\ Len(cmds) \in Nat
    /\ modem.booting => cmds' = cmds
    /\ ~modem.booting =>
          /\ cmds' # <<>> /\ Len(cmds') = Len(cmds) + 1
          /\ \A i \in 1 .. Len(cmds) : cmds'[i] = cmds[i]
          /\ cmds'[Len(cmds) + 1] = c

LEMMA Sending1 ==
    ASSUME cmds \in Seq(Command), NEW c \in Command, Sent(c)
    PROVE  Sends(c)
BY Appending DEF Sent, Sends

LEMMA Commands ==
    /\ \A op \in (Connecting \ {"purge", "CFUN=1"}) \cup {"NSORF", "NSOST"} :
          Plain(op) \in Command /\ Plain(op).kind = op /\ Plain(op).n = 0
    /\ \A n \in 0 .. Wrap - 1 :
          /\ Text("NSORF", n, {}) \in Command
          /\ Text("NSORF", n, {}).kind = "NSORF" /\ Text("NSORF", n, {}).n = n
    /\ \A q \in Param : Text("NCONFIG", 0, {q}) \in Command
                        /\ Text("NCONFIG", 0, {q}).kind = "NCONFIG"
    /\ Text("CFUN", 1, {}) \in Command /\ Text("CFUN", 1, {}).kind = "CFUN"
       /\ Text("CFUN", 1, {}).n = 1
BY Widths DEF Plain, Text, Command, Connecting

(* The driver goes on to a stage, with a command or without. *)
Moves(stage) ==
    /\ modem' = modem /\ rx' = rx /\ overlap' = overlap /\ lines' \in Seq(Line)
    /\ \/ \E c \in Command :
             AsksAt(stage, c) /\ (c.kind = "NSOCR" <=> stage = "NSOCR")
       \/ Goes(stage) /\ stage # "NSOCR"

LEMMA Moving ==
    ASSUME TypeInv, NEW stage \in Connecting \cup Looping \cup {"failed"},
           Moves(stage),
           stage \in Connecting => pc \in Connecting \ {"NSOCR"}
    PROVE  /\ ModemTypeOK' /\ SocketOK' /\ overlap' \in {"none", "alike", "mixed"}
           /\ pc' = stage /\ got' = Nothing /\ got' \in Line
<1>1. ModemTypeOK /\ SocketOK /\ overlap \in {"none", "alike", "mixed"}
    BY DEF TypeInv, TypeOK, ModemTypeOK
<1>2. CASE Goes(stage) /\ stage # "NSOCR"
    BY <1>1, <1>2, Sayings DEF Moves, Goes, Nothing, ModemTypeOK, SocketOK
<1>3. ASSUME NEW c \in Command, AsksAt(stage, c), c.kind = "NSOCR" <=> stage = "NSOCR"
      PROVE  /\ ModemTypeOK' /\ SocketOK' /\ overlap' \in {"none", "alike", "mixed"}
             /\ pc' = stage /\ got' = Nothing /\ got' \in Line
    <2>1. Sends(c) /\ pc' = stage /\ got' = Nothing
        BY <1>1, <1>3, Sending1 DEF AsksAt, ModemTypeOK
    <2>2. ModemTypeOK' /\ got' \in Line
        BY <1>1, <2>1, Sayings DEF Moves, Nothing, ModemTypeOK, Sends
    <2>3. ASSUME stage = "NSOCR" PROVE SocketOK'
        <3>1. modem.sockets = 0 /\ \A i \in 1 .. Len(cmds) : cmds[i].kind # "NSOCR"
            BY <1>1, <2>3 DEF SocketOK, Connecting
        <3>2. \A i \in 1 .. Len(cmds') : cmds'[i].kind = "NSOCR" => i = Len(cmds) + 1
            BY <2>1, <3>1 DEF Sends
        <3>3. \A i \in 1 .. Len(cmds') : cmds'[i].kind = "NSOCR" =>
                  \A j \in 1 .. Len(cmds') : cmds'[j].kind = "NSOCR" => j = i
            BY <3>2
        <3> QED
            BY <2>1, <2>3, <3>1, <3>3 DEF SocketOK, Moves
    <2>4. ASSUME stage # "NSOCR" PROVE SocketOK'
        <3>1. c.kind # "NSOCR"
            BY <1>3, <2>4
        <3>2. /\ Len(cmds) \in Nat
              /\ \A i \in 1 .. Len(cmds') : cmds'[i].kind = "NSOCR" =>
                    i \in 1 .. Len(cmds) /\ cmds'[i] = cmds[i]
            BY <2>1, <3>1 DEF Sends
        <3>3. \A i \in 1 .. Len(cmds') : cmds'[i].kind = "NSOCR" =>
                  /\ modem.sockets = 0
                  /\ \A j \in 1 .. Len(cmds') : cmds'[j].kind = "NSOCR" => j = i
            BY <1>1, <3>2 DEF SocketOK
        <3>4. stage \in Connecting \ {"NSOCR"} =>
                 modem.sockets = 0 /\ \A i \in 1 .. Len(cmds') : cmds'[i].kind # "NSOCR"
            BY <1>1, <3>2 DEF SocketOK
        <3> QED
            BY <2>1, <3>3, <3>4 DEF SocketOK, Moves
    <2> QED
        BY <2>1, <2>2, <2>3, <2>4, <1>1 DEF Moves
<1> QED
    BY <1>2, <1>3 DEF Moves

Stages == Connecting \cup Looping \cup {"failed"}

LEMMA Bounds ==
    MaxAlive \in Nat \ {0} /\ MaxPolls \in Nat \ {0}
BY DriverAssumption

(* While it connects the driver moves and leaves the loop's counts alone. *)
LEMMA ConnectTypes ==
    ASSUME TypeInv, NEW stage \in Stages, Moves(stage),
           stage \in Connecting => pc \in Connecting \ {"NSOCR"},
           tries' \in 0 .. MaxAlive + MaxPolls,
           stage = "AT" => tries' < MaxAlive,
           stage \in {"CSQ", "CGATT?"} => tries' < MaxPolls,
           stage \notin {"AT", "CSQ", "CGATT?", "failed"} => tries' = 0,
           rebooted' \in BOOLEAN, deviceId' \in BOOLEAN,
           applyParam' \subseteq Param, UNCHANGED loopVars
    PROVE  TypeInv'
<1>1. /\ ModemTypeOK' /\ SocketOK' /\ overlap' \in {"none", "alike", "mixed"}
      /\ pc' = stage /\ got' = Nothing /\ got' \in Line
    BY Moving DEF Stages
<1>2. TriesOK'
    BY <1>1 DEF TriesOK
<1>3. pending' \in 0 .. Wrap - 1 /\ amount' \in 0 .. Wrap - 1
      /\ stored' \in {"nothing", "whole", "piece", "padded", "garbage"}
    BY DEF TypeInv, TypeOK, loopVars
<1>4. TypeOK'
    BY <1>1, <1>3 DEF TypeOK, ModemTypeOK, Stages
<1> QED
    BY <1>1, <1>2, <1>4 DEF TypeInv

(* The steps of connect() that give up unless they are answered with OK. *)
LEMMA OnOkTypes ==
    ASSUME TypeInv, pc \in Connecting \ {"AT", "CSQ", "CGATT?"},
           NEW r \in Response, NEW stage \in Stages,
           stage \in Connecting => pc # "NSOCR",
           stage # "AT",
           Returns(r),
           \/ /\ stage \in Connecting
              /\ \E c \in Command :
                   AsksAt(stage, c) /\ (c.kind = "NSOCR" <=> stage = "NSOCR")
           \/ stage \in {"loop", "failed", "purge", "NRB"} /\ Goes(stage),
           UNCHANGED <<tries, loopVars>>, rebooted' \in BOOLEAN,
           applyParam' \subseteq Param
    PROVE  TypeInv'
<1>1. Returned(r)
    BY Returning
<1>2. Moves(stage)
    BY <1>1 DEF Moves, Returned
<1>3. tries' = 0
    BY DEF TypeInv, TriesOK, Connecting
<1> QED
    BY <1>1, <1>2, <1>3, Bounds, ConnectTypes DEF Returned

LEMMA Setup_Types ==
    ASSUME TypeInv, Setup
    PROVE  TypeInv'
<1>1. /\ modem' \in [booting : BOOLEAN, radio : BOOLEAN, apn : BOOLEAN,
                     right : SUBSET Param, sockets : 0 .. 1]
      /\ modem'.sockets = 0
    BY Down DEF Setup, PowerCycle, TypeInv, TypeOK
<1>2. cmds' \in Seq(Command) /\ rx' \in Seq(Datagram) /\ lines' \in Seq(Line)
      /\ Len(cmds') = 0
    BY EmptySeq DEF Setup, PowerCycle
<1>3. got' = Nothing /\ Nothing \in Line
    BY Sayings DEF Setup, Nothing
<1>4. TypeOK'
    <2>1. tries' \in 0 .. MaxAlive + MaxPolls /\ pending' \in 0 .. Wrap - 1
          /\ amount' \in 0 .. Wrap - 1
        BY Widths, Bounds DEF Setup
    <2>2. rebooted' \in BOOLEAN /\ deviceId' \in BOOLEAN
        BY DEF Setup
    <2>3. /\ overlap' \in {"none", "alike", "mixed"}
          /\ stored' \in {"nothing", "whole", "piece", "padded", "garbage"}
          /\ pc' \in Connecting \cup Looping \cup {"failed"} /\ applyParam' \subseteq Param
        BY DEF Setup, PowerCycle, TypeInv, TypeOK, Connecting
    <2> QED
        BY <1>1, <1>2, <1>3, <2>1, <2>2, <2>3 DEF TypeOK
<1>5. TriesOK' /\ SocketOK'
    BY <1>1, <1>2, Bounds DEF Setup, TriesOK, SocketOK
<1> QED
    BY <1>3, <1>4, <1>5 DEF TypeInv

LEMMA On_Types ==
    ASSUME TypeInv, On
    PROVE  TypeInv'
<1>1. PICK r \in Response :
        /\ Returns(r)
        /\ IF r = OK THEN tries' = 0 /\ Goes("purge")
           ELSE /\ tries' = tries + 1
                /\ IF tries' < MaxAlive THEN Asks("AT") ELSE Goes("failed")
    BY DEF On
<1>2. Returned(r) /\ pc = "AT" /\ UNCHANGED <<rebooted, applyParam, loopVars>>
    BY <1>1, Returning DEF On
<1>3. /\ tries \in 0 .. MaxAlive + MaxPolls /\ tries < MaxAlive
      /\ rebooted' \in BOOLEAN /\ applyParam' \subseteq Param /\ deviceId' \in BOOLEAN
    BY <1>2 DEF TypeInv, TypeOK, TriesOK, Returned
<1>4. tries + 1 \in 0 .. MaxAlive + MaxPolls
    BY <1>3, Bounds
<1>5. CASE r = OK
    <2>1. Moves("purge") /\ tries' = 0
        BY <1>1, <1>2, <1>5 DEF Moves, Returned
    <2> QED
        BY <1>2, <1>3, <2>1, Bounds, ConnectTypes DEF Stages, Connecting
<1>6. CASE r # OK /\ tries' < MaxAlive
    <2>1. Moves("AT") /\ tries' = tries + 1
        BY <1>1, <1>2, <1>6, Commands DEF Moves, Returned, Asks, Connecting
    <2> QED
        BY <1>2, <1>3, <1>4, <1>6, <2>1, ConnectTypes DEF Stages, Connecting
<1>7. CASE r # OK /\ ~(tries' < MaxAlive)
    <2>1. Moves("failed") /\ tries' = tries + 1
        BY <1>1, <1>2, <1>7 DEF Moves, Returned
    <2> QED
        BY <1>2, <1>3, <1>4, <2>1, ConnectTypes DEF Stages, Connecting
<1> QED
    BY <1>5, <1>6, <1>7

LEMMA Polls_Types ==
    ASSUME TypeInv, NEW op \in {"CSQ", "CGATT?"}, NEW next \in {"CGATT?", "NSOCR"},
           pc = op, NEW r \in Response, Returns(r),
           (tries' = 0 /\ Asks(next)) \/ PollsAgain(op),
           UNCHANGED <<rebooted, applyParam, loopVars>>
    PROVE  TypeInv'
<1>1. Returned(r)
    BY Returning
<1>2. /\ tries \in 0 .. MaxAlive + MaxPolls /\ tries < MaxPolls
      /\ rebooted' \in BOOLEAN /\ applyParam' \subseteq Param /\ deviceId' \in BOOLEAN
    BY <1>1 DEF TypeInv, TypeOK, TriesOK, Returned
<1>3. tries + 1 \in 0 .. MaxAlive + MaxPolls
    BY <1>2, Bounds
<1>4. pc \in Connecting \ {"NSOCR"}
    BY DEF Connecting
<1>5. CASE tries' = 0 /\ Asks(next)
    <2>1. Moves(next)
        BY <1>1, <1>5, Commands DEF Moves, Returned, Asks, Connecting
    <2> QED
        BY <1>2, <1>4, <1>5, <2>1, Bounds, ConnectTypes DEF Stages, Connecting
<1>6. CASE PollsAgain(op) /\ tries' < MaxPolls
    <2>1. Moves(op) /\ tries' = tries + 1
        BY <1>1, <1>6, Commands DEF Moves, Returned, Asks, Connecting, PollsAgain
    <2> QED
        BY <1>2, <1>3, <1>4, <1>6, <2>1, ConnectTypes DEF Stages, Connecting
<1>7. CASE PollsAgain(op) /\ ~(tries' < MaxPolls)
    <2>1. Moves("failed") /\ tries' = tries + 1
        BY <1>1, <1>7 DEF Moves, Returned, PollsAgain
    <2> QED
        BY <1>2, <1>3, <1>4, <2>1, ConnectTypes DEF Stages, Connecting
<1> QED
    BY <1>5, <1>6, <1>7

LEMMA Collects_Types ==
    ASSUME TypeInv, Collects
    PROVE  TypeInv'
<1> DEFINE l == Head(lines)
<1>1. l \in Line /\ lines' \in Seq(Line)
    BY Shortening DEF Collects, TypeInv, TypeOK
<1>2. l.n \in 0 .. Wrap - 1 /\ l.on \in SUBSET Param
    BY <1>1 DEF Line
<1>3. pending' \in 0 .. Wrap - 1
    BY <1>2 DEF Collects, TypeInv, TypeOK, Announced
<1>4. deviceId' \in BOOLEAN
    BY DEF Collects
<1>5. got' \in Line /\ (got' = Nothing \/ got'.kind \in Accepted)
    BY <1>1 DEF Collects, TypeInv, TypeOK
<1>6. applyParam' \subseteq Param
    BY <1>2 DEF Collects, TypeInv, TypeOK
<1>7. Accepted' = Accepted
    BY DEF Collects, Accepted
<1>8. SocketOK' /\ TriesOK'
    BY DEF Collects, TypeInv, SocketOK, TriesOK
<1>9. TypeOK'
    BY <1>1, <1>3, <1>4, <1>5, <1>6 DEF Collects, TypeInv, TypeOK
<1> QED
    BY <1>5, <1>7, <1>8, <1>9 DEF TypeInv

(* A purge reads a line, or a second passes without one; then it may end. *)
LEMMA Purging ==
    ASSUME TypeInv, PurgeAllResponsesRead
    PROVE  /\ pc = "purge" /\ UNCHANGED <<tries, rebooted, applyParam, loopVars>>
           /\ shifted' = shifted
           /\ \E r \in Response :
                /\ Returned(r)
                /\ \/ Goes("purge") /\ Dropped
                   \/ rebooted /\ Asks("CGDCONT")
                   \/ ~rebooted /\ AsksAt("CFUN", Plain("CFUN"))
<1>1. /\ pc = "purge" /\ UNCHANGED <<tries, rebooted, applyParam, loopVars>>
      /\ UNCHANGED <<modem, rx, refusals, arrivals, overlap>>
      /\ lines \in Seq(Line) /\ deviceId \in BOOLEAN
    BY DEF PurgeAllResponsesRead, TypeInv, TypeOK
<1>2. ASSUME NEW r \in Response, ReturnsLine(r)
      PROVE  Returned(r) /\ Dropped /\ shifted' = shifted
    <2>1. Returned(r)
        BY <1>1, <1>2, Returning DEF Returns
    <2>2. Dropped
        BY <1>1, <1>2, Shortening DEF ReturnsLine, Dropped
    <2> QED
        BY <1>2, <2>1, <2>2 DEF ReturnsLine
<1>3. CASE PurgesOn
    BY <1>1, <1>2, <1>3 DEF PurgesOn
<1>4. CASE PurgeEnds
    <2>1. /\ rebooted => Asks("CGDCONT")
          /\ ~rebooted => AsksAt("CFUN", Plain("CFUN"))
        BY <1>4 DEF PurgeEnds
    <2>2. CASE \E r \in Response : ReturnsLine(r)
        BY <1>1, <1>2, <2>1, <2>2
    <2>3. CASE lines = <<>> /\ UNCHANGED <<lines, deviceId, late, shifted>>
        <3>1. Returned("ResponseTimeout") /\ shifted' = shifted
            BY <1>1, <2>3 DEF Returned
        <3> QED
            BY <1>1, <2>1, <3>1 DEF Response, Failures
    <2> QED
        BY <1>4, <2>2, <2>3 DEF PurgeEnds
<1> QED
    BY <1>3, <1>4 DEF PurgeAllResponsesRead

LEMMA Purge_Types ==
    ASSUME TypeInv, PurgeAllResponsesRead
    PROVE  TypeInv'
<1>1. PICK r \in Response :
        /\ Returned(r)
        /\ \/ Goes("purge") /\ Dropped
           \/ rebooted /\ Asks("CGDCONT")
           \/ ~rebooted /\ AsksAt("CFUN", Plain("CFUN"))
    BY Purging
<1>2. /\ pc = "purge" /\ UNCHANGED loopVars /\ tries' = 0
      /\ rebooted' \in BOOLEAN /\ applyParam' \subseteq Param /\ deviceId' \in BOOLEAN
    BY <1>1, Purging DEF TypeInv, TypeOK, TriesOK, Returned
<1>3. ASSUME NEW stage \in {"purge", "CGDCONT", "CFUN"}, Moves(stage)
      PROVE  TypeInv'
    BY <1>2, <1>3, Bounds, ConnectTypes DEF Stages, Connecting
<1>4. CASE Goes("purge")
    BY <1>1, <1>3, <1>4 DEF Moves, Returned
<1>5. CASE Asks("CGDCONT")
    BY <1>1, <1>3, <1>5, Commands DEF Moves, Returned, Asks, Connecting
<1>6. CASE AsksAt("CFUN", Plain("CFUN"))
    BY <1>1, <1>3, <1>6, Commands DEF Moves, Returned, Connecting
<1> QED
    BY <1>1, <1>4, <1>5, <1>6

LEMMA Singles_Types ==
    ASSUME TypeInv,
           SetRadioOff \/ SetApn \/ SetRadioOn \/ SetOperator \/ GetIMEI \/ CreateSocket
    PROVE  TypeInv'
<1>1. /\ tries' = tries /\ rebooted' \in BOOLEAN /\ applyParam' \subseteq Param
      /\ UNCHANGED loopVars
    BY DEF TypeInv, TypeOK, SetRadioOff, SetApn, SetRadioOn, SetOperator, GetIMEI, CreateSocket
<1>2. pc \in Connecting \ {"AT", "CSQ", "CGATT?"}
    BY DEF Connecting, SetRadioOff, SetApn, SetRadioOn, SetOperator, GetIMEI, CreateSocket
<1>3. ASSUME NEW r \in Response, Returns(r), Goes("failed")
      PROVE  TypeInv'
    BY <1>1, <1>2, <1>3, OnOkTypes DEF Stages, Connecting
<1>4. CASE SetRadioOff
    <2>1. PICK r \in Response : Returns(r) /\ (Asks("NCONFIG?") \/ Goes("failed"))
        BY <1>4 DEF SetRadioOff, OnOk
    <2> QED
        BY <1>1, <1>2, <1>3, <1>4, <2>1, OnOkTypes, Commands
           DEF Stages, Connecting, Asks, SetRadioOff
<1>5. CASE SetApn
    <2>1. PICK r \in Response :
              Returns(r) /\ (AsksAt("CFUN=1", Text("CFUN", 1, {})) \/ Goes("failed"))
        BY <1>5 DEF SetApn, OnOk
    <2> QED
        BY <1>1, <1>2, <1>3, <1>5, <2>1, OnOkTypes, Commands DEF Stages, Connecting, SetApn
<1>6. CASE SetRadioOn
    <2>1. PICK r \in Response : Returns(r) /\ (Asks("COPS") \/ Goes("failed"))
        BY <1>6 DEF SetRadioOn, OnOk
    <2> QED
        BY <1>1, <1>2, <1>3, <1>6, <2>1, OnOkTypes, Commands
           DEF Stages, Connecting, Asks, SetRadioOn
<1>7. CASE SetOperator
    <2>1. PICK r \in Response : Returns(r) /\ (Asks("CGSN") \/ Goes("failed"))
        BY <1>7 DEF SetOperator, OnOk
    <2> QED
        BY <1>1, <1>2, <1>3, <1>7, <2>1, OnOkTypes, Commands
           DEF Stages, Connecting, Asks, SetOperator
<1>8. CASE GetIMEI
    <2>1. PICK r \in Response : Returns(r) /\ (Asks("CSQ") \/ Goes("failed"))
        BY <1>8 DEF GetIMEI, OnOk
    <2> QED
        BY <1>1, <1>2, <1>3, <1>8, <2>1, OnOkTypes, Commands
           DEF Stages, Connecting, Asks, GetIMEI
<1>9. CASE CreateSocket
    <2>1. PICK r \in Response : Returns(r) /\ (Goes("loop") \/ Goes("failed"))
        BY <1>9 DEF CreateSocket, OnOk
    <2> QED
        BY <1>1, <1>2, <1>3, <1>9, <2>1, OnOkTypes
           DEF Stages, Connecting, Looping, CreateSocket
<1> QED
    BY <1>4, <1>5, <1>6, <1>7, <1>8, <1>9

LEMMA Applies_Types ==
    ASSUME TypeInv, CheckAndApplyNconfig \/ SetNconfigParam
    PROVE  TypeInv'
<1>1. PICK r \in Response :
        /\ Returns(r)
        /\ AppliesNext \/ (Goes("failed") /\ UNCHANGED applyParam)
    BY DEF CheckAndApplyNconfig, SetNconfigParam
<1>2. /\ pc \in {"NCONFIG?", "NCONFIG"}
      /\ UNCHANGED <<tries, loopVars>> /\ rebooted' \in BOOLEAN
      /\ applyParam \subseteq Param
    BY DEF CheckAndApplyNconfig, SetNconfigParam, TypeInv, TypeOK
<1>3. CASE Goes("failed") /\ UNCHANGED applyParam
    BY <1>1, <1>2, <1>3, OnOkTypes DEF Stages, Connecting
<1>4. CASE Asks("NRB") /\ UNCHANGED applyParam
    BY <1>1, <1>2, <1>4, OnOkTypes, Commands DEF Stages, Connecting, Asks
<1>5. CASE AppliesOne
    <2>1. PICK p \in Param \ applyParam :
              /\ applyParam' = applyParam \cup {p}
              /\ AsksAt("NCONFIG", Text("NCONFIG", 0, {p}))
        BY <1>5 DEF AppliesOne
    <2>2. applyParam' \subseteq Param
        BY <1>2, <2>1
    <2> QED
        BY <1>1, <1>2, <2>1, <2>2, OnOkTypes, Commands DEF Stages, Connecting
<1> QED
    BY <1>1, <1>3, <1>4, <1>5 DEF AppliesNext

LEMMA Reboot_Types ==
    ASSUME TypeInv, Reboot
    PROVE  TypeInv'
<1>1. PICK r \in Response :
        /\ Returns(r)
        /\ \/ Asks("AT") /\ rebooted' = TRUE
           \/ r = "ResponseError" /\ Goes("NRB") /\ UNCHANGED rebooted
    BY DEF Reboot
<1>2. pc = "NRB" /\ UNCHANGED <<tries, applyParam, loopVars>> /\ Returned(r)
    BY <1>1, Returning DEF Reboot
<1>3. rebooted' \in BOOLEAN
    BY <1>1 DEF TypeInv, TypeOK
<1>4. deviceId' \in BOOLEAN /\ applyParam' \subseteq Param /\ tries' = 0
    BY <1>2 DEF TypeInv, TypeOK, TriesOK, Returned
<1>5. CASE Asks("AT")
    <2>1. Moves("AT")
        BY <1>2, <1>5, Commands DEF Moves, Returned, Asks, Connecting
    <2> QED
        BY <1>2, <1>3, <1>4, <2>1, Bounds, ConnectTypes DEF Stages, Connecting
<1>6. CASE Goes("NRB")
    BY <1>1, <1>2, <1>3, <1>4, <1>6, OnOkTypes DEF Stages, Connecting
<1> QED
    BY <1>1, <1>5, <1>6

LEMMA Polling_Types ==
    ASSUME TypeInv, WaitForSignalQuality \/ AttachBee
    PROVE  TypeInv'
<1>1. CASE WaitForSignalQuality
    BY <1>1, Polls_Types DEF WaitForSignalQuality
<1>2. CASE AttachBee
    BY <1>2, Polls_Types DEF AttachBee
<1> QED
    BY <1>1, <1>2

(* An amount the loop asks for. *)
LEMMA SignedRange ==
    ASSUME NEW k \in 0 .. Wrap - 1
    PROVE  /\ Signed(k) \in Int
           /\ Signed(k) > 0 =>
                 Signed(k) \in 0 .. Wrap - 1 /\ AskedFor(Signed(k)) \in 0 .. Wrap - 1
BY Widths DEF Signed, AskedFor, Least

LEMMA LoopingTypes ==
    ASSUME TypeInv, pc \in Looping, NEW stage \in Looping, Moves(stage),
           UNCHANGED <<tries, rebooted, applyParam>>, deviceId' \in BOOLEAN,
           pending' \in 0 .. Wrap - 1, amount' \in 0 .. Wrap - 1,
           stored' \in {"nothing", "whole", "piece", "padded", "garbage"}
    PROVE  TypeInv'
<1>0. stage \notin Connecting /\ stage # "failed" /\ stage \notin {"AT", "CSQ", "CGATT?"}
    BY DEF Looping, Connecting
<1>1. /\ ModemTypeOK' /\ SocketOK' /\ overlap' \in {"none", "alike", "mixed"}
      /\ pc' = stage /\ got' = Nothing /\ got' \in Line
    BY <1>0, Moving
<1>2. tries' = 0
    BY DEF TypeInv, TriesOK, Looping
<1>3. TriesOK'
    BY <1>0, <1>1, <1>2 DEF TriesOK
<1>4. rebooted' \in BOOLEAN /\ applyParam' \subseteq Param
      /\ tries' \in 0 .. MaxAlive + MaxPolls
    BY DEF TypeInv, TypeOK
<1>5. TypeOK'
    BY <1>1, <1>4 DEF TypeOK, ModemTypeOK
<1> QED
    BY <1>1, <1>3, <1>5 DEF TypeInv

LEMMA Loop_Types ==
    ASSUME TypeInv, Loop
    PROVE  TypeInv'
<1>1. /\ pc \in Looping /\ pending \in 0 .. Wrap - 1
      /\ UNCHANGED <<modem, lines, rx, overlap, tries, rebooted, applyParam,
                     deviceId, pending, stored>>
      /\ lines' \in Seq(Line) /\ deviceId' \in BOOLEAN
      /\ stored' \in {"nothing", "whole", "piece", "padded", "garbage"}
    BY DEF Loop, TypeInv, TypeOK, Looping
<1>2. amount' \in 0 .. Wrap - 1
    BY <1>1, SignedRange, Widths DEF Loop
<1>3. CASE Signed(pending) > 0
    <2>1. Moves("NSORF")
        BY <1>1, <1>3, SignedRange, Commands DEF Loop, Moves
    <2> QED
        BY <1>1, <1>2, <2>1, LoopingTypes DEF Looping
<1>4. CASE ~(Signed(pending) > 0)
    <2>1. Moves("NSOST")
        BY <1>1, <1>4, Commands DEF Loop, Moves, Asks
    <2> QED
        BY <1>1, <1>2, <2>1, LoopingTypes DEF Looping
<1> QED
    BY <1>3, <1>4

LEMMA LoweredRange ==
    ASSUME NEW k \in 0 .. Wrap - 1, NEW n \in 0 .. Wrap - 1
    PROVE  Lowered(k, n) \in 0 .. Wrap - 1
BY Widths DEF Lowered

LEMMA Receive_Types ==
    ASSUME TypeInv, SocketReceiveBytes
    PROVE  TypeInv'
<1>1. PICK r \in Response :
        /\ Returns(r)
        /\ IF r # OK
           THEN Asks("NSOST") /\ UNCHANGED <<pending, stored>>
           ELSE \E n \in 0 .. Wrap - 1, isServer \in BOOLEAN :
                /\ Received(n, isServer)
                /\ pending' = Lowered(pending, n)
                /\ IF n = 0 \/ ~isServer
                   THEN Asks("NSOST") /\ UNCHANGED stored
                   ELSE IF amount >= ByteRange
                   THEN Goes("copying") /\ UNCHANGED stored
                   ELSE Asks("NSOST") /\ stored' = Copied(got)
    BY DEF SocketReceiveBytes
<1>2. /\ pc = "NSORF" /\ pc \in Looping /\ Returned(r)
      /\ UNCHANGED <<tries, rebooted, applyParam, amount>>
      /\ pending \in 0 .. Wrap - 1 /\ amount' \in 0 .. Wrap - 1
      /\ stored \in {"nothing", "whole", "piece", "padded", "garbage"}
    BY <1>1, Returning DEF SocketReceiveBytes, TypeInv, TypeOK, Looping
<1>3. deviceId' \in BOOLEAN
    BY <1>2 DEF Returned
<1>4. pending' \in 0 .. Wrap - 1
    BY <1>1, <1>2, LoweredRange
<1>5. got = Nothing \/ got.kind \in {"whole", "piece"}
    BY <1>2 DEF TypeInv, Accepted
<1>6. stored' \in {"nothing", "whole", "piece", "padded", "garbage"}
    BY <1>1, <1>2, <1>5 DEF Copied
<1>7. Moves("NSOST") \/ Moves("copying")
    BY <1>1, <1>2, Commands DEF Moves, Returned, Asks
<1> QED
    BY <1>2, <1>3, <1>4, <1>6, <1>7, LoopingTypes DEF Looping

LEMMA Send_Types ==
    ASSUME TypeInv, SendPayload
    PROVE  TypeInv'
<1>1. PICK r \in Response : Returns(r)
    BY DEF SendPayload
<1>2. /\ pc \in Looping /\ UNCHANGED <<tries, rebooted, applyParam>>
      /\ pending' \in 0 .. Wrap - 1 /\ amount' \in 0 .. Wrap - 1
      /\ stored' \in {"nothing", "whole", "piece", "padded", "garbage"}
    BY DEF SendPayload, TypeInv, TypeOK, Looping, loopVars
<1>3. Moves("loop") /\ deviceId' \in BOOLEAN
    BY <1>1, Returning DEF SendPayload, Moves, Returned
<1> QED
    BY <1>2, <1>3, LoopingTypes DEF Looping

LEMMA StutterTypes ==
    ASSUME TypeInv, UNCHANGED vars
    PROVE  TypeInv'
<1>1. TypeOK' /\ TriesOK' /\ (got = Nothing \/ got.kind \in Accepted)'
    BY DEF TypeInv, TypeOK, TriesOK, Accepted, vars, modemVars, driverVars
<1>2. SocketOK'
    BY DEF TypeInv, SocketOK, vars, modemVars, driverVars
<1> QED
    BY <1>1, <1>2 DEF TypeInv

LEMMA Types ==
    ASSUME TypeInv, [Next]_vars
    PROVE  TypeInv'
<1>1. CASE DriverStep
    <2>1. CASE CopiesForEver
        BY <2>1, StutterTypes DEF CopiesForEver
    <2> QED
        BY <1>1, <2>1, Collects_Types, Setup_Types, On_Types, Purge_Types, Singles_Types,
           Applies_Types, Reboot_Types, Polling_Types, Loop_Types, Receive_Types,
           Send_Types DEF DriverStep
<1> QED
    BY <1>1, EnvironmentTypes, StutterTypes DEF Next

LEMMA InitTypes ==
    ASSUME Init
    PROVE  TypeInv
<1>1. /\ modem \in [booting : BOOLEAN, radio : BOOLEAN, apn : BOOLEAN,
                     right : SUBSET Param, sockets : 0 .. 1]
      /\ modem.sockets = 0
    <2>1. 0 \in 0 .. 1
        OBVIOUS
    <2> QED
        BY <2>1, Zenon DEF Init, ModemInit
<1>2. cmds \in Seq(Command) /\ rx \in Seq(Datagram) /\ lines \in Seq(Line)
      /\ Len(cmds) = 0
    BY EmptySeq DEF Init, ModemInit
<1>3. got = Nothing /\ Nothing \in Line
    BY Sayings DEF Init, Nothing
<1>4. TypeOK
    <2>1. tries \in 0 .. MaxAlive + MaxPolls /\ pending \in 0 .. Wrap - 1
          /\ amount \in 0 .. Wrap - 1
        BY Widths, Bounds DEF Init
    <2>2. rebooted \in BOOLEAN /\ deviceId \in BOOLEAN
        BY DEF Init
    <2>3. /\ overlap \in {"none", "alike", "mixed"}
          /\ stored \in {"nothing", "whole", "piece", "padded", "garbage"}
          /\ pc \in Connecting \cup Looping \cup {"failed"} /\ applyParam \subseteq Param
        BY DEF Init, ModemInit, Connecting
    <2> QED
        BY <1>1, <1>2, <1>3, <2>1, <2>2, <2>3 DEF TypeOK
<1>5. TriesOK /\ SocketOK
    BY <1>1, <1>2, Bounds DEF Init, TriesOK, SocketOK
<1> QED
    BY <1>3, <1>4, <1>5 DEF TypeInv

(* No counter, command, line or datagram of the driver and the modem leaves its
   range: the bytes counted stay a size_t, and a socket is created once
   (ATT_NBIOT.cpp:225, 892). *)
THEOREM TypeCorrect == Spec => []TypeOK
<1>1. TypeInv => TypeOK
    BY DEF TypeInv
<1> QED
    BY <1>1, InitTypes, Types, PTL DEF Spec

-----------------------------------------------------------------------------
(* Order: the modem's steps. *)
Calm == {"AT", "purge", "NRB", "failed"}

(* At these stages only the serial line matters. *)
LEMMA CalmStages ==
    ASSUME pc' \in Calm, overlap' # "mixed" => stored' \in {"nothing", "whole"}
    PROVE  /\ OneByOne' /\ Polling' /\ Opening' /\ Idle'
           /\ Receiving' /\ Sending' /\ Reading'
<1>1. pc' \notin Single /\ pc' \notin {"CFUN=1", "COPS", "CGSN", "CSQ", "CGATT?", "NSOCR"}
      /\ pc' \notin Looping
    BY DEF Calm, Single, Looping
<1>2. OneByOne' /\ Polling'
    BY <1>1 DEF OneByOne, Polling
<1>3. Opening' /\ Idle' /\ Receiving' /\ Sending' /\ Reading'
    BY <1>1 DEF Opening, Idle, Receiving, Sending, Reading, Looping
<1> QED
    BY <1>2, <1>3

(* Where the modem boots or is about to. *)
LEMMA BootStages ==
    ASSUME TypeInv, Orderly,
           modem.booting \/ (Len(cmds) \in Nat \ {0} /\ cmds[1].kind = "NRB")
    PROVE  pc \in {"AT", "NRB", "failed"} /\ lines = <<>>
<1>0. pc \in Connecting \cup Looping \cup {"failed"}
    BY DEF TypeInv, TypeOK
<1>1. CASE modem.booting
    BY <1>0, <1>1 DEF Orderly, BootOK, Quieting
<1>2. CASE Len(cmds) \in Nat \ {0} /\ cmds[1].kind = "NRB"
    <2>1. lines = <<>> /\ cmds # <<>>
        BY <1>2, EmptySeq DEF Orderly, BootOK
    <2>2. pc \notin Single
        BY <1>2, <2>1 DEF Orderly, OneByOne, Waiting, Ended, Op, Single
    <2>3. pc # "purge" /\ pc \notin {"CSQ", "CGATT?"}
        BY <1>2 DEF Orderly, Quieting, Polling, Cmds
    <2>4. pc # "NSOCR"
        BY <1>2, <2>1 DEF Orderly, Opening, NotYet, Cmds, Answered
    <2>5. pc \notin Looping
        BY <1>2, <2>1 DEF Orderly, Idle, Receiving, Sending, Reading, Looping,
                          Unanswered, Answered, HandedOver
    <2> QED
        BY <1>0, <2>1, <2>2, <2>3, <2>4, <2>5 DEF Connecting, Single
<1> QED
    BY <1>1, <1>2

LEMMA RestartedOrderly ==
    ASSUME TypeInv, Orderly, Restarted, UNCHANGED driverVars
    PROVE  Orderly'
<1>1. pc \in {"AT", "NRB", "failed"} /\ lines = <<>> /\ lines' = <<>>
    BY BootStages DEF Restarted
<1>2. pc' = pc /\ stored' = stored /\ overlap' = overlap /\ pending' = pending
    BY DEF driverVars, Restarted
<1>3. Len(cmds') = 0 /\ Len(lines') = 0
    BY <1>1 DEF Restarted
<1>4. BootOK' /\ Quieting'
    BY <1>1, <1>2, <1>3 DEF Restarted, BootOK, Quieting, Cmds, Lines, Orderly,
                            Connecting, Looping
<1>5. pc' \in Calm /\ (overlap' # "mixed" => stored' \in {"nothing", "whole"})
    BY <1>1, <1>2 DEF Calm, Orderly, Reading
<1> QED
    BY <1>4, <1>5, CalmStages DEF Orderly

LEMMA BootedOrderly ==
    ASSUME TypeInv, Orderly, Booted, UNCHANGED driverVars
    PROVE  Orderly'
<1>1. pc \in {"AT", "NRB", "failed"} /\ lines = <<>>
    BY BootStages DEF Booted
<1>2. /\ pc' = pc /\ stored' = stored /\ overlap' = overlap /\ pending' = pending
      /\ rx' = rx
    BY DEF driverVars, Booted
<1>3. Len(cmds) = 0 /\ Len(cmds') = 0 /\ Len(lines) = 0
    BY <1>1 DEF Booted, Orderly, BootOK
<1>4. /\ Len(lines') = 2 /\ lines'[1] = Plain("text") /\ lines'[2] = Plain("OK")
    BY <1>3 DEF Booted
<1>5. Lines({"text", "OK"})'
    BY <1>4 DEF Lines, Plain, Text
<1>6. BootOK' /\ Quieting'
    BY <1>1, <1>2, <1>3, <1>5 DEF Booted, BootOK, Quieting, Cmds, Orderly,
                            Connecting, Looping
<1>7. pc' \in Calm /\ (overlap' # "mixed" => stored' \in {"nothing", "whole"})
    BY <1>1, <1>2 DEF Calm, Orderly, Reading
<1> QED
    BY <1>6, <1>7, CalmStages DEF Orderly

(* What is backed stays so when another datagram comes. *)
LEMMA ArrivedBacked ==
    ASSUME NEW k, Arrived(k), NEW j, Backed(j)
    PROVE  Backed(j)'
<1>1. PICK i \in 1 .. Len(rx) : j <= rx[i].left
    BY DEF Backed
<1>2. i \in 1 .. Len(rx') /\ rx'[i] = rx[i]
    BY <1>1 DEF Arrived
<1>3. ASSUME overlap' # "mixed", NEW m \in 1 .. Len(rx')
      PROVE  rx'[m].len = j
    <2>0. overlap # "mixed" /\ \A l \in 1 .. Len(rx) : rx[l].len = k
        BY <1>3 DEF Arrived
    <2>1. rx[i].len = j /\ \A l \in 1 .. Len(rx) : rx[l].len = j /\ rx[l].len = k
        BY <1>1, <2>0 DEF Backed
    <2>2. j = k
        BY <1>1, <2>1
    <2>3. m \in 1 .. Len(rx) \/ m = Len(rx) + 1
        <3>1. Len(rx) \in Nat /\ Len(rx') = Len(rx) + 1
            BY DEF Arrived
        <3> QED
            BY <3>1
    <2>4. CASE m \in 1 .. Len(rx)
        BY <2>1, <2>4 DEF Arrived
    <2>5. CASE m = Len(rx) + 1
        BY <2>2, <2>5 DEF Arrived
    <2> QED
        BY <2>3, <2>4, <2>5
<1> QED
    BY <1>1, <1>2, <1>3 DEF Backed

LEMMA ArrivedNew ==
    ASSUME NEW k, Arrived(k)
    PROVE  Backed(k)'
<1>1. Len(rx) + 1 \in 1 .. Len(rx') /\ k <= rx'[Len(rx) + 1].left
    BY DEF Arrived
<1>2. overlap' # "mixed" => \A i \in 1 .. Len(rx') : rx'[i].len = k
    <2> SUFFICES ASSUME overlap' # "mixed", NEW i \in 1 .. Len(rx')
                 PROVE  rx'[i].len = k
        OBVIOUS
    <2>1. i \in 1 .. Len(rx) \/ i = Len(rx) + 1
        BY DEF Arrived
    <2> QED
        BY <2>1 DEF Arrived
<1> QED
    BY <1>1, <1>2 DEF Backed, Arrived

LEMMA ArrivedLags ==
    ASSUME NEW k, Arrived(k), NEW j, NEW m, Lags(j, m)
    PROVE  Lags(j, m)'
BY DEF Lags, Arrived

LEMMA ArrivedCounted ==
    ASSUME NEW k, Arrived(k), pending' = pending, Counted
    PROVE  Counted'
<1>1. overlap = "mixed" => overlap' = "mixed"
    BY DEF Arrived
<1> QED
    BY <1>1, ArrivedBacked DEF Counted, Signed

LEMMA ArrivedAnnounces ==
    ASSUME NEW k, Arrived(k), NEW i \in 1 .. Len(lines'),
           i = Len(lines) + 1 \/ (i \in 1 .. Len(lines) /\ Announces(lines[i]))
    PROVE  Announces(lines[i])'
<1>1. CASE i = Len(lines) + 1
    BY <1>1, ArrivedNew DEF Announces, Arrived
<1>2. CASE i \in 1 .. Len(lines) /\ Announces(lines[i])
    <2>1. lines'[i] = lines[i]
        BY <1>2 DEF Arrived
    <2> QED
        BY <1>2, <2>1, ArrivedBacked DEF Announces
<1> QED
    BY <1>1, <1>2

LEMMA ArrivedUnanswered ==
    ASSUME NEW k, Arrived(k), UNCHANGED driverVars, NEW op, Unanswered(op)
    PROVE  Unanswered(op)'
<1>1. \A i \in 1 .. Len(lines') : Announces(lines[i])'
    <2> TAKE i \in 1 .. Len(lines')
    <2>1. i = Len(lines) + 1 \/ (i \in 1 .. Len(lines) /\ Announces(lines[i]))
        BY DEF Arrived, Unanswered
    <2> QED
        BY <2>1, ArrivedAnnounces
<1>2. Counted'
    BY ArrivedCounted DEF Unanswered, driverVars
<1> QED
    BY <1>1, <1>2 DEF Unanswered, Arrived, driverVars

LEMMA ArrivedAnswered ==
    ASSUME NEW k, Arrived(k), UNCHANGED driverVars, NEW kinds, NEW infos,
           Answered(kinds, infos)
    PROVE  Answered(kinds, infos)'
<1>1. PICK e \in 1 .. Len(lines) :
        /\ lines[e].kind \in kinds
        /\ \A i \in 1 .. Len(lines) :
              /\ i < e => Announces(lines[i]) \/ lines[i].kind \in infos
              /\ i > e => Announces(lines[i])
    BY DEF Answered
<1>2. e \in 1 .. Len(lines') /\ lines'[e].kind \in kinds
    BY <1>1 DEF Arrived
<1>3. ASSUME NEW i \in 1 .. Len(lines'), i < e
      PROVE  Announces(lines[i])' \/ lines'[i].kind \in infos
    <2>1. i \in 1 .. Len(lines) /\ lines'[i] = lines[i]
        BY <1>3 DEF Arrived
    <2> QED
        BY <1>1, <1>3, <2>1, ArrivedAnnounces
<1>4. ASSUME NEW i \in 1 .. Len(lines'), i > e
      PROVE  Announces(lines[i])'
    <2>1. i = Len(lines) + 1 \/ (i \in 1 .. Len(lines) /\ Announces(lines[i]))
        BY SMTT(30), <1>1, <1>4 DEF Arrived
    <2> QED
        BY <2>1, ArrivedAnnounces
<1>5. Counted' /\ cmds' = <<>>
    BY ArrivedCounted DEF Answered, driverVars, Arrived
<1> QED
    BY <1>2, <1>3, <1>4, <1>5 DEF Answered

LEMMA ArrivedHandedOver ==
    ASSUME NEW k, Arrived(k), UNCHANGED driverVars, NEW m, NEW kind, HandedOver(m, kind)
    PROVE  HandedOver(m, kind)'
<1>1. PICK e \in 1 .. Len(lines) :
        /\ lines[e].kind = "OK"
        /\ IF got = Nothing
           THEN /\ e > 1 /\ lines[e - 1].n = m
                /\ kind \in {"whole", "piece"} /\ lines[e - 1].kind = kind
           ELSE e = 1 /\ got.n = m /\ got.kind = kind
        /\ \A i \in 1 .. Len(lines) :
              /\ i < e - 1 => lines[i].kind = "+NSONMI" /\ Lags(lines[i].n, m)
              /\ i > e => Announces(lines[i])
    BY DEF HandedOver
<1>2. /\ e \in 1 .. Len(lines') /\ lines'[e] = lines[e]
      /\ e > 1 => lines'[e - 1] = lines[e - 1]
    BY <1>1 DEF Arrived
<1>3. ASSUME NEW i \in 1 .. Len(lines'), i < e - 1
      PROVE  lines'[i].kind = "+NSONMI" /\ Lags(lines[i].n, m)'
    <2>1. i \in 1 .. Len(lines) /\ lines'[i] = lines[i]
        BY <1>3 DEF Arrived
    <2> QED
        BY <1>1, <1>3, <2>1, ArrivedLags
<1>4. ASSUME NEW i \in 1 .. Len(lines'), i > e
      PROVE  Announces(lines[i])'
    <2>1. i = Len(lines) + 1 \/ (i \in 1 .. Len(lines) /\ Announces(lines[i]))
        BY <1>1, <1>4 DEF Arrived
    <2> QED
        BY <2>1, ArrivedAnnounces
<1>5. cmds' = <<>> /\ m \in 1 .. ByteRange - 1 /\ got' = got
      /\ (overlap' # "mixed" => amount' = m /\ kind = "whole")
    BY DEF HandedOver, driverVars, Arrived
<1>6. Lags(Signed(pending), m)'
    BY ArrivedLags DEF HandedOver, driverVars, Signed
<1> QED
    BY <1>1, <1>2, <1>3, <1>4, <1>5, <1>6 DEF HandedOver

LEMMA ArrivedOrderly ==
    ASSUME TypeInv, Orderly, NEW k, Arrived(k), UNCHANGED driverVars
    PROVE  Orderly'
<1>1. pc \in {"NSOCR", "failed"} \cup Looping
    BY DEF TypeInv, TypeOK, SocketOK, Arrived
<1>2. /\ pc' = pc /\ stored' = stored /\ pending' = pending /\ got' = got
      /\ amount' = amount /\ deviceId' = deviceId /\ modem' = modem /\ cmds' = cmds
    BY DEF driverVars, Arrived
<1>3. pc' \notin {"AT", "purge", "NRB"} /\ pc' \notin Connecting \ {"NSOCR"}
      /\ pc' \notin Single /\ pc' \notin {"CSQ", "CGATT?"}
    BY <1>1, <1>2 DEF Connecting, Looping, Single
<1>4. BootOK'
    BY <1>2 DEF Arrived, Orderly, BootOK
<1>5. Quieting'
    BY <1>2, <1>3 DEF Quieting, Orderly, Arrived
<1>6. OneByOne'
    BY <1>2, <1>3 DEF OneByOne, Orderly
<1>7. Polling'
    BY <1>3 DEF Polling
<1>8. Opening'
    <2> SUFFICES ASSUME pc = "NSOCR"
                 PROVE  NotYet' \/ (modem.sockets = 1 /\ Answered({"OK"}, {"number"}))'
        BY <1>2 DEF Opening
    <2>1. CASE NotYet
        <3>1. lines # <<>> /\ lines[1].kind \in Info \cup {"ERROR"}
            BY <2>1 DEF NotYet, Arrived
        <3>2. Len(lines) # 0
            BY <3>1, Emptiness DEF TypeInv, TypeOK
        <3>3. lines'[1] = lines[1] /\ lines' # <<>>
            BY <3>2, EmptySeq DEF Arrived
        <3> QED
            BY <1>2, <2>1, <3>1, <3>3 DEF NotYet, Cmds
    <2>2. CASE modem.sockets = 1 /\ Answered({"OK"}, {"number"})
        BY <1>2, <2>2, ArrivedAnswered
    <2> QED
        BY <2>1, <2>2 DEF Orderly, Opening
<1>9. Idle'
    <2> SUFFICES ASSUME pc = "loop"
                 PROVE  cmds' = <<>> /\ Counted'
                        /\ \A i \in 1 .. Len(lines') : Announces(lines[i])'
        BY <1>2 DEF Idle
    <2>1. \A i \in 1 .. Len(lines') : Announces(lines[i])'
        <3> TAKE i \in 1 .. Len(lines')
        <3>1. i = Len(lines) + 1 \/ (i \in 1 .. Len(lines) /\ Announces(lines[i]))
            BY DEF Arrived, Orderly, Idle
        <3> QED
            BY <3>1, ArrivedAnnounces
    <2> QED
        BY <1>2, <2>1, ArrivedCounted DEF Orderly, Idle
<1>10. Receiving'
    <2> SUFFICES ASSUME pc = "NSORF"
                 PROVE  /\ amount' \in 1 .. ByteRange - 1
                        /\ \/ /\ Unanswered("NSORF")' /\ cmds'[1].n = amount'
                             /\ Backed(amount)' /\ Backed(Signed(pending))'
                           \/ Answered({"ERROR"}, {})' /\ got' = Nothing
                           \/ \E m \in 1 .. ByteRange - 1, kind \in {"whole", "piece"} :
                                 HandedOver(m, kind)'
        BY <1>2 DEF Receiving
    <2>1. CASE /\ Unanswered("NSORF") /\ cmds[1].n = amount
               /\ Backed(amount) /\ Backed(Signed(pending))
        <3>1. Unanswered("NSORF")'
            BY <2>1, ArrivedUnanswered
        <3>2. Backed(amount)' /\ Backed(Signed(pending))'
            BY <1>2, <2>1, ArrivedBacked DEF Signed
        <3> QED
            BY <1>2, <2>1, <3>1, <3>2 DEF Orderly, Receiving
    <2>2. CASE Answered({"ERROR"}, {}) /\ got = Nothing
        BY <1>2, <2>2, ArrivedAnswered DEF Orderly, Receiving
    <2>3. CASE \E m \in 1 .. ByteRange - 1, kind \in {"whole", "piece"} :
                  HandedOver(m, kind)
        BY <1>2, <2>3, ArrivedHandedOver DEF Orderly, Receiving
    <2> QED
        BY <2>1, <2>2, <2>3 DEF Orderly, Receiving
<1>11. Sending'
    BY <1>2, ArrivedUnanswered, ArrivedAnswered DEF Orderly, Sending
<1>12. Reading'
    <2>1. overlap' # "mixed" => overlap # "mixed"
        BY DEF Arrived
    <2>2. Untouched => Untouched'
        <3> SUFFICES ASSUME Untouched, overlap' # "mixed", NEW i \in 1 .. Len(rx')
                     PROVE  rx'[i].left = rx'[i].len
            BY DEF Untouched
        <3>1. i \in 1 .. Len(rx) \/ i = Len(rx) + 1
            BY DEF Arrived
        <3> QED
            BY <2>1, <3>1 DEF Arrived, Untouched
    <2> QED
        BY <1>2, <2>1, <2>2 DEF Reading, Orderly
<1> QED
    BY <1>4, <1>5, <1>6, <1>7, <1>8, <1>9, <1>10, <1>11, <1>12 DEF Orderly

(* What says nothing about the stages of connect() and of loop(). *)
LEMMA SingleStages ==
    ASSUME pc' \in Single, overlap' # "mixed" => stored' \in {"nothing", "whole"}
    PROVE  Polling' /\ Opening' /\ Idle' /\ Receiving' /\ Sending' /\ Reading'
<1>1. pc' \notin {"CSQ", "CGATT?", "NSOCR"} \cup Looping
    BY DEF Single, Looping
<1> QED
    BY <1>1 DEF Polling, Opening, Idle, Receiving, Sending, Reading, Looping

LEMMA PollStages ==
    ASSUME pc' \in {"CSQ", "CGATT?"}, overlap' # "mixed" => stored' \in {"nothing", "whole"}
    PROVE  Opening' /\ Idle' /\ Receiving' /\ Sending' /\ Reading'
<1>1. pc' \notin {"NSOCR"} \cup Looping
    BY DEF Looping
<1> QED
    BY <1>1 DEF Opening, Idle, Receiving, Sending, Reading, Looping

LEMMA QuietStages ==
    ASSUME pc' \in Connecting \ {"AT", "purge", "NRB", "NSOCR"}, ~modem'.booting,
           rx' = <<>>, pending' = 0
    PROVE  Quieting'
BY DEF Quieting

LEMMA LoopStages ==
    ASSUME pc' \in {"NSOCR"} \cup Looping, ~modem'.booting, modem'.apn, modem'.radio,
           deviceId'
    PROVE  Quieting' /\ OneByOne' /\ Polling'
<1>1. pc' \notin Single /\ pc' \notin {"CSQ", "CGATT?", "AT", "purge", "NRB"}
      /\ pc' \notin Connecting \ {"NSOCR"}
    BY DEF Looping, Single, Connecting
<1> QED
    BY <1>1 DEF Quieting, OneByOne, Polling

LEMMA ReplyBoot ==
    ASSUME Orderly, Reply
    PROVE  BootOK'
<1>1. ASSUME NEW i \in 1 .. Len(cmds'), cmds'[i].kind = "NRB"
      PROVE  FALSE
    <2>1. i + 1 \in 1 .. Len(cmds) /\ cmds[i + 1].kind = "NRB" /\ i + 1 # 1
        BY <1>1 DEF Reply, Worked
    <2> QED
        BY <2>1 DEF Orderly, BootOK
<1> QED
    BY <1>1 DEF BootOK, Reply

LEMMA ReplyCalm ==
    ASSUME TypeInv, Orderly, Reply, UNCHANGED driverVars, pc \in Calm
    PROVE  Orderly'
<1> DEFINE op == cmds[1].kind
<1>1. /\ pc' = pc /\ stored' = stored /\ pending' = pending /\ overlap' = overlap
      /\ 1 \in 1 .. Len(cmds) /\ op # "NRB" /\ ~modem'.booting
    BY DEF driverVars, Reply, Worked
<1>2. pc # "NRB"
    BY <1>1 DEF Orderly, Quieting, Cmds
<1>3. ASSUME pc \in {"AT", "purge"}
      PROVE  op = "AT" /\ Ends("OK") /\ rx' = rx
    <2>1. op = "AT"
        BY <1>1, <1>3 DEF Orderly, Quieting, Cmds
    <2> QED
        BY <2>1 DEF Reply
<1>4. ASSUME pc \in {"AT", "purge"}
      PROVE  Lines({"text", "OK"})'
    <2>1. Lines({"text", "OK"}) /\ Plain("OK").kind = "OK"
        BY <1>3, <1>4, Sayings DEF Orderly, Quieting
    <2> QED
        BY <1>3, <1>4, <2>1 DEF Lines, Ends
<1>5. \A i \in 1 .. Len(cmds') : i + 1 \in 1 .. Len(cmds) /\ cmds'[i] = cmds[i + 1]
    BY DEF Reply, Worked
<1>6. Quieting'
    BY <1>1, <1>2, <1>3, <1>4, <1>5
       DEF Quieting, Orderly, Calm, Cmds, Connecting, Looping
<1>7. overlap' # "mixed" => stored' \in {"nothing", "whole"}
    BY <1>1 DEF Orderly, Reading
<1> QED
    BY <1>1, <1>6, <1>7, CalmStages, ReplyBoot DEF Orderly

LEMMA ReplySingle ==
    ASSUME TypeInv, Orderly, Reply, UNCHANGED driverVars, pc \in Single
    PROVE  Orderly'
<1> DEFINE op == cmds[1].kind
<1>1. /\ pc' = pc /\ stored' = stored /\ pending' = pending /\ overlap' = overlap
      /\ deviceId' = deviceId
      /\ Len(cmds) \in Nat \ {0} /\ ~modem'.booting
      /\ cmds' \in Seq(Command) /\ lines' \in Seq(Line)
    BY DEF driverVars, Reply, Worked, ModemTypeOK
<1>2. cmds # <<>>
    BY <1>1, EmptySeq
<1>3. Waiting
    BY <1>2 DEF Orderly, OneByOne, Ended
<1>4. /\ Len(cmds) = 1 /\ Len(lines) = 0 /\ op = Op
      /\ pc = "CFUN=1" => cmds[1].n = 1
    BY <1>3 DEF Waiting
<1>5. cmds' = <<>>
    BY <1>1, <1>4, Emptiness DEF Reply, Worked
<1>6. op \in {"CFUN", "NCONFIG?", "NCONFIG", "CGDCONT", "COPS", "CGSN"}
    BY <1>4 DEF Single, Op
<1>7. /\ modem.apn => modem'.apn
      /\ op # "CFUN" /\ modem.radio => modem'.radio
      /\ rx' = rx
      /\ op = "CGDCONT" /\ Ends("OK") => modem'.apn
      /\ op = "CFUN" /\ cmds[1].n = 1 /\ Ends("OK") => modem'.radio
      /\ op = "CGSN" => ~Ends("OK")
      /\ \/ Ends("ERROR") \/ Ends("OK")
         \/ \E n \in 0 .. 1 : Tells({InfoOf(op)}, n) /\ op \in {"NCONFIG?", "CGSN"}
    <2>1. ~(Ends("OK") /\ Ends("ERROR")) /\ ~\E n \in 0 .. 1 : Ends("OK") /\ Tells({InfoOf(op)}, n)
        BY Sayings DEF Ends, Tells
    <2> QED
        BY <1>6, <2>1 DEF Reply
<1>0. Len(lines') # 0 => lines' # <<>>
    BY <1>1, Emptiness
<1>8. Ended'
    <2>1. CASE Ends("ERROR")
        <3>1. Len(lines') = 1 /\ lines'[1].kind = "ERROR" /\ lines' # <<>>
            BY <1>0, <1>4, <2>1 DEF Plain, Text, Ends
        <3> QED
            BY <1>5, <3>1 DEF Ended, Final
    <2>2. CASE Ends("OK")
        <3>1. Len(lines') = 1 /\ lines'[1].kind = "OK" /\ lines' # <<>>
            BY <1>0, <1>4, <2>2 DEF Plain, Text, Ends
        <3>2. /\ pc = "CGDCONT" => modem'.apn
              /\ pc = "CFUN=1" => modem'.radio
              /\ pc # "CGSN"
            BY <1>4, <1>7, <2>2 DEF Op
        <3> QED
            BY <1>1, <1>5, <3>1, <3>2 DEF Ended, Final
    <2>3. CASE \E n \in 0 .. 1 : Tells({InfoOf(op)}, n) /\ op \in {"NCONFIG?", "CGSN"}
        <3>1. /\ Len(lines') = 2 /\ lines' # <<>>
              /\ lines'[1].kind = InfoOf(op) /\ lines'[2].kind = "OK"
            BY <1>0, <1>4, <2>3 DEF Plain, Text, Tells
        <3>2. InfoOf(op) \notin Final \cup {"+NSONMI"} /\ (op = "CGSN" => InfoOf(op) = "+CGSN")
              /\ pc \in {"NCONFIG?", "CGSN"} /\ op = pc
            BY <1>4, <2>3 DEF InfoOf, Final, Op
        <3> QED
            BY <1>1, <1>5, <3>1, <3>2 DEF Ended, Final
    <2> QED
        BY <1>7, <2>1, <2>2, <2>3
<1>9. OneByOne'
    <2>1. /\ pc \in {"CFUN=1", "COPS", "CGSN"} => modem'.apn
          /\ pc \in {"COPS", "CGSN"} => modem'.radio
        BY <1>4, <1>7 DEF Orderly, OneByOne, Op
    <2> QED
        BY <1>1, <1>8, <2>1 DEF OneByOne, Single, Looping
<1>10. Quieting'
    BY <1>1, <1>7, QuietStages DEF Single, Connecting, Orderly, Quieting
<1>11. overlap' # "mixed" => stored' \in {"nothing", "whole"}
    BY <1>1 DEF Orderly, Reading
<1> QED
    BY <1>1, <1>9, <1>10, <1>11, SingleStages, ReplyBoot DEF Orderly

LEMMA ReplyPaired ==
    ASSUME Paired, \/ Ends("ERROR")
                   \/ \E n \in 0 .. 1, kind \in Info : Tells({kind}, n)
    PROVE  Paired'
<1>1. CASE Ends("ERROR")
    <2>1. /\ Len(lines) \in Nat /\ Len(lines') = Len(lines) + 1
          /\ \A i \in 1 .. Len(lines) : lines'[i] = lines[i]
          /\ lines'[Len(lines) + 1].kind = "ERROR"
        BY <1>1 DEF Ends, Plain, Text
    <2>2. \A i \in 1 .. Len(lines') : i \in 1 .. Len(lines) \/ i = Len(lines) + 1
        BY <2>1
    <2>3. Lines(Info \cup Final)'
        BY <2>1, <2>2 DEF Paired, Lines, Final
    <2>4. ASSUME NEW i \in 1 .. Len(lines'), lines'[i].kind \in Info
          PROVE  i < Len(lines') /\ lines'[i + 1].kind = "OK"
        <3>1. i \in 1 .. Len(lines) /\ lines[i].kind \in Info
            BY <2>1, <2>2, <2>4 DEF Info
        <3>2. i < Len(lines) /\ lines[i + 1].kind = "OK"
            BY <3>1 DEF Paired
        <3> QED
            BY <2>1, <3>1, <3>2
    <2>5. ASSUME NEW i \in 2 .. Len(lines'), lines'[i].kind = "OK"
          PROVE  lines'[i - 1].kind \in Info
        <3>1. i \in 2 .. Len(lines) /\ lines[i].kind = "OK"
            BY <2>1, <2>2, <2>5
        <3> QED
            BY <2>1, <3>1 DEF Paired
    <2> QED
        BY <2>3, <2>4, <2>5 DEF Paired
<1>2. ASSUME NEW n \in 0 .. 1, NEW kind \in Info, Tells({kind}, n)
      PROVE  Paired'
    <2>1. /\ Len(lines) \in Nat /\ Len(lines') = Len(lines) + 2
          /\ \A i \in 1 .. Len(lines) : lines'[i] = lines[i]
          /\ lines'[Len(lines) + 1].kind \in Info /\ lines'[Len(lines) + 2].kind = "OK"
        BY <1>2 DEF Tells, Plain, Text
    <2>2. \A i \in 1 .. Len(lines') :
              i \in 1 .. Len(lines) \/ i = Len(lines) + 1 \/ i = Len(lines) + 2
        BY <2>1
    <2>3. Lines(Info \cup Final)'
        BY <2>1, <2>2 DEF Paired, Lines, Final
    <2>4. ASSUME NEW i \in 1 .. Len(lines'), lines'[i].kind \in Info
          PROVE  i < Len(lines') /\ lines'[i + 1].kind = "OK"
        <3>1. CASE i \in 1 .. Len(lines)
            <4>1. i < Len(lines) /\ lines[i + 1].kind = "OK"
                BY <2>1, <2>4, <3>1 DEF Paired
            <4> QED
                BY <2>1, <3>1, <4>1
        <3>2. i # Len(lines) + 2
            BY <2>1, <2>4 DEF Info
        <3>3. CASE i = Len(lines) + 1
            <4>1. i + 1 = Len(lines) + 2
                BY <2>1, <3>3
            <4> QED
                BY <2>1, <3>3, <4>1
        <3> QED
            BY <2>2, <3>1, <3>2, <3>3
    <2>5. ASSUME NEW i \in 2 .. Len(lines'), lines'[i].kind = "OK"
          PROVE  lines'[i - 1].kind \in Info
        <3>1. CASE i \in 1 .. Len(lines)
            BY <2>1, <2>5, <3>1 DEF Paired
        <3>2. i # Len(lines) + 1
            BY <2>1, <2>5 DEF Info
        <3>3. CASE i = Len(lines) + 2
            <4>1. i - 1 = Len(lines) + 1
                BY <2>1, <3>3
            <4> QED
                BY <2>1, <4>1
        <3> QED
            BY <2>2, <3>1, <3>2, <3>3
    <2> QED
        BY <2>3, <2>4, <2>5 DEF Paired
<1> QED
    BY <1>1, <1>2

LEMMA ReplyPoll ==
    ASSUME TypeInv, Orderly, Reply, UNCHANGED driverVars, pc \in {"CSQ", "CGATT?"}
    PROVE  Orderly'
<1> DEFINE op == cmds[1].kind
<1>1. /\ pc' = pc /\ stored' = stored /\ pending' = pending /\ overlap' = overlap
      /\ deviceId' = deviceId /\ got' = got
      /\ 1 \in 1 .. Len(cmds) /\ ~modem'.booting /\ lines \in Seq(Line)
      /\ lines' \in Seq(Line)
    BY DEF driverVars, Reply, Worked, ModemTypeOK, TypeInv, TypeOK
<1>2. op \in {"CSQ", "CGATT?"}
    BY <1>1 DEF Orderly, Polling, Cmds
<1>3. /\ rx' = rx /\ (modem.apn => modem'.apn) /\ (modem.radio => modem'.radio)
      /\ Ends("ERROR") \/ \E n \in 0 .. 1 : Tells({InfoOf(op)}, n)
    BY <1>2 DEF Reply
<1>4. InfoOf(op) \in Info
    BY <1>2 DEF InfoOf, Info
<1>5. Paired'
    BY <1>3, <1>4, ReplyPaired DEF Orderly, Polling
<1>6. Cmds({"CSQ", "CGATT?"})'
    <2>1. \A i \in 1 .. Len(cmds') : i + 1 \in 1 .. Len(cmds) /\ cmds'[i] = cmds[i + 1]
        BY DEF Reply, Worked
    <2> QED
        BY <2>1 DEF Orderly, Polling, Cmds
<1>7. pc = "CGATT?" /\ got # Nothing => lines' # <<>> /\ lines'[1].kind = "OK"
    <2> SUFFICES ASSUME pc = "CGATT?", got # Nothing
                 PROVE  lines' # <<>> /\ lines'[1].kind = "OK"
        OBVIOUS
    <2>1. lines # <<>> /\ lines[1].kind = "OK"
        BY DEF Orderly, Polling
    <2>2. Len(lines) \in Nat \ {0}
        BY <1>1, <2>1, Emptiness
    <2>3. lines'[1] = lines[1] /\ Len(lines') # 0
        BY <1>3, <2>2 DEF Ends, Tells
    <2> QED
        BY <1>1, <2>1, <2>3, Emptiness
<1>8. OneByOne'
    BY <1>1, <1>3 DEF OneByOne, Single, Looping, Orderly
<1>9. Quieting'
    BY <1>1, <1>3, QuietStages DEF Connecting, Orderly, Quieting
<1>10. overlap' # "mixed" => stored' \in {"nothing", "whole"}
    BY <1>1 DEF Orderly, Reading
<1> QED
    BY <1>1, <1>5, <1>6, <1>7, <1>8, <1>9, <1>10, PollStages, ReplyBoot DEF Orderly, Polling

(* What is backed stays so while no datagram comes or goes. *)
LEMMA SameBacked ==
    ASSUME rx' = rx, overlap' = overlap
    PROVE  /\ \A j : Backed(j) <=> Backed(j)'
           /\ pending' = pending => (Counted <=> Counted')
           /\ Untouched <=> Untouched'
BY DEF Backed, Counted, Untouched, Signed

(* An answer without a datagram to a command that waits. *)
LEMMA ReplyAnswered ==
    ASSUME NEW op, Unanswered(op), Worked, ModemTypeOK', UNCHANGED driverVars,
           rx' = rx, overlap' = overlap,
           NEW kinds, NEW infos,
           \/ Ends("ERROR") /\ "ERROR" \in kinds
           \/ "OK" \in kinds /\ \E n \in 0 .. 1 : Tells(infos, n)
    PROVE  Answered(kinds, infos)'
<1>1. /\ \A i \in 1 .. Len(lines) : Announces(lines[i])
      /\ Counted' /\ Len(cmds) = 1
    BY SameBacked DEF Unanswered, driverVars
<1>2. cmds' = <<>>
    BY <1>1, Emptiness DEF Worked, ModemTypeOK
<1>3. ASSUME NEW i \in 1 .. Len(lines'), lines'[i] = lines[i], i \in 1 .. Len(lines)
      PROVE  Announces(lines[i])'
    BY <1>1, <1>3, SameBacked DEF Announces
<1>4. CASE Ends("ERROR") /\ "ERROR" \in kinds
    <2> DEFINE e == Len(lines) + 1
    <2>1. /\ Len(lines) \in Nat /\ Len(lines') = e /\ e \in 1 .. Len(lines')
          /\ \A i \in 1 .. Len(lines) : lines'[i] = lines[i]
          /\ lines'[e].kind \in kinds
        BY <1>4 DEF Ends, Plain, Text
    <2> HIDE DEF e
    <2>2. \A i \in 1 .. Len(lines') : i < e => Announces(lines[i])'
        BY <1>3, <2>1 DEF e
    <2>3. \A i \in 1 .. Len(lines') : ~(i > e)
        BY <2>1
    <2> QED
        BY <1>1, <1>2, <2>1, <2>2, <2>3 DEF Answered
<1>5. ASSUME "OK" \in kinds, NEW n \in 0 .. 1, Tells(infos, n)
      PROVE  Answered(kinds, infos)'
    <2> DEFINE e == Len(lines) + 2
    <2>1. /\ Len(lines) \in Nat /\ Len(lines') = e /\ e \in 1 .. Len(lines')
          /\ \A i \in 1 .. Len(lines) : lines'[i] = lines[i]
          /\ lines'[e].kind \in kinds /\ lines'[Len(lines) + 1].kind \in infos
        BY <1>5 DEF Tells, Plain, Text
    <2> HIDE DEF e
    <2>2. \A i \in 1 .. Len(lines') : i < e => i \in 1 .. Len(lines) \/ i = Len(lines) + 1
        BY <2>1 DEF e
    <2>3. \A i \in 1 .. Len(lines') : i < e =>
              Announces(lines[i])' \/ lines'[i].kind \in infos
        BY <1>3, <2>1, <2>2
    <2>4. \A i \in 1 .. Len(lines') : ~(i > e)
        BY <2>1
    <2> QED
        BY <1>1, <1>2, <2>1, <2>3, <2>4 DEF Answered
<1> QED
    BY <1>4, <1>5

LEMMA ReplyOpening ==
    ASSUME TypeInv, Orderly, Reply, UNCHANGED driverVars, pc = "NSOCR"
    PROVE  Orderly'
<1> DEFINE op == cmds[1].kind
<1>1. /\ pc' = pc /\ stored' = stored /\ pending' = pending /\ overlap' = overlap
      /\ deviceId' = deviceId /\ got' = got
      /\ 1 \in 1 .. Len(cmds) /\ ~modem'.booting /\ lines \in Seq(Line)
      /\ lines' \in Seq(Line) /\ Len(cmds) # 0 /\ Len(lines) \in Nat
    BY Emptiness DEF driverVars, Reply, Worked, ModemTypeOK, TypeInv, TypeOK
<1>2. NotYet
    <2>1. cmds # <<>>
        BY <1>1
    <2> QED
        BY <2>1 DEF Orderly, Opening, Answered
<1>3. op \in {"CSQ", "CGATT?", "NSOCR"}
    BY <1>1, <1>2 DEF NotYet, Cmds
<1>4. /\ rx' = rx /\ (modem.apn => modem'.apn) /\ (modem.radio => modem'.radio)
      /\ Ends("ERROR") \/ \E n \in 0 .. 1 : Tells({InfoOf(op)}, n)
    BY <1>3 DEF Reply
<1>5. Cmds({"CSQ", "CGATT?", "NSOCR"})'
    <2>1. \A i \in 1 .. Len(cmds') : i + 1 \in 1 .. Len(cmds) /\ cmds'[i] = cmds[i + 1]
        BY DEF Reply, Worked
    <2> QED
        BY <1>2, <2>1 DEF NotYet, Cmds
<1>6. ASSUME lines' # <<>>, lines'[1].kind \in Info \cup {"ERROR"}
      PROVE  Opening'
    BY <1>1, <1>2, <1>5, <1>6 DEF Opening, NotYet
<1>7. Len(lines') # 0 /\ lines' # <<>>
    BY <1>1, <1>4, Emptiness DEF Ends, Tells
<1>8. Opening'
    <2>1. CASE lines # <<>>
        <3>1. Len(lines) # 0 /\ lines[1].kind \in Info \cup {"ERROR"}
            BY <1>1, <1>2, <2>1, Emptiness DEF NotYet
        <3>2. lines'[1] = lines[1]
            BY <1>1, <1>4, <3>1 DEF Ends, Tells
        <3> QED
            BY <1>6, <1>7, <3>1, <3>2
    <2>2. ASSUME lines = <<>>, Ends("ERROR") \/ op # "NSOCR"
          PROVE  Opening'
        <3>1. Len(lines) = 0
            BY <2>2
        <3>2. lines'[1].kind \in Info \cup {"ERROR"}
            <4>1. CASE Ends("ERROR")
                BY <3>1, <4>1 DEF Ends, Plain, Text
            <4>2. ASSUME NEW n \in 0 .. 1, Tells({InfoOf(op)}, n), op # "NSOCR"
                  PROVE  lines'[1].kind \in Info
                <5>1. InfoOf(op) \in Info
                    BY <1>3, <4>2 DEF InfoOf, Info
                <5> QED
                    BY <3>1, <4>2, <5>1 DEF Tells
            <4> QED
                BY <1>4, <2>2, <4>1, <4>2
        <3> QED
            BY <1>6, <1>7, <3>2
    <2>3. ASSUME lines = <<>>, ~Ends("ERROR"), op = "NSOCR"
          PROVE  Opening'
        <3>1. /\ Len(lines) = 0 /\ Len(cmds) = 1 /\ rx = <<>> /\ modem.sockets = 0
              /\ pending = 0 /\ got = Nothing
            BY <1>2, <2>3 DEF NotYet
        <3>2. modem'.sockets = 1
            <4>1. modem'.sockets = modem.sockets + 1
                BY <2>3 DEF Reply
            <4> QED
                BY <3>1, <4>1
        <3>3. /\ Len(lines') = 2 /\ lines'[1].kind = "number" /\ lines'[2].kind = "OK"
            BY <1>4, <2>3, <3>1 DEF Tells, Plain, Text, InfoOf
        <3>4. cmds' = <<>>
            BY <3>1, Emptiness DEF Reply, Worked, ModemTypeOK
        <3>5. Counted'
            BY <1>1, <3>1, Widths DEF Counted, Signed
        <3>6. Answered({"OK"}, {"number"})'
            BY <3>3, <3>4, <3>5 DEF Answered
        <3> QED
            BY <3>2, <3>6 DEF Opening
    <2> QED
        BY <2>1, <2>2, <2>3
<1>9. Reading' /\ Idle' /\ Receiving' /\ Sending'
    BY <1>1, <1>4, SameBacked DEF Reading, Idle, Receiving, Sending, Orderly, Looping
<1>10. Quieting' /\ OneByOne' /\ Polling'
    BY <1>1, <1>4, LoopStages DEF Orderly, OneByOne
<1> QED
    BY <1>8, <1>9, <1>10, ReplyBoot DEF Orderly

(* What is handed over when a bytes are asked for: at least one; the whole of
   the oldest datagram unless datagrams of different lengths were held. *)
LEMMA GivesSome ==
    ASSUME NEW a, NEW n, Gives(a, n), Backed(a)
    PROVE  n \in 1 .. ByteRange - 1
<1>1. a \in 1 .. ByteRange - 1 /\ rx[1].left \in 1 .. ByteRange - 1 /\ n = Least(a, rx[1].left)
    BY DEF Gives, Backed, Datagram
<1> QED
    BY <1>1 DEF Least

LEMMA GivesWhole ==
    ASSUME NEW a, NEW n, Gives(a, n), Backed(a), Untouched, overlap # "mixed"
    PROVE  n = a /\ n = rx[1].left /\ n = rx[1].len
<1>1. 1 \in 1 .. Len(rx) /\ n = Least(a, rx[1].left) /\ a \in Int
    BY DEF Gives, Backed
<1>2. rx[1].len = a /\ rx[1].left = rx[1].len
    BY <1>1 DEF Backed, Untouched
<1> QED
    BY <1>1, <1>2 DEF Least

LEMMA GivesLags ==
    ASSUME rx \in Seq(Datagram), NEW a, NEW n, Gives(a, n), Backed(a), Untouched,
           overlap' = overlap, NEW j, Backed(j)
    PROVE  Lags(j, n)'
<1>1. n \in 1 .. ByteRange - 1 /\ Len(rx) \in Nat \ {0}
    BY GivesSome DEF Gives
<1>2. PICK i \in 1 .. Len(rx) : j <= rx[i].left
    BY DEF Backed
<1>3. rx[i].left \in Int /\ rx[1].left \in Int /\ j \in Int
    <2>1. rx[i] \in Datagram /\ rx[1] \in Datagram
        BY <1>1, <1>2, ElementOfSeq
    <2>2. j \in Int
        BY DEF Backed
    <2> QED
        BY <2>1, <2>2 DEF Datagram
<1>4. j <= n \/ \E l \in 1 .. Len(rx') : j <= rx'[l].left + n
    <2>1. CASE n = rx[1].left /\ i = 1
        BY <1>2, <2>1
    <2>2. ASSUME n = rx[1].left, i # 1
          PROVE  \E l \in 1 .. Len(rx') : j <= rx'[l].left + n
        <3>1. i - 1 \in 1 .. Len(rx') /\ i - 1 \in 1 .. Len(rx) - 1 /\ (i - 1) + 1 = i
            BY <1>1, <2>2 DEF Gives
        <3>2. rx'[i - 1] = rx[i]
            BY <2>2, <3>1 DEF Gives
        <3>3. j <= rx'[i - 1].left + n
            BY <1>1, <1>2, <1>3, <3>2
        <3> QED
            BY <3>1, <3>3
    <2>3. ASSUME n # rx[1].left, i = 1
          PROVE  \E l \in 1 .. Len(rx') : j <= rx'[l].left + n
        <3>1. Len(rx') = Len(rx) /\ rx'[1].left = rx[1].left - n
            BY <2>3 DEF Gives
        <3>2. j <= rx[1].left /\ rx[1].left \in Int /\ n \in Int /\ 1 \in 1 .. Len(rx')
            BY <1>1, <1>2, <1>3, <2>3, <3>1
        <3>3. j <= rx'[1].left + n
            BY <1>3, <3>1, <3>2
        <3> QED
            BY <3>2, <3>3
    <2>4. ASSUME n # rx[1].left, i # 1
          PROVE  \E l \in 1 .. Len(rx') : j <= rx'[l].left + n
        <3>1. i \in 1 .. Len(rx') /\ rx'[i] = rx[i]
            BY <1>1, <2>4 DEF Gives
        <3>2. j <= rx'[i].left + n
            BY <1>1, <1>2, <1>3, <3>1
        <3> QED
            BY <3>1, <3>2
    <2> QED
        BY <2>1, <2>2, <2>3, <2>4
<1>5. overlap' # "mixed" => j = n
    <2> SUFFICES ASSUME overlap # "mixed" PROVE j = n
        OBVIOUS
    <2>1. 1 \in 1 .. Len(rx) /\ n = rx[1].len
        BY <1>1, GivesWhole
    <2> QED
        BY <2>1 DEF Backed
<1>6. j \in 1 .. ByteRange - 1
    BY DEF Backed
<1> QED
    BY <1>4, <1>5, <1>6 DEF Lags

LEMMA GivesUntouched ==
    ASSUME NEW a, NEW n, Gives(a, n), Backed(a), Untouched, overlap' = overlap
    PROVE  Untouched'
<1> SUFFICES ASSUME overlap # "mixed", NEW i \in 1 .. Len(rx')
             PROVE  rx'[i].left = rx'[i].len
    BY DEF Untouched
<1>1. n = rx[1].left
    BY GivesWhole
<1>2. i + 1 \in 1 .. Len(rx) /\ rx'[i] = rx[i + 1]
    BY <1>1 DEF Gives
<1> QED
    BY <1>2 DEF Untouched

LEMMA ReplyHandedOver ==
    ASSUME TypeInv, Unanswered("NSORF"), Worked, ModemTypeOK', UNCHANGED driverVars,
           overlap' = overlap, Backed(amount), Backed(Signed(pending)), Untouched,
           NEW n \in 1 .. ByteRange - 1, Gives(amount, n),
           NEW kind, kind = IF n = rx[1].len THEN "whole" ELSE "piece",
           Tells({kind}, n)
    PROVE  HandedOver(n, kind)'
<1>0. rx \in Seq(Datagram)
    BY DEF TypeInv, TypeOK
<1>1. /\ \A i \in 1 .. Len(lines) : Announces(lines[i])
      /\ Len(cmds) = 1 /\ got = Nothing
    BY DEF Unanswered
<1>2. cmds' = <<>> /\ got' = Nothing /\ amount' = amount
    BY <1>1, Emptiness DEF Worked, ModemTypeOK, driverVars
<1>3. Lags(Signed(pending), n)'
    BY <1>0, GivesLags DEF driverVars, Signed
<1>4. overlap' # "mixed" => amount' = n /\ kind = "whole"
    BY <1>2, GivesWhole
<1> DEFINE e == Len(lines) + 2
<1>5. /\ Len(lines) \in Nat /\ Len(lines') = e /\ e \in 1 .. Len(lines') /\ e > 1
      /\ \A i \in 1 .. Len(lines) : lines'[i] = lines[i]
      /\ lines'[e].kind = "OK"
      /\ e - 1 = Len(lines) + 1
      /\ lines'[Len(lines) + 1].kind = kind /\ lines'[Len(lines) + 1].n = n
    BY DEF Tells, Plain, Text
<1> HIDE DEF e
<1>6. \A i \in 1 .. Len(lines') : i < e - 1 => i \in 1 .. Len(lines)
    BY <1>5
<1>7. ASSUME NEW i \in 1 .. Len(lines)
      PROVE  lines'[i].kind = "+NSONMI" /\ Lags(lines[i].n, n)'
    BY <1>0, <1>1, <1>5, GivesLags DEF Announces
<1>8. \A i \in 1 .. Len(lines') :
          /\ i < e - 1 => lines'[i].kind = "+NSONMI" /\ Lags(lines[i].n, n)'
          /\ i > e => Announces(lines[i])'
    BY <1>5, <1>6, <1>7
<1>9. lines'[e - 1].kind = kind /\ lines'[e - 1].n = n
    BY <1>5
<1> QED
    BY <1>2, <1>3, <1>4, <1>5, <1>8, <1>9 DEF HandedOver

LEMMA ReplyLooping ==
    ASSUME TypeInv, Orderly, Reply, UNCHANGED driverVars, pc \in Looping
    PROVE  Orderly'
<1> DEFINE op == cmds[1].kind
<1>1. /\ pc' = pc /\ stored' = stored /\ pending' = pending /\ overlap' = overlap
      /\ deviceId' = deviceId /\ got' = got /\ amount' = amount
      /\ cmds # <<>> /\ ~modem'.booting /\ Worked /\ ModemTypeOK'
    BY Emptiness DEF driverVars, Reply, Worked
<1>2. pc \in {"NSORF", "NSOST"}
    BY <1>1 DEF Orderly, Idle, Reading, Looping
<1>3. Unanswered(pc) /\ op = pc
    BY <1>1, <1>2 DEF Orderly, Receiving, Sending, Answered, HandedOver, Unanswered
<1>4. /\ (modem.apn => modem'.apn) /\ (modem.radio => modem'.radio)
      /\ modem'.sockets = modem.sockets
    BY <1>2, <1>3 DEF Reply
<1>5. Receiving' /\ Sending' /\ Untouched'
    <2>1. CASE pc = "NSOST"
        <3>1. rx' = rx /\ (Ends("ERROR") \/ \E n \in 0 .. 1 : Tells({"text"}, n))
            BY <1>3, <2>1 DEF Reply, InfoOf
        <3>2. Answered(Final, {"text"})'
            BY <1>1, <1>3, <2>1, <3>1, ReplyAnswered DEF Final
        <3> QED
            BY <1>1, <2>1, <3>1, <3>2, SameBacked DEF Receiving, Sending, Orderly, Reading, Looping
    <2>2. ASSUME pc = "NSORF"
          PROVE  Receiving' /\ Sending' /\ Untouched'
        <3>1. /\ amount \in 1 .. ByteRange - 1 /\ cmds[1].n = amount
              /\ Backed(amount) /\ Backed(Signed(pending)) /\ Untouched
            BY <1>1, <2>2 DEF Orderly, Receiving, Answered, HandedOver, Reading, Looping,
                              Unanswered
        <3>2. Len(rx) # 0
            BY <3>1 DEF Backed
        <3>3. \/ Ends("ERROR") /\ rx' = rx
              \/ \E n \in 0 .. ByteRange - 1 :
                    /\ Gives(amount, n)
                    /\ Tells({IF n = rx[1].len THEN "whole" ELSE "piece"}, n)
            BY <1>3, <2>2, <3>1, <3>2 DEF Reply
        <3>4. CASE Ends("ERROR") /\ rx' = rx
            <4>1. Answered({"ERROR"}, {})'
                BY <1>1, <1>3, <2>2, <3>4, ReplyAnswered
            <4>2. got' = Nothing
                BY <1>1, <1>3 DEF Unanswered
            <4> QED
                BY <1>1, <2>2, <3>1, <3>4, <4>1, <4>2, SameBacked DEF Receiving, Sending
        <3>5. ASSUME NEW n \in 0 .. ByteRange - 1, Gives(amount, n),
                     Tells({IF n = rx[1].len THEN "whole" ELSE "piece"}, n)
              PROVE  Receiving' /\ Sending' /\ Untouched'
            <4>1. n \in 1 .. ByteRange - 1
                BY <3>1, <3>5, GivesSome
            <4>3. PICK kind \in {"whole", "piece"} :
                      /\ kind = IF n = rx[1].len THEN "whole" ELSE "piece"
                      /\ Tells({kind}, n)
                BY <3>5
            <4>5. Unanswered("NSORF")
                BY <1>3, <2>2
            <4>6. HandedOver(n, kind)'
                BY <1>1, <3>1, <3>5, <4>1, <4>3, <4>5, ReplyHandedOver
            <4>2. \E m \in 1 .. ByteRange - 1, k \in {"whole", "piece"} : HandedOver(m, k)'
                BY <4>1, <4>3, <4>6
            <4>4. Untouched'
                BY <1>1, <3>1, <3>5, GivesUntouched
            <4> QED
                BY <1>1, <2>2, <3>1, <4>1, <4>2, <4>3, <4>4 DEF Receiving, Sending
        <3> QED
            BY <3>3, <3>4, <3>5
    <2> QED
        BY <1>2, <2>1, <2>2
<1>6. Reading' /\ Idle' /\ Opening'
    BY <1>1, <1>2, <1>4, <1>5 DEF Reading, Idle, Opening, Orderly, Looping
<1>7. Quieting' /\ OneByOne' /\ Polling'
    BY <1>1, <1>4, LoopStages DEF Orderly, OneByOne
<1> QED
    BY <1>5, <1>6, <1>7, ReplyBoot DEF Orderly

LEMMA EnvironmentOrderly ==
    ASSUME TypeInv, Orderly, Environment
    PROVE  Orderly'
<1>1. Stepped /\ UNCHANGED driverVars
    BY EnvironmentTypes DEF Environment
<1>2. pc \in Calm \cup Single \cup {"CSQ", "CGATT?", "NSOCR"} \cup Looping
    BY DEF TypeInv, TypeOK, Connecting, Calm, Single
<1> QED
    BY <1>1, <1>2, ReplyCalm, ReplySingle, ReplyPoll, ReplyOpening, ReplyLooping,
       RestartedOrderly, BootedOrderly, ArrivedOrderly DEF Stepped

-----------------------------------------------------------------------------
(* Order: the driver's steps while it connects. *)
LEMMA Outcomes ==
    ASSUME NEW l
    PROVE  /\ Outcome(l) = "ResponseOK" <=> l.kind = "OK"
           /\ l.kind = "ERROR" => Outcome(l) = "ResponseError"
           /\ l.kind = "+NSONMI" => Outcome(l) = "ResponseNotFound"
           /\ l.kind \notin Final /\ ~ParserWaits => Outcome(l) = "ResponseNotFound"
           /\ l.kind \notin Final \cup {"+NSONMI"} /\ ParserWaits =>
                 (Outcome(l) = "ResponseNotFound" <=> l.kind \in Accepted)
           /\ Outcome(l) \in {"ResponseOK", "ResponseError", "ResponseNotFound"}
BY DEF Outcome, Final

(* The lines that are left are lines that were there. *)
LEMMA LeftLines ==
    ASSUME TypeInv, NEW r, Returned(r)
    PROVE  /\ Len(lines) \in Nat
           /\ Len(lines') = 0 \/ Len(lines') = Len(lines) - 1
           /\ \A i \in 1 .. Len(lines') : i + 1 \in 1 .. Len(lines) /\ lines'[i] = lines[i + 1]
           /\ lines = <<>> => lines' = <<>>
<1>1. lines \in Seq(Line)
    BY DEF TypeInv, TypeOK
<1>2. CASE Dropped
    <2>1. lines # <<>>
        BY <1>1, <1>2, Emptiness DEF Dropped
    <2> QED
        BY <1>2, <2>1 DEF Dropped
<1>3. CASE lines = <<>> /\ lines' = <<>>
    <2>1. Len(lines) = 0 /\ Len(lines') = 0
        BY <1>3
    <2> QED
        BY <1>3, <2>1
<1> QED
    BY <1>2, <1>3 DEF Returned

LEMMA BootKept ==
    ASSUME TypeInv, Orderly, NEW r, Returned(r),
           cmds' = cmds \/ \E c \in Command : Sends(c) /\ c.kind # "NRB"
    PROVE  BootOK'
<1>1. modem' = modem /\ (lines = <<>> => lines' = <<>>)
    BY LeftLines DEF Returned
<1>2. modem.booting => cmds' = cmds
    BY DEF Sends
<1>3. ASSUME NEW i \in 1 .. Len(cmds'), cmds'[i].kind = "NRB"
      PROVE  i \in 1 .. Len(cmds) /\ cmds[i].kind = "NRB"
    BY <1>3 DEF Sends
<1> QED
    BY <1>1, <1>2, <1>3 DEF Orderly, BootOK

LEMMA Fails ==
    ASSUME TypeInv, Orderly, NEW r, Returned(r), Goes("failed"), stored' = stored
    PROVE  Orderly'
<1>1. BootOK' /\ pc' = "failed"
    BY BootKept DEF Goes
<1>2. Quieting'
    BY <1>1 DEF Quieting, Connecting, Looping
<1>3. overlap' # "mixed" => stored' \in {"nothing", "whole"}
    BY DEF Returned, Orderly, Reading
<1> QED
    BY <1>1, <1>2, <1>3, CalmStages DEF Orderly, Calm

LEMMA Setup_Orderly ==
    ASSUME TypeInv, Orderly, Setup
    PROVE  Orderly'
<1>1. /\ pc' = "AT" /\ Len(cmds') = 0 /\ Len(lines') = 0 /\ cmds' = <<>> /\ lines' = <<>>
      /\ rx' = <<>> /\ pending' = 0 /\ stored' = stored /\ overlap' = overlap
    BY DEF Setup, PowerCycle
<1>2. BootOK' /\ Quieting'
    BY <1>1 DEF BootOK, Quieting, Cmds, Lines, Connecting
<1>3. overlap' # "mixed" => stored' \in {"nothing", "whole"}
    BY <1>1 DEF Orderly, Reading
<1> QED
    BY <1>1, <1>2, <1>3, CalmStages DEF Orderly, Calm

(* On its way to quiet the driver goes on to another such stage. *)
LEMMA CalmMoves ==
    ASSUME TypeInv, Orderly, NEW r, Returned(r), NEW stage \in {"AT", "purge"},
           pc \in {"AT", "purge", "NRB"}, pc' = stage,
           UNCHANGED loopVars,
           \/ cmds' = cmds /\ stage = "purge" /\ pc \in {"AT", "purge"} /\ Dropped
           \/ Sends(Plain("AT")) /\ stage = "AT" /\ pc \in {"AT", "NRB"}
    PROVE  Orderly'
<1>1. BootOK'
    BY Commands, BootKept DEF Connecting
<1>2. Lines({"text", "OK"})'
    <2>1. Lines({"text", "OK"})
        BY DEF Orderly, Quieting
    <2> QED
        BY <2>1, LeftLines DEF Lines
<1>3. ASSUME stage = "AT"
      PROVE  Cmds({"AT", "NRB"})'
    <2>1. Cmds({"AT", "NRB"})
        BY <1>3 DEF Orderly, Quieting, Cmds
    <2>2. Plain("AT").kind = "AT"
        BY DEF Plain, Text
    <2>3. \A i \in 1 .. Len(cmds') :
             (i \in 1 .. Len(cmds) /\ cmds'[i] = cmds[i]) \/ cmds'[i] = Plain("AT")
        BY <1>3 DEF Sends
    <2> QED
        BY <2>1, <2>2, <2>3 DEF Cmds
<1>4. ASSUME stage = "purge"
      PROVE  Cmds({"AT"})' /\ ~modem'.booting
    <2>1. lines # <<>>
        BY <1>4, Emptiness DEF Dropped, TypeInv, TypeOK
    <2>2. Cmds({"AT"}) /\ ~modem.booting
        BY <1>4, <2>1 DEF Orderly, Quieting, Cmds, BootOK
    <2> QED
        BY <1>4, <2>2 DEF Cmds, Returned
<1>5. rx' = <<>> /\ pending' = 0 /\ stored' = stored /\ overlap' = overlap
    BY DEF Returned, Orderly, Quieting, Connecting, loopVars
<1>6. Quieting'
    BY <1>2, <1>3, <1>4, <1>5 DEF Quieting, Connecting, Looping
<1>7. overlap' # "mixed" => stored' \in {"nothing", "whole"}
    BY <1>5 DEF Orderly, Reading
<1> QED
    BY <1>1, <1>6, <1>7, CalmStages DEF Orderly, Calm

LEMMA On_Orderly ==
    ASSUME TypeInv, Orderly, On
    PROVE  Orderly'
<1>1. PICK r \in Response :
        /\ Returns(r)
        /\ IF r = OK THEN tries' = 0 /\ Goes("purge")
           ELSE /\ tries' = tries + 1
                /\ IF tries' < MaxAlive THEN Asks("AT") ELSE Goes("failed")
    BY DEF On
<1>2. /\ Returned(r) /\ pc = "AT" /\ UNCHANGED loopVars /\ stored' = stored
      /\ cmds \in Seq(Command)
    BY <1>1, Returning DEF On, loopVars, TypeInv, TypeOK
<1>3. CASE r = OK
    <2>1. Dropped /\ cmds' = cmds /\ pc' = "purge"
        BY <1>1, <1>2, <1>3 DEF Returned, OK, Goes
    <2> QED
        BY <1>2, <2>1, CalmMoves
<1>4. CASE r # OK /\ Asks("AT")
    <2>1. Sends(Plain("AT")) /\ pc' = "AT"
        BY <1>2, <1>4, Sending1, Commands DEF Asks, AsksAt, Connecting
    <2> QED
        BY <1>2, <2>1, CalmMoves
<1>5. CASE Goes("failed")
    BY <1>2, <1>5, Fails
<1> QED
    BY <1>1, <1>3, <1>4, <1>5

LEMMA Reboot_Orderly ==
    ASSUME TypeInv, Orderly, Reboot
    PROVE  Orderly'
<1>1. PICK r \in Response :
        /\ Returns(r)
        /\ \/ Asks("AT") /\ rebooted' = TRUE
           \/ r = "ResponseError" /\ Goes("NRB") /\ UNCHANGED rebooted
    BY DEF Reboot
<1>2. /\ Returned(r) /\ pc = "NRB" /\ UNCHANGED loopVars /\ stored' = stored
      /\ cmds \in Seq(Command)
    BY <1>1, Returning DEF Reboot, loopVars, TypeInv, TypeOK
<1>3. CASE Asks("AT")
    <2>1. Sends(Plain("AT")) /\ pc' = "AT"
        BY <1>2, <1>3, Sending1, Commands DEF Asks, AsksAt, Connecting
    <2> QED
        BY <1>2, <2>1, CalmMoves
<1>4. r # "ResponseError"
    <2> SUFFICES ASSUME r = "ResponseError" PROVE FALSE
        OBVIOUS
    <2>1. Dropped /\ Outcome(lines[1]) = "ResponseError"
        BY <1>2 DEF Returned
    <2>2. lines[1].kind \in {"text", "OK"} /\ ~ParserWaits
        BY <1>2, <2>1 DEF Orderly, Quieting, Lines, Dropped, ParserWaits, Accepted
    <2> QED
        BY <2>1, <2>2, Outcomes DEF Final
<1> QED
    BY <1>1, <1>3, <1>4

(* All is quiet, and the driver asks the next single command. *)
LEMMA AskSingle ==
    ASSUME TypeInv, Orderly, NEW r, Returned(r), cmds = <<>>, lines' = <<>>,
           ~modem.booting, rx = <<>>, pending = 0, UNCHANGED loopVars,
           NEW stage \in Single, NEW c \in Command, AsksAt(stage, c),
           c.kind = IF stage = "CFUN=1" THEN "CFUN" ELSE stage,
           stage = "CFUN=1" => c.n = 1,
           stage \in {"CFUN=1", "COPS", "CGSN"} => modem.apn,
           stage \in {"COPS", "CGSN"} => modem.radio
    PROVE  Orderly'
<1>1. Sends(c) /\ pc' = stage /\ modem' = modem /\ rx' = <<>> /\ pending' = 0
      /\ stored' = stored /\ overlap' = overlap
    BY Sending1 DEF AsksAt, TypeInv, TypeOK, Returned, loopVars
<1>2. Len(cmds') = 1 /\ cmds'[1] = c
    BY <1>1 DEF Sends
<1>3. c.kind # "NRB"
    BY DEF Single
<1>4. Waiting'
    BY <1>1, <1>2 DEF Waiting, Op
<1>5. OneByOne'
    BY <1>1, <1>4 DEF OneByOne, Single, Looping
<1>6. Quieting'
    BY <1>1, QuietStages DEF Single, Connecting
<1>7. overlap' # "mixed" => stored' \in {"nothing", "whole"}
    BY <1>1 DEF Orderly, Reading
<1>8. BootOK'
    BY <1>1, <1>3, BootKept
<1> QED
    BY <1>1, <1>5, <1>6, <1>7, <1>8, SingleStages DEF Orderly

LEMMA Purge_Orderly ==
    ASSUME TypeInv, Orderly, Starting, Closed, PurgeAllResponsesRead
    PROVE  Orderly' \/ Behind'
<1>1. PICK r \in Response :
        /\ Returned(r)
        /\ \/ Goes("purge") /\ Dropped
           \/ rebooted /\ Asks("CGDCONT")
           \/ ~rebooted /\ AsksAt("CFUN", Plain("CFUN"))
    BY Purging
<1>2. /\ pc = "purge" /\ UNCHANGED loopVars /\ cmds \in Seq(Command)
      /\ lines' \in Seq(Line)
    BY <1>1, Purging DEF TypeInv, TypeOK, Returned
<1>3. /\ Cmds({"AT"}) /\ Lines({"text", "OK"}) /\ ~modem.booting
      /\ rx = <<>> /\ pending = 0
    BY <1>2 DEF Orderly, Quieting, Connecting
<1>4. CASE Goes("purge") /\ Dropped
    BY <1>1, <1>2, <1>4, CalmMoves DEF Goes
<1>5. CASE cmds = <<>> /\ lines' = <<>>
    <2>1. CASE rebooted /\ Asks("CGDCONT")
        BY <1>1, <1>2, <1>3, <1>5, <2>1, AskSingle, Commands DEF Asks, Single, Connecting
    <2>2. CASE ~rebooted /\ AsksAt("CFUN", Plain("CFUN"))
        BY <1>1, <1>2, <1>3, <1>5, <2>2, AskSingle, Commands DEF Single, Connecting
    <2> QED
        BY <1>1, <1>4, <2>1, <2>2
<1>6. CASE ~rebooted /\ AsksAt("CFUN", Plain("CFUN"))
    <2>1. Len(cmds) = 0 /\ Len(lines) = 0
        BY <1>2, <1>6 DEF Starting
    <2>2. cmds = <<>> /\ Len(lines') = 0
        BY <1>1, <1>2, <2>1, LeftLines, Emptiness
    <2> QED
        BY <1>2, <1>5, <2>2, Emptiness
<1>7. CASE rebooted /\ Asks("CGDCONT") /\ ~(cmds = <<>> /\ lines' = <<>>)
    <2>1. /\ Sends(Plain("CGDCONT")) /\ Plain("CGDCONT").kind = "CGDCONT"
          /\ pc' = "CGDCONT" /\ modem' = modem /\ overlap' = overlap /\ stored' = stored
        BY <1>1, <1>2, <1>7, Sending1, Commands
           DEF Asks, AsksAt, Connecting, Returned, loopVars
    <2>2. Cmds(Earlier)' /\ Cmds(Known)'
        <3>1. \A i \in 1 .. Len(cmds') :
                 (i \in 1 .. Len(cmds) /\ cmds'[i] = cmds[i]) \/ cmds'[i] = Plain("CGDCONT")
            BY <1>3, <2>1 DEF Sends
        <3>2. \A i \in 1 .. Len(cmds') : cmds'[i].kind \in {"AT", "CGDCONT"}
            BY <1>3, <2>1, <3>1 DEF Cmds
        <3> QED
            BY <3>2 DEF Cmds, Earlier, Known
    <2>3. \A i \in 1 .. Len(lines') : lines'[i].kind \in {"text", "OK"}
        BY <1>1, <1>3, LeftLines DEF Lines
    <2>4. Len(cmds) \in Nat /\ Len(cmds') = Len(cmds) + 1
        BY <1>3, <2>1 DEF Sends
    <2>5. Overdue'
        <3>1. CASE cmds # <<>>
            BY <1>2, <2>4, <3>1, Emptiness DEF Overdue
        <3>2. CASE cmds = <<>>
            <4>1. Len(lines') \in Nat \ {0} /\ Len(cmds') = 1
                BY <1>2, <1>7, <2>4, <3>2, Emptiness
            <4>2. /\ Len(lines) \in Nat \ {0} /\ Len(lines') = Len(lines) - 1
                  /\ lines'[Len(lines')] = lines[Len(lines)]
                BY <1>1, <4>1, LeftLines
            <4>3. lines'[Len(lines')].kind \in Final
                BY <2>3, <4>1, <4>2 DEF Closed, Final
            <4> QED
                BY <4>1, <4>3 DEF Overdue
        <3> QED
            BY <3>1, <3>2
    <2>6. overlap' # "mixed" => stored' \in {"nothing", "whole"}
        BY <2>1 DEF Orderly, Reading
    <2> QED
        BY <1>3, <2>1, <2>2, <2>3, <2>5, <2>6 DEF Behind, Trailing
<1> QED
    BY <1>1, <1>4, <1>5, <1>6, <1>7

(* The answer of a single command is the last line, and its own. *)
LEMMA SingleReturns ==
    ASSUME TypeInv, Orderly, NEW r, Returned(r), pc \in Single,
           r = OK \/ (pc = "NCONFIG" /\ ~shifted')
    PROVE  /\ cmds = <<>> /\ lines' = <<>> /\ ~modem.booting
           /\ rx = <<>> /\ pending = 0
           /\ r = OK /\ pc = "CGDCONT" => modem.apn
           /\ r = OK /\ pc = "CFUN=1" => modem.radio
           /\ r = OK /\ pc = "CGSN" => deviceId'
<1>1. ~modem.booting /\ rx = <<>> /\ pending = 0
    BY DEF Orderly, Quieting, Single, Connecting
<1>2. Waiting \/ Ended
    BY DEF Orderly, OneByOne
<1>3. ~Waiting
    <2> SUFFICES ASSUME Waiting PROVE FALSE
        OBVIOUS
    <2>1. lines = <<>> /\ Len(cmds) = 1
        BY DEF Waiting
    <2>2. r = "ResponseTimeout" /\ shifted'
        BY <2>1 DEF Returned, Dropped, OK
    <2> QED
        BY <2>2 DEF OK
<1>4. /\ cmds = <<>> /\ lines # <<>>
      /\ \A i \in 1 .. Len(lines) : lines[i].kind \in Final <=> i = Len(lines)
    BY <1>2, <1>3 DEF Ended
<1>5. Dropped /\ r = Outcome(lines[1]) /\ r # "ResponseNotFound"
    BY <1>4 DEF Returned
<1>6. lines[1].kind \in Final
    BY <1>5, Outcomes DEF OK, Final, ParserWaits, Accepted
<1>7. Len(lines) = 1
    BY <1>4, <1>5, <1>6 DEF Dropped
<1>8. lines' = <<>>
    BY <1>5, <1>7, Emptiness DEF Dropped, Returned
<1>9. ASSUME r = OK
      PROVE  /\ pc = "CGDCONT" => modem.apn
             /\ pc = "CFUN=1" => modem.radio
             /\ pc = "CGSN" => deviceId'
    <2>1. lines[1].kind = "OK"
        BY <1>5, <1>9, Outcomes DEF OK
    <2>2. pc = "CGSN" => deviceId
        BY <1>2, <1>3, <1>7, <2>1 DEF Ended
    <2>3. deviceId => deviceId'
        BY DEF Returned
    <2> QED
        BY <1>2, <1>3, <1>7, <2>1, <2>2, <2>3 DEF Ended
<1> QED
    BY <1>1, <1>4, <1>8, <1>9

LEMMA Singles_Orderly ==
    ASSUME TypeInv, Orderly, SetRadioOff \/ SetApn \/ SetRadioOn \/ SetOperator
    PROVE  Orderly'
<1>1. pc \in Single /\ UNCHANGED loopVars /\ stored' = stored
    BY DEF SetRadioOff, SetApn, SetRadioOn, SetOperator, Single, loopVars
<1>2. ASSUME NEW r \in Response, Returns(r), Goes("failed")
      PROVE  Orderly'
    BY <1>1, <1>2, Returning, Fails
<1>3. ASSUME Returns(OK)
      PROVE  /\ Returned(OK) /\ cmds = <<>> /\ lines' = <<>> /\ ~modem.booting
             /\ rx = <<>> /\ pending = 0
             /\ pc = "CGDCONT" => modem.apn
             /\ pc = "CFUN=1" => modem.radio
    BY <1>1, <1>3, Returning, SingleReturns
<1>4. CASE SetRadioOff
    <2>1. PICK r \in Response :
              Returns(r) /\ ((r = OK /\ Asks("NCONFIG?")) \/ Goes("failed"))
        BY <1>4 DEF SetRadioOff, OnOk
    <2> QED
        BY <1>1, <1>2, <1>3, <2>1, AskSingle, Commands DEF Asks, Single, Connecting
<1>5. CASE SetApn
    <2>1. PICK r \in Response : Returns(r) /\ ((r = OK /\
              AsksAt("CFUN=1", Text("CFUN", 1, {}))) \/ Goes("failed"))
        BY <1>5 DEF SetApn, OnOk
    <2>2. pc = "CGDCONT"
        BY <1>5 DEF SetApn
    <2> QED
        BY <1>1, <1>2, <1>3, <2>1, <2>2, AskSingle, Commands DEF Single, Connecting
<1>6. CASE SetRadioOn
    <2>1. PICK r \in Response :
              Returns(r) /\ ((r = OK /\ Asks("COPS")) \/ Goes("failed"))
        BY <1>6 DEF SetRadioOn, OnOk
    <2>2. pc = "CFUN=1" /\ modem.apn
        BY <1>6 DEF SetRadioOn, Orderly, OneByOne
    <2> QED
        BY <1>1, <1>2, <1>3, <2>1, <2>2, AskSingle, Commands DEF Asks, Single, Connecting
<1>7. CASE SetOperator
    <2>1. PICK r \in Response :
              Returns(r) /\ ((r = OK /\ Asks("CGSN")) \/ Goes("failed"))
        BY <1>7 DEF SetOperator, OnOk
    <2>2. pc = "COPS" /\ modem.apn /\ modem.radio
        BY <1>7 DEF SetOperator, Orderly, OneByOne
    <2> QED
        BY <1>1, <1>2, <1>3, <2>1, <2>2, AskSingle, Commands DEF Asks, Single, Connecting
<1> QED
    BY <1>4, <1>5, <1>6, <1>7

LEMMA Applies_Orderly ==
    ASSUME TypeInv, Orderly, CheckAndApplyNconfig \/ SetNconfigParam, ~shifted'
    PROVE  Orderly'
<1>1. PICK r \in Response :
        /\ Returns(r)
        /\ \/ AppliesNext /\ (r = OK \/ pc = "NCONFIG")
           \/ Goes("failed")
    BY DEF CheckAndApplyNconfig, SetNconfigParam
<1>2. /\ pc \in Single /\ Returned(r) /\ UNCHANGED loopVars /\ stored' = stored
      /\ cmds \in Seq(Command)
    BY <1>1, Returning DEF CheckAndApplyNconfig, SetNconfigParam, Single, loopVars,
                           TypeInv, TypeOK
<1>3. CASE Goes("failed")
    BY <1>2, <1>3, Fails
<1>4. CASE AppliesNext /\ (r = OK \/ pc = "NCONFIG")
    <2>1. cmds = <<>> /\ lines' = <<>> /\ ~modem.booting /\ rx = <<>> /\ pending = 0
        BY <1>2, <1>4, SingleReturns
    <2>2. CASE AppliesOne
        <3>1. PICK q \in Param : AsksAt("NCONFIG", Text("NCONFIG", 0, {q}))
            BY <2>2 DEF AppliesOne
        <3> QED
            BY <1>2, <2>1, <3>1, AskSingle, Commands DEF Single
    <2>3. CASE Asks("NRB")
        <3>1. /\ Sends(Plain("NRB")) /\ Plain("NRB").kind = "NRB" /\ pc' = "NRB"
              /\ modem' = modem /\ rx' = <<>> /\ pending' = 0
              /\ stored' = stored /\ overlap' = overlap
            BY <1>2, <2>1, <2>3, Sending1, Commands
               DEF Asks, AsksAt, Connecting, Returned, loopVars
        <3>2. Len(cmds') = 1 /\ cmds'[1].kind = "NRB" /\ Len(lines') = 0
            BY <2>1, <3>1 DEF Sends
        <3>3. modem.sockets = 0
            BY <1>2 DEF TypeInv, SocketOK, Single, Connecting
        <3>4. BootOK' /\ Quieting'
            BY <2>1, <3>1, <3>2, <3>3 DEF BootOK, Quieting, Cmds, Lines, Connecting
        <3>5. overlap' # "mixed" => stored' \in {"nothing", "whole"}
            BY <3>1 DEF Orderly, Reading
        <3> QED
            BY <3>1, <3>4, <3>5, CalmStages DEF Orderly, Calm
    <2> QED
        BY <1>4, <2>2, <2>3 DEF AppliesNext
<1> QED
    BY <1>1, <1>3, <1>4

(* The polls. *)
LEMMA PairedShorter ==
    ASSUME Paired, Len(lines) \in Nat,
           Len(lines') = 0 \/ Len(lines') = Len(lines) - 1,
           \A i \in 1 .. Len(lines') : i + 1 \in 1 .. Len(lines) /\ lines'[i] = lines[i + 1]
    PROVE  Paired'
<1>1. /\ Len(lines) \in Nat
      /\ Len(lines') = 0 \/ Len(lines') = Len(lines) - 1
      /\ \A i \in 1 .. Len(lines') : i + 1 \in 1 .. Len(lines) /\ lines'[i] = lines[i + 1]
    OBVIOUS
<1>2. Lines(Info \cup Final)'
    BY <1>1 DEF Paired, Lines
<1>3. ASSUME NEW i \in 1 .. Len(lines'), lines'[i].kind \in Info
      PROVE  i < Len(lines') /\ lines'[i + 1].kind = "OK"
    <2>1. i + 1 < Len(lines) /\ lines[(i + 1) + 1].kind = "OK"
        BY <1>1, <1>3 DEF Paired
    <2>2. i + 1 \in 1 .. Len(lines')
        BY <1>1, <2>1
    <2> QED
        BY <1>1, <2>1, <2>2
<1>4. ASSUME NEW i \in 2 .. Len(lines'), lines'[i].kind = "OK"
      PROVE  lines'[i - 1].kind \in Info
    <2>1. i + 1 \in 2 .. Len(lines) /\ lines[i + 1].kind = "OK"
        BY <1>1, <1>4
    <2>2. lines[(i + 1) - 1].kind \in Info
        BY <2>1 DEF Paired
    <2>3. i - 1 \in 1 .. Len(lines') /\ (i - 1) + 1 = (i + 1) - 1
        BY <1>1
    <2> QED
        BY <1>1, <2>2, <2>3
<1> QED
    BY <1>2, <1>3, <1>4 DEF Paired

LEMMA PairedLeft ==
    ASSUME TypeInv, NEW r, Returned(r), Paired
    PROVE  Paired'
BY LeftLines, PairedShorter

LEMMA AskPoll ==
    ASSUME TypeInv, Orderly, NEW r, Returned(r), NEW stage \in {"CSQ", "CGATT?"},
           Asks(stage), Cmds({"CSQ", "CGATT?"}), Paired', ~modem.booting,
           modem.apn, modem.radio, deviceId', rx = <<>>, pending = 0, UNCHANGED loopVars
    PROVE  Orderly'
<1>1. /\ Sends(Plain(stage)) /\ Plain(stage).kind = stage /\ pc' = stage /\ got' = Nothing
      /\ modem' = modem /\ rx' = <<>> /\ pending' = 0 /\ stored' = stored
      /\ overlap' = overlap /\ Plain(stage) \in Command
    BY Sending1, Commands
       DEF Asks, AsksAt, TypeInv, TypeOK, Returned, loopVars, Connecting
<1>2. Cmds({"CSQ", "CGATT?"})'
    <2>1. \A i \in 1 .. Len(cmds') :
             (i \in 1 .. Len(cmds) /\ cmds'[i] = cmds[i]) \/ cmds'[i] = Plain(stage)
        BY <1>1 DEF Sends
    <2> QED
        BY <1>1, <2>1 DEF Cmds
<1>3. Polling'
    BY <1>1, <1>2 DEF Polling
<1>4. OneByOne'
    BY <1>1 DEF OneByOne, Single, Looping
<1>5. Quieting'
    BY <1>1, QuietStages DEF Connecting
<1>6. BootOK'
    BY <1>1, BootKept
<1>7. overlap' # "mixed" => stored' \in {"nothing", "whole"}
    BY <1>1 DEF Orderly, Reading
<1> QED
    BY <1>1, <1>3, <1>4, <1>5, <1>6, <1>7, PollStages DEF Orderly

LEMMA IMEI_Orderly ==
    ASSUME TypeInv, Orderly, GetIMEI
    PROVE  Orderly'
<1>1. PICK r \in Response :
          Returns(r) /\ ((r = OK /\ Asks("CSQ")) \/ Goes("failed"))
    BY DEF GetIMEI, OnOk
<1>2. /\ pc = "CGSN" /\ pc \in Single /\ Returned(r) /\ UNCHANGED loopVars
      /\ stored' = stored
    BY <1>1, Returning DEF GetIMEI, Single, loopVars
<1>3. CASE Goes("failed")
    BY <1>2, <1>3, Fails
<1>4. CASE r = OK /\ Asks("CSQ")
    <2>1. /\ cmds = <<>> /\ lines' = <<>> /\ ~modem.booting /\ rx = <<>> /\ pending = 0
          /\ deviceId'
        BY <1>2, <1>4, SingleReturns
    <2>2. modem.apn /\ modem.radio
        BY <1>2 DEF Orderly, OneByOne
    <2>3. Len(cmds) = 0 /\ Len(lines') = 0
        BY <2>1
    <2>4. Cmds({"CSQ", "CGATT?"}) /\ Paired'
        BY <2>3 DEF Cmds, Paired, Lines
    <2> QED
        BY <1>2, <1>4, <2>1, <2>2, <2>4, AskPoll
<1> QED
    BY <1>1, <1>3, <1>4

(* What is true while the polls go on. *)
LEMMA PollFacts ==
    ASSUME TypeInv, Orderly, NEW r, Returned(r), pc \in {"CSQ", "CGATT?"}
    PROVE  /\ Cmds({"CSQ", "CGATT?"}) /\ Paired /\ Paired' /\ ~modem.booting
           /\ modem.apn /\ modem.radio /\ deviceId'
           /\ rx = <<>> /\ pending = 0 /\ modem.sockets = 0
<1>1. Cmds({"CSQ", "CGATT?"}) /\ Paired
    BY DEF Orderly, Polling
<1>2. Paired'
    BY <1>1, PairedLeft
<1>3. modem.apn /\ modem.radio /\ deviceId'
    BY DEF Orderly, OneByOne, Returned
<1>4. ~modem.booting /\ rx = <<>> /\ pending = 0
    BY DEF Orderly, Quieting, Connecting
<1>5. modem.sockets = 0
    BY DEF TypeInv, SocketOK, Connecting
<1> QED
    BY <1>1, <1>2, <1>3, <1>4, <1>5

LEMMA PollsOn ==
    ASSUME TypeInv, Orderly, NEW r, Returned(r), pc \in {"CSQ", "CGATT?"},
           NEW op \in {"CSQ", "CGATT?"}, PollsAgain(op), UNCHANGED loopVars
    PROVE  Orderly'
<1>1. CASE Asks(op)
    BY <1>1, PollFacts, AskPoll
<1>2. CASE Goes("failed")
    BY <1>2, Fails DEF loopVars
<1> QED
    BY <1>1, <1>2 DEF PollsAgain

LEMMA Signal_Orderly ==
    ASSUME TypeInv, Orderly, WaitForSignalQuality
    PROVE  Orderly'
<1>1. PICK r \in Response :
        /\ Returns(r)
        /\ Asks("CGATT?") \/ PollsAgain("CSQ")
    BY DEF WaitForSignalQuality
<1>2. Returned(r) /\ pc = "CSQ" /\ UNCHANGED loopVars
    BY <1>1, Returning DEF WaitForSignalQuality
<1>3. CASE Asks("CGATT?")
    BY <1>2, <1>3, PollFacts, AskPoll
<1>4. CASE PollsAgain("CSQ")
    BY <1>2, <1>4, PollsOn
<1> QED
    BY <1>1, <1>3, <1>4

LEMMA NSOCR_Opened ==
    ASSUME TypeInv, Orderly, BootOK', NotYet', pc' = "NSOCR", ~modem'.booting,
           modem'.apn, modem'.radio, deviceId', rx' = <<>>,
           stored' = stored, overlap' = overlap
    PROVE  Orderly'
<1>1. Quieting' /\ OneByOne' /\ Polling'
    BY LoopStages
<1>2. Len(rx') = 0
    OBVIOUS
<1>3. Opening' /\ Idle' /\ Receiving' /\ Sending' /\ Reading'
    BY <1>2 DEF Opening, Idle, Receiving, Sending, Reading, Untouched, Looping, Orderly
<1> QED
    BY <1>1, <1>3 DEF Orderly

LEMMA Attach_Orderly ==
    ASSUME TypeInv, Orderly, AttachBee
    PROVE  Orderly'
<1>1. PICK r \in Response :
        /\ Returns(r)
        /\ (got # Nothing /\ Asks("NSOCR")) \/ PollsAgain("CGATT?")
    BY DEF AttachBee
<1>2. /\ Returned(r) /\ pc = "CGATT?" /\ UNCHANGED loopVars
      /\ cmds \in Seq(Command) /\ lines \in Seq(Line)
    BY <1>1, Returning DEF AttachBee, TypeInv, TypeOK
<1>3. CASE PollsAgain("CGATT?")
    BY <1>2, <1>3, PollsOn
<1>4. CASE got # Nothing /\ Asks("NSOCR")
    <2>1. /\ Cmds({"CSQ", "CGATT?"}) /\ Paired /\ Paired' /\ ~modem.booting
          /\ modem.apn /\ modem.radio /\ deviceId'
          /\ rx = <<>> /\ pending = 0 /\ modem.sockets = 0
        BY <1>2, PollFacts
    <2>2. /\ Sends(Plain("NSOCR")) /\ Plain("NSOCR").kind = "NSOCR" /\ pc' = "NSOCR"
          /\ got' = Nothing /\ modem' = modem /\ rx' = <<>> /\ pending' = 0
          /\ stored' = stored /\ overlap' = overlap /\ Plain("NSOCR") \in Command
        BY <1>2, <1>4, <2>1, Sending1, Commands
           DEF Asks, AsksAt, Returned, loopVars, Connecting
    <2>3. lines # <<>> /\ lines[1].kind = "OK"
        BY <1>2, <1>4 DEF Orderly, Polling
    <2>4. Dropped /\ lines' \in Seq(Line)
        BY <1>2, <2>3 DEF Returned
    <2>5. \A i \in 1 .. Len(cmds') :
             \/ i \in 1 .. Len(cmds) /\ cmds'[i] = cmds[i]
             \/ i = Len(cmds) + 1 /\ cmds'[i] = Plain("NSOCR")
        BY <2>1, <2>2 DEF Sends
    <2>6. Cmds({"CSQ", "CGATT?", "NSOCR"})'
        BY <2>1, <2>2, <2>5 DEF Cmds
    <2>7. CASE lines' = <<>>
        <3>1. /\ cmds' # <<>>
              /\ \/ cmds'[1].kind \in {"CSQ", "CGATT?"}
                 \/ Len(cmds') = 1 /\ cmds'[1].kind = "NSOCR"
            <4>1. Len(cmds) \in Nat /\ cmds' # <<>>
                BY <2>1, <2>2 DEF Sends
            <4>2. CASE Len(cmds) = 0
                BY <2>1, <2>2, <4>2 DEF Sends
            <4>3. CASE Len(cmds) # 0
                <5>1. 1 \in 1 .. Len(cmds) /\ cmds'[1] = cmds[1]
                    BY <2>1, <2>2, <4>1, <4>3 DEF Sends
                <5> QED
                    BY <2>1, <4>1, <5>1 DEF Cmds
            <4> QED
                BY <4>1, <4>2, <4>3
        <3>2. NotYet'
            BY <2>1, <2>2, <2>6, <2>7, <3>1 DEF NotYet
        <3> QED
            BY <2>1, <2>2, <3>2, NSOCR_Opened, <1>2, BootKept
    <2>8. CASE lines' # <<>>
        <3>1. Len(lines') \in Nat \ {0}
            BY <2>4, <2>8, Emptiness
        <3>2. lines'[1] = lines[2] /\ 2 \in 2 .. Len(lines)
            BY <2>4, <3>1 DEF Dropped
        <3>3. lines[2].kind \in Info \cup {"ERROR"}
            BY <2>1, <2>3, <3>2 DEF Paired, Lines, Info, Final
        <3>4. NotYet'
            BY <2>2, <2>6, <2>8, <3>2, <3>3 DEF NotYet
        <3> QED
            BY <2>1, <2>2, <3>4, NSOCR_Opened, <1>2, BootKept
    <2> QED
        BY <2>7, <2>8
<1> QED
    BY <1>1, <1>3, <1>4

-----------------------------------------------------------------------------
(* Order: the driver's steps in loop(). *)

(* Where the counts and the datagrams stay, so does what is backed. *)
LEMMA SameAnnounces ==
    ASSUME rx' = rx, overlap' = overlap, NEW i, NEW j, lines'[i] = lines[j],
           Announces(lines[j])
    PROVE  Announces(lines[i])'
BY SameBacked DEF Announces

(* The lines that are left after one that was none but an announcement. *)
LEMMA LeftAnnounces ==
    ASSUME TypeInv, NEW r, Returned(r),
           \A i \in 2 .. Len(lines) : Announces(lines[i])
    PROVE  \A i \in 1 .. Len(lines') : Announces(lines[i])'
<1> TAKE i \in 1 .. Len(lines')
<1>1. i + 1 \in 1 .. Len(lines) /\ lines'[i] = lines[i + 1] /\ Len(lines) \in Nat
    BY LeftLines
<1>2. i + 1 \in 2 .. Len(lines)
    BY <1>1
<1> QED
    BY <1>1, <1>2, SameAnnounces DEF Returned

LEMMA LoopingFacts ==
    ASSUME TypeInv, Orderly, pc \in {"NSOCR"} \cup Looping
    PROVE  /\ ~modem.booting /\ modem.apn /\ modem.radio /\ deviceId /\ Untouched
           /\ overlap # "mixed" => stored \in {"nothing", "whole"}
<1>1. modem.apn /\ modem.radio /\ deviceId
    BY DEF Orderly, OneByOne
<1>2. ~modem.booting
    BY DEF Orderly, Quieting, Connecting, Looping
<1> QED
    BY <1>1, <1>2 DEF Orderly, Reading

(* A socket has been created, and all that is left are announcements. *)
LEMMA LoopAgain ==
    ASSUME TypeInv, Orderly, NEW r, Returned(r), Goes("loop"),
           pc \in {"NSOCR"} \cup Looping, modem.sockets = 1, cmds = <<>>, Counted,
           \A i \in 2 .. Len(lines) : Announces(lines[i]), UNCHANGED loopVars
    PROVE  Orderly'
<1>1. /\ pc' = "loop" /\ cmds' = <<>> /\ modem' = modem /\ rx' = rx /\ overlap' = overlap
      /\ pending' = pending /\ stored' = stored /\ cmds' = cmds
    BY DEF Goes, loopVars, Returned
<1>2. deviceId' /\ ~modem'.booting /\ modem'.apn /\ modem'.radio
    BY <1>1, LoopingFacts DEF Returned
<1>3. \A i \in 1 .. Len(lines') : Announces(lines[i])'
    BY LeftAnnounces
<1>4. Counted' /\ Untouched'
    BY <1>1, SameBacked, LoopingFacts
<1>5. Idle' /\ Opening' /\ Receiving' /\ Sending'
    BY <1>1, <1>3, <1>4 DEF Idle, Opening, Receiving, Sending
<1>6. Reading'
    BY <1>1, <1>4, LoopingFacts DEF Reading
<1>7. Quieting' /\ OneByOne' /\ Polling'
    BY <1>1, <1>2, LoopStages DEF Looping
<1> QED
    BY <1>1, <1>5, <1>6, <1>7, BootKept DEF Orderly

LEMMA CreateSocket_Orderly ==
    ASSUME TypeInv, Orderly, CreateSocket
    PROVE  Orderly'
<1>1. PICK r \in Response :
          Returns(r) /\ ((r = OK /\ Goes("loop")) \/ Goes("failed"))
    BY DEF CreateSocket, OnOk
<1>2. /\ pc = "NSOCR" /\ Returned(r) /\ UNCHANGED loopVars
      /\ stored' = stored /\ lines \in Seq(Line)
    BY <1>1, Returning DEF CreateSocket, loopVars, TypeInv, TypeOK
<1>3. CASE Goes("failed")
    BY <1>2, <1>3, Fails
<1>4. CASE r = OK /\ Goes("loop")
    <2>1. Dropped /\ lines[1].kind = "OK"
        BY <1>2, <1>4, Outcomes DEF Returned, OK
    <2>2. ~NotYet
        BY <2>1 DEF NotYet, Info, Dropped
    <2>3. modem.sockets = 1 /\ Answered({"OK"}, {"number"})
        BY <1>2, <2>2 DEF Orderly, Opening
    <2>4. PICK e \in 1 .. Len(lines) :
            /\ lines[e].kind = "OK"
            /\ \A i \in 1 .. Len(lines) :
                  /\ i < e => Announces(lines[i]) \/ lines[i].kind = "number"
                  /\ i > e => Announces(lines[i])
        BY <2>3 DEF Answered
    <2>5. ~(1 < e)
        BY <2>1, <2>4 DEF Announces, Dropped
    <2>6. \A i \in 2 .. Len(lines) : Announces(lines[i])
        BY <2>1, <2>4, <2>5 DEF Dropped
    <2> QED
        BY <1>2, <1>4, <2>3, <2>6, LoopAgain DEF Answered
<1> QED
    BY <1>1, <1>3, <1>4

LEMMA Send_Orderly ==
    ASSUME TypeInv, Orderly, SendPayload, ~shifted'
    PROVE  Orderly'
<1>1. PICK r \in Response : Returns(r)
    BY DEF SendPayload
<1>2. /\ pc = "NSOST" /\ Returned(r) /\ Goes("loop") /\ UNCHANGED loopVars
      /\ modem.sockets = 1
    BY <1>1, Returning DEF SendPayload, Orderly, Reading, Looping
<1>3. Len(lines) # 0 /\ Answered(Final, {"text"})
    <2>1. CASE Unanswered("NSOST")
        <3>1. Len(cmds) = 1 /\ \A i \in 1 .. Len(lines) : Announces(lines[i])
            BY <2>1 DEF Unanswered
        <3>2. Dropped /\ r = Outcome(lines[1]) /\ r # "ResponseNotFound"
            BY <1>2, <3>1 DEF Returned
        <3>3. lines[1].kind = "+NSONMI"
            BY <3>1, <3>2 DEF Dropped, Announces
        <3> QED
            BY <3>2, <3>3, Outcomes
    <2>2. CASE Answered(Final, {"text"})
        BY <2>2 DEF Answered
    <2> QED
        BY <1>2, <2>1, <2>2 DEF Orderly, Sending
<1>4. Dropped /\ r = Outcome(lines[1]) /\ r # "ResponseNotFound"
    BY <1>2, <1>3 DEF Returned
<1>5. lines[1].kind \in Final
    BY <1>2, <1>4, Outcomes DEF ParserWaits, Accepted
<1>6. PICK e \in 1 .. Len(lines) :
        /\ lines[e].kind \in Final
        /\ \A i \in 1 .. Len(lines) :
              /\ i < e => Announces(lines[i]) \/ lines[i].kind = "text"
              /\ i > e => Announces(lines[i])
    BY <1>3 DEF Answered
<1>7. ~(1 < e)
    BY <1>4, <1>5, <1>6 DEF Announces, Final, Dropped
<1>8. \A i \in 2 .. Len(lines) : Announces(lines[i])
    BY <1>4, <1>6, <1>7 DEF Dropped
<1> QED
    BY <1>2, <1>3, <1>8, LoopAgain DEF Answered, Looping

(* A count less what was read is their difference, also when it is negative. *)
LEMMA SignedLowered ==
    ASSUME NEW k \in 0 .. Wrap - 1, NEW m \in 1 .. ByteRange - 1,
           Signed(k) \in 1 .. ByteRange - 1
    PROVE  Signed(Lowered(k, m)) = Signed(k) - m
<1>1. k = Signed(k) /\ 2 * k < Wrap
    BY Widths DEF Signed
<1>2. CASE k >= m
    <2>1. k - m \in 0 .. Wrap - 1 /\ 2 * (k - m) < Wrap
        BY <1>1, <1>2, Widths
    <2>2. (k - m) % Wrap = k - m
        BY <2>1, Widths
    <2> QED
        BY <1>1, <2>1, <2>2 DEF Signed, Lowered
<1>3. CASE k < m
    <2>1. (k - m) + Wrap \in 0 .. Wrap - 1 /\ ~(2 * ((k - m) + Wrap) < Wrap)
        BY <1>1, <1>3, Widths
    <2>2. (k - m) % Wrap = (k - m) + Wrap
        BY <2>1, Widths
    <2> QED
        BY <1>1, <2>1, <2>2, Widths DEF Signed, Lowered
<1> QED
    BY <1>2, <1>3

(* The driver goes on to send, without a command that waits. *)
LEMMA GoesToSend ==
    ASSUME TypeInv, Orderly, pc \in Looping, cmds = <<>>,
           Asks("NSOST"), modem' = modem, rx' = rx, overlap' = overlap, deviceId',
           modem.sockets = 1, Counted',
           \A i \in 1 .. Len(lines') : Announces(lines[i])',
           overlap # "mixed" => stored' \in {"nothing", "whole"}
    PROVE  Orderly'
<1>1. /\ Sends(Plain("NSOST")) /\ Plain("NSOST").kind = "NSOST" /\ pc' = "NSOST"
      /\ got' = Nothing
    BY Sending1, Commands DEF Asks, AsksAt, TypeInv, TypeOK
<1>2. ~modem.booting /\ modem.apn /\ modem.radio /\ deviceId /\ Untouched
    BY LoopingFacts
<1>3. Len(cmds') = 1 /\ cmds'[1].kind = "NSOST"
    BY <1>1, <1>2 DEF Sends
<1>4. BootOK'
    BY <1>2, <1>3 DEF BootOK
<1>5. Unanswered("NSOST")'
    BY <1>1, <1>3 DEF Unanswered
<1>6. Opening' /\ Idle' /\ Receiving' /\ Sending'
    BY <1>1, <1>5 DEF Opening, Idle, Receiving, Sending
<1>7. Reading'
    BY <1>1, <1>2, SameBacked DEF Reading
<1>8. Quieting' /\ OneByOne' /\ Polling'
    BY <1>1, <1>2, LoopStages DEF Looping
<1> QED
    BY <1>4, <1>6, <1>7, <1>8 DEF Orderly

LEMMA Loop_Orderly ==
    ASSUME TypeInv, Orderly, Loop
    PROVE  Orderly'
<1>1. /\ pc = "loop" /\ pc \in Looping /\ modem.sockets = 1 /\ cmds = <<>> /\ Counted
      /\ \A i \in 1 .. Len(lines) : Announces(lines[i])
      /\ ~modem.booting /\ modem.apn /\ modem.radio /\ deviceId /\ Untouched
      /\ overlap # "mixed" => stored \in {"nothing", "whole"}
    BY LoopingFacts DEF Loop, Looping, Orderly, Idle, Reading
<1>2. /\ modem' = modem /\ rx' = rx /\ overlap' = overlap /\ lines' = lines
      /\ deviceId' = deviceId /\ pending' = pending /\ stored' = stored
    BY DEF Loop
<1>3. Counted' /\ Untouched'
    BY <1>1, <1>2, SameBacked
<1>4. \A i \in 1 .. Len(lines') : Announces(lines[i])'
    BY <1>1, <1>2, SameAnnounces
<1>5. CASE ~(Signed(pending) > 0)
    <2>1. Asks("NSOST")
        BY <1>5 DEF Loop
    <2> QED
        BY <1>1, <1>2, <1>3, <1>4, <2>1, GoesToSend
<1>6. CASE Signed(pending) > 0
    <2>1. Backed(Signed(pending)) /\ Signed(pending) \in 1 .. ByteRange - 1
        <3>1. Signed(pending) \in Int
            BY SignedRange DEF TypeInv, TypeOK
        <3>2. Backed(Signed(pending))
            BY <1>1, <1>6, <3>1 DEF Counted
        <3> QED
            BY <3>2 DEF Backed
    <2>2. AskedFor(Signed(pending)) = Signed(pending)
        BY <2>1, Widths DEF AskedFor, Least
    <2>3. /\ amount' = Signed(pending)
          /\ AsksAt("NSORF", Text("NSORF", Signed(pending), {}))
        BY <1>6, <2>2 DEF Loop
    <2> DEFINE c == Text("NSORF", Signed(pending), {})
    <2>4. c \in Command /\ c.kind = "NSORF" /\ c.n = Signed(pending)
        BY <2>1, Widths, Commands
    <2>5. Sends(c) /\ pc' = "NSORF" /\ got' = Nothing
        BY <2>3, <2>4, Sending1 DEF AsksAt, TypeInv, TypeOK
    <2> HIDE DEF c
    <2>6. Len(cmds') = 1 /\ cmds'[1] = c
        BY <1>1, <2>5 DEF Sends
    <2>7. Unanswered("NSORF")'
        BY <1>3, <1>4, <2>4, <2>5, <2>6 DEF Unanswered
    <2>8. Backed(amount)' /\ Backed(Signed(pending))'
        BY <1>2, <2>1, <2>3, SameBacked DEF Signed
    <2>9. Receiving'
        BY <2>1, <2>3, <2>4, <2>6, <2>7, <2>8 DEF Receiving
    <2>10. Opening' /\ Idle' /\ Sending'
        BY <2>5 DEF Opening, Idle, Sending
    <2>11. Reading'
        BY <1>1, <1>2, <1>3, <2>5 DEF Reading
    <2>12. BootOK'
        BY <1>1, <1>2, <2>4, <2>6 DEF BootOK
    <2>13. Quieting' /\ OneByOne' /\ Polling'
        BY <1>1, <1>2, <2>5, LoopStages DEF Looping
    <2> QED
        BY <2>9, <2>10, <2>11, <2>12, <2>13 DEF Orderly
<1> QED
    BY <1>5, <1>6

(* The answer to AT+NSORF is what readResponse says it is. *)
LEMMA ReceivedOk ==
    ASSUME TypeInv, Orderly, pc = "NSORF", Returned(OK)
    PROVE  \E m \in 1 .. ByteRange - 1, kind \in {"whole", "piece"} :
              /\ got # Nothing /\ got.n = m /\ got.kind = kind
              /\ Lags(Signed(pending), m)
              /\ overlap # "mixed" => amount = m /\ kind = "whole"
              /\ cmds = <<>> /\ \A i \in 2 .. Len(lines) : Announces(lines[i])
<1>1. Dropped /\ lines[1].kind = "OK" /\ 1 \in 1 .. Len(lines)
    BY Outcomes DEF Returned, OK, Dropped
<1>2. ~Unanswered("NSORF")
    BY <1>1 DEF Unanswered, Announces
<1>3. ~Answered({"ERROR"}, {})
    <2> SUFFICES ASSUME Answered({"ERROR"}, {}) PROVE FALSE
        OBVIOUS
    <2>1. PICK e \in 1 .. Len(lines) :
            /\ lines[e].kind = "ERROR"
            /\ \A i \in 1 .. Len(lines) : i < e => Announces(lines[i])
        BY DEF Answered
    <2> QED
        BY <1>1, <2>1 DEF Announces
<1>4. PICK m \in 1 .. ByteRange - 1, kind \in {"whole", "piece"} : HandedOver(m, kind)
    BY <1>2, <1>3 DEF Orderly, Receiving
<1>5. PICK e \in 1 .. Len(lines) :
        /\ lines[e].kind = "OK"
        /\ IF got = Nothing
           THEN /\ e > 1 /\ lines[e - 1].n = m
                /\ kind \in {"whole", "piece"} /\ lines[e - 1].kind = kind
           ELSE e = 1 /\ got.n = m /\ got.kind = kind
        /\ \A i \in 1 .. Len(lines) :
              /\ i < e - 1 => lines[i].kind = "+NSONMI" /\ Lags(lines[i].n, m)
              /\ i > e => Announces(lines[i])
    BY <1>4 DEF HandedOver
<1>6. got # Nothing
    <2> SUFFICES ASSUME got = Nothing PROVE FALSE
        OBVIOUS
    <2>1. CASE e = 2
        <3>1. lines[1].kind \in {"whole", "piece"}
            BY <1>5, <2>1
        <3> QED
            BY <1>1, <3>1
    <2>2. CASE e # 2
        BY <1>1, <1>5, <2>2
    <2> QED
        BY <2>1, <2>2
<1> QED
    BY <1>4, <1>5, <1>6 DEF HandedOver

LEMMA ReceivedError ==
    ASSUME TypeInv, Orderly, pc = "NSORF", NEW r \in Response, Returned(r), r # OK, ~shifted'
    PROVE  cmds = <<>> /\ Counted /\ \A i \in 2 .. Len(lines) : Announces(lines[i])
<1>1. /\ Dropped /\ r = Outcome(lines[1]) /\ r # "ResponseNotFound"
      /\ 1 \in 1 .. Len(lines)
    <2>1. Len(lines) # 0 \/ Len(cmds) = 1
        BY DEF Orderly, Receiving, Unanswered, Answered, HandedOver
    <2>2. Len(lines) # 0 => lines # <<>>
        OBVIOUS
    <2> QED
        BY <2>1, <2>2 DEF Returned, Dropped
<1>2. lines[1].kind \notin {"OK", "+NSONMI"}
    BY <1>1, Outcomes DEF OK
<1>3. ~Unanswered("NSORF")
    BY <1>1, <1>2 DEF Unanswered, Announces
<1>4. ASSUME NEW m \in 1 .. ByteRange - 1, NEW kind \in {"whole", "piece"},
             HandedOver(m, kind)
      PROVE  FALSE
    <2>1. PICK e \in 1 .. Len(lines) :
            /\ lines[e].kind = "OK"
            /\ IF got = Nothing
               THEN /\ e > 1 /\ lines[e - 1].n = m
                    /\ kind \in {"whole", "piece"} /\ lines[e - 1].kind = kind
               ELSE e = 1 /\ got.n = m /\ got.kind = kind
            /\ \A i \in 1 .. Len(lines) :
                  i < e - 1 => lines[i].kind = "+NSONMI" /\ Lags(lines[i].n, m)
        BY <1>4 DEF HandedOver
    <2>2. e # 1
        BY <1>2, <2>1
    <2>3. got = Nothing /\ e = 2
        BY <1>1, <1>2, <2>1, <2>2
    <2>4. lines[1].kind \in {"whole", "piece"}
        BY <2>1, <2>3
    <2>5. ParserWaits /\ lines[1].kind \in Accepted /\ lines[1].kind \notin Final \cup {"+NSONMI"}
        BY <2>3, <2>4 DEF ParserWaits, Accepted, Final
    <2> QED
        BY <1>1, <2>5, Outcomes
<1>5. Answered({"ERROR"}, {})
    BY <1>3, <1>4 DEF Orderly, Receiving
<1>6. PICK e \in 1 .. Len(lines) :
        /\ lines[e].kind = "ERROR"
        /\ \A i \in 1 .. Len(lines) :
              /\ i < e => Announces(lines[i])
              /\ i > e => Announces(lines[i])
    BY <1>5 DEF Answered
<1>7. e = 1
    BY <1>1, <1>2, <1>6 DEF Announces
<1> QED
    BY <1>5, <1>6, <1>7 DEF Answered

(* What is left of a count. *)
LEMMA CountedIs ==
    ASSUME NEW k \in Int, Signed(pending') = k, -ByteRange < k, k < ByteRange,
           k = 0 \/ (k < 0 /\ overlap' = "mixed") \/ Backed(k)'
    PROVE  Counted'
BY DEF Counted

LEMMA CountedLowered ==
    ASSUME TypeInv, NEW m \in 1 .. ByteRange - 1, Lags(Signed(pending), m),
           pending' = Lowered(pending, m), rx' = rx, overlap' = overlap
    PROVE  Counted'
<1>1. PICK j \in 1 .. ByteRange - 1 : j = Signed(pending) /\ Lags(j, m)
    BY DEF Lags
<1>2. pending \in 0 .. Wrap - 1 /\ rx \in Seq(Datagram)
    BY DEF TypeInv, TypeOK
<1>3. Signed(pending') = j - m
    BY <1>1, <1>2, SignedLowered
<1>4. -ByteRange < j - m /\ j - m < ByteRange /\ j - m \in Int
    BY Widths
<1>5. overlap # "mixed" => j = m
    BY <1>1 DEF Lags
<1>6. CASE j > m
    <2>1. j - m \in 1 .. ByteRange - 1 /\ ~(j <= m)
        BY <1>6, Widths
    <2>2. overlap = "mixed"
        BY <1>5, <2>1
    <2>3. PICK i \in 1 .. Len(rx) : j <= rx[i].left + m
        BY <1>1, <2>1 DEF Lags
    <2>4. rx[i].left \in Int
        <3>1. rx[i] \in Datagram
            BY <1>2, <2>3, ElementOfSeq
        <3> QED
            BY <3>1 DEF Datagram
    <2>5. j - m <= rx[i].left
        BY <2>3, <2>4
    <2>6. Backed(j - m)
        BY <2>1, <2>2, <2>3, <2>5 DEF Backed
    <2>7. Backed(j - m)'
        BY <2>6, SameBacked
    <2> QED
        BY <1>3, <1>4, <2>7, CountedIs
<1>7. CASE ~(j > m)
    <2>1. j = m \/ (j < m /\ overlap = "mixed")
        BY <1>5, <1>7
    <2>2. j - m = 0 \/ (j - m < 0 /\ overlap' = "mixed")
        BY <2>1
    <2> QED
        BY <1>3, <1>4, <2>2, CountedIs
<1> QED
    BY <1>6, <1>7

LEMMA Receive_Orderly ==
    ASSUME TypeInv, Orderly, SocketReceiveBytes, ~shifted'
    PROVE  Orderly'
<1>1. PICK r \in Response :
        /\ Returns(r)
        /\ IF r # OK
           THEN Asks("NSOST") /\ UNCHANGED <<pending, stored>>
           ELSE \E n \in 0 .. Wrap - 1, isServer \in BOOLEAN :
                /\ Received(n, isServer)
                /\ pending' = Lowered(pending, n)
                /\ IF n = 0 \/ ~isServer
                   THEN Asks("NSOST") /\ UNCHANGED stored
                   ELSE IF amount >= ByteRange
                   THEN Goes("copying") /\ UNCHANGED stored
                   ELSE Asks("NSOST") /\ stored' = Copied(got)
    BY DEF SocketReceiveBytes
<1>2. /\ pc = "NSORF" /\ pc \in Looping /\ Returned(r) /\ modem.sockets = 1
      /\ modem' = modem /\ rx' = rx /\ overlap' = overlap
      /\ overlap # "mixed" => stored \in {"nothing", "whole"}
      /\ amount \in 1 .. ByteRange - 1
    BY <1>1, Returning
       DEF SocketReceiveBytes, Returned, Looping, Orderly, Reading, Receiving
<1>3. deviceId /\ deviceId'
    BY <1>2, LoopingFacts DEF Returned
<1>4. CASE r # OK
    <2>1. cmds = <<>> /\ Counted /\ \A i \in 2 .. Len(lines) : Announces(lines[i])
        BY <1>2, <1>4, ReceivedError
    <2>2. \A i \in 1 .. Len(lines') : Announces(lines[i])'
        BY <1>2, <2>1, LeftAnnounces
    <2>3. Counted'
        BY <1>1, <1>2, <1>4, <2>1, SameBacked
    <2> QED
        BY <1>1, <1>2, <1>3, <1>4, <2>1, <2>2, <2>3, GoesToSend
<1>5. CASE r = OK
    <2>1. PICK m \in 1 .. ByteRange - 1, kind \in {"whole", "piece"} :
              /\ got # Nothing /\ got.n = m /\ got.kind = kind
              /\ Lags(Signed(pending), m)
              /\ overlap # "mixed" => amount = m /\ kind = "whole"
              /\ cmds = <<>> /\ \A i \in 2 .. Len(lines) : Announces(lines[i])
        BY <1>2, <1>5, ReceivedOk
    <2>2. /\ pending' = Lowered(pending, m)
          /\ Asks("NSOST") /\ stored' = Copied(got)
        <3>1. PICK n \in 0 .. Wrap - 1, isServer \in BOOLEAN :
                /\ Received(n, isServer)
                /\ pending' = Lowered(pending, n)
                /\ IF n = 0 \/ ~isServer
                   THEN Asks("NSOST") /\ UNCHANGED stored
                   ELSE IF amount >= ByteRange
                   THEN Goes("copying") /\ UNCHANGED stored
                   ELSE Asks("NSOST") /\ stored' = Copied(got)
            BY <1>1, <1>5
        <3>2. n = m /\ isServer
            BY <2>1, <3>1 DEF Received
        <3>3. m # 0 /\ ~(amount >= ByteRange)
            BY <1>2, Widths
        <3> QED
            BY <3>1, <3>2, <3>3
    <2>3. Counted'
        BY <1>2, <2>1, <2>2, CountedLowered
    <2>4. \A i \in 1 .. Len(lines') : Announces(lines[i])'
        BY <1>2, <2>1, LeftAnnounces
    <2>5. overlap # "mixed" => stored' = "whole"
        BY <2>1, <2>2 DEF Copied
    <2> QED
        BY <1>2, <1>3, <2>1, <2>2, <2>3, <2>4, <2>5, GoesToSend
<1> QED
    BY <1>4, <1>5

-----------------------------------------------------------------------------
(* Order: a line that does not end the answer. *)
Collected ==
    /\ modem' = modem /\ cmds' = cmds /\ rx' = rx /\ overlap' = overlap
    /\ pc' = pc /\ amount' = amount /\ stored' = stored
    /\ Dropped /\ lines # <<>> /\ lines[1] \in Line
    /\ lines[1].kind \notin Final
    /\ ParserWaits => lines[1].kind \in Accepted \cup {"+NSONMI"}
    /\ pending' = IF lines[1].kind = "+NSONMI" THEN lines[1].n ELSE pending
    /\ got' = IF ParserWaits /\ lines[1].kind \in Accepted THEN lines[1] ELSE got
    /\ deviceId \/ lines[1].kind = "+CGSN" => deviceId'

LEMMA Collecting ==
    ASSUME TypeInv, Collects
    PROVE  Collected
<1>1. lines \in Seq(Line) /\ lines # <<>>
    BY DEF TypeInv, TypeOK, Collects
<1>2. Head(lines) = lines[1] /\ lines[1] \in Line /\ Dropped
    BY <1>1, Shortening DEF Collects, Dropped
<1>3. Outcome(lines[1]) = "ResponseNotFound"
    BY <1>2 DEF Collects
<1>4. lines[1].kind \notin Final
      /\ (ParserWaits => lines[1].kind \in Accepted \cup {"+NSONMI"})
    BY <1>3, Outcomes DEF Final
<1>5. deviceId \/ lines[1].kind = "+CGSN" => deviceId'
    BY <1>2, Zenon DEF Collects
<1>6. /\ pending' = IF lines[1].kind = "+NSONMI" THEN lines[1].n ELSE pending
      /\ got' = IF ParserWaits /\ lines[1].kind \in Accepted THEN lines[1] ELSE got
    BY <1>2 DEF Collects, Announced
<1> QED
    BY <1>1, <1>2, <1>4, <1>5, <1>6 DEF Collects, Collected

LEMMA DroppedLines ==
    ASSUME Dropped
    PROVE  /\ Len(lines) \in Nat /\ Len(lines') \in Nat /\ Len(lines') = Len(lines) - 1
           /\ 1 \in 1 .. Len(lines)
           /\ \A i \in 1 .. Len(lines') : i + 1 \in 1 .. Len(lines) /\ lines'[i] = lines[i + 1]
BY DEF Dropped

(* A modem that has sent a line neither boots nor is about to. *)
LEMMA CollectsBoot ==
    ASSUME Orderly, Collected
    PROVE  BootOK' /\ ~modem.booting /\ ~modem'.booting
BY DEF Collected, Orderly, BootOK

LEMMA CollectsCalm ==
    ASSUME TypeInv, Orderly, Collected, pc \in {"AT", "purge", "NRB"}
    PROVE  Orderly'
<1>1. Lines({"text", "OK"}) /\ rx = <<>> /\ pending = 0
    BY DEF Orderly, Quieting, Connecting
<1>2. pending' = 0
    BY <1>1, DroppedLines DEF Collected, Lines
<1>3. Lines({"text", "OK"})'
    BY <1>1, DroppedLines DEF Collected, Lines
<1>4. Quieting'
    BY <1>1, <1>2, <1>3, CollectsBoot DEF Quieting, Cmds, Collected, Orderly
<1>5. overlap' # "mixed" => stored' \in {"nothing", "whole"}
    BY DEF Orderly, Reading, Collected
<1> QED
    BY <1>4, <1>5, CalmStages, CollectsBoot DEF Orderly, Calm, Collected

LEMMA CollectsSingle ==
    ASSUME TypeInv, Orderly, Collected, pc \in Single
    PROVE  Orderly'
<1>1. Ended /\ rx = <<>> /\ pending = 0
    BY DEF Orderly, Quieting, OneByOne, Waiting, Collected, Single, Connecting
<1>2. Len(lines) # 1 /\ pending' = 0
    BY <1>1, DroppedLines DEF Ended, Collected
<1>3. lines' # <<>>
    <2>1. Len(lines') # 0
        BY <1>2, DroppedLines DEF Collected
    <2> QED
        BY <2>1
<1>4. \A i \in 1 .. Len(lines') :
          /\ lines'[i].kind \in Final <=> i = Len(lines')
          /\ lines'[i].kind # "+NSONMI"
    BY <1>1, DroppedLines DEF Ended, Collected
<1>5. Len(lines') \in 1 .. Len(lines') /\ lines'[Len(lines')] = lines[Len(lines)]
    BY <1>2, DroppedLines DEF Collected
<1>6. ASSUME lines[Len(lines)].kind = "OK", pc = "CGSN"
      PROVE  deviceId' \/ \E i \in 1 .. Len(lines') : lines'[i].kind = "+CGSN"
    <2>1. CASE deviceId
        BY <2>1 DEF Collected
    <2>2. CASE \E i \in 1 .. Len(lines) : lines[i].kind = "+CGSN"
        <3>1. PICK i \in 1 .. Len(lines) : lines[i].kind = "+CGSN"
            BY <2>2
        <3>2. CASE i = 1
            BY <3>1, <3>2 DEF Collected
        <3>3. CASE i # 1
            <4>1. i - 1 \in 1 .. Len(lines') /\ (i - 1) + 1 = i
                BY <3>3, DroppedLines DEF Collected
            <4>2. lines'[i - 1] = lines[i]
                BY <4>1, DroppedLines DEF Collected
            <4> QED
                BY <3>1, <4>1, <4>2
        <3> QED
            BY <3>2, <3>3
    <2> QED
        BY <1>1, <1>6, <2>1, <2>2 DEF Ended
<1>7. Ended'
    BY <1>1, <1>3, <1>4, <1>5, <1>6 DEF Ended, Collected
<1>8. OneByOne'
    BY <1>7 DEF OneByOne, Orderly, Collected, Single, Looping
<1>9. Quieting'
    BY <1>1, <1>2, CollectsBoot, QuietStages DEF Collected, Single, Connecting
<1>10. overlap' # "mixed" => stored' \in {"nothing", "whole"}
    BY DEF Orderly, Reading, Collected
<1> QED
    BY <1>8, <1>9, <1>10, CollectsBoot, SingleStages DEF Orderly, Collected

LEMMA CollectsPoll ==
    ASSUME TypeInv, Orderly, Collected, pc \in {"CSQ", "CGATT?"}
    PROVE  Orderly'
<1>1. Cmds({"CSQ", "CGATT?"}) /\ Paired /\ rx = <<>> /\ pending = 0
    BY DEF Orderly, Quieting, Polling, Connecting
<1>2. lines[1].kind \in Info
    BY <1>1, DroppedLines DEF Paired, Lines, Collected
<1>3. pending' = 0
    BY <1>1, <1>2 DEF Collected, Info
<1>4. lines' # <<>> /\ lines'[1].kind = "OK"
    <2>1. 1 < Len(lines) /\ lines[1 + 1].kind = "OK"
        BY <1>1, <1>2, DroppedLines DEF Paired, Collected
    <2>2. Len(lines') # 0 /\ lines'[1] = lines[1 + 1]
        BY <2>1, DroppedLines DEF Collected
    <2> QED
        BY <2>1, <2>2
<1>5. Paired' /\ Cmds({"CSQ", "CGATT?"})'
    BY <1>1, DroppedLines, PairedShorter DEF Cmds, Collected
<1>6. Polling'
    BY <1>4, <1>5 DEF Polling
<1>7. OneByOne'
    BY DEF OneByOne, Orderly, Collected, Single, Looping
<1>8. Quieting'
    BY <1>1, <1>3, CollectsBoot, QuietStages DEF Collected, Connecting
<1>9. overlap' # "mixed" => stored' \in {"nothing", "whole"}
    BY DEF Orderly, Reading, Collected
<1> QED
    BY <1>6, <1>7, <1>8, <1>9, CollectsBoot, PollStages DEF Orderly, Collected

(* After an announcement the count is what it says. *)
LEMMA CollectsCount ==
    ASSUME Collected, NEW k, lines[1].kind = "+NSONMI", lines[1].n = k,
           k \in 1 .. ByteRange - 1
    PROVE  pending' = k /\ Signed(pending') = k /\ Signed(k) = k
<1>1. pending' = k /\ Signed(k) = k
    BY Widths DEF Collected, Signed
<1> QED
    BY <1>1

LEMMA CollectsAnnounced ==
    ASSUME Collected, Announces(lines[1])
    PROVE  Counted' /\ Backed(Signed(pending))' /\ got' = got
<1>1. PICK k \in 1 .. ByteRange - 1 :
          lines[1].kind = "+NSONMI" /\ lines[1].n = k /\ Backed(k)
    BY DEF Announces, Backed
<1>2. pending' = k /\ Signed(pending') = k
    BY <1>1, CollectsCount
<1>3. Backed(k)'
    BY <1>1, SameBacked DEF Collected
<1>4. k \in Int /\ -ByteRange < k /\ k < ByteRange
    BY Widths
<1>5. Counted'
    BY <1>2, <1>3, <1>4, CountedIs
<1>6. Backed(Signed(pending))'
    BY <1>2, <1>3 DEF Backed
<1>7. got' = got
    BY <1>1 DEF Collected, Accepted
<1> QED
    BY <1>5, <1>6, <1>7

LEMMA CollectsAnnounces ==
    ASSUME Collected, NEW first \in Nat,
           \A i \in 1 .. Len(lines) : i > first => Announces(lines[i])
    PROVE  \A i \in 1 .. Len(lines') : i + 1 > first => Announces(lines[i])'
<1> SUFFICES ASSUME NEW i \in 1 .. Len(lines'), i + 1 > first
             PROVE  Announces(lines[i])'
    OBVIOUS
<1>1. i + 1 \in 1 .. Len(lines) /\ lines'[i] = lines[i + 1]
    BY DroppedLines DEF Collected
<1> QED
    BY <1>1, SameAnnounces DEF Collected

LEMMA CollectsUnanswered ==
    ASSUME Collected, NEW op, Unanswered(op)
    PROVE  Unanswered(op)' /\ Backed(Signed(pending))'
<1>1. \A i \in 1 .. Len(lines) : Announces(lines[i])
    BY DEF Unanswered
<1>2. Counted' /\ Backed(Signed(pending))' /\ got' = got
    BY <1>1, DroppedLines, CollectsAnnounced DEF Collected
<1>3. \A i \in 1 .. Len(lines') : Announces(lines[i])'
    <2>1. \A i \in 1 .. Len(lines') : i + 1 > 0 => Announces(lines[i])'
        BY <1>1, CollectsAnnounces
    <2> QED
        BY <2>1, DroppedLines DEF Collected
<1> QED
    BY <1>2, <1>3 DEF Unanswered, Collected

LEMMA CollectsAnswered ==
    ASSUME Collected, NEW kinds, kinds \subseteq Final, NEW infos, "+NSONMI" \notin infos,
           Answered(kinds, infos)
    PROVE  Answered(kinds, infos)'
<1>1. PICK e \in 1 .. Len(lines) :
        /\ lines[e].kind \in kinds
        /\ \A i \in 1 .. Len(lines) :
              /\ i < e => Announces(lines[i]) \/ lines[i].kind \in infos
              /\ i > e => Announces(lines[i])
    BY DEF Answered
<1>2. 1 < e /\ (Announces(lines[1]) \/ lines[1].kind \in infos)
    BY <1>1, DroppedLines DEF Collected
<1>3. Counted'
    <2>1. CASE Announces(lines[1])
        BY <2>1, CollectsAnnounced
    <2>2. CASE lines[1].kind \in infos
        <3>1. pending' = pending
            BY <2>2 DEF Collected
        <3> QED
            BY <3>1, SameBacked DEF Answered, Collected
    <2> QED
        BY <1>2, <2>1, <2>2
<1>4. e - 1 \in 1 .. Len(lines') /\ lines'[e - 1] = lines[(e - 1) + 1] /\ (e - 1) + 1 = e
    BY <1>2, DroppedLines DEF Collected
<1>5. ASSUME NEW i \in 1 .. Len(lines')
      PROVE  /\ i < e - 1 => Announces(lines[i])' \/ lines'[i].kind \in infos
             /\ i > e - 1 => Announces(lines[i])'
    <2>1. i + 1 \in 1 .. Len(lines) /\ lines'[i] = lines[i + 1]
        BY DroppedLines DEF Collected
    <2>2. Announces(lines[i + 1]) => Announces(lines[i])'
        BY <2>1, SameAnnounces DEF Collected
    <2>3. /\ i < e - 1 => Announces(lines[i + 1]) \/ lines[i + 1].kind \in infos
          /\ i > e - 1 => Announces(lines[i + 1])
        BY <1>1, <2>1
    <2> QED
        BY <2>1, <2>2, <2>3
<1>6. \E f \in 1 .. Len(lines') :
        /\ lines'[f].kind \in kinds
        /\ \A i \in 1 .. Len(lines') :
              /\ i < f => Announces(lines[i])' \/ lines'[i].kind \in infos
              /\ i > f => Announces(lines[i])'
    BY <1>1, <1>4, <1>5
<1> QED
    BY <1>3, <1>6 DEF Answered, Collected

LEMMA CollectsHandedOver ==
    ASSUME Collected, pc = "NSORF", NEW m, NEW kind, HandedOver(m, kind)
    PROVE  HandedOver(m, kind)'
<1>1. PICK e \in 1 .. Len(lines) :
        /\ lines[e].kind = "OK"
        /\ IF got = Nothing
           THEN /\ e > 1 /\ lines[e - 1].n = m
                /\ kind \in {"whole", "piece"} /\ lines[e - 1].kind = kind
           ELSE e = 1 /\ got.n = m /\ got.kind = kind
        /\ \A i \in 1 .. Len(lines) :
              /\ i < e - 1 => lines[i].kind = "+NSONMI" /\ Lags(lines[i].n, m)
              /\ i > e => Announces(lines[i])
    BY DEF HandedOver
<1>2. /\ got = Nothing /\ e > 1
      /\ lines[e - 1].n = m /\ lines[e - 1].kind = kind /\ kind \in {"whole", "piece"}
    BY <1>1 DEF Collected, Final
<1>3. e - 1 \in 1 .. Len(lines') /\ lines'[e - 1] = lines[e]
    <2>1. e - 1 \in 1 .. Len(lines') /\ (e - 1) + 1 = e
        BY <1>2, DroppedLines DEF Collected
    <2>2. lines'[e - 1] = lines[(e - 1) + 1]
        BY <2>1, DroppedLines DEF Collected
    <2> QED
        BY <2>1, <2>2
<1>4. ASSUME NEW i \in 1 .. Len(lines')
      PROVE  /\ i < (e - 1) - 1 => lines'[i].kind = "+NSONMI" /\ Lags(lines[i].n, m)'
             /\ i > e - 1 => Announces(lines[i])'
    <2>1. i + 1 \in 1 .. Len(lines) /\ lines'[i] = lines[i + 1]
        BY DroppedLines DEF Collected
    <2>2. Announces(lines[i + 1]) => Announces(lines[i])'
        BY <2>1, SameAnnounces DEF Collected
    <2>3. Lags(lines[i + 1].n, m) => Lags(lines[i].n, m)'
        BY <2>1 DEF Lags, Collected
    <2>4. /\ i < (e - 1) - 1 => lines[i + 1].kind = "+NSONMI" /\ Lags(lines[i + 1].n, m)
          /\ i > e - 1 => Announces(lines[i + 1])
        BY <1>1, <2>1
    <2> QED
        BY <2>1, <2>2, <2>3, <2>4
<1>5. Lags(Signed(pending), m)' /\ IF e = 2 THEN got' # Nothing /\ got'.n = m /\ got'.kind = kind
                                    ELSE got' = Nothing
    <2>1. CASE e = 2
        <3>1. lines[1].n = m /\ lines[1].kind = kind
            BY <1>2, <2>1
        <3>2. ParserWaits /\ kind \in Accepted /\ kind # "+NSONMI"
            BY <1>2 DEF ParserWaits, Accepted
        <3>3. got' = lines[1] /\ pending' = pending
            BY <3>1, <3>2 DEF Collected
        <3>4. got' # Nothing
            BY <1>2, <3>1, <3>3 DEF Nothing, Plain, Text
        <3>5. Signed(pending') = Signed(pending)
            BY <3>3
        <3>6. Lags(Signed(pending), m)'
            BY <3>5 DEF Lags, HandedOver, Collected
        <3> QED
            BY <2>1, <3>1, <3>3, <3>4, <3>6
    <2>2. CASE e # 2
        <3>1. lines[1].kind = "+NSONMI" /\ Lags(lines[1].n, m)
            BY <1>1, <1>2, <2>2, DroppedLines DEF Collected
        <3>2. PICK k \in 1 .. ByteRange - 1 : k = lines[1].n /\ Lags(k, m)
            BY <3>1 DEF Lags
        <3>3. Signed(pending') = k
            BY <3>1, <3>2, CollectsCount
        <3>4. Lags(k, m)'
            BY <3>2 DEF Lags, Collected
        <3>5. Lags(Signed(pending), m)'
            BY <3>3, <3>4 DEF Lags
        <3>6. got' = Nothing
            BY <1>2, <3>1 DEF Collected, Accepted
        <3> QED
            BY <2>2, <3>5, <3>6
    <2> QED
        BY <2>1, <2>2
<1>6. \E f \in 1 .. Len(lines') :
        /\ lines'[f].kind = "OK"
        /\ IF got' = Nothing
           THEN /\ f > 1 /\ lines'[f - 1].n = m
                /\ kind \in {"whole", "piece"} /\ lines'[f - 1].kind = kind
           ELSE f = 1 /\ got'.n = m /\ got'.kind = kind
        /\ \A i \in 1 .. Len(lines') :
              /\ i < f - 1 => lines'[i].kind = "+NSONMI" /\ Lags(lines[i].n, m)'
              /\ i > f => Announces(lines[i])'
    <2>1. CASE e = 2
        BY <1>1, <1>3, <1>4, <1>5, <2>1
    <2>2. CASE e # 2
        <3>1. e - 1 > 1 /\ (e - 1) - 1 \in 1 .. Len(lines') /\ ((e - 1) - 1) + 1 = e - 1
            BY <1>2, <1>3, <2>2, DroppedLines DEF Collected
        <3>2. lines'[(e - 1) - 1] = lines[((e - 1) - 1) + 1]
            BY <3>1, DroppedLines DEF Collected
        <3> QED
            BY <1>1, <1>2, <1>3, <1>4, <1>5, <2>2, <3>1, <3>2
    <2> QED
        BY <2>1, <2>2
<1> QED
    BY <1>5, <1>6 DEF HandedOver, Collected

LEMMA CollectsOpening ==
    ASSUME TypeInv, Orderly, Collected, pc = "NSOCR"
    PROVE  Opening'
<1>1. ~NotYet
    <2> SUFFICES ASSUME NotYet PROVE FALSE
        OBVIOUS
    <2>1. lines[1].kind \in Info \cup {"ERROR"} /\ got = Nothing
        BY DEF NotYet, Collected
    <2>2. ParserWaits /\ Accepted = {"number"}
        BY <2>1 DEF ParserWaits, Accepted
    <2> QED
        BY <2>1, <2>2 DEF Collected, Info, Final
<1>2. modem.sockets = 1 /\ Answered({"OK"}, {"number"})
    BY <1>1 DEF Orderly, Opening
<1>3. Answered({"OK"}, {"number"})'
    BY <1>2, CollectsAnswered DEF Final
<1> QED
    BY <1>2, <1>3 DEF Opening, Collected

LEMMA CollectsReceiving ==
    ASSUME TypeInv, Orderly, Collected, pc = "NSORF"
    PROVE  Receiving'
<1>1. /\ amount \in 1 .. ByteRange - 1 /\ amount' = amount /\ pc' = "NSORF"
      /\ \/ /\ Unanswered("NSORF") /\ cmds[1].n = amount
            /\ Backed(amount) /\ Backed(Signed(pending))
         \/ Answered({"ERROR"}, {}) /\ got = Nothing
         \/ \E m \in 1 .. ByteRange - 1, kind \in {"whole", "piece"} :
                HandedOver(m, kind)
    BY DEF Orderly, Receiving, Collected
<1>2. CASE /\ Unanswered("NSORF") /\ cmds[1].n = amount
           /\ Backed(amount) /\ Backed(Signed(pending))
    <2>1. Unanswered("NSORF")' /\ Backed(Signed(pending))'
        BY <1>2, CollectsUnanswered
    <2>2. Backed(amount)'
        <3>1. Backed(amount) => Backed(amount)'
            BY <1>1 DEF Backed, Collected
        <3> QED
            BY <1>2, <3>1
    <2> QED
        BY <1>1, <1>2, <2>1, <2>2 DEF Receiving, Collected
<1>3. CASE Answered({"ERROR"}, {}) /\ got = Nothing
    <2>1. Answered({"ERROR"}, {})'
        BY <1>3, CollectsAnswered DEF Final
    <2>2. got' = Nothing
        <3>1. Announces(lines[1])
            BY <1>3, DroppedLines DEF Answered, Collected, Final
        <3> QED
            BY <1>3, <3>1, CollectsAnnounced
    <2> QED
        BY <1>1, <2>1, <2>2 DEF Receiving
<1>4. CASE \E m \in 1 .. ByteRange - 1, kind \in {"whole", "piece"} : HandedOver(m, kind)
    <2>1. PICK m \in 1 .. ByteRange - 1, kind \in {"whole", "piece"} : HandedOver(m, kind)
        BY <1>4
    <2>2. HandedOver(m, kind)'
        BY <2>1, CollectsHandedOver
    <2> QED
        BY <1>1, <2>2 DEF Receiving
<1> QED
    BY <1>1, <1>2, <1>3, <1>4

LEMMA CollectsSending ==
    ASSUME TypeInv, Orderly, Collected, pc = "NSOST"
    PROVE  Sending'
<1>1. CASE Unanswered("NSOST")
    BY <1>1, CollectsUnanswered DEF Sending
<1>2. CASE Answered(Final, {"text"})
    BY <1>2, CollectsAnswered DEF Sending
<1> QED
    BY <1>1, <1>2 DEF Orderly, Sending

LEMMA CollectsLooping ==
    ASSUME TypeInv, Orderly, Collected, pc \in {"NSOCR", "NSORF", "NSOST"}
    PROVE  Orderly'
<1>1. pc' = pc /\ pc \in {"NSOCR"} \cup Looping /\ modem' = modem /\ stored' = stored
      /\ rx' = rx /\ overlap' = overlap /\ deviceId'
    BY LoopingFacts DEF Collected, Looping
<1>2. Untouched'
    BY <1>1, LoopingFacts, SameBacked
<1>3. Reading'
    BY <1>1, <1>2, LoopingFacts DEF Reading, Orderly
<1>4. Quieting' /\ OneByOne' /\ Polling'
    BY <1>1, LoopingFacts, LoopStages
<1>5. Opening' /\ Receiving' /\ Sending' /\ Idle'
    BY <1>1, CollectsOpening, CollectsReceiving, CollectsSending
       DEF Opening, Receiving, Sending, Idle
<1> QED
    BY <1>3, <1>4, <1>5, CollectsBoot DEF Orderly

LEMMA Collects_Orderly ==
    ASSUME TypeInv, Orderly, Collects
    PROVE  Orderly'
<1>1. pc \in {"AT", "purge", "NRB"} \cup Single \cup {"CSQ", "CGATT?"}
                \cup {"NSOCR", "NSORF", "NSOST"}
    BY DEF Collects, Connecting, Looping, Single
<1> QED
    BY <1>1, Collecting, CollectsCalm, CollectsSingle, CollectsPoll, CollectsLooping

-----------------------------------------------------------------------------
(* Left behind: the modem's steps. *)
LEMMA Grows ==
    ASSUME Reply, cmds[1].kind \in Known
    PROVE  /\ Len(lines) \in Nat /\ Len(lines') \in Nat /\ Len(lines) < Len(lines')
           /\ \A i \in 1 .. Len(lines) : lines'[i] = lines[i]
           /\ lines'[Len(lines')].kind \in Final
           /\ IF cmds[1].kind = "CGATT?"
              THEN \/ /\ Len(lines') = Len(lines) + 1
                      /\ lines'[Len(lines) + 1].kind = "ERROR"
                   \/ /\ Len(lines') = Len(lines) + 2
                      /\ lines'[Len(lines) + 1].kind = "+CGATT"
                      /\ lines'[Len(lines) + 2].kind = "OK"
              ELSE \A i \in Len(lines) + 1 .. Len(lines') : lines'[i].kind # "+CGATT"
<1> DEFINE op == cmds[1].kind
<1>1. /\ op # "NSORF" /\ Plain("OK").kind = "OK" /\ Plain("ERROR").kind = "ERROR"
      /\ op = "CGATT?" => InfoOf(op) = "+CGATT"
      /\ op # "CGATT?" => InfoOf(op) # "+CGATT"
    BY DEF Known, Earlier, InfoOf, Plain, Text
<1>2. CASE Ends("ERROR")
    BY <1>1, <1>2 DEF Ends, Final
<1>3. CASE Ends("OK") /\ op # "CGATT?"
    BY <1>1, <1>3 DEF Ends, Final
<1>4. ASSUME NEW n, Tells({InfoOf(op)}, n)
      PROVE  /\ Len(lines) \in Nat /\ Len(lines') = Len(lines) + 2
             /\ \A i \in 1 .. Len(lines) : lines'[i] = lines[i]
             /\ lines'[Len(lines) + 1].kind = InfoOf(op)
             /\ lines'[Len(lines) + 2].kind = "OK"
    BY <1>1, <1>4 DEF Tells
<1>5. CASE \E n \in 0 .. 1 : Tells({InfoOf(op)}, n)
    BY <1>1, <1>4, <1>5 DEF Final
<1>6. \/ Ends("ERROR") \/ \E n \in 0 .. 1 : Tells({InfoOf(op)}, n)
      \/ Ends("OK") /\ op # "CGATT?"
    BY <1>1 DEF Reply
<1> QED
    BY <1>2, <1>3, <1>5, <1>6

LEMMA ReplyOverdue ==
    ASSUME Overdue, Reply, cmds[1].kind \in Known
    PROVE  Overdue'
<1>1. /\ Len(lines) \in Nat /\ Len(lines') \in Nat /\ Len(lines) < Len(lines')
      /\ \A i \in 1 .. Len(lines) : lines'[i] = lines[i]
      /\ lines'[Len(lines')].kind \in Final
    BY Grows
<1>2. Len(cmds) \in Nat \ {0} /\ Len(cmds') = Len(cmds) - 1
    BY DEF Reply, Worked
<1>3. CASE Len(cmds) >= 2
    BY <1>1, <1>2, <1>3 DEF Overdue
<1>4. ASSUME Len(cmds) = 1, NEW i \in 1 .. Len(lines), lines[i].kind \in Final
      PROVE  Overdue'
    BY <1>1, <1>4 DEF Overdue
<1>5. ASSUME NEW i \in 1 .. Len(lines), NEW j \in 1 .. Len(lines), i < j,
             lines[i].kind \in Final, lines[j].kind \in Final
      PROVE  Overdue'
    BY <1>1, <1>5 DEF Overdue
<1> QED
    BY <1>3, <1>4, <1>5 DEF Overdue

LEMMA WorkedCmds ==
    ASSUME Worked, NEW kinds, Cmds(kinds)
    PROVE  Cmds(kinds)'
BY DEF Worked, Cmds

LEMMA ReplyAttached ==
    ASSUME Attached, Reply, cmds[1].kind \in Known, got' = got
    PROVE  Attached'
<1>1. /\ Len(cmds) \in Nat \ {0} /\ Len(cmds') = Len(cmds) - 1 /\ Worked
      /\ \A i \in 1 .. Len(cmds') : i + 1 \in 1 .. Len(cmds) /\ cmds'[i] = cmds[i + 1]
    BY DEF Reply, Worked
<1>2. /\ Len(lines) \in Nat /\ Len(lines') \in Nat /\ Len(lines) < Len(lines')
      /\ \A i \in 1 .. Len(lines) : lines'[i] = lines[i]
    BY Grows
<1>3. cmds[1].kind = "CGATT?" =>
         /\ lines'[Len(lines) + 1].kind \in Late
         /\ \A i \in Len(lines) + 1 .. Len(lines') : lines'[i].kind = "+CGATT" =>
               i = Len(lines) + 1 /\ Len(lines') = i + 1 /\ lines'[i + 1].kind = "OK"
    BY Grows DEF Late
<1>4. cmds[1].kind # "CGATT?" =>
         \A i \in Len(lines) + 1 .. Len(lines') : lines'[i].kind # "+CGATT"
    BY Grows
<1>5. \A i, j \in 1 .. Len(cmds') :
          i < j /\ cmds'[i].kind = "CGATT?" => cmds'[j].kind = "CGATT?"
    <2> TAKE i, j \in 1 .. Len(cmds')
    <2> HAVE i < j /\ cmds'[i].kind = "CGATT?"
    <2>1. i + 1 \in 1 .. Len(cmds) /\ j + 1 \in 1 .. Len(cmds) /\ i + 1 < j + 1
          /\ cmds[i + 1].kind = "CGATT?" /\ cmds'[j] = cmds[j + 1]
        BY <1>1
    <2> QED
        BY <2>1 DEF Attached
<1>6. Cmds({"CGATT?"}) => cmds[1].kind = "CGATT?" /\ Cmds({"CGATT?"})'
    BY <1>1, WorkedCmds DEF Cmds
<1>7. cmds[1].kind = "CGATT?" => Cmds({"CGATT?"})'
    <2> SUFFICES ASSUME cmds[1].kind = "CGATT?", NEW i \in 1 .. Len(cmds')
                 PROVE  cmds'[i].kind = "CGATT?"
        BY DEF Cmds
    <2>1. 1 \in 1 .. Len(cmds) /\ i + 1 \in 1 .. Len(cmds) /\ 1 < i + 1
          /\ cmds'[i] = cmds[i + 1]
        BY <1>1
    <2> QED
        BY <2>1 DEF Attached
<1>8. ASSUME NEW i \in 1 .. Len(lines'), lines'[i].kind = "+CGATT"
      PROVE  /\ Cmds({"CGATT?"})'
             /\ i + 1 \in 1 .. Len(lines') /\ lines'[i + 1].kind = "OK"
             /\ i + 2 \in 1 .. Len(lines') => lines'[i + 2].kind \in Late
    <2>1. CASE i \in 1 .. Len(lines)
        <3>1. /\ Cmds({"CGATT?"}) /\ i + 1 \in 1 .. Len(lines) /\ lines[i + 1].kind = "OK"
              /\ i + 2 \in 1 .. Len(lines) => lines[i + 2].kind \in Late
            BY <1>2, <1>8, <2>1 DEF Attached
        <3>2. i + 2 \in 1 .. Len(lines) \/ i + 2 = Len(lines) + 1
            BY <1>2, <3>1
        <3>3. i + 2 \in 1 .. Len(lines') => lines'[i + 2].kind \in Late
            BY <1>2, <1>3, <1>6, <3>1, <3>2
        <3>4. i + 1 \in 1 .. Len(lines') /\ lines'[i + 1].kind = "OK"
            BY <1>2, <3>1
        <3> QED
            BY <1>6, <3>1, <3>3, <3>4
    <2>2. CASE i \notin 1 .. Len(lines)
        <3>1. i \in Len(lines) + 1 .. Len(lines')
            BY <1>2, <2>2
        <3>2. /\ cmds[1].kind = "CGATT?" /\ Len(lines') = i + 1
              /\ lines'[i + 1].kind = "OK"
            BY <1>3, <1>4, <1>8, <3>1
        <3> QED
            BY <1>7, <3>1, <3>2
    <2> QED
        BY <2>1, <2>2
<1>9. ASSUME got # Nothing
      PROVE  /\ Cmds({"CGATT?"})'
             /\ 1 \in 1 .. Len(lines') /\ lines'[1].kind = "OK"
             /\ 2 \in 1 .. Len(lines') => lines'[2].kind \in Late
    <2>1. /\ Cmds({"CGATT?"}) /\ 1 \in 1 .. Len(lines) /\ lines[1].kind = "OK"
          /\ 2 \in 1 .. Len(lines) => lines[2].kind \in Late
        BY <1>9 DEF Attached
    <2>2. 2 \in 1 .. Len(lines) \/ 2 = Len(lines) + 1
        BY <1>2, <2>1
    <2>3. 2 \in 1 .. Len(lines') => lines'[2].kind \in Late
        BY <1>2, <1>3, <1>6, <2>1, <2>2
    <2> QED
        BY <1>2, <1>6, <2>1, <2>3
<1> QED
    BY <1>5, <1>8, <1>9 DEF Attached

LEMMA ReplyBehind ==
    ASSUME TypeInv, Behind, Reply, UNCHANGED driverVars
    PROVE  Behind'
<1>1. /\ pc' = pc /\ got' = got /\ stored' = stored /\ overlap' = overlap
      /\ 1 \in 1 .. Len(cmds) /\ ~modem'.booting /\ Worked
    BY DEF driverVars, Reply, Worked
<1>2. cmds[1].kind \in Known /\ Cmds(Known)'
    BY <1>1, WorkedCmds DEF Behind, Cmds
<1>3. CASE pc \in Trailing \ {"CGATT?"} /\ Overdue /\ Cmds(Earlier)
           /\ \A i \in 1 .. Len(lines) : lines[i].kind # "+CGATT"
    <2>1. Overdue' /\ Cmds(Earlier)'
        BY <1>1, <1>2, <1>3, ReplyOverdue, WorkedCmds
    <2>2. cmds[1].kind # "CGATT?"
        BY <1>1, <1>3 DEF Cmds, Earlier
    <2>3. \A i \in 1 .. Len(lines') : lines'[i].kind # "+CGATT"
        <3>1. /\ Len(lines) \in Nat /\ Len(lines') \in Nat
              /\ \A i \in 1 .. Len(lines) : lines'[i] = lines[i]
              /\ \A i \in Len(lines) + 1 .. Len(lines') : lines'[i].kind # "+CGATT"
            BY <1>2, <2>2, Grows
        <3>2. \A i \in 1 .. Len(lines') : i \in 1 .. Len(lines) \/ i \in Len(lines) + 1 .. Len(lines')
            BY <3>1
        <3> QED
            BY <1>3, <3>1, <3>2
    <2> QED
        BY <1>1, <1>2, <1>3, <2>1, <2>3 DEF Behind
<1>4. CASE pc = "CGATT?" /\ Overdue /\ Attached
    BY <1>1, <1>2, <1>4, ReplyOverdue, ReplyAttached DEF Behind
<1>5. CASE pc = "NSOCR" /\ Unopened
    <2>1. /\ Len(lines) \in Nat /\ Len(lines') \in Nat /\ Len(lines) < Len(lines')
          /\ \A i \in 1 .. Len(lines) : lines'[i] = lines[i]
        BY <1>2, Grows
    <2>2. lines'[1].kind \in Late
        <3>1. CASE Len(lines) = 0
            BY <1>2, <1>5, <3>1, Grows DEF Unopened, Late
        <3>2. CASE Len(lines) # 0
            BY <1>5, <2>1, <3>2 DEF Unopened
        <3> QED
            BY <3>1, <3>2
    <2>3. Unopened'
        BY <1>1, <1>5, <2>1, <2>2 DEF Unopened
    <2> QED
        BY <1>1, <1>2, <1>5, <2>3 DEF Behind
<1> QED
    BY <1>3, <1>4, <1>5 DEF Behind

LEMMA EnvironmentBehind ==
    ASSUME TypeInv, Behind, Environment
    PROVE  Behind'
<1>1. Stepped /\ UNCHANGED driverVars
    BY EnvironmentTypes DEF Environment
<1>2. CASE Reply
    BY <1>1, <1>2, ReplyBehind
<1>3. ~Restarted /\ ~Booted
    BY DEF Restarted, Booted, Behind, Cmds, Known, Earlier
<1>4. ASSUME NEW k \in Length, Arrived(k)
      PROVE  Behind'
    <2>1. /\ pc' = pc /\ got' = got /\ stored' = stored /\ cmds' = cmds /\ modem' = modem
          /\ modem.sockets = 1 /\ (overlap' # "mixed" => overlap # "mixed")
          /\ Len(lines) \in Nat /\ Len(lines') = Len(lines) + 1
          /\ \A i \in 1 .. Len(lines) : lines'[i] = lines[i]
        BY <1>1, <1>4 DEF driverVars, Arrived
    <2>2. pc = "NSOCR" /\ Unopened
        BY <2>1 DEF Behind, Trailing, TypeInv, SocketOK, Connecting
    <2>3. Unopened'
        BY <2>1, <2>2 DEF Unopened
    <2> QED
        BY <2>1, <2>2, <2>3 DEF Behind, Cmds
<1> QED
    BY <1>1, <1>2, <1>3, <1>4 DEF Stepped

(* Left behind: the driver's steps. *)
LEMMA CollectsBehind ==
    ASSUME TypeInv, Behind, Collects
    PROVE  Behind'
<1> DEFINE l == lines[1]
<1>1. /\ lines' = Tail(lines) /\ Head(lines) = l /\ lines \in Seq(Line)
      /\ Len(lines) \in Nat \ {0} /\ Len(lines') = Len(lines) - 1
      /\ \A i \in 1 .. Len(lines') : i + 1 \in 1 .. Len(lines) /\ lines'[i] = lines[i + 1]
    BY Shortening DEF Collects, TypeInv, TypeOK
<1>2. /\ Outcome(l) = "ResponseNotFound"
      /\ got' = IF ParserWaits /\ l.kind \in Accepted THEN l ELSE got
      /\ pc' = pc /\ cmds' = cmds /\ modem' = modem /\ overlap' = overlap /\ stored' = stored
    BY <1>1 DEF Collects
<1>3. l.kind \notin Final
    BY <1>2, Outcomes DEF Final
<1>4. Overdue => Overdue'
    <2>1. \A i \in 1 .. Len(lines) : lines[i].kind \in Final =>
              i - 1 \in 1 .. Len(lines') /\ lines'[i - 1] = lines[i]
        <3> TAKE i \in 1 .. Len(lines)
        <3> HAVE lines[i].kind \in Final
        <3>1. i # 1
            BY <1>3
        <3>2. i - 1 \in 1 .. Len(lines') /\ (i - 1) + 1 = i
            BY <1>1, <3>1
        <3> QED
            BY <1>1, <3>2
    <2>2. CASE Len(cmds) >= 2
        BY <1>2, <2>2 DEF Overdue
    <2>3. CASE Len(cmds) = 1 /\ \E i \in 1 .. Len(lines) : lines[i].kind \in Final
        BY <1>2, <2>1, <2>3 DEF Overdue
    <2>4. ASSUME NEW i \in 1 .. Len(lines), NEW j \in 1 .. Len(lines), i < j,
                 lines[i].kind \in Final, lines[j].kind \in Final
          PROVE  Overdue'
        <3>1. i - 1 < j - 1
            BY <2>4
        <3> QED
            BY <2>1, <2>4, <3>1 DEF Overdue
    <2> QED
        BY <2>2, <2>3, <2>4 DEF Overdue
<1>5. CASE pc \in Trailing \ {"CGATT?"} /\ Overdue /\ Cmds(Earlier)
           /\ \A i \in 1 .. Len(lines) : lines[i].kind # "+CGATT"
    <2>1. \A i \in 1 .. Len(lines') : lines'[i].kind # "+CGATT"
        BY <1>1, <1>5
    <2> QED
        BY <1>2, <1>4, <1>5, <2>1 DEF Behind, Cmds
<1>6. CASE pc = "CGATT?" /\ Overdue /\ Attached
    <2>1. got = Nothing
        BY <1>3, <1>6 DEF Attached, Final
    <2>2. ParserWaits /\ Accepted = {"+CGATT"}
        BY <1>6, <2>1 DEF ParserWaits, Accepted
    <2>3. got' # Nothing => l.kind = "+CGATT"
        BY <1>2, <2>1, <2>2
    <2>4. ASSUME NEW i \in 1 .. Len(lines'), lines'[i].kind = "+CGATT"
          PROVE  /\ Cmds({"CGATT?"})'
                 /\ i + 1 \in 1 .. Len(lines') /\ lines'[i + 1].kind = "OK"
                 /\ i + 2 \in 1 .. Len(lines') => lines'[i + 2].kind \in Late
        <3>1. i + 1 \in 1 .. Len(lines) /\ lines[i + 1].kind = "+CGATT"
            BY <1>1, <2>4
        <3>2. /\ Cmds({"CGATT?"})
              /\ (i + 1) + 1 \in 1 .. Len(lines) /\ lines[(i + 1) + 1].kind = "OK"
              /\ (i + 1) + 2 \in 1 .. Len(lines) => lines[(i + 1) + 2].kind \in Late
            BY <1>6, <3>1 DEF Attached
        <3>3. i + 1 \in 1 .. Len(lines') /\ lines'[i + 1] = lines[(i + 1) + 1]
            BY <1>1, <3>2
        <3>4. i + 2 \in 1 .. Len(lines') =>
                 (i + 1) + 2 \in 1 .. Len(lines) /\ lines'[i + 2] = lines[(i + 1) + 2]
            <4> HAVE i + 2 \in 1 .. Len(lines')
            <4>1. (i + 2) + 1 \in 1 .. Len(lines) /\ lines'[i + 2] = lines[(i + 2) + 1]
                BY <1>1
            <4>2. (i + 2) + 1 = (i + 1) + 2
                OBVIOUS
            <4> QED
                BY <4>1, <4>2
        <3> QED
            BY <1>2, <3>2, <3>3, <3>4 DEF Cmds
    <2>5. ASSUME got' # Nothing
          PROVE  /\ Cmds({"CGATT?"})'
                 /\ 1 \in 1 .. Len(lines') /\ lines'[1].kind = "OK"
                 /\ 2 \in 1 .. Len(lines') => lines'[2].kind \in Late
        <3>1. /\ Cmds({"CGATT?"})
              /\ 1 + 1 \in 1 .. Len(lines) /\ lines[1 + 1].kind = "OK"
              /\ 1 + 2 \in 1 .. Len(lines) => lines[1 + 2].kind \in Late
            BY <1>1, <1>6, <2>3, <2>5 DEF Attached
        <3>2. 1 \in 1 .. Len(lines') /\ lines'[1] = lines[1 + 1]
            BY <1>1, <3>1
        <3>3. 2 \in 1 .. Len(lines') => 1 + 2 \in 1 .. Len(lines) /\ lines'[2] = lines[1 + 2]
            BY <1>1
        <3> QED
            BY <1>2, <3>1, <3>2, <3>3 DEF Cmds
    <2>6. Attached'
        BY <1>2, <1>6, <2>4, <2>5 DEF Attached
    <2> QED
        BY <1>2, <1>4, <1>6, <2>6 DEF Behind, Cmds
<1>7. CASE pc = "NSOCR" /\ Unopened
    <2>1. l.kind \in Late /\ got = Nothing
        BY <1>1, <1>7 DEF Unopened
    <2>2. ParserWaits /\ "+CGATT" \notin Accepted
        BY <1>7, <2>1 DEF ParserWaits, Accepted
    <2>3. l.kind = "+CGATT" /\ l.kind \notin Final \cup {"+NSONMI"}
        BY <1>3, <2>1 DEF Late, Final
    <2>4. Outcome(l) # "ResponseNotFound"
        BY <2>2, <2>3, Outcomes
    <2> QED
        BY <1>2, <2>4
<1> QED
    BY <1>5, <1>6, <1>7 DEF Behind

LEMMA BehindFails ==
    ASSUME Behind, NEW r, Returned(r), Goes("failed"), stored' = stored
    PROVE  Orderly'
<1>1. /\ ~modem'.booting /\ pc' = "failed" /\ cmds' = cmds
      /\ overlap' # "mixed" => stored' \in {"nothing", "whole"}
    BY DEF Behind, Returned, Goes
<1>2. BootOK'
    BY <1>1 DEF BootOK, Behind, Cmds, Known, Earlier
<1>3. Quieting'
    BY <1>1 DEF Quieting, Connecting, Looping
<1> QED
    BY <1>1, <1>2, <1>3, CalmStages DEF Orderly, Calm

(* A line is taken, or none, and one more command sent. *)
LEMMA AsksOverdue ==
    ASSUME TypeInv, Overdue, NEW r, Returned(r), NEW c, Sends(c), ~modem.booting
    PROVE  Overdue'
<1>1. Len(cmds) \in Nat /\ Len(cmds') = Len(cmds) + 1
    BY DEF Sends
<1>2. CASE Len(cmds) >= 1
    BY <1>1, <1>2 DEF Overdue
<1>3. ASSUME Len(cmds) = 0, NEW i \in 1 .. Len(lines), NEW j \in 1 .. Len(lines), i < j,
             lines[j].kind \in Final
      PROVE  Overdue'
    <2>1. Len(lines) \in Nat \ {0} /\ lines # <<>>
        BY <1>3
    <2>2. Dropped
        BY <2>1 DEF Returned
    <2>3. j - 1 \in 1 .. Len(lines') /\ lines'[j - 1] = lines[(j - 1) + 1]
        BY <1>3, <2>2 DEF Dropped
    <2> QED
        BY <1>1, <1>3, <2>3 DEF Overdue
<1> QED
    BY <1>1, <1>2, <1>3 DEF Overdue

LEMMA AsksEarlier ==
    ASSUME TypeInv, Behind, pc \in Trailing \ {"CGATT?"}, NEW r, Returned(r),
           NEW stage \in Trailing \ {"CGATT?"}, NEW c \in Command, AsksAt(stage, c),
           c.kind \in Earlier, stored' = stored
    PROVE  Behind'
<1>1. /\ Sends(c) /\ pc' = stage /\ modem' = modem /\ overlap' = overlap
      /\ ~modem.booting /\ Overdue /\ Cmds(Earlier)
      /\ \A i \in 1 .. Len(lines) : lines[i].kind # "+CGATT"
    <2>1. Sends(c) /\ pc' = stage
        BY Sending1 DEF AsksAt, TypeInv, TypeOK
    <2>2. pc # "CGATT?" /\ pc # "NSOCR"
        BY DEF Trailing
    <2> QED
        BY <2>1, <2>2 DEF Returned, Behind
<1>2. Overdue'
    BY <1>1, AsksOverdue
<1>3. \A i \in 1 .. Len(cmds') :
          (i \in 1 .. Len(cmds) /\ cmds'[i] = cmds[i]) \/ cmds'[i] = c
    BY <1>1 DEF Sends
<1>4. Cmds(Earlier)' /\ Cmds(Known)'
    BY <1>1, <1>3 DEF Cmds, Known
<1>5. \A i \in 1 .. Len(lines') : lines'[i].kind # "+CGATT"
    BY <1>1, LeftLines
<1> QED
    BY <1>1, <1>2, <1>4, <1>5 DEF Behind

LEMMA AsksPoll ==
    ASSUME TypeInv, Behind, pc \in {"CSQ", "CGATT?"}, NEW r, Returned(r),
           Asks("CGATT?"), stored' = stored
    PROVE  Behind'
<1> DEFINE c == Plain("CGATT?")
<1>1. /\ Sends(c) /\ c.kind = "CGATT?" /\ pc' = "CGATT?" /\ got' = Nothing
      /\ modem' = modem /\ overlap' = overlap /\ ~modem.booting /\ Overdue /\ Cmds(Known)
    BY Sending1, Commands
       DEF Asks, AsksAt, Returned, Behind, TypeInv, TypeOK, Connecting
<1> HIDE DEF c
<1>2. Overdue'
    BY <1>1, AsksOverdue
<1>3. /\ Len(cmds) \in Nat /\ Len(cmds') = Len(cmds) + 1
      /\ \A i \in 1 .. Len(cmds') :
            \/ i \in 1 .. Len(cmds) /\ cmds'[i] = cmds[i]
            \/ i = Len(cmds) + 1 /\ cmds'[i] = c
    BY <1>1 DEF Sends
<1>4. Cmds(Known)'
    BY <1>1, <1>3 DEF Cmds, Known
<1>5. \A i, j \in 1 .. Len(cmds') :
          i < j /\ cmds'[i].kind = "CGATT?" => cmds'[j].kind = "CGATT?"
    <2> TAKE i, j \in 1 .. Len(cmds')
    <2> HAVE i < j /\ cmds'[i].kind = "CGATT?"
    <2>1. CASE j = Len(cmds) + 1
        BY <1>1, <1>3, <2>1
    <2>2. CASE j # Len(cmds) + 1
        <3>1. /\ j \in 1 .. Len(cmds) /\ cmds'[j] = cmds[j]
              /\ i \in 1 .. Len(cmds) /\ cmds'[i] = cmds[i]
            BY <1>3, <2>2
        <3>2. pc = "CGATT?" /\ Attached
            BY <3>1 DEF Behind, Cmds, Earlier
        <3> QED
            BY <3>1, <3>2 DEF Attached
    <2> QED
        BY <2>1, <2>2
<1>6. Cmds({"CGATT?"}) => Cmds({"CGATT?"})'
    BY <1>1, <1>3 DEF Cmds
<1>7. ASSUME NEW i \in 1 .. Len(lines'), lines'[i].kind = "+CGATT"
      PROVE  /\ Cmds({"CGATT?"})'
             /\ i + 1 \in 1 .. Len(lines') /\ lines'[i + 1].kind = "OK"
             /\ i + 2 \in 1 .. Len(lines') => lines'[i + 2].kind \in Late
    <2>1. i + 1 \in 1 .. Len(lines) /\ lines[i + 1].kind = "+CGATT"
        BY <1>7, LeftLines
    <2>2. Attached
        BY <2>1 DEF Behind
    <2>3. /\ Cmds({"CGATT?"})
          /\ (i + 1) + 1 \in 1 .. Len(lines) /\ lines[(i + 1) + 1].kind = "OK"
          /\ (i + 1) + 2 \in 1 .. Len(lines) => lines[(i + 1) + 2].kind \in Late
        BY <2>1, <2>2 DEF Attached
    <2>4. /\ Len(lines) \in Nat /\ Len(lines') = Len(lines) - 1
          /\ \A k \in 1 .. Len(lines') : lines'[k] = lines[k + 1]
        BY <1>7, LeftLines
    <2>5. i + 1 \in 1 .. Len(lines') /\ lines'[i + 1].kind = "OK"
        BY <2>3, <2>4
    <2>6. i + 2 \in 1 .. Len(lines') => lines'[i + 2].kind \in Late
        <3> HAVE i + 2 \in 1 .. Len(lines')
        <3>1. lines'[i + 2] = lines[(i + 2) + 1] /\ (i + 2) + 1 = (i + 1) + 2
              /\ (i + 1) + 2 \in 1 .. Len(lines)
            BY <2>4
        <3> QED
            BY <2>3, <3>1
    <2> QED
        BY <1>6, <2>3, <2>5, <2>6
<1>8. Attached'
    BY <1>1, <1>5, <1>7 DEF Attached
<1> QED
    BY <1>1, <1>2, <1>4, <1>8 DEF Behind

LEMMA AsksSocket ==
    ASSUME TypeInv, Behind, pc = "CGATT?", got # Nothing, NEW r, Returned(r),
           Asks("NSOCR"), stored' = stored
    PROVE  Behind'
<1> DEFINE c == Plain("NSOCR")
<1>1. /\ Sends(c) /\ c.kind = "NSOCR" /\ pc' = "NSOCR" /\ got' = Nothing
      /\ modem' = modem /\ overlap' = overlap /\ ~modem.booting
      /\ Overdue /\ Attached /\ Cmds(Known) /\ modem.sockets = 0
    BY Sending1, Commands
       DEF Asks, AsksAt, Returned, Behind, TypeInv, TypeOK, SocketOK, Connecting
<1> HIDE DEF c
<1>2. /\ Len(cmds) \in Nat /\ Len(cmds') = Len(cmds) + 1
      /\ \A i \in 1 .. Len(cmds) : cmds'[i] = cmds[i]
      /\ cmds'[Len(cmds) + 1] = c
    BY <1>1 DEF Sends
<1>3. Cmds(Known)'
    BY <1>1, <1>2 DEF Cmds, Known
<1>4. /\ Cmds({"CGATT?"}) /\ 1 \in 1 .. Len(lines)
      /\ 2 \in 1 .. Len(lines) => lines[2].kind \in Late
    BY <1>1 DEF Attached
<1>5. Len(lines) \in Nat \ {0} /\ Dropped
    BY <1>4 DEF Returned, Dropped
<1>6. CASE Len(lines) = 1
    <2>1. Len(lines') = 0
        BY <1>5, <1>6 DEF Dropped
    <2>2. Len(cmds) >= 1
        BY <1>1, <1>2, <1>6 DEF Overdue
    <2>3. 1 \in 1 .. Len(cmds) /\ cmds'[1] = cmds[1] /\ cmds[1].kind = "CGATT?"
        BY <1>2, <1>4, <2>2 DEF Cmds
    <2>4. Unopened'
        BY <1>1, <1>2, <2>1, <2>3 DEF Unopened
    <2> QED
        BY <1>1, <1>3, <2>4 DEF Behind
<1>7. CASE Len(lines) # 1
    <2>1. 2 \in 1 .. Len(lines) /\ lines'[1] = lines[2] /\ Len(lines') # 0
        BY <1>5, <1>7 DEF Dropped
    <2>2. Unopened'
        BY <1>1, <1>4, <2>1 DEF Unopened
    <2> QED
        BY <1>1, <1>3, <2>2 DEF Behind
<1> QED
    BY <1>6, <1>7

LEMMA StepsBehind ==
    ASSUME TypeInv, Behind, DriverStep
    PROVE  Orderly' \/ Behind'
<1>1. pc \in Trailing \cup {"NSOCR"}
    BY DEF Behind, Trailing
<1>2. ASSUME NEW r, Returns(r), Goes("failed"), UNCHANGED loopVars
      PROVE  Orderly'
    BY <1>2, Returning, BehindFails DEF loopVars
<1>3. CASE Collects
    BY <1>3, CollectsBehind
<1>4. CASE SetApn \/ SetRadioOn \/ SetOperator \/ GetIMEI
    <2>1. PICK r \in Response :
            /\ Returns(r)
            /\ \/ Goes("failed")
               \/ \E stage \in Trailing \ {"CGATT?"}, c \in Command :
                     AsksAt(stage, c) /\ c.kind \in Earlier
        BY <1>4, Commands DEF SetApn, SetRadioOn, SetOperator, GetIMEI, OnOk, Asks,
           Trailing, Earlier, Connecting
    <2>2. pc \in Trailing \ {"CGATT?"} /\ UNCHANGED loopVars
        BY <1>4 DEF SetApn, SetRadioOn, SetOperator, GetIMEI, Trailing
    <2> QED
        BY <1>2, <2>1, <2>2, Returning, AsksEarlier DEF loopVars
<1>5. CASE WaitForSignalQuality
    <2>1. PICK r \in Response :
            Returns(r) /\ (Asks("CGATT?") \/ Asks("CSQ") \/ Goes("failed"))
        BY <1>5 DEF WaitForSignalQuality, PollsAgain
    <2>2. pc = "CSQ" /\ UNCHANGED loopVars
        BY <1>5 DEF WaitForSignalQuality
    <2>3. CASE Asks("CSQ")
        BY <2>1, <2>2, <2>3, Returning, AsksEarlier, Commands
           DEF loopVars, Asks, Trailing, Earlier, Connecting
    <2> QED
        BY <1>2, <2>1, <2>2, <2>3, Returning, AsksPoll DEF loopVars
<1>6. CASE AttachBee
    <2>1. PICK r \in Response :
            /\ Returns(r)
            /\ (got # Nothing /\ Asks("NSOCR")) \/ Asks("CGATT?") \/ Goes("failed")
        BY <1>6 DEF AttachBee, PollsAgain
    <2>2. pc = "CGATT?" /\ UNCHANGED loopVars
        BY <1>6 DEF AttachBee
    <2> QED
        BY <1>2, <2>1, <2>2, Returning, AsksPoll, AsksSocket DEF loopVars
<1>7. CASE CreateSocket
    <2>1. PICK r \in Response : Returns(r) /\ (r = OK \/ Goes("failed"))
        BY <1>7 DEF CreateSocket, OnOk
    <2>2. pc = "NSOCR" /\ Unopened /\ UNCHANGED loopVars /\ Returned(r)
        BY <1>7, <2>1, Returning DEF CreateSocket, Behind, Trailing
    <2>3. r # OK
        <3> SUFFICES ASSUME r = OK PROVE FALSE
            OBVIOUS
        <3>1. Dropped /\ Outcome(lines[1]) = "ResponseOK"
            BY <2>2 DEF Returned, OK
        <3>2. lines[1].kind \in Late
            BY <2>2, <3>1 DEF Unopened, Dropped
        <3> QED
            BY <3>1, <3>2, Outcomes DEF Late
    <2> QED
        BY <1>2, <2>1, <2>2, <2>3
<1>8. \/ Collects \/ SetApn \/ SetRadioOn \/ SetOperator \/ GetIMEI
      \/ WaitForSignalQuality \/ AttachBee \/ CreateSocket
    BY <1>1 DEF DriverStep, Trailing, Setup, On, PurgeAllResponsesRead, SetRadioOff,
       CheckAndApplyNconfig, SetNconfigParam, Reboot, Loop, SocketReceiveBytes,
       CopiesForEver, SendPayload
<1> QED
    BY <1>3, <1>4, <1>5, <1>6, <1>7, <1>8

LEMMA StutterBehind ==
    ASSUME Behind, UNCHANGED vars
    PROVE  Behind'
BY DEF vars, modemVars, driverVars, Behind, Cmds, Overdue, Attached, Unopened

-----------------------------------------------------------------------------
(* What holds before the reboot, and of the end of the lines. *)
LEMMA StepsShorten ==
    ASSUME TypeInv, DriverStep
    PROVE  \/ Len(lines') = 0
           \/ lines' = lines
           \/ /\ Len(lines) \in Nat \ {0} /\ Len(lines') = Len(lines) - 1
              /\ \A i \in 1 .. Len(lines') : lines'[i] = lines[i + 1]
<1>1. ASSUME NEW r, Returned(r)
      PROVE  \/ Len(lines') = 0
             \/ /\ Len(lines) \in Nat \ {0} /\ Len(lines') = Len(lines) - 1
                /\ \A i \in 1 .. Len(lines') : lines'[i] = lines[i + 1]
    BY <1>1, LeftLines DEF Returned, Dropped
<1>2. ASSUME NEW r, Returns(r)
      PROVE  Returned(r)
    BY <1>2, Returning
<1>3. CASE Collects
    BY <1>3, Shortening DEF Collects, TypeInv, TypeOK
<1>4. CASE Setup \/ Loop \/ CopiesForEver
    BY <1>4 DEF Setup, PowerCycle, Loop, CopiesForEver, vars, modemVars
<1>5. CASE PurgeAllResponsesRead
    BY <1>1, <1>5, Purging
<1>6. CASE On \/ SetRadioOff \/ CheckAndApplyNconfig \/ SetNconfigParam \/ Reboot
    BY <1>1, <1>2, <1>6 DEF On, SetRadioOff, OnOk, CheckAndApplyNconfig,
       SetNconfigParam, Reboot
<1>7. CASE SetApn \/ SetRadioOn \/ SetOperator \/ GetIMEI \/ CreateSocket
    BY <1>1, <1>2, <1>7 DEF SetApn, SetRadioOn, SetOperator, GetIMEI, CreateSocket, OnOk
<1>8. CASE WaitForSignalQuality \/ AttachBee \/ SocketReceiveBytes \/ SendPayload
    BY <1>1, <1>2, <1>8 DEF WaitForSignalQuality, AttachBee, SocketReceiveBytes,
       SendPayload
<1> QED
    BY <1>3, <1>4, <1>5, <1>6, <1>7, <1>8 DEF DriverStep

LEMMA Closes ==
    ASSUME TypeInv, Closed, [Next]_vars
    PROVE  Closed'
<1>1. CASE DriverStep
    <2>1. CASE Len(lines') = 0 \/ lines' = lines
        BY <2>1 DEF Closed
    <2>2. CASE /\ Len(lines) \in Nat \ {0} /\ Len(lines') = Len(lines) - 1
               /\ \A i \in 1 .. Len(lines') : lines'[i] = lines[i + 1]
        <3> SUFFICES ASSUME Len(lines') # 0
                     PROVE  lines'[Len(lines')] = lines[Len(lines)]
            BY <2>2 DEF Closed
        <3> QED
            BY <2>2
    <2> QED
        BY <1>1, <2>1, <2>2, StepsShorten
<1>2. CASE Environment
    <2>1. Stepped
        BY <1>2, EnvironmentTypes
    <2>2. Plain("OK").kind = "OK" /\ Plain("ERROR").kind = "ERROR"
        BY DEF Plain, Text
    <2>3. ASSUME NEW kind \in Final, Ends(kind)
          PROVE  Closed'
        BY <2>2, <2>3 DEF Ends, Closed, Final
    <2>4. ASSUME NEW kinds, NEW n, Tells(kinds, n)
          PROVE  Closed'
        BY <2>2, <2>4 DEF Tells, Closed, Final
    <2>5. CASE Reply
        BY <2>3, <2>4, <2>5 DEF Reply, Final
    <2>6. CASE Restarted
        BY <2>6 DEF Restarted, Closed
    <2>7. CASE Booted
        BY <2>2, <2>7 DEF Booted, Closed, Final
    <2>8. ASSUME NEW k \in Length, Arrived(k)
          PROVE  Closed'
        BY <2>8 DEF Arrived, Closed
    <2> QED
        BY <2>1, <2>5, <2>6, <2>7, <2>8 DEF Stepped
<1>3. CASE UNCHANGED vars
    BY <1>3 DEF vars, modemVars, Closed
<1> QED
    BY <1>1, <1>2, <1>3 DEF Next

LEMMA Starts ==
    ASSUME TypeInv, Starting, [Next]_vars
    PROVE  Starting'
<1> SUFFICES ASSUME ~rebooted', pc' \in {"AT", "purge"}
             PROVE  Starting'
    BY DEF Starting
<1>1. CASE Environment
    <2>1. Stepped /\ pc' = pc /\ rebooted' = rebooted
        BY <1>1, EnvironmentTypes DEF Environment, driverVars
    <2>2. Len(cmds) = 0 /\ modem.sockets = 0
        BY <2>1 DEF Starting, TypeInv, SocketOK, Connecting
    <2>3. Booted
        BY <2>1, <2>2 DEF Stepped, Reply, Worked, Restarted, Arrived
    <2>4. pc = "AT" /\ Len(lines) = 0 /\ Len(cmds') = 0 /\ ~modem'.booting
          /\ Len(lines') = 2 /\ lines'[1] = Plain("text") /\ lines'[2] = Plain("OK")
        BY <2>1, <2>2, <2>3 DEF Starting, Booted
    <2> QED
        BY <2>1, <2>4 DEF Starting, Plain, Text
<1>2. CASE Setup
    BY <1>2 DEF Setup, PowerCycle, Starting, TypeInv, TypeOK
<1>3. CASE On
    <2>1. PICK r \in Response :
            /\ Returns(r)
            /\ IF r = OK THEN Goes("purge") ELSE Asks("AT") \/ Goes("failed")
        BY <1>3 DEF On
    <2>2. /\ pc = "AT" /\ ~rebooted /\ Returned(r)
          /\ cmds \in Seq(Command) /\ lines \in Seq(Line)
        BY <1>3, <2>1, Returning DEF On, TypeInv, TypeOK
    <2>3. CASE Dropped
        <3>1. /\ ~modem.booting /\ Len(lines) \in 1 .. 2 /\ lines[Len(lines)].kind = "OK"
              /\ Len(lines) = 2 => lines[1].kind = "text"
            BY <2>2, <2>3 DEF Starting, Dropped
        <3>2. r = Outcome(lines[1]) /\ r # "ResponseNotFound"
            <4>1. lines # <<>>
                BY <2>2, <2>3, Emptiness DEF Dropped
            <4> QED
                BY <2>2, <4>1 DEF Returned
        <3>3. ~ParserWaits
            BY <2>2 DEF ParserWaits, Accepted
        <3>4. lines[1].kind \in Final
            BY <3>2, <3>3, Outcomes
        <3>5. Len(lines) = 1 /\ r = OK
            BY <3>1, <3>2, <3>4, Outcomes DEF Final, OK
        <3>6. Len(lines') = 0 /\ pc' = "purge" /\ cmds' = cmds
            BY <2>1, <2>3, <3>5 DEF Dropped, Goes
        <3>7. Len(cmds) = 0 /\ modem' = modem
            BY <2>2 DEF Starting, Returned
        <3>8. Len(cmds') = 0 /\ ~modem'.booting /\ pc' # "AT"
            BY <3>1, <3>6, <3>7
        <3> QED
            BY <3>6, <3>8 DEF Starting
    <2>4. CASE lines = <<>> /\ lines' = <<>> /\ r = "ResponseTimeout"
        <3>1. Len(lines) = 0 /\ Len(lines') = 0
            BY <2>4
        <3>2. modem.booting /\ modem' = modem
            BY <2>2, <3>1 DEF Starting, Returned
        <3>3. cmds' = cmds /\ pc' \in {"AT", "failed"}
            BY <2>1, <2>4, <3>2 DEF OK, Asks, AsksAt, Goes, Sent
        <3>4. Len(cmds) = 0
            BY <2>2 DEF Starting
        <3>5. Len(cmds') = 0 /\ modem'.booting /\ pc' # "purge"
            BY <3>2, <3>3, <3>4
        <3> QED
            BY <3>1, <3>5 DEF Starting
    <2> QED
        BY <2>2, <2>3, <2>4 DEF Returned
<1>4. CASE PurgeAllResponsesRead
    <2>1. PICK r \in Response : Returned(r) /\ (Dropped \/ pc' # "purge")
        BY <1>4, Purging DEF Asks, AsksAt
    <2>2. pc = "purge" /\ ~rebooted
        BY <1>4, Purging
    <2>3. Len(lines) = 0
        BY <2>2 DEF Starting
    <2>4. pc' # "purge"
        BY <2>1, <2>3 DEF Dropped
    <2>5. pc' # "AT"
        BY <1>4, Purging DEF Asks, AsksAt, Goes
    <2> QED
        BY <2>4, <2>5
<1>5. CASE Collects
    <2>1. /\ pc' = pc /\ rebooted' = rebooted /\ cmds' = cmds /\ modem' = modem
          /\ Outcome(lines[1]) = "ResponseNotFound"
          /\ Len(lines) \in Nat \ {0} /\ Len(lines') = Len(lines) - 1
          /\ \A i \in 1 .. Len(lines) - 1 : lines'[i] = lines[i + 1]
        BY <1>5, Shortening DEF Collects, TypeInv, TypeOK
    <2>2. /\ pc = "AT" /\ ~modem.booting /\ Len(lines) \in 1 .. 2
          /\ lines[Len(lines)].kind = "OK"
        BY <2>1 DEF Starting
    <2>3. lines[1].kind # "OK"
        BY <2>1, Outcomes
    <2>4. Len(lines) = 2 /\ Len(lines') = 1 /\ lines'[1] = lines[2]
        BY <2>1, <2>2, <2>3
    <2> QED
        BY <2>1, <2>2, <2>4 DEF Starting
<1>6. CASE Reboot
    BY <1>6 DEF Reboot, Goes
<1>7. CASE SetRadioOff \/ CheckAndApplyNconfig \/ SetNconfigParam
    BY <1>7 DEF SetRadioOff, CheckAndApplyNconfig, SetNconfigParam, OnOk, AppliesNext,
       AppliesOne, Asks, AsksAt, Goes
<1>8. CASE SetApn \/ SetRadioOn \/ SetOperator \/ GetIMEI \/ CreateSocket
    BY <1>8 DEF SetApn, SetRadioOn, SetOperator, GetIMEI, CreateSocket, OnOk, Asks,
       AsksAt, Goes
<1>9. CASE WaitForSignalQuality \/ AttachBee \/ Loop \/ SocketReceiveBytes \/ SendPayload
    BY <1>9 DEF WaitForSignalQuality, AttachBee, PollsAgain, Loop, SocketReceiveBytes,
       SendPayload, Asks, AsksAt, Goes
<1>10. CASE CopiesForEver \/ UNCHANGED vars
    BY <1>10 DEF CopiesForEver, vars, modemVars, driverVars, Starting
<1> QED
    BY <1>1, <1>2, <1>3, <1>4, <1>5, <1>6, <1>7, <1>8, <1>9, <1>10 DEF Next, DriverStep

-----------------------------------------------------------------------------
(* The invariant. *)
LEMMA InitOrderly ==
    ASSUME Init
    PROVE  Orderly
<1>1. /\ pc = "AT" /\ cmds = <<>> /\ lines = <<>> /\ rx = <<>> /\ pending = 0
      /\ stored = "nothing" /\ Len(cmds) = 0 /\ Len(lines) = 0
    BY DEF Init, ModemInit
<1>2. BootOK /\ Quieting
    BY <1>1 DEF BootOK, Quieting, Cmds, Lines, Connecting
<1>3. OneByOne /\ Polling
    BY <1>1 DEF OneByOne, Polling, Single, Looping
<1>4. Opening /\ Idle /\ Receiving /\ Sending /\ Reading
    BY <1>1 DEF Opening, Idle, Receiving, Sending, Reading, Looping
<1> QED
    BY <1>2, <1>3, <1>4 DEF Orderly

LEMMA StutterOrderly ==
    ASSUME Orderly, UNCHANGED vars
    PROVE  Orderly'
<1>1. /\ modem' = modem /\ cmds' = cmds /\ lines' = lines /\ rx' = rx
      /\ overlap' = overlap /\ pc' = pc /\ got' = got /\ deviceId' = deviceId
      /\ pending' = pending /\ amount' = amount /\ stored' = stored
    BY DEF vars, modemVars, driverVars
<1>2. BootOK' /\ Quieting' /\ OneByOne' /\ Polling'
    BY <1>1 DEF Orderly, BootOK, Quieting, OneByOne, Polling, Cmds, Lines, Waiting,
                Ended, Op, Paired
<1>3. Counted' <=> Counted
    BY <1>1 DEF Counted, Backed, Signed
<1>4. \A l : Announces(l)' <=> Announces(l)
    BY <1>1 DEF Announces, Backed
<1>5. Opening' /\ Idle'
    BY <1>1, <1>3, <1>4 DEF Orderly, Opening, Idle, NotYet, Answered, Cmds
<1>6. Receiving'
    <2>1. Unanswered("NSORF")' <=> Unanswered("NSORF")
        BY <1>1, <1>3, <1>4 DEF Unanswered
    <2>2. Answered({"ERROR"}, {})' <=> Answered({"ERROR"}, {})
        BY <1>1, <1>3, <1>4 DEF Answered
    <2>3. ASSUME NEW m, NEW kind
          PROVE  HandedOver(m, kind)' <=> HandedOver(m, kind)
        <3>1. Lags(Signed(pending), m)' <=> Lags(Signed(pending), m)
            BY <1>1 DEF Lags, Signed
        <3>2. \A i : Lags(lines[i].n, m)' <=> Lags(lines[i].n, m)
            BY <1>1 DEF Lags
        <3>3. \A i : Announces(lines[i])' <=> Announces(lines[i])
            BY <1>1 DEF Announces, Backed
        <3> QED
            BY <1>1, <3>1, <3>2, <3>3 DEF HandedOver
    <2>4. Backed(amount)' <=> Backed(amount)
        BY <1>1 DEF Backed
    <2>5. Backed(Signed(pending))' <=> Backed(Signed(pending))
        BY <1>1 DEF Backed, Signed
    <2> QED
        BY <1>1, <2>1, <2>2, <2>3, <2>4, <2>5 DEF Orderly, Receiving
<1>7. Sending' /\ Reading'
    BY <1>1, <1>3, <1>4 DEF Orderly, Sending, Reading, Unanswered, Answered, Untouched
<1> QED
    BY <1>2, <1>5, <1>6, <1>7 DEF Orderly

(* What has been shifted stays so. *)
LEMMA ShiftedStays ==
    ASSUME TypeInv, [Next]_vars, shifted
    PROVE  shifted'
<1>1. ASSUME NEW r, Returns(r)
      PROVE  shifted'
    BY <1>1, Returning DEF Returned
<1>2. CASE Collects \/ Setup \/ Loop
    BY <1>2 DEF Collects, Setup, Loop
<1>3. CASE On \/ PurgeAllResponsesRead \/ SetRadioOff \/ CheckAndApplyNconfig
           \/ SetNconfigParam \/ Reboot
    BY <1>1, <1>3, Purging DEF On, SetRadioOff, OnOk, CheckAndApplyNconfig,
                               SetNconfigParam, Reboot
<1>4. CASE SetApn \/ SetRadioOn \/ SetOperator \/ GetIMEI \/ CreateSocket
    BY <1>1, <1>4 DEF SetApn, SetRadioOn, SetOperator, GetIMEI, CreateSocket, OnOk
<1>5. CASE WaitForSignalQuality \/ AttachBee \/ SocketReceiveBytes \/ SendPayload
    BY <1>1, <1>5 DEF WaitForSignalQuality, AttachBee, SocketReceiveBytes, SendPayload
<1>6. CASE CopiesForEver \/ Environment \/ UNCHANGED vars
    BY <1>6 DEF CopiesForEver, Environment, vars, driverVars
<1> QED
    BY <1>2, <1>3, <1>4, <1>5, <1>6 DEF Next, DriverStep

LEMMA Orders ==
    ASSUME Inv, Orderly, [Next]_vars, ~shifted'
    PROVE  Orderly' \/ Behind'
<1>1. TypeInv /\ Orderly
    BY DEF Inv
<1>2. CASE CopiesForEver \/ UNCHANGED vars
    BY <1>1, <1>2, StutterOrderly DEF CopiesForEver
<1>3. CASE Environment
    BY <1>1, <1>3, EnvironmentOrderly
<1>4. CASE Collects \/ Setup \/ On \/ PurgeAllResponsesRead \/ Reboot
    BY <1>1, <1>4, Collects_Orderly, Setup_Orderly, On_Orderly, Purge_Orderly,
       Reboot_Orderly DEF Inv
<1>5. CASE SetRadioOff \/ SetApn \/ SetRadioOn \/ SetOperator
           \/ CheckAndApplyNconfig \/ SetNconfigParam
    BY <1>1, <1>5, Singles_Orderly, Applies_Orderly
<1>6. CASE GetIMEI \/ WaitForSignalQuality \/ AttachBee \/ CreateSocket
    BY <1>1, <1>6, IMEI_Orderly, Signal_Orderly, Attach_Orderly, CreateSocket_Orderly
<1>7. CASE Loop \/ SocketReceiveBytes \/ SendPayload
    BY <1>1, <1>7, Loop_Orderly, Receive_Orderly, Send_Orderly
<1> QED
    BY <1>2, <1>3, <1>4, <1>5, <1>6, <1>7 DEF Next, DriverStep

LEMMA OrdersBehind ==
    ASSUME Inv, Behind, [Next]_vars
    PROVE  Orderly' \/ Behind'
BY StepsBehind, EnvironmentBehind, StutterBehind DEF Inv, Next

LEMMA Invariance == Spec => []Inv
<1>1. Init => Inv
    <2>1. Init => Starting /\ Closed
        BY DEF Init, ModemInit, Starting, Closed
    <2> QED
        BY <2>1, InitTypes, InitOrderly DEF Inv
<1>2. ASSUME Inv, [Next]_vars
      PROVE  Inv'
    <2>1. TypeInv' /\ Starting' /\ Closed'
        BY <1>2, Types, Starts, Closes DEF Inv
    <2>2. ASSUME ~shifted'
          PROVE  Orderly' \/ Behind'
        <3>1. ~shifted
            BY <1>2, <2>2, ShiftedStays DEF Inv
        <3> QED
            BY <1>2, <2>2, <3>1, Orders, OrdersBehind DEF Inv
    <2> QED
        BY <2>1, <2>2 DEF Inv
<1> QED
    BY <1>1, <1>2, PTL DEF Spec

LEMMA Loops ==
    ASSUME Inv, ~shifted, pc \in Looping
    PROVE  Orderly
BY DEF Inv, Behind, Trailing, Looping

(* When connect() has succeeded the radio is on, the APN is set, there is one
   socket and the IMEI is known, however many commands the modem refused, and
   however many answers came late or were left behind by a purge that ended
   after its two seconds, as long as no late answer belonged to a command whose
   result is ignored (ATT_NBIOT.cpp:202-208, 225-283). *)
THEOREM ConnectedCorrect == Spec => []ConnectedIndeed
<1>1. Inv => ConnectedIndeed
    BY Loops DEF Orderly, OneByOne, Reading, ConnectedIndeed
<1> QED
    BY <1>1, Invariance, PTL

(* The bytes the sketch counts are never more than a datagram in the modem has
   left, for any lengths of the datagrams, any number of them held at a time
   and any width of an int (ATT_NBIOT.cpp:757, 892). *)
THEOREM PendingCorrect == Spec => []PendingIsBacked
<1>1. ASSUME Inv, ~shifted, pc = "loop", Signed(pending) > 0
      PROVE  \E i \in DOMAIN rx : Signed(pending) <= rx[i].left
    <2>1. Backed(Signed(pending))
        <3>1. Counted /\ pending \in 0 .. Wrap - 1
            BY <1>1, Loops DEF Inv, TypeInv, TypeOK, Orderly, Idle, Looping
        <3>2. Signed(pending) \in Int
            BY <3>1, SignedRange
        <3> QED
            BY <1>1, <3>1, <3>2 DEF Counted
    <2>2. rx \in Seq(Datagram)
        BY <1>1 DEF Inv, TypeInv, TypeOK
    <2>3. DOMAIN rx = 1 .. Len(rx)
        BY <2>2, LenProperties
    <2> QED
        BY <2>1, <2>3 DEF Backed
<1>2. Inv => PendingIsBacked
    BY <1>1 DEF PendingIsBacked
<1> QED
    BY <1>2, Invariance, PTL

(* The token in the flash is one whole datagram, although the loop copies as
   many bytes as were announced, unless datagrams of different lengths were
   waiting in the modem together (NB-IoT_node.ino:90-102). *)
THEOREM StoredCorrect == Spec => []StoredIsWhole
<1>1. Inv => StoredIsWhole
    BY DEF Inv, Orderly, Reading, Behind, StoredIsWhole
<1> QED
    BY <1>1, Invariance, PTL

(* The byte that counts the copied bytes reaches their number: it is never
   asked to count to 256 or to a count that wrapped (NB-IoT_node.ino:99). *)
THEOREM CopyCorrect == Spec => []CopyEnds
<1>1. Inv => CopyEnds
    BY Loops DEF Orderly, Reading, Looping, CopyEnds
<1> QED
    BY <1>1, Invariance, PTL

=============================================================================
