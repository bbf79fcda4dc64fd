------------------------------- MODULE Driver -------------------------------
(***************************************************************************)
(* The modem driver under the sketch: setup() until connect() succeeds,    *)
(* then loop() with what it reads from the socket and sends.  pc is the    *)
(* command whose answer readResponse waits for; each answer is the work of *)
(* several lines, and one that comes after the driver has given up waiting *)
(* is read as the answer of a later command.                               *)
(***************************************************************************)
EXTENDS Modem

CONSTANTS
    MaxAlive,     \* how often on() tries AT (10)
    MaxPolls,     \* polls of the signal and of the attachment before it is
                  \* given up (a bound; the code counts time)
    MaxLate,      \* answers that come too late (a bound)
    Wrap,         \* size_t and int are numbers modulo Wrap (2^16)
    ByteRange     \* the values of a byte, and the size of a UDP buffer (256)

ASSUME DriverAssumption ==
    /\ MaxAlive \in Nat \ {0} /\ MaxPolls \in Nat \ {0} /\ MaxLate \in Nat
    /\ ByteRange \in Nat \ {0} /\ Wrap \in Nat
    /\ 2 * ByteRange <= Wrap
    /\ \A k \in Length : k < ByteRange

VARIABLES
    pc,
    tries,
    rebooted,    \* is this the part of connect() after reboot()?
    got,         \* the line the parser has accepted
    applyParam,  \* the parameters checkAndApplyNconfig takes for right
    deviceId,    \* is the IMEI known?
    pending,     \* _pendingUDPBytes
    amount,      \* amountbytes
    stored,      \* what the token last written is of a datagram
    late,
    shifted      \* did an answer come late for a command whose result is
                 \* ignored, so that the answers after it are shifted?

driverVars ==
    <<pc, tries, rebooted, got, applyParam, deviceId, pending, amount,
      stored, late, shifted>>
vars == <<modemVars, driverVars>>

Connecting == {"AT", "purge", "CFUN", "NCONFIG?", "NCONFIG", "NRB", "CGDCONT",
               "CFUN=1", "COPS", "CGSN", "CSQ", "CGATT?", "NSOCR"}
Looping == {"loop", "NSORF", "NSOST", "copying"}
Nothing == Plain("nothing")

(* A size_t read as an int.  Mutant: it stays unsigned. *)
SignedIgnored(k) == k
Signed(k) == IF 2 * k < Wrap THEN k ELSE k - Wrap

(* The count of pending bytes after an announcement of n bytes.  Mutant:
   announcements add up. *)
AnnouncedSum(k, n) == (k + n) % Wrap
Announced(k, n) == n

(* The count after n bytes have been read.  Mutants: it may fall below zero;
   it is not lowered. *)
LoweredBelowZero(k, n) == k - n
NotLowered(k, n) == k
Lowered(k, n) == (k - n) % Wrap

(* How many of k bytes are asked for.  Mutant: one is kept for a terminator. *)
AskedForLess(k) == Least(k, ByteRange) - 1
AskedFor(k) == Least(k, ByteRange)

Init ==
    /\ ModemInit
    /\ pc = "AT"
    /\ tries = 0
    /\ rebooted = FALSE
    /\ got = Nothing
    /\ applyParam = {}
    /\ deviceId = FALSE
    /\ pending = 0
    /\ amount = 0
    /\ stored = "nothing"
    /\ late = 0
    /\ shifted = FALSE

-----------------------------------------------------------------------------
(* readResponse. *)
Accepted ==
    CASE pc = "NCONFIG?" -> {"+NCONFIG"}
      [] pc = "CSQ"      -> {"+CSQ"}
      [] pc = "CGATT?"   -> {"+CGATT"}
      [] pc = "NSOCR"    -> {"number"}
      [] pc = "NSORF"    -> {"whole", "piece"}
      [] OTHER           -> {}

(* The parser is called once, but the one of NCONFIG? asks for more. *)
ParserWaits == Accepted # {} /\ (got = Nothing \/ pc = "NCONFIG?")

(* Mutant: a line the parser does not know is skipped. *)
OutcomeLenient(l) ==
    CASE l.kind = "OK"    -> "ResponseOK"
      [] l.kind = "ERROR" -> "ResponseError"
      [] OTHER            -> "ResponseNotFound"
Outcome(l) ==
    CASE l.kind = "OK"      -> "ResponseOK"
      [] l.kind = "ERROR"   -> "ResponseError"
      [] l.kind = "+NSONMI" -> "ResponseNotFound"
      [] OTHER -> IF ParserWaits /\ l.kind \notin Accepted
                  THEN "ResponseError" ELSE "ResponseNotFound"

(* A line that does not end it: an announcement, the IMEI, the line the
   parser waits for, or one of no interest. *)
Collects ==
    /\ pc \in (Connecting \cup Looping) \ {"loop", "copying"}
    /\ lines # <<>>
    /\ Outcome(Head(lines)) = "ResponseNotFound"
    /\ lines' = Tail(lines)
    /\ LET l == Head(lines) IN
       /\ pending' = IF l.kind = "+NSONMI" THEN Announced(pending, l.n)
                   ELSE pending
       /\ deviceId' = (deviceId \/ l.kind = "+CGSN")
       /\ got' = IF ParserWaits /\ l.kind \in Accepted THEN l ELSE got
       /\ applyParam' = applyParam \cup (IF ParserWaits THEN l.on ELSE {})
    /\ UNCHANGED <<modem, cmds, rx, refusals, arrivals, overlap, pc, tries,
                   rebooted, amount, stored, late, shifted>>

ReturnsLine(r) ==
    /\ lines # <<>>
    /\ r = Outcome(Head(lines))
    /\ r # "ResponseNotFound"
    /\ lines' = Tail(lines)
    /\ deviceId' = (deviceId \/ Head(lines).kind = "+CGSN")
    /\ UNCHANGED <<late, shifted>>

(* Nothing came in time: the modem never heard the command, or it is late. *)
ReturnsTimeout(r) ==
    /\ r = "ResponseTimeout"
    /\ lines = <<>>
    /\ cmds # <<>> => late < MaxLate
    /\ late' = IF cmds = <<>> THEN late ELSE late + 1
    /\ shifted' = (shifted \/ (cmds # <<>> /\ pc \in {"NCONFIG", "NSORF", "NSOST"}))
    /\ UNCHANGED <<lines, deviceId>>

Returns(r) ==
    /\ ReturnsLine(r) \/ ReturnsTimeout(r)
    /\ UNCHANGED <<modem, rx, refusals, arrivals, overlap>>

OK == "ResponseOK"
Failures == {"ResponseError", "ResponseTimeout"}
Response == {OK} \cup Failures

(* Print a command, then wait for its answer at stage. *)
AsksAt(stage, c) == pc' = stage /\ Sent(c) /\ got' = Nothing
Asks(op) == AsksAt(op, Plain(op))
Goes(stage) == pc' = stage /\ cmds' = cmds /\ got' = Nothing

(* A step of connect() that gives up unless the answer is OK. *)
OnOk(next) ==
    \E r \in Response :
        Returns(r) /\ IF r = OK THEN next ELSE Goes("failed")

loopVars == <<pending, amount, stored>>
-----------------------------------------------------------------------------
(* Mutant: a failed connect() is only reported. *)
SetupReportsFailure ==
    /\ pc = "failed"
    /\ UNCHANGED vars

(* setup(): resetFunc starts all over, init() takes the power pin low. *)
Setup ==
    /\ pc = "failed"
    /\ PowerCycle
    /\ pc' = "AT"
    /\ tries' = 0
    /\ rebooted' = FALSE
    /\ got' = Nothing
    /\ applyParam' = {}
    /\ deviceId' = FALSE
    /\ pending' = 0
    /\ amount' = 0
    /\ UNCHANGED <<stored, late, shifted>>

(* on() and isAlive(). *)
On ==
    /\ pc = "AT"
    /\ \E r \in Response :
        /\ Returns(r)
        /\ IF r = OK THEN tries' = 0 /\ Goes("purge")
           ELSE /\ tries' = tries + 1
                /\ IF tries' < MaxAlive THEN Asks("AT") ELSE Goes("failed")
    /\ UNCHANGED <<rebooted, applyParam, loopVars>>

(* purgeAllResponsesRead() reads on after an answer, until a second passes
   without one or two have passed in all, then comes the first command after
   it: setRadioActive before the reboot, setApn after it.  Either way it may
   leave lines unread and commands unanswered. *)
PurgesOn ==
    /\ \E r \in Response : ReturnsLine(r)
    /\ Goes("purge")

PurgeEnds ==
    /\ \/ \E r \in Response : ReturnsLine(r)
       \/ lines = <<>> /\ UNCHANGED <<lines, deviceId, late, shifted>>
    /\ IF rebooted THEN Asks("CGDCONT") ELSE AsksAt("CFUN", Plain("CFUN"))

PurgeAllResponsesRead ==
    /\ pc = "purge"
    /\ PurgesOn \/ PurgeEnds
    /\ UNCHANGED <<modem, rx, refusals, arrivals, overlap, tries, rebooted,
                   applyParam, loopVars>>

(* The radio is off; the array that takes the answers is not cleared. *)
SetRadioOff ==
    /\ pc = "CFUN"
    /\ OnOk(Asks("NCONFIG?"))
    /\ applyParam' \in SUBSET Param
    /\ UNCHANGED <<tries, rebooted, loopVars>>

AppliesOne ==
    \E p \in Param \ applyParam :
        /\ applyParam' = applyParam \cup {p}
        /\ AsksAt("NCONFIG", Text("NCONFIG", 0, {p}))
AppliesNext ==
    IF applyParam = Param THEN Asks("NRB") /\ UNCHANGED applyParam
    ELSE AppliesOne

CheckAndApplyNconfig ==
    /\ pc = "NCONFIG?"
    /\ \E r \in Response :
        /\ Returns(r)
        /\ IF r = OK THEN AppliesNext ELSE Goes("failed") /\ UNCHANGED applyParam
    /\ UNCHANGED <<tries, rebooted, loopVars>>

(* The result of setNconfigParam is ignored. *)
SetNconfigParam ==
    /\ pc = "NCONFIG"
    /\ \E r \in Response : Returns(r)
    /\ AppliesNext
    /\ UNCHANGED <<tries, rebooted, loopVars>>

(* reboot() gives up waiting after two seconds; on() follows. *)
Reboot ==
    /\ pc = "NRB"
    /\ \E r \in Response :
        /\ Returns(r)
        /\ \/ Asks("AT") /\ rebooted' = TRUE
           \/ r = "ResponseError" /\ Goes("NRB") /\ UNCHANGED rebooted
    /\ UNCHANGED <<tries, applyParam, loopVars>>

SetApn ==
    /\ pc = "CGDCONT"
    /\ OnOk(AsksAt("CFUN=1", Text("CFUN", 1, {})))
    /\ UNCHANGED <<tries, rebooted, applyParam, loopVars>>
SetRadioOn ==
    /\ pc = "CFUN=1"
    /\ OnOk(Asks("COPS"))
    /\ UNCHANGED <<tries, rebooted, applyParam, loopVars>>
SetOperator ==
    /\ pc = "COPS"
    /\ OnOk(Asks("CGSN"))
    /\ UNCHANGED <<tries, rebooted, applyParam, loopVars>>
GetIMEI ==
    /\ pc = "CGSN"
    /\ OnOk(Asks("CSQ"))
    /\ UNCHANGED <<tries, rebooted, applyParam, loopVars>>

(* Ask again, unless it has been asked often enough. *)
PollsAgain(op) ==
    /\ tries' = tries + 1
    /\ IF tries' < MaxPolls THEN Asks(op) ELSE Goes("failed")

(* Without a line that says otherwise the signal counts as the weakest. *)
WaitForSignalQuality ==
    /\ pc = "CSQ"
    /\ \E r \in Response :
        /\ Returns(r)
        /\ IF r = OK /\ (got = Nothing \/ got.n = 1)
           THEN tries' = 0 /\ Asks("CGATT?") ELSE PollsAgain("CSQ")
    /\ UNCHANGED <<rebooted, applyParam, loopVars>>

AttachBee ==
    /\ pc = "CGATT?"
    /\ \E r \in Response :
        /\ Returns(r)
        /\ IF r = OK /\ got # Nothing /\ got.n = 1
           THEN tries' = 0 /\ Asks("NSOCR") ELSE PollsAgain("CGATT?")
    /\ UNCHANGED <<rebooted, applyParam, loopVars>>

CreateSocket ==
    /\ pc = "NSOCR"
    /\ OnOk(Goes("loop"))
    /\ UNCHANGED <<tries, rebooted, applyParam, loopVars>>

-----------------------------------------------------------------------------
(* loop(): look for pending bytes, ask for them or send at once. *)
Loop ==
    /\ pc = "loop"
    /\ IF Signed(pending) > 0
       THEN /\ amount' = Signed(pending)
            /\ AsksAt("NSORF", Text("NSORF", AskedFor(amount'), {}))
       ELSE amount' = 0 /\ Asks("NSOST")
    /\ UNCHANGED <<modem, lines, rx, refusals, arrivals, overlap, tries, rebooted,
                   applyParam, deviceId, pending, stored, late, shifted>>

(* What the copied bytes are: the loop copies amount bytes, not the number
   that was received. *)
Copied(l) ==
    IF l = Nothing THEN "garbage"
    ELSE IF amount # l.n THEN "padded" ELSE l.kind

(* The length and the address are those of the line, or whatever the stack
   holds if an OK came without one. *)
Received(n, isServer) ==
    IF got = Nothing THEN n \in 0 .. Wrap - 1 /\ isServer \in BOOLEAN
    ELSE n = got.n /\ isServer

(* socketReceiveBytes; the token is written if it comes from the server.  The
   index of the copying loop is a byte. *)
SocketReceiveBytes ==
    /\ pc = "NSORF"
    /\ \E r \in Response :
        /\ Returns(r)
        /\ IF r # OK
           THEN Asks("NSOST") /\ UNCHANGED <<pending, stored>>
           ELSE \E n \in 0 .. Wrap - 1, isServer \in BOOLEAN :
                /\ Received(n, isServer)
                /\ pending' = Lowered(pending, n)
                /\ IF n = 0 \/ ~isServer
                   THEN Asks("NSOST") /\ UNCHANGED stored
                   ELSE IF amount >= ByteRange
                   THEN Goes("copying") /\ UNCHANGED stored
                   ELSE Asks("NSOST") /\ stored' = Copied(got)
    /\ UNCHANGED <<tries, rebooted, applyParam, amount>>

CopiesForEver == pc = "copying" /\ UNCHANGED vars

(* sendPayload; its result is ignored. *)
SendPayload ==
    /\ pc = "NSOST"
    /\ \E r \in Response : Returns(r)
    /\ Goes("loop")
    /\ UNCHANGED <<tries, rebooted, applyParam, loopVars>>

DriverStep ==
    \/ Collects
    \/ Setup
    \/ On
    \/ PurgeAllResponsesRead
    \/ SetRadioOff
    \/ CheckAndApplyNconfig
    \/ SetNconfigParam
    \/ Reboot
    \/ SetApn
    \/ SetRadioOn
    \/ SetOperator
    \/ GetIMEI
    \/ WaitForSignalQuality
    \/ AttachBee
    \/ CreateSocket
    \/ Loop
    \/ SocketReceiveBytes
    \/ CopiesForEver
    \/ SendPayload

Environment == ModemNext /\ UNCHANGED driverVars

Next == DriverStep \/ Environment
Spec == Init /\ [][Next]_vars

(* The driver and the modem go on, and on ever new attempts the modem boots in
   time, before and after reboot(), finds a signal and attaches. *)
BootsInTime(again) ==
    pc = "AT" /\ tries = 0 /\ rebooted = again /\ BootDone
        /\ UNCHANGED driverVars
FindsNetwork(op) == WorksOff(op) /\ Reports(1) /\ UNCHANGED driverVars

FairSpec ==
    /\ Spec
    /\ WF_vars(DriverStep)
    /\ WF_vars(ModemStep /\ UNCHANGED driverVars)
    /\ \A again \in BOOLEAN : SF_vars(BootsInTime(again))
    /\ \A op \in {"CSQ", "CGATT?"} : SF_vars(FindsNetwork(op))

-----------------------------------------------------------------------------
Command == [kind : (Connecting \ {"purge", "CFUN=1"}) \cup {"NSORF", "NSOST"},
            n : 0 .. Wrap - 1, on : SUBSET Param]
Line == [kind : {"OK", "ERROR", "text", "nothing", "+NCONFIG", "+CGSN", "+CSQ",
                 "+CGATT", "number", "whole", "piece", "+NSONMI"},
         n : 0 .. Wrap - 1, on : SUBSET Param]
Datagram == [len : 1 .. ByteRange - 1, left : 1 .. ByteRange - 1]

TypeOK ==
    /\ modem \in [booting : BOOLEAN, radio : BOOLEAN, apn : BOOLEAN,
                  right : SUBSET Param, sockets : 0 .. 1]
    /\ cmds \in Seq(Command) /\ lines \in Seq(Line) /\ rx \in Seq(Datagram)
    /\ overlap \in {"none", "alike", "mixed"}
    /\ pc \in Connecting \cup Looping \cup {"failed"}
    /\ tries \in 0 .. MaxAlive + MaxPolls
    /\ rebooted \in BOOLEAN /\ deviceId \in BOOLEAN
    /\ got \in Line
    /\ applyParam \subseteq Param
    /\ pending \in 0 .. Wrap - 1
    /\ amount \in 0 .. Wrap - 1
    /\ stored \in {"nothing", "whole", "piece", "padded", "garbage"}

(* When connect() has succeeded the radio is on, the APN is set, there is one
   socket and the IMEI is known (ATT_NBIOT.cpp:225-283), however many commands
   were refused, and however many answers came late or were left behind by a
   purge that ended after its two seconds: connect() takes the OKs of AT for
   those of later commands then, but fails on the way to its socket. *)
ConnectedIndeed ==
    ~shifted /\ pc \in Looping =>
        modem.radio /\ modem.apn /\ modem.sockets = 1 /\ deviceId

(* After connect() the parameters of nConfig are set, "3. Apply configuration"
   (ATT_NBIOT.cpp:214). *)
ConnectedConfigured == pc \in Looping => modem.right = Param

(* The sketch never asks an empty socket for bytes, after which it would read
   a length nobody wrote: however announcements overwrite one another and
   lengths are subtracted, it counts no more bytes than one of the datagrams
   the modem holds has left (ATT_NBIOT.cpp:757, 892). *)
PendingIsBacked ==
    ~shifted /\ pc = "loop" /\ Signed(pending) > 0
        => \E i \in DOMAIN rx : Signed(pending) <= rx[i].left

(* Where the modem never holds datagrams of different lengths, a token is
   written from one whole datagram, although the bytes copied are counted by
   the announcement and not by what was read (NB-IoT_node.ino:90-102). *)
StoredIsWhole ==
    overlap # "mixed" /\ ~shifted => stored \in {"nothing", "whole"}

(* The byte that counts the copied bytes reaches amountbytes, also when the
   count of pending bytes has gone below zero (NB-IoT_node.ino:99). *)
CopyEnds == ~shifted => pc # "copying"

(* Unless datagrams overlap, the node reads all that the modem holds: an
   announcement that no command was there to hear is found by the next one
   (ATT_NBIOT.cpp:745-760). *)
AllIsRead ==
    pc \in Looping /\ rx # <<>> ~> rx = <<>> \/ overlap # "none" \/ shifted

(* A modem that boots in time, finds a signal and attaches on ever new attempts
   is connected to in the end, whatever it refused or answered late before
   (NB-IoT_node.ino:73-80). *)
Connects == <>(pc \in Looping)

=============================================================================
