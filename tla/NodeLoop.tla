------------------------------ MODULE NodeLoop ------------------------------
(***************************************************************************)
(* A node's loop: when LoopTimer says so it reads its sensors or fills a   *)
(* buffer, and sends.  The sketch packs its readings; the other senders    *)
(* are what the SDK offers.  The BMP085 may come loose and back.           *)
(***************************************************************************)
EXTENDS LoopTimer, Readings, Builders

CONSTANTS
    SendSize,    \* bytes of the array send() copies a payload to (51)
    Worlds,      \* what there is to measure (records of the readings)
    Garbage,     \* temperatures a sensor that is gone may seem to read
    Values,      \* what is added to a payload (sequences of bytes)
    Names,       \* the names of assets
    Entries,     \* what is added to a CBOR map: an asset's name and its value
    MapSizes,    \* what map() is told
    Fixes,       \* positions: three floating-point numbers
    Messages     \* the texts of sendMessage

(* What the sensors can say: a 10-bit converter, a pin, warmer than -200 degrees
   and no warmer than two bytes can say (NB-IoT_node.ino:130), a humidity between
   -6 and 119 (Sodaq_SHT2x.cpp:66), Pascal, millivolts, the verdicts of slope(). *)
Level == 0 .. 1023
Coldest == -19999
Hottest == 38220
Temperature == Coldest .. Hottest
Humidity == -128 .. 127
Highest == 16777215
Pressure == 0 .. Highest
Fullest == 65535
Millivolts == 0 .. Fullest
Quality == -1 .. 3
Reading ==
    [light : Level, loudness : Level, motion : {0, 1}, temperature : Temperature,
     humidity : Humidity, pressure : Pressure, battery : Millivolts,
     airquality : Quality]

(* A name or text, and a value of each of the SDK's types. *)
IsString(bytes) == bytes \in Seq(Byte) /\ Len(bytes) <= Largest
IsValue(item) ==
    \/ item.type = 3 /\ item = Text(item.value) /\ IsString(item.value)
    \/ item.type = 0 /\ item = Whole(item.value[1])
                     /\ item.value[1] \in -Largest - 1 .. Largest
    \/ item \in {Truth(TRUE), Truth(FALSE)}
    \/ item = Number(item.value) /\ item.value \in [1 .. 4 -> Byte]

ASSUME LoopAssumption ==
    /\ SendSize \in Nat
    /\ Worlds \subseteq Reading
    /\ Garbage \subseteq Int /\ \A t \in Garbage : t <= Hottest
    /\ Values \subseteq Seq(Byte) /\ Messages \subseteq Seq(Byte)
    /\ \A bytes \in Names : IsString(bytes)
    /\ \A entry \in Entries : IsString(entry.name) /\ IsValue(entry.value)
    /\ MapSizes \subseteq 0 .. Largest
    /\ Fixes \subseteq [1 .. 3 -> [1 .. 4 -> Byte]]

VARIABLES
    sender,
    present,       \* does the BMP085 answer?
    calibrated,    \* have its calibration data been read?
    builder,       \* the bytes in it, and what they should be
    world,         \* what there was to measure in an iteration that sends,
    sample,        \* what the sketch read of it,
    data,          \* what it sent
    frame          \* and what AT+NSOST was told

bmpVars == <<present, calibrated>>
sentVars == <<world, sample, data, frame>>
loopVars == <<vars, sender, bmpVars, builder, sentVars>>

Unread == [airquality |-> -1]

(* setup() has begun the BMP085 if it was there. *)
LoopInit ==
    /\ Init
    /\ sender \in {"packet", "payload", "cbor", "message"}
    /\ present \in BOOLEAN /\ calibrated = present
    /\ builder = Empty
    /\ world = Unread /\ sample = Unread
    /\ data = <<>> /\ frame = NotSent

SendsNothing ==
    /\ world' = Unread /\ sample' = Unread
    /\ data' = <<>> /\ frame' = NotSent

(* The call that hangs never returns; after one that has written over memory
   that is not its own nothing is known. *)
Lost == {"hung", "overrun"}

Idle == sender \notin Lost /\ Wait /\ SendsNothing /\ UNCHANGED <<sender, bmpVars, builder>>

Loosens ==
    /\ sender = "packet"
    /\ present' = ~present
    /\ SendsNothing
    /\ UNCHANGED <<vars, sender, calibrated, builder>>

-----------------------------------------------------------------------------
(* readRawTemperature begins again if there are no calibration data.  Without
   any the calculation ends in 0.  Mutant: it begins but once. *)
BeginsOnce == calibrated
Begins == calibrated \/ present

BmpTemperature(t) ==
    CASE calibrated' /\ present -> {t}
      [] calibrated' /\ ~present -> Garbage
      [] OTHER -> {0}

(* The other sensor is asked twice, and may answer (warm, moist) once or not at
   all.  The pressure of a BMP085 that is gone is left out. *)
Reads(w, s) ==
    /\ calibrated' = Begins
    /\ \E warm, moist \in BOOLEAN, t \in BmpTemperature(w.temperature) :
          s = [w EXCEPT
                 !.temperature =
                     ReadTemperature(t, GetTemperature(warm, w.temperature)),
                 !.humidity = GetHumidity(moist, w.humidity)]

SendPacket(k) ==
    /\ sender = "packet"
    /\ Send(k)
    /\ world' \in Worlds
    /\ Reads(world', sample')
    /\ data' = Packet(sample')
    /\ frame' = Frame(data')
    /\ UNCHANGED <<sender, present, builder>>

-----------------------------------------------------------------------------
Builds(result) ==
    /\ Due
    /\ builder' = result
    /\ SendsNothing
    /\ UNCHANGED <<vars, sender, bmpVars>>

Reset == sender \notin Lost /\ builder.bytes # <<>> /\ Builds(Empty)

AddValue(bytes) ==
    sender = "payload" /\ Builds([builder EXCEPT !.bytes = Add(@, bytes)])

AddEntry(entry) ==
    sender = "cbor" /\ Builds(PutPair(builder, entry.name, entry.value))

AddGPS(name, fix) == sender = "cbor" /\ Builds(PutGPS(builder, name, fix))

AddMap(n) == sender = "cbor" /\ Builds(Put(builder, Pairs(n)))

(* send() copies a payload to sendBuffer, whatever its length, and sends it from
   there; a CBOR buffer is sent as it is. *)
FitsSendBuffer == sender = "payload" => Len(builder.bytes) <= SendSize

SendBuffer(k) ==
    /\ sender \in {"payload", "cbor"}
    /\ FitsSendBuffer
    /\ ~SendsForEver(builder.bytes)
    /\ Send(k)
    /\ data' = builder.bytes
    /\ frame' = Frame(data')
    /\ UNCHANGED <<sender, bmpVars, builder, world, sample>>

(* A copy that is longer than sendBuffer writes over what lies behind it, before
   anything is sent. *)
Overruns ==
    /\ sender = "payload" /\ Due
    /\ ~FitsSendBuffer
    /\ sender' = "overrun"
    /\ SendsNothing
    /\ UNCHANGED <<vars, bmpVars, builder>>

(* A buffer with more bytes than the counter of sendCbor has values: the call
   never returns. *)
Hangs ==
    /\ sender = "cbor" /\ Due
    /\ SendsForEver(builder.bytes)
    /\ sender' = "hung"
    /\ SendsNothing
    /\ UNCHANGED <<vars, bmpVars, builder>>

HangsOn ==
    /\ sender \in Lost
    /\ now' = Later(now, 1)
    /\ elapsed' = AtMostInterval(elapsed + 1)
    /\ UNCHANGED <<sendNextAt, lastSend, sender, bmpVars, builder, sentVars>>

SendText(k, text) ==
    /\ sender = "message"
    /\ Send(k)
    /\ data' = text
    /\ frame' = SendMessage(text)
    /\ UNCHANGED <<sender, bmpVars, builder, world, sample>>

LoopNext ==
    \/ Idle
    \/ Loosens
    \/ \E k \in 0 .. MaxSend :
          \/ SendPacket(k)
          \/ SendBuffer(k)
          \/ \E text \in Messages : SendText(k, text)
    \/ Overruns
    \/ Hangs
    \/ HangsOn
    \/ Reset
    \/ \E bytes \in Values : AddValue(bytes)
    \/ \E entry \in Entries : AddEntry(entry)
    \/ \E name \in Names, fix \in Fixes : AddGPS(name, fix)
    \/ \E n \in MapSizes : AddMap(n)

(* The clock runs, and loop() is called again and again: the sketch sends when
   its time has come.  When other senders send is up to who calls them. *)
LoopSpec ==
    /\ LoopInit /\ [][LoopNext]_loopVars
    /\ WF_loopVars(Idle \/ HangsOn)
    /\ WF_loopVars(\E k \in 0 .. MaxSend : SendPacket(k))

-----------------------------------------------------------------------------
LoopTypeOK ==
    /\ TypeOK
    /\ present \in BOOLEAN /\ calibrated \in BOOLEAN /\ builder.full \in BOOLEAN
    /\ builder.bytes \in Seq(Byte) /\ data \in Seq(Byte)
    /\ frame.announced \in Nat /\ frame.digits \in Seq(0 .. 15)

(* No add call of either builder writes past the builder's own buffer, whatever
   is added after it is full (PayloadBuilder.cpp:80-175,
   CborBuilder.cpp:138-156).  That is not so of send(), see Overruns. *)
BufferIsBounded ==
    Len(builder.bytes) <=
        IF sender \in {"payload", "overrun"} THEN MaxSize ELSE Capacity

(* As long as there was room for everything, a reader of CBOR who starts at the
   first byte finds the items put into the buffer, each where the one before
   ended, and is then at its end: also at the lengths and numbers where the
   encoding changes, and negative ones (CborBuilder.cpp:160-176, 203-211). *)
CborIsReadable ==
    sender = "cbor" /\ ~builder.full =>
        LET items == builder.items
            End == Len(builder.bytes) + 1
        IN  /\ (IF items = <<>> THEN End ELSE items[1].at) = 1
            /\ \A i \in 1 .. Len(items) :
                  ItemAt(builder.bytes, items[i].at) =
                      [item |-> items[i].item,
                       next |-> IF i = Len(items) THEN End ELSE items[i + 1].at]

(* The modem is announced as many bytes as it is given digits for, and they
   are the credentials and the data (ATT_NBIOT.cpp:565-661). *)
FrameIsWhole ==
    frame # NotSent =>
        /\ Len(frame.digits) = 2 * frame.announced
        /\ Bytes(frame.digits) = Credentials \o data

(* The agent reads out of a packet what the sketch measured: through 16-bit
   numbers that a temperature above 54 degrees does not fit, and through
   signed bytes (NB-IoT_node.ino:125-156, CumulocityHandler.java:176-200). *)
MeasurementIsSample ==
    sample # Unread =>
        CreateMeasurement(SubSeq(Bytes(frame.digits), Len(Credentials) + 1,
                                 Len(Credentials) + 14)) = sample

(* While the BMP085 is there the temperature is the true one, also if it was
   not there at setup() and if the other sensor does not answer
   (Sodaq_BMP085.cpp:93-97, Sodaq_TPH.cpp:42-60). *)
TemperatureIsTrue ==
    sample # Unread /\ present => sample.temperature = world.temperature

(* The sketch sends packet after packet, "every x seconds"
   (NB-IoT_node/README.md:19), also when the clock comes round in between,
   unless the time of the next one is the largest number there is: the clock
   never exceeds that one, and the node never sends again
   (NB-IoT_node.ino:86 and 170). *)
SendsAgainUnlessLast ==
    sender = "packet" /\ frame = NotSent /\ sendNextAt # Period - 1
        ~> frame # NotSent
=============================================================================
