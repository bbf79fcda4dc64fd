# A verification project for the NB-IoT / Cumulocity demo

The repository connects battery-powered Arduino nodes to Cumulocity over
NB-IoT. A node sends its readings in UDP datagrams to an agent; the agent
queues them in RabbitMQ, registers unknown devices at Cumulocity, pushes the
measurements of known ones, and answers the node with credentials or with a
reset. This directory holds TLA+ models of that code, the TLC runs that check
them on small instances and TLAPS proofs of the main results for every size.

Paths below are relative to the repository; `agent/` stands for
`src/NB-IoT_agent/src/main/java/be/i8c/nbiotagent/` and `node/` for
`src/NB-IoT_node/`.

## 1. Inventory

| Component | State it keeps | Operations | What makes it correct |
|---|---|---|---|
| **Node sketch** `node/NB-IoT_node.ino` | token in EEPROM and in `readPW`'s static buffer, `sendNextAt`, readings | `setup`, `loop` (receive, store token, read sensors, send), `writePW`, `readPW`, timer interrupt | holds a whole token or none; leaves a token that is refused; keeps sending, never faster than every 10 s |
| **Modem driver** `node/arduino-nbiot-sdk-master/ATT_NBIOT.cpp`, `Sodaq_AT_Device.cpp`, `Sodaq_OnOffBee.h` | input buffer, `_pendingUDPBytes`, `_deviceId`, timeouts | `connect` with retries, `readResponse`, `sendPayload`, `socketReceiveBytes`, ... | an answer belongs to the command it is taken for; the pending count agrees with the modem's buffer; connect succeeds in the end, and only if the modem is ready |
| **Air quality sensor** `node/AirQuality_Sensor/AirQuality.cpp` | two voltages, average, flag, counter | `init`, `avgVoltage`, `slope`, the timer interrupt | `slope` compares voltages of one moment; the average does not overflow |
| **TPH sensors** `node/TPH_Library` | calibration data, read once | I2C reads, `readTemperature` | a sensor that is absent or late does not spoil what the other one reads |
| **Payload and CBOR builders** `PayloadBuilder.cpp`, `CborBuilder.cpp` | buffer and offset | `reset`, `add*` | never write past the buffer; what is written decodes to what was added |
| **UDP adapter** `agent/NBiotPacketDecoder.java`, `NBiotPacketEncoder.java` | `static ctx` of the encoder | `decode`, `encode` | a reply goes to the node that asked; the wait for `ctx` ends |
| **Routes** `agent/AgentRouter.java` with `application.properties` | none of their own; unacknowledged messages | four routes, 30 consumers a queue, manual acknowledgement, `removeHeaders` | a message is handled by the handler it is for, and is acknowledged in the end |
| **Cumulocity handler** `agent/CumulocityHandler.java` | bootstrap platform, registration in progress on the stack | `registerDevice`, `pushMeasurement`, `createMeasurement` | password and object belong together; no duplicates; a reset only for a refusal |
| **Datagram codec** `agent/DataPacket.java`, `DataPacketCreator.java` | one datagram's fields | constructors, `isRegisterMessage`, `getDeviceMessage`, ... | the fields of a datagram come back out whole |
| **RabbitMQ** (external) | queued messages | publish, deliver, acknowledge, redeliver | modelled as the routes use it |
| **Cumulocity and its operator** (external) | registration requests, users, objects, measurements | poll, create, store; register, accept, delete | modelled as the handler sees it |
| **The network** (external) | datagrams on their way, address bindings | loss, duplication, reordering, rebinding | modelled as the code must survive it |
| Agent start-up, watchdog, deployment scripts | | | not modelled: no state that the others depend on beyond what `RestartAgent` and `Setup` say |

How they interact. Sketch and agent exchange datagrams only: uplink "IMEI,
token, 14 bytes of readings", downlink "token" or the reset "\n". Inside the
agent, route 1 (decoder) publishes to the measurement or the register queue,
routes 2 and 3 call the handler and publish its answer to the credentials
queue, route 4 (encoder) sends it. Handler and Cumulocity exchange HTTP calls,
each of which can be refused, fail before it takes effect or after. The
operator registers, accepts and deletes devices by hand. The sketch calls the
modem driver, and reads the air quality sensor that a timer interrupt feeds.

What is hard: 30 consumers per queue and 100 threads handle one device's
messages concurrently; messages are redelivered after a restart; UDP loses,
duplicates and reorders; a call to Cumulocity can fail between two steps of a
handler; the reply is addressed to where a datagram came from, which may have
changed hands; the token in a queued message may be stale; `ctx` is a plain
static field that another thread spins on; power may fail between two bytes of
a token; `millis()` wraps. `PROJECT.json` lists these hazards by line and the
properties that cover them.

## 2. Plan

Modules, in order of importance; all of them are in this directory.

1. `Credentials` (vocabulary), `Cumulocity`, `Network`, `Agent`, `Node`,
   composed in `NbIotSystem`: the life of a token from registration to reset.
2. `Enrollment`, the abstract promise, implemented by `NbIotSystem`.
3. `NodeStore`, the token byte by byte under power failures; `Datagram`, what
   the sketch writes and `DataPacket` reads, byte by byte; `TokenPath`, the two
   composed; `LoopTimer`, the wrapping send timer.
4. `Modem` (external) and `Driver`: `readResponse`, late answers, the count of
   pending bytes, `connect` with its retries, `loop`.
5. `AirQuality`: the timer interrupt against `slope`, the 16-bit sum.
6. `Readings`, `Builders` and `NodeLoop`, which composes them with `LoopTimer`:
   from a sensor to the agent's measurement, and what else the SDK can send.

Each component that is more than vocabulary has a module of theorems beside it
(`...Proofs`), which section 6 describes: every safety property of the passing
runs is a theorem. Worth adding: that `NodeStore` between two writes does what
`NbIotSystem` takes for one step, stated as a refinement, and an abstract
specification of what the sketch relies on in the driver.

## 3. Modules and their correspondence to the code

`Credentials` names devices by IMEI, passwords, object identifiers and
"ip, port" addresses. A token is the pair (password, identifier); the reset
is `Blank`.

`Cumulocity` (external): `request` is the registration request of a device,
`password` the password its user has now, `issuedTo` and `objectOf` the books
the properties consult, `measurements` what was stored under which object.
The constant `CredentialsOnce` leaves open whether the platform answers a
second poll of the same accepted request: both are checked.

`Network` (external): a set of datagrams each way. An arrival may leave the
datagram under way (duplication); a set has no order (reordering); `Lose...`
drops one. At most `MaxInFlight` are under way in a direction: one sent into a
full network is lost, which is a behaviour UDP has anyway.

`Agent`: `broker` maps slots to queued messages, each with the stage its
consumer has reached (`ready`, `polled`, `replying`, `spinning`, `settled`)
and the consumer's local result. `Inbound` slots hold the measurement and
register queues together, `Outbound` slots the credentials queue. Every call
of the handler that the outside can see is an action of its own:
`PollCredentials`, `PollOutage`, `CreateObject`, `CreateFails`,
`PushMeasurement`, `PushFails`; the code between two calls belongs to the
action of the first. A failed call may have taken effect (the answer was
lost). `PublishReply` is `removeHeaders` and the publish at the end of routes
2 and 3, `Acknowledge` the broker's `basicAck` with `autoAck=false`.
`Receive` is the decoder (which sets `ctx`) and route 1. `Encode` sends,
`Spin` enters the loop that waits for `ctx`. `RestartAgent` forgets `ctx` and
every consumer's progress and puts each unacknowledged message back.

`Node`: `stored` is the token, `inbox` the datagrams in the modem's buffer,
`home` the address the node is seen under. `LoopReceiving` is an iteration of
`loop` that finds pending bytes: it stores the token and sends under the new
one. `LoopIdle` finds none (also when the modem has not announced them yet).
`Setup` is power-up or `resetFunc`; `Rebind` gives addresses out anew. The
readings themselves are not modelled there: who sent them and under which token is
what the properties are about.

`NbIotSystem` composes these and counts removals, restarts and rebinds, so
that TLC can bound them. `MCNbIotSystem` adds the symmetry sets.

`Enrollment` is the abstract specification: issue a password, create an
object, learn credentials, forget them, record a reading. `NbIotSystem`
instantiates it with `held <- stored`, `readings <- measurements`,
`Once <- CredentialsOnce` and `Private <- (MaxRebinds = 0)`: with one-time
passwords an object is created at most once for a password, and where
addresses last a device learns only its own credentials.

`NodeStore`: `eeprom` cell by cell, `writing`/`next` the loop of `writePW`,
`token` the static buffer of `readPW`, `before` a history of the token held
when the text came in. `PowerFails` may happen between any two bytes. In
`NbIotSystem` a token is stored in one step; `NodeStore` is where that step is
taken apart.

`Datagram` is a module of operators: `Payload` is what `sendPayload` prints,
`ExtractData` with `NextNewLine` is the constructor of `DataPacket`,
`ExtractFails` says when its byte loop would index an empty array, `Route` is
the filter and choice of route 1. A byte is a member of an arbitrary set of
which only newline and `'\0'` are told apart; decoding bytes that are no
characters (an unused EEPROM cell) may change them, but neither their number
nor whether they are there, which is all that is asked of them.

`TokenPath` lets the node of `NodeStore` send: `Send` takes whatever token its
EEPROM left it with, whole or torn, and readings that may hold newlines;
`sent` and `packet` are both ends of the last packet.

`LoopTimer`: `now` is `millis()`, `sendNextAt` as in the sketch, both modulo
`Period`; `lastSend` and `elapsed` record the true distance to the last packet.

`Modem` (external) is the module behind the serial line: `cmds` it has not
worked off, `lines` the node has not read, `rx` its datagrams. It answers in
order but as late as it likes (`MaxLate` answers come after the driver has
given up), refuses up to `MaxRefusals` commands, and hears nothing while it
boots. `Driver` is the sketch's side: `pc` is the command whose answer
`readResponse` waits for, and there is an action for each function of
`ATT_NBIOT.cpp` that asks for one. `Collects` is a line that does not end
`readResponse`, `Returns` one that does, or a timeout; `Outcome` says which,
`Accepted` what the parsers take. `applyParam` starts with any content, like
the array in the code. `pending` and `amount` are 16-bit numbers modulo
`Wrap`. `forceOperator` of `connect` is not initialised either; both forms of
`AT+COPS` it chooses from are one command here, which the modem may refuse.
`PurgeAllResponsesRead` reads on after an answer (`PurgesOn`) or ends: on a
second of quiet, or after any answer when its two seconds have passed. Either
way lines may stay unread and commands unanswered. Assumed of the line and the
module: no line is lost alone, the module announces each datagram once, and it
does not reboot by itself.

`AirQuality` takes `slope` apart into its reads (`at` is the condition that is
next); `Meanwhile` lets the interrupt fall into one, which then sees bytes of the
old and of the new voltage (`Between`). A reading comes every two seconds, so
at most one falls into a call. `latest`, `previous`, `sum`, `disturbed` and
`judged` are histories; `judged` says that a call has compared the latest
reading, or one has come where it may have (`Comparing`). `int` is modulo
`Word`.

`Readings` holds pure operators: the average of two temperature sensors, the
sketch's `packet` with its 16-bit and 8-bit conversions, `createMeasurement`.
Temperatures are in hundredths of a degree; rounding of floating-point numbers
is left out. `Builders` holds those of the SDK's builders and send functions:
what is added if there is room (`Add` for a `PayloadBuilder`, `Put`, `PutPair`
and `PutGPS` for a `CborBuilder`), the CBOR encoding (`ItemHead`, `ItemBody`),
the digits for the modem, and `ItemAt`, a reader of CBOR that knows nothing of
the builder. A builder is a record: `bytes` is the code's buffer up to its
offset, `items` and `full` are a history of what was put in, where, and whether
there was room for all of it. `NodeLoop` puts them into the iterations of
`LoopTimer`: `SendPacket` reads the sensors, packs and sends; `AddValue`,
`AddEntry`, `AddGPS`, `AddMap`, `Reset`, `SendBuffer` and `SendText` are the
ways of an application that uses the SDK instead (`sender` says which); `Hangs`
is a buffer longer than the byte that counts it; `Overruns` is `send()` of a
`PayloadBuilder` with more bytes than the array they are copied to (`SendSize`),
of which nothing is known afterwards; `Loosens` takes the BMP085 off its wires.
The SHT2x is read twice, and either read may fail without the other. `LoopAssumption` says what can be measured and added: readings in
the ranges of the sensors, strings no longer and numbers no larger than 32-bit
integers.

The definitions on a line with, or after, the word "mutant" are faulty
variants of the definition that follows them: each one is what a plausible
slip in the code would look like, and violates the property `PROJECT.json`
pairs it with. No specification uses them.

## 4. Runs

| Run | Instance | Shows |
|---|---|---|
| `consumers` | 1 node, 2 inbound slots, 2 passwords, 2 objects, 1 removal, 1 restart | concurrent and redelivered handling of one device's messages keeps types, queues, authentic credentials, one object per password, and implements `Enrollment` |
| `rebinding` | 2 nodes, 2 addresses, 1 rebind, 1 inbound slot | a reply may reach the wrong node, yet no measurement lies under a foreign object |
| `fixed_addresses` | 2 nodes, no rebind, 1 removal, every poll answered | a node only ever holds its own credentials; implements `Enrollment` with `Private` |
| `recovery` | 1 node, fair, 1 removal | a refused token is dropped in the end; every message is acknowledged |
| `outage_reset` | violation | a reset answers any SDK exception, not only a refusal |
| `lost_password` | violation | a fetched password is dropped when create fails |
| `encoder_wait` | violation | the wait for `ctx` need not end |
| `token_path` | 8 cells, 5 read, 4 texts, 2 failures, 4 readings | what is stored is read back; a cut-short write leaves new beginning and old rest; the agent measures exactly the packets of whole tokens; no node is left without an answer |
| `driver` | 1 parameter, datagrams of 2 and 3 bytes, 2 arrivals, 1 refusal, 1 late answer, purges that end at any point, 16-bit numbers as 4-bit ones | a connection is what it seems and comes about in the end; pending bytes are there; tokens are read whole and all of them, unless datagrams overlap |
| `driver_config` | violation | a connected modem need not be configured |
| `sensing` | voltages 5, 300, 700, 900; 2 readings to a mean | undisturbed verdicts are right but at 700; no call begins with a reading an earlier one judged; the standard is the mean unless the sum overflows |
| `node_loop` | clock of 10, interval 3; buffers of 8 and 13 bytes, 7 for `send()`; readings at the ends of their ranges | add calls within their buffers, readable CBOR, whole frames, faithful measurements, true temperatures; packets too close only after a wrapped sum; the sketch sends unless the sum is the last number |

Why the bounds are enough. Two consumers, or one and its redelivery, are what
it takes for a poll, a create or a reply to interleave with itself; two
passwords and two objects let an old and a new credential coexist (removal and
re-registration) and be mixed up if the code let them; two nodes and two
addresses are a swap. One datagram each way is enough to be lost and
duplicated; overtaking arises between
the slots of the broker in every run, and section 6 proves
`AuthenticCredentials` and `OwnCredentials` for any number of datagrams under
way. In `rebinding` the removals are 0 and one
object is shared out, because the interesting race is one reply and one swap.
A clock of 10 with an interval of 3 passes through every phase relation
between clock and sum; the texts of `token_path` are shorter than, as long as,
and longer than what `readPW` copies, and readings of two bytes hold a newline
in neither, either or both. Two datagrams are what it takes for one
announcement to overwrite another, one late answer to be taken for the next
command's, and one refusal hits any command of `connect`; a byte that counts
to 5 and numbers of 4 bits keep the relation of byte, buffer and `int`. In
`AirQuality` the four voltages lie in every region of `slope` and of `init`,
300 and 700 differ in both bytes and are 400 apart, and two readings of 700 or
900 overflow an `int` of 11 bits. The entries of `node_loop` lie on both sides
of each change of the encoding (23/24, 255/256, 65535/65536, negative ones),
and three of them fill the buffer. A `SendSize` below `MaxSize` lets `send()`
copy what fits and what does not. A position never fits 13 bytes, so TLC sees
`addGPS` overflow; that it reads back where there is room is left to the
theorem. The bounds `MaxInFlight`,
`MaxRemovals`, `MaxRestarts`, `MaxRebinds`, `MaxFailures`, `MaxSend` and the
sizes of `Password`, `ObjectId`, `Inbound`, `Outbound`, `Texts`, `Readings`,
`Param`, `Length`, `MaxRefusals`, `MaxArrivals`, `MaxLate`, `MaxAlive`,
`MaxPolls`, `SendSize`, `Volts`, `Samples`, `Duty`, `Worlds`, `Garbage`, `Names`, `Entries`,
`MapSizes`, `Fixes`, `Values` and `Messages` are the only ones. The proofs of section 6 do without any.

`CHECK_DEADLOCK` is left on everywhere: a node can always loop.

The properties of `NbIotSystem` and `Enrollment` are about whole tokens, each
stored in one step. Cut, padded and torn ones are the subject of `Driver`,
`NodeStore` and `TokenPath`.

Answers may come late in three ways. To `AT`, which `on` repeats: the first purge
cannot leave any of them, because a modem that boots hears no `AT` and the first
answer read is its own boot message; the second one can, when more than one is
outstanding and its two seconds are over. Each `OK` is then taken for that of a
later command, but no later than at the socket a line comes that the command
waited for cannot take, and `connect` fails (`ConnectedIndeed`, and `Behind` in
section 6). To a poll of signal or attachment: the report tells them apart. And to a command
whose result the code ignores (`setNconfigParam`, `sendPayload`, a receive in
`loop`): from then on each answer is taken for that of the next command, and
nothing in the code notices. `shifted` marks this third way only, and the
properties of `Driver` set it aside. `StoredIsWhole` and `AllIsRead` set
aside datagrams that overlap in the modem: the last announcement overwrites
the others, so a token may be cut or one may stay unread until the next
arrival. `VerdictIsRight` sets aside 700 itself, which `f > 700` and `f < 700`
both miss, and `StandardIsMean` sums that overflow: on the board 150 readings
above 218 do.

`NoNodeIsIgnored` is stated for passwords of one length (the devices of
`UdpConsumerTest.java` have ten-character ones) and for readings without a newline. Both are needed: a torn
token of two passwords of different lengths may hold two newlines, and a
newline among the readings of a node with an unused EEPROM ends a field where
no field was written; in both cases the packet is neither a measurement nor a
registration and route 1 drops it. The second case passes with the next
readings.

### Findings

* `outage_reset`: `CumulocityHandler.java:157` returns the reset for every
  `SDKException`, while its javadoc (line 126) speaks of a failed
  authentication. A node with good credentials is made to register again by an
  unreachable platform; if the operator does not accept it again it stays
  silent.
* `lost_password`: the one `catch` of `registerDevice` drops a password that
  was already fetched when creating the object fails, while the javadoc
  (lines 71-75) promises the credentials once the password is available.
* `encoder_wait`: `while (ctx == null);` at `NBiotPacketEncoder.java:48` reads
  a static field that is neither volatile nor locked. The language lets the
  loop never see the decoder's write, so leaving it is possible but not fair.
* `driver_config`: `applyParam` (`ATT_NBIOT.cpp:302`) is not initialised and
  the parser only ever sets entries to true; a parameter whose entry happens to
  be true is not set, although connecting promises "3. Apply configuration".

Besides: `PayloadBuilder::send` copies up to 60 bytes, the size its constructor
takes by default, into `sendBuffer[51]` (`PayloadBuilder.cpp:32` and 75,
`PayloadBuilder.h:134`), which `Overruns` models and no property excludes, and
which `SmallBuilderFits` rules out for builders no larger than `sendBuffer`; a
reading that comes within `avgVoltage` of a polluted branch
(`AirQuality.cpp:95-96`) may be added to the standard there and is again by the
next `slope`; `sendNextAt < millis()` can never hold when the sum of
`NB-IoT_node.ino:170` is the largest `unsigned long` (`SendsAgainUnlessLast`
sets this aside); the wait of 300 ms in `Sodaq_SHT2x.cpp:100` ends at once,
because a difference of unsigned numbers is above 0 (`GetTemperature` models a
late answer as none); `AirQuality::init` takes its second voltage from pin A0,
where the light sensor is, and not from its own; an absent BMP085 that never
was calibrated counts as 0 degrees in the average; the result of `sendPayload`
is ignored and the sketch never reconnects; and the private 64-bit writer of
`CborBuilder.cpp:186` loses a byte of values between 256 and 65535, but nothing
calls it.

## 5. Fairness

`FairSpec` assumes: a node's loop goes on (`WF` of `LoopIdle`: the Arduino
core calls `loop` for ever); a datagram that is buffered is read in the end
(`SF`: the count of pending bytes is set when the modem's announcement is
parsed, which any later AT command does, but an iteration in between may find
none); if a node or the agent is sent datagrams again and again, one arrives
(`SF` of an arrival that is the last of its duplicates: a network that
delivers nothing is no network); consumers and acknowledgements go on (`WF`:
Camel's threads), and a consumer waiting for room in the credentials queue
gets it (`SF`: the room is an artefact of the bound). Not assumed: anything of the operator,
of losses, of restarts, of calls to Cumulocity succeeding, or of a spinning
encoder ever leaving its loop. `NodeLoop` assumes `WF` of its iterations that
send nothing, of the hung ones among them, so that time passes; and `WF` of
`SendPacket`, because an iteration that finds the clock past `sendNextAt` sends.
`SendsAgainUnlessLast` is of the sketch's sender only: an application that hangs
in `sendCbor` or overruns `sendBuffer` never sends again. `Driver`'s `FairSpec` assumes `WF` of the driver's steps
(the timeouts of `readResponse` bound each wait) and of the modem's, and for
`Connects` and `AllIsRead` that on ever new attempts the modem boots in time, before and after
`reboot`, and that its reports of signal and attachment are good ones
(`SF`: without coverage no node connects). Refusals and late answers are
bounded, as they must be for a retry to succeed.

## 6. What is proved

All for arbitrary constants that meet the named assumptions (`NullAssumption`:
the null values are not members; `SlotAssumption`: the two kinds of slots are
disjoint; bounds are naturals; `CredentialsOnce` is a Boolean).

* `NbIotSystemProofs`. `TypeOK` alone is not inductive: a handler indexes the
  fields of its message, so types need `QueuesCarryTheirMessages`, and
  together they are `TypeInv`. `AuthenticCredentials` and
  `MeasurementsUnderOwnObject` need in addition that the platform keeps its
  books (`BooksOK`: a user's password was issued to that user, an object was
  created with a password of its owner). Their conjunction `Inv` is inductive:
  tokens only come from `CreateObject`, which pairs a password its device
  just authenticated with, with the object it made; every other action
  copies tokens whole; and the set of genuine tokens only grows, because a
  password is issued once and an object created once. A measurement is stored
  after authentication with the token's password, which was issued to exactly
  one device. Hence `TypeCorrect`, `QueuesCorrect`, `CredentialsAuthentic`,
  `MeasurementsOwned`.
* `EnrollmentProofs`. `SingleObject` rests on `Reserved`: a password that may
  still lead to an object is held by one accepted request or one consumer,
  never both, and has no object yet. `CredentialsOwn` rests on `Addressed`:
  with lasting addresses, a reply at any place is for the node at its address.
  `Refinement` uses all three invariants to map every step to a step of
  `Enrollment` or a stutter.
* `NodeStoreProofs`. `TypeOK` (`StoreTypeCorrect`) keeps the index within the
  text. `CellsOK` relates the cells to the text being written and
  the token held before; from it follow that a restart keeps the token, that
  a stored text is what is read, what an interrupted write leaves, and that an
  interrupted reset never leaves a part of the old token in charge.
* `TokenPathProofs`. The identifier of a device holds no newline, so the
  parser cuts it off (`ImeiIsCutOff`); the newline behind the token ends the
  second field at the latest, so bytes are left (`TokenIsCutOff`). For
  `OnlyWholeTokensMeasured` the two newlines the parser finds lie `k` and `n`
  bytes apart, and the rest has the length of the readings only if
  `k + n` is the position behind the token: the token's one newline is at `k`.
  The least member of a set of numbers (`LeastNumber`, from the library's
  well-foundedness of `<`) stands in for the loop's induction.
  `NodesAnswered` (`NoNodeIsIgnored`) needs an invariant of the EEPROM: if the
  texts hold their newline at one position `k`, then so do the cells, the token
  read from them and the token last sent, but for the first byte, where a reset
  leaves one. A write replaces a byte by one of its own position, so mixtures
  of tokens keep this (`AlikeOK`), and a packet under such a token either
  registers the node or holds a whole token (`AnsweredToken`).
* `LoopTimerProofs`. While the interval runs and the sum did not wrap, clock
  and `sendNextAt` are where they seem: packets keep their distance.
* `AirQualityProofs`. The inductive invariant says that the total is `temp`
  while it fits an `int`, that a call of `slope` that begins with the flag set finds a reading no
  call has compared (`judged`: the flag is taken back on every path, and after the
  comparisons), that the voltages are the last two readings,
  and that at each place of `slope` the conditions before it were false of
  them unless a reading fell in between (`VerdictOK`). The types of a torn
  voltage and the range of a quotient are arithmetic lemmas. From it follow
  `AirTypeCorrect`, `VerdictCorrect`, `ReadingJudgedOnce` and
  `StandardCorrect`, for any set of voltages of ten bits, any number of samples
  and any width of `int`.
* `DriverProofs`. `TypeInv` holds whatever happens: the retries stay below
  their limits, what a parser has accepted is of its kind, and the socket is
  asked for once. The rest holds until a late answer is taken for that of a
  command whose result is ignored (`~shifted => Orderly \/ Behind`), stage by
  stage:
  while the driver tries to wake the modem only `AT` is under way
  (`Quieting`); then one command is, and its answer ends with the one line that
  says whether it was obeyed (`OneByOne`); an answer to a poll with a report is
  never taken for one without (`Polling`); and from the socket on, each count
  and each announcement is backed by a datagram the modem holds (`Counted`,
  `Announces`), or lags by the bytes that were handed over and not yet
  subtracted (`HandedOver`, `Lags`). After a purge cut short the driver is `Behind`
  instead: a final line is always there, or on its way, before the one of the
  command it waits for (`Overdue`), so what it reads ends an earlier command;
  `AT+CGATT?` may find its own report (`Attached`), but `AT+NSOCR` finds no
  socket number (`Unopened`) and fails. `Behind` is reached from the second purge
  only: `Starting` says that nothing is left behind the first, and `Closed` that
  the modem never stops within an answer. The proof has a lemma for each kind of
  step (the modem answers, restarts, boots, is sent a datagram; the driver asks,
  collects, returns) and each stage. From it follow `TypeCorrect`,
  `ConnectedCorrect`, `PendingCorrect`, `StoredCorrect` and `CopyCorrect` for
  any lengths and numbers of datagrams, refusals and late answers, with only
  `2 * ByteRange <= Wrap` asked of the widths (a byte is shorter than an `int`)
  and datagrams whose length fits a byte, as the agent's tokens do.
* `NodeLoopProofs`. `LoopInv` is the timer's invariant; a builder in order
  (`BuilderOK`: it stays within its memory, and as long as there was room its
  items stand one behind the other from the first byte to the last, `Laid`);
  and a frame made of the data, made of the sample (`SentInv`). That a new item
  leaves the earlier ones where they are is `LaidOn`; that an item that stands
  somewhere is what a reader finds there is `ItemRead`, which rests on the
  four forms of a head (`Heads`, `ArgumentRead`) and the arithmetic of bytes
  (`FourBytes`, `TwoBytes`). `PacketRead` shows that `createMeasurement` undoes
  the packing for every reading: the temperature is cut to a signed number of
  16 bits and read as an unsigned one (`Cut`). `Warmth` is the average of the
  two temperatures. `SmallBuilderFits` rests on the types alone: a builder never
  outgrows `MaxSize`, so with `MaxSize <= SendSize` `send()` copies no more than
  fits. Hence `LoopTypeCorrect`, `BufferCorrect`, `CborCorrect`,
  `FrameCorrect`, `MeasurementCorrect`, `TemperatureCorrect` and, with the
  timer's invariant, `SpacingKept` for the loop with all its senders.

The lemmas of the digits (`DigitsAre`, `BytesBack`) and of sequences
(`PutBytesFits`, `Standing`) hold for strings of any length without an
induction, because the operators they are about are written as functions of the
index and not as recursions.

Every invariant and every safety property that a passing run checks is a
theorem, except that `EveryMessageIsAcknowledged`, `StaleTokenIsDropped`
(`recovery`), `AllIsRead` and `Connects` (`driver`) and `SendsAgainUnlessLast`
(`node_loop`) are liveness properties, which need fairness: liveness and
`ENABLED` are outside the prover's reach, and TLC alone checks them. The
violations are TLC's counterexamples.

## 7. Not modelled, and why

Of the driver: the R4XX variant of the module, `disconnect`, `off`,
`waitForUDPResponse`, the count of sent messages and the characters of AT
commands and lines: the sketch calls none of them, and lines are told apart by
what their parsers take. Of the sensors: I2C, the formulas of the BMP085 and its
pressure, which are arithmetic without control. The text of the queue messages (`ip`, `port`
and the fields, joined and split at newlines) is modelled as a record: its
fields hold no newline, because each was cut off at one. Logging, HTTP and AT syntax are abstracted: no property here is about them.
The lazy creation of the bootstrap platform is left out: two instances behave
alike. `SDKException` is the only failure of a call that is modelled, because
it is the only one the handler catches. Start-up, watchdog and deployment keep
no state the other parts read.
