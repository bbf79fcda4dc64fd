------------------------------- MODULE Agent -------------------------------
(***************************************************************************)
(* The NB-IoT agent: the four Camel routes of AgentRouter over RabbitMQ.   *)
(*                                                                         *)
(*   route 1   UDP datagram -> measurement queue | register queue          *)
(*   route 2   measurement queue -> pushMeasurement -> credentials queue   *)
(*   route 3   register queue -> registerDevice -> credentials queue       *)
(*   route 4   credentials queue -> encode -> UDP datagram                 *)
(*                                                                         *)
(* A slot of the broker holds one queued message together with the stage   *)
(* its consumer has reached.  Queues have 30 consumers over 100 threads,   *)
(* so nothing orders the messages of a queue.  autoAck is off: a message   *)
(* leaves its slot only when its route is done, and a restart of the agent *)
(* puts every message it was working on back to "ready".                   *)
(***************************************************************************)
EXTENDS Cumulocity, Network

CONSTANTS
    Inbound,    \* slots of the measurement and register queues (a bound)
    Outbound    \* slots of the credentials queue (a bound)

ASSUME SlotAssumption == Inbound \cap Outbound = {}

VARIABLES
    broker,     \* the messages in RabbitMQ and their consumers
    ctx         \* whether NBiotPacketEncoder.ctx has been set

agentVars == <<broker, ctx>>

Slot == Inbound \cup Outbound

Queue == {"none", "measurement", "register", "credentials"}

(* ready     queued, no call made yet
   polled    registerDevice holds the password, no object created yet
   replying  the handler returned a non-empty string
   spinning  encode is in its loop, waiting for ctx
   settled   the route is done, the message not yet acknowledged *)
Stage == {"free", "ready", "polled", "replying", "spinning", "settled"}

(* A queued message (addr, dev, tok) and its consumer's local result. *)
Message ==
    [queue : Queue, stage : Stage,
     addr : Address \cup {NoAddress}, dev : Device \cup {NoDevice},
     tok : Token, result : Token]

FreeSlot ==
    [queue |-> "none", stage |-> "free", addr |-> NoAddress,
     dev |-> NoDevice, tok |-> Blank, result |-> Blank]

Queued(q, a, d, t) ==
    [queue |-> q, stage |-> "ready", addr |-> a, dev |-> d,
     tok |-> t, result |-> Blank]

AgentInit ==
    /\ broker = [s \in Slot |-> FreeSlot]
    /\ ctx = FALSE

IsFree(s) == broker[s].stage = "free"

(* The message of slot s is on queue q and its consumer at stage g. *)
At(s, q, g) == broker[s].queue = q /\ broker[s].stage = g

(* The consumer of slot s goes to stage g, holding the local result r. *)
Advance(s, g, r) ==
    broker' = [broker EXCEPT ![s].stage = g, ![s].result = r]

-----------------------------------------------------------------------------
(* Route 1. *)

IsRegisterMessage(t) == t.pw = NoPassword \/ t.id = NoObject
IsMeasurementMessage(t) == t.pw # NoPassword /\ t.id # NoObject

(* The queue message built from a datagram; the register one has no token. *)
InboundMessage(p) ==
    IF IsMeasurementMessage(p.tok)
    THEN Queued("measurement", p.from, p.dev, p.tok)
    ELSE Queued("register", p.from, p.dev, Blank)

(* The decoder notes ctx for every datagram, then the route publishes. *)
Receive(p, s) ==
    /\ p \in toAgent
    /\ toAgent' \in AfterArrival(toAgent, p)
    /\ ctx' = TRUE
    /\ IsFree(s)
    /\ broker' = [broker EXCEPT ![s] = InboundMessage(p)]
    /\ UNCHANGED <<c8yVars, toNode>>

(* The broker does not take the message: the datagram is gone. *)
ReceiveUnpublished(p) ==
    /\ p \in toAgent
    /\ toAgent' = toAgent \ {p}
    /\ ctx' = TRUE
    /\ UNCHANGED <<c8yVars, broker, toNode>>

-----------------------------------------------------------------------------
(* Route 3: registerDevice. *)

PollCredentials(s) ==
    LET d == broker[s].dev IN
    /\ At(s, "register", "ready")
    /\ \/ PollAnswers(d)
          /\ Advance(s, "polled", [Blank EXCEPT !.pw = password[d]])
       \/ PollRefused(d)
          /\ Advance(s, "settled", Blank)
    /\ UNCHANGED <<ctx, netVars>>

(* The call or its answer is lost on the way: also an SDKException. *)
PollOutage(s) ==
    /\ At(s, "register", "ready")
    /\ PollAnswers(broker[s].dev) \/ UNCHANGED c8yVars
    /\ Advance(s, "settled", Blank)
    /\ UNCHANGED <<ctx, netVars>>

CreateObject(s, i) ==
    LET p == broker[s].result.pw IN
    /\ At(s, "register", "polled")
    /\ InventoryCreates(broker[s].dev, p, i)
    /\ Advance(s, "replying", [pw |-> p, id |-> i])
    /\ UNCHANGED <<ctx, netVars>>

(* Mutant: the handler answers with what it has when create fails. *)
CreateFailsButReplies(s) ==
    /\ At(s, "register", "polled")
    /\ Advance(s, "replying", broker[s].result)
    /\ UNCHANGED <<c8yVars, ctx, netVars>>

(* Mutant: create is called again after an exception. *)
CreateRetries(s) ==
    /\ At(s, "register", "polled")
    /\ \E i \in ObjectId :
          InventoryCreates(broker[s].dev, broker[s].result.pw, i)
    /\ UNCHANGED <<broker, ctx, netVars>>

(* Any SDKException of create ends the handler with "", also when only the
   answer was lost and the object exists. *)
CreateFails(s) ==
    /\ At(s, "register", "polled")
    /\ \/ \E i \in ObjectId :
             InventoryCreates(broker[s].dev, broker[s].result.pw, i)
       \/ UNCHANGED c8yVars
    /\ Advance(s, "settled", Blank)
    /\ UNCHANGED <<ctx, netVars>>

-----------------------------------------------------------------------------
(* Route 2: pushMeasurement. *)

(* Mutant: one platform session is shared by the consumers. *)
PushOnSharedPlatform(s) ==
    /\ At(s, "measurement", "ready")
    /\ \E d \in Device :
          MeasurementStored(d, [broker[s].tok EXCEPT !.pw = password[d]])
    /\ Advance(s, "settled", Blank)
    /\ UNCHANGED <<ctx, netVars>>

PushMeasurement(s) ==
    /\ At(s, "measurement", "ready")
    /\ MeasurementStored(broker[s].dev, broker[s].tok)
    /\ Advance(s, "settled", Blank)
    /\ UNCHANGED <<ctx, netVars>>

(* Mutant: a refused measurement is dropped without an answer. *)
PushFailsSilently(s) ==
    /\ At(s, "measurement", "ready")
    /\ Advance(s, "settled", Blank)
    /\ UNCHANGED <<c8yVars, ctx, netVars>>

(* Any SDKException answers a reset: a refusal, an outage, a lost answer. *)
PushFails(s) ==
    /\ At(s, "measurement", "ready")
    /\ \/ MeasurementStored(broker[s].dev, broker[s].tok)
       \/ UNCHANGED c8yVars
    /\ Advance(s, "replying", Blank)
    /\ UNCHANGED <<ctx, netVars>>

-----------------------------------------------------------------------------
(* The end of routes 2 and 3: removeHeaders, then publish. *)

(* The consumer leaves its queue's routing key in the exchange's headers. *)
HeadersKept(header) == header  \* mutant
RemoveHeaders(header) == "none"

(* A routing key in the headers overrides the endpoint's own. *)
RoutedTo(endpoint, header) == IF header = "none" THEN endpoint ELSE header

PublishReply(s, o) ==
    LET q == RoutedTo("credentials", RemoveHeaders(broker[s].queue)) IN
    /\ At(s, "measurement", "replying") \/ At(s, "register", "replying")
    /\ IsFree(o)
    /\ broker' = [broker EXCEPT
          ![o] = Queued(q, broker[s].addr, NoDevice, broker[s].result),
          ![s].stage = "settled", ![s].result = Blank]
    /\ UNCHANGED <<c8yVars, ctx, netVars>>

Acknowledge(s) ==
    /\ broker[s].stage = "settled"
    /\ broker' = [broker EXCEPT ![s] = FreeSlot]
    /\ UNCHANGED <<c8yVars, ctx, netVars>>

-----------------------------------------------------------------------------
(* Route 4: encode. *)

(* Mutant: the reply goes to the sender of some later datagram. *)
EncodeToLastSender(s) ==
    /\ At(s, "credentials", "ready") \/ At(s, "credentials", "spinning")
    /\ ctx
    /\ \E p \in toAgent :
          toNode' = With(toNode, [to |-> p.from, tok |-> broker[s].tok])
    /\ Advance(s, "settled", Blank)
    /\ UNCHANGED <<c8yVars, ctx, toAgent>>

(* Mutant: the reply is sent and its message kept. *)
EncodeKeepsMessage(s) ==
    /\ At(s, "credentials", "ready") \/ At(s, "credentials", "spinning")
    /\ ctx
    /\ toNode' = With(toNode, [to |-> broker[s].addr, tok |-> broker[s].tok])
    /\ Advance(s, "ready", Blank)
    /\ UNCHANGED <<c8yVars, ctx, toAgent>>

Encode(s) ==
    /\ At(s, "credentials", "ready") \/ At(s, "credentials", "spinning")
    /\ ctx
    /\ toNode' = With(toNode, [to |-> broker[s].addr, tok |-> broker[s].tok])
    /\ Advance(s, "settled", Blank)
    /\ UNCHANGED <<c8yVars, ctx, toAgent>>

(* The loop is entered; ctx is a plain static field, so nothing makes the
   loop see a later write, and leaving it is Encode, without fairness. *)
Spin(s) ==
    /\ At(s, "credentials", "ready")
    /\ ~ctx
    /\ Advance(s, "spinning", Blank)
    /\ UNCHANGED <<c8yVars, ctx, netVars>>

-----------------------------------------------------------------------------
(* The agent process stops and is started again; the broker redelivers. *)
RedeliveredUnacked(m) == [m EXCEPT !.stage = "unacked"]  \* mutant

Redelivered(m) ==
    IF m.stage = "free" THEN m ELSE [m EXCEPT !.stage = "ready", !.result = Blank]

RestartAgent ==
    /\ broker' = [s \in Slot |-> Redelivered(broker[s])]
    /\ ctx' = FALSE
    /\ UNCHANGED <<c8yVars, netVars>>

AgentTypeOK ==
    /\ broker \in [Slot -> Message]
    /\ ctx \in BOOLEAN
=============================================================================
