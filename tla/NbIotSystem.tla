---------------------------- MODULE NbIotSystem ----------------------------
(***************************************************************************)
(* The whole demo: nodes, network, agent with its broker, and Cumulocity.  *)
(* Every step is one step of one part.  Removals of a device, restarts of  *)
(* the agent and changes of address are counted, so that TLC can bound     *)
(* them.                                                                   *)
(***************************************************************************)
EXTENDS Agent, Node

CONSTANTS
    MaxRemovals,    \* devices the operator removes
    MaxRestarts,    \* restarts of the agent
    MaxRebinds      \* rounds of new addresses for the nodes

ASSUME BoundAssumption ==
    MaxRemovals \in Nat /\ MaxRestarts \in Nat /\ MaxRebinds \in Nat

VARIABLES removals, restarts, rebinds

faultVars == <<removals, restarts, rebinds>>
vars == <<c8yVars, netVars, agentVars, nodeVars, faultVars>>

Init ==
    /\ C8yInit
    /\ NetInit
    /\ AgentInit
    /\ NodeInit
    /\ removals = 0
    /\ restarts = 0
    /\ rebinds = 0

-----------------------------------------------------------------------------
Operator(d) ==
    /\ RegisterDevice(d) \/ AcceptDevice(d)
    /\ UNCHANGED <<netVars, agentVars, nodeVars, faultVars>>
OperatorRemoves(d) ==
    /\ removals < MaxRemovals
    /\ removals' = removals + 1
    /\ RemoveDevice(d)
    /\ UNCHANGED <<netVars, agentVars, nodeVars, restarts, rebinds>>

NodeReceives(d, t) ==
    LoopReceiving(d, t) /\ UNCHANGED <<c8yVars, agentVars, faultVars>>
NodeIdles(d) ==
    LoopIdle(d) /\ UNCHANGED <<c8yVars, agentVars, faultVars>>
NodeRestarts(d) ==
    Setup(d) /\ UNCHANGED <<c8yVars, agentVars, faultVars>>

Lose ==
    /\ LoseUplink \/ LoseDownlink
    /\ UNCHANGED <<c8yVars, agentVars, nodeVars, faultVars>>
Arrive(d, r) ==
    Deliver(d, r) /\ UNCHANGED <<c8yVars, agentVars, faultVars>>

Route1(p, s) ==
    Receive(p, s) /\ UNCHANGED <<nodeVars, faultVars>>
Route1Fails(p) ==
    ReceiveUnpublished(p) /\ UNCHANGED <<nodeVars, faultVars>>

Route2(s) ==
    /\ PushMeasurement(s) \/ PushFails(s)
    /\ UNCHANGED <<nodeVars, faultVars>>

Route3(s) ==
    /\ \/ PollCredentials(s)
       \/ PollOutage(s)
       \/ \E i \in ObjectId : CreateObject(s, i)
       \/ CreateFails(s)
    /\ UNCHANGED <<nodeVars, faultVars>>

Reply(s, o) ==
    PublishReply(s, o) /\ UNCHANGED <<nodeVars, faultVars>>
Ack(s) ==
    Acknowledge(s) /\ UNCHANGED <<nodeVars, faultVars>>

Route4(s) ==
    Encode(s) /\ UNCHANGED <<nodeVars, faultVars>>
Route4Spins(s) ==
    Spin(s) /\ UNCHANGED <<nodeVars, faultVars>>

AgentRestarts ==
    /\ restarts < MaxRestarts
    /\ restarts' = restarts + 1
    /\ RestartAgent
    /\ UNCHANGED <<nodeVars, removals, rebinds>>

AddressesChange ==
    /\ rebinds < MaxRebinds
    /\ rebinds' = rebinds + 1
    /\ Rebind
    /\ UNCHANGED <<c8yVars, agentVars, removals, restarts>>

Next ==
    \/ \E d \in Device : Operator(d)
    \/ \E d \in Device : OperatorRemoves(d)
    \/ \E d \in Device, t \in Token : NodeReceives(d, t)
    \/ \E d \in Device : NodeIdles(d)
    \/ \E d \in Device : NodeRestarts(d)
    \/ Lose
    \/ \E d \in Device, r \in toNode : Arrive(d, r)
    \/ \E p \in toAgent, s \in Inbound : Route1(p, s)
    \/ \E p \in toAgent : Route1Fails(p)
    \/ \E s \in Inbound : Route2(s)
    \/ \E s \in Inbound : Route3(s)
    \/ \E s \in Inbound, o \in Outbound : Reply(s, o)
    \/ \E s \in Slot : Ack(s)
    \/ \E s \in Outbound : Route4(s)
    \/ \E s \in Outbound : Route4Spins(s)
    \/ AgentRestarts
    \/ AddressesChange

Spec == Init /\ [][Next]_vars

-----------------------------------------------------------------------------
TypeOK ==
    /\ C8yTypeOK
    /\ NetTypeOK
    /\ AgentTypeOK
    /\ NodeTypeOK
    /\ removals \in 0 .. MaxRemovals
    /\ restarts \in 0 .. MaxRestarts
    /\ rebinds \in 0 .. MaxRebinds

(* The tokens pollCredentials and the inventory together vouch for: the object
   was created with the password, by the device the password was issued to. *)
Genuine ==
    {t \in [pw : Password, id : ObjectId] :
        objectOf[t.id] = [dev |-> issuedTo[t.pw], pw |-> t.pw]}

Authentic == {Blank} \cup Genuine

(* Every token that is under way or kept anywhere is a reset or a pair of a
   password and an object that belong together: no interleaving of handlers,
   redelivery, loss or late datagram mixes the halves of two credentials
   (CumulocityHandler.java:114, DataPacket.java:51-84, NB-IoT_node.ino:96). *)
AuthenticCredentials ==
    /\ \A d \in Device : stored[d] \in Authentic /\ inbox[d] \subseteq Authentic
    /\ \A r \in toNode : r.tok \in Authentic
    /\ \A p \in toAgent : p.tok \in Authentic
    /\ \A s \in Slot :
          /\ broker[s].tok \in Authentic
          /\ broker[s].stage = "replying" => broker[s].result \in Authentic

(* A stored measurement lies under an object of the device that measured it,
   even when a node was handed the credentials of another one because the
   address it was sent to had changed hands (CumulocityHandler.java:152). *)
MeasurementsUnderOwnObject ==
    \A m \in measurements : objectOf[m.id].dev = m.dev

(* When a password is handed out once, redelivered and concurrent register
   messages never create a second object for it (CumulocityHandler.java:94,
   111): the readings of a device are not spread over duplicates. *)
OneObjectPerPassword ==
    \A i, j \in ObjectId :
        objectOf[i].pw = objectOf[j].pw /\ i # j => objectOf[i] = NoOwner

(* A queue holds only messages with the fields its consumer indexes, and each
   knows the address its answer goes to; a reply never comes back to the queue its route reads ("prevent sending also to
   inboundQueue", AgentRouter.java:47 and 55). *)
QueuesCarryTheirMessages ==
    \A s \in Slot :
        LET m == broker[s] IN
        /\ m.queue = "measurement" =>
              m.dev \in Device /\ IsMeasurementMessage(m.tok)
        /\ m.queue = "register" => m.dev \in Device /\ m.tok = Blank
        /\ m.queue = "credentials" => m.dev = NoDevice
        /\ m.queue # "none" => m.addr \in Address

(* As long as no node changes its address, a node only ever holds credentials
   issued to itself: a reply finds its way back although it carries nothing
   but an address (NBiotPacketEncoder.java:50-53). *)
OwnCredentials ==
    \A d \in Device :
        stored[d] # Blank => issuedTo[stored[d].pw] = d

-----------------------------------------------------------------------------
(* The abstract view: the platform's books, the tokens in EEPROM and the
   stored measurements. *)
Enrolled ==
    INSTANCE Enrollment WITH
        Once <- CredentialsOnce, Private <- (MaxRebinds = 0),
        held <- stored, readings <- measurements

(* All that loops, routes, redeliveries, losses, restarts and removals do to
   the platform's books and to the nodes' tokens is to enroll devices and to
   record their readings (CumulocityHandler.java:76-163, DataPacket.java:117-
   140, NB-IoT_node.ino:84-172). *)
ImplementsEnrollment == Enrolled!Spec

-----------------------------------------------------------------------------
(* Fairness.  A node's loop, the consumers and acknowledgements go on; the
   network delivers, for the last time, one of the datagrams that are under
   way again and again; a buffered datagram is read in the end; a consumer
   that waits for room in the credentials queue gets it.  Nothing is assumed
   of the operator, of losses, of restarts, of calls to Cumulocity
   succeeding, or of a consumer that spins on ctx. *)
Fairness ==
    /\ \A d \in Device :
          /\ WF_vars(NodeIdles(d))
          /\ SF_vars(\E t \in Token : NodeReceives(d, t))
          /\ SF_vars(\E r \in toNode : Arrive(d, r) /\ r \notin toNode')
    /\ SF_vars(\E p \in toAgent, s \in Inbound :
                   Route1(p, s) /\ p \notin toAgent')
    /\ \A s \in Inbound :
          /\ WF_vars(Route2(s))
          /\ WF_vars(Route3(s))
          /\ SF_vars(\E o \in Outbound : Reply(s, o))
    /\ \A s \in Outbound : WF_vars(broker[s].stage = "ready" /\ Route4(s))
    /\ \A s \in Slot : WF_vars(Ack(s))

FairSpec == Spec /\ Fairness

Stale(d) == stored[d] # Blank /\ password[d] # stored[d].pw

(* A node whose token Cumulocity no longer accepts does not stay with it: its
   packets are refused, the reset is published, encoded, delivered and
   stored.  It is how a removed or re-registered device gets back to
   registering (CumulocityHandler.java:157-160, NB-IoT_node.ino:96-103). *)
StaleTokenIsDropped == \A d \in Device : Stale(d) ~> ~Stale(d)

(* Every message taken from UDP is worked off and acknowledged, whatever
   Cumulocity answers (AgentRouter.java:43-57). *)
EveryMessageIsAcknowledged ==
    \A s \in Inbound : ~IsFree(s) ~> IsFree(s)

(* What the comment at NBiotPacketEncoder.java:47 expects of the loop below
   it: once a packet has arrived, a waiting reply is sent. *)
WaitEndsWhenPacketArrives ==
    \A s \in Outbound :
        broker[s].stage = "spinning" /\ ctx ~> broker[s].stage # "spinning"

(* What CumulocityHandler.java:126 says of pushMeasurement: the message that
   resets the device answers a failed authentication. *)
ResetOnlyOnAuthFailure ==
    [][\A s \in Inbound :
          At(s, "measurement", "ready") /\ broker'[s].stage = "replying"
          => ~Authenticates(broker[s].dev, broker[s].tok.pw)]_vars

(* What CumulocityHandler.java:71-75 says of registerDevice: once it has the
   password, it returns the string that carries it. *)
PolledPasswordIsReturned ==
    [][\A s \in Inbound :
          broker[s].stage = "polled" /\ broker'[s].stage # "polled"
          => broker'[s].stage = "replying"]_vars
=============================================================================
