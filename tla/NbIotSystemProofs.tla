------------------------- MODULE NbIotSystemProofs -------------------------
(***************************************************************************)
(* Theorems about NbIotSystem, for any number of devices, addresses,       *)
(* passwords, objects and slots, and any bounds.                           *)
(***************************************************************************)
EXTENDS NbIotSystem, TLAPS

LEMMA BlankIsToken == Blank \in Token
  BY DEF Blank, Token

LEMMA FreeSlotIsMessage == FreeSlot \in Message
  BY BlankIsToken DEF FreeSlot, Message, Queue, Stage

(* A message as a producer queues it is well typed. *)
LEMMA QueuedType ==
    ASSUME NEW q \in Queue, NEW a \in Address \cup {NoAddress},
           NEW d \in Device \cup {NoDevice}, NEW t \in Token
    PROVE  Queued(q, a, d, t) \in Message
  BY BlankIsToken DEF Queued, Message, Stage

(* What Advance does to the broker: one slot, its stage and result. *)
LEMMA AdvanceLemma ==
    ASSUME AgentTypeOK, NEW s \in Slot, NEW g \in Stage, NEW r \in Token,
           Advance(s, g, r)
    PROVE  /\ broker' \in [Slot -> Message]
           /\ broker'[s].stage = g /\ broker'[s].result = r
           /\ \A x \in Slot \ {s} : broker'[x] = broker[x]
           /\ \A x \in Slot :
                 /\ broker'[x].queue = broker[x].queue
                 /\ broker'[x].addr = broker[x].addr
                 /\ broker'[x].dev = broker[x].dev
                 /\ broker'[x].tok = broker[x].tok
  <1>1. broker \in [Slot -> Message] /\ broker[s] \in Message
    BY DEF AgentTypeOK
  <1>2. [broker[s] EXCEPT !.stage = g, !.result = r] \in Message
    BY <1>1 DEF Message
  <1>3. broker' = [broker EXCEPT ![s] =
                     [broker[s] EXCEPT !.stage = g, !.result = r]]
    BY <1>1 DEF Advance, Message
  <1>4. \A m \in Message :
          LET n == [m EXCEPT !.stage = g, !.result = r]
          IN  /\ n.queue = m.queue /\ n.addr = m.addr /\ n.dev = m.dev
              /\ n.tok = m.tok /\ n.stage = g /\ n.result = r
    BY DEF Message
  <1> QED
    BY <1>1, <1>2, <1>3, <1>4

(* What PublishReply does to the broker: the reply is queued for route 4, the
   message it answers is done with. *)
LEMMA ReplyLemma ==
    ASSUME AgentTypeOK, NEW s \in Inbound, NEW o \in Outbound,
           PublishReply(s, o)
    PROVE  /\ broker' \in [Slot -> Message]
           /\ broker'[o] = Queued("credentials", broker[s].addr, NoDevice,
                                  broker[s].result)
           /\ broker'[s] = [broker[s] EXCEPT !.stage = "settled", !.result = Blank]
           /\ \A x \in Slot \ {s, o} : broker'[x] = broker[x]
  <1> DEFINE q == Queued("credentials", broker[s].addr, NoDevice, broker[s].result)
             m == [broker[s] EXCEPT !.stage = "settled", !.result = Blank]
  <1>1. s \in Slot /\ o \in Slot /\ s # o
    BY SlotAssumption DEF Slot
  <1>2. broker \in [Slot -> Message] /\ broker[s] \in Message
    BY <1>1 DEF AgentTypeOK
  <1>3. q \in Message
    BY <1>2, QueuedType DEF Message, Queue
  <1>4. m \in Message
    BY <1>2, BlankIsToken DEF Message, Stage
  <1>5. RoutedTo("credentials", RemoveHeaders(broker[s].queue)) = "credentials"
    BY DEF RoutedTo, RemoveHeaders
  <1>6. broker' = [[broker EXCEPT ![o] = q] EXCEPT ![s] = m]
    BY <1>1, <1>2, <1>5 DEF PublishReply, Message
  <1> QED
    BY <1>1, <1>2, <1>3, <1>4, <1>6

(* Every answer of Cumulocity and every action of its operator keeps the
   types of the platform's state. *)
LEMMA PlatformType ==
    ASSUME C8yTypeOK, NEW d \in Device
    PROVE  /\ RegisterDevice(d) \/ AcceptDevice(d) \/ RemoveDevice(d)
                => C8yTypeOK'
           /\ PollAnswers(d) \/ PollRefused(d) => C8yTypeOK'
           /\ \A p \in Password \cup {NoPassword}, i \in ObjectId :
                 InventoryCreates(d, p, i) => C8yTypeOK'
           /\ \A t \in Token : MeasurementStored(d, t) => C8yTypeOK'
  <1>1. RegisterDevice(d) => C8yTypeOK'
    BY DEF C8yTypeOK, RegisterDevice, RequestState
  <1>2. AcceptDevice(d) => C8yTypeOK'
    BY DEF C8yTypeOK, AcceptDevice, RequestState
  <1>3. RemoveDevice(d) => C8yTypeOK'
    BY DEF C8yTypeOK, RemoveDevice, RequestState
  <1>4. PollAnswers(d) => C8yTypeOK'
    BY DEF C8yTypeOK, PollAnswers, RequestState
  <1>5. PollRefused(d) => C8yTypeOK'
    BY DEF C8yTypeOK, PollRefused, RequestState
  <1>6. ASSUME NEW p \in Password \cup {NoPassword}, NEW i \in ObjectId,
               InventoryCreates(d, p, i)
        PROVE  C8yTypeOK'
    BY <1>6 DEF C8yTypeOK, InventoryCreates, Owner
  <1>7. ASSUME NEW t \in Token, MeasurementStored(d, t)
        PROVE  C8yTypeOK'
    BY <1>7 DEF C8yTypeOK, MeasurementStored, Token
  <1> QED
    BY <1>1, <1>2, <1>3, <1>4, <1>5, <1>6, <1>7

-----------------------------------------------------------------------------
(* Type correctness rests on what the queues hold: only because a register or
   measurement message names a device does a call made for it stay within
   the types of the platform's state. *)
TypeInv == TypeOK /\ QueuesCarryTheirMessages

(* Every step of the system keeps every variable within its type. *)
LEMMA TypePreserved == TypeInv /\ [Next]_vars => TypeOK'
  <1> SUFFICES ASSUME TypeInv, [Next]_vars
               PROVE  TypeOK'
    OBVIOUS
  <1> USE DEF TypeOK, TypeInv
  <1>1. ASSUME NEW d \in Device, Operator(d) PROVE TypeOK'
    <2>1. C8yTypeOK'
      BY <1>1, PlatformType DEF Operator
    <2> QED
      BY <1>1, <2>1 DEF Operator, netVars, agentVars, nodeVars, faultVars,
           NetTypeOK, AgentTypeOK, NodeTypeOK
  <1>2. ASSUME NEW d \in Device, OperatorRemoves(d) PROVE TypeOK'
    <2>1. C8yTypeOK'
      BY <1>2, PlatformType DEF OperatorRemoves
    <2>2. removals' \in 0 .. MaxRemovals
      BY <1>2, BoundAssumption DEF OperatorRemoves
    <2> QED
      BY <1>2, <2>1, <2>2 DEF OperatorRemoves, netVars, agentVars, nodeVars,
           NetTypeOK, AgentTypeOK, NodeTypeOK
  <1>3. ASSUME NEW d \in Device, NEW t \in Token, NodeReceives(d, t) PROVE TypeOK'
    <2>1. [from |-> home[d], dev |-> d, tok |-> t] \in Uplink
      BY DEF NodeTypeOK, Uplink
    <2>2. toAgent' \in SUBSET Uplink
      BY <1>3, <2>1 DEF NodeReceives, LoopReceiving, SendPayload, With, NetTypeOK
    <2>3. NodeTypeOK'
      BY <1>3 DEF NodeReceives, LoopReceiving, NodeTypeOK
    <2> QED
      BY <1>3, <2>2, <2>3 DEF NodeReceives, LoopReceiving, c8yVars, agentVars,
           faultVars, C8yTypeOK, NetTypeOK, AgentTypeOK
  <1>4. ASSUME NEW d \in Device, NodeIdles(d) PROVE TypeOK'
    <2>1. [from |-> home[d], dev |-> d, tok |-> stored[d]] \in Uplink
      BY DEF NodeTypeOK, Uplink
    <2>2. toAgent' \in SUBSET Uplink
      BY <1>4, <2>1 DEF NodeIdles, LoopIdle, SendPayload, With, NetTypeOK
    <2> QED
      BY <1>4, <2>2 DEF NodeIdles, LoopIdle, c8yVars, agentVars, faultVars,
           C8yTypeOK, NetTypeOK, AgentTypeOK, NodeTypeOK
  <1>5. ASSUME NEW d \in Device, NodeRestarts(d) PROVE TypeOK'
    BY <1>5 DEF NodeRestarts, Setup, c8yVars, agentVars, faultVars, netVars,
         C8yTypeOK, NetTypeOK, AgentTypeOK, NodeTypeOK
  <1>6. ASSUME Lose PROVE TypeOK'
    BY <1>6 DEF Lose, LoseUplink, LoseDownlink, c8yVars, agentVars, nodeVars,
         faultVars, C8yTypeOK, NetTypeOK, AgentTypeOK, NodeTypeOK
  <1>7. ASSUME NEW d \in Device, NEW r \in toNode, Arrive(d, r) PROVE TypeOK'
    <2>1. r \in Downlink /\ r.tok \in Token
      BY DEF NetTypeOK, Downlink
    <2>2. toNode' \in SUBSET Downlink
      BY <1>7 DEF Arrive, Deliver, AfterArrival, NetTypeOK
    <2>3. With(inbox[d], r.tok) \in SUBSET Token
      BY <2>1 DEF With, NodeTypeOK
    <2>4. NodeTypeOK'
      BY <1>7, <2>3 DEF Arrive, Deliver, NodeTypeOK
    <2> QED
      BY <1>7, <2>2, <2>4 DEF Arrive, Deliver, c8yVars, agentVars, faultVars,
           C8yTypeOK, NetTypeOK, AgentTypeOK
  <1>8. ASSUME NEW p \in toAgent, NEW s \in Inbound, Route1(p, s) PROVE TypeOK'
    <2>1. p \in Uplink
      BY DEF NetTypeOK
    <2>2. toAgent' \in SUBSET Uplink
      BY <1>8 DEF Route1, Receive, AfterArrival, NetTypeOK
    <2>3. InboundMessage(p) \in Message
      BY <2>1, QueuedType, BlankIsToken DEF InboundMessage, Uplink, Queue
    <2>4. AgentTypeOK'
      BY <1>8, <2>3 DEF Route1, Receive, AgentTypeOK
    <2> QED
      BY <1>8, <2>2, <2>4 DEF Route1, Receive, c8yVars, nodeVars, faultVars,
           C8yTypeOK, NetTypeOK, NodeTypeOK
  <1>9. ASSUME NEW p \in toAgent, Route1Fails(p) PROVE TypeOK'
    BY <1>9 DEF Route1Fails, ReceiveUnpublished, c8yVars, nodeVars, faultVars,
         C8yTypeOK, NetTypeOK, AgentTypeOK, NodeTypeOK
  <1>10. ASSUME NEW s \in Inbound, Route2(s) PROVE TypeOK'
    <2>1. /\ s \in Slot
          /\ broker[s].dev \in Device
          /\ broker[s].tok \in Token
      BY <1>10 DEF Slot, AgentTypeOK, Message, QueuesCarryTheirMessages,
           Route2, PushMeasurement, PushFails, At
    <2>2. \E g \in Stage : Advance(s, g, Blank)
      BY <1>10 DEF Route2, PushMeasurement, PushFails, Stage
    <2>3. broker' \in [Slot -> Message]
      BY <2>1, <2>2, AdvanceLemma, BlankIsToken
    <2>4. C8yTypeOK'
      <3>1. CASE MeasurementStored(broker[s].dev, broker[s].tok)
        BY <2>1, <3>1, PlatformType
      <3>2. CASE UNCHANGED c8yVars
        BY <3>2 DEF c8yVars, C8yTypeOK
      <3> QED
        BY <1>10, <3>1, <3>2 DEF Route2, PushMeasurement, PushFails
    <2> QED
      BY <1>10, <2>3, <2>4 DEF Route2, PushMeasurement, PushFails, netVars,
           nodeVars, faultVars, NetTypeOK, AgentTypeOK, NodeTypeOK
  <1>11. ASSUME NEW s \in Inbound, Route3(s) PROVE TypeOK'
    <2>1. /\ s \in Slot
          /\ broker[s].dev \in Device
          /\ broker[s].result \in Token
          /\ broker[s].result.pw \in Password \cup {NoPassword}
      BY <1>11 DEF Slot, AgentTypeOK, Message, Token, QueuesCarryTheirMessages,
           Route3, PollCredentials, PollOutage, CreateObject, CreateFails, At
    <2>2. \E g \in Stage, r \in Token : Advance(s, g, r)
      <3>1. [Blank EXCEPT !.pw = password[broker[s].dev]] \in Token
        BY <2>1 DEF Blank, Token, C8yTypeOK
      <3>2. \A i \in ObjectId : [pw |-> broker[s].result.pw, id |-> i] \in Token
        BY <2>1 DEF Token
      <3> QED
        BY <1>11, <3>1, <3>2, BlankIsToken
           DEF Route3, PollCredentials, PollOutage, CreateObject, CreateFails, Stage
    <2>3. broker' \in [Slot -> Message]
      BY <2>1, <2>2, AdvanceLemma
    <2>4. C8yTypeOK'
      <3>1. CASE PollAnswers(broker[s].dev) \/ PollRefused(broker[s].dev)
        BY <2>1, <3>1, PlatformType
      <3>2. CASE \E i \in ObjectId :
                    InventoryCreates(broker[s].dev, broker[s].result.pw, i)
        BY <2>1, <3>2, PlatformType
      <3>3. CASE UNCHANGED c8yVars
        BY <3>3 DEF c8yVars, C8yTypeOK
      <3> QED
        BY <1>11, <3>1, <3>2, <3>3
           DEF Route3, PollCredentials, PollOutage, CreateObject, CreateFails
    <2> QED
      BY <1>11, <2>3, <2>4
         DEF Route3, PollCredentials, PollOutage, CreateObject, CreateFails,
             netVars, nodeVars, faultVars, NetTypeOK, AgentTypeOK, NodeTypeOK
  <1>12. ASSUME NEW s \in Inbound, NEW o \in Outbound, Reply(s, o) PROVE TypeOK'
    <2>1. broker' \in [Slot -> Message]
      BY <1>12, ReplyLemma DEF Reply
    <2> QED
      BY <1>12, <2>1 DEF Reply, PublishReply, c8yVars, netVars, nodeVars,
           faultVars, C8yTypeOK, NetTypeOK, AgentTypeOK, NodeTypeOK
  <1>13. ASSUME NEW s \in Slot, Ack(s) PROVE TypeOK'
    <2>1. AgentTypeOK'
      BY <1>13, FreeSlotIsMessage DEF Ack, Acknowledge, AgentTypeOK
    <2> QED
      BY <1>13, <2>1 DEF Ack, Acknowledge, c8yVars, netVars, nodeVars,
           faultVars, C8yTypeOK, NetTypeOK, NodeTypeOK
  <1>14. ASSUME NEW s \in Outbound, Route4(s) PROVE TypeOK'
    <2>1. s \in Slot /\ Advance(s, "settled", Blank) /\ "settled" \in Stage
      BY <1>14 DEF Slot, Route4, Encode, Stage
    <2>2. broker' \in [Slot -> Message]
      BY <2>1, AdvanceLemma, BlankIsToken
    <2>3. [to |-> broker[s].addr, tok |-> broker[s].tok] \in Downlink
      BY <1>14, <2>1 DEF Route4, Encode, At, AgentTypeOK, Message, Downlink,
           QueuesCarryTheirMessages
    <2>4. toNode' \in SUBSET Downlink
      BY <1>14, <2>3 DEF Route4, Encode, With, NetTypeOK
    <2> QED
      BY <1>14, <2>2, <2>4 DEF Route4, Encode, c8yVars, nodeVars, faultVars,
           C8yTypeOK, NetTypeOK, AgentTypeOK, NodeTypeOK
  <1>15. ASSUME NEW s \in Outbound, Route4Spins(s) PROVE TypeOK'
    <2>1. s \in Slot /\ Advance(s, "spinning", Blank) /\ "spinning" \in Stage
      BY <1>15 DEF Slot, Route4Spins, Spin, Stage
    <2>2. broker' \in [Slot -> Message]
      BY <2>1, AdvanceLemma, BlankIsToken
    <2> QED
      BY <1>15, <2>2 DEF Route4Spins, Spin, c8yVars, netVars, nodeVars,
           faultVars, C8yTypeOK, NetTypeOK, AgentTypeOK, NodeTypeOK
  <1>16. ASSUME AgentRestarts PROVE TypeOK'
    <2>1. \A s \in Slot : Redelivered(broker[s]) \in Message
      BY BlankIsToken DEF Redelivered, AgentTypeOK, Message, Stage
    <2>2. restarts' \in 0 .. MaxRestarts
      BY <1>16, BoundAssumption DEF AgentRestarts
    <2> QED
      BY <1>16, <2>1, <2>2 DEF AgentRestarts, RestartAgent, c8yVars, netVars,
           nodeVars, C8yTypeOK, NetTypeOK, AgentTypeOK, NodeTypeOK
  <1>17. ASSUME AddressesChange PROVE TypeOK'
    <2>1. rebinds' \in 0 .. MaxRebinds
      BY <1>17, BoundAssumption DEF AddressesChange
    <2> QED
      BY <1>17, <2>1 DEF AddressesChange, Rebind, c8yVars, netVars, agentVars,
           C8yTypeOK, NetTypeOK, AgentTypeOK, NodeTypeOK
  <1>18. CASE UNCHANGED vars
    BY <1>18 DEF vars, c8yVars, netVars, agentVars, nodeVars, faultVars,
         C8yTypeOK, NetTypeOK, AgentTypeOK, NodeTypeOK
  <1> QED
    BY <1>1, <1>2, <1>3, <1>4, <1>5, <1>6, <1>7, <1>8, <1>9, <1>10, <1>11,
       <1>12, <1>13, <1>14, <1>15, <1>16, <1>17, <1>18 DEF Next

(* Every message stays one its consumer can read. *)
LEMMA QueuesPreserved == TypeInv /\ [Next]_vars => QueuesCarryTheirMessages'
  <1> SUFFICES ASSUME TypeInv, [Next]_vars
               PROVE  QueuesCarryTheirMessages'
    OBVIOUS
  <1>0. AgentTypeOK /\ NetTypeOK /\ Inbound \subseteq Slot /\ Outbound \subseteq Slot
    BY DEF TypeInv, TypeOK, Slot
  <1> DEFINE Kept == \A x \in Slot :
                /\ broker'[x].queue = broker[x].queue
                /\ broker'[x].addr = broker[x].addr
                /\ broker'[x].dev = broker[x].dev
                /\ broker'[x].tok = broker[x].tok
  <1>1. ASSUME Kept PROVE QueuesCarryTheirMessages'
    BY <1>1 DEF TypeInv, QueuesCarryTheirMessages, IsMeasurementMessage
  <1>2. ASSUME NEW s \in Slot, NEW g \in Stage, NEW r \in Token, Advance(s, g, r)
        PROVE  QueuesCarryTheirMessages'
    BY <1>0, <1>1, <1>2, AdvanceLemma
  <1>3. ASSUME UNCHANGED broker PROVE QueuesCarryTheirMessages'
    BY <1>1, <1>3
  <1>4. ASSUME NEW p \in toAgent, NEW s \in Inbound, Route1(p, s)
        PROVE  QueuesCarryTheirMessages'
    <2>1. /\ broker'[s] = InboundMessage(p)
          /\ \A x \in Slot \ {s} : broker'[x] = broker[x]
      BY <1>0, <1>4 DEF Route1, Receive, AgentTypeOK
    <2>2. p.dev \in Device /\ p.from \in Address
      BY <1>0 DEF NetTypeOK, Uplink
    <2> QED
      BY <2>1, <2>2 DEF TypeInv, QueuesCarryTheirMessages, InboundMessage,
           Queued, IsMeasurementMessage
  <1>5. ASSUME NEW s \in Inbound, Route2(s) PROVE QueuesCarryTheirMessages'
    BY <1>0, <1>2, <1>5, BlankIsToken DEF Route2, PushMeasurement, PushFails, Stage
  <1>6. ASSUME NEW s \in Inbound, Route3(s) PROVE QueuesCarryTheirMessages'
    <2>1. /\ broker[s].dev \in Device
          /\ broker[s].result.pw \in Password \cup {NoPassword}
      BY <1>0, <1>6 DEF TypeInv, QueuesCarryTheirMessages, AgentTypeOK, Message,
           Token, Route3, PollCredentials, PollOutage, CreateObject, CreateFails, At
    <2>2. [Blank EXCEPT !.pw = password[broker[s].dev]] \in Token
      BY <2>1 DEF Blank, Token, TypeInv, TypeOK, C8yTypeOK
    <2>3. \A i \in ObjectId : [pw |-> broker[s].result.pw, id |-> i] \in Token
      BY <2>1 DEF Token
    <2> QED
      BY <1>0, <1>2, <1>6, <2>2, <2>3, BlankIsToken
         DEF Route3, PollCredentials, PollOutage, CreateObject, CreateFails, Stage
  <1>7. ASSUME NEW s \in Inbound, NEW o \in Outbound, Reply(s, o)
        PROVE  QueuesCarryTheirMessages'
    <2>1. /\ broker'[o] = Queued("credentials", broker[s].addr, NoDevice,
                                 broker[s].result)
          /\ broker'[s] = [broker[s] EXCEPT !.stage = "settled", !.result = Blank]
          /\ \A x \in Slot \ {s, o} : broker'[x] = broker[x]
      BY <1>0, <1>7, ReplyLemma DEF Reply
    <2>2. /\ broker'[s].queue = broker[s].queue
          /\ broker'[s].addr = broker[s].addr
          /\ broker'[s].dev = broker[s].dev
          /\ broker'[s].tok = broker[s].tok
      BY <1>0, <2>1 DEF AgentTypeOK, Message
    <2>3. broker[s].addr \in Address
      BY <1>0, <1>7 DEF TypeInv, QueuesCarryTheirMessages, Reply, PublishReply, At
    <2>4. \A x \in Slot \ {o} :
            /\ broker'[x].queue = broker[x].queue
            /\ broker'[x].addr = broker[x].addr
            /\ broker'[x].dev = broker[x].dev
            /\ broker'[x].tok = broker[x].tok
      BY <2>1, <2>2
    <2>5. /\ broker'[o].queue = "credentials"
          /\ broker'[o].dev = NoDevice
          /\ broker'[o].addr \in Address
      BY <2>1, <2>3 DEF Queued
    <2> QED
      BY <2>4, <2>5
         DEF TypeInv, QueuesCarryTheirMessages, IsMeasurementMessage
  <1>8. ASSUME NEW s \in Slot, Ack(s) PROVE QueuesCarryTheirMessages'
    <2>1. /\ broker'[s] = FreeSlot
          /\ \A x \in Slot \ {s} : broker'[x] = broker[x]
      BY <1>0, <1>8 DEF Ack, Acknowledge, AgentTypeOK
    <2> QED
      BY <2>1 DEF TypeInv, QueuesCarryTheirMessages, FreeSlot, IsMeasurementMessage
  <1>9. ASSUME NEW s \in Outbound, Route4(s) PROVE QueuesCarryTheirMessages'
    BY <1>0, <1>2, <1>9, BlankIsToken DEF Route4, Encode, Stage
  <1>10. ASSUME NEW s \in Outbound, Route4Spins(s) PROVE QueuesCarryTheirMessages'
    BY <1>0, <1>2, <1>10, BlankIsToken DEF Route4Spins, Spin, Stage
  <1>11. ASSUME AgentRestarts PROVE QueuesCarryTheirMessages'
    <2>1. \A m \in Message :
            /\ Redelivered(m).queue = m.queue
            /\ Redelivered(m).addr = m.addr
            /\ Redelivered(m).dev = m.dev
            /\ Redelivered(m).tok = m.tok
      BY DEF Redelivered, Message
    <2> QED
      BY <1>0, <1>1, <1>11, <2>1 DEF AgentRestarts, RestartAgent, AgentTypeOK
  <1>12. CASE UNCHANGED agentVars
    BY <1>3, <1>12 DEF agentVars
  <1>13. CASE \E d \in Device : Operator(d) \/ OperatorRemoves(d)
    BY <1>12, <1>13 DEF Operator, OperatorRemoves
  <1>14. CASE \E d \in Device : NodeIdles(d) \/ NodeRestarts(d)
                                \/ \E t \in Token : NodeReceives(d, t)
    BY <1>12, <1>14 DEF NodeIdles, NodeRestarts, NodeReceives
  <1>15. CASE Lose \/ AddressesChange \/ \E d \in Device, r \in toNode : Arrive(d, r)
    BY <1>12, <1>15 DEF Lose, AddressesChange, Arrive
  <1>16. CASE \E p \in toAgent : Route1Fails(p)
    BY <1>3, <1>16 DEF Route1Fails, ReceiveUnpublished
  <1>17. CASE UNCHANGED vars
    BY <1>12, <1>17 DEF vars
  <1> QED
    BY <1>4, <1>5, <1>6, <1>7, <1>8, <1>9, <1>10, <1>11, <1>13, <1>14, <1>15,
       <1>16, <1>17 DEF Next

LEMMA InitType == Init => TypeInv
  <1> SUFFICES ASSUME Init PROVE TypeInv
    OBVIOUS
  <1>1. C8yTypeOK
    BY DEF Init, C8yInit, C8yTypeOK, RequestState, NoOwner, Owner
  <1>2. NetTypeOK
    BY DEF Init, NetInit, NetTypeOK
  <1>3. AgentTypeOK
    BY FreeSlotIsMessage DEF Init, AgentInit, AgentTypeOK
  <1>4. NodeTypeOK
    BY BlankIsToken DEF Init, NodeInit, NodeTypeOK
  <1>5. removals \in 0 .. MaxRemovals /\ restarts \in 0 .. MaxRestarts
        /\ rebinds \in 0 .. MaxRebinds
    BY BoundAssumption DEF Init
  <1>6. QueuesCarryTheirMessages
    BY DEF Init, AgentInit, FreeSlot, QueuesCarryTheirMessages
  <1> QED
    BY <1>1, <1>2, <1>3, <1>4, <1>5, <1>6 DEF TypeInv, TypeOK

THEOREM TypeInvariance == Spec => []TypeInv
  <1>1. Init => TypeInv
    BY InitType
  <1>2. TypeInv /\ [Next]_vars => TypeInv'
    BY TypePreserved, QueuesPreserved DEF TypeInv
  <1> QED
    BY <1>1, <1>2, PTL DEF Spec

(* Every variable stays within its type, whatever the parameters. *)
THEOREM TypeCorrect == Spec => []TypeOK
  <1>1. TypeInv => TypeOK
    BY DEF TypeInv
  <1> QED
    BY <1>1, TypeInvariance, PTL

(* No consumer ever meets a message of another queue: the handlers index only
   fields that are there, and no reply loops back into a route. *)
THEOREM QueuesCorrect == Spec => []QueuesCarryTheirMessages
  <1>1. TypeInv => QueuesCarryTheirMessages
    BY DEF TypeInv
  <1> QED
    BY <1>1, TypeInvariance, PTL

-----------------------------------------------------------------------------
(* The platform keeps its books: a password a device user has was issued to
   that device, and an object was created with a password of its owner. *)
BooksOK ==
    /\ \A d \in Device :
          password[d] # NoPassword => issuedTo[password[d]] = d
    /\ \A i \in ObjectId :
          objectOf[i] # NoOwner =>
              /\ objectOf[i].pw \in Password
              /\ objectOf[i].dev \in Device
              /\ issuedTo[objectOf[i].pw] = objectOf[i].dev

(* A token must carry a real password and object to be genuine, so an issued
   token stays genuine while new passwords and objects come into use. *)
Inv ==
    /\ TypeInv
    /\ BooksOK
    /\ AuthenticCredentials
    /\ MeasurementsUnderOwnObject

PlatformStep(d) ==
    \/ RegisterDevice(d)
    \/ AcceptDevice(d)
    \/ RemoveDevice(d)
    \/ PollAnswers(d)
    \/ PollRefused(d)
    \/ \E p \in Password \cup {NoPassword}, i \in ObjectId : InventoryCreates(d, p, i)
    \/ \E t \in Token : MeasurementStored(d, t)

(* All that any step does to the platform is one of its own operations. *)
LEMMA StepOfPlatform ==
    TypeInv /\ [Next]_vars
        => UNCHANGED c8yVars \/ \E d \in Device : PlatformStep(d)
  <1> SUFFICES ASSUME TypeInv, [Next]_vars
               PROVE  UNCHANGED c8yVars \/ \E d \in Device : PlatformStep(d)
    OBVIOUS
  <1>1. CASE \E d \in Device : Operator(d) \/ OperatorRemoves(d)
    BY <1>1 DEF Operator, OperatorRemoves, PlatformStep
  <1>2. ASSUME NEW s \in Inbound, Route2(s)
        PROVE  UNCHANGED c8yVars \/ \E d \in Device : PlatformStep(d)
    <2>1. broker[s].dev \in Device /\ broker[s].tok \in Token
      BY <1>2 DEF TypeInv, TypeOK, AgentTypeOK, Message, Slot,
           QueuesCarryTheirMessages, Route2, PushMeasurement, PushFails, At
    <2>2. UNCHANGED c8yVars \/ MeasurementStored(broker[s].dev, broker[s].tok)
      BY <1>2 DEF Route2, PushMeasurement, PushFails
    <2> QED
      BY <2>1, <2>2 DEF PlatformStep
  <1>3. ASSUME NEW s \in Inbound, Route3(s)
        PROVE  UNCHANGED c8yVars \/ \E d \in Device : PlatformStep(d)
    <2>1. /\ broker[s].dev \in Device
          /\ broker[s].result.pw \in Password \cup {NoPassword}
      BY <1>3 DEF TypeInv, TypeOK, AgentTypeOK, Message, Slot, Token,
           QueuesCarryTheirMessages,
           Route3, PollCredentials, PollOutage, CreateObject, CreateFails, At
    <2>2. \/ UNCHANGED c8yVars
          \/ PollAnswers(broker[s].dev)
          \/ PollRefused(broker[s].dev)
          \/ \E i \in ObjectId :
                InventoryCreates(broker[s].dev, broker[s].result.pw, i)
      BY <1>3 DEF Route3, PollCredentials, PollOutage, CreateObject, CreateFails
    <2> QED
      BY <2>1, <2>2 DEF PlatformStep
  <1>4. CASE \E d \in Device : NodeIdles(d) \/ NodeRestarts(d)
                               \/ \E t \in Token : NodeReceives(d, t)
    BY <1>4 DEF NodeIdles, NodeRestarts, NodeReceives
  <1>5. CASE Lose \/ AddressesChange \/ \E d \in Device, r \in toNode : Arrive(d, r)
    BY <1>5 DEF Lose, AddressesChange, Arrive
  <1>6. CASE \E p \in toAgent : Route1Fails(p) \/ \E s \in Inbound : Route1(p, s)
    BY <1>6 DEF Route1Fails, ReceiveUnpublished, Route1, Receive
  <1>7. CASE \E s \in Inbound, o \in Outbound : Reply(s, o)
    BY <1>7 DEF Reply, PublishReply
  <1>8. CASE \E s \in Slot : Ack(s)
    BY <1>8 DEF Ack, Acknowledge
  <1>9. CASE \E s \in Outbound : Route4(s) \/ Route4Spins(s)
    BY <1>9 DEF Route4, Route4Spins, Encode, Spin
  <1>10. CASE AgentRestarts
    BY <1>10 DEF AgentRestarts, RestartAgent
  <1>11. CASE UNCHANGED vars
    BY <1>11 DEF vars
  <1> QED
    BY <1>1, <1>2, <1>3, <1>4, <1>5, <1>6, <1>7, <1>8, <1>9, <1>10, <1>11
       DEF Next

(* What an operation of the platform leaves true of every token and object. *)
LEMMA PlatformKeeps ==
    ASSUME TypeInv, BooksOK, NEW d \in Device, PlatformStep(d)
    PROVE  /\ BooksOK'
           /\ Authentic \subseteq Authentic'
           /\ \A i \in ObjectId : objectOf[i] # NoOwner => objectOf'[i] = objectOf[i]
  <1>0. C8yTypeOK
    BY DEF TypeInv, TypeOK
  <1>1. CASE RegisterDevice(d) \/ PollAnswers(d) \/ PollRefused(d)
             \/ \E t \in Token : MeasurementStored(d, t)
    BY <1>1 DEF RegisterDevice, PollAnswers, PollRefused, MeasurementStored,
         BooksOK, Authentic, Genuine
  <1>2. CASE RemoveDevice(d)
    BY <1>0, <1>2 DEF RemoveDevice, C8yTypeOK, BooksOK, Authentic, Genuine
  <1>3. CASE AcceptDevice(d)
    <2>1. PICK p \in Password :
            /\ issuedTo[p] = NoDevice
            /\ issuedTo' = [issuedTo EXCEPT ![p] = d]
            /\ password' = [password EXCEPT ![d] = p]
            /\ objectOf' = objectOf
      BY <1>3 DEF AcceptDevice
    <2>2. \A i \in ObjectId : objectOf[i] # NoOwner => objectOf[i].pw # p
      BY <2>1, NullAssumption DEF BooksOK
    <2>3. \A e \in Device : password[e] # NoPassword => password[e] # p
      BY <2>1, NullAssumption DEF BooksOK
    <2>4. BooksOK'
      BY <1>0, <2>1, <2>2, <2>3 DEF BooksOK, C8yTypeOK
    <2>5. Genuine \subseteq Genuine'
      BY <1>0, <2>1, <2>2, NullAssumption DEF Genuine, NoOwner, C8yTypeOK
    <2> QED
      BY <2>1, <2>4, <2>5 DEF Authentic
  <1>4. ASSUME NEW p \in Password \cup {NoPassword}, NEW i \in ObjectId,
               InventoryCreates(d, p, i)
        PROVE  /\ BooksOK'
               /\ Authentic \subseteq Authentic'
               /\ \A j \in ObjectId : objectOf[j] # NoOwner => objectOf'[j] = objectOf[j]
    <2>1. /\ p \in Password /\ password[d] = p
          /\ objectOf[i] = NoOwner
          /\ objectOf' = [objectOf EXCEPT ![i] = [dev |-> d, pw |-> p]]
          /\ UNCHANGED <<password, issuedTo>>
      BY <1>4 DEF InventoryCreates, Authenticates
    <2>2. issuedTo[p] = d
      BY <2>1, NullAssumption DEF BooksOK
    <2>3. BooksOK'
      BY <1>0, <2>1, <2>2 DEF BooksOK, C8yTypeOK
    <2>4. Genuine \subseteq Genuine'
      BY <1>0, <2>1, NullAssumption DEF Genuine, NoOwner, C8yTypeOK
    <2> QED
      BY <1>0, <2>1, <2>3, <2>4 DEF Authentic, C8yTypeOK
  <1> QED
    BY <1>1, <1>2, <1>3, <1>4 DEF PlatformStep

LEMMA VouchedGrows ==
    TypeInv /\ BooksOK /\ [Next]_vars
        => /\ BooksOK'
           /\ Authentic \subseteq Authentic'
           /\ \A i \in ObjectId : objectOf[i] # NoOwner => objectOf'[i] = objectOf[i]
  <1>1. ASSUME BooksOK, UNCHANGED c8yVars
        PROVE  BooksOK' /\ Authentic' = Authentic /\ objectOf' = objectOf
    BY <1>1 DEF c8yVars, BooksOK, Authentic, Genuine
  <1> QED
    BY <1>1, PlatformKeeps, StepOfPlatform

(* Only a password that just created an object travels with its identifier. *)
LEMMA AuthenticPreserved == Inv /\ [Next]_vars => AuthenticCredentials'
  <1> SUFFICES ASSUME Inv, [Next]_vars
               PROVE  AuthenticCredentials'
    OBVIOUS
  <1>0. /\ Authentic \subseteq Authentic'
        /\ Blank \in Authentic /\ Blank \in Authentic'
        /\ C8yTypeOK /\ AgentTypeOK /\ NetTypeOK /\ NodeTypeOK
        /\ Inbound \subseteq Slot /\ Outbound \subseteq Slot
        /\ AuthenticCredentials
    BY VouchedGrows DEF Inv, TypeInv, TypeOK, Authentic, Slot
  <1> DEFINE NodesOK == \A d \in Device : /\ stored[d] \in Authentic
                                         /\ inbox[d] \subseteq Authentic
             NetOK == /\ \A r \in toNode : r.tok \in Authentic
                      /\ \A p \in toAgent : p.tok \in Authentic
             AgentOK == \A s \in Slot :
                /\ broker[s].tok \in Authentic
                /\ broker[s].stage = "replying" => broker[s].result \in Authentic
  <1>a. AuthenticCredentials' = (NodesOK' /\ NetOK' /\ AgentOK')
    BY DEF AuthenticCredentials
  <1>b. NodesOK /\ NetOK /\ AgentOK
    BY <1>0 DEF AuthenticCredentials
  <1>c. ASSUME UNCHANGED nodeVars PROVE NodesOK'
    BY <1>0, <1>b, <1>c DEF nodeVars
  <1>d. ASSUME toNode' \subseteq toNode, toAgent' \subseteq toAgent PROVE NetOK'
    BY <1>0, <1>b, <1>d
  <1>e. ASSUME UNCHANGED broker PROVE AgentOK'
    BY <1>0, <1>b, <1>e
  <1>f. ASSUME NEW s \in Slot, NEW g \in Stage, NEW r \in Token, Advance(s, g, r),
               g = "replying" => r \in Authentic'
        PROVE  AgentOK'
    <2>1. /\ broker'[s].stage = g /\ broker'[s].result = r
          /\ \A x \in Slot \ {s} : broker'[x] = broker[x]
          /\ \A x \in Slot : broker'[x].tok = broker[x].tok
      BY <1>0, <1>f, AdvanceLemma
    <2> QED
      BY <1>0, <1>b, <1>f, <2>1
  <1>1. CASE \E d \in Device : Operator(d) \/ OperatorRemoves(d)
    BY <1>1, <1>a, <1>c, <1>d, <1>e DEF Operator, OperatorRemoves, netVars, agentVars
  <1>2. ASSUME NEW d \in Device, NEW t \in Token, NodeReceives(d, t)
        PROVE  AuthenticCredentials'
    <2>1. t \in Authentic
      BY <1>2, <1>b DEF NodeReceives, LoopReceiving
    <2>2. NodesOK'
      BY <1>0, <1>2, <1>b, <2>1 DEF NodeReceives, LoopReceiving, NodeTypeOK
    <2>3. NetOK'
      BY <1>0, <1>2, <1>b, <2>1 DEF NodeReceives, LoopReceiving, SendPayload, With
    <2> QED
      BY <1>2, <1>a, <1>e, <2>2, <2>3 DEF NodeReceives, agentVars
  <1>3. ASSUME NEW d \in Device, NodeIdles(d) PROVE AuthenticCredentials'
    <2>1. NodesOK'
      BY <1>0, <1>3, <1>b DEF NodeIdles, LoopIdle
    <2>2. NetOK'
      BY <1>0, <1>3, <1>b DEF NodeIdles, LoopIdle, SendPayload, With
    <2> QED
      BY <1>3, <1>a, <1>e, <2>1, <2>2 DEF NodeIdles, agentVars
  <1>4. ASSUME NEW d \in Device, NodeRestarts(d) PROVE AuthenticCredentials'
    <2>1. NodesOK'
      BY <1>0, <1>4, <1>b DEF NodeRestarts, Setup, NodeTypeOK
    <2> QED
      BY <1>4, <1>a, <1>d, <1>e, <2>1 DEF NodeRestarts, Setup, agentVars, netVars
  <1>5. CASE Lose
    BY <1>5, <1>a, <1>c, <1>d, <1>e DEF Lose, LoseUplink, LoseDownlink, agentVars
  <1>6. ASSUME NEW d \in Device, NEW r \in toNode, Arrive(d, r)
        PROVE  AuthenticCredentials'
    <2>1. NodesOK'
      BY <1>0, <1>6, <1>b DEF Arrive, Deliver, NodeTypeOK, With
    <2> QED
      BY <1>6, <1>a, <1>d, <1>e, <2>1 DEF Arrive, Deliver, AfterArrival, agentVars
  <1>7. ASSUME NEW p \in toAgent, NEW s \in Inbound, Route1(p, s)
        PROVE  AuthenticCredentials'
    <2>1. /\ broker'[s] = InboundMessage(p)
          /\ \A x \in Slot \ {s} : broker'[x] = broker[x]
      BY <1>0, <1>7 DEF Route1, Receive, AgentTypeOK
    <2>2. /\ InboundMessage(p).tok \in Authentic
          /\ InboundMessage(p).stage = "ready"
      BY <1>0, <1>b DEF InboundMessage, Queued
    <2>3. AgentOK'
      BY <1>0, <1>b, <2>1, <2>2
    <2> QED
      BY <1>7, <1>a, <1>c, <1>d, <2>3 DEF Route1, Receive, AfterArrival
  <1>8. ASSUME NEW p \in toAgent, Route1Fails(p) PROVE AuthenticCredentials'
    BY <1>8, <1>a, <1>c, <1>d, <1>e DEF Route1Fails, ReceiveUnpublished
  <1>9. ASSUME NEW s \in Inbound, Route2(s) PROVE AuthenticCredentials'
    <2>1. AgentOK'
      BY <1>0, <1>9, <1>f, BlankIsToken
         DEF Route2, PushMeasurement, PushFails, Stage
    <2> QED
      BY <1>9, <1>a, <1>c, <1>d, <2>1
         DEF Route2, PushMeasurement, PushFails, netVars
  <1>10. ASSUME NEW s \in Inbound, Route3(s) PROVE AuthenticCredentials'
    <2>1. broker[s].dev \in Device
      BY <1>0, <1>10 DEF Inv, TypeInv, QueuesCarryTheirMessages,
           Route3, PollCredentials, PollOutage, CreateObject, CreateFails, At
    <2>2. UNCHANGED nodeVars /\ UNCHANGED netVars
      BY <1>10
         DEF Route3, PollCredentials, PollOutage, CreateObject, CreateFails
    <2>3. AgentOK'
      <3>1. CASE PollCredentials(s)
        <4>1. [Blank EXCEPT !.pw = password[broker[s].dev]] \in Token
          BY <1>0, <2>1 DEF Blank, Token, C8yTypeOK
        <4> QED
          BY <1>0, <1>f, <3>1, <4>1, BlankIsToken DEF PollCredentials, Stage
      <3>2. CASE PollOutage(s)
        BY <1>0, <1>f, <3>2, BlankIsToken DEF PollOutage, Stage
      <3>3. CASE CreateFails(s)
        BY <1>0, <1>f, <3>3, BlankIsToken DEF CreateFails, Stage
      <3>4. ASSUME NEW i \in ObjectId, CreateObject(s, i) PROVE AgentOK'
        <4> DEFINE t == [pw |-> broker[s].result.pw, id |-> i]
        <4>1. broker[s].result.pw \in Password \cup {NoPassword}
          BY <1>0 DEF AgentTypeOK, Message, Token
        <4>2. /\ t.pw \in Password /\ password[broker[s].dev] = t.pw
              /\ objectOf' = [objectOf EXCEPT ![i] =
                                 [dev |-> broker[s].dev, pw |-> t.pw]]
              /\ issuedTo' = issuedTo
          BY <3>4, <4>1 DEF CreateObject, InventoryCreates, Authenticates
        <4>3. issuedTo[t.pw] = broker[s].dev
          BY <2>1, <4>2, NullAssumption DEF Inv, BooksOK
        <4>4. t \in [pw : Password, id : ObjectId]
          BY <4>2
        <4>5. objectOf'[t.id] = [dev |-> issuedTo'[t.pw], pw |-> t.pw]
          BY <1>0, <4>2, <4>3 DEF C8yTypeOK
        <4>6. t \in Token /\ t \in Authentic'
          BY <4>4, <4>5 DEF Authentic, Genuine, Token
        <4> QED
          BY <1>0, <1>f, <3>4, <4>6 DEF CreateObject, Stage
      <3> QED
        BY <1>10, <3>1, <3>2, <3>3, <3>4 DEF Route3
    <2> QED
      BY <1>a, <1>c, <1>d, <2>2, <2>3 DEF netVars
  <1>11. ASSUME NEW s \in Inbound, NEW o \in Outbound, Reply(s, o)
         PROVE  AuthenticCredentials'
    <2>1. /\ broker'[o] = Queued("credentials", broker[s].addr, NoDevice,
                                 broker[s].result)
          /\ broker'[s] = [broker[s] EXCEPT !.stage = "settled", !.result = Blank]
          /\ \A x \in Slot \ {s, o} : broker'[x] = broker[x]
          /\ broker[s] \in Message
      BY <1>0, <1>11, ReplyLemma DEF Reply, AgentTypeOK
    <2>2. broker'[s].tok = broker[s].tok /\ broker'[s].stage = "settled"
      BY <2>1 DEF Message
    <2>3. broker[s].result \in Authentic
      BY <1>0, <1>11, <1>b DEF Reply, PublishReply, At
    <2>4. broker'[o].tok = broker[s].result /\ broker'[o].stage = "ready"
      BY <2>1 DEF Queued
    <2>5. AgentOK'
      BY <1>0, <1>b, <2>1, <2>2, <2>3, <2>4
    <2> QED
      BY <1>11, <1>a, <1>c, <1>d, <2>5 DEF Reply, PublishReply, netVars
  <1>12. ASSUME NEW s \in Slot, Ack(s) PROVE AuthenticCredentials'
    <2>1. /\ broker'[s] = FreeSlot
          /\ \A x \in Slot \ {s} : broker'[x] = broker[x]
      BY <1>0, <1>12 DEF Ack, Acknowledge, AgentTypeOK
    <2>2. AgentOK'
      BY <1>0, <1>b, <2>1 DEF FreeSlot
    <2> QED
      BY <1>12, <1>a, <1>c, <1>d, <2>2 DEF Ack, Acknowledge, netVars
  <1>13. ASSUME NEW s \in Outbound, Route4(s) PROVE AuthenticCredentials'
    <2>1. AgentOK'
      BY <1>0, <1>13, <1>f, BlankIsToken DEF Route4, Encode, Stage
    <2>2. NetOK'
      BY <1>0, <1>13, <1>b DEF Route4, Encode, With
    <2> QED
      BY <1>13, <1>a, <1>c, <2>1, <2>2 DEF Route4
  <1>14. ASSUME NEW s \in Outbound, Route4Spins(s) PROVE AuthenticCredentials'
    <2>1. AgentOK'
      BY <1>0, <1>14, <1>f, BlankIsToken DEF Route4Spins, Spin, Stage
    <2> QED
      BY <1>14, <1>a, <1>c, <1>d, <2>1 DEF Route4Spins, Spin, netVars
  <1>15. ASSUME AgentRestarts PROVE AuthenticCredentials'
    <2>1. \A m \in Message : Redelivered(m).tok = m.tok
                            /\ Redelivered(m).stage \in {"free", "ready"}
      BY DEF Redelivered, Message
    <2>2. AgentOK'
      BY <1>0, <1>15, <1>b, <2>1 DEF AgentRestarts, RestartAgent, AgentTypeOK
    <2> QED
      BY <1>15, <1>a, <1>c, <1>d, <2>2 DEF AgentRestarts, RestartAgent, netVars
  <1>16. ASSUME AddressesChange PROVE AuthenticCredentials'
    <2>1. NodesOK'
      BY <1>0, <1>16, <1>b DEF AddressesChange, Rebind
    <2> QED
      BY <1>16, <1>a, <1>d, <1>e, <2>1 DEF AddressesChange, Rebind, agentVars, netVars
  <1>17. CASE UNCHANGED vars
    BY <1>17, <1>a, <1>c, <1>d, <1>e DEF vars, netVars, agentVars
  <1> QED
    BY <1>1, <1>2, <1>3, <1>4, <1>5, <1>6, <1>7, <1>8, <1>9, <1>10, <1>11,
       <1>12, <1>13, <1>14, <1>15, <1>16, <1>17 DEF Next

(* A measurement is stored under the object its token names, and its sender
   authenticated with the password of that token. *)
LEMMA MeasurementsPreserved == Inv /\ [Next]_vars => MeasurementsUnderOwnObject'
  <1> SUFFICES ASSUME Inv, [Next]_vars
               PROVE  MeasurementsUnderOwnObject'
    OBVIOUS
  <1>1. /\ \A i \in ObjectId : objectOf[i] # NoOwner => objectOf'[i] = objectOf[i]
        /\ C8yTypeOK /\ AgentTypeOK
    BY VouchedGrows DEF Inv, TypeInv, TypeOK
  <1>2. \A m \in measurements : objectOf'[m.id].dev = m.dev
    BY <1>1, NullAssumption
       DEF Inv, MeasurementsUnderOwnObject, C8yTypeOK, NoOwner
  <1>3. CASE UNCHANGED measurements
    BY <1>2, <1>3 DEF MeasurementsUnderOwnObject
  <1>4. ASSUME NEW s \in Inbound,
               MeasurementStored(broker[s].dev, broker[s].tok),
               At(s, "measurement", "ready")
        PROVE  MeasurementsUnderOwnObject'
    <2> DEFINE d == broker[s].dev
               t == broker[s].tok
    <2>1. d \in Device /\ t \in Authentic /\ t \in Token
      BY <1>1, <1>4 DEF Inv, TypeInv, QueuesCarryTheirMessages, Slot, At,
           AuthenticCredentials, AgentTypeOK, Message
    <2>2. /\ t.pw # NoPassword /\ password[d] = t.pw
          /\ measurements' = measurements \cup {[dev |-> d, id |-> t.id]}
          /\ objectOf' = objectOf
      BY <1>4 DEF MeasurementStored, Authenticates
    <2>3. objectOf[t.id] = [dev |-> issuedTo[t.pw], pw |-> t.pw]
      BY <2>1, <2>2 DEF Authentic, Genuine, Blank
    <2>4. issuedTo[t.pw] = d
      BY <2>1, <2>2 DEF Inv, BooksOK
    <2> QED
      BY <1>2, <2>2, <2>3, <2>4 DEF MeasurementsUnderOwnObject
  <1>5. CASE \E s \in Inbound : Route2(s)
    BY <1>3, <1>4, <1>5 DEF Route2, PushMeasurement, PushFails, c8yVars
  <1>6. CASE UNCHANGED c8yVars
    BY <1>3, <1>6 DEF c8yVars
  <1>7. CASE \E d \in Device : Operator(d) \/ OperatorRemoves(d)
    BY <1>3, <1>7 DEF Operator, OperatorRemoves, RegisterDevice, AcceptDevice,
         RemoveDevice
  <1>8. CASE \E s \in Inbound : Route3(s)
    BY <1>3, <1>8 DEF Route3, PollCredentials, PollOutage, CreateObject,
         CreateFails, PollAnswers, PollRefused, InventoryCreates, c8yVars
  <1>9. CASE \/ \E d \in Device : NodeIdles(d) \/ NodeRestarts(d)
             \/ \E d \in Device, t \in Token : NodeReceives(d, t)
             \/ Lose \/ AddressesChange
             \/ \E d \in Device, r \in toNode : Arrive(d, r)
    BY <1>6, <1>9 DEF NodeIdles, NodeRestarts, NodeReceives, Lose,
         AddressesChange, Arrive
  <1>10. CASE \/ \E p \in toAgent : Route1Fails(p) \/ \E s \in Inbound : Route1(p, s)
              \/ \E s \in Inbound, o \in Outbound : Reply(s, o)
              \/ \E s \in Slot : Ack(s)
              \/ \E s \in Outbound : Route4(s) \/ Route4Spins(s)
              \/ AgentRestarts
    BY <1>6, <1>10 DEF Route1Fails, ReceiveUnpublished, Route1, Receive, Reply,
         PublishReply, Ack, Acknowledge, Route4, Encode, Route4Spins, Spin,
         AgentRestarts, RestartAgent
  <1>11. CASE UNCHANGED vars
    BY <1>6, <1>11 DEF vars
  <1> QED
    BY <1>5, <1>7, <1>8, <1>9, <1>10, <1>11 DEF Next

LEMMA InitInv == Init => Inv
  <1> SUFFICES ASSUME Init PROVE Inv
    OBVIOUS
  <1>1. BooksOK
    BY DEF Init, C8yInit, BooksOK
  <1>2. AuthenticCredentials
    BY DEF Init, NodeInit, NetInit, AgentInit, FreeSlot, Authentic,
         AuthenticCredentials
  <1>3. MeasurementsUnderOwnObject
    BY DEF Init, C8yInit, MeasurementsUnderOwnObject
  <1> QED
    BY <1>1, <1>2, <1>3, InitType DEF Inv

THEOREM Invariance == Spec => []Inv
  <1>1. Inv /\ [Next]_vars => Inv'
    BY TypePreserved, QueuesPreserved, VouchedGrows, AuthenticPreserved,
       MeasurementsPreserved DEF Inv, TypeInv
  <1> QED
    BY <1>1, InitInv, PTL DEF Spec

(* The two halves of a credential are never mixed, anywhere in the system. *)
THEOREM CredentialsAuthentic == Spec => []AuthenticCredentials
  <1>1. Inv => AuthenticCredentials
    BY DEF Inv
  <1> QED
    BY <1>1, Invariance, PTL

(* A reading is never stored under an object of another device. *)
THEOREM MeasurementsOwned == Spec => []MeasurementsUnderOwnObject
  <1>1. Inv => MeasurementsUnderOwnObject
    BY DEF Inv
  <1> QED
    BY <1>1, Invariance, PTL
=============================================================================
