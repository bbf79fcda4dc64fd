-------------------------- MODULE EnrollmentProofs --------------------------
(***************************************************************************)
(* NbIotSystem implements Enrollment, for any parameters: the two promises *)
(* that depend on the surroundings (one object per password if a password  *)
(* is handed out once, credentials of one's own if addresses last) and the *)
(* refinement that rests on them.                                          *)
(***************************************************************************)
EXTENDS NbIotSystemProofs

-----------------------------------------------------------------------------
(* One object per password. *)

Polled(s) == broker[s].stage = "polled"
Unused(p) == \A i \in ObjectId : objectOf[i].pw # p

(* A password that may still lead to an object is held by one accepted
   request or by one consumer of the register queue, never by both, and no
   object has it yet. *)
Reserved ==
    /\ \A d \in Device :
          request[d] = "accepted" => password[d] \in Password /\ Unused(password[d])
    /\ \A s \in Slot :
          Polled(s) =>
             /\ broker[s].result.pw \in Password
             /\ issuedTo[broker[s].result.pw] \in Device
             /\ Unused(broker[s].result.pw)
             /\ \A d \in Device :
                   request[d] = "accepted" => password[d] # broker[s].result.pw
    /\ \A s, u \in Slot :
          Polled(s) /\ Polled(u) /\ s # u
             => broker[s].result.pw # broker[u].result.pw

OnceInv == CredentialsOnce => Reserved /\ OneObjectPerPassword

StaysPolled ==
    \A x \in Slot : Polled(x)' => Polled(x) /\ broker'[x].result = broker[x].result

(* Only a successful poll makes a consumer hold a password. *)
LEMMA PolledShrinks ==
    ASSUME TypeInv, [Next]_vars, \A s \in Inbound : ~(Route3(s) /\ PollCredentials(s))
    PROVE  StaysPolled
  <1>0. AgentTypeOK /\ Inbound \subseteq Slot /\ Outbound \subseteq Slot
    BY DEF TypeInv, TypeOK, Slot
  <1>a. ASSUME UNCHANGED broker PROVE StaysPolled
    BY <1>a DEF StaysPolled, Polled
  <1>b. ASSUME NEW s \in Slot, NEW g \in Stage \ {"polled"}, NEW r \in Token,
               Advance(s, g, r)
        PROVE  StaysPolled
    <2>1. /\ broker'[s].stage = g
          /\ \A x \in Slot \ {s} : broker'[x] = broker[x]
      BY <1>0, <1>b, AdvanceLemma
    <2> QED
      BY <2>1 DEF StaysPolled, Polled
  <1>c. ASSUME NEW s \in Slot, broker'[s].stage # "polled",
               \A x \in Slot \ {s} : broker'[x] = broker[x]
        PROVE  StaysPolled
    BY <1>c DEF StaysPolled, Polled
  <1>1. CASE \/ \E d \in Device : Operator(d) \/ OperatorRemoves(d)
             \/ \E d \in Device : NodeIdles(d) \/ NodeRestarts(d)
             \/ \E d \in Device, t \in Token : NodeReceives(d, t)
             \/ Lose \/ AddressesChange
             \/ \E d \in Device, r \in toNode : Arrive(d, r)
             \/ \E p \in toAgent : Route1Fails(p)
    BY <1>1, <1>a DEF Operator, OperatorRemoves, NodeIdles, NodeRestarts,
         NodeReceives, Lose, AddressesChange, Arrive, Route1Fails,
         ReceiveUnpublished, agentVars
  <1>2. ASSUME NEW p \in toAgent, NEW s \in Inbound, Route1(p, s) PROVE StaysPolled
    <2>1. broker'[s].stage = "ready" /\ \A x \in Slot \ {s} : broker'[x] = broker[x]
      BY <1>0, <1>2 DEF Route1, Receive, InboundMessage, Queued, AgentTypeOK
    <2> QED
      BY <1>0, <1>c, <2>1
  <1>3. ASSUME NEW s \in Inbound, Route2(s) PROVE StaysPolled
    BY <1>0, <1>b, <1>3, BlankIsToken DEF Route2, PushMeasurement, PushFails, Stage
  <1>4. ASSUME NEW s \in Inbound, Route3(s) PROVE StaysPolled
    <2>1. CASE PollOutage(s) \/ CreateFails(s)
      BY <1>0, <1>b, <2>1, BlankIsToken DEF PollOutage, CreateFails, Stage
    <2>2. ASSUME NEW i \in ObjectId, CreateObject(s, i) PROVE StaysPolled
      <3>1. [pw |-> broker[s].result.pw, id |-> i] \in Token
        BY <1>0 DEF AgentTypeOK, Message, Token
      <3> QED
        BY <1>0, <1>b, <2>2, <3>1 DEF CreateObject, Stage
    <2> QED
      BY <1>4, <2>1, <2>2 DEF Route3
  <1>5. ASSUME NEW s \in Inbound, NEW o \in Outbound, Reply(s, o) PROVE StaysPolled
    <2>0. /\ broker'[o] = Queued("credentials", broker[s].addr, NoDevice,
                                 broker[s].result)
          /\ broker'[s] = [broker[s] EXCEPT !.stage = "settled", !.result = Blank]
          /\ \A x \in Slot \ {s, o} : broker'[x] = broker[x]
          /\ broker[s] \in Message
      BY <1>0, <1>5, ReplyLemma DEF Reply, AgentTypeOK
    <2>1. /\ broker'[o].stage = "ready"
          /\ broker'[s].stage = "settled"
          /\ \A x \in Slot \ {s, o} : broker'[x] = broker[x]
      BY <2>0 DEF Queued, Message
    <2> QED
      BY <2>1 DEF StaysPolled, Polled
  <1>6. ASSUME NEW s \in Slot, Ack(s) PROVE StaysPolled
    <2>1. broker'[s].stage = "free" /\ \A x \in Slot \ {s} : broker'[x] = broker[x]
      BY <1>0, <1>6 DEF Ack, Acknowledge, FreeSlot, AgentTypeOK
    <2> QED
      BY <1>c, <2>1
  <1>7. ASSUME NEW s \in Outbound, Route4(s) \/ Route4Spins(s) PROVE StaysPolled
    BY <1>0, <1>b, <1>7, BlankIsToken DEF Route4, Encode, Route4Spins, Spin, Stage
  <1>8. ASSUME AgentRestarts PROVE StaysPolled
    <2>1. \A m \in Message : Redelivered(m).stage \in {"free", "ready"}
      BY DEF Redelivered, Message
    <2> QED
      BY <1>0, <1>8, <2>1 DEF AgentRestarts, RestartAgent, AgentTypeOK,
           StaysPolled, Polled
  <1>9. CASE UNCHANGED vars
    BY <1>9, <1>a DEF vars, agentVars
  <1> QED
    BY <1>1, <1>2, <1>3, <1>4, <1>5, <1>6, <1>7, <1>8, <1>9 DEF Next

LEMMA OncePreserved == Inv /\ OnceInv /\ [Next]_vars => OnceInv'
  <1> SUFFICES ASSUME Inv, [Next]_vars, CredentialsOnce, Reserved,
                      OneObjectPerPassword
               PROVE  Reserved' /\ OneObjectPerPassword'
    BY DEF OnceInv
  <1>0. /\ TypeInv /\ C8yTypeOK /\ AgentTypeOK /\ BooksOK
        /\ Inbound \subseteq Slot
    BY DEF Inv, TypeInv, TypeOK, Slot
  <1> DEFINE Goal == Reserved' /\ OneObjectPerPassword'
  <1>a. ASSUME StaysPolled, UNCHANGED objectOf,
               \A d \in Device :
                  request'[d] = "accepted" => /\ request[d] = "accepted"
                                              /\ password'[d] = password[d],
               \A p \in Password : issuedTo[p] \in Device => issuedTo'[p] \in Device
        PROVE  Goal
    <2>1. \A p : Unused(p)' = Unused(p)
      BY <1>a DEF Unused
    <2>2. OneObjectPerPassword'
      BY <1>a DEF OneObjectPerPassword
    <2>3. \A d \in Device :
            request'[d] = "accepted" => password'[d] \in Password /\ Unused(password[d])
      BY <1>a DEF Reserved
    <2>4. \A x \in Slot :
             Polled(x)' =>
                /\ Polled(x) /\ broker'[x].result = broker[x].result
                /\ broker'[x].result.pw \in Password
                /\ issuedTo'[broker'[x].result.pw] \in Device
                /\ Unused(broker'[x].result.pw)
                /\ \A d \in Device :
                      request'[d] = "accepted" => password'[d] # broker'[x].result.pw
      BY <1>a DEF Reserved, StaysPolled
    <2> QED
      BY <1>a, <2>2, <2>3, <2>4 DEF Reserved, Unused
  <1>b. ASSUME StaysPolled, UNCHANGED c8yVars PROVE Goal
    BY <1>a, <1>b DEF c8yVars
  <1>1. ASSUME NEW d \in Device, Operator(d) \/ OperatorRemoves(d) PROVE Goal
    <2>0. UNCHANGED broker
      BY <1>1 DEF Operator, OperatorRemoves, agentVars
    <2>1. StaysPolled
      BY <2>0 DEF StaysPolled, Polled
    <2>2. CASE RegisterDevice(d)
      BY <1>0, <1>a, <2>1, <2>2 DEF RegisterDevice, C8yTypeOK
    <2>3. CASE RemoveDevice(d)
      BY <1>0, <1>a, <2>1, <2>3 DEF RemoveDevice, C8yTypeOK
    <2>4. CASE AcceptDevice(d)
      <3>1. PICK p \in Password :
              /\ issuedTo[p] = NoDevice
              /\ issuedTo' = [issuedTo EXCEPT ![p] = d]
              /\ password' = [password EXCEPT ![d] = p]
              /\ request' = [request EXCEPT ![d] = "accepted"]
              /\ objectOf' = objectOf
        BY <2>4 DEF AcceptDevice
      <3>2. Unused(p)
        BY <1>0, <3>1, NullAssumption DEF Unused, BooksOK, NoOwner
      <3>3. \A x \in Slot : Polled(x) => broker[x].result.pw # p
        BY <3>1, NullAssumption DEF Reserved
      <3>4. \A q \in Password : issuedTo[q] \in Device => issuedTo'[q] \in Device
        BY <1>0, <3>1 DEF C8yTypeOK
      <3>5. OneObjectPerPassword'
        BY <3>1 DEF OneObjectPerPassword
      <3>6. \A e \in Device :
              request'[e] = "accepted" =>
                 /\ password'[e] \in Password
                 /\ Unused(password'[e])
                 /\ \A x \in Slot : Polled(x) => password'[e] # broker[x].result.pw
        BY <1>0, <3>1, <3>2, <3>3 DEF Reserved, C8yTypeOK
      <3> QED
        BY <2>0, <3>1, <3>4, <3>5, <3>6 DEF Reserved, Polled, Unused
    <2> QED
      BY <1>1, <2>2, <2>3, <2>4 DEF Operator, OperatorRemoves
  <1>2. ASSUME NEW s \in Inbound, Route3(s) PROVE Goal
    <2> DEFINE d == broker[s].dev
               p == broker[s].result.pw
    <2>0. d \in Device /\ s \in Slot
      BY <1>0, <1>2 DEF TypeInv, QueuesCarryTheirMessages,
         Route3, PollCredentials, PollOutage, CreateObject, CreateFails, At
    <2>a. ASSUME StaysPolled, PollAnswers(d) \/ PollRefused(d) \/ UNCHANGED c8yVars
          PROVE  Goal
      <3>1. CASE PollAnswers(d)
        BY <1>0, <1>a, <2>0, <2>a, <3>1 DEF PollAnswers, C8yTypeOK
      <3>2. CASE PollRefused(d)
        BY <1>0, <1>a, <2>0, <2>a, <3>2 DEF PollRefused, C8yTypeOK
      <3> QED
        BY <1>b, <2>a, <3>1, <3>2
    <2>b. ASSUME NEW i \in ObjectId, InventoryCreates(d, p, i), Polled(s),
                 StaysPolled, ~Polled(s)'
          PROVE  Goal
      <3>1. /\ objectOf[i] = NoOwner
            /\ objectOf' = [objectOf EXCEPT ![i] = [dev |-> d, pw |-> p]]
            /\ UNCHANGED <<request, password, issuedTo>>
        BY <2>b DEF InventoryCreates
      <3> DEFINE Left(q) == \A j \in ObjectId : objectOf'[j].pw # q
      <3>2. \A q \in Password : q # p /\ Unused(q) => Left(q)
        BY <1>0, <3>1 DEF Unused, C8yTypeOK
      <3>3. \A e \in Device :
              request[e] = "accepted" => /\ password[e] \in Password
                                         /\ password[e] # p /\ Unused(password[e])
        BY <2>0, <2>b DEF Reserved
      <3>4. \A x \in Slot : Polled(x)' =>
              /\ Polled(x) /\ broker'[x].result = broker[x].result
              /\ x # s
        BY <2>0, <2>b DEF StaysPolled
      <3>5. OneObjectPerPassword'
        BY <1>0, <2>0, <2>b, <3>1
           DEF OneObjectPerPassword, Reserved, Unused, C8yTypeOK, NoOwner
      <3>6. \A x \in Slot : Polled(x) /\ x # s =>
              /\ broker[x].result.pw \in Password
              /\ issuedTo[broker[x].result.pw] \in Device
              /\ broker[x].result.pw # p
              /\ Unused(broker[x].result.pw)
              /\ \A e \in Device :
                    request[e] = "accepted" => password[e] # broker[x].result.pw
        BY <2>0, <2>b DEF Reserved
      <3>7. \A x, u \in Slot : Polled(x)' /\ Polled(u)' /\ x # u
              => broker'[x].result.pw # broker'[u].result.pw
        BY <3>4 DEF Reserved
      <3>8. \A x \in Slot : Polled(x)' =>
              /\ broker'[x].result.pw \in Password
              /\ issuedTo'[broker'[x].result.pw] \in Device
              /\ Left(broker'[x].result.pw)
              /\ \A e \in Device :
                    request'[e] = "accepted" => password'[e] # broker'[x].result.pw
        BY <3>1, <3>2, <3>4, <3>6
      <3>9. \A e \in Device : request'[e] = "accepted" =>
              password'[e] \in Password /\ Left(password'[e])
        BY <3>1, <3>2, <3>3
      <3> QED
        BY <3>5, <3>7, <3>8, <3>9 DEF Reserved, Unused
    <2>1. CASE PollCredentials(s)
      <3>1. CASE PollRefused(d) /\ Advance(s, "settled", Blank)
        <4>1. StaysPolled
          BY <1>0, <2>0, <3>1, AdvanceLemma, BlankIsToken
             DEF StaysPolled, Polled, Stage
        <4> QED
          BY <2>a, <3>1, <4>1
      <3>2. CASE /\ PollAnswers(d)
                 /\ Advance(s, "polled", [Blank EXCEPT !.pw = password[d]])
        <4> DEFINE r == [Blank EXCEPT !.pw = password[d]]
        <4>1. /\ request[d] = "accepted"
              /\ request' = [request EXCEPT ![d] = "none"]
              /\ UNCHANGED <<password, issuedTo, objectOf>>
          BY <3>2 DEF PollAnswers
        <4>2. /\ password[d] \in Password /\ Unused(password[d])
              /\ \A x \in Slot : Polled(x) => broker[x].result.pw # password[d]
          BY <2>0, <4>1 DEF Reserved
        <4>3. issuedTo[password[d]] = d
          BY <1>0, <2>0, <4>2, NullAssumption DEF BooksOK
        <4>4. \A e \in Device : request'[e] = "accepted" =>
                 /\ request[e] = "accepted"
                 /\ password[e] \in Password
                 /\ password[e] # password[d]
          BY <1>0, <2>0, <4>1, <4>2, <4>3, NullAssumption
             DEF C8yTypeOK, BooksOK, Reserved
        <4>5. r \in Token /\ r.pw = password[d]
          BY <4>2 DEF Blank, Token
        <4>6. /\ broker'[s].result = r
              /\ \A x \in Slot \ {s} : broker'[x] = broker[x]
          BY <1>0, <2>0, <3>2, <4>5, AdvanceLemma DEF Stage
        <4>7. \A q : Unused(q)' = Unused(q)
          BY <4>1 DEF Unused
        <4>8. OneObjectPerPassword'
          BY <4>1 DEF OneObjectPerPassword
        <4>9. \A x \in Slot \ {s} : Polled(x)' => Polled(x)
          BY <4>6 DEF Polled
        <4>a. /\ broker'[s].result.pw = password[d]
              /\ issuedTo'[password[d]] \in Device
              /\ \A e \in Device : request'[e] = "accepted" => password'[e] # password[d]
          BY <2>0, <4>1, <4>3, <4>4, <4>5, <4>6
        <4>b. \A x \in Slot \ {s} : Polled(x)' =>
                 /\ broker'[x].result.pw \in Password
                 /\ issuedTo'[broker'[x].result.pw] \in Device
                 /\ Unused(broker'[x].result.pw)
                 /\ \A e \in Device :
                       request'[e] = "accepted" => password'[e] # broker'[x].result.pw
          <5>1. ASSUME NEW x \in Slot \ {s}, Polled(x)
                PROVE  /\ broker[x].result.pw \in Password
                       /\ issuedTo[broker[x].result.pw] \in Device
                       /\ Unused(broker[x].result.pw)
                       /\ \A e \in Device :
                             request[e] = "accepted" => password[e] # broker[x].result.pw
            BY <5>1 DEF Reserved
          <5> QED
            BY <4>1, <4>4, <4>6, <4>9, <5>1
        <4>10. \A x \in Slot : Polled(x)' =>
                 /\ broker'[x].result.pw \in Password
                 /\ issuedTo'[broker'[x].result.pw] \in Device
                 /\ Unused(broker'[x].result.pw)
                 /\ \A e \in Device :
                       request'[e] = "accepted" => password'[e] # broker'[x].result.pw
          BY <4>2, <4>a, <4>b
        <4>11. \A x, u \in Slot : Polled(x)' /\ Polled(u)' /\ x # u
                 => broker'[x].result.pw # broker'[u].result.pw
          <5>1. \A x \in Slot \ {s} : Polled(x)' =>
                   broker'[x].result.pw = broker[x].result.pw /\ Polled(x)
                   /\ broker[x].result.pw # password[d]
            BY <4>2, <4>6, <4>9
          <5> QED
            BY <4>a, <5>1 DEF Reserved
        <4>12. \A e \in Device : request'[e] = "accepted" =>
                 password'[e] \in Password /\ Unused(password'[e])
          BY <4>1, <4>4 DEF Reserved
        <4> QED
          BY <4>1, <4>8, <4>10, <4>11, <4>12 DEF Reserved, Unused
      <3> QED
        BY <2>1, <3>1, <3>2 DEF PollCredentials
    <2>2. ASSUME NEW g \in Stage \ {"polled"}, NEW r \in Token, Advance(s, g, r)
          PROVE  StaysPolled /\ ~Polled(s)'
      BY <1>0, <2>0, <2>2, AdvanceLemma DEF StaysPolled, Polled
    <2>3. CASE PollOutage(s)
      <3>1. StaysPolled
        BY <2>2, <2>3, BlankIsToken DEF PollOutage, Stage
      <3> QED
        BY <2>a, <2>3, <3>1 DEF PollOutage
    <2>4. CASE CreateFails(s)
      <3>1. StaysPolled /\ ~Polled(s)' /\ Polled(s)
        BY <2>2, <2>4, BlankIsToken DEF CreateFails, Stage, At, Polled
      <3> QED
        BY <1>b, <2>b, <2>4, <3>1 DEF CreateFails
    <2>5. ASSUME NEW i \in ObjectId, CreateObject(s, i) PROVE Goal
      <3>1. [pw |-> p, id |-> i] \in Token
        BY <1>0, <2>0 DEF AgentTypeOK, Message, Token
      <3>2. StaysPolled /\ ~Polled(s)' /\ Polled(s)
        BY <2>2, <2>5, <3>1 DEF CreateObject, Stage, At, Polled
      <3> QED
        BY <2>b, <2>5, <3>2 DEF CreateObject
    <2> QED
      BY <1>2, <2>1, <2>3, <2>4, <2>5 DEF Route3
  <1>3. ASSUME \A s \in Inbound : ~Route3(s) PROVE Goal
    <2>1. StaysPolled
      BY <1>0, <1>3, PolledShrinks
    <2>2. CASE UNCHANGED c8yVars
      BY <1>b, <2>1, <2>2
    <2>3. CASE \E s \in Inbound : Route2(s)
      BY <1>a, <2>1, <2>2, <2>3 DEF Route2, PushMeasurement, PushFails,
           MeasurementStored
    <2>4. CASE \E d \in Device : Operator(d) \/ OperatorRemoves(d)
      BY <1>1, <2>4
    <2>5. CASE \/ \E d \in Device : NodeIdles(d) \/ NodeRestarts(d)
               \/ \E d \in Device, t \in Token : NodeReceives(d, t)
               \/ Lose \/ AddressesChange
               \/ \E d \in Device, r \in toNode : Arrive(d, r)
      BY <2>2, <2>5 DEF NodeIdles, NodeRestarts, NodeReceives, Lose,
           AddressesChange, Arrive
    <2>6. CASE \/ \E p \in toAgent : Route1Fails(p)
                                     \/ \E s \in Inbound : Route1(p, s)
               \/ \E s \in Inbound, o \in Outbound : Reply(s, o)
               \/ \E s \in Slot : Ack(s)
               \/ \E s \in Outbound : Route4(s) \/ Route4Spins(s)
               \/ AgentRestarts
      BY <2>2, <2>6 DEF Route1Fails, ReceiveUnpublished, Route1, Receive, Reply,
           PublishReply, Ack, Acknowledge, Route4, Encode, Route4Spins, Spin,
           AgentRestarts, RestartAgent
    <2>7. CASE UNCHANGED vars
      BY <2>2, <2>7 DEF vars
    <2> QED
      BY <1>3, <2>3, <2>4, <2>5, <2>6, <2>7 DEF Next
  <1> QED
    BY <1>2, <1>3

LEMMA InitOnce == Init => OnceInv
  BY DEF Init, C8yInit, AgentInit, FreeSlot, NoOwner, OnceInv, Reserved,
     OneObjectPerPassword, Polled

(* If a password is handed out once, no redelivery and no second consumer ever
   makes a second object of it. *)
THEOREM SingleObject == Spec => [](CredentialsOnce => OneObjectPerPassword)
  <1>1. OnceInv => (CredentialsOnce => OneObjectPerPassword)
    BY DEF OnceInv
  <1> QED
    BY <1>1, InitOnce, OncePreserved, Invariance, PTL DEF Spec

-----------------------------------------------------------------------------
(* Credentials of one's own. *)

Own(t, d) == t # Blank => issuedTo[t.pw] = d

(* Whoever is seen under address a may learn the token t. *)
Rightful(t, a) == \A d \in Device : home[d] = a => Own(t, d)

(* Addresses tell nodes apart, every message knows the address of the node it
   came from, and a reply, wherever it is, is for the node at its address. *)
Addressed ==
    /\ IsPrivate(home)
    /\ \A d \in Device : Own(stored[d], d) /\ \A t \in inbox[d] : Own(t, d)
    /\ \A p \in toAgent : p.from = home[p.dev]
    /\ \A r \in toNode : Rightful(r.tok, r.to)
    /\ \A s \in Slot :
          /\ broker[s].queue \in {"measurement", "register"}
                => broker[s].addr = home[broker[s].dev]
          /\ broker[s].queue = "credentials" => Rightful(broker[s].tok, broker[s].addr)
          /\ broker[s].stage = "replying" => Rightful(broker[s].result, broker[s].addr)

OwnInv == MaxRebinds = 0 => Addressed

LEMMA OwnPreserved == Inv /\ OwnInv /\ [Next]_vars => OwnInv'
  <1> SUFFICES ASSUME Inv, [Next]_vars, MaxRebinds = 0, Addressed
               PROVE  Addressed'
    BY DEF OwnInv
  <1>0. /\ TypeInv /\ C8yTypeOK /\ NetTypeOK /\ AgentTypeOK /\ NodeTypeOK
        /\ BooksOK /\ Inbound \subseteq Slot /\ Outbound \subseteq Slot
    BY DEF Inv, TypeInv, TypeOK, Slot
  <1> DEFINE Goal == Addressed'
             NodesOK == \A d \in Device :
                Own(stored[d], d) /\ \A t \in inbox[d] : Own(t, d)
             NetOK == /\ \A p \in toAgent : p.from = home[p.dev]
                      /\ \A r \in toNode : Rightful(r.tok, r.to)
             SlotOK(s) ==
                /\ broker[s].queue \in {"measurement", "register"}
                      => broker[s].addr = home[broker[s].dev]
                /\ broker[s].queue = "credentials"
                      => Rightful(broker[s].tok, broker[s].addr)
                /\ broker[s].stage = "replying"
                      => Rightful(broker[s].result, broker[s].addr)
             AgentOK == \A s \in Slot : SlotOK(s)
  <1>a. Addressed = (IsPrivate(home) /\ NodesOK /\ NetOK /\ AgentOK)
    BY DEF Addressed
  <1>b. Addressed' = (IsPrivate(home)' /\ NodesOK' /\ NetOK' /\ AgentOK')
    BY DEF Addressed
  (* Addresses last, and so does the issue of a password. *)
  <1>c. home' = home
    <2>1. ~AddressesChange
      BY <1>0 DEF AddressesChange, TypeInv, TypeOK
    <2> QED
      BY <2>1 DEF Next, vars, nodeVars, Operator, OperatorRemoves, NodeReceives,
           LoopReceiving, NodeIdles, LoopIdle, NodeRestarts, Setup, Lose, Arrive,
           Deliver, Route1, Route1Fails, Route2, Route3, Reply, Ack, Route4,
           Route4Spins, AgentRestarts
  <1>d. \A p \in Password : issuedTo[p] \in Device => issuedTo'[p] = issuedTo[p]
    <2>1. ASSUME NEW d \in Device, PlatformStep(d)
          PROVE  \A p \in Password : issuedTo[p] \in Device => issuedTo'[p] = issuedTo[p]
      <3>1. CASE AcceptDevice(d)
        BY <1>0, <3>1, NullAssumption DEF AcceptDevice, C8yTypeOK
      <3>2. CASE ~AcceptDevice(d)
        BY <2>1, <3>2 DEF PlatformStep, RegisterDevice, RemoveDevice,
             PollAnswers, PollRefused, InventoryCreates, MeasurementStored
      <3> QED
        BY <3>1, <3>2
    <2> QED
      BY <1>0, <2>1, StepOfPlatform DEF c8yVars
  <1>e. \A t \in Authentic, d \in Device : Own(t, d) => Own(t, d)'
    BY <1>d DEF Own, Authentic, Genuine
  <1>f. \A t \in Authentic : \A a : Rightful(t, a) => Rightful(t, a)'
    BY <1>c, <1>e DEF Rightful
  <1>g. /\ Blank \in Authentic
        /\ \A d \in Device : stored[d] \in Authentic /\ inbox[d] \subseteq Authentic
        /\ \A r \in toNode : r.tok \in Authentic
        /\ \A s \in Slot :
              /\ broker[s].tok \in Authentic
              /\ broker[s].stage = "replying" => broker[s].result \in Authentic
    BY DEF Inv, AuthenticCredentials, Authentic
  <1>h. \A a : Rightful(Blank, a)' /\ \A d : Own(Blank, d)
    BY DEF Rightful, Own
  <1>i. IsPrivate(home)'
    BY <1>a, <1>c DEF IsPrivate
  <1>j. ASSUME UNCHANGED <<stored, inbox>> PROVE NodesOK'
    BY <1>a, <1>e, <1>g, <1>j
  <1>k. ASSUME toNode' \subseteq toNode, toAgent' \subseteq toAgent PROVE NetOK'
    BY <1>a, <1>c, <1>f, <1>g, <1>k
  <1>l. ASSUME NEW x \in Slot, broker'[x] = broker[x] PROVE SlotOK(x)'
    BY <1>a, <1>c, <1>f, <1>g, <1>l
  <1>m. ASSUME NEW s \in Slot, NEW g \in Stage, NEW r \in Token, Advance(s, g, r),
               g = "replying" => \A d \in Device : home[d] = broker[s].addr
                                    => r = Blank \/ issuedTo'[r.pw] = d
        PROVE  AgentOK'
    <2>1. /\ broker'[s].stage = g /\ broker'[s].result = r
          /\ \A x \in Slot \ {s} : broker'[x] = broker[x]
          /\ broker'[s].queue = broker[s].queue
          /\ broker'[s].addr = broker[s].addr
          /\ broker'[s].dev = broker[s].dev
          /\ broker'[s].tok = broker[s].tok
      BY <1>0, <1>m, AdvanceLemma
    <2>2. g = "replying" => Rightful(r, broker[s].addr)'
      BY <1>c, <1>m, <2>1 DEF Rightful, Own
    <2>3. SlotOK(s)'
      BY <1>a, <1>c, <1>f, <1>g, <2>1, <2>2
    <2> QED
      BY <1>l, <2>1, <2>3
  <1>n. ASSUME UNCHANGED broker PROVE AgentOK'
    BY <1>l, <1>n
  <1>o. ASSUME NEW d \in Device, NEW t \in Token, SendPayload(d, t), UNCHANGED toNode
        PROVE  NetOK'
    <2> DEFINE u == [from |-> home[d], dev |-> d, tok |-> t]
    <2>1. toAgent' \subseteq toAgent \cup {u}
      BY <1>o DEF SendPayload, With
    <2>2. u.from = home[u.dev]
      OBVIOUS
    <2>3. \A p \in toAgent' : p.from = home'[p.dev]
      BY <1>a, <1>c, <2>1, <2>2
    <2> QED
      BY <1>a, <1>f, <1>g, <1>o, <2>3
  <1>1. CASE \E d \in Device : Operator(d) \/ OperatorRemoves(d)
    BY <1>1, <1>b, <1>i, <1>j, <1>k, <1>n DEF Operator, OperatorRemoves,
       netVars, agentVars, nodeVars
  <1>2. ASSUME NEW d \in Device, NEW t \in Token, NodeReceives(d, t) PROVE Goal
    <2>1. t \in Authentic /\ Own(t, d)'
      BY <1>2, <1>a, <1>e, <1>g DEF NodeReceives, LoopReceiving
    <2>2. NodesOK'
      BY <1>0, <1>2, <1>a, <1>e, <1>g, <2>1
         DEF NodeReceives, LoopReceiving, NodeTypeOK
    <2>3. NetOK'
      BY <1>2, <1>o DEF NodeReceives, LoopReceiving
    <2> QED
      BY <1>2, <1>b, <1>i, <1>n, <2>2, <2>3 DEF NodeReceives, agentVars
  <1>3. ASSUME NEW d \in Device, NodeIdles(d) PROVE Goal
    <2>1. NetOK'
      BY <1>0, <1>3, <1>o DEF NodeIdles, LoopIdle, NodeTypeOK
    <2> QED
      BY <1>3, <1>b, <1>i, <1>j, <1>n, <2>1 DEF NodeIdles, LoopIdle, agentVars
  <1>4. ASSUME NEW d \in Device, NodeRestarts(d) PROVE Goal
    <2>1. NodesOK'
      BY <1>0, <1>4, <1>a, <1>e, <1>g DEF NodeRestarts, Setup, NodeTypeOK
    <2> QED
      BY <1>4, <1>b, <1>i, <1>k, <1>n, <2>1
         DEF NodeRestarts, Setup, agentVars, netVars
  <1>5. CASE Lose
    BY <1>5, <1>b, <1>i, <1>j, <1>k, <1>n
       DEF Lose, LoseUplink, LoseDownlink, agentVars, nodeVars
  <1>6. ASSUME NEW d \in Device, NEW r \in toNode, Arrive(d, r) PROVE Goal
    <2>1. r.tok \in Authentic /\ Own(r.tok, d)'
      BY <1>6, <1>a, <1>e, <1>g DEF Arrive, Deliver, Rightful
    <2>2. inbox'[d] \subseteq inbox[d] \cup {r.tok}
      BY <1>0, <1>6 DEF Arrive, Deliver, With, NodeTypeOK
    <2>3. NodesOK'
      BY <1>0, <1>6, <1>a, <1>e, <1>g, <2>1, <2>2 DEF Arrive, Deliver, NodeTypeOK
    <2> QED
      BY <1>6, <1>b, <1>i, <1>k, <1>n, <2>3
         DEF Arrive, Deliver, AfterArrival, agentVars
  <1>7. ASSUME NEW p \in toAgent, NEW s \in Inbound, Route1(p, s) PROVE Goal
    <2>1. /\ broker'[s] = InboundMessage(p)
          /\ \A x \in Slot \ {s} : broker'[x] = broker[x]
      BY <1>0, <1>7 DEF Route1, Receive, AgentTypeOK
    <2>2. /\ InboundMessage(p).queue \in {"measurement", "register"}
          /\ InboundMessage(p).stage = "ready"
          /\ InboundMessage(p).addr = p.from /\ InboundMessage(p).dev = p.dev
      BY DEF InboundMessage, Queued
    <2>3. p.from = home'[p.dev]
      BY <1>a, <1>c
    <2>4. SlotOK(s)'
      BY <2>1, <2>2, <2>3
    <2>5. AgentOK'
      BY <1>l, <2>1, <2>4
    <2> QED
      BY <1>7, <1>b, <1>i, <1>j, <1>k, <2>5
         DEF Route1, Receive, AfterArrival, nodeVars
  <1>8. ASSUME NEW p \in toAgent, Route1Fails(p) PROVE Goal
    BY <1>8, <1>b, <1>i, <1>j, <1>k, <1>n
       DEF Route1Fails, ReceiveUnpublished, nodeVars
  <1>9. ASSUME NEW s \in Inbound, Route2(s) PROVE Goal
    <2>1. AgentOK'
      BY <1>0, <1>9, <1>h, <1>m, BlankIsToken
         DEF Route2, PushMeasurement, PushFails, Stage
    <2> QED
      BY <1>9, <1>b, <1>i, <1>j, <1>k, <2>1
         DEF Route2, PushMeasurement, PushFails, netVars, nodeVars
  <1>10. ASSUME NEW s \in Inbound, Route3(s) PROVE Goal
    <2>1. broker[s].dev \in Device /\ broker[s].queue = "register"
      BY <1>0, <1>10 DEF TypeInv, QueuesCarryTheirMessages,
         Route3, PollCredentials, PollOutage, CreateObject, CreateFails, At
    <2>2. UNCHANGED nodeVars /\ UNCHANGED netVars
      BY <1>10 DEF Route3, PollCredentials, PollOutage, CreateObject, CreateFails
    <2>3. CASE PollCredentials(s) \/ PollOutage(s) \/ CreateFails(s)
      <3>1. [Blank EXCEPT !.pw = password[broker[s].dev]] \in Token
        BY <1>0, <2>1 DEF Blank, Token, C8yTypeOK
      <3>2. \E g \in Stage \ {"replying"}, r \in Token : Advance(s, g, r)
        BY <2>3, <3>1, BlankIsToken DEF PollCredentials, PollOutage, CreateFails, Stage
      <3>3. AgentOK'
        BY <1>0, <1>m, <3>2
      <3> QED
        BY <1>b, <1>i, <1>j, <1>k, <2>2, <3>3 DEF netVars, nodeVars
    <2>4. ASSUME NEW i \in ObjectId, CreateObject(s, i) PROVE Goal
      <3> DEFINE t == [pw |-> broker[s].result.pw, id |-> i]
      <3>1. t \in Token
        BY <1>0 DEF AgentTypeOK, Message, Token
      <3>2. password[broker[s].dev] = t.pw /\ t.pw # NoPassword /\ issuedTo' = issuedTo
        BY <2>4 DEF CreateObject, InventoryCreates, Authenticates
      <3>3. issuedTo'[t.pw] = broker[s].dev
        BY <1>0, <2>1, <3>2 DEF BooksOK
      <3>4. broker[s].addr = home[broker[s].dev]
        BY <1>0, <1>a, <2>1
      <3>5. \A d \in Device : home[d] = broker[s].addr => d = broker[s].dev
        BY <1>a, <1>c, <2>1, <3>4 DEF IsPrivate
      <3>7. AgentOK'
        BY <1>0, <1>m, <2>4, <3>1, <3>3, <3>5 DEF CreateObject, Stage
      <3> QED
        BY <1>b, <1>i, <1>j, <1>k, <2>2, <3>7 DEF netVars, nodeVars
    <2> QED
      BY <1>10, <2>3, <2>4 DEF Route3
  <1>11. ASSUME NEW s \in Inbound, NEW o \in Outbound, Reply(s, o) PROVE Goal
    <2>1. /\ broker'[o] = Queued("credentials", broker[s].addr, NoDevice,
                                 broker[s].result)
          /\ broker'[s] = [broker[s] EXCEPT !.stage = "settled", !.result = Blank]
          /\ \A x \in Slot \ {s, o} : broker'[x] = broker[x]
          /\ broker[s] \in Message
      BY <1>0, <1>11, ReplyLemma DEF Reply, AgentTypeOK
    <2>2. /\ broker'[s].stage = "settled"
          /\ broker'[s].queue = broker[s].queue /\ broker'[s].addr = broker[s].addr
          /\ broker'[s].dev = broker[s].dev /\ broker'[s].tok = broker[s].tok
      BY <2>1 DEF Message
    <2>3. SlotOK(s)'
      BY <1>0, <1>a, <1>c, <1>f, <1>g, <2>2
    <2>4. /\ broker'[o].queue = "credentials" /\ broker'[o].stage = "ready"
          /\ broker'[o].addr = broker[s].addr /\ broker'[o].tok = broker[s].result
      BY <2>1 DEF Queued
    <2>5. broker[s].stage = "replying"
      BY <1>11 DEF Reply, PublishReply, At
    <2>6. Rightful(broker[s].result, broker[s].addr)
          /\ broker[s].result \in Authentic
      BY <1>0, <1>a, <1>g, <2>5
    <2>7. SlotOK(o)'
      BY <1>f, <2>4, <2>6
    <2>8. AgentOK'
      BY <1>l, <2>1, <2>3, <2>7
    <2> QED
      BY <1>11, <1>b, <1>i, <1>j, <1>k, <2>8
         DEF Reply, PublishReply, netVars, nodeVars
  <1>12. ASSUME NEW s \in Slot, Ack(s) PROVE Goal
    <2>1. /\ broker'[s] = FreeSlot
          /\ \A x \in Slot \ {s} : broker'[x] = broker[x]
      BY <1>0, <1>12 DEF Ack, Acknowledge, AgentTypeOK
    <2>2. SlotOK(s)'
      BY <2>1 DEF FreeSlot
    <2>3. AgentOK'
      BY <1>l, <2>1, <2>2
    <2> QED
      BY <1>12, <1>b, <1>i, <1>j, <1>k, <2>3
         DEF Ack, Acknowledge, netVars, nodeVars
  <1>13. ASSUME NEW s \in Outbound, Route4(s) PROVE Goal
    <2>1. AgentOK'
      BY <1>0, <1>13, <1>m, BlankIsToken DEF Route4, Encode, Stage
    <2> DEFINE r == [to |-> broker[s].addr, tok |-> broker[s].tok]
    <2>2. Rightful(r.tok, r.to) /\ r.tok \in Authentic
      BY <1>0, <1>13, <1>a, <1>g DEF Route4, Encode, At
    <2>3. toNode' \subseteq toNode \cup {r} /\ toAgent' = toAgent
      BY <1>13 DEF Route4, Encode, With
    <2>4. \A x \in toNode' : Rightful(x.tok, x.to) /\ x.tok \in Authentic
      BY <1>a, <1>g, <2>2, <2>3
    <2>5. NetOK'
      BY <1>a, <1>c, <1>f, <2>3, <2>4
    <2> QED
      BY <1>13, <1>b, <1>i, <1>j, <2>1, <2>5 DEF Route4, nodeVars
  <1>14. ASSUME NEW s \in Outbound, Route4Spins(s) PROVE Goal
    <2>1. AgentOK'
      BY <1>0, <1>14, <1>m, BlankIsToken DEF Route4Spins, Spin, Stage
    <2> QED
      BY <1>14, <1>b, <1>i, <1>j, <1>k, <2>1
         DEF Route4Spins, Spin, netVars, nodeVars
  <1>15. CASE AgentRestarts
    <2>1. \A m \in Message :
            /\ Redelivered(m).queue = m.queue /\ Redelivered(m).addr = m.addr
            /\ Redelivered(m).dev = m.dev /\ Redelivered(m).tok = m.tok
            /\ Redelivered(m).stage \in {"free", "ready"}
      BY DEF Redelivered, Message
    <2>2. \A x \in Slot : broker'[x] = Redelivered(broker[x]) /\ broker[x] \in Message
      BY <1>0, <1>15 DEF AgentRestarts, RestartAgent, AgentTypeOK
    <2>3. ASSUME NEW x \in Slot PROVE SlotOK(x)'
      <3>1. /\ broker'[x].queue = broker[x].queue /\ broker'[x].addr = broker[x].addr
            /\ broker'[x].dev = broker[x].dev /\ broker'[x].tok = broker[x].tok
            /\ broker'[x].stage # "replying"
        BY <2>1, <2>2
      <3>2. SlotOK(x) /\ broker[x].tok \in Authentic
        BY <1>a, <1>g
      <3> QED
        BY <1>c, <1>f, <3>1, <3>2
    <2> QED
      BY <1>15, <1>b, <1>i, <1>j, <1>k, <2>3
         DEF AgentRestarts, RestartAgent, netVars, nodeVars
  <1>16. CASE UNCHANGED vars
    BY <1>16, <1>b, <1>i, <1>j, <1>k, <1>n DEF vars, netVars, agentVars, nodeVars
  <1>17. ~AddressesChange
    BY <1>0 DEF AddressesChange, TypeInv, TypeOK
  <1> QED
    BY <1>1, <1>2, <1>3, <1>4, <1>5, <1>6, <1>7, <1>8, <1>9, <1>10, <1>11,
       <1>12, <1>13, <1>14, <1>15, <1>16, <1>17 DEF Next

LEMMA InitOwn == Init => OwnInv
  BY DEF Init, NodeInit, NetInit, AgentInit, FreeSlot, OwnInv, Addressed, Own

(* Where addresses last, a node only ever holds credentials issued to it. *)
THEOREM CredentialsOwn == Spec => [](MaxRebinds = 0 => OwnCredentials)
  <1>1. OwnInv => (MaxRebinds = 0 => OwnCredentials)
    BY DEF OwnInv, Addressed, Own, OwnCredentials
  <1> QED
    BY <1>1, InitOwn, OwnPreserved, Invariance, PTL DEF Spec

-----------------------------------------------------------------------------
(* The refinement. *)

LEMMA InitRefines == Init => Enrolled!Init
  BY DEF Init, C8yInit, NodeInit, NoOwner, Enrolled!Init, Enrolled!Nobody,
     Blank, Enrolled!Blank

LEMMA StepRefines ==
    Inv /\ OnceInv /\ OwnInv /\ [Next]_vars
        => [Enrolled!Next]_(Enrolled!vars)
  <1> SUFFICES ASSUME Inv, OnceInv, OwnInv, [Next]_vars
               PROVE  Enrolled!Next \/ UNCHANGED Enrolled!vars
    OBVIOUS
  <1> DEFINE Goal == Enrolled!Next \/ UNCHANGED Enrolled!vars
  <1>0. /\ TypeInv /\ C8yTypeOK /\ NetTypeOK /\ AgentTypeOK /\ NodeTypeOK
        /\ BooksOK /\ Inbound \subseteq Slot /\ Outbound \subseteq Slot
    BY DEF Inv, TypeInv, TypeOK, Slot
  <1>a. ASSUME UNCHANGED <<issuedTo, objectOf, stored, measurements>> PROVE Goal
    BY <1>a DEF Enrolled!vars
  <1>1. ASSUME NEW d \in Device, Operator(d) \/ OperatorRemoves(d) PROVE Goal
    <2>1. CASE AcceptDevice(d)
      <3>1. \E p \in Password : Enrolled!Issue(d, p)
        BY <1>1, <2>1 DEF Operator, OperatorRemoves, AcceptDevice, nodeVars,
           Enrolled!Issue
      <3> QED
        BY <3>1 DEF Enrolled!Next
    <2>2. CASE RegisterDevice(d) \/ RemoveDevice(d)
      BY <1>1, <1>a, <2>2 DEF Operator, OperatorRemoves, RegisterDevice,
         RemoveDevice, nodeVars
    <2> QED
      BY <1>1, <2>1, <2>2 DEF Operator, OperatorRemoves
  <1>2. ASSUME NEW d \in Device, NEW t \in Token, NodeReceives(d, t) PROVE Goal
    <2>1. /\ stored' = [stored EXCEPT ![d] = t]
          /\ UNCHANGED <<issuedTo, objectOf, measurements>>
          /\ t \in inbox[d] /\ t \in Authentic
      BY <1>2 DEF NodeReceives, LoopReceiving, c8yVars, Inv, AuthenticCredentials
    <2>2. CASE t = Blank
      BY <2>1, <2>2 DEF Enrolled!Next, Enrolled!Forget, Enrolled!Blank, Blank
    <2>3. CASE t # Blank
      <3>1. /\ t \in [pw : Password, id : ObjectId]
            /\ objectOf[t.id] = [dev |-> issuedTo[t.pw], pw |-> t.pw]
        BY <2>1, <2>3 DEF Authentic, Genuine
      <3>2. MaxRebinds = 0 => issuedTo[t.pw] = d
        BY <2>1, <2>3 DEF OwnInv, Addressed, Own
      <3>3. t = [pw |-> t.pw, id |-> t.id] /\ t.pw \in Password /\ t.id \in ObjectId
        BY <3>1
      <3>4. Enrolled!Learn(d, t.pw, t.id)
        BY <2>1, <3>1, <3>2, <3>3 DEF Enrolled!Learn
      <3> QED
        BY <3>3, <3>4 DEF Enrolled!Next
    <2> QED
      BY <2>2, <2>3
  <1>3. ASSUME NEW s \in Inbound, Route2(s) PROVE Goal
    <2> DEFINE d == broker[s].dev
               t == broker[s].tok
    <2>1. CASE MeasurementStored(d, t)
      <3>1. d \in Device /\ t \in Authentic /\ t \in Token
        BY <1>0, <1>3 DEF Inv, TypeInv, QueuesCarryTheirMessages, At, Route2,
           PushMeasurement, PushFails, AuthenticCredentials, AgentTypeOK, Message
      <3>2. /\ t.pw # NoPassword /\ password[d] = t.pw
            /\ measurements' = measurements \cup {[dev |-> d, id |-> t.id]}
            /\ UNCHANGED <<issuedTo, objectOf, stored>>
        BY <1>3, <2>1 DEF MeasurementStored, Authenticates, Route2, nodeVars
      <3>3. t.id \in ObjectId /\ objectOf[t.id].dev = issuedTo[t.pw]
        BY <3>1, <3>2 DEF Authentic, Genuine, Blank
      <3>4. issuedTo[t.pw] = d
        BY <1>0, <3>1, <3>2 DEF BooksOK
      <3>5. Enrolled!Record(d, t.id)
        BY <3>2, <3>3, <3>4 DEF Enrolled!Record
      <3> QED
        BY <3>1, <3>3, <3>5 DEF Enrolled!Next
    <2>2. CASE UNCHANGED c8yVars
      BY <1>3, <1>a, <2>2 DEF Route2, c8yVars, nodeVars
    <2> QED
      BY <1>3, <2>1, <2>2 DEF Route2, PushMeasurement, PushFails
  <1>4. ASSUME NEW s \in Inbound, Route3(s) PROVE Goal
    <2> DEFINE d == broker[s].dev
               p == broker[s].result.pw
    <2>1. d \in Device /\ s \in Slot /\ p \in Password \cup {NoPassword}
          /\ UNCHANGED stored
      BY <1>0, <1>4 DEF TypeInv, QueuesCarryTheirMessages, AgentTypeOK, Message,
         Token, nodeVars,
         Route3, PollCredentials, PollOutage, CreateObject, CreateFails, At
    <2>2. ASSUME NEW i \in ObjectId, InventoryCreates(d, p, i), Polled(s) PROVE Goal
      <3>1. /\ p \in Password /\ password[d] = p
            /\ objectOf[i] = NoOwner
            /\ objectOf' = [objectOf EXCEPT ![i] = [dev |-> d, pw |-> p]]
            /\ UNCHANGED <<issuedTo, measurements>>
        BY <2>1, <2>2 DEF InventoryCreates, Authenticates
      <3>2. issuedTo[p] = d
        BY <1>0, <2>1, <3>1, NullAssumption DEF BooksOK
      <3>3. CredentialsOnce => \A j \in ObjectId : objectOf[j].pw # p
        BY <2>1, <2>2 DEF OnceInv, Reserved, Unused
      <3>4. Enrolled!Create(i, p)
        BY <2>1, <3>1, <3>2, <3>3 DEF Enrolled!Create, Enrolled!Nobody, NoOwner
      <3> QED
        BY <3>1, <3>4 DEF Enrolled!Next
    <2>3. CASE PollAnswers(d) \/ PollRefused(d) \/ UNCHANGED c8yVars
      BY <1>a, <2>1, <2>3 DEF PollAnswers, PollRefused, c8yVars
    <2> QED
      BY <1>4, <2>2, <2>3 DEF Route3, PollCredentials, PollOutage, CreateObject,
         CreateFails, At, Polled
  <1>5. CASE \/ \E d \in Device : NodeIdles(d) \/ NodeRestarts(d)
             \/ Lose \/ AddressesChange
             \/ \E d \in Device, r \in toNode : Arrive(d, r)
    BY <1>5, <1>a DEF NodeIdles, LoopIdle, NodeRestarts, Setup, Lose,
       AddressesChange, Rebind, Arrive, Deliver, c8yVars, nodeVars
  <1>6. CASE \/ \E p \in toAgent : Route1Fails(p)
                                   \/ \E s \in Inbound : Route1(p, s)
             \/ \E s \in Inbound, o \in Outbound : Reply(s, o)
             \/ \E s \in Slot : Ack(s)
             \/ \E s \in Outbound : Route4(s) \/ Route4Spins(s)
             \/ AgentRestarts
    BY <1>6, <1>a DEF Route1Fails, ReceiveUnpublished, Route1, Receive, Reply,
       PublishReply, Ack, Acknowledge, Route4, Encode, Route4Spins, Spin,
       AgentRestarts, RestartAgent, c8yVars, nodeVars
  <1>7. CASE UNCHANGED vars
    BY <1>7, <1>a DEF vars, c8yVars, nodeVars
  <1> QED
    BY <1>1, <1>2, <1>3, <1>4, <1>5, <1>6, <1>7 DEF Next

(* Nodes, network, agent, broker and platform together enroll devices and
   record readings, and do nothing else to the books. *)
THEOREM Refinement == Spec => ImplementsEnrollment
  BY InitRefines, StepRefines, InitOnce, OncePreserved, InitOwn, OwnPreserved,
     Invariance, PTL DEF Spec, ImplementsEnrollment, Enrolled!Spec
=============================================================================
