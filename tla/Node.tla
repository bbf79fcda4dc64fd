-------------------------------- MODULE Node --------------------------------
(***************************************************************************)
(* The Arduino sketch NB-IoT_node.ino: each iteration of loop() that its   *)
(* timer lets through first looks for a datagram from the server, stores   *)
(* what it carries as the token, then sends a packet under the token it    *)
(* now holds.  The modem buffers the datagrams that reach the node.        *)
(***************************************************************************)
EXTENDS Network

VARIABLES
    home,      \* the address each node is seen under
    inbox,     \* the tokens in each modem's receive buffer
    stored     \* the token in each EEPROM

nodeVars == <<home, inbox, stored>>

IsPrivate(h) == \A d, e \in Device : h[d] = h[e] => d = e

NodeInit ==
    /\ home \in {h \in [Device -> Address] : IsPrivate(h)}
    /\ inbox = [d \in Device |-> {}]
    /\ stored = [d \in Device |-> Blank]

(* A datagram reaches the modem that has its address at that moment; the
   buffer is bounded like the network. *)
Deliver(d, r) ==
    /\ r \in toNode
    /\ r.to = home[d]
    /\ toNode' \in AfterArrival(toNode, r)
    /\ inbox' = [inbox EXCEPT ![d] = With(@, r.tok)]
    /\ UNCHANGED <<toAgent, home, stored>>

(* sendPayload: IMEI, token and the readings. *)
SendPayload(d, t) ==
    toAgent' = With(toAgent, [from |-> home[d], dev |-> d, tok |-> t])

(* Mutant: the password is replaced, the identifier behind it is not. *)
LoopKeepsId(d, t) ==
    /\ t \in inbox[d]
    /\ inbox' = [inbox EXCEPT ![d] = @ \ {t}]
    /\ stored' = [stored EXCEPT ![d].pw = t.pw]
    /\ SendPayload(d, stored'[d])
    /\ UNCHANGED <<home, toNode>>

(* An iteration that finds pending bytes: save the token, then send. *)
LoopReceiving(d, t) ==
    /\ t \in inbox[d]
    /\ inbox' = [inbox EXCEPT ![d] = @ \ {t}]
    /\ stored' = [stored EXCEPT ![d] = t]
    /\ SendPayload(d, t)
    /\ UNCHANGED <<home, toNode>>

(* An iteration that finds none: getPendingUDPBytes counts only what an
   earlier AT response has announced, so the buffer need not be empty. *)
LoopIdle(d) ==
    /\ SendPayload(d, stored[d])
    /\ UNCHANGED <<home, inbox, stored, toNode>>

(* Power-up or resetFunc: setup() reads the token back, the modem starts
   with an empty buffer. *)
Setup(d) ==
    /\ inbox' = [inbox EXCEPT ![d] = {}]
    /\ UNCHANGED <<home, stored, netVars>>

(* The address translation of the network hands out addresses anew. *)
Rebind ==
    /\ home' \in {h \in [Device -> Address] : IsPrivate(h)}
    /\ UNCHANGED <<inbox, stored, netVars>>

NodeTypeOK ==
    /\ home \in [Device -> Address]
    /\ inbox \in [Device -> SUBSET Token]
    /\ stored \in [Device -> Token]
=============================================================================
