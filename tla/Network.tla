------------------------------ MODULE Network ------------------------------
(***************************************************************************)
(* UDP over the NB-IoT network, between nodes and the agent's port 8888.   *)
(* Datagrams may be lost, duplicated (an arrival need not consume the      *)
(* datagram) and reordered (a set).  At most MaxInFlight datagrams are     *)
(* under way in each direction: one sent into a full network is lost.      *)
(***************************************************************************)
EXTENDS Credentials, FiniteSets, Naturals

CONSTANT MaxInFlight
ASSUME MaxInFlightAssumption == MaxInFlight \in Nat \ {0}

VARIABLES toAgent, toNode

netVars == <<toAgent, toNode>>

NetInit == toAgent = {} /\ toNode = {}

(* The datagrams under way after msg is sent. *)
With(net, msg) ==
    IF Cardinality(net) < MaxInFlight THEN net \cup {msg} ELSE net

(* The datagrams under way after msg arrives: it may arrive again. *)
AfterArrival(net, msg) == {net, net \ {msg}}

LoseUplink ==
    \E p \in toAgent : toAgent' = toAgent \ {p} /\ UNCHANGED toNode

LoseDownlink ==
    \E r \in toNode : toNode' = toNode \ {r} /\ UNCHANGED toAgent

NetTypeOK == toAgent \subseteq Uplink /\ toNode \subseteq Downlink
=============================================================================
