---------------------------- MODULE Credentials ----------------------------
(***************************************************************************)
(* The vocabulary every part of the system shares.  A device is named by   *)
(* its IMEI, a password and an object identifier are issued by Cumulocity  *)
(* and an address stands for the "ip, port" pair the agent sees.           *)
(*                                                                         *)
(* A token is what the node keeps in EEPROM and writes into every packet:  *)
(* the text "password \n cumulocityId".  A reset is the blank token.       *)
(***************************************************************************)
CONSTANTS
    Device,      \* the nodes, by IMEI
    Address,     \* the "ip:port" pairs a node may be seen under
    Password,    \* the passwords Cumulocity generates, each used once
    ObjectId,    \* the identifiers of managed objects
    NoDevice, NoAddress, NoPassword, NoObject

ASSUME NullAssumption ==
    /\ NoDevice \notin Device
    /\ NoAddress \notin Address
    /\ NoPassword \notin Password
    /\ NoObject \notin ObjectId

Token == [pw : Password \cup {NoPassword}, id : ObjectId \cup {NoObject}]

Blank == [pw |-> NoPassword, id |-> NoObject]

(* A datagram from a node: IMEI, token and 14 bytes of readings. *)
Uplink == [from : Address, dev : Device, tok : Token]

(* A datagram from the agent: the token for whoever owns the address. *)
Downlink == [to : Address, tok : Token]
=============================================================================
