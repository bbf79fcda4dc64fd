----------------------------- MODULE TokenPath -----------------------------
(***************************************************************************)
(* The way of a token from the node's EEPROM into the agent: NodeStore     *)
(* says which texts, whole or torn by a power failure, a node may hold,    *)
(* Datagram what the agent makes of a packet sent under one.               *)
(***************************************************************************)
EXTENDS NodeStore

CONSTANTS
    PayloadLength,    \* bytes of readings (14)
    Imei,       \* the device's identifier
    Readings    \* what the 14 bytes of readings may be

INSTANCE Datagram

ASSUME PathAssumption ==
    /\ PayloadLength \in Nat \ {0}
    /\ Imei \in Seq(Char) /\ Imei # <<>>
    /\ Readings \subseteq Seq(Byte)
    /\ \A r \in Readings : Len(r) = PayloadLength

VARIABLES
    sent,      \* the token and the readings of the last packet
    packet     \* what the agent extracted from it

pathVars == <<vars, sent, packet>>

Unsent == [token |-> <<>>, readings |-> <<>>]

(* The driver keeps a pointer to readPW's buffer and prints it as a string;
   its last byte is never written and is '\0'. *)
Token == CString(token, ReadLength)

PathInit == Init /\ sent = Unsent /\ packet = Nothing

Storing == Next /\ UNCHANGED <<sent, packet>>

(* The end of the loop sends; a torn token is sent after the restart. *)
Send(r) ==
    /\ writing = <<>>
    /\ sent' = [token |-> Token, readings |-> r]
    /\ packet' = ExtractData(Payload(Imei, Token, r))
    /\ UNCHANGED vars

PathNext == Storing \/ \E r \in Readings : Send(r)

PathSpec == PathInit /\ [][PathNext]_pathVars

-----------------------------------------------------------------------------
LastDatagram == Payload(Imei, sent.token, sent.readings)

(* No packet of a node makes the byte loop of DataPacket run off an empty
   array, whatever token it holds (DataPacket.java:86-95). *)
NodePacketIsReadable ==
    sent # Unsent => ~ExtractFails(LastDatagram)

(* The text is a password, a newline and an identifier. *)
Splits(t, i) ==
    /\ i \in 2 .. Len(t) - 1
    /\ \A j \in 1 .. Len(t) : t[j] = Newline <=> j = i

IsToken(t) == \E i \in 1 .. Len(t) : Splits(t, i)

(* Under a whole token every packet is a measurement with the fields the node
   sent, also when a byte of the readings is a newline
   (DataPacket.java:62-84). *)
WholeTokenIsMeasured ==
    sent # Unsent => \A i \in 1 .. Len(sent.token) :
        Splits(sent.token, i) =>
            /\ Route(packet) = "measurement"
            /\ packet.deviceId = Imei
            /\ packet.password = SubSeq(sent.token, 1, i - 1)
            /\ packet.cumulocityId = SubSeq(sent.token, i + 1, Len(sent.token))
            /\ packet.payload = sent.readings

(* Nothing else is taken for a measurement: no newline among the readings, in
   an unused EEPROM or in a torn token shifts the fields so that other bytes
   are stored as readings (DataPacket.java:62-84, 113-115). *)
OnlyWholeTokenIsMeasured ==
    sent # Unsent /\ Route(packet) = "measurement" => IsToken(sent.token)

(* All passwords are equally long, and identifiers hold no newline. *)
AlikeTexts ==
    \E k \in 1 .. Cells : \A t \in Texts \ {Reset} : \A i \in 1 .. Len(t) :
        t[i] = Newline => i = k

(* A node is never left with a token under which the agent drops all its
   packets without an answer: if passwords are equally long, a packet whose
   readings hold no newline is measured or registers the node, also after any
   number of power failures (NB-IoT_node.ino:201-211, AgentRouter.java:33-41). *)
NoNodeIsIgnored ==
    AlikeTexts /\ sent # Unsent /\ ~HasNewline(sent.readings)
        => Route(packet) # "none"
=============================================================================
