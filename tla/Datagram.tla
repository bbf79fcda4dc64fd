------------------------------ MODULE Datagram ------------------------------
(***************************************************************************)
(* The datagram of a node: what sendPayload writes and what DataPacket     *)
(* makes of it.  Texts and datagrams are sequences of bytes, of which only *)
(* the newline and the C string's end are told apart.                      *)
(***************************************************************************)
EXTENDS Naturals, Sequences

CONSTANTS
    Newline, Nul,
    PayloadLength    \* bytes of readings (14)

HasNewline(data) == \E i \in 1 .. Len(data) : data[i] = Newline

-----------------------------------------------------------------------------
(* The node. *)

(* What the C string in a buffer of n characters and a last '\0' is. *)
CString(buffer, n) ==
    LET Ends(i) == i = n + 1 \/ buffer[i] = Nul
        end == CHOOSE i \in 1 .. n + 1 :
                  Ends(i) /\ \A j \in 1 .. i - 1 : ~Ends(j)
    IN  [i \in 1 .. end - 1 |-> buffer[i]]

(* sendPayload: "deviceid\ntoken\n" and the readings. *)
Payload(imei, token, readings) ==
    imei \o <<Newline>> \o token \o <<Newline>> \o readings

-----------------------------------------------------------------------------
(* The agent. *)

(* Mutant: the last newline is taken. *)
LastNewLine(data) ==
    IF HasNewline(data)
    THEN CHOOSE i \in 1 .. Len(data) :
            data[i] = Newline /\ \A j \in i + 1 .. Len(data) : data[j] # Newline
    ELSE 0

(* The position of the first newline; the code's -1 is 0 here. *)
NextNewLine(data) ==
    IF HasNewline(data)
    THEN CHOOSE i \in 1 .. Len(data) :
            data[i] = Newline /\ \A j \in 1 .. i - 1 : data[j] # Newline
    ELSE 0

Before(data) == SubSeq(data, 1, NextNewLine(data) - 1)

(* Mutant: the newline stays in front of the rest. *)
AfterKeepsNewline(data) == SubSeq(data, NextNewLine(data), Len(data))

After(data) == SubSeq(data, NextNewLine(data) + 1, Len(data))

Nothing == [deviceId |-> <<>>, password |-> <<>>, cumulocityId |-> <<>>,
            payload |-> <<>>]

(* nextNewLine looks at the first byte before it looks at the length, so it
   fails on an empty rest. *)
ExtractFails(data) ==
    \/ data = <<>>
    \/ HasNewline(data) /\ After(data) = <<>>
    \/ HasNewline(data) /\ HasNewline(After(data)) /\ After(After(data)) = <<>>

(* extractData stops at the first field that no newline ends. *)
ExtractData(data) ==
    LET second == After(data)
        third == After(second)
    IN  IF ~HasNewline(data) THEN Nothing
        ELSE IF ~HasNewline(second)
        THEN [Nothing EXCEPT !.deviceId = Before(data)]
        ELSE IF ~HasNewline(third)
        THEN [Nothing EXCEPT !.deviceId = Before(data),
                             !.password = Before(second)]
        ELSE [deviceId |-> Before(data), password |-> Before(second),
              cumulocityId |-> Before(third), payload |-> After(third)]

IsValid(p) == p.deviceId # <<>>

(* Mutant: half a token counts as one. *)
IsRegisterWithoutBoth(p) == p.password = <<>> /\ p.cumulocityId = <<>>

IsRegisterMessage(p) == p.password = <<>> \/ p.cumulocityId = <<>>

(* Mutant: the length of the readings is not looked at. *)
IsMeasurementOfAnyLength(p) == p.password # <<>> /\ p.cumulocityId # <<>>

IsMeasurementMessage(p) ==
    /\ p.password # <<>>
    /\ p.cumulocityId # <<>>
    /\ Len(p.payload) = PayloadLength

(* The choice of route 1: the queue a packet is sent to, if any. *)
Route(p) ==
    CASE ~IsValid(p) -> "none"
      [] IsValid(p) /\ IsMeasurementMessage(p) -> "measurement"
      [] IsValid(p) /\ ~IsMeasurementMessage(p) /\ IsRegisterMessage(p) ->
            "register"
      [] OTHER -> "none"
=============================================================================
