------------------------------ MODULE Builders ------------------------------
(***************************************************************************)
(* PayloadBuilder.cpp, CborBuilder.cpp and the send functions of           *)
(* ATT_NBIOT.cpp: how values are put into a buffer of limited size, and    *)
(* what AT+NSOST is told of it.                                            *)
(***************************************************************************)
EXTENDS Integers, Sequences

CONSTANTS
    MaxSize,      \* bytes of a PayloadBuilder (60)
    Capacity,     \* bytes of a CborBuilder (256)
    ByteRange,    \* the values of the byte that counts bytes (256)
    MaxMessage,   \* the longest message sendMessage takes (512)
    Axes,         \* "latitude", "longitude" and "altitude"
    Credentials   \* the bytes of IMEI, newline, token, newline

(* The largest number that is written, and the longest string. *)
Largest == 2147483647

ASSUME BuilderAssumption ==
    /\ MaxSize \in Nat /\ Capacity \in Nat /\ MaxMessage \in Nat
    /\ ByteRange \in Nat \ {0}
    /\ Axes \in [1 .. 3 -> Seq(0 .. 255)]
    /\ \A n \in 1 .. 3 : Len(Axes[n]) <= Largest
    /\ Credentials \in Seq(0 .. 255)

Byte == 0 .. 255

(* PayloadBuilder: a value of several bytes is added whole or not at all.
   Mutant: the check is for one byte. *)
AddAnyway(buffer, bytes) ==
    IF Len(buffer) + 1 > MaxSize THEN buffer ELSE buffer \o bytes
Add(buffer, bytes) ==
    IF Len(buffer) + Len(bytes) > MaxSize THEN buffer ELSE buffer \o bytes

(* CborBuilder: bytes put one by one for which there is no room are dropped,
   and so are all the bytes of a string; what follows is not. *)
PutEach(buffer, bytes) ==
    LET room == Capacity - Len(buffer)
    IN  buffer \o IF Len(bytes) <= room THEN bytes ELSE SubSeq(bytes, 1, room)
PutBytes(buffer, bytes) ==
    IF Len(buffer) + Len(bytes) - 1 < Capacity THEN buffer \o bytes ELSE buffer

(* writeTypeAndValue: a small value shares the byte of the type.  Mutant: 256
   is put into one byte. *)
HeadBytesWrong(type, v) ==
    CASE v < 24    -> <<32 * type + v>>
      [] 24 <= v /\ v <= 256 -> <<32 * type + 24, v % 256>>
      [] 256 < v /\ v < 65536 -> <<32 * type + 25, v \div 256, v % 256>>
      [] OTHER -> <<32 * type + 26, v \div 16777216, (v \div 65536) % 256,
                    (v \div 256) % 256, v % 256>>
HeadBytes(type, v) ==
    CASE v < 24    -> <<32 * type + v>>
      [] 24 <= v /\ v < 256 -> <<32 * type + 24, v>>
      [] 256 <= v /\ v < 65536 -> <<32 * type + 25, v \div 256, v % 256>>
      [] OTHER -> <<32 * type + 26, v \div 16777216, (v \div 65536) % 256,
                    (v \div 256) % 256, v % 256>>

(* The items of a map: names and values. *)
Text(bytes) == [type |-> 3, value |-> bytes]
Whole(k) == [type |-> 0, value |-> <<k>>]
Truth(b) == [type |-> 7, value |-> <<IF b THEN 21 ELSE 20>>]
Number(bytes) == [type |-> 7, value |-> bytes]
Pairs(n) == [type |-> 5, value |-> <<n>>]

(* writeString, writeInt, writeSpecial, addNumber, map. *)
ItemHead(item) ==
    CASE item.type = 3 -> HeadBytes(3, Len(item.value))
      [] item.type = 0 /\ item.value[1] < 0 -> HeadBytes(1, -(item.value[1] + 1))
      [] item.type = 7 /\ Len(item.value) = 4 -> <<250>> \o item.value
      [] OTHER -> HeadBytes(item.type, item.value[1])
ItemBody(item) == IF item.type = 3 THEN item.value ELSE <<>>

Write(buffer, item) == PutBytes(PutEach(buffer, ItemHead(item)), ItemBody(item))

Fits(buffer, item) ==
    Len(buffer) + Len(ItemHead(item)) + Len(ItemBody(item)) <= Capacity

(* A builder: its bytes and, as long as there was room for everything, the
   items put into it and where each of them begins. *)
Empty == [bytes |-> <<>>, items |-> <<>>, full |-> FALSE]

Put(builder, item) ==
    LET full == builder.full \/ ~Fits(builder.bytes, item) IN
    [bytes |-> Write(builder.bytes, item),
     items |-> IF full THEN <<>>
               ELSE Append(builder.items,
                           [item |-> item, at |-> Len(builder.bytes) + 1]),
     full  |-> full]

(* add...(value, asset), and addGPS with the names of its three numbers. *)
PutPair(builder, name, item) == Put(Put(builder, Text(name)), item)
PutGPS(builder, name, fix) ==
    LET map == PutPair(builder, name, Pairs(3))
        latitude == PutPair(map, Axes[1], Number(fix[1]))
        longitude == PutPair(latitude, Axes[2], Number(fix[2]))
    IN  PutPair(longitude, Axes[3], Number(fix[3]))

-----------------------------------------------------------------------------
(* What a reader of CBOR (RFC 7049) finds at a place in a buffer, and where it
   goes on. *)
Argument(b, k) ==
    LET a == b[k] % 32 IN
    CASE a = 24 -> [v |-> b[k + 1], next |-> k + 2]
      [] a = 25 -> [v |-> 256 * b[k + 1] + b[k + 2], next |-> k + 3]
      [] a = 26 -> [v |-> 16777216 * b[k + 1] + 65536 * b[k + 2]
                            + 256 * b[k + 3] + b[k + 4],
                    next |-> k + 5]
      [] OTHER  -> [v |-> a, next |-> k + 1]

ItemAt(b, k) ==
    LET type == b[k] \div 32
        arg == Argument(b, k)
    IN  CASE b[k] = 250 -> [item |-> Number(SubSeq(b, k + 1, k + 4)), next |-> k + 5]
          [] type = 3 -> [item |-> Text(SubSeq(b, arg.next, arg.next + arg.v - 1)),
                          next |-> arg.next + arg.v]
          [] type = 1 -> [item |-> Whole(-1 - arg.v), next |-> arg.next]
          [] OTHER    -> [item |-> [type |-> type, value |-> <<arg.v>>],
                          next |-> arg.next]

-----------------------------------------------------------------------------
(* The digits of the bytes, and the bytes of the digits. *)
Digits(bytes) ==
    [k \in 1 .. 2 * Len(bytes) |->
        IF k % 2 = 1 THEN bytes[(k + 1) \div 2] \div 16 ELSE bytes[k \div 2] % 16]
Bytes(digits) ==
    [k \in 1 .. Len(digits) \div 2 |-> 16 * digits[2 * k - 1] + digits[2 * k]]

Sent(n, bytes) == [announced |-> n, digits |-> Digits(bytes)]
NotSent == [announced |-> 0, digits |-> <<>>]

(* sendPayload and sendCbor: credentials, then data.  Mutant: the announced
   length is that of the data. *)
FrameOfData(data) == Sent(Len(data), Credentials \o data)
Frame(data) == Sent(Len(Credentials) + Len(data), Credentials \o data)

(* The byte that counts the data never reaches this length. *)
SendsForEver(data) == Len(data) >= ByteRange

(* sendMessage: a text that is too long is not sent. *)
SendMessage(text) ==
    IF Len(Credentials) + Len(text) > MaxMessage THEN NotSent ELSE Frame(text)
=============================================================================
