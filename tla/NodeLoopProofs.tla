-------------------------- MODULE NodeLoopProofs --------------------------
(***************************************************************************)
(* What a node packs and sends, for any readings, values, sizes of the     *)
(* buffers and credentials, and when it does, for a clock of any width.    *)
(***************************************************************************)
EXTENDS NodeLoop, LoopTimerProofs, SequenceTheorems

-----------------------------------------------------------------------------
(* Bytes of numbers. *)
LEMMA Large == Largest \in Nat /\ Largest >= 65536 /\ Largest <= 2147483647
BY SMT DEF Largest

LEMMA Split ==
    ASSUME NEW k \in Nat
    PROVE  /\ k \div 256 \in Nat /\ k % 256 \in Byte
           /\ k = 256 * (k \div 256) + (k % 256)
BY SMT DEF Byte

LEMMA TwoBytes ==
    ASSUME NEW k \in Nat, k <= 65535
    PROVE  /\ k \div 256 \in Byte /\ k % 256 \in Byte
           /\ 256 * (k \div 256) + (k % 256) = k
<1>1. PICK a \in Nat, r \in Byte : a = k \div 256 /\ r = k % 256 /\ k = 256 * a + r
    BY Split
<1>2. a \in Byte
    BY SMT, <1>1 DEF Byte
<1> QED
    BY SMT, <1>1, <1>2

LEMMA FourBytes ==
    ASSUME NEW k \in 0 .. Largest
    PROVE  /\ k \div 16777216 \in Byte /\ (k \div 65536) % 256 \in Byte
           /\ (k \div 256) % 256 \in Byte /\ k % 256 \in Byte
           /\ 16777216 * (k \div 16777216) + 65536 * ((k \div 65536) % 256)
                  + 256 * ((k \div 256) % 256) + (k % 256) = k
<1>1. PICK a \in Nat, r \in Byte : a = k \div 256 /\ r = k % 256 /\ k = 256 * a + r
    BY SMT, Split, Large
<1>2. PICK b \in Nat, q \in Byte : b = a \div 256 /\ q = a % 256 /\ a = 256 * b + q
    BY SMT, Split
<1>3. PICK c \in Nat, p \in Byte : c = b \div 256 /\ p = b % 256 /\ b = 256 * c + p
    BY SMT, Split
<1>4. k \in Nat /\ k <= 2147483647
    BY SMT, Large
<1>5. k \div 65536 = b
    <2>1. PICK m \in Nat : m = 256 * q + r /\ m <= 65535
        BY SMT DEF Byte
    <2>2. k = 65536 * b + m
        BY SMT, <1>1, <1>2, <2>1 DEF Byte
    <2> QED
        BY SMT, <1>4, <2>1, <2>2
<1>6. k \div 16777216 = c /\ c < 128
    <2>1. PICK m \in Nat : m = 65536 * p + 256 * q + r /\ m <= 16777215
        BY SMT DEF Byte
    <2>2. k = 16777216 * c + m
        BY SMT, <1>1, <1>2, <1>3, <2>1 DEF Byte
    <2>3. k \div 16777216 = c
        BY SMT, <1>4, <2>1, <2>2
    <2>4. c < 128
        BY SMT, <1>4, <2>2
    <2> QED
        BY <2>3, <2>4
<1>7. 16777216 * c + 65536 * p + 256 * q + r = k
    BY SMT, <1>1, <1>2, <1>3 DEF Byte
<1>8. c \in Byte
    BY SMT, <1>6 DEF Byte
<1> QED
    BY SMT, <1>1, <1>2, <1>3, <1>5, <1>6, <1>7, <1>8

(* A type and a small number share a byte. *)
LEMMA Shared ==
    ASSUME NEW type \in 0 .. 7, NEW v \in 0 .. 31
    PROVE  32 * type + v \in Byte /\ (32 * type + v) \div 32 = type
           /\ (32 * type + v) % 32 = v
BY SMT DEF Byte

(* The head of an item: its type, and how the number goes on. *)
Alone(h, type, v) == v < 24 /\ Len(h) = 1 /\ h[1] = 32 * type + v /\ h[1] % 32 = v
InOne(h, type, v) ==
    v >= 24 /\ Len(h) = 2 /\ h[1] = 32 * type + 24 /\ h[1] % 32 = 24 /\ h[2] = v
InTwo(h, type, v) ==
    /\ v >= 24 /\ Len(h) = 3 /\ h[1] = 32 * type + 25 /\ h[1] % 32 = 25
    /\ 256 * h[2] + h[3] = v
InFour(h, type, v) ==
    /\ v >= 24 /\ Len(h) = 5 /\ h[1] = 32 * type + 26 /\ h[1] % 32 = 26
    /\ 16777216 * h[2] + 65536 * h[3] + 256 * h[4] + h[5] = v
HeadIs(h, type, v) ==
    /\ h \in Seq(Byte) /\ Len(h) \in Nat /\ Len(h) >= 1 /\ Len(h) <= 5
    /\ h[1] \div 32 = type
    /\ \/ Alone(h, type, v) \/ InOne(h, type, v)
       \/ InTwo(h, type, v) \/ InFour(h, type, v)

LEMMA FewBytes ==
    ASSUME NEW n, n \in {1, 2, 3, 5}
    PROVE  n \in Nat /\ n >= 1 /\ n <= 5
BY SMT

LEMMA Heads ==
    ASSUME NEW type \in 0 .. 7, NEW v \in 0 .. Largest
    PROVE  HeadIs(HeadBytes(type, v), type, v)
<1> DEFINE h == HeadBytes(type, v)
<1>0. v \in Nat
    BY SMT, Large
<1>1. CASE v < 24
    <2>1. h = <<32 * type + v>>
        BY SMT, <1>0, <1>1 DEF HeadBytes
    <2>2. 32 * type + v \in Byte /\ (32 * type + v) \div 32 = type
          /\ (32 * type + v) % 32 = v
        BY SMT, <1>0, <1>1, Shared
    <2>3. h \in Seq(Byte) /\ Len(h) = 1 /\ h[1] = 32 * type + v
        BY SMT, <2>1, <2>2
    <2> HIDE DEF h
    <2>5. Alone(h, type, v)
        BY SMT, <1>1, <2>2, <2>3 DEF Alone
    <2>6. Len(h) \in {1, 2, 3, 5} /\ h \in Seq(Byte)
        BY Zenon, <2>3
    <2>7. h[1] \div 32 = type
        BY Zenon, <2>2, <2>3
    <2> QED
        BY Zenon, <2>5, <2>6, <2>7, FewBytes DEF HeadIs, h
<1>2. CASE 24 <= v /\ v < 256
    <2>1. h = <<32 * type + 24, v>>
        BY SMT, <1>0, <1>2 DEF HeadBytes
    <2>2. 32 * type + 24 \in Byte /\ (32 * type + 24) \div 32 = type
          /\ (32 * type + 24) % 32 = 24 /\ v \in Byte
        BY SMT, <1>0, <1>2, Shared DEF Byte
    <2>3. h \in Seq(Byte) /\ Len(h) = 2 /\ h[1] = 32 * type + 24 /\ h[2] = v
        BY SMT, <2>1, <2>2
    <2> HIDE DEF h
    <2>5. InOne(h, type, v)
        BY SMT, <1>2, <2>2, <2>3 DEF InOne
    <2>6. Len(h) \in {1, 2, 3, 5} /\ h \in Seq(Byte)
        BY Zenon, <2>3
    <2>7. h[1] \div 32 = type
        BY Zenon, <2>2, <2>3
    <2> QED
        BY Zenon, <2>5, <2>6, <2>7, FewBytes DEF HeadIs, h
<1>3. CASE 256 <= v /\ v < 65536
    <2>1. h = <<32 * type + 25, v \div 256, v % 256>>
        BY SMT, <1>0, <1>3 DEF HeadBytes
    <2>2. 32 * type + 25 \in Byte /\ (32 * type + 25) \div 32 = type
          /\ (32 * type + 25) % 32 = 25
        BY SMT, Shared
    <2>3. v \div 256 \in Byte /\ v % 256 \in Byte /\ 256 * (v \div 256) + (v % 256) = v
        BY SMT, <1>0, <1>3, TwoBytes
    <2>4. /\ h \in Seq(Byte) /\ Len(h) = 3 /\ h[1] = 32 * type + 25
          /\ h[2] = v \div 256 /\ h[3] = v % 256
        BY SMT, <2>1, <2>2, <2>3
    <2> HIDE DEF h
    <2>5. InTwo(h, type, v)
        BY SMT, <1>0, <1>3, <2>2, <2>3, <2>4 DEF InTwo
    <2>6. Len(h) \in {1, 2, 3, 5} /\ h \in Seq(Byte)
        BY Zenon, <2>4
    <2>7. h[1] \div 32 = type
        BY Zenon, <2>2, <2>4
    <2> QED
        BY Zenon, <2>5, <2>6, <2>7, FewBytes DEF HeadIs, h
<1>4. CASE v >= 65536
    <2>1. PICK a \in Byte, b \in Byte, c \in Byte, d \in Byte :
             /\ h = <<32 * type + 26, a, b, c, d>>
             /\ 16777216 * a + 65536 * b + 256 * c + d = v
        <3>1. h = <<32 * type + 26, v \div 16777216, (v \div 65536) % 256,
                    (v \div 256) % 256, v % 256>>
            BY SMT, <1>0, <1>4 DEF HeadBytes
        <3> QED
            BY SMT, <3>1, FourBytes
    <2>2. 32 * type + 26 \in Byte /\ (32 * type + 26) \div 32 = type
          /\ (32 * type + 26) % 32 = 26
        BY SMT, Shared
    <2>3. /\ h \in Seq(Byte) /\ Len(h) = 5 /\ h[1] = 32 * type + 26
          /\ h[2] = a /\ h[3] = b /\ h[4] = c /\ h[5] = d
        BY SMT, <2>1, <2>2
    <2> HIDE DEF h
    <2>5. InFour(h, type, v)
        BY SMT, <1>0, <1>4, <2>1, <2>2, <2>3 DEF InFour
    <2>6. Len(h) \in {1, 2, 3, 5} /\ h \in Seq(Byte)
        BY Zenon, <2>3
    <2>7. h[1] \div 32 = type
        BY Zenon, <2>2, <2>3
    <2> QED
        BY Zenon, <2>5, <2>6, <2>7, FewBytes DEF HeadIs, h
<1> QED
    BY SMT, <1>0, <1>1, <1>2, <1>3, <1>4

-----------------------------------------------------------------------------
(* Items: what they are put into a buffer as, and what is read there. *)
IsItem(item) == IsValue(item) \/ \E n \in 0 .. Largest : item = Pairs(n)

LEMMA FourAre ==
    ASSUME NEW bytes \in [1 .. 4 -> Byte]
    PROVE  /\ bytes \in Seq(Byte) /\ Len(bytes) = 4
           /\ bytes[1] \in Byte /\ bytes[2] \in Byte /\ bytes[3] \in Byte /\ bytes[4] \in Byte
<1>1. bytes \in Seq(Byte)
    BY SeqDef, 4 \in Nat
<1>2. Len(bytes) = 4
    BY <1>1, LenProperties, 4 \in Nat
<1> QED
    BY <1>1, <1>2

(* An item is a number with its type, a string, or the bytes of a float. *)
IsNumber(item, type, v) ==
    /\ ItemHead(item) = HeadBytes(type, v) /\ ItemBody(item) = <<>>
    /\ type \in {0, 1, 5, 7} /\ v \in 0 .. Largest /\ (type = 7 => v < 24)
    /\ item = IF type = 1 THEN Whole(-1 - v) ELSE [type |-> type, value |-> <<v>>]

IsText(item) ==
    /\ ItemHead(item) = HeadBytes(3, Len(item.value)) /\ ItemBody(item) = item.value
    /\ IsString(item.value) /\ item = Text(item.value)
IsFloat(item) ==
    /\ ItemHead(item) = <<250>> \o item.value /\ ItemBody(item) = <<>>
    /\ item.value \in [1 .. 4 -> Byte] /\ item = Number(item.value)

LEMMA ItemCases ==
    ASSUME NEW item, IsItem(item)
    PROVE  \/ \E type \in {0, 1, 5, 7}, v \in 0 .. Largest : IsNumber(item, type, v)
           \/ IsText(item)
           \/ IsFloat(item)
<1>1. CASE item.type = 3 /\ item = Text(item.value) /\ IsString(item.value)
    BY <1>1 DEF ItemHead, ItemBody, IsText
<1>2. ASSUME NEW k \in -Largest - 1 .. Largest, item = Whole(k)
      PROVE  \E type \in {0, 1, 5, 7}, v \in 0 .. Largest : IsNumber(item, type, v)
    <2>1. item.type = 0 /\ item.value[1] = k
        BY <1>2 DEF Whole
    <2>2. CASE k < 0
        <3>1. ItemHead(item) = HeadBytes(1, -(k + 1)) /\ ItemBody(item) = <<>>
            BY <2>1, <2>2 DEF ItemHead, ItemBody
        <3>2. -(k + 1) \in 0 .. Largest /\ -1 - (-(k + 1)) = k
            BY <2>2, Large
        <3> QED
            BY <1>2, <3>1, <3>2 DEF IsNumber
    <2>3. CASE ~(k < 0)
        <3>1. ItemHead(item) = HeadBytes(0, k) /\ ItemBody(item) = <<>>
            BY <2>1, <2>3 DEF ItemHead, ItemBody
        <3>2. k \in 0 .. Largest
            BY <2>3
        <3> QED
            BY <1>2, <3>1, <3>2 DEF IsNumber, Whole
    <2> QED
        BY <2>2, <2>3
<1>3. ASSUME NEW k \in {20, 21}, item = [type |-> 7, value |-> <<k>>]
      PROVE  IsNumber(item, 7, k)
    <2>1. item.type = 7 /\ item.value[1] = k /\ Len(item.value) = 1
        BY <1>3
    <2>2. ItemHead(item) = HeadBytes(7, k) /\ ItemBody(item) = <<>>
        BY <2>1 DEF ItemHead, ItemBody
    <2> QED
        BY <1>3, <2>2, Large DEF IsNumber
<1>4. CASE item = Number(item.value) /\ item.value \in [1 .. 4 -> Byte]
    <2>1. item.type = 7 /\ Len(item.value) = 4
        BY <1>4, FourAre DEF Number
    <2> QED
        BY <1>4, <2>1 DEF ItemHead, ItemBody, IsFloat
<1>5. ASSUME NEW n \in 0 .. Largest, item = Pairs(n)
      PROVE  IsNumber(item, 5, n)
    <2>1. item.type = 5 /\ item.value[1] = n
        BY <1>5 DEF Pairs
    <2>2. ItemHead(item) = HeadBytes(5, n) /\ ItemBody(item) = <<>>
        BY <2>1 DEF ItemHead, ItemBody
    <2> QED
        BY <1>5, <2>2 DEF IsNumber, Pairs
<1>6. CASE item \in {Truth(TRUE), Truth(FALSE)}
    <2>1. \E k \in {20, 21} : item = [type |-> 7, value |-> <<k>>]
        BY <1>6 DEF Truth
    <2> QED
        BY <1>3, <2>1, Large
<1>7. CASE item.type = 0 /\ item = Whole(item.value[1])
           /\ item.value[1] \in -Largest - 1 .. Largest
    BY <1>2, <1>7
<1> QED
    BY <1>1, <1>4, <1>5, <1>6, <1>7 DEF IsItem, IsValue

Size(item) == Len(ItemHead(item)) + Len(ItemBody(item))

LEMMA ItemBytes ==
    ASSUME NEW item, IsItem(item)
    PROVE  /\ ItemHead(item) \in Seq(Byte) /\ ItemBody(item) \in Seq(Byte)
           /\ Len(ItemHead(item)) \in Nat /\ Len(ItemHead(item)) >= 1
           /\ Len(ItemBody(item)) \in Nat
<1>1. <<>> \in Seq(Byte) /\ Len(<<>>) = 0
    OBVIOUS
<1>2. ASSUME NEW type \in {0, 1, 5, 7}, NEW v \in 0 .. Largest, IsNumber(item, type, v)
      PROVE  /\ ItemHead(item) \in Seq(Byte) /\ ItemBody(item) = <<>>
             /\ Len(ItemHead(item)) \in Nat /\ Len(ItemHead(item)) >= 1
    <2>1. type \in 0 .. 7 /\ ItemHead(item) = HeadBytes(type, v) /\ ItemBody(item) = <<>>
        BY SMT, <1>2 DEF IsNumber
    <2>2. /\ ItemHead(item) \in Seq(Byte) /\ Len(ItemHead(item)) \in Nat
          /\ Len(ItemHead(item)) >= 1
        BY <2>1, Heads DEF HeadIs
    <2> QED
        BY Zenon, <2>1, <2>2
<1>3. ASSUME IsText(item)
      PROVE  /\ ItemHead(item) \in Seq(Byte) /\ ItemBody(item) \in Seq(Byte)
             /\ Len(ItemHead(item)) \in Nat /\ Len(ItemHead(item)) >= 1
             /\ Len(ItemBody(item)) \in Nat
    <2>1. item.value \in Seq(Byte) /\ Len(item.value) \in 0 .. Largest
        BY SMT, <1>3, Large, LenProperties DEF IsText, IsString
    <2>2. /\ ItemHead(item) \in Seq(Byte) /\ Len(ItemHead(item)) \in Nat
          /\ Len(ItemHead(item)) >= 1
        BY <1>3, <2>1, Heads, 3 \in 0 .. 7 DEF HeadIs, IsText
    <2>3. Len(item.value) \in Nat
        BY <2>1, LenProperties
    <2> QED
        BY Zenon, <1>3, <2>1, <2>2, <2>3 DEF IsText
<1>4. ASSUME IsFloat(item)
      PROVE  ItemHead(item) \in Seq(Byte) /\ Len(ItemHead(item)) = 5 /\ ItemBody(item) = <<>>
    <2>1. item.value \in Seq(Byte) /\ Len(item.value) = 4
        BY <1>4, FourAre DEF IsFloat
    <2>2. <<250>> \in Seq(Byte) /\ Len(<<250>>) = 1
        BY SMT DEF Byte
    <2>3. PICK first \in Seq(Byte) : first = <<250>> /\ Len(first) = 1
        BY Zenon, <2>2
    <2>4. PICK value \in Seq(Byte) : value = item.value /\ Len(value) = 4
        BY Zenon, <2>1
    <2>5. first \o value \in Seq(Byte) /\ Len(first \o value) = 5
        <3>1. /\ first \o value \in Seq(Byte)
              /\ Len(first \o value) = Len(first) + Len(value)
            BY Zenon, ConcatProperties
        <3>2. 1 + 4 = 5
            OBVIOUS
        <3> QED
            BY Zenon, <2>3, <2>4, <3>1, <3>2
    <2>6. ItemHead(item) = first \o value /\ ItemBody(item) = <<>>
        BY Zenon, <1>4, <2>3, <2>4 DEF IsFloat
    <2> QED
        BY Zenon, <2>5, <2>6
<1>5. 5 \in Nat /\ 5 >= 1 /\ 0 \in Nat
    OBVIOUS
<1> QED
    BY Zenon, <1>1, <1>2, <1>3, <1>4, <1>5, ItemCases

(* What comes behind the first byte. *)
LEMMA Behind ==
    ASSUME NEW first \in Seq(Byte), Len(first) = 1, NEW s \in Seq(Byte)
    PROVE  /\ first \o s \in Seq(Byte)
           /\ Len(first \o s) = 1 + Len(s) /\ (first \o s)[1] = first[1]
           /\ \A i \in 1 .. Len(s) : (first \o s)[i + 1] = s[i]
<1>1. Len(s) \in Nat
    BY LenProperties
<1>2. /\ first \o s \in Seq(Byte)
      /\ Len(first \o s) = Len(first) + Len(s)
    BY ConcatProperties
<1>3. \A i \in 1 .. Len(first) + Len(s) :
         (first \o s)[i] = IF i <= Len(first) THEN first[i] ELSE s[i - Len(first)]
    BY ConcatProperties
<1>4. (first \o s)[1] = first[1]
    BY <1>1, <1>3
<1>5. ASSUME NEW i \in 1 .. Len(s) PROVE (first \o s)[i + 1] = s[i]
    <2>1. /\ i + 1 \in 1 .. Len(first) + Len(s)
          /\ ~(i + 1 <= Len(first)) /\ i + 1 - Len(first) = i
        BY <1>1
    <2>2. (first \o s)[i + 1] = s[i + 1 - Len(first)]
        <3>1. PICK j : j = i + 1
            OBVIOUS
        <3>2. (first \o s)[j] = IF j <= Len(first) THEN first[j] ELSE s[j - Len(first)]
            BY <1>3, <2>1, <3>1
        <3>3. ~(j <= Len(first))
            BY Zenon, <2>1, <3>1
        <3>4. (first \o s)[j] = s[j - Len(first)]
            BY <3>2, <3>3
        <3> QED
            BY SMT, <3>1, <3>4
    <2> QED
        BY Zenon, <2>1, <2>2
<1> QED
    BY <1>2, <1>4, <1>5

(* A string that stands in a buffer is cut out of it again. *)
LEMMA Found ==
    ASSUME NEW value \in Seq(Byte), NEW b, NEW m \in Nat,
           \A i \in 1 .. Len(value) : b[m + i - 1] = value[i]
    PROVE  SubSeq(b, m, m + Len(value) - 1) = value
<1>1. Len(value) \in Nat /\ \A i \in 1 .. Len(value) : value[i] \in Byte
    BY LenProperties, ElementOfSeq
<1> DEFINE last == m + Len(value) - 1
<1>2. last \in Int /\ m \in Int /\ last - m + 1 = Len(value)
    BY <1>1
<1>3. \A i \in m .. last : b[i] \in Byte
    <2> TAKE i \in m .. last
    <2>1. i - m + 1 \in 1 .. Len(value) /\ m + (i - m + 1) - 1 = i
        BY <1>1
    <2>2. b[m + (i - m + 1) - 1] = value[i - m + 1]
        BY <2>1
    <2> QED
        BY <1>1, <2>1, <2>2
<1> HIDE DEF last
<1>4. /\ SubSeq(b, m, last) \in Seq(Byte)
      /\ Len(SubSeq(b, m, last)) = IF m <= last THEN last - m + 1 ELSE 0
      /\ \A i \in 1 .. last - m + 1 : SubSeq(b, m, last)[i] = b[m + i - 1]
    BY <1>2, <1>3, SubSeqProperties
<1>5. Len(SubSeq(b, m, last)) = Len(value)
    BY <1>1, <1>2, <1>4
<1>6. \A i \in 1 .. Len(value) : SubSeq(b, m, last)[i] = value[i]
    BY <1>2, <1>4
<1>7. SubSeq(b, m, last) = value
    BY <1>4, <1>5, <1>6, SeqEqual
<1> QED
    BY <1>7 DEF last

(* The item stands in the buffer from k on. *)
Stands(b, k, item) ==
    /\ k \in Nat \ {0} /\ k + Size(item) <= Len(b) + 1
    /\ \A i \in 1 .. Len(ItemHead(item)) : b[k + i - 1] = ItemHead(item)[i]
    /\ \A i \in 1 .. Len(ItemBody(item)) :
          b[k + Len(ItemHead(item)) + i - 1] = ItemBody(item)[i]

(* A head is read as the number that was written. *)
LEMMA ArgumentRead ==
    ASSUME NEW type \in 0 .. 7, NEW v \in 0 .. Largest, NEW h, HeadIs(h, type, v),
           NEW b, NEW k \in Nat, \A i \in 1 .. Len(h) : b[k + i - 1] = h[i]
    PROVE  /\ Argument(b, k) = [v |-> v, next |-> k + Len(h)]
           /\ b[k] = h[1] /\ b[k] \div 32 = type
<1>0. Len(h) \in Nat /\ Len(h) >= 1 /\ h[1] \div 32 = type
    BY DEF HeadIs
<1>1. \A i \in 1 .. 5 : i <= Len(h) => b[k + i - 1] = h[i]
    BY SMT, <1>0
<1>2. b[k] = h[1] /\ b[k] \div 32 = type
    BY SMT, <1>0, <1>1
<1>3. Len(h) >= 2 => b[k + 1] = h[2]
    BY SMT, <1>1
<1>4. Len(h) >= 3 => b[k + 2] = h[3]
    BY SMT, <1>1
<1>5. Len(h) >= 5 => b[k + 3] = h[4] /\ b[k + 4] = h[5]
    <2>1. Len(h) >= 5 => b[k + 4 - 1] = h[4] /\ b[k + 5 - 1] = h[5]
        BY SMT, <1>0, <1>1
    <2>2. k + 4 - 1 = k + 3 /\ k + 5 - 1 = k + 4
        BY SMT
    <2> QED
        BY SMT, <2>1, <2>2
<1>6. ASSUME Alone(h, type, v) PROVE Argument(b, k) = [v |-> v, next |-> k + Len(h)]
    <2>1. v # 24 /\ v # 25 /\ v # 26 /\ b[k] % 32 = v
        BY SMT, <1>2, <1>6, Large DEF Alone
    <2>2. Argument(b, k) = [v |-> v, next |-> k + 1]
        BY SMT, <2>1 DEF Argument
    <2> QED
        BY <1>6, <2>2 DEF Alone
<1>7. ASSUME InOne(h, type, v) PROVE Argument(b, k) = [v |-> v, next |-> k + Len(h)]
    <2>1. Len(h) = 2 /\ b[k] % 32 = 24 /\ b[k + 1] = v
        BY SMT, <1>2, <1>3, <1>7 DEF InOne
    <2> QED
        BY SMT, <2>1 DEF Argument
<1>8. ASSUME InTwo(h, type, v) PROVE Argument(b, k) = [v |-> v, next |-> k + Len(h)]
    <2>1. Len(h) = 3 /\ b[k] % 32 = 25 /\ 256 * b[k + 1] + b[k + 2] = v
        BY SMT, <1>2, <1>3, <1>4, <1>8 DEF InTwo
    <2> QED
        BY SMT, <2>1 DEF Argument
<1>9. ASSUME InFour(h, type, v) PROVE Argument(b, k) = [v |-> v, next |-> k + Len(h)]
    <2>1. /\ Len(h) = 5 /\ b[k] % 32 = 26
          /\ 16777216 * b[k + 1] + 65536 * b[k + 2] + 256 * b[k + 3] + b[k + 4] = v
        BY SMT, <1>2, <1>3, <1>4, <1>5, <1>9 DEF InFour
    <2> QED
        BY SMT, <2>1 DEF Argument
<1> QED
    BY <1>2, <1>6, <1>7, <1>8, <1>9 DEF HeadIs

LEMMA ItemRead ==
    ASSUME NEW item, IsItem(item), NEW b, NEW k, Stands(b, k, item)
    PROVE  ItemAt(b, k) = [item |-> item, next |-> k + Size(item)]
<1> DEFINE h == ItemHead(item)
           body == ItemBody(item)
<1>1. /\ h \in Seq(Byte) /\ body \in Seq(Byte)
      /\ Len(h) \in Nat /\ Len(h) >= 1 /\ Len(body) \in Nat
    BY ItemBytes
<1>2. /\ k \in Nat /\ \A i \in 1 .. Len(h) : b[k + i - 1] = h[i]
      /\ \A i \in 1 .. Len(body) : b[k + Len(h) + i - 1] = body[i]
    BY DEF Stands
<1>3. ASSUME NEW type \in {0, 1, 5, 7}, NEW v \in 0 .. Largest, IsNumber(item, type, v)
      PROVE  ItemAt(b, k) = [item |-> item, next |-> k + Size(item)]
    <2>0. type \in 0 .. 7
        OBVIOUS
    <2>1. /\ h = HeadBytes(type, v) /\ Len(body) = 0
          /\ item = IF type = 1 THEN Whole(-1 - v) ELSE [type |-> type, value |-> <<v>>]
        BY <1>3 DEF IsNumber
    <2>2. HeadIs(h, type, v)
        BY <2>0, <2>1, Heads
    <2> HIDE DEF h, body
    <2>3. /\ Argument(b, k) = [v |-> v, next |-> k + Len(h)]
          /\ b[k] = h[1] /\ b[k] \div 32 = type
        BY <1>2, <2>0, <2>2, ArgumentRead
    <2>4. b[k] # 250
        <3>1. CASE type = 7
            <4>1. v < 24
                BY <1>3, <3>1 DEF IsNumber
            <4>2. v \in Nat /\ ~(v >= 24)
                BY <4>1, Large
            <4>3. h[1] = 32 * 7 + v
                BY <2>2, <3>1, <4>2 DEF HeadIs, Alone, InOne, InTwo, InFour
            <4> QED
                BY SMT, <2>3, <4>1, <4>2, <4>3
        <3>2. CASE type # 7
            BY SMT, <2>3, <3>2
        <3> QED
            BY <3>1, <3>2
    <2>5. Size(item) = Len(h)
        BY <1>1, <2>1 DEF Size, h, body
    <2>6. ItemAt(b, k) = [item |-> item, next |-> k + Len(h)]
        BY SMT, <2>0, <2>1, <2>3, <2>4 DEF ItemAt
    <2> QED
        BY <2>5, <2>6
<1>4. ASSUME IsText(item) PROVE ItemAt(b, k) = [item |-> item, next |-> k + Size(item)]
    <2> DEFINE v == Len(item.value)
    <2>1. h = HeadBytes(3, v) /\ body = item.value /\ item = Text(item.value)
        BY <1>4 DEF IsText
    <2>2. item.value \in Seq(Byte) /\ v \in 0 .. Largest
        BY SMT, <1>4, Large, LenProperties DEF IsText, IsString
    <2>3. HeadIs(h, 3, v) /\ 3 \in 0 .. 7
        BY <2>1, <2>2, Heads, 3 \in 0 .. 7
    <2> HIDE DEF h, body
    <2>4. /\ Argument(b, k) = [v |-> v, next |-> k + Len(h)]
          /\ b[k] = h[1] /\ b[k] \div 32 = 3
        BY <1>2, <2>2, <2>3, ArgumentRead
    <2>5. SubSeq(b, k + Len(h), k + Len(h) + Len(body) - 1) = body
        BY <1>1, <1>2, Found
    <2>6. b[k] # 250
        BY SMT, <2>4
    <2>7. ItemAt(b, k) = [item |-> Text(SubSeq(b, k + Len(h), k + Len(h) + v - 1)),
                          next |-> k + Len(h) + v]
        BY SMT, <2>4, <2>6 DEF ItemAt
    <2>8. k + Size(item) = k + Len(h) + v
        <3>1. Size(item) = Len(h) + v
            BY Zenon, <2>1 DEF Size, h, body
        <3>2. v \in Nat
            BY <1>1, <2>1
        <3> HIDE DEF v
        <3> QED
            BY <1>1, <1>2, <3>1, <3>2
    <2> QED
        BY <2>1, <2>5, <2>7, <2>8
<1>5. ASSUME IsFloat(item) PROVE ItemAt(b, k) = [item |-> item, next |-> k + Size(item)]
    <2>1. h = <<250>> \o item.value /\ body = <<>> /\ item = Number(item.value)
        BY <1>5 DEF IsFloat
    <2>2. item.value \in Seq(Byte) /\ Len(item.value) = 4
        BY <1>5, FourAre DEF IsFloat
    <2> HIDE DEF h, body
    <2>3. <<250>> \in Seq(Byte) /\ Len(<<250>>) = 1 /\ <<250>>[1] = 250
        BY SMT DEF Byte
    <2>4. /\ Len(h) = 1 + Len(item.value) /\ h[1] = <<250>>[1]
          /\ \A i \in 1 .. Len(item.value) : h[i + 1] = item.value[i]
        <3>1. PICK first, value : first = <<250>> /\ value = item.value
            OBVIOUS
        <3>2. PICK all : all = first \o value
            OBVIOUS
        <3>3. /\ Len(all) = 1 + Len(value) /\ all[1] = first[1]
              /\ \A i \in 1 .. Len(value) : all[i + 1] = value[i]
            BY <2>2, <2>3, <3>1, <3>2, Behind
        <3>4. h = all
            BY Zenon, <2>1, <3>1, <3>2
        <3> QED
            BY Zenon, <3>1, <3>3, <3>4
    <2>5. 1 + 4 = 5
        OBVIOUS
    <2>6. Len(h) = 5 /\ h[1] = 250
        BY Zenon, <2>2, <2>3, <2>4, <2>5
    <2>7. b[k] = 250
        BY SMT, <1>2, <2>6
    <2>8. \A i \in 1 .. Len(item.value) : b[k + 1 + i - 1] = item.value[i]
        <3> TAKE i \in 1 .. Len(item.value)
        <3>1. i + 1 \in 1 .. Len(h) /\ k + (i + 1) - 1 = k + 1 + i - 1
            BY <1>2, <2>2, <2>6
        <3>2. b[k + (i + 1) - 1] = h[i + 1]
            BY Zenon, <1>2, <3>1
        <3>3. h[i + 1] = item.value[i]
            BY Zenon, <2>4
        <3> QED
            BY Zenon, <3>1, <3>2, <3>3
    <2>9. SubSeq(b, k + 1, k + 1 + Len(item.value) - 1) = item.value
        BY SMTT(30), <1>2, <2>2, <2>8, Found
    <2>10. k + 1 + Len(item.value) - 1 = k + 4 /\ k + Size(item) = k + 5
        BY <1>1, <1>2, <2>1, <2>2, <2>6 DEF Size, h, body
    <2>11. ItemAt(b, k) = [item |-> Number(SubSeq(b, k + 1, k + 4)), next |-> k + 5]
        BY SMTT(30), <2>7 DEF ItemAt
    <2> QED
        BY <2>1, <2>9, <2>10, <2>11
<1> QED
    BY <1>3, <1>4, <1>5, ItemCases

-----------------------------------------------------------------------------
(* Putting an item into a buffer. *)
LEMMA PutEachFits ==
    ASSUME NEW b \in Seq(Byte), Len(b) <= Capacity, NEW bytes \in Seq(Byte)
    PROVE  /\ PutEach(b, bytes) \in Seq(Byte) /\ Len(PutEach(b, bytes)) <= Capacity
           /\ Len(b) + Len(bytes) <= Capacity => PutEach(b, bytes) = b \o bytes
<1>1. Len(b) \in Nat /\ Len(bytes) \in Nat /\ Capacity \in Nat
    BY LenProperties, BuilderAssumption
<1> DEFINE room == Capacity - Len(b)
<1>2. room \in Nat
    BY <1>1
<1>3. CASE Len(bytes) <= room
    <2>1. PutEach(b, bytes) = b \o bytes
        BY <1>3 DEF PutEach
    <2>2. b \o bytes \in Seq(Byte) /\ Len(b \o bytes) = Len(b) + Len(bytes)
        BY ConcatProperties
    <2>3. Len(b) + Len(bytes) <= Capacity
        BY <1>1, <1>3
    <2> QED
        BY Zenon, <2>1, <2>2, <2>3
<1>4. CASE ~(Len(bytes) <= room)
    <2> DEFINE part == SubSeq(bytes, 1, room)
    <2>1. PutEach(b, bytes) = b \o part
        BY <1>4 DEF PutEach
    <2>2. \A i \in 1 .. room : bytes[i] \in Byte
        BY <1>1, <1>2, <1>4, ElementOfSeq
    <2>3. part \in Seq(Byte) /\ Len(part) = IF 1 <= room THEN room - 1 + 1 ELSE 0
        <3> HIDE DEF room
        <3> QED
            BY <1>2, <2>2, 1 \in Int, room \in Int, SubSeqProperties
    <2>4. Len(part) = room
        BY <1>2, <2>3
    <2> HIDE DEF part
    <2>5. b \o part \in Seq(Byte) /\ Len(b \o part) = Len(b) + Len(part)
        BY <2>3, ConcatProperties
    <2>6. Len(b) + Len(part) <= Capacity /\ ~(Len(b) + Len(bytes) <= Capacity)
        BY <1>1, <1>4, <2>4
    <2> QED
        BY Zenon, <2>1, <2>5, <2>6
<1> QED
    BY <1>3, <1>4

LEMMA PutBytesFits ==
    ASSUME NEW b \in Seq(Byte), Len(b) <= Capacity, NEW bytes \in Seq(Byte)
    PROVE  /\ PutBytes(b, bytes) \in Seq(Byte) /\ Len(PutBytes(b, bytes)) <= Capacity
           /\ Len(b) + Len(bytes) <= Capacity => PutBytes(b, bytes) = b \o bytes
<1>1. Len(b) \in Nat /\ Len(bytes) \in Nat /\ Capacity \in Nat
    BY LenProperties, BuilderAssumption
<1>2. b \o bytes \in Seq(Byte) /\ Len(b \o bytes) = Len(b) + Len(bytes)
    BY ConcatProperties
<1>3. Len(b) + Len(bytes) - 1 < Capacity <=> Len(b) + Len(bytes) <= Capacity
    BY <1>1
<1>4. CASE Len(b) + Len(bytes) <= Capacity
    <2>1. PutBytes(b, bytes) = b \o bytes
        BY <1>3, <1>4 DEF PutBytes
    <2> QED
        BY Zenon, <1>2, <1>4, <2>1
<1>5. CASE ~(Len(b) + Len(bytes) <= Capacity)
    <2>1. PutBytes(b, bytes) = b
        BY <1>3, <1>5 DEF PutBytes
    <2> QED
        BY Zenon, <1>5, <2>1
<1> QED
    BY <1>4, <1>5

LEMMA WriteFits ==
    ASSUME NEW b \in Seq(Byte), Len(b) <= Capacity, NEW item, IsItem(item)
    PROVE  /\ Write(b, item) \in Seq(Byte) /\ Len(Write(b, item)) <= Capacity
           /\ Fits(b, item) =>
                 Write(b, item) = (b \o ItemHead(item)) \o ItemBody(item)
<1> DEFINE h == ItemHead(item)
           body == ItemBody(item)
           first == PutEach(b, h)
<1>1. h \in Seq(Byte) /\ body \in Seq(Byte) /\ Len(h) \in Nat /\ Len(body) \in Nat
    BY ItemBytes
<1>2. Len(b) \in Nat /\ Capacity \in Nat
    BY LenProperties, BuilderAssumption
<1>3. Write(b, item) = PutBytes(first, body)
    BY DEF Write
<1>4. Fits(b, item) <=> Len(b) + Len(h) + Len(body) <= Capacity
    BY DEF Fits
<1> HIDE DEF h, body
<1>5. /\ first \in Seq(Byte) /\ Len(first) <= Capacity
      /\ Len(b) + Len(h) <= Capacity => first = b \o h
    BY <1>1, PutEachFits
<1>6. Len(b \o h) = Len(b) + Len(h)
    BY <1>1, ConcatProperties
<1> HIDE DEF first
<1>7. /\ PutBytes(first, body) \in Seq(Byte) /\ Len(PutBytes(first, body)) <= Capacity
      /\ Len(first) + Len(body) <= Capacity => PutBytes(first, body) = first \o body
    BY <1>1, <1>5, PutBytesFits
<1>8. ASSUME Fits(b, item) PROVE Write(b, item) = (b \o h) \o body
    <2>1. Len(b) + Len(h) <= Capacity
        BY <1>1, <1>2, <1>4, <1>8
    <2>2. first = b \o h /\ Len(first) = Len(b) + Len(h)
        BY Zenon, <1>5, <1>6, <2>1
    <2>3. Len(first) + Len(body) <= Capacity
        BY Zenon, <1>4, <1>8, <2>2
    <2> QED
        BY Zenon, <1>3, <1>7, <2>2, <2>3
<1> QED
    BY Zenon, <1>3, <1>7, <1>8 DEF h, body

(* The one buffer begins with the other. *)
Extends(w, b) ==
    Len(w) >= Len(b) /\ \A i \in 1 .. Len(b) : w[i] = b[i]

LEMMA Stays ==
    ASSUME NEW b \in Seq(Byte), NEW w \in Seq(Byte), Extends(w, b),
           NEW item, IsItem(item), NEW k, Stands(b, k, item)
    PROVE  Stands(w, k, item)
<1>1. /\ Len(b) \in Nat /\ Len(w) \in Nat /\ Len(w) >= Len(b)
      /\ Len(ItemHead(item)) \in Nat /\ Len(ItemBody(item)) \in Nat
    BY LenProperties, ItemBytes DEF Extends
<1>2. k \in Nat \ {0} /\ k + Len(ItemHead(item)) + Len(ItemBody(item)) <= Len(b) + 1
    BY <1>1 DEF Stands, Size
<1>3. k + Size(item) <= Len(w) + 1
    BY <1>1, <1>2 DEF Size
<1>4. ASSUME NEW i \in 1 .. Len(ItemHead(item))
      PROVE  w[k + i - 1] = ItemHead(item)[i]
    <2>1. k + i - 1 \in 1 .. Len(b)
        BY <1>1, <1>2
    <2> QED
        BY <2>1 DEF Extends, Stands
<1>5. ASSUME NEW i \in 1 .. Len(ItemBody(item))
      PROVE  w[k + Len(ItemHead(item)) + i - 1] = ItemBody(item)[i]
    <2>1. k + Len(ItemHead(item)) + i - 1 \in 1 .. Len(b)
        BY <1>1, <1>2
    <2> QED
        BY <2>1 DEF Extends, Stands
<1> QED
    BY <1>2, <1>3, <1>4, <1>5 DEF Stands

LEMMA Standing ==
    ASSUME NEW b \in Seq(Byte), NEW item, IsItem(item), NEW w,
           w = (b \o ItemHead(item)) \o ItemBody(item)
    PROVE  /\ w \in Seq(Byte) /\ Len(w) = Len(b) + Size(item) /\ Extends(w, b)
           /\ Stands(w, Len(b) + 1, item)
<1> DEFINE h == ItemHead(item)
           body == ItemBody(item)
           first == b \o h
<1>1. /\ h \in Seq(Byte) /\ body \in Seq(Byte) /\ Len(h) \in Nat /\ Len(body) \in Nat
      /\ Len(b) \in Nat /\ Size(item) = Len(h) + Len(body) /\ w = first \o body
    BY ItemBytes, LenProperties DEF Size
<1> HIDE DEF h, body
<1>2. first \in Seq(Byte) /\ Len(first) = Len(b) + Len(h)
    BY <1>1, ConcatProperties
<1>3. \A i \in 1 .. Len(b) + Len(h) :
         first[i] = IF i <= Len(b) THEN b[i] ELSE h[i - Len(b)]
    BY <1>1, ConcatProperties
<1> HIDE DEF first
<1>4. w \in Seq(Byte) /\ Len(w) = Len(first) + Len(body)
    BY <1>1, <1>2, ConcatProperties
<1>5. \A i \in 1 .. Len(first) + Len(body) :
         w[i] = IF i <= Len(first) THEN first[i] ELSE body[i - Len(first)]
    BY <1>1, <1>2, ConcatProperties
<1>6. ASSUME NEW i \in 1 .. Len(b) PROVE w[i] = b[i]
    <2>1. i \in 1 .. Len(first) + Len(body) /\ i <= Len(first) /\ i <= Len(b)
          /\ i \in 1 .. Len(b) + Len(h)
        BY <1>1, <1>2
    <2>2. w[i] = first[i]
        BY <1>5, <2>1
    <2>3. first[i] = b[i]
        BY <1>3, <2>1
    <2> QED
        BY <2>2, <2>3
<1>7. ASSUME NEW i \in 1 .. Len(h) PROVE w[Len(b) + 1 + i - 1] = h[i]
    <2>1. PICK j : j = Len(b) + 1 + i - 1
        OBVIOUS
    <2>2. /\ j \in 1 .. Len(first) + Len(body) /\ j <= Len(first)
          /\ j \in 1 .. Len(b) + Len(h) /\ ~(j <= Len(b)) /\ j - Len(b) = i
        BY <1>1, <1>2, <2>1
    <2>3. w[j] = first[j]
        BY <1>5, <2>2
    <2>4. first[j] = h[j - Len(b)]
        BY <1>3, <2>2
    <2> QED
        BY Zenon, <2>1, <2>2, <2>3, <2>4
<1>8. ASSUME NEW i \in 1 .. Len(body) PROVE w[Len(b) + 1 + Len(h) + i - 1] = body[i]
    <2>1. PICK j : j = Len(b) + 1 + Len(h) + i - 1
        OBVIOUS
    <2>2. /\ j \in 1 .. Len(first) + Len(body)
          /\ ~(j <= Len(first)) /\ j - Len(first) = i
        BY <1>1, <1>2, <2>1
    <2>3. w[j] = body[j - Len(first)]
        BY <1>5, <2>2
    <2> QED
        BY Zenon, <2>1, <2>2, <2>3
<1>9. Len(w) = Len(b) + Size(item) /\ Len(w) >= Len(b)
    BY <1>1, <1>2, <1>4
<1>10. Len(b) + 1 \in Nat \ {0} /\ Len(b) + 1 + Size(item) <= Len(w) + 1
    BY <1>1, <1>9
<1>11. Stands(w, Len(b) + 1, item)
    BY Zenon, <1>7, <1>8, <1>10 DEF Stands, h, body
<1> QED
    BY Zenon, <1>4, <1>6, <1>9, <1>11 DEF Extends

-----------------------------------------------------------------------------
(* What is true of a builder: as long as there was room for everything its
   items stand one behind the other, from the first byte to the end. *)
Item == [type : 0 .. 7, value : Seq(Int)]

NextAt(b, items, i) == IF i = Len(items) THEN Len(b) + 1 ELSE items[i + 1].at

Laid(b, items) ==
    /\ items \in Seq([item : Item, at : Nat])
    /\ (IF items = <<>> THEN Len(b) + 1 ELSE items[1].at) = 1
    /\ \A i \in 1 .. Len(items) :
          /\ IsItem(items[i].item) /\ Stands(b, items[i].at, items[i].item)
          /\ items[i].at + Size(items[i].item) = NextAt(b, items, i)

BuilderOK(s) ==
    /\ s.bytes \in Seq(Byte) /\ Len(s.bytes) <= Capacity
    /\ s.full \in BOOLEAN
    /\ ~s.full => Laid(s.bytes, s.items)

LEMMA ItemType == ASSUME NEW item, IsItem(item) PROVE item \in Item
<1>0. 0 \in 0 .. 7 /\ 3 \in 0 .. 7 /\ 5 \in 0 .. 7 /\ 7 \in 0 .. 7
      /\ 20 \in Int /\ 21 \in Int
    OBVIOUS
<1>1. ASSUME NEW v \in Int, NEW type \in 0 .. 7
      PROVE  [type |-> type, value |-> <<v>>] \in Item
    BY <1>1 DEF Item
<1>2. ASSUME NEW s \in Seq(Byte), NEW type \in 0 .. 7
      PROVE  [type |-> type, value |-> s] \in Item
    <2>1. PICK n \in Nat : s \in [1 .. n -> Byte]
        BY SeqDef
    <2>2. Byte \subseteq Int
        BY DEF Byte
    <2>3. s \in [1 .. n -> Int]
        BY <2>1, <2>2
    <2>4. s \in Seq(Int)
        BY <2>3, SeqDef
    <2> QED
        BY <2>4 DEF Item
<1>3. CASE \E n \in 0 .. Largest : item = Pairs(n)
    <2>1. PICK n \in Int : item = Pairs(n)
        BY <1>3, Large
    <2> QED
        BY Zenon, <1>0, <1>1, <2>1 DEF Pairs
<1>4. CASE item.type = 3 /\ item = Text(item.value) /\ IsString(item.value)
    <2>1. PICK s \in Seq(Byte) : item = Text(s)
        BY <1>4 DEF IsString
    <2> QED
        BY Zenon, <1>0, <1>2, <2>1 DEF Text
<1>5. CASE item.type = 0 /\ item = Whole(item.value[1])
           /\ item.value[1] \in -Largest - 1 .. Largest
    <2>1. item.value[1] \in Int
        BY <1>5, Large
    <2> QED
        BY Zenon, <1>0, <1>1, <1>5, <2>1 DEF Whole
<1>6. CASE item \in {Truth(TRUE), Truth(FALSE)}
    BY Zenon, <1>0, <1>1, <1>6 DEF Truth
<1>7. CASE item = Number(item.value) /\ item.value \in [1 .. 4 -> Byte]
    <2>1. PICK s \in Seq(Byte) : item = Number(s)
        BY <1>7, FourAre
    <2> QED
        BY Zenon, <1>0, <1>2, <2>1 DEF Number
<1> QED
    BY <1>3, <1>4, <1>5, <1>6, <1>7 DEF IsItem, IsValue

LEMMA LaidOn ==
    ASSUME NEW b \in Seq(Byte), NEW items, Laid(b, items), NEW item, IsItem(item),
           NEW w, w = (b \o ItemHead(item)) \o ItemBody(item),
           NEW last, last = [item |-> item, at |-> Len(b) + 1],
           NEW more, more = Append(items, last)
    PROVE  Laid(w, more)
<1> DEFINE n == Len(items)
           S == [item : Item, at : Nat]
<1>1. items \in Seq(S) /\ n \in Nat /\ Len(b) \in Nat
    BY LenProperties DEF Laid
<1>2. last \in S /\ last.item = item /\ last.at = Len(b) + 1
    BY <1>1, ItemType
<1>3. /\ more \in Seq(S) /\ Len(more) = n + 1 /\ more # <<>>
      /\ \A i \in 1 .. n : more[i] = items[i]
      /\ more[n + 1] = last
    <2> HIDE DEF S
    <2> QED
        BY <1>1, <1>2, AppendProperties
<1> HIDE DEF n, S
<1>4. /\ w \in Seq(Byte) /\ Len(w) = Len(b) + Size(item) /\ Extends(w, b)
      /\ Stands(w, Len(b) + 1, item)
    BY Standing
<1>5. /\ (IF items = <<>> THEN Len(b) + 1 ELSE items[1].at) = 1
      /\ \A i \in 1 .. n :
            /\ IsItem(items[i].item) /\ Stands(b, items[i].at, items[i].item)
            /\ items[i].at + Size(items[i].item) = NextAt(b, items, i)
    BY Zenon DEF Laid, n
<1>6. more[1].at = 1
    <2>1. CASE items = <<>>
        <3>1. n = 0 /\ n + 1 = 1
            BY <2>1 DEF n
        <3> QED
            BY <1>2, <1>3, <1>5, <2>1, <3>1
    <2>2. CASE items # <<>>
        <3>1. 1 \in 1 .. n
            BY <1>1, <2>2, EmptySeq DEF n
        <3> QED
            BY Zenon, <1>3, <1>5, <2>2, <3>1
    <2> QED
        BY <2>1, <2>2
<1>7. ASSUME NEW i \in 1 .. n
      PROVE  /\ IsItem(more[i].item) /\ Stands(w, more[i].at, more[i].item)
             /\ more[i].at + Size(more[i].item) = NextAt(w, more, i)
    <2>1. more[i] = items[i]
        BY <1>3
    <2>2. Stands(w, items[i].at, items[i].item)
        BY Zenon, <1>4, <1>5, Stays
    <2>3. NextAt(w, more, i) = more[i + 1].at
        <3>1. i # n + 1
            BY <1>1
        <3> QED
            BY Zenon, <1>3, <3>1 DEF NextAt
    <2>4. NextAt(b, items, i) = more[i + 1].at
        <3>1. CASE i = n
            BY Zenon, <1>2, <1>3, <3>1 DEF NextAt, n
        <3>2. CASE i # n
            <4>1. i + 1 \in 1 .. n
                BY <1>1, <3>2
            <4> QED
                BY Zenon, <1>3, <3>2, <4>1 DEF NextAt, n
        <3> QED
            BY <3>1, <3>2
    <2> QED
        BY Zenon, <1>5, <2>1, <2>2, <2>3, <2>4
<1>8. /\ IsItem(last.item) /\ Stands(w, last.at, last.item)
      /\ last.at + Size(last.item) = NextAt(w, more, n + 1)
    <2>1. NextAt(w, more, n + 1) = Len(w) + 1
        BY Zenon, <1>3 DEF NextAt
    <2>2. Size(item) \in Nat
        BY ItemBytes DEF Size
    <2>3. Len(b) + 1 + Size(item) = Len(w) + 1
        BY <1>1, <1>4, <2>2
    <2> QED
        BY Zenon, <1>2, <1>4, <2>1, <2>3
<1>9. \A i \in 1 .. Len(more) :
         /\ IsItem(more[i].item) /\ Stands(w, more[i].at, more[i].item)
         /\ more[i].at + Size(more[i].item) = NextAt(w, more, i)
    <2> TAKE i \in 1 .. Len(more)
    <2>1. i \in 1 .. n \/ i = n + 1
        BY <1>1, <1>3
    <2> QED
        BY Zenon, <1>3, <1>7, <1>8, <2>1
<1> QED
    BY Zenon, <1>3, <1>6, <1>9 DEF Laid, S

LEMMA PutOK ==
    ASSUME NEW s, BuilderOK(s), NEW item, IsItem(item)
    PROVE  BuilderOK(Put(s, item))
<1> DEFINE w == Write(s.bytes, item)
           t == Put(s, item)
           full == s.full \/ ~Fits(s.bytes, item)
           last == [item |-> item, at |-> Len(s.bytes) + 1]
<1>1. /\ t.bytes = w /\ t.full = full
      /\ t.items = IF full THEN <<>> ELSE Append(s.items, last)
    BY Zenon DEF Put
<1>2. full \in BOOLEAN
    BY Zenon DEF BuilderOK
<1>3. s.bytes \in Seq(Byte) /\ Len(s.bytes) <= Capacity
    BY DEF BuilderOK
<1>4. /\ w \in Seq(Byte) /\ Len(w) <= Capacity
      /\ Fits(s.bytes, item) => w = (s.bytes \o ItemHead(item)) \o ItemBody(item)
    BY <1>3, WriteFits
<1>5. ASSUME ~full PROVE Laid(w, Append(s.items, last))
    <2>1. Laid(s.bytes, s.items) /\ Fits(s.bytes, item)
        BY Zenon, <1>5 DEF BuilderOK
    <2>2. w = (s.bytes \o ItemHead(item)) \o ItemBody(item)
        BY Zenon, <1>4, <2>1
    <2> HIDE DEF w
    <2> QED
        BY Zenon, <1>3, <2>1, <2>2, LaidOn
<1> HIDE DEF t, w, full, last
<1>6. BuilderOK(t)
    BY Zenon, <1>1, <1>2, <1>4, <1>5 DEF BuilderOK
<1> QED
    BY <1>6 DEF t

LEMMA EmptyOK == BuilderOK(Empty)
<1>1. <<>> \in Seq(Byte) /\ Len(<<>>) = 0 /\ 0 <= Capacity
    BY BuilderAssumption
<1>2. Laid(<<>>, <<>>)
    BY DEF Laid
<1> QED
    BY <1>1, <1>2 DEF BuilderOK, Empty

LEMMA PairOK ==
    ASSUME NEW s, BuilderOK(s), NEW name, IsString(name), NEW item, IsItem(item)
    PROVE  BuilderOK(PutPair(s, name, item))
<1>1. IsItem(Text(name))
    BY DEF IsItem, IsValue, Text
<1>2. BuilderOK(Put(s, Text(name)))
    BY <1>1, PutOK
<1> QED
    BY <1>2, PutOK DEF PutPair

LEMMA GPSOK ==
    ASSUME NEW s, BuilderOK(s), NEW name, IsString(name),
           NEW fix \in [1 .. 3 -> [1 .. 4 -> Byte]]
    PROVE  BuilderOK(PutGPS(s, name, fix))
<1> DEFINE map == PutPair(s, name, Pairs(3))
           latitude == PutPair(map, Axes[1], Number(fix[1]))
           longitude == PutPair(latitude, Axes[2], Number(fix[2]))
<1>1. \A n \in 1 .. 3 : IsString(Axes[n])
    BY BuilderAssumption DEF IsString, Byte
<1>2. \A n \in 1 .. 3 : IsItem(Number(fix[n]))
    <2> TAKE n \in 1 .. 3
    <2>1. fix[n] \in [1 .. 4 -> Byte] /\ Number(fix[n]).value = fix[n]
        BY DEF Number
    <2> QED
        BY Zenon, <2>1 DEF IsItem, IsValue
<1>3. IsItem(Pairs(3))
    <2>1. 3 \in 0 .. Largest
        BY Large
    <2> QED
        BY Zenon, <2>1 DEF IsItem
<1>4. 1 \in 1 .. 3 /\ 2 \in 1 .. 3 /\ 3 \in 1 .. 3
    OBVIOUS
<1>5. BuilderOK(map)
    BY <1>3, PairOK
<1> HIDE DEF map
<1>6. BuilderOK(latitude)
    BY Zenon, <1>1, <1>2, <1>4, <1>5, PairOK
<1> HIDE DEF latitude
<1>7. BuilderOK(longitude)
    BY Zenon, <1>1, <1>2, <1>4, <1>6, PairOK
<1> HIDE DEF longitude
<1>8. BuilderOK(PutPair(longitude, Axes[3], Number(fix[3])))
    BY Zenon, <1>1, <1>2, <1>4, <1>7, PairOK
<1> QED
    BY Zenon, <1>8 DEF PutGPS, map, latitude, longitude

LEMMA AddFits ==
    ASSUME NEW b \in Seq(Byte), Len(b) <= MaxSize, NEW bytes \in Seq(Byte)
    PROVE  Add(b, bytes) \in Seq(Byte) /\ Len(Add(b, bytes)) <= MaxSize
<1>1. Len(b) \in Nat /\ Len(bytes) \in Nat /\ MaxSize \in Nat
    BY LenProperties, BuilderAssumption
<1>2. b \o bytes \in Seq(Byte) /\ Len(b \o bytes) = Len(b) + Len(bytes)
    BY ConcatProperties
<1> QED
    BY <1>1, <1>2 DEF Add

-----------------------------------------------------------------------------
(* Digits and bytes. *)
LEMMA Halves ==
    ASSUME NEW k \in Nat
    PROVE  /\ (2 * k - 1) % 2 = 1 /\ (2 * k - 1 + 1) \div 2 = k
           /\ (2 * k) % 2 = 0 /\ (2 * k) \div 2 = k
BY SMT

LEMMA Nibbles ==
    ASSUME NEW a \in Byte
    PROVE  /\ a \div 16 \in 0 .. 15 /\ a % 16 \in 0 .. 15
           /\ 16 * (a \div 16) + (a % 16) = a
BY SMT DEF Byte

LEMMA DigitsAre ==
    ASSUME NEW b \in Seq(Byte)
    PROVE  Digits(b) \in Seq(0 .. 15) /\ Len(Digits(b)) = 2 * Len(b)
<1>1. Len(b) \in Nat /\ \A i \in 1 .. Len(b) : b[i] \in Byte
    BY LenProperties, ElementOfSeq
<1> DEFINE n == 2 * Len(b)
<1>2. n \in Nat
    BY <1>1
<1>3. \A k \in 1 .. n :
         (IF k % 2 = 1 THEN b[(k + 1) \div 2] \div 16 ELSE b[k \div 2] % 16) \in 0 .. 15
    <2> TAKE k \in 1 .. n
    <2>1. CASE k % 2 = 1
        <3>1. (k + 1) \div 2 \in 1 .. Len(b)
            BY SMT, <1>1, <2>1
        <3> QED
            BY <1>1, <2>1, <3>1, Nibbles
    <2>2. CASE k % 2 # 1
        <3>1. k \div 2 \in 1 .. Len(b)
            BY SMT, <1>1, <2>2
        <3> QED
            BY <1>1, <2>2, <3>1, Nibbles
    <2> QED
        BY <2>1, <2>2
<1>4. Digits(b) \in [1 .. n -> 0 .. 15]
    BY Zenon, <1>3 DEF Digits
<1> HIDE DEF n
<1>5. Digits(b) \in Seq(0 .. 15)
    BY <1>2, <1>4, SeqDef
<1>6. Len(Digits(b)) = n
    BY <1>2, <1>4, <1>5, LenProperties
<1> QED
    BY <1>5, <1>6 DEF n

LEMMA BytesBack ==
    ASSUME NEW b \in Seq(Byte)
    PROVE  Bytes(Digits(b)) = b
<1>1. Len(b) \in Nat /\ \A i \in 1 .. Len(b) : b[i] \in Byte
    BY LenProperties, ElementOfSeq
<1>2. Len(Digits(b)) \div 2 = Len(b)
    BY <1>1, DigitsAre, Halves
<1>3. ASSUME NEW k \in 1 .. Len(b)
      PROVE  16 * Digits(b)[2 * k - 1] + Digits(b)[2 * k] = b[k]
    <2>1. k \in Nat /\ 2 * k - 1 \in 1 .. 2 * Len(b) /\ 2 * k \in 1 .. 2 * Len(b)
        BY <1>1
    <2>2. PICK i, j : i = 2 * k - 1 /\ j = 2 * k
        OBVIOUS
    <2>3. /\ i \in 1 .. 2 * Len(b) /\ j \in 1 .. 2 * Len(b)
          /\ i % 2 = 1 /\ (i + 1) \div 2 = k /\ j % 2 # 1 /\ j \div 2 = k
        BY SMT, <2>1, <2>2, Halves
    <2>4. Digits(b)[i] = b[k] \div 16 /\ Digits(b)[j] = b[k] % 16
        BY Zenon, <2>3 DEF Digits
    <2> QED
        BY <1>1, <2>2, <2>4, Nibbles
<1>4. Bytes(Digits(b)) = [k \in 1 .. Len(b) |-> b[k]]
    BY Zenon, <1>2, <1>3 DEF Bytes
<1> QED
    BY <1>4, LenProperties

-----------------------------------------------------------------------------
(* Readings and packets.  What the sketch reads is a reading, but also the
   temperature that says there is none. *)
Said == NoTemperature .. Hottest
Sampled ==
    [light : Level, loudness : Level, motion : {0, 1}, temperature : Said,
     humidity : Humidity, pressure : Pressure, battery : Millivolts,
     airquality : Quality]

LEMMA Fields ==
    ASSUME NEW L, NEW M, NEW T, NEW H, NEW P, NEW B, NEW Q,
           NEW s \in [light : L, loudness : L, motion : M, temperature : T,
                     humidity : H, pressure : P, battery : B, airquality : Q]
    PROVE  /\ s.light \in L /\ s.loudness \in L /\ s.motion \in M /\ s.temperature \in T
           /\ s.humidity \in H /\ s.pressure \in P /\ s.battery \in B /\ s.airquality \in Q
           /\ s = [light |-> s.light, loudness |-> s.loudness, motion |-> s.motion,
                   temperature |-> s.temperature, humidity |-> s.humidity,
                   pressure |-> s.pressure, battery |-> s.battery,
                   airquality |-> s.airquality]
<1>1. /\ s.light \in L /\ s.loudness \in L /\ s.motion \in M /\ s.temperature \in T
      /\ s.humidity \in H /\ s.pressure \in P /\ s.battery \in B /\ s.airquality \in Q
    BY Zenon
<1>2. s = [light |-> s.light, loudness |-> s.loudness, motion |-> s.motion,
           temperature |-> s.temperature, humidity |-> s.humidity,
           pressure |-> s.pressure, battery |-> s.battery, airquality |-> s.airquality]
    BY SMT
<1> QED
    BY <1>1, <1>2

LEMMA BoundTypes == NoTemperature \in Int /\ Hottest \in Int /\ Highest \in Nat /\ Fullest \in Nat
BY SMT DEF NoTemperature, Hottest, Highest, Fullest

LEMMA Bounds == /\ NoTemperature = -27300 /\ Hottest = 38220
                /\ Highest < 16777216 /\ Fullest < 65536
BY SMT DEF NoTemperature, Hottest, Highest, Fullest

LEMMA Temperatures ==
    ASSUME NEW t
    PROVE  /\ t \in NoTemperature .. Hottest => t \in Int /\ t >= -27300 /\ t <= 38220
           /\ t \in Int /\ t >= -27300 /\ t <= 38220 => t \in NoTemperature .. Hottest
<1>1. ASSUME t \in NoTemperature .. Hottest
      PROVE  t \in Int /\ NoTemperature <= t /\ t <= Hottest
    BY <1>1, BoundTypes
<1>2. ASSUME t \in Int, NoTemperature <= t, t <= Hottest
      PROVE  t \in NoTemperature .. Hottest
    BY <1>2, BoundTypes
<1>3. ASSUME t \in NoTemperature .. Hottest
      PROVE  t \in Int /\ t >= -27300 /\ t <= 38220
    <2>1. t \in Int /\ NoTemperature <= t /\ t <= Hottest
        BY <1>1, <1>3
    <2> QED
        BY SMT, <2>1, Bounds
<1>4. ASSUME t \in Int, t >= -27300, t <= 38220
      PROVE  t \in NoTemperature .. Hottest
    <2>1. NoTemperature <= t /\ t <= Hottest
        BY SMT, <1>4, Bounds
    <2> QED
        BY <1>2, <1>4, <2>1
<1> QED
    BY <1>3, <1>4

IsWarm(t) == t > -20000

LEMMA Warmth ==
    ASSUME NEW bmp \in Int, bmp <= Hottest,
           NEW sht \in Int, sht >= NoTemperature, sht <= Hottest
    PROVE  /\ ReadTemperature(bmp, sht) \in NoTemperature .. Hottest
           /\ IsWarm(bmp) /\ (sht = bmp \/ sht = NoTemperature)
                => ReadTemperature(bmp, sht) = bmp
<1> DEFINE t == ReadTemperature(bmp, sht)
<1>0. bmp <= 38220 /\ sht >= -27300 /\ sht <= 38220
    BY SMT, Bounds
<1>1. CASE bmp > -20000 /\ sht > -20000
    <2>1. t = (bmp + sht) \div 2
        BY SMT, <1>1 DEF ReadTemperature
    <2>2. t \in Int /\ t >= -27300 /\ t <= 38220
        BY SMT, <1>0, <1>1, <2>1
    <2>3. sht = bmp => t = bmp
        BY SMT, <2>1
    <2>4. sht # NoTemperature
        BY SMT, <1>1, Bounds, BoundTypes
    <2> QED
        BY <2>2, <2>3, <2>4, Temperatures
<1>2. CASE bmp > -20000 /\ ~(sht > -20000)
    <2>1. t = bmp /\ t \in Int /\ t >= -27300 /\ t <= 38220
        BY SMT, <1>0, <1>2 DEF ReadTemperature
    <2> QED
        BY <2>1, Temperatures
<1>3. CASE ~(bmp > -20000) /\ sht > -20000
    <2>1. t = sht
        BY SMT, <1>3 DEF ReadTemperature
    <2> QED
        BY SMT, <1>0, <1>3, <2>1, Temperatures DEF IsWarm
<1>4. CASE ~(bmp > -20000) /\ ~(sht > -20000)
    <2>1. t = NoTemperature
        BY SMT, <1>4 DEF ReadTemperature
    <2>2. t \in Int /\ t >= -27300 /\ t <= 38220
        BY SMT, <2>1, Bounds, BoundTypes
    <2> QED
        BY SMT, <1>4, <2>2, Temperatures DEF IsWarm
<1> QED
    BY <1>1, <1>2, <1>3, <1>4

(* Two bytes of a number that fits. *)
LEMMA Pair ==
    ASSUME NEW k \in Nat, k < 65536
    PROVE  /\ ByteOf(k, 256) \in Byte /\ ByteOf(k, 1) \in Byte
           /\ 256 * ByteOf(k, 256) + ByteOf(k, 1) = k
<1>1. PICK a \in Nat, r \in Byte : a = k \div 256 /\ r = k % 256 /\ k = 256 * a + r
    BY Split
<1>2. a \in Byte
    BY SMT, <1>1 DEF Byte
<1>3. a % 256 = a
    BY SMT, <1>2 DEF Byte
<1>4. k \div 1 = k
    BY SMT
<1> QED
    BY <1>1, <1>2, <1>3, <1>4 DEF ByteOf

LEMMA Triple ==
    ASSUME NEW k \in Nat, k < 16777216
    PROVE  /\ ByteOf(k, 65536) \in Byte /\ ByteOf(k, 256) \in Byte /\ ByteOf(k, 1) \in Byte
           /\ 65536 * ByteOf(k, 65536) + 256 * ByteOf(k, 256) + ByteOf(k, 1) = k
<1>1. PICK a \in Nat, r \in Byte : a = k \div 256 /\ r = k % 256 /\ k = 256 * a + r
    BY SMT, Split
<1>2. PICK b \in Nat, q \in Byte : b = a \div 256 /\ q = a % 256 /\ a = 256 * b + q
    BY SMT, Split
<1>3. k \div 65536 = b
    <2>1. PICK m \in Nat : m = 256 * q + r /\ m <= 65535
        BY SMT DEF Byte
    <2>2. k = 65536 * b + m
        BY SMT, <1>1, <1>2, <2>1 DEF Byte
    <2> QED
        BY SMT, <2>1, <2>2
<1>4. b \in Byte
    BY SMT, <1>1, <1>2 DEF Byte
<1>5. b % 256 = b
    BY SMT, <1>4 DEF Byte
<1>6. k \div 1 = k
    BY SMT
<1>7. 65536 * b + 256 * q + r = k
    BY SMT, <1>1, <1>2 DEF Byte
<1> QED
    BY SMT, <1>1, <1>2, <1>3, <1>4, <1>5, <1>6, <1>7 DEF ByteOf

LEMMA Signed ==
    ASSUME NEW k \in Humidity
    PROVE  ByteOf(k, 1) \in Byte /\ SignedByte(ByteOf(k, 1)) = k
BY SMT DEF ByteOf, SignedByte, Byte, Humidity

(* The 16 bits of a temperature are cut to a signed number and read as an
   unsigned one. *)
LEMMA Cut ==
    ASSUME NEW t \in NoTemperature .. Hottest
    PROVE  /\ ByteOf(ConvertedTemp(t), 256) \in Byte /\ ByteOf(ConvertedTemp(t), 1) \in Byte
           /\ 256 * ByteOf(ConvertedTemp(t), 256) + ByteOf(ConvertedTemp(t), 1) = t + 27315
<1>0. t \in Int /\ t >= -27300 /\ t <= 38220
    BY Temperatures
<1>1. PICK u \in Nat : u = t + 27315 /\ u < 65536
    BY SMT, <1>0
<1>2. u % 65536 = u
    BY SMT, <1>1
<1>3. CASE u < 32768
    <2>1. ConvertedTemp(t) = u
        BY SMT, <1>1, <1>2, <1>3 DEF ConvertedTemp, Int16
    <2>2. 256 * ByteOf(u, 256) + ByteOf(u, 1) = t + 27315
        BY Pair, <1>1
    <2>3. ByteOf(u, 256) \in Byte /\ ByteOf(u, 1) \in Byte
        BY Pair, <1>1
    <2> QED
        BY SMT, <1>1, <2>1, <2>2, <2>3
<1>4. CASE ~(u < 32768)
    <2>1. PICK c \in Int : ConvertedTemp(t) = c /\ c = u - 65536
        BY SMT, <1>1, <1>2, <1>4 DEF ConvertedTemp, Int16
    <2>2. PICK a \in Nat, r \in Byte : a = u \div 256 /\ r = u % 256 /\ u = 256 * a + r
        BY SMT, Split
    <2>3. a \in Byte
        BY SMT, <1>1, <2>2 DEF Byte
    <2>4. c \div 256 = a - 256 /\ c % 256 = r
        BY SMT, <2>1, <2>2, <2>3 DEF Byte
    <2>5. (a - 256) % 256 = a /\ c \div 1 = c
        BY SMT, <2>3 DEF Byte
    <2>6. ByteOf(c, 256) = a /\ ByteOf(c, 1) = r
        BY SMT, <2>4, <2>5 DEF ByteOf
    <2> QED
        BY SMT, <1>1, <2>1, <2>2, <2>3, <2>6 DEF Byte
<1> QED
    BY <1>3, <1>4

LEMMA Fourteen ==
    ASSUME NEW b1 \in Byte, NEW b2 \in Byte, NEW b3 \in Byte, NEW b4 \in Byte,
           NEW b5 \in Byte, NEW b6 \in Byte, NEW b7 \in Byte, NEW b8 \in Byte,
           NEW b9 \in Byte, NEW b10 \in Byte, NEW b11 \in Byte, NEW b12 \in Byte,
           NEW b13 \in Byte, NEW b14 \in Byte,
           NEW p, p = <<b1, b2, b3, b4, b5, b6, b7, b8, b9, b10, b11, b12, b13, b14>>
    PROVE  /\ p \in Seq(Byte) /\ Len(p) = 14
           /\ p[1] = b1 /\ p[2] = b2 /\ p[3] = b3 /\ p[4] = b4 /\ p[5] = b5
           /\ p[6] = b6 /\ p[7] = b7 /\ p[8] = b8 /\ p[9] = b9 /\ p[10] = b10
           /\ p[11] = b11 /\ p[12] = b12 /\ p[13] = b13 /\ p[14] = b14
BY SMT

LEMMA Ranges ==
    ASSUME NEW k
    PROVE  /\ k \in Level => k \in Nat /\ k < 65536
           /\ k \in Millivolts => k \in Nat /\ k < 65536
           /\ k \in Pressure => k \in Nat /\ k < 16777216
           /\ k \in {0, 1} => k \in Humidity
           /\ k \in Quality => k \in Humidity
<1>1. ASSUME k \in Level PROVE k \in Nat /\ k < 65536
    BY SMT, <1>1 DEF Level
<1>2. ASSUME k \in Millivolts PROVE k \in Nat /\ k < 65536
    <2>1. k \in 0 .. Fullest
        BY Zenon, <1>2 DEF Millivolts
    <2> QED
        BY SMT, <2>1, Bounds, BoundTypes
<1>3. ASSUME k \in Pressure PROVE k \in Nat /\ k < 16777216
    <2>1. k \in 0 .. Highest
        BY Zenon, <1>3 DEF Pressure
    <2> QED
        BY SMT, <2>1, Bounds, BoundTypes
<1>4. ASSUME k \in {0, 1} PROVE k \in Humidity
    BY SMT, <1>4 DEF Humidity
<1>5. ASSUME k \in Quality PROVE k \in Humidity
    BY SMT, <1>5 DEF Quality, Humidity
<1> QED
    BY SMT, <1>1, <1>2, <1>3, <1>4, <1>5

LEMMA PacketRead ==
    ASSUME NEW s \in Sampled
    PROVE  /\ Packet(s) \in Seq(Byte) /\ Len(Packet(s)) = 14
           /\ CreateMeasurement(Packet(s)) = s
<1> DEFINE p == Packet(s)
           temp == ConvertedTemp(s.temperature)
           m == CreateMeasurement(p)
<1>1. /\ s.light \in Level /\ s.loudness \in Level /\ s.motion \in {0, 1}
      /\ s.temperature \in Said /\ s.humidity \in Humidity /\ s.pressure \in Pressure
      /\ s.battery \in Millivolts /\ s.airquality \in Quality
      /\ s = [light |-> s.light, loudness |-> s.loudness, motion |-> s.motion,
              temperature |-> s.temperature, humidity |-> s.humidity,
              pressure |-> s.pressure, battery |-> s.battery, airquality |-> s.airquality]
    BY SMT DEF Sampled
<1>2. s.light \in Nat /\ s.light < 65536 /\ s.loudness \in Nat /\ s.loudness < 65536
    BY SMT, <1>1, Ranges
<1>3. s.battery \in Nat /\ s.battery < 65536
    BY SMT, <1>1, Ranges
<1>4. s.pressure \in Nat /\ s.pressure < 16777216
    BY SMT, <1>1, Ranges
<1>5. /\ s.motion \in Humidity /\ s.airquality \in Humidity
      /\ s.temperature \in NoTemperature .. Hottest
    BY SMT, <1>1, Ranges DEF Said
<1>6. PICK b1 \in Byte, b2 \in Byte : /\ b1 = ByteOf(s.light, 256) /\ b2 = ByteOf(s.light, 1)
                                     /\ 256 * b1 + b2 = s.light
    BY <1>2, Pair
<1>7. PICK b3 \in Byte, b4 \in Byte :
         /\ b3 = ByteOf(s.loudness, 256) /\ b4 = ByteOf(s.loudness, 1)
         /\ 256 * b3 + b4 = s.loudness
    BY <1>2, Pair
<1>8. PICK b5 \in Byte : b5 = ByteOf(s.motion, 1) /\ SignedByte(b5) = s.motion
    BY <1>5, Signed
<1>9. PICK b6 \in Byte, b7 \in Byte :
         /\ b6 = ByteOf(temp, 256) /\ b7 = ByteOf(temp, 1)
         /\ 256 * b6 + b7 = s.temperature + 27315
    <2> HIDE DEF temp
    <2>1. PICK t \in NoTemperature .. Hottest : t = s.temperature
        BY <1>5
    <2>2. temp = ConvertedTemp(t)
        BY <2>1 DEF temp
    <2> QED
        BY SMT, <2>1, <2>2, Cut
<1>10. PICK b8 \in Byte : b8 = ByteOf(s.humidity, 1) /\ SignedByte(b8) = s.humidity
    BY <1>1, Signed
<1>11. PICK b9 \in Byte, b10 \in Byte, b11 \in Byte :
         /\ b9 = ByteOf(s.pressure, 65536) /\ b10 = ByteOf(s.pressure, 256)
         /\ b11 = ByteOf(s.pressure, 1)
         /\ 65536 * b9 + 256 * b10 + b11 = s.pressure
    BY SMT, <1>4, Triple
<1>12. PICK b12 \in Byte, b13 \in Byte :
         /\ b12 = ByteOf(s.battery, 256) /\ b13 = ByteOf(s.battery, 1)
         /\ 256 * b12 + b13 = s.battery
    BY <1>3, Pair
<1>13. PICK b14 \in Byte : b14 = ByteOf(s.airquality, 1) /\ SignedByte(b14) = s.airquality
    BY <1>5, Signed
<1>14. p = <<b1, b2, b3, b4, b5, b6, b7, b8, b9, b10, b11, b12, b13, b14>>
    BY SMT, <1>6, <1>7, <1>8, <1>9, <1>10, <1>11, <1>12, <1>13 DEF Packet
<1> HIDE DEF p
<1>15. /\ p \in Seq(Byte) /\ Len(p) = 14
       /\ p[1] = b1 /\ p[2] = b2 /\ p[3] = b3 /\ p[4] = b4 /\ p[5] = b5
       /\ p[6] = b6 /\ p[7] = b7 /\ p[8] = b8 /\ p[9] = b9 /\ p[10] = b10
       /\ p[11] = b11 /\ p[12] = b12 /\ p[13] = b13 /\ p[14] = b14
    BY <1>14, Fourteen
<1>16. /\ m.light = s.light /\ m.loudness = s.loudness /\ m.motion = s.motion
       /\ m.temperature = s.temperature /\ m.humidity = s.humidity
       /\ m.pressure = s.pressure /\ m.battery = s.battery
       /\ m.airquality = s.airquality
    <2>1. m.light = s.light /\ m.loudness = s.loudness /\ m.battery = s.battery
        BY SMT, <1>6, <1>7, <1>12, <1>15 DEF CreateMeasurement
    <2>2. m.motion = s.motion /\ m.humidity = s.humidity /\ m.airquality = s.airquality
        BY SMT, <1>8, <1>10, <1>13, <1>15 DEF CreateMeasurement
    <2>3. m.pressure = s.pressure
        BY SMT, <1>11, <1>15 DEF CreateMeasurement
    <2>4. m.temperature = s.temperature
        <3>1. m.temperature = 256 * p[6] + p[7] - 27315
            BY SMT DEF CreateMeasurement
        <3>2. s.temperature \in Int
            BY <1>5, Temperatures
        <3>3. PICK x \in Int : x = 256 * b6 + b7 /\ x = s.temperature + 27315
            BY SMT, <1>9, <3>2
        <3> HIDE DEF m
        <3>5. p[6] = b6 /\ p[7] = b7
            BY Zenon, <1>15
        <3>6. m.temperature = 256 * b6 + b7 - 27315
            BY SMT, <3>1, <3>5
        <3>7. b6 \in Int /\ b7 \in Int
            BY SMT DEF Byte
        <3>8. 256 * b6 + b7 = s.temperature + 27315
            BY SMT, <3>3
        <3> QED
            BY SMT, <3>2, <3>6, <3>7, <3>8
    <2> QED
        BY Zenon, <2>1, <2>2, <2>3, <2>4
<1>17. m = [light |-> m.light, loudness |-> m.loudness, motion |-> m.motion,
            temperature |-> m.temperature, humidity |-> m.humidity,
            pressure |-> m.pressure, battery |-> m.battery, airquality |-> m.airquality]
    BY SMT DEF CreateMeasurement
<1> HIDE DEF m
<1>18. m = s
    BY Zenon, <1>1, <1>16, <1>17
<1> QED
    BY <1>15, <1>18 DEF p, m

(* What is read of something that can be measured. *)
LEMMA ReadAs ==
    ASSUME NEW w \in Reading, NEW t \in Said, NEW h \in Humidity
    PROVE  /\ [w EXCEPT !.temperature = t, !.humidity = h] \in Sampled
           /\ [w EXCEPT !.temperature = t, !.humidity = h].temperature = t
<1>1. ASSUME NEW L, NEW M, NEW T, NEW U, NEW H, NEW P, NEW B, NEW Q,
             NEW v \in [light : L, loudness : L, motion : M, temperature : T,
                       humidity : H, pressure : P, battery : B, airquality : Q],
             NEW x \in U, NEW y \in H
      PROVE  /\ [v EXCEPT !.temperature = x, !.humidity = y] \in
                  [light : L, loudness : L, motion : M, temperature : U,
                   humidity : H, pressure : P, battery : B, airquality : Q]
             /\ [v EXCEPT !.temperature = x, !.humidity = y].temperature = x
    <2> DEFINE e == [v EXCEPT !.temperature = x, !.humidity = y]
    <2>1. /\ v.light \in L /\ v.loudness \in L /\ v.motion \in M
          /\ v.pressure \in P /\ v.battery \in B /\ v.airquality \in Q
        BY Zenon
    <2>2. e = [light |-> v.light, loudness |-> v.loudness, motion |-> v.motion,
               temperature |-> x, humidity |-> y, pressure |-> v.pressure,
               battery |-> v.battery, airquality |-> v.airquality]
        <3>1. v = [light |-> v.light, loudness |-> v.loudness, motion |-> v.motion,
                   temperature |-> v.temperature, humidity |-> v.humidity,
                   pressure |-> v.pressure, battery |-> v.battery,
                   airquality |-> v.airquality]
            BY Zenon, Fields
        <3>2. PICK f : f = [v EXCEPT !.temperature = x]
            OBVIOUS
        <3>3. f = [light |-> v.light, loudness |-> v.loudness, motion |-> v.motion,
                   temperature |-> x, humidity |-> v.humidity, pressure |-> v.pressure,
                   battery |-> v.battery, airquality |-> v.airquality]
            BY SMT, <3>1, <3>2
        <3>4. [f EXCEPT !.humidity = y] =
                  [light |-> v.light, loudness |-> v.loudness, motion |-> v.motion,
                   temperature |-> x, humidity |-> y, pressure |-> v.pressure,
                   battery |-> v.battery, airquality |-> v.airquality]
            BY SMT, <3>3
        <3>5. e = [f EXCEPT !.humidity = y]
            BY Zenon, <3>2
        <3> QED
            BY Zenon, <3>4, <3>5
    <2> HIDE DEF e
    <2>3. e \in [light : L, loudness : L, motion : M, temperature : U,
                 humidity : H, pressure : P, battery : B, airquality : Q]
        BY Zenon, <1>1, <2>1, <2>2
    <2>4. e.temperature = x
        BY Zenon, <2>2
    <2> QED
        BY Zenon, <2>3, <2>4 DEF e
<1> QED
    BY Zenon, <1>1 DEF Reading, Sampled

LEMMA WorldTemperature ==
    ASSUME NEW w \in Reading
    PROVE  /\ w.temperature \in Int /\ IsWarm(w.temperature) /\ w.temperature <= Hottest
           /\ w.humidity \in Humidity
<1>1. w.temperature \in Temperature /\ w.humidity \in Humidity
    BY Zenon, Fields DEF Reading
<1>2. Coldest \in Int /\ Coldest = -19999
    BY SMT DEF Coldest
<1>3. w.temperature \in Int /\ Coldest <= w.temperature /\ w.temperature <= Hottest
    BY <1>1, <1>2, BoundTypes DEF Temperature
<1>4. IsWarm(w.temperature)
    BY SMT, <1>2, <1>3 DEF IsWarm
<1> QED
    BY Zenon, <1>1, <1>3, <1>4

(* The reading made of w when the BMP085 says t. *)
WhatIsRead(w, t, warm, moist) ==
    [w EXCEPT !.temperature = ReadTemperature(t, GetTemperature(warm, w.temperature)),
              !.humidity = GetHumidity(moist, w.humidity)]

LEMMA ReadsOK ==
    ASSUME NEW w \in Reading, NEW warm, NEW moist,
           NEW t \in Int, t <= Hottest, NEW s, s = WhatIsRead(w, t, warm, moist)
    PROVE  s \in Sampled /\ (t = w.temperature => s.temperature = w.temperature)
<1> DEFINE sht == GetTemperature(warm, w.temperature)
           h == GetHumidity(moist, w.humidity)
<1>1. /\ w.temperature \in Int /\ IsWarm(w.temperature) /\ w.temperature <= Hottest
      /\ w.humidity \in Humidity
    BY WorldTemperature
<1>2. h \in Humidity
    <2>1. 0 \in Humidity
        BY SMT DEF Humidity
    <2> QED
        BY <1>1, <2>1 DEF GetHumidity
<1>3. sht = w.temperature \/ sht = NoTemperature
    BY DEF GetTemperature
<1> HIDE DEF sht
<1>4. sht \in Int /\ sht >= NoTemperature /\ sht <= Hottest
    <2>1. NoTemperature <= Hottest /\ \A k \in Int : IsWarm(k) => k >= NoTemperature
        BY SMT, Bounds, BoundTypes DEF IsWarm
    <2>2. CASE sht = w.temperature
        BY Zenon, <1>1, <2>1, <2>2
    <2>3. CASE sht = NoTemperature
        BY <2>1, <2>3, BoundTypes
    <2> QED
        BY <1>3, <2>2, <2>3
<1> HIDE DEF h
<1> DEFINE read == ReadTemperature(t, sht)
<1>5. /\ read \in Said
      /\ IsWarm(t) /\ (sht = t \/ sht = NoTemperature) => read = t
    BY <1>4, Warmth DEF Said
<1>6. s = [w EXCEPT !.temperature = read, !.humidity = h]
    BY DEF sht, h, WhatIsRead
<1> HIDE DEF read
<1>7. s \in Sampled /\ s.temperature = read
    <2>1. /\ [w EXCEPT !.temperature = read, !.humidity = h] \in Sampled
          /\ [w EXCEPT !.temperature = read, !.humidity = h].temperature = read
        BY Zenon, <1>2, <1>5, ReadAs
    <2> QED
        BY Zenon, <1>6, <2>1
<1>8. t = w.temperature => read = t
    BY Zenon, <1>1, <1>3, <1>5
<1> QED
    BY Zenon, <1>7, <1>8

-----------------------------------------------------------------------------
(* What is sent, and what is cut out of it. *)
LEMMA Framed ==
    ASSUME NEW d \in Seq(Byte), NEW f, f = Frame(d)
    PROVE  /\ f.announced \in Nat /\ f.digits \in Seq(0 .. 15)
           /\ Len(f.digits) = 2 * f.announced /\ Bytes(f.digits) = Credentials \o d
<1>1. Credentials \in Seq(Byte)
    BY BuilderAssumption DEF Byte
<1> DEFINE all == Credentials \o d
<1>2. all \in Seq(Byte) /\ Len(all) = Len(Credentials) + Len(d)
    BY <1>1, ConcatProperties
<1>3. f.announced = Len(all) /\ f.digits = Digits(all)
    BY <1>2 DEF Frame, Sent
<1> HIDE DEF all
<1>4. Len(all) \in Nat
    BY <1>2, LenProperties
<1>5. Digits(all) \in Seq(0 .. 15) /\ Len(Digits(all)) = 2 * Len(all) /\ Bytes(Digits(all)) = all
    BY <1>2, DigitsAre, BytesBack
<1> QED
    BY Zenon, <1>3, <1>4, <1>5 DEF all

LEMMA DataCutOut ==
    ASSUME NEW d \in Seq(Byte), Len(d) = 14
    PROVE  SubSeq(Credentials \o d, Len(Credentials) + 1, Len(Credentials) + 14) = d
<1>1. Credentials \in Seq(Byte)
    BY BuilderAssumption DEF Byte
<1> DEFINE m == Len(Credentials) + 1
           all == Credentials \o d
<1>2. Len(Credentials) \in Nat /\ m \in Nat /\ m + Len(d) - 1 = Len(Credentials) + 14
    BY <1>1, LenProperties
<1>3. \A i \in 1 .. Len(Credentials) + Len(d) :
         all[i] = IF i <= Len(Credentials) THEN Credentials[i] ELSE d[i - Len(Credentials)]
    BY <1>1, ConcatProperties
<1> HIDE DEF all
<1>4. \A i \in 1 .. Len(d) : all[m + i - 1] = d[i]
    <2> TAKE i \in 1 .. Len(d)
    <2>1. PICK j : j = m + i - 1
        OBVIOUS
    <2>2. /\ j \in 1 .. Len(Credentials) + Len(d) /\ ~(j <= Len(Credentials))
          /\ j - Len(Credentials) = i
        BY <1>2, <2>1
    <2>3. all[j] = d[j - Len(Credentials)]
        BY <1>3, <2>2
    <2> QED
        BY Zenon, <2>1, <2>2, <2>3
<1> HIDE DEF m
<1>5. SubSeq(all, m, m + Len(d) - 1) = d
    BY <1>2, <1>4, Found
<1> QED
    BY Zenon, <1>2, <1>5 DEF all, m

-----------------------------------------------------------------------------
(* The invariant: the timer's own, a builder that is in order whoever fills
   it, and a frame that is of the data, which are those of the sample. *)
BuilderInv ==
    IF sender \in {"payload", "overrun"}
    THEN /\ builder = [bytes |-> builder.bytes, items |-> <<>>, full |-> FALSE]
         /\ builder.bytes \in Seq(Byte) /\ Len(builder.bytes) <= MaxSize
    ELSE BuilderOK(builder)

SampleInv ==
    sample # Unread =>
        /\ sender = "packet" /\ sample \in Sampled
        /\ data = Packet(sample) /\ frame = Frame(data)
        /\ present => sample.temperature = world.temperature

SentInv ==
    /\ data \in Seq(Byte)
    /\ frame # NotSent => frame = Frame(data)
    /\ SampleInv

LoopInv ==
    /\ Inv
    /\ sender \in {"packet", "payload", "cbor", "message", "hung", "overrun"}
    /\ present \in BOOLEAN /\ calibrated \in BOOLEAN
    /\ BuilderInv
    /\ SentInv

LEMMA NothingSent == SendsNothing => SentInv'
<1>1. <<>> \in Seq(Byte)
    OBVIOUS
<1> QED
    BY <1>1 DEF SendsNothing, SentInv, SampleInv

LEMMA SentUnread ==
    ASSUME sample' = Unread, data' \in Seq(Byte),
           frame' = NotSent \/ frame' = Frame(data')
    PROVE  SentInv'
BY DEF SentInv, SampleInv

LEMMA LoopInitInv == LoopInit => LoopInv
<1> SUFFICES ASSUME LoopInit PROVE LoopInv
    OBVIOUS
<1>1. Inv
    BY InitInv DEF LoopInit
<1>2. BuilderInv
    <2>1. builder = Empty
        BY DEF LoopInit
    <2>2. 0 <= MaxSize /\ Len(<<>>) = 0 /\ <<>> \in Seq(Byte)
        BY BuilderAssumption
    <2> QED
        BY <2>1, <2>2, EmptyOK DEF BuilderInv, Empty
<1>3. SentInv
    BY DEF LoopInit, SentInv, SampleInv
<1> QED
    BY <1>1, <1>2, <1>3 DEF LoopInit, LoopInv

LEMMA KeptBuilder == BuilderInv /\ UNCHANGED <<sender, builder>> => BuilderInv'
BY DEF BuilderInv

LEMMA SendInv ==
    ASSUME Inv, NEW k \in 0 .. MaxSend, Send(k)
    PROVE  Inv'
BY StepInv DEF Next, Sends

(* The clock of a sketch that hangs runs on. *)
LEMMA HangInv ==
    ASSUME Inv, now' = Later(now, 1), elapsed' = AtMostInterval(elapsed + 1),
           UNCHANGED <<sendNextAt, lastSend>>
    PROVE  Inv'
<1>1. now \in Nat /\ sendNextAt \in Nat /\ lastSend \in Nat /\ elapsed \in Nat
      /\ Interval \in Nat /\ Period \in Nat
    BY TimerAssumption DEF Inv, TypeOK, Clock
<1>2. now' \in Clock
    BY <1>1, LaterType
<1>3. elapsed' \in 0 .. Interval
    BY <1>1 DEF AtMostInterval
<1>4. TypeOK'
    BY <1>2, <1>3 DEF Inv, TypeOK
<1>5. Running'
    BY <1>1, LaterPlain DEF AtMostInterval, Inv, Running
<1> QED
    BY <1>4, <1>5 DEF Inv

LEMMA BuildsInv ==
    ASSUME LoopInv, NEW result, Builds(result), sender # "overrun",
           sender = "payload" =>
               /\ result = [bytes |-> result.bytes, items |-> <<>>, full |-> FALSE]
               /\ result.bytes \in Seq(Byte) /\ Len(result.bytes) <= MaxSize,
           sender # "payload" => BuilderOK(result)
    PROVE  LoopInv'
<1>1. Inv'
    BY StepInv DEF LoopInv, Builds
<1>2. SentInv'
    BY NothingSent DEF Builds
<1>3. BuilderInv'
    BY Zenon DEF Builds, BuilderInv
<1> QED
    BY <1>1, <1>2, <1>3 DEF LoopInv, Builds, bmpVars

LEMMA SendPacketInv ==
    ASSUME LoopInv, NEW k \in 0 .. MaxSend, SendPacket(k)
    PROVE  LoopInv'
<1>1. Inv'
    BY SendInv DEF LoopInv, SendPacket
<1>2. BuilderInv'
    BY KeptBuilder DEF LoopInv, SendPacket
<1>3. world' \in Reading
    BY LoopAssumption DEF SendPacket
<1>4. PICK warm \in BOOLEAN, moist \in BOOLEAN, t \in BmpTemperature(world'.temperature) :
         sample' = [world' EXCEPT
                      !.temperature =
                          ReadTemperature(t, GetTemperature(warm, world'.temperature)),
                      !.humidity = GetHumidity(moist, world'.humidity)]
    BY Zenon DEF SendPacket, Reads
<1>5. calibrated' = (calibrated \/ present) /\ present' = present
    BY Zenon DEF SendPacket, Reads, Begins
<1>6. t \in Int /\ t <= Hottest /\ (present' => t = world'.temperature)
    <2>1. \/ t = world'.temperature
          \/ t \in Garbage /\ ~present
          \/ t = 0 /\ ~calibrated'
        BY <1>4 DEF BmpTemperature
    <2>2. world'.temperature \in Int /\ world'.temperature <= Hottest
        BY <1>3, WorldTemperature
    <2>3. 0 \in Int /\ 0 <= Hottest
        BY SMT, Bounds
    <2>4. \A x \in Garbage : x \in Int /\ x <= Hottest
        BY LoopAssumption
    <2> QED
        BY Zenon, <1>5, <2>1, <2>2, <2>3, <2>4
<1>7. /\ sample' \in Sampled
      /\ t = world'.temperature => sample'.temperature = world'.temperature
    <2>1. PICK w, s : w = world' /\ s = sample'
        OBVIOUS
    <2>2. w \in Reading
        BY <1>3, <2>1
    <2>3. s = WhatIsRead(w, t, warm, moist)
        BY Zenon, <1>4, <2>1 DEF WhatIsRead
    <2>4. t \in Int /\ t <= Hottest
        BY <1>6
    <2>5. s \in Sampled /\ (t = w.temperature => s.temperature = w.temperature)
        BY <2>2, <2>3, <2>4, ReadsOK
    <2> QED
        BY Zenon, <2>1, <2>5
<1>8. data' = Packet(sample') /\ data' \in Seq(Byte) /\ frame' = Frame(data')
    BY <1>7, PacketRead DEF SendPacket
<1>9. SentInv'
    BY Zenon, <1>6, <1>7, <1>8 DEF SentInv, SampleInv, SendPacket
<1> QED
    BY Zenon, <1>1, <1>2, <1>5, <1>9 DEF LoopInv, SendPacket

LEMMA LoopStepInv == LoopInv /\ [LoopNext]_loopVars => LoopInv'
<1> SUFFICES ASSUME LoopInv, [LoopNext]_loopVars PROVE LoopInv'
    OBVIOUS
<1>1. ASSUME Idle PROVE LoopInv'
    <2>1. Inv'
        BY <1>1, StepInv DEF LoopInv, Idle, Next
    <2>2. SentInv'
        BY <1>1, NothingSent DEF Idle
    <2>3. BuilderInv'
        BY <1>1, KeptBuilder DEF LoopInv, Idle
    <2> QED
        BY <1>1, <2>1, <2>2, <2>3 DEF LoopInv, Idle, bmpVars
<1>2. ASSUME Loosens PROVE LoopInv'
    <2>1. Inv'
        BY <1>2, StepInv DEF LoopInv, Loosens
    <2>2. SentInv'
        BY <1>2, NothingSent DEF Loosens
    <2>3. BuilderInv'
        BY <1>2, KeptBuilder DEF LoopInv, Loosens
    <2>4. present' \in BOOLEAN
        BY Zenon, <1>2 DEF Loosens
    <2> QED
        BY Zenon, <1>2, <2>1, <2>2, <2>3, <2>4 DEF LoopInv, Loosens
<1>3. ASSUME NEW k \in 0 .. MaxSend, SendBuffer(k) PROVE LoopInv'
    <2>1. Inv'
        BY <1>3, SendInv DEF LoopInv, SendBuffer
    <2>2. BuilderInv'
        BY <1>3, KeptBuilder DEF LoopInv, SendBuffer
    <2>3. builder.bytes \in Seq(Byte)
        BY Zenon DEF LoopInv, BuilderInv, BuilderOK
    <2>4. sender # "packet"
        BY <1>3 DEF SendBuffer
    <2>5. sample' = Unread
        BY Zenon, <1>3, <2>4 DEF SendBuffer, LoopInv, SentInv, SampleInv
    <2>6. SentInv'
        BY Zenon, <1>3, <2>3, <2>5, SentUnread DEF SendBuffer
    <2> QED
        BY <1>3, <2>1, <2>2, <2>6 DEF LoopInv, SendBuffer, bmpVars
<1>4. ASSUME NEW k \in 0 .. MaxSend, NEW text \in Messages, SendText(k, text) PROVE LoopInv'
    <2>1. Inv'
        BY <1>4, SendInv DEF LoopInv, SendText
    <2>2. BuilderInv'
        BY <1>4, KeptBuilder DEF LoopInv, SendText
    <2>3. text \in Seq(Byte)
        BY LoopAssumption
    <2>4. sender # "packet"
        BY <1>4 DEF SendText
    <2>5. sample' = Unread
        BY Zenon, <1>4, <2>4 DEF SendText, LoopInv, SentInv, SampleInv
    <2>6. data' = text /\ (frame' = NotSent \/ frame' = Frame(data'))
        BY <1>4 DEF SendText, SendMessage
    <2>7. SentInv'
        BY Zenon, <2>3, <2>5, <2>6, SentUnread
    <2> QED
        BY <1>4, <2>1, <2>2, <2>7 DEF LoopInv, SendText, bmpVars
<1>5. ASSUME Hangs PROVE LoopInv'
    <2>1. Inv'
        BY <1>5, StepInv DEF LoopInv, Hangs
    <2>2. SentInv'
        BY <1>5, NothingSent DEF Hangs
    <2>3. BuilderInv'
        BY <1>5 DEF LoopInv, Hangs, BuilderInv
    <2> QED
        BY <1>5, <2>1, <2>2, <2>3 DEF LoopInv, Hangs, bmpVars
<1>6. ASSUME HangsOn PROVE LoopInv'
    <2>1. Inv'
        BY <1>6, HangInv DEF LoopInv, HangsOn
    <2>2. SentInv'
        BY <1>6 DEF LoopInv, HangsOn, sentVars, bmpVars, SentInv, SampleInv
    <2>3. BuilderInv'
        BY <1>6, KeptBuilder DEF LoopInv, HangsOn
    <2> QED
        BY <1>6, <2>1, <2>2, <2>3 DEF LoopInv, HangsOn, bmpVars
<1>7. ASSUME Reset PROVE LoopInv'
    <2>1. <<>> \in Seq(Byte) /\ Len(<<>>) <= MaxSize
        BY BuilderAssumption
    <2>2. /\ Empty = [bytes |-> Empty.bytes, items |-> <<>>, full |-> FALSE]
          /\ Empty.bytes = <<>>
        BY DEF Empty
    <2> QED
        BY Zenon, <1>7, <2>1, <2>2, EmptyOK, BuildsInv DEF Reset, Lost
<1>8. ASSUME NEW bytes \in Values, AddValue(bytes) PROVE LoopInv'
    <2> DEFINE result == [builder EXCEPT !.bytes = Add(@, bytes)]
    <2>1. sender = "payload" /\ Builds(result)
        BY <1>8 DEF AddValue
    <2>2. PICK b \in Seq(Byte) :
             b = builder.bytes /\ builder = [bytes |-> b, items |-> <<>>, full |-> FALSE]
                 /\ Len(b) <= MaxSize
        BY <2>1 DEF LoopInv, BuilderInv
    <2>3. PICK more : more = Add(b, bytes) /\ more \in Seq(Byte) /\ Len(more) <= MaxSize
        BY <2>2, LoopAssumption, AddFits
    <2>4. result = [builder EXCEPT !.bytes = more]
        BY <2>2, <2>3
    <2>5. [builder EXCEPT !.bytes = more] = [bytes |-> more, items |-> <<>>, full |-> FALSE]
        <3>1. PICK empty, no :
                 empty = <<>> /\ no = FALSE
                     /\ builder = [bytes |-> b, items |-> empty, full |-> no]
            BY Zenon, <2>2
        <3>2. [builder EXCEPT !.bytes = more] = [bytes |-> more, items |-> empty, full |-> no]
            BY SMT, <3>1
        <3> QED
            BY Zenon, <3>1, <3>2
    <2>6. result = [bytes |-> more, items |-> <<>>, full |-> FALSE]
        BY <2>4, <2>5
    <2> HIDE DEF result
    <2>7. result.bytes = more
        BY <2>6
    <2> QED
        BY Zenon, <2>1, <2>3, <2>6, <2>7, BuildsInv
<1>9. ASSUME sender = "cbor" PROVE BuilderOK(builder) /\ sender # "payload"
    BY <1>9 DEF LoopInv, BuilderInv
<1>10. ASSUME NEW entry \in Entries, AddEntry(entry) PROVE LoopInv'
    <2>1. IsString(entry.name) /\ IsItem(entry.value)
        BY LoopAssumption DEF IsItem
    <2>2. BuilderOK(PutPair(builder, entry.name, entry.value))
        BY Zenon, <1>9, <1>10, <2>1, PairOK DEF AddEntry
    <2> QED
        BY Zenon, <1>9, <1>10, <2>2, BuildsInv DEF AddEntry
<1>11. ASSUME NEW name \in Names, NEW fix \in Fixes, AddGPS(name, fix) PROVE LoopInv'
    <2>1. IsString(name) /\ fix \in [1 .. 3 -> [1 .. 4 -> Byte]]
        BY LoopAssumption
    <2>2. BuilderOK(PutGPS(builder, name, fix))
        BY Zenon, <1>9, <1>11, <2>1, GPSOK DEF AddGPS
    <2> QED
        BY Zenon, <1>9, <1>11, <2>2, BuildsInv DEF AddGPS
<1>12. ASSUME NEW n \in MapSizes, AddMap(n) PROVE LoopInv'
    <2>1. IsItem(Pairs(n))
        BY LoopAssumption DEF IsItem
    <2>2. BuilderOK(Put(builder, Pairs(n)))
        BY Zenon, <1>9, <1>12, <2>1, PutOK DEF AddMap
    <2> QED
        BY Zenon, <1>9, <1>12, <2>2, BuildsInv DEF AddMap
<1>13. ASSUME Overruns PROVE LoopInv'
    <2>1. Inv'
        BY <1>13, StepInv DEF LoopInv, Overruns
    <2>2. SentInv'
        BY <1>13, NothingSent DEF Overruns
    <2>3. BuilderInv'
        BY Zenon, <1>13 DEF LoopInv, Overruns, BuilderInv
    <2> QED
        BY <1>13, <2>1, <2>2, <2>3 DEF LoopInv, Overruns, bmpVars
<1>14. CASE UNCHANGED loopVars
    <2>1. Inv'
        BY <1>14, StepInv DEF LoopInv, loopVars
    <2>2. BuilderInv' /\ SentInv'
        BY <1>14 DEF LoopInv, loopVars, bmpVars, sentVars, BuilderInv, SentInv, SampleInv
    <2> QED
        BY <1>14, <2>1, <2>2 DEF LoopInv, loopVars, bmpVars
<1> QED
    BY Zenon, <1>1, <1>2, <1>3, <1>4, <1>5, <1>6, <1>7, <1>8, <1>10, <1>11, <1>12, <1>13,
       <1>14, SendPacketInv DEF LoopNext

LEMMA LoopInvariance == LoopSpec => []LoopInv
BY LoopInitInv, LoopStepInv, PTL DEF LoopSpec

-----------------------------------------------------------------------------
(* What a node sends and what is in its builder have their types. *)
THEOREM LoopTypeCorrect == LoopSpec => []LoopTypeOK
<1>1. LoopInv => LoopTypeOK
    <2> SUFFICES ASSUME LoopInv PROVE LoopTypeOK
        OBVIOUS
    <2>1. TypeOK /\ present \in BOOLEAN /\ calibrated \in BOOLEAN
        BY DEF LoopInv, Inv
    <2>2. builder.full \in BOOLEAN /\ builder.bytes \in Seq(Byte)
        <3>1. CASE sender \in {"payload", "overrun"}
            <4>1. /\ builder = [bytes |-> builder.bytes, items |-> <<>>, full |-> FALSE]
                  /\ builder.bytes \in Seq(Byte)
                BY Zenon, <3>1 DEF LoopInv, BuilderInv
            <4>2. PICK b, no : builder = [bytes |-> b, items |-> <<>>, full |-> no] /\ no = FALSE
                BY Zenon, <4>1
            <4>3. builder.full = no
                BY SMT, <4>2
            <4> QED
                BY Zenon, <4>1, <4>2, <4>3
        <3>2. CASE sender \notin {"payload", "overrun"}
            BY Zenon, <3>2 DEF LoopInv, BuilderInv, BuilderOK
        <3> QED
            BY <3>1, <3>2
    <2>3. data \in Seq(Byte)
        BY DEF LoopInv, SentInv
    <2>4. frame.announced \in Nat /\ frame.digits \in Seq(0 .. 15)
        <3>1. CASE frame = NotSent
            BY <3>1 DEF NotSent
        <3>2. CASE frame # NotSent
            <4>1. frame = Frame(data)
                BY <3>2 DEF LoopInv, SentInv
            <4> QED
                BY Zenon, <2>3, <4>1, Framed
        <3> QED
            BY <3>1, <3>2
    <2> QED
        BY Zenon, <2>1, <2>2, <2>3, <2>4 DEF LoopTypeOK
<1> QED
    BY <1>1, LoopInvariance, PTL

(* The add calls of neither builder write past its own buffer, whatever they are
   given and however small it is (PayloadBuilder.cpp:80-175,
   CborBuilder.cpp:138-156). *)
THEOREM BufferCorrect == LoopSpec => []BufferIsBounded
<1>1. LoopInv => BufferIsBounded
    BY Zenon DEF LoopInv, BuilderInv, BuilderOK, BufferIsBounded
<1> QED
    BY <1>1, LoopInvariance, PTL

(* A PayloadBuilder made no larger than sendBuffer never has more copied there
   than fits, whatever is added to it: the size its constructor is given decides,
   and the one it has without (60) is too large for the 51 bytes there are
   (PayloadBuilder.cpp:23-35 and 72-77, PayloadBuilder.h:134). *)
THEOREM SmallBuilderFits == MaxSize <= SendSize => (LoopSpec => [](sender # "overrun"))
<1> SUFFICES ASSUME MaxSize <= SendSize PROVE LoopSpec => [](sender # "overrun")
    OBVIOUS
<1> DEFINE Safe == sender # "overrun"
<1>1. LoopInit => Safe
    BY DEF LoopInit
<1>2. LoopInv /\ Safe /\ [LoopNext]_loopVars => Safe'
    <2> SUFFICES ASSUME LoopInv, sender # "overrun", [LoopNext]_loopVars
                 PROVE  sender' # "overrun"
        OBVIOUS
    <2>1. ~Overruns
        <3>1. sender = "payload" => Len(builder.bytes) <= MaxSize
            BY Zenon DEF LoopInv, BuilderInv
        <3>2. MaxSize \in Nat /\ SendSize \in Nat
            BY BuilderAssumption, LoopAssumption
        <3>3. sender = "payload" => Len(builder.bytes) \in Nat
            BY LenProperties DEF LoopInv, BuilderInv
        <3> QED
            BY <3>1, <3>2, <3>3 DEF Overruns, FitsSendBuffer
    <2> QED
        BY <2>1
           DEF LoopNext, Idle, Loosens, SendPacket, SendBuffer, SendText, Hangs,
               HangsOn, Reset, AddValue, AddEntry, AddGPS, AddMap, Builds, loopVars
<1>3. Safe => sender # "overrun"
    OBVIOUS
<1> HIDE DEF Safe
<1> QED
    BY <1>1, <1>2, <1>3, LoopInvariance, PTL DEF LoopSpec

(* What was put into a CBOR builder is what a reader finds there, for names
   and texts of any length and every number of 32 bits, as long as there was
   room (CborBuilder.cpp:160-281). *)
THEOREM CborCorrect == LoopSpec => []CborIsReadable
<1>1. LoopInv => CborIsReadable
    <2> SUFFICES ASSUME LoopInv, sender = "cbor", ~builder.full
                 PROVE  LET items == builder.items
                            End == Len(builder.bytes) + 1
                        IN  /\ (IF items = <<>> THEN End ELSE items[1].at) = 1
                            /\ \A i \in 1 .. Len(items) :
                                  ItemAt(builder.bytes, items[i].at) =
                                      [item |-> items[i].item,
                                       next |-> IF i = Len(items) THEN End
                                                ELSE items[i + 1].at]
        BY Zenon DEF CborIsReadable
    <2>1. Laid(builder.bytes, builder.items)
        BY Zenon DEF LoopInv, BuilderInv, BuilderOK
    <2>2. (IF builder.items = <<>> THEN Len(builder.bytes) + 1 ELSE builder.items[1].at) = 1
        BY Zenon, <2>1 DEF Laid
    <2>3. ASSUME NEW i \in 1 .. Len(builder.items)
          PROVE  ItemAt(builder.bytes, builder.items[i].at) =
                     [item |-> builder.items[i].item,
                      next |-> NextAt(builder.bytes, builder.items, i)]
        <3>1. PICK item, k : item = builder.items[i].item /\ k = builder.items[i].at
            OBVIOUS
        <3>2. /\ IsItem(item) /\ Stands(builder.bytes, k, item)
              /\ k + Size(item) = NextAt(builder.bytes, builder.items, i)
            BY Zenon, <2>1, <3>1 DEF Laid
        <3> QED
            BY Zenon, <3>1, <3>2, ItemRead
    <2> QED
        BY Zenon, <2>2, <2>3 DEF NextAt
<1> QED
    BY <1>1, LoopInvariance, PTL

(* The modem is announced as many bytes as it is given digits for, and they
   are the credentials and the data, whatever these are (ATT_NBIOT.cpp:565-661). *)
THEOREM FrameCorrect == LoopSpec => []FrameIsWhole
<1>1. LoopInv => FrameIsWhole
    <2> SUFFICES ASSUME LoopInv, frame # NotSent
                 PROVE  /\ Len(frame.digits) = 2 * frame.announced
                        /\ Bytes(frame.digits) = Credentials \o data
        BY Zenon DEF FrameIsWhole
    <2>1. data \in Seq(Byte) /\ frame = Frame(data)
        BY DEF LoopInv, SentInv
    <2> QED
        BY Zenon, <2>1, Framed
<1> QED
    BY <1>1, LoopInvariance, PTL

(* The agent reads out of a packet what the sketch measured, for every reading
   the sensors can give: the 16 bits of the temperature hold up to 382.20
   degrees although the sketch takes them for a signed number
   (NB-IoT_node.ino:125-156, CumulocityHandler.java:176-200). *)
THEOREM MeasurementCorrect == LoopSpec => []MeasurementIsSample
<1>1. LoopInv => MeasurementIsSample
    <2> SUFFICES ASSUME LoopInv, sample # Unread
                 PROVE  CreateMeasurement(SubSeq(Bytes(frame.digits), Len(Credentials) + 1,
                                                 Len(Credentials) + 14)) = sample
        BY Zenon DEF MeasurementIsSample
    <2>1. sample \in Sampled /\ data = Packet(sample) /\ frame = Frame(data)
        BY DEF LoopInv, SentInv, SampleInv
    <2>2. PICK s, d : s = sample /\ s \in Sampled /\ d = Packet(s) /\ frame = Frame(d)
        BY <2>1
    <2>3. d \in Seq(Byte) /\ Len(d) = 14 /\ CreateMeasurement(d) = s
        BY Zenon, <2>2, PacketRead
    <2>4. Bytes(frame.digits) = Credentials \o d
        BY Zenon, <2>2, <2>3, Framed
    <2> QED
        BY Zenon, <2>2, <2>3, <2>4, DataCutOut
<1> QED
    BY <1>1, LoopInvariance, PTL

(* While the BMP085 is there the temperature is the true one, whenever it came
   or went before (Sodaq_BMP085.cpp:93-97, Sodaq_TPH.cpp:42-60). *)
THEOREM TemperatureCorrect == LoopSpec => []TemperatureIsTrue
<1>1. LoopInv => TemperatureIsTrue
    BY DEF LoopInv, SentInv, SampleInv, TemperatureIsTrue
<1> QED
    BY <1>1, LoopInvariance, PTL

(* The pause of LoopTimer is kept by the loop that reads, fills and sends, and
   by one that hangs (NB-IoT_node.ino:84-171). *)
THEOREM SpacingKept == LoopSpec => SpacedUnlessSumWraps
<1>1. LoopInv /\ [LoopNext]_loopVars
          => [Sends => elapsed = Interval \/ lastSend + Interval >= Period]_vars
    BY TimerAssumption
       DEF LoopInv, Inv, TypeOK, Running, Clock, Sends, Send, Due
<1> QED
    BY <1>1, LoopInvariance, PTL DEF LoopSpec, SpacedUnlessSumWraps
=============================================================================
