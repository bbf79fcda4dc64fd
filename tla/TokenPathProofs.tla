-------------------------- MODULE TokenPathProofs --------------------------
(***************************************************************************)
(* What the agent makes of a node's packets, for tokens, readings and      *)
(* buffers of any size.                                                    *)
(***************************************************************************)
EXTENDS TokenPath, NodeStoreProofs, SequenceTheorems, WellFoundedInduction

-----------------------------------------------------------------------------
(* Sequences of bytes. *)

LEMMA LeastNumber ==
    ASSUME NEW T \in SUBSET Nat, T # {}
    PROVE  \E m \in T : \A n \in T : m <= n
  <1> DEFINE R == {p \in Nat \X Nat : p[1] < p[2]}
  <1>1. IsWellFoundedOn(R, Nat)
    BY NatLessThanWellFounded DEF OpToRel
  <1> HIDE DEF R
  <1>2. PICK m \in T : \A n \in T : ~(<<n, m>> \in R)
    BY <1>1, WFMin
  <1>3. \A n \in T : ~(n < m)
    BY <1>2 DEF R
  <1> QED
    BY <1>3

LEMMA FirstNewline ==
    ASSUME NEW d \in Seq(Byte), HasNewline(d)
    PROVE  /\ NextNewLine(d) \in 1 .. Len(d)
           /\ d[NextNewLine(d)] = Newline
           /\ \A j \in 1 .. NextNewLine(d) - 1 : d[j] # Newline
  <1> DEFINE T == {i \in 1 .. Len(d) : d[i] = Newline}
  <1>1. Len(d) \in Nat
    BY LenProperties
  <1>2. T \in SUBSET Nat /\ T # {}
    BY <1>1 DEF HasNewline
  <1>3. PICK m \in T : \A n \in T : m <= n
    BY <1>2, LeastNumber
  <1>4. \A j \in 1 .. m - 1 : d[j] # Newline
    BY <1>1, <1>3
  <1>5. \E i \in 1 .. Len(d) : d[i] = Newline /\ \A j \in 1 .. i - 1 : d[j] # Newline
    BY <1>3, <1>4
  <1> QED
    BY <1>5 DEF NextNewLine

LEMMA RestFacts ==
    ASSUME NEW d \in Seq(Byte), HasNewline(d)
    PROVE  /\ After(d) \in Seq(Byte)
           /\ Len(After(d)) = Len(d) - NextNewLine(d)
           /\ \A i \in 1 .. Len(After(d)) : After(d)[i] = d[NextNewLine(d) + i]
           /\ Before(d) \in Seq(Byte)
           /\ Len(Before(d)) = NextNewLine(d) - 1
           /\ \A i \in 1 .. Len(Before(d)) : Before(d)[i] = d[i]
  <1> DEFINE k == NextNewLine(d)
  <1>1. Len(d) \in Nat /\ \A i \in 1 .. Len(d) : d[i] \in Byte
    BY LenProperties, ElementOfSeq
  <1>2. k \in 1 .. Len(d)
    BY FirstNewline
  <1> HIDE DEF k
  <1>3. /\ SubSeq(d, k + 1, Len(d)) \in Seq(Byte)
        /\ Len(SubSeq(d, k + 1, Len(d))) = Len(d) - k
        /\ \A i \in 1 .. Len(d) - k : SubSeq(d, k + 1, Len(d))[i] = d[k + i]
    <2>1. k + 1 \in Int /\ Len(d) \in Int /\ \A i \in k + 1 .. Len(d) : d[i] \in Byte
      BY <1>1, <1>2
    <2>2. /\ SubSeq(d, k + 1, Len(d)) \in Seq(Byte)
          /\ Len(SubSeq(d, k + 1, Len(d)))
                = IF k + 1 <= Len(d) THEN Len(d) - (k + 1) + 1 ELSE 0
          /\ \A i \in 1 .. Len(d) - (k + 1) + 1 :
                SubSeq(d, k + 1, Len(d))[i] = d[k + 1 + i - 1]
      BY <2>1, SubSeqProperties
    <2> QED
      BY <1>1, <1>2, <2>2
  <1>4. /\ SubSeq(d, 1, k - 1) \in Seq(Byte)
        /\ Len(SubSeq(d, 1, k - 1)) = k - 1
        /\ \A i \in 1 .. k - 1 : SubSeq(d, 1, k - 1)[i] = d[i]
    <2>1. 1 \in Int /\ k - 1 \in Int /\ \A i \in 1 .. k - 1 : d[i] \in Byte
      BY <1>1, <1>2
    <2>2. /\ SubSeq(d, 1, k - 1) \in Seq(Byte)
          /\ Len(SubSeq(d, 1, k - 1)) = IF 1 <= k - 1 THEN k - 1 - 1 + 1 ELSE 0
          /\ \A i \in 1 .. k - 1 - 1 + 1 : SubSeq(d, 1, k - 1)[i] = d[1 + i - 1]
      BY <2>1, SubSeqProperties
    <2> QED
      BY <1>2, <2>2
  <1> QED
    BY <1>3, <1>4 DEF After, Before, k

-----------------------------------------------------------------------------
(* Packets. *)

(* What is left of a packet after the identifier of the device. *)
Rest(t, r) == t \o <<Newline>> \o r

LEMMA RestIndices ==
    ASSUME NEW t \in Seq(Byte), NEW r \in Seq(Byte)
    PROVE  /\ Rest(t, r) \in Seq(Byte)
           /\ Len(Rest(t, r)) = Len(t) + 1 + Len(r)
           /\ \A i \in 1 .. Len(t) : Rest(t, r)[i] = t[i]
           /\ Rest(t, r)[Len(t) + 1] = Newline
           /\ \A i \in 1 .. Len(r) : Rest(t, r)[Len(t) + 1 + i] = r[i]
  <1>1. Len(t) \in Nat /\ Len(r) \in Nat
    BY LenProperties
  <1>2. <<Newline>> \in Seq(Byte) /\ Len(<<Newline>>) = 1 /\ <<Newline>>[1] = Newline
    BY DEF Byte
  <1> DEFINE u == t \o <<Newline>>
  <1>3. /\ u \in Seq(Byte) /\ Len(u) = Len(t) + 1
        /\ \A i \in 1 .. Len(t) + 1 :
              u[i] = IF i <= Len(t) THEN t[i] ELSE <<Newline>>[i - Len(t)]
    BY <1>2, ConcatProperties
  <1>4. \A i \in 1 .. Len(t) : u[i] = t[i]
    BY <1>1, <1>3
  <1>5. u[Len(t) + 1] = Newline
    <2>1. Len(t) + 1 \in 1 .. Len(t) + 1 /\ ~(Len(t) + 1 <= Len(t)) /\ Len(t) + 1 - Len(t) = 1
      BY <1>1
    <2> QED
      BY <1>2, <1>3, <2>1
  <1> HIDE DEF u
  <1>6. /\ u \o r \in Seq(Byte) /\ Len(u \o r) = Len(u) + Len(r)
        /\ \A i \in 1 .. Len(u) + Len(r) :
              (u \o r)[i] = IF i <= Len(u) THEN u[i] ELSE r[i - Len(u)]
    <2>1. u \in Seq(Byte) /\ r \in Seq(Byte)
      BY <1>3, Zenon
    <2> QED
      BY <2>1, ConcatProperties, ZenonT(40)
  <1>7. \A i \in 1 .. Len(r) : (u \o r)[Len(u) + i] = r[i]
    <2> SUFFICES ASSUME NEW i \in 1 .. Len(r) PROVE (u \o r)[Len(u) + i] = r[i]
      OBVIOUS
    <2>1. Len(u) + i \in 1 .. Len(u) + Len(r) /\ ~(Len(u) + i <= Len(u))
          /\ Len(u) + i - Len(u) = i
      BY <1>1, <1>3
    <2>2. (u \o r)[Len(u) + i] = r[Len(u) + i - Len(u)]
      BY <1>6, <2>1, SMTT(30)
    <2> QED
      BY <2>1, <2>2, Zenon
  <1>8. Rest(t, r) = u \o r
    BY DEF Rest, u
  <1> QED
    BY <1>1, <1>3, <1>4, <1>5, <1>6, <1>7, <1>8

(* The device's identifier ends at the first newline of its packets. *)
LEMMA ImeiIsCutOff ==
    ASSUME NEW t \in Seq(Byte), NEW r \in Seq(Byte)
    PROVE  LET d == Payload(Imei, t, r)
           IN  /\ d \in Seq(Byte) /\ d # <<>> /\ HasNewline(d)
               /\ Before(d) = Imei /\ After(d) = Rest(t, r)
  <1> DEFINE s == Rest(t, r)
             d == Rest(Imei, s)
  <1>1. Imei \in Seq(Byte) /\ Len(Imei) \in Nat
        /\ \A i \in 1 .. Len(Imei) : Imei[i] # Newline
    <2>1. Imei \in Seq(Char) /\ Char \subseteq Byte
      BY PathAssumption DEF Byte
    <2>2. Imei \in Seq(Byte)
      BY <2>1, SeqMonotonic
    <2>3. \A i \in 1 .. Len(Imei) : Imei[i] \in Char
      BY <2>1, ElementOfSeq
    <2> QED
      BY <2>2, <2>3, LenProperties, StoreAssumption
  <1>2. s \in Seq(Byte) /\ Len(s) \in Nat
    BY RestIndices, LenProperties
  <1>3. Payload(Imei, t, r) = d
    <2>1. <<Newline>> \in Seq(Byte)
      BY DEF Byte
    <2>2. t \o <<Newline>> \in Seq(Byte) /\ Imei \o <<Newline>> \in Seq(Byte)
      BY <1>1, <2>1, ConcatProperties
    <2>3. (Imei \o <<Newline>>) \o (t \o <<Newline>>)
            = ((Imei \o <<Newline>>) \o t) \o <<Newline>>
      BY <2>1, <2>2, ConcatAssociative
    <2>4. (Imei \o <<Newline>>) \o ((t \o <<Newline>>) \o r)
            = ((Imei \o <<Newline>>) \o (t \o <<Newline>>)) \o r
      <3>1. ASSUME NEW u \in Seq(Byte), NEW v \in Seq(Byte)
            PROVE  u \o (v \o r) = (u \o v) \o r
        BY ConcatAssociative, SMTT(60)
      <3> QED
        BY <2>2, <3>1, Zenon
    <2> QED
      BY <2>3, <2>4 DEF Payload, Rest
  <1>4. /\ d \in Seq(Byte)
        /\ Len(d) = Len(Imei) + 1 + Len(s)
        /\ \A i \in 1 .. Len(Imei) : d[i] = Imei[i]
        /\ d[Len(Imei) + 1] = Newline
        /\ \A i \in 1 .. Len(s) : d[Len(Imei) + 1 + i] = s[i]
    BY <1>1, <1>2, RestIndices
  <1> HIDE DEF s, d
  <1>5. HasNewline(d)
    BY <1>1, <1>2, <1>4 DEF HasNewline
  <1>6. NextNewLine(d) = Len(Imei) + 1
    <2>1. /\ NextNewLine(d) \in 1 .. Len(d)
          /\ d[NextNewLine(d)] = Newline
          /\ \A j \in 1 .. NextNewLine(d) - 1 : d[j] # Newline
      BY <1>4, <1>5, FirstNewline
    <2>2. ~(NextNewLine(d) <= Len(Imei))
      BY <1>1, <1>4, <2>1
    <2>3. ~(Len(Imei) + 1 < NextNewLine(d))
      BY <1>1, <1>2, <1>4, <2>1
    <2> QED
      BY <1>1, <1>2, <1>4, <2>1, <2>2, <2>3
  <1>7. After(d) = s
    <2>1. After(d) \in Seq(Byte) /\ Len(After(d)) = Len(s)
          /\ \A i \in 1 .. Len(s) : After(d)[i] = s[i]
      BY <1>1, <1>2, <1>4, <1>5, <1>6, RestFacts
    <2> QED
      BY <1>2, <2>1, SeqEqual
  <1>8. Before(d) = Imei
    <2>1. Before(d) \in Seq(Byte) /\ Len(Before(d)) = Len(Imei)
          /\ \A i \in 1 .. Len(Imei) : Before(d)[i] = Imei[i]
      BY <1>1, <1>4, <1>5, <1>6, RestFacts
    <2> QED
      BY <1>1, <2>1, SeqEqual
  <1>9. d # <<>>
    BY <1>1, <1>2, <1>4, EmptySeq
  <1> QED
    BY <1>3, <1>4, <1>5, <1>7, <1>8, <1>9 DEF s

(* The second newline comes with the token or ends it, so that bytes are
   left behind it. *)
LEMMA TokenIsCutOff ==
    ASSUME NEW t \in Seq(Byte), NEW r \in Seq(Byte), r # <<>>
    PROVE  LET s == Rest(t, r)
           IN  /\ s # <<>> /\ HasNewline(s)
               /\ NextNewLine(s) \in 1 .. Len(t) + 1
               /\ After(s) \in Seq(Byte)
               /\ Len(After(s)) = Len(t) + 1 + Len(r) - NextNewLine(s)
               /\ After(s) # <<>>
  <1> DEFINE s == Rest(t, r)
  <1>1. Len(t) \in Nat /\ Len(r) \in Nat \ {0}
    BY LenProperties, EmptySeq
  <1>2. s \in Seq(Byte) /\ Len(s) = Len(t) + 1 + Len(r)
        /\ s[Len(t) + 1] = Newline
    BY RestIndices
  <1> HIDE DEF s
  <1>3. HasNewline(s)
    BY <1>1, <1>2 DEF HasNewline
  <1>4. NextNewLine(s) \in 1 .. Len(t) + 1
    BY <1>1, <1>2, <1>3, FirstNewline
  <1>5. After(s) \in Seq(Byte) /\ Len(After(s)) = Len(s) - NextNewLine(s)
    BY <1>2, <1>3, RestFacts
  <1>6. s # <<>> /\ After(s) # <<>>
    BY <1>1, <1>2, <1>4, <1>5, EmptySeq
  <1> QED
    BY <1>2, <1>3, <1>4, <1>5, <1>6 DEF s

LEMMA FirstIs ==
    ASSUME NEW d \in Seq(Byte), NEW k \in 1 .. Len(d), d[k] = Newline,
           \A j \in 1 .. k - 1 : d[j] # Newline
    PROVE  HasNewline(d) /\ NextNewLine(d) = k
  <1>1. Len(d) \in Nat
    BY LenProperties
  <1>2. HasNewline(d)
    BY DEF HasNewline
  <1>3. /\ NextNewLine(d) \in 1 .. Len(d)
        /\ d[NextNewLine(d)] = Newline
        /\ \A j \in 1 .. NextNewLine(d) - 1 : d[j] # Newline
    BY <1>2, FirstNewline
  <1>4. ~(NextNewLine(d) < k) /\ ~(k < NextNewLine(d))
    BY <1>1, <1>3
  <1> QED
    BY <1>1, <1>2, <1>3, <1>4

(* The fields the agent makes of any packet of a node. *)
LEMMA ExtractedFields ==
    ASSUME NEW t \in Seq(Byte), NEW r \in Seq(Byte), r # <<>>
    PROVE  LET s == Rest(t, r)
               third == After(s)
               p == ExtractData(Payload(Imei, t, r))
           IN  /\ p.deviceId = Imei
               /\ p.password = Before(s)
               /\ p.cumulocityId = IF HasNewline(third) THEN Before(third) ELSE <<>>
               /\ p.payload = IF HasNewline(third) THEN After(third) ELSE <<>>
  <1> DEFINE d == Payload(Imei, t, r)
             s == Rest(t, r)
             third == After(s)
  <1>1. HasNewline(d) /\ Before(d) = Imei /\ After(d) = s
    BY ImeiIsCutOff
  <1>2. HasNewline(s)
    BY TokenIsCutOff
  <1>3. CASE HasNewline(third)
    <2>1. ExtractData(d) = [deviceId |-> Imei, password |-> Before(s),
                            cumulocityId |-> Before(third), payload |-> After(third)]
      BY <1>1, <1>2, <1>3 DEF ExtractData
    <2> QED
      BY <1>3, <2>1
  <1>4. CASE ~HasNewline(third)
    <2>1. ExtractData(d) = [Nothing EXCEPT !.deviceId = Imei, !.password = Before(s)]
      BY <1>1, <1>2, <1>4 DEF ExtractData
    <2>2. ExtractData(d) = [deviceId |-> Imei, password |-> Before(s),
                            cumulocityId |-> <<>>, payload |-> <<>>]
      BY <2>1 DEF Nothing
    <2> QED
      BY <1>4, <2>2
  <1> QED
    BY <1>3, <1>4

LEMMA PacketIsReadable ==
    ASSUME NEW t \in Seq(Byte), NEW r \in Seq(Byte), r # <<>>
    PROVE  ~ExtractFails(Payload(Imei, t, r))
  BY ImeiIsCutOff, TokenIsCutOff DEF ExtractFails

LEMMA WholeToken ==
    ASSUME NEW t \in Seq(Byte), NEW r \in Seq(Byte), Len(r) = PayloadLength,
           NEW i \in 1 .. Len(t), Splits(t, i)
    PROVE  LET p == ExtractData(Payload(Imei, t, r))
           IN  /\ Route(p) = "measurement"
               /\ p.deviceId = Imei
               /\ p.password = SubSeq(t, 1, i - 1)
               /\ p.cumulocityId = SubSeq(t, i + 1, Len(t))
               /\ p.payload = r
  <1> DEFINE s == Rest(t, r)
             third == After(s)
             n == Len(t) + 1 - i
             p == ExtractData(Payload(Imei, t, r))
  <1>1. Len(t) \in Nat /\ Len(r) \in Nat \ {0} /\ r # <<>>
    BY LenProperties, EmptySeq, PathAssumption
  <1>2. i \in 2 .. Len(t) - 1 /\ \A j \in 1 .. Len(t) : t[j] = Newline <=> j = i
    BY DEF Splits
  <1>3. /\ s \in Seq(Byte)
        /\ Len(s) = Len(t) + 1 + Len(r)
        /\ \A j \in 1 .. Len(t) : s[j] = t[j]
        /\ s[Len(t) + 1] = Newline
        /\ \A j \in 1 .. Len(r) : s[Len(t) + 1 + j] = r[j]
    BY RestIndices
  <1>4. \A j \in 1 .. Len(t) : t[j] \in Byte
    BY ElementOfSeq
  <1>0. n = Len(t) + 1 - i /\ n \in Nat /\ 2 <= n /\ n < Len(t)
    BY <1>1, <1>2
  <1> HIDE DEF s, n
  <1>5. HasNewline(s) /\ NextNewLine(s) = i
    <2>0. i \in 1 .. Len(t)
      OBVIOUS
    <2>1. i \in 1 .. Len(s) /\ s[i] = Newline
      <3>1. i \in Nat /\ 1 <= i /\ i <= Len(t) /\ Len(s) \in Nat /\ Len(t) <= Len(s)
        <4>1. Len(s) = Len(t) + 1 + Len(r)
          BY <1>3
        <4> QED
          BY <1>1, <2>0, <4>1
      <3>2. i \in 1 .. Len(s)
        BY <1>1, <3>1
      <3>3. s[i] = t[i]
        BY <1>3, <2>0, Zenon
      <3>4. t[i] = Newline
        BY <1>2, <2>0, Zenon
      <3> QED
        BY <3>2, <3>3, <3>4
    <2>2. ASSUME NEW j \in 1 .. i - 1 PROVE s[j] # Newline
      <3>1. j \in 1 .. Len(t) /\ j # i
        BY <1>1, <1>2
      <3> QED
        BY <1>2, <1>3, <3>1
    <2> QED
      BY <1>3, <2>1, <2>2, FirstIs
  <1>6. /\ third \in Seq(Byte)
        /\ Len(third) = n + Len(r)
        /\ \A j \in 1 .. Len(third) : third[j] = s[i + j]
        /\ Before(s) \in Seq(Byte)
        /\ Len(Before(s)) = i - 1
        /\ \A j \in 1 .. i - 1 : Before(s)[j] = s[j]
    <2>1. /\ third \in Seq(Byte)
          /\ Len(third) = Len(s) - i
          /\ \A j \in 1 .. Len(third) : third[j] = s[i + j]
          /\ Before(s) \in Seq(Byte)
          /\ Len(Before(s)) = i - 1
          /\ \A j \in 1 .. Len(Before(s)) : Before(s)[j] = s[j]
      BY <1>3, <1>5, RestFacts
    <2>2. Len(s) - i = n + Len(r)
      BY <1>1, <1>2, <1>3, <1>0
    <2> QED
      BY <2>1, <2>2
  <1> HIDE DEF third
  <1>7. HasNewline(third) /\ NextNewLine(third) = n
    <2>1. n \in 1 .. Len(third)
      BY <1>1, <1>0, <1>6
    <2>2. third[n] = Newline
      <3>1. i + n = Len(t) + 1
        BY <1>1, <1>2, <1>0
      <3> QED
        BY <1>3, <1>6, <2>1, <3>1
    <2>3. ASSUME NEW j \in 1 .. n - 1 PROVE third[j] # Newline
      <3>1. j \in 1 .. Len(third) /\ i + j \in 1 .. Len(t) /\ i + j # i
        BY <1>1, <1>2, <1>0, <1>6
      <3> QED
        BY <1>2, <1>3, <1>6, <3>1
    <2> QED
      BY <1>6, <2>1, <2>2, <2>3, FirstIs
  <1>8. /\ After(third) \in Seq(Byte)
        /\ Len(After(third)) = Len(r)
        /\ \A j \in 1 .. Len(r) : After(third)[j] = third[n + j]
        /\ Before(third) \in Seq(Byte)
        /\ Len(Before(third)) = n - 1
        /\ \A j \in 1 .. n - 1 : Before(third)[j] = third[j]
    <2>1. /\ After(third) \in Seq(Byte)
          /\ Len(After(third)) = Len(third) - n
          /\ \A j \in 1 .. Len(After(third)) : After(third)[j] = third[n + j]
          /\ Before(third) \in Seq(Byte)
          /\ Len(Before(third)) = n - 1
          /\ \A j \in 1 .. Len(Before(third)) : Before(third)[j] = third[j]
      BY <1>6, <1>7, RestFacts
    <2>2. Len(third) - n = Len(r)
      BY <1>1, <1>6, <1>0
    <2> QED
      BY <2>1, <2>2
  <1>9. After(third) = r
    <2>1. \A j \in 1 .. Len(r) : After(third)[j] = r[j]
      <3> SUFFICES ASSUME NEW j \in 1 .. Len(r) PROVE After(third)[j] = r[j]
        OBVIOUS
      <3>1. n + j \in 1 .. Len(third) /\ i + (n + j) = Len(t) + 1 + j
        BY SMTT(30), <1>1, <1>2, <1>6, <1>0
      <3> QED
        BY <1>3, <1>6, <1>8, <3>1
    <2> QED
      BY <1>8, <2>1, SeqEqual
  <1>10. Before(s) = SubSeq(t, 1, i - 1)
    <2>1. 1 \in Int /\ i - 1 \in Int /\ \A j \in 1 .. i - 1 : t[j] \in Byte
      BY <1>1, <1>2, <1>4
    <2>2. /\ SubSeq(t, 1, i - 1) \in Seq(Byte)
          /\ Len(SubSeq(t, 1, i - 1)) = IF 1 <= i - 1 THEN i - 1 - 1 + 1 ELSE 0
          /\ \A j \in 1 .. i - 1 - 1 + 1 : SubSeq(t, 1, i - 1)[j] = t[1 + j - 1]
      BY <2>1, SubSeqProperties
    <2>3. Len(SubSeq(t, 1, i - 1)) = i - 1
          /\ \A j \in 1 .. i - 1 : SubSeq(t, 1, i - 1)[j] = t[j]
      BY <1>2, <2>2
    <2>4. \A j \in 1 .. i - 1 : Before(s)[j] = SubSeq(t, 1, i - 1)[j]
      BY <1>1, <1>2, <1>3, <1>6, <2>3
    <2> QED
      BY <1>6, <2>2, <2>3, <2>4, SeqEqual
  <1>11. Before(third) = SubSeq(t, i + 1, Len(t))
    <2>1. i + 1 \in Int /\ Len(t) \in Int /\ \A j \in i + 1 .. Len(t) : t[j] \in Byte
      BY <1>1, <1>2, <1>4
    <2>2. /\ SubSeq(t, i + 1, Len(t)) \in Seq(Byte)
          /\ Len(SubSeq(t, i + 1, Len(t)))
                = IF i + 1 <= Len(t) THEN Len(t) - (i + 1) + 1 ELSE 0
          /\ \A j \in 1 .. Len(t) - (i + 1) + 1 :
                SubSeq(t, i + 1, Len(t))[j] = t[i + 1 + j - 1]
      BY <2>1, SubSeqProperties
    <2>3. Len(SubSeq(t, i + 1, Len(t))) = n - 1
          /\ \A j \in 1 .. n - 1 : SubSeq(t, i + 1, Len(t))[j] = t[i + j]
      <3>1. i + 1 <= Len(t) /\ Len(t) - (i + 1) + 1 = n - 1
        BY <1>1, <1>2, <1>0
      <3>2. ASSUME NEW j \in 1 .. n - 1 PROVE i + 1 + j - 1 = i + j
        BY <1>1, <1>2, <1>0
      <3> QED
        BY <2>2, <3>1, <3>2
    <2>4. ASSUME NEW j \in 1 .. n - 1
          PROVE  Before(third)[j] = SubSeq(t, i + 1, Len(t))[j]
      <3>1. j \in 1 .. Len(third) /\ i + j \in 1 .. Len(t)
        BY <1>1, <1>2, <1>0, <1>6
      <3> QED
        BY <1>3, <1>6, <1>8, <2>3, <3>1
    <2> QED
      BY <1>8, <2>2, <2>3, <2>4, SeqEqual
  <1>12. /\ p.deviceId = Imei /\ p.password = Before(s)
         /\ p.cumulocityId = Before(third) /\ p.payload = After(third)
    <2>1. /\ p.deviceId = Imei /\ p.password = Before(s)
          /\ p.cumulocityId = IF HasNewline(third) THEN Before(third) ELSE <<>>
          /\ p.payload = IF HasNewline(third) THEN After(third) ELSE <<>>
      BY <1>1, ExtractedFields, Zenon DEF s, third
    <2>2. HasNewline(third)
      BY <1>7, Zenon
    <2> QED
      BY <2>1, <2>2, Zenon
  <1>13. Before(s) # <<>> /\ Before(third) # <<>> /\ Imei # <<>>
    BY SMTT(30), <1>1, <1>2, <1>6, <1>8, <1>0, EmptySeq, PathAssumption
  <1> HIDE DEF p
  <1>14. IsValid(p) /\ IsMeasurementMessage(p)
    BY <1>9, <1>12, <1>13 DEF IsValid, IsMeasurementMessage
  <1>15. Route(p) = "measurement"
    BY <1>14 DEF Route
  <1> QED
    BY <1>9, <1>10, <1>11, <1>12, <1>15 DEF p

(* If the fields shift, the payload has not the length of the readings: only
   a newline that ends the token leaves exactly the readings behind it. *)
LEMMA OnlyWholeToken ==
    ASSUME NEW t \in Seq(Byte), NEW r \in Seq(Byte), Len(r) = PayloadLength,
           Route(ExtractData(Payload(Imei, t, r))) = "measurement"
    PROVE  IsToken(t)
  <1> DEFINE s == Rest(t, r)
             third == After(s)
             p == ExtractData(Payload(Imei, t, r))
             k == NextNewLine(s)
             n == NextNewLine(third)
  <1>1. Len(t) \in Nat /\ Len(r) \in Nat \ {0} /\ r # <<>>
    BY LenProperties, EmptySeq, PathAssumption
  <1>2. /\ p.password = Before(s)
        /\ p.cumulocityId = IF HasNewline(third) THEN Before(third) ELSE <<>>
        /\ p.payload = IF HasNewline(third) THEN After(third) ELSE <<>>
    BY <1>1, ExtractedFields
  <1>3. IsMeasurementMessage(p)
    BY DEF Route
  <1>4. /\ HasNewline(third)
        /\ Before(s) # <<>> /\ Before(third) # <<>>
        /\ Len(After(third)) = PayloadLength
    BY <1>2, <1>3 DEF IsMeasurementMessage
  <1>5. /\ s \in Seq(Byte)
        /\ Len(s) = Len(t) + 1 + Len(r)
        /\ \A j \in 1 .. Len(t) : s[j] = t[j]
    BY RestIndices
  <1>6. HasNewline(s)
    BY <1>1, TokenIsCutOff
  <1> HIDE DEF p, s
  <1>7. /\ k \in 1 .. Len(s) /\ s[k] = Newline
        /\ \A j \in 1 .. k - 1 : s[j] # Newline
    BY <1>5, <1>6, FirstNewline
  <1>8. /\ third \in Seq(Byte) /\ Len(third) = Len(s) - k
        /\ \A j \in 1 .. Len(third) : third[j] = s[k + j]
        /\ Before(s) \in Seq(Byte) /\ Len(Before(s)) = k - 1
    BY <1>5, <1>6, RestFacts
  <1> HIDE DEF third, k
  <1>9. /\ n \in 1 .. Len(third) /\ third[n] = Newline
        /\ \A j \in 1 .. n - 1 : third[j] # Newline
    BY <1>4, <1>8, FirstNewline
  <1>10. /\ Len(After(third)) = Len(third) - n
         /\ Before(third) \in Seq(Byte) /\ Len(Before(third)) = n - 1
    BY <1>4, <1>8, RestFacts
  <1> HIDE DEF n
  <1>11. k + n = Len(t) + 1 /\ k \in Nat /\ n \in Nat
    <2>1. Len(s) \in Nat /\ k \in Nat /\ k <= Len(s)
      BY <1>1, <1>5, <1>7
    <2>2. Len(third) \in Nat /\ n \in Nat
      BY <1>8, <1>9, <2>1
    <2>3. Len(r) = Len(third) - n
      BY <1>4, <1>10
    <2>4. Len(s) = Len(t) + 1 + Len(r) /\ Len(third) = Len(s) - k
      BY <1>5, <1>8
    <2>5. Len(t) \in Nat /\ Len(r) \in Nat
      BY <1>1
    <2> QED
      BY <2>1, <2>2, <2>3, <2>4, <2>5
  <1>12. k # 1 /\ n # 1
    <2>1. Len(Before(s)) # 0 /\ Len(Before(third)) # 0
      BY <1>4, <1>8, <1>10, EmptySeq
    <2> QED
      BY <1>8, <1>10, <2>1
  <1>13. k \in 2 .. Len(t) - 1
    BY <1>1, <1>7, <1>9, <1>11, <1>12
  <1>14. ASSUME NEW j \in 1 .. Len(t) PROVE t[j] = Newline <=> j = k
    <2>1. CASE j < k
      <3>1. j \in 1 .. k - 1 /\ j # k
        BY <1>11, <2>1
      <3>2. s[j] # Newline
        BY <1>7, <3>1
      <3>3. s[j] = t[j]
        BY <1>5
      <3> QED
        BY <3>1, <3>2, <3>3
    <2>2. CASE j = k
      <3>1. s[j] = t[j]
        BY <1>5
      <3> QED
        BY <1>7, <2>2, <3>1
    <2>3. CASE k < j
      <3>1. /\ j - k \in 1 .. n - 1
            /\ j - k \in 1 .. Len(third)
            /\ k + (j - k) = j /\ j # k
        <4>1. Len(t) \in Nat /\ k \in Nat /\ n \in Nat /\ k + n = Len(t) + 1
          BY <1>1, <1>11
        <4>2. Len(third) \in Nat /\ n <= Len(third)
          BY <1>8, <1>9, LenProperties
        <4> QED
          BY <2>3, <4>1, <4>2
      <3>2. third[j - k] # Newline
        BY <1>9, <3>1
      <3>3. third[j - k] = s[k + (j - k)]
        BY <1>8, <3>1
      <3>4. s[j] = t[j]
        BY <1>5
      <3> QED
        BY <3>1, <3>2, <3>3, <3>4
    <2>4. j \in Nat /\ k \in Nat
      BY <1>1, <1>11
    <2> QED
      BY <2>1, <2>2, <2>3, <2>4
  <1>15. k \in 1 .. Len(t)
    BY <1>1, <1>13
  <1>16. Splits(t, k)
    BY <1>13, <1>14, Zenon DEF Splits
  <1> QED
    BY <1>15, <1>16, Zenon DEF IsToken

(* A token with newlines at no two places but the first byte and the k-th
   registers the node or is whole. *)
LEMMA AnsweredToken ==
    ASSUME NEW t \in Seq(Byte), NEW r \in Seq(Byte), Len(r) = PayloadLength,
           ~HasNewline(r), NEW k \in Nat,
           \A j \in 1 .. Len(t) : t[j] = Newline => j \in {1, k}
    PROVE  Route(ExtractData(Payload(Imei, t, r))) # "none"
  <1> DEFINE s == Rest(t, r)
             third == After(s)
             p == ExtractData(Payload(Imei, t, r))
             m == NextNewLine(s)
             n == NextNewLine(third)
  <1>1. Len(t) \in Nat /\ Len(r) \in Nat \ {0} /\ r # <<>>
    BY LenProperties, EmptySeq, PathAssumption
  <1>2. /\ p.deviceId = Imei
        /\ p.password = Before(s)
        /\ p.cumulocityId = IF HasNewline(third) THEN Before(third) ELSE <<>>
        /\ p.payload = IF HasNewline(third) THEN After(third) ELSE <<>>
    BY <1>1, ExtractedFields
  <1>3. /\ s \in Seq(Byte)
        /\ Len(s) = Len(t) + 1 + Len(r)
        /\ \A j \in 1 .. Len(t) : s[j] = t[j]
        /\ \A j \in 1 .. Len(r) : s[Len(t) + 1 + j] = r[j]
    BY RestIndices
  <1>4. HasNewline(s) /\ m \in 1 .. Len(t) + 1
    BY <1>1, TokenIsCutOff
  <1>5. SUFFICES ASSUME p.password # <<>>, HasNewline(third) PROVE IsMeasurementMessage(p)
                        \/ IsRegisterMessage(p)
    <2>1. IsValid(p)
      BY <1>2, PathAssumption DEF IsValid
    <2>2. p.password = <<>> \/ ~HasNewline(third) => IsRegisterMessage(p)
      BY <1>2 DEF IsRegisterMessage
    <2> HIDE DEF p, third
    <2>3. IsMeasurementMessage(p) \/ IsRegisterMessage(p)
      BY <2>2, <1>5, Zenon
    <2>4. Route(p) # "none"
      BY <2>1, <2>3 DEF Route
    <2> QED
      BY <2>4 DEF p
  <1> HIDE DEF p, s
  <1>6. /\ s[m] = Newline
        /\ \A j \in 1 .. m - 1 : s[j] # Newline
    BY <1>3, <1>4, FirstNewline
  <1>7. /\ third \in Seq(Byte) /\ Len(third) = Len(s) - m
        /\ \A j \in 1 .. Len(third) : third[j] = s[m + j]
        /\ Before(s) \in Seq(Byte) /\ Len(Before(s)) = m - 1
    BY <1>3, <1>4, RestFacts
  <1> HIDE DEF third, m
  <1>8. m # 1
    BY <1>2, <1>5, <1>7, EmptySeq
  <1>9. /\ n \in 1 .. Len(third) /\ third[n] = Newline
    BY <1>5, <1>7, FirstNewline
  <1>10. Len(After(third)) = Len(third) - n
    BY <1>5, <1>7, RestFacts
  <1> HIDE DEF n
  <1>11. /\ m \in Nat /\ n \in Nat /\ m > 1 /\ n > 0 /\ m <= Len(t) + 1
         /\ m + n <= Len(t) + 1 + Len(r)
    BY SMTT(30), <1>1, <1>3, <1>4, <1>7, <1>8, <1>9
  <1>12. s[m + n] = Newline
    BY <1>7, <1>9
  <1>13. \A j \in 1 .. Len(t) : s[j] = Newline => j \in {1, k}
    BY <1>3
  <1>14. ~(m + n > Len(t) + 1)
    <2> SUFFICES ASSUME m + n > Len(t) + 1 PROVE FALSE
      OBVIOUS
    <2> DEFINE j == m + n - Len(t) - 1
    <2>1. j \in 1 .. Len(r) /\ Len(t) + 1 + j = m + n
      BY <1>1, <1>11
    <2> HIDE DEF j
    <2>2. s[Len(t) + 1 + j] = r[j]
      BY <1>3, <2>1
    <2>3. r[j] = Newline
      BY <1>12, <2>1, <2>2
    <2> QED
      BY <2>1, <2>3 DEF HasNewline
  <1>15. ~(m + n < Len(t) + 1)
    <2> SUFFICES ASSUME m + n < Len(t) + 1 PROVE FALSE
      OBVIOUS
    <2>1. m \in 1 .. Len(t) /\ m + n \in 1 .. Len(t) /\ m # m + n /\ m + n # 1
      BY <1>1, <1>11
    <2>2. m = k
      BY <1>6, <1>8, <1>13, <2>1
    <2>3. m + n = k
      BY <1>12, <1>13, <2>1
    <2> QED
      BY <2>1, <2>2, <2>3
  <1>16. Len(After(third)) = PayloadLength
    <2>1. Len(s) = Len(t) + 1 + Len(r) /\ Len(third) = Len(s) - m
      BY <1>3, <1>7
    <2>2. m + n = Len(t) + 1
      BY <1>1, <1>11, <1>14, <1>15
    <2>3. Len(r) \in Nat /\ Len(t) \in Nat
      BY <1>1
    <2>4. Len(third) - n = Len(r)
      BY <1>11, <2>1, <2>2, <2>3
    <2> QED
      BY <1>10, <2>4
  <1> QED
    BY <1>2, <1>5, <1>16 DEF IsMeasurementMessage, IsRegisterMessage

-----------------------------------------------------------------------------
(* The specification. *)

LEMMA StringType ==
    ASSUME NEW n \in Nat, NEW b \in [1 .. n -> Byte]
    PROVE  /\ CString(b, n) \in Seq(Byte)
           /\ \A i \in 1 .. Len(CString(b, n)) : i \in 1 .. n /\ CString(b, n)[i] = b[i]
  <1> DEFINE Ends(i) == i = n + 1 \/ b[i] = Nul
             T == {i \in 1 .. n + 1 : Ends(i)}
             First(i) == Ends(i) /\ \A j \in 1 .. i - 1 : ~Ends(j)
             end == CHOOSE i \in 1 .. n + 1 : First(i)
  <1>1. T \in SUBSET Nat /\ T # {}
    <2>1. n + 1 \in T
      OBVIOUS
    <2> QED
      BY <2>1
  <1>2. PICK m \in T : \A j \in T : m <= j
    BY <1>1, LeastNumber
  <1>3. \A j \in 1 .. m - 1 : ~Ends(j)
    BY <1>2
  <1>4. \E i \in 1 .. n + 1 : First(i)
    BY <1>2, <1>3
  <1>5. end \in 1 .. n + 1
    BY <1>4
  <1>6. CString(b, n) = [i \in 1 .. end - 1 |-> b[i]]
    BY DEF CString
  <1> HIDE DEF end
  <1>7. end - 1 \in Nat /\ \A i \in 1 .. end - 1 : i \in 1 .. n /\ b[i] \in Byte
    BY <1>5
  <1>8. CString(b, n) \in Seq(Byte)
    BY <1>6, <1>7
  <1>9. Len(CString(b, n)) = end - 1
    BY <1>6, <1>7
  <1> QED
    BY <1>6, <1>7, <1>8, <1>9

(* The last packet was made of some token and some readings, and extracted. *)
SentOK ==
    sent # Unsent =>
        /\ sent.token \in Seq(Byte)
        /\ sent.readings \in Readings
        /\ packet = ExtractData(LastDatagram)

(* The cells and the tokens read from them hold newlines in the first byte
   and in one other at most. *)
AlikeAt(k) ==
    /\ k \in 1 .. Cells
    /\ \A t \in Texts \ {Reset} : \A i \in 1 .. Len(t) : t[i] = Newline => i = k

NewlinesOK(k) ==
    /\ \A i \in 1 .. Cells : eeprom[i] = Newline => i \in {1, k}
    /\ \A i \in 1 .. ReadLength : token[i] = Newline => i \in {1, k}
    /\ sent # Unsent =>
          \A i \in 1 .. Len(sent.token) : sent.token[i] = Newline => i \in {1, k}

AlikeOK == \A k \in 1 .. Cells : AlikeAt(k) => NewlinesOK(k)

PathInv == Inv /\ SentOK /\ AlikeOK

LEMMA PathInitInv == PathInit => PathInv
  <1> SUFFICES ASSUME PathInit PROVE PathInv
    OBVIOUS
  <1>1. Inv /\ SentOK
    BY InitInv DEF PathInit, SentOK
  <1>2. AlikeOK
    BY StoreAssumption DEF AlikeOK, NewlinesOK, PathInit, Init, ReadPW
  <1> QED
    BY <1>1, <1>2 DEF PathInv

(* A byte of a text is a newline only where all texts have theirs. *)
LEMMA TextNewlines ==
    ASSUME NEW k, AlikeAt(k), NEW t \in Texts, NEW i \in 1 .. Len(t), t[i] = Newline
    PROVE  i \in {1, k}
  <1>1. CASE t = Reset
    BY <1>1 DEF Reset
  <1>2. CASE t # Reset
    BY <1>2 DEF AlikeAt
  <1> QED
    BY <1>1, <1>2

LEMMA StoreNewlines ==
    ASSUME Inv, NEW k, AlikeAt(k), NewlinesOK(k), [Next]_vars,
           UNCHANGED <<sent, packet>>
    PROVE  NewlinesOK(k)'
  <1>1. Cells \in Nat /\ ReadLength \in Nat /\ ReadLength <= Cells /\ Nul # Newline
    BY StoreAssumption
  <1>2. \A i \in 1 .. Cells : eeprom'[i] = Newline => i \in {1, k}
    <2>1. CASE WriteByte
      <3>1. writing \in Texts /\ next \in 1 .. Len(writing)
        BY <2>1 DEF WriteByte, Inv, TypeOK
      <3>2. writing[next] = Newline => next \in {1, k}
        BY <3>1, TextNewlines
      <3>3. eeprom' = [eeprom EXCEPT ![next] = writing[next]]
        BY <2>1 DEF WriteByte
      <3> QED
        BY <3>2, <3>3 DEF NewlinesOK, Inv, TypeOK
    <2>2. CASE Terminate
      BY <1>1, <2>2 DEF Terminate, NewlinesOK, Inv, TypeOK
    <2>3. CASE UNCHANGED eeprom
      BY <2>3 DEF NewlinesOK
    <2> QED
      BY <2>1, <2>2, <2>3 DEF Next, Receive, PowerFails, vars
  <1>3. \A i \in 1 .. ReadLength : token'[i] = Newline => i \in {1, k}
    <2>1. CASE token' = ReadPW(eeprom')
      <3>1. \A i \in 1 .. ReadLength : i \in 1 .. Cells /\ token'[i] = eeprom'[i]
        BY <1>1, <2>1 DEF ReadPW
      <3> QED
        BY <1>2, <3>1
    <2>2. CASE UNCHANGED token
      BY <2>2 DEF NewlinesOK
    <2> QED
      BY <2>1, <2>2 DEF Next, Receive, WriteByte, Terminate, PowerFails, vars
  <1> QED
    BY <1>2, <1>3 DEF NewlinesOK, Unsent

LEMMA SendNewlines ==
    ASSUME Inv, NEW k, NewlinesOK(k), NEW r \in Readings, Send(r)
    PROVE  NewlinesOK(k)'
  <1>1. sent'.token = Token /\ UNCHANGED <<eeprom, token>>
    BY DEF Send, vars
  <1>2. \A i \in 1 .. Len(Token) : i \in 1 .. ReadLength /\ Token[i] = token[i]
    BY StringType, StoreAssumption DEF Token, Inv, TypeOK
  <1> QED
    BY <1>1, <1>2 DEF NewlinesOK

LEMMA PathStepInv == PathInv /\ [PathNext]_pathVars => PathInv'
  <1> SUFFICES ASSUME PathInv, [PathNext]_pathVars PROVE PathInv'
    OBVIOUS
  <1>1. [Next]_vars
    BY DEF PathNext, Storing, Send, pathVars
  <1>2. Inv'
    BY <1>1, StepInv DEF PathInv
  <1>3. CASE UNCHANGED <<sent, packet>>
    <2>1. SentOK'
      BY <1>3 DEF PathInv, SentOK, LastDatagram, Unsent
    <2>2. AlikeOK'
      BY <1>1, <1>3, StoreNewlines DEF PathInv, AlikeOK, AlikeAt
    <2> QED
      BY <1>2, <2>1, <2>2 DEF PathInv
  <1>4. ASSUME NEW r \in Readings, Send(r) PROVE SentOK' /\ AlikeOK'
    <2>1. Token \in Seq(Byte)
      BY StringType, StoreAssumption DEF Token, PathInv, Inv, TypeOK
    <2>2. /\ sent'.token = Token /\ sent'.readings = r
          /\ packet' = ExtractData(Payload(Imei, Token, r))
      BY <1>4 DEF Send
    <2>3. SentOK'
      BY <2>1, <2>2 DEF SentOK, LastDatagram
    <2>4. AlikeOK'
      BY <1>4, SendNewlines DEF PathInv, AlikeOK, AlikeAt
    <2> QED
      BY <2>3, <2>4
  <1> QED
    BY <1>2, <1>3, <1>4 DEF PathInv, PathNext, Storing, pathVars

THEOREM PathInvariance == PathSpec => []PathInv
  BY PathInitInv, PathStepInv, PTL DEF PathSpec

LEMMA ReadingsFacts ==
    ASSUME NEW r \in Readings
    PROVE  r \in Seq(Byte) /\ Len(r) = PayloadLength /\ r # <<>>
  BY PathAssumption, EmptySeq

(* The agent's parser never runs off the end of a node's packet. *)
THEOREM PacketsReadable == PathSpec => []NodePacketIsReadable
  <1>1. PathInv => NodePacketIsReadable
    BY ReadingsFacts, PacketIsReadable
    DEF PathInv, SentOK, NodePacketIsReadable, LastDatagram
  <1> QED
    BY <1>1, PathInvariance, PTL

(* The fields of a packet under a whole token come out as they went in. *)
THEOREM WholeTokensMeasured == PathSpec => []WholeTokenIsMeasured
  <1>1. PathInv => WholeTokenIsMeasured
    BY ReadingsFacts, WholeToken
    DEF PathInv, SentOK, WholeTokenIsMeasured, LastDatagram
  <1> QED
    BY <1>1, PathInvariance, PTL

(* Nothing but readings sent under a whole token is stored as readings. *)
THEOREM OnlyWholeTokensMeasured == PathSpec => []OnlyWholeTokenIsMeasured
  <1>1. PathInv => OnlyWholeTokenIsMeasured
    BY ReadingsFacts, OnlyWholeToken
    DEF PathInv, SentOK, OnlyWholeTokenIsMeasured, LastDatagram
  <1> QED
    BY <1>1, PathInvariance, PTL

(* No power failure leaves a node with a token the agent does not answer, if
   all passwords are equally long (AgentRouter.java:33-41). *)
THEOREM NodesAnswered == PathSpec => []NoNodeIsIgnored
  <1>1. PathInv => NoNodeIsIgnored
    <2> SUFFICES ASSUME PathInv, AlikeTexts, sent # Unsent,
                        ~HasNewline(sent.readings)
                 PROVE  Route(packet) # "none"
      BY DEF NoNodeIsIgnored
    <2>1. PICK k \in 1 .. Cells : AlikeAt(k)
      BY DEF AlikeTexts, AlikeAt
    <2>2. /\ sent.token \in Seq(Byte) /\ sent.readings \in Readings
          /\ packet = ExtractData(Payload(Imei, sent.token, sent.readings))
      BY DEF PathInv, SentOK, LastDatagram
    <2>3. \A i \in 1 .. Len(sent.token) : sent.token[i] = Newline => i \in {1, k}
      BY <2>1 DEF PathInv, AlikeOK, NewlinesOK
    <2>4. k \in Nat
      BY <2>1, StoreAssumption
    <2> QED
      BY <2>2, <2>3, <2>4, ReadingsFacts, AnsweredToken
  <1> QED
    BY <1>1, PathInvariance, PTL
=============================================================================
