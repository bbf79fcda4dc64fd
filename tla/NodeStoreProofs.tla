-------------------------- MODULE NodeStoreProofs --------------------------
(***************************************************************************)
(* The token in EEPROM, for any set of texts and any number of failures.   *)
(***************************************************************************)
EXTENDS NodeStore, TLAPS

(* Between two texts the cells and the token agree; during one the cells are
   the written part of the text in front of the old token. *)
CellsOK ==
    /\ writing = <<>> => next = 1 /\ token = ReadPW(eeprom)
    /\ writing # <<>> =>
          /\ writing \in Texts
          /\ \A i \in 1 .. ReadLength :
                eeprom[i] = IF i < next THEN writing[i] ELSE before[i]

(* The written part of a text that reaches beyond readPW's buffer is not
   looked at; the part inside it is what the terminator will follow. *)
Inv == TypeOK /\ CellsOK

LEMMA ReadType ==
    ASSUME NEW c \in [1 .. Cells -> Byte]
    PROVE  ReadPW(c) \in [1 .. ReadLength -> Byte]
  BY StoreAssumption DEF ReadPW

LEMMA SameBuffer ==
    ASSUME NEW a \in [1 .. ReadLength -> Byte], NEW b \in [1 .. ReadLength -> Byte],
           \A i \in 1 .. ReadLength : a[i] = b[i]
    PROVE  a = b
  <1>1. a = [i \in 1 .. ReadLength |-> a[i]]
    OBVIOUS
  <1>2. b = [i \in 1 .. ReadLength |-> b[i]]
    OBVIOUS
  <1>3. [i \in 1 .. ReadLength |-> a[i]] = [i \in 1 .. ReadLength |-> b[i]]
    OBVIOUS
  <1> QED
    BY <1>1, <1>2, <1>3, Zenon

LEMMA TextFacts ==
    ASSUME NEW t \in Texts
    PROVE  /\ Len(t) \in Nat /\ 0 < Len(t) /\ Len(t) + 1 <= Cells
           /\ t # <<>>
           /\ \A i \in 1 .. Len(t) : t[i] \in Byte
  <1>1. t \in Seq(Char \cup {Newline}) /\ 0 < Len(t) /\ Len(t) < Cells
    BY StoreAssumption
  <1>2. Len(t) \in Nat
    BY <1>1
  <1>3. \A i \in 1 .. Len(t) : t[i] \in Char \cup {Newline}
    BY <1>1
  <1>4. t # <<>>
    BY <1>1
  <1> QED
    BY <1>1, <1>2, <1>3, <1>4, StoreAssumption DEF Byte

LEMMA InitInv == Init => Inv
  <1> SUFFICES ASSUME Init PROVE Inv
    OBVIOUS
  <1>1. eeprom \in [1 .. Cells -> Byte]
    BY DEF Init, Byte
  <1>2. token \in [1 .. ReadLength -> Byte] /\ before = token
    BY <1>1, ReadType DEF Init
  <1> QED
    BY <1>1, <1>2, StoreAssumption DEF Init, Inv, TypeOK, CellsOK

LEMMA StepInv == Inv /\ [Next]_vars => Inv'
  <1> SUFFICES ASSUME Inv, [Next]_vars PROVE Inv'
    OBVIOUS
  <1> USE DEF Inv, TypeOK
  <1>0. Cells \in Nat /\ ReadLength \in Nat /\ ReadLength <= Cells
        /\ MaxFailures \in Nat /\ Nul \in Byte
    BY StoreAssumption DEF Byte
  <1>1. ASSUME NEW t \in Texts, Receive(t) PROVE Inv'
    <2>1. t # <<>> /\ 1 \in 1 .. Len(t) + 1
      BY TextFacts
    <2>2. \A i \in 1 .. ReadLength : token[i] = eeprom[i]
      BY <1>0, <1>1 DEF Receive, CellsOK, ReadPW
    <2>3. CellsOK'
      BY <1>1, <2>1, <2>2 DEF Receive, CellsOK
    <2> QED
      BY <1>1, <2>1, <2>3 DEF Receive
  <1>2. CASE WriteByte
    <2>1. writing \in Texts
      BY <1>2 DEF WriteByte
    <2>2. /\ Len(writing) \in Nat /\ Len(writing) + 1 <= Cells
          /\ \A i \in 1 .. Len(writing) : writing[i] \in Byte
          /\ writing # <<>>
      BY <2>1, TextFacts
    <2>3. next \in 1 .. Cells /\ writing[next] \in Byte
          /\ next' \in 1 .. Len(writing) + 1
      BY <1>0, <1>2, <2>2 DEF WriteByte
    <2>4. eeprom' \in [1 .. Cells -> Byte]
      BY <1>2, <2>3 DEF WriteByte
    <2>5. \A i \in 1 .. ReadLength :
            eeprom'[i] = IF i < next' THEN writing[i] ELSE before[i]
      BY <1>0, <1>2, <2>1, <2>2, <2>3 DEF WriteByte, CellsOK
    <2> QED
      BY <1>2, <2>1, <2>2, <2>3, <2>4, <2>5 DEF WriteByte, CellsOK
  <1>3. CASE Terminate
    <2>1. writing \in Texts /\ next \in 1 .. Cells
      BY <1>0, <1>3, TextFacts DEF Terminate
    <2>2. eeprom' \in [1 .. Cells -> Byte]
      BY <1>0, <1>3, <2>1 DEF Terminate
    <2>3. token' \in [1 .. ReadLength -> Byte]
      BY <1>3, <2>2, ReadType DEF Terminate
    <2>4. writing' = <<>> /\ next' \in 1 .. Len(writing') + 1
      BY <1>3 DEF Terminate
    <2>5. CellsOK'
      BY <1>3 DEF Terminate, CellsOK, ReadPW
    <2> QED
      BY <1>3, <2>2, <2>3, <2>4, <2>5 DEF Terminate
  <1>4. CASE PowerFails
    <2>1. token' \in [1 .. ReadLength -> Byte]
      BY <1>4, ReadType DEF PowerFails
    <2>2. token' = ReadPW(eeprom)'
      BY <1>4 DEF PowerFails, ReadPW
    <2> QED
      BY <1>0, <1>4, <2>1, <2>2 DEF PowerFails, CellsOK
  <1>5. CASE UNCHANGED vars
    BY <1>5 DEF vars, CellsOK, ReadPW
  <1> QED
    BY <1>1, <1>2, <1>3, <1>4, <1>5 DEF Next

THEOREM Invariance == Spec => []Inv
  BY InitInv, StepInv, PTL DEF Spec

(* The index of writePW stays within the text it writes, and the cells and the
   token in use keep their sizes, for any length of the EEPROM and the text. *)
THEOREM StoreTypeCorrect == Spec => []TypeOK
  BY Invariance, PTL DEF Inv

(* A restart finds the token that was in use. *)
THEOREM RestartKeepsToken == Spec => []TokenSurvivesRestart
  <1>1. Inv => TokenSurvivesRestart
    BY DEF Inv, CellsOK, TokenSurvivesRestart
  <1> QED
    BY <1>1, Invariance, PTL

(* A stored text is the token, whatever the cells behind it hold. *)
THEOREM StoredIsRead == Spec => StoredTextIsToken
  <1>1. Inv /\ [Next]_vars
          => [writing # <<>> /\ writing' = <<>> /\ failures' = failures
              => Holds(token', writing)]_vars
    <2> SUFFICES ASSUME Inv, [Next]_vars, writing # <<>>, writing' = <<>>,
                        failures' = failures
                 PROVE  Holds(token', writing)
      OBVIOUS
    <2>0. Cells \in Nat /\ ReadLength \in Nat /\ ReadLength <= Cells
      BY StoreAssumption
    <2>1. failures \in Nat /\ next \in Nat
      BY DEF Inv, TypeOK
    <2>2. ~PowerFails
      BY <2>1 DEF PowerFails
    <2>3. writing \in Texts
      BY DEF Inv, CellsOK
    <2>4. ~WriteByte /\ ~(\E t \in Texts : Receive(t)) /\ ~UNCHANGED vars
      BY DEF WriteByte, Receive, vars
    <2>5. Terminate
      BY <2>2, <2>4 DEF Next
    <2>6. Len(writing) \in Nat /\ Len(writing) + 1 <= Cells
      BY <2>3, TextFacts
    <2>7. \A i \in 1 .. ReadLength :
            token'[i] = IF i = next THEN Nul ELSE eeprom[i]
      BY <2>0, <2>5, <2>6 DEF Terminate, ReadPW, Inv, TypeOK
    <2>8. \A i \in 1 .. ReadLength : i < next => eeprom[i] = writing[i]
      BY DEF Inv, CellsOK
    <2> QED
      <3>1. next = Len(writing) + 1
        BY <2>5 DEF Terminate
      <3>2. ASSUME NEW i \in 1 .. ReadLength
            PROVE  /\ i <= Len(writing) => token'[i] = writing[i]
                   /\ i = Len(writing) + 1 => token'[i] = Nul
        <4>1. i \in Nat
          BY <2>0
        <4> QED
          BY <2>6, <2>7, <2>8, <3>1, <4>1
      <3> QED
        BY <3>2 DEF Holds
  <1> QED
    BY <1>1, Invariance, PTL DEF Spec, StoredTextIsToken

(* What a power failure leaves, and that a reset never leaves a part of the
   old token in charge. *)
THEOREM InterruptedIsSpliced == Spec => InterruptedTextIsSpliced
  <1>1. Inv /\ [Next]_vars
          => [writing # <<>> /\ failures' # failures
              => \A i \in 1 .. ReadLength :
                    token'[i] = IF i < next THEN writing[i] ELSE before[i]]_vars
    BY StoreAssumption DEF Inv, CellsOK, TypeOK, Next, Receive, WriteByte,
       Terminate, PowerFails, ReadPW, vars
  <1> QED
    BY <1>1, Invariance, PTL DEF Spec, InterruptedTextIsSpliced

THEOREM ResetIsClean == Spec => InterruptedResetIsClean
  <1>1. Inv /\ [Next]_vars
          => [writing = Reset /\ failures' # failures
              => token' = before \/ AsksToRegister(token')]_vars
    <2> SUFFICES ASSUME Inv, [Next]_vars, writing = Reset, failures' # failures
                 PROVE  token' = before \/ AsksToRegister(token')
      OBVIOUS
    <2>1. PowerFails
      BY DEF Next, Receive, WriteByte, Terminate, vars
    <2>2. writing # <<>> /\ writing[1] = Newline
      BY DEF Reset
    <2>3. \A i \in 1 .. ReadLength :
            token'[i] = IF i < next THEN writing[i] ELSE before[i]
      BY <2>1, <2>2, StoreAssumption DEF PowerFails, ReadPW, Inv, CellsOK
    <2>4. next \in Nat /\ 1 <= next /\ ReadLength \in Nat /\ 0 < ReadLength
      BY <2>2, StoreAssumption DEF Inv, TypeOK
    <2>5. CASE next = 1
      <3>1. \A i \in 1 .. ReadLength : token'[i] = before[i]
        BY <2>3, <2>4, <2>5
      <3>2. token' \in [1 .. ReadLength -> Byte] /\ before \in [1 .. ReadLength -> Byte]
        <4>1. Inv'
          BY StepInv
        <4> QED
          BY <4>1 DEF Inv, TypeOK
      <3> QED
        BY <3>1, <3>2, SameBuffer
    <2>6. CASE next > 1
      BY <2>2, <2>3, <2>4, <2>6 DEF AsksToRegister
    <2> QED
      BY <2>4, <2>5, <2>6
  <1> QED
    BY <1>1, Invariance, PTL DEF Spec, InterruptedResetIsClean
=============================================================================
