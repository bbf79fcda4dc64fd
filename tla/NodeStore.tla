----------------------------- MODULE NodeStore -----------------------------
(***************************************************************************)
(* How the node keeps its token in EEPROM: writePW and readPW of           *)
(* NB-IoT_node.ino, one byte at a time, with the power failing between any *)
(* two of them.  A text is a function from 1 .. n to characters; the cell  *)
(* numbers are those of the EEPROM, whose cell 0 is not used.              *)
(***************************************************************************)
EXTENDS Naturals, Sequences

CONSTANTS
    Char,          \* the characters of tokens, without the two below
    Nul, Newline,  \* '\0' and the separator of password and identifier
    Erased,        \* what a cell of a new EEPROM holds
    Cells,         \* the cells there are
    ReadLength,    \* how many of them readPW copies (20)
    Texts,         \* what the datagrams from the agent may carry
    MaxFailures    \* power failures (a bound)

Byte == Char \cup {Nul, Newline, Erased}

(* What the agent sends to reset a node. *)
Reset == <<Newline>>

ASSUME StoreAssumption ==
    /\ Cells \in Nat /\ ReadLength \in Nat /\ MaxFailures \in Nat
    /\ 0 < ReadLength /\ ReadLength <= Cells
    /\ Nul \notin Char \cup {Newline, Erased}
    /\ Newline \notin Char \cup {Erased}
    /\ Texts \subseteq Seq(Char \cup {Newline})
    /\ \A t \in Texts : 0 < Len(t) /\ Len(t) < Cells

VARIABLES
    eeprom,      \* the cells
    writing,     \* the text writePW is storing, or the empty one
    next,        \* the next character of it
    token,       \* readPW's static buffer, which is the driver's token
    before,      \* the token held when the text came in
    failures

vars == <<eeprom, writing, next, token, before, failures>>

ReadPW(cells) == [i \in 1 .. ReadLength |-> cells[i]]

Init ==
    /\ eeprom = [i \in 1 .. Cells |-> Erased]
    /\ writing = <<>>
    /\ next = 1
    /\ token = ReadPW(eeprom)
    /\ before = token
    /\ failures = 0

(* The loop hands the datagram's text to writePW. *)
Receive(t) ==
    /\ writing = <<>>
    /\ writing' = t
    /\ next' = 1
    /\ before' = token
    /\ UNCHANGED <<eeprom, token, failures>>

(* Mutant: the terminator is written before the text. *)
WriteTerminatorFirst ==
    LET end == Len(writing) + 1
        ready == eeprom[end] = Nul
    IN
    /\ next <= Len(writing)
    /\ eeprom' = IF ready THEN [eeprom EXCEPT ![next] = writing[next]]
                          ELSE [eeprom EXCEPT ![end] = Nul]
    /\ next' = IF ready THEN next + 1 ELSE next
    /\ UNCHANGED <<writing, token, before, failures>>

(* One turn of writePW's loop: a byte that is there already stays. *)
WriteByte ==
    /\ next <= Len(writing)
    /\ eeprom' = [eeprom EXCEPT ![next] = writing[next]]
    /\ next' = next + 1
    /\ UNCHANGED <<writing, token, before, failures>>

(* Mutant: the terminator is forgotten. *)
TerminateNot ==
    /\ writing # <<>>
    /\ next = Len(writing) + 1
    /\ token' = ReadPW(eeprom)
    /\ writing' = <<>>
    /\ next' = 1
    /\ UNCHANGED <<eeprom, before, failures>>

(* Mutant: the new token is not read back. *)
TerminateUnread ==
    /\ writing # <<>>
    /\ next = Len(writing) + 1
    /\ eeprom' = [eeprom EXCEPT ![next] = Nul]
    /\ writing' = <<>>
    /\ next' = 1
    /\ UNCHANGED <<token, before, failures>>

(* The terminator, then readPW and setAttDevice. *)
Terminate ==
    /\ writing # <<>>
    /\ next = Len(writing) + 1
    /\ eeprom' = [eeprom EXCEPT ![next] = Nul]
    /\ token' = ReadPW(eeprom')
    /\ writing' = <<>>
    /\ next' = 1
    /\ UNCHANGED <<before, failures>>

(* Mutant: the index outlives the restart. *)
PowerFailsKeepsIndex ==
    /\ failures < MaxFailures
    /\ failures' = failures + 1
    /\ token' = ReadPW(eeprom)
    /\ writing' = <<>>
    /\ UNCHANGED <<eeprom, next, before>>

(* The power fails, and setup() reads what is there. *)
PowerFails ==
    /\ failures < MaxFailures
    /\ failures' = failures + 1
    /\ token' = ReadPW(eeprom)
    /\ writing' = <<>>
    /\ next' = 1
    /\ UNCHANGED <<eeprom, before>>

Next ==
    \/ \E t \in Texts : Receive(t)
    \/ WriteByte
    \/ Terminate
    \/ PowerFails

Spec == Init /\ [][Next]_vars

-----------------------------------------------------------------------------
TypeOK ==
    /\ eeprom \in [1 .. Cells -> Byte]
    /\ writing \in Texts \cup {<<>>}
    /\ next \in 1 .. Len(writing) + 1
    /\ token \in [1 .. ReadLength -> Byte]
    /\ before \in [1 .. ReadLength -> Byte]
    /\ failures \in 0 .. MaxFailures

(* The buffer begins with the text t and ends there, as far as it reaches. *)
Holds(buffer, t) ==
    \A i \in 1 .. ReadLength :
        /\ i <= Len(t) => buffer[i] = t[i]
        /\ i = Len(t) + 1 => buffer[i] = Nul

(* Once a text has been stored, the token is that text, whatever longer texts
   and interrupted writes left in the cells behind it: of a text that is too
   long, as much as readPW copies (NB-IoT_node.ino:196-222). *)
StoredTextIsToken ==
    [][writing # <<>> /\ writing' = <<>> /\ failures' = failures
       => Holds(token', writing)]_vars

(* The token in use is the one a restart would read, except while a text is
   being written (NB-IoT_node.ino:69, 102-103). *)
TokenSurvivesRestart ==
    writing = <<>> => token = ReadPW(eeprom)

(* What the agent takes for a node without a password. *)
AsksToRegister(buffer) == buffer[1] \in {Newline, Nul}

(* Power may fail while a reset is stored: the node then still has its whole
   old token or already asks to be registered, never a part of the old one
   under which it would go on (NB-IoT_node.ino:201-211). *)
InterruptedResetIsClean ==
    [][writing = Reset /\ failures' # failures
       => token' = before \/ AsksToRegister(token')]_vars

(* A token cut short by a power failure is the beginning of the new text and
   the rest of the old token (NB-IoT_node.ino:201-207). *)
InterruptedTextIsSpliced ==
    [][writing # <<>> /\ failures' # failures
       => \A i \in 1 .. ReadLength :
             token'[i] = IF i < next THEN writing[i] ELSE before[i]]_vars
=============================================================================
