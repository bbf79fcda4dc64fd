----------------------------- MODULE Enrollment -----------------------------
(***************************************************************************)
(* What the demo promises, without nodes that loop, datagrams, queues or   *)
(* handlers: the platform issues passwords and creates objects, a device   *)
(* comes to hold credentials or none, and its readings are recorded.       *)
(***************************************************************************)
EXTENDS Credentials

CONSTANTS
    Once,      \* whether a password gets at most one object
    Private    \* whether a device only ever holds credentials of its own

VARIABLES
    issuedTo,   \* the device each password was issued to
    objectOf,   \* the owner of each object, and the password it came with
    held,       \* the token each device holds
    readings    \* who recorded a reading, and under which object

vars == <<issuedTo, objectOf, held, readings>>

Nobody == [dev |-> NoDevice, pw |-> NoPassword]

Init ==
    /\ issuedTo = [p \in Password |-> NoDevice]
    /\ objectOf = [i \in ObjectId |-> Nobody]
    /\ held = [d \in Device |-> Blank]
    /\ readings = {}

(* A new password is issued to a device. *)
Issue(d, p) ==
    /\ issuedTo[p] = NoDevice
    /\ issuedTo' = [issuedTo EXCEPT ![p] = d]
    /\ UNCHANGED <<objectOf, held, readings>>

(* An object is created for a device under one of its passwords. *)
Create(i, p) ==
    /\ objectOf[i] = Nobody
    /\ issuedTo[p] \in Device
    /\ Once => \A j \in ObjectId : objectOf[j].pw # p
    /\ objectOf' = [objectOf EXCEPT ![i] = [dev |-> issuedTo[p], pw |-> p]]
    /\ UNCHANGED <<issuedTo, held, readings>>

(* A device learns credentials whose two halves belong together. *)
Learn(d, p, i) ==
    /\ objectOf[i] = [dev |-> issuedTo[p], pw |-> p]
    /\ Private => issuedTo[p] = d
    /\ held' = [held EXCEPT ![d] = [pw |-> p, id |-> i]]
    /\ UNCHANGED <<issuedTo, objectOf, readings>>

(* A device is told to register again. *)
Forget(d) ==
    /\ held' = [held EXCEPT ![d] = Blank]
    /\ UNCHANGED <<issuedTo, objectOf, readings>>

(* A reading is recorded under an object of the device that took it. *)
Record(d, i) ==
    /\ objectOf[i].dev = d
    /\ readings' = readings \cup {[dev |-> d, id |-> i]}
    /\ UNCHANGED <<issuedTo, objectOf, held>>

Next ==
    \/ \E d \in Device, p \in Password : Issue(d, p)
    \/ \E i \in ObjectId, p \in Password : Create(i, p)
    \/ \E d \in Device, p \in Password, i \in ObjectId : Learn(d, p, i)
    \/ \E d \in Device : Forget(d)
    \/ \E d \in Device, i \in ObjectId : Record(d, i)

Spec == Init /\ [][Next]_vars
=============================================================================
