----------------------------- MODULE Cumulocity -----------------------------
(***************************************************************************)
(* The Cumulocity tenant, as the agent uses it through the SDK: device     *)
(* registration with an operator in the loop, the inventory and the        *)
(* measurements.  It is an external service; the operators below say which *)
(* answers CumulocityHandler can get and what each one changes.            *)
(***************************************************************************)
EXTENDS Credentials

CONSTANT CredentialsOnce   \* whether an accepted request is consumed by the
                           \* poll that fetches its password

ASSUME CredentialsOnceAssumption == CredentialsOnce \in BOOLEAN

VARIABLES
    request,       \* the registration request of each device
    password,      \* the password each device user has now
    issuedTo,      \* the device each password was generated for
    objectOf,      \* the owner of each managed object, and its password then
    measurements   \* the stored measurements: who sent, under which object

c8yVars == <<request, password, issuedTo, objectOf, measurements>>

RequestState == {"none", "waiting", "pending", "accepted"}

Owner == [dev : Device \cup {NoDevice}, pw : Password \cup {NoPassword}]
NoOwner == [dev |-> NoDevice, pw |-> NoPassword]

C8yInit ==
    /\ request = [d \in Device |-> "none"]
    /\ password = [d \in Device |-> NoPassword]
    /\ issuedTo = [p \in Password |-> NoDevice]
    /\ objectOf = [i \in ObjectId |-> NoOwner]
    /\ measurements = {}

-----------------------------------------------------------------------------
(* The operator's actions, on the device-management page. *)

(* "Register device": WAITING FOR CONNECTION. *)
RegisterDevice(d) ==
    /\ request[d] = "none"
    /\ request' = [request EXCEPT ![d] = "waiting"]
    /\ UNCHANGED <<password, issuedTo, objectOf, measurements>>

(* "Accept", offered once the device has called in: a user device_<IMEI>
   with a fresh password; a device registered again gets a new password. *)
AcceptDevice(d) ==
    /\ request[d] = "pending"
    /\ \E p \in Password :
          /\ issuedTo[p] = NoDevice
          /\ issuedTo' = [issuedTo EXCEPT ![p] = d]
          /\ password' = [password EXCEPT ![d] = p]
    /\ request' = [request EXCEPT ![d] = "accepted"]
    /\ UNCHANGED <<objectOf, measurements>>

(* The operator removes the device and its user. *)
RemoveDevice(d) ==
    /\ password[d] # NoPassword
    /\ password' = [password EXCEPT ![d] = NoPassword]
    /\ request' = [request EXCEPT ![d] = "none"]
    /\ UNCHANGED <<issuedTo, objectOf, measurements>>

-----------------------------------------------------------------------------
(* The answers to the agent's calls. *)

Authenticates(d, p) == p # NoPassword /\ password[d] = p

(* pollCredentials answers with the password of an accepted request. *)
PollAnswers(d) ==
    /\ request[d] = "accepted"
    /\ request' = IF CredentialsOnce
                  THEN [request EXCEPT ![d] = "none"] ELSE request
    /\ UNCHANGED <<password, issuedTo, objectOf, measurements>>

(* pollCredentials throws: nothing to fetch (the call itself is what makes
   a waiting request acceptable). *)
PollRefused(d) ==
    /\ request[d] # "accepted"
    /\ request' = IF request[d] = "waiting"
                  THEN [request EXCEPT ![d] = "pending"] ELSE request
    /\ UNCHANGED <<password, issuedTo, objectOf, measurements>>

(* The inventory creates an object owned by the authenticated device. *)
InventoryCreates(d, p, i) ==
    /\ Authenticates(d, p)
    /\ objectOf[i] = NoOwner
    /\ objectOf' = [objectOf EXCEPT ![i] = [dev |-> d, pw |-> p]]
    /\ UNCHANGED <<request, password, issuedTo, measurements>>

(* The measurement is stored.  Authentication is all that is assumed of the
   platform: whether it also refuses a foreign object is left open. *)
MeasurementStored(d, tok) ==
    /\ Authenticates(d, tok.pw)
    /\ tok.id # NoObject
    /\ measurements' = measurements \cup {[dev |-> d, id |-> tok.id]}
    /\ UNCHANGED <<request, password, issuedTo, objectOf>>

-----------------------------------------------------------------------------
C8yTypeOK ==
    /\ request \in [Device -> RequestState]
    /\ password \in [Device -> Password \cup {NoPassword}]
    /\ issuedTo \in [Password -> Device \cup {NoDevice}]
    /\ objectOf \in [ObjectId -> Owner]
    /\ measurements \subseteq [dev : Device, id : ObjectId]
=============================================================================
