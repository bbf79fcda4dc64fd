--------------------------- MODULE MCNbIotSystem ---------------------------
(***************************************************************************)
(* Instances of NbIotSystem for TLC.  Passwords, objects and the slots of  *)
(* one kind are interchangeable; devices and addresses are as well.        *)
(***************************************************************************)
EXTENDS NbIotSystem, TLC

Symmetry ==
    Permutations(Device) \cup Permutations(Address) \cup
    Permutations(Password) \cup Permutations(ObjectId) \cup
    Permutations(Inbound) \cup Permutations(Outbound)
=============================================================================
