--------------------------- MODULE MCAddressSpaces ----------------------------
(***************************************************************************)
(* Instances of AddressSpaces for TLC.                                     *)
(***************************************************************************)
EXTENDS AddressSpaces

Symmetry == Permutations(Cpu) \cup Permutations(Space) \cup Permutations(Frame)


(* No TLB entry leads to a freed frame or allows more than its leaf, once  *)
(* the kernel has finished the change.                                     *)
TlbFollowsTable == NoTlbEntryOfFreeFrame /\ TlbNoWiderThanTable

===============================================================================
