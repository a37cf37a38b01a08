---------------------------- MODULE MCTlbShootdown -----------------------------
(***************************************************************************)
(* Instances of TlbShootdown for TLC.                                      *)
(***************************************************************************)
EXTENDS TlbShootdown, TLC

Symmetry == Permutations(Cpu) \cup Permutations(Space) \cup Permutations(Page)

===============================================================================
