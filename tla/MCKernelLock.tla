----------------------------- MODULE MCKernelLock -----------------------------
(* KernelLock for TLC: CPUs and process contexts are interchangeable.        *)
EXTENDS KernelLock, TLC

Symmetry == Permutations(Cpu) \cup Permutations(Proc)

===============================================================================
