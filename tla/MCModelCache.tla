---------------------------- MODULE MCModelCache ----------------------------
(***************************************************************************)
(* Values for TLC: the lists of LoRA files the processes are started with  *)
(* and the symmetry of the processes, which differ in nothing.             *)
(***************************************************************************)
EXTENDS ModelCache, TLC

CONSTANTS l1, l2

NoneOrOne == {<< >>, <<l1>>}
OneLora == {<<l1>>}
UpToTwo == NoneOrOne \cup {<<l1, l2>>}

Symmetry == Permutations(Procs)

=============================================================================
