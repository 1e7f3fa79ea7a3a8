---------------------------- MODULE JobManagerMC ----------------------------
(* Instances of JobManager for TLC: the sets clients cancel from, and the     *)
(* symmetry of ids and workers (sound: they are only compared for equality).  *)
EXTENDS JobManager, TLC

Symm == Permutations(Jobs) \cup Permutations(Workers)
=============================================================================
