---------------------------- MODULE TeamMemoryMC ----------------------------
(* Two keys of callers, two names of nightly merges, one of a deep merge. *)
EXTENDS TeamMemory, TLC
CONSTANTS a, b, n1, n2, d1
MCKeys == {a, b, n1, n2, d1}
MCUserKeys == {a, b}
MCNightKeys == {n1, n2}
MCDeepKeys == {d1}
MCFacts == 1..MaxWrites
Alike == Permutations(MCUserKeys) \cup Permutations(MCNightKeys)
=============================================================================
