-------------------------- MODULE MCLocalInstall --------------------------
(* Instances of LocalInstall: one or two skills, two contents, and a pack  *)
(* that pins every skill.  Processes are interchangeable.                  *)
EXTENDS LocalInstall, TLC

CONSTANTS d1, d2, k1

MCMembers == k1 :> [s \in Skills |-> d1]
Interchangeable == Permutations(Processes)
=============================================================================
