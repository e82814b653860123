----------------------------- MODULE MCInstalls -----------------------------
(* A small instance of Installs for TLC. *)
EXTENDS Installs, TLC

CONSTANTS h1, h2, s1, s2, p1, i1, i2

BothReleases == [p \in Packs |-> 1..MaxReleases]

\* Slots, subjects and reports are interchangeable.
Interchangeable == Permutations(Handlers) \cup Permutations(Subjects) \cup Permutations(Inputs)
=============================================================================
