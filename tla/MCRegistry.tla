----------------------------- MODULE MCRegistry -----------------------------
(* Small instances of Registry for TLC. *)
EXTENDS Registry

CONSTANTS c1, c2, w1, w2, n1, n2, d1, noDigest

Scanner(id, mode) == [id |-> id, mode |-> mode, blockSeverities |-> {"high"}]

\* One required scanner whose evidence is good only within the tick it was made.
Strict == [scanners |-> <<Scanner("s1", "required")>>, allowUnscanned |-> FALSE, maxAge |-> 0]
\* No scanner at all, distribution of unscanned releases allowed.
Open == [scanners |-> <<Scanner("s1", "disabled")>>, allowUnscanned |-> TRUE, maxAge |-> 0]

MCFileCount == [d \in Digests |-> 1]
BothPolicies == {Strict, Open}
StrictOnly == {Strict}

Clean == [status |-> "completed", findings |-> {}, enumerated |-> 1, analyzed |-> 1,
          skipped |-> 0, unsupported |-> 0]
Flagged == [Clean EXCEPT !.findings = {"high"}]
Mixed == {Clean, Flagged}

AllClean == {Clean}
=============================================================================
