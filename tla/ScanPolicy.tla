----------------------------- MODULE ScanPolicy -----------------------------
(***************************************************************************)
(* Policy evaluation of the registry: from the scan evidence recorded for  *)
(* an artifact to the distribution state the artifact earns.  Pure         *)
(* operators, shared by job completion (the evidence of one completion)    *)
(* and by every admission gate (all evidence recorded for a release).      *)
(*                                                                         *)
(* A policy keeps its scanner entries in order, because the first failing  *)
(* required entry decides the state.  Finding texts, limitations, engine   *)
(* revisions and configuration hashes are left out: no outcome depends on  *)
(* them.  A finding is its severity.                                       *)
(***************************************************************************)
EXTENDS Integers, Sequences

Modes == {"disabled", "advisory", "required"}
DistributionStates == {"pending", "approved", "quarantined", "scan-error", "revoked"}
Statuses == {"completed", "degraded", "error", "timeout", "unsupported"}
Severities == {"info", "low", "medium", "high", "critical"}

\* parsePolicy: a scanner appears at most once, ages are not negative.
PolicyDocuments ==
  {p \in [scanners : Seq([id : STRING, mode : Modes, blockSeverities : SUBSET Severities]),
          allowUnscanned : BOOLEAN, maxAge : Nat] :
     \A i, j \in DOMAIN p.scanners : p.scanners[i].id = p.scanners[j].id => i = j}

\* parseScanResult: what a scanner may say of the bytes it saw.
ReportRecords ==
  {r \in [status : Statuses, findings : SUBSET Severities,
          enumerated : Nat, analyzed : Nat, skipped : Nat, unsupported : Nat] :
     r.analyzed + r.skipped + r.unsupported <= r.enumerated}

\* The evidence a scanner entry is judged by: reports on exactly these bytes,
\* made under exactly this policy revision.
Relevant(policy, results, digest) ==
  {i \in DOMAIN results : /\ results[i].digest = digest
                          /\ results[i].policyRevision = policy.revision}

\* Reports of one scanner among the relevant ones.
ReportsOf(policy, results, digest, scannerId) ==
  {i \in Relevant(policy, results, digest) : results[i].scannerId = scannerId}

\* Mutant of LatestScanForScanner: the first report is kept.
FirstScanForScanner(policy, results, digest, scannerId) ==
  LET mine == ReportsOf(policy, results, digest, scannerId)
  IN  results[CHOOSE i \in mine : \A j \in mine : i <= j]

\* The last report in recording order.
LatestScanForScanner(policy, results, digest, scannerId) ==
  LET mine == ReportsOf(policy, results, digest, scannerId)
  IN  results[CHOOSE i \in mine : \A j \in mine : j <= i]

\* A report from the future counts as expired; the bound itself is still fresh.
EvidenceExpired(result, maxAge, now) ==
  \/ result.createdAt > now
  \/ maxAge >= 0 /\ now - result.createdAt > maxAge

\* Nothing analysed, or something enumerated that was not analysed.
Incomplete(result) ==
  \/ result.enumerated <= 0 \/ result.analyzed <= 0
  \/ result.skipped > 0 \/ result.unsupported > 0
  \/ result.analyzed # result.enumerated

\* The state one required scanner entry argues for.  The file count of the
\* artifact is compared only after the findings were judged.
RequiredVerdict(policy, entry, results, digest, fileCount, now) ==
  LET result == LatestScanForScanner(policy, results, digest, entry.id)
  IN  IF ReportsOf(policy, results, digest, entry.id) = {} THEN "scan-error"
      ELSE IF \/ result.status # "completed"
              \/ EvidenceExpired(result, policy.maxAge, now)
              \/ Incomplete(result) THEN "scan-error"
      ELSE IF result.findings \cap entry.blockSeverities # {} THEN "quarantined"
      ELSE IF result.enumerated # fileCount THEN "scan-error"
      ELSE "approved"

\* evaluatePolicy: the first required entry that does not argue for approval
\* decides; with required entries and no objection the artifact is approved;
\* advisory entries only have to have reported, and never block.
EvaluatePolicy(policy, results, digest, fileCount, now) ==
  LET entries  == policy.scanners
      required == {i \in DOMAIN entries : entries[i].mode = "required"}
      enabled  == {i \in DOMAIN entries : entries[i].mode # "disabled"}
      verdict(i) == RequiredVerdict(policy, entries[i], results, digest, fileCount, now)
      objecting == {i \in required : verdict(i) # "approved"}
      silent    == {i \in enabled : ReportsOf(policy, results, digest, entries[i].id) = {}}
  IN  IF objecting # {} THEN verdict(CHOOSE i \in objecting : \A j \in objecting : i <= j)
      ELSE IF required # {} THEN "approved"
      ELSE IF policy.allowUnscanned \/ (enabled # {} /\ silent = {}) THEN "approved"
      ELSE "scan-error"
=============================================================================
