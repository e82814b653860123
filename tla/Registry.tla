------------------------------ MODULE Registry ------------------------------
(***************************************************************************)
(* The admission core of the registry: releases, scan and import jobs,     *)
(* recorded evidence, packs and the organization's scan policy, with the   *)
(* request handlers and the workers that change them.                      *)
(*                                                                         *)
(* Granularity.  A handler awaits readState, works on that snapshot and    *)
(* then runs one synchronous repository transaction.  Where the snapshot   *)
(* reaches the transaction the handler is two actions (XRead keeps what it *)
(* took in request[c], XCommit is the transaction); where the transaction  *)
(* recomputes everything it is one.  A worker's completion is prechecked   *)
(* when it arrives (Submit) and committed later (one of the CompleteX      *)
(* actions), so the lease may be lost in between.                          *)
(*                                                                         *)
(* Arrays are sequences: skills, jobs, scans and packs are only appended   *)
(* to, and an identifier is the position of the record.  Random policy     *)
(* revisions and lease tokens are fresh numbers.  A lease deadline is only *)
(* ever compared with the clock, so its passing is an event (ExpireLease); *)
(* the age of evidence is measured against the clock now.                  *)
(***************************************************************************)
EXTENDS ScanPolicy, FiniteSets

CONSTANTS
  Clients,        \* callers with at most one request in flight each
  Workers,        \* worker processes
  Names,          \* name@version pairs of skills
  Mirrored,       \* those an upstream serves, so that they can be imported
  PackNames,      \* name@version pairs of packs
  Digests,        \* artifact digests
  NoDigest,       \* an import job that has acquired nothing yet
  FileCount,      \* files in the bundle with a given digest
  Policies,       \* policy documents an administrator may submit
  InitialPolicy,  \* the policy document in force at the start
  Reports,        \* what a scanner may report of an artifact
  MaxJobs,        \* bound: jobs ever created
  MaxPolicies,    \* bound: policy revisions ever created
  MaxTime,        \* bound: clock
  MaxChanges,     \* bound: ticks and policy changes together
  MaxLosses       \* bound: leases that run out under a live holder, plus crashes

ASSUME BoundsAssumption ==
  /\ MaxJobs \in Nat /\ MaxPolicies \in Nat \ {0} /\ MaxTime \in Nat
  /\ MaxChanges \in Nat /\ MaxLosses \in Nat
ASSUME NamesAssumption == Mirrored \subseteq Names
ASSUME DigestAssumption == NoDigest \notin Digests /\ FileCount \in [Digests -> Nat]
ASSUME PolicyAssumption == InitialPolicy \in Policies /\ Policies \subseteq PolicyDocuments
ASSUME ReportsAssumption == Reports \subseteq ReportRecords

VARIABLES
  policy,       \* [document, revision]
  skills, jobs, scans, packs,
  request,      \* per client: the request between its read and its transaction
  worker,       \* per worker: the claimed job and how far it got
  completions,  \* completions the server has prechecked and not yet committed
  leases,       \* lease tokens handed out so far
  losses,       \* environment budget used
  now

vars == <<policy, skills, jobs, scans, packs, request, worker, completions,
          leases, losses, now>>
state == <<policy, skills, jobs, scans, packs>>

NoSkill == 0
NoToken == 0
Idle == [phase |-> "idle"]
NoRequest == [op |-> "none"]

\* A policy document in force under a revision, as jobs snapshot it.
Policy(document, revision) ==
  [scanners |-> document.scanners, allowUnscanned |-> document.allowUnscanned,
   maxAge |-> document.maxAge, revision |-> revision]

Init ==
  /\ policy = Policy(InitialPolicy, 1)
  /\ skills = <<>> /\ jobs = <<>> /\ scans = <<>> /\ packs = <<>>
  /\ request = [c \in Clients |-> NoRequest]
  /\ worker = [w \in Workers |-> Idle]
  /\ completions = {}
  /\ leases = 0 /\ losses = 0 /\ now = 0

-----------------------------------------------------------------------------
(* Admission: what a reader of the state may resolve.                      *)

EvidenceOf(k) == [i \in skills[k].scanIds |-> scans[i]]

\* Mutant of SkillCurrentlyApproved: an approval outlives the policy.
ApprovedUnderAnyPolicy(k) ==
  /\ skills[k].state = "approved"
  /\ EvaluatePolicy(policy, EvidenceOf(k), skills[k].digest,
                    FileCount[skills[k].digest], now) = "approved"

\* skillCurrentlyApproved: the recorded state, the revision it was earned
\* under and the age of the evidence are all checked again at every use.
SkillCurrentlyApproved(k) ==
  /\ skills[k].state = "approved"
  /\ skills[k].policyRevision = policy.revision
  /\ EvaluatePolicy(policy, EvidenceOf(k), skills[k].digest,
                    FileCount[skills[k].digest], now) = "approved"

\* resolveResource for a pack: the pack and every member are current.
PackResolvable(p) ==
  /\ packs[p].state = "approved"
  /\ packs[p].policyRevision = policy.revision
  /\ \A k \in packs[p].members : SkillCurrentlyApproved(k)

Published(n) == \E k \in DOMAIN skills : skills[k].name = n
Active(j) == jobs[j].state \in {"queued", "running"}

\* Model bound: room for one more job beyond those in flight.
Room == Len(jobs) + Cardinality({c \in Clients : request[c].op \in {"publish", "rescan"}})
          < MaxJobs

-----------------------------------------------------------------------------
(* Publishing, rescanning, importing.                                      *)

NewSkill(n, d, s, revision, ids) ==
  [name |-> n, digest |-> d, state |-> s, policyRevision |-> revision, scanIds |-> ids]

ScanJob(k, n, d, p) ==
  [kind |-> "scan", skill |-> k, name |-> n, digest |-> d, state |-> "queued",
   token |-> NoToken, live |-> FALSE, policy |-> p]

ImportJob(n, p) ==
  [kind |-> "import", skill |-> NoSkill, name |-> n, digest |-> NoDigest, state |-> "queued",
   token |-> NoToken, live |-> FALSE, policy |-> p]

Request(c, r) == /\ request[c] = NoRequest
                 /\ request' = [request EXCEPT ![c] = r]
                 /\ UNCHANGED <<state, worker, completions, leases, losses, now>>

Answer(c) == request' = [request EXCEPT ![c] = NoRequest]

\* publishSkill up to its transaction: the policy it read is the one the
\* release and its job will carry.
PublishRead(c, n, d) ==
  /\ Room
  /\ ~Published(n)
  /\ Request(c, [op |-> "publish", name |-> n, digest |-> d, policy |-> policy])

PublishCommit(c) ==
  LET r == request[c] IN
  /\ r.op = "publish"
  /\ ~Published(r.name)
  /\ skills' = Append(skills, NewSkill(r.name, r.digest, "pending", r.policy.revision, {}))
  /\ jobs' = Append(jobs, ScanJob(Len(skills) + 1, r.name, r.digest, r.policy))
  /\ Answer(c)
  /\ UNCHANGED <<policy, scans, packs, worker, completions, leases, losses, now>>

\* VERSION_CONFLICT: somebody else took the version after the read.
PublishConflict(c) ==
  /\ request[c].op = "publish"
  /\ Published(request[c].name)
  /\ Answer(c)
  /\ UNCHANGED <<state, worker, completions, leases, losses, now>>

RescanRead(c, k) ==
  /\ Room
  /\ Request(c, [op |-> "rescan", skill |-> k, policy |-> policy])

\* Mutant of RescanCommit: rescanning revives a revoked release.
RescanRevives(c) ==
  LET r == request[c] IN
  /\ r.op = "rescan"
  /\ skills' = [skills EXCEPT ![r.skill].state = "pending"]
  /\ jobs' = Append(jobs, ScanJob(r.skill, skills[r.skill].name, skills[r.skill].digest, r.policy))
  /\ Answer(c)
  /\ UNCHANGED <<policy, scans, packs, worker, completions, leases, losses, now>>

\* A revoked release stays revoked, and still gets its scan job.
RescanCommit(c) ==
  LET r == request[c] IN
  /\ r.op = "rescan"
  /\ skills' = [skills EXCEPT ![r.skill].state = IF @ = "revoked" THEN @ ELSE "pending"]
  /\ jobs' = Append(jobs, ScanJob(r.skill, skills[r.skill].name, skills[r.skill].digest, r.policy))
  /\ Answer(c)
  /\ UNCHANGED <<policy, scans, packs, worker, completions, leases, losses, now>>

\* resolveOrQueueImport for a name with one source: join the active import,
\* answer from the release if there is one, otherwise queue.
QueueImport(n) ==
  /\ Room
  /\ ~Published(n)
  /\ ~\E j \in DOMAIN jobs : jobs[j].kind = "import" /\ jobs[j].name = n /\ Active(j)
  /\ jobs' = Append(jobs, ImportJob(n, policy))
  /\ UNCHANGED <<policy, skills, scans, packs, request, worker, completions, leases, losses, now>>

-----------------------------------------------------------------------------
(* Packs, policy, revocation.                                              *)

\* createPack up to its transaction: members resolve in the state it read.
PackRead(c, n, members) ==
  /\ members # {}
  /\ ~\E p \in DOMAIN packs : packs[p].name = n
  /\ \A k \in members : SkillCurrentlyApproved(k)
  /\ Request(c, [op |-> "pack", name |-> n, members |-> members, revision |-> policy.revision])

\* Mutant of MembersUnchanged: the members are not looked at again.
MembersTrusted(members) == TRUE

\* The recheck inside the transaction: recorded state and current revision,
\* not the age of the evidence.
MembersUnchanged(members) ==
  \A k \in members : skills[k].state = "approved" /\ skills[k].policyRevision = policy.revision

PackCommit(c) ==
  LET r == request[c] IN
  /\ r.op = "pack"
  /\ ~\E p \in DOMAIN packs : packs[p].name = r.name
  /\ MembersUnchanged(r.members)
  /\ packs' = Append(packs, [name |-> r.name, members |-> r.members, state |-> "approved",
                             policyRevision |-> r.revision])
  /\ Answer(c)
  /\ UNCHANGED <<policy, skills, jobs, scans, worker, completions, leases, losses, now>>

PackConflict(c) ==
  LET r == request[c] IN
  /\ r.op = "pack"
  /\ \/ \E p \in DOMAIN packs : packs[p].name = r.name
     \/ ~MembersUnchanged(r.members)
  /\ Answer(c)
  /\ UNCHANGED <<state, worker, completions, leases, losses, now>>

UpdatePolicy(document) ==
  /\ policy.revision < MaxPolicies /\ now + policy.revision <= MaxChanges
  /\ policy' = Policy(document, policy.revision + 1)
  /\ UNCHANGED <<skills, jobs, scans, packs, request, worker, completions, leases, losses, now>>

Revoke(k) ==
  /\ skills' = [skills EXCEPT ![k].state = "revoked"]
  /\ packs' = [p \in DOMAIN packs |->
                 IF k \in packs[p].members THEN [packs[p] EXCEPT !.state = "revoked"] ELSE packs[p]]
  /\ UNCHANGED <<policy, jobs, scans, request, worker, completions, leases, losses, now>>

-----------------------------------------------------------------------------
(* Workers and leases.                                                     *)

\* Mutant of Claimable: an expired lease is never taken over.
ClaimableOnce(j) == jobs[j].state = "queued"

Claimable(j) == \/ jobs[j].state = "queued"
                \/ jobs[j].state = "running" /\ ~jobs[j].live

\* claimJob: the first claimable job in array order, under a fresh token.  The
\* worker keeps the copy of the job the answer carried.
Claim(w) ==
  /\ worker[w] = Idle
  /\ \E j \in DOMAIN jobs :
       /\ Claimable(j)
       /\ \A i \in DOMAIN jobs : Claimable(i) => j <= i
       /\ jobs' = [jobs EXCEPT ![j].state = "running", ![j].token = leases + 1, ![j].live = TRUE]
       /\ worker' = [worker EXCEPT ![w] = [phase |-> "working", job |-> j, token |-> leases + 1,
                                           policy |-> jobs[j].policy]]
  /\ leases' = leases + 1
  /\ UNCHANGED <<policy, skills, scans, packs, request, completions, losses, now>>

\* A poll that finds nothing to do.
Poll(w) ==
  /\ worker[w] = Idle
  /\ ~\E j \in DOMAIN jobs : Claimable(j)
  /\ UNCHANGED vars

\* Acquisition, materialisation, a required hook or a scanner failed, or the
\* server refused or did not answer the completion: the worker's catch block.
GiveUp(w) ==
  /\ worker[w].phase \in {"working", "waiting"}
  /\ worker' = [worker EXCEPT ![w].phase = "failing"]
  /\ UNCHANGED <<state, request, completions, leases, losses, now>>

\* The checks every completion passes before its transaction.
LeaseHeld(j, token) ==
  jobs[j].state = "running" /\ jobs[j].token = token /\ jobs[j].live

\* The scanners that run, listed in policy order: the one increasing listing of
\* the entries that are not disabled.
Enabled(p) == {i \in DOMAIN p.scanners : p.scanners[i].mode # "disabled"}
Schedules(p) ==
  {f \in UNION {[1..n -> Enabled(p)] : n \in 0..Len(p.scanners)} :
     /\ \A i \in Enabled(p) : \E n \in DOMAIN f : f[n] = i
     /\ \A n, o \in DOMAIN f : n < o => f[n] < f[o]}

\* toContractScanResult / parseScanResult: one report per enabled scanner,
\* bound to the job's artifact and policy revision.
ScanResult(w, d, i, report) ==
  [jobId |-> worker[w].job, scannerId |-> worker[w].policy.scanners[i].id, digest |-> d,
   policyRevision |-> worker[w].policy.revision, createdAt |-> now,
   status |-> report.status, findings |-> report.findings,
   enumerated |-> report.enumerated, analyzed |-> report.analyzed,
   skipped |-> report.skipped, unsupported |-> report.unsupported]

\* completeJob up to its transaction, for a finished run over artifact d.
Submit(w, d, schedule, reports) ==
  LET j == worker[w].job
      p == worker[w].policy
  IN  /\ worker[w].phase = "working"
      /\ LeaseHeld(j, worker[w].token)
      /\ p.revision = jobs[j].policy.revision
      /\ jobs[j].kind = "scan" => d = jobs[j].digest
      /\ completions' = completions \cup
           {[job |-> j, token |-> worker[w].token, error |-> FALSE, digest |-> d,
             results |-> [n \in DOMAIN schedule |-> ScanResult(w, d, schedule[n], reports[n])]]}
      /\ worker' = [worker EXCEPT ![w].phase = "waiting"]
      /\ UNCHANGED <<state, request, leases, losses, now>>

\* completeFailure: the same entry with an error instead of results.  The
\* worker does not outlive its answer: a refusal ends the process.
SubmitFailure(w) ==
  LET j == worker[w].job IN
  /\ worker[w].phase = "failing"
  /\ completions' = IF LeaseHeld(j, worker[w].token)
                    THEN completions \cup {[job |-> j, token |-> worker[w].token, error |-> TRUE,
                                            digest |-> NoDigest, results |-> <<>>]}
                    ELSE completions
  /\ worker' = [worker EXCEPT ![w] = Idle]
  /\ UNCHANGED <<state, request, leases, losses, now>>

Crash(w) ==
  /\ worker[w] # Idle
  /\ losses < MaxLosses
  /\ losses' = losses + 1
  /\ worker' = [worker EXCEPT ![w] = Idle]
  /\ UNCHANGED <<state, request, completions, leases, now>>

\* Somebody still means to complete job j under its current token.
Attended(j) == \/ \E w \in Workers : worker[w] # Idle /\ worker[w].token = jobs[j].token
               \/ \E x \in completions : x.token = jobs[j].token

\* leaseExpiresAt passes.  Time always runs out on an abandoned lease; it runs
\* out on a held one only as often as the budget allows.
ExpireLease(j) ==
  /\ jobs[j].state = "running"
  /\ jobs[j].live
  /\ Attended(j) => losses < MaxLosses
  /\ losses' = IF Attended(j) THEN losses + 1 ELSE losses
  /\ jobs' = [jobs EXCEPT ![j].live = FALSE]
  /\ UNCHANGED <<policy, skills, scans, packs, request, worker, completions, leases, now>>

Tick ==
  /\ now < MaxTime /\ now + policy.revision <= MaxChanges
  /\ now' = now + 1
  /\ UNCHANGED <<state, request, worker, completions, leases, losses>>

-----------------------------------------------------------------------------
(* The transaction of completeJob.                                         *)

\* The completion leaves the server; a worker still waiting for it learns
\* whether it was accepted.
Reply(x, accepted) ==
  /\ completions' = completions \ {x}
  /\ worker' = [w \in Workers |->
       IF worker[w].phase = "waiting" /\ worker[w].token = x.token /\ ~x.error
       THEN IF accepted THEN Idle ELSE [worker[w] EXCEPT !.phase = "failing"]
       ELSE worker[w]]

Stale(x) == jobs[x.job].policy.revision # policy.revision

Released(j) == [jobs[j] EXCEPT !.token = NoToken, !.live = FALSE]

CompleteFenced(x) ==
  /\ ~LeaseHeld(x.job, x.token)
  /\ Reply(x, FALSE)
  /\ UNCHANGED <<state, request, leases, losses, now>>

\* Mutant of CompleteRequeue: the job is closed instead of requeued.
RequeueCloses(x) ==
  LET k == jobs[x.job].skill IN
  /\ LeaseHeld(x.job, x.token)
  /\ Stale(x)
  /\ jobs' = [jobs EXCEPT ![x.job] = [Released(x.job) EXCEPT !.state = "completed"]]
  /\ skills' = IF k = NoSkill \/ skills[k].state = "revoked" THEN skills
               ELSE [skills EXCEPT ![k].state = "pending", ![k].policyRevision = policy.revision]
  /\ Reply(x, TRUE)
  /\ UNCHANGED <<policy, scans, packs, request, leases, losses, now>>

\* The policy changed under the job: nothing of the result is used, the job
\* goes back to the queue under the current policy.
CompleteRequeue(x) ==
  LET k == jobs[x.job].skill IN
  /\ LeaseHeld(x.job, x.token)
  /\ Stale(x)
  /\ jobs' = [jobs EXCEPT ![x.job] = [Released(x.job) EXCEPT !.state = "queued", !.policy = policy]]
  /\ skills' = IF k = NoSkill \/ skills[k].state = "revoked" THEN skills
               ELSE [skills EXCEPT ![k].state = "pending", ![k].policyRevision = policy.revision]
  /\ Reply(x, TRUE)
  /\ UNCHANGED <<policy, scans, packs, request, leases, losses, now>>

\* Mutant of CompleteError: a failed rescan falls back to the earlier evidence.
FailureRestores(x) ==
  LET k == jobs[x.job].skill IN
  /\ LeaseHeld(x.job, x.token)
  /\ ~Stale(x)
  /\ x.error
  /\ jobs' = [jobs EXCEPT ![x.job].state = "failed"]
  /\ skills' = IF k = NoSkill \/ skills[k].state = "revoked" THEN skills
               ELSE [skills EXCEPT ![k].state = IF skills[k].scanIds = {} THEN "scan-error"
                                                ELSE "approved"]
  /\ Reply(x, TRUE)
  /\ UNCHANGED <<policy, scans, packs, request, leases, losses, now>>

\* A failed job keeps its lease fields.
CompleteError(x) ==
  LET k == jobs[x.job].skill IN
  /\ LeaseHeld(x.job, x.token)
  /\ ~Stale(x)
  /\ x.error
  /\ jobs' = [jobs EXCEPT ![x.job].state = "failed"]
  /\ skills' = IF k = NoSkill \/ skills[k].state = "revoked" THEN skills
               ELSE [skills EXCEPT ![k].state = "scan-error"]
  /\ Reply(x, TRUE)
  /\ UNCHANGED <<policy, scans, packs, request, leases, losses, now>>

\* Mutant of NewIds: identifiers start one too late.
NewIdsShifted(x) == (Len(scans) + 2)..(Len(scans) + 1 + Len(x.results))

\* The results are appended to the evidence log in scanner order.
NewIds(x) == (Len(scans) + 1)..(Len(scans) + Len(x.results))

\* The evaluation uses the job's policy snapshot and this completion's
\* results alone.
Evaluation(x) == EvaluatePolicy(jobs[x.job].policy, x.results, x.digest, FileCount[x.digest], now)

\* Mutant of CompleteScan: the transaction relies on the precheck of the lease.
ScanUnfenced(x) ==
  LET k == jobs[x.job].skill IN
  /\ ~Stale(x)
  /\ ~x.error
  /\ jobs[x.job].kind = "scan"
  /\ scans' = scans \o x.results
  /\ skills' = [skills EXCEPT ![k].scanIds = @ \cup NewIds(x),
                              ![k].state = IF @ = "revoked" THEN @ ELSE Evaluation(x),
                              ![k].policyRevision = jobs[x.job].policy.revision]
  /\ jobs' = [jobs EXCEPT ![x.job] = [Released(x.job) EXCEPT !.state = "completed"]]
  /\ Reply(x, TRUE)
  /\ UNCHANGED <<policy, packs, request, leases, losses, now>>

CompleteScan(x) ==
  LET k == jobs[x.job].skill IN
  /\ LeaseHeld(x.job, x.token)
  /\ ~Stale(x)
  /\ ~x.error
  /\ jobs[x.job].kind = "scan"
  /\ scans' = scans \o x.results
  /\ skills' = [skills EXCEPT ![k].scanIds = @ \cup NewIds(x),
                              ![k].state = IF @ = "revoked" THEN @ ELSE Evaluation(x),
                              ![k].policyRevision = jobs[x.job].policy.revision]
  /\ jobs' = [jobs EXCEPT ![x.job] = [Released(x.job) EXCEPT !.state = "completed"]]
  /\ Reply(x, TRUE)
  /\ UNCHANGED <<policy, packs, request, leases, losses, now>>

\* Mutant of CompleteImport: the version is not checked at the commit.
ImportUnchecked(x) ==
  LET job == jobs[x.job] IN
  /\ LeaseHeld(x.job, x.token)
  /\ ~Stale(x)
  /\ ~x.error
  /\ job.kind = "import"
  /\ scans' = scans \o x.results
  /\ skills' = Append(skills, NewSkill(job.name, x.digest, Evaluation(x), job.policy.revision, NewIds(x)))
  /\ jobs' = [jobs EXCEPT ![x.job] = [Released(x.job) EXCEPT !.state = "completed",
                                       !.skill = Len(skills) + 1, !.digest = x.digest]]
  /\ Reply(x, TRUE)
  /\ UNCHANGED <<policy, packs, request, leases, losses, now>>

CompleteImport(x) ==
  LET job == jobs[x.job] IN
  /\ LeaseHeld(x.job, x.token)
  /\ ~Stale(x)
  /\ ~x.error
  /\ job.kind = "import"
  /\ ~Published(job.name)
  /\ scans' = scans \o x.results
  /\ skills' = Append(skills, NewSkill(job.name, x.digest, Evaluation(x), job.policy.revision, NewIds(x)))
  /\ jobs' = [jobs EXCEPT ![x.job] = [Released(x.job) EXCEPT !.state = "completed",
                                       !.skill = Len(skills) + 1, !.digest = x.digest]]
  /\ Reply(x, TRUE)
  /\ UNCHANGED <<policy, packs, request, leases, losses, now>>

\* VERSION_CONFLICT aborts the transaction: the job keeps running under its
\* lease, and the worker reports the failure.
CompleteImportConflict(x) ==
  /\ LeaseHeld(x.job, x.token)
  /\ ~Stale(x)
  /\ ~x.error
  /\ jobs[x.job].kind = "import"
  /\ Published(jobs[x.job].name)
  /\ Reply(x, FALSE)
  /\ UNCHANGED <<state, request, leases, losses, now>>

Complete(x) ==
  \/ CompleteFenced(x)
  \/ CompleteRequeue(x)
  \/ CompleteError(x)
  \/ CompleteScan(x)
  \/ CompleteImport(x)
  \/ CompleteImportConflict(x)

-----------------------------------------------------------------------------
Finish(c) == PublishCommit(c) \/ PublishConflict(c) \/ RescanCommit(c)
             \/ PackCommit(c) \/ PackConflict(c)

Report(w) ==
  /\ worker[w].phase = "working"
  /\ \E d \in Digests, schedule \in Schedules(worker[w].policy) :
       \E reports \in [DOMAIN schedule -> Reports] : Submit(w, d, schedule, reports)

Next ==
  \/ \E c \in Clients : \/ \E n \in Names, d \in Digests : PublishRead(c, n, d)
                        \/ \E k \in DOMAIN skills : RescanRead(c, k)
                        \/ \E n \in PackNames, ks \in SUBSET DOMAIN skills : PackRead(c, n, ks)
                        \/ Finish(c)
  \/ \E n \in Mirrored : QueueImport(n)
  \/ \E document \in Policies : UpdatePolicy(document)
  \/ \E k \in DOMAIN skills : Revoke(k)
  \/ \E w \in Workers : Claim(w) \/ Poll(w) \/ Report(w) \/ GiveUp(w) \/ SubmitFailure(w) \/ Crash(w)
  \/ \E j \in DOMAIN jobs : ExpireLease(j)
  \/ \E x \in completions : Complete(x)
  \/ Tick

Spec == Init /\ [][Next]_vars

\* Fairness.  Requests and completions the server has begun run to their
\* transaction; a worker polls, works and reports; time runs out on a lease
\* nobody attends to.  Clients, administrators and failures owe nothing.
Fairness ==
  /\ \A c \in Clients : WF_vars(Finish(c))
  /\ \A w \in Workers : WF_vars(Claim(w)) /\ WF_vars(Report(w) \/ GiveUp(w) \/ SubmitFailure(w))
  /\ WF_vars(\E x \in completions : Complete(x))
  /\ \A j \in 1..MaxJobs : WF_vars(j \in DOMAIN jobs /\ ~Attended(j) /\ ExpireLease(j))

FairSpec == Spec /\ Fairness

-----------------------------------------------------------------------------
(* Properties.                                                             *)

PolicyRecords == {Policy(document, r) : document \in Policies, r \in 1..MaxPolicies}

SkillRecords ==
  [name : Names, digest : Digests, state : DistributionStates,
   policyRevision : 1..MaxPolicies, scanIds : SUBSET Nat]

JobRecords ==
  [kind : {"scan", "import"}, skill : Nat, name : Names, digest : Digests \cup {NoDigest},
   state : {"queued", "running", "completed", "failed"}, token : Nat, live : BOOLEAN,
   policy : PolicyRecords]

PackRecords ==
  [name : PackNames, members : SUBSET Nat, state : {"approved", "revoked"},
   policyRevision : 1..MaxPolicies]

ScanRecords ==
  [jobId : Nat, scannerId : STRING, digest : Digests, policyRevision : 1..MaxPolicies,
   createdAt : 0..MaxTime, status : Statuses, findings : SUBSET Severities,
   enumerated : Nat, analyzed : Nat, skipped : Nat, unsupported : Nat]

Requests ==
  {NoRequest}
  \cup [op : {"publish"}, name : Names, digest : Digests, policy : PolicyRecords]
  \cup [op : {"rescan"}, skill : Nat, policy : PolicyRecords]
  \cup [op : {"pack"}, name : PackNames, members : SUBSET Nat, revision : 1..MaxPolicies]

WorkerStates ==
  {Idle} \cup [phase : {"working", "waiting", "failing"}, job : Nat, token : Nat,
               policy : PolicyRecords]

CompletionRecords ==
  [job : Nat, token : Nat, error : BOOLEAN, digest : Digests \cup {NoDigest},
   results : Seq(ScanRecords)]

Shapes ==
  /\ policy \in PolicyRecords
  /\ skills \in Seq(SkillRecords)
  /\ jobs \in Seq(JobRecords)
  /\ scans \in Seq(ScanRecords)
  /\ packs \in Seq(PackRecords)
  /\ request \in [Clients -> Requests]
  /\ worker \in [Workers -> WorkerStates]
  /\ completions \in SUBSET CompletionRecords
  /\ leases \in Nat /\ losses \in 0..MaxLosses /\ now \in 0..MaxTime

References ==
  /\ \A k \in DOMAIN skills : skills[k].scanIds \subseteq DOMAIN scans
  /\ \A j \in DOMAIN jobs :
       /\ jobs[j].skill # NoSkill => jobs[j].skill \in DOMAIN skills
       /\ jobs[j].kind = "scan" => jobs[j].skill # NoSkill
  /\ \A p \in DOMAIN packs : packs[p].members \subseteq DOMAIN skills
  /\ \A c \in Clients :
       /\ request[c].op = "rescan" => request[c].skill \in DOMAIN skills
       /\ request[c].op = "pack" => request[c].members \subseteq DOMAIN skills
  /\ \A w \in Workers : worker[w] # Idle => worker[w].job \in DOMAIN jobs
  /\ \A x \in completions : x.job \in DOMAIN jobs /\ (~x.error => x.digest \in Digests)

\* Every record has its shape, and every reference leads to a record that
\* exists: jobs, packs and requests to releases, releases to evidence, leases
\* and completions to jobs.  The handlers look records up by id and refuse or
\* misbehave when one is missing; nothing is ever removed.
TypeOK == Shapes /\ References

\* A name@version is published at most once, although publishing checks it in
\* a snapshot and competes with imports that complete in between
\* (publishSkill, completeJob).
UniqueVersions ==
  \A k, l \in DOMAIN skills : skills[k].name = skills[l].name => k = l

\* A release waiting for a decision always has a job that will bring one: no
\* interleaving of rescans, policy changes, failures and completions strands
\* it in "pending" (publishSkill, rescanSkill, completeJob).
PendingHasWork ==
  \A k \in DOMAIN skills : skills[k].state = "pending" =>
    \E j \in DOMAIN jobs : jobs[j].kind = "scan" /\ jobs[j].skill = k /\ Active(j)

\* A pack on offer has no revoked member, even if the member was revoked
\* between createPack's resolution and its transaction: "a member cannot be
\* revoked or replaced between resolution and the immutable manifest commit".
PacksWithoutRevoked ==
  \A p \in DOMAIN packs : packs[p].state = "approved" =>
    \A k \in packs[p].members : skills[k].state # "revoked"

\* The recorded approval and the recorded evidence agree: an approval under
\* the current revision can be withdrawn by skillCurrentlyApproved only
\* because the evidence grew old, never because the evidence of another job
\* for the same release says otherwise.
ApprovalHasEvidence ==
  \A k \in DOMAIN skills :
    skills[k].state = "approved" /\ skills[k].policyRevision = policy.revision =>
      EvaluatePolicy([policy EXCEPT !.maxAge = -1], EvidenceOf(k), skills[k].digest,
                     FileCount[skills[k].digest], now) = "approved"

\* Evidence is recorded exactly once per job: by the one completion that
\* committed, with the revision the job completed under, however many workers
\* held, lost and retried the job (completeJob's fencing).
EvidenceOncePerJob ==
  /\ \A i \in DOMAIN scans : LET job == jobs[scans[i].jobId] IN
       /\ job.state = "completed"
       /\ scans[i].policyRevision = job.policy.revision
       /\ scans[i].digest = job.digest
  /\ \A i, l \in DOMAIN scans :
       scans[i].jobId = scans[l].jobId /\ scans[i].scannerId = scans[l].scannerId => i = l

\* Revocation is final: no rescan, requeue, failure or completion brings a
\* release or a pack back.
RevokedForever ==
  [][/\ \A k \in DOMAIN skills : skills[k].state = "revoked" => skills'[k].state = "revoked"
     /\ \A p \in DOMAIN packs : packs[p].state = "revoked" => packs'[p].state = "revoked"]_vars

\* A release becomes installable only in the commit of a completion for it,
\* under the policy in force, and a pack only with one of its members: not by
\* a policy update, a rescan, a failure or the passage of time.
AdmittedOnlyByCompletion ==
  [][/\ \A k \in DOMAIN skills : ~SkillCurrentlyApproved(k) /\ SkillCurrentlyApproved(k)' =>
          \E j \in DOMAIN jobs : /\ jobs[j].skill = k
                                 /\ jobs[j].state = "running" /\ jobs'[j].state = "completed"
                                 /\ jobs[j].policy = policy
     /\ \A p \in DOMAIN packs : ~PackResolvable(p) /\ PackResolvable(p)' =>
          \E k \in packs[p].members : ~SkillCurrentlyApproved(k)]_vars

Standing(k) == IF skills[k].state = "revoked" THEN "revoked"
               ELSE IF SkillCurrentlyApproved(k) THEN "installable" ELSE "withheld"

Promise == INSTANCE Admission WITH standing <- [k \in DOMAIN skills |-> Standing(k)],
                                   epoch <- policy.revision

\* The registry implements the admission contract: whatever the handlers,
\* workers and clocks do, what readers may install changes only as Admission
\* allows.
ImplementsAdmission == Promise!Spec

\* Every job comes to an end, whatever its workers do, once the policy stops
\* changing and leases stop being lost.
JobsFinish == \A j \in 1..MaxJobs : [](j \in DOMAIN jobs => <>(j \in DOMAIN jobs /\ ~Active(j)))

\* Every release is decided: pending does not last.
PendingDecided ==
  \A k \in 1..MaxJobs :
    (k \in DOMAIN skills /\ skills[k].state = "pending")
      ~> (k \in DOMAIN skills /\ skills[k].state # "pending")
=============================================================================
