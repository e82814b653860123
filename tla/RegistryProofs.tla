--------------------------- MODULE RegistryProofs ---------------------------
(***************************************************************************)
(* Type correctness of Registry: one lemma per action, then the theorem.   *)
(* TypeOK is inductive as it stands; its part References is what lets a    *)
(* commit follow the identifiers that an earlier step put into a request,  *)
(* a lease or a completion.                                                *)
(***************************************************************************)
EXTENDS Registry, TLAPS

\* A function on 1..n is a sequence of length n.
LEMMA FunctionIsSequence ==
  ASSUME NEW S, NEW n \in Nat, NEW t \in [1..n -> S]
  PROVE  t \in Seq(S) /\ Len(t) = n /\ DOMAIN t = 1..n
OBVIOUS

\* A sequence is a function on an initial segment of the naturals.
LEMMA SequenceIsFunction ==
  ASSUME NEW S, NEW t \in Seq(S)
  PROVE  t \in [1..Len(t) -> S] /\ Len(t) \in Nat /\ DOMAIN t = 1..Len(t)
OBVIOUS

\* A document put in force under a revision within the bound is a policy record.
LEMMA PolicyTyped ==
  ASSUME NEW document \in Policies, NEW r \in 1..MaxPolicies
  PROVE  Policy(document, r) \in PolicyRecords
BY DEF PolicyRecords

\* The fields of a policy record have their types.
LEMMA PolicyFields ==
  ASSUME NEW p \in PolicyRecords
  PROVE  /\ p.revision \in 1..MaxPolicies
         /\ p.maxAge \in Nat
         /\ p.scanners \in Seq([id : STRING, mode : Modes, blockSeverities : SUBSET Severities])
<1>1. PICK document \in Policies, r \in 1..MaxPolicies : p = Policy(document, r)
  BY DEF PolicyRecords
<1>2. document \in PolicyDocuments
  BY PolicyAssumption
<1> QED BY <1>1, <1>2 DEF Policy, PolicyDocuments

\* The fields of the request of createPack have their types.
LEMMA PackRequestFields ==
  ASSUME NEW r \in Requests, r.op = "pack"
  PROVE  r.name \in PackNames /\ r.revision \in 1..MaxPolicies /\ r.members \in SUBSET Nat
<1>1. r \in [op : {"pack"}, name : PackNames, members : SUBSET Nat, revision : 1..MaxPolicies]
  BY DEF Requests, NoRequest
<1> QED BY <1>1

\* What createPack holds when it commits.
LEMMA PackCommitFields ==
  ASSUME TypeOK, NEW c \in Clients, request[c].op = "pack"
  PROVE  /\ request[c].name \in PackNames /\ request[c].revision \in 1..MaxPolicies
         /\ request[c].members \in SUBSET Nat /\ request[c].members \subseteq DOMAIN skills
<1>1. request[c] \in Requests
  BY DEF TypeOK, Shapes
<1>2. request[c].members \subseteq DOMAIN skills
  BY DEF TypeOK, References
<1> QED BY <1>1, <1>2, PackRequestFields

\* The job a completion names exists, and so does the release of that job.
LEMMA CompletionJob ==
  ASSUME TypeOK, NEW x \in completions
  PROVE  /\ x.job \in DOMAIN jobs /\ jobs[x.job] \in JobRecords
         /\ jobs[x.job].skill # NoSkill =>
              jobs[x.job].skill \in DOMAIN skills /\ skills[jobs[x.job].skill] \in SkillRecords
<1>1. x.job \in DOMAIN jobs
  BY DEF TypeOK, References
<1>2. jobs[x.job] \in JobRecords
  <2>1. jobs \in Seq(JobRecords)
    BY DEF TypeOK, Shapes
  <2> QED BY <1>1, <2>1
<1>3. jobs[x.job].skill # NoSkill => jobs[x.job].skill \in DOMAIN skills
  BY <1>1 DEF TypeOK, References
<1>4. skills \in Seq(SkillRecords)
  BY DEF TypeOK, Shapes
<1>5. \A k \in DOMAIN skills : skills[k] \in SkillRecords
  BY <1>4
<1> QED BY <1>1, <1>2, <1>3, <1>5

\* evaluatePolicy returns a distribution state, whatever it is given.
LEMMA EvaluationTyped ==
  ASSUME NEW p, NEW results, NEW d, NEW n, NEW t
  PROVE  EvaluatePolicy(p, results, d, n, t) \in DistributionStates
<1>1. \A e : RequiredVerdict(p, e, results, d, n, t) \in DistributionStates
  BY DEF RequiredVerdict, DistributionStates
<1> QED
  BY <1>1 DEF EvaluatePolicy, DistributionStates

\* The initial state is well formed.
LEMMA InitTyped == Init => TypeOK
<1> SUFFICES ASSUME Init PROVE TypeOK OBVIOUS
<1>1. policy \in PolicyRecords
  <2>1. 1 \in 1..MaxPolicies
    BY BoundsAssumption
  <2> QED BY <2>1, PolicyTyped, PolicyAssumption DEF Init
<1>2. Shapes
  BY <1>1, BoundsAssumption DEF Init, Shapes, Requests, WorkerStates
<1>3. References
  BY DEF Init, References, NoRequest
<1> QED BY <1>2, <1>3 DEF TypeOK

\* PublishRead keeps the state well formed.
LEMMA PublishReadTyped ==
  ASSUME TypeOK, NEW c \in Clients, NEW n \in Names, NEW d \in Digests, PublishRead(c, n, d)
  PROVE  TypeOK'
<1>1. Shapes'
  BY DEF TypeOK, Shapes, PublishRead, Request, Requests, state
<1>2. References'
  BY DEF TypeOK, Shapes, References, PublishRead, Request, state
<1> QED BY <1>1, <1>2 DEF TypeOK

\* PublishCommit keeps the state well formed.
LEMMA PublishCommitTyped ==
  ASSUME TypeOK, NEW c \in Clients, PublishCommit(c)
  PROVE  TypeOK'
<1> DEFINE r == request[c]
<1>1. r.name \in Names /\ r.digest \in Digests /\ r.policy \in PolicyRecords
  BY DEF TypeOK, Shapes, PublishCommit, Requests, NoRequest
<1>2. r.policy.revision \in 1..MaxPolicies
  BY <1>1, PolicyFields
<1>3. NewSkill(r.name, r.digest, "pending", r.policy.revision, {}) \in SkillRecords
  BY <1>1, <1>2 DEF NewSkill, SkillRecords, DistributionStates
<1>4. ScanJob(Len(skills) + 1, r.name, r.digest, r.policy) \in JobRecords
  BY <1>1 DEF ScanJob, JobRecords, NoToken, TypeOK, Shapes
<1>5. Shapes'
  BY <1>3, <1>4 DEF TypeOK, Shapes, PublishCommit, Answer, Requests
<1>6. References'
  <2>1. \A k \in DOMAIN skills' : skills'[k].scanIds \subseteq DOMAIN scans'
    BY <1>3 DEF TypeOK, Shapes, References, PublishCommit, NewSkill
  <2>2. \A j \in DOMAIN jobs' :
          /\ jobs'[j].skill # NoSkill => jobs'[j].skill \in DOMAIN skills'
          /\ jobs'[j].kind = "scan" => jobs'[j].skill # NoSkill
    BY <1>3, <1>4 DEF TypeOK, Shapes, References, PublishCommit, ScanJob, NoSkill
  <2>3. DOMAIN skills \subseteq DOMAIN skills' /\ DOMAIN jobs \subseteq DOMAIN jobs'
    BY <1>3, <1>4 DEF TypeOK, Shapes, PublishCommit
  <2>4. \A d \in Clients : request'[d] = request[d] \/ request'[d] = NoRequest
    BY DEF TypeOK, Shapes, PublishCommit, Answer
  <2>5. UNCHANGED <<scans, packs, worker, completions>>
    BY DEF PublishCommit
  <2> QED
    BY <2>1, <2>2, <2>3, <2>4, <2>5 DEF TypeOK, References, NoRequest
<1> QED BY <1>5, <1>6 DEF TypeOK

\* Answering a completion keeps the shapes of the workers and completions.
LEMMA ReplyTyped ==
  ASSUME TypeOK, NEW x \in completions, NEW accepted \in BOOLEAN, Reply(x, accepted)
  PROVE  /\ worker' \in [Workers -> WorkerStates]
         /\ completions' \in SUBSET CompletionRecords
         /\ \A w \in Workers : worker'[w] # Idle => worker[w] # Idle /\ worker'[w].job = worker[w].job
<1>1. ASSUME NEW w \in Workers
      PROVE  worker'[w] \in WorkerStates
             /\ (worker'[w] # Idle => worker[w] # Idle /\ worker'[w].job = worker[w].job)
  <2>1. worker[w] \in WorkerStates
    BY DEF TypeOK, Shapes
  <2>2. CASE worker'[w] = worker[w] \/ worker'[w] = Idle
    BY <2>1, <2>2 DEF WorkerStates
  <2>3. CASE worker[w].phase = "waiting" /\ worker'[w] = [worker[w] EXCEPT !.phase = "failing"]
    <3>1. worker[w] # Idle
      BY <2>3 DEF Idle
    <3>2. worker[w] \in [phase : {"working", "waiting", "failing"}, job : Nat, token : Nat,
                         policy : PolicyRecords]
      BY <2>1, <3>1 DEF WorkerStates
    <3> QED BY <2>3, <3>1, <3>2 DEF WorkerStates
  <2> QED BY <2>2, <2>3 DEF Reply
<1>2. worker' = [w \in Workers |-> worker'[w]]
  BY DEF Reply
<1>3. completions' \in SUBSET CompletionRecords
  BY DEF TypeOK, Shapes, Reply
<1> QED BY <1>1, <1>2, <1>3


\* PublishConflict keeps the state well formed.
LEMMA PublishConflictTyped ==
  ASSUME TypeOK, NEW c \in Clients, PublishConflict(c)
  PROVE  TypeOK'
<1>1. Shapes'
  BY DEF TypeOK, Shapes, PublishConflict, Answer, Requests, state
<1>2. References'
  BY DEF TypeOK, Shapes, References, PublishConflict, Answer, NoRequest, state
<1> QED BY <1>1, <1>2 DEF TypeOK

\* RescanRead keeps the state well formed.
LEMMA RescanReadTyped ==
  ASSUME TypeOK, NEW c \in Clients, NEW k \in DOMAIN skills, RescanRead(c, k)
  PROVE  TypeOK'
<1>1. k \in Nat
  BY DEF TypeOK, Shapes
<1>2. Shapes'
  BY <1>1 DEF TypeOK, Shapes, RescanRead, Request, Requests, state
<1>3. References'
  BY DEF TypeOK, Shapes, References, RescanRead, Request, state
<1> QED BY <1>2, <1>3 DEF TypeOK

\* RescanCommit keeps the state well formed.
LEMMA RescanCommitTyped ==
  ASSUME TypeOK, NEW c \in Clients, RescanCommit(c)
  PROVE  TypeOK'
<1> DEFINE r == request[c]
<1>1. r.policy \in PolicyRecords /\ r.skill \in DOMAIN skills /\ r.skill \in Nat \ {0}
  <2>1. r.policy \in PolicyRecords
    BY DEF TypeOK, Shapes, RescanCommit, Requests, NoRequest
  <2>2. r.skill \in DOMAIN skills
    BY DEF TypeOK, References, RescanCommit
  <2>3. DOMAIN skills = 1..Len(skills) /\ Len(skills) \in Nat
    BY SequenceIsFunction DEF TypeOK, Shapes
  <2> QED BY <2>1, <2>2, <2>3
<1>2. skills[r.skill] \in SkillRecords
  BY <1>1 DEF TypeOK, Shapes
<1>3. ScanJob(r.skill, skills[r.skill].name, skills[r.skill].digest, r.policy) \in JobRecords
  BY <1>1, <1>2 DEF ScanJob, JobRecords, SkillRecords, NoToken
<1>4. skills' \in Seq(SkillRecords)
  <2>1. skills \in [1..Len(skills) -> SkillRecords] /\ Len(skills) \in Nat
    BY SequenceIsFunction DEF TypeOK, Shapes
  <2>2. \A v \in {"pending", skills[r.skill].state} : [skills[r.skill] EXCEPT !.state = v] \in SkillRecords
    BY <1>2 DEF SkillRecords, DistributionStates
  <2>3. skills' \in [1..Len(skills) -> SkillRecords]
    BY <1>1, <2>1, <2>2 DEF RescanCommit
  <2> QED BY <2>1, <2>3, FunctionIsSequence
<1>5. DOMAIN skills' = DOMAIN skills /\ \A k \in DOMAIN skills : skills'[k].scanIds = skills[k].scanIds
  BY <1>1, <1>2 DEF TypeOK, Shapes, RescanCommit, SkillRecords
<1>6. Shapes'
  BY <1>3, <1>4 DEF TypeOK, Shapes, RescanCommit, Answer, Requests
<1>7. References'
  <2>1. \A j \in DOMAIN jobs' :
          /\ jobs'[j].skill # NoSkill => jobs'[j].skill \in DOMAIN skills'
          /\ jobs'[j].kind = "scan" => jobs'[j].skill # NoSkill
    <3> DEFINE job == ScanJob(r.skill, skills[r.skill].name, skills[r.skill].digest, r.policy)
    <3>1. job.skill = r.skill /\ job.kind = "scan"
      BY DEF ScanJob
    <3>2. jobs' = Append(jobs, job) /\ jobs \in Seq(JobRecords)
      BY DEF TypeOK, Shapes, RescanCommit
    <3> HIDE DEF job
    <3>3. \A j \in DOMAIN jobs' : (j \in DOMAIN jobs /\ jobs'[j] = jobs[j]) \/ jobs'[j] = job
      BY <3>2
    <3> QED BY <1>1, <1>5, <3>1, <3>3 DEF TypeOK, References, NoSkill
  <2>2. DOMAIN jobs \subseteq DOMAIN jobs'
    BY <1>3 DEF TypeOK, Shapes, RescanCommit
  <2>3. \A k \in DOMAIN skills' : skills'[k].scanIds \subseteq DOMAIN scans'
    BY <1>5 DEF TypeOK, References, RescanCommit
  <2>4. \A d \in Clients :
          /\ request'[d].op = "rescan" => request'[d].skill \in DOMAIN skills'
          /\ request'[d].op = "pack" => request'[d].members \subseteq DOMAIN skills'
    BY <1>5 DEF TypeOK, Shapes, References, RescanCommit, Answer, NoRequest
  <2> QED
    BY <2>1, <2>2, <2>3, <2>4, <1>5 DEF TypeOK, References, RescanCommit
<1> QED BY <1>6, <1>7 DEF TypeOK

\* QueueImport keeps the state well formed.
LEMMA QueueImportTyped ==
  ASSUME TypeOK, NEW n \in Mirrored, QueueImport(n)
  PROVE  TypeOK'
<1>1. ImportJob(n, policy) \in JobRecords
  BY NamesAssumption DEF ImportJob, JobRecords, NoToken, NoSkill, TypeOK, Shapes
<1>2. Shapes'
  BY <1>1 DEF TypeOK, Shapes, QueueImport
<1>3. References'
  <2>1. \A j \in DOMAIN jobs' :
          /\ jobs'[j].skill # NoSkill => jobs'[j].skill \in DOMAIN skills'
          /\ jobs'[j].kind = "scan" => jobs'[j].skill # NoSkill
    BY <1>1 DEF TypeOK, Shapes, References, QueueImport, ImportJob, NoSkill
  <2> QED
    BY <2>1, <1>1 DEF TypeOK, Shapes, References, QueueImport
<1> QED BY <1>2, <1>3 DEF TypeOK

\* PackRead keeps the state well formed.
LEMMA PackReadTyped ==
  ASSUME TypeOK, NEW c \in Clients, NEW n \in PackNames, NEW ks \in SUBSET DOMAIN skills,
         PackRead(c, n, ks)
  PROVE  TypeOK'
<1>1. ks \in SUBSET Nat /\ policy.revision \in 1..MaxPolicies
  BY PolicyFields DEF TypeOK, Shapes
<1>2. Shapes'
  BY <1>1 DEF TypeOK, Shapes, PackRead, Request, Requests, state
<1>3. References'
  BY DEF TypeOK, Shapes, References, PackRead, Request, state
<1> QED BY <1>2, <1>3 DEF TypeOK

\* PackCommit keeps the state well formed.
LEMMA PackCommitTyped ==
  ASSUME TypeOK, NEW c \in Clients, PackCommit(c)
  PROVE  TypeOK'
<1> DEFINE r == request[c]
           pack == [name |-> r.name, members |-> r.members, state |-> "approved",
                    policyRevision |-> r.revision]
<1>1. r.name \in PackNames /\ r.revision \in 1..MaxPolicies /\ r.members \in SUBSET Nat
      /\ r.members \subseteq DOMAIN skills
  BY PackCommitFields DEF PackCommit
<1>2. pack \in PackRecords
  BY <1>1 DEF PackRecords
<1>3. packs' = Append(packs, pack)
  BY DEF PackCommit
<1>4. Shapes'
  BY <1>2, <1>3 DEF TypeOK, Shapes, PackCommit, Answer, Requests
<1>5. References'
  <2>1. \A p \in DOMAIN packs' : packs'[p].members \subseteq DOMAIN skills'
    BY <1>1, <1>2, <1>3 DEF TypeOK, Shapes, References, PackCommit
  <2> QED
    BY <2>1 DEF TypeOK, Shapes, References, PackCommit, Answer, NoRequest
<1> QED BY <1>4, <1>5 DEF TypeOK

\* PackConflict keeps the state well formed.
LEMMA PackConflictTyped ==
  ASSUME TypeOK, NEW c \in Clients, PackConflict(c)
  PROVE  TypeOK'
<1>1. Shapes'
  BY DEF TypeOK, Shapes, PackConflict, Answer, Requests, state
<1>2. References'
  BY DEF TypeOK, Shapes, References, PackConflict, Answer, NoRequest, state
<1> QED BY <1>1, <1>2 DEF TypeOK

\* UpdatePolicy keeps the state well formed.
LEMMA UpdatePolicyTyped ==
  ASSUME TypeOK, NEW document \in Policies, UpdatePolicy(document)
  PROVE  TypeOK'
<1>1. policy.revision + 1 \in 1..MaxPolicies
  BY PolicyFields, BoundsAssumption DEF TypeOK, Shapes, UpdatePolicy
<1>2. policy' \in PolicyRecords
  BY <1>1, PolicyTyped DEF UpdatePolicy
<1> QED BY <1>2 DEF TypeOK, Shapes, References, UpdatePolicy

\* Revoke keeps the state well formed.
LEMMA RevokeTyped ==
  ASSUME TypeOK, NEW k \in DOMAIN skills, Revoke(k)
  PROVE  TypeOK'
<1>1. /\ skills' \in Seq(SkillRecords) /\ DOMAIN skills' = DOMAIN skills
      /\ \A i \in DOMAIN skills : skills'[i].scanIds = skills[i].scanIds
  <2>1. skills \in [1..Len(skills) -> SkillRecords] /\ Len(skills) \in Nat
    BY SequenceIsFunction DEF TypeOK, Shapes
  <2>0. skills[k] \in SkillRecords
    BY DEF TypeOK, Shapes
  <2>2. [skills[k] EXCEPT !.state = "revoked"] \in SkillRecords
    BY <2>0 DEF SkillRecords, DistributionStates
  <2>3. skills' \in [1..Len(skills) -> SkillRecords]
    BY <2>1, <2>2 DEF Revoke
  <2>4. skills' \in Seq(SkillRecords) /\ DOMAIN skills' = DOMAIN skills
    BY <2>1, <2>3, FunctionIsSequence
  <2>5. \A i \in DOMAIN skills : skills'[i].scanIds = skills[i].scanIds
    BY <2>1 DEF Revoke, SkillRecords
  <2> QED BY <2>4, <2>5
<1>2. /\ packs' \in Seq(PackRecords) /\ DOMAIN packs' = DOMAIN packs
      /\ \A p \in DOMAIN packs : packs'[p].members = packs[p].members
  <2>1. packs \in [1..Len(packs) -> PackRecords] /\ Len(packs) \in Nat
    BY SequenceIsFunction DEF TypeOK, Shapes
  <2>2. \A p \in DOMAIN packs :
          /\ [packs[p] EXCEPT !.state = "revoked"] \in PackRecords
          /\ [packs[p] EXCEPT !.state = "revoked"].members = packs[p].members
    BY <2>1 DEF PackRecords
  <2>3. packs' \in [1..Len(packs) -> PackRecords]
    BY <2>1, <2>2 DEF Revoke
  <2>4. packs' \in Seq(PackRecords) /\ DOMAIN packs' = DOMAIN packs
    BY <2>1, <2>3, FunctionIsSequence
  <2> QED BY <2>2, <2>4 DEF Revoke
<1> QED BY <1>1, <1>2 DEF TypeOK, Shapes, References, Revoke

\* Claim keeps the state well formed.
LEMMA ClaimTyped ==
  ASSUME TypeOK, NEW w \in Workers, Claim(w)
  PROVE  TypeOK'
<1>1. PICK j \in DOMAIN jobs :
        /\ jobs' = [jobs EXCEPT ![j].state = "running", ![j].token = leases + 1, ![j].live = TRUE]
        /\ worker' = [worker EXCEPT ![w] = [phase |-> "working", job |-> j, token |-> leases + 1,
                                            policy |-> jobs[j].policy]]
  BY DEF Claim
<1>2. /\ jobs \in [1..Len(jobs) -> JobRecords] /\ Len(jobs) \in Nat
      /\ jobs[j] \in JobRecords /\ j \in Nat /\ leases + 1 \in Nat
  BY SequenceIsFunction DEF TypeOK, Shapes
<1>3. jobs' = [jobs EXCEPT ![j] = [jobs[j] EXCEPT !.state = "running", !.token = leases + 1, !.live = TRUE]]
  BY <1>1, <1>2 DEF JobRecords
<1>4. [jobs[j] EXCEPT !.state = "running", !.token = leases + 1, !.live = TRUE] \in JobRecords
  BY <1>2 DEF JobRecords
<1>5. jobs' \in [1..Len(jobs) -> JobRecords]
  BY <1>2, <1>3, <1>4
<1>6. jobs' \in Seq(JobRecords) /\ DOMAIN jobs' = DOMAIN jobs
  BY <1>2, <1>5, FunctionIsSequence
<1>7. \A i \in DOMAIN jobs : jobs'[i].skill = jobs[i].skill /\ jobs'[i].kind = jobs[i].kind
  BY <1>2, <1>3 DEF JobRecords
<1>8. worker' \in [Workers -> WorkerStates]
  BY <1>1, <1>2 DEF TypeOK, Shapes, WorkerStates, JobRecords
<1>9. Shapes'
  BY <1>6, <1>8, <1>2 DEF TypeOK, Shapes, Claim
<1>10. \A v \in Workers : worker'[v] # Idle => worker'[v].job \in DOMAIN jobs'
  BY <1>1, <1>6 DEF TypeOK, Shapes, References
<1>11. References'
  BY <1>6, <1>7, <1>10 DEF TypeOK, References, Claim
<1> QED BY <1>9, <1>11 DEF TypeOK

\* GiveUp keeps the state well formed.
LEMMA GiveUpTyped ==
  ASSUME TypeOK, NEW w \in Workers, GiveUp(w)
  PROVE  TypeOK'
<1>1. worker[w] # Idle /\ worker[w] \in WorkerStates \ {Idle}
  BY DEF GiveUp, TypeOK, Shapes, Idle
<1>2. [worker[w] EXCEPT !.phase = "failing"] \in WorkerStates
      /\ [worker[w] EXCEPT !.phase = "failing"].job = worker[w].job
  BY <1>1 DEF WorkerStates
<1>3. worker' \in [Workers -> WorkerStates]
  BY <1>2 DEF TypeOK, Shapes, GiveUp
<1>4. \A v \in Workers : worker'[v] # Idle => worker'[v].job \in DOMAIN jobs
  BY <1>1, <1>2 DEF TypeOK, Shapes, References, GiveUp
<1> QED BY <1>3, <1>4 DEF TypeOK, Shapes, References, GiveUp, state

\* Submit keeps the state well formed.
LEMMA SubmitTyped ==
  ASSUME TypeOK, NEW w \in Workers, NEW d \in Digests,
         NEW schedule \in Schedules(worker[w].policy),
         NEW reports \in [DOMAIN schedule -> Reports], Submit(w, d, schedule, reports)
  PROVE  TypeOK'
<1> DEFINE x == [job |-> worker[w].job, token |-> worker[w].token, error |-> FALSE, digest |-> d,
                 results |-> [n \in DOMAIN schedule |-> ScanResult(w, d, schedule[n], reports[n])]]
<1>1. worker[w] # Idle /\ worker[w] \in WorkerStates \ {Idle}
  BY DEF Submit, TypeOK, Shapes, Idle
<1>2. /\ worker[w].job \in Nat /\ worker[w].job \in DOMAIN jobs
      /\ worker[w].token \in Nat /\ worker[w].policy \in PolicyRecords
  BY <1>1 DEF WorkerStates, TypeOK, References
<1>3. PICK m \in 0..Len(worker[w].policy.scanners) : schedule \in [1..m -> Enabled(worker[w].policy)]
  BY DEF Schedules
<1>4. m \in Nat /\ DOMAIN schedule = 1..m
  BY <1>2, <1>3, PolicyFields
<1>5. \A n \in 1..m : ScanResult(w, d, schedule[n], reports[n]) \in ScanRecords
  <2> SUFFICES ASSUME NEW n \in 1..m PROVE ScanResult(w, d, schedule[n], reports[n]) \in ScanRecords
    OBVIOUS
  <2>1. reports[n] \in ReportRecords
    BY <1>4, ReportsAssumption
  <2>2. schedule[n] \in DOMAIN worker[w].policy.scanners
    BY <1>3 DEF Enabled
  <2>3. worker[w].policy.scanners[schedule[n]].id \in STRING
    <3> DEFINE Entries == [id : STRING, mode : Modes, blockSeverities : SUBSET Severities]
    <3>1. worker[w].policy.scanners \in Seq(Entries)
      BY <1>2, PolicyFields
    <3>2. worker[w].policy.scanners[schedule[n]] \in Entries
      <4> HIDE DEF Entries
      <4> QED BY <2>2, <3>1
    <3> QED BY <3>2
  <2>4. worker[w].policy.revision \in 1..MaxPolicies /\ now \in 0..MaxTime
    BY <1>2, PolicyFields DEF TypeOK, Shapes
  <2> QED BY <1>2, <2>1, <2>3, <2>4 DEF ScanResult, ScanRecords, ReportRecords
<1>6. x.results \in Seq(ScanRecords)
  <2>1. x.results \in [1..m -> ScanRecords]
    BY <1>4, <1>5
  <2> QED BY <1>4, <2>1, FunctionIsSequence
<1>7. x \in CompletionRecords
  BY <1>2, <1>6 DEF CompletionRecords
<1>8. completions' = completions \cup {x}
  BY DEF Submit
<1>9. [worker[w] EXCEPT !.phase = "waiting"] \in WorkerStates
      /\ [worker[w] EXCEPT !.phase = "waiting"].job = worker[w].job
  BY <1>1 DEF WorkerStates
<1>10. worker' \in [Workers -> WorkerStates]
  BY <1>9 DEF TypeOK, Shapes, Submit
<1>11. \A v \in Workers : worker'[v] # Idle => worker'[v].job \in DOMAIN jobs
  BY <1>1, <1>9 DEF TypeOK, Shapes, References, Submit
<1>12. Shapes'
  BY <1>7, <1>8, <1>10 DEF TypeOK, Shapes, Submit, state
<1>13. References'
  BY <1>2, <1>8, <1>11 DEF TypeOK, References, Submit, state
<1> QED BY <1>12, <1>13 DEF TypeOK

\* SubmitFailure keeps the state well formed.
LEMMA SubmitFailureTyped ==
  ASSUME TypeOK, NEW w \in Workers, SubmitFailure(w)
  PROVE  TypeOK'
<1> DEFINE x == [job |-> worker[w].job, token |-> worker[w].token, error |-> TRUE,
                 digest |-> NoDigest, results |-> <<>>]
<1>1. worker[w] # Idle /\ worker[w] \in WorkerStates \ {Idle}
  BY DEF SubmitFailure, TypeOK, Shapes, Idle
<1>2. /\ worker[w].job \in Nat /\ worker[w].job \in DOMAIN jobs /\ worker[w].token \in Nat
  BY <1>1 DEF WorkerStates, TypeOK, References
<1>3. x \in CompletionRecords
  BY <1>2 DEF CompletionRecords
<1>4. completions' \subseteq completions \cup {x}
  BY DEF SubmitFailure
<1>5. worker' = [worker EXCEPT ![w] = Idle]
  BY DEF SubmitFailure
<1>6. Shapes'
  BY <1>3, <1>4, <1>5 DEF TypeOK, Shapes, SubmitFailure, WorkerStates, state
<1>7. UNCHANGED <<skills, scans, jobs, packs, request>>
  BY DEF SubmitFailure, state
<1>8. \A y \in completions' : y.job \in DOMAIN jobs /\ (~y.error => y.digest \in Digests)
  BY <1>2, <1>4 DEF TypeOK, References
<1>9. \A v \in Workers : worker'[v] # Idle => worker'[v].job \in DOMAIN jobs
  BY <1>5 DEF TypeOK, Shapes, References
<1>10. References'
  BY <1>7, <1>8, <1>9 DEF TypeOK, References
<1> QED BY <1>6, <1>10 DEF TypeOK

\* Crash keeps the state well formed.
LEMMA CrashTyped ==
  ASSUME TypeOK, NEW w \in Workers, Crash(w)
  PROVE  TypeOK'
<1>1. Shapes'
  BY BoundsAssumption DEF TypeOK, Shapes, Crash, WorkerStates, state
<1>2. References'
  BY DEF TypeOK, Shapes, References, Crash, state
<1> QED BY <1>1, <1>2 DEF TypeOK

\* ExpireLease keeps the state well formed.
LEMMA ExpireLeaseTyped ==
  ASSUME TypeOK, NEW j \in DOMAIN jobs, ExpireLease(j)
  PROVE  TypeOK'
<1>1. jobs \in [1..Len(jobs) -> JobRecords] /\ Len(jobs) \in Nat /\ jobs[j] \in JobRecords
  BY SequenceIsFunction DEF TypeOK, Shapes
<1>2. [jobs[j] EXCEPT !.live = FALSE] \in JobRecords
  BY <1>1 DEF JobRecords
<1>3. jobs' \in [1..Len(jobs) -> JobRecords]
  BY <1>1, <1>2 DEF ExpireLease
<1>4. jobs' \in Seq(JobRecords) /\ DOMAIN jobs' = DOMAIN jobs
  BY <1>1, <1>3, FunctionIsSequence
<1>5. \A i \in DOMAIN jobs : jobs'[i].skill = jobs[i].skill /\ jobs'[i].kind = jobs[i].kind
  BY <1>1 DEF ExpireLease, JobRecords
<1>6. losses' \in 0..MaxLosses
  BY BoundsAssumption DEF TypeOK, Shapes, ExpireLease
<1> QED BY <1>4, <1>5, <1>6 DEF TypeOK, Shapes, References, ExpireLease

\* Tick keeps the state well formed.
LEMMA TickTyped ==
  ASSUME TypeOK, Tick
  PROVE  TypeOK'
BY BoundsAssumption DEF TypeOK, Shapes, References, Tick, state

-----------------------------------------------------------------------------
(* Completions.                                                            *)

\* What every completion leaves of the workers and completions.
LEMMA ReplyReferences ==
  ASSUME TypeOK, NEW x \in completions, NEW accepted \in BOOLEAN, Reply(x, accepted),
         DOMAIN jobs' = DOMAIN jobs
  PROVE  /\ worker' \in [Workers -> WorkerStates]
         /\ completions' \in SUBSET CompletionRecords
         /\ \A w \in Workers : worker'[w] # Idle => worker'[w].job \in DOMAIN jobs'
         /\ \A y \in completions' : y.job \in DOMAIN jobs' /\ (~y.error => y.digest \in Digests)
<1>1. \A y \in completions' : y \in completions
  BY DEF Reply
<1> QED BY <1>1, ReplyTyped DEF TypeOK, References

\* A completion's update of its job keeps the job's shape.
LEMMA JobUpdated ==
  ASSUME TypeOK, NEW j \in DOMAIN jobs, NEW job \in JobRecords, jobs' = [jobs EXCEPT ![j] = job]
  PROVE  /\ jobs' \in Seq(JobRecords) /\ DOMAIN jobs' = DOMAIN jobs /\ jobs'[j] = job
         /\ \A i \in DOMAIN jobs : i # j => jobs'[i] = jobs[i]
<1>1. jobs \in [1..Len(jobs) -> JobRecords] /\ Len(jobs) \in Nat
  BY SequenceIsFunction DEF TypeOK, Shapes
<1>2. jobs' \in [1..Len(jobs) -> JobRecords]
  BY <1>1
<1> QED BY <1>1, <1>2, FunctionIsSequence

\* A completion's update of a release keeps the release's shape.
LEMMA SkillUpdated ==
  ASSUME TypeOK, NEW k \in DOMAIN skills, NEW skill \in SkillRecords,
         skills' = [skills EXCEPT ![k] = skill]
  PROVE  /\ skills' \in Seq(SkillRecords) /\ DOMAIN skills' = DOMAIN skills /\ skills'[k] = skill
         /\ \A i \in DOMAIN skills : i # k => skills'[i] = skills[i]
<1>1. skills \in [1..Len(skills) -> SkillRecords] /\ Len(skills) \in Nat
  BY SequenceIsFunction DEF TypeOK, Shapes
<1>2. skills' \in [1..Len(skills) -> SkillRecords]
  BY <1>1
<1> QED BY <1>1, <1>2, FunctionIsSequence

\* CompleteFenced keeps the state well formed.
LEMMA CompleteFencedTyped ==
  ASSUME TypeOK, NEW x \in completions, CompleteFenced(x)
  PROVE  TypeOK'
BY ReplyReferences DEF TypeOK, Shapes, References, CompleteFenced, state

\* CompleteImportConflict keeps the state well formed.
LEMMA CompleteImportConflictTyped ==
  ASSUME TypeOK, NEW x \in completions, CompleteImportConflict(x)
  PROVE  TypeOK'
BY ReplyReferences DEF TypeOK, Shapes, References, CompleteImportConflict, state

\* CompleteRequeue keeps the state well formed.
LEMMA CompleteRequeueTyped ==
  ASSUME TypeOK, NEW x \in completions, CompleteRequeue(x)
  PROVE  TypeOK'
<1> DEFINE j == x.job
           k == jobs[j].skill
           job == [Released(j) EXCEPT !.state = "queued", !.policy = policy]
           skill == [skills[k] EXCEPT !.state = "pending", !.policyRevision = policy.revision]
<1>1. j \in DOMAIN jobs /\ jobs[j] \in JobRecords /\ policy \in PolicyRecords
      /\ policy.revision \in 1..MaxPolicies
  <2>1. policy \in PolicyRecords
    BY DEF TypeOK, Shapes
  <2> QED BY <2>1, PolicyFields, CompletionJob
<1>2. job \in JobRecords /\ job.skill = jobs[j].skill /\ job.kind = jobs[j].kind
  BY <1>1 DEF JobRecords, Released, NoToken
<1>3. jobs' = [jobs EXCEPT ![j] = job]
  BY DEF CompleteRequeue
<1>4. /\ jobs' \in Seq(JobRecords) /\ DOMAIN jobs' = DOMAIN jobs
      /\ \A i \in DOMAIN jobs : jobs'[i].skill = jobs[i].skill /\ jobs'[i].kind = jobs[i].kind
  <2> HIDE DEF j, job
  <2> QED BY <1>1, <1>2, <1>3, JobUpdated
<1>5. /\ skills' \in Seq(SkillRecords) /\ DOMAIN skills' = DOMAIN skills
      /\ \A i \in DOMAIN skills : skills'[i].scanIds = skills[i].scanIds
  <2>1. CASE skills' = skills
    BY <2>1 DEF TypeOK, Shapes
  <2>2. CASE skills' # skills
    <3>1. k # NoSkill /\ k \in DOMAIN skills /\ skills[k] \in SkillRecords
      <4>1. k # NoSkill
        BY <2>2 DEF CompleteRequeue
      <4> QED BY <4>1, CompletionJob
    <3>2. skill \in SkillRecords /\ skill.scanIds = skills[k].scanIds
      BY <1>1, <3>1 DEF SkillRecords, DistributionStates
    <3>3. skills' = [skills EXCEPT ![k] = skill]
      BY <2>2, <3>1 DEF CompleteRequeue, SkillRecords
    <3> HIDE DEF k, skill
    <3> QED BY <3>1, <3>2, <3>3, SkillUpdated
  <2> QED BY <2>1, <2>2
<1>6. /\ worker' \in [Workers -> WorkerStates] /\ completions' \in SUBSET CompletionRecords
      /\ \A w \in Workers : worker'[w] # Idle => worker'[w].job \in DOMAIN jobs'
      /\ \A y \in completions' : y.job \in DOMAIN jobs' /\ (~y.error => y.digest \in Digests)
  BY <1>4, ReplyReferences DEF CompleteRequeue
<1>7. Shapes'
  BY <1>4, <1>5, <1>6 DEF TypeOK, Shapes, CompleteRequeue
<1>8. UNCHANGED <<scans, packs, request>>
  BY DEF CompleteRequeue
<1>9. References'
  BY <1>4, <1>5, <1>6, <1>8 DEF TypeOK, References
<1> QED BY <1>7, <1>9 DEF TypeOK

\* CompleteError keeps the state well formed.
LEMMA CompleteErrorTyped ==
  ASSUME TypeOK, NEW x \in completions, CompleteError(x)
  PROVE  TypeOK'
<1> DEFINE j == x.job
           k == jobs[j].skill
           job == [jobs[j] EXCEPT !.state = "failed"]
           skill == [skills[k] EXCEPT !.state = "scan-error"]
<1>1. j \in DOMAIN jobs /\ jobs[j] \in JobRecords
  BY CompletionJob
<1>2. job \in JobRecords /\ job.skill = jobs[j].skill /\ job.kind = jobs[j].kind
  BY <1>1 DEF JobRecords
<1>3. jobs' = [jobs EXCEPT ![j] = job]
  BY DEF CompleteError
<1>4. /\ jobs' \in Seq(JobRecords) /\ DOMAIN jobs' = DOMAIN jobs
      /\ \A i \in DOMAIN jobs : jobs'[i].skill = jobs[i].skill /\ jobs'[i].kind = jobs[i].kind
  <2> HIDE DEF j, job
  <2> QED BY <1>1, <1>2, <1>3, JobUpdated
<1>5. /\ skills' \in Seq(SkillRecords) /\ DOMAIN skills' = DOMAIN skills
      /\ \A i \in DOMAIN skills : skills'[i].scanIds = skills[i].scanIds
  <2>1. CASE skills' = skills
    BY <2>1 DEF TypeOK, Shapes
  <2>2. CASE skills' # skills
    <3>1. k # NoSkill /\ k \in DOMAIN skills /\ skills[k] \in SkillRecords
      <4>1. k # NoSkill
        BY <2>2 DEF CompleteError
      <4> QED BY <4>1, CompletionJob
    <3>2. skill \in SkillRecords /\ skill.scanIds = skills[k].scanIds
      BY <1>1, <3>1 DEF SkillRecords, DistributionStates
    <3>3. skills' = [skills EXCEPT ![k] = skill]
      BY <2>2, <3>1 DEF CompleteError
    <3> HIDE DEF k, skill
    <3> QED BY <3>1, <3>2, <3>3, SkillUpdated
  <2> QED BY <2>1, <2>2
<1>6. /\ worker' \in [Workers -> WorkerStates] /\ completions' \in SUBSET CompletionRecords
      /\ \A w \in Workers : worker'[w] # Idle => worker'[w].job \in DOMAIN jobs'
      /\ \A y \in completions' : y.job \in DOMAIN jobs' /\ (~y.error => y.digest \in Digests)
  BY <1>4, ReplyReferences DEF CompleteError
<1>7. Shapes'
  BY <1>4, <1>5, <1>6 DEF TypeOK, Shapes, CompleteError
<1>8. UNCHANGED <<scans, packs, request>>
  BY DEF CompleteError
<1>9. References'
  BY <1>4, <1>5, <1>6, <1>8 DEF TypeOK, References
<1> QED BY <1>7, <1>9 DEF TypeOK

\* The evidence log only grows, and the new identifiers point into it.
LEMMA EvidenceAppended ==
  ASSUME TypeOK, NEW x \in completions, scans' = scans \o x.results
  PROVE  /\ scans' \in Seq(ScanRecords)
         /\ DOMAIN scans \subseteq DOMAIN scans'
         /\ NewIds(x) \subseteq DOMAIN scans' /\ NewIds(x) \in SUBSET Nat
<1>1. x.results \in Seq(ScanRecords) /\ scans \in Seq(ScanRecords)
  BY DEF TypeOK, Shapes, CompletionRecords
<1> QED BY <1>1 DEF NewIds

\* CompleteScan keeps the state well formed.
LEMMA CompleteScanTyped ==
  ASSUME TypeOK, NEW x \in completions, CompleteScan(x)
  PROVE  TypeOK'
<1> DEFINE j == x.job
           k == jobs[j].skill
           job == [Released(j) EXCEPT !.state = "completed"]
           verdict == IF skills[k].state = "revoked" THEN skills[k].state ELSE Evaluation(x)
           skill == [skills[k] EXCEPT !.scanIds = @ \cup NewIds(x), !.state = verdict,
                                      !.policyRevision = jobs[j].policy.revision]
<1>1. /\ j \in DOMAIN jobs /\ jobs[j] \in JobRecords
      /\ k \in DOMAIN skills /\ skills[k] \in SkillRecords
      /\ jobs[j].policy.revision \in 1..MaxPolicies
  <2>1. j \in DOMAIN jobs /\ jobs[j] \in JobRecords
    BY DEF TypeOK, Shapes, References
  <2>2. k \in DOMAIN skills
    BY <2>1 DEF CompleteScan, TypeOK, References
  <2>3. skills[k] \in SkillRecords
    BY <2>2 DEF TypeOK, Shapes
  <2>4. jobs[j].policy \in PolicyRecords
    BY <2>1 DEF JobRecords
  <2> QED BY <2>1, <2>2, <2>3, <2>4, PolicyFields
<1>2. job \in JobRecords /\ job.skill = jobs[j].skill /\ job.kind = jobs[j].kind
  BY <1>1 DEF JobRecords, Released, NoToken
<1>3. jobs' = [jobs EXCEPT ![j] = job]
  BY DEF CompleteScan
<1>4. /\ jobs' \in Seq(JobRecords) /\ DOMAIN jobs' = DOMAIN jobs
      /\ \A i \in DOMAIN jobs : jobs'[i].skill = jobs[i].skill /\ jobs'[i].kind = jobs[i].kind
  <2> HIDE DEF j, job
  <2> QED BY <1>1, <1>2, <1>3, JobUpdated
<1>5. /\ scans' \in Seq(ScanRecords) /\ DOMAIN scans \subseteq DOMAIN scans'
      /\ NewIds(x) \subseteq DOMAIN scans' /\ NewIds(x) \in SUBSET Nat
  BY EvidenceAppended DEF CompleteScan
<1>6. verdict \in DistributionStates
  BY EvaluationTyped DEF Evaluation, DistributionStates
<1>7. skill \in SkillRecords /\ skill.scanIds = skills[k].scanIds \cup NewIds(x)
  <2> HIDE DEF verdict, k, j
  <2> QED BY <1>1, <1>5, <1>6 DEF SkillRecords
<1>8. skills' = [skills EXCEPT ![k] = skill]
  BY <1>1 DEF CompleteScan, SkillRecords
<1>9. /\ skills' \in Seq(SkillRecords) /\ DOMAIN skills' = DOMAIN skills /\ skills'[k] = skill
      /\ \A i \in DOMAIN skills : i # k => skills'[i] = skills[i]
  <2> HIDE DEF k, skill
  <2> QED BY <1>1, <1>7, <1>8, SkillUpdated
<1>10. \A i \in DOMAIN skills' : skills'[i].scanIds \subseteq DOMAIN scans'
  <2> HIDE DEF k, skill
  <2> QED BY <1>5, <1>7, <1>9 DEF TypeOK, References
<1>11. /\ worker' \in [Workers -> WorkerStates] /\ completions' \in SUBSET CompletionRecords
       /\ \A w \in Workers : worker'[w] # Idle => worker'[w].job \in DOMAIN jobs'
       /\ \A y \in completions' : y.job \in DOMAIN jobs' /\ (~y.error => y.digest \in Digests)
  BY <1>4, ReplyReferences DEF CompleteScan
<1>12. Shapes'
  BY <1>4, <1>5, <1>9, <1>11 DEF TypeOK, Shapes, CompleteScan
<1>13. UNCHANGED <<packs, request>>
  BY DEF CompleteScan
<1>14. References'
  BY <1>4, <1>9, <1>10, <1>11, <1>13 DEF TypeOK, References
<1> QED BY <1>12, <1>14 DEF TypeOK

\* CompleteImport keeps the state well formed.
LEMMA CompleteImportTyped ==
  ASSUME TypeOK, NEW x \in completions, CompleteImport(x)
  PROVE  TypeOK'
<1> DEFINE j == x.job
           job == [Released(j) EXCEPT !.state = "completed", !.skill = Len(skills) + 1,
                                      !.digest = x.digest]
           skill == NewSkill(jobs[j].name, x.digest, Evaluation(x), jobs[j].policy.revision, NewIds(x))
<1>1. /\ j \in DOMAIN jobs /\ jobs[j] \in JobRecords /\ x.digest \in Digests
      /\ jobs[j].policy.revision \in 1..MaxPolicies /\ Len(skills) \in Nat
  <2>1. j \in DOMAIN jobs /\ jobs[j] \in JobRecords /\ x.digest \in Digests
    BY DEF CompleteImport, TypeOK, Shapes, References
  <2>2. jobs[j].policy \in PolicyRecords
    BY <2>1 DEF JobRecords
  <2> QED BY <2>1, <2>2, PolicyFields DEF TypeOK, Shapes
<1>2. job \in JobRecords /\ job.skill = Len(skills) + 1 /\ job.kind = jobs[j].kind
  <2>1. Released(j) \in JobRecords /\ Released(j).kind = jobs[j].kind
    BY <1>1 DEF JobRecords, Released, NoToken
  <2>2. \A rec \in JobRecords : /\ [rec EXCEPT !.state = "completed"] \in JobRecords
                               /\ [rec EXCEPT !.state = "completed"].kind = rec.kind
    BY DEF JobRecords
  <2>3. \A rec \in JobRecords, n \in Nat : /\ [rec EXCEPT !.skill = n] \in JobRecords
                                           /\ [rec EXCEPT !.skill = n].kind = rec.kind
                                           /\ [rec EXCEPT !.skill = n].skill = n
    BY DEF JobRecords
  <2>4. \A rec \in JobRecords, d \in Digests : /\ [rec EXCEPT !.digest = d] \in JobRecords
                                               /\ [rec EXCEPT !.digest = d].kind = rec.kind
                                               /\ [rec EXCEPT !.digest = d].skill = rec.skill
    BY DEF JobRecords
  <2> DEFINE closed == [Released(j) EXCEPT !.state = "completed"]
             linked == [closed EXCEPT !.skill = Len(skills) + 1]
  <2>5. closed \in JobRecords /\ closed.kind = jobs[j].kind
    BY <2>1, <2>2
  <2>6. linked \in JobRecords /\ linked.kind = jobs[j].kind /\ linked.skill = Len(skills) + 1
    <3>1. Len(skills) + 1 \in Nat
      BY <1>1
    <3> HIDE DEF closed
    <3> QED BY <3>1, <2>3, <2>5, Zenon
  <2>7. job = [linked EXCEPT !.digest = x.digest]
    OBVIOUS
  <2> HIDE DEF linked, job
  <2> QED BY <1>1, <2>4, <2>6, <2>7
<1>3. jobs' = [jobs EXCEPT ![j] = job]
  BY DEF CompleteImport
<1>4. /\ jobs' \in Seq(JobRecords) /\ DOMAIN jobs' = DOMAIN jobs /\ jobs'[j] = job
      /\ \A i \in DOMAIN jobs : i # j => jobs'[i] = jobs[i]
  <2> HIDE DEF j, job
  <2> QED BY <1>1, <1>2, <1>3, JobUpdated
<1>5. /\ scans' \in Seq(ScanRecords) /\ DOMAIN scans \subseteq DOMAIN scans'
      /\ NewIds(x) \subseteq DOMAIN scans' /\ NewIds(x) \in SUBSET Nat
  BY EvidenceAppended DEF CompleteImport
<1>6. skill \in SkillRecords /\ skill.scanIds = NewIds(x)
  <2>1. Evaluation(x) \in DistributionStates
    BY EvaluationTyped DEF Evaluation
  <2>2. jobs[j].name \in Names
    BY <1>1 DEF JobRecords
  <2> HIDE DEF j
  <2> QED BY <1>1, <1>5, <2>1, <2>2 DEF SkillRecords, NewSkill
<1>7. skills' = Append(skills, skill)
  BY DEF CompleteImport
<1>8. /\ skills' \in Seq(SkillRecords)
      /\ DOMAIN skills \subseteq DOMAIN skills' /\ Len(skills) + 1 \in DOMAIN skills'
      /\ \A i \in DOMAIN skills' : skills'[i].scanIds \subseteq DOMAIN scans'
  <2> HIDE DEF skill
  <2> QED BY <1>5, <1>6, <1>7 DEF TypeOK, Shapes, References
<1>9. /\ worker' \in [Workers -> WorkerStates] /\ completions' \in SUBSET CompletionRecords
      /\ \A w \in Workers : worker'[w] # Idle => worker'[w].job \in DOMAIN jobs'
      /\ \A y \in completions' : y.job \in DOMAIN jobs' /\ (~y.error => y.digest \in Digests)
  BY <1>4, ReplyReferences DEF CompleteImport
<1>10. \A i \in DOMAIN jobs' :
         /\ jobs'[i].skill # NoSkill => jobs'[i].skill \in DOMAIN skills'
         /\ jobs'[i].kind = "scan" => jobs'[i].skill # NoSkill
  <2>1. jobs'[j].skill \in DOMAIN skills' /\ jobs'[j].skill # NoSkill
    BY <1>1, <1>2, <1>4, <1>8 DEF NoSkill
  <2> HIDE DEF j, job
  <2> QED BY <2>1, <1>4, <1>8 DEF TypeOK, References
<1>11. Shapes'
  BY <1>4, <1>5, <1>8, <1>9 DEF TypeOK, Shapes, CompleteImport
<1>12. UNCHANGED <<packs, request>>
  BY DEF CompleteImport
<1>13. References'
  BY <1>4, <1>8, <1>9, <1>10, <1>12 DEF TypeOK, References
<1> QED BY <1>11, <1>13 DEF TypeOK

-----------------------------------------------------------------------------
(* Every step.                                                             *)

\* Every step of the registry keeps the state well formed.
LEMMA StepTyped == TypeOK /\ [Next]_vars => TypeOK'
<1> SUFFICES ASSUME TypeOK, [Next]_vars PROVE TypeOK' OBVIOUS
<1>1. ASSUME NEW c \in Clients, NEW n \in Names, NEW d \in Digests, PublishRead(c, n, d) PROVE TypeOK'
  BY <1>1, PublishReadTyped
<1>2. ASSUME NEW c \in Clients, NEW k \in DOMAIN skills, RescanRead(c, k) PROVE TypeOK'
  BY <1>2, RescanReadTyped
<1>3. ASSUME NEW c \in Clients, NEW n \in PackNames, NEW ks \in SUBSET DOMAIN skills, PackRead(c, n, ks)
      PROVE TypeOK'
  BY <1>3, PackReadTyped
<1>4. ASSUME NEW c \in Clients, Finish(c) PROVE TypeOK'
  BY <1>4, PublishCommitTyped, PublishConflictTyped, RescanCommitTyped, PackCommitTyped, PackConflictTyped
     DEF Finish
<1>5. ASSUME NEW n \in Mirrored, QueueImport(n) PROVE TypeOK'
  BY <1>5, QueueImportTyped
<1>6. ASSUME NEW document \in Policies, UpdatePolicy(document) PROVE TypeOK'
  BY <1>6, UpdatePolicyTyped
<1>7. ASSUME NEW k \in DOMAIN skills, Revoke(k) PROVE TypeOK'
  BY <1>7, RevokeTyped
<1>8. ASSUME NEW w \in Workers, Claim(w) \/ GiveUp(w) \/ SubmitFailure(w) \/ Crash(w) PROVE TypeOK'
  BY <1>8, ClaimTyped, GiveUpTyped, SubmitFailureTyped, CrashTyped
<1>9. ASSUME NEW w \in Workers, Report(w) PROVE TypeOK'
  BY <1>9, SubmitTyped DEF Report
<1>10. ASSUME NEW j \in DOMAIN jobs, ExpireLease(j) PROVE TypeOK'
  BY <1>10, ExpireLeaseTyped
<1>11. ASSUME NEW x \in completions, Complete(x) PROVE TypeOK'
  BY <1>11, CompleteFencedTyped, CompleteRequeueTyped, CompleteErrorTyped, CompleteScanTyped,
     CompleteImportTyped, CompleteImportConflictTyped DEF Complete
<1>12. CASE Tick
  BY <1>12, TickTyped
<1>13. CASE UNCHANGED vars
  BY <1>13 DEF vars, TypeOK, Shapes, References
<1> QED
  BY <1>1, <1>2, <1>3, <1>4, <1>5, <1>6, <1>7, <1>8, <1>9, <1>10, <1>11, <1>12, <1>13 DEF Next, Poll

\* The registry's records keep their shape and every identifier a handler
\* follows leads to a record, in every state of every instance.
THEOREM TypeCorrect == Spec => []TypeOK
BY InitTyped, StepTyped, PTL DEF Spec
=============================================================================
