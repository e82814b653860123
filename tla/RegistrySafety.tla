--------------------------- MODULE RegistrySafety ---------------------------
(***************************************************************************)
(* Safety theorems of Registry, from its type correctness.  The steps that *)
(* touch releases are summarised once (ReleasesStep): a step keeps every   *)
(* release under its name and its bytes, or publishes one new release.     *)
(***************************************************************************)
EXTENDS RegistryProofs

\* evaluatePolicy decides: it never answers "pending" or "revoked".
LEMMA EvaluationDecides ==
  ASSUME NEW p, NEW results, NEW d, NEW n, NEW t
  PROVE  EvaluatePolicy(p, results, d, n, t) \in {"approved", "quarantined", "scan-error"}
<1>1. \A e : RequiredVerdict(p, e, results, d, n, t) \in {"approved", "quarantined", "scan-error"}
  BY DEF RequiredVerdict
<1> QED
  BY <1>1 DEF EvaluatePolicy

\* The same releases under the same names and bytes; a revoked one stays revoked.
Kept == /\ DOMAIN skills' = DOMAIN skills
        /\ \A k \in DOMAIN skills : /\ skills'[k].name = skills[k].name
                                    /\ skills'[k].digest = skills[k].digest
                                    /\ skills[k].state = "revoked" => skills'[k].state = "revoked"

\* One new release under a version nobody has, and not born revoked.
Added == \E skill \in SkillRecords : /\ skills' = Append(skills, skill)
                                     /\ ~Published(skill.name)
                                     /\ skill.state # "revoked"

\* Nobody becomes revoked.
NoneRevoked == \A k \in DOMAIN skills : skills'[k].state = "revoked" => skills[k].state = "revoked"

\* PublishCommit adds one release.
LEMMA PublishAdds ==
  ASSUME TypeOK, NEW c \in Clients, PublishCommit(c)
  PROVE  Added
<1> DEFINE r == request[c]
           skill == NewSkill(r.name, r.digest, "pending", r.policy.revision, {})
<1>1. r.name \in Names /\ r.digest \in Digests /\ r.policy \in PolicyRecords
  BY DEF TypeOK, Shapes, PublishCommit, Requests, NoRequest
<1>2. skill \in SkillRecords /\ skill.name = r.name /\ skill.state = "pending"
  BY <1>1, PolicyFields DEF NewSkill, SkillRecords, DistributionStates
<1>3. skills' = Append(skills, skill) /\ ~Published(r.name)
  BY DEF PublishCommit
<1> HIDE DEF skill
<1> QED BY <1>2, <1>3 DEF Added

\* CompleteImport adds one release.
LEMMA ImportAdds ==
  ASSUME TypeOK, NEW x \in completions, CompleteImport(x)
  PROVE  Added
<1> DEFINE job == jobs[x.job]
           skill == NewSkill(job.name, x.digest, Evaluation(x), job.policy.revision, NewIds(x))
<1>1. job \in JobRecords /\ x.digest \in Digests
  BY DEF CompleteImport, TypeOK, Shapes, References
<1>2. job.name \in Names /\ job.policy \in PolicyRecords
  BY <1>1 DEF JobRecords
<1>3. NewIds(x) \in SUBSET Nat
  BY EvidenceAppended DEF CompleteImport
<1>4. Evaluation(x) \in DistributionStates /\ Evaluation(x) # "revoked"
  BY EvaluationDecides DEF Evaluation, DistributionStates
<1>5. skill \in SkillRecords /\ skill.name = job.name /\ skill.state # "revoked"
  <2> HIDE DEF job
  <2> QED BY <1>1, <1>2, <1>3, <1>4, PolicyFields DEF NewSkill, SkillRecords
<1>6. skills' = Append(skills, skill) /\ ~Published(job.name)
  BY DEF CompleteImport
<1> HIDE DEF skill
<1> QED BY <1>5, <1>6 DEF Added

\* RescanCommit keeps every release, and a revoked one revoked.
LEMMA RescanKeeps ==
  ASSUME TypeOK, NEW c \in Clients, RescanCommit(c)
  PROVE  Kept /\ NoneRevoked
<1>1. request[c].skill \in DOMAIN skills
  BY DEF TypeOK, References, RescanCommit
<1>2. \A k \in DOMAIN skills : skills[k] \in SkillRecords
  BY DEF TypeOK, Shapes
<1> QED BY <1>1, <1>2 DEF Kept, NoneRevoked, RescanCommit, SkillRecords

\* Revoke keeps every release, and a revoked one revoked.
LEMMA RevokeKeeps ==
  ASSUME TypeOK, NEW k \in DOMAIN skills, Revoke(k)
  PROVE  Kept /\ \A i \in DOMAIN skills : i # k => skills'[i] = skills[i]
<1>1. \A i \in DOMAIN skills : skills[i] \in SkillRecords
  BY DEF TypeOK, Shapes
<1> QED BY <1>1 DEF Kept, Revoke, SkillRecords

\* CompleteRequeue keeps every release, and a revoked one revoked.
LEMMA RequeueKeeps ==
  ASSUME TypeOK, NEW x \in completions, CompleteRequeue(x)
  PROVE  Kept /\ NoneRevoked
<1>1. \A i \in DOMAIN skills : skills[i] \in SkillRecords
  BY DEF TypeOK, Shapes
<1> QED BY <1>1 DEF Kept, NoneRevoked, CompleteRequeue, SkillRecords

\* CompleteError keeps every release, and a revoked one revoked.
LEMMA ErrorKeeps ==
  ASSUME TypeOK, NEW x \in completions, CompleteError(x)
  PROVE  Kept /\ NoneRevoked
<1>1. \A i \in DOMAIN skills : skills[i] \in SkillRecords
  BY DEF TypeOK, Shapes
<1> QED BY <1>1 DEF Kept, NoneRevoked, CompleteError, SkillRecords

\* CompleteScan keeps every release, and a revoked one revoked.
LEMMA ScanKeeps ==
  ASSUME TypeOK, NEW x \in completions, CompleteScan(x)
  PROVE  Kept /\ NoneRevoked
<1>1. \A i \in DOMAIN skills : skills[i] \in SkillRecords
  BY DEF TypeOK, Shapes
<1>2. Evaluation(x) # "revoked"
  BY EvaluationDecides DEF Evaluation
<1> QED BY <1>1, <1>2 DEF Kept, NoneRevoked, CompleteScan, SkillRecords

\* Only these actions touch releases, jobs or packs; every other step leaves them alone.
LEMMA StepCases ==
  ASSUME [Next]_vars
  PROVE  \/ \E c \in Clients : Finish(c)
         \/ \E n \in Mirrored : QueueImport(n)
         \/ \E k \in DOMAIN skills : Revoke(k)
         \/ \E w \in Workers : Claim(w)
         \/ \E j \in DOMAIN jobs : ExpireLease(j)
         \/ \E x \in completions : Complete(x)
         \/ UNCHANGED <<skills, jobs, packs>>
<1>1. ASSUME NEW c \in Clients, NEW n \in Names, NEW d \in Digests, PublishRead(c, n, d)
      PROVE  UNCHANGED <<skills, jobs, packs>>
  BY <1>1 DEF PublishRead, Request, state
<1>2. ASSUME NEW c \in Clients, NEW k \in DOMAIN skills, RescanRead(c, k)
      PROVE  UNCHANGED <<skills, jobs, packs>>
  BY <1>2 DEF RescanRead, Request, state
<1>3. ASSUME NEW c \in Clients, NEW n \in PackNames, NEW ks \in SUBSET DOMAIN skills, PackRead(c, n, ks)
      PROVE  UNCHANGED <<skills, jobs, packs>>
  BY <1>3 DEF PackRead, Request, state
<1>4. ASSUME NEW document \in Policies, UpdatePolicy(document) PROVE UNCHANGED <<skills, jobs, packs>>
  BY <1>4 DEF UpdatePolicy
<1>5. ASSUME NEW w \in Workers, Poll(w) \/ Report(w) \/ GiveUp(w) \/ SubmitFailure(w) \/ Crash(w)
      PROVE  UNCHANGED <<skills, jobs, packs>>
  <2>1. CASE Report(w)
    BY <2>1 DEF Report, Submit, state
  <2>2. CASE Poll(w)
    BY <2>2 DEF Poll, vars
  <2>3. CASE GiveUp(w) \/ SubmitFailure(w) \/ Crash(w)
    BY <2>3 DEF GiveUp, SubmitFailure, Crash, state
  <2> QED BY <1>5, <2>1, <2>2, <2>3
<1>6. ASSUME Tick PROVE UNCHANGED <<skills, jobs, packs>>
  BY <1>6 DEF Tick, state
<1>7. ASSUME UNCHANGED vars PROVE UNCHANGED <<skills, jobs, packs>>
  BY <1>7 DEF vars, state
<1> QED BY <1>1, <1>2, <1>3, <1>4, <1>5, <1>6, <1>7 DEF Next

\* How any step treats the releases.
LEMMA ReleasesStep ==
  ASSUME TypeOK, [Next]_vars
  PROVE  \/ Kept /\ NoneRevoked
         \/ Added
         \/ \E k \in DOMAIN skills : Revoke(k) /\ Kept
<1>1. ASSUME NEW c \in Clients, Finish(c) PROVE (Kept /\ NoneRevoked) \/ Added
  BY <1>1, PublishAdds, RescanKeeps
     DEF Finish, PublishConflict, PackCommit, PackConflict, state, Kept, NoneRevoked
<1>2. ASSUME NEW k \in DOMAIN skills, Revoke(k) PROVE Kept
  BY <1>2, RevokeKeeps
<1>3. ASSUME NEW x \in completions, Complete(x) PROVE (Kept /\ NoneRevoked) \/ Added
  BY <1>3, ImportAdds, RequeueKeeps, ErrorKeeps, ScanKeeps
     DEF Complete, CompleteFenced, CompleteImportConflict, state, Kept, NoneRevoked
<1>4. ASSUME skills' = skills PROVE Kept /\ NoneRevoked
  BY <1>4 DEF Kept, NoneRevoked
<1>5. ASSUME \/ \E n \in Mirrored : QueueImport(n)
             \/ \E w \in Workers : Claim(w)
             \/ \E j \in DOMAIN jobs : ExpireLease(j)
      PROVE  skills' = skills
  BY <1>5 DEF QueueImport, Claim, ExpireLease, state
<1> QED BY <1>1, <1>2, <1>3, <1>4, <1>5, StepCases

\* No name@version is ever published twice.
THEOREM VersionsUnique == Spec => []UniqueVersions
<1>1. Init => UniqueVersions
  BY DEF Init, UniqueVersions
<1>2. TypeOK /\ UniqueVersions /\ [Next]_vars => UniqueVersions'
  <2> SUFFICES ASSUME TypeOK, UniqueVersions, [Next]_vars PROVE UniqueVersions'
    OBVIOUS
  <2>1. CASE Kept
    BY <2>1 DEF Kept, UniqueVersions
  <2>2. CASE Added
    <3>1. PICK skill \in SkillRecords : skills' = Append(skills, skill) /\ ~Published(skill.name)
      BY <2>2 DEF Added
    <3>2. skills \in Seq(SkillRecords)
      BY DEF TypeOK, Shapes
    <3> QED BY <3>1, <3>2 DEF Published, UniqueVersions
  <2> QED BY <2>1, <2>2, ReleasesStep
<1> QED BY <1>1, <1>2, TypeCorrect, PTL DEF Spec

-----------------------------------------------------------------------------
(* Packs.                                                                  *)

PacksKept == /\ DOMAIN packs' = DOMAIN packs
             /\ \A p \in DOMAIN packs : /\ packs'[p].members = packs[p].members
                                        /\ packs[p].state = "revoked" => packs'[p].state = "revoked"

\* A pack is created with members that are approved at its commit.
PackAdded == \E pack \in PackRecords : /\ packs' = Append(packs, pack)
                                       /\ \A k \in pack.members : skills[k].state = "approved"
                                       /\ pack.members \subseteq DOMAIN skills
                                       /\ skills' = skills

\* PackCommit adds one pack, none of whose members is revoked.
LEMMA PackCommitAdds ==
  ASSUME TypeOK, NEW c \in Clients, PackCommit(c)
  PROVE  PackAdded
<1> DEFINE r == request[c]
           pack == [name |-> r.name, members |-> r.members, state |-> "approved",
                    policyRevision |-> r.revision]
<1>1. r.name \in PackNames /\ r.revision \in 1..MaxPolicies /\ r.members \in SUBSET Nat
      /\ r.members \subseteq DOMAIN skills
  BY PackCommitFields DEF PackCommit
<1>2. pack \in PackRecords /\ pack.members = r.members
  BY <1>1 DEF PackRecords
<1>3. packs' = Append(packs, pack) /\ skills' = skills
      /\ \A k \in r.members : skills[k].state = "approved"
  BY DEF PackCommit, MembersUnchanged
<1> HIDE DEF pack
<1> QED BY <1>1, <1>2, <1>3 DEF PackAdded

\* Revoke keeps every pack and revokes the ones with the revoked member.
LEMMA RevokeKeepsPacks ==
  ASSUME TypeOK, NEW k \in DOMAIN skills, Revoke(k)
  PROVE  PacksKept /\ \A p \in DOMAIN packs : k \in packs[p].members => packs'[p].state = "revoked"
<1>1. \A p \in DOMAIN packs : packs[p] \in PackRecords
  BY DEF TypeOK, Shapes
<1> QED BY <1>1 DEF PacksKept, Revoke, PackRecords

\* Every step keeps the packs, adds one without revoked members, or is a revocation.
LEMMA PacksStep ==
  ASSUME TypeOK, [Next]_vars
  PROVE  \/ packs' = packs
         \/ PackAdded
         \/ \E k \in DOMAIN skills : Revoke(k)
<1>1. ASSUME NEW c \in Clients, Finish(c) PROVE packs' = packs \/ PackAdded
  BY <1>1, PackCommitAdds
     DEF Finish, PublishCommit, PublishConflict, RescanCommit, PackConflict, state
<1>2. ASSUME NEW x \in completions, Complete(x) PROVE packs' = packs
  BY <1>2 DEF Complete, CompleteFenced, CompleteRequeue, CompleteError, CompleteScan,
              CompleteImport, CompleteImportConflict, state
<1>3. ASSUME \/ \E n \in Mirrored : QueueImport(n)
             \/ \E w \in Workers : Claim(w)
             \/ \E j \in DOMAIN jobs : ExpireLease(j)
      PROVE  packs' = packs
  BY <1>3 DEF QueueImport, Claim, ExpireLease, state
<1> QED BY <1>1, <1>2, <1>3, StepCases

\* A revoked release and a revoked pack stay revoked in every step of every
\* handler and worker.
THEOREM RevocationFinal == Spec => RevokedForever
<1>1. TypeOK /\ [Next]_vars =>
        [/\ \A k \in DOMAIN skills : skills[k].state = "revoked" => skills'[k].state = "revoked"
         /\ \A p \in DOMAIN packs : packs[p].state = "revoked" => packs'[p].state = "revoked"]_vars
  <2> SUFFICES ASSUME TypeOK, [Next]_vars
               PROVE  /\ \A k \in DOMAIN skills : skills[k].state = "revoked" => skills'[k].state = "revoked"
                      /\ \A p \in DOMAIN packs : packs[p].state = "revoked" => packs'[p].state = "revoked"
    OBVIOUS
  <2>1. \A k \in DOMAIN skills : skills[k].state = "revoked" => skills'[k].state = "revoked"
    <3>1. CASE Kept
      BY <3>1 DEF Kept
    <3>2. CASE Added
      BY <3>2 DEF Added, TypeOK, Shapes
    <3> QED BY <3>1, <3>2, ReleasesStep
  <2>2. \A p \in DOMAIN packs : packs[p].state = "revoked" => packs'[p].state = "revoked"
    <3>1. CASE PackAdded
      BY <3>1 DEF PackAdded, TypeOK, Shapes
    <3>2. ASSUME NEW k \in DOMAIN skills, Revoke(k) PROVE PacksKept
      BY <3>2, RevokeKeepsPacks
    <3> QED BY <3>1, <3>2, PacksStep DEF PacksKept
  <2> QED BY <2>1, <2>2
<1> QED BY <1>1, TypeCorrect, PTL DEF Spec, RevokedForever

\* A pack on offer never has a revoked member: createPack's recheck and
\* revokeSkill's sweep over the packs close the race from both sides.
THEOREM NoRevokedMember == Spec => []PacksWithoutRevoked
<1>1. Init => PacksWithoutRevoked
  BY DEF Init, PacksWithoutRevoked
<1>2. TypeOK /\ PacksWithoutRevoked /\ [Next]_vars => PacksWithoutRevoked'
  <2> SUFFICES ASSUME TypeOK, PacksWithoutRevoked, [Next]_vars,
                      NEW p \in DOMAIN packs', packs'[p].state = "approved", NEW k \in packs'[p].members
               PROVE  skills'[k].state # "revoked"
    BY DEF PacksWithoutRevoked
  <2>1. CASE PackAdded
    <3>1. PICK pack \in PackRecords : /\ packs' = Append(packs, pack)
                                      /\ \A i \in pack.members : skills[i].state = "approved"
      BY <2>1 DEF PackAdded
    <3>2. skills' = skills /\ packs \in Seq(PackRecords)
      BY <2>1 DEF PackAdded, TypeOK, Shapes
    <3> QED BY <3>1, <3>2 DEF PacksWithoutRevoked
  <2>2. CASE \E i \in DOMAIN skills : Revoke(i)
    <3>1. PICK i \in DOMAIN skills : Revoke(i)
      BY <2>2
    <3>2. PacksKept /\ (i \in packs[p].members => packs'[p].state = "revoked")
      BY <3>1, RevokeKeepsPacks DEF PacksKept
    <3>3. p \in DOMAIN packs /\ packs[p].state = "approved" /\ k \in packs[p].members /\ k # i
      <4>1. p \in DOMAIN packs /\ k \in packs[p].members /\ packs[p].state # "revoked"
        BY <3>2 DEF PacksKept
      <4>2. packs[p] \in PackRecords
        BY <4>1 DEF TypeOK, Shapes
      <4> QED BY <3>2, <4>1, <4>2 DEF PackRecords
    <3>4. k \in DOMAIN skills /\ skills[k].state # "revoked"
      BY <3>3 DEF PacksWithoutRevoked, TypeOK, References
    <3> QED BY <3>1, <3>3, <3>4, RevokeKeeps
  <2>3. CASE packs' = packs /\ ~\E i \in DOMAIN skills : Revoke(i)
    <3>1. k \in DOMAIN skills /\ skills[k].state # "revoked"
      BY <2>3 DEF PacksWithoutRevoked, TypeOK, References
    <3>2. CASE Kept /\ NoneRevoked
      BY <3>1, <3>2 DEF NoneRevoked
    <3>3. CASE Added
      BY <3>1, <3>3 DEF Added, TypeOK, Shapes
    <3> QED BY <2>3, <3>2, <3>3, ReleasesStep
  <2> QED BY <2>1, <2>2, <2>3, PacksStep
<1> QED BY <1>1, <1>2, TypeCorrect, PTL DEF Spec

-----------------------------------------------------------------------------
(* Pending releases.                                                       *)

\* An unfinished import is not bound to a release, so requeueing it cannot
\* put one back to "pending".
ImportsUnbound ==
  \A j \in DOMAIN jobs : jobs[j].kind = "import" /\ Active(j) => jobs[j].skill = NoSkill

\* The strengthening that makes PendingHasWork inductive.
WorkInv == ImportsUnbound /\ PendingHasWork

\* Steps that keep the releases and leave every job active, of the same kind
\* and for the same release.
LEMMA JobsCarryOver ==
  ASSUME TypeOK, WorkInv, skills' = skills, DOMAIN jobs' = DOMAIN jobs,
         \A j \in DOMAIN jobs : /\ jobs'[j].kind = jobs[j].kind
                                /\ jobs'[j].skill = jobs[j].skill
                                /\ Active(j)' <=> Active(j)
  PROVE  WorkInv'
BY DEF WorkInv, ImportsUnbound, PendingHasWork, NoSkill

\* Steps that append one job.
LEMMA JobAppended ==
  ASSUME TypeOK, WorkInv, NEW job \in JobRecords, jobs' = Append(jobs, job),
         job.kind = "import" => job.skill = NoSkill,
         \A k \in DOMAIN skills' : skills'[k].state = "pending" =>
           \/ k \in DOMAIN skills /\ skills[k].state = "pending"
           \/ job.kind = "scan" /\ job.skill = k /\ job.state = "queued"
  PROVE  WorkInv'
<1>1. jobs \in Seq(JobRecords)
  BY DEF TypeOK, Shapes
<1>2. /\ DOMAIN jobs' = DOMAIN jobs \cup {Len(jobs) + 1} /\ jobs'[Len(jobs) + 1] = job
      /\ \A j \in DOMAIN jobs : jobs'[j] = jobs[j]
  BY <1>1
<1>3. ImportsUnbound'
  BY <1>2 DEF WorkInv, ImportsUnbound, Active, NoSkill
<1>4. PendingHasWork'
  BY <1>2 DEF WorkInv, PendingHasWork, Active
<1> QED BY <1>3, <1>4 DEF WorkInv

\* The transactions of the clients keep WorkInv: what they leave pending gets a job.
LEMMA FinishWork ==
  ASSUME TypeOK, WorkInv, NEW c \in Clients, Finish(c)
  PROVE  WorkInv'
<1>1. CASE PublishCommit(c)
  <2> DEFINE r == request[c]
             job == ScanJob(Len(skills) + 1, r.name, r.digest, r.policy)
             skill == NewSkill(r.name, r.digest, "pending", r.policy.revision, {})
  <2>1. r.name \in Names /\ r.digest \in Digests /\ r.policy \in PolicyRecords
    BY <1>1 DEF TypeOK, Shapes, PublishCommit, Requests, NoRequest
  <2>2. job \in JobRecords /\ job.kind = "scan" /\ job.skill = Len(skills) + 1 /\ job.state = "queued"
    BY <2>1 DEF ScanJob, JobRecords, NoToken, TypeOK, Shapes
  <2>3. jobs' = Append(jobs, job) /\ skills' = Append(skills, skill)
    BY <1>1 DEF PublishCommit
  <2>4. skills \in Seq(SkillRecords) /\ skill \in SkillRecords
    BY <2>1, PolicyFields DEF TypeOK, Shapes, NewSkill, SkillRecords, DistributionStates
  <2>5. \A k \in DOMAIN skills' : k = Len(skills) + 1 \/ (k \in DOMAIN skills /\ skills'[k] = skills[k])
    <3> HIDE DEF skill
    <3> QED BY <2>3, <2>4
  <2> HIDE DEF job, skill
  <2> QED BY <2>2, <2>3, <2>5, JobAppended
<1>2. CASE RescanCommit(c)
  <2> DEFINE r == request[c]
             job == ScanJob(r.skill, skills[r.skill].name, skills[r.skill].digest, r.policy)
  <2>1. r.policy \in PolicyRecords /\ r.skill \in DOMAIN skills /\ r.skill \in Nat
    BY <1>2 DEF TypeOK, Shapes, References, RescanCommit, Requests, NoRequest
  <2>2. skills[r.skill] \in SkillRecords
    BY <2>1 DEF TypeOK, Shapes
  <2>3. job \in JobRecords /\ job.kind = "scan" /\ job.skill = r.skill /\ job.state = "queued"
    BY <2>1, <2>2 DEF ScanJob, JobRecords, SkillRecords, NoToken
  <2>4. jobs' = Append(jobs, job)
    BY <1>2 DEF RescanCommit
  <2>5. \A k \in DOMAIN skills' : k \in DOMAIN skills /\ (k # r.skill => skills'[k] = skills[k])
    BY <1>2 DEF RescanCommit
  <2> HIDE DEF job
  <2> QED BY <2>3, <2>4, <2>5, JobAppended
<1>3. CASE PublishConflict(c) \/ PackCommit(c) \/ PackConflict(c)
  BY <1>3, JobsCarryOver DEF PublishConflict, PackCommit, PackConflict, state, Active
<1> QED BY <1>1, <1>2, <1>3 DEF Finish

\* QueueImport keeps WorkInv: a new import is not bound to a release.
LEMMA QueueImportWork ==
  ASSUME TypeOK, WorkInv, NEW n \in Mirrored, QueueImport(n)
  PROVE  WorkInv'
<1> DEFINE job == ImportJob(n, policy)
<1>1. job \in JobRecords /\ job.kind = "import" /\ job.skill = NoSkill
  BY NamesAssumption DEF ImportJob, JobRecords, NoToken, NoSkill, TypeOK, Shapes
<1>2. jobs' = Append(jobs, job) /\ skills' = skills
  BY DEF QueueImport
<1> HIDE DEF job
<1> QED BY <1>1, <1>2, JobAppended

\* Revoke keeps WorkInv: it leaves fewer releases pending.
LEMMA RevokeWork ==
  ASSUME TypeOK, WorkInv, NEW k \in DOMAIN skills, Revoke(k)
  PROVE  WorkInv'
<1>1. skills[k] \in SkillRecords
  BY DEF TypeOK, Shapes
<1>2. DOMAIN skills' = DOMAIN skills /\ skills'[k].state = "revoked" /\ jobs' = jobs
      /\ \A i \in DOMAIN skills : i # k => skills'[i] = skills[i]
  BY <1>1 DEF Revoke, SkillRecords
<1> QED BY <1>2 DEF WorkInv, ImportsUnbound, PendingHasWork, Active, NoSkill

\* Claiming a job and losing its lease keep it active.
LEMMA LeaseWork ==
  ASSUME TypeOK, WorkInv
  PROVE  /\ \A w \in Workers : Claim(w) => WorkInv'
         /\ \A j \in DOMAIN jobs : ExpireLease(j) => WorkInv'
<1>1. \A j \in DOMAIN jobs : jobs[j] \in JobRecords
  BY DEF TypeOK, Shapes
<1>2. ASSUME NEW w \in Workers, Claim(w) PROVE WorkInv'
  <2>1. PICK j \in DOMAIN jobs :
          /\ Claimable(j)
          /\ jobs' = [jobs EXCEPT ![j].state = "running", ![j].token = leases + 1, ![j].live = TRUE]
    BY <1>2 DEF Claim
  <2>2. jobs[j].state \in {"queued", "running"}
    BY <2>1 DEF Claimable
  <2>3. /\ DOMAIN jobs' = DOMAIN jobs
        /\ \A i \in DOMAIN jobs : /\ jobs'[i].kind = jobs[i].kind
                                  /\ jobs'[i].skill = jobs[i].skill
                                  /\ i # j => jobs'[i].state = jobs[i].state
        /\ jobs'[j].state = "running"
    BY <1>1, <2>1 DEF JobRecords
  <2>4. skills' = skills
    BY <1>2 DEF Claim
  <2>5. \A i \in DOMAIN jobs : Active(i)' <=> Active(i)
    BY <2>2, <2>3 DEF Active
  <2> QED BY <2>3, <2>4, <2>5, JobsCarryOver
<1>3. ASSUME NEW j \in DOMAIN jobs, ExpireLease(j) PROVE WorkInv'
  <2>1. /\ DOMAIN jobs' = DOMAIN jobs
        /\ \A i \in DOMAIN jobs : /\ jobs'[i].kind = jobs[i].kind
                                  /\ jobs'[i].skill = jobs[i].skill
                                  /\ jobs'[i].state = jobs[i].state
    BY <1>1, <1>3 DEF ExpireLease, JobRecords
  <2>2. skills' = skills
    BY <1>3 DEF ExpireLease
  <2> QED BY <2>1, <2>2, JobsCarryOver DEF Active
<1> QED BY <1>2, <1>3

\* CompleteRequeue keeps WorkInv: the release it returns to pending is the one of the job it requeues.
LEMMA RequeueWork ==
  ASSUME TypeOK, WorkInv, NEW x \in completions, CompleteRequeue(x)
  PROVE  WorkInv'
<1> DEFINE j == x.job
           k == jobs[j].skill
<1>1. /\ j \in DOMAIN jobs /\ jobs[j] \in JobRecords /\ jobs[j].state = "running"
      /\ \A i \in DOMAIN skills : skills[i] \in SkillRecords
  <2>1. skills \in Seq(SkillRecords)
    BY DEF TypeOK, Shapes
  <2>2. \A i \in DOMAIN skills : skills[i] \in SkillRecords
    BY <2>1
  <2>3. jobs[j].state = "running"
    BY DEF CompleteRequeue, LeaseHeld
  <2> QED BY <2>2, <2>3, CompletionJob
<1>2. /\ DOMAIN jobs' = DOMAIN jobs
      /\ \A i \in DOMAIN jobs : i # j => jobs'[i] = jobs[i]
      /\ jobs'[j].kind = jobs[j].kind /\ jobs'[j].skill = jobs[j].skill /\ jobs'[j].state = "queued"
  BY <1>1 DEF CompleteRequeue, Released, JobRecords
<1>3. \A i \in DOMAIN jobs : /\ jobs'[i].kind = jobs[i].kind /\ jobs'[i].skill = jobs[i].skill
                             /\ Active(i)' <=> Active(i)
  <2> HIDE DEF j
  <2> QED BY <1>1, <1>2 DEF Active
<1>4. \A i \in DOMAIN skills' : i \in DOMAIN skills /\ (skills'[i] = skills[i] \/ (i = k /\ k # NoSkill))
  BY DEF CompleteRequeue
<1>5. Active(j)' /\ (k # NoSkill => jobs'[j].kind = "scan" /\ jobs'[j].skill = k)
  BY <1>1, <1>2 DEF WorkInv, ImportsUnbound, Active, JobRecords
<1>6. ImportsUnbound'
  BY <1>2, <1>3 DEF WorkInv, ImportsUnbound, NoSkill
<1>7. PendingHasWork'
  <2> HIDE DEF j, k
  <2> QED BY <1>1, <1>2, <1>3, <1>4, <1>5 DEF WorkInv, PendingHasWork
<1> QED BY <1>6, <1>7 DEF WorkInv

\* A completion that ends its job decides the release of a scan job.
LEMMA JobEnded ==
  ASSUME TypeOK, WorkInv, NEW j \in DOMAIN jobs, DOMAIN jobs' = DOMAIN jobs,
         \A i \in DOMAIN jobs : i # j => jobs'[i] = jobs[i],
         jobs'[j].state \in {"completed", "failed"},
         \A i \in DOMAIN skills' : skills'[i].state = "pending" =>
           /\ i \in DOMAIN skills /\ skills[i].state = "pending"
           /\ jobs[j].kind = "scan" => i # jobs[j].skill
  PROVE  WorkInv'
<1>1. ~Active(j)'
  BY DEF Active
<1>2. \A i \in DOMAIN jobs : i # j => (Active(i)' <=> Active(i))
  BY DEF Active
<1>3. ImportsUnbound'
  BY <1>1, <1>2 DEF WorkInv, ImportsUnbound, NoSkill
<1>4. PendingHasWork'
  BY <1>1, <1>2 DEF WorkInv, PendingHasWork
<1> QED BY <1>3, <1>4 DEF WorkInv

\* CompleteError keeps WorkInv: the release of the failed scan is not pending any more.
LEMMA ErrorWork ==
  ASSUME TypeOK, WorkInv, NEW x \in completions, CompleteError(x)
  PROVE  WorkInv'
<1> DEFINE j == x.job
           k == jobs[j].skill
<1>1. /\ j \in DOMAIN jobs /\ jobs[j] \in JobRecords
      /\ \A i \in DOMAIN skills : skills[i] \in SkillRecords
  BY DEF TypeOK, Shapes, References
<1>2. /\ DOMAIN jobs' = DOMAIN jobs
      /\ \A i \in DOMAIN jobs : i # j => jobs'[i] = jobs[i]
      /\ jobs'[j].state = "failed"
  BY <1>1 DEF CompleteError, JobRecords
<1>3. jobs[j].kind = "scan" => k # NoSkill /\ k \in DOMAIN skills
  BY <1>1 DEF TypeOK, References
<1>4. \A i \in DOMAIN skills' : skills'[i].state = "pending" =>
        /\ i \in DOMAIN skills /\ skills[i].state = "pending"
        /\ jobs[j].kind = "scan" => i # k
  BY <1>1, <1>3 DEF CompleteError, SkillRecords
<1> HIDE DEF j, k
<1> QED BY <1>1, <1>2, <1>4, JobEnded DEF k

\* CompleteScan keeps WorkInv: the release of the completed scan is decided.
LEMMA ScanWork ==
  ASSUME TypeOK, WorkInv, NEW x \in completions, CompleteScan(x)
  PROVE  WorkInv'
<1> DEFINE j == x.job
           k == jobs[j].skill
<1>1. /\ j \in DOMAIN jobs /\ jobs[j] \in JobRecords
      /\ \A i \in DOMAIN skills : skills[i] \in SkillRecords
  BY DEF TypeOK, Shapes, References
<1>2. /\ DOMAIN jobs' = DOMAIN jobs
      /\ \A i \in DOMAIN jobs : i # j => jobs'[i] = jobs[i]
      /\ jobs'[j].state = "completed"
  BY <1>1 DEF CompleteScan, Released, JobRecords
<1>3. k \in DOMAIN skills /\ Evaluation(x) # "pending"
  BY <1>1, EvaluationDecides DEF TypeOK, References, CompleteScan, Evaluation
<1>4. \A i \in DOMAIN skills' : skills'[i].state = "pending" =>
        i \in DOMAIN skills /\ skills[i].state = "pending" /\ i # k
  BY <1>1, <1>3 DEF CompleteScan, SkillRecords
<1> HIDE DEF j, k
<1> QED BY <1>1, <1>2, <1>4, JobEnded DEF k

\* CompleteImport keeps WorkInv: the imported release is born decided.
LEMMA ImportWork ==
  ASSUME TypeOK, WorkInv, NEW x \in completions, CompleteImport(x)
  PROVE  WorkInv'
<1> DEFINE j == x.job
           skill == NewSkill(jobs[j].name, x.digest, Evaluation(x), jobs[j].policy.revision, NewIds(x))
<1>1. j \in DOMAIN jobs /\ jobs[j] \in JobRecords /\ jobs[j].kind = "import"
  BY DEF TypeOK, Shapes, References, CompleteImport
<1>2. /\ DOMAIN jobs' = DOMAIN jobs
      /\ \A i \in DOMAIN jobs : i # j => jobs'[i] = jobs[i]
      /\ jobs'[j].state = "completed"
  BY <1>1 DEF CompleteImport, Released, JobRecords
<1>3. skill.state # "pending" /\ skills' = Append(skills, skill) /\ skills \in Seq(SkillRecords)
  BY EvaluationDecides DEF CompleteImport, Evaluation, NewSkill, TypeOK, Shapes
<1>4. \A i \in DOMAIN skills' : skills'[i].state = "pending" =>
        i \in DOMAIN skills /\ skills[i].state = "pending"
  <2> HIDE DEF skill
  <2> QED BY <1>3
<1> HIDE DEF j
<1> QED BY <1>1, <1>2, <1>4, JobEnded

\* Every step keeps WorkInv.
LEMMA WorkStep == TypeOK /\ WorkInv /\ [Next]_vars => WorkInv'
<1> SUFFICES ASSUME TypeOK, WorkInv, [Next]_vars PROVE WorkInv' OBVIOUS
<1>1. ASSUME skills' = skills, jobs' = jobs PROVE WorkInv'
  BY <1>1, JobsCarryOver DEF Active
<1>2. ASSUME NEW x \in completions, Complete(x) PROVE WorkInv'
  BY <1>2, <1>1, RequeueWork, ErrorWork, ScanWork, ImportWork
     DEF Complete, CompleteFenced, CompleteImportConflict, state
<1> QED BY <1>1, <1>2, FinishWork, QueueImportWork, RevokeWork, LeaseWork, StepCases

\* No release is stranded: while it is pending, a scan job for it is queued or
\* running, whatever was lost, requeued, failed or revoked on the way.
THEOREM NoPendingStranded == Spec => []PendingHasWork
<1>1. Init => WorkInv
  BY DEF Init, WorkInv, ImportsUnbound, PendingHasWork
<1>2. WorkInv => PendingHasWork
  BY DEF WorkInv
<1> QED BY <1>1, <1>2, WorkStep, TypeCorrect, PTL DEF Spec
=============================================================================
