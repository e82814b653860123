---------------------------- MODULE UploadReviews ----------------------------
(***************************************************************************)
(* The advisory review of draft revisions: the durable queue of review     *)
(* jobs and results, the authoring handlers that feed it, and the Eve      *)
(* sessions that claim, read and complete the jobs over HTTP.              *)
(*                                                                         *)
(* Every method of the persistence service is one transaction and one      *)
(* action; the callers await several of them, so their steps interleave.   *)
(* A review is bound to a draft revision, the policy revision and the      *)
(* reviewer contract (model and reviewer revision); it is current while    *)
(* all of them are, and while the draft's base release, if it has one, is  *)
(* approved.                                                               *)
(*                                                                         *)
(* The collections are arrays whose order matters only through updatedAt   *)
(* and finishedAt when they are pruned: jobs and results are functions     *)
(* from identifiers, and jobOrder and resultOrder list the identifiers by  *)
(* those times, oldest first.  Identifiers and lease tokens are fresh      *)
(* numbers.                                                                *)
(***************************************************************************)
EXTENDS Naturals, Sequences, FiniteSets

CONSTANTS
  Drafts,       \* drafts of the organization
  Based,        \* those made from a release
  Contracts,    \* reviewer contracts a deployment may configure
  Clients,      \* authoring requests in flight
  Sessions,     \* Eve sessions
  JobLimit,     \* MAX_UPLOAD_REVIEW_JOBS
  ResultLimit,  \* MAX_UPLOAD_REVIEW_RESULTS
  MaxRevision,  \* bound: draft revisions
  MaxPolicy,    \* bound: policy revisions
  MaxJobs,      \* bound: jobs ever created
  MaxResults,   \* bound: results ever created
  MaxRuns,      \* bound: leases ever given
  MaxChanges,   \* bound: changes of the policy and of the contract
  MaxLosses,    \* bound: leases run out, sessions and requests that die
  PrepareRetries \* the length of PREPARE_RETRY_DELAYS_MS

ASSUME ReviewBounds ==
  /\ Based \subseteq Drafts
  /\ {JobLimit, ResultLimit, MaxRevision, MaxPolicy} \subseteq Nat \ {0}
  /\ {MaxJobs, MaxResults, MaxRuns, MaxChanges, MaxLosses, PrepareRetries} \subseteq Nat

VARIABLES
  revision,     \* per draft: its current revision
  base,         \* per draft: is its base release currently approved
  policy,       \* the policy revision
  contract, changes,
  jobs, jobOrder, jobsMade,
  results, resultOrder, resultsMade,
  runs,         \* lease tokens handed out
  sync,         \* per client: how far its request got
  session,      \* per Eve session: what it knows and how far it got
  losses        \* environment budget used

world == <<revision, base, policy, contract, changes>>
queue == <<jobs, jobOrder, jobsMade, results, resultOrder, resultsMade, runs>>
vars == <<world, queue, sync, session, losses>>

NoId == 0
NoSession == "none"
Idle == [phase |-> "idle"]
Unborn == [phase |-> "unborn"]

Init ==
  /\ revision = [d \in Drafts |-> 1]
  /\ base = [d \in Drafts |-> TRUE]
  /\ policy = 1
  /\ contract \in Contracts /\ changes = 0
  /\ jobs = <<>> /\ jobOrder = <<>> /\ jobsMade = 0
  /\ results = <<>> /\ resultOrder = <<>> /\ resultsMade = 0
  /\ runs = 0
  /\ sync = [c \in Clients |-> Idle]
  /\ session = [s \in Sessions |-> Unborn]
  /\ losses = 0

-----------------------------------------------------------------------------
(* What a review is bound to.                                              *)

Binding(d, r, p) == [draft |-> d, revision |-> r, policy |-> p]

\* resolveCurrentUploadReviewBinding: none while the base is not approved.
BindingIsCurrent(b) ==
  /\ b = Binding(b.draft, revision[b.draft], policy)
  /\ b.draft \in Based => base[b.draft]

JobIsCurrent(j) == BindingIsCurrent(j.binding) /\ j.contract = contract

Terminal(j) == j.state \in {"passed", "failed", "stale"}

\* requireLease.
LeaseHeld(i, token) ==
  i \in DOMAIN jobs /\ jobs[i].state = "running" /\ jobs[i].token = token /\ jobs[i].live

-----------------------------------------------------------------------------
(* Writing the collections.  A write is a record of the four parts; it is  *)
(* built by the operators below and pruned and stored by Store.            *)

Now == [jobs |-> jobs, jobOrder |-> jobOrder, results |-> results, resultOrder |-> resultOrder]

\* Mutant of Latest: the identifier keeps its old place as well.
LatestTwice(order, i) == Append(order, i)

Latest(order, i) == Append(SelectSeq(order, LAMBDA x : x # i), i)
Put(f, i, x) == [k \in DOMAIN f \cup {i} |-> IF k = i THEN x ELSE f[k]]
Drop(f, gone) == [k \in DOMAIN f \ gone |-> f[k]]
Without(order, gone) == SelectSeq(order, LAMBDA x : x \notin gone)

WriteJob(q, i, j) == [q EXCEPT !.jobs = Put(@, i, j), !.jobOrder = Latest(@, i)]
WriteResult(q, r, x) == [q EXCEPT !.results = Put(@, r, x), !.resultOrder = Latest(@, r)]

ClearLease(j) == [j EXCEPT !.token = NoId, !.live = FALSE]

NewResult(j, i, s) ==
  [job |-> i, binding |-> j.binding, contract |-> j.contract, state |-> s,
   decision |-> IF s = "passed" THEN "open" ELSE "none"]

\* The members of S in the order of the array, which is the order of creation.
Listed(S, n) == SelectSeq([k \in 1..n |-> k], LAMBDA k : k \in S)

\* staleResultForJob for each of the given jobs: a job's own result turns stale;
\* when it has none, or it was pruned, a stale one is added.
StaleResults(gone) ==
  LET fresh == {i \in gone : jobs[i].result \notin DOMAIN results}
      id(i) == IF i \in fresh THEN resultsMade + Cardinality({k \in fresh : k <= i})
               ELSE jobs[i].result
      ids == {id(i) : i \in gone}
      stale(r) == IF r \in DOMAIN results THEN [results[r] EXCEPT !.state = "stale"]
                  ELSE LET i == CHOOSE i \in fresh : id(i) = r IN NewResult(jobs[i], i, "stale")
  IN  [jobs |-> [i \in DOMAIN jobs |->
                   IF i \in gone THEN [ClearLease(jobs[i]) EXCEPT !.state = "stale", !.result = id(i)]
                   ELSE jobs[i]],
       jobOrder |-> Without(jobOrder, gone) \o Listed(gone, jobsMade),
       results |-> [r \in DOMAIN results \cup ids |-> IF r \in ids THEN stale(r) ELSE results[r]],
       resultOrder |-> Without(resultOrder, ids) \o Listed(ids, resultsMade + Cardinality(fresh))]

\* Mutant of Victims: the least recently updated job goes, whatever its state.
OldestVictim(q) == IF Len(q.jobOrder) > JobLimit THEN {Head(q.jobOrder)} ELSE {}

\* The finished job pruneCollections drops: a transaction adds one job at most.
Victims(q) ==
  LET finished == SelectSeq(q.jobOrder, LAMBDA i : Terminal(q.jobs[i]))
  IN  IF Len(q.jobOrder) > JobLimit THEN {Head(finished)} ELSE {}

\* Mutant of Orphans: the results of a dropped job stay.
OrphansStay(q, gone) == {}

Orphans(q, gone) == {r \in DOMAIN q.results : q.results[r].job \in gone}

\* pruneCollections and the assignment of the collections.
Store(q) ==
  LET gone == Victims(q)
      kept == Without(q.resultOrder, Orphans(q, gone))
      excess == IF Len(kept) > ResultLimit THEN Len(kept) - ResultLimit ELSE 0
      last == SubSeq(kept, excess + 1, Len(kept))
  IN  /\ jobs' = Drop(q.jobs, gone)
      /\ jobOrder' = Without(q.jobOrder, gone)
      /\ resultOrder' = last
      /\ results' = [r \in {last[n] : n \in DOMAIN last} |-> q.results[r]]

\* The write of a transaction that may add results, with their identifiers.
Write(q) ==
  /\ resultsMade' = resultsMade + Cardinality(DOMAIN q.results \ DOMAIN results)
  /\ resultsMade' <= MaxResults
  /\ Store(q)

MarkBindingStale(i) == Write(StaleResults({i})) /\ UNCHANGED <<jobsMade, runs>>

-----------------------------------------------------------------------------
(* The draft, the policy, the base release and the deployment move on.     *)

\* writeDraftRevision's transaction, or a request for a review of the current
\* revision; both go on to syncDraftReview.
Save(c, d) ==
  /\ sync[c] = Idle
  /\ revision[d] < MaxRevision
  /\ revision' = [revision EXCEPT ![d] = @ + 1]
  /\ sync' = [sync EXCEPT ![c] = [phase |-> "read", draft |-> d, revision |-> revision[d] + 1,
                                  mark |-> TRUE]]
  /\ UNCHANGED <<base, policy, contract, changes, queue, session, losses>>

RequestReview(c, d) ==
  /\ sync[c] = Idle
  /\ sync' = [sync EXCEPT ![c] = [phase |-> "read", draft |-> d, revision |-> revision[d],
                                  mark |-> FALSE]]
  /\ UNCHANGED <<world, queue, session, losses>>

\* A new policy withdraws every approval; a base release is decided again
\* under it, or withdrawn by a rescan.
PolicyChange ==
  /\ policy < MaxPolicy
  /\ changes < MaxChanges
  /\ policy' = policy + 1 /\ changes' = changes + 1
  /\ base' = [d \in Drafts |-> FALSE]
  /\ UNCHANGED <<revision, contract, queue, sync, session, losses>>

BaseDecision(d) ==
  /\ d \in Based
  /\ base' = [base EXCEPT ![d] = ~@]
  /\ UNCHANGED <<revision, policy, contract, changes, queue, sync, session, losses>>

Deploy(k) ==
  /\ k # contract
  /\ changes < MaxChanges
  /\ contract' = k /\ changes' = changes + 1
  /\ UNCHANGED <<revision, base, policy, queue, sync, session, losses>>

-----------------------------------------------------------------------------
(* syncDraftReview and retryDraftReview: read, mark the previous reviews   *)
(* stale, enqueue, start an Eve session, bind it.                          *)

Ends(c) == sync' = [sync EXCEPT ![c] = Idle]

SyncRead(c) ==
  LET r == sync[c] IN
  /\ r.phase = "read"
  /\ IF revision[r.draft] = r.revision
     THEN sync' = [sync EXCEPT ![c] =
            [phase |-> IF r.mark THEN "mark" ELSE "enqueue",
             binding |-> Binding(r.draft, r.revision, policy), contract |-> contract]]
     ELSE Ends(c)
  /\ UNCHANGED <<world, queue, session, losses>>

\* markStale compares with the binding that is current in its transaction, not
\* with the one its caller read.
SyncMark(c) ==
  LET r == sync[c]
      gone == {i \in DOMAIN jobs : /\ jobs[i].binding.draft = r.binding.draft
                                   /\ jobs[i].state # "stale"
                                   /\ \/ ~JobIsCurrent(jobs[i])
                                      \/ jobs[i].contract # r.contract}
  IN  /\ r.phase = "mark"
      /\ Write(StaleResults(gone))
      /\ sync' = [sync EXCEPT ![c].phase = "enqueue"]
      /\ UNCHANGED <<world, jobsMade, runs, session, losses>>

\* A failed markStale does not keep the review from being queued.
SyncMarkFails(c) ==
  /\ sync[c].phase = "mark"
  /\ losses < MaxLosses
  /\ losses' = losses + 1
  /\ sync' = [sync EXCEPT ![c].phase = "enqueue"]
  /\ UNCHANGED <<world, queue, session>>

Triggers(c, i) == sync' = [sync EXCEPT ![c] = [phase |-> "trigger", job |-> i]]

Wanted(r) == [binding |-> r.binding, contract |-> r.contract]

\* Mutant of JobFor: a finished review does not count.
JobForActive(r) == {i \in DOMAIN jobs : /\ jobs[i].binding = r.binding
                                        /\ jobs[i].contract = r.contract
                                        /\ ~Terminal(jobs[i])}

JobFor(r) == {i \in DOMAIN jobs : /\ jobs[i].binding = r.binding
                                  /\ jobs[i].contract = r.contract}

\* The idempotency key is the binding and the contract: a retained job for
\* them is joined, and triggered if nobody has taken it.
EnqueueJoin(c) ==
  LET r == sync[c] IN
  /\ r.phase = "enqueue"
  /\ JobIsCurrent(Wanted(r))
  /\ \E i \in JobFor(r) :
       IF jobs[i].state = "pending" /\ jobs[i].session = NoSession THEN Triggers(c, i) ELSE Ends(c)
  /\ UNCHANGED <<world, queue, session, losses>>

\* assertRetentionAvailable.
Full == /\ Cardinality(DOMAIN jobs) >= JobLimit
        /\ Cardinality({i \in DOMAIN jobs : ~Terminal(jobs[i])}) >= JobLimit

EnqueueNew(c) ==
  LET r == sync[c]
      i == jobsMade + 1
      j == [binding |-> r.binding, contract |-> r.contract, state |-> "pending",
            session |-> NoSession, token |-> NoId, live |-> FALSE, result |-> NoId]
  IN  /\ r.phase = "enqueue"
      /\ JobIsCurrent(Wanted(r))
      /\ JobFor(r) = {}
      /\ ~Full
      /\ jobsMade < MaxJobs
      /\ jobsMade' = i
      /\ Write(WriteJob(Now, i, j))
      /\ Triggers(c, i)
      /\ UNCHANGED <<world, runs, session, losses>>

\* UPLOAD_REVIEW_BINDING_STALE or UPLOAD_REVIEW_RETENTION_LIMIT.
EnqueueRefused(c) ==
  LET r == sync[c] IN
  /\ r.phase = "enqueue"
  /\ ~JobIsCurrent(Wanted(r)) \/ (JobFor(r) = {} /\ Full)
  /\ Ends(c)
  /\ UNCHANGED <<world, queue, session, losses>>


\* requeue, and then the trigger; only for a finished review that is current.
Retry(c, i) ==
  /\ sync[c] = Idle
  /\ JobIsCurrent(jobs[i])
  /\ Terminal(jobs[i])
  /\ \E s \in Sessions : session[s] = Unborn   \* model bound: a session is left for it
  /\ Write(WriteJob(Now, i, [ClearLease(jobs[i]) EXCEPT !.state = "pending", !.result = NoId,
                                                        !.session = NoSession]))
  /\ Triggers(c, i)
  /\ UNCHANGED <<world, jobsMade, runs, session, losses>>

\* Eve accepts a session for the job and starts it at once.
Trigger(c, s) ==
  /\ sync[c].phase = "trigger"
  /\ session[s] = Unborn
  /\ session' = [session EXCEPT ![s] = [phase |-> "started", job |-> sync[c].job, token |-> NoId,
                                      tries |-> 0]]
  /\ sync' = [sync EXCEPT ![c] = [phase |-> "bind", job |-> sync[c].job, session |-> s]]
  /\ UNCHANGED <<world, queue, losses>>

\* Eve takes no further session (model bound): the pending row stays.
TriggerRefused(c) ==
  /\ sync[c].phase = "trigger"
  /\ \A s \in Sessions : session[s] # Unborn
  /\ Ends(c)
  /\ UNCHANGED <<world, queue, session, losses>>

\* Outages are swallowed: the request simply ends where it was.
SyncLost(c) ==
  /\ sync[c].phase \in {"read", "enqueue", "trigger", "bind"}
  /\ losses < MaxLosses
  /\ losses' = losses + 1
  /\ Ends(c)
  /\ UNCHANGED <<world, queue, session>>

\* Mutant of Bindable: a later session takes the job over.
BindableTaken(i, s) ==
  /\ i \in DOMAIN jobs
  /\ JobIsCurrent(jobs[i])
  /\ \A k \in DOMAIN jobs \ {i} : jobs[k].session # s
  /\ ~Terminal(jobs[i])


\* bindEveSession.
Bindable(i, s) ==
  /\ i \in DOMAIN jobs
  /\ JobIsCurrent(jobs[i])
  /\ \A k \in DOMAIN jobs \ {i} : jobs[k].session # s
  /\ ~Terminal(jobs[i])
  /\ jobs[i].session \in {NoSession, s}

Bind(i, s) == /\ Write(WriteJob(Now, i, [jobs[i] EXCEPT !.session = s]))
              /\ UNCHANGED <<jobsMade, runs>>

TriggerBind(c) ==
  LET r == sync[c] IN
  /\ r.phase = "bind"
  /\ IF Bindable(r.job, r.session) THEN Bind(r.job, r.session) ELSE UNCHANGED queue
  /\ Ends(c)
  /\ UNCHANGED <<world, session, losses>>
-----------------------------------------------------------------------------
(* Eve sessions: prepare (bind, look up, claim, read under the lease), then *)
(* complete or fail (read under the lease, then the write).  The prepare    *)
(* tool repeats a call answered "not found" a few times and throws on any   *)
(* other error; whether the agent then calls the tool again is up to it.    *)
(* It submits once.                                                         *)

Moves(s, phase) == session' = [session EXCEPT ![s].phase = phase]

\* The prepare tool returns, and the session remembers what it was told.
Returns(s, phase) == session' = [session EXCEPT ![s].phase = phase, ![s].tries = 0]

\* The tool throws: the session is where it was before the call.
Throws(s) == session' = [session EXCEPT ![s].phase = "idle", ![s].tries = 0, ![s].token = NoId]

\* retryUnboundPrepare: 404 is tried again, within the budget.
NotFound(s) ==
  IF session[s].tries < PrepareRetries
  THEN session' = [session EXCEPT ![s].phase = "started", ![s].tries = @ + 1]
  ELSE Throws(s)

PrepareBind(s) ==
  LET i == session[s].job IN
  /\ session[s].phase = "started"
  /\ Bindable(i, s)
  /\ Bind(i, s)
  /\ Moves(s, "bound")
  /\ UNCHANGED <<world, sync, losses>>

\* 404 for a job that was pruned; 409 for one that is finished, out of date or
\* bound to another session.
PrepareRefused(s) ==
  LET i == session[s].job IN
  /\ session[s].phase = "started"
  /\ ~Bindable(i, s)
  /\ IF i \in DOMAIN jobs THEN Throws(s) ELSE NotFound(s)
  /\ UNCHANGED <<world, queue, sync, losses>>

\* claimForEveSession: exactly one job must carry the session.
PrepareLookup(s) ==
  /\ session[s].phase = "bound"
  /\ IF Cardinality({i \in DOMAIN jobs : jobs[i].session = s}) = 1
     THEN Moves(s, "claiming") ELSE NotFound(s)
  /\ UNCHANGED <<world, queue, sync, losses>>

\* claim, for a job that is gone, finished or leased to another session, whose
\* lease the answer does not show (503).
ClaimRefused(s) ==
  LET i == session[s].job
      finished == Terminal(jobs[i])
      taken == LeaseHeld(i, jobs[i].token) /\ JobIsCurrent(jobs[i]) /\ jobs[i].session # s
  IN  /\ session[s].phase = "claiming"
      /\ i \in DOMAIN jobs => finished \/ taken
      /\ IF i \notin DOMAIN jobs THEN NotFound(s)
         ELSE IF finished THEN Returns(s, "done") ELSE Throws(s)
      /\ UNCHANGED <<world, queue, sync, losses>>

\* A live lease is shown again to the session it was given to.
ClaimAgain(s) ==
  LET i == session[s].job IN
  /\ session[s].phase = "claiming"
  /\ i \in DOMAIN jobs
  /\ JobIsCurrent(jobs[i])
  /\ jobs[i].state = "running" /\ jobs[i].live /\ jobs[i].session = s
  /\ session' = [session EXCEPT ![s].phase = "claimed", ![s].token = jobs[i].token]
  /\ UNCHANGED <<world, queue, sync, losses>>

ClaimStale(s) ==
  LET i == session[s].job IN
  /\ session[s].phase = "claiming"
  /\ i \in DOMAIN jobs
  /\ ~Terminal(jobs[i])
  /\ ~JobIsCurrent(jobs[i])
  /\ MarkBindingStale(i)
  /\ Returns(s, "done")
  /\ UNCHANGED <<world, sync, losses>>

\* Pending, or running under a lease that ran out: a new lease, and the job
\* now carries this session.
Claim(s) ==
  LET i == session[s].job IN
  /\ session[s].phase = "claiming"
  /\ i \in DOMAIN jobs
  /\ jobs[i].state = "pending" \/ (jobs[i].state = "running" /\ ~jobs[i].live)
  /\ JobIsCurrent(jobs[i])
  /\ runs < MaxRuns
  /\ runs' = runs + 1
  /\ Write(WriteJob(Now, i, [jobs[i] EXCEPT !.state = "running", !.session = s,
                                            !.token = runs + 1, !.live = TRUE]))
  /\ session' = [session EXCEPT ![s].phase = "claimed", ![s].token = runs + 1]
  /\ UNCHANGED <<world, jobsMade, sync, losses>>

\* getLeasedJob answers a stale job before it looks at the lease, marks a job
\* stale that stopped being current, and refuses a lost lease.
Refused(i, token) == i \notin DOMAIN jobs \/ (jobs[i].state # "stale" /\ ~LeaseHeld(i, token))
Outdated(i, token) == LeaseHeld(i, token) /\ ~JobIsCurrent(jobs[i])

PrepareLease(s) ==
  LET i == session[s].job
      t == session[s].token
  IN  /\ session[s].phase = "claimed"
      /\ IF i \notin DOMAIN jobs THEN NotFound(s)
         ELSE IF Refused(i, t) THEN Throws(s) ELSE Returns(s, "prepared")
      /\ IF Outdated(i, t) THEN MarkBindingStale(i) ELSE UNCHANGED queue
      /\ UNCHANGED <<world, sync, losses>>

\* However complete and fail are answered: the one submission is spent, and
\* the prepare tool throws once it has failed the review.
Answers(s, call) == IF call = "failing" THEN Throws(s) ELSE Returns(s, "done")

\* The first half of complete ("submitting") and of fail ("failing"): a lost
\* lease, another session or a stale job ends the call.
Check(s, call) ==
  LET i == session[s].job
      t == session[s].token
  IN  /\ IF LeaseHeld(i, t) /\ JobIsCurrent(jobs[i]) /\ jobs[i].session = s
         THEN Moves(s, call) ELSE Answers(s, call)
      /\ IF Outdated(i, t) THEN MarkBindingStale(i) ELSE UNCHANGED queue
      /\ UNCHANGED <<world, sync, losses>>

\* submit_upload_review: in a prepared session, once.
Submit(s) == session[s].phase = "prepared" /\ Check(s, "submitting")

\* prepare_upload_review gives the lease up when the runtime is configured with
\* another model than the job.
GiveUp(s) == session[s].phase = "prepared" /\ Check(s, "failing")

\* Mutant of Commit: the binding was compared a moment ago.
CommitChecked(s, call, verdict) ==
  LET i == session[s].job
      q == WriteJob(Now, i, [ClearLease(jobs[i]) EXCEPT !.state = verdict, !.result = resultsMade + 1])
  IN  /\ session[s].phase = call
      /\ LeaseHeld(i, session[s].token)
      /\ Write(WriteResult(q, resultsMade + 1, NewResult(jobs[i], i, verdict)))
      /\ Answers(s, call)
      /\ UNCHANGED <<world, jobsMade, runs, sync, losses>>

\* The second half: the lease and the binding are checked again, and the
\* result is recorded.
Commit(s, call, verdict) ==
  LET i == session[s].job
      q == WriteJob(Now, i, [ClearLease(jobs[i]) EXCEPT !.state = verdict, !.result = resultsMade + 1])
  IN  /\ session[s].phase = call
      /\ LeaseHeld(i, session[s].token)
      /\ JobIsCurrent(jobs[i])
      /\ Write(WriteResult(q, resultsMade + 1, NewResult(jobs[i], i, verdict)))
      /\ Answers(s, call)
      /\ UNCHANGED <<world, jobsMade, runs, sync, losses>>

CommitRefused(s, call) ==
  LET i == session[s].job
      t == session[s].token
  IN  /\ session[s].phase = call
      /\ ~LeaseHeld(i, t) \/ Outdated(i, t)
      /\ Answers(s, call)
      /\ IF Outdated(i, t) THEN MarkBindingStale(i) ELSE UNCHANGED queue
      /\ UNCHANGED <<world, sync, losses>>

\* The call times out or its answer is lost, whatever the server did: not a
\* 404, so the tool throws.
PrepareLost(s) ==
  /\ session[s].phase \in {"started", "bound", "claiming", "claimed", "prepared"}
  /\ losses < MaxLosses
  /\ losses' = losses + 1
  /\ Throws(s)
  /\ UNCHANGED <<world, queue, sync>>

\* The agent may call the tool again after an error; nothing makes it.
PrepareAgain(s) ==
  /\ session[s].phase = "idle"
  /\ Moves(s, "started")
  /\ UNCHANGED <<world, queue, sync, losses>>

\* The session ends without a word, or its lease runs out.
Die(s) ==
  /\ session[s].phase \notin {"unborn", "done"}
  /\ losses < MaxLosses
  /\ losses' = losses + 1
  /\ Moves(s, "done")
  /\ UNCHANGED <<world, queue, sync>>

ExpireLease(i) ==
  /\ jobs[i].state = "running" /\ jobs[i].live
  /\ losses < MaxLosses
  /\ losses' = losses + 1
  /\ jobs' = [jobs EXCEPT ![i].live = FALSE]
  /\ UNCHANGED <<world, jobOrder, jobsMade, results, resultOrder, resultsMade, runs, sync, session>>

\* updateFindingDecision: a finding of a result that is current still is
\* acknowledged or dismissed ("decided"), or opened again.
Decide(r, decision) ==
  /\ results[r].state = "passed"
  /\ results[r].job \in DOMAIN jobs
  /\ JobIsCurrent(jobs[results[r].job])
  /\ JobIsCurrent(results[r])
  /\ results' = [results EXCEPT ![r].decision = decision]
  /\ UNCHANGED <<world, jobs, jobOrder, jobsMade, resultOrder, resultsMade, runs, sync, session, losses>>

-----------------------------------------------------------------------------
Calls == {<<"submitting", "passed">>, <<"failing", "failed">>}

Sync(c) == \/ SyncRead(c) \/ SyncMark(c) \/ EnqueueJoin(c) \/ EnqueueNew(c) \/ EnqueueRefused(c)
           \/ TriggerBind(c) \/ TriggerRefused(c) \/ \E s \in Sessions : Trigger(c, s)

Prepare(s) == \/ PrepareBind(s) \/ PrepareRefused(s) \/ PrepareLookup(s) \/ ClaimRefused(s) \/ ClaimAgain(s)
              \/ ClaimStale(s) \/ Claim(s) \/ PrepareLease(s)

Settle(s) == \E call \in Calls : Commit(s, call[1], call[2]) \/ CommitRefused(s, call[1])

Next ==
  \/ \E c \in Clients :
       \/ \E d \in Drafts : Save(c, d) \/ RequestReview(c, d)
       \/ \E i \in DOMAIN jobs : Retry(c, i)
       \/ Sync(c)
       \/ SyncMarkFails(c) \/ SyncLost(c)
  \/ PolicyChange
  \/ \E d \in Drafts : BaseDecision(d)
  \/ \E k \in Contracts : Deploy(k)
  \/ \E s \in Sessions :
       Prepare(s) \/ Submit(s) \/ GiveUp(s) \/ Settle(s)
       \/ PrepareLost(s) \/ PrepareAgain(s) \/ Die(s)
  \/ \E i \in DOMAIN jobs : ExpireLease(i)
  \/ \E r \in DOMAIN results, decision \in {"open", "decided"} : Decide(r, decision)

Spec == Init /\ [][Next]_vars

\* Fairness.  A request the server has begun runs on, and so does a call of a
\* tool; a session that was given the snapshot submits (instructions.md asks it
\* to).  An agent whose prepare call failed, drafts, policy, deployments and
\* losses owe nothing.
FairSpec ==
  /\ Spec
  /\ \A c \in Clients : WF_vars(Sync(c))
  /\ \A s \in Sessions : WF_vars(Prepare(s) \/ Submit(s) \/ Settle(s))

\* And somebody who waits for a review keeps asking for it.
AskingSpec == FairSpec /\ \A d \in Drafts : SF_vars(\E c \in Clients : RequestReview(c, d))

-----------------------------------------------------------------------------
(* Properties.                                                             *)

Keys == [binding : [draft : Drafts, revision : 1..MaxRevision, policy : 1..MaxPolicy],
         contract : Contracts]

SyncStates ==
  {Idle} \cup [phase : {"read"}, draft : Drafts, revision : 1..MaxRevision, mark : BOOLEAN]
  \cup {[phase |-> ph, binding |-> k.binding, contract |-> k.contract] :
          ph \in {"mark", "enqueue"}, k \in Keys}
  \cup [phase : {"trigger"}, job : 1..MaxJobs]
  \cup [phase : {"bind"}, job : 1..MaxJobs, session : Sessions]

SessionStates ==
  {Unborn} \cup [phase : {"idle", "started", "bound", "claiming", "claimed", "prepared", "submitting",
                          "failing", "done"},
                 job : 1..MaxJobs, token : 0..MaxRuns, tries : 0..PrepareRetries]

\* Every record has its shape; the order lists name exactly the retained jobs
\* and results, and neither collection outgrows its limit.
TypeOK ==
  /\ revision \in [Drafts -> 1..MaxRevision] /\ base \in [Drafts -> BOOLEAN]
  /\ policy \in 1..MaxPolicy /\ contract \in Contracts /\ changes \in 0..MaxChanges
  /\ jobsMade \in 0..MaxJobs /\ resultsMade \in 0..MaxResults
  /\ runs \in 0..MaxRuns /\ losses \in 0..MaxLosses
  /\ DOMAIN jobs = {jobOrder[n] : n \in DOMAIN jobOrder} /\ DOMAIN jobs \subseteq 1..jobsMade
  /\ DOMAIN results = {resultOrder[n] : n \in DOMAIN resultOrder}
  /\ DOMAIN results \subseteq 1..resultsMade
  /\ Len(jobOrder) = Cardinality(DOMAIN jobs) /\ Len(jobOrder) <= JobLimit
  /\ Len(resultOrder) = Cardinality(DOMAIN results) /\ Len(resultOrder) <= ResultLimit
  /\ \A i \in DOMAIN jobs :
       /\ jobs[i] \in [binding : [draft : Drafts, revision : 1..MaxRevision, policy : 1..MaxPolicy],
                       contract : Contracts,
                       state : {"pending", "running", "passed", "failed", "stale"},
                       session : Sessions \cup {NoSession}, token : 0..MaxRuns, live : BOOLEAN,
                       result : 0..MaxResults]
       /\ jobs[i].state = "running" <=> jobs[i].token # NoId
  /\ \A r \in DOMAIN results :
       results[r] \in [binding : [draft : Drafts, revision : 1..MaxRevision, policy : 1..MaxPolicy],
                       contract : Contracts, job : 1..MaxJobs,
                       state : {"passed", "failed", "stale"},
                       decision : {"none", "open", "decided"}]
  /\ sync \in [Clients -> SyncStates]
  /\ session \in [Sessions -> SessionStates]

\* The idempotency key is effective: two requests for the review of the same
\* revision, policy and contract, however they interleave, share one job
\* (enqueue).
OneJobPerKey ==
  \A i, k \in DOMAIN jobs :
    jobs[i].binding = jobs[k].binding /\ jobs[i].contract = jobs[k].contract => i = k

\* A lease belongs to one session: of the sessions a job was ever triggered
\* for, at most one knows its live token (claim shows a token only to the
\* session the job carries).
LeaseExclusive ==
  \A s, t \in Sessions : \A i \in DOMAIN jobs :
    /\ jobs[i].state = "running"
    /\ session[s] # Unborn /\ session[s].token = jobs[i].token
    /\ session[t] # Unborn /\ session[t].token = jobs[i].token
    => s = t

\* A finished job and its result say the same, and no result outlives its job:
\* a reader of either list is told the same story, through staleness, reruns
\* and pruning (staleResultForJob, requeue, pruneCollections).
ResultsAgree ==
  /\ \A r \in DOMAIN results : results[r].job \in DOMAIN jobs
  /\ \A i \in DOMAIN jobs :
       Terminal(jobs[i]) /\ jobs[i].result \in DOMAIN results =>
         /\ results[jobs[i].result].job = i
         /\ results[jobs[i].result].state = jobs[i].state

\* A review is recorded as passed or failed only for the draft revision, base,
\* policy and contract that are current at that moment, by the session that
\* holds the job, once for each lease (complete, fail).
RecordedWhileCurrent ==
  [][\A r \in DOMAIN results' \ DOMAIN results : results'[r].state \in {"passed", "failed"} =>
       LET i == results'[r].job IN
       /\ JobIsCurrent(results'[r])
       /\ i \in DOMAIN jobs /\ jobs[i].state = "running"
       /\ jobs'[i].state = results'[r].state /\ jobs'[i].result = r
       /\ \E s \in Sessions : session[s] # Unborn /\ session[s].job = i
                              /\ session[s].token = jobs[i].token]_vars

\* Retention never costs a review that is still to be done: a pending or
\* running job stays until it is finished (pruneCollections).
ActiveRetained ==
  [][\A i \in DOMAIN jobs : ~Terminal(jobs[i]) => i \in DOMAIN jobs']_vars

AlwaysCurrent(i) == [](i \in DOMAIN jobs => JobIsCurrent(jobs[i]))


\* The requests that are starting a session for job i.
Starters(i) == {c \in Clients : sync[c].phase \in {"trigger", "bind"} /\ sync[c].job = i}


\* "The pending row remains visible for a later trigger/retry" (syncDraftReview):
\* a pending review that stays current does not stay pending for ever when
\* somebody keeps asking for it.
PendingTriggered ==
  \A i \in 1..MaxJobs :
    (i \in DOMAIN jobs /\ jobs[i].state = "pending")
      ~> (i \notin DOMAIN jobs \/ jobs[i].state # "pending" \/ ~JobIsCurrent(jobs[i]))
==============================================================================
