----------------------------- MODULE Repository -----------------------------
(***************************************************************************)
(* The state of one organization in a file, the server process that owns   *)
(* it, and clients that reach it over HTTP.                                *)
(*                                                                         *)
(* The file holds a document; it is modelled by its metadataRevision and   *)
(* by the updates that went into it.  The operations of the process queue  *)
(* for the organization's mutex; the one at the head loads the file,       *)
(* writes a temporary file and renames it.  A remote transaction reads the *)
(* document, applies its update to its copy, and posts the whole copy with *)
(* the revision it read.  Requests may be given up while the server still  *)
(* works on them, the file system may fail, and the process may die.       *)
(***************************************************************************)
EXTENDS Naturals, Sequences

CONSTANTS
  Remote,      \* transactions of HttpStateRepository
  Local,       \* transactions of the server process itself
  MaxRetries,  \* maxRetries
  MaxFaults    \* bound: requests given up, failed reads and writes, deaths of the process

ASSUME RepositoryBounds ==
  /\ Remote \cap Local = {}
  /\ MaxRetries \in Nat /\ MaxFaults \in Nat

VARIABLES
  disk,     \* the state file
  queue,    \* operations in the order of the mutex; the head holds it
  phase,    \* of the holder: loading, writing, written
  working,  \* what the holder is about to write
  client,   \* per remote transaction: where it is and what it read
  reply,    \* per remote transaction: the answer on its way
  outcome,  \* what each transaction was told
  faults

vars == <<disk, queue, phase, working, client, reply, outcome, faults>>

Transactions == Remote \cup Local

NoFile == [revision |-> 0, log |-> <<>>, exists |-> FALSE]
Created == [NoFile EXCEPT !.exists = TRUE]
NoReply == [status |-> "none", state |-> NoFile]

Init ==
  /\ disk = NoFile /\ queue = <<>> /\ phase = "loading" /\ working = NoFile
  /\ client = [t \in Remote |-> [pc |-> "start", attempt |-> 0, read |-> Created, since |-> 0]]
  /\ reply = [t \in Remote |-> NoReply]
  /\ outcome = [t \in Transactions |-> "pending"]
  /\ faults = 0

-----------------------------------------------------------------------------
(* The client: HttpStateRepository.transaction.                            *)

Finish(t, o) == /\ client' = [client EXCEPT ![t].pc = "end"]
                /\ outcome' = [outcome EXCEPT ![t] = o]

\* getEnvelope.
SendRead(t) ==
  /\ client[t].pc = "start"
  /\ client' = [client EXCEPT ![t].pc = "reading",
                              ![t].since = IF client[t].attempt = 0 THEN Len(disk.log) ELSE @]
  /\ queue' = Append(queue, [kind |-> "read", tx |-> t])
  /\ UNCHANGED <<disk, phase, working, reply, outcome, faults>>

\* The envelope arrives, the update is applied to a copy and the copy posted.
\* The updater may refuse: it throws out of the transaction.
SendState(t) ==
  /\ client[t].pc = "reading" /\ reply[t].status = "state"
  /\ reply' = [reply EXCEPT ![t] = NoReply]
  /\ \/ /\ client' = [client EXCEPT ![t].pc = "posting", ![t].read = reply[t].state]
        /\ queue' = Append(queue, [kind |-> "post", tx |-> t,
                                   expected |-> reply[t].state.revision,
                                   log |-> Append(reply[t].state.log, t)])
        /\ UNCHANGED outcome
     \/ Finish(t, "error") /\ UNCHANGED queue
  /\ UNCHANGED <<disk, phase, working, faults>>

Committed(t) ==
  /\ client[t].pc = "posting" /\ reply[t].status = "ok"
  /\ Finish(t, "ok")
  /\ UNCHANGED <<disk, queue, phase, working, reply, faults>>

\* Mutant of LastAttempt: the loop runs once more.
LastAttemptLate(t) == client[t].attempt = MaxRetries + 1
LastAttempt(t) == client[t].attempt = MaxRetries

\* Mutant of Retry: the state is posted again as it was read.
RetryUnread(t) ==
  /\ client[t].pc = "posting" /\ reply[t].status = "conflict"
  /\ reply' = [reply EXCEPT ![t] = NoReply]
  /\ IF LastAttempt(t) THEN Finish(t, "conflict") /\ UNCHANGED queue
     ELSE /\ client' = [client EXCEPT ![t].attempt = @ + 1]
          /\ queue' = Append(queue, [kind |-> "post", tx |-> t,
                                     expected |-> client[t].read.revision,
                                     log |-> Append(client[t].read.log, t)])
          /\ UNCHANGED outcome
  /\ UNCHANGED <<disk, phase, working, faults>>

\* ConcurrentStateUpdateError: start over with a fresh read, or give up.
Retry(t) ==
  /\ client[t].pc = "posting" /\ reply[t].status = "conflict"
  /\ reply' = [reply EXCEPT ![t] = NoReply]
  /\ IF LastAttempt(t) THEN Finish(t, "conflict")
     ELSE /\ client' = [client EXCEPT ![t].pc = "start", ![t].attempt = @ + 1]
          /\ UNCHANGED outcome
  /\ UNCHANGED <<disk, queue, phase, working, faults>>

InQueue(t) == \E n \in DOMAIN queue : queue[n].tx = t
Waiting(t) == client[t].pc \in {"reading", "posting"}

\* An answer that is neither the result nor a conflict, or none at all because
\* the process that had the request is gone.  Any error but a conflict is
\* thrown: there is no second try.
Failed(t) ==
  /\ Waiting(t)
  /\ \/ reply[t].status = "failed"
     \/ reply[t] = NoReply /\ ~ InQueue(t)
  /\ Finish(t, "error")
  /\ UNCHANGED <<disk, queue, phase, working, reply, faults>>

\* The connection breaks; the server goes on with what it has.
GiveUp(t) ==
  /\ Waiting(t) /\ faults < MaxFaults
  /\ faults' = faults + 1
  /\ Finish(t, "error")
  /\ UNCHANGED <<disk, queue, phase, working, reply>>

-----------------------------------------------------------------------------
(* The server process: HttpRepositoryServer over FileStateRepository.      *)

Start(t) ==
  /\ outcome[t] = "pending" /\ ~ InQueue(t)
  /\ queue' = Append(queue, [kind |-> "local", tx |-> t])
  /\ UNCHANGED <<disk, phase, working, client, reply, outcome, faults>>

Held == queue # <<>>
Op == Head(queue)
State == IF disk.exists THEN disk ELSE Created

\* The mutex is released, always with an answer to the operation that held it.
Answer(status, state) ==
  IF Op.tx \in Local
  THEN /\ outcome' = [outcome EXCEPT ![Op.tx] = IF status = "ok" THEN "ok" ELSE "error"]
       /\ UNCHANGED reply
  ELSE /\ reply' = IF Waiting(Op.tx)
                   THEN [reply EXCEPT ![Op.tx] = [status |-> status, state |-> state]]
                   ELSE reply
       /\ UNCHANGED outcome

Release(status, state) ==
  /\ Answer(status, state)
  /\ queue' = Tail(queue)
  /\ phase' = "loading" /\ working' = NoFile

Write(document) == phase' = "writing" /\ working' = document

\* Mutant of Advanced: the callback and the adapter each add one.
AdvancedTwice(log) == [revision |-> State.revision + 2, log |-> log, exists |-> TRUE]

\* advanceStateRevision in the callback of the CAS and in the adapter: both set
\* the revision to one more than the one loaded.
Advanced(log) == [revision |-> State.revision + 1, log |-> log, exists |-> TRUE]

\* A read answers from the file, or creates it first.
LoadForRead ==
  /\ Held /\ phase = "loading" /\ Op.kind = "read"
  /\ IF disk.exists THEN Release("state", disk)
     ELSE Write(Created) /\ UNCHANGED <<queue, reply, outcome>>
  /\ UNCHANGED <<disk, client, faults>>

\* Mutant of Matches: the posted state replaces whatever is there.
MatchesAlways == TRUE
Matches == Op.expected = State.revision

LoadForPost ==
  /\ Held /\ phase = "loading" /\ Op.kind = "post"
  /\ IF Matches THEN Write(Advanced(Op.log)) /\ UNCHANGED <<queue, reply, outcome>>
     ELSE Release("conflict", State)
  /\ UNCHANGED <<disk, client, faults>>

\* A local update is applied to what was loaded, or throws.
LoadForUpdate ==
  /\ Held /\ phase = "loading" /\ Op.kind = "local"
  /\ \/ Write(Advanced(Append(State.log, Op.tx))) /\ UNCHANGED <<queue, reply, outcome>>
     \/ Release("failed", State)
  /\ UNCHANGED <<disk, client, faults>>

\* The temporary file is renamed over the state file.
Rename ==
  /\ Held /\ phase = "writing"
  /\ disk' = working
  /\ phase' = "written"
  /\ UNCHANGED <<queue, working, client, reply, outcome, faults>>

Respond ==
  /\ Held /\ phase = "written"
  /\ Release(IF Op.kind = "read" THEN "state" ELSE "ok", disk)
  /\ UNCHANGED <<disk, client, faults>>

\* Mutant of FileFails: the mutex is released only on success.
FileFailsHolding ==
  /\ Held /\ phase # "written"
  /\ faults < MaxFaults /\ faults' = faults + 1
  /\ Answer("failed", disk)
  /\ phase' = "held"
  /\ UNCHANGED <<disk, queue, working, client>>

\* The state file cannot be read, or the temporary file cannot be written,
\* synced or renamed.
FileFails ==
  /\ Held /\ phase # "written"
  /\ faults < MaxFaults /\ faults' = faults + 1
  /\ Release("failed", disk)
  /\ UNCHANGED <<disk, client>>

\* The process dies and is started again: the mutex and everything queued for
\* it are gone, with the local transactions.
Die ==
  /\ Held /\ faults < MaxFaults
  /\ faults' = faults + 1
  /\ queue' = <<>> /\ phase' = "loading" /\ working' = NoFile
  /\ outcome' = [t \in Transactions |-> IF t \in Local /\ InQueue(t) THEN "error" ELSE outcome[t]]
  /\ UNCHANGED <<disk, client, reply>>

-----------------------------------------------------------------------------
Client(t) == SendRead(t) \/ SendState(t) \/ Committed(t) \/ Retry(t) \/ Failed(t)
Server == LoadForRead \/ LoadForPost \/ LoadForUpdate \/ Rename \/ Respond

Next ==
  \/ \E t \in Remote : Client(t) \/ GiveUp(t)
  \/ \E t \in Local : Start(t)
  \/ Server \/ FileFails \/ Die

Spec == Init /\ [][Next]_vars

\* The event loops of clients and server make progress.
FairSpec == Spec /\ WF_vars(Server) /\ \A t \in Remote : WF_vars(Client(t))

-----------------------------------------------------------------------------
Documents == [revision : Nat, log : Seq(Transactions), exists : BOOLEAN]

\* The shape of the state; a client makes at most MaxRetries + 1 attempts
\* (HttpStateRepository.transaction).
TypeOK ==
  /\ disk \in Documents
  /\ \A n \in DOMAIN queue : queue[n].kind \in {"read", "post", "local"} /\ queue[n].tx \in Transactions
  /\ phase \in {"loading", "writing", "written"} /\ working \in Documents
  /\ client \in [Remote -> [pc : {"start", "reading", "posting", "end"}, attempt : 0..MaxRetries,
                            read : Documents, since : Nat]]
  /\ reply \in [Remote -> [status : {"none", "state", "ok", "conflict", "failed"},
                           state : Documents]]
  /\ outcome \in [Transactions -> {"pending", "ok", "conflict", "error"}]

\* Every committed update advanced the revision by one, although the callback of
\* the compare-and-set and the adapter both advance it: revisions name states.
RevisionCounts == disk.revision = Len(disk.log)

\* A client reports a conflict only after as many commits of others as it made
\* attempts: a retry starts from a fresh read (HttpStateRepository.transaction).
ConflictMeansContention ==
  \A t \in Remote : outcome[t] = "conflict" => Len(disk.log) > client[t].since + MaxRetries

Store == INSTANCE AtomicStore WITH log <- disk.log

\* Files, mutex, revisions and retries together are an atomic store: no update
\* is lost, none is applied twice, and what a caller is told is true
\* (FileStateRepository.transaction, handleTransaction, compareAndSet).
ImplementsAtomicStore == Store!Spec

\* Every transaction that was begun is answered, whatever fails on the way: the
\* mutex is passed on after failures too (OrganizationMutex.run).
Answered ==
  /\ \A t \in Remote : <>(outcome[t] # "pending")
  /\ \A t \in Local : InQueue(t) ~> outcome[t] # "pending"
=============================================================================
