--------------------------- MODULE LocalInstall ---------------------------
(***************************************************************************)
(* The installer of the CLI (crates/pskills-core/src/install.rs): commands *)
(* of several processes over the skill directories of one project, one     *)
(* rename, write or removal on disk per step.  A process may die between   *)
(* any two steps, or in the middle of the removal of a directory; the next *)
(* command in the same root recovers from what it finds.  The user may     *)
(* edit an installed tree or put files of their own in its place at any    *)
(* time.                                                                   *)
(*                                                                         *)
(* A command is two calls: `read_lock`, which recovers and reads the       *)
(* lockfile, and `install_many_with_lock` or `remove_owner_with_lock`,     *)
(* which recover, compare the lockfile with the one read, and commit.      *)
(* Each call holds the native lock of the project throughout, and an       *)
(* unavailable lock is an error, not a wait.                               *)
(***************************************************************************)
EXTENDS InstallPlan

CONSTANTS Processes, Nobody,
          Edited,           \* a tree with files of the user's own
          Raced,            \* one whose files were changed between a check and a removal
          Torn,             \* a tree whose removal was interrupted
          NoStage, NoMarker,
          MaxCrashes,       \* bound on deaths and failed steps
          MaxTears,         \* bound on interrupted removals
          MaxEdits          \* bound on the user's edits

ASSUME BoundsAssumption ==
  /\ MaxCrashes \in Nat /\ MaxTears \in Nat /\ MaxEdits \in Nat
  /\ Nobody \notin Processes
  /\ {Edited, Raced, Torn, Absent} \cap Digests = {}

Trees == Digests \cup {Edited, Raced, Torn, Absent}

VARIABLES journal,   \* .pskills-journal.json of each root
          tree,      \* what is at the destination of each skill
          backup,    \* the backups the transaction of a root has made
          retained,  \* the skills with files of the user's own in an old backup
          stage,     \* the skills in the private stage of a root
          marker,    \* .pskills-transaction.json of each root
          lock,      \* pskills.lock.json of the project
          holder,    \* the process holding the native lock
          proc,      \* where each process is
          crashes, tears, edits

disk == <<journal, tree, backup, retained, stage, marker, lock>>
bounds == <<crashes, tears, edits>>
vars == <<disk, holder, proc, bounds>>

\* A process: where it is, the call it is in ("read" or "run"), its command,
\* the lockfile it read, and the skills left in the loop it is in.
Idle == [at |-> "idle", call |-> "read", cmd |-> Nobody, expected |-> EmptyLock,
         failed |-> FALSE, recovering |-> FALSE, todo |-> {}]

Init ==
  /\ journal = [r \in Roots |-> [s \in Skills |-> NoEntry]]
  /\ tree = [r \in Roots |-> [s \in Skills |-> Absent]]
  /\ backup = [r \in Roots |-> [s \in Skills |-> Absent]]
  /\ retained = [r \in Roots |-> {}]
  /\ stage = [r \in Roots |-> NoStage]
  /\ marker = [r \in Roots |-> NoMarker]
  /\ lock = EmptyLock
  /\ holder = Nobody
  /\ proc = [p \in Processes |-> Idle]
  /\ crashes = 0 /\ tears = 0 /\ edits = 0

\* The root and the transaction process p works on.
RootOf(p) == proc[p].cmd.root
Record(p) == marker[RootOf(p)]

Goto(p, at) == proc' = [proc EXCEPT ![p].at = at]
GotoLoop(p, at, todo) == proc' = [proc EXCEPT ![p].at = at, ![p].todo = todo]

\* The call returns an error: the lock is released, the disk is left as it is.
Return(p) == /\ holder' = Nobody
             /\ proc' = [proc EXCEPT ![p] = Idle]

(***************************************************************************)
(* Calls.                                                                  *)
(***************************************************************************)
Start(p, c) ==
  /\ proc[p].at = "idle" /\ holder = Nobody
  /\ holder' = p
  /\ proc' = [proc EXCEPT ![p] = [Idle EXCEPT !.at = "recover", !.cmd = c]]
  /\ UNCHANGED <<disk, bounds>>

Continue(p) ==
  /\ proc[p].at = "ready" /\ holder = Nobody
  /\ holder' = p
  /\ proc' = [proc EXCEPT ![p].at = "recover", ![p].call = "run"]
  /\ UNCHANGED <<disk, bounds>>

\* try_lock_file does not wait.
Busy(p) ==
  /\ proc[p].at = "ready" /\ holder # Nobody
  /\ proc' = [proc EXCEPT ![p] = Idle]
  /\ UNCHANGED <<disk, holder, bounds>>

(***************************************************************************)
(* recover_locked                                                          *)
(***************************************************************************)
\* verify_journal_entry: the tree is there and is the one journaled.
Verified(r, j, s) == j[s] # NoEntry /\ tree[r][s] = j[s].digest

JournalIsNew(r) == journal[r] = marker[r].newJournal
JournalIsOld(r) == journal[r] = marker[r].oldJournal
\* Mutant: recovery looks at the journal only.
LockIgnored(r) == TRUE

LockIsNew(r) == lock = marker[r].newLock
LockIsOld(r) == lock = marker[r].oldLock

\* Mutant: recovery goes by the phase of the marker.
ForwardByPhase(r) ==
  /\ JournalIsNew(r) /\ LockIsNew(r) /\ marker[r].phase = "journal_written"
  /\ \A s \in Skills : marker[r].newJournal[s] # NoEntry => Verified(r, marker[r].newJournal, s)

\* The transaction took effect, and all that is journaled is there.
Forward(r) ==
  /\ JournalIsNew(r) /\ LockIsNew(r)
  /\ \A s \in Skills : marker[r].newJournal[s] # NoEntry => Verified(r, marker[r].newJournal, s)

\* The transaction is undone.
Backward(r) ==
  /\ ~(JournalIsNew(r) /\ LockIsNew(r))
  /\ JournalIsNew(r) \/ JournalIsOld(r)
  /\ LockIsNew(r) \/ LockIsOld(r)

\* The skills of a transaction whose directories it changes.
Changed(r) == {s \in DOMAIN marker[r].ops : marker[r].ops[s].kind # "metadata"}

RecoverNothing(p) ==
  /\ proc[p].at = "recover" /\ Record(p) = NoMarker
  /\ stage' = [stage EXCEPT ![RootOf(p)] = NoStage]
  /\ Goto(p, "open")
  /\ UNCHANGED <<journal, tree, backup, retained, marker, lock, holder, bounds>>

RecoverForward(p) ==
  /\ proc[p].at = "recover" /\ Record(p) # NoMarker
  /\ Forward(RootOf(p))
  /\ proc' = [proc EXCEPT ![p].at = "sweep", ![p].recovering = TRUE]
  /\ UNCHANGED <<disk, holder, bounds>>

RecoverBack(p) ==
  /\ proc[p].at = "recover" /\ Record(p) # NoMarker
  /\ Backward(RootOf(p))
  /\ proc' = [proc EXCEPT ![p].at = "rollback", ![p].recovering = TRUE,
                          ![p].todo = Changed(RootOf(p))]
  /\ UNCHANGED <<disk, holder, bounds>>

RecoverRefused(p) ==
  /\ proc[p].at = "recover" /\ Record(p) # NoMarker
  /\ ~Forward(RootOf(p)) /\ ~Backward(RootOf(p))
  /\ Return(p)
  /\ UNCHANGED <<disk, bounds>>

(***************************************************************************)
(* rollback_transaction: the operations in reverse order.                  *)
(***************************************************************************)
Undoing(p) == Max(proc[p].todo)

\* Whether what is at the destination is what the transaction put there
\* (destination_matches_journal).
Ours(p) == Verified(RootOf(p), Record(p).newJournal, Undoing(p))
HasBackup(p) == backup[RootOf(p)][Undoing(p)] # Absent
AtPlace(p) == tree[RootOf(p)][Undoing(p)] # Absent

\* Mutant: a first installation is not undone.
RemovesBackedUp(p) ==
  /\ proc[p].at = "rollback" /\ proc[p].todo # {} /\ Ours(p)
  /\ HasBackup(p)

\* What is at the destination is removed: a tree that was put over a backup,
\* or the first installation of a skill.
Removes(p) ==
  /\ proc[p].at = "rollback" /\ proc[p].todo # {} /\ Ours(p)
  /\ \/ HasBackup(p)
     \/ Record(p).ops[Undoing(p)].kind = "replace" /\ ~Record(p).ops[Undoing(p)].backup

UndoCheck(p) ==
  /\ Removes(p)
  /\ Goto(p, "removing")
  /\ UNCHANGED <<disk, holder, bounds>>

UndoRemove(p) ==
  /\ proc[p].at = "removing"
  /\ tree' = [tree EXCEPT ![RootOf(p)][Undoing(p)] = Absent]
  /\ Goto(p, "rollback")
  /\ UNCHANGED <<journal, backup, retained, stage, marker, lock, holder, bounds>>

UndoRestore(p) ==
  /\ proc[p].at = "rollback" /\ proc[p].todo # {} /\ HasBackup(p) /\ ~AtPlace(p)
  /\ tree' = [tree EXCEPT ![RootOf(p)][Undoing(p)] = backup[RootOf(p)][Undoing(p)]]
  /\ backup' = [backup EXCEPT ![RootOf(p)][Undoing(p)] = Absent]
  /\ GotoLoop(p, "rollback", proc[p].todo \ {Undoing(p)})
  /\ UNCHANGED <<journal, retained, stage, marker, lock, holder, bounds>>

\* The operation was not activated, or what is there is not ours and no
\* backup waits for the place.
UndoNothing(p) ==
  /\ proc[p].at = "rollback" /\ proc[p].todo # {} /\ ~HasBackup(p) /\ ~Removes(p)
  /\ GotoLoop(p, "rollback", proc[p].todo \ {Undoing(p)})
  /\ UNCHANGED <<disk, holder, bounds>>

\* Files that are not ours are where the backup should go.
UndoRefused(p) ==
  /\ proc[p].at = "rollback" /\ proc[p].todo # {} /\ HasBackup(p) /\ AtPlace(p) /\ ~Ours(p)
  /\ Return(p)
  /\ UNCHANGED <<disk, bounds>>

\* A rollback within the call that failed leaves the journal and the
\* lockfile, which it has not written, alone.
UndoStage(p) ==
  /\ proc[p].at = "rollback" /\ proc[p].todo = {}
  /\ stage' = [stage EXCEPT ![RootOf(p)] = NoStage]
  /\ Goto(p, IF proc[p].failed THEN "unmark" ELSE "oldJournal")
  /\ UNCHANGED <<journal, tree, backup, retained, marker, lock, holder, bounds>>

RestoreJournal(p) ==
  /\ proc[p].at = "oldJournal"
  /\ journal' = [journal EXCEPT ![RootOf(p)] = Record(p).oldJournal]
  /\ Goto(p, "oldLock")
  /\ UNCHANGED <<tree, backup, retained, stage, marker, lock, holder, bounds>>

RestoreLock(p) ==
  /\ proc[p].at = "oldLock"
  /\ lock' = Record(p).oldLock
  /\ Goto(p, "unmark")
  /\ UNCHANGED <<journal, tree, backup, retained, stage, marker, holder, bounds>>

(***************************************************************************)
(* The body of a call, after recovery.                                     *)
(***************************************************************************)
\* read_lock
ReadLock(p) ==
  /\ proc[p].at = "open" /\ proc[p].call = "read"
  /\ holder' = Nobody
  /\ proc' = [proc EXCEPT ![p].at = "ready", ![p].expected = lock, ![p].recovering = FALSE]
  /\ UNCHANGED <<disk, bounds>>

\* Mutant: the lockfile is not compared with the one read.
PreflightUnlocked(p) ==
  LET c == proc[p].cmd
      j == journal[c.root]
  IN /\ Listed(proc[p].expected, c) /\ Owned(j, c)
     /\ \A s \in DOMAIN c.plan :
           IF j[s] # NoEntry THEN Verified(c.root, j, s) ELSE tree[c.root][s] = Absent

\* The checks of install_many_with_lock and remove_owner_with_lock: the
\* lockfile is the one read, the ownership allows the command, what is
\* journaled is untouched and nothing else is in the way.
Preflight(p) ==
  LET c == proc[p].cmd
      j == journal[c.root]
  IN /\ lock = proc[p].expected
     /\ Listed(proc[p].expected, c) /\ Owned(j, c)
     /\ \A s \in DOMAIN c.plan :
           IF j[s] # NoEntry THEN Verified(c.root, j, s) ELSE tree[c.root][s] = Absent

Refuse(p) ==
  /\ proc[p].at = "open" /\ proc[p].call = "run" /\ ~Preflight(p)
  /\ Return(p)
  /\ UNCHANGED <<disk, bounds>>

\* commit_transaction: the bundles are extracted into a private stage.
Stage(p) ==
  LET c == proc[p].cmd
  IN /\ proc[p].at = "open" /\ proc[p].call = "run" /\ Preflight(p)
     /\ stage' = [stage EXCEPT ![c.root] =
                    {s \in DOMAIN c.plan : Operation(journal[c.root], c, s).kind = "replace"}]
     /\ proc' = [proc EXCEPT ![p].at = "staged", ![p].recovering = FALSE]
     /\ UNCHANGED <<journal, tree, backup, retained, marker, lock, holder, bounds>>

\* The extraction or the write of the marker failed.
StageFails(p) ==
  /\ proc[p].at = "staged" /\ crashes < MaxCrashes
  /\ stage' = [stage EXCEPT ![RootOf(p)] = NoStage]
  /\ Return(p)
  /\ crashes' = crashes + 1
  /\ UNCHANGED <<journal, tree, backup, retained, marker, lock, tears, edits>>

\* The record of a transaction from journal j and lockfile l by command c.
Transaction(j, l, c) ==
  [phase |-> "prepared", ops |-> Operations(j, c),
   oldJournal |-> j, newJournal |-> NewJournal(j, c), oldLock |-> l, newLock |-> NewLock(l, c)]

WriteMarker(p) ==
  LET c == proc[p].cmd
      ops == Operations(journal[c.root], c)
  IN /\ proc[p].at = "staged"
     /\ marker' = [marker EXCEPT ![c.root] =
                     Transaction(journal[c.root], proc[p].expected, c)]
     /\ GotoLoop(p, "activate", {s \in DOMAIN ops : ops[s].kind # "metadata"})
     /\ UNCHANGED <<journal, tree, backup, retained, stage, lock, holder, bounds>>

(***************************************************************************)
(* activate_operations, in the order of the destinations.                  *)
(***************************************************************************)
Activating(p) == Min(proc[p].todo)

SetAside(p) ==
  /\ proc[p].at = "activate" /\ proc[p].todo # {}
  /\ LET r == RootOf(p)
         s == Activating(p)
         op == Record(p).ops[s]
     IN /\ IF op.backup /\ tree[r][s] # Absent
           THEN /\ backup' = [backup EXCEPT ![r][s] = tree[r][s]]
                /\ tree' = [tree EXCEPT ![r][s] = Absent]
           ELSE UNCHANGED <<backup, tree>>
        /\ IF op.kind = "replace" THEN Goto(p, "place")
           ELSE GotoLoop(p, "activate", proc[p].todo \ {s})
  /\ UNCHANGED <<journal, retained, stage, marker, lock, holder, bounds>>

Place(p) ==
  /\ proc[p].at = "place"
  /\ LET r == RootOf(p)
         s == Activating(p)
     IN /\ tree[r][s] = Absent
        /\ tree' = [tree EXCEPT ![r][s] = Record(p).newJournal[s].digest]
        /\ stage' = [stage EXCEPT ![r] = @ \ {s}]
        /\ GotoLoop(p, "activate", proc[p].todo \ {s})
  /\ UNCHANGED <<journal, backup, retained, marker, lock, holder, bounds>>

\* A rename failed, be it because something is in its way: rollback.
ActivateFails(p) ==
  /\ \/ /\ proc[p].at \in {"activate", "place"} /\ proc[p].todo # {}
        /\ crashes < MaxCrashes /\ crashes' = crashes + 1
     \/ /\ proc[p].at = "place" /\ tree[RootOf(p)][Activating(p)] # Absent
        /\ UNCHANGED crashes
  /\ proc' = [proc EXCEPT ![p].at = "rollback", ![p].failed = TRUE,
                          ![p].todo = Changed(RootOf(p))]
  /\ UNCHANGED <<disk, holder, tears, edits>>

Phase(p, phase) == marker' = [marker EXCEPT ![RootOf(p)].phase = phase]

Activated(p) ==
  /\ proc[p].at = "activate" /\ proc[p].todo = {}
  /\ Phase(p, "activated")
  /\ Goto(p, "journal")
  /\ UNCHANGED <<journal, tree, backup, retained, stage, lock, holder, bounds>>

WriteJournal(p) ==
  /\ proc[p].at = "journal"
  /\ journal' = [journal EXCEPT ![RootOf(p)] = Record(p).newJournal]
  /\ Goto(p, "lock")
  /\ UNCHANGED <<tree, backup, retained, stage, marker, lock, holder, bounds>>

WriteLock(p) ==
  /\ proc[p].at = "lock"
  /\ lock' = Record(p).newLock
  /\ Goto(p, "commit")
  /\ UNCHANGED <<journal, tree, backup, retained, stage, marker, holder, bounds>>

Commit(p) ==
  /\ proc[p].at = "commit"
  /\ Phase(p, "journal_written")
  /\ Goto(p, "sweep")
  /\ UNCHANGED <<journal, tree, backup, retained, stage, lock, holder, bounds>>

(***************************************************************************)
(* cleanup_transaction_artifacts, then remove_transaction_marker.          *)
(***************************************************************************)
Sweep(p) ==
  /\ proc[p].at = "sweep"
  /\ stage' = [stage EXCEPT ![RootOf(p)] = NoStage]
  /\ GotoLoop(p, "discard", {s \in Changed(RootOf(p)) : ~Record(p).ops[s].retain})
  /\ UNCHANGED <<journal, tree, backup, retained, marker, lock, holder, bounds>>

Discard(p) ==
  /\ proc[p].at = "discard"
  /\ IF proc[p].todo = {}
     THEN Goto(p, "unmark") /\ UNCHANGED backup
     ELSE LET s == Min(proc[p].todo)
          IN /\ backup' = [backup EXCEPT ![RootOf(p)][s] = Absent]
             /\ GotoLoop(p, "discard", proc[p].todo \ {s})
  /\ UNCHANGED <<journal, tree, retained, stage, marker, lock, holder, bounds>>

\* The backups that are left belong to no transaction any more.
Unmark(p) ==
  /\ proc[p].at = "unmark"
  /\ LET r == RootOf(p)
     IN /\ marker' = [marker EXCEPT ![r] = NoMarker]
        /\ retained' = [retained EXCEPT ![r] = @ \cup {s \in Skills : backup[r][s] = Edited}]
        /\ backup' = [backup EXCEPT ![r] = [s \in Skills |-> Absent]]
  /\ IF proc[p].recovering THEN Goto(p, "open") /\ UNCHANGED holder ELSE Return(p)
  /\ UNCHANGED <<journal, tree, stage, lock, bounds>>

(***************************************************************************)
(* The process dies, or a write fails and the call returns its error: the  *)
(* native lock is gone, the disk stays.  Or it dies while a directory is   *)
(* being removed.                                                          *)
(***************************************************************************)
\* Mutant: the lock outlives the process.
GoneLocked(p) == UNCHANGED holder /\ proc' = [proc EXCEPT ![p] = Idle]

Gone(p) == /\ holder' = (IF holder = p THEN Nobody ELSE holder)
           /\ proc' = [proc EXCEPT ![p] = Idle]

Die(p) ==
  /\ proc[p].at # "idle" /\ crashes < MaxCrashes
  /\ crashes' = crashes + 1
  /\ Gone(p)
  /\ UNCHANGED <<disk, tears, edits>>

Tear(p) ==
  /\ proc[p].at = "removing" /\ tears < MaxTears
  /\ tears' = tears + 1
  /\ tree' = [tree EXCEPT ![RootOf(p)][Undoing(p)] = Torn]
  /\ Gone(p)
  /\ UNCHANGED <<journal, backup, retained, stage, marker, lock, crashes, edits>>

\* A process has found the tree of s as journaled and is yet to remove it, or
\* to set it aside for removal.
Racing(r, s) ==
  \E p \in Processes :
    /\ holder = p /\ RootOf(p) = r
    /\ \/ /\ proc[p].at = "staged" /\ s \in DOMAIN proc[p].cmd.plan
          /\ Operation(journal[r], proc[p].cmd, s).kind = "remove"
       \/ /\ proc[p].at = "activate" /\ s \in proc[p].todo
          /\ marker[r].ops[s].kind = "remove"
       \/ proc[p].at = "removing" /\ s = Undoing(p)

\* The user changes an installed tree, or puts files where a skill would go.
Edit(r, s) ==
  /\ edits < MaxEdits
  /\ tree[r][s] \notin {Edited, Raced}
  /\ tree' = [tree EXCEPT ![r][s] = IF Racing(r, s) THEN Raced ELSE Edited]
  /\ edits' = edits + 1
  /\ UNCHANGED <<journal, backup, retained, stage, marker, lock, holder, proc, crashes, tears>>

\* The steps a process takes once it holds the native lock.
Step(p) ==
  \/ RecoverNothing(p) \/ RecoverForward(p) \/ RecoverBack(p) \/ RecoverRefused(p)
  \/ UndoCheck(p) \/ UndoRemove(p) \/ UndoRestore(p) \/ UndoNothing(p) \/ UndoRefused(p) \/ UndoStage(p)
  \/ RestoreJournal(p) \/ RestoreLock(p)
  \/ ReadLock(p) \/ Refuse(p) \/ Stage(p) \/ WriteMarker(p)
  \/ SetAside(p) \/ Place(p) \/ ActivateFails(p) \/ Activated(p)
  \/ WriteJournal(p) \/ WriteLock(p) \/ Commit(p)
  \/ Sweep(p) \/ Discard(p) \/ Unmark(p)

StartIn(r) == \E p \in Processes, c \in Commands : c.root = r /\ Start(p, c)

Next ==
  \/ \E p \in Processes, c \in Commands : Start(p, c)
  \/ \E p \in Processes : Continue(p) \/ Busy(p) \/ Step(p) \/ StageFails(p)
                          \/ Die(p) \/ Tear(p)
  \/ \E r \in Roots, s \in Skills : Edit(r, s)

Spec == Init /\ [][Next]_vars

\* A call runs to its end unless the process dies, and in every root the user
\* runs another command some time.
Fairness == /\ \A p \in Processes : WF_vars(Step(p) \/ Continue(p) \/ Busy(p))
            /\ \A r \in Roots : SF_vars(StartIn(r))

FairSpec == Spec /\ Fairness

(***************************************************************************)
(* Types.                                                                  *)
(***************************************************************************)
Markers ==
  [phase : {"prepared", "activated", "journal_written"},
   ops : UNION {[S -> [kind : {"replace", "remove", "metadata"}, backup : BOOLEAN,
                       retain : BOOLEAN]] : S \in SUBSET Skills},
   oldJournal : Journals, newJournal : Journals, oldLock : LockFiles, newLock : LockFiles]

Places == {"idle", "ready", "recover", "rollback", "removing", "oldJournal", "oldLock", "open", "staged",
           "activate", "place", "journal", "lock", "commit", "sweep", "discard", "unmark"}

(* The type of every variable, and the native lock: whoever is inside a    *)
(* call holds it (acquire_state_locks).                                    *)
TypeOK ==
  /\ journal \in [Roots -> Journals]
  /\ tree \in [Roots -> [Skills -> Trees]]
  /\ backup \in [Roots -> [Skills -> Trees]]
  /\ retained \in [Roots -> SUBSET Skills]
  /\ \A r \in Roots : stage[r] = NoStage \/ stage[r] \subseteq Skills
  /\ \A r \in Roots : marker[r] = NoMarker \/ marker[r] \in Markers
  /\ lock \in LockFiles
  /\ \A p \in Processes :
        /\ proc[p].at \in Places /\ proc[p].call \in {"read", "run"}
        /\ proc[p].cmd \in Commands \cup {Nobody}
        /\ proc[p].todo \subseteq Skills
        /\ proc[p].at \notin {"idle", "ready"} <=> holder = p
  /\ crashes \in 0..MaxCrashes /\ tears \in 0..MaxTears /\ edits \in 0..MaxEdits

(***************************************************************************)
(* Properties.                                                             *)
(***************************************************************************)
\* What the root holds according to its journal and, while a transaction is
\* open, its marker: the new state once journal and lockfile are both new.
Took(r) == marker[r] = NoMarker \/ (JournalIsNew(r) /\ LockIsNew(r))

Atomic == INSTANCE AtomicInstall WITH
  installed <- [r \in Roots |-> IF Took(r) THEN journal[r] ELSE marker[r].oldJournal],
  lockfile <- IF \A r \in Roots : Took(r) THEN lock
              ELSE (LET r == CHOOSE x \in Roots : ~Took(x) IN marker[r].oldLock)

(* Every command takes effect at once or not at all, whatever dies between *)
(* the renames of its directories and the writes of its journal and        *)
(* lockfile, and whatever the recovery of the next command dies of         *)
(* (commit_transaction, recover_locked); and a command never overwrites a  *)
(* lockfile that changed since it was read (prepare_lock_change).          *)
Atomically == Atomic!Spec

(* Without a transaction marker every destination holds what the journal   *)
(* of the root says, the tree of the entry or nothing, unless the user has *)
(* files of their own there: no half-activated or half-undone tree is left *)
(* behind.  One thing is: the remains of a first installation whose        *)
(* removal in rollback_transaction was itself interrupted, which the next  *)
(* recovery takes for files of somebody else's.  What is journaled is      *)
(* never torn.                                                             *)
Settled ==
  \A r \in Roots : marker[r] = NoMarker => \A s \in Skills :
     \/ tree[r][s] \in {journal[r][s].digest, Edited, Raced}
     \/ tree[r][s] = Torn /\ journal[r][s] = NoEntry

(* Without a transaction marker the lockfile of a project with one root    *)
(* lists every installed skill with its content and its owners, and no     *)
(* other.                                                                  *)
LockAgrees ==
  \A r \in Roots : marker[r] = NoMarker =>
     \A s \in Skills, d \in Digests :
        lock.skills[s][d] = IF journal[r][s].digest = d THEN journal[r][s].owners ELSE {}

(* A transaction that a process left behind can be recovered from:         *)
(* recover_locked neither reports a conflict nor fails its verification.   *)
Recoverable ==
  \A r \in Roots :
     marker[r] # NoMarker /\ holder = Nobody =>
        \/ Forward(r)
        \/ /\ Backward(r)
           /\ \A s \in Changed(r) : backup[r][s] = Absent \/ tree[r][s] = Absent
                                    \/ Verified(r, marker[r].newJournal, s)

(* Files of the user's own survive every command, every death and every    *)
(* recovery: they stay where they are, or in the backup an update keeps of *)
(* the tree it replaces, even when they were changed during the update     *)
(* (verify_journal_entry, destination_matches_journal, retain_backup).     *)
(* The exception are changes made after a removal, or a rollback, has      *)
(* found the tree as journaled and before it deletes it: Raced.            *)
EditsSurvive ==
  [][\A r \in Roots, s \in Skills :
       LET kept == Edited \in {tree[r][s], backup[r][s]} \/ s \in retained[r]
       IN kept => kept']_vars

(* A marker left behind by a command that died is removed in the end, by   *)
(* the recovery of a later command.                                        *)
MarkerCleared == \A r \in Roots : marker[r] # NoMarker ~> marker[r] = NoMarker
=============================================================================
