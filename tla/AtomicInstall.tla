--------------------------- MODULE AtomicInstall ---------------------------
(***************************************************************************)
(* What the CLI promises of an installation: each command takes effect on  *)
(* the journal of its root and on the lockfile of the project in one step, *)
(* completely or not at all, and no command undoes what another one did.   *)
(***************************************************************************)
EXTENDS InstallPlan

VARIABLES installed,   \* for each root, what is installed and for whom
          lockfile     \* the lockfile of the project

Init == /\ installed = [r \in Roots |-> [s \in Skills |-> NoEntry]]
        /\ lockfile = EmptyLock

Run(c) == /\ Owned(installed[c.root], c) /\ Listed(lockfile, c)
          /\ installed' = [installed EXCEPT ![c.root] = NewJournal(@, c)]
          /\ lockfile' = NewLock(lockfile, c)

Next == \E c \in Commands : Run(c)

Spec == Init /\ [][Next]_<<installed, lockfile>>
=============================================================================
