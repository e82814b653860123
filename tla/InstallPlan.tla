---------------------------- MODULE InstallPlan ----------------------------
(***************************************************************************)
(* What one command of the CLI asks of an installation root, and what it   *)
(* does to the journal of the root and to the project's lockfile, as       *)
(* functions: `install_many_with_lock` and `remove_owner_with_lock`        *)
(* (crates/pskills-core/src/install.rs) as the CLI calls them              *)
(* (crates/pskills-cli/src/main.rs).                                       *)
(*                                                                         *)
(* A skill is a number, its place in the order of destination paths.  Its  *)
(* content is a digest, which stands for the version, the artifact digest  *)
(* and the digest of the tree.  A skill is installed by its own reference  *)
(* (owner Direct) or by a version of a pack, whose members are pinned.     *)
(***************************************************************************)
EXTENDS FiniteSetsExt, Integers

CONSTANTS Roots,      \* the skill directories of a project, one per agent
          Skills,     \* names of skills: naturals
          Digests,    \* contents a skill may have
          Packs,      \* released pack versions
          Direct,     \* the owner of a skill installed by itself
          Absent      \* the digest of what is not there

\* The members a pack version pins: a function from some skills to digests.
CONSTANT Members

ASSUME PlanAssumption ==
  /\ Skills \subseteq Nat /\ IsFiniteSet(Skills)
  /\ Absent \notin Digests /\ Direct \notin Packs
  /\ \A k \in Packs : /\ DOMAIN Members[k] \subseteq Skills /\ DOMAIN Members[k] # {}
                      /\ \A s \in DOMAIN Members[k] : Members[k][s] \in Digests

Owners == Packs \cup {Direct}

\* An entry of the journal; NoEntry when the skill is not installed.
Entries == [digest : Digests \cup {Absent}, owners : SUBSET Owners]
NoEntry == [digest |-> Absent, owners |-> {}]
Journals == [Skills -> Entries]

\* The lockfile: the targets installed to, the packs installed, and for each
\* skill and content the owners that ask for it.
LockFiles == [targets : SUBSET Roots, packs : SUBSET Packs,
              skills : [Skills -> [Digests -> SUBSET Owners]]]

EmptyLock ==
  [targets |-> {}, packs |-> {}, skills |-> [s \in Skills |-> [d \in Digests |-> {}]]]

\* A command: install or remove one skill, or one pack.  The plan of a
\* removal only matters for its domain.
Commands ==
  [kind : {"install"}, root : Roots, owner : {Direct},
   plan : {[s \in {x} |-> d] : x \in Skills, d \in Digests}]
  \cup [kind : {"remove"}, root : Roots, owner : {Direct},
        plan : {[s \in {x} |-> Absent] : x \in Skills}]
  \cup UNION {[kind : {"install", "remove"}, root : Roots, owner : {k}, plan : {Members[k]}]
              : k \in Packs}

\* A skill of the plan keeps its files when its content is already there.
Kept(j, c, s) == j[s] # NoEntry /\ j[s].digest = c.plan[s]

(***************************************************************************)
(* Ownership: a skill of other content is replaced only for its sole       *)
(* owner; only an owner removes its ownership.                             *)
(***************************************************************************)
Owned(j, c) ==
  \A s \in DOMAIN c.plan :
     IF c.kind = "install"
     THEN j[s] = NoEntry \/ Kept(j, c, s) \/ j[s].owners \subseteq {c.owner}
     ELSE c.owner \in j[s].owners

\* The CLI only removes a pack its lockfile lists, with all its members.
Listed(l, c) ==
  c.kind = "remove" /\ c.owner # Direct
     => c.owner \in l.packs /\ \A s \in DOMAIN c.plan : l.skills[s][c.plan[s]] # {}

\* The journal after the command.
NewJournal(j, c) ==
  [s \in Skills |->
     IF s \notin DOMAIN c.plan THEN j[s]
     ELSE IF c.kind = "install"
          THEN IF Kept(j, c, s) THEN [j[s] EXCEPT !.owners = @ \cup {c.owner}]
               ELSE [digest |-> c.plan[s], owners |-> {c.owner}]
          ELSE IF j[s].owners = {c.owner} THEN NoEntry
               ELSE [j[s] EXCEPT !.owners = @ \ {c.owner}]]

\* Mutant: an update leaves its owner at the content it replaces.
NewLockAccrues(l, c) ==
  LET owners(s, d) ==
        IF s \notin DOMAIN c.plan THEN l.skills[s][d]
        ELSE IF c.kind = "install"
             THEN IF d = c.plan[s] THEN l.skills[s][d] \cup {c.owner} ELSE l.skills[s][d]
             ELSE l.skills[s][d] \ {c.owner}
  IN [targets |-> IF c.kind = "install" THEN l.targets \cup {c.root} ELSE l.targets,
      packs   |-> IF c.kind = "install" THEN l.packs \cup (Packs \cap {c.owner})
                  ELSE l.packs \ {c.owner},
      skills  |-> [s \in Skills |-> [d \in Digests |-> owners(s, d)]]]

\* The lockfile after the command: update_lock_for_skill for every member of
\* an installation; a removal takes the owner off the skills it names.
NewLock(l, c) ==
  LET owners(s, d) ==
        IF s \notin DOMAIN c.plan THEN l.skills[s][d]
        ELSE IF c.kind = "install" /\ d = c.plan[s] THEN l.skills[s][d] \cup {c.owner}
             ELSE l.skills[s][d] \ {c.owner}
  IN [targets |-> IF c.kind = "install" THEN l.targets \cup {c.root} ELSE l.targets,
      packs   |-> IF c.kind = "install" THEN l.packs \cup (Packs \cap {c.owner})
                  ELSE l.packs \ {c.owner},
      skills  |-> [s \in Skills |-> [d \in Digests |-> owners(s, d)]]]

\* Mutant of Operation: an update drops the tree it replaces.
OperationUnretained(j, c, s) ==
  IF c.kind = "install"
  THEN [kind |-> IF Kept(j, c, s) THEN "metadata" ELSE "replace",
        backup |-> j[s] # NoEntry /\ ~Kept(j, c, s), retain |-> FALSE]
  ELSE [kind |-> IF j[s].owners = {c.owner} THEN "remove" ELSE "metadata",
        backup |-> j[s].owners = {c.owner}, retain |-> FALSE]

(***************************************************************************)
(* The operations of a command on directories: what happens to the         *)
(* destination of a skill, and whether a backup of it is taken and, when   *)
(* the command is done, kept.                                              *)
(***************************************************************************)
Operation(j, c, s) ==
  IF c.kind = "install"
  THEN [kind |-> IF Kept(j, c, s) THEN "metadata" ELSE "replace",
        backup |-> j[s] # NoEntry /\ ~Kept(j, c, s),
        retain |-> j[s] # NoEntry /\ ~Kept(j, c, s)]
  ELSE [kind |-> IF j[s].owners = {c.owner} THEN "remove" ELSE "metadata",
        backup |-> j[s].owners = {c.owner}, retain |-> FALSE]

Operations(j, c) == [s \in DOMAIN c.plan |-> Operation(j, c, s)]
=============================================================================
