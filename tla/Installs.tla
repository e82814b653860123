------------------------------ MODULE Installs ------------------------------
(***************************************************************************)
(* How a release leaves the registry: install authorizations, their        *)
(* renewal, download grants, transfers of bytes and install receipts.      *)
(*                                                                         *)
(* What may be installed is the environment of these handlers and follows  *)
(* Admission, which Registry implements.  Packs are committed under a      *)
(* policy revision, perhaps one already replaced, and die with any of      *)
(* their members.  A handler that reads a snapshot and commits in a later  *)
(* transaction takes two steps; its slot keeps the request in between.     *)
(***************************************************************************)
EXTENDS Integers, Sequences, FiniteSets

CONSTANTS
  Handlers,      \* requests the server works on at once
  Subjects,      \* principals who install
  Packs, Members, \* pack versions and the releases each of them lists
  Wanted,        \* releases and packs the subjects ask for
  Inputs,        \* what a receipt may report
  TransferTTL,   \* TRANSFER_TTL_SECONDS
  TicketTTL,     \* INSTALL_RECEIPT_TTL_SECONDS
  Retention,     \* INSTALL_RECEIPT_RETENTION_SECONDS
  MaxTickets,    \* MAX_INSTALL_RECEIPT_TICKETS
  MaxReceipts,   \* MAX_INSTALL_RECEIPTS
  MaxReleases,   \* bound: releases
  MaxEpochs,     \* bound: policy revisions
  MaxAuths,      \* bound: authorizations
  MaxGrants,     \* bound: grants
  MaxTime        \* bound: the clock

\* A receipt is kept at least as long as a ticket lives (90 days and one day).
ASSUME InstallBounds ==
  /\ {TransferTTL, TicketTTL, Retention} \subseteq Nat
  /\ TicketTTL <= Retention
  /\ {MaxTickets, MaxReceipts} \subseteq Nat \ {0}
  /\ {MaxReleases, MaxEpochs, MaxAuths, MaxGrants, MaxTime} \subseteq Nat
  /\ Members \in [Packs -> SUBSET (1..MaxReleases)]
  /\ Wanted \subseteq (1..MaxReleases) \cup Packs

VARIABLES
  standing, epoch,  \* of Admission: the standing of each release, the policy revision
  packs,            \* for each pack: the revision it was committed under
  now,
  auths,            \* install authorizations, never removed
  tickets,          \* receipt tickets
  grants,           \* transfer grants, never removed
  receipts,         \* install receipts retained
  accepted,         \* every receipt ever recorded
  handler           \* for each slot: the request it works on

catalog == <<standing, epoch, packs>>
records == <<auths, tickets, grants, receipts, accepted>>
vars == <<catalog, now, records, handler>>

Uncommitted == 0
Dead == -1
Idle == [op |-> "idle"]

A == INSTANCE Admission

Init ==
  /\ A!Init
  /\ packs = [p \in Packs |-> Uncommitted]
  /\ now = 0
  /\ auths = <<>> /\ tickets = {} /\ grants = <<>> /\ receipts = {} /\ accepted = {}
  /\ handler = [h \in Handlers |-> Idle]

-----------------------------------------------------------------------------
(* The environment: releases, packs, the policy and the clock.             *)

Listed == UNCHANGED <<packs, now, records, handler>>

Release ==
  /\ Len(standing) < MaxReleases
  /\ \E s \in {"withheld", "installable"} : A!Release(s)
  /\ Listed

Admit == \E k \in DOMAIN standing : A!Admit(k) /\ Listed

Withhold == \E ks \in SUBSET DOMAIN standing : ks # {} /\ A!Withhold(ks) /\ Listed

UpdatePolicy == epoch < MaxEpochs /\ A!ChangePolicy /\ Listed

\* A pack is committed under the revision of the snapshot its request read.
CreatePack(p) ==
  /\ packs[p] = Uncommitted
  /\ \A k \in Members[p] : k \in DOMAIN standing /\ standing[k] # "revoked"
  /\ \E e \in 1..epoch : packs' = [packs EXCEPT ![p] = e]
  /\ UNCHANGED <<standing, epoch, now, records, handler>>

RevokeSkill(k) ==
  /\ A!Revoke(k)
  /\ packs' = [p \in Packs |-> IF packs[p] # Uncommitted /\ k \in Members[p]
                               THEN Dead ELSE packs[p]]
  /\ UNCHANGED <<now, records, handler>>

Tick ==
  /\ now < MaxTime
  /\ now' = now + 1
  /\ UNCHANGED <<catalog, records, handler>>

-----------------------------------------------------------------------------
(* Resolution.                                                             *)

MembersOf(x) == IF x \in Packs THEN Members[x] ELSE {x}

Approved(k) == k \in DOMAIN standing /\ standing[k] = "installable"

\* Mutant of Resolves: a pack is approved once and for all.
ResolveWithoutRevision(x) ==
  /\ x \in Packs => packs[x] \notin {Uncommitted, Dead}
  /\ \A k \in MembersOf(x) : Approved(k)

\* resolveResource: a pack needs its own approval, under the policy in force,
\* and every member's.
Resolves(x) ==
  /\ x \in Packs => packs[x] = epoch
  /\ \A k \in MembersOf(x) : Approved(k)

Expired(t) == t <= now

\* A slot takes up a request; it answers a request it had taken up.
Work(h, r) == handler[h] = Idle /\ handler' = [handler EXCEPT ![h] = r]
Answer(h) == handler' = [handler EXCEPT ![h] = Idle]

-----------------------------------------------------------------------------
(* Authorizations.                                                         *)

ReadAuthorize(h, s, x) ==
  /\ Resolves(x)
  /\ Work(h, [op |-> "authorize", subject |-> s, resource |-> x, at |-> now])
  /\ UNCHANGED <<catalog, now, records>>

\* Mutant of LiveTickets: nothing is pruned before the limit is judged.
AllTickets == tickets

\* The expired tickets leave in the transaction that adds one.
LiveTickets == {t \in tickets : ~ Expired(t.expires)}
TicketsFull == Cardinality(LiveTickets) >= MaxTickets

\* The times of both records are those of the read.
CommitAuthorize(h) ==
  LET r == handler[h]
      authorization == [subject |-> r.subject, resource |-> r.resource, issued |-> r.at,
                        expires |-> r.at + TransferTTL, epoch |-> epoch]
      ticket == [auth |-> Len(auths) + 1, subject |-> r.subject, expires |-> r.at + TicketTTL]
  IN  /\ r.op = "authorize"
      /\ UNCHANGED <<catalog, now, grants, receipts, accepted>>
      /\ \/ /\ ~ Resolves(r.resource)
            /\ Answer(h) /\ UNCHANGED <<auths, tickets>>
         \/ /\ Resolves(r.resource)
            /\ TicketsFull
            /\ Answer(h) /\ UNCHANGED <<auths, tickets>>
         \/ /\ Resolves(r.resource)
            /\ ~ TicketsFull
            /\ Len(auths) < MaxAuths
            /\ auths' = Append(auths, authorization)
            /\ tickets' = LiveTickets \cup {ticket}
            /\ Answer(h)

\* The authorization a belongs to s, has not expired, and still resolves.
Usable(a, s) ==
  /\ auths[a].subject = s
  /\ ~ Expired(auths[a].expires)
  /\ Resolves(auths[a].resource)

ReadValidate(h, s, a) ==
  /\ Usable(a, s)
  /\ Work(h, [op |-> "validate", subject |-> s, auth |-> a])
  /\ UNCHANGED <<catalog, now, records>>

\* Mutant of CommitValidate: the expiry is checked in the snapshot only.
CommitValidateUnchecked(h) ==
  LET r == handler[h]
  IN  /\ r.op = "validate"
      /\ auths' = IF auths[r.auth].subject = r.subject /\ Resolves(auths[r.auth].resource)
                  THEN [auths EXCEPT ![r.auth].expires = now + TransferTTL]
                  ELSE auths
      /\ Answer(h)
      /\ UNCHANGED <<catalog, now, tickets, grants, receipts, accepted>>

\* The renewal repeats every check; the ticket is not renewed.
CommitValidate(h) ==
  LET r == handler[h]
  IN  /\ r.op = "validate"
      /\ auths' = IF Usable(r.auth, r.subject)
                  THEN [auths EXCEPT ![r.auth].expires = now + TransferTTL]
                  ELSE auths
      /\ Answer(h)
      /\ UNCHANGED <<catalog, now, tickets, grants, receipts, accepted>>

-----------------------------------------------------------------------------
(* Grants and transfers.                                                   *)

ReadGrant(h, s, a, k) ==
  /\ Usable(a, s)
  /\ Work(h, [op |-> "grant", subject |-> s, auth |-> a, member |-> k])
  /\ UNCHANGED <<catalog, now, records>>

\* Mutant of CommitGrant: what the snapshot showed is not checked again.
CommitGrantUnchecked(h) ==
  LET r == handler[h]
      granted == r.member \in MembersOf(auths[r.auth].resource)
  IN  /\ r.op = "grant"
      /\ granted => Len(grants) < MaxGrants
      /\ grants' = IF granted
                   THEN Append(grants, [subject |-> r.subject, auth |-> r.auth,
                                        member |-> r.member, expires |-> now + TransferTTL])
                   ELSE grants
      /\ Answer(h)
      /\ UNCHANGED <<catalog, now, auths, tickets, receipts, accepted>>

\* The grant repeats every check of the read.
CommitGrant(h) ==
  LET r == handler[h]
      granted == Usable(r.auth, r.subject) /\ r.member \in MembersOf(auths[r.auth].resource)
  IN  /\ r.op = "grant"
      /\ granted => Len(grants) < MaxGrants
      /\ grants' = IF granted
                   THEN Append(grants, [subject |-> r.subject, auth |-> r.auth,
                                        member |-> r.member, expires |-> now + TransferTTL])
                   ELSE grants
      /\ Answer(h)
      /\ UNCHANGED <<catalog, now, auths, tickets, receipts, accepted>>

\* serveTransferGrant checks one snapshot and then fetches the bytes.
BeginTransfer(h, s, g) ==
  LET grant == grants[g]
  IN  /\ grant.subject = s /\ ~ Expired(grant.expires)
      /\ Usable(grant.auth, s)
      /\ Approved(grant.member)
      /\ Work(h, [op |-> "transfer", grant |-> g])
      /\ UNCHANGED <<catalog, now, records>>

\* The bytes are sent, or the store fails; either way nothing is recorded.
FinishTransfer(h) ==
  /\ handler[h].op = "transfer"
  /\ Answer(h)
  /\ UNCHANGED <<catalog, now, records>>

-----------------------------------------------------------------------------
(* Receipts.  The transaction of createInstallReceipt is the whole request.*)

\* Mutant of Kept: a full store makes room.
KeptBelowLimit == IF Cardinality(receipts) < MaxReceipts THEN receipts ELSE {}

\* Receipts past their retention leave in every transaction that commits.
Kept == {r \in receipts : r.at >= now - Retention}

Existing(a) == {r \in Kept : r.auth = a}

\* Mutant of ReceiptsFull: one receipt too many.
ReceiptsFullLate == Cardinality(Kept) > MaxReceipts

ReceiptsFull == Cardinality(Kept) >= MaxReceipts

\* Mutant of TicketOf: the subject is not compared.
TicketOfAnyone(a, s) == {t \in LiveTickets : t.auth = a}

TicketOf(a, s) == {t \in LiveTickets : t.auth = a /\ t.subject = s}

\* Mutant of Outcome: the limit is judged before the receipt is looked up.
OutcomeLimitFirst(s, a, i) ==
  IF ReceiptsFull THEN "limit"
  ELSE IF Existing(a) = {} THEN IF TicketOf(a, s) = {} THEN "unavailable" ELSE "accept"
  ELSE LET r == CHOOSE r \in Existing(a) : TRUE
       IN  IF r.subject # s THEN "unavailable" ELSE IF r.input = i THEN "replay" ELSE "conflict"

\* What a report i of s for authorization a comes to.
Outcome(s, a, i) ==
  IF Existing(a) # {}
  THEN LET r == CHOOSE r \in Existing(a) : TRUE
       IN  IF r.subject # s THEN "unavailable" ELSE IF r.input = i THEN "replay" ELSE "conflict"
  ELSE IF TicketOf(a, s) = {} THEN "unavailable"
  ELSE IF ReceiptsFull THEN "limit" ELSE "accept"

\* The same report again returns the receipt there is; the pruning commits.
ReplayReceipt(s, a, i) ==
  /\ Outcome(s, a, i) = "replay"
  /\ receipts' = Kept
  /\ UNCHANGED <<catalog, now, auths, tickets, grants, accepted, handler>>

\* The ticket is not used up.  The other outcomes abort the transaction.
AcceptReceipt(s, a, i) ==
  LET receipt == [auth |-> a, subject |-> s, input |-> i, at |-> now]
  IN  /\ Outcome(s, a, i) = "accept"
      /\ receipts' = Kept \cup {receipt}
      /\ accepted' = accepted \cup {receipt}
      /\ tickets' = LiveTickets
      /\ UNCHANGED <<catalog, now, auths, grants, handler>>

-----------------------------------------------------------------------------
Environment ==
  \/ Release \/ Admit \/ Withhold \/ UpdatePolicy \/ Tick
  \/ \E p \in Packs : CreatePack(p)
  \/ \E k \in DOMAIN standing : RevokeSkill(k)

Report ==
  \E s \in Subjects, a \in DOMAIN auths, i \in Inputs :
    ReplayReceipt(s, a, i) \/ AcceptReceipt(s, a, i)

Request(h, s) ==
  \/ \E x \in Wanted : ReadAuthorize(h, s, x)
  \/ \E a \in DOMAIN auths :
       \/ ReadValidate(h, s, a)
       \/ \E k \in 1..MaxReleases : ReadGrant(h, s, a, k)
  \/ \E g \in DOMAIN grants : BeginTransfer(h, s, g)

Next ==
  \/ Environment \/ Report
  \/ \E h \in Handlers :
       \/ \E s \in Subjects : Request(h, s)
       \/ CommitAuthorize(h) \/ CommitValidate(h) \/ CommitGrant(h) \/ FinishTransfer(h)

Spec == Init /\ [][Next]_vars

-----------------------------------------------------------------------------
(* Properties.                                                             *)

AuthIds == DOMAIN auths

Receipts == [auth : AuthIds, subject : Subjects, input : Inputs, at : 0..now]

Requests ==
  {Idle}
  \cup [op : {"authorize"}, subject : Subjects, resource : Wanted, at : 0..now]
  \cup [op : {"validate"}, subject : Subjects, auth : AuthIds]
  \cup [op : {"grant"}, subject : Subjects, auth : AuthIds, member : 1..MaxReleases]
  \cup [op : {"transfer"}, grant : DOMAIN grants]

\* The records keep their shape, point at authorizations that exist, and the
\* stores of tickets and receipts stay within their limits.
TypeOK ==
  /\ standing \in Seq(A!Standings) /\ Len(standing) <= MaxReleases
  /\ epoch \in Nat \ {0}
  /\ packs \in [Packs -> {Dead, Uncommitted} \cup 1..epoch]
  /\ now \in Nat
  /\ auths \in Seq([subject : Subjects, resource : Wanted, issued : 0..now,
                    expires : Nat, epoch : 1..epoch])
  /\ tickets \subseteq [auth : AuthIds, subject : Subjects, expires : Nat]
  /\ grants \in Seq([subject : Subjects, auth : AuthIds, member : 1..MaxReleases, expires : Nat])
  /\ receipts \subseteq Receipts /\ accepted \subseteq Receipts
  /\ handler \in [Handlers -> Requests]
  /\ Cardinality(tickets) <= MaxTickets /\ Cardinality(receipts) <= MaxReceipts

\* The authorization id is an idempotency key for good: although a ticket is not
\* used up by its receipt and receipts are pruned, no authorization is ever
\* reported by two receipts.
OneReceipt == \A r1, r2 \in accepted : r1.auth = r2.auth => r1 = r2

\* Grants and receipts are of the subject the authorization was issued to, and a
\* grant is for a member of what was authorized.
SubjectsApart ==
  /\ \A g \in DOMAIN grants :
       /\ grants[g].subject = auths[grants[g].auth].subject
       /\ grants[g].member \in MembersOf(auths[grants[g].auth].resource)
  /\ \A r \in accepted : r.subject = auths[r.auth].subject

\* A client that lost the reply and sends its report again is acknowledged as
\* long as the receipt is retained, also when the stores are full.
RetriesAcknowledged ==
  \A x \in accepted :
    x.at + Retention >= now => Outcome(x.subject, x.auth, x.input) = "replay"

\* The limits turn a request away only while that many tickets issued, or
\* receipts recorded, are within their lifetime: pruning is never behind when
\* a request is judged.
LimitsHonest ==
  /\ TicketsFull =>
       Cardinality({a \in AuthIds : auths[a].issued + TicketTTL > now}) >= MaxTickets
  /\ ReceiptsFull => Cardinality({x \in accepted : x.at + Retention >= now}) >= MaxReceipts

\* An authorization that ran out is never renewed, whatever a validation read
\* before it did.
ExpiredForever ==
  [][\A a \in AuthIds : Expired(auths[a].expires) => auths'[a] = auths[a]]_vars

\* The transfers that begin in a step.
Begun == {auths[grants[handler'[h].grant].auth] :
            h \in {x \in Handlers : handler[x].op # "transfer" /\ handler'[x].op = "transfer"}}

\* Some member of x has been revoked.
Revoked(x) == \E k \in MembersOf(x) \cap DOMAIN standing : standing[k] = "revoked"

\* A revocation ends what it touches, whatever the requests under way had read
\* before it: for a resource with a revoked member no authorization is issued or
\* renewed, no grant is made and no transfer begins, also for a pack's other
\* members.  Only the transfers that had begun still run to their end.
RevocationEndsAccess ==
  [][/\ \A a \in DOMAIN auths' :
          (a \in AuthIds /\ auths'[a] = auths[a]) \/ ~ Revoked(auths'[a].resource)
     /\ \A g \in DOMAIN grants' :
          g \in DOMAIN grants \/ ~ Revoked(auths'[grants'[g].auth].resource)
     /\ \A a \in Begun : ~ Revoked(a.resource)]_vars

\* The members of a pack are handed out under the policy the pack was authorized
\* under: a policy change ends the authorizations of packs for good, also when
\* every member is admitted again.
PackUnderOnePolicy ==
  [][\A a \in Begun : a.resource \in Packs => a.epoch = epoch]_vars
=============================================================================
