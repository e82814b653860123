--------------------------- MODULE InstallsProofs ---------------------------
(***************************************************************************)
(* Three promises of Installs for any number of subjects, requests,        *)
(* releases and records, and for any lifetimes with TicketTTL <=           *)
(* Retention: an authorization is reported once, a pack is handed out      *)
(* under the policy it was authorized under, and a revocation ends the     *)
(* access it touches.                                                      *)
(***************************************************************************)
EXTENDS Installs, TLAPS

AuthRecords ==
  [subject : Subjects, resource : Wanted, issued : Nat, expires : Int, epoch : Nat]

\* A ticket lives TicketTTL from the issue of its authorization; a receipt is
\* no older than the authorization, and one that was pruned is past its
\* retention, by which time the ticket is dead.
ReceiptInv ==
  /\ now \in Nat
  /\ auths \in Seq(AuthRecords)
  /\ \A a \in DOMAIN auths : auths[a].issued <= now
  /\ DOMAIN handler = Handlers
  /\ \A h \in Handlers : handler[h].op = "authorize" =>
       /\ handler[h].subject \in Subjects /\ handler[h].resource \in Wanted
       /\ handler[h].at \in Nat /\ handler[h].at <= now
  /\ epoch \in Nat
  /\ \A t \in tickets : /\ t.auth \in DOMAIN auths
                        /\ t.expires = auths[t.auth].issued + TicketTTL
  /\ \A r \in accepted : /\ r.auth \in DOMAIN auths
                         /\ r.at \in Nat
                         /\ auths[r.auth].issued <= r.at
                         /\ r \in receipts \/ r.at + Retention < now
  /\ OneReceipt

GrantRecords == [subject : Subjects, auth : Nat, member : 1..MaxReleases, expires : Int]

\* What a pack was authorized under is what it was committed under, until it
\* dies; grants are for authorizations that exist.
PackInv ==
  /\ packs \in [Packs -> Int] /\ epoch \in Nat \ {0}
  /\ \A a \in DOMAIN auths : auths[a].resource \in Packs =>
       /\ auths[a].epoch \in Nat \ {0}
       /\ packs[auths[a].resource] \in {auths[a].epoch, Dead}
  /\ grants \in Seq(GrantRecords)
  /\ \A g \in DOMAIN grants : grants[g].auth \in DOMAIN auths
  /\ \A h \in Handlers : handler[h].op = "grant" =>
       /\ handler[h].subject \in Subjects /\ handler[h].auth \in DOMAIN auths
       /\ handler[h].member \in 1..MaxReleases

-----------------------------------------------------------------------------
\* The steps of the catalogue leave the records and the slots alone.
LEMMA EnvironmentFrame ==
  ASSUME Environment, now \in Nat, epoch \in Nat
  PROVE  /\ UNCHANGED <<auths, tickets, grants, receipts, accepted, handler>>
         /\ now' \in Nat /\ now' >= now
         /\ epoch' \in Nat
BY DEF Environment, Release, Admit, Withhold, UpdatePolicy, Tick, CreatePack, RevokeSkill,
       Listed, catalog, records, A!Release, A!Admit, A!Withhold, A!ChangePolicy, A!Revoke

\* Only an authorization, its renewal or a receipt touches what ReceiptInv is about.
LEMMA RequestFrame ==
  ASSUME NEW h \in Handlers, NEW s \in Subjects, Request(h, s), DOMAIN handler = Handlers
  PROVE  /\ UNCHANGED <<standing, epoch, packs, now, auths, tickets, grants, receipts, accepted>>
         /\ DOMAIN handler' = Handlers
         /\ \A g \in Handlers : g # h => handler'[g] = handler[g]
         /\ handler'[h].op = "authorize" =>
              /\ handler'[h].subject = s /\ handler'[h].resource \in Wanted
              /\ handler'[h].at = now
BY DEF Request, ReadAuthorize, ReadValidate, ReadGrant, BeginTransfer, Work, catalog, records

\* What a slot may hold after it took up a request for a grant or a transfer.
LEMMA RequestSlot ==
  ASSUME NEW h \in Handlers, NEW s \in Subjects, Request(h, s), DOMAIN handler = Handlers
  PROVE  /\ handler'[h].op = "grant" =>
              /\ handler'[h].subject \in Subjects /\ handler'[h].auth \in DOMAIN auths
              /\ handler'[h].member \in 1..MaxReleases
         /\ handler'[h].op = "transfer" =>
              /\ handler'[h].grant \in DOMAIN grants
              /\ Resolves(auths[grants[handler'[h].grant].auth].resource)
<1>1. ASSUME NEW x, ReadAuthorize(h, s, x) PROVE handler'[h].op = "authorize"
  BY <1>1 DEF ReadAuthorize, Work
<1>2. ASSUME NEW a, ReadValidate(h, s, a) PROVE handler'[h].op = "validate"
  BY <1>2 DEF ReadValidate, Work
<1>3. ASSUME NEW a, NEW k, ReadGrant(h, s, a, k)
      PROVE  /\ handler'[h].op = "grant" /\ handler'[h].subject = s
             /\ handler'[h].auth = a /\ handler'[h].member = k
  BY <1>3 DEF ReadGrant, Work
<1>4. ASSUME NEW g, BeginTransfer(h, s, g)
      PROVE  /\ handler'[h].op = "transfer" /\ handler'[h].grant = g
             /\ Resolves(auths[grants[g].auth].resource)
  BY <1>4 DEF BeginTransfer, Work, Usable
<1>5. ASSUME NEW x \in Wanted, ReadAuthorize(h, s, x)
      PROVE  handler'[h].op \notin {"grant", "transfer"}
  BY <1>1, <1>5
<1>6. ASSUME NEW a \in DOMAIN auths, ReadValidate(h, s, a)
      PROVE  handler'[h].op \notin {"grant", "transfer"}
  BY <1>2, <1>6
<1>7. ASSUME NEW a \in DOMAIN auths, NEW k \in 1..MaxReleases, ReadGrant(h, s, a, k)
      PROVE  /\ handler'[h].op # "transfer"
             /\ handler'[h].subject \in Subjects /\ handler'[h].auth \in DOMAIN auths
             /\ handler'[h].member \in 1..MaxReleases
  BY <1>3, <1>7
<1>8. ASSUME NEW g \in DOMAIN grants, BeginTransfer(h, s, g)
      PROVE  /\ handler'[h].op # "grant" /\ handler'[h].grant \in DOMAIN grants
             /\ Resolves(auths[grants[handler'[h].grant].auth].resource)
  BY <1>4, <1>8
<1> QED
  BY <1>5, <1>6, <1>7, <1>8 DEF Request

LEMMA AuthTypes ==
  ASSUME auths \in Seq(AuthRecords), NEW a \in DOMAIN auths
  PROVE  auths[a].issued \in Nat /\ auths[a].epoch \in Nat
<1>1. auths[a] \in AuthRecords
  OBVIOUS
<1> QED
  BY <1>1 DEF AuthRecords

LEMMA ReceiptInit == Init => ReceiptInv
BY DEF Init, ReceiptInv, OneReceipt, Idle, A!Init

LEMMA AppendFacts ==
  ASSUME NEW S, NEW q \in Seq(S), NEW e \in S
  PROVE  /\ Append(q, e) \in Seq(S)
         /\ DOMAIN Append(q, e) = 1..(Len(q) + 1) /\ DOMAIN q = 1..Len(q) /\ Len(q) \in Nat
         /\ \A n \in DOMAIN q : Append(q, e)[n] = q[n]
         /\ Append(q, e)[Len(q) + 1] = e
OBVIOUS

LEMMA NewAuthorization ==
  ASSUME ReceiptInv, NEW h \in Handlers, CommitAuthorize(h)
  PROVE  [subject |-> handler[h].subject, resource |-> handler[h].resource,
          issued |-> handler[h].at, expires |-> handler[h].at + TransferTTL,
          epoch |-> epoch] \in AuthRecords
<1>1. /\ handler[h].subject \in Subjects /\ handler[h].resource \in Wanted
      /\ handler[h].at \in Nat /\ epoch \in Nat
  BY DEF ReceiptInv, CommitAuthorize
<1>2. TransferTTL \in Nat
  BY InstallBounds
<1> QED
  BY <1>1, <1>2 DEF AuthRecords

\* An authorization is appended with a ticket of its own age.
LEMMA AuthorizeKeeps ==
  ASSUME ReceiptInv, NEW h \in Handlers, CommitAuthorize(h)
  PROVE  ReceiptInv'
<1> DEFINE r == handler[h]
           authorization == [subject |-> r.subject, resource |-> r.resource, issued |-> r.at,
                             expires |-> r.at + TransferTTL, epoch |-> epoch]
           ticket == [auth |-> Len(auths) + 1, subject |-> r.subject,
                      expires |-> r.at + TicketTTL]
<1>1. /\ UNCHANGED <<epoch, now, receipts, accepted>>
      /\ handler' = [handler EXCEPT ![h] = Idle]
      /\ \/ UNCHANGED <<auths, tickets>>
         \/ auths' = Append(auths, authorization) /\ tickets' = LiveTickets \cup {ticket}
  BY DEF CommitAuthorize, Answer, catalog
<1>2. /\ DOMAIN handler' = Handlers
      /\ \A g \in Handlers : handler'[g].op = "authorize" => handler'[g] = handler[g]
  BY <1>1 DEF ReceiptInv, Idle
<1>3. CASE UNCHANGED <<auths, tickets>>
  BY <1>1, <1>2, <1>3 DEF ReceiptInv, OneReceipt
<1>4. CASE auths' = Append(auths, authorization) /\ tickets' = LiveTickets \cup {ticket}
  <2>1. authorization \in AuthRecords
    BY NewAuthorization
  <2>2. /\ auths' \in Seq(AuthRecords)
        /\ DOMAIN auths' = 1..(Len(auths) + 1) /\ DOMAIN auths = 1..Len(auths)
        /\ Len(auths) \in Nat
        /\ \A a \in DOMAIN auths : auths'[a] = auths[a]
        /\ auths'[Len(auths) + 1] = authorization
    BY <1>4, <2>1, AppendFacts DEF ReceiptInv
  <2>3. \A a \in DOMAIN auths' : auths'[a].issued <= now'
    BY <1>1, <2>2 DEF ReceiptInv, CommitAuthorize
  <2>4. \A t \in tickets' : /\ t.auth \in DOMAIN auths'
                            /\ t.expires = auths'[t.auth].issued + TicketTTL
    BY <1>4, <2>2 DEF ReceiptInv, LiveTickets
  <2>5. \A x \in accepted' : /\ x.auth \in DOMAIN auths' /\ x.at \in Nat
                             /\ auths'[x.auth].issued <= x.at
                             /\ x \in receipts' \/ x.at + Retention < now'
    <3> SUFFICES ASSUME NEW x \in accepted
                 PROVE  /\ x.auth \in DOMAIN auths' /\ x.at \in Nat
                        /\ auths'[x.auth].issued <= x.at
                        /\ x \in receipts \/ x.at + Retention < now
      BY <1>1
    <3>1. /\ x.auth \in DOMAIN auths /\ x.at \in Nat /\ auths[x.auth].issued <= x.at
          /\ x \in receipts \/ x.at + Retention < now
      BY DEF ReceiptInv
    <3> QED
      BY <2>2, <3>1
  <2> QED
    BY <1>1, <1>2, <2>2, <2>3, <2>4, <2>5 DEF ReceiptInv, OneReceipt
<1> QED
  BY <1>1, <1>3, <1>4

\* A renewal moves the expiry only.
LEMMA ValidateKeeps ==
  ASSUME ReceiptInv, NEW h \in Handlers, CommitValidate(h)
  PROVE  ReceiptInv'
<1>1. /\ UNCHANGED <<epoch, now, tickets, receipts, accepted>>
      /\ handler' = [handler EXCEPT ![h] = Idle]
      /\ auths' = auths \/ auths' = [auths EXCEPT ![handler[h].auth].expires = now + TransferTTL]
  BY DEF CommitValidate, Answer, catalog
<1>2. /\ DOMAIN handler' = Handlers
      /\ \A g \in Handlers : handler'[g].op = "authorize" => handler'[g] = handler[g]
  BY <1>1 DEF ReceiptInv, Idle
<1>3. /\ auths' \in Seq(AuthRecords) /\ DOMAIN auths' = DOMAIN auths
      /\ \A a \in DOMAIN auths : auths'[a].issued = auths[a].issued
  <2>1. CASE auths' = auths
    BY <2>1 DEF ReceiptInv
  <2>2. CASE auths' = [auths EXCEPT ![handler[h].auth].expires = now + TransferTTL]
    <3>1. auths \in [1..Len(auths) -> AuthRecords] /\ Len(auths) \in Nat
      BY DEF ReceiptInv
    <3>2. DOMAIN auths' = DOMAIN auths
      BY <2>2
    <3>3. \A a \in DOMAIN auths : /\ auths'[a] \in AuthRecords
                                 /\ auths'[a].issued = auths[a].issued
      <4> SUFFICES ASSUME NEW a \in DOMAIN auths
                   PROVE  auths'[a] \in AuthRecords /\ auths'[a].issued = auths[a].issued
        OBVIOUS
      <4>1. auths[a] \in AuthRecords /\ now + TransferTTL \in Int
        BY <3>1, InstallBounds DEF ReceiptInv
      <4>2. \/ auths'[a] = auths[a]
            \/ auths'[a] = [auths[a] EXCEPT !.expires = now + TransferTTL]
        BY <2>2
      <4> QED
        BY <4>1, <4>2 DEF AuthRecords
    <3>4. auths' \in [1..Len(auths) -> AuthRecords]
      BY <2>2, <3>1, <3>2, <3>3
    <3>5. auths' \in Seq(AuthRecords)
      BY <3>1, <3>4
    <3> QED
      BY <3>2, <3>3, <3>5
  <2> QED
    BY <1>1, <2>1, <2>2
<1> QED
  BY <1>1, <1>2, <1>3 DEF ReceiptInv, OneReceipt

\* A receipt is pruned only past its retention.
LEMMA PruningLate ==
  ASSUME ReceiptInv, NEW r \in accepted, r \notin Kept
  PROVE  r.at + Retention < now
BY InstallBounds DEF ReceiptInv, Kept

LEMMA AcceptKeeps ==
  ASSUME ReceiptInv, NEW s \in Subjects, NEW a \in DOMAIN auths, NEW i \in Inputs,
         AcceptReceipt(s, a, i)
  PROVE  ReceiptInv'
<1> DEFINE new == [auth |-> a, subject |-> s, input |-> i, at |-> now]
<1>1. /\ UNCHANGED <<epoch, now, auths, handler>>
      /\ receipts' = Kept \cup {new} /\ accepted' = accepted \cup {new}
      /\ tickets' = LiveTickets
      /\ Existing(a) = {} /\ TicketOf(a, s) # {}
  BY DEF AcceptReceipt, Outcome, catalog
<1>2. PICK t \in tickets : t.auth = a /\ ~ t.expires <= now
  BY <1>1 DEF TicketOf, LiveTickets, Expired
<1>3. auths[a].issued \in Nat /\ now < auths[a].issued + TicketTTL
  <2>1. auths[a] \in AuthRecords /\ now \in Nat /\ TicketTTL \in Nat
    BY InstallBounds DEF ReceiptInv
  <2>2. auths[a].issued \in Nat
    BY <2>1 DEF AuthRecords
  <2>3. t.expires = auths[a].issued + TicketTTL
    BY <1>2 DEF ReceiptInv
  <2> QED
    BY <1>2, <2>1, <2>2, <2>3
<1>4. \A r \in accepted : r.auth # a
  <2> SUFFICES ASSUME NEW r \in accepted, r.auth = a PROVE FALSE
    OBVIOUS
  <2>1. r \notin Kept
    BY <1>1 DEF Existing
  <2>2. r.at + Retention < now
    BY <2>1, PruningLate
  <2>3. r.at \in Nat /\ auths[a].issued <= r.at /\ now \in Nat
    BY DEF ReceiptInv
  <2>4. TicketTTL \in Nat /\ Retention \in Nat /\ TicketTTL <= Retention
    BY InstallBounds
  <2> QED
    BY <1>3, <2>2, <2>3, <2>4
<1>5. OneReceipt'
  BY <1>1, <1>4 DEF ReceiptInv, OneReceipt
<1>6. \A r \in accepted' : /\ r.auth \in DOMAIN auths' /\ r.at \in Nat
                           /\ auths'[r.auth].issued <= r.at
                           /\ r \in receipts' \/ r.at + Retention < now'
  BY <1>1, PruningLate DEF ReceiptInv
<1> QED
  BY <1>1, <1>5, <1>6 DEF ReceiptInv, LiveTickets

\* The receipts pruned by a replay are past their retention too.
LEMMA ReplayKeeps ==
  ASSUME ReceiptInv, NEW s, NEW a, NEW i, ReplayReceipt(s, a, i)
  PROVE  ReceiptInv'
<1>1. /\ UNCHANGED <<epoch, now, auths, tickets, accepted, handler>>
      /\ receipts' = Kept
  BY DEF ReplayReceipt, catalog
<1>2. \A r \in accepted' : r \in receipts' \/ r.at + Retention < now'
  BY <1>1, PruningLate
<1> QED
  BY <1>1, <1>2 DEF ReceiptInv, OneReceipt

LEMMA ReceiptStep == ReceiptInv /\ [Next]_vars => ReceiptInv'
<1> SUFFICES ASSUME ReceiptInv, [Next]_vars PROVE ReceiptInv'
  OBVIOUS
<1>1. CASE Environment
  <2>1. /\ UNCHANGED <<auths, tickets, receipts, accepted, handler>>
        /\ now' \in Nat /\ now' >= now /\ epoch' \in Nat
    BY <1>1, EnvironmentFrame DEF ReceiptInv
  <2>2. \A a \in DOMAIN auths : auths[a].issued \in Nat
    BY AuthTypes DEF ReceiptInv
  <2>3. now \in Nat /\ Retention \in Nat
    BY InstallBounds DEF ReceiptInv
  <2> QED
    BY <2>1, <2>2, <2>3 DEF ReceiptInv, OneReceipt
<1>2. CASE Report
  BY <1>2, AcceptKeeps, ReplayKeeps DEF Report
<1>3. ASSUME NEW h \in Handlers, NEW s \in Subjects, Request(h, s) PROVE ReceiptInv'
  BY <1>3, RequestFrame DEF ReceiptInv, OneReceipt
<1>4. ASSUME NEW h \in Handlers, CommitAuthorize(h) PROVE ReceiptInv'
  BY <1>4, AuthorizeKeeps
<1>5. ASSUME NEW h \in Handlers, CommitValidate(h) PROVE ReceiptInv'
  BY <1>5, ValidateKeeps
<1>6. ASSUME NEW h \in Handlers, CommitGrant(h) \/ FinishTransfer(h) PROVE ReceiptInv'
  <2>1. /\ UNCHANGED <<epoch, now, auths, tickets, receipts, accepted>>
        /\ handler' = [handler EXCEPT ![h] = Idle]
    BY <1>6 DEF CommitGrant, FinishTransfer, Answer, catalog, records
  <2> QED
    BY <2>1 DEF ReceiptInv, OneReceipt, Idle
<1>7. CASE UNCHANGED vars
  BY <1>7 DEF ReceiptInv, OneReceipt, vars, catalog, records
<1> QED
  BY <1>1, <1>2, <1>3, <1>4, <1>5, <1>6, <1>7 DEF Next

\* However often clients report, however requests interleave and whatever is
\* pruned, createInstallReceipt records at most one receipt per authorization.
THEOREM ReportedOnce == Spec => []OneReceipt
<1>1. ReceiptInv => OneReceipt
  BY DEF ReceiptInv
<1> QED
  BY ReceiptInit, ReceiptStep, <1>1, PTL DEF Spec

-----------------------------------------------------------------------------
\* A step changes a pack only from uncommitted to a revision, or to dead.
LEMMA PackFrame ==
  ASSUME Environment, packs \in [Packs -> Int], NEW p \in Packs, packs[p] # Uncommitted
  PROVE  packs'[p] = packs[p] \/ packs'[p] = Dead
BY DEF Environment, Release, Admit, Withhold, UpdatePolicy, Tick, CreatePack, RevokeSkill,
       Listed, catalog

LEMMA CatalogTypes ==
  ASSUME Environment, packs \in [Packs -> Int], epoch \in Nat \ {0}
  PROVE  packs' \in [Packs -> Int] /\ epoch' \in Nat \ {0}
BY DEF Environment, Release, Admit, Withhold, UpdatePolicy, Tick, CreatePack, RevokeSkill, Dead,
       Listed, catalog, A!Release, A!Admit, A!Withhold, A!ChangePolicy, A!Revoke

LEMMA PackInit == Init => PackInv
BY DEF Init, PackInv, Idle, Uncommitted, A!Init

LEMMA PackAuthorizeKeeps ==
  ASSUME ReceiptInv, PackInv, NEW h \in Handlers, CommitAuthorize(h)
  PROVE  PackInv'
<1> DEFINE r == handler[h]
           authorization == [subject |-> r.subject, resource |-> r.resource, issued |-> r.at,
                             expires |-> r.at + TransferTTL, epoch |-> epoch]
<1>1. /\ UNCHANGED <<epoch, packs, grants>>
      /\ handler' = [handler EXCEPT ![h] = Idle]
      /\ auths' = auths \/ (Resolves(r.resource) /\ auths' = Append(auths, authorization))
  BY DEF CommitAuthorize, Answer, catalog
<1>2. \A g \in Handlers : handler'[g].op = "grant" => handler'[g] = handler[g]
  BY <1>1 DEF ReceiptInv, Idle
<1>3. CASE auths' = auths
  BY <1>1, <1>2, <1>3 DEF PackInv
<1>4. CASE Resolves(r.resource) /\ auths' = Append(auths, authorization)
  <2>1. /\ DOMAIN auths' = 1..(Len(auths) + 1) /\ DOMAIN auths = 1..Len(auths)
        /\ Len(auths) \in Nat
        /\ \A a \in DOMAIN auths : auths'[a] = auths[a]
        /\ auths'[Len(auths) + 1] = authorization
    BY <1>4, NewAuthorization, AppendFacts DEF ReceiptInv
  <2>2. r.resource \in Packs => packs[r.resource] = epoch
    BY <1>4 DEF Resolves
  <2>3. \A a \in DOMAIN auths' : auths'[a].resource \in Packs =>
          /\ auths'[a].epoch \in Nat \ {0}
          /\ packs[auths'[a].resource] \in {auths'[a].epoch, Dead}
    BY <2>1, <2>2 DEF PackInv
  <2>4. DOMAIN auths \subseteq DOMAIN auths'
    BY <2>1
  <2> QED
    BY <1>1, <1>2, <2>3, <2>4 DEF PackInv
<1> QED
  BY <1>1, <1>3, <1>4

LEMMA PackValidateKeeps ==
  ASSUME ReceiptInv, PackInv, NEW h \in Handlers, CommitValidate(h)
  PROVE  PackInv'
<1>1. /\ UNCHANGED <<epoch, packs, grants>>
      /\ handler' = [handler EXCEPT ![h] = Idle]
      /\ auths' = auths \/ auths' = [auths EXCEPT ![handler[h].auth].expires = now + TransferTTL]
  BY DEF CommitValidate, Answer, catalog
<1>2. \A g \in Handlers : handler'[g].op = "grant" => handler'[g] = handler[g]
  BY <1>1 DEF ReceiptInv, Idle
<1>3. DOMAIN auths' = DOMAIN auths
  BY <1>1
<1>4. ASSUME NEW a \in DOMAIN auths
      PROVE  auths'[a].resource = auths[a].resource /\ auths'[a].epoch = auths[a].epoch
  <2>1. auths[a] \in AuthRecords
    BY DEF ReceiptInv
  <2>2. \/ auths'[a] = auths[a]
        \/ auths'[a] = [auths[a] EXCEPT !.expires = now + TransferTTL]
    BY <1>1
  <2> QED
    BY <2>1, <2>2 DEF AuthRecords
<1> QED
  BY <1>1, <1>2, <1>3, <1>4 DEF PackInv

LEMMA PackGrantKeeps ==
  ASSUME ReceiptInv, PackInv, NEW h \in Handlers, CommitGrant(h)
  PROVE  PackInv'
<1> DEFINE r == handler[h]
           grant == [subject |-> r.subject, auth |-> r.auth, member |-> r.member,
                     expires |-> now + TransferTTL]
<1>1. /\ UNCHANGED <<epoch, packs, auths>>
      /\ handler' = [handler EXCEPT ![h] = Idle]
      /\ grants' = grants \/ grants' = Append(grants, grant)
      /\ r.op = "grant"
  BY DEF CommitGrant, Answer, catalog
<1>2. \A g \in Handlers : handler'[g].op = "grant" => handler'[g] = handler[g]
  BY <1>1 DEF ReceiptInv, Idle
<1>3. CASE grants' = grants
  BY <1>1, <1>2, <1>3 DEF PackInv
<1>4. CASE grants' = Append(grants, grant)
  <2>1. /\ r.subject \in Subjects /\ r.auth \in DOMAIN auths /\ r.member \in 1..MaxReleases
        /\ DOMAIN auths \subseteq Nat
    BY <1>1 DEF PackInv, ReceiptInv
  <2>2. grant \in GrantRecords
    <3>1. now \in Nat /\ TransferTTL \in Nat
      BY InstallBounds DEF ReceiptInv
    <3>2. r.auth \in Nat
      BY <2>1
    <3> QED
      BY <2>1, <3>1, <3>2 DEF GrantRecords
  <2>3. /\ grants' \in Seq(GrantRecords)
        /\ \A g \in DOMAIN grants' : grants'[g] = grant \/ (g \in DOMAIN grants /\ grants'[g] = grants[g])
    BY <1>4, <2>2 DEF PackInv
  <2> QED
    BY <1>1, <1>2, <2>1, <2>3 DEF PackInv
<1> QED
  BY <1>1, <1>3, <1>4

LEMMA PackStep == ReceiptInv /\ PackInv /\ [Next]_vars => PackInv'
<1> SUFFICES ASSUME ReceiptInv, PackInv, [Next]_vars PROVE PackInv'
  OBVIOUS
<1>1. CASE Environment
  <2>1. UNCHANGED <<auths, grants, handler>>
    BY <1>1, EnvironmentFrame DEF ReceiptInv
  <2>2. packs' \in [Packs -> Int] /\ epoch' \in Nat \ {0}
    BY <1>1, CatalogTypes DEF PackInv
  <2>3. ASSUME NEW a \in DOMAIN auths, auths[a].resource \in Packs
        PROVE  packs'[auths[a].resource] \in {auths[a].epoch, Dead}
    <3>1. /\ auths[a].epoch \in Nat \ {0}
          /\ packs[auths[a].resource] \in {auths[a].epoch, Dead}
      BY <2>3 DEF PackInv
    <3>2. packs[auths[a].resource] # Uncommitted
      BY <3>1 DEF Uncommitted, Dead
    <3> QED
      BY <1>1, <2>3, <3>1, <3>2, PackFrame DEF PackInv
  <2> QED
    BY <2>1, <2>2, <2>3 DEF PackInv
<1>2. CASE Report
  BY <1>2 DEF Report, AcceptReceipt, ReplayReceipt, PackInv, catalog
<1>3. ASSUME NEW h \in Handlers, NEW s \in Subjects, Request(h, s) PROVE PackInv'
  <2>1. /\ UNCHANGED <<epoch, packs, auths, grants>>
        /\ \A g \in Handlers : g # h => handler'[g] = handler[g]
    BY <1>3, RequestFrame DEF ReceiptInv
  <2>2. handler'[h].op = "grant" =>
          /\ handler'[h].subject \in Subjects /\ handler'[h].auth \in DOMAIN auths
          /\ handler'[h].member \in 1..MaxReleases
    BY <1>3, RequestSlot DEF ReceiptInv
  <2> QED
    BY <2>1, <2>2 DEF PackInv
<1>4. ASSUME NEW h \in Handlers, CommitAuthorize(h) PROVE PackInv'
  BY <1>4, PackAuthorizeKeeps
<1>5. ASSUME NEW h \in Handlers, CommitValidate(h) PROVE PackInv'
  BY <1>5, PackValidateKeeps
<1>6. ASSUME NEW h \in Handlers, CommitGrant(h) PROVE PackInv'
  BY <1>6, PackGrantKeeps
<1>7. ASSUME NEW h \in Handlers, FinishTransfer(h) PROVE PackInv'
  <2>1. UNCHANGED <<epoch, packs, auths, grants>> /\ handler' = [handler EXCEPT ![h] = Idle]
    BY <1>7 DEF FinishTransfer, Answer, catalog, records
  <2> QED
    BY <2>1 DEF PackInv, ReceiptInv, Idle
<1>8. CASE UNCHANGED vars
  BY <1>8 DEF PackInv, vars, catalog, records
<1> QED
  BY <1>1, <1>2, <1>3, <1>4, <1>5, <1>6, <1>7, <1>8 DEF Next

\* A transfer begins only under an authorization that resolves.
LEMMA BegunResolves ==
  ASSUME ReceiptInv, PackInv, [Next]_vars, NEW h \in Handlers,
         handler[h].op # "transfer", handler'[h].op = "transfer"
  PROVE  /\ handler'[h].grant \in DOMAIN grants
         /\ Resolves(auths[grants[handler'[h].grant].auth].resource)
<1>1. PICK k \in Handlers, s \in Subjects : Request(k, s)
  <2>1. ~ Environment /\ ~ Report /\ ~ UNCHANGED vars
    BY EnvironmentFrame DEF Report, AcceptReceipt, ReplayReceipt, vars, ReceiptInv
  <2>2. ASSUME NEW k \in Handlers,
               CommitAuthorize(k) \/ CommitValidate(k) \/ CommitGrant(k) \/ FinishTransfer(k)
        PROVE  FALSE
    <3>1. handler' = [handler EXCEPT ![k] = Idle]
      BY <2>2 DEF CommitAuthorize, CommitValidate, CommitGrant, FinishTransfer, Answer
    <3> QED
      BY <3>1 DEF Idle, ReceiptInv
  <2> QED
    BY <2>1, <2>2 DEF Next
<1>2. k = h
  BY <1>1, RequestFrame DEF ReceiptInv
<1> QED
  BY <1>1, <1>2, RequestSlot DEF ReceiptInv

LEMMA BegunUnderOnePolicy ==
  ReceiptInv /\ PackInv /\ [Next]_vars =>
    [\A a \in Begun : a.resource \in Packs => a.epoch = epoch]_vars
<1> SUFFICES ASSUME ReceiptInv, PackInv, [Next]_vars, NEW a \in Begun, a.resource \in Packs
             PROVE  a.epoch = epoch
  OBVIOUS
<1>1. PICK h \in Handlers : /\ handler[h].op # "transfer" /\ handler'[h].op = "transfer"
                            /\ a = auths[grants[handler'[h].grant].auth]
  BY DEF Begun
<1>2. PICK g \in DOMAIN grants : handler'[h].grant = g /\ Resolves(auths[grants[g].auth].resource)
  BY <1>1, BegunResolves
<1>3. packs[a.resource] = epoch
  BY <1>1, <1>2 DEF Resolves
<1>4. grants[g].auth \in DOMAIN auths
  BY DEF PackInv
<1> QED
  BY <1>1, <1>2, <1>3, <1>4 DEF PackInv, Dead

\* A transfer of a member of a pack happens under the policy revision at which
\* the pack was authorized, whatever is admitted again after a policy change.
THEOREM PacksUnderOnePolicy == Spec => PackUnderOnePolicy
BY ReceiptInit, ReceiptStep, PackInit, PackStep, BegunUnderOnePolicy, PTL
   DEF Spec, PackUnderOnePolicy

-----------------------------------------------------------------------------
LEMMA ResolvesNotRevoked ==
  ASSUME NEW x, Resolves(x) PROVE ~ Revoked(x)
BY DEF Resolves, Revoked, Approved

\* An authorization is written only while what it authorizes resolves.
LEMMA WrittenResolves ==
  ASSUME ReceiptInv, PackInv, [Next]_vars, NEW a \in DOMAIN auths',
         ~ (a \in DOMAIN auths /\ auths'[a] = auths[a])
  PROVE  Resolves(auths'[a].resource)
<1>1. ASSUME NEW h \in Handlers, CommitAuthorize(h) PROVE Resolves(auths'[a].resource)
  <2> DEFINE authorization == [subject |-> handler[h].subject, resource |-> handler[h].resource,
                               issued |-> handler[h].at, expires |-> handler[h].at + TransferTTL,
                               epoch |-> epoch]
  <2>1. auths' # auths
    OBVIOUS
  <2>2. auths' = Append(auths, authorization) /\ Resolves(handler[h].resource)
    BY <1>1, <2>1 DEF CommitAuthorize
  <2>3. authorization \in AuthRecords
    BY <1>1, NewAuthorization
  <2>4. a = Len(auths) + 1 /\ auths'[a] = authorization
    BY <2>2, <2>3, AppendFacts DEF ReceiptInv
  <2> QED
    BY <2>2, <2>4
<1>2. ASSUME NEW h \in Handlers, CommitValidate(h) PROVE Resolves(auths'[a].resource)
  <2>1. /\ auths' = [auths EXCEPT ![handler[h].auth].expires = now + TransferTTL]
        /\ Resolves(auths[handler[h].auth].resource)
    BY <1>2 DEF CommitValidate, Usable
  <2>2. a \in DOMAIN auths /\ a = handler[h].auth
    BY <2>1
  <2>3. auths[a] \in AuthRecords
    BY <2>2 DEF ReceiptInv
  <2>4. auths'[a] = [auths[a] EXCEPT !.expires = now + TransferTTL]
    BY <2>1, <2>2
  <2>5. auths'[a].resource = auths[a].resource
    BY <2>3, <2>4 DEF AuthRecords
  <2> QED
    BY <2>1, <2>2, <2>5
<1>3. ~ Environment /\ ~ Report /\ ~ UNCHANGED vars
  BY EnvironmentFrame DEF Report, AcceptReceipt, ReplayReceipt, vars, records, ReceiptInv
<1>4. ASSUME NEW h \in Handlers, NEW s \in Subjects, Request(h, s) PROVE FALSE
  BY <1>4, RequestFrame DEF ReceiptInv
<1>5. ASSUME NEW h \in Handlers, CommitGrant(h) \/ FinishTransfer(h) PROVE FALSE
  BY <1>5 DEF CommitGrant, FinishTransfer, records
<1> QED
  BY <1>1, <1>2, <1>3, <1>4, <1>5 DEF Next

\* A grant is made only under an authorization that resolves.
LEMMA GrantedResolves ==
  ASSUME ReceiptInv, PackInv, [Next]_vars, NEW g \in DOMAIN grants', g \notin DOMAIN grants
  PROVE  Resolves(auths'[grants'[g].auth].resource)
<1>1. ASSUME NEW h \in Handlers, CommitGrant(h)
      PROVE  Resolves(auths'[grants'[g].auth].resource)
  <2> DEFINE grant == [subject |-> handler[h].subject, auth |-> handler[h].auth,
                       member |-> handler[h].member, expires |-> now + TransferTTL]
  <2>1. grants' # grants
    OBVIOUS
  <2>2. /\ grants' = Append(grants, grant) /\ auths' = auths
        /\ Resolves(auths[handler[h].auth].resource)
    BY <1>1, <2>1 DEF CommitGrant, Usable
  <2>3. g = Len(grants) + 1
    BY <2>2 DEF PackInv
  <2>4. grants'[g] = grant
    BY <2>2, <2>3 DEF PackInv
  <2> QED
    BY <2>2, <2>4
<1>2. ~ Environment /\ ~ Report /\ ~ UNCHANGED vars
  BY EnvironmentFrame DEF Report, AcceptReceipt, ReplayReceipt, vars, records, ReceiptInv
<1>3. ASSUME NEW h \in Handlers, NEW s \in Subjects, Request(h, s) PROVE FALSE
  BY <1>3, RequestFrame DEF ReceiptInv
<1>4. ASSUME NEW h \in Handlers,
             CommitAuthorize(h) \/ CommitValidate(h) \/ FinishTransfer(h)
      PROVE  FALSE
  BY <1>4 DEF CommitAuthorize, CommitValidate, FinishTransfer, records
<1> QED
  BY <1>1, <1>2, <1>3, <1>4 DEF Next

LEMMA AccessResolves ==
  ReceiptInv /\ PackInv /\ [Next]_vars =>
    [/\ \A a \in DOMAIN auths' :
          (a \in AuthIds /\ auths'[a] = auths[a]) \/ ~ Revoked(auths'[a].resource)
     /\ \A g \in DOMAIN grants' :
          g \in DOMAIN grants \/ ~ Revoked(auths'[grants'[g].auth].resource)
     /\ \A a \in Begun : ~ Revoked(a.resource)]_vars
<1> SUFFICES ASSUME ReceiptInv, PackInv, [Next]_vars
             PROVE  /\ \A a \in DOMAIN auths' :
                         (a \in AuthIds /\ auths'[a] = auths[a]) \/ ~ Revoked(auths'[a].resource)
                    /\ \A g \in DOMAIN grants' :
                         g \in DOMAIN grants \/ ~ Revoked(auths'[grants'[g].auth].resource)
                    /\ \A a \in Begun : ~ Revoked(a.resource)
  OBVIOUS
<1>1. ASSUME NEW a \in DOMAIN auths', ~ (a \in AuthIds /\ auths'[a] = auths[a])
      PROVE  ~ Revoked(auths'[a].resource)
  BY <1>1, WrittenResolves, ResolvesNotRevoked DEF AuthIds
<1>2. ASSUME NEW g \in DOMAIN grants', g \notin DOMAIN grants
      PROVE  ~ Revoked(auths'[grants'[g].auth].resource)
  BY <1>2, GrantedResolves, ResolvesNotRevoked
<1>3. ASSUME NEW a \in Begun PROVE ~ Revoked(a.resource)
  <2>1. PICK h \in Handlers : /\ handler[h].op # "transfer" /\ handler'[h].op = "transfer"
                              /\ a = auths[grants[handler'[h].grant].auth]
    BY <1>3 DEF Begun
  <2> QED
    BY <2>1, BegunResolves, ResolvesNotRevoked
<1> QED
  BY <1>1, <1>2, <1>3

\* Once a member of it is revoked, nothing more is issued, renewed, granted or
\* begun for a resource, whatever the requests under way had read.
THEOREM RevocationIsFinal == Spec => RevocationEndsAccess
BY ReceiptInit, ReceiptStep, PackInit, PackStep, AccessResolves, PTL
   DEF Spec, RevocationEndsAccess
=============================================================================
