----------------------------- MODULE Admission ------------------------------
(***************************************************************************)
(* What the registry promises its readers about releases, without jobs,    *)
(* leases, evidence or clocks.  A release is withheld, installable or      *)
(* revoked.  Admissions happen one release at a time and under the policy  *)
(* in force; a change of policy withdraws every admission at once; time    *)
(* and failures only withdraw; revocation is final.                        *)
(***************************************************************************)
EXTENDS Naturals, Sequences

VARIABLES
  standing,  \* per release, in order of publication
  epoch      \* counts policy changes

Standings == {"withheld", "installable", "revoked"}

Init == standing = <<>> /\ epoch = 1

\* A new release.  An import may be admitted in the step that creates it.
Release(s) ==
  /\ standing' = Append(standing, s)
  /\ UNCHANGED epoch

Admit(k) ==
  /\ standing[k] = "withheld"
  /\ standing' = [standing EXCEPT ![k] = "installable"]
  /\ UNCHANGED epoch

Withhold(ks) ==
  /\ \A k \in ks : standing[k] = "installable"
  /\ standing' = [k \in DOMAIN standing |-> IF k \in ks THEN "withheld" ELSE standing[k]]
  /\ UNCHANGED epoch

ChangePolicy ==
  /\ epoch' = epoch + 1
  /\ standing' = [k \in DOMAIN standing |->
                    IF standing[k] = "revoked" THEN "revoked" ELSE "withheld"]

Revoke(k) ==
  /\ standing' = [standing EXCEPT ![k] = "revoked"]
  /\ UNCHANGED epoch

Next ==
  \/ \E s \in {"withheld", "installable"} : Release(s)
  \/ \E k \in DOMAIN standing : Admit(k) \/ Revoke(k)
  \/ \E ks \in SUBSET DOMAIN standing : Withhold(ks)
  \/ ChangePolicy

Spec == Init /\ [][Next]_<<standing, epoch>>
=============================================================================
