---------------------------- MODULE AtomicStore ----------------------------
(***************************************************************************)
(* What StateRepository.transaction promises its callers: an update takes  *)
(* effect at most once, in one step, on the state the updates before it    *)
(* left.  A transaction that returned its result has taken effect, one     *)
(* that ended in a conflict never does, and one that failed otherwise may  *)
(* have, or still may.                                                     *)
(***************************************************************************)
EXTENDS Sequences

CONSTANT Transactions

VARIABLES log,     \* the updates that took effect, in order
          outcome  \* what each transaction was told

Applied(t) == \E n \in DOMAIN log : log[n] = t

Init == log = <<>> /\ outcome = [t \in Transactions |-> "pending"]

Apply(t) ==
  /\ ~ Applied(t)
  /\ outcome[t] \in {"pending", "error"}
  /\ log' = Append(log, t)
  /\ UNCHANGED outcome

Return(t, o) ==
  /\ outcome[t] = "pending"
  /\ o = "ok" => Applied(t)
  /\ o = "conflict" => ~ Applied(t)
  /\ outcome' = [outcome EXCEPT ![t] = o]
  /\ UNCHANGED log

\* The process that ran some of the transactions ends.
Fail(ts) ==
  /\ \A t \in ts : outcome[t] = "pending"
  /\ outcome' = [t \in Transactions |-> IF t \in ts THEN "error" ELSE outcome[t]]
  /\ UNCHANGED log

Next ==
  \/ \E t \in Transactions : Apply(t) \/ \E o \in {"ok", "conflict", "error"} : Return(t, o)
  \/ \E ts \in SUBSET Transactions : Fail(ts)

Spec == Init /\ [][Next]_<<log, outcome>>
=============================================================================
