---------------------------- MODULE MCRepository ----------------------------
(* A small instance of Repository for TLC. *)
EXTENDS Repository

CONSTANTS r1, r2, l1, l2
=============================================================================
