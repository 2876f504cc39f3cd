----------------------------- MODULE MCMigration -----------------------------
(***************************************************************************)
(* Instances of Migration for TLC.                                         *)
(***************************************************************************)
EXTENDS Migration

CONSTANTS n1, n2, small, large

\* A large line fills a segment of three bytes with a small one.
MCSize == [p \in Payloads |-> IF p = large THEN 2 ELSE 1]

ProcessSymmetry == Permutations(Writers)
=============================================================================
