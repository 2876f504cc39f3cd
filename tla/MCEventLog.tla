----------------------------- MODULE MCEventLog -----------------------------
(***************************************************************************)
(* Instances of EventLog for TLC.                                          *)
(***************************************************************************)
EXTENDS EventLog, TLC

CONSTANTS n1, n2, small, large, huge

\* One byte per ordinary line, more for the payloads that fill a segment.
MCSize == [p \in Payloads |-> IF p = huge THEN 4 ELSE IF p = large THEN 2 ELSE 1]

WriterSymmetry == Permutations(Writers)
=============================================================================
