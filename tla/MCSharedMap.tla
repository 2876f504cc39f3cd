---------------------------- MODULE MCSharedMap ----------------------------
(***************************************************************************)
(* Instances of SharedMap for TLC.                                         *)
(***************************************************************************)
EXTENDS SharedMap, TLC

CONSTANTS n1, n2, a, b, one, text

MCTypeOf == [v \in Values |-> IF v = text THEN "string" ELSE "integer"]

\* Writes of two types and a delete of one key, a write of another.
MCOps ==
  LET op(kind, name, v) ==
        [kind |-> kind, key |-> [ns |-> n1, name |-> name], val |-> v, idem |-> FALSE]
  IN  {op("write", a, one), op("write", a, text), op("delete", a, one), op("write", b, one)}

ThreadSymmetry == Permutations(Threads)
=============================================================================
