-------------------------- MODULE MCSnapshotCache --------------------------
(***************************************************************************)
(* Instances of SnapshotCache for TLC.                                     *)
(***************************************************************************)
EXTENDS SnapshotCache, TLC

CONSTANTS n1, a, one

MCTypeOf == [v \in Values |-> "integer"]

TheKey == [ns |-> n1, name |-> a]

\* Two writes that leave the same state with another history.
MCOps == {[kind |-> "write", key |-> TheKey, val |-> one, idem |-> i] : i \in BOOLEAN}

MCRoots == {EmptyMap, [k \in {TheKey} |-> one]}

MCShapes == {<<"seal">>, <<"write", "seal">>, <<"seal", "write", "seal">>}

WriterSymmetry == Permutations(Writers)
=============================================================================
