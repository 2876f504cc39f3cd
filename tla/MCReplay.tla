------------------------------ MODULE MCReplay ------------------------------
(***************************************************************************)
(* Instances of Replay for TLC.                                            *)
(***************************************************************************)
EXTENDS Replay

CONSTANTS n1, n2, a, b, one, text

MCTypeOf == [v \in Values |-> IF v = text THEN "string" ELSE "integer"]

OwnKeys == {[ns |-> n1, name |-> x] : x \in Names}

\* Writes and deletes of the tenant's own keys, idempotent or not.
OwnOps ==
  {[kind |-> "write", key |-> k, val |-> v, idem |-> FALSE] : k \in OwnKeys, v \in Values}
    \union
  {[kind |-> "delete", key |-> k, val |-> one, idem |-> i] : k \in OwnKeys, i \in BOOLEAN}

\* One idempotent write, of a key of either tenant.
AnyOps == {[kind |-> "write", key |-> k, val |-> one, idem |-> TRUE] : k \in Key}

\* One idempotent write of the first tenant's key; the other one may claim it.
OneOp == {op \in AnyOps : op.key.ns = n1}
=============================================================================
