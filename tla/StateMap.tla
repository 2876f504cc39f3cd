------------------------------ MODULE StateMap ------------------------------
(***************************************************************************)
(* The state TRI-SYNC rebuilds from a log (src/src/state_map.rs): typed    *)
(* values by key, each key owned by a namespace.  Root digests are SHA-256 *)
(* of a canonical encoding and are modelled as the map they commit to.     *)
(***************************************************************************)
EXTENDS Naturals, Sequences

CONSTANTS
  Namespaces,  \* tenants
  Names,       \* what a key says after its namespace
  Values,      \* typed values
  TypeOf       \* the type tag of a value

ASSUME TypeOfAssumption == DOMAIN TypeOf = Values

Key == [ns : Namespaces, name : Names]

\* validate_key: a key is prefixed with the namespace of its event.
OwnKey(ns, k) == k.ns = ns

StateMap == UNION {[D -> Values] : D \in SUBSET Key}
EmptyMap == [k \in {} |-> k]

Put(map, k, v) == [x \in DOMAIN map \union {k} |-> IF x = k THEN v ELSE map[x]]
RemoveKey(map, k) == [x \in DOMAIN map \ {k} |-> map[x]]

\* One write or delete: of a STATE_WRITE or STATE_DELETE, or of a STATE_BATCH.
\* A delete has no value, any member of Values stands in for it.
Op == [kind : {"write", "delete"}, key : Key, val : Values, idem : BOOLEAN]

\* A write may not change the type of a value, a delete needs its key to be
\* there unless it is idempotent.
Applicable(map, op) ==
  IF op.kind = "write"
  THEN op.key \in DOMAIN map => TypeOf[map[op.key]] = TypeOf[op.val]
  ELSE op.key \in DOMAIN map \/ op.idem

\* An idempotent delete that deletes nothing.
ApplyOp_Lenient(map, op) ==
  IF op.kind = "write" THEN Put(map, op.key, op.val)
  ELSE IF op.idem THEN map ELSE RemoveKey(map, op.key)

ApplyOp(map, op) ==
  IF op.kind = "write" THEN Put(map, op.key, op.val) ELSE RemoveKey(map, op.key)

\* The staged map after the first i operations of a batch.
Staged(map, ops) ==
  LET after[i \in 0..Len(ops)] == IF i = 0 THEN map ELSE ApplyOp(after[i - 1], ops[i])
  IN  after

\* A batch whose operations are checked against the map before the batch.
AllApplicable_Unstaged(map, ops) == \A i \in DOMAIN ops : Applicable(map, ops[i])

\* Every operation of a batch is checked against the map the ones before left.
AllApplicable(map, ops) ==
  \A i \in DOMAIN ops : Applicable(Staged(map, ops)[i - 1], ops[i])

AfterOps(map, ops) == Staged(map, ops)[Len(ops)]
=============================================================================
