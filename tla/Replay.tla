------------------------------- MODULE Replay -------------------------------
(***************************************************************************)
(* Replay and checkpoint verification (src/src/replay.rs): one engine that *)
(* replays a log from its first event, and one that starts at a TICK_SEAL  *)
(* from the snapshot of the state there, as `verify --checkpoint-root`     *)
(* does.  Each step hands the next event of the log to both, one iteration *)
(* of the loop of replay_with_snapshot; the events come from outside, so   *)
(* that all logs are covered, those no append would have produced too.     *)
(***************************************************************************)
EXTENDS Engine

CONSTANTS
  Kinds,    \* bound: the kinds of events in the log
  Ops,      \* bound: the operations in it
  Ticks,    \* bound: its ticks
  Times,    \* bound: its seal times
  Forging,  \* bound: whether it has misplaced, repeated and forged events
  MaxBatch, \* bound: operations of a batch
  MaxLen    \* bound: its length

ASSUME KindAssumption == Kinds \subseteq AllKinds
ASSUME OpAssumption == Ops \subseteq Op
ASSUME ClockAssumption == Ticks \subseteq Nat /\ Times \subseteq Nat \union {None}
ASSUME LengthAssumption == Forging \in BOOLEAN /\ MaxLen \in Nat /\ MaxBatch \in Nat \ {0}

VARIABLES
  log,   \* the events handed out so far
  full,  \* the engine that started at the first event
  at,    \* position of the checkpoint, 0 for none
  tail   \* the engine that started after the checkpoint

vars == <<log, full, at, tail>>

Running == full.status = "ok" \/ (at # 0 /\ tail.status = "ok")

Init ==
  /\ log = << >>
  /\ full = FromGenesis
  /\ at = 0
  /\ tail = FromGenesis

-----------------------------------------------------------------------------
(* The events offered: the one that belongs here, or, with Forging, one that *)
(* is repeated, misplaced or forged; a seal of the right root, of another or *)
(* of none.                                                                  *)

\* A batch may have no operation at all.
OpsFor(kind) ==
  CASE kind \in {"write", "delete"} -> {<<op>> : op \in {o \in Ops : o.kind = kind}}
    [] kind = "batch" -> UNION {[1..n -> Ops] : n \in 0..MaxBatch}
    [] OTHER -> {<< >>}

RootsFor(kind) ==
  IF kind \in {"seal", "compact"} THEN {full.map, tail.map, EmptyMap, None} ELSE {None}

TimesFor(kind) == IF kind = "seal" THEN Times ELSE {None}

SeqsOffered == IF Forging THEN 0..(Len(log) + 1) ELSE {Len(log)}

HeadsOffered ==
  IF Forging THEN {Genesis} \union {DigestOf(log[i]) : i \in DOMAIN log}
  ELSE {IF log = << >> THEN Genesis ELSE DigestOf(log[Len(log)])}

\* The loop takes the next event of the log.
Feed ==
  /\ Running
  /\ Len(log) < MaxLen
  /\ \E kind \in Kinds, ns \in Namespaces, seq \in SeqsOffered, tick \in Ticks,
        prev \in HeadsOffered, genuine \in BOOLEAN :
       \E ops \in OpsFor(kind), root \in RootsFor(kind), ts \in TimesFor(kind) :
         LET e == [body |-> [kind |-> kind, ns |-> ns, seq |-> seq, tick |-> tick,
                             ops |-> ops, root |-> root, ts |-> ts],
                   prev |-> prev, genuine |-> genuine]
         IN  /\ log' = Append(log, e)
             /\ full' = Advance(full, e)
             /\ tail' = IF at = 0 THEN tail ELSE Advance(tail, e)
  /\ UNCHANGED at

\* A checkpoint one position too far.
Resume_PastSeal ==
  /\ at = 0
  /\ log # << >>
  /\ log[Len(log)].body.kind = "seal"
  /\ full.status = "ok"
  /\ at' = Len(log) + 1
  /\ tail' = FromSnapshot(SnapshotAt(log[Len(log)], full.map))
  /\ UNCHANGED <<log, full>>

\* verify_events takes the last event for its checkpoint: the events up to it
\* are replayed, the rest goes to an engine that starts from the snapshot.
Resume ==
  /\ at = 0
  /\ log # << >>
  /\ log[Len(log)].body.kind = "seal"
  /\ full.status = "ok"
  /\ at' = Len(log)
  /\ tail' = FromSnapshot(SnapshotAt(log[Len(log)], full.map))
  /\ UNCHANGED <<log, full>>

Next == Feed \/ Resume

Spec == Init /\ [][Next]_vars

\* What verify_events says in the end: a root that more than one TICK_SEAL has
\* is no checkpoint.
Verdict ==
  IF \E i \in DOMAIN log \ {at} :
       log[i].body.kind = "seal" /\ log[i].body.root = log[at].body.root
  THEN "STATE_MISMATCH"
  ELSE tail.status

-----------------------------------------------------------------------------

TypeOK ==
  /\ log \in Seq(Event)
  /\ full \in Engine
  /\ at \in 0..Len(log)
  /\ tail \in Engine

\* The positions of the operations on key k in the first n events.
Touching(n, k) ==
  {p \in (1..n) \X (1..MaxBatch) :
     /\ p[2] \in DOMAIN log[p[1]].body.ops
     /\ log[p[1]].body.ops[p[2]].key = k}

OpAt(p) == log[p[1]].body.ops[p[2]]

Before(p, q) == p[1] < q[1] \/ (p[1] = q[1] /\ p[2] < q[2])

LastOn(n, k) ==
  OpAt(CHOOSE p \in Touching(n, k) : \A q \in Touching(n, k) \ {p} : Before(q, p))

\* The state after n events, said without replaying: a key has the value of the
\* last operation on it, unless that was a delete.
MapAfter(n) ==
  [k \in {x \in Key : Touching(n, x) # {} /\ LastOn(n, x).kind = "write"} |-> LastOn(n, k).val]

\* Replay, batches included, gives the state the log says.
MapIsLastWrite == full.status = "ok" => full.map = MapAfter(Len(log))

\* In a log that replays, two writes of a key without a delete of it in between
\* have values of one type, also within a batch.
TypesHeld ==
  full.status = "ok" =>
    \A k \in Key : \A p, q \in Touching(Len(log), k) :
      \/ TypeOf[OpAt(p).val] = TypeOf[OpAt(q).val]
      \/ \E r \in Touching(Len(log), k) :
           OpAt(r).kind = "delete" /\ ~Before(r, p) /\ ~Before(q, r)
      \/ Before(q, p)

\* In a log that replays, each TICK_SEAL and COMPACT commits to the state of
\* the events before it, of which there is one tenant.
SealsCommit ==
  full.status = "ok" =>
    \A i \in DOMAIN log :
      /\ log[i].body.kind \in {"seal", "compact"} => log[i].body.root = MapAfter(i)
      /\ \A k \in DOMAIN MapAfter(i) : k.ns = log[1].body.ns

\* In a log that replays, seal times never go back, nor do ticks, but for the
\* events of tick 0.
ClocksForward ==
  full.status = "ok" =>
    \A i, j \in DOMAIN log :
      i < j =>
        /\ log[i].body.kind = "seal" /\ log[j].body.kind = "seal" =>
             log[i].body.ts <= log[j].body.ts
        /\ log[j].body.tick > 0 => log[i].body.tick <= log[j].body.tick

\* Verification from a checkpoint accepts what replay accepts, with the same
\* state.
CheckpointComplete ==
  at # 0 /\ full.status = "ok" => tail.status = "ok" /\ tail.map = full.map

\* Verification from a checkpoint of a positive tick accepts nothing else.
CheckpointSound ==
  at # 0 /\ log[at].body.tick > 0 /\ Verdict = "ok" =>
    full.status = "ok" /\ full.map = tail.map

\* The duplicate detection never finds anything: no two events of a chain have
\* one digest, and an event repeated in the log fails an earlier check.
NeverDuplicate ==
  /\ full.status # "DUPLICATE_EVENT"
  /\ full.status = "ok" => Len(full.prev) = full.seq /\ \A d \in full.seen : Len(d) <= full.seq
=============================================================================
