--------------------------- MODULE SnapshotCache ---------------------------
(***************************************************************************)
(* The snapshot cache of checkpoints (src/src/event_log.rs): append_batch, *)
(* once it has written a batch and let go of the lock, writes a snapshot   *)
(* for every TICK_SEAL of it, and `verify --checkpoint-root` starts from   *)
(* the snapshot it finds.  The lock protects none of this: writers race    *)
(* with each other and with verifiers on one file per root.                *)
(*                                                                         *)
(* The writing of the batch itself is one step here; EventLog has what it  *)
(* is made of, and LogReaders that a load sees all that was appended       *)
(* before it.  A file is written in two halves, the least that tears.      *)
(***************************************************************************)
EXTENDS Engine

CONSTANTS
  Writers,    \* processes that append
  Verifiers,  \* processes that verify from a checkpoint
  Shapes,     \* bound: the kinds of the events of a batch
  Ops,        \* bound: the operations of writes and deletes
  Roots,      \* bound: the roots seals claim and verifiers ask for
  MaxLen,     \* bound: length of a log
  MaxFaults   \* bound: writers killed, calls failed, logs damaged or thrown away

ASSUME ShapeAssumption == Shapes \subseteq Seq({"write", "delete", "seal"})
ASSUME CacheOpAssumption == Ops \subseteq Op /\ Roots \subseteq StateMap
ASSUME BoundAssumption == MaxLen \in Nat /\ MaxFaults \in Nat

\* A snapshot file holds one of these, or nothing.
Snapshot == [ns : Namespaces, tick : Nat, seq : Nat, ts : Nat, digest : Digest, map : StateMap]

ASSUME NoSnapshotAssumption == None \notin Snapshot

VARIABLES
  log,      \* the events on the disk
  files,    \* root |-> the two halves of its snapshot file, None where unwritten
  writer,   \* what each writer is doing
  acked,    \* the seals of the appends that returned Ok
  verifier, \* what each verifier is doing
  faults

vars == <<log, files, writer, acked, verifier, faults>>

\* pc of a writer: "idle", "next" (the next root), "open", "first", "second"
\* (halves to write).  append_batch returned Err with what the replay or the
\* comparison of roots found ("refused"), or with the error of a load, of
\* create_dir_all or of fs::write ("failed").
IdleWriter == [pc |-> "idle", todo |-> << >>, batch |-> << >>, snap |-> None]

\* A verifier has loaded `seen` ("loaded"), and then what the cache had ("read").
IdleVerifier == [pc |-> "idle", seen |-> << >>, root |-> EmptyMap, cached |-> None]

NoFile == <<None, None>>

Init ==
  /\ log = << >>
  /\ files = [root \in Roots |-> NoFile]
  /\ writer = [w \in Writers |-> IdleWriter]
  /\ acked = {}
  /\ verifier = [v \in Verifiers |-> IdleVerifier]
  /\ faults = 0

-----------------------------------------------------------------------------
(* Appending. *)

\* A seal, or a write or delete of one key, as the fields of an event.
BodiesOf(kind, seq) ==
  {[kind |-> kind, ns |-> ns, seq |-> seq, tick |-> 1, ops |-> ops, root |-> root, ts |-> ts] :
     ns \in Namespaces,
     ops \in IF kind = "seal" THEN {<< >>} ELSE {<<op>> : op \in {o \in Ops : o.kind = kind}},
     root \in IF kind = "seal" THEN Roots ELSE {None},
     ts \in IF kind = "seal" THEN {1} ELSE {None}}

LastDigest == IF log = << >> THEN Genesis ELSE DigestOf(log[Len(log)])

\* The batches of one shape that append_batch takes at the end of the log.
BatchesOf(shape) ==
  {[i \in DOMAIN shape |->
      [body |-> bodies[i], prev |-> LastDigest \o SubSeq(bodies, 1, i - 1), genuine |-> TRUE]] :
     bodies \in {b \in [DOMAIN shape -> UNION {BodiesOf(shape[i], Len(log) + i - 1) : i \in DOMAIN shape}] :
                   \A i \in DOMAIN shape : b[i] \in BodiesOf(shape[i], Len(log) + i - 1)}}

\* The roots of the seals of a batch, in their order.
SealedRoots(batch) ==
  LET roots[i \in 0..Len(batch)] ==
        IF i = 0 THEN << >>
        ELSE IF batch[i].body.kind = "seal" THEN Append(roots[i - 1], batch[i].body.root)
        ELSE roots[i - 1]
  IN  roots[Len(batch)]

\* Only the last seal of a batch gets its snapshot.
Append_LastSeal(w) ==
  /\ writer[w].pc = "idle"
  /\ \E shape \in Shapes : \E batch \in BatchesOf(shape) :
       /\ Len(log) + Len(batch) <= MaxLen
       /\ log' = log \o batch
       /\ LET roots == SealedRoots(batch)
          IN  writer' = [writer EXCEPT ![w] =
                           [pc |-> "next", snap |-> None, batch |-> batch,
                            todo |-> SubSeq(roots, Len(roots), Len(roots))]]
  /\ UNCHANGED <<files, acked, verifier, faults>>

\* append_batch_under_lock: the batch is durable, the lock is free again.
AppendBatch(w) ==
  /\ writer[w].pc = "idle"
  /\ \E shape \in Shapes : \E batch \in BatchesOf(shape) :
       /\ Len(log) + Len(batch) <= MaxLen
       /\ log' = log \o batch
       /\ writer' = [writer EXCEPT ![w] =
                       [pc |-> "next", snap |-> None, batch |-> batch,
                        todo |-> SealedRoots(batch)]]
  /\ UNCHANGED <<files, acked, verifier, faults>>

\* The first seal of the root in the log.
FirstSeal(root) ==
  CHOOSE i \in SealsOf(log, root) : \A j \in SealsOf(log, root) : i <= j

\* A snapshot of the last seal with the root.
Persist_LastSeal(w) ==
  /\ writer[w].pc = "next"
  /\ writer[w].todo # << >>
  /\ LET root == writer[w].todo[1]
         at == CHOOSE i \in SealsOf(log, root) : \A j \in SealsOf(log, root) : j <= i
         state == Replayed(FromGenesis, SubSeq(log, 1, at))
     IN  writer' = IF state.status = "ok" /\ state.map = root
                   THEN [writer EXCEPT ![w].pc = "open",
                                       ![w].snap = SnapshotAt(log[at], state.map)]
                   ELSE [writer EXCEPT ![w].pc = "refused"]
  /\ UNCHANGED <<log, files, acked, verifier, faults>>

\* persist_snapshot_for_root up to the write: the log is loaded again, replayed
\* up to the first seal with the root, and to_binary compares the roots.
Persist(w) ==
  /\ writer[w].pc = "next"
  /\ writer[w].todo # << >>
  /\ LET root == writer[w].todo[1]
         at == FirstSeal(root)
         state == Replayed(FromGenesis, SubSeq(log, 1, at))
     IN  writer' = IF state.status = "ok" /\ state.map = root
                   THEN [writer EXCEPT ![w].pc = "open",
                                       ![w].snap = SnapshotAt(log[at], state.map)]
                   ELSE [writer EXCEPT ![w].pc = "refused"]
  /\ UNCHANGED <<log, files, acked, verifier, faults>>

\* fs::write: the file is opened and cut to nothing.
Truncate(w) ==
  /\ writer[w].pc = "open"
  /\ files' = [files EXCEPT ![writer[w].todo[1]] = NoFile]
  /\ writer' = [writer EXCEPT ![w].pc = "first"]
  /\ UNCHANGED <<log, acked, verifier, faults>>

\* Each half goes where this writer's file has it, whoever has cut the file
\* since.
WriteFirst(w) ==
  /\ writer[w].pc = "first"
  /\ files' = [files EXCEPT ![writer[w].todo[1]][1] = writer[w].snap]
  /\ writer' = [writer EXCEPT ![w].pc = "second"]
  /\ UNCHANGED <<log, acked, verifier, faults>>

WriteSecond(w) ==
  /\ writer[w].pc = "second"
  /\ files' = [files EXCEPT ![writer[w].todo[1]][2] = writer[w].snap]
  /\ writer' = [writer EXCEPT ![w].pc = "next", ![w].todo = Tail(@), ![w].snap = None]
  /\ UNCHANGED <<log, acked, verifier, faults>>

\* The append is undone when its snapshot cannot be written.
PersistFails_Undo(w) ==
  /\ \/ writer[w].pc = "next" /\ writer[w].todo # << >>
     \/ writer[w].pc \in {"open", "first", "second"}
  /\ faults < MaxFaults
  /\ faults' = faults + 1
  /\ log' = SubSeq(log, 1, writer[w].batch[1].body.seq)
  /\ writer' = [writer EXCEPT ![w].pc = "failed", ![w].snap = None]
  /\ UNCHANGED <<files, acked, verifier>>

\* A load, create_dir_all or fs::write fails on the way, and append_batch passes
\* the error on.  What is in the file stays; the events were durable before.
PersistFails(w) ==
  /\ \/ writer[w].pc = "next" /\ writer[w].todo # << >>
     \/ writer[w].pc \in {"open", "first", "second"}
  /\ faults < MaxFaults
  /\ faults' = faults + 1
  /\ writer' = [writer EXCEPT ![w].pc = "failed", ![w].snap = None]
  /\ UNCHANGED <<log, files, acked, verifier>>

\* append_batch returns Ok after the last root.
Acknowledge(w) ==
  /\ writer[w].pc = "next"
  /\ writer[w].todo = << >>
  /\ acked' = acked \union {writer[w].batch[i] : i \in DOMAIN writer[w].batch}
  /\ writer' = [writer EXCEPT ![w] = IdleWriter]
  /\ UNCHANGED <<log, files, verifier, faults>>

\* The caller of a refused append goes on to something else.
GiveUp(w) ==
  /\ writer[w].pc \in {"refused", "failed"}
  /\ writer' = [writer EXCEPT ![w] = IdleWriter]
  /\ UNCHANGED <<log, files, acked, verifier, faults>>

\* A writer is killed; what it wrote of a file stays.  Killed before the first
\* root, it leaves what a batch rejected in its middle leaves: events in the
\* log, and no snapshot.
Crash(w) ==
  /\ writer[w].pc \in {"next", "open", "first", "second"}
  /\ faults < MaxFaults
  /\ faults' = faults + 1
  /\ writer' = [writer EXCEPT ![w] = IdleWriter]
  /\ UNCHANGED <<log, files, acked, verifier>>

-----------------------------------------------------------------------------
(* Verifying. *)

\* `verify` loads the log.
Load(v) ==
  /\ verifier[v].pc = "idle"
  /\ log # << >>
  /\ \E root \in Roots :
       verifier' = [verifier EXCEPT ![v] =
                      [pc |-> "loaded", seen |-> log, root |-> root, cached |-> None]]
  /\ UNCHANGED <<log, files, writer, acked, faults>>

\* load_snapshot_for_root, its errors taken for no snapshot: what does not
\* decode to the root it says is torn.
FileSays(root) ==
  IF files[root][1] = files[root][2] THEN files[root][1] ELSE None

ReadCache(v) ==
  /\ verifier[v].pc = "loaded"
  /\ verifier' = [verifier EXCEPT ![v].pc = "read",
                                  ![v].cached = FileSays(verifier[v].root)]
  /\ UNCHANGED <<log, files, writer, acked, faults>>

\* The verdict is out.
Report(v) ==
  /\ verifier[v].pc = "read"
  /\ verifier' = [verifier EXCEPT ![v] = IdleVerifier]
  /\ UNCHANGED <<log, files, writer, acked, faults>>

-----------------------------------------------------------------------------
(* What happens to the files behind the program's back. *)

\* A line is damaged: its event no longer hashes to the digest in it.
DamageLine ==
  /\ faults < MaxFaults
  /\ faults' = faults + 1
  /\ \E i \in DOMAIN log :
       log[i].genuine /\ log' = [log EXCEPT ![i].genuine = FALSE]
  /\ UNCHANGED <<files, writer, acked, verifier>>

\* The log is thrown away and begun anew; the snapshots are in a directory of
\* their own and stay.
DiscardLog ==
  /\ faults < MaxFaults
  /\ faults' = faults + 1
  /\ log # << >>
  /\ \A w \in Writers : writer[w].pc = "idle"
  /\ log' = << >>
  /\ acked' = {}
  /\ UNCHANGED <<files, writer, verifier>>

Next ==
  \/ \E w \in Writers :
       \/ AppendBatch(w) \/ Persist(w) \/ Truncate(w) \/ WriteFirst(w) \/ WriteSecond(w)
       \/ PersistFails(w) \/ Acknowledge(w) \/ GiveUp(w) \/ Crash(w)
  \/ \E v \in Verifiers : Load(v) \/ ReadCache(v) \/ Report(v)
  \/ DamageLine \/ DiscardLog

Spec == Init /\ [][Next]_vars

-----------------------------------------------------------------------------

\* The verdict of a verifier, and the one it would have come to without the cache.
Verdict(v) == VerifyEvents(verifier[v].seen, verifier[v].root, verifier[v].cached)
PlainVerdict(v) == VerifyEvents(verifier[v].seen, verifier[v].root, None)

Undamaged(events) == \A i \in DOMAIN events : events[i].genuine

\* Of an undamaged log, verification with whatever the cache held says what
\* verification without it does: no torn file, no file of a log that was thrown
\* away, no seal of the same root elsewhere in the log makes a difference.
CacheTransparent ==
  \A v \in Verifiers :
    verifier[v].pc = "read" /\ Undamaged(verifier[v].seen) => Verdict(v) = PlainVerdict(v)

\* A verdict of OK says that no line is damaged from the checkpoint on, and
\* none at all when there was no snapshot to start from.
DamageNoticed ==
  \A v \in Verifiers :
    verifier[v].pc = "read" /\ Verdict(v).status = "ok" =>
      LET seen == verifier[v].seen
          at == CHOOSE i \in SealsOf(seen, verifier[v].root) : TRUE
      IN  /\ Undamaged(SubSeq(seen, at, Len(seen)))
          /\ verifier[v].cached = None => Undamaged(seen)

\* Writers that race on the file of one root write the same snapshot: that of
\* the first seal with the root.
OneSnapshotPerRoot ==
  \A w1, w2 \in Writers :
    writer[w1].snap # None /\ writer[w2].snap # None /\ writer[w1].todo[1] = writer[w2].todo[1]
      => writer[w1].snap = writer[w2].snap

\* Once an append is acknowledged, the root of each of its seals, if the log
\* has it once, can be verified from the cache.
AckedServed ==
  \A i \in DOMAIN log :
    /\ log[i] \in acked
    /\ log[i].body.kind = "seal"
    /\ Cardinality(SealsOf(log, log[i].body.root)) = 1
    => FileSays(log[i].body.root) # None /\ Matches(FileSays(log[i].body.root), log[i])

\* An event as it was appended is at its place in the log, damaged since or not.
Appended(e) ==
  /\ e.body.seq + 1 \in DOMAIN log
  /\ log[e.body.seq + 1].body = e.body
  /\ log[e.body.seq + 1].prev = e.prev

\* A seal that the log has once verifies from what is left of its snapshot.
Verifiable(e) ==
  e.body.kind = "seal" /\ Cardinality(SealsOf(log, e.body.root)) = 1
    => VerifyEvents(log, e.body.root, FileSays(e.body.root)).status = "ok"

\* An append that returns Err after its batch was written has all of the batch
\* in the log, so that a retry is a collision.  It was refused because the log
\* does not replay; if a call failed and the log does replay, it lacks nothing
\* but the snapshot: its roots verify.
RefusedIsAppended ==
  \A w \in Writers :
    LET me == writer[w]
        replays == Replayed(FromGenesis, log).status = "ok"
    IN  me.pc \in {"refused", "failed"} =>
          /\ \A i \in DOMAIN me.batch : Appended(me.batch[i])
          /\ me.pc = "refused" => ~replays
          /\ replays => \A i \in DOMAIN me.batch : Verifiable(me.batch[i])
=============================================================================
