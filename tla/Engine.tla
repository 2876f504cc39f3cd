------------------------------- MODULE Engine -------------------------------
(***************************************************************************)
(* Events and the replay engine (src/src/replay.rs): the loop of           *)
(* replay_with_snapshot one event at a time, the snapshots it may start    *)
(* from, and the verification of a log from a checkpoint.                  *)
(*                                                                         *)
(* A digest is the history it commits to: the bodies of the events before  *)
(* and of the event itself.                                                *)
(***************************************************************************)
EXTENDS StateMap, FiniteSets

CONSTANT None    \* an absent optional field

ASSUME NoneAssumption == None \notin Nat \union StateMap \union Namespaces

AllKinds == {"write", "delete", "batch", "seal", "compact", "error"}

\* What the digest of an event covers besides the digest of the one before.
\* `root` is root_digest of a TICK_SEAL and snapshot_digest of a COMPACT.
Body == [kind : AllKinds, ns : Namespaces, seq : Nat, tick : Nat, ops : Seq(Op),
         root : StateMap \union {None}, ts : Nat \union {None}]
Digest == Seq(Body)
Genesis == << >>

\* `genuine` says that the stored digest is the digest of the other fields.
Event == [body : Body, prev : Digest, genuine : BOOLEAN]

\* A digest of the payload alone.
DigestOf_Payload(e) == <<[e.body EXCEPT !.seq = 0]>>

DigestOf(e) == Append(e.prev, e.body)

\* validate_digest: the digest input exists, which checks the keys, and hashes
\* to the stored digest.
ValidDigest(e) ==
  /\ \A i \in DOMAIN e.body.ops : OwnKey(e.body.ns, e.body.ops[i].key)
  /\ e.genuine

\* is_idempotent.
Idempotent(e) == e.body.kind \in {"write", "delete"} /\ e.body.ops[1].idem

-----------------------------------------------------------------------------
(* The engine. *)

\* The codes a replay or a verification ends with.
Codes == {"ok", "NAMESPACE_BREACH", "SEQUENCE_COLLISION", "SEQ_GAP", "DIGEST_MISMATCH",
          "DUPLICATE_EVENT", "INVALID_EVENT_FORMAT", "TIMESTAMP_REGRESSION",
          "TICK_REGRESSION", "STATE_MISMATCH", "COMPACT_MISMATCH", "PROTOCOL_ERROR_EVENT",
          "MISSING_TICK_SEAL"}

Engine == [map : StateMap, seq : Nat, prev : Digest, ns : Namespaces \union {None},
           seen : SUBSET Digest, ts : Nat \union {None}, tick : Nat, status : Codes]

FromGenesis ==
  [map |-> EmptyMap, seq |-> 0, prev |-> Genesis, ns |-> None,
   seen |-> {}, ts |-> None, tick |-> 0, status |-> "ok"]

Duplicate(eng, e) == DigestOf(e) \in eng.seen

\* Clocks without the check of the seal times.
ClockFault_TicksOnly(eng, b) ==
  IF b.kind = "seal" /\ b.ts = None THEN "INVALID_EVENT_FORMAT"
  ELSE IF b.tick > 0 /\ b.tick < eng.tick THEN "TICK_REGRESSION"
  ELSE "ok"

\* TICK_SEAL timestamp monotonicity, then tick regression.  An event of tick 0
\* is not compared with the ticks before it.
ClockFault(eng, b) ==
  IF b.kind = "seal" /\ b.ts = None THEN "INVALID_EVENT_FORMAT"
  ELSE IF b.kind = "seal" /\ eng.ts # None /\ b.ts < eng.ts THEN "TIMESTAMP_REGRESSION"
  ELSE IF b.tick > 0 /\ b.tick < eng.tick THEN "TICK_REGRESSION"
  ELSE "ok"

\* Roots that are taken on trust.
ApplyFault_TrustsRoots(map, b) ==
  CASE b.kind \in {"write", "delete", "batch"} ->
         IF AllApplicable(map, b.ops) THEN "ok" ELSE "STATE_MISMATCH"
    [] b.kind \in {"seal", "compact"} ->
         IF b.root = None THEN "INVALID_EVENT_FORMAT" ELSE "ok"
    [] OTHER -> "PROTOCOL_ERROR_EVENT"

\* What apply_event objects to.  The keys passed validate_key with the digest.
ApplyFault(map, b) ==
  CASE b.kind \in {"write", "delete", "batch"} ->
         IF AllApplicable(map, b.ops) THEN "ok" ELSE "STATE_MISMATCH"
    [] b.kind \in {"seal", "compact"} ->
         IF b.root = None THEN "INVALID_EVENT_FORMAT"
         ELSE IF b.root = map THEN "ok"
         ELSE IF b.kind = "seal" THEN "STATE_MISMATCH" ELSE "COMPACT_MISMATCH"
    [] OTHER -> "PROTOCOL_ERROR_EVENT"

\* The checks of the loop up to the duplicate detection, in their order.
ChainFault(eng, e) ==
  IF eng.ns # None /\ e.body.ns # eng.ns THEN "NAMESPACE_BREACH"
  ELSE IF e.body.seq < eng.seq THEN "SEQUENCE_COLLISION"
  ELSE IF e.body.seq > eng.seq THEN "SEQ_GAP"
  ELSE IF e.prev # eng.prev \/ ~ValidDigest(e) THEN "DIGEST_MISMATCH"
  ELSE IF Duplicate(eng, e) /\ ~Idempotent(e) THEN "DUPLICATE_EVENT"
  ELSE "ok"

\* The engine past an event it accepts or skips.
Past(eng, e) ==
  [eng EXCEPT !.seq = @ + 1, !.prev = DigestOf(e), !.ns = e.body.ns,
              !.seen = @ \union {DigestOf(e)}]

Applied(eng, e) ==
  [Past(eng, e) EXCEPT
     !.map = AfterOps(@, e.body.ops),
     !.ts = IF e.body.kind = "seal" THEN e.body.ts ELSE @,
     !.tick = IF e.body.tick > 0 THEN e.body.tick ELSE @]

\* One iteration of the loop; the first error ends the replay.
Advance(eng, e) ==
  IF eng.status # "ok" THEN eng
  ELSE IF ChainFault(eng, e) # "ok" THEN [eng EXCEPT !.status = ChainFault(eng, e)]
  ELSE IF Duplicate(eng, e) THEN Past(eng, e)
  ELSE IF ClockFault(eng, e.body) # "ok"
  THEN [eng EXCEPT !.status = ClockFault(eng, e.body)]
  ELSE IF ApplyFault(eng.map, e.body) # "ok"
  THEN [eng EXCEPT !.status = ApplyFault(eng.map, e.body)]
  ELSE Applied(eng, e)

-----------------------------------------------------------------------------
(* Checkpoints. *)

\* rebuild_snapshot.  A cached snapshot that snapshot_matches_checkpoint is the
\* same one: its root digest is that of its map.
SnapshotAt(e, map) ==
  [ns |-> e.body.ns, tick |-> e.body.tick, seq |-> e.body.seq, ts |-> e.body.ts,
   digest |-> DigestOf(e), map |-> map]

\* A snapshot whose sequence number is taken for that of the next event.
FromSnapshot_AtSeal(s) ==
  [map |-> s.map, seq |-> s.seq, prev |-> s.digest, ns |-> s.ns,
   seen |-> {}, ts |-> s.ts, tick |-> s.tick, status |-> "ok"]

\* A snapshot that does not hand on its clock.
FromSnapshot_NoClock(s) ==
  [map |-> s.map, seq |-> s.seq + 1, prev |-> s.digest, ns |-> s.ns,
   seen |-> {}, ts |-> None, tick |-> s.tick, status |-> "ok"]

FromSnapshot(s) ==
  [map |-> s.map, seq |-> s.seq + 1, prev |-> s.digest, ns |-> s.ns,
   seen |-> {}, ts |-> s.ts, tick |-> s.tick, status |-> "ok"]

\* A cached snapshot is believed when it is of the same place in some log.
Matches_AnyHistory(s, e) ==
  /\ e.body.ts # None
  /\ [s EXCEPT !.map = EmptyMap, !.digest = Genesis]
       = [SnapshotAt(e, EmptyMap) EXCEPT !.digest = Genesis]

\* snapshot_matches_checkpoint.  The state itself is not compared: it decoded,
\* so its root digest is the one in the snapshot, which is that of the seal.
Matches(s, e) == e.body.ts # None /\ s = SnapshotAt(e, e.body.root)

\* A snapshot believed although the seal in the log may be damaged.
Believed_UncheckedSeal(cached, seal) == cached # None /\ Matches(cached, seal)

\* Whether verification starts from the cached snapshot.
Believed(cached, seal) == cached # None /\ ValidDigest(seal) /\ Matches(cached, seal)

\* replay_with_snapshot: the engine after all the events.
Replayed(start, events) ==
  LET after[i \in 0..Len(events)] ==
        IF i = 0 THEN start ELSE Advance(after[i - 1], events[i])
  IN  after[Len(events)]

\* The seals verify_events may take for its checkpoint.
SealsOf(events, root) ==
  {i \in DOMAIN events : events[i].body.kind = "seal" /\ events[i].body.root = root}

\* verify_events_with_snapshot, with the snapshot that was in the cache or None.
VerifyEvents(events, root, cached) ==
  LET seals == SealsOf(events, root)
      at == CHOOSE i \in seals : TRUE
      seal == events[at]
      rest == SubSeq(events, at + 1, Len(events))
      rebuilt == Replayed(FromGenesis, SubSeq(events, 1, at))
  IN  IF seals = {} THEN [FromGenesis EXCEPT !.status = "MISSING_TICK_SEAL"]
      ELSE IF Cardinality(seals) > 1 THEN [FromGenesis EXCEPT !.status = "STATE_MISMATCH"]
      ELSE IF Believed(cached, seal) THEN Replayed(FromSnapshot(cached), rest)
      ELSE IF rebuilt.status # "ok" THEN rebuilt
      ELSE Replayed(FromSnapshot(SnapshotAt(seal, rebuilt.map)), rest)
=============================================================================
