------------------------------ MODULE Migration ------------------------------
(***************************************************************************)
(* A log in the old layout, one file at <log>, and the first appends to it *)
(* (src/src/event_log.rs): under the lock the events are copied to         *)
(* segments beside it, which are renamed into place, while other processes *)
(* read the tail or load the log without the lock, and any process may be  *)
(* killed.  Of an append to a log in the new layout the writes to the disk *)
(* are steps here; what a BufWriter may tear, and a load of that layout    *)
(* file by file, are in EventLog and LogReaders.                           *)
(***************************************************************************)
EXTENDS Segments, SequencesExt

CONSTANTS
  Writers,    \* processes that append
  Readers,    \* processes that load
  NoOne,      \* the holder of a free lock
  MaxLegacy,  \* bound: events in the old file
  MaxSeq,     \* bound: events in the log
  MaxCrashes  \* bound: processes killed

ASSUME ProcessAssumption == NoOne \notin Writers
ASSUME BoundAssumption == MaxLegacy \in Nat /\ MaxSeq \in Nat /\ MaxCrashes \in Nat

VARIABLES
  path,        \* events of the file at <log>, none once it is renamed away
  moved,       \* events of <log>.legacy.jsonl
  tmpFiles,    \* <log>.segments.migrating/
  tmpCatalog,  \* <log>.catalog.migrating.json
  files,       \* <log>.segments/
  catalog,     \* <log>.catalog.json
  lock,        \* the process that holds the lock on <log>.lock
  pc,          \* what each writer is about to do
  mem,         \* the catalog each writer has in memory
  batch,       \* the event it was asked to append
  pos,         \* the next event of the old file to copy
  acked,       \* history: the events of the appends that returned Ok
  crashes,     \* history: the processes killed so far
  rpc,         \* what each reader is about to do
  got,         \* the events it has read
  floor        \* history: the length of the log when its load began

old == <<path, moved>>
tmp == <<tmpFiles, tmpCatalog>>
new == <<files, catalog>>
local == <<mem, batch, pos>>
history == <<acked, crashes>>
readers == <<rpc, got, floor>>
vars == <<old, tmp, new, lock, pc, local, history, readers>>

NoFiles == [id \in {} |-> << >>]
StampsOf(events) == [i \in DOMAIN events |-> [seq |-> events[i].seq, ns |-> events[i].ns,
                                              pay |-> events[i].pay]]
FileEvents(file) == [i \in DOMAIN file.lines |-> file.lines[i].ev]

\* What a load of the new layout returns.
Segmented ==
  FlattenSeq([k \in DOMAIN catalog.segs |-> StampsOf(FileEvents(files[catalog.segs[k].id]))])

\* The log, in whatever layout it is.
Log == IF HasActive(catalog) THEN Segmented ELSE StampsOf(path)

TypeOK ==
  /\ {path, moved} \subseteq Seq(Event)
  /\ \A dir \in {tmpFiles, files} : DOMAIN dir \subseteq SegId /\ dir \in [DOMAIN dir -> File]
  /\ {tmpCatalog, catalog} \subseteq Catalog
  /\ lock \in Writers \union {NoOne}
  /\ pc \in [Writers -> {"idle", "scan", "lock", "open", "copy", "remove", "rename_segments",
                         "rename_catalog", "rename_log", "append", "roll_catalog",
                         "put", "commit", "unlock"}]
  /\ mem \in [Writers -> Catalog]
  /\ batch \in [Writers -> Seq(Event)]
  /\ pos \in [Writers -> Nat \ {0}]
  /\ acked \subseteq Stamp
  /\ rpc \in [Readers -> {"idle", "segments", "file", "done", "failed"}]
  /\ got \in [Readers -> Seq(Stamp)]

\* A log in the old layout.
Init ==
  /\ \E n \in 1..MaxLegacy, ns \in Namespaces : \E pays \in [1..n -> Payloads] :
       path = BuildEvents(0, Genesis, ns, pays, 0)
  /\ moved = << >>
  /\ tmpFiles = NoFiles /\ tmpCatalog = NewCatalog
  /\ files = NoFiles /\ catalog = NewCatalog
  /\ lock = NoOne
  /\ pc = [w \in Writers |-> "idle"]
  /\ mem = [w \in Writers |-> NewCatalog]
  /\ batch = [w \in Writers |-> << >>]
  /\ pos = [w \in Writers |-> 1]
  /\ acked = {} /\ crashes = 0
  /\ rpc = [r \in Readers |-> "idle"]
  /\ got = [r \in Readers |-> << >>]
  /\ floor = [r \in Readers |-> 0]

Goto(w, label) == pc' = [pc EXCEPT ![w] = label]

Forget(w) ==
  /\ mem' = [mem EXCEPT ![w] = NewCatalog]
  /\ batch' = [batch EXCEPT ![w] = << >>]
  /\ pos' = [pos EXCEPT ![w] = 1]
  /\ Goto(w, "idle")

-----------------------------------------------------------------------------
(* tail_metadata, without the lock: is there a catalog, and then its active  *)
(* file or the old file.                                                     *)

ReadTail(w) ==
  /\ pc[w] = "idle"
  /\ mem' = [mem EXCEPT ![w] = catalog]
  /\ Goto(w, "scan")
  /\ UNCHANGED <<old, tmp, new, lock, batch, pos, history, readers>>

\* load_last_legacy_event.  The file may be gone by now, and the log looks new.
LegacyTail ==
  IF path = << >>
  THEN [next |-> 0, head |-> Genesis]
  ELSE [next |-> Last(path).seq + 1, head |-> DigestOf(Last(path))]

BuildEvent(w) ==
  /\ pc[w] = "scan"
  /\ LET tail == IF HasActive(mem[w]) THEN Reconcile(mem[w], files) ELSE LegacyTail
     IN  /\ tail.next < MaxSeq
         /\ \E ns \in Namespaces, pay \in Payloads :
              batch' = [batch EXCEPT ![w] = BuildEvents(tail.next, tail.head, ns, <<pay>>, 0)]
  /\ mem' = [mem EXCEPT ![w] = NewCatalog]
  /\ Goto(w, "lock")
  /\ UNCHANGED <<old, tmp, new, lock, pos, history, readers>>

\* The caller wanted no more than the tail, or the old file went away between
\* the look at it and its opening.
ReturnTail(w) ==
  /\ pc[w] = "scan"
  /\ Forget(w)
  /\ UNCHANGED <<old, tmp, new, lock, history, readers>>

-----------------------------------------------------------------------------
(* append_batch_under_lock. *)

AcquireLock(w) ==
  /\ pc[w] = "lock"
  /\ lock = NoOne
  /\ lock' = w
  /\ Goto(w, "open")
  /\ UNCHANGED <<old, tmp, new, local, history, readers>>

\* The log is in the new layout, or there is nothing to migrate.
SkipMigration(w) ==
  /\ pc[w] = "open"
  /\ HasActive(catalog) \/ path = << >>
  /\ Goto(w, "append")
  /\ UNCHANGED <<old, tmp, new, lock, local, history, readers>>

\* migrate_legacy_log_under_lock begins on clean temporary files.
StartMigration(w) ==
  /\ pc[w] = "open"
  /\ ~HasActive(catalog) /\ path # << >>
  /\ tmpFiles' = NoFiles /\ tmpCatalog' = NewCatalog
  /\ mem' = [mem EXCEPT ![w] = NewCatalog]
  /\ pos' = [pos EXCEPT ![w] = 1]
  /\ Goto(w, "copy")
  /\ UNCHANGED <<old, new, lock, batch, history, readers>>

\* The segment directory dir with event e in the segment catalog c ends with.
WithEvent(dir, c, e, rolled) ==
  LET entry == ActiveEntry(c)
      file == IF rolled THEN [header |-> HeaderOf(entry), lines |-> << >>] ELSE dir[entry.id]
  IN  [id \in DOMAIN dir \union {entry.id} |->
         IF id = entry.id
         THEN [file EXCEPT !.lines = Append(@, [ev |-> e, nl |-> TRUE])]
         ELSE dir[id]]

\* The roll that opens a segment, if e needs one.
Room(c, e) == IF NeedsRoll(c, e) THEN Rolled(c, e) ELSE c

\* A copy straight into the log's own directory and catalog.
CopyEvent_InPlace(w) ==
  /\ pc[w] = "copy" /\ pos[w] <= Len(path)
  /\ LET e == path[pos[w]]
         c == Room(mem[w], e)
     IN  /\ files' = WithEvent(files, c, e, NeedsRoll(mem[w], e))
         /\ mem' = [mem EXCEPT ![w] = Recorded(c, e)]
  /\ catalog' = mem'[w]
  /\ pos' = [pos EXCEPT ![w] = @ + 1]
  /\ UNCHANGED <<old, tmp, lock, pc, batch, history, readers>>

\* A copy that leaves the segment's entry as the roll made it.
CopyEvent_NoCount(w) ==
  /\ pc[w] = "copy" /\ pos[w] <= Len(path)
  /\ LET e == path[pos[w]]
         c == Room(mem[w], e)
     IN  /\ tmpFiles' = WithEvent(tmpFiles, c, e, NeedsRoll(mem[w], e))
         /\ mem' = [mem EXCEPT ![w] = [Recorded(c, e) EXCEPT !.segs = c.segs]]
  /\ pos' = [pos EXCEPT ![w] = @ + 1]
  /\ UNCHANGED <<old, tmpCatalog, new, lock, pc, batch, history, readers>>

\* One event of the old file is copied to the temporary segments.
CopyEvent(w) ==
  /\ pc[w] = "copy" /\ pos[w] <= Len(path)
  /\ LET e == path[pos[w]]
         c == Room(mem[w], e)
     IN  /\ tmpFiles' = WithEvent(tmpFiles, c, e, NeedsRoll(mem[w], e))
         /\ mem' = [mem EXCEPT ![w] = Recorded(c, e)]
  /\ pos' = [pos EXCEPT ![w] = @ + 1]
  /\ UNCHANGED <<old, tmpCatalog, new, lock, pc, batch, history, readers>>

WriteTmpCatalog(w) ==
  /\ pc[w] = "copy" /\ pos[w] > Len(path)
  /\ tmpCatalog' = mem[w]
  /\ Goto(w, "remove")
  /\ UNCHANGED <<old, tmpFiles, new, lock, local, history, readers>>

\* Segments an earlier migration left behind.
RemoveSegments(w) ==
  /\ pc[w] = "remove"
  /\ files' = NoFiles
  /\ Goto(w, "rename_segments")
  /\ UNCHANGED <<old, tmp, catalog, lock, local, history, readers>>

RenameSegments(w) ==
  /\ pc[w] = "rename_segments"
  /\ files' = tmpFiles /\ tmpFiles' = NoFiles
  /\ Goto(w, "rename_catalog")
  /\ UNCHANGED <<old, tmpCatalog, catalog, lock, local, history, readers>>

\* The old file goes before the catalog is in place.
RenameCatalog_LogFirst(w) ==
  /\ pc[w] = "rename_catalog"
  /\ moved' = path /\ path' = << >>
  /\ Goto(w, "rename_log")
  /\ UNCHANGED <<tmp, new, lock, local, history, readers>>

\* From here on the log is in the new layout.
RenameCatalog(w) ==
  /\ pc[w] = "rename_catalog"
  /\ catalog' = tmpCatalog /\ tmpCatalog' = NewCatalog
  /\ Goto(w, "rename_log")
  /\ UNCHANGED <<old, tmpFiles, files, lock, local, history, readers>>

\* The old file is renamed; that it cannot be is ignored.
RenameLog(w) ==
  /\ pc[w] = "rename_log"
  /\ \/ moved' = path /\ path' = << >>
     \/ UNCHANGED old
  /\ Goto(w, "append")
  /\ UNCHANGED <<tmp, new, lock, local, history, readers>>

\* append_segmented_under_lock begins with the catalog on the disk.
Opened == Reconcile(catalog, files)

\* The header of a new segment, if the event needs one, and ...
RollSegment(w) ==
  /\ pc[w] = "append"
  /\ Admissible(Opened, batch[w][1])
  /\ NeedsRoll(Opened, batch[w][1])
  /\ LET entry == RolledEntry(Opened, batch[w][1])
     IN  files' = [id \in DOMAIN files \union {entry.id} |->
                     IF id = entry.id THEN [header |-> HeaderOf(entry), lines |-> << >>]
                                      ELSE files[id]]
  /\ mem' = [mem EXCEPT ![w] = Rolled(Opened, batch[w][1])]
  /\ Goto(w, "roll_catalog")
  /\ UNCHANGED <<old, tmp, catalog, lock, batch, pos, history, readers>>

\* ... the catalog that names it.
WriteRolledCatalog(w) ==
  /\ pc[w] = "roll_catalog"
  /\ catalog' = mem[w]
  /\ Goto(w, "put")
  /\ UNCHANGED <<old, tmp, files, lock, local, history, readers>>

\* The event's line at the end of the active segment of the catalog c.
Put(w, c) ==
  /\ files' = [files EXCEPT ![ActiveEntry(c).id].lines =
                 Append(@, [ev |-> batch[w][1], nl |-> TRUE])]
  /\ mem' = [mem EXCEPT ![w] = Recorded(c, batch[w][1])]
  /\ Goto(w, "commit")
  /\ UNCHANGED <<old, tmp, catalog, lock, batch, pos, history, readers>>

\* The line is written and flushed, to the new segment or to the one there was,
\* and then ...
PutFirst(w) == pc[w] = "put" /\ Put(w, mem[w])

PutLine(w) ==
  /\ pc[w] = "append"
  /\ Admissible(Opened, batch[w][1])
  /\ ~NeedsRoll(Opened, batch[w][1])
  /\ Put(w, Opened)

\* ... the catalog persisted.
WriteCatalog(w) ==
  /\ pc[w] = "commit"
  /\ catalog' = mem[w]
  /\ Goto(w, "unlock")
  /\ UNCHANGED <<old, tmp, files, lock, local, history, readers>>

\* The append returns Ok.
Unlock(w) ==
  /\ pc[w] = "unlock"
  /\ lock' = NoOne
  /\ acked' = acked \union {StampsOf(batch[w])[1]}
  /\ Forget(w)
  /\ UNCHANGED <<old, tmp, new, crashes, readers>>

\* A guard fails: the append returns Err.
Reject(w) ==
  /\ pc[w] = "append"
  /\ ~Admissible(Opened, batch[w][1])
  /\ lock' = NoOne
  /\ Forget(w)
  /\ UNCHANGED <<old, tmp, new, history, readers>>

\* The process is killed.
Crash(w) ==
  /\ pc[w] # "idle"
  /\ crashes < MaxCrashes
  /\ crashes' = crashes + 1
  /\ lock' = IF lock = w THEN NoOne ELSE lock
  /\ Forget(w)
  /\ UNCHANGED <<old, tmp, new, acked, readers>>

-----------------------------------------------------------------------------
(* load, without the lock. *)

RGoto(r, label) == rpc' = [rpc EXCEPT ![r] = label]

\* Is there a catalog?
StartLoad(r) ==
  /\ rpc[r] = "idle"
  /\ floor' = [floor EXCEPT ![r] = Len(Log)]
  /\ RGoto(r, IF HasActive(catalog) THEN "segments" ELSE "file")
  /\ UNCHANGED got

LoadSegments(r) ==
  /\ rpc[r] = "segments"
  /\ got' = [got EXCEPT ![r] = Segmented]
  /\ RGoto(r, "done")
  /\ UNCHANGED floor

\* load_legacy_events; without a file it returns no events.
LoadFile(r) ==
  /\ rpc[r] = "file"
  /\ got' = [got EXCEPT ![r] = StampsOf(path)]
  /\ RGoto(r, "done")
  /\ UNCHANGED floor

\* The file was there a moment ago and cannot be opened any more.
LoadFileFails(r) ==
  /\ rpc[r] = "file"
  /\ path = << >>
  /\ RGoto(r, "failed")
  /\ UNCHANGED <<got, floor>>

Return(r) ==
  /\ rpc[r] \in {"done", "failed"}
  /\ got' = [got EXCEPT ![r] = << >>]
  /\ floor' = [floor EXCEPT ![r] = 0]
  /\ RGoto(r, "idle")

Step(w) ==
  \/ ReadTail(w) \/ BuildEvent(w) \/ ReturnTail(w) \/ AcquireLock(w)
  \/ SkipMigration(w) \/ StartMigration(w) \/ CopyEvent(w) \/ WriteTmpCatalog(w)
  \/ RemoveSegments(w) \/ RenameSegments(w) \/ RenameCatalog(w) \/ RenameLog(w)
  \/ RollSegment(w) \/ WriteRolledCatalog(w) \/ PutFirst(w) \/ PutLine(w) \/ WriteCatalog(w)
  \/ Unlock(w) \/ Reject(w) \/ Crash(w)

RStep(r) == StartLoad(r) \/ LoadSegments(r) \/ LoadFile(r) \/ LoadFileFails(r) \/ Return(r)

Next ==
  \/ \E w \in Writers : Step(w)
  \/ \E r \in Readers : RStep(r) /\ UNCHANGED <<old, tmp, new, lock, pc, local, history>>

Spec == Init /\ [][Next]_vars

-----------------------------------------------------------------------------

Abstract == INSTANCE AbstractLog WITH log <- Log

\* A migration cannot be seen in the log: whatever step a process is killed at
\* and whoever tries again, the log stays as it is, is extended at its end, or
\* its events are confirmed.
KeepsLog == [][Abstract!Next]_<<Log, acked>>

\* The events of the old file, wherever it is.
OldEvents == IF path = << >> THEN moved ELSE path

\* The catalog a migration publishes says what its segments hold, although the
\* migration rolls segments with code of its own; what the appends and kills
\* after it make of the catalog knows all of the old file and all of every
\* sealed segment, and is right on the lines it counts of the active one.
CatalogTells ==
  HasActive(catalog) =>
    /\ catalog.next >= Len(OldEvents)
    /\ ActiveEntry(catalog).start + ActiveEntry(catalog).count = catalog.next
    /\ \A k \in DOMAIN catalog.segs :
         LET entry == catalog.segs[k]
             lines == files[entry.id].lines
             n == entry.count
         IN  /\ n <= Len(lines)
             /\ entry.bytes = BytesOf(SubSeq(lines, 1, n))
             /\ n > 0 => entry.end = lines[n].ev.seq /\ entry.last = DigestOf(lines[n].ev)
             /\ entry.sealed <=> k # catalog.active
             /\ entry.sealed => n = Len(lines)
             /\ lines # << >> => entry.start = lines[1].ev.seq
             /\ entry.start < Len(OldEvents) =>
                  lines # << >> /\ entry.first = DigestOf(lines[1].ev)

\* A load that meets a migration returns a prefix of the log, and one no older
\* than its start or no event at all.
LoadAllOrNothing ==
  \A r \in Readers :
    rpc[r] = "done" => /\ IsPrefix(got[r], Log)
                       /\ got[r] = << >> \/ Len(got[r]) >= floor[r]
=============================================================================
