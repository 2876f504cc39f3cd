------------------------------ MODULE EventLog ------------------------------
(***************************************************************************)
(* The write path of the filesystem event log (src/src/event_log.rs) with  *)
(* the CLI commands that drive it (src/src/main.rs): processes that read   *)
(* the tail of the log without a lock, build a batch on it, and append the *)
(* batch under the OS lock on the `.lock` file.  Any process may be killed *)
(* between two of its I/O steps; what it wrote to files stays, what was in *)
(* its memory or its BufWriter is lost, and the OS drops its lock.         *)
(*                                                                         *)
(* One write(2), one rename and one read of a file are atomic.  Under the  *)
(* lock the log is read in one step, since only the holder changes it.     *)
(***************************************************************************)
EXTENDS Segments

CONSTANTS
  Writers,     \* processes that append
  NoOne,       \* the holder of a free lock
  Large,       \* payloads whose line leaves the BufWriter before its newline
  MaxBatch,    \* bound: events per batch
  MaxSeq,      \* bound: events in the log
  MaxCrashes   \* bound: processes killed

ASSUME WriterAssumption == NoOne \notin Writers
ASSUME LargeAssumption == Large \subseteq Payloads
ASSUME BoundAssumption == MaxBatch \in Nat /\ MaxSeq \in Nat /\ MaxCrashes \in Nat

VARIABLES
  files,    \* <log>.segments/: the segment files, by segment id
  catalog,  \* <log>.catalog.json
  lock,     \* the process that holds the lock on <log>.lock
  pc,       \* what each process is about to do
  mem,      \* the catalog each process has in memory
  batch,    \* the events each process was asked to append
  pos,      \* the next event of the batch
  out,      \* position of the segment whose file is open for append, 0 for none
  buf,      \* whole lines in the BufWriter
  owed,     \* the BufWriter starts with the newline of the file's last line
  acked,    \* history: the events of the appends that returned Ok
  crashes   \* history: the processes killed so far

disk == <<files, catalog>>
local == <<mem, batch, pos, out, buf, owed>>
history == <<acked, crashes>>
vars == <<files, catalog, lock, pc, mem, batch, pos, out, buf, owed, acked, crashes>>

\* Control points at which a process holds the lock.
Critical == {"open", "event", "roll_flush", "roll_catalog", "put", "commit", "abort",
             "unlock_ok", "unlock_err"}
Controls == {"idle", "scan", "lock"} \union Critical

TypeOK ==
  /\ files \in [DOMAIN files -> File]
  /\ DOMAIN files \subseteq SegId
  /\ catalog \in Catalog
  /\ lock \in Writers \union {NoOne}
  /\ pc \in [Writers -> Controls]
  /\ mem \in [Writers -> Catalog]
  /\ batch \in [Writers -> Seq(Event)]
  /\ pos \in [Writers -> Nat \ {0}]
  /\ out \in [Writers -> Nat]
  /\ buf \in [Writers -> Seq(Event)]
  /\ owed \in [Writers -> BOOLEAN]
  /\ acked \subseteq Event
  /\ crashes \in Nat

NoFiles == [id \in {} |-> << >>]

Init ==
  /\ files = NoFiles
  /\ catalog = NewCatalog
  /\ lock = NoOne
  /\ pc = [w \in Writers |-> "idle"]
  /\ mem = [w \in Writers |-> NewCatalog]
  /\ batch = [w \in Writers |-> << >>]
  /\ pos = [w \in Writers |-> 1]
  /\ out = [w \in Writers |-> 0]
  /\ buf = [w \in Writers |-> << >>]
  /\ owed = [w \in Writers |-> FALSE]
  /\ acked = {}
  /\ crashes = 0

Goto(w, label) == pc' = [pc EXCEPT ![w] = label]

\* What is left of a process's memory when its command ends.
Forget(w) ==
  /\ mem' = [mem EXCEPT ![w] = NewCatalog]
  /\ batch' = [batch EXCEPT ![w] = << >>]
  /\ pos' = [pos EXCEPT ![w] = 1]
  /\ out' = [out EXCEPT ![w] = 0]
  /\ buf' = [buf EXCEPT ![w] = << >>]
  /\ owed' = [owed EXCEPT ![w] = FALSE]

-----------------------------------------------------------------------------
(* tail_metadata, without the lock: the catalog and then the active file.  *)

ReadTail(w) ==
  /\ pc[w] = "idle"
  /\ mem' = [mem EXCEPT ![w] = catalog]
  /\ Goto(w, "scan")
  /\ UNCHANGED <<disk, lock, batch, pos, out, buf, owed, history>>

\* The active file is scanned and the command builds its batch on the tail.
BuildBatch(w) ==
  /\ pc[w] = "scan"
  /\ Scannable(mem[w], files)
  /\ LET tail == Reconcile(mem[w], files)
     IN  \E n \in 1..MaxBatch, ns \in Namespaces :
           /\ tail.next + n <= MaxSeq
           /\ \E pays \in [1..n -> Payloads], flaw \in 0..n :
                batch' = [batch EXCEPT ![w] = BuildEvents(tail.next, tail.head, ns, pays, flaw)]
  /\ mem' = [mem EXCEPT ![w] = NewCatalog]
  /\ Goto(w, "lock")
  /\ UNCHANGED <<disk, lock, pos, out, buf, owed, history>>

\* A caller that wanted no more than the tail (next_sequence) has it.
ReturnTail(w) ==
  /\ pc[w] = "scan"
  /\ Scannable(mem[w], files)
  /\ Forget(w)
  /\ Goto(w, "idle")
  /\ UNCHANGED <<disk, lock, history>>

\* The scan meets a line that is not one event: the command ends with an error.
ReadTailFails(w) ==
  /\ pc[w] = "scan"
  /\ ~Scannable(mem[w], files)
  /\ Forget(w)
  /\ Goto(w, "idle")
  /\ UNCHANGED <<disk, lock, history>>

-----------------------------------------------------------------------------
(* append_batch. *)

\* A lock that does not exclude: what a shared lock would do.
AcquireLock_Shared(w) ==
  /\ pc[w] = "lock"
  /\ lock' = w
  /\ Goto(w, "open")
  /\ UNCHANGED <<disk, local, history>>

\* lock_exclusive blocks until the lock is free.
AcquireLock(w) ==
  /\ pc[w] = "lock"
  /\ lock = NoOne
  /\ lock' = w
  /\ Goto(w, "open")
  /\ UNCHANGED <<disk, local, history>>

\* read_catalog_reconciled_optional, or a new catalog.
OpenLog(w) ==
  /\ pc[w] = "open"
  /\ Scannable(catalog, files)
  /\ mem' = [mem EXCEPT ![w] = Reconcile(catalog, files)]
  /\ pos' = [pos EXCEPT ![w] = 1]
  /\ Goto(w, "event")
  /\ UNCHANGED <<disk, lock, batch, out, buf, owed, history>>

OpenFails(w) ==
  /\ pc[w] = "open"
  /\ ~Scannable(catalog, files)
  /\ Goto(w, "unlock_err")
  /\ UNCHANGED <<disk, lock, local, history>>

Current(w) == batch[w][pos[w]]
Pending(w) == pc[w] = "event" /\ pos[w] <= Len(batch[w])

\* The event the loop is at fails a guard: return Err.
Reject(w) ==
  /\ Pending(w)
  /\ ~Admissible(mem[w], Current(w))
  /\ Goto(w, "abort")
  /\ UNCHANGED <<disk, lock, local, history>>

\* A roll that publishes the new segment before the old writer is flushed.
RollSegment_CatalogFirst(w) ==
  /\ Pending(w)
  /\ Admissible(mem[w], Current(w))
  /\ NeedsRoll(mem[w], Current(w))
  /\ LET entry == RolledEntry(mem[w], Current(w))
     IN  files' = [id \in DOMAIN files \union {entry.id} |->
                     IF id = entry.id THEN [header |-> HeaderOf(entry), lines |-> << >>]
                                      ELSE files[id]]
  /\ mem' = [mem EXCEPT ![w] = Rolled(@, Current(w))]
  /\ catalog' = mem'[w]
  /\ Goto(w, "roll_flush")
  /\ UNCHANGED <<lock, batch, pos, out, buf, owed, history>>

\* roll_segment_if_needed: the header of a new segment is written to its file
\* (created or truncated) before the old segment's writer is flushed.
RollSegment(w) ==
  /\ Pending(w)
  /\ Admissible(mem[w], Current(w))
  /\ NeedsRoll(mem[w], Current(w))
  /\ LET entry == RolledEntry(mem[w], Current(w))
     IN  files' = [id \in DOMAIN files \union {entry.id} |->
                     IF id = entry.id THEN [header |-> HeaderOf(entry), lines |-> << >>]
                                      ELSE files[id]]
  /\ mem' = [mem EXCEPT ![w] = Rolled(@, Current(w))]
  /\ Goto(w, "roll_flush")
  /\ UNCHANGED <<catalog, lock, batch, pos, out, buf, owed, history>>

WholeLines(events) == [i \in DOMAIN events |-> [ev |-> events[i], nl |-> TRUE]]

WithNewline(lines, due) ==
  IF due THEN [lines EXCEPT ![Len(lines)] = [ev |-> @.ev, nl |-> TRUE]] ELSE lines

\* The files after the BufWriter of w has written everything it holds.
Flushed(w) ==
  IF out[w] = 0
  THEN files
  ELSE [files EXCEPT ![mem[w].segs[out[w]].id].lines =
          WithNewline(@, owed[w]) \o WholeLines(buf[w])]

EmptyBuffer(w) ==
  /\ buf' = [buf EXCEPT ![w] = << >>]
  /\ owed' = [owed EXCEPT ![w] = FALSE]

\* A roll that drops the old writer's lines.
FlushRolled_Drops(w) ==
  /\ pc[w] = "roll_flush"
  /\ files' = files
  /\ EmptyBuffer(w)
  /\ out' = [out EXCEPT ![w] = 0]
  /\ Goto(w, "roll_catalog")
  /\ UNCHANGED <<catalog, lock, mem, batch, pos, history>>

\* The active segment changed: the old writer is flushed and closed ...
FlushRolled(w) ==
  /\ pc[w] = "roll_flush"
  /\ files' = Flushed(w)
  /\ EmptyBuffer(w)
  /\ out' = [out EXCEPT ![w] = 0]
  /\ Goto(w, "roll_catalog")
  /\ UNCHANGED <<catalog, lock, mem, batch, pos, history>>

\* ... and the catalog that names the new segment is persisted.
WriteRolledCatalog(w) ==
  /\ pc[w] = "roll_catalog"
  /\ catalog' = mem[w]
  /\ Goto(w, "put")
  /\ UNCHANGED <<files, lock, local, history>>

\* The loop is about to write the current event's line.
Putting(w) ==
  \/ pc[w] = "put"
  \/ Pending(w) /\ Admissible(mem[w], Current(w)) /\ ~NeedsRoll(mem[w], Current(w))

\* The active segment's file is open for append and the catalog in memory
\* counts the line.
Record(w) ==
  /\ out' = [out EXCEPT ![w] = mem[w].active]
  /\ mem' = [mem EXCEPT ![w] = Recorded(@, Current(w))]
  /\ pos' = [pos EXCEPT ![w] = @ + 1]
  /\ Goto(w, "event")

\* writeln! of a line that fits the BufWriter with its newline.
PutLine(w) ==
  /\ Putting(w)
  /\ buf' = [buf EXCEPT ![w] = Append(@, Current(w))]
  /\ Record(w)
  /\ UNCHANGED <<disk, lock, batch, owed, history>>

\* writeln! of a line that does not: once the BufWriter is empty the line goes
\* to the file at once, and its newline stays behind in the BufWriter.
PutLargeLine(w) ==
  /\ Putting(w)
  /\ Current(w).pay \in Large
  /\ buf[w] = << >> /\ ~owed[w]
  /\ files' = [files EXCEPT ![ActiveEntry(mem[w]).id].lines =
                 Append(@, [ev |-> Current(w), nl |-> FALSE])]
  /\ owed' = [owed EXCEPT ![w] = TRUE]
  /\ Record(w)
  /\ UNCHANGED <<catalog, lock, batch, buf, history>>

\* The BufWriter is full: it writes what it holds before it takes more.
Spill(w) ==
  /\ pc[w] \in {"event", "put"}
  /\ buf[w] # << >> \/ owed[w]
  /\ files' = Flushed(w)
  /\ EmptyBuffer(w)
  /\ UNCHANGED <<catalog, lock, pc, mem, batch, pos, out, history>>

\* A batch that ends without the flush: its last lines die with the writer.
FlushBatch_Skips(w) ==
  /\ pc[w] = "event"
  /\ pos[w] > Len(batch[w])
  /\ files' = files
  /\ EmptyBuffer(w)
  /\ Goto(w, "commit")
  /\ UNCHANGED <<catalog, lock, mem, batch, pos, out, history>>

\* The loop is done: flush, and then ...
FlushBatch(w) ==
  /\ pc[w] = "event"
  /\ pos[w] > Len(batch[w])
  /\ files' = Flushed(w)
  /\ EmptyBuffer(w)
  /\ Goto(w, "commit")
  /\ UNCHANGED <<catalog, lock, mem, batch, pos, out, history>>

\* ... persist the catalog.
WriteCatalog(w) ==
  /\ pc[w] = "commit"
  /\ catalog' = mem[w]
  /\ Goto(w, "unlock_ok")
  /\ UNCHANGED <<files, lock, local, history>>

\* An error that leaves the function without the unlock.
DropWriter_Hangs(w) ==
  /\ pc[w] = "abort"
  /\ files' = Flushed(w)
  /\ EmptyBuffer(w)
  /\ UNCHANGED <<catalog, lock, pc, mem, batch, pos, out, history>>

\* Return with an error: dropping the BufWriter flushes it, so the admissible
\* prefix of the batch stays in the log, and the catalog is not persisted.
DropWriter(w) ==
  /\ pc[w] = "abort"
  /\ files' = Flushed(w)
  /\ EmptyBuffer(w)
  /\ Goto(w, "unlock_err")
  /\ UNCHANGED <<catalog, lock, mem, batch, pos, out, history>>

EventsIn(s) == {s[i] : i \in DOMAIN s}

\* Dropping the lock file unlocks it; append_batch returns.
Unlock(w) ==
  /\ pc[w] \in {"unlock_ok", "unlock_err"}
  /\ lock' = NoOne
  /\ acked' = IF pc[w] = "unlock_ok" THEN acked \union EventsIn(batch[w]) ELSE acked
  /\ Forget(w)
  /\ Goto(w, "idle")
  /\ UNCHANGED <<disk, crashes>>

-----------------------------------------------------------------------------

\* The process is killed.
Crash(w) ==
  /\ pc[w] # "idle"
  /\ crashes < MaxCrashes
  /\ crashes' = crashes + 1
  /\ lock' = IF lock = w THEN NoOne ELSE lock
  /\ Forget(w)
  /\ Goto(w, "idle")
  /\ UNCHANGED <<disk, acked>>

\* What a process does on its own once its command has begun.
Step(w) ==
  \/ BuildBatch(w) \/ ReturnTail(w) \/ ReadTailFails(w)
  \/ AcquireLock(w) \/ OpenLog(w) \/ OpenFails(w)
  \/ Reject(w) \/ RollSegment(w) \/ FlushRolled(w) \/ WriteRolledCatalog(w)
  \/ PutLine(w) \/ PutLargeLine(w) \/ Spill(w)
  \/ FlushBatch(w) \/ WriteCatalog(w) \/ DropWriter(w) \/ Unlock(w)

Next == \E w \in Writers : ReadTail(w) \/ Step(w) \/ Crash(w)

Spec == Init /\ [][Next]_vars

\* A process that is running keeps running; a command need not be started.
FairSpec == Spec /\ \A w \in Writers : WF_vars(Step(w))

-----------------------------------------------------------------------------
(* Safety. *)

LinesAt(k) == files[catalog.segs[k].id].lines
EventAt(k, i) == LinesAt(k)[i].ev

\* The digest the log had when segment k was started.
HeadBefore(k) == IF k = 1 THEN Genesis ELSE catalog.segs[k - 1].last

\* The segments named by the catalog partition the sequence numbers from 0 on,
\* whoever wrote them and whichever process was killed between a header, a
\* flush and a catalog write: each starts where the lines of the file before
\* end, and the last one is the active one.
SegmentsContiguous ==
  /\ catalog.active = Len(catalog.segs)
  /\ \A k \in DOMAIN catalog.segs :
       /\ catalog.segs[k].id \in DOMAIN files
       /\ catalog.segs[k].sealed <=> k # catalog.active
       /\ catalog.segs[k].start =
            IF k = 1 THEN 0 ELSE catalog.segs[k - 1].start + Len(LinesAt(k - 1))

\* The event lines in the segment files form one hash chain: consecutive
\* sequence numbers, every event naming the digest of the one before it, also
\* across segments, every stored digest genuine, all of one namespace.
LogChain ==
  \A k \in DOMAIN catalog.segs : \A i \in DOMAIN LinesAt(k) :
    /\ EventAt(k, i).sound
    /\ EventAt(k, i).seq = catalog.segs[k].start + i - 1
    /\ EventAt(k, i).prev = IF i = 1 THEN HeadBefore(k) ELSE DigestOf(EventAt(k, i - 1))
    /\ \A j \in DOMAIN catalog.segs : \A h \in DOMAIN LinesAt(j) :
         EventAt(k, i).ns = EventAt(j, h).ns

\* The catalog entry of a sealed segment says exactly what its file holds: no
\* line is still in a dead or live process's buffer when the catalog that
\* seals the segment becomes visible.
SealedEntriesExact ==
  \A k \in DOMAIN catalog.segs :
    catalog.segs[k].sealed =>
      /\ catalog.segs[k].count = Len(LinesAt(k))
      /\ catalog.segs[k].bytes = BytesOf(LinesAt(k))
      /\ IF LinesAt(k) = << >>
         THEN catalog.segs[k].last = HeadBefore(k)
         ELSE /\ catalog.segs[k].end = EventAt(k, Len(LinesAt(k))).seq
              /\ catalog.segs[k].last = DigestOf(EventAt(k, Len(LinesAt(k))))

\* Each segment names the header of the segment before it, as the catalog
\* describes that segment now.
SegmentLinks ==
  \A k \in DOMAIN catalog.segs :
    catalog.segs[k].prev = IF k = 1 THEN NoSegment ELSE HeaderDigest(catalog.segs[k - 1])

\* The doc comment on append_batch: whatever step a process died at, the tail
\* found on the next open is the end of what the files hold.
TailRecovered ==
  Scannable(catalog, files) /\ HasActive(catalog) =>
    LET tail == Reconcile(catalog, files)
        k == catalog.active
        n == Len(LinesAt(k))
    IN  /\ tail.next = catalog.segs[k].start + n
        /\ tail.head = IF n = 0 THEN HeadBefore(k) ELSE DigestOf(EventAt(k, n))

DurableEvents ==
  UNION {{EventAt(k, i) : i \in DOMAIN LinesAt(k)} : k \in DOMAIN catalog.segs}

\* An append that returned Ok is in the files for good.
AckedDurable == acked \subseteq DurableEvents

-----------------------------------------------------------------------------
(* What no step may do. *)

\* g is f with lines added at its end, or with its last newline completed.
Extends(f, g) ==
  /\ g.header = f.header
  /\ Len(f.lines) <= Len(g.lines)
  /\ \A i \in DOMAIN f.lines :
       \/ g.lines[i] = f.lines[i]
       \/ i = Len(f.lines) /\ g.lines[i] = [ev |-> f.lines[i].ev, nl |-> TRUE]

\* Segment files the catalog names only grow, the sealed ones not at all, and
\* the catalog never drops, moves or rewrites a sealed segment.
AppendOnly ==
  [][\A k \in DOMAIN catalog.segs :
       LET id == catalog.segs[k].id
       IN  /\ k \in DOMAIN catalog'.segs /\ catalog'.segs[k].id = id
           /\ id \in DOMAIN files' /\ Extends(files[id], files'[id])
           /\ catalog.segs[k].sealed =>
                /\ catalog'.segs[k] = catalog.segs[k]
                /\ files'[id] = files[id]]_vars

-----------------------------------------------------------------------------
(* Liveness. *)

\* Whoever holds the lock lets go of it: no path through the append, and no
\* error in it, leaves the other processes blocked.
LockReleased == \A w \in Writers : (lock = w) ~> (lock # w)
=============================================================================
