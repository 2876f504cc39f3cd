--------------------------- MODULE EventLogProofs ---------------------------
(***************************************************************************)
(* Theorems about EventLog, DurableLog and LogReaders, for any number of   *)
(* writers and readers, any payloads and sizes, any segment limits and any *)
(* number of kills: what the writers leave on the disk, that they          *)
(* implement the append-only log of AbstractLog, and what a load without   *)
(* the lock gets.                                                          *)
(***************************************************************************)
EXTENDS LogReaders, SegmentsProofs

USE DEF disk, local, history

-----------------------------------------------------------------------------
(* Type correctness.                                                       *)
(*                                                                         *)
(* TypeOK alone is not inductive: the code indexes the catalog by its      *)
(* active segment, the files by the segments of a catalog and the batch by *)
(* the loop's position, and each index has to stay in range.               *)

PositionOK(w) ==
  pc[w] \in {"roll_flush", "roll_catalog", "put"} =>
    pos[w] <= Len(batch[w]) /\ HasActive(mem[w])

TypeInv ==
  /\ TypeOK
  /\ CatalogOK(catalog, files)
  /\ \A w \in Writers : CatalogOK(mem[w], files)
  /\ \A w \in Writers : PositionOK(w)

\* Completing the last newline changes nothing but that newline.
LEMMA WithNewlineType ==
  ASSUME NEW lines \in Seq(Line), NEW due
  PROVE  /\ WithNewline(lines, due) \in Seq(Line)
         /\ Len(WithNewline(lines, due)) = Len(lines)
         /\ \A i \in 1..Len(lines) :
              WithNewline(lines, due)[i] =
                IF due /\ i = Len(lines) THEN [ev |-> lines[i].ev, nl |-> TRUE] ELSE lines[i]
<1> DEFINE n == Len(lines)
           last == [ev |-> lines[n].ev, nl |-> TRUE]
<1>1. CASE due /\ n # 0
  <2>1. n \in 1..Len(lines) /\ lines[n] \in Line /\ n \in DOMAIN lines
    BY <1>1
  <2>2. last \in Line
    BY <2>1 DEF Line
  <2>3. WithNewline(lines, due) = [lines EXCEPT ![n] = last]
    BY <1>1 DEF WithNewline
  <2> HIDE DEF n, last
  <2>4. /\ [lines EXCEPT ![n] = last] \in Seq(Line)
        /\ Len([lines EXCEPT ![n] = last]) = Len(lines)
        /\ \A i \in 1..Len(lines) :
             [lines EXCEPT ![n] = last][i] = IF i = n THEN last ELSE lines[i]
    BY <2>1, <2>2
  <2> QED BY <1>1, <2>3, <2>4 DEF n, last
<1>2. CASE ~due
  BY <1>2 DEF WithNewline
<1>3. CASE n = 0
  <2>1. lines = << >> /\ 1..Len(lines) = {}
    BY <1>3
  <2>2. [lines EXCEPT ![Len(lines)] = [ev |-> @.ev, nl |-> TRUE]] = lines
    BY <2>1
  <2>3. WithNewline(lines, due) = lines
    BY <2>2 DEF WithNewline
  <2> QED BY <2>1, <2>3
<1> QED BY <1>1, <1>2, <1>3

\* The lines of a buffer are as many, each whole and with its event.
LEMMA WholeLinesType ==
  ASSUME NEW events \in Seq(Event)
  PROVE  /\ WholeLines(events) \in Seq(Line)
         /\ Len(WholeLines(events)) = Len(events)
         /\ \A i \in 1..Len(events) :
              WholeLines(events)[i] = [ev |-> events[i], nl |-> TRUE]
<1> DEFINE line(i) == [ev |-> events[i], nl |-> TRUE]
<1>1. \A i \in 1..Len(events) : line(i) \in Line
  <2> SUFFICES ASSUME NEW i \in 1..Len(events) PROVE line(i) \in Line
    OBVIOUS
  <2>1. events[i] \in Event
    OBVIOUS
  <2> QED BY <2>1 DEF Line
<1>2. DOMAIN events = 1..Len(events) /\ Len(events) \in Nat
  OBVIOUS
<1>3. WholeLines(events) = [i \in 1..Len(events) |-> line(i)]
  BY <1>2 DEF WholeLines
<1> HIDE DEF line
<1>4. /\ [i \in 1..Len(events) |-> line(i)] \in Seq(Line)
      /\ Len([i \in 1..Len(events) |-> line(i)]) = Len(events)
  BY <1>1, <1>2
<1> QED BY <1>2, <1>3, <1>4 DEF line

\* A flush leaves the set of files as it is, and files in them.
LEMMA FlushedType ==
  ASSUME TypeOK, NEW w \in Writers
  PROVE  /\ Flushed(w) \in [DOMAIN files -> File]
         /\ DOMAIN Flushed(w) = DOMAIN files
<1> DEFINE id == mem[w].segs[out[w]].id
           old == files[id].lines
           new == WithNewline(old, owed[w]) \o WholeLines(buf[w])
<1>1. CASE out[w] = 0
  BY <1>1 DEF Flushed, TypeOK
<1>2. CASE out[w] # 0 /\ id \notin DOMAIN files
  BY <1>2 DEF Flushed, TypeOK
<1>3. CASE out[w] # 0 /\ id \in DOMAIN files
  <2>1. files[id] \in File
    BY <1>3 DEF TypeOK
  <2>2. old \in Seq(Line)
    BY <2>1 DEF File
  <2>3. WithNewline(old, owed[w]) \in Seq(Line)
    BY <2>2, WithNewlineType DEF TypeOK
  <2>4. WholeLines(buf[w]) \in Seq(Line)
    BY WholeLinesType DEF TypeOK
  <2>5. new \in Seq(Line)
    BY <2>3, <2>4
  <2>6. Flushed(w) = [files EXCEPT ![id] = [files[id] EXCEPT !.lines = new]]
    BY <1>3 DEF Flushed
  <2>7. [files[id] EXCEPT !.lines = new] \in File
    BY <2>1, <2>5 DEF File
  <2> HIDE DEF id, new
  <2> QED BY <1>3, <2>6, <2>7 DEF TypeOK
<1> QED BY <1>1, <1>2, <1>3

LEMMA InitTypeInv == Init => TypeInv
<1> SUFFICES ASSUME Init PROVE TypeInv
  OBVIOUS
<1>1. files \in [DOMAIN files -> File] /\ DOMAIN files = {}
  BY DEF Init, NoFiles
<1>2. TypeOK
  BY <1>1, NewCatalogType DEF Init, TypeOK, Controls
<1> QED BY <1>2, NewCatalogType DEF Init, TypeInv, PositionOK

\* The steps that end a command leave no catalog and no batch behind.
LEMMA ForgetTypeInv ==
  ASSUME TypeInv, NEW w \in Writers, Forget(w), Goto(w, "idle"),
         UNCHANGED disk, lock' \in Writers \union {NoOne},
         acked' \subseteq Event, crashes' \in Nat
  PROVE  TypeInv'
<1>1. TypeOK'
  BY NewCatalogType, SMTT(20) DEF TypeInv, TypeOK, Forget, Goto, Controls
<1>2. CatalogOK(catalog, files)'
  BY DEF TypeInv
<1>3. \A v \in Writers : CatalogOK(mem[v], files)'
  BY NewCatalogType DEF TypeInv, TypeOK, Forget
<1>4. \A v \in Writers : PositionOK(v)'
  BY DEF TypeInv, TypeOK, PositionOK, Forget, Goto
<1> QED BY <1>1, <1>2, <1>3, <1>4 DEF TypeInv

\* The event the loop is at is an event.
LEMMA CurrentType ==
  ASSUME TypeInv, NEW w \in Writers, pos[w] <= Len(batch[w])
  PROVE  Current(w) \in Event
<1>1. batch[w] \in Seq(Event) /\ pos[w] \in Nat \ {0}
  BY DEF TypeInv, TypeOK
<1> QED BY <1>1 DEF Current

\* Before a line is written there is an active segment and a current event.
LEMMA PuttingType ==
  ASSUME TypeInv, NEW w \in Writers, Putting(w)
  PROVE  /\ Current(w) \in Event
         /\ mem[w] \in Catalog
         /\ mem[w].active \in 1..Len(mem[w].segs)
<1>1. pos[w] <= Len(batch[w]) /\ HasActive(mem[w])
  BY DEF TypeInv, PositionOK, Putting, Pending, NeedsRoll
<1>2. mem[w] \in Catalog /\ mem[w].active \in 0..Len(mem[w].segs) /\ mem[w].active \in Nat
      /\ Len(mem[w].segs) \in Nat
  BY DEF TypeInv, TypeOK, CatalogOK, Catalog
<1>3. mem[w].active \in 1..Len(mem[w].segs)
  BY <1>1, <1>2 DEF HasActive
<1> QED BY <1>1, <1>2, <1>3, CurrentType

\* Recording the current event keeps everything typed but for the disk.
LEMMA RecordTypeInv ==
  ASSUME TypeInv, NEW w \in Writers, Putting(w), Record(w)
  PROVE  /\ out' \in [Writers -> Nat] /\ pos' \in [Writers -> Nat \ {0}]
         /\ pc' \in [Writers -> Controls]
         /\ mem' \in [Writers -> Catalog]
         /\ \A v \in Writers : CatalogOK(mem'[v], files)
         /\ \A v \in Writers : v # w => pc'[v] = pc[v] /\ pos'[v] = pos[v] /\ mem'[v] = mem[v]
         /\ pc'[w] = "event"
<1>1. /\ Current(w) \in Event /\ mem[w] \in Catalog
      /\ mem[w].active \in 1..Len(mem[w].segs) /\ mem[w].active \in Nat
  BY PuttingType DEF Catalog
<1>2. Recorded(mem[w], Current(w)) \in Catalog
  BY <1>1, RecordedType
<1>3. CatalogOK(Recorded(mem[w], Current(w)), files)
  <2> DEFINE c == mem[w]
             new == WithLine(ActiveEntry(c), Current(w))
             r == Recorded(c, Current(w))
  <2>1. /\ r.active = c.active
        /\ r.segs = [c.segs EXCEPT ![c.active] = new]
        /\ new.id = c.segs[c.active].id
    BY <1>1, RecordedType DEF ActiveEntry
  <2>2. /\ c.active \in 0..Len(c.segs) /\ c.segs \in Seq(Entry)
        /\ \A k \in DOMAIN c.segs : c.segs[k].id \in DOMAIN files
    BY <1>1 DEF TypeInv, CatalogOK, Catalog
  <2> HIDE DEF c, new, r
  <2> QED BY <2>1, <2>2 DEF CatalogOK, r, c
<1>4. /\ out' = [out EXCEPT ![w] = mem[w].active]
      /\ mem' = [mem EXCEPT ![w] = Recorded(mem[w], Current(w))]
      /\ pos' = [pos EXCEPT ![w] = pos[w] + 1]
      /\ pc' = [pc EXCEPT ![w] = "event"]
  BY DEF Record, Goto
<1> QED BY <1>1, <1>2, <1>3, <1>4, SMTT(20) DEF TypeInv, TypeOK, Controls, Critical

\* Steps that leave the disk alone, and of the writers' memory change at most
\* the control point and the catalog of one.
LEMMA MemoryTypeInv ==
  ASSUME TypeInv, NEW w \in Writers, NEW c \in Catalog, CatalogOK(c, files),
         UNCHANGED <<files, catalog, batch, out, buf, owed, acked, crashes>>,
         mem' = [mem EXCEPT ![w] = c],
         lock' \in Writers \union {NoOne},
         pos' \in [Writers -> Nat \ {0}], \A v \in Writers : v # w => pos'[v] = pos[v],
         NEW label \in Controls \ {"roll_flush", "roll_catalog", "put"}, Goto(w, label)
  PROVE  TypeInv'
<1>1. TypeOK'
  BY DEF TypeInv, TypeOK, Goto
<1>2. CatalogOK(catalog, files)' /\ \A v \in Writers : CatalogOK(mem[v], files)'
  BY DEF TypeInv, TypeOK
<1>3. \A v \in Writers : PositionOK(v)'
  BY DEF TypeInv, TypeOK, PositionOK, Goto
<1> QED BY <1>1, <1>2, <1>3 DEF TypeInv

\* A flush, whatever control point follows it.
LEMMA FlushTypeInv ==
  ASSUME TypeInv, NEW w \in Writers,
         files' = Flushed(w), EmptyBuffer(w), UNCHANGED <<catalog, lock, mem, batch, pos, history>>,
         out' \in [Writers -> Nat],
         NEW label \in Controls, Goto(w, label),
         label \in {"roll_flush", "roll_catalog", "put"} =>
            pos[w] <= Len(batch[w]) /\ HasActive(mem[w])
  PROVE  TypeInv'
<1>1. files' \in [DOMAIN files -> File] /\ DOMAIN files' = DOMAIN files
  BY FlushedType DEF TypeInv
<1>2. TypeOK'
  <2>1. << >> \in Seq(Event)
    OBVIOUS
  <2> QED BY <1>1, <2>1 DEF TypeInv, TypeOK, Goto, EmptyBuffer
<1>3. CatalogOK(catalog, files)' /\ \A v \in Writers : CatalogOK(mem[v], files)'
  BY <1>1 DEF TypeInv, CatalogOK
<1>4. \A v \in Writers : PositionOK(v)'
  BY DEF TypeInv, TypeOK, PositionOK, Goto
<1> QED BY <1>2, <1>3, <1>4 DEF TypeInv

\* A new segment's header and the catalog in memory that names it.
LEMMA RollTypeInv ==
  ASSUME TypeInv, NEW w \in Writers, RollSegment(w)
  PROVE  TypeInv'
<1> DEFINE c == mem[w]
           e == Current(w)
           entry == RolledEntry(c, e)
           file == [header |-> HeaderOf(entry), lines |-> << >>]
<1>1. e \in Event /\ c \in Catalog /\ c.active \in 0..Len(c.segs) /\ pos[w] <= Len(batch[w])
  BY CurrentType DEF RollSegment, Pending, TypeInv, TypeOK, CatalogOK
<1>2. entry \in Entry /\ entry.id \in SegId /\ file \in File
  <2>1. entry \in Entry /\ HeaderOf(entry) \in Header
    BY <1>1, RolledEntryType
  <2>2. << >> \in Seq(Line)
    OBVIOUS
  <2> HIDE DEF entry
  <2> QED BY <2>1, <2>2 DEF Entry, File
<1>3. /\ files' = [id \in DOMAIN files \union {entry.id} |->
                     IF id = entry.id THEN file ELSE files[id]]
      /\ mem' = [mem EXCEPT ![w] = Rolled(c, e)]
      /\ pc' = [pc EXCEPT ![w] = "roll_flush"]
      /\ UNCHANGED <<catalog, lock, batch, pos, out, buf, owed, history>>
  BY DEF RollSegment, Goto
<1> HIDE DEF file
<1>4. /\ files' \in [DOMAIN files' -> File]
      /\ DOMAIN files' = DOMAIN files \union {entry.id}
  <2> HIDE DEF entry
  <2> QED BY <1>2, <1>3 DEF TypeInv, TypeOK
<1>5. /\ Rolled(c, e) \in Catalog
      /\ Rolled(c, e).active = Len(c.segs) + 1
      /\ Len(Rolled(c, e).segs) = Len(c.segs) + 1
      /\ Rolled(c, e).segs[Len(c.segs) + 1] = entry
      /\ \A k \in 1..Len(c.segs) : Rolled(c, e).segs[k].id = c.segs[k].id
  <2>1. \A k \in 1..Len(c.segs) : [c.segs[k] EXCEPT !.sealed = TRUE].id = c.segs[k].id
    <3>1. c.segs \in Seq(Entry)
      BY <1>1 DEF Catalog
    <3> QED BY <3>1 DEF Entry
  <2> QED BY <1>1, <2>1, RolledType, ZenonT(40)
<1> HIDE DEF c, e, entry
<1>6. TypeOK'
  <2>1. DOMAIN files' \subseteq SegId
    BY <1>2, <1>4 DEF TypeInv, TypeOK
  <2> QED BY <1>3, <1>4, <1>5, <2>1 DEF TypeInv, TypeOK, Controls, Critical
<1>7. CatalogOK(Rolled(c, e), files') /\ HasActive(Rolled(c, e))
  <2>1. Len(c.segs) \in Nat /\ Rolled(c, e).segs \in Seq(Entry)
    BY <1>1, <1>5 DEF Catalog
  <2>2. Rolled(c, e).active \in 0..Len(Rolled(c, e).segs) /\ Rolled(c, e).active # 0
    BY <1>5, <2>1
  <2>3. \A k \in DOMAIN c.segs : c.segs[k].id \in DOMAIN files
    BY DEF TypeInv, CatalogOK, c
  <2>4. DOMAIN c.segs = 1..Len(c.segs)
    BY <1>1 DEF Catalog
  <2>5. \A k \in DOMAIN Rolled(c, e).segs : k \in 1..Len(c.segs) \/ k = Len(c.segs) + 1
    BY <1>5, <2>1
  <2> QED BY <1>4, <1>5, <2>2, <2>3, <2>4, <2>5 DEF CatalogOK, HasActive
<1>8. CatalogOK(catalog, files)' /\ \A v \in Writers : CatalogOK(mem[v], files)'
  BY <1>3, <1>4, <1>7 DEF TypeInv, TypeOK, CatalogOK
<1>9. \A v \in Writers : PositionOK(v)'
  BY <1>1, <1>3, <1>7 DEF TypeInv, TypeOK, PositionOK
<1> QED BY <1>6, <1>8, <1>9 DEF TypeInv

\* Every step of a running command keeps the state typed.
LEMMA StepTypeInv ==
  ASSUME TypeInv, NEW w \in Writers, Step(w)
  PROVE  TypeInv'
<1> USE DEF Controls, Critical
<1>0. /\ mem[w] \in Catalog /\ catalog \in Catalog
      /\ CatalogOK(mem[w], files) /\ CatalogOK(catalog, files)
      /\ batch[w] \in Seq(Event) /\ w \in Writers
      /\ \A id \in DOMAIN files : files[id] \in File
      /\ mem = [mem EXCEPT ![w] = mem[w]]
      /\ TypeOK
  BY DEF TypeInv, TypeOK
<1>1. CASE BuildBatch(w)
  <2> DEFINE tail == Reconcile(mem[w], files)
  <2>1. tail.next \in Nat /\ tail.head \in Digest
    BY <1>0, ReconcileType DEF Catalog
  <2>a. PICK n \in 1..MaxBatch, ns \in Namespaces :
          \E pays \in [1..n -> Payloads], flaw \in 0..n :
            batch' = [batch EXCEPT ![w] = BuildEvents(tail.next, tail.head, ns, pays, flaw)]
    BY <1>1 DEF BuildBatch
  <2>2. PICK pays \in [1..n -> Payloads], flaw \in 0..n :
          batch' = [batch EXCEPT ![w] = BuildEvents(tail.next, tail.head, ns, pays, flaw)]
    BY <2>a
  <2>3. BuildEvents(tail.next, tail.head, ns, pays, flaw) \in Seq(Event)
    <3>1. n \in Nat
      BY BoundAssumption
    <3> HIDE DEF tail
    <3> QED BY <2>1, <3>1, BuildEventsType
  <2>4. batch' \in [Writers -> Seq(Event)] /\ \A v \in Writers : v # w => batch'[v] = batch[v]
    <3> HIDE DEF tail
    <3> QED BY <1>0, <2>2, <2>3 DEF TypeOK
  <2>5. /\ mem' = [mem EXCEPT ![w] = NewCatalog] /\ pc' = [pc EXCEPT ![w] = "lock"]
        /\ UNCHANGED <<files, catalog, lock, pos, out, buf, owed, acked, crashes>>
    BY <1>1 DEF BuildBatch, Goto
  <2>6. TypeOK'
    BY <2>4, <2>5, NewCatalogType DEF TypeInv, TypeOK
  <2>7. CatalogOK(catalog, files)' /\ \A v \in Writers : CatalogOK(mem[v], files)'
    BY <2>5, NewCatalogType DEF TypeInv, TypeOK
  <2>8. \A v \in Writers : PositionOK(v)'
    BY <2>4, <2>5 DEF TypeInv, TypeOK, PositionOK
  <2> QED BY <2>6, <2>7, <2>8 DEF TypeInv
<1>2. CASE ReturnTail(w)
  BY <1>0, <1>2, ForgetTypeInv DEF ReturnTail, TypeOK
<1>3. CASE ReadTailFails(w)
  BY <1>0, <1>3, ForgetTypeInv DEF ReadTailFails, TypeOK
<1>4. CASE AcquireLock(w)
  BY <1>0, <1>4, MemoryTypeInv DEF AcquireLock, TypeOK
<1>5. CASE OpenLog(w)
  <2>1. Reconcile(catalog, files) \in Catalog /\ CatalogOK(Reconcile(catalog, files), files)
    BY <1>0, ReconcileType
  <2>2. pos' \in [Writers -> Nat \ {0}] /\ \A v \in Writers : v # w => pos'[v] = pos[v]
    BY <1>0, <1>5 DEF OpenLog, TypeOK
  <2> QED BY <1>0, <1>5, <2>1, <2>2, MemoryTypeInv DEF OpenLog, TypeOK
<1>6. CASE OpenFails(w)
  BY <1>0, <1>6, MemoryTypeInv DEF OpenFails, TypeOK
<1>7. CASE Reject(w)
  BY <1>0, <1>7, MemoryTypeInv DEF Reject, TypeOK
<1>8. CASE RollSegment(w)
  BY <1>8, RollTypeInv
<1>9. CASE FlushRolled(w)
  <2>1. out' \in [Writers -> Nat]
    BY <1>0, <1>9 DEF FlushRolled, TypeOK
  <2>2. pos[w] <= Len(batch[w]) /\ HasActive(mem[w])
    BY <1>9 DEF FlushRolled, TypeInv, PositionOK
  <2> QED BY <1>9, <2>1, <2>2, FlushTypeInv DEF FlushRolled
<1>10. CASE WriteRolledCatalog(w)
  <2>1. TypeOK'
    BY <1>0, <1>10 DEF WriteRolledCatalog, TypeOK, Goto
  <2>2. CatalogOK(catalog, files)' /\ \A v \in Writers : CatalogOK(mem[v], files)'
    BY <1>0, <1>10 DEF WriteRolledCatalog, TypeInv
  <2>3. \A v \in Writers : PositionOK(v)'
    BY <1>0, <1>10 DEF WriteRolledCatalog, TypeInv, TypeOK, PositionOK, Goto
  <2> QED BY <2>1, <2>2, <2>3 DEF TypeInv
<1>11. CASE PutLine(w)
  <2>1. Putting(w) /\ Record(w) /\ Current(w) \in Event
    BY <1>11, PuttingType DEF PutLine
  <2>2. buf' \in [Writers -> Seq(Event)] /\ UNCHANGED <<files, catalog, lock, batch, owed, acked, crashes>>
    BY <1>0, <1>11, <2>1 DEF PutLine, TypeOK
  <2>3. TypeOK'
    BY <2>1, <2>2, RecordTypeInv DEF TypeInv, TypeOK
  <2>4. CatalogOK(catalog, files)' /\ \A v \in Writers : CatalogOK(mem[v], files)'
    BY <2>1, <2>2, RecordTypeInv DEF TypeInv
  <2>5. \A v \in Writers : PositionOK(v)'
    BY <2>1, <2>2, RecordTypeInv DEF TypeInv, PositionOK
  <2> QED BY <2>3, <2>4, <2>5 DEF TypeInv
<1>12. CASE PutLargeLine(w)
  <2> DEFINE id == ActiveEntry(mem[w]).id
             line == [ev |-> Current(w), nl |-> FALSE]
  <2>1. Putting(w) /\ Record(w) /\ Current(w) \in Event /\ mem[w].active \in 1..Len(mem[w].segs)
    BY <1>12, PuttingType DEF PutLargeLine
  <2>2. id \in DOMAIN files /\ files[id] \in File
    BY <1>0, <2>1 DEF CatalogOK, Catalog, ActiveEntry
  <2>3. Append(files[id].lines, line) \in Seq(Line)
    <3>1. files[id].lines \in Seq(Line)
      BY <2>2 DEF File
    <3>2. line \in Line
      BY <2>1 DEF Line
    <3> HIDE DEF line
    <3> QED BY <3>1, <3>2
  <2>4. /\ files' = [files EXCEPT ![id] = [files[id] EXCEPT !.lines = Append(files[id].lines, line)]]
        /\ owed' = [owed EXCEPT ![w] = TRUE]
        /\ UNCHANGED <<catalog, lock, batch, buf, acked, crashes>>
    BY <1>12 DEF PutLargeLine
  <2>5. files' \in [DOMAIN files' -> File] /\ DOMAIN files' = DOMAIN files
    <3>1. [files[id] EXCEPT !.lines = Append(files[id].lines, line)] \in File
      BY <2>2, <2>3 DEF File
    <3> HIDE DEF id, line
    <3> QED BY <1>0, <2>2, <2>4, <3>1 DEF TypeOK
  <2>6. TypeOK'
    BY <2>1, <2>4, <2>5, RecordTypeInv DEF TypeInv, TypeOK
  <2>7. CatalogOK(catalog, files)' /\ \A v \in Writers : CatalogOK(mem[v], files)'
    BY <2>1, <2>4, <2>5, RecordTypeInv DEF TypeInv, CatalogOK
  <2>8. \A v \in Writers : PositionOK(v)'
    BY <2>1, <2>4, RecordTypeInv DEF TypeInv, PositionOK
  <2> QED BY <2>6, <2>7, <2>8 DEF TypeInv
<1>13. CASE Spill(w)
  <2>1. pc[w] \in Controls /\ Goto(w, pc[w])
    BY <1>0, <1>13 DEF Spill, Goto, TypeOK
  <2>2. pc[w] \in {"roll_flush", "roll_catalog", "put"} =>
          pos[w] <= Len(batch[w]) /\ HasActive(mem[w])
    BY DEF TypeInv, PositionOK
  <2> QED BY <1>0, <1>13, <2>1, <2>2, FlushTypeInv DEF Spill, TypeOK
<1>14. CASE FlushBatch(w)
  BY <1>0, <1>14, FlushTypeInv DEF FlushBatch, TypeOK
<1>15. CASE WriteCatalog(w)
  <2>1. TypeOK'
    BY <1>0, <1>15 DEF WriteCatalog, TypeOK, Goto
  <2>2. CatalogOK(catalog, files)' /\ \A v \in Writers : CatalogOK(mem[v], files)'
    BY <1>0, <1>15 DEF WriteCatalog, TypeInv
  <2>3. \A v \in Writers : PositionOK(v)'
    BY <1>0, <1>15 DEF WriteCatalog, TypeInv, TypeOK, PositionOK, Goto
  <2> QED BY <2>1, <2>2, <2>3 DEF TypeInv
<1>16. CASE DropWriter(w)
  BY <1>0, <1>16, FlushTypeInv DEF DropWriter, TypeOK
<1>17. CASE Unlock(w)
  <2>1. EventsIn(batch[w]) \subseteq Event
    BY <1>0 DEF EventsIn
  <2>2. acked' \subseteq Event /\ crashes' \in Nat /\ lock' \in Writers \union {NoOne}
    BY <1>0, <1>17, <2>1 DEF Unlock, TypeOK
  <2> QED BY <1>17, <2>2, ForgetTypeInv DEF Unlock
<1> QED
  BY <1>1, <1>2, <1>3, <1>4, <1>5, <1>6, <1>7, <1>8, <1>9, <1>10, <1>11, <1>12, <1>13,
     <1>14, <1>15, <1>16, <1>17 DEF Step

\* Every step preserves the strengthened type invariant.
LEMMA NextTypeInv == TypeInv /\ [Next]_vars => TypeInv'
<1> SUFFICES ASSUME TypeInv, [Next]_vars PROVE TypeInv'
  OBVIOUS
<1>1. CASE UNCHANGED vars
  BY <1>1 DEF vars, TypeInv, TypeOK, PositionOK
<1>2. ASSUME NEW w \in Writers, ReadTail(w) PROVE TypeInv'
  BY <1>2, MemoryTypeInv DEF ReadTail, TypeInv, TypeOK, Controls
<1>3. ASSUME NEW w \in Writers, Step(w) PROVE TypeInv'
  BY <1>3, StepTypeInv
<1>4. ASSUME NEW w \in Writers, Crash(w) PROVE TypeInv'
  <2>1. acked' \subseteq Event /\ crashes' \in Nat /\ lock' \in Writers \union {NoOne}
    BY <1>4 DEF Crash, TypeInv, TypeOK
  <2> QED BY <1>4, <2>1, ForgetTypeInv DEF Crash
<1> QED BY <1>1, <1>2, <1>3, <1>4 DEF Next

\* The type invariant, and with it that no step indexes a catalog, the files
\* or a batch out of range.
THEOREM TypeCorrect == Spec => []TypeOK
<1>1. Init => TypeInv
  BY InitTypeInv
<1>2. TypeInv /\ [Next]_vars => TypeInv'
  BY NextTypeInv
<1>3. TypeInv => TypeOK
  BY DEF TypeInv
<1> QED BY <1>1, <1>2, <1>3, PTL DEF Spec

-----------------------------------------------------------------------------
(* The inductive invariant of the append path.                             *)
(*                                                                         *)
(* None of the safety properties is inductive.  What makes them so is what *)
(* the lock holder knows while it appends: the catalog in its memory       *)
(* describes exactly what the files will hold once its BufWriter is        *)
(* flushed (HolderInv), the catalog on disk is one a reconciliation can    *)
(* repair (DiskInv), and no other process is past AcquireLock (LockInv).   *)

\* Control points at which the holder has a catalog in memory, and those at
\* which that catalog has a segment more than the one on disk.
Loop == {"event", "roll_flush", "roll_catalog", "put", "commit", "abort"}
Rolling == {"roll_flush", "roll_catalog"}

\* The events of the segments of a catalog m once the lines b are added to the
\* file of its segment o.
Merged(m, disk0, o, b) ==
  [k \in 1..Len(m.segs) |-> IF k = o THEN Contents(m, disk0)[k] \o b ELSE Contents(m, disk0)[k]]

\* What the files of w's segments will hold once its BufWriter is flushed, and
\* what the files of the segments of the catalog on disk hold.
View(w) == Merged(mem[w], files, out[w], buf[w])
OnFile == Contents(catalog, files)

LockInv ==
  \A w \in Writers :
    /\ lock = w <=> pc[w] \in Critical
    /\ pc[w] \in {"idle", "scan", "lock", "open"} => out[w] = 0 /\ buf[w] = << >>

DiskInv == OnDisk(catalog, OnFile)

HolderInv(w) ==
  pc[w] \in Loop =>
    /\ Exact(mem[w], View(w))
    /\ Follows(catalog, mem[w])
    /\ pc[w] \in Rolling => Len(mem[w].segs) = Len(catalog.segs) + 1
    /\ pc[w] \notin Rolling => Len(mem[w].segs) = Len(catalog.segs)
    /\ out[w] \in {0, Len(catalog.segs)}
    /\ out[w] = 0 => buf[w] = << >>
    /\ pc[w] \in {"roll_catalog", "put"} => out[w] = 0
    /\ pc[w] = "commit" => buf[w] = << >>
    /\ pc[w] \in {"roll_flush", "roll_catalog", "put"} => Admissible(mem[w], Current(w))

LogInv ==
  /\ TypeInv
  /\ LockInv
  /\ DiskInv
  /\ \A w \in Writers : HolderInv(w)

\* What a step does to the segments the catalog names (the body of AppendOnly).
Grows ==
  \A k \in DOMAIN catalog.segs :
    LET id == catalog.segs[k].id
    IN  /\ k \in DOMAIN catalog'.segs /\ catalog'.segs[k].id = id
        /\ id \in DOMAIN files' /\ Extends(files[id], files'[id])
        /\ catalog.segs[k].sealed =>
             /\ catalog'.segs[k] = catalog.segs[k]
             /\ files'[id] = files[id]

\* The types of what the invariant talks about.
LEMMA LogTypes ==
  ASSUME TypeInv
  PROVE  /\ catalog \in Catalog /\ CatalogOK(catalog, files)
         /\ \A id \in DOMAIN files : files[id] \in File /\ files[id].lines \in Seq(Line)
         /\ OnFile \in [1..Len(catalog.segs) -> Seq(Event)]
         /\ Len(catalog.segs) \in Nat /\ DOMAIN catalog.segs = 1..Len(catalog.segs)
         /\ \A k \in 1..Len(catalog.segs) :
              /\ catalog.segs[k].id \in DOMAIN files
              /\ OnFile[k] = EventsOf(files[catalog.segs[k].id].lines)
<1>1. catalog \in Catalog /\ CatalogOK(catalog, files)
  BY DEF TypeInv, TypeOK
<1>2. \A id \in DOMAIN files : files[id] \in File
  BY DEF TypeInv, TypeOK
<1>3. \A id \in DOMAIN files : files[id].lines \in Seq(Line)
  BY <1>2 DEF File
<1>4. /\ Len(catalog.segs) \in Nat /\ DOMAIN catalog.segs = 1..Len(catalog.segs)
      /\ \A k \in 1..Len(catalog.segs) : catalog.segs[k].id \in DOMAIN files
  BY <1>1, SegsType DEF CatalogOK
<1>5. /\ OnFile \in [1..Len(catalog.segs) -> Seq(Event)]
      /\ \A k \in 1..Len(catalog.segs) : OnFile[k] = EventsOf(files[catalog.segs[k].id].lines)
  BY <1>1, <1>2, ContentsType DEF OnFile
<1> QED BY <1>1, <1>2, <1>3, <1>4, <1>5

\* The types of what one writer has in memory.
LEMMA WriterTypes ==
  ASSUME TypeInv, NEW w \in Writers
  PROVE  /\ mem[w] \in Catalog /\ CatalogOK(mem[w], files) /\ out[w] \in Nat
         /\ buf[w] \in Seq(Event) /\ batch[w] \in Seq(Event) /\ pos[w] \in Nat \ {0}
         /\ owed[w] \in BOOLEAN /\ pc[w] \in Controls
         /\ View(w) \in [1..Len(mem[w].segs) -> Seq(Event)]
         /\ Len(mem[w].segs) \in Nat /\ DOMAIN mem[w].segs = 1..Len(mem[w].segs)
         /\ \A k \in 1..Len(mem[w].segs) :
              /\ mem[w].segs[k].id \in DOMAIN files
              /\ EventsOf(files[mem[w].segs[k].id].lines) \in Seq(Event)
              /\ View(w)[k] = IF k = out[w] THEN EventsOf(files[mem[w].segs[k].id].lines) \o buf[w]
                                            ELSE EventsOf(files[mem[w].segs[k].id].lines)
<1>1. /\ mem[w] \in Catalog /\ CatalogOK(mem[w], files) /\ out[w] \in Nat
      /\ buf[w] \in Seq(Event) /\ batch[w] \in Seq(Event) /\ pos[w] \in Nat \ {0}
      /\ owed[w] \in BOOLEAN /\ pc[w] \in Controls
  BY DEF TypeInv, TypeOK
<1>2. \A id \in DOMAIN files : files[id] \in File
  BY LogTypes
<1>3. /\ Len(mem[w].segs) \in Nat /\ DOMAIN mem[w].segs = 1..Len(mem[w].segs)
      /\ \A k \in 1..Len(mem[w].segs) : mem[w].segs[k].id \in DOMAIN files
  BY <1>1, SegsType DEF CatalogOK
<1> DEFINE C == Contents(mem[w], files)
           n == Len(mem[w].segs)
<1>4. /\ C \in [1..n -> Seq(Event)]
      /\ \A k \in 1..n : C[k] = EventsOf(files[mem[w].segs[k].id].lines)
  BY <1>1, <1>2, ContentsType
<1>5. View(w) = [k \in 1..n |-> IF k = out[w] THEN C[k] \o buf[w] ELSE C[k]]
  BY DEF View, Merged
<1> HIDE DEF C, n
<1>6. /\ View(w) \in [1..n -> Seq(Event)]
      /\ \A k \in 1..n : View(w)[k] = IF k = out[w] THEN C[k] \o buf[w] ELSE C[k]
  <2>1. \A k \in 1..n : C[k] \in Seq(Event) /\ C[k] \o buf[w] \in Seq(Event)
    BY <1>1, <1>4
  <2> QED BY <1>5, <2>1
<1>7. \A k \in 1..n : EventsOf(files[mem[w].segs[k].id].lines) \in Seq(Event)
  BY <1>4
<1> QED BY <1>1, <1>3, <1>4, <1>6, <1>7 DEF n

\* The lines of one file are at the start of another.
StartOf(lines, all) ==
  /\ Len(lines) <= Len(all)
  /\ \A i \in 1..Len(lines) :
       \/ all[i] = lines[i]
       \/ i = Len(lines) /\ all[i] = [ev |-> lines[i].ev, nl |-> TRUE]

\* A file that is added to keeps its events where they are.
LEMMA ExtendedEvents ==
  ASSUME NEW f, NEW g, Extends(f, g)
  PROVE  /\ Len(f.lines) <= Len(g.lines)
         /\ \A i \in DOMAIN f.lines : g.lines[i].ev = f.lines[i].ev
<1>1. ASSUME NEW i \in DOMAIN f.lines PROVE g.lines[i].ev = f.lines[i].ev
  <2>1. \/ g.lines[i] = f.lines[i]
        \/ g.lines[i] = [ev |-> f.lines[i].ev, nl |-> TRUE]
    BY DEF Extends
  <2>2. CASE g.lines[i] = f.lines[i]
    BY <2>2
  <2>3. CASE g.lines[i] = [ev |-> f.lines[i].ev, nl |-> TRUE]
    <3>1. [ev |-> f.lines[i].ev, nl |-> TRUE].ev = f.lines[i].ev
      OBVIOUS
    <3> QED BY <2>3, <3>1, Zenon
  <2> QED BY <2>1, <2>2, <2>3
<1> QED BY <1>1 DEF Extends

\* What a flush makes of the lines of a file.
LEMMA FlushedLines ==
  ASSUME NEW lines \in Seq(Line), NEW due, NEW events \in Seq(Event),
         NEW all, all = WithNewline(lines, due) \o WholeLines(events)
  PROVE  /\ all \in Seq(Line)
         /\ EventsOf(all) = EventsOf(lines) \o events
         /\ StartOf(lines, all)
<1> DEFINE old == WithNewline(lines, due)
           new == WholeLines(events)
           n == Len(lines)
           m == Len(events)
<1>1. /\ old \in Seq(Line) /\ Len(old) = n
      /\ \A i \in 1..n :
           old[i] = IF due /\ i = n THEN [ev |-> lines[i].ev, nl |-> TRUE] ELSE lines[i]
  BY WithNewlineType
<1>2. /\ new \in Seq(Line) /\ Len(new) = m
      /\ \A i \in 1..m : new[i] = [ev |-> events[i], nl |-> TRUE]
  BY WholeLinesType
<1>a. n \in Nat /\ m \in Nat
  OBVIOUS
<1> HIDE DEF old, new, n, m
<1>3. /\ all \in Seq(Line) /\ Len(all) = n + m
      /\ \A i \in 1..n : all[i] = old[i]
      /\ \A i \in 1..(n + m) : i > n => all[i] = new[i - n]
  <2>1. all = old \o new
    BY DEF old, new
  <2>2. /\ old \o new \in Seq(Line) /\ Len(old \o new) = n + m
        /\ \A i \in 1..n : (old \o new)[i] = old[i]
        /\ \A i \in 1..(n + m) : i > n => (old \o new)[i] = new[i - n]
    <3>1. old \in Seq(Line) /\ Len(old) = n
      BY <1>1
    <3>2. new \in Seq(Line) /\ Len(new) = m
      BY <1>2
    <3> QED BY <3>1, <3>2, Concatenation, ZenonT(40)
  <2> QED BY <2>1, <2>2
<1>4. ASSUME NEW i \in 1..n
      PROVE  /\ all[i].ev = lines[i].ev
             /\ \/ all[i] = lines[i]
                \/ i = n /\ all[i] = [ev |-> lines[i].ev, nl |-> TRUE]
  <2>1. CASE due /\ i = n
    <3>1. all[i] = [ev |-> lines[i].ev, nl |-> TRUE]
      BY <1>1, <1>3, <2>1
    <3>2. [ev |-> lines[i].ev, nl |-> TRUE].ev = lines[i].ev
      OBVIOUS
    <3> QED BY <2>1, <3>1, <3>2, Zenon
  <2>2. CASE ~(due /\ i = n)
    <3>1. all[i] = lines[i]
      BY <1>1, <1>3, <2>2
    <3> QED BY <3>1
  <2> QED BY <2>1, <2>2
<1>5. ASSUME NEW i \in 1..m PROVE new[i].ev = events[i]
  <2>1. new[i] = [ev |-> events[i], nl |-> TRUE]
    BY <1>2
  <2> QED BY <2>1
<1>6. /\ EventsOf(all) \in Seq(Event) /\ Len(EventsOf(all)) = n + m
      /\ \A i \in 1..(n + m) : EventsOf(all)[i] = all[i].ev
  BY <1>3, EventsOfType
<1>7. /\ EventsOf(lines) \in Seq(Event) /\ Len(EventsOf(lines)) = n
      /\ \A i \in 1..n : EventsOf(lines)[i] = lines[i].ev
  BY EventsOfType DEF n
<1>8. /\ EventsOf(lines) \o events \in Seq(Event) /\ Len(EventsOf(lines) \o events) = n + m
      /\ \A i \in 1..n : (EventsOf(lines) \o events)[i] = EventsOf(lines)[i]
      /\ \A i \in 1..(n + m) : i > n => (EventsOf(lines) \o events)[i] = events[i - n]
  BY <1>7, Concatenation, ZenonT(40) DEF m
<1>9. \A i \in 1..(n + m) : EventsOf(all)[i] = (EventsOf(lines) \o events)[i]
  <2> SUFFICES ASSUME NEW i \in 1..(n + m)
               PROVE  EventsOf(all)[i] = (EventsOf(lines) \o events)[i]
    OBVIOUS
  <2>1. CASE i \in 1..n
    <3>1. EventsOf(all)[i] = all[i].ev /\ all[i].ev = lines[i].ev
      BY <1>4, <1>6, <2>1
    <3> QED BY <1>7, <1>8, <2>1, <3>1
  <2>2. CASE i \notin 1..n
    <3>1. i > n /\ i - n \in 1..m
      BY <1>a, <2>2
    <3> QED BY <1>3, <1>5, <1>6, <1>8, <3>1
  <2> QED BY <2>1, <2>2
<1>10. EventsOf(all) = EventsOf(lines) \o events
  BY <1>6, <1>8, <1>9, SameElements
<1>11. StartOf(lines, all)
  BY <1>a, <1>3, <1>4 DEF StartOf, n
<1> QED BY <1>3, <1>10, <1>11

\* A flush adds the buffered lines to one file and leaves the others alone.
LEMMA FlushedFiles ==
  ASSUME TypeInv, NEW w \in Writers, out[w] # 0, out[w] \in 1..Len(mem[w].segs),
         NEW id \in DOMAIN files
  PROVE  /\ id # mem[w].segs[out[w]].id => Flushed(w)[id] = files[id]
         /\ id = mem[w].segs[out[w]].id =>
              EventsOf(Flushed(w)[id].lines) = EventsOf(files[id].lines) \o buf[w]
         /\ Extends(files[id], Flushed(w)[id])
<1> DEFINE at == mem[w].segs[out[w]].id
           lines == files[at].lines
           all == WithNewline(lines, owed[w]) \o WholeLines(buf[w])
<1>1. /\ buf[w] \in Seq(Event) /\ at \in DOMAIN files /\ owed[w] \in BOOLEAN
      /\ files[at] \in File /\ files[id] \in File /\ lines \in Seq(Line)
      /\ files[id].lines \in Seq(Line)
  BY WriterTypes, LogTypes
<1>2. files \in [DOMAIN files -> File]
  BY DEF TypeInv, TypeOK
<1>3. Flushed(w) = [files EXCEPT ![at] = [files[at] EXCEPT !.lines = all]]
  BY <1>1 DEF Flushed
<1>4. /\ id # at => Flushed(w)[id] = files[id]
      /\ id = at => Flushed(w)[id] = [files[at] EXCEPT !.lines = all]
  <2> HIDE DEF all, at
  <2> QED BY <1>1, <1>2, <1>3
<1>5. [files[at] EXCEPT !.lines = all].lines = all
      /\ [files[at] EXCEPT !.lines = all].header = files[at].header
  <2> HIDE DEF all
  <2> QED BY <1>1 DEF File
<1>6. EventsOf(all) = EventsOf(lines) \o buf[w] /\ StartOf(lines, all)
  <2>1. PICK ls, due, events, x : ls = lines /\ due = owed[w] /\ events = buf[w] /\ x = all
    OBVIOUS
  <2>2. x = WithNewline(ls, due) \o WholeLines(events) /\ events \in Seq(Event) /\ ls \in Seq(Line)
    BY <1>1, <2>1
  <2>3. EventsOf(x) = EventsOf(ls) \o events /\ StartOf(ls, x)
    BY <2>2, FlushedLines
  <2> QED BY <2>1, <2>3
<1>7. Extends(files[id], Flushed(w)[id])
  <2>1. CASE id # at
    <3>1. PICK f : f = files[id] /\ Len(f.lines) \in Nat
      BY <1>1
    <3>2. Extends(f, f)
      BY <3>1 DEF Extends
    <3> QED
      BY <1>4, <2>1, <3>1, <3>2
  <2>2. CASE id = at
    <3> HIDE DEF all
    <3>1. Flushed(w)[id].lines = all /\ Flushed(w)[id].header = files[id].header
          /\ files[id].lines = lines
      BY <1>4, <1>5, <2>2
    <3>2. DOMAIN lines = 1..Len(lines)
      BY <1>1
    <3> HIDE DEF lines, at
    <3> QED BY <1>6, <3>1, <3>2 DEF Extends, StartOf
  <2> QED BY <2>1, <2>2
<1> QED BY <1>4, <1>5, <1>6, <1>7

\* The events a writer will have put in its files are sequences of events.
LEMMA MergedType ==
  ASSUME NEW m \in Catalog, NEW disk0, CatalogOK(m, disk0),
         \A id \in DOMAIN disk0 : disk0[id] \in File,
         NEW o, NEW b \in Seq(Event)
  PROVE  /\ Merged(m, disk0, o, b) \in [1..Len(m.segs) -> Seq(Event)]
         /\ \A k \in 1..Len(m.segs) :
              Merged(m, disk0, o, b)[k] =
                IF k = o THEN EventsOf(disk0[m.segs[k].id].lines) \o b
                         ELSE EventsOf(disk0[m.segs[k].id].lines)
<1> DEFINE C == Contents(m, disk0)
           n == Len(m.segs)
<1>1. /\ C \in [1..n -> Seq(Event)]
      /\ \A k \in 1..n : C[k] = EventsOf(disk0[m.segs[k].id].lines)
  BY ContentsType
<1>2. Merged(m, disk0, o, b) = [k \in 1..n |-> IF k = o THEN C[k] \o b ELSE C[k]]
  BY DEF Merged
<1> HIDE DEF C, n
<1>3. \A k \in 1..n : C[k] \in Seq(Event) /\ C[k] \o b \in Seq(Event)
  BY <1>1
<1>4. /\ Merged(m, disk0, o, b) \in [1..n -> Seq(Event)]
      /\ \A k \in 1..n : Merged(m, disk0, o, b)[k] = IF k = o THEN C[k] \o b ELSE C[k]
  BY <1>2, <1>3
<1> QED BY <1>1, <1>4 DEF n

\* Nothing to add is nothing added.
LEMMA NothingMerged ==
  ASSUME NEW m \in Catalog, NEW disk0, CatalogOK(m, disk0),
         \A id \in DOMAIN disk0 : disk0[id] \in File,
         NEW o, NEW b, b = << >>
  PROVE  Merged(m, disk0, o, b) = Contents(m, disk0)
<1> DEFINE C == Contents(m, disk0)
           n == Len(m.segs)
<1>1. C \in [1..n -> Seq(Event)]
  BY ContentsType
<1>2. Merged(m, disk0, o, b) = [k \in 1..n |-> IF k = o THEN C[k] \o b ELSE C[k]]
  BY DEF Merged
<1> HIDE DEF C, n
<1>3. \A k \in 1..n : C[k] \o b = C[k]
  BY <1>1
<1> QED BY <1>1, <1>2, <1>3 DEF C

\* What the invariant says about the lock holder's segments and the disk's.
LEMMA HolderTypes ==
  ASSUME LogInv, NEW w \in Writers, pc[w] \in Loop
  PROVE  /\ Len(catalog.segs) <= Len(mem[w].segs)
         /\ out[w] # 0 => out[w] = Len(catalog.segs) /\ out[w] \in 1..Len(catalog.segs)
                          /\ out[w] \in 1..Len(mem[w].segs)
         /\ Linked(catalog) /\ Linked(mem[w]) /\ Exact(mem[w], View(w))
         /\ \A k \in 1..Len(catalog.segs) : /\ k \in 1..Len(mem[w].segs)
                                            /\ mem[w].segs[k].id = catalog.segs[k].id
<1>1. /\ Len(catalog.segs) \in Nat /\ Len(mem[w].segs) \in Nat /\ out[w] \in Nat
  BY WriterTypes, LogTypes DEF LogInv
<1>2. HolderInv(w) /\ DiskInv
  BY DEF LogInv
<1>3. /\ Exact(mem[w], View(w)) /\ Follows(catalog, mem[w]) /\ out[w] \in {0, Len(catalog.segs)}
  BY <1>2 DEF HolderInv
<1>4. Len(catalog.segs) <= Len(mem[w].segs)
  BY <1>1, <1>2 DEF HolderInv
<1>5. Linked(catalog) /\ Linked(mem[w])
  BY <1>2, <1>3 DEF DiskInv, OnDisk, Exact
<1>6. \A k \in 1..Len(catalog.segs) : /\ k \in 1..Len(mem[w].segs)
                                      /\ mem[w].segs[k].id = catalog.segs[k].id
  BY <1>1, <1>3, <1>4 DEF Follows
<1> QED BY <1>1, <1>3, <1>4, <1>5, <1>6

\* A flush by the lock holder puts on file what it had in view, no more and no
\* less, and the catalog on disk stays one a reconciliation can repair.
LEMMA HolderFlushes ==
  ASSUME LogInv, TypeInv', NEW w \in Writers, pc[w] \in Loop,
         files' = Flushed(w), catalog' = catalog, mem' = mem, buf' = [buf EXCEPT ![w] = << >>]
  PROVE  /\ View(w)' = View(w)
         /\ DiskInv'
         /\ Grows
<1> DEFINE m == mem[w]
           n == Len(catalog.segs)
<1>1. /\ TypeInv /\ mem[w] \in Catalog /\ CatalogOK(mem[w], files) /\ buf[w] \in Seq(Event)
      /\ out[w] \in Nat /\ Len(m.segs) \in Nat
      /\ View(w) \in [1..Len(m.segs) -> Seq(Event)]
      /\ \A k \in 1..Len(m.segs) :
           /\ m.segs[k].id \in DOMAIN files
           /\ View(w)[k] = IF k = out[w] THEN EventsOf(files[m.segs[k].id].lines) \o buf[w]
                                         ELSE EventsOf(files[m.segs[k].id].lines)
  BY WriterTypes DEF LogInv
<1>2. /\ Linked(m) /\ Linked(catalog) /\ Exact(m, View(w))
      /\ out[w] # 0 => out[w] = n /\ out[w] \in 1..n /\ out[w] \in 1..Len(m.segs)
      /\ \A k \in 1..n : k \in 1..Len(m.segs) /\ m.segs[k].id = catalog.segs[k].id
  BY HolderTypes
<1>3. /\ catalog \in Catalog /\ n \in Nat /\ DOMAIN catalog.segs = 1..n
      /\ OnFile \in [1..n -> Seq(Event)]
      /\ \A k \in 1..n : /\ catalog.segs[k].id \in DOMAIN files
                         /\ OnFile[k] = EventsOf(files[catalog.segs[k].id].lines)
      /\ \A id \in DOMAIN files : files[id] \in File /\ files[id].lines \in Seq(Line)
  BY LogTypes DEF LogInv
<1>4. out[w] = 0 => buf[w] = << >>
  BY DEF LogInv, HolderInv
<1>5. ASSUME NEW k \in 1..Len(m.segs)
      PROVE  EventsOf(files'[m.segs[k].id].lines) = View(w)[k]
  <2>1. CASE out[w] = 0
    <3>1. files' = files /\ k # out[w]
      BY <2>1 DEF Flushed
    <3> QED BY <1>1, <3>1
  <2>2. CASE out[w] # 0
    <3>1. m.segs[k].id = m.segs[out[w]].id => k = out[w]
      BY <1>1, <1>2, <2>2, FilesDiffer
    <3>2. /\ m.segs[k].id # m.segs[out[w]].id => files'[m.segs[k].id] = files[m.segs[k].id]
          /\ m.segs[k].id = m.segs[out[w]].id =>
               EventsOf(files'[m.segs[k].id].lines) = EventsOf(files[m.segs[k].id].lines) \o buf[w]
      BY <1>1, <1>2, <2>2, FlushedFiles
    <3> QED BY <1>1, <3>1, <3>2
  <2> QED BY <2>1, <2>2
<1>6. /\ \A id \in DOMAIN files' : files'[id] \in File
      /\ CatalogOK(mem'[w], files') /\ mem'[w] = m /\ buf'[w] = << >> /\ buf'[w] \in Seq(Event)
      /\ CatalogOK(catalog, files')
  <2>1. /\ \A id \in DOMAIN files' : files'[id] \in File
        /\ CatalogOK(mem'[w], files') /\ CatalogOK(catalog, files')
    BY DEF TypeInv, TypeOK
  <2>2. buf'[w] = << >>
    BY DEF TypeInv, TypeOK, LogInv
  <2>3. mem'[w] = m /\ << >> \in Seq(Event)
    OBVIOUS
  <2> QED BY <2>1, <2>2, <2>3
<1> DEFINE V == View(w)
           K == Contents(catalog, files')
<1>7. View(w)' = V
  <2>1. View(w)' = Contents(m, files')
    <3>1. View(w)' = Merged(m, files', out'[w], buf'[w])
      BY DEF View
    <3> QED BY <1>1, <1>6, <3>1, NothingMerged
  <2>2. /\ Contents(m, files') \in [1..Len(m.segs) -> Seq(Event)]
        /\ \A k \in 1..Len(m.segs) : Contents(m, files')[k] = EventsOf(files'[m.segs[k].id].lines)
    <3>1. m \in Catalog /\ CatalogOK(m, files') /\ \A id \in DOMAIN files' : files'[id] \in File
      BY <1>1, <1>6
    <3> HIDE DEF m, V, K
    <3> QED BY ONLY <3>1, ContentsType
  <2> HIDE DEF V, m
  <2> QED BY <1>1, <1>5, <2>1, <2>2 DEF V
<1>8. /\ K \in [1..n -> Seq(Event)]
      /\ \A k \in 1..n : K[k] = EventsOf(files'[catalog.segs[k].id].lines)
  BY <1>3, <1>6, ContentsType
<1>9. \A k \in 1..n : K[k] = V[k]
  BY <1>2, <1>5, <1>8
<1>10. n # 0 /\ K[n] = << >> => K = OnFile
  <2> SUFFICES ASSUME n # 0, K[n] = << >> PROVE K = OnFile
    OBVIOUS
  <2>1. n \in 1..n /\ V[n] = << >>
    BY <1>3, <1>9
  <2>2. ASSUME NEW k \in 1..n PROVE K[k] = OnFile[k]
    <3>1. OnFile[k] \in Seq(Event)
      BY <1>3
    <3>a. V[k] = IF k = out[w] THEN OnFile[k] \o buf[w] ELSE OnFile[k]
      <4>1. k \in 1..Len(m.segs) /\ m.segs[k].id = catalog.segs[k].id
        BY <1>2
      <4>2. V[k] = IF k = out[w] THEN EventsOf(files[m.segs[k].id].lines) \o buf[w]
                                 ELSE EventsOf(files[m.segs[k].id].lines)
        BY <1>1, <4>1
      <4>3. OnFile[k] = EventsOf(files[catalog.segs[k].id].lines)
        BY <1>3
      <4> HIDE DEF V, m
      <4> QED BY <4>1, <4>2, <4>3
    <3>2. CASE k = out[w]
      <4>1. k = n /\ OnFile[k] \o buf[w] = << >>
        <5>1. out[w] # 0
          BY <1>3, <3>2
        <5>2. k = n
          BY <1>2, <3>2, <5>1
        <5> HIDE DEF V, n
        <5> QED BY <2>1, <3>a, <3>2, <5>2
      <4>2. OnFile[k] = << >>
        <5>1. Len(OnFile[k] \o buf[w]) = Len(OnFile[k]) + Len(buf[w])
          BY <1>1, <3>1, Concatenation
        <5>2. Len(OnFile[k]) \in Nat /\ Len(buf[w]) \in Nat
          BY <1>1, <3>1
        <5>3. Len(OnFile[k]) = 0
          BY <4>1, <5>1, <5>2
        <5> QED BY <3>1, <5>3
      <4> QED BY <4>1, <4>2
    <3>3. CASE k # out[w]
      BY <1>9, <3>a, <3>3
    <3> QED BY <3>2, <3>3
  <2> HIDE DEF K
  <2> QED BY <1>3, <1>8, <2>2
<1>11. OnDisk(catalog, K)
  <2>1. OnDisk(catalog, OnFile) /\ Follows(catalog, m)
    BY DEF LogInv, DiskInv, HolderInv
  <2> HIDE DEF K, V, m
  <2> QED BY <1>1, <1>2, <1>3, <1>8, <1>9, <1>10, <2>1, OnDiskCatchesUp DEF V, m
<1>12. DiskInv'
  BY <1>11 DEF DiskInv, OnFile
<1>13. Grows
  <2> SUFFICES ASSUME NEW k \in 1..n
               PROVE  /\ catalog.segs[k].id \in DOMAIN files'
                      /\ Extends(files[catalog.segs[k].id], files'[catalog.segs[k].id])
                      /\ catalog.segs[k].sealed =>
                           files'[catalog.segs[k].id] = files[catalog.segs[k].id]
    BY <1>3 DEF Grows
  <2> DEFINE id == catalog.segs[k].id
  <2>1. id \in DOMAIN files /\ id \in DOMAIN files'
    BY <1>3, <1>6 DEF CatalogOK
  <2>2. CASE out[w] = 0
    <3>1. files' = files
      BY <2>2 DEF Flushed
    <3>2. Extends(files[id], files[id])
      BY <1>3, <2>1 DEF Extends
    <3> QED BY <2>1, <3>1, <3>2
  <2>3. CASE out[w] # 0
    <3>1. Extends(files[id], files'[id])
          /\ (id # m.segs[out[w]].id => files'[id] = files[id])
      BY <1>1, <1>2, <2>1, <2>3, FlushedFiles
    <3>2. catalog.segs[k].sealed => k # n
      BY <1>2 DEF Linked
    <3>3. k # n => id # m.segs[out[w]].id
      <4>1. id = m.segs[k].id /\ k \in 1..Len(m.segs) /\ out[w] = n /\ out[w] \in 1..Len(m.segs)
        BY <1>2, <2>3
      <4> QED BY <1>1, <1>2, <4>1, FilesDiffer
    <3> QED BY <2>1, <3>1, <3>2, <3>3
  <2> QED BY <2>2, <2>3
<1> QED BY <1>7, <1>12, <1>13

\* A step of the lock holder that stays in the append.
LEMMA HolderStep ==
  ASSUME LogInv, TypeInv', NEW w \in Writers, pc[w] \in Critical,
         NEW label \in Critical \ {"open"}, Goto(w, label), lock' = lock,
         \A v \in Writers : v # w => out'[v] = out[v] /\ buf'[v] = buf[v],
         DiskInv', label \in Loop => HolderInv(w)'
  PROVE  LogInv'
<1>1. pc' = [pc EXCEPT ![w] = label] /\ pc \in [Writers -> Controls]
  BY DEF Goto, LogInv, TypeInv, TypeOK
<1>2. pc'[w] = label /\ \A v \in Writers : v # w => pc'[v] = pc[v]
  BY <1>1
<1>3. lock = w
  BY DEF LogInv, LockInv
<1>4. \A v \in Writers : v # w => pc[v] \notin Critical
  BY <1>3 DEF LogInv, LockInv
<1>5. LockInv'
  <2> SUFFICES ASSUME NEW v \in Writers
               PROVE  /\ lock' = v <=> pc'[v] \in Critical
                      /\ pc'[v] \in {"idle", "scan", "lock", "open"} => out'[v] = 0 /\ buf'[v] = << >>
    BY DEF LockInv
  <2>1. CASE v = w
    BY <1>2, <1>3, <2>1 DEF Critical
  <2>2. CASE v # w
    BY <1>2, <1>3, <1>4, <2>2 DEF LogInv, LockInv
  <2> QED BY <2>1, <2>2
<1>6. \A v \in Writers : v # w => pc'[v] \notin Loop
  BY <1>2, <1>4 DEF Loop, Critical
<1>7. \A v \in Writers : HolderInv(v)'
  BY <1>2, <1>6 DEF HolderInv
<1> QED BY <1>5, <1>7 DEF LogInv

\* A step of a process that is not appending, or is not any more.
LEMMA OutsideStep ==
  ASSUME LogInv, TypeInv', NEW w \in Writers,
         NEW label \in {"idle", "scan", "lock"}, Goto(w, label),
         lock' = IF pc[w] \in Critical THEN NoOne ELSE lock,
         UNCHANGED disk, out'[w] = 0, buf'[w] = << >>,
         \A v \in Writers : v # w => /\ mem'[v] = mem[v] /\ batch'[v] = batch[v]
                                     /\ pos'[v] = pos[v] /\ out'[v] = out[v] /\ buf'[v] = buf[v]
  PROVE  LogInv'
<1>1. pc' = [pc EXCEPT ![w] = label] /\ pc \in [Writers -> Controls]
  BY DEF Goto, LogInv, TypeInv, TypeOK
<1>2. pc'[w] = label /\ \A v \in Writers : v # w => pc'[v] = pc[v]
  BY <1>1
<1>3. label \notin Critical /\ label \notin Loop
  BY DEF Critical, Loop
<1>4. LockInv'
  <2> SUFFICES ASSUME NEW v \in Writers
               PROVE  /\ lock' = v <=> pc'[v] \in Critical
                      /\ pc'[v] \in {"idle", "scan", "lock", "open"} => out'[v] = 0 /\ buf'[v] = << >>
    BY DEF LockInv
  <2>1. /\ lock = v <=> pc[v] \in Critical
        /\ lock = w <=> pc[w] \in Critical
    BY DEF LogInv, LockInv
  <2>2. CASE v = w
    <3>1. lock' # w
      BY <2>1, WriterAssumption
    <3> QED BY <1>2, <1>3, <2>2, <3>1
  <2>3. CASE v # w
    <3>1. lock' = v <=> lock = v
      BY <2>1, <2>3, WriterAssumption
    <3> QED BY <1>2, <2>1, <2>3, <3>1 DEF LogInv, LockInv
  <2> QED BY <2>2, <2>3
<1>5. DiskInv'
  BY DEF LogInv, DiskInv, OnFile
<1>6. ASSUME NEW v \in Writers PROVE HolderInv(v)'
  <2>1. CASE v = w
    BY <1>2, <1>3, <2>1 DEF HolderInv
  <2>2. CASE v # w
    <3>1. HolderInv(v)
      BY DEF LogInv
    <3>2. /\ mem'[v] = mem[v] /\ batch'[v] = batch[v] /\ pos'[v] = pos[v]
          /\ out'[v] = out[v] /\ buf'[v] = buf[v] /\ pc'[v] = pc[v]
          /\ files' = files /\ catalog' = catalog
      BY <1>2, <2>2
    <3>3. View(v)' = View(v) /\ Current(v)' = Current(v)
      BY <3>2 DEF View, Current
    <3> QED BY <3>1, <3>2, <3>3 DEF HolderInv
  <2> QED BY <2>1, <2>2
<1> QED BY <1>4, <1>5, <1>6 DEF LogInv

\* A step that leaves the disk alone adds nothing to it and takes nothing from it.
LEMMA UnchangedGrows ==
  ASSUME TypeInv, UNCHANGED disk
  PROVE  Grows
<1>1. \A k \in DOMAIN catalog.segs : catalog.segs[k].id \in DOMAIN files
  BY LogTypes
<1>2. \A id \in DOMAIN files : files[id].lines \in Seq(Line)
  BY LogTypes
<1>3. \A id \in DOMAIN files : Extends(files[id], files[id])
  BY <1>2 DEF Extends
<1> QED BY <1>1, <1>3 DEF Grows

\* OpenLog leaves the holder with a catalog that is right in everything.
LEMMA OpenLogInv ==
  ASSUME LogInv, TypeInv', NEW w \in Writers, OpenLog(w)
  PROVE  LogInv'
<1> DEFINE r == Reconcile(catalog, files)
<1>1. /\ pc[w] = "open" /\ mem' = [mem EXCEPT ![w] = r] /\ Goto(w, "event")
      /\ UNCHANGED <<files, catalog, lock, out, buf>>
  BY DEF OpenLog
<1>2. out[w] = 0 /\ buf[w] = << >>
  BY <1>1 DEF LogInv, LockInv
<1>3. /\ catalog \in Catalog /\ CatalogOK(catalog, files)
      /\ \A id \in DOMAIN files : files[id] \in File
      /\ r \in Catalog /\ CatalogOK(r, files)
  BY LogTypes, ReconcileType DEF LogInv
<1>4. mem'[w] = r /\ pc'[w] = "event" /\ out'[w] = 0 /\ buf'[w] = << >>
  BY <1>1, <1>2 DEF LogInv, TypeInv, TypeOK, Goto
<1>5. /\ Exact(r, OnFile) /\ Len(r.segs) = Len(catalog.segs)
      /\ Contents(r, files) = OnFile /\ Follows(catalog, r)
  <2>1. OnDisk(catalog, OnFile) /\ OnFile = Contents(catalog, files)
    BY DEF LogInv, DiskInv, OnFile
  <2>2. PICK x : x = r
    OBVIOUS
  <2> HIDE DEF r
  <2>3. x = Reconcile(catalog, files)
    BY <2>2 DEF r
  <2>4. /\ Exact(x, OnFile) /\ Len(x.segs) = Len(catalog.segs)
        /\ Contents(x, files) = OnFile /\ Follows(catalog, x)
    BY <1>3, <2>1, <2>3, ReconcileExact
  <2> QED BY <2>2, <2>4
<1> HIDE DEF r
<1>6. View(w)' = OnFile
  <2>1. View(w)' = Merged(r, files, 0, << >>)
    BY <1>1, <1>4 DEF View
  <2> QED BY <1>3, <1>5, <2>1, NothingMerged
<1>7. HolderInv(w)'
  BY <1>1, <1>4, <1>5, <1>6 DEF HolderInv, Rolling
<1>8. DiskInv'
  BY <1>1 DEF LogInv, DiskInv, OnFile
<1> QED BY <1>1, <1>7, <1>8, HolderStep DEF Critical

\* A rejected event leaves everything but the control point as it is.
LEMMA RejectInv ==
  ASSUME LogInv, TypeInv', NEW w \in Writers, Reject(w)
  PROVE  LogInv'
<1>1. /\ pc[w] = "event" /\ Goto(w, "abort")
      /\ UNCHANGED <<files, catalog, lock, mem, batch, pos, out, buf>>
  BY DEF Reject, Pending
<1>2. pc'[w] = "abort"
  BY <1>1 DEF LogInv, TypeInv, TypeOK, Goto
<1>3. View(w)' = View(w)
  BY <1>1 DEF View
<1>4. HolderInv(w)
  BY DEF LogInv
<1>5. HolderInv(w)'
  BY <1>1, <1>2, <1>3, <1>4 DEF HolderInv, Loop, Rolling
<1>6. DiskInv'
  BY <1>1 DEF LogInv, DiskInv, OnFile
<1> QED BY <1>1, <1>5, <1>6, HolderStep DEF Critical

\* The lock goes to a process that has nothing in memory yet.
LEMMA AcquireLockInv ==
  ASSUME LogInv, TypeInv', NEW w \in Writers, AcquireLock(w)
  PROVE  LogInv'
<1>1. /\ pc[w] = "lock" /\ lock = NoOne /\ lock' = w /\ pc' = [pc EXCEPT ![w] = "open"]
      /\ UNCHANGED <<files, catalog, mem, batch, pos, out, buf>>
      /\ pc \in [Writers -> Controls]
  BY DEF AcquireLock, Goto, LogInv, TypeInv, TypeOK
<1>2. pc'[w] = "open" /\ \A v \in Writers : v # w => pc'[v] = pc[v]
  BY <1>1
<1>3. \A v \in Writers : pc[v] \notin Critical
  BY <1>1, WriterAssumption DEF LogInv, LockInv
<1>4. LockInv'
  BY <1>1, <1>2, <1>3 DEF LogInv, LockInv, Critical
<1>5. DiskInv'
  BY <1>1 DEF LogInv, DiskInv, OnFile
<1>6. \A v \in Writers : pc'[v] \notin Loop
  BY <1>2, <1>3 DEF Loop, Critical
<1>7. \A v \in Writers : HolderInv(v)'
  BY <1>6 DEF HolderInv
<1> QED BY <1>4, <1>5, <1>7 DEF LogInv

\* A log that cannot be opened is left as it is.
LEMMA OpenFailsInv ==
  ASSUME LogInv, TypeInv', NEW w \in Writers, OpenFails(w)
  PROVE  LogInv'
<1>1. /\ pc[w] = "open" /\ Goto(w, "unlock_err")
      /\ UNCHANGED <<files, catalog, lock, out, buf>>
  BY DEF OpenFails
<1>2. DiskInv'
  BY <1>1 DEF LogInv, DiskInv, OnFile
<1> QED BY <1>1, <1>2, HolderStep DEF Critical, Loop

\* A roll: the new segment's file is none that the catalog on disk names, the
\* catalog in memory has one segment more and is as right as before.
LEMMA RollSegmentInv ==
  ASSUME LogInv, TypeInv', NEW w \in Writers, RollSegment(w)
  PROVE  LogInv' /\ Grows /\ AllEvents(View(w)') = AllEvents(View(w))
<1> DEFINE m == mem[w]
           e == Current(w)
           n == Len(m.segs)
           V == View(w)
           entry == RolledEntry(m, e)
           file == [header |-> HeaderOf(entry), lines |-> << >>]
<1>1. /\ pc[w] = "event" /\ pos[w] <= Len(batch[w]) /\ Admissible(m, e)
      /\ files' = [id \in DOMAIN files \union {entry.id} |->
                     IF id = entry.id THEN file ELSE files[id]]
      /\ mem' = [mem EXCEPT ![w] = Rolled(m, e)]
      /\ Goto(w, "roll_flush")
      /\ UNCHANGED <<catalog, lock, batch, pos, out, buf>>
  BY DEF RollSegment, Pending
<1>2. /\ TypeInv /\ m \in Catalog /\ CatalogOK(m, files) /\ buf[w] \in Seq(Event) /\ out[w] \in Nat
      /\ V \in [1..n -> Seq(Event)] /\ n \in Nat
      /\ \A k \in 1..n : /\ m.segs[k].id \in DOMAIN files
                         /\ V[k] = IF k = out[w] THEN EventsOf(files[m.segs[k].id].lines) \o buf[w]
                                                 ELSE EventsOf(files[m.segs[k].id].lines)
  BY WriterTypes DEF LogInv
<1>3. e \in Event
  BY <1>1, <1>2, CurrentType
<1>4. /\ HolderInv(w) /\ pc[w] \in Loop /\ pc[w] \notin Rolling
  BY <1>1 DEF LogInv, Loop, Rolling
<1>5. /\ Exact(m, V) /\ Follows(catalog, m) /\ n = Len(catalog.segs)
      /\ out[w] \in {0, n} /\ (out[w] = 0 => buf[w] = << >>)
  BY <1>4 DEF HolderInv
<1>6. PICK r : r = Rolled(m, e)
  OBVIOUS
<1>7. /\ r \in Catalog /\ Len(r.segs) = n + 1 /\ r.segs[n + 1] = entry
      /\ \A k \in 1..n : r.segs[k].id = m.segs[k].id
  <2>1. m.active \in 0..Len(m.segs)
    BY <1>2 DEF CatalogOK
  <2>2. \A k \in 1..n : [m.segs[k] EXCEPT !.sealed = TRUE].id = m.segs[k].id
    BY <1>2, SegsType, SealedFields
  <2>3. m \in Catalog
    BY <1>2
  <2> HIDE DEF m, e
  <2>4. /\ r \in Catalog /\ Len(r.segs) = n + 1 /\ r.segs[n + 1] = entry
        /\ \A k \in 1..n : r.segs[k] = IF k = m.active THEN [m.segs[k] EXCEPT !.sealed = TRUE]
                                       ELSE m.segs[k]
    BY <1>3, <1>6, <2>1, <2>3, RolledType
  <2> HIDE DEF n, entry
  <2> QED BY <2>2, <2>4
<1>8. /\ mem'[w] = r /\ pc'[w] = "roll_flush" /\ out'[w] = out[w] /\ buf'[w] = buf[w]
      /\ Current(w)' = e
  <2> HIDE DEF m, e
  <2>1. mem \in [Writers -> Catalog] /\ pc \in [Writers -> Controls]
    BY <1>2 DEF TypeInv, TypeOK
  <2>2. Current(w)' = e
    BY <1>1 DEF Current, e
  <2> QED BY <1>1, <1>6, <2>1, <2>2 DEF Goto
<1>9. /\ entry.id = <<e.seq, n>>
      /\ \A k \in 1..n : m.segs[k].id # entry.id
  <2>1. \A k \in 1..n : m.segs[k].id = <<m.segs[k].start, k - 1>>
    BY <1>5 DEF Exact, Linked
  <2>2. \A x, y, a, b : <<x, a>> = <<y, b>> => a = b
    OBVIOUS
  <2>3. entry.id = <<e.seq, n>>
    BY DEF RolledEntry
  <2> HIDE DEF entry, n, m, e
  <2>4. \A k \in 1..n : k - 1 # n
    BY <1>2
  <2> QED BY <2>1, <2>2, <2>3, <2>4, Zenon
<1> HIDE DEF entry
<1>10. /\ \A id \in DOMAIN files : id # entry.id => id \in DOMAIN files' /\ files'[id] = files[id]
       /\ entry.id \in DOMAIN files' /\ files'[entry.id].lines = << >>
  <2>1. file.lines = << >>
    OBVIOUS
  <2> HIDE DEF file
  <2> QED BY <1>1, <2>1
<1> HIDE DEF file, m, e, V
<1>11. PICK M : M = NewSegment(V, n)
  OBVIOUS
<1>12. View(w)' = M
  <2>1. /\ CatalogOK(r, files') /\ \A id \in DOMAIN files' : files'[id] \in File
    BY <1>8 DEF TypeInv, TypeOK
  <2>2. View(w)' = Merged(r, files', out[w], buf[w])
    BY <1>8 DEF View
  <2>3. /\ View(w)' \in [1..(n + 1) -> Seq(Event)]
        /\ \A k \in 1..(n + 1) :
             View(w)'[k] = IF k = out[w] THEN EventsOf(files'[r.segs[k].id].lines) \o buf[w]
                                         ELSE EventsOf(files'[r.segs[k].id].lines)
    <3>1. PICK F, U : F = files' /\ U = View(w)'
      OBVIOUS
    <3>2. CatalogOK(r, F) /\ \A id \in DOMAIN F : F[id] \in File
      BY <2>1, <3>1
    <3>3. r \in Catalog /\ buf[w] \in Seq(Event)
      BY <1>2, <1>7
    <3>4. U = Merged(r, F, out[w], buf[w])
      BY <2>2, <3>1
    <3>5. /\ U \in [1..Len(r.segs) -> Seq(Event)]
          /\ \A k \in 1..Len(r.segs) :
               U[k] = IF k = out[w] THEN EventsOf(F[r.segs[k].id].lines) \o buf[w]
                                    ELSE EventsOf(F[r.segs[k].id].lines)
      BY <3>2, <3>3, <3>4, MergedType
    <3> QED
      BY <1>7, <3>1, <3>5
  <2>4. M = [k \in 1..(n + 1) |-> IF k = n + 1 THEN << >> ELSE V[k]]
    BY <1>11 DEF NewSegment
  <2>5. EventsOf(<< >>) = << >>
    BY DEF EventsOf
  <2>6. \A k \in 1..n : View(w)'[k] = V[k] /\ k \in 1..(n + 1) /\ k # n + 1
    <3> SUFFICES ASSUME NEW k \in 1..n
                 PROVE  View(w)'[k] = V[k] /\ k \in 1..(n + 1) /\ k # n + 1
      OBVIOUS
    <3>1. k \in 1..(n + 1) /\ k # n + 1
      BY <1>2
    <3>2. files'[r.segs[k].id] = files[m.segs[k].id]
      BY <1>2, <1>7, <1>9, <1>10
    <3> HIDE DEF n
    <3>3. V[k] = IF k = out[w] THEN EventsOf(files[m.segs[k].id].lines) \o buf[w]
                               ELSE EventsOf(files[m.segs[k].id].lines)
      BY <1>2
    <3>4. View(w)'[k] = IF k = out[w] THEN EventsOf(files'[r.segs[k].id].lines) \o buf[w]
                                      ELSE EventsOf(files'[r.segs[k].id].lines)
      BY <2>3, <3>1
    <3>5. View(w)'[k] = V[k]
      BY <3>2, <3>3, <3>4
    <3> QED BY <3>1, <3>5
  <2>7. View(w)'[n + 1] = << >> /\ n + 1 \in 1..(n + 1)
    <3>1. n + 1 # out[w] /\ n + 1 \in 1..(n + 1)
      BY <1>2, <1>5
    <3> HIDE DEF n
    <3> QED BY <1>7, <1>10, <2>3, <2>5, <3>1
  <2>8. \A k \in 1..(n + 1) : k = n + 1 \/ k \in 1..n
    BY <1>2
  <2>9. \A k \in 1..(n + 1) : View(w)'[k] = IF k = n + 1 THEN << >> ELSE V[k]
    BY <2>6, <2>7, <2>8
  <2> HIDE DEF n
  <2> QED BY <2>3, <2>4, <2>9
<1>13. /\ Exact(r, M) /\ Admissible(r, e) /\ AllEvents(M) = AllEvents(V)
       /\ Follows(catalog, r)
  <2>1. Admissible(m, e)
    BY <1>1 DEF m, e
  <2> QED BY <1>2, <1>3, <1>5, <1>6, <1>11, <2>1, RolledExact DEF n
<1>14. HolderInv(w)'
  BY <1>1, <1>5, <1>7, <1>8, <1>12, <1>13 DEF HolderInv, Rolling
<1>15. \A k \in 1..n : catalog.segs[k].id = m.segs[k].id
  BY <1>5 DEF Follows
<1>16. \A k \in 1..n : /\ catalog.segs[k].id \in DOMAIN files'
                       /\ files'[catalog.segs[k].id] = files[catalog.segs[k].id]
  BY <1>2, <1>9, <1>10, <1>15
<1>17. OnFile' = OnFile
  BY <1>1, <1>5, <1>16 DEF OnFile, Contents
<1>18. DiskInv'
  BY <1>1, <1>17 DEF LogInv, DiskInv
<1>19. Grows
  <2>1. DOMAIN catalog.segs = 1..n /\ \A id \in DOMAIN files : files[id].lines \in Seq(Line)
    BY <1>2, <1>5, LogTypes
  <2>2. \A id \in DOMAIN files : Extends(files[id], files[id])
    BY <2>1 DEF Extends
  <2>3. \A k \in 1..n : catalog.segs[k].id \in DOMAIN files
    BY <1>2, <1>15
  <2> QED BY <1>1, <1>16, <2>1, <2>2, <2>3 DEF Grows
<1>20. \A v \in Writers : v # w => out'[v] = out[v] /\ buf'[v] = buf[v]
  BY <1>1
<1>21. LogInv'
  BY <1>1, <1>14, <1>18, <1>20, HolderStep DEF Critical
<1> QED BY <1>12, <1>13, <1>19, <1>21 DEF V

\* A flush by the lock holder, whatever control point follows it.
LEMMA FlushInv ==
  ASSUME LogInv, TypeInv', NEW w \in Writers, pc[w] \in Loop,
         files' = Flushed(w), EmptyBuffer(w), UNCHANGED <<catalog, lock, mem, batch, pos>>,
         NEW label \in Critical \ {"open"}, Goto(w, label),
         \A v \in Writers : v # w => out'[v] = out[v],
         out'[w] \in {0, out[w]},
         label \in Rolling <=> pc[w] \in Rolling,
         label \in {"roll_catalog", "put"} => out'[w] = 0,
         label \in {"roll_flush", "roll_catalog", "put"} => Admissible(mem[w], Current(w))
  PROVE  LogInv' /\ Grows /\ View(w)' = View(w)
<1>1. buf' = [buf EXCEPT ![w] = << >>] /\ catalog' = catalog /\ mem' = mem /\ lock' = lock
  BY DEF EmptyBuffer
<1>2. View(w)' = View(w) /\ DiskInv' /\ Grows
  BY <1>1, HolderFlushes
<1>3. /\ buf'[w] = << >> /\ \A v \in Writers : v # w => buf'[v] = buf[v]
      /\ pc'[w] = label
  BY <1>1 DEF LogInv, TypeInv, TypeOK, Goto
<1>4. Current(w)' = Current(w) /\ mem'[w] = mem[w]
  BY DEF Current
<1>5. HolderInv(w)
  BY DEF LogInv
<1>6. HolderInv(w)'
  BY <1>1, <1>2, <1>3, <1>4, <1>5 DEF HolderInv
<1>7. LogInv'
  BY <1>1, <1>2, <1>3, <1>6, HolderStep DEF Loop, Critical
<1> QED BY <1>2, <1>7

LEMMA FlushRolledInv ==
  ASSUME LogInv, TypeInv', NEW w \in Writers, FlushRolled(w)
  PROVE  LogInv' /\ Grows /\ View(w)' = View(w)
<1>1. /\ pc[w] = "roll_flush" /\ files' = Flushed(w) /\ EmptyBuffer(w)
      /\ out' = [out EXCEPT ![w] = 0] /\ Goto(w, "roll_catalog")
      /\ UNCHANGED <<catalog, lock, mem, batch, pos>>
  BY DEF FlushRolled
<1>2. out'[w] = 0 /\ \A v \in Writers : v # w => out'[v] = out[v]
  BY <1>1 DEF LogInv, TypeInv, TypeOK
<1>3. Admissible(mem[w], Current(w))
  BY <1>1 DEF LogInv, HolderInv, Loop
<1> QED BY <1>1, <1>2, <1>3, FlushInv DEF Loop, Rolling, Critical

LEMMA SpillInv ==
  ASSUME LogInv, TypeInv', NEW w \in Writers, Spill(w)
  PROVE  LogInv' /\ Grows /\ View(w)' = View(w)
<1>1. /\ pc[w] \in {"event", "put"} /\ files' = Flushed(w) /\ EmptyBuffer(w)
      /\ UNCHANGED <<catalog, lock, pc, mem, batch, pos, out>>
  BY DEF Spill
<1>2. Goto(w, pc[w])
  BY <1>1 DEF Goto, LogInv, TypeInv, TypeOK
<1>3. /\ pc[w] = "put" => out[w] = 0 /\ Admissible(mem[w], Current(w))
      /\ pc[w] \notin {"roll_flush", "roll_catalog"}
  BY <1>1 DEF LogInv, HolderInv, Loop
<1> QED BY <1>1, <1>2, <1>3, FlushInv DEF Loop, Rolling, Critical

LEMMA FlushBatchInv ==
  ASSUME LogInv, TypeInv', NEW w \in Writers, FlushBatch(w)
  PROVE  LogInv' /\ Grows /\ View(w)' = View(w)
<1>1. /\ pc[w] = "event" /\ files' = Flushed(w) /\ EmptyBuffer(w) /\ Goto(w, "commit")
      /\ UNCHANGED <<catalog, lock, mem, batch, pos, out>>
  BY DEF FlushBatch
<1> QED BY <1>1, FlushInv DEF Loop, Rolling, Critical

LEMMA DropWriterInv ==
  ASSUME LogInv, TypeInv', NEW w \in Writers, DropWriter(w)
  PROVE  LogInv' /\ Grows
<1>1. /\ pc[w] = "abort" /\ files' = Flushed(w) /\ EmptyBuffer(w) /\ Goto(w, "unlock_err")
      /\ UNCHANGED <<catalog, lock, mem, batch, pos, out>>
  BY DEF DropWriter
<1> QED BY <1>1, FlushInv DEF Loop, Rolling, Critical

\* The catalog in memory goes to disk when no line of it is left in a buffer.
LEMMA CatalogWritten ==
  ASSUME LogInv, TypeInv', NEW w \in Writers, pc[w] \in Loop, buf[w] = << >>,
         catalog' = mem[w], UNCHANGED <<files, lock, mem, batch, pos, out, buf>>,
         NEW label \in {"put", "unlock_ok"}, Goto(w, label),
         label = "put" => pc[w] = "roll_catalog"
  PROVE  LogInv' /\ Grows /\ View(w)' = View(w) /\ OnFile' = View(w)
<1> DEFINE m == mem[w]
           n == Len(catalog.segs)
<1>1. /\ TypeInv /\ m \in Catalog /\ CatalogOK(m, files) /\ buf[w] \in Seq(Event)
      /\ View(w) \in [1..Len(m.segs) -> Seq(Event)] /\ Len(m.segs) \in Nat
      /\ DOMAIN m.segs = 1..Len(m.segs)
  BY WriterTypes DEF LogInv
<1>2. /\ DOMAIN catalog.segs = 1..n /\ n \in Nat
      /\ \A id \in DOMAIN files : files[id] \in File /\ files[id].lines \in Seq(Line)
      /\ \A k \in 1..n : catalog.segs[k].id \in DOMAIN files
  BY <1>1, LogTypes
<1>3. HolderInv(w)
  BY DEF LogInv
<1>4. Exact(m, View(w)) /\ Follows(catalog, m) /\ Linked(catalog)
  BY <1>3, HolderTypes DEF HolderInv
<1>5. View(w)' = View(w)
  BY DEF View
<1>6. OnFile' = View(w)
  <2>1. OnFile' = Contents(m, files)
    BY DEF OnFile
  <2>2. View(w) = Merged(m, files, out[w], buf[w])
    BY DEF View
  <2> QED BY <1>1, <1>2, <2>1, <2>2, NothingMerged
<1>7. DiskInv'
  BY <1>1, <1>4, <1>6, ExactOnDisk DEF DiskInv
<1>8. pc'[w] = label /\ Current(w)' = Current(w) /\ mem'[w] = m
  BY DEF LogInv, TypeInv, TypeOK, Goto, Current
<1>9. label = "put" => HolderInv(w)'
  <2> SUFFICES ASSUME label = "put" PROVE HolderInv(w)'
    OBVIOUS
  <2>1. pc[w] = "roll_catalog"
    OBVIOUS
  <2>2. Follows(m, m)
    BY <1>1 DEF Follows
  <2>3. out[w] = 0 /\ Admissible(m, Current(w))
    BY <1>3, <2>1 DEF HolderInv, Loop
  <2> QED BY <1>4, <1>5, <1>8, <2>2, <2>3 DEF HolderInv, Rolling, Loop
<1>10. Grows
  <2>1. \A id \in DOMAIN files : Extends(files[id], files[id])
    BY <1>2 DEF Extends
  <2>2. \A k \in 1..n : /\ k \in 1..Len(m.segs) /\ m.segs[k].id = catalog.segs[k].id
                        /\ catalog.segs[k].sealed => m.segs[k] = catalog.segs[k]
    <3>1. \A k \in 1..n : k <= Len(m.segs) /\ m.segs[k].id = catalog.segs[k].id
                          /\ (k # n => m.segs[k] = catalog.segs[k])
      BY <1>4 DEF Follows
    <3>2. \A k \in 1..n : catalog.segs[k].sealed => k # n
      BY <1>4 DEF Linked
    <3>3. \A k \in 1..n : k <= Len(m.segs) => k \in 1..Len(m.segs)
      BY <1>1
    <3> QED BY <3>1, <3>2, <3>3
  <2> QED BY <1>1, <1>2, <2>1, <2>2 DEF Grows
<1>11. /\ pc[w] \in Critical /\ label \in Critical \ {"open"} /\ (label \in Loop => label = "put")
       /\ \A v \in Writers : v # w => out'[v] = out[v] /\ buf'[v] = buf[v]
       /\ lock' = lock
  <2>1. pc[w] \in Critical
    BY DEF Loop, Critical
  <2>2. label \in Critical \ {"open"}
    BY DEF Critical
  <2>3. label \in Loop => label = "put"
    BY DEF Loop
  <2> QED BY <2>1, <2>2, <2>3
<1>12. LogInv'
  BY <1>7, <1>9, <1>11, HolderStep
<1> QED BY <1>5, <1>6, <1>10, <1>12

LEMMA WriteRolledCatalogInv ==
  ASSUME LogInv, TypeInv', NEW w \in Writers, WriteRolledCatalog(w)
  PROVE  LogInv' /\ Grows /\ View(w)' = View(w) /\ OnFile' = View(w)
<1>1. /\ pc[w] = "roll_catalog" /\ catalog' = mem[w] /\ Goto(w, "put")
      /\ UNCHANGED <<files, lock, mem, batch, pos, out, buf>>
  BY DEF WriteRolledCatalog
<1>2. buf[w] = << >>
  BY <1>1 DEF LogInv, HolderInv, Loop
<1> QED BY <1>1, <1>2, CatalogWritten DEF Loop

LEMMA WriteCatalogInv ==
  ASSUME LogInv, TypeInv', NEW w \in Writers, WriteCatalog(w)
  PROVE  LogInv' /\ Grows /\ View(w)' = View(w) /\ OnFile' = View(w)
<1>1. /\ pc[w] = "commit" /\ catalog' = mem[w] /\ Goto(w, "unlock_ok")
      /\ UNCHANGED <<files, lock, mem, batch, pos, out, buf>>
  BY DEF WriteCatalog
<1>2. buf[w] = << >>
  BY <1>1 DEF LogInv, HolderInv, Loop
<1> QED BY <1>1, <1>2, CatalogWritten DEF Loop

\* The catalog in memory once it counts the current event.
LEMMA RecordInv ==
  ASSUME LogInv, NEW w \in Writers, Putting(w), Record(w),
         NEW r, r = Recorded(mem[w], Current(w)),
         NEW M, M = NewEvent(View(w), Len(mem[w].segs), Current(w))
  PROVE  /\ r \in Catalog /\ Exact(r, M) /\ Follows(catalog, r)
         /\ Len(mem[w].segs) = Len(catalog.segs) /\ Len(r.segs) = Len(mem[w].segs)
         /\ mem[w].active = Len(mem[w].segs) /\ Len(mem[w].segs) \in 1..Len(mem[w].segs)
         /\ \A k \in 1..Len(mem[w].segs) : r.segs[k].id = mem[w].segs[k].id
         /\ Current(w) \in Event /\ Current(w) \in AllEvents(M)
         /\ AllEvents(View(w)) \subseteq AllEvents(M)
         /\ pc[w] \in Loop \ Rolling /\ pc[w] \in Critical
         /\ mem'[w] = r /\ pc'[w] = "event" /\ out'[w] = Len(mem[w].segs) /\ Goto(w, "event")
         /\ \A v \in Writers : v # w => out'[v] = out[v]
         /\ out[w] \in {0, Len(mem[w].segs)} /\ (out[w] = 0 => buf[w] = << >>)
<1> DEFINE m == mem[w]
           e == Current(w)
           n == Len(m.segs)
<1>1. /\ e \in Event /\ m \in Catalog /\ m.active \in 1..n /\ n \in Nat
      /\ View(w) \in [1..n -> Seq(Event)] /\ TypeInv
  BY PuttingType, WriterTypes DEF LogInv
<1>2. pc[w] \in {"event", "put"} /\ (pc[w] # "put" => Admissible(m, e))
  BY DEF Putting, Pending
<1>3. pc[w] \in Loop \ Rolling /\ pc[w] \in Critical
  BY <1>2 DEF Loop, Rolling, Critical
<1>4. HolderInv(w)
  BY DEF LogInv
<1>5. /\ Admissible(m, e) /\ Exact(m, View(w)) /\ Follows(catalog, m) /\ n = Len(catalog.segs)
      /\ out[w] \in {0, n} /\ (out[w] = 0 => buf[w] = << >>)
  BY <1>2, <1>3, <1>4 DEF HolderInv
<1>6. HasActive(m) /\ m.active = n /\ n \in 1..n
  BY <1>1, <1>5 DEF HasActive, Exact, Linked
<1>7. /\ Exact(r, M) /\ Len(r.segs) = n /\ \A k \in 1..n : r.segs[k].id = m.segs[k].id
      /\ e \in AllEvents(M) /\ AllEvents(View(w)) \subseteq AllEvents(M)
      /\ Follows(catalog, r)
  <2> HIDE DEF e, m
  <2> QED BY <1>1, <1>5, <1>6, RecordedExact DEF e, m
<1>8. r \in Catalog
  BY <1>1, RecordedType
<1>9. /\ mem'[w] = r /\ pc'[w] = "event" /\ out'[w] = n /\ Goto(w, "event")
      /\ \A v \in Writers : v # w => out'[v] = out[v]
  BY <1>1, <1>6 DEF Record, Goto, TypeInv, TypeOK
<1> QED BY <1>1, <1>3, <1>5, <1>6, <1>7, <1>8, <1>9

\* A line in the BufWriter.
LEMMA PutLineInv ==
  ASSUME LogInv, TypeInv', NEW w \in Writers, PutLine(w)
  PROVE  /\ LogInv' /\ Grows
         /\ Current(w) \in AllEvents(View(w)')
         /\ AllEvents(View(w)) \subseteq AllEvents(View(w)')
<1> DEFINE n == Len(mem[w].segs)
           e == Current(w)
           V == View(w)
<1>1. /\ Putting(w) /\ Record(w) /\ buf' = [buf EXCEPT ![w] = Append(buf[w], e)]
      /\ UNCHANGED <<files, catalog, lock, batch>>
  BY DEF PutLine
<1>2. PICK r : r = Recorded(mem[w], e)
  OBVIOUS
<1>3. PICK M : M = NewEvent(V, n, e)
  OBVIOUS
<1>4. /\ r \in Catalog /\ Exact(r, M) /\ Follows(catalog, r)
      /\ n = Len(catalog.segs) /\ Len(r.segs) = n /\ n \in 1..n
      /\ \A k \in 1..n : r.segs[k].id = mem[w].segs[k].id
      /\ e \in Event /\ e \in AllEvents(M) /\ AllEvents(V) \subseteq AllEvents(M)
      /\ pc[w] \in Critical /\ Goto(w, "event")
      /\ mem'[w] = r /\ pc'[w] = "event" /\ out'[w] = n
      /\ \A v \in Writers : v # w => out'[v] = out[v]
      /\ out[w] \in {0, n} /\ (out[w] = 0 => buf[w] = << >>)
  BY <1>1, <1>2, <1>3, RecordInv
<1>5. /\ TypeInv /\ buf[w] \in Seq(Event) /\ V \in [1..n -> Seq(Event)] /\ n \in Nat
      /\ \A k \in 1..n : /\ EventsOf(files[mem[w].segs[k].id].lines) \in Seq(Event)
                         /\ V[k] = IF k = out[w] THEN EventsOf(files[mem[w].segs[k].id].lines) \o buf[w]
                                                 ELSE EventsOf(files[mem[w].segs[k].id].lines)
  BY WriterTypes DEF LogInv
<1> HIDE DEF e, V
<1>6. /\ buf'[w] = Append(buf[w], e) /\ Append(buf[w], e) \in Seq(Event)
      /\ \A v \in Writers : v # w => buf'[v] = buf[v]
  BY <1>1, <1>4, <1>5 DEF TypeInv, TypeOK
<1>7. View(w)' = M
  <2>1. /\ CatalogOK(r, files) /\ \A id \in DOMAIN files : files[id] \in File
    BY <1>1, <1>4 DEF TypeInv, TypeOK
  <2>2. View(w)' = Merged(r, files, n, Append(buf[w], e))
    BY <1>1, <1>4, <1>6 DEF View
  <2> HIDE DEF n
  <2>3. /\ View(w)' \in [1..n -> Seq(Event)]
        /\ \A k \in 1..n :
             View(w)'[k] = IF k = n THEN EventsOf(files[r.segs[k].id].lines) \o Append(buf[w], e)
                                    ELSE EventsOf(files[r.segs[k].id].lines)
    <3>1. PICK b : b = Append(buf[w], e)
      OBVIOUS
    <3>2. View(w)' = Merged(r, files, n, b) /\ b \in Seq(Event)
      BY <1>6, <2>2, <3>1
    <3>3. /\ Merged(r, files, n, b) \in [1..Len(r.segs) -> Seq(Event)]
          /\ \A k \in 1..Len(r.segs) :
               Merged(r, files, n, b)[k] = IF k = n THEN EventsOf(files[r.segs[k].id].lines) \o b
                                                    ELSE EventsOf(files[r.segs[k].id].lines)
      BY <1>4, <2>1, <3>2, MergedType, SMTT(30)
    <3> QED BY <1>4, <3>1, <3>2, <3>3
  <2>4. M = [k \in 1..n |-> IF k = n THEN Append(V[k], e) ELSE V[k]]
    BY <1>3 DEF NewEvent
  <2>5. ASSUME NEW k \in 1..n PROVE View(w)'[k] = M[k]
    <3> DEFINE s == EventsOf(files[mem[w].segs[k].id].lines)
    <3>1. /\ s \in Seq(Event)
          /\ V[k] = IF k = out[w] THEN s \o buf[w] ELSE s
          /\ View(w)'[k] = IF k = n THEN s \o Append(buf[w], e) ELSE s
      BY <1>4, <1>5, <2>3
    <3>2. M[k] = IF k = n THEN Append(V[k], e) ELSE V[k]
      BY <2>4
    <3> HIDE DEF s
    <3>3. CASE k # n
      <4>1. k # out[w]
        BY <1>4, <1>5, <3>3
      <4> QED BY <3>1, <3>2, <3>3, <4>1
    <3>4. CASE k = n
      <4>1. V[k] = s \o buf[w]
        <5>1. s \o << >> = s
          BY <3>1
        <5> QED BY <1>4, <3>1, <3>4, <5>1
      <4>2. s \o Append(buf[w], e) = Append(s \o buf[w], e)
        <5>1. PICK b : b = buf[w]
          OBVIOUS
        <5>2. b \in Seq(Event) /\ s \in Seq(Event) /\ e \in Event
          BY <1>4, <1>5, <3>1, <5>1
        <5>3. s \o Append(b, e) = Append(s \o b, e)
          BY <5>2, AppendedLater
        <5> QED BY <5>1, <5>3
      <4> QED BY <3>1, <3>2, <3>4, <4>1, <4>2
    <3> QED BY <3>3, <3>4
  <2> QED BY <2>3, <2>4, <2>5
<1>8. HolderInv(w)'
  BY <1>1, <1>4, <1>7 DEF HolderInv, Rolling
<1>9. DiskInv'
  BY <1>1 DEF LogInv, DiskInv, OnFile
<1>10. LogInv'
  BY <1>1, <1>4, <1>6, <1>8, <1>9, HolderStep DEF Critical
<1>11. Grows
  BY <1>1, <1>5, UnchangedGrows
<1> QED BY <1>4, <1>7, <1>10, <1>11 DEF e, V

\* A line too long for the BufWriter, in the file but for its newline.
LEMMA PutLargeLineInv ==
  ASSUME LogInv, TypeInv', NEW w \in Writers, PutLargeLine(w)
  PROVE  /\ LogInv' /\ Grows
         /\ Current(w) \in AllEvents(View(w)')
         /\ AllEvents(View(w)) \subseteq AllEvents(View(w)')
<1> DEFINE n == Len(mem[w].segs)
           e == Current(w)
           V == View(w)
           at == mem[w].segs[n].id
           line == [ev |-> e, nl |-> FALSE]
           all == Append(files[at].lines, line)
<1>2. PICK r : r = Recorded(mem[w], e)
  OBVIOUS
<1>3. PICK M : M = NewEvent(V, n, e)
  OBVIOUS
<1>1. Putting(w) /\ Record(w) /\ buf[w] = << >>
  BY DEF PutLargeLine
<1>4. /\ r \in Catalog /\ Exact(r, M) /\ Follows(catalog, r)
      /\ n = Len(catalog.segs) /\ Len(r.segs) = n /\ n \in 1..n /\ mem[w].active = n
      /\ \A k \in 1..n : r.segs[k].id = mem[w].segs[k].id
      /\ e \in Event /\ e \in AllEvents(M) /\ AllEvents(V) \subseteq AllEvents(M)
      /\ pc[w] \in Critical /\ pc[w] \in Loop /\ Goto(w, "event")
      /\ mem'[w] = r /\ pc'[w] = "event" /\ out'[w] = n
      /\ \A v \in Writers : v # w => out'[v] = out[v]
      /\ out[w] \in {0, n}
  <2>1. /\ LogInv /\ w \in Writers /\ Putting(w) /\ Record(w)
        /\ r = Recorded(mem[w], Current(w))
        /\ M = NewEvent(View(w), Len(mem[w].segs), Current(w))
    BY <1>1, <1>2, <1>3
  <2>2. pc[w] \in Loop \ Rolling => pc[w] \in Loop
    OBVIOUS
  <2> QED BY ONLY <2>1, <2>2, RecordInv
<1>5. /\ TypeInv /\ V \in [1..n -> Seq(Event)] /\ n \in Nat /\ CatalogOK(mem[w], files)
      /\ mem[w] \in Catalog
      /\ \A k \in 1..n : /\ EventsOf(files[mem[w].segs[k].id].lines) \in Seq(Event)
                         /\ mem[w].segs[k].id \in DOMAIN files
                         /\ V[k] = IF k = out[w] THEN EventsOf(files[mem[w].segs[k].id].lines) \o buf[w]
                                                 ELSE EventsOf(files[mem[w].segs[k].id].lines)
  BY WriterTypes DEF LogInv
<1>6. /\ \A id \in DOMAIN files : files[id] \in File /\ files[id].lines \in Seq(Line)
      /\ files \in [DOMAIN files -> File]
      /\ catalog \in Catalog /\ OnFile \in [1..n -> Seq(Event)] /\ DOMAIN catalog.segs = 1..n
      /\ \A k \in 1..n : catalog.segs[k].id \in DOMAIN files
  BY <1>4, <1>5, LogTypes DEF TypeInv, TypeOK
<1>7. /\ files' = [files EXCEPT ![at] = [files[at] EXCEPT !.lines = all]]
      /\ UNCHANGED <<catalog, lock, batch, buf>>
  <2>1. ActiveEntry(mem[w]).id = at
    BY <1>4 DEF ActiveEntry
  <2> QED BY <2>1 DEF PutLargeLine
<1>8. /\ line \in Line /\ at \in DOMAIN files /\ files[at].lines \in Seq(Line)
      /\ line.ev = e
  BY <1>4, <1>5, <1>6 DEF Line
<1> HIDE DEF e, V, line
<1>9. /\ all \in Seq(Line) /\ Len(all) = Len(files[at].lines) + 1
      /\ all[Len(files[at].lines) + 1] = line
      /\ \A i \in 1..Len(files[at].lines) : all[i] = files[at].lines[i]
      /\ Len(files[at].lines) \in Nat /\ DOMAIN files[at].lines = 1..Len(files[at].lines)
  <2> HIDE DEF at
  <2> QED BY <1>8, Appended
<1>10. EventsOf(all) = Append(EventsOf(files[at].lines), e)
  <2> DEFINE s == EventsOf(files[at].lines)
             l == Len(files[at].lines)
  <2>1. /\ s \in Seq(Event) /\ Len(s) = l
        /\ \A i \in 1..l : s[i] = files[at].lines[i].ev
    BY <1>8, EventsOfType
  <2>2. /\ EventsOf(all) \in Seq(Event) /\ Len(EventsOf(all)) = l + 1
        /\ \A i \in 1..(l + 1) : EventsOf(all)[i] = all[i].ev
    <3>1. PICK ls : ls = all
      OBVIOUS
    <3>2. ls \in Seq(Line) /\ Len(ls) = l + 1
      BY <1>9, <3>1
    <3> HIDE DEF all
    <3> QED BY <3>1, <3>2, EventsOfType
  <2> HIDE DEF s, l, all
  <2>3. /\ Append(s, e) \in Seq(Event) /\ Len(Append(s, e)) = l + 1
        /\ Append(s, e)[l + 1] = e
        /\ \A i \in 1..l : Append(s, e)[i] = s[i]
    <3>1. e \in Event /\ s \in Seq(Event) /\ Len(s) = l
      BY <1>4, <2>1
    <3> QED BY ONLY <3>1, Appended
  <2>4. \A i \in 1..(l + 1) : EventsOf(all)[i] = Append(s, e)[i]
    <3>1. l \in Nat /\ all[l + 1] = line /\ \A i \in 1..l : all[i] = files[at].lines[i]
      BY <1>9 DEF l
    <3>2. \A i \in 1..(l + 1) : i = l + 1 \/ i \in 1..l
      BY <3>1
    <3>3. line.ev = e
      BY <1>8
    <3>4. EventsOf(all)[l + 1] = Append(s, e)[l + 1]
      BY ONLY <2>2, <2>3, <3>1, <3>3
    <3>5. ASSUME NEW i \in 1..l PROVE EventsOf(all)[i] = Append(s, e)[i]
      <4>1. i \in 1..(l + 1)
        BY ONLY <3>1, <3>5
      <4>2. EventsOf(all)[i] = all[i].ev /\ Append(s, e)[i] = s[i] /\ s[i] = files[at].lines[i].ev
        BY ONLY <2>1, <2>2, <2>3, <3>5, <4>1
      <4> QED BY ONLY <3>1, <3>5, <4>2
    <3> QED BY ONLY <3>2, <3>4, <3>5
  <2>5. EventsOf(all) = Append(s, e)
    BY <2>2, <2>3, <2>4, SameElements
  <2> QED BY <2>5 DEF s
<1>11. /\ DOMAIN files' = DOMAIN files
       /\ \A id \in DOMAIN files : id # at => files'[id] = files[id]
       /\ files'[at].lines = all /\ files'[at].header = files[at].header
  <2> HIDE DEF all, at
  <2>1. files[at] \in File
    BY <1>6, <1>8
  <2>2. /\ [files[at] EXCEPT !.lines = all].lines = all
        /\ [files[at] EXCEPT !.lines = all].header = files[at].header
    BY <2>1 DEF File
  <2>3. /\ DOMAIN files' = DOMAIN files
        /\ \A id \in DOMAIN files : id # at => files'[id] = files[id]
        /\ files'[at] = [files[at] EXCEPT !.lines = all]
    BY <1>6, <1>7, <1>8
  <2> QED BY <2>2, <2>3
<1>12. \A k \in 1..n : k # n => mem[w].segs[k].id # at
  <2>1. Linked(mem[w])
    BY <1>4, HolderTypes
  <2> QED BY <1>4, <1>5, <2>1, FilesDiffer
<1> HIDE DEF all
<1>13. ASSUME NEW k \in 1..n PROVE EventsOf(files'[mem[w].segs[k].id].lines) = M[k]
  <2> DEFINE s == EventsOf(files[mem[w].segs[k].id].lines)
  <2>1. M = [i \in 1..n |-> IF i = n THEN Append(V[i], e) ELSE V[i]]
    BY <1>3 DEF NewEvent
  <2>2. M[k] = IF k = n THEN Append(V[k], e) ELSE V[k]
    <3> HIDE DEF n
    <3> QED BY <2>1
  <2>3. V[k] = s
    <3>1. s \in Seq(Event) /\ V[k] = IF k = out[w] THEN s \o << >> ELSE s
      BY <1>1, <1>5
    <3> HIDE DEF s
    <3>2. s \o << >> = s
      BY <3>1
    <3> QED BY <3>1, <3>2
  <2>4. CASE k = n
    BY <1>10, <1>11, <2>2, <2>3, <2>4
  <2>5. CASE k # n
    <3>1. files'[mem[w].segs[k].id] = files[mem[w].segs[k].id]
      BY <1>5, <1>11, <1>12, <2>5
    <3> QED BY <2>2, <2>3, <2>5, <3>1
  <2> QED BY <2>4, <2>5
<1>14. M \in [1..n -> Seq(Event)] /\ M[n] # << >>
  <2> HIDE DEF n
  <2>1. M = [i \in 1..n |-> IF i = n THEN Append(V[i], e) ELSE V[i]]
    BY <1>3 DEF NewEvent
  <2>2. \A i \in 1..n : V[i] \in Seq(Event) /\ Append(V[i], e) \in Seq(Event)
                        /\ Append(V[i], e) # << >>
    <3> SUFFICES ASSUME NEW i \in 1..n
                 PROVE  /\ V[i] \in Seq(Event) /\ Append(V[i], e) \in Seq(Event)
                        /\ Append(V[i], e) # << >>
      OBVIOUS
    <3>1. PICK v : v = V[i]
      OBVIOUS
    <3>2. v \in Seq(Event) /\ e \in Event
      BY <1>4, <1>5, <3>1
    <3>3. Append(v, e) \in Seq(Event) /\ Append(v, e) # << >>
      BY <3>2, Appended
    <3> QED BY <3>1, <3>2, <3>3
  <2> QED BY <1>4, <2>1, <2>2
<1>15. /\ CatalogOK(r, files') /\ CatalogOK(catalog, files')
       /\ \A id \in DOMAIN files' : files'[id] \in File
  BY <1>4, <1>7 DEF TypeInv, TypeOK
<1>16. View(w)' = M
  <2>1. buf'[w] = << >>
    BY <1>1, <1>7
  <2>2. View(w)' = Merged(r, files', n, buf'[w])
    BY <1>4 DEF View
  <2>3. View(w)' = Contents(r, files')
    BY <1>4, <1>15, <2>1, <2>2, NothingMerged
  <2>6. PICK C : C = Contents(r, files')
    OBVIOUS
  <2>4. /\ C \in [1..n -> Seq(Event)]
        /\ \A k \in 1..n : C[k] = EventsOf(files'[r.segs[k].id].lines)
    BY <1>4, <1>15, <2>6, ContentsType
  <2>5. \A k \in 1..n : C[k] = M[k]
    BY <1>4, <1>13, <2>4
  <2>7. C = M
    <3>1. M \in [1..n -> Seq(Event)]
      BY <1>14
    <3>2. PICK D : D = 1..n
      OBVIOUS
    <3>3. /\ C \in [D -> Seq(Event)] /\ M \in [D -> Seq(Event)]
          /\ \A k \in D : C[k] = M[k]
      BY <2>4, <2>5, <3>1, <3>2
    <3> QED BY <3>3
  <2> QED BY <2>3, <2>6, <2>7
<1>17. \A k \in 1..n : catalog.segs[k].id = mem[w].segs[k].id
  <2>1. Follows(catalog, mem[w])
    BY <1>4 DEF LogInv, HolderInv
  <2> QED BY <1>4, <2>1 DEF Follows
<1>18. DiskInv'
  <2>1. PICK K : K = Contents(catalog, files')
    OBVIOUS
  <2>2. /\ K \in [1..n -> Seq(Event)]
        /\ \A k \in 1..n : K[k] = EventsOf(files'[catalog.segs[k].id].lines)
    BY <1>4, <1>6, <1>15, <2>1, ContentsType
  <2>3. \A k \in 1..n : K[k] = M[k]
    BY <1>13, <1>17, <2>2
  <2>4. OnDisk(catalog, OnFile)
    BY DEF LogInv, DiskInv
  <2>5. OnDisk(catalog, K)
    <3>1. PICK L : L = OnFile
      OBVIOUS
    <3>2. /\ L \in [1..Len(catalog.segs) -> Seq(Event)] /\ OnDisk(catalog, L)
          /\ K \in [1..Len(catalog.segs) -> Seq(Event)]
          /\ M \in [1..Len(r.segs) -> Seq(Event)]
      BY <1>4, <1>6, <1>14, <2>2, <2>4, <3>1
    <3>3. /\ \A k \in 1..Len(catalog.segs) : K[k] = M[k]
          /\ Len(catalog.segs) # 0 /\ K[Len(catalog.segs)] = << >> => K = L
      BY <1>4, <1>14, <2>3
    <3> QED BY <1>4, <1>6, <3>2, <3>3, OnDiskCatchesUp
  <2> QED BY <1>7, <2>1, <2>5 DEF DiskInv, OnFile
<1>19. HolderInv(w)'
  <2>1. Exact(mem'[w], View(w)') /\ Follows(catalog', mem'[w])
    BY <1>4, <1>7, <1>16, Zenon
  <2>2. Len(mem'[w].segs) = Len(catalog'.segs) /\ out'[w] = Len(catalog'.segs) /\ out'[w] # 0
    <3>1. catalog' = catalog
      BY <1>7
    <3>2. n = Len(catalog.segs) /\ Len(r.segs) = n /\ n # 0 /\ mem'[w] = r /\ out'[w] = n
      BY <1>4
    <3> HIDE DEF n
    <3> QED BY ONLY <3>1, <3>2
  <2>3. pc'[w] = "event"
    BY <1>4
  <2> HIDE DEF n
  <2> QED BY ONLY <2>1, <2>2, <2>3 DEF HolderInv, Rolling
<1>20. LogInv'
  BY <1>4, <1>7, <1>18, <1>19, HolderStep DEF Critical
<1>21. Grows
  <2>1. \A id \in DOMAIN files : Extends(files[id], files'[id])
    <3> SUFFICES ASSUME NEW id \in DOMAIN files PROVE Extends(files[id], files'[id])
      OBVIOUS
    <3>1. CASE id # at
      <4>1. files'[id] = files[id] /\ files[id].lines \in Seq(Line)
        BY <1>6, <1>11, <3>1
      <4> QED BY ONLY <4>1 DEF Extends
    <3>2. CASE id = at
      <4>1. Len(files[at].lines) <= Len(all)
        <5>1. PICK l : l = Len(files[at].lines)
          OBVIOUS
        <5>2. l \in Nat /\ Len(all) = l + 1
          BY <1>9, <5>1
        <5>3. l <= Len(all)
          BY <5>2
        <5> QED BY <5>1, <5>3, Zenon
      <4>2. \A i \in DOMAIN files[at].lines : all[i] = files[at].lines[i]
        BY <1>9
      <4> QED BY <1>11, <3>2, <4>1, <4>2 DEF Extends
    <3> QED BY <3>1, <3>2
  <2>2. \A k \in 1..n : catalog.segs[k].sealed => k # n
    BY <1>4, HolderTypes DEF Linked
  <2>3. \A k \in 1..n : catalog.segs[k].sealed =>
                          files'[catalog.segs[k].id] = files[catalog.segs[k].id]
    BY <1>6, <1>11, <1>12, <1>17, <2>2
  <2> QED BY <1>6, <1>7, <1>11, <2>1, <2>3 DEF Grows
<1> QED BY <1>4, <1>16, <1>20, <1>21 DEF e, V

\* The steps of the processes that are not appending, the end of an append and
\* a kill: no file, no catalog on disk and no other process's memory changes.
LEMMA OutsideInv ==
  ASSUME LogInv, TypeInv', NEW w \in Writers,
         \/ ReadTail(w) \/ BuildBatch(w) \/ ReturnTail(w) \/ ReadTailFails(w)
         \/ Unlock(w) \/ Crash(w)
  PROVE  /\ LogInv' /\ Grows
         /\ UNCHANGED disk
         /\ pc'[w] \in {"idle", "scan", "lock"}
         /\ \A v \in Writers : v # w => /\ pc'[v] = pc[v] /\ mem'[v] = mem[v]
                                        /\ batch'[v] = batch[v] /\ pos'[v] = pos[v]
                                        /\ out'[v] = out[v] /\ buf'[v] = buf[v]
<1> USE DEF Forget
<1>1. /\ TypeInv /\ TypeOK /\ LockInv
      /\ pc \in [Writers -> Controls] /\ mem \in [Writers -> Catalog]
      /\ batch \in [Writers -> Seq(Event)] /\ pos \in [Writers -> Nat \ {0}]
      /\ out \in [Writers -> Nat] /\ buf \in [Writers -> Seq(Event)]
  BY DEF LogInv, TypeInv, TypeOK
<1>2. /\ lock = w <=> pc[w] \in Critical
      /\ pc[w] \in {"idle", "scan", "lock", "open"} => out[w] = 0 /\ buf[w] = << >>
  BY <1>1 DEF LockInv
<1>3. UNCHANGED disk
  BY DEF ReadTail, BuildBatch, ReturnTail, ReadTailFails, Unlock, Crash
<1>4. Grows
  BY <1>1, <1>3, UnchangedGrows
<1>5. ASSUME NEW label \in {"idle", "scan", "lock"}, Goto(w, label),
             lock' = IF pc[w] \in Critical THEN NoOne ELSE lock,
             out'[w] = 0, buf'[w] = << >>,
             \A v \in Writers : v # w => /\ mem'[v] = mem[v] /\ batch'[v] = batch[v]
                                         /\ pos'[v] = pos[v] /\ out'[v] = out[v]
                                         /\ buf'[v] = buf[v]
      PROVE  /\ LogInv'
             /\ pc'[w] \in {"idle", "scan", "lock"}
             /\ \A v \in Writers : v # w => /\ pc'[v] = pc[v] /\ mem'[v] = mem[v]
                                            /\ batch'[v] = batch[v] /\ pos'[v] = pos[v]
                                            /\ out'[v] = out[v] /\ buf'[v] = buf[v]
  <2>1. LogInv'
    BY <1>3, <1>5, OutsideStep
  <2>2. pc'[w] = label /\ \A v \in Writers : v # w => pc'[v] = pc[v]
    BY <1>1, <1>5 DEF Goto
  <2> QED BY <1>5, <2>1, <2>2
<1>6. CASE ReadTail(w)
  <2>1. /\ Goto(w, "scan") /\ lock' = lock /\ pc[w] \notin Critical /\ out' = out /\ buf' = buf
        /\ batch' = batch /\ pos' = pos
        /\ \A v \in Writers : v # w => mem'[v] = mem[v]
        /\ out[w] = 0 /\ buf[w] = << >>
    BY <1>1, <1>2, <1>6 DEF ReadTail, Critical
  <2> QED BY <1>3, <1>4, <1>5, <2>1
<1>7. CASE BuildBatch(w)
  <2>1. /\ Goto(w, "lock") /\ lock' = lock /\ pc[w] \notin Critical /\ out' = out /\ buf' = buf
        /\ pos' = pos
        /\ \A v \in Writers : v # w => mem'[v] = mem[v]
        /\ out[w] = 0 /\ buf[w] = << >>
    BY <1>1, <1>2, <1>7 DEF BuildBatch, Critical
  <2>2. \A v \in Writers : v # w => batch'[v] = batch[v]
    <3>1. PICK x : batch' = [batch EXCEPT ![w] = x]
      BY <1>7 DEF BuildBatch
    <3> QED BY <1>1, <3>1
  <2> QED BY <1>3, <1>4, <1>5, <2>1, <2>2
<1>8. ASSUME Forget(w), Goto(w, "idle"), lock' = IF pc[w] \in Critical THEN NoOne ELSE lock
      PROVE  /\ LogInv' /\ Grows
             /\ UNCHANGED disk
             /\ pc'[w] \in {"idle", "scan", "lock"}
             /\ \A v \in Writers : v # w => /\ pc'[v] = pc[v] /\ mem'[v] = mem[v]
                                            /\ batch'[v] = batch[v] /\ pos'[v] = pos[v]
                                            /\ out'[v] = out[v] /\ buf'[v] = buf[v]
  <2>1. out'[w] = 0 /\ buf'[w] = << >>
    BY <1>1, <1>8
  <2>2. \A v \in Writers : v # w => /\ mem'[v] = mem[v] /\ batch'[v] = batch[v]
                                    /\ pos'[v] = pos[v] /\ out'[v] = out[v]
                                    /\ buf'[v] = buf[v]
    BY <1>1, <1>8
  <2> QED BY <1>3, <1>4, <1>5, <1>8, <2>1, <2>2
<1>9. CASE ReturnTail(w) \/ ReadTailFails(w)
  <2>1. pc[w] \notin Critical /\ lock' = lock /\ Forget(w) /\ Goto(w, "idle")
    BY <1>9 DEF ReturnTail, ReadTailFails, Critical
  <2> QED BY <1>8, <2>1
<1>10. CASE Unlock(w)
  <2>1. pc[w] \in Critical /\ lock' = NoOne /\ Forget(w) /\ Goto(w, "idle")
    BY <1>10 DEF Unlock, Critical
  <2> QED BY <1>8, <2>1
<1>11. CASE Crash(w)
  <2>1. lock' = (IF lock = w THEN NoOne ELSE lock) /\ Forget(w) /\ Goto(w, "idle")
    BY <1>11 DEF Crash
  <2>2. lock' = IF pc[w] \in Critical THEN NoOne ELSE lock
    BY <1>2, <2>1
  <2> QED BY <1>8, <2>1, <2>2
<1> QED BY <1>6, <1>7, <1>9, <1>10, <1>11

\* A new log.
LEMMA InitLogInv == Init => LogInv
<1> SUFFICES ASSUME Init PROVE LogInv
  OBVIOUS
<1>1. TypeInv
  BY InitTypeInv
<1>2. LockInv /\ \A w \in Writers : HolderInv(w)
  BY WriterAssumption DEF Init, LockInv, HolderInv, Loop, Critical
<1>3. DiskInv
  <2>1. catalog = NewCatalog /\ Len(catalog.segs) = 0 /\ catalog.active = 0
        /\ catalog.head = Genesis /\ catalog.next = 0
    BY DEF Init, NewCatalog
  <2>2. OnFile \in [1..0 -> Seq(Event)]
    BY <1>1, <2>1, LogTypes
  <2>3. 1..0 = {} /\ DOMAIN OnFile = {}
    BY <2>2
  <2>4. AllEvents(OnFile) = {}
    BY <2>3 DEF AllEvents
  <2> QED BY <2>1, <2>3, <2>4 DEF DiskInv, OnDisk, Linked, Chained
<1> QED BY <1>1, <1>2, <1>3 DEF LogInv

-----------------------------------------------------------------------------
(* What became of the events of a batch.                                   *)

\* The events the loop is past are among those the lock holder has in view,
\* and once the catalog is written they are on file.
Placed(w) ==
  /\ pc[w] \in Loop \ {"abort"} =>
       \A i \in 1..Len(batch[w]) : i < pos[w] => batch[w][i] \in AllEvents(View(w))
  /\ pc[w] = "commit" => pos[w] > Len(batch[w])
  /\ pc[w] = "unlock_ok" => EventsIn(batch[w]) \subseteq AllEvents(OnFile)

AckInv ==
  /\ acked \subseteq AllEvents(OnFile)
  /\ \A w \in Writers : Placed(w)

SafeInv == LogInv /\ AckInv

\* What is on file stays on file.
LEMMA StaysOnFile ==
  ASSUME TypeInv, TypeInv', Grows
  PROVE  AllEvents(OnFile) \subseteq AllEvents(OnFile)'
<1> DEFINE n == Len(catalog.segs)
<1>1. /\ OnFile \in [1..n -> Seq(Event)] /\ DOMAIN catalog.segs = 1..n
      /\ \A k \in 1..n : /\ catalog.segs[k].id \in DOMAIN files
                         /\ OnFile[k] = EventsOf(files[catalog.segs[k].id].lines)
      /\ \A id \in DOMAIN files : files[id].lines \in Seq(Line)
  BY LogTypes
<1> HIDE DEF n
<1>2. PICK F, c : F = files' /\ c = catalog'
  OBVIOUS
<1>3. /\ c \in Catalog /\ CatalogOK(c, F) /\ \A id \in DOMAIN F : F[id] \in File
  BY <1>2 DEF TypeInv, TypeOK
<1> DEFINE M == Contents(c, F)
           m == Len(c.segs)
<1>4. /\ M \in [1..m -> Seq(Event)] /\ DOMAIN c.segs = 1..m
      /\ \A k \in 1..m : M[k] = EventsOf(F[c.segs[k].id].lines)
      /\ \A id \in DOMAIN F : F[id].lines \in Seq(Line)
  BY <1>3, ContentsType, SegsType DEF File
<1>5. OnFile' = M
  BY <1>2 DEF OnFile
<1> HIDE DEF M, m
<1>6. ASSUME NEW e \in AllEvents(OnFile) PROVE e \in AllEvents(M)
  <2>1. PICK k \in 1..n : e \in Event /\ \E i \in 1..Len(OnFile[k]) : e = OnFile[k][i]
    BY <1>1 DEF AllEvents
  <2>2. PICK i \in 1..Len(OnFile[k]) : e = OnFile[k][i]
    BY <2>1
  <2>3. PICK old, new : /\ old = files[catalog.segs[k].id].lines
                        /\ new = F[catalog.segs[k].id].lines
    OBVIOUS
  <2>4. /\ k \in 1..m /\ c.segs[k].id = catalog.segs[k].id /\ catalog.segs[k].id \in DOMAIN F
        /\ Extends(files[catalog.segs[k].id], F[catalog.segs[k].id])
    BY <1>1, <1>2, <1>4 DEF Grows
  <2>5. /\ Len(old) <= Len(new)
        /\ \A j \in DOMAIN old : new[j].ev = old[j].ev
    BY <2>3, <2>4, ExtendedEvents
  <2>6. /\ old \in Seq(Line) /\ new \in Seq(Line)
        /\ OnFile[k] = EventsOf(old) /\ M[k] = EventsOf(new)
    BY <1>1, <1>4, <2>3, <2>4
  <2>7. /\ Len(EventsOf(old)) = Len(old) /\ Len(EventsOf(new)) = Len(new)
        /\ \A j \in 1..Len(old) : EventsOf(old)[j] = old[j].ev
        /\ \A j \in 1..Len(new) : EventsOf(new)[j] = new[j].ev
    BY <2>6, EventsOfType
  <2>8. /\ i \in 1..Len(old) /\ i \in 1..Len(new) /\ i \in DOMAIN old
    BY <2>2, <2>5, <2>6, <2>7
  <2>9. e = M[k][i] /\ i \in 1..Len(M[k])
    BY <2>2, <2>5, <2>6, <2>7, <2>8
  <2>10. k \in DOMAIN M
    BY <1>4, <2>4
  <2> QED BY <2>1, <2>9, <2>10 DEF AllEvents
<1> QED BY <1>5, <1>6

\* A step that leaves its process in the append.
LEMMA AckStep ==
  ASSUME SafeInv, LogInv', Grows, NEW w \in Writers, pc'[w] \in Critical,
         acked' = acked, Placed(w)'
  PROVE  SafeInv'
<1>1. \A v \in Writers : v # w => pc'[v] \notin Critical
  BY DEF LogInv, LockInv
<1>2. \A v \in Writers : v # w => pc'[v] \notin Loop /\ pc'[v] \notin {"commit", "unlock_ok"}
  BY <1>1 DEF Loop, Critical
<1>3. \A v \in Writers : Placed(v)'
  BY <1>2 DEF Placed
<1>4. acked' \subseteq AllEvents(OnFile)'
  BY StaysOnFile DEF SafeInv, AckInv, LogInv
<1> QED BY <1>3, <1>4 DEF SafeInv, AckInv

\* A step after which its process is not in the append.
LEMMA OutsideSafeInv ==
  ASSUME SafeInv, NEW w \in Writers,
         UNCHANGED disk, acked' \subseteq AllEvents(OnFile), LogInv', pc'[w] \notin Critical,
         \A v \in Writers : v # w => /\ pc'[v] = pc[v] /\ mem'[v] = mem[v]
                                     /\ batch'[v] = batch[v] /\ pos'[v] = pos[v]
                                     /\ out'[v] = out[v] /\ buf'[v] = buf[v]
  PROVE  SafeInv'
<1>1. ASSUME NEW v \in Writers PROVE Placed(v)'
  <2>1. CASE v = w
    BY <2>1 DEF Placed, Loop, Critical
  <2>2. CASE v # w
    <3>1. /\ pc'[v] = pc[v] /\ mem'[v] = mem[v] /\ batch'[v] = batch[v] /\ pos'[v] = pos[v]
          /\ out'[v] = out[v] /\ buf'[v] = buf[v] /\ files' = files /\ catalog' = catalog
      BY <2>2
    <3>2. View(v)' = View(v) /\ OnFile' = OnFile
      BY <3>1 DEF View, OnFile
    <3> QED BY <3>1, <3>2 DEF SafeInv, AckInv, Placed
  <2> QED BY <2>1, <2>2
<1>2. OnFile' = OnFile
  BY DEF OnFile
<1> QED BY <1>1, <1>2 DEF SafeInv, AckInv

\* Every step of a running command.
LEMMA StepSafeInv ==
  ASSUME SafeInv, TypeInv', NEW w \in Writers, Step(w)
  PROVE  SafeInv' /\ Grows
<1>1. /\ LogInv /\ AckInv /\ Placed(w)
      /\ pc \in [Writers -> Controls] /\ batch[w] \in Seq(Event) /\ pos[w] \in Nat \ {0}
      /\ pos \in [Writers -> Nat \ {0}]
  BY DEF SafeInv, AckInv, LogInv, TypeInv, TypeOK
<1>2. ASSUME NEW label \in Critical \ {"unlock_ok"}, Goto(w, label), batch' = batch, pos' = pos,
             acked' = acked, LogInv', Grows,
             label \in Loop \ {"abort"} =>
               pc[w] \in Loop \ {"abort"} /\ AllEvents(View(w)) \subseteq AllEvents(View(w)'),
             label = "commit" => pos[w] > Len(batch[w])
      PROVE  SafeInv' /\ Grows
  <2>1. pc'[w] = label
    BY <1>1, <1>2 DEF Goto
  <2>2. Placed(w)'
    BY <1>1, <1>2, <2>1 DEF Placed
  <2> QED BY <1>1, <1>2, <2>1, <2>2, AckStep DEF SafeInv
<1>3. CASE BuildBatch(w) \/ ReturnTail(w) \/ ReadTailFails(w)
  <2>1. acked' = acked
    BY <1>3 DEF BuildBatch, ReturnTail, ReadTailFails
  <2>2. acked' \subseteq AllEvents(OnFile)
    BY <1>1, <2>1 DEF AckInv
  <2>3. /\ LogInv' /\ Grows /\ UNCHANGED disk /\ pc'[w] \notin Critical
        /\ \A v \in Writers : v # w => /\ pc'[v] = pc[v] /\ mem'[v] = mem[v]
                                       /\ batch'[v] = batch[v] /\ pos'[v] = pos[v]
                                       /\ out'[v] = out[v] /\ buf'[v] = buf[v]
    BY <1>1, <1>3, OutsideInv DEF Critical
  <2> QED BY <2>2, <2>3, OutsideSafeInv
<1>4. CASE AcquireLock(w)
  <2>1. /\ Goto(w, "open") /\ UNCHANGED <<files, catalog, batch, pos, acked>>
    BY <1>4 DEF AcquireLock
  <2>2. Grows /\ LogInv'
    BY <1>1, <1>4, <2>1, UnchangedGrows, AcquireLockInv DEF LogInv
  <2> QED BY <1>2, <2>1, <2>2 DEF Critical, Loop
<1>5. CASE OpenLog(w)
  <2>1. /\ Goto(w, "event") /\ pos' = [pos EXCEPT ![w] = 1]
        /\ UNCHANGED <<files, catalog, batch, acked>>
    BY <1>5 DEF OpenLog
  <2>2. Grows /\ LogInv'
    BY <1>1, <1>5, <2>1, UnchangedGrows, OpenLogInv DEF LogInv
  <2>3. pc'[w] = "event" /\ pos'[w] = 1
    BY <1>1, <2>1 DEF Goto
  <2>4. Placed(w)'
    BY <1>1, <2>1, <2>3 DEF Placed
  <2> QED BY <2>1, <2>2, <2>3, <2>4, AckStep DEF Critical
<1>6. CASE OpenFails(w)
  <2>1. /\ Goto(w, "unlock_err") /\ UNCHANGED <<files, catalog, batch, pos, acked>>
    BY <1>6 DEF OpenFails
  <2>2. Grows /\ LogInv'
    BY <1>1, <1>6, <2>1, UnchangedGrows, OpenFailsInv DEF LogInv
  <2> QED BY <1>2, <2>1, <2>2 DEF Critical, Loop
<1>7. CASE Reject(w)
  <2>1. /\ Goto(w, "abort") /\ UNCHANGED <<files, catalog, batch, pos, acked>>
    BY <1>7 DEF Reject
  <2>2. Grows /\ LogInv'
    BY <1>1, <1>7, <2>1, UnchangedGrows, RejectInv DEF LogInv
  <2> QED BY <1>2, <2>1, <2>2 DEF Critical, Loop
<1>8. CASE RollSegment(w)
  <2>1. /\ pc[w] = "event" /\ Goto(w, "roll_flush") /\ UNCHANGED <<batch, pos, acked>>
    BY <1>8 DEF RollSegment, Pending
  <2> QED BY <1>1, <1>2, <1>8, <2>1, RollSegmentInv DEF Critical, Loop
<1>9. CASE FlushRolled(w)
  <2>1. /\ pc[w] = "roll_flush" /\ Goto(w, "roll_catalog") /\ UNCHANGED <<batch, pos, acked>>
    BY <1>9 DEF FlushRolled
  <2> QED BY <1>1, <1>2, <1>9, <2>1, FlushRolledInv DEF Critical, Loop
<1>10. CASE WriteRolledCatalog(w)
  <2>1. /\ pc[w] = "roll_catalog" /\ Goto(w, "put") /\ UNCHANGED <<batch, pos, acked>>
    BY <1>10 DEF WriteRolledCatalog
  <2> QED BY <1>1, <1>2, <1>10, <2>1, WriteRolledCatalogInv DEF Critical, Loop
<1>11. CASE PutLine(w) \/ PutLargeLine(w)
  <2>1. /\ Putting(w) /\ Goto(w, "event") /\ pos' = [pos EXCEPT ![w] = pos[w] + 1]
        /\ UNCHANGED <<batch, acked>>
    BY <1>11 DEF PutLine, PutLargeLine, Record
  <2>2. /\ LogInv' /\ Grows
        /\ Current(w) \in AllEvents(View(w)')
        /\ AllEvents(View(w)) \subseteq AllEvents(View(w)')
    BY <1>1, <1>11, PutLineInv, PutLargeLineInv
  <2>3. pc'[w] = "event" /\ pos'[w] = pos[w] + 1 /\ pc[w] \in Loop \ {"abort"}
    BY <1>1, <2>1 DEF Goto, Putting, Pending, Loop
  <2>4. ASSUME NEW i \in 1..Len(batch[w]), i < pos[w] + 1
        PROVE  batch[w][i] \in AllEvents(View(w)')
    <3>1. i < pos[w] => batch[w][i] \in AllEvents(View(w))
      BY <1>1, <2>3 DEF Placed
    <3>2. i < pos[w] \/ i = pos[w]
      BY <1>1, <2>4
    <3> QED BY <2>2, <3>1, <3>2 DEF Current
  <2>5. Placed(w)'
    BY <2>1, <2>3, <2>4 DEF Placed
  <2> QED BY <2>1, <2>2, <2>3, <2>5, AckStep DEF Critical
<1>12. CASE Spill(w)
  <2>1. /\ pc[w] \in {"event", "put"} /\ UNCHANGED <<pc, batch, pos, acked>>
    BY <1>12 DEF Spill
  <2>2. Goto(w, pc[w])
    BY <1>1, <2>1 DEF Goto
  <2> QED BY <1>1, <1>2, <1>12, <2>1, <2>2, SpillInv DEF Critical, Loop
<1>13. CASE FlushBatch(w)
  <2>1. /\ pc[w] = "event" /\ pos[w] > Len(batch[w]) /\ Goto(w, "commit")
        /\ UNCHANGED <<batch, pos, acked>>
    BY <1>13 DEF FlushBatch
  <2> QED BY <1>1, <1>2, <1>13, <2>1, FlushBatchInv DEF Critical, Loop
<1>14. CASE WriteCatalog(w)
  <2>1. /\ pc[w] = "commit" /\ Goto(w, "unlock_ok") /\ UNCHANGED <<batch, pos, acked>>
    BY <1>14 DEF WriteCatalog
  <2>2. LogInv' /\ Grows /\ OnFile' = View(w)
    BY <1>1, <1>14, WriteCatalogInv
  <2>3. pc'[w] = "unlock_ok"
    BY <1>1, <2>1 DEF Goto
  <2>4. EventsIn(batch[w]) \subseteq AllEvents(View(w))
    <3>1. \A i \in 1..Len(batch[w]) : i < pos[w]
      BY <1>1, <2>1 DEF Placed
    <3>2. \A i \in 1..Len(batch[w]) : batch[w][i] \in AllEvents(View(w))
      BY <1>1, <2>1, <3>1 DEF Placed, Loop
    <3>3. DOMAIN batch[w] = 1..Len(batch[w])
      BY <1>1
    <3> QED BY <3>2, <3>3 DEF EventsIn
  <2>5. Placed(w)'
    BY <2>1, <2>2, <2>3, <2>4 DEF Placed, Loop
  <2> QED BY <2>1, <2>2, <2>3, <2>5, AckStep DEF Critical
<1>15. CASE DropWriter(w)
  <2>1. /\ Goto(w, "unlock_err") /\ UNCHANGED <<batch, pos, acked>>
    BY <1>15 DEF DropWriter
  <2> QED BY <1>1, <1>2, <1>15, <2>1, DropWriterInv DEF Critical, Loop
<1>16. CASE Unlock(w)
  <2>1. /\ LogInv' /\ Grows /\ UNCHANGED disk /\ pc'[w] \notin Critical
        /\ \A v \in Writers : v # w => /\ pc'[v] = pc[v] /\ mem'[v] = mem[v]
                                       /\ batch'[v] = batch[v] /\ pos'[v] = pos[v]
                                       /\ out'[v] = out[v] /\ buf'[v] = buf[v]
    BY <1>1, <1>16, OutsideInv DEF Critical
  <2>2. acked' \subseteq AllEvents(OnFile)
    <3>1. acked' = acked \/ (pc[w] = "unlock_ok" /\ acked' = acked \union EventsIn(batch[w]))
      BY <1>16 DEF Unlock
    <3> QED BY <1>1, <3>1 DEF AckInv, Placed
  <2> QED BY <1>1, <2>1, <2>2, OutsideSafeInv
<1> QED
  BY <1>3, <1>4, <1>5, <1>6, <1>7, <1>8, <1>9, <1>10, <1>11, <1>12, <1>13, <1>14, <1>15,
     <1>16 DEF Step

\* Every step preserves the invariant, and only adds to what is on file.
LEMMA NextSafeInv == SafeInv /\ [Next]_vars => SafeInv' /\ Grows
<1> SUFFICES ASSUME SafeInv, [Next]_vars PROVE SafeInv' /\ Grows
  OBVIOUS
<1>1. /\ LogInv /\ TypeInv /\ TypeInv' /\ acked \subseteq AllEvents(OnFile)
  BY NextTypeInv DEF SafeInv, LogInv, AckInv
<1>2. CASE UNCHANGED vars
  <2>1. Grows
    BY <1>1, <1>2, UnchangedGrows DEF vars
  <2>2. LockInv' /\ DiskInv'
    BY <1>1, <1>2 DEF vars, LogInv, LockInv, DiskInv, OnFile
  <2>3. \A w \in Writers : HolderInv(w)' /\ Placed(w)'
    BY <1>1, <1>2 DEF vars, SafeInv, LogInv, AckInv, HolderInv, Placed, View, Current, OnFile
  <2>4. acked' \subseteq AllEvents(OnFile)'
    BY <1>1, <1>2 DEF vars, OnFile
  <2> QED BY <1>1, <2>1, <2>2, <2>3, <2>4 DEF SafeInv, LogInv, AckInv
<1>3. ASSUME NEW w \in Writers, ReadTail(w) \/ Crash(w) PROVE SafeInv' /\ Grows
  <2>1. acked' \subseteq AllEvents(OnFile)
    BY <1>1, <1>3 DEF ReadTail, Crash
  <2>2. /\ LogInv' /\ Grows /\ UNCHANGED disk /\ pc'[w] \notin Critical
        /\ \A v \in Writers : v # w => /\ pc'[v] = pc[v] /\ mem'[v] = mem[v]
                                       /\ batch'[v] = batch[v] /\ pos'[v] = pos[v]
                                       /\ out'[v] = out[v] /\ buf'[v] = buf[v]
    BY <1>1, <1>3, OutsideInv DEF Critical
  <2> QED BY <2>1, <2>2, OutsideSafeInv
<1>4. ASSUME NEW w \in Writers, Step(w) PROVE SafeInv' /\ Grows
  BY <1>1, <1>4, StepSafeInv
<1> QED BY <1>2, <1>3, <1>4 DEF Next

LEMMA InitSafeInv == Init => SafeInv
<1> SUFFICES ASSUME Init PROVE SafeInv
  OBVIOUS
<1>1. LogInv
  BY InitLogInv
<1>2. AckInv
  BY DEF Init, AckInv, Placed, Loop
<1> QED BY <1>1, <1>2 DEF SafeInv

\* The invariant the theorems below follow from: one process at a time is in
\* the append, its catalog describes what the files will hold, the catalog on
\* disk can be repaired from them, and what was acknowledged is in them.
THEOREM AppendInvariant == Spec => []SafeInv
<1>1. SafeInv /\ [Next]_vars => SafeInv'
  BY NextSafeInv
<1> QED BY <1>1, InitSafeInv, PTL DEF Spec

\* append_batch, roll_segment_if_needed and every kill between their steps only
\* add lines to the segment files, and leave sealed segments and their catalog
\* entries as they are.
THEOREM LogOnlyGrows == Spec => AppendOnly
<1>1. SafeInv /\ [Next]_vars => SafeInv'
  BY NextSafeInv
<1>2. SafeInv /\ [Next]_vars => [Grows]_vars
  BY NextSafeInv
<1>3. [Grows]_vars <=> [\A k \in DOMAIN catalog.segs :
       LET id == catalog.segs[k].id
       IN  /\ k \in DOMAIN catalog'.segs /\ catalog'.segs[k].id = id
           /\ id \in DOMAIN files' /\ Extends(files[id], files'[id])
           /\ catalog.segs[k].sealed =>
                /\ catalog'.segs[k] = catalog.segs[k]
                /\ files'[id] = files[id]]_vars
  BY DEF Grows
<1> QED BY <1>1, <1>2, <1>3, InitSafeInv, PTL DEF Spec, AppendOnly

-----------------------------------------------------------------------------
(* The safety properties of the log.                                       *)

\* The lines of the segment files and the events they stand for.
LEMMA FileLines ==
  ASSUME TypeInv, NEW k \in DOMAIN catalog.segs
  PROVE  /\ k \in 1..Len(catalog.segs) /\ Len(catalog.segs) \in Nat
         /\ LinesAt(k) \in Seq(Line)
         /\ DOMAIN LinesAt(k) = 1..Len(LinesAt(k)) /\ Len(LinesAt(k)) \in Nat
         /\ Len(OnFile[k]) = Len(LinesAt(k))
         /\ \A i \in 1..Len(LinesAt(k)) : EventAt(k, i) = OnFile[k][i]
         /\ \A i \in 1..Len(LinesAt(k)) : EventAt(k, i) \in AllEvents(OnFile)
         /\ LinesAt(k) = << >> <=> OnFile[k] = << >>
         /\ BytesOf(LinesAt(k)) = Bytes(OnFile[k])
         /\ HeadBefore(k) = Before(catalog, k)
<1> DEFINE n == Len(catalog.segs)
<1>1. /\ k \in 1..n /\ n \in Nat /\ OnFile \in [1..n -> Seq(Event)]
      /\ LinesAt(k) \in Seq(Line) /\ OnFile[k] = EventsOf(LinesAt(k))
  BY LogTypes DEF LinesAt
<1>2. /\ Len(OnFile[k]) = Len(LinesAt(k))
      /\ \A i \in 1..Len(LinesAt(k)) : EventAt(k, i) = OnFile[k][i]
      /\ LinesAt(k) = << >> <=> OnFile[k] = << >>
      /\ BytesOf(LinesAt(k)) = Bytes(OnFile[k])
  BY <1>1, EventsOfType DEF EventAt
<1>3. \A i \in 1..Len(LinesAt(k)) : EventAt(k, i) \in AllEvents(OnFile)
  BY <1>1, <1>2, EventOfSegment
<1>4. HeadBefore(k) = Before(catalog, k)
  BY DEF HeadBefore, Before
<1>5. DOMAIN LinesAt(k) = 1..Len(LinesAt(k)) /\ Len(LinesAt(k)) \in Nat
  BY <1>1
<1> QED BY <1>1, <1>2, <1>3, <1>4, <1>5

LEMMA ContiguousFromDisk == LogInv => SegmentsContiguous
<1> SUFFICES ASSUME LogInv PROVE SegmentsContiguous
  OBVIOUS
<1>1. TypeInv /\ Linked(catalog) /\ Chained(catalog, OnFile)
  BY DEF LogInv, DiskInv, OnDisk
<1>2. catalog.active = Len(catalog.segs)
  BY <1>1 DEF Linked
<1> SUFFICES ASSUME NEW k \in DOMAIN catalog.segs
             PROVE  /\ catalog.segs[k].id \in DOMAIN files
                    /\ catalog.segs[k].sealed <=> k # catalog.active
                    /\ catalog.segs[k].start =
                         IF k = 1 THEN 0 ELSE catalog.segs[k - 1].start + Len(LinesAt(k - 1))
  BY <1>2 DEF SegmentsContiguous
<1>3. k \in 1..Len(catalog.segs) /\ catalog.segs[k].id \in DOMAIN files
  BY <1>1, LogTypes
<1>4. catalog.segs[k].sealed <=> k # catalog.active
  BY <1>1, <1>2, <1>3 DEF Linked
<1>5. k # 1 => k - 1 \in DOMAIN catalog.segs
  BY <1>1, <1>3, LogTypes
<1>6. k # 1 => Len(OnFile[k - 1]) = Len(LinesAt(k - 1))
  BY <1>1, <1>5, FileLines
<1>7. catalog.segs[k].start = IF k = 1 THEN 0 ELSE catalog.segs[k - 1].start + Len(OnFile[k - 1])
  BY <1>1, <1>3 DEF Chained
<1> QED BY <1>3, <1>4, <1>6, <1>7

LEMMA ChainFromDisk == LogInv => LogChain
<1> SUFFICES ASSUME LogInv, NEW k \in DOMAIN catalog.segs, NEW i \in DOMAIN LinesAt(k)
             PROVE  /\ EventAt(k, i).sound
                    /\ EventAt(k, i).seq = catalog.segs[k].start + i - 1
                    /\ EventAt(k, i).prev = IF i = 1 THEN HeadBefore(k)
                                                     ELSE DigestOf(EventAt(k, i - 1))
                    /\ \A j \in DOMAIN catalog.segs : \A h \in DOMAIN LinesAt(j) :
                         EventAt(k, i).ns = EventAt(j, h).ns
  BY DEF LogChain
<1>1. /\ TypeInv /\ Chained(catalog, OnFile)
      /\ \A d, e \in AllEvents(OnFile) : d.ns = e.ns
  BY DEF LogInv, DiskInv, OnDisk
<1>2. /\ k \in 1..Len(catalog.segs) /\ i \in 1..Len(OnFile[k]) /\ i \in 1..Len(LinesAt(k))
      /\ EventAt(k, i) = OnFile[k][i] /\ HeadBefore(k) = Before(catalog, k)
      /\ EventAt(k, i) \in AllEvents(OnFile)
  BY <1>1, FileLines
<1>3. i # 1 => EventAt(k, i - 1) = OnFile[k][i - 1]
  <2>1. i # 1 => i - 1 \in 1..Len(LinesAt(k))
    BY <1>1, <1>2, FileLines
  <2> QED BY <1>1, <2>1, FileLines
<1>4. /\ OnFile[k][i].sound
      /\ OnFile[k][i].seq = catalog.segs[k].start + i - 1
      /\ OnFile[k][i].prev = IF i = 1 THEN Before(catalog, k) ELSE DigestOf(OnFile[k][i - 1])
  <2>1. \A j \in 1..Len(catalog.segs) : \A h \in 1..Len(OnFile[j]) :
          /\ OnFile[j][h].sound
          /\ OnFile[j][h].seq = catalog.segs[j].start + h - 1
          /\ OnFile[j][h].prev = IF h = 1 THEN Before(catalog, j) ELSE DigestOf(OnFile[j][h - 1])
    BY <1>1, Zenon DEF Chained
  <2>2. k \in 1..Len(catalog.segs) /\ i \in 1..Len(OnFile[k])
    BY <1>2
  <2> QED BY <2>1, <2>2, Zenon
<1>5. ASSUME NEW j \in DOMAIN catalog.segs, NEW h \in DOMAIN LinesAt(j)
      PROVE  EventAt(k, i).ns = EventAt(j, h).ns
  <2>1. EventAt(j, h) \in AllEvents(OnFile)
    <3>1. h \in 1..Len(LinesAt(j))
      BY <1>1, FileLines
    <3> QED BY <1>1, <3>1, FileLines
  <2> QED BY <1>1, <1>2, <2>1
<1> QED BY <1>2, <1>3, <1>4, <1>5

LEMMA SealedFromDisk == LogInv => SealedEntriesExact
<1> SUFFICES ASSUME LogInv, NEW k \in DOMAIN catalog.segs, catalog.segs[k].sealed
             PROVE  /\ catalog.segs[k].count = Len(LinesAt(k))
                    /\ catalog.segs[k].bytes = BytesOf(LinesAt(k))
                    /\ IF LinesAt(k) = << >>
                       THEN catalog.segs[k].last = HeadBefore(k)
                       ELSE /\ catalog.segs[k].end = EventAt(k, Len(LinesAt(k))).seq
                            /\ catalog.segs[k].last = DigestOf(EventAt(k, Len(LinesAt(k))))
  BY DEF SealedEntriesExact
<1>1. TypeInv /\ OnDisk(catalog, OnFile)
  BY DEF LogInv, DiskInv
<1>2. /\ k \in 1..Len(catalog.segs) /\ Len(OnFile[k]) = Len(LinesAt(k))
      /\ HeadBefore(k) = Before(catalog, k)
      /\ LinesAt(k) = << >> <=> OnFile[k] = << >>
      /\ BytesOf(LinesAt(k)) = Bytes(OnFile[k])
  BY <1>1, FileLines
<1>3. k # Len(catalog.segs)
  BY <1>1, <1>2 DEF OnDisk, Linked
<1>4. Described(catalog.segs[k], OnFile[k], Before(catalog, k))
  BY <1>1, <1>2, <1>3 DEF OnDisk
<1>5. LinesAt(k) # << >> => EventAt(k, Len(LinesAt(k))) = OnFile[k][Len(OnFile[k])]
  <2>1. LinesAt(k) # << >> => Len(LinesAt(k)) \in 1..Len(LinesAt(k))
    BY <1>1, FileLines
  <2> QED BY <1>1, <1>2, <2>1, FileLines
<1> QED BY <1>2, <1>4, <1>5 DEF Described

LEMMA LinksFromDisk == LogInv => SegmentLinks
BY LogTypes DEF LogInv, DiskInv, OnDisk, Linked, SegmentLinks

LEMMA TailFromDisk == LogInv => TailRecovered
<1> DEFINE tail == Reconcile(catalog, files)
           k == catalog.active
           n == Len(LinesAt(k))
<1> SUFFICES ASSUME LogInv, HasActive(catalog)
             PROVE  /\ tail.next = catalog.segs[k].start + n
                    /\ tail.head = IF n = 0 THEN HeadBefore(k) ELSE DigestOf(EventAt(k, n))
  BY Zenon DEF TailRecovered
<1>1. /\ TypeInv /\ OnDisk(catalog, OnFile) /\ catalog.active = Len(catalog.segs)
      /\ catalog \in Catalog /\ CatalogOK(catalog, files)
      /\ \A id \in DOMAIN files : files[id] \in File
  BY LogTypes DEF LogInv, DiskInv, OnDisk, Linked
<1>2. k # 0 /\ k = Len(catalog.segs) /\ k \in DOMAIN catalog.segs /\ k \in 1..Len(catalog.segs)
  BY <1>1, LogTypes DEF HasActive
<1>3. PICK r, L : r = tail /\ L = OnFile
  OBVIOUS
<1>4. /\ Exact(r, L) /\ Len(r.segs) = Len(catalog.segs) /\ Follows(catalog, r)
  BY <1>1, <1>3, ReconcileExact DEF OnFile
<1> HIDE DEF k, tail
<1>5. /\ r.head = Before(r, k + 1) /\ r.next = r.segs[k].start + Len(L[k])
      /\ Described(r.segs[k], L[k], Before(r, k))
  BY <1>2, <1>4 DEF Exact, TailAt
<1>6. r.segs[k].start = catalog.segs[k].start
  BY <1>2, <1>4 DEF Follows
<1>7. Before(r, k + 1) = r.segs[k].last
  <2>1. k + 1 # 1 /\ (k + 1) - 1 = k
    BY <1>2
  <2> QED BY <2>1 DEF Before
<1>8. /\ Len(L[k]) = Len(LinesAt(k)) /\ HeadBefore(k) = Before(catalog, k)
      /\ LinesAt(k) = << >> <=> L[k] = << >>
      /\ LinesAt(k) \in Seq(Line) /\ Len(LinesAt(k)) \in Nat
  BY <1>1, <1>2, <1>3, FileLines
<1>9. n # 0 => EventAt(k, n) = L[k][n]
  BY <1>1, <1>2, <1>3, <1>8, FileLines
<1>10. Before(r, k) = Before(catalog, k)
  <2>1. k # 1 => k - 1 \in 1..Len(catalog.segs) /\ k - 1 # Len(catalog.segs)
    <3>1. PICK l : l = Len(catalog.segs)
      OBVIOUS
    <3>2. l \in Nat /\ k = l /\ l # 0
      BY <1>1, <1>2, <3>1, LogTypes
    <3>3. l # 1 => l - 1 \in 1..l /\ l - 1 # l
      BY <3>2
    <3> QED BY <3>1, <3>2, <3>3, Zenon
  <2>2. k # 1 => r.segs[k - 1] = catalog.segs[k - 1]
    BY <1>4, <2>1 DEF Follows
  <2> QED BY <2>2 DEF Before
<1>11. n = 0 <=> LinesAt(k) = << >>
  BY <1>8
<1> QED BY <1>3, <1>5, <1>6, <1>7, <1>8, <1>9, <1>10, <1>11 DEF Described

LEMMA AckedFromDisk == SafeInv => AckedDurable
<1> SUFFICES ASSUME SafeInv, NEW e \in acked PROVE e \in DurableEvents
  BY DEF AckedDurable
<1>1. TypeInv /\ e \in AllEvents(OnFile)
  BY DEF SafeInv, LogInv, AckInv
<1>2. DOMAIN OnFile = DOMAIN catalog.segs
  BY <1>1, LogTypes
<1>3. PICK k \in DOMAIN catalog.segs : \E i \in 1..Len(OnFile[k]) : e = OnFile[k][i]
  BY <1>1, <1>2 DEF AllEvents
<1>4. PICK i \in 1..Len(OnFile[k]) : e = OnFile[k][i]
  BY <1>3
<1>5. i \in DOMAIN LinesAt(k) /\ e = EventAt(k, i)
  BY <1>1, <1>4, FileLines
<1> QED BY <1>5 DEF DurableEvents

\* The segments of a log partition its sequence numbers, whoever wrote them and
\* whichever process was killed between a header, a flush and a catalog write.
THEOREM SegmentsStayContiguous == Spec => []SegmentsContiguous
<1>1. SafeInv => SegmentsContiguous
  BY ContiguousFromDisk DEF SafeInv
<1> QED BY <1>1, AppendInvariant, PTL

\* The event lines of all segment files are one hash chain of one namespace:
\* what the guards of append_segmented_under_lock and the lock are for.
THEOREM ChainUnbroken == Spec => []LogChain
<1>1. SafeInv => LogChain
  BY ChainFromDisk DEF SafeInv
<1> QED BY <1>1, AppendInvariant, PTL

\* A catalog that seals a segment is written only after the lines it counts.
THEOREM SealedStayExact == Spec => []SealedEntriesExact
<1>1. SafeInv => SealedEntriesExact
  BY SealedFromDisk DEF SafeInv
<1> QED BY <1>1, AppendInvariant, PTL

\* Each segment's header names the header of the segment before it.
THEOREM SegmentsStayLinked == Spec => []SegmentLinks
<1>1. SafeInv => SegmentLinks
  BY LinksFromDisk DEF SafeInv
<1> QED BY <1>1, AppendInvariant, PTL

\* reconcile_catalog_tail finds the end of what the files hold, whatever step
\* the last append died at.
THEOREM TailAlwaysRecovered == Spec => []TailRecovered
<1>1. SafeInv => TailRecovered
  BY TailFromDisk DEF SafeInv
<1> QED BY <1>1, AppendInvariant, PTL

\* An append_batch that returned Ok is in the segment files from then on.
THEOREM AckedStayDurable == Spec => []AckedDurable
<1>1. SafeInv => AckedDurable
  BY AckedFromDisk
<1> QED BY <1>1, AppendInvariant, PTL

-----------------------------------------------------------------------------
(* The log a catalog and the files of its segments amount to.              *)

Stitched(c, disk0) == FlattenSeq([k \in DOMAIN c.segs |-> StampsIn(disk0[c.segs[k].id].lines)])

\* all is the log whose events are cut into segments as L, where c says.
LogOf(c, L, all) ==
  /\ all \in Seq(Stamp)
  /\ Len(all) = IF Len(c.segs) = 0 THEN 0
                ELSE c.segs[Len(c.segs)].start + Len(L[Len(c.segs)])
  /\ \A k \in 1..Len(c.segs) : \A i \in 1..Len(L[k]) :
       c.segs[k].start + i \in 1..Len(all) /\ all[c.segs[k].start + i] = StampOf(L[k][i])
  /\ \A j \in 1..Len(all) :
       \E k \in 1..Len(c.segs) : \E i \in 1..Len(L[k]) : j = c.segs[k].start + i

\* The stamps of the lines of a file are those of its events.
LEMMA StampsInIs ==
  ASSUME NEW lines \in Seq(Line)
  PROVE  /\ StampsIn(lines) \in Seq(Stamp)
         /\ Len(StampsIn(lines)) = Len(EventsOf(lines))
         /\ \A i \in 1..Len(EventsOf(lines)) : StampsIn(lines)[i] = StampOf(EventsOf(lines)[i])
<1>0. EventsOf(lines) \in Seq(Event) /\ Len(EventsOf(lines)) = Len(lines)
      /\ \A i \in 1..Len(lines) : EventsOf(lines)[i] = lines[i].ev
  BY EventsOfType
<1>1. /\ Len(EventsOf(lines)) = Len(lines) /\ DOMAIN lines = 1..Len(lines)
      /\ \A i \in 1..Len(lines) : EventsOf(lines)[i] = lines[i].ev /\ lines[i].ev \in Event
      /\ Len(lines) \in Nat
  <2>1. DOMAIN lines = 1..Len(lines) /\ Len(lines) \in Nat
    OBVIOUS
  <2>2. \A i \in 1..Len(lines) : EventsOf(lines)[i] \in Event
    BY <1>0
  <2> QED BY <1>0, <2>1, <2>2
<1>2. \A e \in Event : StampOf(e) \in Stamp
  BY DEF StampOf, Event, Stamp
<1>3. StampsIn(lines) = [i \in 1..Len(lines) |-> StampOf(lines[i].ev)]
  BY <1>1 DEF StampsIn
<1>4. \A i \in 1..Len(lines) : StampOf(lines[i].ev) \in Stamp
  BY <1>1, <1>2
<1>5. StampsIn(lines) \in Seq(Stamp) /\ Len(StampsIn(lines)) = Len(lines)
  BY <1>1, <1>3, <1>4
<1> QED BY <1>1, <1>3, <1>5

LEMMA StitchedIs ==
  ASSUME NEW F, NEW c \in Catalog, CatalogOK(c, F), \A id \in DOMAIN F : F[id] \in File,
         Chained(c, Contents(c, F))
  PROVE  LogOf(c, Contents(c, F), Stitched(c, F))
<1> DEFINE n == Len(c.segs)
           L == Contents(c, F)
           seqs == [k \in 1..n |-> StampsIn(F[c.segs[k].id].lines)]
           starts == [k \in 1..n |-> c.segs[k].start]
<1>1. n \in Nat /\ DOMAIN c.segs = 1..n /\ \A k \in 1..n : c.segs[k].start \in Nat
  BY SegsType
<1>2. \A k \in 1..n : F[c.segs[k].id].lines \in Seq(Line) /\ L[k] = EventsOf(F[c.segs[k].id].lines)
  BY ContentsType
<1>3. /\ seqs \in [1..n -> Seq(Stamp)]
      /\ \A k \in 1..n : /\ Len(seqs[k]) = Len(L[k])
                         /\ \A i \in 1..Len(L[k]) : seqs[k][i] = StampOf(L[k][i])
  <2> HIDE DEF n, L
  <2> QED BY <1>2, StampsInIs
<1>4. starts \in [1..n -> Int] /\ \A k \in 1..n : starts[k] = c.segs[k].start
  BY <1>1
<1>5. Stitched(c, F) = FlattenSeq(seqs)
  BY <1>1 DEF Stitched
<1>6. ASSUME NEW k \in 1..n
      PROVE  starts[k] = IF k = 1 THEN 0 ELSE starts[k - 1] + Len(seqs[k - 1])
  <2>1. c.segs[k].start = IF k = 1 THEN 0 ELSE c.segs[k - 1].start + Len(L[k - 1])
    BY DEF Chained
  <2>2. k # 1 => k - 1 \in 1..n
    BY <1>1
  <2> HIDE DEF n, L, seqs, starts
  <2> QED BY <1>3, <1>4, <2>1, <2>2
<1> HIDE DEF n, L, seqs, starts
<1>7. PICK all, s, q : all = FlattenSeq(q) /\ s = starts /\ q = seqs
  OBVIOUS
<1>8. /\ all \in Seq(Stamp)
      /\ Len(all) = IF n = 0 THEN 0 ELSE s[n] + Len(q[n])
      /\ \A k \in 1..n : \A i \in 1..Len(q[k]) :
           s[k] + i \in 1..Len(all) /\ all[s[k] + i] = q[k][i]
      /\ \A j \in 1..Len(all) : \E k \in 1..n : \E i \in 1..Len(q[k]) : j = s[k] + i
  <2>1. n \in Nat /\ q \in [1..n -> Seq(Stamp)] /\ s \in [1..n -> Int]
    BY <1>1, <1>3, <1>4, <1>7
  <2>2. \A k \in 1..n : s[k] = IF k = 1 THEN 0 ELSE s[k - 1] + Len(q[k - 1])
    BY <1>6, <1>7
  <2>3. CutAt(Stamp, n, q, s)
    BY <2>1, <2>2 DEF CutAt
  <2>4. Joins(Stamp, n, q, s, all)
    BY <1>7, <2>3, FlattenSeqIs, Zenon
  <2> QED BY <2>4 DEF Joins
<1>9. n # 0 => n \in 1..n
  BY <1>1
<1>10. LogOf(c, L, all)
  <2>0. \A k \in 1..n : /\ s[k] = c.segs[k].start /\ 1..Len(q[k]) = 1..Len(L[k])
                         /\ Len(q[k]) = Len(L[k])
                         /\ \A i \in 1..Len(L[k]) : q[k][i] = StampOf(L[k][i])
    <3> SUFFICES ASSUME NEW k \in 1..n
                 PROVE  /\ s[k] = c.segs[k].start /\ 1..Len(q[k]) = 1..Len(L[k])
                        /\ Len(q[k]) = Len(L[k])
                        /\ \A i \in 1..Len(L[k]) : q[k][i] = StampOf(L[k][i])
      OBVIOUS
    <3>1. q[k] = seqs[k] /\ s[k] = c.segs[k].start
      BY <1>4, <1>7
    <3>2. Len(seqs[k]) = Len(L[k]) /\ \A i \in 1..Len(L[k]) : seqs[k][i] = StampOf(L[k][i])
      BY <1>3
    <3> QED BY <3>1, <3>2, Zenon
  <2>1. Len(all) = IF n = 0 THEN 0 ELSE c.segs[n].start + Len(L[n])
    BY <1>8, <1>9, <2>0
  <2>2. \A k \in 1..n : \A i \in 1..Len(L[k]) :
          c.segs[k].start + i \in 1..Len(all) /\ all[c.segs[k].start + i] = StampOf(L[k][i])
    <3> SUFFICES ASSUME NEW k \in 1..n, NEW i \in 1..Len(L[k])
                 PROVE  /\ c.segs[k].start + i \in 1..Len(all)
                        /\ all[c.segs[k].start + i] = StampOf(L[k][i])
      OBVIOUS
    <3>1. s[k] = c.segs[k].start /\ i \in 1..Len(q[k]) /\ q[k][i] = StampOf(L[k][i])
      BY <2>0, Zenon
    <3>2. s[k] + i \in 1..Len(all) /\ all[s[k] + i] = q[k][i]
      BY <1>8, <3>1, Zenon
    <3> QED BY <3>1, <3>2, Zenon
  <2>3. \A j \in 1..Len(all) :
          \E k \in 1..n : \E i \in 1..Len(L[k]) : j = c.segs[k].start + i
    <3> SUFFICES ASSUME NEW j \in 1..Len(all)
                 PROVE  \E k \in 1..n : \E i \in 1..Len(L[k]) : j = c.segs[k].start + i
      OBVIOUS
    <3>1. PICK k \in 1..n : \E i \in 1..Len(q[k]) : j = s[k] + i
      BY <1>8, Zenon
    <3>2. PICK i \in 1..Len(q[k]) : j = s[k] + i
      BY <3>1, Zenon
    <3>3. s[k] = c.segs[k].start /\ i \in 1..Len(L[k])
      BY <2>0, Zenon
    <3> QED BY <3>2, <3>3, Zenon
  <2> QED BY <1>8, <2>1, <2>2, <2>3 DEF LogOf, n
<1> QED BY <1>5, <1>7, <1>10 DEF L

\* The events of the log are numbered from 0 on, all of one namespace.
LEMMA LogNumbered ==
  ASSUME NEW c \in Catalog, NEW L \in [1..Len(c.segs) -> Seq(Event)], OnDisk(c, L),
         NEW all, LogOf(c, L, all)
  PROVE  Abstract!Numbered(all)
<1>1. all \in Seq(Stamp) /\ DOMAIN all = 1..Len(all) /\ Len(all) \in Nat
  BY DEF LogOf
<1>2. ASSUME NEW j \in 1..Len(all)
      PROVE  all[j].seq = j - 1 /\ \E e \in AllEvents(L) : all[j].ns = e.ns
  <2>1. PICK k \in 1..Len(c.segs) : \E i \in 1..Len(L[k]) : j = c.segs[k].start + i
    BY DEF LogOf
  <2>2. PICK i \in 1..Len(L[k]) : j = c.segs[k].start + i
    BY <2>1
  <2>3. all[j] = StampOf(L[k][i])
    BY <2>2 DEF LogOf
  <2>4. L[k] \in Seq(Event) /\ L[k][i] \in Event /\ k \in DOMAIN L /\ c.segs[k].start \in Nat
    BY SegsType
  <2>5. L[k][i].seq = c.segs[k].start + i - 1
    <3>1. \A kk \in 1..Len(c.segs) : \A ii \in 1..Len(L[kk]) :
            L[kk][ii].seq = c.segs[kk].start + ii - 1
      <4>1. Chained(c, L)
        BY DEF OnDisk
      <4> QED BY <4>1 DEF Chained
    <3> QED BY <3>1, Zenon
  <2>6. L[k][i] \in AllEvents(L)
    BY <2>4 DEF AllEvents
  <2>7. all[j].seq = L[k][i].seq /\ all[j].ns = L[k][i].ns
    BY <2>3 DEF StampOf
  <2>8. all[j].seq = j - 1
    <3>1. PICK a : a = c.segs[k].start
      OBVIOUS
    <3>2. a \in Nat /\ j = a + i /\ all[j].seq = a + i - 1
      BY <2>2, <2>4, <2>5, <2>7, <3>1
    <3> QED BY <3>2
  <2> QED BY <2>6, <2>7, <2>8
<1>3. \A d, e \in AllEvents(L) : d.ns = e.ns
  BY DEF OnDisk
<1>4. ASSUME NEW j \in 1..Len(all) PROVE all[j].ns = all[1].ns
  <2>1. 1 \in 1..Len(all)
    BY <1>1
  <2> QED BY <1>2, <1>3, <2>1
<1> QED BY <1>1, <1>2, <1>4 DEF Abstract!Numbered

\* The segments of c are among those of d, and none of their events is lost.
Prolonged(c, L, d, M) ==
  \A k \in 1..Len(c.segs) :
    /\ k \in 1..Len(d.segs)
    /\ d.segs[k].start = c.segs[k].start
    /\ Len(L[k]) <= Len(M[k])
    /\ \A i \in 1..Len(L[k]) : M[k][i] = L[k][i]

\* When the files of the segments of a catalog grow, so does the log.
LEMMA LogProlonged ==
  ASSUME NEW c \in Catalog, NEW L \in [1..Len(c.segs) -> Seq(Event)], NEW all, LogOf(c, L, all),
         NEW d \in Catalog, NEW M \in [1..Len(d.segs) -> Seq(Event)], NEW more, LogOf(d, M, more),
         Prolonged(c, L, d, M)
  PROVE  Len(all) <= Len(more) /\ \A j \in 1..Len(all) : more[j] = all[j]
<1>1. Len(all) \in Nat /\ Len(more) \in Nat
  BY DEF LogOf
<1>2. ASSUME NEW j \in 1..Len(all) PROVE j \in 1..Len(more) /\ more[j] = all[j]
  <2>1. PICK k \in 1..Len(c.segs) : \E i \in 1..Len(L[k]) : j = c.segs[k].start + i
    BY DEF LogOf
  <2>2. PICK i \in 1..Len(L[k]) : j = c.segs[k].start + i
    BY <2>1
  <2>3. k \in 1..Len(d.segs) /\ d.segs[k].start = c.segs[k].start /\ Len(L[k]) <= Len(M[k])
        /\ M[k][i] = L[k][i]
    BY DEF Prolonged
  <2>4. i \in 1..Len(M[k])
    <3>1. Len(L[k]) \in Nat /\ Len(M[k]) \in Nat
      BY <2>3
    <3> QED BY <2>3, <3>1
  <2>5. all[j] = StampOf(L[k][i])
    BY <2>2 DEF LogOf
  <2>6. d.segs[k].start + i \in 1..Len(more) /\ more[d.segs[k].start + i] = StampOf(M[k][i])
    BY <2>3, <2>4 DEF LogOf
  <2> QED BY <2>2, <2>3, <2>5, <2>6
<1>3. Len(all) # 0 => Len(all) \in 1..Len(all)
  BY <1>1
<1> QED BY <1>1, <1>2, <1>3

-----------------------------------------------------------------------------
(* EventLog implements AbstractLog.                                        *)

\* A step keeps the segments it finds, and the sealed ones as they are.
LEMMA SegmentsKept ==
  ASSUME LogInv, LogInv', Grows, NEW F, NEW c, F = files', c = catalog'
  PROVE  /\ Prolonged(catalog, OnFile, c, Contents(c, F))
         /\ Follows(catalog, c)
<1>1. /\ catalog \in Catalog /\ CatalogOK(catalog, files) /\ Linked(catalog)
      /\ \A id \in DOMAIN files : files[id] \in File
  BY LogTypes DEF LogInv, DiskInv, OnDisk
<1>2. F = files' /\ c = catalog'
  OBVIOUS
<1>3. /\ c \in Catalog /\ CatalogOK(c, F) /\ \A id \in DOMAIN F : F[id] \in File
  BY <1>2 DEF LogInv, TypeInv, TypeOK
<1>4. Linked(c)
  BY <1>2 DEF LogInv, DiskInv, OnDisk
<1>5. PICK L, M : L = OnFile /\ M = Contents(c, F)
  OBVIOUS
<1>6. ASSUME NEW k \in 1..Len(catalog.segs)
      PROVE  /\ k \in 1..Len(c.segs)
             /\ c.segs[k].id = catalog.segs[k].id
             /\ c.segs[k].start = catalog.segs[k].start
             /\ Len(L[k]) <= Len(M[k])
             /\ \A i \in 1..Len(L[k]) : M[k][i] = L[k][i]
             /\ k # Len(catalog.segs) => c.segs[k] = catalog.segs[k]
  <2>1. k \in DOMAIN catalog.segs /\ catalog.segs[k].id \in DOMAIN files
    BY <1>1, SegsType DEF CatalogOK
  <2>2. /\ k \in DOMAIN c.segs /\ c.segs[k].id = catalog.segs[k].id
        /\ catalog.segs[k].id \in DOMAIN F
        /\ Extends(files[catalog.segs[k].id], F[catalog.segs[k].id])
    BY <1>2, <2>1 DEF Grows
  <2>3. k \in 1..Len(c.segs)
    BY <1>3, <2>2, SegsType
  <2>4. /\ c.segs[k].id = <<c.segs[k].start, k - 1>>
        /\ catalog.segs[k].id = <<catalog.segs[k].start, k - 1>>
    BY <1>1, <1>4, <2>3 DEF Linked
  <2>5. c.segs[k].start = catalog.segs[k].start
    <3>1. PICK a, b : a = c.segs[k].start /\ b = catalog.segs[k].start
      OBVIOUS
    <3>2. <<a, k - 1>> = <<b, k - 1>>
      BY <2>2, <2>4, <3>1
    <3>3. a = b
      BY <3>2
    <3> QED BY <3>1, <3>3
  <2>6. PICK old, new : /\ old = files[catalog.segs[k].id].lines
                        /\ new = F[catalog.segs[k].id].lines
    OBVIOUS
  <2>7. /\ old \in Seq(Line) /\ new \in Seq(Line)
        /\ L[k] = EventsOf(old) /\ M[k] = EventsOf(new)
    <3>1. old \in Seq(Line) /\ OnFile[k] = EventsOf(old)
      BY <1>1, <2>6, ContentsType DEF OnFile
    <3>2. new \in Seq(Line) /\ Contents(c, F)[k] = EventsOf(new)
      BY <1>3, <2>2, <2>3, <2>6, ContentsType
    <3> QED BY <1>5, <3>1, <3>2
  <2>8. Len(old) <= Len(new) /\ \A i \in DOMAIN old : new[i].ev = old[i].ev
    BY <2>2, <2>6, ExtendedEvents, ZenonT(40)
  <2>9. /\ Len(EventsOf(old)) = Len(old) /\ Len(EventsOf(new)) = Len(new)
        /\ \A i \in 1..Len(old) : EventsOf(old)[i] = old[i].ev
        /\ \A i \in 1..Len(new) : EventsOf(new)[i] = new[i].ev
    BY <2>7, EventsOfType
  <2>10. /\ DOMAIN old = 1..Len(old)
         /\ \A i \in 1..Len(old) : i \in 1..Len(new)
    BY <2>7, <2>8
  <2>11. k # Len(catalog.segs) => c.segs[k] = catalog.segs[k]
    <3>1. k # Len(catalog.segs) => catalog.segs[k].sealed
      BY <1>1 DEF Linked
    <3> QED BY <1>2, <2>1, <3>1 DEF Grows
  <2> QED BY <2>2, <2>3, <2>5, <2>7, <2>8, <2>9, <2>10, <2>11
<1>7. Prolonged(catalog, L, c, M)
  BY <1>6 DEF Prolonged
<1>8. Follows(catalog, c)
  <2>1. \A k \in 1..Len(catalog.segs) : k \in 1..Len(c.segs) => k <= Len(c.segs)
    BY <1>3, SegsType
  <2> QED BY <1>6, <2>1 DEF Follows
<1> QED BY <1>5, <1>7, <1>8

\* What a step does to the log is seen from the segments it adds lines to.
LEMMA DurableStep ==
  ASSUME LogInv, LogInv', Grows
  PROVE  /\ Durable \in Seq(Stamp) /\ LogOf(catalog, OnFile, Durable)
         /\ Abstract!StartsWith(Durable', Durable) /\ Abstract!Numbered(Durable')
<1>1. /\ catalog \in Catalog /\ CatalogOK(catalog, files) /\ Linked(catalog)
      /\ \A id \in DOMAIN files : files[id] \in File
      /\ OnDisk(catalog, OnFile) /\ Chained(catalog, OnFile)
  BY LogTypes DEF LogInv, DiskInv, OnDisk
<1>2. PICK F, c : F = files' /\ c = catalog'
  OBVIOUS
<1>3. /\ c \in Catalog /\ CatalogOK(c, F) /\ \A id \in DOMAIN F : F[id] \in File
  BY <1>2 DEF LogInv, TypeInv, TypeOK
<1>4. OnDisk(c, Contents(c, F)) /\ Chained(c, Contents(c, F)) /\ Linked(c)
  BY <1>2 DEF LogInv, DiskInv, OnDisk, OnFile
<1>5. Durable = Stitched(catalog, files) /\ Durable' = Stitched(c, F)
  BY <1>2 DEF Durable, Stitched, LinesAt
<1>6. LogOf(catalog, OnFile, Durable)
  BY <1>1, <1>5, StitchedIs DEF OnFile
<1>7. LogOf(c, Contents(c, F), Durable')
  BY <1>3, <1>4, <1>5, StitchedIs
<1>8. PICK L, M, all, more : /\ L = OnFile /\ M = Contents(c, F)
                             /\ all = Durable /\ more = Durable'
  OBVIOUS
<1>9. /\ L \in [1..Len(catalog.segs) -> Seq(Event)] /\ M \in [1..Len(c.segs) -> Seq(Event)]
  BY <1>1, <1>3, <1>8, ContentsType DEF OnFile
<1>10. Len(all) <= Len(more) /\ \A j \in 1..Len(all) : more[j] = all[j]
  <2>1. LogOf(catalog, L, all) /\ LogOf(c, M, more)
    BY <1>6, <1>7, <1>8
  <2>2. Prolonged(catalog, L, c, M)
    BY <1>2, <1>8, SegmentsKept
  <2> QED BY <1>1, <1>3, <1>9, <2>1, <2>2, LogProlonged
<1>11. Durable \in Seq(Stamp) /\ DOMAIN all = 1..Len(all)
  BY <1>6, <1>8 DEF LogOf
<1>12. Abstract!Numbered(more)
  <2>1. OnDisk(c, M) /\ LogOf(c, M, more)
    BY <1>4, <1>7, <1>8
  <2> QED BY <1>3, <1>9, <2>1, LogNumbered
<1>13. Abstract!StartsWith(more, all)
  BY <1>10, <1>11 DEF Abstract!StartsWith
<1> QED BY <1>6, <1>8, <1>11, <1>12, <1>13

\* What the log holds, event by event.
LEMMA LogHasEvents ==
  ASSUME NEW c \in Catalog, NEW L \in [1..Len(c.segs) -> Seq(Event)], NEW all, LogOf(c, L, all),
         NEW e \in AllEvents(L)
  PROVE  \E j \in DOMAIN all : all[j] = StampOf(e)
<1>1. PICK k \in 1..Len(c.segs) : \E i \in 1..Len(L[k]) : e = L[k][i]
  BY DEF AllEvents
<1>2. PICK i \in 1..Len(L[k]) : e = L[k][i]
  BY <1>1
<1>3. c.segs[k].start + i \in 1..Len(all) /\ all[c.segs[k].start + i] = StampOf(L[k][i])
  BY DEF LogOf
<1>4. DOMAIN all = 1..Len(all)
  BY DEF LogOf
<1> QED BY <1>2, <1>3, <1>4

LEMMA AbstractInit == Init => Abstract!Init
<1> SUFFICES ASSUME Init PROVE Abstract!Init
  OBVIOUS
<1>1. catalog.segs = << >> /\ acked = {}
  BY DEF Init, NewCatalog
<1>2. [k \in DOMAIN catalog.segs |-> StampsIn(LinesAt(k))] = << >>
  BY <1>1
<1>3. Durable = << >>
  BY <1>2 DEF Durable, FlattenSeq
<1>4. {StampOf(e) : e \in acked} = {}
  BY <1>1
<1> QED BY <1>3, <1>4 DEF Abstract!Init

\* Confirmations come from Unlock alone.
LEMMA AckedStep ==
  ASSUME [Next]_vars, acked' # acked
  PROVE  acked \subseteq acked' /\ UNCHANGED disk
<1>1. PICK w \in Writers : ReadTail(w) \/ Step(w) \/ Crash(w)
  BY DEF Next, vars
<1>2. Unlock(w)
  BY <1>1 DEF Step, ReadTail, Crash, BuildBatch, ReturnTail, ReadTailFails, AcquireLock,
      OpenLog, OpenFails, Reject, RollSegment, FlushRolled, WriteRolledCatalog, PutLine,
      PutLargeLine, Spill, FlushBatch, WriteCatalog, DropWriter, history
<1> QED BY <1>2 DEF Unlock

LEMMA AbstractStep ==
  ASSUME SafeInv, SafeInv', Grows, [Next]_vars
  PROVE  [Abstract!Next]_(Abstract!absvars)
<1> DEFINE confirmed == {StampOf(e) : e \in acked}
<1>1. /\ Durable \in Seq(Stamp) /\ LogOf(catalog, OnFile, Durable)
      /\ Abstract!StartsWith(Durable', Durable) /\ Abstract!Numbered(Durable')
  BY DurableStep DEF SafeInv
<1>2. CASE acked' = acked
  <2>1. confirmed' = confirmed
    BY <1>2
  <2>2. CASE Durable' = Durable
    BY <2>1, <2>2 DEF Abstract!absvars
  <2>3. CASE Durable' # Durable
    <3>1. Abstract!Extend
      BY <1>1, <2>1, <2>3 DEF Abstract!Extend
    <3> QED BY <3>1 DEF Abstract!Next
  <2> QED BY <2>2, <2>3
<1>3. CASE acked' # acked
  <2>1. acked \subseteq acked' /\ files' = files /\ catalog' = catalog
    BY <1>3, AckedStep DEF disk
  <2>2. Durable' = Durable /\ OnFile' = OnFile
    BY <2>1 DEF Durable, OnFile, LinesAt
  <2>3. acked' \subseteq AllEvents(OnFile)
    BY <2>2 DEF SafeInv, AckInv
  <2>4. catalog \in Catalog /\ OnFile \in [1..Len(catalog.segs) -> Seq(Event)]
    BY LogTypes DEF SafeInv, LogInv
  <2>5. \A e \in acked' : \E j \in DOMAIN Durable : Durable[j] = StampOf(e)
    BY <1>1, <2>3, <2>4, LogHasEvents
  <2>6. confirmed' = {StampOf(e) : e \in acked'}
    OBVIOUS
  <2>7. confirmed \subseteq confirmed'
    BY <2>1, <2>6
  <2>8. \A s \in confirmed' : Abstract!InLog(s)
    BY <2>5, <2>6 DEF Abstract!InLog
  <2>9. CASE confirmed' = confirmed
    BY <2>2, <2>9 DEF Abstract!absvars
  <2>10. CASE confirmed' # confirmed
    <3>1. Abstract!Confirm
      BY <2>2, <2>7, <2>8, <2>10 DEF Abstract!Confirm
    <3> QED BY <3>1 DEF Abstract!Next
  <2> QED BY <2>9, <2>10
<1> QED BY <1>2, <1>3

\* append_batch, with its rolls, flushes, errors and kills, is an append to one
\* sequence of events: every step leaves the log alone, adds numbered events of
\* one namespace at its end, or confirms events it has.
THEOREM LogRefinesAbstract == Spec => ImplementsAbstractLog
<1>1. SafeInv /\ [Next]_vars => SafeInv' /\ Grows
  BY NextSafeInv
<1>2. SafeInv /\ SafeInv' /\ Grows /\ [Next]_vars => [Abstract!Next]_(Abstract!absvars)
  BY AbstractStep
<1>3. SafeInv /\ [Next]_vars => SafeInv' /\ [Abstract!Next]_(Abstract!absvars)
  BY <1>1, <1>2
<1> QED BY <1>3, AbstractInit, InitSafeInv, PTL DEF Spec, ImplementsAbstractLog, Abstract!Spec

-----------------------------------------------------------------------------
(* Segments in the order of their sequence numbers.                        *)

\* ordered_segments leaves segments alone that are in order.
LEMMA OrderedIs ==
  ASSUME NEW c \in Catalog,
         \A i, j \in 1..Len(c.segs) : i < j => c.segs[i].start <= c.segs[j].start
  PROVE  Ordered(c) = c.segs
<1> DEFINE n == Len(c.segs)
           earlier(k) == {j \in 1..n : \/ c.segs[j].start < c.segs[k].start
                                       \/ c.segs[j].start = c.segs[k].start /\ j < k}
           at(i) == CHOOSE k \in 1..n : Cardinality(earlier(k)) = i - 1
<1>1. n \in Nat /\ DOMAIN c.segs = 1..n /\ \A k \in 1..n : c.segs[k].start \in Nat
  BY SegsType
<1>2. ASSUME NEW k \in 1..n PROVE Cardinality(earlier(k)) = k - 1
  <2>1. ASSUME NEW j \in 1..n PROVE j \in earlier(k) <=> j < k
    <3>1. c.segs[j].start \in Nat /\ c.segs[k].start \in Nat
      BY <1>1
    <3>2. j < k => c.segs[j].start <= c.segs[k].start
      OBVIOUS
    <3>3. k < j => c.segs[k].start <= c.segs[j].start
      OBVIOUS
    <3> QED BY <3>1, <3>2, <3>3
  <2>2. earlier(k) = 1..(k - 1)
    BY <1>1, <2>1
  <2>3. 1 \in Int /\ k - 1 \in Int /\ (1 > k - 1 => k - 1 = 0) /\ (k - 1) - 1 + 1 = k - 1
    BY <1>1
  <2>4. Cardinality(1..(k - 1)) = IF 1 > k - 1 THEN 0 ELSE (k - 1) - 1 + 1
    BY <2>3, FS_Interval
  <2> QED BY <2>2, <2>3, <2>4
<1> HIDE DEF earlier
<1>3. ASSUME NEW i \in 1..n PROVE at(i) = i
  <2>1. \A k \in 1..n : Cardinality(earlier(k)) = i - 1 <=> k = i
    BY <1>2
  <2> QED BY <2>1
<1>4. Ordered(c) = [i \in 1..n |-> c.segs[at(i)]]
  BY <1>1 DEF Ordered, earlier
<1> HIDE DEF at
<1>5. Ordered(c) = [i \in 1..n |-> c.segs[i]]
  BY <1>3, <1>4
<1>6. c.segs = [i \in 1..n |-> c.segs[i]]
  BY <1>1 DEF Catalog
<1> QED BY <1>5, <1>6

\* Segments start in the order the catalog has them.
LEMMA StartsOrdered ==
  ASSUME NEW c \in Catalog, NEW L \in [1..Len(c.segs) -> Seq(Event)], Chained(c, L)
  PROVE  \A i, j \in 1..Len(c.segs) : i <= j => c.segs[i].start <= c.segs[j].start
<1> DEFINE n == Len(c.segs)
           start(k) == c.segs[k].start
           T == {m \in Nat : m \in 1..n => \A i \in 1..n : i <= m => start(i) <= start(m)}
<1>1. n \in Nat /\ \A k \in 1..n : start(k) \in Nat
  BY SegsType
<1>2. \A k \in 1..n : k # 1 => start(k) = start(k - 1) + Len(L[k - 1])
  BY DEF Chained
<1>3. \A k \in 1..n : Len(L[k]) \in Nat
  OBVIOUS
<1> HIDE DEF n, start
<1>4. 0 \in T
  OBVIOUS
<1>5. ASSUME NEW m \in Nat, m \in T PROVE m + 1 \in T
  <2> SUFFICES ASSUME m + 1 \in 1..n, NEW i \in 1..n, i <= m + 1 PROVE start(i) <= start(m + 1)
    OBVIOUS
  <2>1. CASE i = m + 1
    BY <1>1, <2>1
  <2>2. CASE i # m + 1
    <3>1. m \in 1..n /\ i <= m /\ m + 1 # 1 /\ (m + 1) - 1 = m
      BY <1>1, <2>2
    <3>2. start(i) <= start(m)
      BY <1>5, <3>1
    <3>3. start(m + 1) = start(m) + Len(L[m])
      BY <1>2, <3>1
    <3>4. PICK x, y, z, l : x = start(i) /\ y = start(m) /\ z = start(m + 1) /\ l = Len(L[m])
      OBVIOUS
    <3>5. x \in Nat /\ y \in Nat /\ z \in Nat /\ l \in Nat
      BY <1>1, <1>3, <3>1, <3>4
    <3>6. x <= y /\ z = y + l
      BY <3>2, <3>3, <3>4
    <3>7. x <= z
      BY <3>5, <3>6
    <3> QED BY <3>4, <3>7
  <2> QED BY <2>1, <2>2
<1> HIDE DEF T
<1>6. \A m \in Nat : m \in T
  BY <1>4, <1>5, NumberInduction
<1>7. \A i, j \in 1..n : i <= j => start(i) <= start(j)
  <2>1. \A j \in 1..n : j \in Nat
    OBVIOUS
  <2> QED BY <1>6, <2>1 DEF T
<1> QED BY <1>7 DEF n, start

-----------------------------------------------------------------------------
(* A load without the lock.  What makes its properties inductive is that a *)
(* reader's catalog stays a beginning of the catalog on disk, that it has  *)
(* read exactly the events before the segment it is at, and that its last  *)
(* segment held the end of the log when it began.                          *)

\* The end of segment n of the catalog on disk.
EndOf(n) == IF n = 0 THEN 0 ELSE catalog.segs[n].start + Len(OnFile[n])

\* What lets a load fail (the conclusion of LoadSucceeds).
Excused ==
  \/ \E k \in DOMAIN catalog.segs : ~Parses(LinesAt(k))
  \/ Len(catalog.segs) > 1 /\ LinesAt(1) = << >>

ListInv(r) ==
  rpc[r] \in {"tail", "segments"} =>
    /\ rcat[r].active = Len(rcat[r].segs)
    /\ Follows(rcat[r], catalog)
    /\ floor[r] <= EndOf(Len(rcat[r].segs))

ReadInv(r) ==
  /\ rpc[r] \in {"idle", "tail"} => rpos[r] = 1 /\ got[r] = << >>
  /\ rpc[r] = "segments" =>
       /\ rpos[r] \in 1..(Len(rcat[r].segs) + 1)
       /\ rpos[r] \in 1..Len(rcat[r].segs) => Len(got[r]) = catalog.segs[rpos[r]].start
       /\ rpos[r] = Len(rcat[r].segs) + 1 => Len(got[r]) >= floor[r]
  /\ rpc[r] \in {"segments", "done"} => Abstract!StartsWith(Durable, got[r])
  /\ rpc[r] = "done" => Len(got[r]) >= floor[r]
  /\ rpc[r] = "failed" => Excused

ReadersInv ==
  /\ SafeInv
  /\ ReadersTypeOK
  /\ \A r \in Readers : ListInv(r) /\ ReadInv(r)

\* What lets a load fail lets it fail from then on: nobody completes a line that
\* has another one behind it, and the first segment stays empty once sealed.
LEMMA ExcuseStays ==
  ASSUME LogInv, LogInv', Grows, Excused
  PROVE  Excused'
<1>1. PICK F, c : F = files' /\ c = catalog'
  OBVIOUS
<1>2. /\ c \in Catalog /\ CatalogOK(c, F) /\ \A id \in DOMAIN F : F[id] \in File
  BY <1>1 DEF LogInv, TypeInv, TypeOK
<1>3. /\ catalog \in Catalog /\ CatalogOK(catalog, files) /\ Linked(catalog)
      /\ \A id \in DOMAIN files : files[id] \in File
      /\ Len(catalog.segs) \in Nat /\ DOMAIN catalog.segs = 1..Len(catalog.segs)
      /\ Len(c.segs) \in Nat /\ DOMAIN c.segs = 1..Len(c.segs)
  BY <1>2, LogTypes, SegsType DEF LogInv, DiskInv, OnDisk
<1>4. \A k \in DOMAIN catalog.segs :
        /\ k \in DOMAIN c.segs /\ c.segs[k].id = catalog.segs[k].id
        /\ catalog.segs[k].id \in DOMAIN F
        /\ Extends(files[catalog.segs[k].id], F[catalog.segs[k].id])
        /\ catalog.segs[k].sealed => F[catalog.segs[k].id] = files[catalog.segs[k].id]
  BY <1>1 DEF Grows
<1>5. ASSUME NEW k \in DOMAIN catalog.segs, ~Parses(LinesAt(k))
      PROVE  ~Parses(F[c.segs[k].id].lines)
  <2>1. PICK old, new : /\ old = files[catalog.segs[k].id].lines
                        /\ new = F[catalog.segs[k].id].lines
    OBVIOUS
  <2>2. old \in Seq(Line) /\ new \in Seq(Line)
    BY <1>2, <1>3, <1>4, <2>1 DEF CatalogOK, File
  <2>3. PICK i \in DOMAIN old : i < Len(old) /\ ~old[i].nl
    BY <1>5, <2>1 DEF LinesAt, Parses
  <2>4. /\ Len(old) <= Len(new)
        /\ new[i] = old[i] \/ i = Len(old)
    BY <1>4, <2>1, <2>3 DEF Extends
  <2>5. i \in DOMAIN new /\ i < Len(new) /\ i # Len(old)
    BY <2>2, <2>3, <2>4
  <2>6. ~new[i].nl
    BY <2>3, <2>4, <2>5, Zenon
  <2>7. c.segs[k].id = catalog.segs[k].id
    BY <1>4
  <2> QED BY <2>1, <2>5, <2>6, <2>7 DEF Parses
<1>6. ASSUME Len(catalog.segs) > 1, LinesAt(1) = << >>
      PROVE  Len(c.segs) > 1 /\ F[c.segs[1].id].lines = << >>
  <2>1. 1 \in DOMAIN catalog.segs /\ Len(catalog.segs) \in DOMAIN catalog.segs
        /\ 1 \in 1..Len(catalog.segs) /\ 1 # Len(catalog.segs)
    <3>1. PICK n : n = Len(catalog.segs)
      OBVIOUS
    <3>2. n \in Nat /\ n > 1 /\ DOMAIN catalog.segs = 1..n
      BY <1>3, <1>6, <3>1
    <3>3. 1 \in 1..n /\ n \in 1..n /\ 1 # n
      BY <3>2
    <3> QED BY <3>1, <3>2, <3>3
  <2>2. PICK k : k = 1
    OBVIOUS
  <2>3. F[c.segs[1].id].lines = << >>
    <3>1. k \in DOMAIN catalog.segs /\ k \in 1..Len(catalog.segs) /\ k # Len(catalog.segs)
      BY <2>1, <2>2
    <3>2. catalog.segs[k].sealed
      BY <1>3, <3>1, Zenon DEF Linked
    <3>3. F[catalog.segs[k].id] = files[catalog.segs[k].id] /\ c.segs[k].id = catalog.segs[k].id
      BY <1>4, <3>1, <3>2, Zenon
    <3> QED BY <1>6, <2>2, <3>3 DEF LinesAt
  <2>4. Len(c.segs) > 1
    BY <1>3, <1>4, <1>6, <2>1
  <2> QED BY <2>3, <2>4
<1> QED BY <1>1, <1>4, <1>5, <1>6 DEF Excused, LinesAt

\* A writer's step leaves a load what it has: the log it reads only grows.
LEMMA WriterKeepsReader ==
  ASSUME LogInv, LogInv', Grows, ReadersTypeOK, UNCHANGED rvars,
         NEW r \in Readers, ListInv(r), ReadInv(r)
  PROVE  ListInv(r)' /\ ReadInv(r)'
<1>1. PICK F, c, b : F = files' /\ c = catalog' /\ b = rcat[r]
  OBVIOUS
<1>2. PICK L, M : L = OnFile /\ M = Contents(c, F)
  OBVIOUS
<1>3. /\ Prolonged(catalog, L, c, M) /\ Follows(catalog, c) /\ OnFile' = M
  BY <1>1, <1>2, SegmentsKept DEF OnFile
<1>4. /\ catalog \in Catalog /\ L \in [1..Len(catalog.segs) -> Seq(Event)]
      /\ c \in Catalog /\ CatalogOK(c, F) /\ \A id \in DOMAIN F : F[id] \in File
  BY <1>1, <1>2, LogTypes DEF LogInv, TypeInv, TypeOK
<1>5. M \in [1..Len(c.segs) -> Seq(Event)]
  BY <1>2, <1>4, ContentsType
<1>6. b \in Catalog /\ Len(b.segs) \in Nat /\ Len(c.segs) \in Nat /\ Len(catalog.segs) \in Nat
  BY <1>1, <1>4, SegsType DEF ReadersTypeOK
<1>7. /\ rpc'[r] = rpc[r] /\ rcat'[r] = b /\ rpos'[r] = rpos[r] /\ got'[r] = got[r]
      /\ floor'[r] = floor[r] /\ floor[r] \in Nat /\ got[r] \in Seq(Stamp)
  BY <1>1 DEF rvars, ReadersTypeOK
<1>8. ASSUME Follows(b, catalog)
      PROVE  /\ Follows(b, c)
             /\ \A k \in 1..Len(b.segs) :
                  k \in 1..Len(catalog.segs) /\ c.segs[k].start = catalog.segs[k].start
  <2>1. ASSUME NEW k \in 1..Len(b.segs)
        PROVE  /\ k \in 1..Len(catalog.segs) /\ k <= Len(c.segs)
               /\ c.segs[k].id = b.segs[k].id /\ c.segs[k].start = b.segs[k].start
               /\ c.segs[k].start = catalog.segs[k].start
               /\ k # Len(b.segs) => c.segs[k] = b.segs[k]
    <3>1. /\ k <= Len(catalog.segs) /\ catalog.segs[k].id = b.segs[k].id
          /\ catalog.segs[k].start = b.segs[k].start
          /\ k # Len(b.segs) => catalog.segs[k] = b.segs[k]
      BY <1>8 DEF Follows
    <3>2. k \in 1..Len(catalog.segs)
      BY <1>6, <3>1
    <3>3. /\ k <= Len(c.segs) /\ c.segs[k].id = catalog.segs[k].id
          /\ c.segs[k].start = catalog.segs[k].start
          /\ k # Len(catalog.segs) => c.segs[k] = catalog.segs[k]
      BY <1>3, <3>2 DEF Follows
    <3>4. k # Len(b.segs) => k # Len(catalog.segs)
      <4>1. Len(b.segs) # 0 => Len(b.segs) \in 1..Len(b.segs)
        BY <1>6
      <4>2. Len(b.segs) # 0 => Len(b.segs) <= Len(catalog.segs)
        BY <1>8, <4>1 DEF Follows
      <4> QED BY <1>6, <4>2
    <3> QED BY <3>1, <3>2, <3>3, <3>4
  <2> QED BY <2>1 DEF Follows
<1>9. ASSUME NEW n \in Nat, n <= Len(catalog.segs), floor[r] <= EndOf(n)
      PROVE  floor[r] <= EndOf(n)'
  <2>1. CASE n = 0
    BY <1>9, <2>1 DEF EndOf
  <2>2. CASE n # 0
    <3>1. n \in 1..Len(catalog.segs)
      BY <1>6, <1>9, <2>2
    <3>2. n \in 1..Len(c.segs) /\ c.segs[n].start = catalog.segs[n].start /\ Len(L[n]) <= Len(M[n])
      BY <1>3, <3>1 DEF Prolonged
    <3>3. EndOf(n) = catalog.segs[n].start + Len(L[n])
      BY <1>2, <2>2 DEF EndOf
    <3>4. EndOf(n)' = c.segs[n].start + Len(M[n])
      BY <1>1, <1>3, <2>2 DEF EndOf
    <3>5. PICK x, y, z : x = catalog.segs[n].start /\ y = Len(L[n]) /\ z = Len(M[n])
      OBVIOUS
    <3>6. x \in Nat /\ y \in Nat /\ z \in Nat /\ y <= z /\ floor[r] <= x + y
      BY <1>4, <1>5, <1>9, <3>1, <3>2, <3>3, <3>5, SegsType
    <3>7. floor[r] <= x + z
      BY <1>7, <3>6
    <3> QED BY <3>2, <3>4, <3>5, <3>7
  <2> QED BY <2>1, <2>2
<1>10. ListInv(r)'
  <2> SUFFICES ASSUME rpc[r] \in {"tail", "segments"}
               PROVE  /\ b.active = Len(b.segs) /\ Follows(b, c) /\ floor[r] <= EndOf(Len(b.segs))'
    BY <1>1, <1>7 DEF ListInv
  <2>1. b.active = Len(b.segs) /\ Follows(b, catalog) /\ floor[r] <= EndOf(Len(b.segs))
    BY <1>1 DEF ListInv
  <2>2. Len(b.segs) <= Len(catalog.segs)
    <3>1. Len(b.segs) # 0 => Len(b.segs) \in 1..Len(b.segs)
      BY <1>6
    <3> QED BY <1>6, <2>1, <3>1 DEF Follows
  <2>3. PICK n : n = Len(b.segs)
    OBVIOUS
  <2>4. floor[r] <= EndOf(n)'
    BY <1>6, <1>9, <2>1, <2>2, <2>3
  <2> QED BY <1>8, <2>1, <2>3, <2>4
<1>11. rpc[r] \in {"segments", "done"} => Abstract!StartsWith(Durable', got[r])
  <2> SUFFICES ASSUME Abstract!StartsWith(Durable, got[r])
               PROVE  Abstract!StartsWith(Durable', got[r])
    BY DEF ReadInv
  <2>1. Abstract!StartsWith(Durable', Durable) /\ Durable \in Seq(Stamp)
    BY DurableStep
  <2>2. PICK s, t, u : s = got[r] /\ t = Durable /\ u = Durable'
    OBVIOUS
  <2>3. /\ Len(s) <= Len(t) /\ \A i \in DOMAIN s : t[i] = s[i]
        /\ Len(t) <= Len(u) /\ \A i \in DOMAIN t : u[i] = t[i]
    BY <2>1, <2>2 DEF Abstract!StartsWith
  <2>4. s \in Seq(Stamp) /\ t \in Seq(Stamp) /\ Len(u) \in Nat
    <3>1. LogInv' => LogOf(c, M, u)
      <4>1. LogInv' => Chained(c, M)
        BY <1>1, <1>3 DEF LogInv, DiskInv, OnDisk
      <4>2. u = Stitched(c, F)
        BY <1>1, <2>2 DEF Durable, Stitched, LinesAt
      <4> QED BY <1>2, <1>4, <4>1, <4>2, StitchedIs
    <3> QED BY <1>7, <2>1, <2>2, <3>1 DEF LogOf
  <2>5. Len(s) <= Len(u) /\ \A i \in DOMAIN s : u[i] = s[i]
    <3>1. \A i \in DOMAIN s : i \in DOMAIN t
      BY <2>3, <2>4
    <3>2. Len(s) <= Len(u)
      BY <2>3, <2>4
    <3> QED BY <2>3, <3>1, <3>2
  <2> QED BY <2>2, <2>5 DEF Abstract!StartsWith
<1>12. rpc[r] = "failed" => Excused'
  BY ExcuseStays DEF ReadInv
<1>13. rpc[r] = "segments" =>
         /\ rpos[r] \in 1..(Len(b.segs) + 1)
         /\ rpos[r] \in 1..Len(b.segs) => Len(got[r]) = c.segs[rpos[r]].start
         /\ rpos[r] = Len(b.segs) + 1 => Len(got[r]) >= floor[r]
  <2> SUFFICES ASSUME rpc[r] = "segments"
               PROVE  /\ rpos[r] \in 1..(Len(b.segs) + 1)
                      /\ rpos[r] \in 1..Len(b.segs) => Len(got[r]) = c.segs[rpos[r]].start
                      /\ rpos[r] = Len(b.segs) + 1 => Len(got[r]) >= floor[r]
    OBVIOUS
  <2>1. Follows(b, catalog)
    BY <1>1 DEF ListInv
  <2>2. /\ rpos[r] \in 1..(Len(b.segs) + 1)
        /\ rpos[r] \in 1..Len(b.segs) => Len(got[r]) = catalog.segs[rpos[r]].start
        /\ rpos[r] = Len(b.segs) + 1 => Len(got[r]) >= floor[r]
    BY <1>1 DEF ReadInv
  <2> QED BY <1>8, <2>1, <2>2
<1>14. /\ rpc[r] \in {"idle", "tail"} => rpos[r] = 1 /\ got[r] = << >>
       /\ rpc[r] = "done" => Len(got[r]) >= floor[r]
  BY DEF ReadInv
<1>15. ReadInv(r)'
  BY <1>1, <1>7, <1>11, <1>12, <1>13, <1>14 DEF ReadInv
<1> QED BY <1>10, <1>15

-----------------------------------------------------------------------------
(* The steps of a load.                                                    *)

\* The log on disk, as a sequence cut into segments.
LEMMA DurableIs ==
  ASSUME LogInv
  PROVE  LogOf(catalog, OnFile, Durable)
<1>1. /\ catalog \in Catalog /\ CatalogOK(catalog, files)
      /\ \A id \in DOMAIN files : files[id] \in File
      /\ Chained(catalog, OnFile)
  BY LogTypes DEF LogInv, DiskInv, OnDisk
<1>2. Durable = Stitched(catalog, files)
  BY DEF Durable, Stitched, LinesAt
<1> QED BY <1>1, <1>2, StitchedIs DEF OnFile

\* A step of a reader leaves the disk alone, and with it what is said of it.
LEMMA DiskSame ==
  ASSUME UNCHANGED vars
  PROVE  /\ Durable' = Durable
         /\ Excused' <=> Excused
         /\ \A n : EndOf(n)' = EndOf(n)
<1>1. files' = files /\ catalog' = catalog
  BY DEF vars
<1>2. OnFile' = OnFile
  BY <1>1 DEF OnFile
<1>3. Excused' <=> Excused
  BY <1>1 DEF Excused, LinesAt
<1>4. Durable' = Durable
  BY <1>1 DEF Durable, LinesAt
<1>5. \A n : EndOf(n)' = EndOf(n)
  BY <1>1, <1>2 DEF EndOf
<1> QED BY <1>3, <1>4, <1>5

\* Whatever else the step of a reader does, it leaves the other ones alone.
LEMMA OtherReader ==
  ASSUME UNCHANGED vars, NEW q \in Readers, ListInv(q), ReadInv(q),
         rpc'[q] = rpc[q], rcat'[q] = rcat[q], rpos'[q] = rpos[q],
         got'[q] = got[q], floor'[q] = floor[q]
  PROVE  ListInv(q)' /\ ReadInv(q)'
<1>1. catalog' = catalog
  BY DEF vars
<1>2. Durable' = Durable /\ (Excused' <=> Excused) /\ \A n : EndOf(n)' = EndOf(n)
  BY DiskSame
<1>3. ListInv(q)'
  <2>1. EndOf(Len(rcat[q].segs))' = EndOf(Len(rcat'[q].segs))
    BY <1>1, <1>2 DEF EndOf
  <2> QED BY <1>1, <1>2, <2>1 DEF ListInv
<1>4. ReadInv(q)'
  BY <1>1, <1>2 DEF ReadInv
<1> QED BY <1>3, <1>4

\* What a load gets when it reads the catalog: the one on disk, and with it all
\* of the log there is.
LEMMA StartLoadInv ==
  ASSUME SafeInv, ReadersTypeOK, UNCHANGED vars, NEW r \in Readers, ListInv(r), ReadInv(r),
         StartLoad(r)
  PROVE  ReadersTypeOK' /\ ListInv(r)' /\ ReadInv(r)'
<1> DEFINE n == Len(catalog.segs)
<1>1. /\ catalog \in Catalog /\ n \in Nat /\ catalog.active = n /\ LogInv
  BY LogTypes DEF SafeInv, LogInv, DiskInv, OnDisk, Linked
<1>2. LogOf(catalog, OnFile, Durable)
  BY <1>1, DurableIs
<1>3. Len(Durable) \in Nat /\ Len(Durable) = EndOf(n)
  <2>1. Durable \in Seq(Stamp) /\ Len(Durable) = EndOf(n)
    BY <1>2 DEF LogOf, EndOf
  <2>2. Len(Durable) \in Nat
    BY <2>1
  <2> QED BY <2>1, <2>2
<1>4. /\ rpc' = [rpc EXCEPT ![r] = "tail"] /\ rcat' = [rcat EXCEPT ![r] = catalog]
      /\ floor' = [floor EXCEPT ![r] = Len(Durable)] /\ rpos' = rpos /\ got' = got
      /\ rpc[r] = "idle" /\ catalog' = catalog
  BY DEF StartLoad, RGoto, vars
<1>5. ReadersTypeOK'
  BY <1>1, <1>3, <1>4 DEF ReadersTypeOK
<1>6. /\ rpc'[r] = "tail" /\ rcat'[r] = catalog /\ floor'[r] = Len(Durable)
      /\ rpos'[r] = 1 /\ got'[r] = << >>
  BY <1>4 DEF ReadersTypeOK, ReadInv
<1>7. Follows(catalog, catalog)
  BY <1>1 DEF Follows
<1>8. EndOf(Len(rcat[r].segs))' = EndOf(n)
  <2>1. OnFile' = OnFile
    BY DEF vars, OnFile
  <2> QED BY <1>4, <1>6, <2>1 DEF EndOf
<1>9. ListInv(r)'
  <2>1. Len(Durable) <= EndOf(n)
    BY <1>3
  <2> QED BY <1>1, <1>4, <1>6, <1>7, <1>8, <2>1 DEF ListInv
<1>10. ReadInv(r)'
  BY <1>6 DEF ReadInv
<1> QED BY <1>5, <1>9, <1>10

\* A catalog that a load has in memory, with its last entry brought up to date,
\* has its segments in the order of the catalog on disk.
LEMMA HeldCatalog ==
  ASSUME LogInv, NEW c \in Catalog, c.active = Len(c.segs), Follows(c, catalog),
         NEW q, q = Reconcile(c, files)
  PROVE  /\ CatalogOK(c, files) /\ Len(c.segs) <= Len(catalog.segs)
         /\ q \in Catalog /\ q.active = Len(q.segs) /\ Len(q.segs) = Len(c.segs)
         /\ Follows(q, catalog)
         /\ Ordered(q) = q.segs
<1>1. /\ catalog \in Catalog /\ Chained(catalog, OnFile)
      /\ \A id \in DOMAIN files : files[id] \in File
      /\ OnFile \in [1..Len(catalog.segs) -> Seq(Event)]
      /\ \A k \in 1..Len(catalog.segs) : catalog.segs[k].id \in DOMAIN files
  BY LogTypes DEF LogInv, DiskInv, OnDisk
<1>2. /\ Len(c.segs) \in Nat /\ DOMAIN c.segs = 1..Len(c.segs) /\ Len(catalog.segs) \in Nat
  BY <1>1, SegsType
<1>3. \A k \in 1..Len(c.segs) : k \in 1..Len(catalog.segs) /\ c.segs[k].id = catalog.segs[k].id
  BY <1>2 DEF Follows
<1>4. CatalogOK(c, files)
  <2>1. c.active \in 0..Len(c.segs)
    BY <1>2
  <2> QED BY <1>1, <1>2, <1>3, <2>1 DEF CatalogOK
<1>5. /\ q \in Catalog /\ Len(q.segs) = Len(c.segs) /\ q.active = c.active
      /\ \A k \in 1..Len(c.segs) : /\ q.segs[k].id = c.segs[k].id
                                   /\ q.segs[k].start = c.segs[k].start
                                   /\ k # Len(c.segs) => q.segs[k] = c.segs[k]
  BY <1>1, <1>4, ReconcileKeeps
<1>6. Follows(q, catalog)
  BY <1>5 DEF Follows
<1>7. \A i, j \in 1..Len(q.segs) : i < j => q.segs[i].start <= q.segs[j].start
  <2>1. \A i, j \in 1..Len(catalog.segs) :
          i <= j => catalog.segs[i].start <= catalog.segs[j].start
    BY <1>1, StartsOrdered
  <2>2. \A k \in 1..Len(q.segs) : k \in 1..Len(catalog.segs)
                                  /\ q.segs[k].start = catalog.segs[k].start
    BY <1>3, <1>5, <1>6 DEF Follows
  <2> QED BY <2>1, <2>2
<1>8. Ordered(q) = q.segs
  BY <1>5, <1>7, OrderedIs
<1>9. Len(c.segs) <= Len(catalog.segs)
  <2>1. Len(c.segs) # 0 => Len(c.segs) \in 1..Len(c.segs)
    BY <1>2
  <2> QED BY <1>2, <1>3, <2>1
<1> QED BY <1>4, <1>5, <1>6, <1>8, <1>9

\* The scan of the active segment: it finds what the catalog on disk says of the
\* segments it has in memory.
LEMMA ScanTailInv ==
  ASSUME SafeInv, ReadersTypeOK, UNCHANGED vars, NEW r \in Readers, ListInv(r), ReadInv(r),
         ScanTail(r)
  PROVE  ReadersTypeOK' /\ ListInv(r)' /\ ReadInv(r)'
<1> DEFINE b == rcat[r]
           q == Reconcile(b, files)
           n == Len(q.segs)
<1>1. /\ b \in Catalog /\ b.active = Len(b.segs) /\ Follows(b, catalog)
      /\ floor[r] <= EndOf(Len(b.segs)) /\ floor[r] \in Nat
      /\ rpos[r] = 1 /\ got[r] = << >>
  BY DEF ScanTail, ListInv, ReadInv, ReadersTypeOK
<1>2. /\ Len(b.segs) <= Len(catalog.segs)
      /\ q \in Catalog /\ q.active = n /\ n = Len(b.segs)
      /\ Follows(q, catalog)
      /\ Ordered(q) = q.segs
  <2> HIDE DEF b, q
  <2>1. PICK c, d : c = b /\ d = q
    OBVIOUS
  <2>2. d = Reconcile(c, files)
    BY <2>1 DEF q
  <2> QED BY <1>1, <2>1, <2>2, HeldCatalog DEF SafeInv
<1>3. rcat' = [rcat EXCEPT ![r] = q]
  <2>1. rcat' = [rcat EXCEPT ![r] = [q EXCEPT !.segs = Ordered(q)]]
    BY DEF ScanTail
  <2> HIDE DEF q, b
  <2>2. [q EXCEPT !.segs = q.segs] = q
    BY <1>2 DEF Catalog
  <2> QED BY <1>2, <2>1, <2>2
<1> HIDE DEF q
<1>4. /\ rpc' = [rpc EXCEPT ![r] = "segments"] /\ rpos' = rpos /\ got' = got /\ floor' = floor
      /\ catalog' = catalog
  BY DEF ScanTail, RGoto, vars
<1>5. ReadersTypeOK'
  BY <1>2, <1>3, <1>4 DEF ReadersTypeOK
<1>6. rpc'[r] = "segments" /\ rcat'[r] = q /\ rpos'[r] = 1 /\ got'[r] = << >>
      /\ floor'[r] = floor[r]
  BY <1>1, <1>3, <1>4 DEF ReadersTypeOK
<1>7. OnFile' = OnFile /\ Durable' = Durable
  BY DiskSame DEF vars, OnFile
<1>8. EndOf(Len(rcat[r].segs))' = EndOf(n)
  BY <1>4, <1>6, <1>7 DEF EndOf
<1>9. ListInv(r)'
  BY <1>1, <1>2, <1>4, <1>6, <1>8 DEF ListInv
<1>10. /\ 1 \in 1..(n + 1)
       /\ 1 \in 1..n => Len(<< >>) = catalog.segs[1].start
       /\ 1 = n + 1 => Len(<< >>) >= floor[r]
  <2>1. n \in Nat /\ n <= Len(catalog.segs) /\ Len(catalog.segs) \in Nat
    <3>1. catalog \in Catalog
      BY LogTypes DEF SafeInv, LogInv
    <3> QED BY <1>2, <3>1, SegsType
  <2>2. 1 \in 1..n => catalog.segs[1].start = 0
    <3>1. Chained(catalog, OnFile)
      BY DEF SafeInv, LogInv, DiskInv, OnDisk
    <3>2. 1 \in 1..n => 1 \in 1..Len(catalog.segs)
      BY <2>1
    <3> QED BY <3>1, <3>2 DEF Chained
  <2>3. n = 0 => floor[r] <= 0
    BY <1>1, <1>2 DEF EndOf
  <2> QED BY <1>1, <2>1, <2>2, <2>3
<1>11. Abstract!StartsWith(Durable, << >>)
  <2>1. Durable \in Seq(Stamp)
    BY DurableIs DEF SafeInv, LogOf
  <2>2. Len(<< >>) <= Len(Durable) /\ DOMAIN << >> = {}
    BY <2>1
  <2> QED BY <2>2 DEF Abstract!StartsWith
<1>12. ReadInv(r)'
  BY <1>4, <1>6, <1>7, <1>10, <1>11 DEF ReadInv
<1> QED BY <1>5, <1>9, <1>12

\* Only an empty first segment in front of another lets segments overlap: a
\* sealed segment with events ends right before the next one.
LEMMA OverlapExcused ==
  ASSUME LogInv, NEW q \in Catalog, Follows(q, catalog), Len(q.segs) <= Len(catalog.segs),
         ~Disjoint(q.segs)
  PROVE  Excused
<1>1. PICK L : L = OnFile
  OBVIOUS
<1>2. /\ catalog \in Catalog /\ L \in [1..Len(catalog.segs) -> Seq(Event)]
      /\ Chained(catalog, L) /\ OnDisk(catalog, L)
      /\ Len(catalog.segs) \in Nat /\ Len(q.segs) \in Nat /\ DOMAIN q.segs = 1..Len(q.segs)
      /\ \A k \in 1..Len(catalog.segs) : catalog.segs[k].start \in Nat
  BY <1>1, LogTypes, SegsType DEF LogInv, DiskInv, OnDisk
<1>3. PICK k \in 1..Len(q.segs) : k > 1 /\ ~(q.segs[k].start > q.segs[k - 1].end)
  BY <1>2 DEF Disjoint
<1>4. PICK j : j = k - 1
  OBVIOUS
<1>5. /\ j \in 1..Len(q.segs) /\ j # Len(q.segs) /\ j \in 1..Len(catalog.segs)
      /\ k \in 1..Len(catalog.segs) /\ j # Len(catalog.segs) /\ k # 1 /\ k - 1 = j
      /\ Len(catalog.segs) > 1 /\ 1 \in 1..Len(catalog.segs) /\ 2 \in 1..Len(catalog.segs)
      /\ 2 <= k
  BY <1>2, <1>3, <1>4
<1>6. q.segs[j] = catalog.segs[j] /\ q.segs[k].start = catalog.segs[k].start
  BY <1>5 DEF Follows
<1>7. PICK a, b, e, l : /\ a = catalog.segs[j].start /\ b = catalog.segs[k].start
                        /\ e = catalog.segs[j].end /\ l = Len(L[j])
  OBVIOUS
<1>8. a \in Nat /\ b \in Nat /\ l \in Nat /\ b = a + l /\ ~(b > e)
  <2>1. L[j] \in Seq(Event)
    BY <1>2, <1>5
  <2>2. catalog.segs[k].start = catalog.segs[j].start + Len(L[j])
    BY <1>2, <1>5 DEF Chained
  <2>3. ~(catalog.segs[k].start > catalog.segs[j].end)
    BY <1>3, <1>4, <1>6
  <2> QED BY <1>2, <1>5, <1>7, <2>1, <2>2, <2>3
<1>9. e = IF L[j] = << >> THEN SaturatingPred(a) ELSE L[j][l].seq
  <2>1. Described(catalog.segs[j], L[j], Before(catalog, j))
    BY <1>2, <1>5 DEF OnDisk
  <2> QED BY <1>7, <2>1 DEF Described
<1>10. L[j] = << >>
  <2> SUFFICES ASSUME L[j] # << >> PROVE FALSE
    OBVIOUS
  <2>1. l \in 1..Len(L[j])
    BY <1>2, <1>5, <1>7
  <2>2. \A i \in 1..Len(L[j]) : L[j][i].seq = catalog.segs[j].start + i - 1
    BY <1>2, <1>5 DEF Chained
  <2>3. L[j][l].seq = a + l - 1
    BY <1>7, <2>1, <2>2
  <2>4. e = a + l - 1
    BY <1>9, <2>3
  <2> QED BY <1>8, <2>4
<1>11. b = 0
  <2>1. l = 0
    BY <1>7, <1>10
  <2>2. e = IF a = 0 THEN 0 ELSE a - 1
    BY <1>9, <1>10 DEF SaturatingPred
  <2> QED BY <1>8, <2>1, <2>2
<1>12. catalog.segs[2].start = 0
  <2>1. \A x, y \in 1..Len(catalog.segs) :
          x <= y => catalog.segs[x].start <= catalog.segs[y].start
    BY <1>2, StartsOrdered
  <2>2. catalog.segs[2].start <= b
    BY <1>5, <1>7, <2>1
  <2>3. catalog.segs[2].start \in Nat
    BY <1>2, <1>5
  <2> QED BY <1>11, <2>2, <2>3
<1>13. Len(L[1]) = 0
  <2>1. catalog.segs[1].start = 0
    BY <1>2, <1>5 DEF Chained
  <2>2. 2 # 1 /\ 2 - 1 = 1
    OBVIOUS
  <2>3. catalog.segs[2].start = catalog.segs[1].start + Len(L[1])
    BY <1>2, <1>5, <2>2 DEF Chained
  <2>4. PICK x : x = Len(L[1])
    OBVIOUS
  <2>5. x \in Nat /\ 0 = 0 + x
    BY <1>2, <1>5, <1>12, <2>1, <2>3, <2>4
  <2> QED BY <2>4, <2>5
<1>14. LinesAt(1) = << >>
  <2>1. /\ OnFile[1] = EventsOf(files[catalog.segs[1].id].lines)
        /\ files[catalog.segs[1].id].lines \in Seq(Line)
    BY <1>5, LogTypes DEF LogInv
  <2>2. PICK lines : lines = files[catalog.segs[1].id].lines
    OBVIOUS
  <2>3. lines \in Seq(Line) /\ Len(EventsOf(lines)) = 0
    BY <1>1, <1>13, <2>1, <2>2
  <2>4. Len(lines) = 0
    BY <2>3, EventsOfType
  <2>5. lines = << >>
    BY <2>3, <2>4
  <2> QED BY <2>2, <2>5 DEF LinesAt
<1> QED BY <1>5, <1>14 DEF Excused

\* A scan fails on a line without its newline, or on an overlap.
LEMMA ScanTailFailsInv ==
  ASSUME SafeInv, ReadersTypeOK, UNCHANGED vars, NEW r \in Readers, ListInv(r), ReadInv(r),
         ScanTailFails(r)
  PROVE  ReadersTypeOK' /\ ListInv(r)' /\ ReadInv(r)'
<1>1. PICK b, q : b = rcat[r] /\ q = Reconcile(b, files)
  OBVIOUS
<1>2. /\ b \in Catalog /\ b.active = Len(b.segs) /\ Follows(b, catalog)
  BY <1>1 DEF ScanTailFails, ListInv, ReadersTypeOK
<1>3. /\ CatalogOK(b, files) /\ Len(b.segs) <= Len(catalog.segs)
      /\ q \in Catalog /\ Len(q.segs) = Len(b.segs) /\ Follows(q, catalog)
      /\ Ordered(q) = q.segs
  BY <1>1, <1>2, HeldCatalog DEF SafeInv
<1>4. Excused
  <2>1. CASE ~Scannable(b, files)
    <3>1. b.active # 0 /\ ~Parses(files[b.segs[b.active].id].lines)
      BY <2>1 DEF Scannable, HasActive, ActiveLines, ActiveEntry
    <3>2. PICK n : n = Len(b.segs)
      OBVIOUS
    <3>3. n \in 1..Len(b.segs) /\ n \in DOMAIN catalog.segs
      <4>1. Len(b.segs) \in Nat /\ Len(catalog.segs) \in Nat
            /\ DOMAIN catalog.segs = 1..Len(catalog.segs)
        BY <1>2, LogTypes, SegsType DEF SafeInv, LogInv
      <4> QED BY <1>2, <1>3, <3>1, <3>2, <4>1
    <3>4. b.segs[n].id = catalog.segs[n].id
      BY <1>2, <3>3 DEF Follows
    <3>5. ~Parses(LinesAt(n))
      BY <1>2, <3>1, <3>2, <3>4 DEF LinesAt
    <3> QED BY <3>3, <3>5 DEF Excused
  <2>2. CASE Scannable(b, files)
    <3>1. ~Disjoint(q.segs)
      BY <1>1, <1>3, <2>2 DEF ScanTailFails
    <3> QED BY <1>3, <3>1, OverlapExcused DEF SafeInv
  <2> QED BY <2>1, <2>2
<1>5. /\ rpc' = [rpc EXCEPT ![r] = "failed"]
      /\ rcat' = rcat /\ rpos' = rpos /\ got' = got /\ floor' = floor
  BY DEF ScanTailFails, RGoto
<1>6. rpc'[r] = "failed"
  BY <1>5 DEF ReadersTypeOK
<1>7. Excused'
  BY <1>4, DiskSame
<1>8. ReadersTypeOK'
  BY <1>5 DEF ReadersTypeOK
<1> QED BY <1>6, <1>7, <1>8 DEF ListInv, ReadInv

\* A beginning of a sequence with what comes next in it is a longer beginning.
LEMMA LongerPrefix ==
  ASSUME NEW S, NEW all \in Seq(S), NEW s \in Seq(S), NEW t \in Seq(S),
         Abstract!StartsWith(all, s),
         \A i \in 1..Len(t) : Len(s) + i \in 1..Len(all) /\ all[Len(s) + i] = t[i]
  PROVE  Abstract!StartsWith(all, s \o t)
<1>1. PICK v, m, n : v = s \o t /\ m = Len(s) /\ n = Len(t)
  OBVIOUS
<1>2. /\ v \in Seq(S) /\ m \in Nat /\ n \in Nat /\ Len(v) = m + n /\ DOMAIN v = 1..(m + n)
      /\ \A i \in 1..m : v[i] = s[i]
      /\ \A i \in 1..(m + n) : i > m => v[i] = t[i - m]
  <2>1. /\ v \in Seq(S) /\ m \in Nat /\ n \in Nat /\ Len(v) = m + n
        /\ \A i \in 1..m : v[i] = s[i]
        /\ \A i \in 1..(m + n) : i > m => v[i] = t[i - m]
    BY <1>1, Concatenation
  <2> QED BY <2>1
<1>3. Len(all) \in Nat /\ m <= Len(all) /\ \A i \in 1..m : all[i] = s[i]
  BY <1>1 DEF Abstract!StartsWith
<1>4. ASSUME NEW i \in 1..(m + n), i > m PROVE i <= Len(all) /\ all[i] = v[i]
  <2>1. PICK j : j = i - m
    OBVIOUS
  <2>2. j \in 1..n /\ i = m + j
    BY <1>2, <1>4, <2>1
  <2>3. m + j \in 1..Len(all) /\ all[m + j] = t[j]
    BY <1>1, <2>2
  <2>4. v[i] = t[j]
    BY <1>2, <1>4, <2>1
  <2>5. i \in 1..Len(all) /\ all[i] = t[j]
    BY <2>2, <2>3
  <2> QED BY <1>3, <2>4, <2>5
<1>5. \A i \in 1..(m + n) : all[i] = v[i]
  <2>1. \A i \in 1..(m + n) : i \in 1..m \/ i > m
    BY <1>2
  <2> QED BY <1>2, <1>3, <1>4, <2>1
<1>6. m + n <= Len(all)
  <2>1. CASE n = 0
    BY <1>2, <1>3, <2>1
  <2>2. CASE n # 0
    <3>1. m + n \in 1..(m + n) /\ m + n > m
      BY <1>2, <2>2
    <3> QED BY <1>4, <3>1
  <2> QED BY <2>1, <2>2
<1>7. Abstract!StartsWith(all, v)
  BY <1>2, <1>5, <1>6 DEF Abstract!StartsWith
<1> QED BY <1>1, <1>7

\* A segment read to its end: the load has the events up to the next segment, or
\* up to the end of its last one.
LEMMA LoadSegmentInv ==
  ASSUME SafeInv, ReadersTypeOK, UNCHANGED vars, NEW r \in Readers, ListInv(r), ReadInv(r),
         LoadSegment(r)
  PROVE  ReadersTypeOK' /\ ListInv(r)' /\ ReadInv(r)'
<1>1. PICK b, n, p, L : b = rcat[r] /\ n = Len(b.segs) /\ p = rpos[r] /\ L = OnFile
  OBVIOUS
<1>2. /\ b \in Catalog /\ b.active = Len(b.segs) /\ Follows(b, catalog)
      /\ floor[r] <= EndOf(n) /\ floor[r] \in Nat
      /\ rpc[r] = "segments" /\ p <= n /\ p \in 1..(n + 1) /\ n \in Nat
      /\ got[r] \in Seq(Stamp) /\ Abstract!StartsWith(Durable, got[r])
  <2>1. b \in Catalog /\ rpc[r] = "segments" /\ p <= n /\ floor[r] \in Nat /\ got[r] \in Seq(Stamp)
    BY <1>1 DEF LoadSegment, Reading, ReadersTypeOK
  <2> QED BY <1>1, <2>1, SegsType DEF ListInv, ReadInv
<1>3. p \in 1..n /\ p + 1 \in 1..(n + 1) /\ p \in Nat
  BY <1>2
<1>4. Len(got[r]) = catalog.segs[p].start
  BY <1>1, <1>2, <1>3 DEF ReadInv
<1>5. /\ catalog \in Catalog /\ L \in [1..Len(catalog.segs) -> Seq(Event)]
      /\ Chained(catalog, L) /\ LogOf(catalog, L, Durable) /\ Durable \in Seq(Stamp)
      /\ Len(catalog.segs) \in Nat
      /\ \A k \in 1..Len(catalog.segs) :
           /\ catalog.segs[k].start \in Nat
           /\ L[k] = EventsOf(files[catalog.segs[k].id].lines)
           /\ files[catalog.segs[k].id].lines \in Seq(Line)
  <2>1. LogOf(catalog, L, Durable)
    BY <1>1, DurableIs DEF SafeInv
  <2>2. /\ catalog \in Catalog /\ L \in [1..Len(catalog.segs) -> Seq(Event)]
        /\ Len(catalog.segs) \in Nat
        /\ \A k \in 1..Len(catalog.segs) :
             /\ L[k] = EventsOf(files[catalog.segs[k].id].lines)
             /\ files[catalog.segs[k].id].lines \in Seq(Line)
    BY <1>1, LogTypes DEF SafeInv, LogInv
  <2>3. Chained(catalog, L)
    BY <1>1 DEF SafeInv, LogInv, DiskInv, OnDisk
  <2> QED BY <2>1, <2>2, <2>3, SegsType DEF LogOf
<1>6. \A k \in 1..n : k \in 1..Len(catalog.segs) /\ catalog.segs[k].id = b.segs[k].id
  BY <1>1, <1>2, <1>5 DEF Follows
<1>7. PICK lines, more : lines = SegmentLines(r) /\ more = StampsIn(lines)
  OBVIOUS
<1>8. lines \in Seq(Line) /\ L[p] = EventsOf(lines) /\ p \in 1..Len(catalog.segs)
  BY <1>1, <1>3, <1>5, <1>6, <1>7 DEF SegmentLines
<1>9. /\ more \in Seq(Stamp) /\ Len(more) = Len(L[p])
      /\ \A i \in 1..Len(more) : more[i] = StampOf(L[p][i])
  BY <1>7, <1>8, StampsInIs
<1>10. PICK g : g = got[r] \o more
  OBVIOUS
<1>11. g \in Seq(Stamp) /\ Len(g) = catalog.segs[p].start + Len(L[p])
  <2>1. g \in Seq(Stamp) /\ Len(g) = Len(got[r]) + Len(more)
    <3>1. PICK s : s = got[r]
      OBVIOUS
    <3>2. s \in Seq(Stamp) /\ more \in Seq(Stamp) /\ g = s \o more
      BY <1>2, <1>9, <1>10, <3>1
    <3>3. g \in Seq(Stamp) /\ Len(g) = Len(s) + Len(more)
      BY <3>2, Concatenation
    <3> QED BY <3>1, <3>3
  <2> QED BY <1>4, <1>9, <2>1
<1>12. /\ got' = [got EXCEPT ![r] = g] /\ rpos' = [rpos EXCEPT ![r] = p + 1]
       /\ rpc' = rpc /\ rcat' = rcat /\ floor' = floor /\ catalog' = catalog
  BY <1>1, <1>7, <1>10 DEF LoadSegment, vars
<1>13. ReadersTypeOK'
  <2>1. p + 1 \in Nat
    BY <1>3
  <2> QED BY <1>11, <1>12, <2>1 DEF ReadersTypeOK
<1>14. got'[r] = g /\ rpos'[r] = p + 1 /\ rpc'[r] = "segments" /\ rcat'[r] = b /\ floor'[r] = floor[r]
  BY <1>1, <1>2, <1>12 DEF ReadersTypeOK
<1>15. Durable' = Durable /\ OnFile' = OnFile
  BY DiskSame DEF vars, OnFile
<1>16. ListInv(r)'
  <2>1. EndOf(Len(rcat[r].segs))' = EndOf(n)
    BY <1>1, <1>12, <1>15 DEF EndOf
  <2> QED BY <1>1, <1>2, <1>12, <1>14, <2>1 DEF ListInv
<1>17. Abstract!StartsWith(Durable, g)
  <2>1. ASSUME NEW i \in 1..Len(more)
        PROVE  Len(got[r]) + i \in 1..Len(Durable) /\ Durable[Len(got[r]) + i] = more[i]
    <3>1. i \in 1..Len(L[p])
      BY <1>9
    <3>2. /\ catalog.segs[p].start + i \in 1..Len(Durable)
          /\ Durable[catalog.segs[p].start + i] = StampOf(L[p][i])
      BY <1>5, <1>8, <3>1 DEF LogOf
    <3> QED BY <1>4, <1>9, <3>2
  <2> QED BY <1>2, <1>5, <1>9, <1>10, <2>1, LongerPrefix
<1>18. p + 1 \in 1..n => Len(g) = catalog.segs[p + 1].start
  <2> SUFFICES ASSUME p + 1 \in 1..n PROVE Len(g) = catalog.segs[p + 1].start
    OBVIOUS
  <2>1. p + 1 \in 1..Len(catalog.segs) /\ p + 1 # 1 /\ (p + 1) - 1 = p
    BY <1>3, <1>6
  <2>2. catalog.segs[p + 1].start = catalog.segs[p].start + Len(L[p])
    BY <1>5, <2>1 DEF Chained
  <2> QED BY <1>11, <2>2
<1>19. p + 1 = n + 1 => Len(g) >= floor[r]
  <2> SUFFICES ASSUME p + 1 = n + 1 PROVE Len(g) >= floor[r]
    OBVIOUS
  <2>1. p = n /\ n # 0
    BY <1>2, <1>3
  <2>2. EndOf(n) = catalog.segs[p].start + Len(L[p])
    BY <1>1, <2>1 DEF EndOf
  <2>3. Len(g) \in Nat
    BY <1>11
  <2> QED BY <1>2, <1>11, <2>2, <2>3
<1>20. ReadInv(r)'
  BY <1>1, <1>3, <1>12, <1>14, <1>15, <1>17, <1>18, <1>19 DEF ReadInv
<1> QED BY <1>13, <1>16, <1>20

\* A segment cannot be read when a line in it ran into the next one.
LEMMA LoadSegmentFailsInv ==
  ASSUME SafeInv, ReadersTypeOK, UNCHANGED vars, NEW r \in Readers, ListInv(r), ReadInv(r),
         LoadSegmentFails(r)
  PROVE  ReadersTypeOK' /\ ListInv(r)' /\ ReadInv(r)'
<1>1. PICK b, n, p : b = rcat[r] /\ n = Len(b.segs) /\ p = rpos[r]
  OBVIOUS
<1>2. /\ b \in Catalog /\ Follows(b, catalog) /\ p \in 1..(n + 1) /\ p <= n
  BY <1>1 DEF LoadSegmentFails, Reading, ListInv, ReadInv, ReadersTypeOK
<1>3. n \in Nat /\ p \in 1..n
  BY <1>1, <1>2, SegsType
<1>4. p \in DOMAIN catalog.segs /\ catalog.segs[p].id = b.segs[p].id
  <2>1. Len(catalog.segs) \in Nat /\ DOMAIN catalog.segs = 1..Len(catalog.segs)
    BY LogTypes DEF SafeInv, LogInv
  <2>2. p <= Len(catalog.segs) /\ catalog.segs[p].id = b.segs[p].id
    BY <1>1, <1>2, <1>3 DEF Follows
  <2> QED BY <1>3, <2>1, <2>2
<1>5. ~Parses(LinesAt(p))
  BY <1>1, <1>4 DEF LoadSegmentFails, SegmentLines, LinesAt
<1>6. Excused'
  BY <1>4, <1>5, DiskSame DEF Excused
<1>7. /\ rpc' = [rpc EXCEPT ![r] = "failed"]
      /\ rcat' = rcat /\ rpos' = rpos /\ got' = got /\ floor' = floor
  BY DEF LoadSegmentFails, RGoto
<1>8. rpc'[r] = "failed"
  BY <1>7 DEF ReadersTypeOK
<1>9. ReadersTypeOK'
  BY <1>7 DEF ReadersTypeOK
<1> QED BY <1>6, <1>8, <1>9 DEF ListInv, ReadInv

\* After its last segment a load has what it must.
LEMMA FinishLoadInv ==
  ASSUME SafeInv, ReadersTypeOK, UNCHANGED vars, NEW r \in Readers, ListInv(r), ReadInv(r),
         FinishLoad(r)
  PROVE  ReadersTypeOK' /\ ListInv(r)' /\ ReadInv(r)'
<1>1. PICK n, p : n = Len(rcat[r].segs) /\ p = rpos[r]
  OBVIOUS
<1>2. rcat[r] \in Catalog /\ rpc[r] = "segments" /\ p \in 1..(n + 1) /\ p > n
  BY <1>1 DEF FinishLoad, ReadInv, ReadersTypeOK
<1>3. p = n + 1
  BY <1>1, <1>2, SegsType
<1>4. Len(got[r]) >= floor[r] /\ Abstract!StartsWith(Durable, got[r])
  BY <1>1, <1>2, <1>3 DEF ReadInv
<1>5. /\ rpc' = [rpc EXCEPT ![r] = "done"]
      /\ rcat' = rcat /\ rpos' = rpos /\ got' = got /\ floor' = floor
  BY DEF FinishLoad, RGoto
<1>6. rpc'[r] = "done"
  BY <1>5 DEF ReadersTypeOK
<1>7. ReadersTypeOK'
  BY <1>5 DEF ReadersTypeOK
<1>8. Durable' = Durable
  BY DiskSame
<1> QED BY <1>4, <1>5, <1>6, <1>7, <1>8 DEF ListInv, ReadInv

LEMMA ReturnInv ==
  ASSUME SafeInv, ReadersTypeOK, UNCHANGED vars, NEW r \in Readers, ListInv(r), ReadInv(r),
         Return(r)
  PROVE  ReadersTypeOK' /\ ListInv(r)' /\ ReadInv(r)'
<1>1. ReadersTypeOK'
  <2>1. NewCatalog \in Catalog
    BY NewCatalogType
  <2> QED BY <2>1 DEF Return, RGoto, ReadersTypeOK
<1>2. rpc'[r] = "idle" /\ rpos'[r] = 1 /\ got'[r] = << >>
  BY DEF Return, RGoto, ReadersTypeOK
<1> QED BY <1>1, <1>2 DEF ListInv, ReadInv

\* Each step of a load keeps what is known of it and of the other loads.
LEMMA ReaderStep ==
  ASSUME ReadersInv, NEW r \in Readers, RStep(r), UNCHANGED vars
  PROVE  ReadersTypeOK' /\ \A q \in Readers : ListInv(q)' /\ ReadInv(q)'
<1>1. SafeInv /\ ReadersTypeOK /\ \A q \in Readers : ListInv(q) /\ ReadInv(q)
  BY DEF ReadersInv
<1>2. ReadersTypeOK' /\ ListInv(r)' /\ ReadInv(r)'
  <2>1. CASE StartLoad(r)
    BY <1>1, <2>1, StartLoadInv
  <2>2. CASE ScanTail(r)
    BY <1>1, <2>2, ScanTailInv
  <2>3. CASE ScanTailFails(r)
    BY <1>1, <2>3, ScanTailFailsInv
  <2>4. CASE LoadSegment(r)
    BY <1>1, <2>4, LoadSegmentInv
  <2>5. CASE LoadSegmentFails(r)
    BY <1>1, <2>5, LoadSegmentFailsInv
  <2>6. CASE FinishLoad(r)
    BY <1>1, <2>6, FinishLoadInv
  <2>7. CASE Return(r)
    BY <1>1, <2>7, ReturnInv
  <2> QED BY <2>1, <2>2, <2>3, <2>4, <2>5, <2>6, <2>7 DEF RStep
<1>3. ASSUME NEW q \in Readers, q # r PROVE ListInv(q)' /\ ReadInv(q)'
  <2>1. /\ rpc'[q] = rpc[q] /\ rcat'[q] = rcat[q] /\ rpos'[q] = rpos[q]
        /\ got'[q] = got[q] /\ floor'[q] = floor[q]
    BY <1>1, <1>3 DEF RStep, StartLoad, ScanTail, ScanTailFails, LoadSegment, LoadSegmentFails,
        FinishLoad, Return, RGoto, ReadersTypeOK
  <2> QED BY <1>1, <2>1, OtherReader
<1> QED BY <1>2, <1>3

LEMMA InitReadersInv == RInit => ReadersInv
<1> SUFFICES ASSUME RInit PROVE ReadersInv
  OBVIOUS
<1>1. SafeInv
  BY InitSafeInv DEF RInit
<1>2. ReadersTypeOK
  BY NewCatalogType DEF RInit, ReadersTypeOK
<1>3. \A r \in Readers : rpc[r] = "idle" /\ rpos[r] = 1 /\ got[r] = << >>
  BY DEF RInit
<1> QED BY <1>1, <1>2, <1>3 DEF ReadersInv, ListInv, ReadInv

LEMMA NextReadersInv == ReadersInv /\ [RNext]_<<vars, rvars>> => ReadersInv'
<1> SUFFICES ASSUME ReadersInv, [RNext]_<<vars, rvars>> PROVE ReadersInv'
  OBVIOUS
<1>1. SafeInv /\ ReadersTypeOK /\ \A r \in Readers : ListInv(r) /\ ReadInv(r)
  BY DEF ReadersInv
<1>2. ASSUME [Next]_vars, UNCHANGED rvars PROVE ReadersInv'
  <2>1. SafeInv' /\ Grows
    BY <1>1, <1>2, NextSafeInv
  <2>2. ReadersTypeOK'
    BY <1>1, <1>2 DEF ReadersTypeOK, rvars
  <2>3. LogInv /\ LogInv'
    BY <1>1, <2>1 DEF SafeInv
  <2>4. ASSUME NEW r \in Readers PROVE ListInv(r)' /\ ReadInv(r)'
    BY <1>1, <1>2, <2>1, <2>3, WriterKeepsReader
  <2> QED BY <2>1, <2>2, <2>4 DEF ReadersInv
<1>3. ASSUME NEW r \in Readers, RStep(r), UNCHANGED vars PROVE ReadersInv'
  <2>1. SafeInv'
    BY <1>1, <1>3, NextSafeInv
  <2>2. ReadersTypeOK' /\ \A q \in Readers : ListInv(q)' /\ ReadInv(q)'
    BY <1>3, ReaderStep
  <2> QED BY <2>1, <2>2 DEF ReadersInv
<1>4. CASE UNCHANGED <<vars, rvars>>
  BY <1>2, <1>4
<1> QED BY <1>2, <1>3, <1>4 DEF RNext

\* The inductive invariant of appends and loads together.
THEOREM ReadInvariant == RSpec => []ReadersInv
<1> QED BY InitReadersInv, NextReadersInv, PTL DEF RSpec

-----------------------------------------------------------------------------
(* What a load without the lock returns.                                   *)

\* The catalog and the files are read at different moments, while others append,
\* roll and are killed: what load returns is still a beginning of the log.
THEOREM LoadsArePrefixes == RSpec => []LoadIsPrefix
<1>1. ReadersInv => LoadIsPrefix
  <2> SUFFICES ASSUME ReadersInv, NEW r \in Readers, rpc[r] = "done"
               PROVE  IsPrefix(got[r], Durable)
    BY DEF LoadIsPrefix
  <2>1. PICK s, t : s = got[r] /\ t = Durable
    OBVIOUS
  <2>2. Abstract!StartsWith(t, s) /\ s \in Seq(Stamp)
    BY <2>1 DEF ReadersInv, ReadInv, ReadersTypeOK
  <2>3. t \in Seq(Stamp)
    BY <2>1, DurableIs DEF ReadersInv, SafeInv, LogOf
  <2>4. Len(s) <= Len(t) /\ \A i \in 1..Len(s) : t[i] = s[i]
    BY <2>2 DEF Abstract!StartsWith
  <2>5. SubSeq(s, 1, Len(s)) = SubSeq(t, 1, Len(s))
    BY <2>2, <2>3, <2>4
  <2> QED BY <2>1, <2>4, <2>5 DEF IsPrefix
<1> QED BY <1>1, ReadInvariant, PTL

\* A load has all that was in the log when it began, so with AckedStayDurable it
\* has every event confirmed before: what was acknowledged is replayed.
THEOREM LoadsAreFresh == RSpec => []LoadIsFresh
<1>1. ReadersInv => LoadIsFresh
  BY DEF ReadersInv, ReadInv, LoadIsFresh
<1> QED BY <1>1, ReadInvariant, PTL

\* Appending processes, whatever they do and wherever they are killed, make a
\* load fail only by the two kinds of damage LoadSucceeds names.
THEOREM LoadsFailOnDamage == RSpec => []LoadSucceeds
<1>1. ReadersInv => LoadSucceeds
  BY DEF ReadersInv, ReadInv, LoadSucceeds, Excused
<1> QED BY <1>1, ReadInvariant, PTL

\* Loads add nothing to the log and take nothing from it: all that is proved of
\* the appending processes holds while others load.
THEOREM LoadsLeaveTheLog == RSpec => Spec
<1>1. RInit => Init
  BY DEF RInit
<1>2. [RNext]_<<vars, rvars>> => [Next]_vars
  BY DEF RNext
<1> QED BY <1>1, <1>2, PTL DEF RSpec, Spec
=============================================================================
