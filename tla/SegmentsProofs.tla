--------------------------- MODULE SegmentsProofs ---------------------------
(***************************************************************************)
(* What the operators of Segments return, for every value of the constants.*)
(* The proofs about the modules that use Segments cite them by name.       *)
(***************************************************************************)
EXTENDS Segments, SequencesExt, FiniteSetTheorems, WellFoundedInduction, TLAPS

\* The digest of an event is a digest, one longer than its predecessor's.
LEMMA DigestOfType ==
  ASSUME NEW e \in Event
  PROVE  DigestOf(e) \in Digest
BY DEF DigestOf, Event, Digest, Stamp

\* Hashing a header or a catalog entry gives a segment digest.
LEMMA HeaderDigestType ==
  ASSUME NEW h \in Entry
  PROVE  HeaderDigest(h) \in SegDigest
BY DEF HeaderDigest, Entry, SegDigest, SegStamp

\* The bytes of a file are finitely many.
LEMMA BytesOfType ==
  ASSUME NEW lines \in Seq(Line)
  PROVE  BytesOf(lines) \in Nat
<1> DEFINE n(i) == Size[lines[i].ev.pay]
           ofLine(i) == {i} \X (1..n(i))
           f == [i \in DOMAIN lines |-> ofLine(i)]
           T == {ofLine(i) : i \in DOMAIN lines}
<1>1. IsFiniteSet(DOMAIN lines)
  <2>1. DOMAIN lines = 1..Len(lines) /\ Len(lines) \in Int
    OBVIOUS
  <2> QED BY <2>1, FS_Interval
<1>2. \A i \in DOMAIN lines : IsFiniteSet(ofLine(i))
  <2> SUFFICES ASSUME NEW i \in DOMAIN lines PROVE IsFiniteSet(ofLine(i))
    OBVIOUS
  <2>1. n(i) \in Int
    <3>1. lines[i] \in Line
      OBVIOUS
    <3>2. lines[i].ev.pay \in Payloads
      BY <3>1 DEF Line, Event
    <3> QED BY <3>2, SizeAssumption
  <2> HIDE DEF n
  <2>2. IsFiniteSet(1..n(i))
    BY <2>1, FS_Interval
  <2>3. IsFiniteSet({i})
    BY FS_Singleton
  <2> QED BY <2>2, <2>3, FS_Product
<1> HIDE DEF ofLine
<1>3. f \in Surjection(DOMAIN lines, T)
  BY DEF Surjection
<1>4. IsFiniteSet(T)
  BY <1>1, <1>3, FS_Surjection
<1>5. IsFiniteSet(UNION T)
  <2>1. \A S \in T : IsFiniteSet(S)
    BY <1>2
  <2> QED BY <1>4, <2>1, FS_UNION
<1>6. BytesOf(lines) = Cardinality(UNION T)
  BY DEF BytesOf, ofLine
<1> QED BY <1>5, <1>6, FS_CardinalityType

-----------------------------------------------------------------------------

\* A catalog whose active segment exists and whose segments all have a file.
CatalogOK(c, files) ==
  /\ c.active \in 0..Len(c.segs)
  /\ \A k \in DOMAIN c.segs : c.segs[k].id \in DOMAIN files

\* The empty catalog is a catalog.
LEMMA NewCatalogType ==
  /\ NewCatalog \in Catalog
  /\ \A disk0 : CatalogOK(NewCatalog, disk0)
BY DEF NewCatalog, Catalog, CatalogOK, Genesis, Digest

\* An entry brought up to date with a non-empty file is an entry.
LEMMA RefreshedType ==
  ASSUME NEW entry \in Entry, NEW lines \in Seq(Line), lines # << >>
  PROVE  /\ Refreshed(entry, lines) \in Entry
         /\ Refreshed(entry, lines).id = entry.id
<1>1. lines[Len(lines)] \in Line
  OBVIOUS
<1>2. lines[Len(lines)].ev \in Event
  BY <1>1 DEF Line
<1>3. lines[Len(lines)].ev.seq \in Nat
  BY <1>2 DEF Event
<1>4. DigestOf(lines[Len(lines)].ev) \in Digest
  BY <1>2, DigestOfType
<1>5. BytesOf(lines) \in Nat /\ Len(lines) \in Nat
  BY BytesOfType
<1> QED BY <1>3, <1>4, <1>5 DEF Refreshed, Entry

\* Reconciliation gives a catalog with the same segments and active segment.
LEMMA ReconcileType ==
  ASSUME NEW files, NEW c \in Catalog, CatalogOK(c, files),
         \A id \in DOMAIN files : files[id] \in File
  PROVE  /\ Reconcile(c, files) \in Catalog
         /\ CatalogOK(Reconcile(c, files), files)
<1>1. CASE ~HasActive(c)
  BY <1>1 DEF Reconcile
<1>2. CASE HasActive(c)
  <2> DEFINE entry == ActiveEntry(c)
             lines == ActiveLines(c, files)
             event == lines[Len(lines)].ev
  <2>1. c.active \in DOMAIN c.segs /\ c.active \in Nat /\ c.segs \in Seq(Entry)
    BY <1>2 DEF HasActive, Catalog, CatalogOK
  <2>2. entry \in Entry /\ entry.id \in DOMAIN files
    BY <2>1 DEF ActiveEntry, CatalogOK
  <2>3. lines \in Seq(Line)
    BY <2>2 DEF ActiveLines, File
  <2>4. CASE lines = << >>
    <3>1. Reconcile(c, files) = [c EXCEPT !.next = entry.start]
      BY <1>2, <2>4 DEF Reconcile
    <3> QED BY <3>1, <2>2 DEF Catalog, Entry, CatalogOK
  <2>5. CASE lines # << >>
    <3> DEFINE segs == [c.segs EXCEPT ![c.active] = Refreshed(entry, lines)]
    <3>1. Reconcile(c, files) =
            [c EXCEPT !.segs = segs, !.ns = event.ns, !.next = event.seq + 1,
                      !.head = DigestOf(event)]
      BY <1>2, <2>1, <2>5 DEF Reconcile, Catalog
    <3>2. event \in Event
      <4>1. lines[Len(lines)] \in Line
        BY <2>3, <2>5
      <4> QED BY <4>1 DEF Line
    <3>3. event.ns \in Namespaces /\ event.seq + 1 \in Nat /\ DigestOf(event) \in Digest
      BY <3>2, DigestOfType DEF Event
    <3>4. /\ Refreshed(entry, lines) \in Entry
          /\ Refreshed(entry, lines).id = entry.id
      BY <2>2, <2>3, <2>5, RefreshedType
    <3>5. /\ segs \in Seq(Entry) /\ Len(segs) = Len(c.segs)
          /\ \A k \in DOMAIN segs : segs[k].id = c.segs[k].id
      <4> HIDE DEF lines
      <4> QED BY <2>1, <3>4 DEF ActiveEntry
    <3> HIDE DEF segs, event
    <3>6. Reconcile(c, files) \in Catalog
      BY <3>1, <3>3, <3>5 DEF Catalog
    <3>7. /\ Reconcile(c, files).segs = segs
          /\ Reconcile(c, files).active = c.active
      BY <3>1 DEF Catalog
    <3> QED BY <3>5, <3>6, <3>7, <2>1 DEF CatalogOK
  <2> QED BY <2>4, <2>5
<1> QED BY <1>1, <1>2


\* The entry of a new segment is an entry.
LEMMA RolledEntryType ==
  ASSUME NEW c \in Catalog, NEW e \in Event
  PROVE  /\ RolledEntry(c, e) \in Entry
         /\ HeaderOf(RolledEntry(c, e)) \in Header
<1>1. /\ Len(c.segs) \in Nat /\ c.head \in Digest
      /\ e.seq \in Nat /\ e.ns \in Namespaces
  BY DEF Catalog, Event
<1>2. SaturatingPred(e.seq) \in Nat
  BY <1>1 DEF SaturatingPred
<1>3. DigestOf(e) \in Digest
  BY DigestOfType
<1> DEFINE prev == IF c.segs = << >> THEN NoSegment ELSE HeaderDigest(c.segs[Len(c.segs)])
<1>4. prev \in SegDigest
  <2>1. CASE c.segs = << >>
    BY <2>1 DEF NoSegment, SegDigest
  <2>2. CASE c.segs # << >>
    <3>1. c.segs[Len(c.segs)] \in Entry
      BY <2>2 DEF Catalog
    <3> QED BY <2>2, <3>1, HeaderDigestType
  <2> QED BY <2>1, <2>2
<1>5. <<e.seq, Len(c.segs)>> \in SegId
  BY <1>1 DEF SegId
<1> HIDE DEF prev
<1>6. RolledEntry(c, e) =
        [id |-> <<e.seq, Len(c.segs)>>, ns |-> e.ns, start |-> e.seq,
         end |-> SaturatingPred(e.seq), first |-> DigestOf(e), last |-> c.head,
         prev |-> prev, sealed |-> FALSE, count |-> 0, bytes |-> 0]
  BY DEF RolledEntry, prev
<1> QED BY <1>1, <1>2, <1>3, <1>4, <1>5, <1>6 DEF Entry, Header, HeaderOf

\* Sealing leaves the entries as they are but for the flag of the active one.
LEMMA SealActiveType ==
  ASSUME NEW c \in Catalog, c.active \in 0..Len(c.segs)
  PROVE  /\ SealActive(c) \in Seq(Entry)
         /\ Len(SealActive(c)) = Len(c.segs)
         /\ \A k \in 1..Len(c.segs) :
              SealActive(c)[k] = IF k = c.active THEN [c.segs[k] EXCEPT !.sealed = TRUE]
                                                 ELSE c.segs[k]
<1>1. c.segs \in Seq(Entry) /\ c.active \in Nat /\ Len(c.segs) \in Nat
  BY DEF Catalog
<1>2. CASE HasActive(c)
  <2>1. c.active \in 1..Len(c.segs) /\ c.segs[c.active] \in Entry
    BY <1>1, <1>2 DEF HasActive
  <2> DEFINE new == [c.segs[c.active] EXCEPT !.sealed = TRUE]
  <2>2. new \in Entry
    BY <2>1 DEF Entry
  <2>3. SealActive(c) = [c.segs EXCEPT ![c.active] = new]
    BY <1>2 DEF SealActive
  <2>4. ASSUME NEW k \in 1..Len(c.segs)
        PROVE  SealActive(c)[k] = IF k = c.active THEN [c.segs[k] EXCEPT !.sealed = TRUE]
                                                  ELSE c.segs[k]
    <3> HIDE DEF new
    <3>1. SealActive(c)[k] = IF k = c.active THEN new ELSE c.segs[k]
      BY <1>1, <2>3
    <3> QED BY <3>1 DEF new
  <2> HIDE DEF new
  <2> QED BY <1>1, <2>1, <2>2, <2>3, <2>4
<1>3. CASE ~HasActive(c)
  BY <1>1, <1>3 DEF SealActive, HasActive
<1> QED BY <1>2, <1>3

\* A roll gives a catalog with one segment more, which is the active one.
LEMMA RolledType ==
  ASSUME NEW c \in Catalog, NEW e \in Event, c.active \in 0..Len(c.segs)
  PROVE  /\ Rolled(c, e) \in Catalog
         /\ Rolled(c, e).active = Len(c.segs) + 1
         /\ Rolled(c, e).ns = c.ns
         /\ Rolled(c, e).next = c.next
         /\ Rolled(c, e).head = c.head
         /\ Len(Rolled(c, e).segs) = Len(c.segs) + 1
         /\ Rolled(c, e).segs[Len(c.segs) + 1] = RolledEntry(c, e)
         /\ \A k \in 1..Len(c.segs) :
              Rolled(c, e).segs[k] = IF k = c.active THEN [c.segs[k] EXCEPT !.sealed = TRUE]
                                                     ELSE c.segs[k]
<1> DEFINE segs == Append(SealActive(c), RolledEntry(c, e))
<1>1. Len(c.segs) + 1 \in Nat
  BY DEF Catalog
<1>2. RolledEntry(c, e) \in Entry
  BY RolledEntryType
<1>3. /\ segs \in Seq(Entry) /\ Len(segs) = Len(c.segs) + 1
      /\ segs[Len(c.segs) + 1] = RolledEntry(c, e)
      /\ \A k \in 1..Len(c.segs) : segs[k] = SealActive(c)[k]
  BY <1>1, <1>2, SealActiveType
<1>4. Rolled(c, e) = [c EXCEPT !.active = Len(c.segs) + 1, !.segs = segs]
  BY DEF Rolled
<1> HIDE DEF segs
<1>5. Rolled(c, e) = [ns |-> c.ns, next |-> c.next, head |-> c.head,
                      active |-> Len(c.segs) + 1, segs |-> segs]
  BY <1>4 DEF Catalog
<1>6. Rolled(c, e) \in Catalog
  BY <1>1, <1>3, <1>5 DEF Catalog
<1>7. /\ Rolled(c, e).ns = c.ns /\ Rolled(c, e).next = c.next /\ Rolled(c, e).head = c.head
      /\ Rolled(c, e).active = Len(c.segs) + 1 /\ Rolled(c, e).segs = segs
  BY <1>5
<1>8. \A k \in 1..Len(c.segs) :
        segs[k] = IF k = c.active THEN [c.segs[k] EXCEPT !.sealed = TRUE] ELSE c.segs[k]
  BY <1>3, SealActiveType
<1> QED BY <1>3, <1>6, <1>7, <1>8

\* Recording a line leaves a catalog whose active entry alone has changed.
LEMMA RecordedType ==
  ASSUME NEW c \in Catalog, NEW e \in Event, c.active \in 1..Len(c.segs)
  PROVE  /\ Recorded(c, e) \in Catalog
         /\ Recorded(c, e) =
              [ns     |-> IF c.ns = NoNamespace THEN e.ns ELSE c.ns,
               next   |-> e.seq + 1,
               head   |-> DigestOf(e),
               active |-> c.active,
               segs   |-> [c.segs EXCEPT ![c.active] = WithLine(ActiveEntry(c), e)]]
         /\ WithLine(ActiveEntry(c), e) \in Entry
         /\ WithLine(ActiveEntry(c), e).id = ActiveEntry(c).id
<1> DEFINE old == ActiveEntry(c)
           new == WithLine(old, e)
           segs == [c.segs EXCEPT ![c.active] = new]
<1>1. c.segs \in Seq(Entry) /\ c.active \in DOMAIN c.segs /\ old \in Entry
  BY DEF Catalog, ActiveEntry
<1>2. /\ e.seq \in Nat /\ e.seq + 1 \in Nat /\ e.ns \in Namespaces /\ e.pay \in Payloads
      /\ DigestOf(e) \in Digest
  BY DigestOfType DEF Event
<1>3. Size[e.pay] \in Nat
  BY <1>2, SizeAssumption
<1>4. old.count + 1 \in Nat /\ old.bytes + Size[e.pay] \in Nat
  <2> HIDE DEF old
  <2>1. old.count \in Nat /\ old.bytes \in Nat
    BY <1>1 DEF Entry
  <2> QED BY <1>3, <2>1
<1>5. new \in Entry /\ new.id = old.id
  <2> HIDE DEF old
  <2>1. new = [old EXCEPT !.end = e.seq, !.last = DigestOf(e), !.count = old.count + 1,
                          !.bytes = old.bytes + Size[e.pay]]
    BY <1>1 DEF WithLine
  <2> QED BY <1>1, <1>2, <1>4, <2>1 DEF Entry
<1>6. segs \in Seq(Entry)
  <2> HIDE DEF new
  <2> QED BY <1>1, <1>5
<1>7. Recorded(c, e) = [c EXCEPT !.segs = segs, !.ns = IF @ = NoNamespace THEN e.ns ELSE @,
                                 !.next = e.seq + 1, !.head = DigestOf(e)]
  BY <1>1 DEF Recorded, Catalog
<1> HIDE DEF segs
<1>8. Recorded(c, e) = [ns |-> IF c.ns = NoNamespace THEN e.ns ELSE c.ns, next |-> e.seq + 1,
                        head |-> DigestOf(e), active |-> c.active, segs |-> segs]
  BY <1>7 DEF Catalog
<1>9. Recorded(c, e) \in Catalog
  BY <1>2, <1>6, <1>8 DEF Catalog
<1> QED BY <1>5, <1>8, <1>9 DEF segs

\* The events a caller builds are events.
LEMMA BuildEventsType ==
  ASSUME NEW next \in Nat, NEW head \in Digest, NEW ns \in Namespaces,
         NEW n \in Nat, NEW pays \in [1..n -> Payloads], NEW flaw
  PROVE  BuildEvents(next, head, ns, pays, flaw) \in Seq(Event)
<1> DEFINE stamp(j) == [seq |-> next + j - 1, ns |-> ns, pay |-> pays[j]]
           event(i) == [seq |-> next + i - 1, ns |-> ns, pay |-> pays[i],
                        prev |-> head \o [j \in 1..(i - 1) |-> stamp(j)], sound |-> i # flaw]
<1>1. Len(pays) = n
  OBVIOUS
<1>2. \A i \in 1..n : event(i) \in Event
  <2> SUFFICES ASSUME NEW i \in 1..n PROVE event(i) \in Event
    OBVIOUS
  <2>1. \A j \in 1..(i - 1) : stamp(j) \in Stamp
    BY DEF Stamp
  <2> HIDE DEF stamp
  <2>2. i - 1 \in Nat
    OBVIOUS
  <2>3. [j \in 1..(i - 1) |-> stamp(j)] \in Seq(Stamp)
    BY <2>1, <2>2
  <2>4. head \o [j \in 1..(i - 1) |-> stamp(j)] \in Digest
    BY <2>3 DEF Digest
  <2> QED BY <2>4 DEF Event
<1> HIDE DEF event
<1>3. [i \in 1..n |-> event(i)] \in Seq(Event)
  BY <1>2
<1> QED BY <1>1, <1>3 DEF BuildEvents, event

-----------------------------------------------------------------------------
(* What a catalog and the events behind it have to do with each other.  The *)
(* events of the segments of a catalog are a function L from the positions  *)
(* of its segments to sequences of events: what the files hold, or what     *)
(* they will hold once a BufWriter is flushed.                              *)

EventsOf(lines) == [i \in DOMAIN lines |-> lines[i].ev]

Contents(c, files) == [k \in 1..Len(c.segs) |-> EventsOf(files[c.segs[k].id].lines)]

\* The bytes of the lines of some events.
Bytes(events) ==
  Cardinality(UNION {{i} \X (1..Size[events[i].pay]) : i \in DOMAIN events})

\* Size is the bytes of one line.
LEMMA SizeType ==
  ASSUME NEW e \in Event
  PROVE  Size[e.pay] \in Nat /\ e.pay \in Payloads
BY SizeAssumption DEF Event

\* The events of a file are as many as its lines.
LEMMA EventsOfType ==
  ASSUME NEW lines \in Seq(Line)
  PROVE  /\ EventsOf(lines) \in Seq(Event)
         /\ Len(EventsOf(lines)) = Len(lines)
         /\ DOMAIN EventsOf(lines) = 1..Len(lines)
         /\ \A i \in 1..Len(lines) : EventsOf(lines)[i] = lines[i].ev
         /\ EventsOf(lines) = << >> <=> lines = << >>
         /\ BytesOf(lines) = Bytes(EventsOf(lines))
<1>1. \A i \in 1..Len(lines) : lines[i].ev \in Event
  <2> SUFFICES ASSUME NEW i \in 1..Len(lines) PROVE lines[i].ev \in Event
    OBVIOUS
  <2>1. lines[i] \in Line
    OBVIOUS
  <2> QED BY <2>1 DEF Line
<1>2. DOMAIN lines = 1..Len(lines) /\ Len(lines) \in Nat
  OBVIOUS
<1>3. EventsOf(lines) = [i \in 1..Len(lines) |-> lines[i].ev]
  BY <1>2 DEF EventsOf
<1>4. EventsOf(lines) \in Seq(Event) /\ Len(EventsOf(lines)) = Len(lines)
  BY <1>1, <1>2, <1>3
<1>5. BytesOf(lines) = Bytes(EventsOf(lines))
  <2>1. DOMAIN lines = DOMAIN EventsOf(lines)
    BY <1>2, <1>3
  <2>2. \A i \in DOMAIN lines : lines[i].ev = EventsOf(lines)[i]
    BY <1>2, <1>3
  <2>3. {{i} \X (1..Size[lines[i].ev.pay]) : i \in DOMAIN lines} =
        {{i} \X (1..Size[EventsOf(lines)[i].pay]) : i \in DOMAIN EventsOf(lines)}
    BY <2>1, <2>2, Zenon
  <2> QED BY <2>3 DEF BytesOf, Bytes
<1> QED BY <1>2, <1>3, <1>4, <1>5

\* No events have no bytes.
LEMMA BytesOfNone == Bytes(<< >>) = 0
<1>1. DOMAIN << >> = {}
  OBVIOUS
<1>2. UNION {{i} \X (1..Size[<< >>[i].pay]) : i \in DOMAIN << >>} = {}
  BY <1>1
<1> QED BY <1>2, FS_EmptySet DEF Bytes

\* The lines of a segment have finitely many bytes, and one more line adds its own.
LEMMA BytesOfOneMore ==
  ASSUME NEW s \in Seq(Event), NEW e \in Event
  PROVE  /\ Bytes(s) \in Nat
         /\ Bytes(Append(s, e)) = Bytes(s) + Size[e.pay]
<1> DEFINE t == Append(s, e)
           n == Len(s)
           U == UNION {{i} \X (1..Size[s[i].pay]) : i \in DOMAIN s}
           W == UNION {{i} \X (1..Size[t[i].pay]) : i \in DOMAIN t}
           V == {n + 1} \X (1..Size[e.pay])
<1>1. /\ n \in Nat /\ DOMAIN s = 1..n /\ DOMAIN t = 1..(n + 1)
      /\ t[n + 1] = e /\ \A i \in 1..n : t[i] = s[i]
  OBVIOUS
<1>2. IsFiniteSet(U)
  <2> DEFINE line(i) == [ev |-> s[i], nl |-> TRUE]
             lines == [i \in 1..n |-> line(i)]
             ofLine(i) == {i} \X (1..Size[s[i].pay])
             f == [i \in 1..n |-> ofLine(i)]
             T == {ofLine(i) : i \in 1..n}
  <2>1. IsFiniteSet(1..n)
    BY <1>1, FS_Interval
  <2>2. \A i \in 1..n : IsFiniteSet(ofLine(i))
    <3> SUFFICES ASSUME NEW i \in 1..n PROVE IsFiniteSet(ofLine(i))
      OBVIOUS
    <3>1. s[i] \in Event
      BY <1>1
    <3>2. Size[s[i].pay] \in Int /\ 1 \in Int
      BY <3>1, SizeType
    <3>3. IsFiniteSet(1..Size[s[i].pay])
      <4> HIDE DEF n
      <4> QED BY <3>2, FS_Interval
    <3>4. IsFiniteSet({i})
      BY FS_Singleton
    <3> QED BY <3>3, <3>4, FS_Product
  <2> HIDE DEF ofLine
  <2>3. f \in Surjection(1..n, T)
    BY DEF Surjection
  <2>4. IsFiniteSet(T)
    BY <2>1, <2>3, FS_Surjection
  <2>5. IsFiniteSet(UNION T)
    <3>1. \A S \in T : IsFiniteSet(S)
      BY <2>2
    <3> QED BY <2>4, <3>1, FS_UNION
  <2>6. U = UNION T
    BY <1>1 DEF ofLine
  <2> QED BY <2>5, <2>6
<1>3. IsFiniteSet(V) /\ Cardinality(V) = Size[e.pay]
  <2>1. Size[e.pay] \in Nat /\ Size[e.pay] \in Int /\ 1 \in Int
    BY SizeType
  <2>2. IsFiniteSet(1..Size[e.pay]) /\ Cardinality(1..Size[e.pay]) = Size[e.pay]
    <3>1. IsFiniteSet(1..Size[e.pay])
          /\ Cardinality(1..Size[e.pay]) = IF 1 > Size[e.pay] THEN 0 ELSE Size[e.pay] - 1 + 1
      BY <2>1, FS_Interval
    <3> QED BY <2>1, <3>1
  <2>3. IsFiniteSet({n + 1}) /\ Cardinality({n + 1}) = 1
    BY FS_Singleton
  <2>4. IsFiniteSet(V) /\ Cardinality(V) = Cardinality({n + 1}) * Cardinality(1..Size[e.pay])
    BY <2>2, <2>3, FS_Product
  <2> HIDE DEF V
  <2> QED BY <2>1, <2>2, <2>3, <2>4
<1>4. W = U \union V
  <2> DEFINE part(i) == {i} \X (1..Size[t[i].pay])
  <2>1. \A i \in 1..n : {i} \X (1..Size[s[i].pay]) = part(i)
    BY <1>1, Zenon
  <2>2. DOMAIN t = DOMAIN s \union {n + 1} /\ DOMAIN s = 1..n
    BY <1>1
  <2>3. V = part(n + 1)
    BY <1>1, Zenon
  <2>4. U = UNION {part(i) : i \in DOMAIN s}
    BY <2>1, <2>2
  <2>5. W = UNION {part(i) : i \in DOMAIN t}
    OBVIOUS
  <2> HIDE DEF part, U, V, W, t, n
  <2> QED BY <2>2, <2>3, <2>4, <2>5
<1>5. U \intersect V = {}
  <2>1. n + 1 \notin DOMAIN s
    BY <1>1
  <2> HIDE DEF n
  <2> QED BY <2>1
<1> HIDE DEF U, V, W, t
<1>6. Cardinality(U) \in Nat
  BY <1>2, FS_CardinalityType
<1>7. Cardinality(W) = Cardinality(U) + Cardinality(V) - 0
  BY <1>2, <1>3, <1>4, <1>5, FS_Union, FS_EmptySet
<1>8. Size[e.pay] \in Nat
  BY SizeType
<1>9. Cardinality(W) = Cardinality(U) + Size[e.pay]
  BY <1>3, <1>6, <1>7, <1>8
<1> QED BY <1>6, <1>9 DEF Bytes, U, W, t

AllEvents(L) == {e \in Event : \E k \in DOMAIN L : \E i \in 1..Len(L[k]) : e = L[k][i]}

\* The digest a log has in front of its segment k.
Before(c, k) == IF k = 1 THEN Genesis ELSE c.segs[k - 1].last

\* Segment ids, seals and header links of a catalog, whatever the files hold.
Linked(c) ==
  /\ c.active = Len(c.segs)
  /\ \A k \in 1..Len(c.segs) :
       /\ c.segs[k].id = <<c.segs[k].start, k - 1>>
       /\ c.segs[k].sealed <=> k # Len(c.segs)
       /\ c.segs[k].prev = IF k = 1 THEN NoSegment ELSE HeaderDigest(c.segs[k - 1])

\* The events are one hash chain, cut where the segments start.
Chained(c, L) ==
  \A k \in 1..Len(c.segs) :
    /\ c.segs[k].start = IF k = 1 THEN 0 ELSE c.segs[k - 1].start + Len(L[k - 1])
    /\ \A i \in 1..Len(L[k]) :
         /\ L[k][i].sound
         /\ L[k][i].seq = c.segs[k].start + i - 1
         /\ L[k][i].prev = IF i = 1 THEN Before(c, k) ELSE DigestOf(L[k][i - 1])

\* An entry says what the events of its segment are.
Described(entry, events, before) ==
  /\ entry.count = Len(events)
  /\ entry.bytes = Bytes(events)
  /\ entry.last = IF events = << >> THEN before ELSE DigestOf(events[Len(events)])
  /\ entry.end = IF events = << >> THEN SaturatingPred(entry.start) ELSE events[Len(events)].seq

\* Where a catalog says the log ends.
TailAt(c, L) ==
  /\ c.head = Before(c, Len(c.segs) + 1)
  /\ c.next = IF Len(c.segs) = 0 THEN 0 ELSE c.segs[Len(c.segs)].start + Len(L[Len(c.segs)])
  /\ \A e \in AllEvents(L) : e.ns = c.ns

\* A catalog that is right in everything, as the lock holder's is.
Exact(c, L) ==
  /\ Linked(c)
  /\ Chained(c, L)
  /\ \A k \in 1..Len(c.segs) : Described(c.segs[k], L[k], Before(c, k))
  /\ TailAt(c, L)

\* A catalog as a kill may leave it on disk: right but for the tail, and right
\* in the tail too when the last segment is empty and says nothing of it.
OnDisk(c, L) ==
  /\ Linked(c)
  /\ Chained(c, L)
  /\ \A k \in 1..Len(c.segs) :
       k # Len(c.segs) \/ L[k] = << >> => Described(c.segs[k], L[k], Before(c, k))
  /\ \A d, e \in AllEvents(L) : d.ns = e.ns
  /\ Len(c.segs) = 0 => c.head = Genesis /\ c.next = 0
  /\ Len(c.segs) # 0 /\ L[Len(c.segs)] = << >> =>
       c.head = c.segs[Len(c.segs)].last /\ \A e \in AllEvents(L) : e.ns = c.ns

\* m is a later catalog of the log c describes: it has the segments of c, and
\* the sealed ones as they are.
Follows(c, m) ==
  \A k \in 1..Len(c.segs) :
    /\ k <= Len(m.segs)
    /\ m.segs[k].id = c.segs[k].id
    /\ m.segs[k].start = c.segs[k].start
    /\ k # Len(c.segs) => m.segs[k] = c.segs[k]

\* A sequence with another element at one of its positions.
LEMMA Replaced ==
  ASSUME NEW S, NEW s \in Seq(S), NEW n \in 1..Len(s), NEW x \in S,
         NEW t, t = [s EXCEPT ![n] = x]
  PROVE  /\ t \in Seq(S) /\ Len(t) = Len(s) /\ t[n] = x
         /\ \A k \in 1..Len(s) : k # n => t[k] = s[k]
OBVIOUS

\* The segments of a catalog are entries.
LEMMA SegsType ==
  ASSUME NEW c \in Catalog
  PROVE  /\ Len(c.segs) \in Nat /\ DOMAIN c.segs = 1..Len(c.segs)
         /\ \A k \in 1..Len(c.segs) : c.segs[k] \in Entry
         /\ \A k \in 1..Len(c.segs) : c.segs[k].start \in Nat /\ c.segs[k].last \in Digest
         /\ \A k \in 1..Len(c.segs) : c.segs[k].sealed \in BOOLEAN
         /\ c.segs = << >> <=> Len(c.segs) = 0
<1>1. c.segs \in Seq(Entry)
  BY DEF Catalog
<1>2. \A k \in 1..Len(c.segs) : c.segs[k] \in Entry
  BY <1>1
<1>3. \A k \in 1..Len(c.segs) : c.segs[k].start \in Nat /\ c.segs[k].last \in Digest
  BY <1>2 DEF Entry
<1>4. \A k \in 1..Len(c.segs) : c.segs[k].sealed \in BOOLEAN
  BY <1>2 DEF Entry
<1> QED BY <1>1, <1>2, <1>3, <1>4

\* Sealing an entry changes no other field, so not the header's hash either.
LEMMA SealedFields ==
  ASSUME NEW entry \in Entry, NEW s, s = [entry EXCEPT !.sealed = TRUE]
  PROVE  /\ s.id = entry.id /\ s.start = entry.start /\ s.end = entry.end
         /\ s.last = entry.last /\ s.prev = entry.prev
         /\ s.count = entry.count /\ s.bytes = entry.bytes
         /\ s.sealed
         /\ HeaderDigest(s) = HeaderDigest(entry)
<1>1. /\ s.id = entry.id /\ s.start = entry.start /\ s.end = entry.end
      /\ s.last = entry.last /\ s.prev = entry.prev /\ s.ns = entry.ns /\ s.first = entry.first
      /\ s.count = entry.count /\ s.bytes = entry.bytes
  BY DEF Entry
<1>2. s.sealed
  BY DEF Entry
<1> QED BY <1>1, <1>2 DEF HeaderDigest

\* A catalog that is right in everything may be written to disk.
LEMMA ExactOnDisk ==
  ASSUME NEW c \in Catalog, NEW L \in [1..Len(c.segs) -> Seq(Event)], Exact(c, L)
  PROVE  OnDisk(c, L)
<1>1. Len(c.segs) \in Nat
  BY SegsType
<1>2. \A d, e \in AllEvents(L) : d.ns = e.ns
  BY DEF Exact, TailAt
<1>3. Len(c.segs) = 0 => c.head = Genesis /\ c.next = 0
  BY DEF Exact, TailAt, Before
<1>4. Len(c.segs) # 0 => c.head = c.segs[Len(c.segs)].last
  BY <1>1 DEF Exact, TailAt, Before
<1>5. \A e \in AllEvents(L) : e.ns = c.ns
  BY DEF Exact, TailAt
<1> QED BY <1>2, <1>3, <1>4, <1>5 DEF Exact, OnDisk

\* Lines that reach the files of the segments a catalog on disk knows leave it
\* right, whether or not the catalog in memory has a segment more.
LEMMA OnDiskCatchesUp ==
  ASSUME NEW c \in Catalog, NEW m \in Catalog,
         NEW L \in [1..Len(c.segs) -> Seq(Event)],
         NEW M \in [1..Len(m.segs) -> Seq(Event)],
         NEW K \in [1..Len(c.segs) -> Seq(Event)],
         OnDisk(c, L), Exact(m, M), Follows(c, m),
         \A k \in 1..Len(c.segs) : K[k] = M[k],
         Len(c.segs) # 0 /\ K[Len(c.segs)] = << >> => K = L
  PROVE  OnDisk(c, K)
<1> DEFINE n == Len(c.segs)
<1>1. n \in Nat /\ Len(m.segs) \in Nat
  BY SegsType
<1>2. CASE n # 0 /\ K[n] = << >>
  BY <1>2
<1>3. CASE n = 0
  <2>1. K = L
    BY <1>3
  <2> QED BY <2>1
<1>4. CASE n # 0 /\ K[n] # << >>
  <2>1. \A k \in 1..n : /\ k \in 1..Len(m.segs) /\ m.segs[k].start = c.segs[k].start
                        /\ Before(c, k) = Before(m, k)
                        /\ K[k] = M[k]
                        /\ k # n => m.segs[k] = c.segs[k]
    BY <1>1, SMTT(20) DEF Follows, Before
  <2>2. Linked(c)
    BY DEF OnDisk
  <2>3. Chained(c, K)
    <3>1. Chained(m, M)
      BY DEF Exact
    <3> SUFFICES ASSUME NEW k \in 1..n
                 PROVE  /\ c.segs[k].start = IF k = 1 THEN 0 ELSE c.segs[k - 1].start + Len(K[k - 1])
                        /\ \A i \in 1..Len(K[k]) :
                             /\ K[k][i].sound
                             /\ K[k][i].seq = c.segs[k].start + i - 1
                             /\ K[k][i].prev = IF i = 1 THEN Before(c, k) ELSE DigestOf(K[k][i - 1])
      BY DEF Chained
    <3>2. k # 1 => k - 1 \in 1..n
      BY <1>1
    <3>3. k \in 1..Len(m.segs) /\ m.segs[k].start = c.segs[k].start
          /\ K[k] = M[k] /\ Before(c, k) = Before(m, k)
      BY <2>1
    <3>4. m.segs[k].start = IF k = 1 THEN 0 ELSE m.segs[k - 1].start + Len(M[k - 1])
      BY <3>1, <3>3 DEF Chained
    <3>5. \A i \in 1..Len(M[k]) :
            /\ M[k][i].sound
            /\ M[k][i].seq = m.segs[k].start + i - 1
            /\ M[k][i].prev = IF i = 1 THEN Before(m, k) ELSE DigestOf(M[k][i - 1])
      BY <3>1, <3>3 DEF Chained
    <3>6. k # 1 => m.segs[k - 1].start = c.segs[k - 1].start /\ K[k - 1] = M[k - 1]
      BY <2>1, <3>2
    <3> HIDE DEF n
    <3>7. c.segs[k].start = IF k = 1 THEN 0 ELSE c.segs[k - 1].start + Len(K[k - 1])
      BY <3>3, <3>4, <3>6
    <3> QED BY <3>3, <3>5, <3>7
  <2>4. \A k \in 1..n : k # n => Described(c.segs[k], K[k], Before(c, k))
    BY <2>1 DEF Exact
  <2>5. \A k \in 1..n : K[k] = << >> => k # n
    BY <1>4
  <2>6. AllEvents(K) \subseteq AllEvents(M)
    BY <2>1 DEF AllEvents
  <2>7. \A d, e \in AllEvents(K) : d.ns = e.ns
    BY <2>6 DEF Exact, TailAt
  <2> HIDE DEF n
  <2> QED BY <1>4, <2>2, <2>3, <2>4, <2>5, <2>7 DEF OnDisk, n
<1> QED BY <1>2, <1>3, <1>4

\* The events of the files of a catalog's segments.
LEMMA ContentsType ==
  ASSUME NEW files, NEW c \in Catalog, CatalogOK(c, files),
         \A id \in DOMAIN files : files[id] \in File
  PROVE  /\ Contents(c, files) \in [1..Len(c.segs) -> Seq(Event)]
         /\ \A k \in 1..Len(c.segs) :
              /\ files[c.segs[k].id].lines \in Seq(Line)
              /\ Contents(c, files)[k] = EventsOf(files[c.segs[k].id].lines)
<1>1. DOMAIN c.segs = 1..Len(c.segs)
  BY SegsType
<1>2. \A k \in 1..Len(c.segs) : files[c.segs[k].id].lines \in Seq(Line)
  BY <1>1 DEF CatalogOK, File
<1>3. \A k \in 1..Len(c.segs) : EventsOf(files[c.segs[k].id].lines) \in Seq(Event)
  BY <1>2, EventsOfType
<1> QED BY <1>2, <1>3 DEF Contents

\* What an update from the file sets in an entry, and what it keeps.
LEMMA RefreshedFields ==
  ASSUME NEW entry \in Entry, NEW lines \in Seq(Line), lines # << >>,
         NEW r, r = Refreshed(entry, lines)
  PROVE  /\ r.id = entry.id /\ r.start = entry.start /\ r.prev = entry.prev
         /\ r.sealed = entry.sealed
         /\ \A before : Described(r, EventsOf(lines), before)
<1> DEFINE n == Len(lines)
           events == EventsOf(lines)
<1>1. /\ r.id = entry.id /\ r.start = entry.start /\ r.prev = entry.prev
      /\ r.end = lines[n].ev.seq /\ r.last = DigestOf(lines[n].ev)
      /\ r.count = n /\ r.bytes = BytesOf(lines)
  BY DEF Refreshed, Entry
<1>2. r.sealed = entry.sealed
  BY DEF Refreshed, Entry
<1>3. n \in 1..n
  OBVIOUS
<1>4. /\ Len(events) = n /\ events # << >> /\ events[n] = lines[n].ev
      /\ BytesOf(lines) = Bytes(events)
  BY <1>3, EventsOfType
<1> HIDE DEF n, events
<1>5. \A before : Described(r, events, before)
  BY <1>1, <1>4 DEF Described
<1> QED BY <1>1, <1>2, <1>5 DEF events

\* A catalog whose last entry alone is another, with its place and its links,
\* is as well linked, and its events are as well chained.
LEMMA LastEntryChanged ==
  ASSUME NEW c \in Catalog, NEW r \in Catalog, Len(r.segs) = Len(c.segs), r.active = c.active,
         NEW L \in [1..Len(c.segs) -> Seq(Event)], Linked(c), Chained(c, L),
         \A k \in 1..Len(c.segs) : k # Len(c.segs) => r.segs[k] = c.segs[k],
         Len(c.segs) # 0 =>
           /\ r.segs[Len(c.segs)].id = c.segs[Len(c.segs)].id
           /\ r.segs[Len(c.segs)].start = c.segs[Len(c.segs)].start
           /\ r.segs[Len(c.segs)].prev = c.segs[Len(c.segs)].prev
           /\ r.segs[Len(c.segs)].sealed = c.segs[Len(c.segs)].sealed
  PROVE  /\ Linked(r) /\ Chained(r, L) /\ Follows(c, r)
         /\ \A k \in 1..Len(c.segs) : Before(r, k) = Before(c, k)
<1> DEFINE n == Len(c.segs)
<1>1. n \in Nat
  BY SegsType
<1>2. \A k \in 1..n : /\ r.segs[k].id = c.segs[k].id /\ r.segs[k].start = c.segs[k].start
                      /\ r.segs[k].prev = c.segs[k].prev
                      /\ r.segs[k].sealed = c.segs[k].sealed
  <2> SUFFICES ASSUME NEW k \in 1..n
               PROVE  /\ r.segs[k].id = c.segs[k].id /\ r.segs[k].start = c.segs[k].start
                      /\ r.segs[k].prev = c.segs[k].prev
                      /\ r.segs[k].sealed = c.segs[k].sealed
    OBVIOUS
  <2>1. CASE k # n
    BY <2>1, Zenon
  <2>2. CASE k = n
    <3>1. n # 0
      BY <1>1, <2>2
    <3> QED BY <2>2, <3>1, Zenon
  <2> QED BY <2>1, <2>2
<1>3. \A k \in 1..n : k # 1 => k - 1 \in 1..n /\ r.segs[k - 1] = c.segs[k - 1]
  BY <1>1
<1>4. \A k \in 1..n : Before(r, k) = Before(c, k)
  BY <1>3 DEF Before
<1>5. Linked(r)
  <2>1. r.active = Len(r.segs)
    BY DEF Linked
  <2>2. \A k \in 1..n : r.segs[k].id = <<r.segs[k].start, k - 1>>
    BY <1>2 DEF Linked
  <2>3. \A k \in 1..n : r.segs[k].prev = IF k = 1 THEN NoSegment ELSE HeaderDigest(r.segs[k - 1])
    BY <1>2, <1>3 DEF Linked
  <2>4. \A k \in 1..n : r.segs[k].sealed <=> k # n
    BY <1>2, Zenon DEF Linked
  <2> QED BY <2>1, <2>2, <2>3, <2>4 DEF Linked
<1>6. Chained(r, L)
  <2>1. \A k \in 1..n : r.segs[k].start = IF k = 1 THEN 0 ELSE r.segs[k - 1].start + Len(L[k - 1])
    BY <1>2, <1>3, SMTT(20) DEF Chained
  <2>2. \A k \in 1..n : \A i \in 1..Len(L[k]) :
          /\ L[k][i].sound
          /\ L[k][i].seq = r.segs[k].start + i - 1
          /\ L[k][i].prev = IF i = 1 THEN Before(r, k) ELSE DigestOf(L[k][i - 1])
    BY <1>2, <1>4 DEF Chained
  <2> QED BY <2>1, <2>2 DEF Chained
<1>7. Follows(c, r)
  BY <1>1, <1>2 DEF Follows
<1> QED BY <1>4, <1>5, <1>6, <1>7

\* Of a catalog whose last segment is the active one, reconciliation changes
\* only the last entry, and of that not the place.
LEMMA ReconcileKeeps ==
  ASSUME NEW files, NEW c \in Catalog, CatalogOK(c, files), c.active = Len(c.segs),
         \A id \in DOMAIN files : files[id] \in File,
         NEW r, r = Reconcile(c, files)
  PROVE  /\ r \in Catalog /\ Len(r.segs) = Len(c.segs) /\ r.active = c.active
         /\ \A k \in 1..Len(c.segs) : /\ r.segs[k].id = c.segs[k].id
                                      /\ r.segs[k].start = c.segs[k].start
                                      /\ r.segs[k].first = c.segs[k].first
                                      /\ k # Len(c.segs) => r.segs[k] = c.segs[k]
<1> DEFINE n == Len(c.segs)
           lines == ActiveLines(c, files)
           event == lines[Len(lines)].ev
<1>1. n \in Nat /\ c.active = n /\ c.segs \in Seq(Entry) /\ DOMAIN c.segs = 1..n
  BY SegsType DEF Catalog
<1>2. r \in Catalog
  BY ReconcileType
<1>3. CASE n = 0
  <2>1. r = c
    BY <1>1, <1>3 DEF Reconcile, HasActive
  <2> QED BY <1>2, <2>1
<1>4. CASE n # 0
  <2>1. HasActive(c) /\ n \in 1..n /\ ActiveEntry(c) = c.segs[n] /\ c.segs[n] \in Entry
    BY <1>1, <1>4 DEF HasActive, ActiveEntry
  <2>2. lines \in Seq(Line)
    BY <1>1, <2>1 DEF CatalogOK, ActiveLines, File
  <2>3. CASE lines = << >>
    <3>1. r = [c EXCEPT !.next = c.segs[n].start]
      BY <2>1, <2>3 DEF Reconcile
    <3>2. r.segs = c.segs /\ r.active = c.active
      BY <3>1 DEF Catalog
    <3> QED BY <1>2, <3>2
  <2>4. CASE lines # << >>
    <3> DEFINE x == Refreshed(c.segs[n], lines)
               segs == [c.segs EXCEPT ![n] = x]
    <3>1. r = [c EXCEPT !.segs = segs, !.ns = event.ns, !.next = event.seq + 1,
                        !.head = DigestOf(event)]
      BY <1>1, <2>1, <2>4 DEF Reconcile, Catalog
    <3>2. /\ x \in Entry /\ x.id = c.segs[n].id /\ x.start = c.segs[n].start
          /\ x.first = c.segs[n].first
      <4>1. PICK y, ls : y = x /\ ls = lines
        OBVIOUS
      <4>2. y = Refreshed(c.segs[n], ls) /\ ls \in Seq(Line) /\ ls # << >>
        BY <2>2, <2>4, <4>1
      <4>3. y \in Entry /\ y.id = c.segs[n].id /\ y.start = c.segs[n].start
        BY <2>1, <4>2, RefreshedType DEF Refreshed, Entry
      <4>4. y.first = c.segs[n].first
        BY <2>1, <4>2 DEF Refreshed, Entry
      <4> QED BY <4>1, <4>3, <4>4
    <3> HIDE DEF x, event
    <3>3. /\ Len(segs) = n /\ segs[n] = x
          /\ \A k \in 1..n : k # n => segs[k] = c.segs[k]
      BY <1>1, <2>1, <3>2
    <3> HIDE DEF segs
    <3>4. r.segs = segs /\ r.active = c.active
      BY <3>1 DEF Catalog
    <3>5. ASSUME NEW k \in 1..n
          PROVE  /\ segs[k].id = c.segs[k].id /\ segs[k].start = c.segs[k].start
                 /\ segs[k].first = c.segs[k].first
                 /\ k # n => segs[k] = c.segs[k]
      <4>1. CASE k = n
        BY <3>2, <3>3, <4>1
      <4>2. CASE k # n
        BY <3>3, <4>2
      <4> QED BY <4>1, <4>2
    <3> QED BY <1>2, <3>3, <3>4, <3>5
  <2> QED BY <2>3, <2>4
<1> QED BY <1>3, <1>4

\* An event of a segment is one of all events.
LEMMA EventOfSegment ==
  ASSUME NEW n, NEW L \in [1..n -> Seq(Event)], NEW k \in 1..n, NEW i \in 1..Len(L[k])
  PROVE  L[k][i] \in Event /\ L[k][i] \in AllEvents(L)
<1>1. L[k] \in Seq(Event)
  OBVIOUS
<1>2. L[k][i] \in Event
  BY <1>1
<1> QED BY <1>2 DEF AllEvents

\* reconcile_catalog_tail makes a catalog that was right but for its tail right
\* in everything.
LEMMA ReconcileExact ==
  ASSUME NEW files, NEW c \in Catalog, CatalogOK(c, files),
         \A id \in DOMAIN files : files[id] \in File,
         NEW L, L = Contents(c, files), OnDisk(c, L), NEW r, r = Reconcile(c, files)
  PROVE  /\ Exact(r, L)
         /\ Len(r.segs) = Len(c.segs)
         /\ Contents(r, files) = L
         /\ Follows(c, r)
<1> DEFINE n == Len(c.segs)
<1>1. /\ n \in Nat /\ c.active = n
      /\ L \in [1..n -> Seq(Event)]
      /\ \A k \in 1..n : files[c.segs[k].id].lines \in Seq(Line)
                         /\ L[k] = EventsOf(files[c.segs[k].id].lines)
      /\ \A k \in 1..n : c.segs[k] \in Entry
  BY SegsType, ContentsType DEF OnDisk, Linked
<1>2. r \in Catalog
  BY ReconcileType
<1>3. ASSUME Len(r.segs) = n, \A k \in 1..n : r.segs[k].id = c.segs[k].id
      PROVE  Contents(r, files) = L
  BY <1>3 DEF Contents
<1>4. CASE n = 0
  <2>1. r = c
    BY <1>1, <1>4 DEF Reconcile, HasActive
  <2>2. \A e \in AllEvents(L) : e.ns = c.ns
    BY <1>1, <1>4 DEF AllEvents
  <2>3. Exact(c, L)
    BY <1>1, <1>4, <2>2 DEF OnDisk, Exact, TailAt, Before
  <2>4. Follows(c, c)
    BY <1>4 DEF Follows
  <2> QED BY <2>1, <2>3, <2>4
<1>5. CASE n # 0 /\ L[n] = << >>
  <2>0. n \in 1..n
    BY <1>1, <1>5
  <2>1. ActiveLines(c, files) = << >> /\ HasActive(c) /\ ActiveEntry(c) = c.segs[n]
    BY <1>1, <1>5, <2>0, EventsOfType DEF ActiveLines, ActiveEntry, HasActive
  <2>2. r = [c EXCEPT !.next = c.segs[n].start]
    BY <2>1 DEF Reconcile
  <2>3. r.segs = c.segs /\ r.active = c.active /\ r.head = c.head /\ r.ns = c.ns
        /\ r.next = c.segs[n].start
    BY <2>2 DEF Catalog
  <2>4. Linked(r) /\ Chained(r, L)
    BY <2>3 DEF OnDisk, Linked, Chained, Before
  <2>5. \A k \in 1..n : Described(c.segs[k], L[k], Before(c, k))
    BY <1>5 DEF OnDisk
  <2>6. c.head = c.segs[n].last /\ \A e \in AllEvents(L) : e.ns = c.ns
    BY <1>5 DEF OnDisk
  <2>7. c.segs[n].start + Len(L[n]) = c.segs[n].start
    BY <1>1, <1>5, <2>0, SegsType
  <2>8. n + 1 # 1 /\ (n + 1) - 1 = n
    BY <1>1, <1>5
  <2> HIDE DEF n
  <2>9. TailAt(r, L)
    BY <1>5, <2>3, <2>6, <2>7, <2>8 DEF TailAt, Before, n
  <2>10. \A k \in 1..n : Before(r, k) = Before(c, k)
    BY <2>3 DEF Before
  <2>11. Exact(r, L)
    BY <2>3, <2>4, <2>5, <2>9, <2>10 DEF Exact, n
  <2>12. Follows(c, r)
    BY <1>1, <2>3 DEF Follows, n
  <2> QED BY <1>3, <2>3, <2>11, <2>12 DEF n
<1>6. CASE n # 0 /\ L[n] # << >>
  <2> DEFINE lines == files[c.segs[n].id].lines
             event == lines[Len(lines)].ev
             new == Refreshed(c.segs[n], lines)
  <2>0. n \in 1..n
    BY <1>1, <1>6
  <2>1. /\ lines \in Seq(Line) /\ lines # << >> /\ L[n] = EventsOf(lines)
        /\ ActiveLines(c, files) = lines /\ HasActive(c) /\ ActiveEntry(c) = c.segs[n]
        /\ c.segs[n] \in Entry /\ Len(lines) \in 1..Len(lines) /\ Len(L[n]) = Len(lines)
        /\ L[n][Len(lines)] = event
    <3>1. lines \in Seq(Line) /\ L[n] = EventsOf(lines) /\ c.segs[n] \in Entry
      BY <1>1, <2>0
    <3>2. lines # << >>
      BY <1>6, <3>1, EventsOfType
    <3>3. Len(lines) \in 1..Len(lines) /\ Len(L[n]) = Len(lines) /\ L[n][Len(lines)] = event
      <4>1. Len(lines) \in 1..Len(lines)
        BY ONLY <3>1, <3>2
      <4>2. /\ Len(EventsOf(lines)) = Len(lines)
            /\ EventsOf(lines)[Len(lines)] = lines[Len(lines)].ev
        BY ONLY <3>1, <4>1, EventsOfType
      <4> QED BY <3>1, <4>1, <4>2
    <3>4. ActiveLines(c, files) = lines /\ HasActive(c) /\ ActiveEntry(c) = c.segs[n]
      BY <1>1, <1>6 DEF ActiveLines, ActiveEntry, HasActive
    <3> QED BY <3>1, <3>2, <3>3, <3>4
  <2>2. r = [c EXCEPT !.segs[c.active] = new, !.ns = event.ns, !.next = event.seq + 1,
                      !.head = DigestOf(event)]
    BY <2>1 DEF Reconcile
  <2>3. /\ r.segs = [c.segs EXCEPT ![n] = new] /\ r.active = n
        /\ r.ns = event.ns /\ r.next = event.seq + 1 /\ r.head = DigestOf(event)
    <3> HIDE DEF new, event, n
    <3> QED BY <1>1, <2>2 DEF Catalog
  <2>4. new \in Entry
    BY <2>1, RefreshedType
  <2>5. /\ Len(r.segs) = n /\ r.segs[n] = new
        /\ \A k \in 1..n : k # n => r.segs[k] = c.segs[k]
    <3>1. c.segs \in Seq(Entry)
      BY DEF Catalog
    <3>2. n \in 1..Len(c.segs) /\ Len(c.segs) = n
      BY <2>0
    <3> HIDE DEF new, n
    <3>3. /\ Len([c.segs EXCEPT ![n] = new]) = Len(c.segs) /\ [c.segs EXCEPT ![n] = new][n] = new
          /\ \A k \in 1..Len(c.segs) : k # n => [c.segs EXCEPT ![n] = new][k] = c.segs[k]
      BY <2>4, <3>1, <3>2, Replaced
    <3> QED BY <2>3, <3>2, <3>3, Zenon
  <2>6. /\ new.id = c.segs[n].id /\ new.start = c.segs[n].start /\ new.prev = c.segs[n].prev
        /\ new.sealed = c.segs[n].sealed
        /\ \A before : Described(new, L[n], before)
    <3>1. PICK x : x = new
      OBVIOUS
    <3> HIDE DEF new, lines
    <3>2. /\ x.id = c.segs[n].id /\ x.start = c.segs[n].start /\ x.prev = c.segs[n].prev
          /\ x.sealed = c.segs[n].sealed
          /\ \A before : Described(x, EventsOf(lines), before)
      BY <2>1, <3>1, RefreshedFields DEF new
    <3> QED BY <2>1, <3>1, <3>2
  <2> HIDE DEF new, event, lines
  <2>7. /\ Linked(r) /\ Chained(r, L) /\ Follows(c, r)
        /\ \A k \in 1..n : Before(r, k) = Before(c, k)
    <3>1. Linked(c) /\ Chained(c, L)
      BY DEF OnDisk
    <3> QED BY <1>1, <1>2, <2>3, <2>5, <2>6, <3>1, LastEntryChanged, SMTT(60)
  <2>8. \A k \in 1..n : Described(r.segs[k], L[k], Before(r, k))
    <3> SUFFICES ASSUME NEW k \in 1..n PROVE Described(r.segs[k], L[k], Before(r, k))
      OBVIOUS
    <3>1. CASE k = n
      BY <2>5, <2>6, <3>1
    <3>2. CASE k # n
      <4>1. Described(c.segs[k], L[k], Before(c, k))
        BY <3>2 DEF OnDisk
      <4> QED BY <2>5, <2>7, <3>2, <4>1
    <3> QED BY <3>1, <3>2
  <2>9. /\ event \in Event /\ event \in AllEvents(L)
        /\ event.seq = c.segs[n].start + Len(L[n]) - 1
    <3>1. event \in Event /\ event \in AllEvents(L)
      BY <1>1, <2>0, <2>1, EventOfSegment
    <3>2. event.seq = c.segs[n].start + Len(L[n]) - 1
      BY <2>0, <2>1 DEF OnDisk, Chained
    <3> QED BY <3>1, <3>2
  <2>10. TailAt(r, L)
    <3>1. \A e \in AllEvents(L) : e.ns = r.ns
      BY <2>3, <2>9 DEF OnDisk
    <3>2. r.head = Before(r, n + 1)
      <4>1. new.last = DigestOf(event)
        BY <2>1, <2>6, <1>6 DEF Described
      <4>2. n + 1 # 1 /\ (n + 1) - 1 = n
        BY <1>1, <1>6
      <4> HIDE DEF n
      <4> QED BY <2>3, <2>5, <4>1, <4>2 DEF Before
    <3>3. r.next = c.segs[n].start + Len(L[n])
      <4>1. c.segs[n].start \in Nat /\ Len(L[n]) \in Nat
        BY <1>1, <2>0, SegsType
      <4> HIDE DEF n
      <4> QED BY <2>3, <2>9, <4>1
    <3>4. r.segs[n].start = c.segs[n].start
      BY <2>5, <2>6
    <3> HIDE DEF n
    <3> QED BY <1>6, <2>5, <3>1, <3>2, <3>3, <3>4 DEF TailAt
  <2>11. \A k \in 1..n : r.segs[k].id = c.segs[k].id
    BY <2>5, <2>6
  <2> HIDE DEF n
  <2> QED BY <1>3, <2>5, <2>7, <2>8, <2>10, <2>11 DEF Exact, n
<1> QED BY <1>4, <1>5, <1>6

\* The events of one segment more, and of n segments with an event more at the end.
NewSegment(L, n) == [k \in 1..(n + 1) |-> IF k = n + 1 THEN << >> ELSE L[k]]
NewEvent(L, n, e) == [k \in 1..n |-> IF k = n THEN Append(L[k], e) ELSE L[k]]

\* A new segment in front of an admissible event: the catalog in memory stays
\* right, it still follows the catalog on disk, and the event stays admissible.
LEMMA RolledExact ==
  ASSUME NEW c \in Catalog, NEW e \in Event, NEW L \in [1..Len(c.segs) -> Seq(Event)],
         Exact(c, L), Admissible(c, e), NEW r, r = Rolled(c, e),
         NEW M, M = NewSegment(L, Len(c.segs))
  PROVE  /\ Exact(r, M)
         /\ Admissible(r, e)
         /\ AllEvents(M) = AllEvents(L)
         /\ \A d : Follows(d, c) /\ Len(d.segs) = Len(c.segs) => Follows(d, r)
<1> DEFINE n == Len(c.segs)
           new == RolledEntry(c, e)
<1>1. n \in Nat /\ c.active = n /\ c.active \in 0..n /\ \A k \in 1..n : c.segs[k] \in Entry
  BY SegsType DEF Exact, Linked
<1>2. /\ r \in Catalog /\ r.active = n + 1 /\ r.ns = c.ns /\ r.next = c.next /\ r.head = c.head
      /\ Len(r.segs) = n + 1 /\ r.segs[n + 1] = new
      /\ \A k \in 1..n : r.segs[k] = IF k = n THEN [c.segs[k] EXCEPT !.sealed = TRUE]
                                              ELSE c.segs[k]
  BY <1>1, RolledType
<1>3. \A k \in 1..n : k # n => r.segs[k] = c.segs[k] /\ c.segs[k].sealed
  BY <1>2 DEF Exact, Linked
<1>4. ASSUME NEW k \in 1..n
      PROVE  /\ r.segs[k].id = c.segs[k].id /\ r.segs[k].start = c.segs[k].start
             /\ r.segs[k].end = c.segs[k].end
             /\ r.segs[k].last = c.segs[k].last /\ r.segs[k].prev = c.segs[k].prev
             /\ r.segs[k].count = c.segs[k].count /\ r.segs[k].bytes = c.segs[k].bytes
             /\ r.segs[k].sealed
             /\ HeaderDigest(r.segs[k]) = HeaderDigest(c.segs[k])
  <2>1. CASE k = n
    <3>1. c.segs[k] \in Entry /\ r.segs[k] = [c.segs[k] EXCEPT !.sealed = TRUE]
      BY <1>1, <1>2, <2>1
    <3> QED BY <3>1, SealedFields
  <2>2. CASE k # n
    <3>1. r.segs[k] = c.segs[k] /\ c.segs[k].sealed
      BY <1>3, <2>2
    <3> QED BY <3>1, Zenon
  <2> QED BY <2>1, <2>2
<1>5. /\ new.id = <<e.seq, n>> /\ new.start = e.seq /\ new.last = c.head
      /\ new.end = SaturatingPred(new.start)
      /\ new.prev = IF c.segs = << >> THEN NoSegment ELSE HeaderDigest(c.segs[n])
      /\ new.count = 0 /\ new.bytes = 0 /\ ~new.sealed
  BY DEF RolledEntry
<1>6. e.seq = c.next /\ e.prev = c.head /\ e.sound /\ (c.ns # NoNamespace => e.ns = c.ns)
  BY DEF Admissible
<1>7. /\ M \in [1..(n + 1) -> Seq(Event)] /\ M[n + 1] = << >> /\ \A k \in 1..n : M[k] = L[k]
      /\ DOMAIN L = 1..n /\ DOMAIN M = 1..(n + 1)
  <2>1. << >> \in Seq(Event) /\ n + 1 \in 1..(n + 1) /\ \A k \in 1..n : k # n + 1 /\ k \in 1..(n + 1)
    BY <1>1
  <2>2. \A k \in 1..(n + 1) : k # n + 1 => k \in 1..n
    BY <1>1
  <2> HIDE DEF n
  <2>3. M = [k \in 1..(n + 1) |-> IF k = n + 1 THEN << >> ELSE L[k]]
    BY DEF NewSegment, n
  <2>4. DOMAIN L = 1..n
    BY DEF n
  <2> QED BY <2>1, <2>2, <2>3, <2>4 DEF n
<1>8. \A k \in 1..(n + 1) : /\ k = n + 1 \/ k \in 1..n
                            /\ k # 1 => k - 1 \in 1..n
  BY <1>1
<1>9. c.segs = << >> <=> n = 0
  BY SegsType
<1> HIDE DEF n, new
<1>10. \A k \in 1..(n + 1) : Before(r, k) = Before(c, k)
  BY <1>4, <1>8 DEF Before
<1>11. Linked(r)
  <2> SUFFICES ASSUME NEW k \in 1..(n + 1)
               PROVE  /\ r.segs[k].id = <<r.segs[k].start, k - 1>>
                      /\ r.segs[k].sealed <=> k # n + 1
                      /\ r.segs[k].prev = IF k = 1 THEN NoSegment ELSE HeaderDigest(r.segs[k - 1])
    BY <1>2 DEF Linked
  <2>1. CASE k = n + 1
    <3>1. k - 1 = n
      BY <1>1, <2>1
    <3>2. r.segs[k].id = <<r.segs[k].start, k - 1>> /\ ~r.segs[k].sealed
      BY <1>2, <1>5, <2>1, <3>1
    <3>3. new.prev = IF k = 1 THEN NoSegment ELSE HeaderDigest(r.segs[k - 1])
      <4>1. CASE n = 0
        <5>1. k = 1
          BY <2>1, <4>1
        <5> QED BY <1>5, <1>9, <4>1, <5>1
      <4>2. CASE n # 0
        <5>1. k # 1 /\ k - 1 \in 1..n
          BY <1>1, <3>1, <4>2
        <5> QED BY <1>4, <1>5, <1>9, <3>1, <4>2, <5>1
      <4> QED BY <4>1, <4>2
    <3> QED BY <1>2, <2>1, <3>2, <3>3, Zenon
  <2>2. CASE k \in 1..n
    <3>1. k # n + 1
      BY <1>1, <2>2
    <3>2. r.segs[k].id = <<r.segs[k].start, k - 1>> /\ r.segs[k].sealed
      <4>1. c.segs[k].id = <<c.segs[k].start, k - 1>>
        BY <2>2 DEF Exact, Linked, n
      <4> QED BY <1>4, <2>2, <4>1, Zenon
    <3>3. c.segs[k].prev = IF k = 1 THEN NoSegment ELSE HeaderDigest(c.segs[k - 1])
      BY <2>2 DEF Exact, Linked, n
    <3>4. r.segs[k].prev = IF k = 1 THEN NoSegment ELSE HeaderDigest(r.segs[k - 1])
      BY <1>4, <1>8, <2>2, <3>3
    <3> QED BY <3>1, <3>2, <3>4, Zenon
  <2> QED BY <1>8, <2>1, <2>2
<1>12. Chained(r, M)
  <2>1. ASSUME NEW k \in 1..(n + 1)
        PROVE  r.segs[k].start = IF k = 1 THEN 0 ELSE r.segs[k - 1].start + Len(M[k - 1])
    <3>1. CASE k = n + 1
      <4>1. k - 1 = n /\ (k = 1 <=> n = 0)
        BY <1>1, <3>1
      <4>2. c.next = IF n = 0 THEN 0 ELSE c.segs[n].start + Len(L[n])
        BY DEF Exact, TailAt, n
      <4>3. n # 0 => n \in 1..n
        BY <1>1
      <4>4. r.segs[k].start = c.next
        BY <1>2, <1>5, <1>6, <3>1
      <4> QED BY <1>4, <1>7, <4>1, <4>2, <4>3, <4>4
    <3>2. CASE k \in 1..n
      <4>1. c.segs[k].start = IF k = 1 THEN 0 ELSE c.segs[k - 1].start + Len(L[k - 1])
        BY <3>2 DEF Exact, Chained, n
      <4> QED BY <1>4, <1>7, <1>8, <3>2, <4>1
    <3> QED BY <1>8, <3>1, <3>2
  <2>2. ASSUME NEW k \in 1..(n + 1), NEW i \in 1..Len(M[k])
        PROVE  /\ M[k][i].sound
               /\ M[k][i].seq = r.segs[k].start + i - 1
               /\ M[k][i].prev = IF i = 1 THEN Before(r, k) ELSE DigestOf(M[k][i - 1])
    <3>1. k \in 1..n
      BY <1>7, <1>8
    <3>2. M[k] = L[k] /\ r.segs[k].start = c.segs[k].start /\ Before(r, k) = Before(c, k)
      BY <1>4, <1>7, <1>10, <3>1
    <3>3. /\ L[k][i].sound
          /\ L[k][i].seq = c.segs[k].start + i - 1
          /\ L[k][i].prev = IF i = 1 THEN Before(c, k) ELSE DigestOf(L[k][i - 1])
      BY <3>1, <3>2 DEF Exact, Chained, n
    <3> QED BY <3>2, <3>3
  <2>3. Len(r.segs) = n + 1
    BY <1>2
  <2> QED BY <2>1, <2>2, <2>3, Zenon DEF Chained
<1>13. \A k \in 1..(n + 1) : Described(r.segs[k], M[k], Before(r, k))
  <2> SUFFICES ASSUME NEW k \in 1..(n + 1) PROVE Described(r.segs[k], M[k], Before(r, k))
    OBVIOUS
  <2>1. CASE k = n + 1
    <3>1. c.head = Before(c, n + 1)
      BY DEF Exact, TailAt, n
    <3>2. Len(<< >>) = 0
      OBVIOUS
    <3>3. /\ r.segs[k].last = Before(r, k) /\ r.segs[k].count = Len(<< >>)
          /\ r.segs[k].bytes = Bytes(<< >>) /\ M[k] = << >>
          /\ r.segs[k].end = SaturatingPred(r.segs[k].start)
      BY <1>2, <1>5, <1>7, <1>10, <2>1, <3>1, <3>2, BytesOfNone
    <3> QED BY <3>3 DEF Described
  <2>2. CASE k \in 1..n
    <3>1. Described(c.segs[k], L[k], Before(c, k))
      BY <2>2 DEF Exact, n
    <3> QED BY <1>4, <1>7, <1>10, <2>2, <3>1 DEF Described
  <2> QED BY <1>8, <2>1, <2>2
<1>14. AllEvents(M) = AllEvents(L)
  <2>1. n + 1 \in 1..(n + 1) /\ \A i \in 1..Len(M[n + 1]) : FALSE
    BY <1>1, <1>7
  <2>2. \A k \in 1..n : k \in 1..(n + 1)
    BY <1>1
  <2>3. AllEvents(L) \subseteq AllEvents(M)
    BY <1>7, <2>2 DEF AllEvents
  <2>4. ASSUME NEW d \in AllEvents(M) PROVE d \in AllEvents(L)
    <3>1. PICK k \in 1..(n + 1) : \E i \in 1..Len(M[k]) : d = M[k][i]
      BY <1>7 DEF AllEvents
    <3>2. k \in 1..n /\ M[k] = L[k]
      BY <1>7, <1>8, <2>1, <3>1
    <3> QED BY <1>7, <3>1, <3>2 DEF AllEvents
  <2> QED BY <2>3, <2>4
<1>15. TailAt(r, M)
  <2>1. r.head = Before(r, n + 2)
    <3>1. n + 2 # 1 /\ (n + 2) - 1 = n + 1
      BY <1>1
    <3> QED BY <1>2, <1>5, <3>1 DEF Before
  <2>2. r.next = r.segs[n + 1].start + Len(M[n + 1]) /\ n + 1 # 0 /\ (n + 1) + 1 = n + 2
    <3>1. e.seq \in Nat
      BY DEF Event
    <3>2. r.next = e.seq /\ r.segs[n + 1].start = e.seq /\ Len(M[n + 1]) = 0
      BY <1>2, <1>5, <1>6, <1>7
    <3> QED BY <1>1, <3>1, <3>2
  <2>3. \A d \in AllEvents(M) : d.ns = r.ns
    BY <1>2, <1>14 DEF Exact, TailAt
  <2> QED BY <1>2, <2>1, <2>2, <2>3 DEF TailAt
<1>16. Exact(r, M)
  BY <1>2, <1>11, <1>12, <1>13, <1>15 DEF Exact
<1>17. Admissible(r, e)
  BY <1>2, <1>6 DEF Admissible
<1>18. ASSUME NEW d, Follows(d, c), Len(d.segs) = n PROVE Follows(d, r)
  <2> SUFFICES ASSUME NEW k \in 1..n
               PROVE  /\ k <= Len(r.segs)
                      /\ r.segs[k].id = d.segs[k].id /\ r.segs[k].start = d.segs[k].start
                      /\ k # n => r.segs[k] = d.segs[k]
    BY <1>18 DEF Follows
  <2>1. /\ c.segs[k].id = d.segs[k].id /\ c.segs[k].start = d.segs[k].start
        /\ k # n => c.segs[k] = d.segs[k]
    BY <1>18 DEF Follows
  <2>2. k <= n + 1
    BY <1>1
  <2> QED BY <1>2, <1>3, <1>4, <2>1, <2>2
<1> QED BY <1>14, <1>16, <1>17, <1>18 DEF n

\* A line recorded for an admissible event keeps the catalog in memory right.
LEMMA RecordedExact ==
  ASSUME NEW c \in Catalog, NEW e \in Event, NEW L \in [1..Len(c.segs) -> Seq(Event)],
         Exact(c, L), Admissible(c, e), HasActive(c), NEW r, r = Recorded(c, e),
         NEW M, M = NewEvent(L, Len(c.segs), e)
  PROVE  /\ Exact(r, M)
         /\ r.active = c.active
         /\ Len(r.segs) = Len(c.segs)
         /\ \A k \in 1..Len(c.segs) : r.segs[k].id = c.segs[k].id
         /\ e \in AllEvents(M) /\ AllEvents(L) \subseteq AllEvents(M)
         /\ \A d : Follows(d, c) /\ Len(d.segs) = Len(c.segs) => Follows(d, r)
<1> DEFINE n == Len(c.segs)
           old == c.segs[n]
           new == WithLine(old, e)
<1>1. n \in Nat /\ c.active = n /\ n # 0 /\ n \in 1..n /\ \A k \in 1..n : c.segs[k] \in Entry
  BY SegsType DEF Exact, Linked, HasActive
<1>2. /\ r \in Catalog
      /\ r = [ns     |-> IF c.ns = NoNamespace THEN e.ns ELSE c.ns,
              next   |-> e.seq + 1,
              head   |-> DigestOf(e),
              active |-> n,
              segs   |-> [c.segs EXCEPT ![n] = new]]
      /\ new \in Entry
  BY <1>1, RecordedType DEF ActiveEntry
<1>3. /\ new.id = old.id /\ new.start = old.start /\ new.prev = old.prev
      /\ new.end = e.seq /\ new.last = DigestOf(e)
      /\ new.count = old.count + 1 /\ new.bytes = old.bytes + Size[e.pay]
  <2>1. old \in Entry
    BY <1>1
  <2> HIDE DEF old
  <2> QED BY <2>1 DEF WithLine, Entry
<1>4. new.sealed = old.sealed
  <2>1. old \in Entry
    BY <1>1
  <2> HIDE DEF old
  <2> QED BY <2>1 DEF WithLine, Entry
<1>5. /\ r.active = n /\ r.next = e.seq + 1 /\ r.head = DigestOf(e)
      /\ r.ns = IF c.ns = NoNamespace THEN e.ns ELSE c.ns
      /\ Len(r.segs) = n /\ r.segs[n] = new
      /\ \A k \in 1..n : k # n => r.segs[k] = c.segs[k]
  <2>1. c.segs \in Seq(Entry)
    BY DEF Catalog
  <2>2. n \in 1..Len(c.segs)
    BY <1>1
  <2> HIDE DEF new, n
  <2>3. /\ Len([c.segs EXCEPT ![n] = new]) = Len(c.segs) /\ [c.segs EXCEPT ![n] = new][n] = new
        /\ \A k \in 1..Len(c.segs) : k # n => [c.segs EXCEPT ![n] = new][k] = c.segs[k]
    BY <1>2, <2>1, <2>2, Replaced
  <2>4. r.segs = [c.segs EXCEPT ![n] = new]
    BY <1>2
  <2>5. /\ r.active = n /\ r.next = e.seq + 1 /\ r.head = DigestOf(e)
        /\ r.ns = IF c.ns = NoNamespace THEN e.ns ELSE c.ns
    BY <1>2
  <2> QED BY <2>3, <2>4, <2>5, Zenon DEF n
<1>6. e.seq = c.next /\ e.prev = c.head /\ e.sound /\ (c.ns # NoNamespace => e.ns = c.ns)
  BY DEF Admissible
<1>7. /\ M \in [1..n -> Seq(Event)]
      /\ M[n] = Append(L[n], e)
      /\ \A k \in 1..n : k # n => M[k] = L[k]
      /\ Len(M[n]) = Len(L[n]) + 1 /\ M[n][Len(L[n]) + 1] = e
      /\ \A i \in 1..Len(L[n]) : M[n][i] = L[n][i]
      /\ Len(L[n]) \in Nat
      /\ DOMAIN L = 1..n /\ DOMAIN M = 1..n
  BY <1>1 DEF NewEvent
<1> HIDE DEF n, new, old
<1>8. /\ Linked(r) /\ Chained(r, L) /\ Follows(c, r)
      /\ \A k \in 1..n : Before(r, k) = Before(c, k)
  <2>1. Linked(c) /\ Chained(c, L)
    BY DEF Exact
  <2>2. /\ r.segs[n].id = c.segs[n].id /\ r.segs[n].start = c.segs[n].start
        /\ r.segs[n].prev = c.segs[n].prev /\ r.segs[n].sealed = c.segs[n].sealed
    BY <1>3, <1>4, <1>5 DEF old
  <2>3. r.active = c.active
    BY <1>1, <1>5
  <2> QED BY <1>2, <1>5, <2>1, <2>2, <2>3, LastEntryChanged DEF n
<1>9. /\ c.head = IF L[n] = << >> THEN Before(c, n) ELSE DigestOf(L[n][Len(L[n])])
      /\ c.next = c.segs[n].start + Len(L[n])
      /\ \A d \in AllEvents(L) : d.ns = c.ns
      /\ Described(c.segs[n], L[n], Before(c, n))
  <2>1. Described(c.segs[n], L[n], Before(c, n)) /\ TailAt(c, L)
    BY <1>1 DEF Exact, n
  <2>2. n + 1 # 1 /\ (n + 1) - 1 = n
    BY <1>1
  <2> QED BY <1>1, <2>1, <2>2 DEF TailAt, Described, Before, n
<1>10. r.segs[n].start = c.segs[n].start /\ c.segs[n].start \in Nat
  BY <1>1, <1>3, <1>5, SegsType DEF old, n
<1>11. Chained(r, M)
  <2>1. \A k \in 1..n : k # 1 => k - 1 \in 1..n /\ k - 1 # n
    BY <1>1
  <2>2. \A k \in 1..n : r.segs[k].start = IF k = 1 THEN 0 ELSE r.segs[k - 1].start + Len(M[k - 1])
    <3> SUFFICES ASSUME NEW k \in 1..n
                 PROVE  r.segs[k].start = IF k = 1 THEN 0 ELSE r.segs[k - 1].start + Len(M[k - 1])
      OBVIOUS
    <3>1. r.segs[k].start = IF k = 1 THEN 0 ELSE r.segs[k - 1].start + Len(L[k - 1])
      BY <1>5, <1>8 DEF Chained
    <3>2. k # 1 => M[k - 1] = L[k - 1]
      BY <1>7, <2>1
    <3> QED BY <3>1, <3>2
  <2>3. ASSUME NEW k \in 1..n, NEW i \in 1..Len(M[k])
        PROVE  /\ M[k][i].sound
               /\ M[k][i].seq = r.segs[k].start + i - 1
               /\ M[k][i].prev = IF i = 1 THEN Before(r, k) ELSE DigestOf(M[k][i - 1])
    <3>1. \A j \in 1..Len(L[k]) :
            /\ L[k][j].sound
            /\ L[k][j].seq = r.segs[k].start + j - 1
            /\ L[k][j].prev = IF j = 1 THEN Before(r, k) ELSE DigestOf(L[k][j - 1])
      BY <1>5, <1>8 DEF Chained
    <3>2. CASE k # n
      <4>1. M[k] = L[k]
        BY <1>7, <3>2
      <4> QED BY <3>1, <4>1
    <3>3. CASE k = n /\ i # Len(L[n]) + 1
      <4>1. i \in 1..Len(L[n]) /\ (i # 1 => i - 1 \in 1..Len(L[n]))
        BY <1>7, <3>3
      <4>2. M[n][i] = L[n][i] /\ (i # 1 => M[n][i - 1] = L[n][i - 1])
        BY <1>7, <4>1
      <4> QED BY <3>1, <3>3, <4>1, <4>2, SMTT(20)
    <3>4. CASE k = n /\ i = Len(L[n]) + 1
      <4>1. M[k][i] = e /\ Before(r, k) = Before(c, n)
        BY <1>1, <1>7, <1>8, <3>4
      <4>2. e.seq = r.segs[k].start + i - 1
        BY <1>6, <1>7, <1>9, <1>10, <3>4
      <4>3. e.prev = IF i = 1 THEN Before(c, n) ELSE DigestOf(M[k][i - 1])
        <5>1. CASE i = 1
          <6>1. L[n] = << >>
            <7>1. L[n] \in Seq(Event) /\ Len(L[n]) = 0
              BY <1>1, <1>7, <3>4, <5>1 DEF n
            <7> QED BY <7>1
          <6> QED BY <1>6, <1>9, <5>1, <6>1
        <5>2. CASE i # 1
          <6>1. i - 1 = Len(L[n]) /\ Len(L[n]) \in 1..Len(L[n]) /\ L[n] # << >>
            BY <1>7, <3>4, <5>2
          <6>2. M[k][i - 1] = L[n][Len(L[n])]
            BY <1>7, <3>4, <6>1
          <6> QED BY <1>6, <1>9, <5>2, <6>1, <6>2
        <5> QED BY <5>1, <5>2
      <4> QED BY <1>6, <4>1, <4>2, <4>3
    <3> QED BY <3>2, <3>3, <3>4
  <2>4. Len(r.segs) = n
    BY <1>5
  <2> QED BY <2>2, <2>3, <2>4, Zenon DEF Chained
<1>12. \A k \in 1..n : Described(r.segs[k], M[k], Before(r, k))
  <2> SUFFICES ASSUME NEW k \in 1..n PROVE Described(r.segs[k], M[k], Before(r, k))
    OBVIOUS
  <2>1. CASE k # n
    <3>1. Described(c.segs[k], L[k], Before(c, k))
      BY DEF Exact, n
    <3> QED BY <1>5, <1>7, <1>8, <2>1, <3>1
  <2>2. CASE k = n
    <3>1. L[n] \in Seq(Event)
      BY <1>1 DEF n
    <3>2. new.count = Len(M[n])
      BY <1>3, <1>7, <1>9 DEF Described, old
    <3>3. new.bytes = Bytes(M[n])
      BY <1>3, <1>7, <1>9, <3>1, BytesOfOneMore DEF Described, old
    <3>4. M[n] # << >> /\ M[n][Len(M[n])] = e
      BY <1>7, SMTT(20)
    <3>5. Described(new, M[n], Before(r, n))
      BY <1>3, <3>2, <3>3, <3>4 DEF Described
    <3> QED BY <1>5, <2>2, <3>5
  <2> QED BY <2>1, <2>2
<1>13. e \in AllEvents(M) /\ AllEvents(L) \subseteq AllEvents(M)
       /\ \A d \in AllEvents(M) : d = e \/ d \in AllEvents(L)
  <2>2. Len(L[n]) + 1 \in 1..Len(M[n]) /\ \A i \in 1..Len(L[n]) : i \in 1..Len(M[n])
    BY <1>7
  <2>3. \A i \in 1..Len(M[n]) : i = Len(L[n]) + 1 \/ i \in 1..Len(L[n])
    BY <1>7
  <2>4. e \in AllEvents(M)
    BY <1>1, <1>7, <2>2 DEF AllEvents
  <2>5. ASSUME NEW d \in AllEvents(L) PROVE d \in AllEvents(M)
    <3>1. PICK k \in 1..n : \E i \in 1..Len(L[k]) : d = L[k][i]
      BY <1>7 DEF AllEvents
    <3>2. PICK i \in 1..Len(L[k]) : d = L[k][i]
      BY <3>1
    <3>3. i \in 1..Len(M[k]) /\ d = M[k][i]
      BY <1>7, <2>2, <3>2
    <3> QED BY <1>7, <3>3 DEF AllEvents
  <2>6. ASSUME NEW d \in AllEvents(M) PROVE d = e \/ d \in AllEvents(L)
    <3>1. PICK k \in 1..n : \E i \in 1..Len(M[k]) : d = M[k][i]
      BY <1>7 DEF AllEvents
    <3>2. PICK i \in 1..Len(M[k]) : d = M[k][i]
      BY <3>1
    <3>3. d = e \/ (i \in 1..Len(L[k]) /\ d = L[k][i])
      BY <1>7, <2>3, <3>2
    <3> QED BY <1>7, <3>3 DEF AllEvents
  <2> QED BY <2>4, <2>5, <2>6
<1>14. TailAt(r, M)
  <2>1. r.head = Before(r, n + 1)
    <3>1. n + 1 # 1 /\ (n + 1) - 1 = n
      BY <1>1
    <3> QED BY <1>3, <1>5, <3>1 DEF Before
  <2>2. r.next = r.segs[n].start + Len(M[n])
    BY <1>5, <1>6, <1>7, <1>9, <1>10
  <2>3. \A d \in AllEvents(M) : d.ns = r.ns
    <3>1. CASE c.ns = NoNamespace
      <4>1. AllEvents(L) = {}
        BY <1>9, <3>1, NamespaceAssumption DEF AllEvents, Event
      <4> QED BY <1>5, <1>13, <3>1, <4>1
    <3>2. CASE c.ns # NoNamespace
      BY <1>5, <1>6, <1>9, <1>13, <3>2
    <3> QED BY <3>1, <3>2
  <2> QED BY <1>1, <1>5, <2>1, <2>2, <2>3 DEF TailAt
<1>15. Exact(r, M)
  BY <1>5, <1>8, <1>11, <1>12, <1>14 DEF Exact
<1>16. \A k \in 1..n : r.segs[k].id = c.segs[k].id
  BY <1>8 DEF Follows, n
<1>17. ASSUME NEW d, Follows(d, c), Len(d.segs) = n PROVE Follows(d, r)
  BY <1>5, <1>8, <1>17 DEF Follows, n
<1> QED BY <1>1, <1>5, <1>13, <1>15, <1>16, <1>17 DEF n

\* No two segments of a catalog have the same file.
LEMMA FilesDiffer ==
  ASSUME NEW c \in Catalog, Linked(c),
         NEW j \in 1..Len(c.segs), NEW k \in 1..Len(c.segs), c.segs[j].id = c.segs[k].id
  PROVE  j = k
<1>1. c.segs[j].id = <<c.segs[j].start, j - 1>> /\ c.segs[k].id = <<c.segs[k].start, k - 1>>
  BY DEF Linked
<1>2. \A x, y, a, b : <<x, a>> = <<y, b>> => a = b
  OBVIOUS
<1>3. j - 1 = k - 1
  BY <1>1, <1>2, Zenon
<1> QED BY <1>3, SegsType

-----------------------------------------------------------------------------
(* Sequences. *)

\* The elements of two sequences one after the other.
LEMMA Concatenation ==
  ASSUME NEW S, NEW s \in Seq(S), NEW t \in Seq(S)
  PROVE  /\ s \o t \in Seq(S) /\ Len(s \o t) = Len(s) + Len(t)
         /\ \A i \in 1..Len(s) : (s \o t)[i] = s[i]
         /\ \A i \in 1..(Len(s) + Len(t)) : i > Len(s) => (s \o t)[i] = t[i - Len(s)]
         /\ Len(s) \in Nat /\ Len(t) \in Nat
OBVIOUS

\* Two sequences with the same elements are one.
LEMMA SameElements ==
  ASSUME NEW S, NEW s \in Seq(S), NEW t \in Seq(S), Len(s) = Len(t),
         \A i \in 1..Len(s) : s[i] = t[i]
  PROVE  s = t
OBVIOUS

\* A sequence with one element more.
LEMMA Appended ==
  ASSUME NEW S, NEW s \in Seq(S), NEW x \in S, NEW t, t = Append(s, x)
  PROVE  /\ t \in Seq(S) /\ Len(t) = Len(s) + 1 /\ t[Len(s) + 1] = x /\ t # << >>
         /\ \A i \in 1..Len(s) : t[i] = s[i]
         /\ Len(s) \in Nat /\ DOMAIN s = 1..Len(s)
OBVIOUS

LEMMA AppendedLater ==
  ASSUME NEW S, NEW s \in Seq(S), NEW t \in Seq(S), NEW x \in S
  PROVE  s \o Append(t, x) = Append(s \o t, x)
OBVIOUS

-----------------------------------------------------------------------------
(* Induction over positions, and sequences of sequences end to end.        *)

\* A set of numbers that has 0 and with every number the next has them all.
LEMMA NumberInduction ==
  ASSUME NEW S, 0 \in S, \A n \in Nat : n \in S => n + 1 \in S
  PROVE  \A n \in Nat : n \in S
<1> DEFINE R == OpToRel(<, Nat)
           T == {n \in Nat : n \notin S}
<1> SUFFICES ASSUME T # {} PROVE FALSE
  OBVIOUS
<1>1. IsWellFoundedOn(R, Nat)
  BY NatLessThanWellFounded
<1>2. \A x, y \in Nat : x < y => <<x, y>> \in R
  BY DEF OpToRel
<1> HIDE DEF R
<1>3. T \subseteq Nat
  OBVIOUS
<1>4. PICK x \in T : \A y \in T : <<y, x>> \notin R
  <2> HIDE DEF T
  <2> QED BY <1>1, <1>3, WFMin
<1>5. x \in Nat /\ x # 0
  OBVIOUS
<1>6. x - 1 \in Nat /\ x - 1 < x /\ (x - 1) + 1 = x
  BY <1>5
<1>7. x - 1 \in S
  BY <1>2, <1>4, <1>5, <1>6
<1> QED BY <1>6, <1>7

\* f has the first 1, 2, ... n of the sequences end to end.
EndToEnd(seqs, n, f) == f = [i \in 1..n |-> IF i = 1 THEN seqs[i] ELSE f[i - 1] \o seqs[i]]

LEMMA EndToEndExists ==
  ASSUME NEW seqs, NEW n \in Nat
  PROVE  \E f : EndToEnd(seqs, n, f)
<1> DEFINE S == {m \in Nat : \E f : EndToEnd(seqs, m, f)}
<1>1. 0 \in S
  <2>1. EndToEnd(seqs, 0, [i \in 1..0 |-> << >>])
    BY DEF EndToEnd
  <2> QED BY <2>1
<1>2. ASSUME NEW m \in Nat, m \in S PROVE m + 1 \in S
  <2>1. PICK f : EndToEnd(seqs, m, f)
    BY <1>2
  <2> DEFINE x == IF m = 0 THEN seqs[1] ELSE f[m] \o seqs[m + 1]
             g == [i \in 1..(m + 1) |-> IF i = m + 1 THEN x ELSE f[i]]
  <2>2. ASSUME NEW i \in 1..(m + 1)
        PROVE  g[i] = IF i = 1 THEN seqs[i] ELSE g[i - 1] \o seqs[i]
    <3>1. CASE i = m + 1
      <4>1. i - 1 = m /\ (m # 0 => m \in 1..(m + 1) /\ m # m + 1) /\ (i = 1 <=> m = 0)
        BY <3>1
      <4> QED BY <3>1, <4>1
    <3>2. CASE i # m + 1
      <4>1. i \in 1..m
        BY <3>2
      <4>2. f[i] = IF i = 1 THEN seqs[i] ELSE f[i - 1] \o seqs[i]
        BY <2>1, <4>1 DEF EndToEnd
      <4>3. i # 1 => i - 1 \in 1..(m + 1) /\ i - 1 # m + 1
        BY <4>1
      <4> QED BY <3>2, <4>2, <4>3
    <3> QED BY <3>1, <3>2
  <2>3. EndToEnd(seqs, m + 1, g)
    BY <2>2 DEF EndToEnd
  <2> HIDE DEF g
  <2> QED BY <2>3
<1> HIDE DEF S
<1>3. n \in S
  BY <1>1, <1>2, NumberInduction
<1> QED BY <1>3 DEF S

\* The positions of n sequences once they are end to end: the k-th one comes
\* after starts[k] elements.
CutAt(S, n, seqs, starts) ==
  /\ n \in Nat /\ seqs \in [1..n -> Seq(S)] /\ starts \in [1..n -> Int]
  /\ \A k \in 1..n : starts[k] = IF k = 1 THEN 0 ELSE starts[k - 1] + Len(seqs[k - 1])

Joins(S, n, seqs, starts, all) ==
  /\ all \in Seq(S)
  /\ Len(all) = IF n = 0 THEN 0 ELSE starts[n] + Len(seqs[n])
  /\ \A k \in 1..n : \A i \in 1..Len(seqs[k]) :
       starts[k] + i \in 1..Len(all) /\ all[starts[k] + i] = seqs[k][i]
  /\ \A j \in 1..Len(all) : \E k \in 1..n : \E i \in 1..Len(seqs[k]) : j = starts[k] + i

LEMMA FlattenSeqIs ==
  ASSUME NEW S, NEW n, NEW seqs, NEW starts, CutAt(S, n, seqs, starts)
  PROVE  Joins(S, n, seqs, starts, FlattenSeq(seqs))
<1> USE DEF CutAt, Joins
<1>0. Len(seqs) = n
  OBVIOUS
<1>1. CASE n = 0
  <2>1. seqs = << >> /\ FlattenSeq(seqs) = seqs
    BY <1>0, <1>1 DEF FlattenSeq
  <2>2. << >> \in Seq(S) /\ Len(<< >>) = 0 /\ 1..n = {}
    BY <1>1
  <2>3. FlattenSeq(seqs) \in Seq(S) /\ Len(FlattenSeq(seqs)) = 0
    BY <2>1, <2>2, Zenon
  <2>4. 1..Len(FlattenSeq(seqs)) = {}
    BY <2>3
  <2> QED BY <1>1, <2>2, <2>3, <2>4
<1>2. CASE n # 0
  <2> DEFINE f == CHOOSE g : EndToEnd(seqs, Len(seqs), g)
  <2>1. FlattenSeq(seqs) = f[n]
    <3>1. FlattenSeq(seqs) = f[Len(seqs)]
      BY <1>0, <1>2 DEF FlattenSeq, EndToEnd
    <3> HIDE DEF f
    <3> QED BY <1>0, <3>1
  <2>2. EndToEnd(seqs, n, f)
    <3>1. \E g : EndToEnd(seqs, Len(seqs), g)
      BY <1>0, EndToEndExists
    <3>2. EndToEnd(seqs, Len(seqs), f)
      BY <3>1
    <3> HIDE DEF f
    <3> QED BY <1>0, <3>2
  <2> HIDE DEF f
  <2>3. \A k \in 1..n : f[k] = IF k = 1 THEN seqs[k] ELSE f[k - 1] \o seqs[k]
    BY <2>2 DEF EndToEnd
  <2> DEFINE Good(m) == /\ f[m] \in Seq(S)
                        /\ starts[m] \in Nat
                        /\ Len(f[m]) = starts[m] + Len(seqs[m])
                        /\ \A k \in 1..m : \A i \in 1..Len(seqs[k]) :
                             starts[k] + i \in 1..Len(f[m]) /\ f[m][starts[k] + i] = seqs[k][i]
                        /\ \A j \in 1..Len(f[m]) :
                             \E k \in 1..m : \E i \in 1..Len(seqs[k]) : j = starts[k] + i
             T == {m \in Nat : m + 1 \in 1..n => Good(m + 1)}
  <2>4. 0 \in T
    <3>1. 1 \in 1..n /\ f[1] = seqs[1] /\ starts[1] = 0 /\ seqs[1] \in Seq(S)
      BY <1>2, <2>3
    <3>2. \A j \in 1..Len(f[1]) : \E k \in 1..1 : \E i \in 1..Len(seqs[k]) : j = starts[k] + i
      <4>1. \A j \in 1..Len(f[1]) : j \in 1..Len(seqs[1]) /\ j = starts[1] + j
        BY <3>1
      <4>2. 1 \in 1..1
        OBVIOUS
      <4> QED BY <4>1, <4>2
    <3>3. Good(1)
      BY <3>1, <3>2
    <3> HIDE DEF Good
    <3> QED BY <3>3
  <2>5. ASSUME NEW m \in Nat, m \in T PROVE m + 1 \in T
    <3> SUFFICES ASSUME m + 2 \in 1..n PROVE Good(m + 2)
      <4> HIDE DEF Good
      <4>1. (m + 1) + 1 = m + 2 /\ m + 1 \in Nat
        OBVIOUS
      <4> QED BY <4>1
    <3>1. m + 1 \in 1..n /\ m + 2 # 1 /\ (m + 2) - 1 = m + 1
      OBVIOUS
    <3>2. Good(m + 1)
      BY <2>5, <3>1
    <3>3. PICK s, t, u, v : /\ s = f[m + 1] /\ t = seqs[m + 2] /\ u = starts[m + 2] /\ v = f[m + 2]
      OBVIOUS
    <3>4. /\ s \in Seq(S) /\ t \in Seq(S) /\ v = s \o t
          /\ starts[m + 1] \in Nat /\ Len(s) = starts[m + 1] + Len(seqs[m + 1])
          /\ u = starts[m + 1] + Len(seqs[m + 1]) /\ seqs[m + 1] \in Seq(S)
      BY <2>3, <3>1, <3>2, <3>3
    <3>5. /\ u = Len(s) /\ u \in Nat /\ v \in Seq(S) /\ Len(v) = u + Len(t) /\ Len(t) \in Nat
          /\ \A i \in 1..Len(s) : v[i] = s[i]
          /\ \A i \in 1..(Len(s) + Len(t)) : i > Len(s) => v[i] = t[i - Len(s)]
      <4>1. u = Len(s)
        BY <3>4
      <4>2. /\ v \in Seq(S) /\ Len(v) = Len(s) + Len(t) /\ Len(s) \in Nat /\ Len(t) \in Nat
            /\ \A i \in 1..Len(s) : v[i] = s[i]
            /\ \A i \in 1..(Len(s) + Len(t)) : i > Len(s) => v[i] = t[i - Len(s)]
        <5>1. s \in Seq(S) /\ t \in Seq(S) /\ v = s \o t
          BY <3>4
        <5> QED BY <5>1, Concatenation
      <4> QED BY <4>1, <4>2
    <3>6. ASSUME NEW k \in 1..(m + 2), NEW i \in 1..Len(seqs[k])
          PROVE  starts[k] + i \in 1..Len(v) /\ v[starts[k] + i] = seqs[k][i]
      <4>1. CASE k = m + 2
        <5>1. i \in 1..Len(t) /\ starts[k] = u /\ seqs[k] = t
          BY <3>3, <4>1
        <5>2. u + i \in 1..(u + Len(t)) /\ u + i > u /\ (u + i) - u = i
          BY <3>5, <5>1
        <5>3. PICK j : j = u + i
          OBVIOUS
        <5>4. j \in 1..(Len(s) + Len(t)) /\ j \in 1..Len(v) /\ j > Len(s) /\ j - Len(s) = i
          BY <3>5, <5>2, <5>3
        <5>5. v[j] = t[j - Len(s)]
          BY <3>5, <5>4, Zenon
        <5>6. u + i \in 1..Len(v) /\ v[u + i] = t[i]
          BY <5>3, <5>4, <5>5
        <5> QED BY <5>1, <5>6
      <4>2. CASE k # m + 2
        <5>1. k \in 1..(m + 1)
          BY <4>2
        <5>2. starts[k] + i \in 1..Len(s) /\ s[starts[k] + i] = seqs[k][i]
          BY <3>2, <3>3, <5>1
        <5>3. 1..Len(s) \subseteq 1..Len(v)
          BY <3>5
        <5> QED BY <3>5, <5>2, <5>3
      <4> QED BY <4>1, <4>2
    <3>7. ASSUME NEW j \in 1..Len(v)
          PROVE  \E k \in 1..(m + 2) : \E i \in 1..Len(seqs[k]) : j = starts[k] + i
      <4>1. CASE j \in 1..Len(s)
        <5>1. \E k \in 1..(m + 1) : \E i \in 1..Len(seqs[k]) : j = starts[k] + i
          BY <3>2, <3>3, <4>1
        <5>2. 1..(m + 1) \subseteq 1..(m + 2)
          OBVIOUS
        <5> QED BY <5>1, <5>2
      <4>2. CASE j \notin 1..Len(s)
        <5>1. PICK i : i = j - u
          OBVIOUS
        <5>2. i \in 1..Len(t) /\ j = u + i
          BY <3>5, <4>2, <5>1
        <5>3. m + 2 \in 1..(m + 2)
          OBVIOUS
        <5> QED BY <3>3, <5>2, <5>3
      <4> QED BY <4>1, <4>2
    <3> QED BY <3>3, <3>5, <3>6, <3>7
  <2>6. n - 1 \in T
    <3> HIDE DEF T
    <3>1. n - 1 \in Nat
      BY <1>2
    <3> QED BY <2>4, <2>5, <3>1, NumberInduction
  <2>7. Good(n)
    <3> HIDE DEF Good
    <3>1. n - 1 \in Nat /\ (n - 1) + 1 = n /\ n \in 1..n
      BY <1>2
    <3> QED BY <2>6, <3>1
  <2> QED BY <1>2, <2>1, <2>7
<1> QED BY <1>1, <1>2
=============================================================================
