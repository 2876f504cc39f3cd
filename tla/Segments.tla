------------------------------ MODULE Segments ------------------------------
(***************************************************************************)
(* The data of TRI-SYNC's segmented event log (src/src/event_log.rs): the  *)
(* events, the segment files they are written to, the catalog that         *)
(* describes the files, and the functions of the code that only compute on *)
(* them.  The operators here take the contents of the disk as an argument; *)
(* EventLog and LogReaders own the disk and say who changes it and when.   *)
(*                                                                         *)
(* A SHA-256 digest is modelled as the history it commits to: the digest   *)
(* of an event is the sequence of the stamps of the events before it and   *)
(* its own, so two digests are equal exactly when all they hash is equal.  *)
(* The all-zero genesis digest is the empty sequence.                      *)
(***************************************************************************)
EXTENDS Integers, Sequences, FiniteSets

CONSTANTS
  Namespaces,   \* tenants whose events may be offered to this log
  NoNamespace,  \* catalog.namespace before the first event
  Payloads,     \* what an event says besides its place in the log
  Size,         \* bytes of the canonical line of a payload, newline included
  MaxEvents,    \* max_events_per_segment
  MaxBytes      \* max_bytes_per_segment

ASSUME NamespaceAssumption == NoNamespace \notin Namespaces
ASSUME SizeAssumption == Size \in [Payloads -> Nat \ {0}]
ASSUME LimitAssumption == MaxEvents \in Nat \ {0} /\ MaxBytes \in Nat

-----------------------------------------------------------------------------
(* Events and digests. *)

Stamp == [seq : Nat, ns : Namespaces, pay : Payloads]
Digest == Seq(Stamp)
Genesis == << >>

\* `sound` says that the stored digest field is the digest of the other fields.
Event == [seq : Nat, ns : Namespaces, pay : Payloads, prev : Digest, sound : BOOLEAN]

\* event.digest of a sound event.
DigestOf(e) == Append(e.prev, [seq |-> e.seq, ns |-> e.ns, pay |-> e.pay])

\* The events a caller builds on a tail it has read: consecutive sequence
\* numbers, each event naming the digest of the one before.  When `flaw` is a
\* position, the event there carries a digest that is not its own.
BuildEvents(next, head, ns, pays, flaw) ==
  LET stamp(j) == [seq |-> next + j - 1, ns |-> ns, pay |-> pays[j]]
  IN  [i \in 1..Len(pays) |->
         [seq   |-> next + i - 1,
          ns    |-> ns,
          pay   |-> pays[i],
          prev  |-> head \o [j \in 1..(i - 1) |-> stamp(j)],
          sound |-> i # flaw]]

-----------------------------------------------------------------------------
(* Segment files.  A file has its header line and the event lines that have  *)
(* reached it.  A line written without its newline (nl = FALSE) runs into    *)
(* whatever is written next.                                                 *)

Line == [ev : Event, nl : BOOLEAN]

\* A segment id is seg-<seq_start>-<number of segments before it>.
SegId == Nat \X Nat

\* The hash of a segment header, as the history of the headers it commits to.
SegStamp == [id : SegId, ns : Namespaces, end : Nat, first : Digest]
SegDigest == Seq(SegStamp)
NoSegment == << >>

Header == [id : SegId, ns : Namespaces, start : Nat, end : Nat, first : Digest, prev : SegDigest]
File == [header : Header, lines : Seq(Line)]

\* SegmentHeader::digest_hex, of a header or of the header of a catalog entry.
HeaderDigest(h) ==
  Append(h.prev, [id |-> h.id, ns |-> h.ns, end |-> h.end, first |-> h.first])

\* Every line is one event: no line but the last lacks its newline.
Parses(lines) == \A i \in DOMAIN lines : i < Len(lines) => lines[i].nl

\* The bytes of the lines of a file (line.len() + 1 each).
BytesOf(lines) ==
  Cardinality(UNION {{i} \X (1..Size[lines[i].ev.pay]) : i \in DOMAIN lines})

-----------------------------------------------------------------------------
(* The catalog. *)

Entry == [id : SegId, ns : Namespaces, start : Nat, end : Nat, first : Digest, last : Digest,
          prev : SegDigest, sealed : BOOLEAN, count : Nat, bytes : Nat]

Catalog == [ns : Namespaces \union {NoNamespace}, next : Nat, head : Digest,
            active : Nat, segs : Seq(Entry)]

\* SegmentCatalog::new.  It also stands for a log without a catalog file: no
\* catalog is ever written without a segment, and the code makes this one when
\* it finds none.  `active` is the position of the active segment, 0 for None.
NewCatalog ==
  [ns |-> NoNamespace, next |-> 0, head |-> Genesis, active |-> 0, segs |-> << >>]

HasActive(c) == c.active # 0
ActiveEntry(c) == c.segs[c.active]
ActiveLines(c, files) == files[ActiveEntry(c).id].lines

\* seq_end of an empty first segment without the saturation.
SaturatingPred_Wraps(n) == n - 1

SaturatingPred(n) == IF n = 0 THEN 0 ELSE n - 1

\* The scan of the active segment's file finds only whole events.
Scannable(c, files) == HasActive(c) => Parses(ActiveLines(c, files))

\* An entry brought up to date with the lines of its file.
Refreshed(entry, lines) ==
  [entry EXCEPT !.end = lines[Len(lines)].ev.seq,
                !.last = DigestOf(lines[Len(lines)].ev),
                !.count = Len(lines),
                !.bytes = BytesOf(lines)]

\* A reconciliation left out.
Reconcile_TrustsCatalog(c, files) == c

\* reconcile_catalog_tail: the file of the active segment, not the catalog,
\* says where the log ends.  Of an empty active segment only next_seq is reset.
Reconcile(c, files) ==
  IF ~HasActive(c)
  THEN c
  ELSE LET lines == ActiveLines(c, files)
       IN  IF lines = << >>
           THEN [c EXCEPT !.next = ActiveEntry(c).start]
           ELSE LET event == lines[Len(lines)].ev
                IN  [c EXCEPT !.segs[c.active] = Refreshed(ActiveEntry(c), lines),
                              !.ns = event.ns,
                              !.next = event.seq + 1,
                              !.head = DigestOf(event)]

\* Appends of one tenant to the log of another.
Admissible_AnyNamespace(c, e) == e.seq = c.next /\ e.prev = c.head /\ e.sound

\* The guards of append_segmented_under_lock, in the order the code has them:
\* sequence, previous digest, own digest, namespace.
Admissible(c, e) ==
  /\ e.seq = c.next
  /\ e.prev = c.head
  /\ e.sound
  /\ c.ns # NoNamespace => e.ns = c.ns

\* needs_new_segment: there is no active segment, or it is full.
NeedsRoll(c, e) ==
  HasActive(c) => \/ ActiveEntry(c).count >= MaxEvents
                  \/ ActiveEntry(c).bytes + Size[e.pay] > MaxBytes

\* The entry roll_segment_if_needed makes for a segment that starts with e.
RolledEntry(c, e) ==
  [id     |-> <<e.seq, Len(c.segs)>>,
   ns     |-> e.ns,
   start  |-> e.seq,
   end    |-> SaturatingPred(e.seq),
   first  |-> DigestOf(e),
   last   |-> c.head,
   prev   |-> IF c.segs = << >> THEN NoSegment ELSE HeaderDigest(c.segs[Len(c.segs)]),
   sealed |-> FALSE,
   count  |-> 0,
   bytes  |-> 0]

HeaderOf(entry) ==
  [id |-> entry.id, ns |-> entry.ns, start |-> entry.start, end |-> entry.end,
   first |-> entry.first, prev |-> entry.prev]

\* The segments once the active one is sealed.
SealActive(c) ==
  IF HasActive(c) THEN [c.segs EXCEPT ![c.active].sealed = TRUE] ELSE c.segs

\* A roll that hands on the digest of the wrong header: the one before.
Rolled_LinksBack(c, e) ==
  [c EXCEPT !.active = Len(c.segs) + 1,
            !.segs = Append(SealActive(c),
                            [RolledEntry(c, e) EXCEPT !.prev =
                               IF c.segs = << >> THEN NoSegment ELSE c.segs[Len(c.segs)].prev])]

\* roll_segment_if_needed, on the catalog in memory.
Rolled(c, e) ==
  [c EXCEPT !.active = Len(c.segs) + 1,
            !.segs = Append(SealActive(c), RolledEntry(c, e))]

\* The active entry, and the catalog in memory, after one more line.
WithLine(entry, e) ==
  [entry EXCEPT !.end = e.seq,
                !.last = DigestOf(e),
                !.count = @ + 1,
                !.bytes = @ + Size[e.pay]]

Recorded(c, e) ==
  [c EXCEPT !.segs[c.active] = WithLine(ActiveEntry(c), e),
            !.ns = IF @ = NoNamespace THEN e.ns ELSE @,
            !.next = e.seq + 1,
            !.head = DigestOf(e)]
=============================================================================
