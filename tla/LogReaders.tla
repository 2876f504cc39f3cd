----------------------------- MODULE LogReaders -----------------------------
(***************************************************************************)
(* EventLog with processes that load the log (replay, verify, export,      *)
(* inspect, and the snapshot writer after an append): AppendOnlyEventLog's *)
(* load reads the catalog, scans the active segment and reads the segment  *)
(* files one after the other, all without the lock, while others append.   *)
(***************************************************************************)
EXTENDS DurableLog

CONSTANT Readers

VARIABLES
  rpc,    \* what each reader is about to do
  rcat,   \* the catalog it has in memory
  rpos,   \* the next segment it reads
  got,    \* the events it has read
  floor   \* history: the length of the log when the load began

rvars == <<rpc, rcat, rpos, got, floor>>

ReadersTypeOK ==
  /\ rpc \in [Readers -> {"idle", "tail", "segments", "done", "failed"}]
  /\ rcat \in [Readers -> Catalog]
  /\ rpos \in [Readers -> Nat]
  /\ got \in [Readers -> Seq(Stamp)]
  /\ floor \in [Readers -> Nat]

RInit ==
  /\ Init
  /\ rpc = [r \in Readers |-> "idle"]
  /\ rcat = [r \in Readers |-> NewCatalog]
  /\ rpos = [r \in Readers |-> 1]
  /\ got = [r \in Readers |-> << >>]
  /\ floor = [r \in Readers |-> 0]

RGoto(r, label) == rpc' = [rpc EXCEPT ![r] = label]

\* load reads the catalog file; without one the (absent) legacy log is empty.
StartLoad(r) ==
  /\ rpc[r] = "idle"
  /\ rcat' = [rcat EXCEPT ![r] = catalog]
  /\ floor' = [floor EXCEPT ![r] = Len(Durable)]
  /\ RGoto(r, "tail")
  /\ UNCHANGED <<rpos, got>>

\* Only the sealed segments: a load that leaves out the active one.
Ordered_Sealed(c) == SelectSeq(c.segs, LAMBDA s : s.sealed)

\* An overlap check that is off by one.
Disjoint_Strict(segs) == \A k \in DOMAIN segs : k > 1 => segs[k].start > segs[k - 1].end + 1

\* ordered_segments: by first sequence number, in a stable sort, and none may
\* start at or before the last sequence number of the one before it.
Ordered(c) ==
  LET earlier(k) == {j \in DOMAIN c.segs : \/ c.segs[j].start < c.segs[k].start
                                           \/ c.segs[j].start = c.segs[k].start /\ j < k}
  IN  [i \in DOMAIN c.segs |->
         c.segs[CHOOSE k \in DOMAIN c.segs : Cardinality(earlier(k)) = i - 1]]

Disjoint(segs) == \A k \in DOMAIN segs : k > 1 => segs[k].start > segs[k - 1].end

\* The reconciliation that load does only refreshes the active entry's seq_end
\* for the overlap check.
ScanTail(r) ==
  /\ rpc[r] = "tail"
  /\ Scannable(rcat[r], files)
  /\ LET segs == Ordered(Reconcile(rcat[r], files))
     IN  /\ Disjoint(segs)
         /\ rcat' = [rcat EXCEPT ![r] = [Reconcile(@, files) EXCEPT !.segs = segs]]
  /\ RGoto(r, "segments")
  /\ UNCHANGED <<rpos, got, floor>>

ScanTailFails(r) ==
  /\ rpc[r] = "tail"
  /\ Scannable(rcat[r], files) => ~Disjoint(Ordered(Reconcile(rcat[r], files)))
  /\ RGoto(r, "failed")
  /\ UNCHANGED <<rcat, rpos, got, floor>>

Reading(r) == rpc[r] = "segments" /\ rpos[r] <= Len(rcat[r].segs)
SegmentLines(r) == files[rcat[r].segs[rpos[r]].id].lines

\* load_segment_events reads a file to its end, whatever the catalog counted.
LoadSegment(r) ==
  /\ Reading(r)
  /\ Parses(SegmentLines(r))
  /\ got' = [got EXCEPT ![r] = @ \o StampsIn(SegmentLines(r))]
  /\ rpos' = [rpos EXCEPT ![r] = @ + 1]
  /\ UNCHANGED <<rpc, rcat, floor>>

LoadSegmentFails(r) ==
  /\ Reading(r)
  /\ ~Parses(SegmentLines(r))
  /\ RGoto(r, "failed")
  /\ UNCHANGED <<rcat, rpos, got, floor>>

FinishLoad(r) ==
  /\ rpc[r] = "segments"
  /\ rpos[r] > Len(rcat[r].segs)
  /\ RGoto(r, "done")
  /\ UNCHANGED <<rcat, rpos, got, floor>>

Return(r) ==
  /\ rpc[r] \in {"done", "failed"}
  /\ rcat' = [rcat EXCEPT ![r] = NewCatalog]
  /\ rpos' = [rpos EXCEPT ![r] = 1]
  /\ got' = [got EXCEPT ![r] = << >>]
  /\ floor' = [floor EXCEPT ![r] = 0]
  /\ RGoto(r, "idle")

RStep(r) ==
  StartLoad(r) \/ ScanTail(r) \/ ScanTailFails(r) \/ LoadSegment(r)
    \/ LoadSegmentFails(r) \/ FinishLoad(r) \/ Return(r)

RNext ==
  \/ Next /\ UNCHANGED rvars
  \/ \E r \in Readers : RStep(r) /\ UNCHANGED vars

RSpec == RInit /\ [][RNext]_<<vars, rvars>>

-----------------------------------------------------------------------------

\* A load that returns has a prefix of the log: events in order from 0 on, none
\* missing and none twice, though each file was read at another moment.
LoadIsPrefix == \A r \in Readers : rpc[r] = "done" => IsPrefix(got[r], Durable)

\* It has at least what was in the log when it began, so it has every event
\* confirmed before, and a later load never has less than an earlier one.
LoadIsFresh == \A r \in Readers : rpc[r] = "done" => Len(got[r]) >= floor[r]

\* A load does not fail because somebody appends at the same time, or because
\* somebody was killed while appending, unless that lost a newline or left the
\* first segment empty in front of a line that fills one.
LoadSucceeds ==
  \A r \in Readers :
    rpc[r] = "failed" =>
      \/ \E k \in DOMAIN catalog.segs : ~Parses(LinesAt(k))
      \/ Len(catalog.segs) > 1 /\ LinesAt(1) = << >>
=============================================================================
