----------------------------- MODULE DurableLog -----------------------------
(***************************************************************************)
(* The log that the files and the catalog of EventLog amount to, and that  *)
(* it is an append-only log: EventLog implements AbstractLog.              *)
(***************************************************************************)
EXTENDS EventLog, SequencesExt

StampOf(e) == [seq |-> e.seq, ns |-> e.ns, pay |-> e.pay]

StampsIn(lines) == [i \in DOMAIN lines |-> StampOf(lines[i].ev)]

\* The events of the segment files in catalog order, without their digests.
Durable == FlattenSeq([k \in DOMAIN catalog.segs |-> StampsIn(LinesAt(k))])

Abstract == INSTANCE AbstractLog
              WITH log <- Durable, acked <- {StampOf(e) : e \in acked}

\* Every step of the write path, in any interleaving of processes and kills,
\* leaves the log alone, adds events at its end, or confirms events it has.
ImplementsAbstractLog == Abstract!Spec
=============================================================================
