--------------------------- MODULE MemoryBackend ---------------------------
(***************************************************************************)
(* InMemoryBackend (src/src/backend.rs), the other EventLogBackend: events *)
(* in a vector behind a mutex.  Threads share it; each reads the tail,     *)
(* builds a batch on it, and hands it over with append_batch or, as the    *)
(* trait's own append_batch would, with one append per event.  Every call  *)
(* holds the mutex from beginning to end, and is one step.                 *)
(*                                                                         *)
(* `twin` is the catalog of a FileSystemBackend that is given the same     *)
(* calls: the two implementations of one trait should not differ.          *)
(***************************************************************************)
EXTENDS Segments

CONSTANTS
  Threads,
  MaxBatch,  \* bound: events of a batch
  MaxLength  \* bound: events in the log

ASSUME BatchAssumption == MaxBatch \in Nat /\ MaxLength \in Nat

VARIABLES
  events,     \* the vector behind the mutex
  twin,       \* the catalog of the file backend
  thread,     \* what each thread is doing
  confirmed,  \* the events of the calls that returned Ok
  partial,    \* the batches append_batch refused after it took some of their events
  agreed      \* the two backends gave the same results so far

memVars == <<events, twin, thread, confirmed, partial, agreed>>

\* pc of a thread: "idle", "built" (a batch on a tail it read), "each" (handing
\* it over event by event), "whole" or "single" (append_batch or append is about
\* to return Ok).
Idle == [pc |-> "idle", batch |-> << >>, pos |-> 1]

\* InMemoryBackend::new.
MemInit ==
  /\ events = << >>
  /\ twin = NewCatalog
  /\ thread = [t \in Threads |-> Idle]
  /\ confirmed = {}
  /\ partial = {}
  /\ agreed = TRUE

\* next_sequence, and the digest append compares prev_digest with.
NextSequence(log) == IF log = << >> THEN 0 ELSE log[Len(log)].seq + 1

HeadDigest(log) == IF log = << >> THEN Genesis ELSE DigestOf(log[Len(log)])

\* Guards that take the tenant of the event for granted.
Fault_AnyNamespace(log, e) ==
  IF e.seq < NextSequence(log) THEN "SEQUENCE_COLLISION"
  ELSE IF e.seq > NextSequence(log) THEN "SEQ_GAP"
  ELSE IF e.prev # HeadDigest(log) \/ ~e.sound THEN "DIGEST_MISMATCH"
  ELSE "ok"

\* Guards that do not look for a gap.
Fault_AllowsGaps(log, e) ==
  IF e.seq < NextSequence(log) THEN "SEQUENCE_COLLISION"
  ELSE IF (e.prev # HeadDigest(log) /\ e.seq = NextSequence(log)) \/ ~e.sound THEN "DIGEST_MISMATCH"
  ELSE IF log # << >> /\ log[Len(log)].ns # e.ns THEN "NAMESPACE_LEAK"
  ELSE "ok"

\* The guards of append and of append_batch, in their order.
Fault(log, e) ==
  IF e.seq < NextSequence(log) THEN "SEQUENCE_COLLISION"
  ELSE IF e.seq > NextSequence(log) THEN "SEQ_GAP"
  ELSE IF e.prev # HeadDigest(log) \/ ~e.sound THEN "DIGEST_MISMATCH"
  ELSE IF log # << >> /\ log[Len(log)].ns # e.ns THEN "NAMESPACE_LEAK"
  ELSE "ok"

\* Those of append_segmented_under_lock, and its catalog after the event.
FileFault(c, e) ==
  IF Admissible(c, e) THEN "ok"
  ELSE IF e.seq < c.next THEN "SEQUENCE_COLLISION"
  ELSE IF e.seq > c.next THEN "SEQ_GAP"
  ELSE IF e.prev # c.head \/ ~e.sound THEN "DIGEST_MISMATCH"
  ELSE "NAMESPACE_LEAK"

FileAfter(c, e) == Recorded(IF NeedsRoll(c, e) THEN Rolled(c, e) ELSE c, e)

\* Both backends after the events of a batch up to the first one refused; a
\* refused event does not take back those before it.
Taken(log, c, batch) ==
  LET both[i \in 0..Len(batch)] ==
        IF i = 0 THEN [mem |-> log, memory |-> "ok", cat |-> c, file |-> "ok"]
        ELSE LET so == both[i - 1]
                 e == batch[i]
                 memory == IF so.memory = "ok" THEN Fault(so.mem, e) ELSE so.memory
                 file == IF so.file = "ok" THEN FileFault(so.cat, e) ELSE so.file
             IN  [memory |-> memory,
                  mem |-> IF memory = "ok" THEN Append(so.mem, e) ELSE so.mem,
                  file |-> file,
                  cat |-> IF file = "ok" THEN FileAfter(so.cat, e) ELSE so.cat]
  IN  both[Len(batch)]

-----------------------------------------------------------------------------

\* A thread reads the tail and builds a batch on it; `flaw` is the position of
\* an event whose digest is not its own, 0 for none, and `from` that of the
\* first event handed over.
Build(t) ==
  /\ thread[t].pc = "idle"
  /\ \E n \in 1..MaxBatch, ns \in Namespaces :
       \E pays \in [1..n -> Payloads], flaw \in 0..n, from \in 1..n :
         /\ NextSequence(events) + n <= MaxLength
         /\ thread' = [thread EXCEPT ![t] =
                         [pc |-> "built", pos |-> 1,
                          batch |-> SubSeq(BuildEvents(NextSequence(events), HeadDigest(events),
                                                       ns, pays, flaw), from, n)]]
  /\ UNCHANGED <<events, twin, confirmed, partial, agreed>>

\* What a call that hands over `batch` leaves of everything but the thread.
HandOver(batch) ==
  LET next == Taken(events, twin, batch)
  IN  /\ events' = next.mem
      /\ twin' = next.cat
      /\ agreed' = (agreed /\ next.memory = next.file)

Accepted(batch) == Taken(events, twin, batch).memory = "ok"

\* An append_batch that lets go of the mutex between two events.
AppendBatch_Unlocked(t) ==
  LET b == thread[t].batch
      e == b[thread[t].pos]
  IN  /\ thread[t].pc = "built"
      /\ HandOver(<<e>>)
      /\ partial' = IF Accepted(<<e>>) \/ thread[t].pos = 1 THEN partial ELSE partial \union {b}
      /\ thread' = IF ~Accepted(<<e>>) THEN [thread EXCEPT ![t] = Idle]
                   ELSE IF thread[t].pos = Len(b) THEN [thread EXCEPT ![t].pc = "whole"]
                   ELSE [thread EXCEPT ![t].pos = @ + 1]
      /\ UNCHANGED confirmed

\* append_batch: all the events under one lock.
AppendBatch(t) ==
  LET b == thread[t].batch
  IN  /\ thread[t].pc = "built"
      /\ HandOver(b)
      /\ partial' = IF Accepted(b) \/ events' = events THEN partial ELSE partial \union {b}
      /\ thread' = IF Accepted(b) THEN [thread EXCEPT ![t].pc = "whole"]
                                  ELSE [thread EXCEPT ![t] = Idle]
      /\ UNCHANGED confirmed

\* append of the next event of the batch, in a call of its own.
AppendEach(t) ==
  LET e == thread[t].batch[thread[t].pos]
  IN  /\ thread[t].pc \in {"built", "each"}
      /\ HandOver(<<e>>)
      /\ thread' = IF Accepted(<<e>>) THEN [thread EXCEPT ![t].pc = "single"]
                                      ELSE [thread EXCEPT ![t] = Idle]
      /\ UNCHANGED <<confirmed, partial>>

\* append_batch returns Ok.
ReturnBatch(t) ==
  /\ thread[t].pc = "whole"
  /\ confirmed' = confirmed \union {thread[t].batch[i] : i \in DOMAIN thread[t].batch}
  /\ thread' = [thread EXCEPT ![t] = Idle]
  /\ UNCHANGED <<events, twin, partial, agreed>>

\* append returns Ok: on to the next event, if there is one.
ReturnEach(t) ==
  /\ thread[t].pc = "single"
  /\ confirmed' = confirmed \union {thread[t].batch[thread[t].pos]}
  /\ thread' = IF thread[t].pos < Len(thread[t].batch)
               THEN [thread EXCEPT ![t].pc = "each", ![t].pos = @ + 1]
               ELSE [thread EXCEPT ![t] = Idle]
  /\ UNCHANGED <<events, twin, partial, agreed>>

MemNext ==
  \E t \in Threads :
    \/ Build(t) \/ AppendBatch(t) \/ AppendEach(t)
    \/ ReturnBatch(t) \/ ReturnEach(t)

MemSpec == MemInit /\ [][MemNext]_memVars

-----------------------------------------------------------------------------

\* The in-memory backend is the same append-only log as the files are.
Stamped(e) == [seq |-> e.seq, ns |-> e.ns, pay |-> e.pay]

AbstractMemory == INSTANCE AbstractLog
                    WITH log <- [i \in DOMAIN events |-> Stamped(events[i])],
                         acked <- {Stamped(e) : e \in confirmed}

MemoryImplementsLog == AbstractMemory!Spec

\* The two backends take the same events, refuse the others with the same code,
\* and then agree on the tail; every event the vector has is in a segment.
BackendsAgree ==
  /\ agreed
  /\ twin.next = NextSequence(events)
  /\ twin.head = HeadDigest(events)
  /\ events # << >> => twin.ns = events[Len(events)].ns
  /\ \A i \in DOMAIN events :
       \E k \in DOMAIN twin.segs :
         events[i].seq \in twin.segs[k].start..twin.segs[k].end /\ twin.segs[k].ns = events[i].ns

\* append_batch leaves a batch half appended only for a fault in the batch
\* itself, never because another thread appended meanwhile.
SoundBatchesWhole == \A b \in partial : \E i \in DOMAIN b : ~b[i].sound
=============================================================================
