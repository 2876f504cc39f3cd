---------------------------- MODULE BackendProofs ----------------------------
(***************************************************************************)
(* The log in its two other forms.  The in-memory backend, for any number  *)
(* of threads and batches of any length, takes what the file backend takes *)
(* and is the abstract log; and a log in the old layout, of any length, is *)
(* migrated by any number of processes, killed where they may be, without  *)
(* a trace in the log.                                                     *)
(***************************************************************************)
EXTENDS Migration, MemoryBackend, SegmentsProofs

-----------------------------------------------------------------------------
(* The in-memory backend: the vector, and the catalog of the file backend   *)
(* that was given the same calls.                                           *)

\* One chain from the genesis digest on, of one tenant.
ChainOf(log) ==
  \A i \in 1..Len(log) :
    /\ log[i].seq = i - 1
    /\ log[i].ns = log[1].ns
    /\ log[i].sound
    /\ log[i].prev = IF i = 1 THEN Genesis ELSE DigestOf(log[i - 1])

\* The catalog ends where the log does, and its segments are of its tenant and
\* end no later.
TailMatches(c, log) ==
  /\ c.active = Len(c.segs)
  /\ c.next = Len(log)
  /\ c.head = HeadDigest(log)
  /\ log = << >> => c.ns = NoNamespace /\ c.segs = << >>
  /\ log # << >> => c.ns = log[1].ns
  /\ \A k \in 1..Len(c.segs) :
       c.segs[k].start <= c.next /\ c.segs[k].end <= c.next /\ c.segs[k].ns = c.ns

\* Every place of the log is in a segment.
Covers(c, log) ==
  \A i \in 1..Len(log) : \E k \in 1..Len(c.segs) : i - 1 \in c.segs[k].start..c.segs[k].end

Twins(log, c) ==
  /\ log \in Seq(Event) /\ c \in Catalog
  /\ ChainOf(log) /\ TailMatches(c, log) /\ Covers(c, log)

\* Events built one on the other, whether or not their digests are their own.
Successive(b) ==
  \A i \in 2..Len(b) : /\ b[i].seq = b[i - 1].seq + 1
                       /\ b[i].prev = DigestOf(b[i - 1])
                       /\ b[i].ns = b[i - 1].ns

InVector(e) == \E i \in 1..Len(events) : events[i] = e

ThreadState == [pc: {"idle", "built", "each", "whole", "single"},
                batch: Seq(Event), pos: Nat \ {0}]

\* What a thread is about to confirm is in the vector.
Doing(x) ==
  /\ Successive(x.batch)
  /\ x.pc # "idle" => x.pos \in 1..Len(x.batch)
  /\ x.pc = "whole" => \A i \in 1..Len(x.batch) : InVector(x.batch[i])
  /\ x.pc = "single" => InVector(x.batch[x.pos])

MemInv ==
  /\ Twins(events, twin)
  /\ thread \in [Threads -> ThreadState]
  /\ \A t \in Threads : Doing(thread[t])
  /\ \A e \in confirmed : InVector(e)
  /\ agreed
  /\ SoundBatchesWhole

\* A vector and its catalog end at the same place.
LEMMA TwinTails ==
  ASSUME NEW log, NEW c, Twins(log, c)
  PROVE  /\ Len(log) \in Nat /\ c.next = Len(log) /\ c.head = HeadDigest(log)
         /\ NextSequence(log) = Len(log)
         /\ log = << >> <=> Len(log) = 0
         /\ log = << >> => c.ns = NoNamespace
         /\ log # << >> => /\ Len(log) \in 1..Len(log) /\ log[Len(log)].ns = log[1].ns
                           /\ c.ns = log[Len(log)].ns /\ c.ns # NoNamespace
<1>1. /\ log \in Seq(Event) /\ c.next = Len(log) /\ c.head = HeadDigest(log)
      /\ log = << >> => c.ns = NoNamespace
      /\ log # << >> => c.ns = log[1].ns
  BY DEF Twins, TailMatches
<1>2. Len(log) \in Nat /\ (log = << >> <=> Len(log) = 0)
      /\ (log # << >> => Len(log) \in 1..Len(log) /\ log[Len(log)] \in Event)
  BY <1>1
<1>3. log # << >> => log[Len(log)].seq = Len(log) - 1 /\ log[Len(log)].ns = log[1].ns
  BY <1>2 DEF Twins, ChainOf
<1>4. log # << >> => log[Len(log)].ns \in Namespaces
  BY <1>2 DEF Event
<1>5. NextSequence(log) = Len(log)
  BY <1>2, <1>3 DEF NextSequence
<1> QED BY <1>1, <1>2, <1>3, <1>4, <1>5, NamespaceAssumption

\* They take the same events and refuse the others for the same reason.
LEMMA FaultsAgree ==
  ASSUME NEW log, NEW c, Twins(log, c), NEW e \in Event
  PROVE  /\ Fault(log, e) = FileFault(c, e)
         /\ Fault(log, e) = "ok" <=> Admissible(c, e)
<1>1. e.seq \in Nat /\ e.sound \in BOOLEAN
  BY DEF Event
<1>2. Admissible(c, e) <=> /\ e.seq = NextSequence(log) /\ e.prev = HeadDigest(log) /\ e.sound
                           /\ log # << >> => e.ns = log[Len(log)].ns
  BY TwinTails DEF Admissible
<1>3. c.next = NextSequence(log) /\ c.head = HeadDigest(log) /\ NextSequence(log) \in Nat
  BY TwinTails
<1>4. Fault(log, e) = "ok" <=> Admissible(c, e)
  BY <1>1, <1>2, <1>3 DEF Fault
<1> QED BY <1>1, <1>2, <1>3, <1>4 DEF Fault, FileFault

\* The catalog once there is a segment for an event that comes next.
LEMMA OpenedForNext ==
  ASSUME NEW log, NEW c, Twins(log, c), NEW e \in Event, Admissible(c, e),
         NEW r, r = IF NeedsRoll(c, e) THEN Rolled(c, e) ELSE c
  PROVE  /\ r \in Catalog /\ r.active = Len(r.segs) /\ r.active \in 1..Len(r.segs)
         /\ r.ns = c.ns
         /\ \A k \in 1..Len(r.segs) : /\ r.segs[k].start <= e.seq /\ r.segs[k].end <= e.seq
                                      /\ r.segs[k].ns = e.ns
         /\ Covers(r, log)
<1> DEFINE n == Len(c.segs)
<1>1. /\ c \in Catalog /\ n \in Nat /\ c.active = n /\ c.active \in 0..n
      /\ \A k \in 1..n : c.segs[k] \in Entry
      /\ \A k \in 1..n : c.segs[k].start <= c.next /\ c.segs[k].end <= c.next /\ c.segs[k].ns = c.ns
      /\ Covers(c, log)
  BY SegsType DEF Twins, TailMatches
<1>2. e.seq = c.next /\ e.seq \in Nat /\ e.ns \in Namespaces
  BY DEF Admissible, Event
<1>3. n # 0 => c.ns = e.ns
  <2>1. n # 0 => log # << >>
    BY DEF Twins, TailMatches
  <2> QED BY <2>1, TwinTails DEF Admissible
<1>4. CASE ~NeedsRoll(c, e)
  <2>1. r = c /\ c.active # 0
    BY <1>4 DEF NeedsRoll, HasActive
  <2> QED BY <1>1, <1>2, <1>3, <2>1
<1>5. CASE NeedsRoll(c, e)
  <2>1. /\ r \in Catalog /\ r.active = n + 1 /\ r.ns = c.ns /\ Len(r.segs) = n + 1
        /\ r.segs[n + 1] = RolledEntry(c, e)
        /\ \A k \in 1..n : r.segs[k] = IF k = c.active THEN [c.segs[k] EXCEPT !.sealed = TRUE]
                                                       ELSE c.segs[k]
    BY <1>1, <1>5, RolledType
  <2>2. ASSUME NEW k \in 1..n
        PROVE  /\ r.segs[k].start = c.segs[k].start /\ r.segs[k].end = c.segs[k].end
               /\ r.segs[k].ns = c.segs[k].ns
    <3>1. c.segs[k] \in Entry
      BY <1>1
    <3>2. [c.segs[k] EXCEPT !.sealed = TRUE].start = c.segs[k].start
      BY <3>1 DEF Entry
    <3>3. [c.segs[k] EXCEPT !.sealed = TRUE].end = c.segs[k].end
      BY <3>1 DEF Entry
    <3>4. [c.segs[k] EXCEPT !.sealed = TRUE].ns = c.segs[k].ns
      BY <3>1 DEF Entry
    <3> QED BY <2>1, <3>2, <3>3, <3>4
  <2>3. /\ r.segs[n + 1].start = e.seq /\ r.segs[n + 1].end = SaturatingPred(e.seq)
        /\ r.segs[n + 1].ns = e.ns
    BY <2>1 DEF RolledEntry
  <2>4. SaturatingPred(e.seq) <= e.seq
    BY <1>2 DEF SaturatingPred
  <2>5. ASSUME NEW k \in 1..Len(r.segs)
        PROVE  /\ r.segs[k].start <= e.seq /\ r.segs[k].end <= e.seq /\ r.segs[k].ns = e.ns
    <3>1. CASE k = n + 1
      BY <1>2, <2>3, <2>4, <3>1
    <3>2. CASE k # n + 1
      <4>1. k \in 1..n /\ n # 0
        BY <1>1, <2>1, <3>2
      <4> QED BY <1>1, <1>2, <1>3, <2>2, <4>1
    <3> QED BY <3>1, <3>2
  <2>6. Covers(r, log)
    <3> SUFFICES ASSUME NEW i \in 1..Len(log)
                 PROVE  \E k \in 1..Len(r.segs) : i - 1 \in r.segs[k].start..r.segs[k].end
      BY DEF Covers
    <3>1. PICK k \in 1..n : i - 1 \in c.segs[k].start..c.segs[k].end
      BY <1>1 DEF Covers
    <3>2. k \in 1..Len(r.segs) /\ r.segs[k].start = c.segs[k].start /\ r.segs[k].end = c.segs[k].end
      BY <1>1, <2>1, <2>2
    <3> QED BY <3>1, <3>2
  <2>7. n + 1 \in 1..(n + 1)
    BY <1>1
  <2> QED BY <2>1, <2>5, <2>6, <2>7
<1> QED BY <1>4, <1>5

\* Once both have taken the event, they are again the same log.
LEMMA TakenByBoth ==
  ASSUME NEW log, NEW c, Twins(log, c), NEW e \in Event, Fault(log, e) = "ok"
  PROVE  Twins(Append(log, e), FileAfter(c, e))
<1>1. PICK r : r = IF NeedsRoll(c, e) THEN Rolled(c, e) ELSE c
  OBVIOUS
<1>2. PICK d : d = FileAfter(c, e)
  OBVIOUS
<1>3. PICK more : more = Append(log, e)
  OBVIOUS
<1>4. d = Recorded(r, e)
  BY <1>1, <1>2 DEF FileAfter
<1>5. Admissible(c, e)
  BY FaultsAgree
<1>6. /\ r \in Catalog /\ r.active = Len(r.segs) /\ r.active \in 1..Len(r.segs)
      /\ r.ns = c.ns
      /\ \A k \in 1..Len(r.segs) : /\ r.segs[k].start <= e.seq /\ r.segs[k].end <= e.seq
                                   /\ r.segs[k].ns = e.ns
      /\ Covers(r, log)
  BY <1>1, <1>5, OpenedForNext
<1> DEFINE n == Len(r.segs)
           grown == WithLine(r.segs[n], e)
<1>7. /\ n \in Nat /\ n \in 1..n /\ r.segs \in Seq(Entry)
      /\ \A k \in 1..n : r.segs[k] \in Entry /\ r.segs[k].start \in Nat /\ r.segs[k].end \in Nat
  <2>1. n \in Nat /\ r.segs \in Seq(Entry) /\ \A k \in 1..n : r.segs[k] \in Entry
    BY <1>6, SegsType DEF Catalog
  <2> QED BY <1>6, <2>1 DEF Entry
<1>8. /\ e.seq \in Nat /\ e.ns \in Namespaces
      /\ e.seq = Len(log) /\ e.prev = HeadDigest(log) /\ e.sound
      /\ c.ns # NoNamespace => e.ns = c.ns
  BY <1>5, TwinTails DEF Admissible, Event
<1>9. /\ d \in Catalog /\ d.active = n /\ d.next = e.seq + 1 /\ d.head = DigestOf(e)
      /\ d.ns = e.ns
      /\ Len(d.segs) = n /\ d.segs[n] = grown
      /\ \A k \in 1..n : k # n => d.segs[k] = r.segs[k]
  <2>1. /\ d \in Catalog
        /\ d = [ns     |-> IF r.ns = NoNamespace THEN e.ns ELSE r.ns,
                next   |-> e.seq + 1,
                head   |-> DigestOf(e),
                active |-> r.active,
                segs   |-> [r.segs EXCEPT ![r.active] = WithLine(ActiveEntry(r), e)]]
        /\ WithLine(ActiveEntry(r), e) \in Entry
    BY <1>4, <1>6, RecordedType
  <2>2. grown \in Entry /\ d.segs = [r.segs EXCEPT ![n] = grown]
    BY <1>6, <2>1 DEF ActiveEntry
  <2> HIDE DEF grown
  <2>3. Len(d.segs) = n /\ d.segs[n] = grown /\ \A k \in 1..n : k # n => d.segs[k] = r.segs[k]
    BY <1>7, <2>2, Replaced
  <2> QED BY <1>6, <1>8, <2>1, <2>3
<1>10. grown.start = r.segs[n].start /\ grown.end = e.seq /\ grown.ns = r.segs[n].ns
  <2>1. PICK x : x = r.segs[n]
    OBVIOUS
  <2>2. x \in Entry
    BY <1>7, <2>1
  <2>3. WithLine(x, e).start = x.start /\ WithLine(x, e).end = e.seq
    BY <2>2 DEF WithLine, Entry
  <2>4. WithLine(x, e).ns = x.ns
    BY <2>2 DEF WithLine, Entry
  <2> QED BY <2>1, <2>3, <2>4
<1>11. /\ more \in Seq(Event) /\ Len(more) = Len(log) + 1 /\ more[Len(log) + 1] = e
       /\ more # << >> /\ \A i \in 1..Len(log) : more[i] = log[i]
       /\ Len(log) \in Nat /\ log \in Seq(Event)
  <2>1. log \in Seq(Event)
    BY DEF Twins
  <2> QED BY <1>3, <2>1, Appended
<1> HIDE DEF n, grown
<1>12. ChainOf(more)
  <2> SUFFICES ASSUME NEW i \in 1..Len(more)
               PROVE  /\ more[i].seq = i - 1 /\ more[i].ns = more[1].ns /\ more[i].sound
                      /\ more[i].prev = IF i = 1 THEN Genesis ELSE DigestOf(more[i - 1])
    BY DEF ChainOf
  <2>1. CASE i = Len(log) + 1
    <3>1. more[i] = e /\ e.seq = i - 1
      BY <1>8, <1>11, <2>1
    <3>2. CASE log = << >>
      <4>1. i = 1 /\ HeadDigest(log) = Genesis
        BY <2>1, <3>2, TwinTails DEF HeadDigest
      <4> QED BY <1>8, <3>1, <4>1
    <3>3. CASE log # << >>
      <4>1. /\ 1 \in 1..Len(log) /\ i - 1 \in 1..Len(log) /\ i # 1 /\ i - 1 = Len(log)
            /\ e.ns = log[Len(log)].ns /\ log[Len(log)].ns = log[1].ns
        BY <1>8, <1>11, <2>1, <3>3, TwinTails
      <4>2. HeadDigest(log) = DigestOf(more[i - 1])
        BY <1>11, <3>3, <4>1 DEF HeadDigest
      <4>3. more[1].ns = e.ns
        BY <1>11, <4>1
      <4> QED BY <1>8, <3>1, <4>1, <4>2, <4>3
    <3> QED BY <3>2, <3>3
  <2>2. CASE i # Len(log) + 1
    <3>1. i \in 1..Len(log) /\ 1 \in 1..Len(log) /\ (i # 1 => i - 1 \in 1..Len(log))
      BY <1>11, <2>2
    <3>2. /\ log[i].seq = i - 1 /\ log[i].ns = log[1].ns /\ log[i].sound
          /\ log[i].prev = IF i = 1 THEN Genesis ELSE DigestOf(log[i - 1])
      BY <3>1 DEF Twins, ChainOf
    <3> QED BY <1>11, <3>1, <3>2
  <2> QED BY <2>1, <2>2
<1>13. TailMatches(d, more)
  <2>1. d.head = HeadDigest(more) /\ d.next = Len(more) /\ d.active = Len(d.segs)
    BY <1>8, <1>9, <1>11 DEF HeadDigest
  <2>2. d.ns = more[1].ns
    <3>1. more[Len(log) + 1].ns = more[1].ns /\ Len(log) + 1 \in 1..Len(more)
      BY <1>11, <1>12 DEF ChainOf
    <3> QED BY <1>9, <1>11, <3>1
  <2>3. ASSUME NEW k \in 1..Len(d.segs)
        PROVE  d.segs[k].start <= d.next /\ d.segs[k].end <= d.next /\ d.segs[k].ns = d.ns
    <3>1. CASE k = n
      BY <1>6, <1>7, <1>8, <1>9, <1>10, <3>1 DEF n
    <3>2. CASE k # n
      <4>1. k \in 1..Len(r.segs) /\ d.segs[k] = r.segs[k]
        BY <1>9, <3>2 DEF n
      <4> QED BY <1>6, <1>7, <1>8, <1>9, <4>1 DEF n
    <3> QED BY <3>1, <3>2
  <2> QED BY <1>11, <2>1, <2>2, <2>3 DEF TailMatches
<1>14. Covers(d, more)
  <2> SUFFICES ASSUME NEW i \in 1..Len(more)
               PROVE  \E k \in 1..Len(d.segs) : i - 1 \in d.segs[k].start..d.segs[k].end
    BY DEF Covers
  <2>1. d.segs[n].start = r.segs[n].start /\ d.segs[n].end = e.seq /\ n \in 1..n
        /\ r.segs[n].start <= e.seq /\ r.segs[n].end <= e.seq
        /\ r.segs[n].start \in Nat /\ r.segs[n].end \in Nat
    BY <1>6, <1>7, <1>9, <1>10 DEF n
  <2>2. CASE i = Len(log) + 1
    <3>1. i - 1 \in d.segs[n].start..d.segs[n].end
      BY <1>8, <2>1, <2>2
    <3> QED BY <1>9, <2>1, <3>1
  <2>3. CASE i # Len(log) + 1
    <3>1. i \in 1..Len(log)
      BY <1>11, <2>3
    <3>2. PICK k \in 1..Len(r.segs) : i - 1 \in r.segs[k].start..r.segs[k].end
      BY <1>6, <3>1 DEF Covers
    <3>3. CASE k = n
      <4>1. i - 1 \in d.segs[n].start..d.segs[n].end
        BY <1>8, <2>1, <3>2, <3>3
      <4> QED BY <1>9, <2>1, <4>1
    <3>4. CASE k # n
      <4>1. k \in 1..n /\ d.segs[k] = r.segs[k]
        BY <1>9, <3>4 DEF n
      <4> QED BY <1>9, <3>2, <4>1
    <3> QED BY <3>3, <3>4
  <2> QED BY <2>2, <2>3
<1> QED BY <1>2, <1>3, <1>9, <1>11, <1>12, <1>13, <1>14 DEF Twins

-----------------------------------------------------------------------------
(* A batch, event by event. *)

\* One turn of Taken, and all of them by their definition.
Turn(so, e) ==
  LET memory == IF so.memory = "ok" THEN Fault(so.mem, e) ELSE so.memory
      file == IF so.file = "ok" THEN FileFault(so.cat, e) ELSE so.file
  IN  [memory |-> memory,
       mem |-> IF memory = "ok" THEN Append(so.mem, e) ELSE so.mem,
       file |-> file,
       cat |-> IF file = "ok" THEN FileAfter(so.cat, e) ELSE so.cat]

IsTurns(log, c, given, n, f) ==
  f = [i \in 0..n |-> IF i = 0 THEN [mem |-> log, memory |-> "ok", cat |-> c, file |-> "ok"]
                      ELSE Turn(f[i - 1], given[i])]

LEMMA TurnsExist ==
  ASSUME NEW log, NEW c, NEW given, NEW n \in Nat
  PROVE  \E f : IsTurns(log, c, given, n, f)
<1> DEFINE start == [mem |-> log, memory |-> "ok", cat |-> c, file |-> "ok"]
           S == {m \in Nat : \E f : IsTurns(log, c, given, m, f)}
<1>1. 0 \in S
  <2>1. IsTurns(log, c, given, 0, [i \in 0..0 |-> start])
    BY DEF IsTurns
  <2> QED BY <2>1
<1>2. ASSUME NEW m \in Nat, m \in S PROVE m + 1 \in S
  <2>1. PICK f : IsTurns(log, c, given, m, f)
    BY <1>2
  <2> DEFINE more == Turn(f[m], given[m + 1])
             g == [i \in 0..(m + 1) |-> IF i = m + 1 THEN more ELSE f[i]]
  <2> HIDE DEF start
  <2>2. ASSUME NEW i \in 0..(m + 1)
        PROVE  g[i] = IF i = 0 THEN start ELSE Turn(g[i - 1], given[i])
    <3>1. CASE i = m + 1
      <4>1. i # 0 /\ i - 1 = m /\ m \in 0..(m + 1) /\ m # m + 1
        BY <3>1
      <4> QED BY <3>1, <4>1
    <3>2. CASE i # m + 1
      <4>1. i \in 0..m
        BY <3>2
      <4>2. f[i] = IF i = 0 THEN start ELSE Turn(f[i - 1], given[i])
        BY <2>1, <4>1 DEF IsTurns, start
      <4>3. i # 0 => i - 1 \in 0..(m + 1) /\ i - 1 # m + 1
        BY <4>1
      <4> HIDE DEF more
      <4> QED BY <3>2, <4>2, <4>3
    <3> QED BY <3>1, <3>2
  <2>3. IsTurns(log, c, given, m + 1, g)
    <3> HIDE DEF more
    <3> QED BY <2>2 DEF IsTurns, start
  <2> HIDE DEF g
  <2> QED BY <2>3
<1> HIDE DEF S
<1>3. n \in S
  BY <1>1, <1>2, NumberInduction
<1> QED BY <1>3 DEF S

\* The log with the first m events of a batch behind it.
Prolonged(log, given, m, all) ==
  /\ Len(all) = Len(log) + m
  /\ \A i \in 1..Len(log) : all[i] = log[i]
  /\ \A i \in 1..m : all[Len(log) + i] = given[i]

\* Of the first i events of a batch both backends took the first m, and if that
\* is not all of them the next one is at fault.
Handed(log, given, i, x) ==
  /\ Twins(x.mem, x.cat)
  /\ x.memory = x.file
  /\ \E m \in 0..i : /\ Prolonged(log, given, m, x.mem)
                     /\ x.memory = "ok" <=> m = i
                     /\ m # i => Fault(x.mem, given[m + 1]) # "ok"

LEMMA NoneHanded ==
  ASSUME NEW log, NEW c, Twins(log, c), NEW given
  PROVE  Handed(log, given, 0, [mem |-> log, memory |-> "ok", cat |-> c, file |-> "ok"])
<1>1. Len(log) \in Nat
  BY TwinTails
<1>2. Prolonged(log, given, 0, log)
  BY <1>1 DEF Prolonged
<1>3. 0 \in 0..0
  OBVIOUS
<1> QED BY <1>2, <1>3 DEF Handed

LEMMA OneMoreHanded ==
  ASSUME NEW log \in Seq(Event), NEW given, NEW i \in Nat, NEW so, Handed(log, given, i, so),
         given[i + 1] \in Event, NEW x, x = Turn(so, given[i + 1])
  PROVE  Handed(log, given, i + 1, x)
<1> DEFINE e == given[i + 1]
           memory == IF so.memory = "ok" THEN Fault(so.mem, e) ELSE so.memory
<1>1. /\ x.memory = memory
      /\ x.mem = IF memory = "ok" THEN Append(so.mem, e) ELSE so.mem
      /\ x.file = IF so.file = "ok" THEN FileFault(so.cat, e) ELSE so.file
      /\ x.cat = IF x.file = "ok" THEN FileAfter(so.cat, e) ELSE so.cat
  BY DEF Turn
<1>2. Twins(so.mem, so.cat) /\ so.memory = so.file
  BY DEF Handed
<1>3. PICK m \in 0..i : /\ Prolonged(log, given, m, so.mem)
                        /\ so.memory = "ok" <=> m = i
                        /\ m # i => Fault(so.mem, given[m + 1]) # "ok"
  BY DEF Handed
<1>4. Fault(so.mem, e) = FileFault(so.cat, e)
  BY <1>2, FaultsAgree
<1>5. x.file = memory /\ x.memory = x.file
  BY <1>1, <1>2, <1>4
<1>6. i \in 0..(i + 1) /\ i + 1 \in 0..(i + 1) /\ m \in 0..(i + 1) /\ i # i + 1 /\ m # i + 1
  OBVIOUS
<1>7. CASE memory = "ok"
  <2>1. so.memory = "ok" /\ Fault(so.mem, e) = "ok" /\ m = i
    BY <1>3, <1>7
  <2>2. x.mem = Append(so.mem, e) /\ x.cat = FileAfter(so.cat, e)
    BY <1>1, <1>5, <1>7
  <2>3. Twins(x.mem, x.cat)
    BY <1>2, <2>1, <2>2, TakenByBoth
  <2>4. /\ Len(x.mem) = Len(so.mem) + 1 /\ x.mem[Len(so.mem) + 1] = e
        /\ \A j \in 1..Len(so.mem) : x.mem[j] = so.mem[j]
        /\ Len(so.mem) \in Nat
    <3>1. so.mem \in Seq(Event)
      BY <1>2 DEF Twins
    <3> QED BY <2>2, <3>1, Appended
  <2>5. Prolonged(log, given, i + 1, x.mem)
    <3>1. /\ Len(so.mem) = Len(log) + i
          /\ \A j \in 1..Len(log) : so.mem[j] = log[j]
          /\ \A j \in 1..i : so.mem[Len(log) + j] = given[j]
      BY <1>3, <2>1 DEF Prolonged
    <3>2. Len(log) \in Nat /\ 1..Len(log) \subseteq 1..Len(so.mem)
      BY <3>1
    <3>3. ASSUME NEW j \in 1..(i + 1) PROVE x.mem[Len(log) + j] = given[j]
      <4>1. CASE j = i + 1
        BY <2>4, <3>1, <3>2, <4>1
      <4>2. CASE j # i + 1
        <5>1. j \in 1..i /\ Len(log) + j \in 1..Len(so.mem)
          BY <3>1, <3>2, <4>2
        <5> QED BY <2>4, <3>1, <5>1
      <4> QED BY <4>1, <4>2
    <3>4. Len(x.mem) = Len(log) + (i + 1)
      BY <2>4, <3>1, <3>2
    <3>5. \A j \in 1..Len(log) : x.mem[j] = log[j]
      BY <2>4, <3>1, <3>2
    <3> QED BY <3>3, <3>4, <3>5 DEF Prolonged
  <2> QED BY <1>1, <1>5, <1>6, <1>7, <2>3, <2>5 DEF Handed
<1>8. CASE memory # "ok"
  <2>1. x.mem = so.mem /\ x.cat = so.cat /\ x.memory # "ok"
    BY <1>1, <1>5, <1>8
  <2>2. Fault(so.mem, given[m + 1]) # "ok"
    BY <1>3, <1>8
  <2> QED BY <1>2, <1>3, <1>5, <1>6, <2>1, <2>2 DEF Handed
<1> QED BY <1>7, <1>8

\* What a call leaves: both backends took the same beginning of the batch.
LEMMA TakenIs ==
  ASSUME NEW log, NEW c, Twins(log, c), NEW given \in Seq(Event)
  PROVE  Handed(log, given, Len(given), Taken(log, c, given))
<1> DEFINE n == Len(given)
           f == CHOOSE g : IsTurns(log, c, given, n, g)
<1>1. n \in Nat /\ log \in Seq(Event)
  BY DEF Twins
<1>2. Taken(log, c, given) = f[n]
  BY DEF Taken, IsTurns, Turn
<1>3. IsTurns(log, c, given, n, f)
  <2>1. \E g : IsTurns(log, c, given, n, g)
    BY <1>1, TurnsExist
  <2> QED BY <2>1
<1> HIDE DEF f
<1>4. \A i \in 0..n : f[i] = IF i = 0 THEN [mem |-> log, memory |-> "ok", cat |-> c, file |-> "ok"]
                             ELSE Turn(f[i - 1], given[i])
  BY <1>3 DEF IsTurns
<1> DEFINE S == {i \in Nat : i <= n => Handed(log, given, i, f[i])}
<1>5. 0 \in S
  <2>1. 0 \in 0..n
    BY <1>1
  <2>2. f[0] = [mem |-> log, memory |-> "ok", cat |-> c, file |-> "ok"]
    BY <1>4, <2>1
  <2> QED BY <2>2, NoneHanded
<1>6. ASSUME NEW i \in Nat, i \in S PROVE i + 1 \in S
  <2> SUFFICES ASSUME i + 1 <= n PROVE Handed(log, given, i + 1, f[i + 1])
    OBVIOUS
  <2>1. i <= n /\ i + 1 \in 0..n /\ i + 1 \in 1..n /\ i + 1 # 0 /\ (i + 1) - 1 = i
    BY <1>1
  <2>2. Handed(log, given, i, f[i])
    BY <1>6, <2>1
  <2>3. f[i + 1] = Turn(f[i], given[i + 1]) /\ given[i + 1] \in Event
    BY <1>4, <2>1
  <2> QED BY <1>1, <2>2, <2>3, OneMoreHanded
<1> HIDE DEF S
<1>7. n \in S
  BY <1>1, <1>5, <1>6, NumberInduction
<1> QED BY <1>2, <1>7 DEF S

\* The events a caller builds follow one on the other.
LEMMA BuiltSuccessive ==
  ASSUME NEW next \in Nat, NEW head \in Digest, NEW ns \in Namespaces,
         NEW n \in Nat, NEW pays \in [1..n -> Payloads], NEW flaw,
         NEW b, b = BuildEvents(next, head, ns, pays, flaw)
  PROVE  b \in Seq(Event) /\ Len(b) = n /\ Successive(b)
<1> DEFINE stamp(j) == [seq |-> next + j - 1, ns |-> ns, pay |-> pays[j]]
           before(i) == [j \in 1..(i - 1) |-> stamp(j)]
<1>1. b \in Seq(Event)
  BY BuildEventsType
<1>2. Len(pays) = n
  OBVIOUS
<1>3. b = [i \in 1..n |-> [seq |-> next + i - 1, ns |-> ns, pay |-> pays[i],
                           prev |-> head \o before(i), sound |-> i # flaw]]
  BY <1>2 DEF BuildEvents
<1>4. \A i \in 1..n : b[i].seq = next + i - 1 /\ b[i].ns = ns /\ b[i].pay = pays[i]
                      /\ b[i].prev = head \o before(i)
  BY <1>3
<1>5. Len(b) = n
  BY <1>3
<1>6. \A j \in 1..n : stamp(j) \in Stamp
  BY DEF Stamp
<1>7. ASSUME NEW i \in 2..n PROVE b[i].prev = DigestOf(b[i - 1])
  <2>1. i - 1 \in 1..n /\ i \in 1..n /\ (i - 1) - 1 = i - 2 /\ i - 2 \in Nat
    OBVIOUS
  <2>2. DigestOf(b[i - 1]) = Append(head \o before(i - 1), stamp(i - 1))
    BY <1>4, <2>1 DEF DigestOf
  <2>3. before(i - 1) \in Seq(Stamp) /\ stamp(i - 1) \in Stamp /\ head \in Seq(Stamp)
    <3>1. \A j \in 1..((i - 1) - 1) : stamp(j) \in Stamp
      BY <1>6
    <3>2. stamp(i - 1) \in Stamp
      BY <1>6, <2>1
    <3> HIDE DEF stamp
    <3> QED BY <2>1, <3>1, <3>2 DEF Digest
  <2>4. before(i) = Append(before(i - 1), stamp(i - 1))
    <3> HIDE DEF stamp
    <3> QED BY <2>1
  <2> HIDE DEF before, stamp
  <2>5. head \o Append(before(i - 1), stamp(i - 1)) = Append(head \o before(i - 1), stamp(i - 1))
    BY <2>3, AppendedLater
  <2> QED BY <1>4, <2>1, <2>2, <2>4, <2>5
<1>8. \A i \in 2..n : b[i].seq = b[i - 1].seq + 1 /\ b[i].ns = b[i - 1].ns
  BY <1>4
<1> QED BY <1>1, <1>5, <1>7, <1>8 DEF Successive

\* So do those from one of them on.
LEMMA RestSuccessive ==
  ASSUME NEW b \in Seq(Event), Successive(b), NEW from \in 1..Len(b),
         NEW s, s = SubSeq(b, from, Len(b))
  PROVE  s \in Seq(Event) /\ Len(s) >= 1 /\ Successive(s)
<1>1. /\ s \in Seq(Event) /\ Len(s) = Len(b) - from + 1 /\ Len(s) \in Nat
      /\ \A i \in 1..Len(s) : s[i] = b[from + i - 1]
  OBVIOUS
<1>2. ASSUME NEW i \in 2..Len(s)
      PROVE  s[i].seq = s[i - 1].seq + 1 /\ s[i].prev = DigestOf(s[i - 1]) /\ s[i].ns = s[i - 1].ns
  <2>1. PICK j : j = from + i - 1
    OBVIOUS
  <2>2. i \in 1..Len(s) /\ i - 1 \in 1..Len(s) /\ j \in 2..Len(b) /\ from + (i - 1) - 1 = j - 1
    BY <1>1, <2>1
  <2>3. s[i] = b[j] /\ s[i - 1] = b[j - 1]
    BY <1>1, <2>1, <2>2
  <2> QED BY <2>2, <2>3 DEF Successive
<1>3. Len(s) >= 1
  BY <1>1
<1>4. Successive(s)
  BY <1>2 DEF Successive
<1> QED BY <1>1, <1>3, <1>4

\* Once an event of a batch was taken, the next is refused for a digest that is
\* not its own and for nothing else.
LEMMA OnlyFlaws ==
  ASSUME NEW log \in Seq(Event), NEW b \in Seq(Event), Successive(b),
         NEW m \in 1..Len(b), m # Len(b), NEW all \in Seq(Event), Prolonged(log, b, m, all),
         Fault(all, b[m + 1]) # "ok"
  PROVE  ~b[m + 1].sound
<1>1. Len(log) \in Nat /\ Len(b) \in Nat /\ m + 1 \in 2..Len(b) /\ (m + 1) - 1 = m
  OBVIOUS
<1>2. Len(all) = Len(log) + m /\ all[Len(log) + m] = b[m]
  <2>1. m \in 1..m
    OBVIOUS
  <2> QED BY <2>1 DEF Prolonged
<1>3. all # << >> /\ all[Len(all)] = b[m]
  BY <1>1, <1>2
<1>4. b[m + 1].seq = b[m].seq + 1 /\ b[m + 1].prev = DigestOf(b[m]) /\ b[m + 1].ns = b[m].ns
  BY <1>1 DEF Successive
<1>5. b[m + 1].seq = NextSequence(all) /\ b[m + 1].prev = HeadDigest(all)
      /\ all[Len(all)].ns = b[m + 1].ns
  BY <1>3, <1>4 DEF NextSequence, HeadDigest
<1>6. b[m].seq \in Nat
  <2>1. b[m] \in Event
    OBVIOUS
  <2> QED BY <2>1 DEF Event
<1>7. NextSequence(all) \in Nat
  BY <1>3, <1>6 DEF NextSequence
<1> QED BY <1>5, <1>7 DEF Fault

\* What a call that hands a batch over leaves of both backends.
LEMMA HandOverIs ==
  ASSUME MemInv, NEW given \in Seq(Event), HandOver(given)
  PROVE  /\ Twins(events', twin') /\ agreed'
         /\ \E m \in 0..Len(given) :
              /\ Prolonged(events, given, m, events')
              /\ Accepted(given) <=> m = Len(given)
              /\ m # Len(given) => Fault(events', given[m + 1]) # "ok"
         /\ \A e : InVector(e) => InVector(e)'
         /\ Accepted(given) => \A i \in 1..Len(given) : InVector(given[i])'
<1>1. PICK x : x = Taken(events, twin, given)
  OBVIOUS
<1>2. Twins(events, twin) /\ agreed
  BY DEF MemInv
<1>3. Handed(events, given, Len(given), x)
  BY <1>1, <1>2, TakenIs
<1>4. events' = x.mem /\ twin' = x.cat /\ agreed' = (agreed /\ x.memory = x.file)
  BY <1>1 DEF HandOver
<1>5. Accepted(given) <=> x.memory = "ok"
  BY <1>1 DEF Accepted
<1>6. Twins(events', twin') /\ agreed'
  BY <1>2, <1>3, <1>4 DEF Handed
<1>7. PICK m \in 0..Len(given) :
              /\ Prolonged(events, given, m, events')
              /\ Accepted(given) <=> m = Len(given)
              /\ m # Len(given) => Fault(events', given[m + 1]) # "ok"
  BY <1>3, <1>4, <1>5 DEF Handed
<1>8. Len(events) \in Nat /\ Len(given) \in Nat
  BY <1>2 DEF Twins
<1>9. /\ Len(events') = Len(events) + m
      /\ \A i \in 1..Len(events) : events'[i] = events[i]
      /\ \A i \in 1..m : events'[Len(events) + i] = given[i]
  BY <1>7 DEF Prolonged
<1>10. \A e : InVector(e) => InVector(e)'
  <2>1. 1..Len(events) \subseteq 1..Len(events')
    BY <1>8, <1>9
  <2> QED BY <1>9, <2>1 DEF InVector
<1>11. ASSUME Accepted(given), NEW i \in 1..Len(given) PROVE InVector(given[i])'
  <2>1. m = Len(given)
    BY <1>7, <1>11
  <2>2. Len(events) + i \in 1..Len(events') /\ events'[Len(events) + i] = given[i]
    BY <1>8, <1>9, <2>1
  <2> QED BY <2>2 DEF InVector
<1> QED BY <1>6, <1>7, <1>10, <1>11

-----------------------------------------------------------------------------
(* The steps of the threads. *)

LEMMA InitMemInv == MemInit => MemInv
<1> SUFFICES ASSUME MemInit PROVE MemInv
  OBVIOUS
<1>1. << >> \in Seq(Event) /\ Len(<< >>) = 0 /\ 1..0 = {} /\ 2..0 = {}
  OBVIOUS
<1>2. NewCatalog \in Catalog
  BY NewCatalogType
<1>3. /\ NewCatalog.active = 0 /\ NewCatalog.segs = << >> /\ NewCatalog.next = 0
      /\ NewCatalog.head = Genesis /\ NewCatalog.ns = NoNamespace
  BY DEF NewCatalog
<1>4. Twins(<< >>, NewCatalog)
  BY <1>1, <1>2, <1>3 DEF Twins, ChainOf, TailMatches, Covers, HeadDigest
<1>5. Idle \in ThreadState /\ Idle.pc = "idle" /\ Idle.batch = << >>
  BY <1>1 DEF Idle, ThreadState
<1>6. Successive(<< >>)
  BY <1>1 DEF Successive
<1>7. thread \in [Threads -> ThreadState] /\ \A t \in Threads : thread[t] = Idle
  BY <1>5 DEF MemInit
<1>8. \A t \in Threads : Doing(thread[t])
  BY <1>5, <1>6, <1>7 DEF Doing
<1> QED BY <1>4, <1>7, <1>8 DEF MemInit, MemInv, SoundBatchesWhole

\* Idle is a state of a thread in which nothing is to be confirmed.
LEMMA IdleDoing == Idle \in ThreadState /\ Doing(Idle)'
<1>1. << >> \in Seq(Event) /\ 2..Len(<< >>) = {}
  OBVIOUS
<1>2. Idle \in ThreadState /\ Idle.pc = "idle" /\ Idle.batch = << >>
  BY <1>1 DEF Idle, ThreadState
<1>3. Successive(<< >>)
  BY <1>1 DEF Successive
<1> QED BY <1>2, <1>3 DEF Doing

\* A thread that comes into a state that is right leaves the others right.
LEMMA ThreadMoves ==
  ASSUME MemInv, NEW t \in Threads, NEW x \in ThreadState, Doing(x)',
         thread' = [thread EXCEPT ![t] = x], \A e : InVector(e) => InVector(e)'
  PROVE  /\ thread' \in [Threads -> ThreadState]
         /\ \A u \in Threads : Doing(thread[u])'
<1>1. thread \in [Threads -> ThreadState] /\ \A u \in Threads : Doing(thread[u])
  BY DEF MemInv
<1>2. /\ thread' \in [Threads -> ThreadState]
      /\ thread'[t] = x /\ \A u \in Threads : u # t => thread'[u] = thread[u]
  BY <1>1
<1>3. ASSUME NEW u \in Threads PROVE Doing(thread[u])'
  <2>1. CASE u = t
    BY <1>2, <2>1 DEF Doing
  <2>2. CASE u # t
    <3>1. Doing(thread[u]) /\ thread'[u] = thread[u]
      BY <1>1, <1>2, <2>2
    <3> QED BY <3>1 DEF Doing
  <2> QED BY <2>1, <2>2
<1> QED BY <1>2, <1>3

\* A step that leaves both backends alone.
LEMMA VectorKept ==
  ASSUME MemInv, UNCHANGED <<events, twin, partial, agreed>>
  PROVE  /\ Twins(events, twin)' /\ agreed' /\ SoundBatchesWhole'
         /\ \A e : InVector(e) <=> InVector(e)'
BY DEF MemInv, SoundBatchesWhole, InVector

LEMMA BuildMemInv ==
  ASSUME MemInv, NEW t \in Threads, Build(t)
  PROVE  MemInv'
<1>1. PICK n \in 1..MaxBatch, ns \in Namespaces :
        \E pays \in [1..n -> Payloads], flaw \in 0..n, from \in 1..n :
          thread' = [thread EXCEPT ![t] =
                       [pc |-> "built", pos |-> 1,
                        batch |-> SubSeq(BuildEvents(NextSequence(events), HeadDigest(events),
                                                     ns, pays, flaw), from, n)]]
  BY DEF Build
<1>2. PICK pays \in [1..n -> Payloads], flaw \in 0..n, from \in 1..n :
          thread' = [thread EXCEPT ![t] =
                       [pc |-> "built", pos |-> 1,
                        batch |-> SubSeq(BuildEvents(NextSequence(events), HeadDigest(events),
                                                     ns, pays, flaw), from, n)]]
  BY <1>1
<1>3. PICK b : b = BuildEvents(NextSequence(events), HeadDigest(events), ns, pays, flaw)
  OBVIOUS
<1>4. NextSequence(events) \in Nat /\ HeadDigest(events) \in Digest
  <2>1. Twins(events, twin) /\ twin.head \in Digest
    BY DEF MemInv, Twins, Catalog
  <2> QED BY <2>1, TwinTails
<1>5. b \in Seq(Event) /\ Len(b) = n /\ Successive(b)
  <2>1. n \in Nat
    BY BatchAssumption
  <2> QED BY <1>3, <1>4, <2>1, BuiltSuccessive
<1>6. PICK s : s = SubSeq(b, from, n)
  OBVIOUS
<1>7. s \in Seq(Event) /\ Len(s) >= 1 /\ Successive(s)
  BY <1>5, <1>6, RestSuccessive
<1>8. PICK x : x = [pc |-> "built", pos |-> 1, batch |-> s]
  OBVIOUS
<1>9. x \in ThreadState /\ x.pc = "built" /\ x.pos = 1 /\ x.batch = s
  BY <1>7, <1>8 DEF ThreadState
<1>10. 1 \in 1..Len(s)
  BY <1>7
<1>11. Doing(x)'
  BY <1>7, <1>9, <1>10 DEF Doing
<1>12. thread' = [thread EXCEPT ![t] = x]
  BY <1>2, <1>3, <1>6, <1>8
<1>13. UNCHANGED <<events, twin, confirmed, partial, agreed>>
  BY DEF Build
<1>14. /\ Twins(events, twin)' /\ agreed' /\ SoundBatchesWhole'
       /\ \A e : InVector(e) <=> InVector(e)'
  BY <1>13, VectorKept
<1>15. thread' \in [Threads -> ThreadState] /\ \A u \in Threads : Doing(thread[u])'
  BY <1>9, <1>11, <1>12, <1>14, ThreadMoves
<1>16. \A e \in confirmed' : InVector(e)'
  BY <1>13, <1>14 DEF MemInv
<1> QED BY <1>14, <1>15, <1>16 DEF MemInv

\* A thread that goes on from where it is, with another label.
LEMMA Relabelled ==
  ASSUME MemInv, NEW t \in Threads, NEW label \in {"each", "whole", "single"}
  PROVE  \E x \in ThreadState :
           /\ x.pc = label /\ x.batch = thread[t].batch /\ x.pos = thread[t].pos
           /\ [thread EXCEPT ![t].pc = label] = [thread EXCEPT ![t] = x]
<1>1. thread[t] \in ThreadState /\ thread \in [Threads -> ThreadState]
  BY DEF MemInv
<1>2. PICK x : x = [thread[t] EXCEPT !.pc = label]
  OBVIOUS
<1>3. x \in ThreadState /\ x.pc = label /\ x.batch = thread[t].batch /\ x.pos = thread[t].pos
  BY <1>1, <1>2 DEF ThreadState
<1>4. [thread EXCEPT ![t].pc = label] = [thread EXCEPT ![t] = x]
  BY <1>1, <1>2
<1> QED BY <1>3, <1>4

LEMMA AppendBatchMemInv ==
  ASSUME MemInv, NEW t \in Threads, AppendBatch(t)
  PROVE  MemInv'
<1>1. PICK b : b = thread[t].batch
  OBVIOUS
<1>2. /\ thread[t].pc = "built" /\ HandOver(b) /\ confirmed' = confirmed
      /\ partial' = IF Accepted(b) \/ events' = events THEN partial ELSE partial \union {b}
      /\ thread' = IF Accepted(b) THEN [thread EXCEPT ![t].pc = "whole"]
                                  ELSE [thread EXCEPT ![t] = Idle]
  BY <1>1 DEF AppendBatch
<1>3. b \in Seq(Event) /\ Successive(b) /\ thread[t].pos \in 1..Len(b)
  BY <1>1, <1>2 DEF MemInv, ThreadState, Doing
<1>4. /\ Twins(events', twin') /\ agreed'
      /\ \A e : InVector(e) => InVector(e)'
      /\ Accepted(b) => \A i \in 1..Len(b) : InVector(b[i])'
  BY <1>2, <1>3, HandOverIs
<1>5. PICK m \in 0..Len(b) :
        /\ Prolonged(events, b, m, events')
        /\ Accepted(b) <=> m = Len(b)
        /\ m # Len(b) => Fault(events', b[m + 1]) # "ok"
  BY <1>2, <1>3, HandOverIs
<1>6. \A e \in confirmed' : InVector(e)'
  BY <1>2, <1>4 DEF MemInv
<1>7. SoundBatchesWhole'
  <2>1. ASSUME ~Accepted(b), events' # events PROVE \E i \in DOMAIN b : ~b[i].sound
    <3>1. events \in Seq(Event) /\ events' \in Seq(Event)
      BY <1>4 DEF MemInv, Twins
    <3>2. m # 0
      <4> SUFFICES ASSUME m = 0 PROVE FALSE
        OBVIOUS
      <4>1. Len(events') = Len(events) /\ \A i \in 1..Len(events) : events'[i] = events[i]
        BY <1>5, <3>1 DEF Prolonged
      <4>2. PICK v : v = events'
        OBVIOUS
      <4>3. v = events
        BY <3>1, <4>1, <4>2, SameElements
      <4> QED BY <2>1, <4>2, <4>3
    <3>3. m \in 1..Len(b) /\ m # Len(b) /\ m + 1 \in DOMAIN b
      BY <1>3, <1>5, <2>1, <3>2
    <3>4. PICK v : v = events'
      OBVIOUS
    <3>5. v \in Seq(Event) /\ Prolonged(events, b, m, v) /\ Fault(v, b[m + 1]) # "ok"
      BY <1>5, <3>1, <3>3, <3>4
    <3>6. ~b[m + 1].sound
      BY <1>3, <3>1, <3>3, <3>5, OnlyFlaws
    <3> QED BY <3>3, <3>6
  <2>2. \A d \in partial : \E i \in DOMAIN d : ~d[i].sound
    BY DEF MemInv, SoundBatchesWhole
  <2> QED BY <1>2, <2>1, <2>2 DEF SoundBatchesWhole
<1>8. thread' \in [Threads -> ThreadState] /\ \A u \in Threads : Doing(thread[u])'
  <2>1. CASE Accepted(b)
    <3>1. PICK x \in ThreadState :
            /\ x.pc = "whole" /\ x.batch = thread[t].batch /\ x.pos = thread[t].pos
            /\ [thread EXCEPT ![t].pc = "whole"] = [thread EXCEPT ![t] = x]
      BY Relabelled
    <3>2. Doing(x)'
      BY <1>1, <1>3, <1>4, <2>1, <3>1 DEF Doing
    <3>3. thread' = [thread EXCEPT ![t] = x]
      BY <1>2, <2>1, <3>1
    <3> QED BY <1>4, <3>2, <3>3, ThreadMoves
  <2>2. CASE ~Accepted(b)
    <3>1. thread' = [thread EXCEPT ![t] = Idle]
      BY <1>2, <2>2
    <3> QED BY <1>4, <3>1, IdleDoing, ThreadMoves
  <2> QED BY <2>1, <2>2
<1> QED BY <1>4, <1>6, <1>7, <1>8 DEF MemInv

LEMMA AppendEachMemInv ==
  ASSUME MemInv, NEW t \in Threads, AppendEach(t)
  PROVE  MemInv'
<1>1. PICK e : e = thread[t].batch[thread[t].pos]
  OBVIOUS
<1>2. PICK b : b = <<e>>
  OBVIOUS
<1>3. /\ thread[t].pc \in {"built", "each"} /\ HandOver(b)
      /\ confirmed' = confirmed /\ partial' = partial
      /\ thread' = IF Accepted(b) THEN [thread EXCEPT ![t].pc = "single"]
                                  ELSE [thread EXCEPT ![t] = Idle]
  BY <1>1, <1>2 DEF AppendEach
<1>4. /\ Successive(thread[t].batch) /\ thread[t].pos \in 1..Len(thread[t].batch)
      /\ thread[t].batch \in Seq(Event)
  BY <1>3 DEF MemInv, ThreadState, Doing
<1>5. b \in Seq(Event) /\ Len(b) = 1 /\ b[1] = e
  <2>1. e \in Event
    BY <1>1, <1>4
  <2> QED BY <1>2, <2>1
<1>6. /\ Twins(events', twin') /\ agreed'
      /\ \A d : InVector(d) => InVector(d)'
      /\ Accepted(b) => InVector(e)'
  <2>1. /\ Twins(events', twin') /\ agreed'
        /\ \A d : InVector(d) => InVector(d)'
        /\ Accepted(b) => \A i \in 1..Len(b) : InVector(b[i])'
    BY <1>3, <1>5, HandOverIs
  <2>2. 1 \in 1..Len(b)
    BY <1>5
  <2> QED BY <1>5, <2>1, <2>2 DEF InVector
<1>7. \A d \in confirmed' : InVector(d)'
  BY <1>3, <1>6 DEF MemInv
<1>8. SoundBatchesWhole'
  BY <1>3 DEF MemInv, SoundBatchesWhole
<1>9. thread' \in [Threads -> ThreadState] /\ \A u \in Threads : Doing(thread[u])'
  <2>1. CASE Accepted(b)
    <3>1. PICK x \in ThreadState :
            /\ x.pc = "single" /\ x.batch = thread[t].batch /\ x.pos = thread[t].pos
            /\ [thread EXCEPT ![t].pc = "single"] = [thread EXCEPT ![t] = x]
      BY Relabelled
    <3>2. Doing(x)'
      BY <1>1, <1>4, <1>6, <2>1, <3>1 DEF Doing
    <3>3. thread' = [thread EXCEPT ![t] = x]
      BY <1>3, <2>1, <3>1
    <3> QED BY <1>6, <3>2, <3>3, ThreadMoves
  <2>2. CASE ~Accepted(b)
    <3>1. thread' = [thread EXCEPT ![t] = Idle]
      BY <1>3, <2>2
    <3> QED BY <1>6, <3>1, IdleDoing, ThreadMoves
  <2> QED BY <2>1, <2>2
<1> QED BY <1>6, <1>7, <1>8, <1>9 DEF MemInv

LEMMA ReturnBatchMemInv ==
  ASSUME MemInv, NEW t \in Threads, ReturnBatch(t)
  PROVE  MemInv'
<1>1. /\ thread[t].pc = "whole"
      /\ confirmed' = confirmed \union {thread[t].batch[i] : i \in DOMAIN thread[t].batch}
      /\ thread' = [thread EXCEPT ![t] = Idle]
      /\ UNCHANGED <<events, twin, partial, agreed>>
  BY DEF ReturnBatch
<1>2. /\ Twins(events, twin)' /\ agreed' /\ SoundBatchesWhole'
      /\ \A e : InVector(e) <=> InVector(e)'
  BY <1>1, VectorKept
<1>3. thread' \in [Threads -> ThreadState] /\ \A u \in Threads : Doing(thread[u])'
  BY <1>1, <1>2, IdleDoing, ThreadMoves
<1>4. /\ thread[t].batch \in Seq(Event)
      /\ \A i \in 1..Len(thread[t].batch) : InVector(thread[t].batch[i])
  BY <1>1 DEF MemInv, ThreadState, Doing
<1>5. DOMAIN thread[t].batch = 1..Len(thread[t].batch)
  BY <1>4
<1>6. \A e \in confirmed' : InVector(e)
  BY <1>1, <1>4, <1>5 DEF MemInv
<1> QED BY <1>2, <1>3, <1>6 DEF MemInv

LEMMA ReturnEachMemInv ==
  ASSUME MemInv, NEW t \in Threads, ReturnEach(t)
  PROVE  MemInv'
<1>1. /\ thread[t].pc = "single"
      /\ confirmed' = confirmed \union {thread[t].batch[thread[t].pos]}
      /\ thread' = IF thread[t].pos < Len(thread[t].batch)
                   THEN [thread EXCEPT ![t].pc = "each", ![t].pos = @ + 1]
                   ELSE [thread EXCEPT ![t] = Idle]
      /\ UNCHANGED <<events, twin, partial, agreed>>
  BY DEF ReturnEach
<1>2. /\ Twins(events, twin)' /\ agreed' /\ SoundBatchesWhole'
      /\ \A e : InVector(e) <=> InVector(e)'
  BY <1>1, VectorKept
<1>3. /\ thread[t] \in ThreadState /\ thread \in [Threads -> ThreadState]
      /\ Successive(thread[t].batch) /\ thread[t].pos \in 1..Len(thread[t].batch)
      /\ InVector(thread[t].batch[thread[t].pos])
  BY <1>1 DEF MemInv, Doing
<1>4. thread' \in [Threads -> ThreadState] /\ \A u \in Threads : Doing(thread[u])'
  <2>1. CASE thread[t].pos < Len(thread[t].batch)
    <3>1. PICK x : x = [pc |-> "each", batch |-> thread[t].batch, pos |-> thread[t].pos + 1]
      OBVIOUS
    <3>2. /\ thread[t].batch \in Seq(Event) /\ thread[t].pos \in Nat
          /\ thread[t].pos + 1 \in 1..Len(thread[t].batch)
      BY <1>3, <2>1 DEF ThreadState
    <3>3. x \in ThreadState /\ x.pc = "each" /\ x.batch = thread[t].batch /\ x.pos = thread[t].pos + 1
      BY <3>1, <3>2 DEF ThreadState
    <3>4. Doing(x)'
      BY <1>3, <3>2, <3>3 DEF Doing
    <3>5. thread' = [thread EXCEPT ![t] = x]
      <4>1. PICK s : s = thread[t]
        OBVIOUS
      <4>2. thread' = [thread EXCEPT ![t] = [[s EXCEPT !.pc = "each"] EXCEPT !.pos = @ + 1]]
        BY <1>1, <1>3, <2>1, <4>1
      <4>3. [[s EXCEPT !.pc = "each"] EXCEPT !.pos = @ + 1] = x
        <5>1. PICK u : u = [s EXCEPT !.pc = "each"]
          OBVIOUS
        <5>2. u \in ThreadState /\ u.pc = "each" /\ u.batch = s.batch /\ u.pos = s.pos
          BY <1>3, <4>1, <5>1 DEF ThreadState
        <5>3. [u EXCEPT !.pos = u.pos + 1] = [pc |-> u.pc, batch |-> u.batch, pos |-> u.pos + 1]
          <6>1. PICK v : v = u.pos + 1
            OBVIOUS
          <6>2. [u EXCEPT !.pos = v] = [pc |-> u.pc, batch |-> u.batch, pos |-> v]
            BY <5>2, SMT DEF ThreadState
          <6> QED BY <6>1, <6>2, Zenon
        <5> QED BY <3>1, <4>1, <5>1, <5>2, <5>3, Zenon
      <4> QED BY <4>2, <4>3
    <3> QED BY <1>2, <3>3, <3>4, <3>5, ThreadMoves
  <2>2. CASE ~(thread[t].pos < Len(thread[t].batch))
    <3>1. thread' = [thread EXCEPT ![t] = Idle]
      BY <1>1, <2>2
    <3> QED BY <1>2, <3>1, IdleDoing, ThreadMoves
  <2> QED BY <2>1, <2>2
<1>5. \A e \in confirmed' : InVector(e)
  BY <1>1, <1>3 DEF MemInv
<1> QED BY <1>2, <1>4, <1>5 DEF MemInv

LEMMA NextMemInv == MemInv /\ [MemNext]_memVars => MemInv'
<1> SUFFICES ASSUME MemInv, [MemNext]_memVars PROVE MemInv'
  OBVIOUS
<1>1. ASSUME NEW t \in Threads, Build(t) PROVE MemInv'
  BY <1>1, BuildMemInv
<1>2. ASSUME NEW t \in Threads, AppendBatch(t) PROVE MemInv'
  BY <1>2, AppendBatchMemInv
<1>3. ASSUME NEW t \in Threads, AppendEach(t) PROVE MemInv'
  BY <1>3, AppendEachMemInv
<1>4. ASSUME NEW t \in Threads, ReturnBatch(t) PROVE MemInv'
  BY <1>4, ReturnBatchMemInv
<1>5. ASSUME NEW t \in Threads, ReturnEach(t) PROVE MemInv'
  BY <1>5, ReturnEachMemInv
<1>6. CASE UNCHANGED memVars
  <2>1. Twins(events, twin)' /\ \A t \in Threads : Doing(thread[t])'
    BY <1>6 DEF memVars, MemInv, Doing, InVector
  <2>2. (\A e \in confirmed : InVector(e))' /\ SoundBatchesWhole'
    BY <1>6 DEF memVars, MemInv, InVector, SoundBatchesWhole
  <2>3. thread' \in [Threads -> ThreadState] /\ agreed'
    BY <1>6 DEF memVars, MemInv
  <2> QED BY <2>1, <2>2, <2>3 DEF MemInv
<1> QED BY <1>1, <1>2, <1>3, <1>4, <1>5, <1>6 DEF MemNext

LEMMA MemoryInvariant == MemSpec => []MemInv
<1> QED BY InitMemInv, NextMemInv, PTL DEF MemSpec

\* For any number of threads and any batches, whichever way they are handed
\* over: InMemoryBackend and FileSystemBackend take the same events, refuse the
\* others with the same code, and agree on the tail.
THEOREM BackendsAlwaysAgree == MemSpec => []BackendsAgree
<1>1. MemInv => BackendsAgree
  <2> SUFFICES ASSUME MemInv PROVE BackendsAgree
    OBVIOUS
  <2>1. Twins(events, twin) /\ agreed
    BY DEF MemInv
  <2>2. /\ twin.next = NextSequence(events) /\ twin.head = HeadDigest(events)
        /\ events # << >> => twin.ns = events[Len(events)].ns
    BY <2>1, TwinTails
  <2>3. DOMAIN events = 1..Len(events) /\ DOMAIN twin.segs = 1..Len(twin.segs)
    <3>1. events \in Seq(Event) /\ twin.segs \in Seq(Entry)
      BY <2>1 DEF Twins, Catalog
    <3> QED BY <3>1
  <2>4. ASSUME NEW i \in 1..Len(events)
        PROVE  \E k \in 1..Len(twin.segs) :
                 /\ events[i].seq \in twin.segs[k].start..twin.segs[k].end
                 /\ twin.segs[k].ns = events[i].ns
    <3>1. events[i].seq = i - 1 /\ events[i].ns = events[1].ns
      BY <2>1 DEF Twins, ChainOf
    <3>2. PICK k \in 1..Len(twin.segs) : i - 1 \in twin.segs[k].start..twin.segs[k].end
      BY <2>1 DEF Twins, Covers
    <3>3. events # << >>
      BY <2>1, TwinTails
    <3>4. twin.segs[k].ns = events[1].ns
      BY <2>1, <3>3 DEF Twins, TailMatches
    <3> QED BY <3>1, <3>2, <3>4
  <2> QED BY <2>1, <2>2, <2>3, <2>4 DEF BackendsAgree
<1> QED BY <1>1, MemoryInvariant, PTL

\* append_batch stops in the middle of a batch only at an event whose digest is
\* not its own: no other thread's append makes it stop there.
THEOREM SoundBatchesStayWhole == MemSpec => []SoundBatchesWhole
<1>1. MemInv => SoundBatchesWhole
  BY DEF MemInv
<1> QED BY <1>1, MemoryInvariant, PTL

-----------------------------------------------------------------------------
(* The in-memory backend implements the abstract log. *)

\* A call that hands a batch over adds to the end of the log, or nothing.
LEMMA HandOverExtends ==
  ASSUME MemInv, NEW given \in Seq(Event), HandOver(given), confirmed' = confirmed
  PROVE  AbstractMemory!Extend \/ UNCHANGED AbstractMemory!absvars
<1>1. Twins(events, twin) /\ Twins(events', twin')
  BY HandOverIs DEF MemInv
<1>2. PICK m \in 0..Len(given) : Prolonged(events, given, m, events')
  BY HandOverIs
<1>3. PICK a : a = events
  OBVIOUS
<1>4. PICK b : b = events'
  OBVIOUS
<1>5. a \in Seq(Event) /\ b \in Seq(Event) /\ ChainOf(b)
  BY <1>1, <1>3, <1>4 DEF Twins
<1>6. Len(b) = Len(a) + m /\ \A i \in 1..Len(a) : b[i] = a[i]
  BY <1>2, <1>3, <1>4 DEF Prolonged
<1> DEFINE A == [i \in DOMAIN a |-> Stamped(a[i])]
           B == [i \in DOMAIN b |-> Stamped(b[i])]
<1>7. /\ Len(A) = Len(a) /\ Len(B) = Len(b) /\ DOMAIN A = 1..Len(a) /\ DOMAIN B = 1..Len(b)
      /\ Len(a) \in Nat /\ Len(b) \in Nat
      /\ \A i \in 1..Len(a) : A[i] = Stamped(a[i])
      /\ \A i \in 1..Len(b) : B[i] = Stamped(b[i])
  BY <1>5
<1> HIDE DEF A, B
<1>8. Len(A) <= Len(B) /\ \A i \in DOMAIN A : B[i] = A[i]
  BY <1>6, <1>7
<1>9. \A i \in DOMAIN B : B[i].seq = i - 1 /\ B[i].ns = B[1].ns
  <2>1. ASSUME NEW i \in 1..Len(b) PROVE B[i].seq = i - 1 /\ B[i].ns = B[1].ns
    <3>1. b[i].seq = i - 1 /\ b[i].ns = b[1].ns
      BY <1>5 DEF ChainOf
    <3>2. 1 \in 1..Len(b)
      BY <1>7
    <3> QED BY <1>7, <3>1, <3>2 DEF Stamped
  <2> QED BY <1>7, <2>1
<1>10. [i \in DOMAIN events |-> Stamped(events[i])] = A
  BY <1>3 DEF A
<1>11. [i \in DOMAIN events' |-> Stamped(events'[i])] = B
  BY <1>4 DEF B
<1>12. CASE B = A
  BY <1>10, <1>11, <1>12 DEF AbstractMemory!absvars
<1>13. CASE B # A
  <2>1. AbstractMemory!Extend
    BY <1>8, <1>9, <1>10, <1>11, <1>13
       DEF AbstractMemory!Extend, AbstractMemory!StartsWith, AbstractMemory!Numbered
  <2> QED BY <2>1
<1> QED BY <1>12, <1>13

\* A call that returns Ok confirms events the vector has.
LEMMA ReturnConfirms ==
  ASSUME MemInv, MemInv', events' = events, confirmed \subseteq confirmed'
  PROVE  AbstractMemory!Confirm \/ UNCHANGED AbstractMemory!absvars
<1> DEFINE log == [i \in DOMAIN events |-> Stamped(events[i])]
           was == {Stamped(e) : e \in confirmed}
           now == {Stamped(e) : e \in confirmed'}
<1>1. DOMAIN events = 1..Len(events) /\ DOMAIN log = 1..Len(events)
  BY DEF MemInv, Twins
<1>2. \A e \in confirmed' : \E i \in 1..Len(events) : events[i] = e
  BY DEF MemInv, InVector
<1>3. \A x \in now : \E i \in DOMAIN log : log[i] = x
  BY <1>1, <1>2
<1>4. was \subseteq now
  OBVIOUS
<1>5. log' = log
  OBVIOUS
<1>6. CASE now = was
  BY <1>5, <1>6 DEF AbstractMemory!absvars
<1>7. CASE now # was
  <2>1. AbstractMemory!Confirm
    BY <1>3, <1>4, <1>5, <1>7 DEF AbstractMemory!Confirm, AbstractMemory!InLog
  <2> QED BY <2>1
<1> QED BY <1>6, <1>7

LEMMA MemoryStepIsAbstract ==
  MemInv /\ MemInv' /\ [MemNext]_memVars => [AbstractMemory!Next]_AbstractMemory!absvars
<1> SUFFICES ASSUME MemInv, MemInv', [MemNext]_memVars
             PROVE  [AbstractMemory!Next]_AbstractMemory!absvars
  OBVIOUS
<1> USE DEF AbstractMemory!Next
<1>1. CASE UNCHANGED <<events, confirmed>>
  BY <1>1 DEF AbstractMemory!absvars
<1>2. ASSUME NEW t \in Threads, AppendBatch(t)
      PROVE  [AbstractMemory!Next]_AbstractMemory!absvars
  <2>1. thread[t].batch \in Seq(Event)
    BY DEF MemInv, ThreadState
  <2>2. HandOver(thread[t].batch) /\ confirmed' = confirmed
    BY <1>2 DEF AppendBatch
  <2> QED BY <2>1, <2>2, HandOverExtends
<1>3. ASSUME NEW t \in Threads, AppendEach(t)
      PROVE  [AbstractMemory!Next]_AbstractMemory!absvars
  <2>1. PICK e : e = thread[t].batch[thread[t].pos]
    OBVIOUS
  <2>2. HandOver(<<e>>) /\ confirmed' = confirmed /\ thread[t].pc # "idle"
    BY <1>3, <2>1 DEF AppendEach
  <2>3. e \in Event
    <3>1. thread[t].batch \in Seq(Event) /\ thread[t].pos \in 1..Len(thread[t].batch)
      BY <2>2 DEF MemInv, ThreadState, Doing
    <3> QED BY <2>1, <3>1
  <2>4. <<e>> \in Seq(Event)
    BY <2>3
  <2> QED BY <2>2, <2>4, HandOverExtends
<1>4. ASSUME NEW t \in Threads, ReturnBatch(t) \/ ReturnEach(t)
      PROVE  [AbstractMemory!Next]_AbstractMemory!absvars
  <2>1. events' = events /\ confirmed \subseteq confirmed'
    BY <1>4 DEF ReturnBatch, ReturnEach
  <2> QED BY <2>1, ReturnConfirms
<1>5. ASSUME NEW t \in Threads, Build(t) PROVE UNCHANGED <<events, confirmed>>
  BY <1>5 DEF Build
<1>6. UNCHANGED memVars => UNCHANGED <<events, confirmed>>
  BY DEF memVars
<1> QED BY <1>1, <1>2, <1>3, <1>4, <1>5, <1>6 DEF MemNext

\* For any number of threads and any batches the vector is the log that is
\* promised (AbstractLog): of one tenant, numbered from 0 without gaps, growing
\* only at its end, and confirmed only for what it has.
THEOREM MemoryIsAbstractLog == MemSpec => MemoryImplementsLog
<1>1. MemInit => AbstractMemory!Init
  <2> SUFFICES ASSUME MemInit PROVE AbstractMemory!Init
    OBVIOUS
  <2>1. events = << >> /\ confirmed = {}
    BY DEF MemInit
  <2>2. [i \in DOMAIN events |-> Stamped(events[i])] = << >>
    BY <2>1
  <2> QED BY <2>1, <2>2 DEF AbstractMemory!Init
<1> QED BY <1>1, MemoryInvariant, MemoryStepIsAbstract, PTL
        DEF MemSpec, MemoryImplementsLog, AbstractMemory!Spec
-----------------------------------------------------------------------------
(* The migration of a log in the old layout. *)

\* An event as the history of a digest has it.
StampOfEvent(e) == [seq |-> e.seq, ns |-> e.ns, pay |-> e.pay]

\* The first m events of a log, in that form.
FirstStamps(log, m) == [i \in 1..m |-> StampOfEvent(log[i])]

\* A directory of segment files.
DirOK(dir) == DOMAIN dir \subseteq SegId /\ dir \in [DOMAIN dir -> File]

\* Of the first m events of the log, the segments that begin among them say so.
Starts(c, L, m) ==
  \A k \in 1..Len(c.segs) :
    c.segs[k].start < m => L[k] # << >> /\ c.segs[k].first = DigestOf(L[k][1])

\* An entry is right on the events of its segment it counts.
Counted(entry, evs) ==
  LET n == entry.count
  IN  /\ n <= Len(evs)
      /\ entry.bytes = Bytes(SubSeq(evs, 1, n))
      /\ n > 0 => entry.end = evs[n].seq /\ entry.last = DigestOf(evs[n])

Behind(c, L) ==
  /\ \A k \in 1..Len(c.segs) : Counted(c.segs[k], L[k])
  /\ c.segs[Len(c.segs)].start + c.segs[Len(c.segs)].count = c.next

\* A catalog whose segments have their files, and that knows the first m events.
Knows(c, dir, m) ==
  /\ c \in Catalog /\ CatalogOK(c, dir) /\ HasActive(c) /\ c.next >= m
  /\ Starts(c, Contents(c, dir), m)

\* Such a catalog as a process that appends has it in memory, ...
Solid(c, dir, m) == Knows(c, dir, m) /\ Exact(c, Contents(c, dir))

\* ... and as a kill may leave it on the disk.
Kept(c, dir, m) ==
  Knows(c, dir, m) /\ OnDisk(c, Contents(c, dir)) /\ Behind(c, Contents(c, dir))

\* A catalog that says of the files of a directory what they are, none empty.
Published(c, dir) ==
  /\ c \in Catalog /\ CatalogOK(c, dir) /\ Exact(c, Contents(c, dir))
  /\ \A k \in 1..Len(c.segs) :
       /\ Contents(c, dir)[k] # << >>
       /\ c.segs[k].first = DigestOf(Contents(c, dir)[k][1])

\* The history of the log's events, in whatever layout it is: of the new one,
\* the digest its catalog has of the last event once it is reconciled.
History == IF HasActive(catalog) THEN Opened.head ELSE StampsOf(path)

Begins(s, t) == Len(t) <= Len(s) /\ \A i \in 1..Len(t) : s[i] = t[i]

InHistory(e) == \E i \in 1..Len(History) : History[i] = e

DiskInv ==
  /\ path \in Seq(Event) /\ moved \in Seq(Event) /\ ChainOf(path)
  /\ DirOK(files) /\ DirOK(tmpFiles) /\ tmpCatalog \in Catalog
  /\ HasActive(catalog) => Kept(catalog, files, Len(OldEvents))
  /\ ~HasActive(catalog) => catalog = NewCatalog /\ path # << >>
  /\ Begins(History, StampsOf(path))

Labels == {"idle", "scan", "lock", "open", "copy", "remove", "rename_segments",
           "rename_catalog", "rename_log", "append", "roll_catalog", "put", "commit", "unlock"}

\* Where the lock on <log>.lock is held, where the migration is under way, and
\* where the lock holder has a catalog of its own of the log in the new layout.
Holding == Labels \ {"idle", "scan", "lock"}
Migrating == {"copy", "remove", "rename_segments", "rename_catalog"}
Appending == {"roll_catalog", "put", "commit"}

\* A catalog of all the events of the old file.
CopyOf(c, dir) == Published(c, dir) /\ HasActive(c) /\ c.head = StampsOf(path)

\* What the process that holds the lock has done so far.
Copied(w) ==
  /\ Published(mem[w], tmpFiles)
  /\ pos[w] \in 1..(Len(path) + 1)
  /\ mem[w].head = FirstStamps(path, pos[w] - 1)
  /\ mem[w].next = pos[w] - 1
  /\ mem[w].ns \in {NoNamespace, path[1].ns}

Written(w) == Solid(mem[w], files, Len(OldEvents)) /\ mem[w].head = History

Progress(w) ==
  /\ pc[w] \in Migrating => ~HasActive(catalog)
  /\ pc[w] = "copy" => Copied(w)
  /\ pc[w] \in {"remove", "rename_segments"} => CopyOf(tmpCatalog, tmpFiles)
  /\ pc[w] = "rename_catalog" => CopyOf(tmpCatalog, files)
  /\ pc[w] \in Holding \ (Migrating \union {"open"}) => HasActive(catalog)
  /\ pc[w] = "rename_log" => path # << >>
  /\ pc[w] \in Appending => Written(w)
  /\ pc[w] \in {"roll_catalog", "put"} => Admissible(mem[w], batch[w][1])
  /\ pc[w] = "put" => catalog = mem[w]
  /\ pc[w] \in {"commit", "unlock"} => InHistory(StampsOf(batch[w])[1])

\* A process that read the catalog finds the files it names when it scans them.
WriterInv(w) ==
  /\ lock = w <=> pc[w] \in Holding
  /\ pc[w] \in Holding \union {"lock"} => Len(batch[w]) = 1
  /\ pc[w] = "scan" => CatalogOK(mem[w], files) /\ (mem[w] = NewCatalog \/ HasActive(catalog))
  /\ Progress(w)

ReaderInv(r) ==
  /\ floor[r] \in 0..Len(History)
  /\ rpc[r] = "segments" => HasActive(catalog)
  /\ rpc[r] = "file" /\ path # << >> => floor[r] <= Len(path)
  /\ rpc[r] = "done" => Begins(History, got[r]) /\ (got[r] = << >> \/ Len(got[r]) >= floor[r])

LocalsOK ==
  /\ lock \in Writers \union {NoOne}
  /\ pc \in [Writers -> Labels] /\ mem \in [Writers -> Catalog]
  /\ batch \in [Writers -> Seq(Event)] /\ pos \in [Writers -> Nat \ {0}]
  /\ rpc \in [Readers -> {"idle", "segments", "file", "done", "failed"}]
  /\ got \in [Readers -> Seq(Stamp)]

MigrationInv ==
  /\ DiskInv /\ LocalsOK /\ floor \in [Readers -> Nat]
  /\ \A e \in acked : InHistory(e)
  /\ \A w \in Writers : WriterInv(w)
  /\ \A r \in Readers : ReaderInv(r)

-----------------------------------------------------------------------------
(* Logs and the digests of their events. *)

\* A log as the history of a digest has it.
LEMMA StampsOfIs ==
  ASSUME NEW log \in Seq(Event)
  PROVE  /\ StampsOf(log) = FirstStamps(log, Len(log))
         /\ StampsOf(log) \in Seq(Stamp) /\ Len(StampsOf(log)) = Len(log)
         /\ \A i \in 1..Len(log) : StampsOf(log)[i] = StampOfEvent(log[i])
         /\ Len(log) \in Nat
<1>1. Len(log) \in Nat /\ DOMAIN log = 1..Len(log)
  OBVIOUS
<1>2. StampsOf(log) = [i \in 1..Len(log) |-> StampOfEvent(log[i])]
  BY <1>1 DEF StampsOf, StampOfEvent
<1>3. ASSUME NEW i \in 1..Len(log) PROVE StampOfEvent(log[i]) \in Stamp
  <2>1. log[i] \in Event
    OBVIOUS
  <2> QED BY <2>1 DEF StampOfEvent, Event, Stamp
<1> QED BY <1>1, <1>2, <1>3 DEF FirstStamps

\* One event more of a log.
LEMMA OneStampMore ==
  ASSUME NEW log \in Seq(Event), NEW i \in Nat, i + 1 <= Len(log)
  PROVE  FirstStamps(log, i + 1) = Append(FirstStamps(log, i), StampOfEvent(log[i + 1]))
<1>1. Len(log) \in Nat
  OBVIOUS
<1>2. \A j \in 1..(i + 1) : StampOfEvent(log[j]) \in Stamp
  <2> SUFFICES ASSUME NEW j \in 1..(i + 1) PROVE StampOfEvent(log[j]) \in Stamp
    OBVIOUS
  <2>1. log[j] \in Event
    BY <1>1
  <2> QED BY <2>1 DEF StampOfEvent, Event, Stamp
<1> QED BY <1>2 DEF FirstStamps

\* The digest of an event of a chain is the history of the events up to it.
LEMMA ChainHistory ==
  ASSUME NEW log \in Seq(Event), ChainOf(log), NEW m \in 0..Len(log)
  PROVE  (IF m = 0 THEN Genesis ELSE DigestOf(log[m])) = FirstStamps(log, m)
<1> DEFINE S == {i \in Nat : i <= Len(log) =>
                   (IF i = 0 THEN Genesis ELSE DigestOf(log[i])) = FirstStamps(log, i)}
<1>1. Len(log) \in Nat
  OBVIOUS
<1>2. 0 \in S
  BY DEF FirstStamps, Genesis
<1>3. ASSUME NEW i \in Nat, i \in S PROVE i + 1 \in S
  <2> SUFFICES ASSUME i + 1 <= Len(log)
               PROVE  DigestOf(log[i + 1]) = FirstStamps(log, i + 1)
    OBVIOUS
  <2>1. i + 1 \in 1..Len(log) /\ (i # 0 => i + 1 # 1) /\ (i + 1) - 1 = i /\ i <= Len(log)
    BY <1>1
  <2>2. log[i + 1].prev = IF i = 0 THEN Genesis ELSE DigestOf(log[i])
    BY <2>1 DEF ChainOf
  <2>3. log[i + 1].prev = FirstStamps(log, i)
    BY <1>3, <2>1, <2>2
  <2>4. FirstStamps(log, i + 1) = Append(FirstStamps(log, i), StampOfEvent(log[i + 1]))
    BY OneStampMore
  <2> QED BY <2>3, <2>4 DEF DigestOf, StampOfEvent
<1> HIDE DEF S
<1>4. m \in S
  BY <1>1, <1>2, <1>3, NumberInduction
<1> QED BY <1>1, <1>4 DEF S

\* The events of one segment, linked to each other and to what comes before it.
LEMMA SegmentHistory ==
  ASSUME NEW all \in Seq(Event), NEW seg \in Seq(Event), NEW s \in Nat,
         \A i \in 1..Len(seg) :
           /\ s + i \in 1..Len(all) /\ all[s + i] = seg[i]
           /\ seg[i].prev = IF i = 1 THEN FirstStamps(all, s) ELSE DigestOf(seg[i - 1])
  PROVE  \A i \in 1..Len(seg) : DigestOf(seg[i]) = FirstStamps(all, s + i)
<1> DEFINE S == {i \in Nat : i + 1 <= Len(seg) =>
                   DigestOf(seg[i + 1]) = FirstStamps(all, s + (i + 1))}
<1>1. Len(seg) \in Nat /\ Len(all) \in Nat
  OBVIOUS
<1>2. ASSUME NEW i \in 1..Len(seg), seg[i].prev = FirstStamps(all, s + (i - 1))
      PROVE  DigestOf(seg[i]) = FirstStamps(all, s + i)
  <2>1. PICK j : j = s + (i - 1)
    OBVIOUS
  <2>2. j \in Nat /\ j + 1 = s + i /\ j + 1 <= Len(all)
    <3>1. s + i \in 1..Len(all)
      OBVIOUS
    <3> QED BY <1>1, <2>1, <3>1
  <2>3. FirstStamps(all, j + 1) = Append(FirstStamps(all, j), StampOfEvent(all[j + 1]))
    BY <2>2, OneStampMore
  <2>4. all[j + 1] = seg[i]
    BY <2>2
  <2> QED BY <1>2, <2>1, <2>2, <2>3, <2>4 DEF DigestOf, StampOfEvent
<1>3. 0 \in S
  <2> SUFFICES ASSUME 0 + 1 <= Len(seg) PROVE DigestOf(seg[1]) = FirstStamps(all, s + 1)
    OBVIOUS
  <2>1. 1 \in 1..Len(seg) /\ s + (1 - 1) = s
    BY <1>1
  <2>2. seg[1].prev = FirstStamps(all, s + (1 - 1))
    BY <2>1
  <2> QED BY <1>2, <2>1, <2>2
<1>4. ASSUME NEW i \in Nat, i \in S PROVE i + 1 \in S
  <2> SUFFICES ASSUME (i + 1) + 1 <= Len(seg)
               PROVE  DigestOf(seg[(i + 1) + 1]) = FirstStamps(all, s + ((i + 1) + 1))
    OBVIOUS
  <2>1. PICK j : j = (i + 1) + 1
    OBVIOUS
  <2>2. j \in 1..Len(seg) /\ j # 1 /\ j - 1 = i + 1 /\ i + 1 <= Len(seg)
    BY <1>1, <2>1
  <2>3. DigestOf(seg[j - 1]) = FirstStamps(all, s + (j - 1))
    BY <1>4, <2>2
  <2>4. seg[j].prev = FirstStamps(all, s + (j - 1))
    BY <2>2, <2>3
  <2>5. DigestOf(seg[j]) = FirstStamps(all, s + j)
    BY <1>2, <2>2, <2>4
  <2> QED BY <2>1, <2>5
<1> HIDE DEF S
<1>5. \A i \in Nat : i \in S
  BY <1>3, <1>4, NumberInduction
<1> SUFFICES ASSUME NEW i \in 1..Len(seg) PROVE DigestOf(seg[i]) = FirstStamps(all, s + i)
  OBVIOUS
<1>6. i - 1 \in Nat /\ (i - 1) + 1 = i /\ i <= Len(seg)
  BY <1>1
<1>7. i - 1 \in S
  BY <1>5, <1>6
<1> QED BY <1>6, <1>7 DEF S

\* Segments of a catalog, end to end: each at the place it starts at.
Spread(S, c, L, all) ==
  /\ all \in Seq(S) /\ Len(all) \in Nat
  /\ Len(all) = IF Len(c.segs) = 0 THEN 0
                ELSE c.segs[Len(c.segs)].start + Len(L[Len(c.segs)])
  /\ \A k \in 1..Len(c.segs) : \A i \in 1..Len(L[k]) :
       c.segs[k].start + i \in 1..Len(all) /\ all[c.segs[k].start + i] = L[k][i]
  /\ \A j \in 1..Len(all) : \E k \in 1..Len(c.segs) : \E i \in 1..Len(L[k]) :
       j = c.segs[k].start + i

LEMMA SpreadOut ==
  ASSUME NEW S, NEW c \in Catalog, NEW L \in [1..Len(c.segs) -> Seq(S)],
         \A k \in 1..Len(c.segs) :
           c.segs[k].start = IF k = 1 THEN 0 ELSE c.segs[k - 1].start + Len(L[k - 1]),
         NEW all, all = FlattenSeq(L)
  PROVE  Spread(S, c, L, all)
<1> DEFINE n == Len(c.segs)
           starts == [k \in 1..n |-> c.segs[k].start]
<1>1. n \in Nat /\ \A k \in 1..n : c.segs[k].start \in Nat
  BY SegsType
<1>2. CutAt(S, n, L, starts)
  <2>1. ASSUME NEW k \in 1..n
        PROVE  starts[k] = IF k = 1 THEN 0 ELSE starts[k - 1] + Len(L[k - 1])
    <3>1. k # 1 => k - 1 \in 1..n
      BY <1>1
    <3> QED BY <3>1
  <2>2. starts \in [1..n -> Int]
    BY <1>1
  <2> HIDE DEF starts
  <2> QED BY <1>1, <2>1, <2>2 DEF CutAt
<1>3. Joins(S, n, L, starts, all)
  <2> HIDE DEF starts, n
  <2> QED BY <1>2, FlattenSeqIs, Zenon
<1>4. n # 0 => n \in 1..n
  BY <1>1
<1>5. \A k \in 1..n : starts[k] = c.segs[k].start
  OBVIOUS
<1> HIDE DEF starts, n
<1>6. /\ all \in Seq(S) /\ Len(all) \in Nat
      /\ Len(all) = IF n = 0 THEN 0 ELSE c.segs[n].start + Len(L[n])
  BY <1>3, <1>4, <1>5 DEF Joins
<1>7. \A k \in 1..n : \A i \in 1..Len(L[k]) :
        c.segs[k].start + i \in 1..Len(all) /\ all[c.segs[k].start + i] = L[k][i]
  BY <1>3, <1>5 DEF Joins
<1>8. ASSUME NEW j \in 1..Len(all)
      PROVE  \E k \in 1..n : \E i \in 1..Len(L[k]) : j = c.segs[k].start + i
  <2>1. PICK k \in 1..n : \E i \in 1..Len(L[k]) : j = starts[k] + i
    BY <1>3 DEF Joins
  <2>2. starts[k] = c.segs[k].start
    BY <1>5
  <2> QED BY <2>1, <2>2
<1> QED BY <1>6, <1>7, <1>8 DEF Spread, n

\* The stamps of the segments end to end are those of their events end to end.
LEMMA StampsJoined ==
  ASSUME NEW c \in Catalog, NEW L \in [1..Len(c.segs) -> Seq(Event)], Chained(c, L)
  PROVE  FlattenSeq([k \in 1..Len(c.segs) |-> StampsOf(L[k])]) = StampsOf(FlattenSeq(L))
<1> DEFINE n == Len(c.segs)
<1>1. n \in Nat
  BY SegsType
<1>2. PICK Q : Q = [k \in 1..n |-> StampsOf(L[k])]
  OBVIOUS
<1>3. ASSUME NEW k \in 1..n
      PROVE  /\ Q[k] \in Seq(Stamp) /\ Len(Q[k]) = Len(L[k])
             /\ \A i \in 1..Len(L[k]) : Q[k][i] = StampOfEvent(L[k][i])
  <2>1. PICK x \in Seq(Event) : x = L[k]
    OBVIOUS
  <2>2. Q[k] = StampsOf(x)
    BY <1>2, <2>1
  <2> QED BY <2>1, <2>2, StampsOfIs
<1>4. Q \in [1..n -> Seq(Stamp)]
  BY <1>2, <1>3
<1>5. ASSUME NEW k \in 1..n
      PROVE  /\ c.segs[k].start = IF k = 1 THEN 0 ELSE c.segs[k - 1].start + Len(L[k - 1])
             /\ c.segs[k].start = IF k = 1 THEN 0 ELSE c.segs[k - 1].start + Len(Q[k - 1])
  <2>1. c.segs[k].start = IF k = 1 THEN 0 ELSE c.segs[k - 1].start + Len(L[k - 1])
    BY DEF Chained
  <2>2. k # 1 => k - 1 \in 1..n
    BY <1>1
  <2> QED BY <1>3, <2>1, <2>2
<1>6. PICK all, flat : all = FlattenSeq(L) /\ flat = FlattenSeq(Q)
  OBVIOUS
<1>7. Spread(Event, c, L, all)
  BY <1>5, <1>6, SpreadOut
<1>8. Spread(Stamp, c, Q, flat)
  BY <1>4, <1>5, <1>6, SpreadOut
<1>9. PICK s : s = StampsOf(all)
  OBVIOUS
<1>10. s \in Seq(Stamp) /\ Len(s) = Len(all) /\ \A j \in 1..Len(all) : s[j] = StampOfEvent(all[j])
  <2>1. all \in Seq(Event)
    BY <1>7 DEF Spread
  <2> QED BY <1>9, <2>1, StampsOfIs
<1>11. flat \in Seq(Stamp) /\ Len(flat) = Len(s)
  <2>1. n # 0 => n \in 1..n
    BY <1>1
  <2>2. n # 0 => Len(Q[n]) = Len(L[n])
    BY <1>3, <2>1
  <2> QED BY <1>7, <1>8, <1>10, <2>2 DEF Spread
<1>12. ASSUME NEW j \in 1..Len(flat) PROVE flat[j] = s[j]
  <2>1. j \in 1..Len(all)
    BY <1>10, <1>11
  <2>2. PICK k \in 1..n : \E i \in 1..Len(L[k]) : j = c.segs[k].start + i
    BY <1>7, <2>1 DEF Spread
  <2>3. PICK i \in 1..Len(L[k]) : j = c.segs[k].start + i
    BY <2>2
  <2>4. all[j] = L[k][i]
    BY <1>7, <2>3 DEF Spread
  <2>5. i \in 1..Len(Q[k]) /\ Q[k][i] = StampOfEvent(L[k][i])
    BY <1>3
  <2>6. flat[j] = Q[k][i]
    BY <1>8, <2>3, <2>5 DEF Spread
  <2> QED BY <1>10, <2>1, <2>4, <2>5, <2>6
<1>13. flat = s
  BY <1>10, <1>11, <1>12, SameElements
<1> QED BY <1>2, <1>6, <1>9, <1>13

\* The segments of a catalog that is right in everything are one chain end to
\* end, and the catalog has the digest of the last event, where there are empty
\* segments too.
LEMMA ExactChain ==
  ASSUME NEW c \in Catalog, NEW L \in [1..Len(c.segs) -> Seq(Event)], Exact(c, L),
         NEW all, all = FlattenSeq(L)
  PROVE  /\ all \in Seq(Event) /\ ChainOf(all)
         /\ Len(all) = c.next /\ c.head = StampsOf(all)
         /\ all # << >> => HasActive(c) /\ c.ns = all[1].ns
<1> DEFINE n == Len(c.segs)
<1>1. n \in Nat /\ c.active = n /\ \A k \in 1..n : c.segs[k].start \in Nat
  BY SegsType DEF Exact, Linked
<1>2. \A k \in 1..n : L[k] \in Seq(Event) /\ Len(L[k]) \in Nat
  OBVIOUS
<1>3. ASSUME NEW k \in 1..n
      PROVE  /\ c.segs[k].start = IF k = 1 THEN 0 ELSE c.segs[k - 1].start + Len(L[k - 1])
             /\ \A i \in 1..Len(L[k]) :
                  /\ L[k][i].sound /\ L[k][i].seq = c.segs[k].start + i - 1
                  /\ L[k][i].prev = IF i = 1 THEN Before(c, k) ELSE DigestOf(L[k][i - 1])
  <2>1. Chained(c, L)
    BY DEF Exact
  <2> QED BY <2>1 DEF Chained
<1>4. Spread(Event, c, L, all)
  BY <1>3, SpreadOut
<1>5. /\ all \in Seq(Event) /\ Len(all) \in Nat
      /\ Len(all) = IF n = 0 THEN 0 ELSE c.segs[n].start + Len(L[n])
      /\ \A k \in 1..n : \A i \in 1..Len(L[k]) :
           c.segs[k].start + i \in 1..Len(all) /\ all[c.segs[k].start + i] = L[k][i]
      /\ \A j \in 1..Len(all) : \E k \in 1..n : \E i \in 1..Len(L[k]) : j = c.segs[k].start + i
  BY <1>4 DEF Spread
<1> DEFINE place(k) == IF k = 1 THEN 0 ELSE c.segs[k - 1].start + Len(L[k - 1])
           S == {i \in Nat : i <= n => Before(c, i + 1) = FirstStamps(all, place(i + 1))}
<1>6. ASSUME NEW k \in 1..n, Before(c, k) = FirstStamps(all, c.segs[k].start)
      PROVE  \A i \in 1..Len(L[k]) : DigestOf(L[k][i]) = FirstStamps(all, c.segs[k].start + i)
  <2>1. PICK seg, s : seg = L[k] /\ s = c.segs[k].start
    OBVIOUS
  <2>2. seg \in Seq(Event) /\ s \in Nat /\ all \in Seq(Event)
    BY <1>1, <1>2, <1>5, <2>1
  <2>3. ASSUME NEW i \in 1..Len(seg)
        PROVE  /\ s + i \in 1..Len(all) /\ all[s + i] = seg[i]
               /\ seg[i].prev = IF i = 1 THEN FirstStamps(all, s) ELSE DigestOf(seg[i - 1])
    <3> HIDE DEF S, place
    <3>1. i \in 1..Len(L[k]) /\ L[k][i] = seg[i] /\ L[k][i - 1] = seg[i - 1]
      BY <2>1
    <3>2. s + i \in 1..Len(all) /\ all[s + i] = seg[i]
      BY <1>5, <2>1, <3>1
    <3>3. seg[i].prev = IF i = 1 THEN Before(c, k) ELSE DigestOf(seg[i - 1])
      <4>1. L[k][i].prev = IF i = 1 THEN Before(c, k) ELSE DigestOf(L[k][i - 1])
        BY <1>3, <3>1
      <4> QED
        BY <3>1, <4>1
    <3> QED
      BY <1>6, <2>1, <3>2, <3>3
  <2>4. \A i \in 1..Len(seg) : DigestOf(seg[i]) = FirstStamps(all, s + i)
    BY <2>2, <2>3, SegmentHistory
  <2> QED BY <2>1, <2>4
<1>7. 0 \in S
  <2>1. Before(c, 0 + 1) = Genesis /\ place(0 + 1) = 0
    BY DEF Before
  <2>2. FirstStamps(all, 0) = Genesis
    BY DEF FirstStamps, Genesis
  <2> HIDE DEF place
  <2> QED BY <2>1, <2>2
<1>8. ASSUME NEW i \in Nat, i \in S PROVE i + 1 \in S
  <2> SUFFICES ASSUME i + 1 <= n
               PROVE  Before(c, (i + 1) + 1) = FirstStamps(all, place((i + 1) + 1))
    OBVIOUS
  <2>1. PICK k : k = i + 1
    OBVIOUS
  <2>2. k \in 1..n /\ k + 1 # 1 /\ (k + 1) - 1 = k /\ i <= n
    BY <1>1, <2>1
  <2>3. Before(c, k) = FirstStamps(all, c.segs[k].start)
    <3>1. Before(c, k) = FirstStamps(all, place(k))
      BY <1>8, <2>1, <2>2
    <3>2. place(k) = c.segs[k].start
      BY <1>3, <2>2
    <3> HIDE DEF place
    <3> QED BY <3>1, <3>2
  <2>4. place(k + 1) = c.segs[k].start + Len(L[k]) /\ Before(c, k + 1) = c.segs[k].last
    BY <2>2 DEF Before
  <2>5. c.segs[k].last = IF L[k] = << >> THEN Before(c, k) ELSE DigestOf(L[k][Len(L[k])])
    <3>1. Described(c.segs[k], L[k], Before(c, k))
      BY <2>2 DEF Exact
    <3> QED BY <3>1 DEF Described
  <2> HIDE DEF place
  <2>6. CASE L[k] = << >>
    <3>1. Len(L[k]) = 0 /\ c.segs[k].start + 0 = c.segs[k].start
      BY <1>1, <2>2, <2>6
    <3> QED BY <2>1, <2>3, <2>4, <2>5, <2>6, <3>1
  <2>7. CASE L[k] # << >>
    <3>1. Len(L[k]) \in 1..Len(L[k])
      BY <1>2, <2>2, <2>7
    <3>2. DigestOf(L[k][Len(L[k])]) = FirstStamps(all, c.segs[k].start + Len(L[k]))
      BY <1>6, <2>2, <2>3, <3>1
    <3> QED BY <2>1, <2>4, <2>5, <2>7, <3>2
  <2> QED BY <2>6, <2>7
<1>9. \A i \in Nat : i \in S
  <2> HIDE DEF S
  <2> QED BY <1>7, <1>8, NumberInduction
<1>10. ASSUME NEW k \in 1..n PROVE Before(c, k) = FirstStamps(all, c.segs[k].start)
  <2>1. k - 1 \in Nat /\ (k - 1) + 1 = k /\ k - 1 <= n
    BY <1>1
  <2>2. k - 1 \in S
    BY <1>9, <2>1
  <2>3. place(k) = c.segs[k].start
    BY <1>3
  <2> HIDE DEF place
  <2> QED BY <2>1, <2>2, <2>3
<1>11. ASSUME NEW j \in 1..Len(all)
       PROVE  /\ all[j].seq = j - 1 /\ all[j].sound /\ all[j].ns = c.ns
              /\ all[j].prev = FirstStamps(all, j - 1) /\ DigestOf(all[j]) = FirstStamps(all, j)
  <2>1. PICK k \in 1..n : \E i \in 1..Len(L[k]) : j = c.segs[k].start + i
    BY <1>5
  <2>2. PICK i \in 1..Len(L[k]) : j = c.segs[k].start + i
    BY <2>1
  <2>3. PICK s : s = c.segs[k].start
    OBVIOUS
  <2>4. all[j] = L[k][i] /\ s \in Nat /\ i \in Nat /\ i >= 1 /\ j = s + i /\ j \in Nat
    <3>1. s \in Nat /\ j = s + i /\ all[j] = L[k][i]
      BY <1>1, <1>5, <2>2, <2>3
    <3>2. Len(L[k]) \in Nat /\ Len(all) \in Nat
      BY <1>2, <1>5
    <3> QED BY <3>1, <3>2
  <2>5. /\ L[k][i].sound /\ L[k][i].seq = s + i - 1
        /\ L[k][i].prev = IF i = 1 THEN Before(c, k) ELSE DigestOf(L[k][i - 1])
    BY <1>3, <2>3
  <2>6. Before(c, k) = FirstStamps(all, s)
    BY <1>10, <2>3
  <2>7. \A x \in 1..Len(L[k]) : DigestOf(L[k][x]) = FirstStamps(all, s + x)
    BY <1>6, <2>3, <2>6
  <2>8. L[k][i].prev = FirstStamps(all, j - 1)
    <3>1. CASE i = 1
      <4>1. j - 1 = s
        BY <2>4, <3>1
      <4> QED BY <2>5, <2>6, <3>1, <4>1
    <3>2. CASE i # 1
      <4>1. PICK x : x = i - 1
        OBVIOUS
      <4>2. x \in 1..Len(L[k]) /\ j - 1 = s + x
        BY <1>2, <2>4, <3>2, <4>1
      <4> QED BY <2>5, <2>7, <3>2, <4>1, <4>2
    <3> QED BY <3>1, <3>2
  <2>9. all[j].ns = c.ns
    <3>1. L[k][i] \in AllEvents(L)
      BY EventOfSegment
    <3> QED BY <2>4, <3>1 DEF Exact, TailAt
  <2> QED BY <2>4, <2>5, <2>7, <2>8, <2>9
<1>12. ChainOf(all)
  <2>1. ASSUME NEW j \in 1..Len(all)
        PROVE  all[j].prev = IF j = 1 THEN Genesis ELSE DigestOf(all[j - 1])
    <3>1. CASE j = 1
      <4>1. FirstStamps(all, j - 1) = Genesis
        BY <3>1 DEF FirstStamps, Genesis
      <4> QED BY <1>11, <3>1, <4>1
    <3>2. CASE j # 1
      <4>1. PICK i : i = j - 1
        OBVIOUS
      <4>2. i \in 1..Len(all)
        BY <1>5, <3>2, <4>1
      <4> QED BY <1>11, <3>2, <4>1, <4>2
    <3> QED BY <3>1, <3>2
  <2>2. \A j \in 1..Len(all) : 1 \in 1..Len(all)
    BY <1>5
  <2> QED BY <1>11, <2>1, <2>2 DEF ChainOf
<1>13. Len(all) = c.next
  BY <1>5 DEF Exact, TailAt
<1>14. c.head = StampsOf(all)
  <2>1. c.head = Before(c, n + 1) /\ n \in S /\ n <= n
    BY <1>1, <1>9 DEF Exact, TailAt
  <2>2. place(n + 1) = Len(all)
    <3>1. n + 1 = 1 <=> n = 0
      BY <1>1
    <3>2. (n + 1) - 1 = n
      BY <1>1
    <3> QED BY <1>5, <3>1, <3>2
  <2>3. StampsOf(all) = FirstStamps(all, Len(all))
    BY <1>5, StampsOfIs
  <2> HIDE DEF place
  <2> QED BY <2>1, <2>2, <2>3
<1>15. all # << >> => HasActive(c) /\ c.ns = all[1].ns
  <2>1. all # << >> => 1 \in 1..Len(all) /\ n # 0
    BY <1>5
  <2> QED BY <1>1, <1>11, <2>1 DEF HasActive
<1> QED BY <1>5, <1>12, <1>13, <1>14, <1>15

\* A file with one more line.
LEMMA LineAdded ==
  ASSUME NEW f \in File, NEW e \in Event,
         NEW g, g = [f EXCEPT !.lines = Append(@, [ev |-> e, nl |-> TRUE])]
  PROVE  /\ g \in File /\ g.lines \in Seq(Line)
         /\ EventsOf(g.lines) = Append(EventsOf(f.lines), e)
<1>1. PICK line : line = [ev |-> e, nl |-> TRUE]
  OBVIOUS
<1>2. line \in Line /\ line.ev = e
  BY <1>1 DEF Line
<1>3. PICK was \in Seq(Line) : was = f.lines
  BY DEF File
<1>4. PICK is : is = Append(was, line)
  OBVIOUS
<1>5. /\ is \in Seq(Line) /\ Len(is) = Len(was) + 1 /\ is[Len(was) + 1] = line
      /\ \A i \in 1..Len(was) : is[i] = was[i]
      /\ Len(was) \in Nat
  BY <1>2, <1>3, <1>4, Appended
<1>6. g = [f EXCEPT !.lines = is]
  BY <1>1, <1>3, <1>4
<1>7. g \in File /\ g.lines = is
  BY <1>5, <1>6 DEF File
<1>8. /\ EventsOf(was) \in Seq(Event) /\ Len(EventsOf(was)) = Len(was)
      /\ \A i \in 1..Len(was) : EventsOf(was)[i] = was[i].ev
  BY <1>3, EventsOfType
<1>9. /\ EventsOf(is) \in Seq(Event) /\ Len(EventsOf(is)) = Len(is)
      /\ \A i \in 1..Len(is) : EventsOf(is)[i] = is[i].ev
  BY <1>5, EventsOfType
<1>10. PICK more : more = Append(EventsOf(was), e)
  OBVIOUS
<1>11. PICK had : had = EventsOf(was)
  OBVIOUS
<1>12. /\ more \in Seq(Event) /\ Len(more) = Len(had) + 1 /\ more[Len(had) + 1] = e
       /\ \A i \in 1..Len(had) : more[i] = had[i]
  BY <1>8, <1>10, <1>11, Appended
<1>13. EventsOf(is) = more
  <2>1. PICK have : have = EventsOf(is)
    OBVIOUS
  <2>2. Len(have) = Len(more) /\ have \in Seq(Event)
    BY <1>5, <1>8, <1>9, <1>11, <1>12, <2>1
  <2>3. ASSUME NEW i \in 1..Len(have) PROVE have[i] = more[i]
    <3>1. have[i] = is[i].ev
      BY <1>9, <2>1
    <3>2. CASE i = Len(was) + 1
      BY <1>2, <1>5, <1>8, <1>11, <1>12, <3>1, <3>2
    <3>3. CASE i # Len(was) + 1
      <4>1. i \in 1..Len(was)
        BY <1>5, <1>9, <2>1, <3>3
      <4> QED BY <1>5, <1>8, <1>11, <1>12, <3>1, <4>1
    <3> QED BY <3>2, <3>3
  <2>4. have = more
    BY <1>12, <2>2, <2>3, SameElements
  <2> QED BY <2>1, <2>4
<1> QED BY <1>3, <1>5, <1>7, <1>10, <1>13

\* What a roll, where the event needs one, makes of a catalog and of the contents
\* of its segments: it stays exact, and the segments it had are there with their
\* first digests.
HasRoom(c, e, L, r, M) ==
  /\ r \in Catalog /\ Exact(r, M) /\ Admissible(r, e) /\ HasActive(r)
  /\ r.active = Len(r.segs) /\ r.active \in 1..Len(r.segs)
  /\ M \in [1..Len(r.segs) -> Seq(Event)]
  /\ NeedsRoll(c, e) => /\ Len(r.segs) = Len(c.segs) + 1
                        /\ r.segs[Len(r.segs)] = RolledEntry(c, e)
                        /\ M[Len(r.segs)] = << >>
  /\ ~NeedsRoll(c, e) => r = c /\ M = L
  /\ \A k \in 1..Len(c.segs) :
       k <= Len(r.segs) /\ M[k] = L[k]
       /\ r.segs[k].id = c.segs[k].id /\ r.segs[k].first = c.segs[k].first

LEMMA RoomExact ==
  ASSUME NEW c \in Catalog, NEW e \in Event, NEW L \in [1..Len(c.segs) -> Seq(Event)],
         Exact(c, L), Admissible(c, e), NEW r, r = Room(c, e),
         NEW M, M = IF NeedsRoll(c, e) THEN NewSegment(L, Len(c.segs)) ELSE L
  PROVE  HasRoom(c, e, L, r, M)
<1> DEFINE n == Len(c.segs)
<1>1. /\ n \in Nat /\ c.active = n /\ c.active \in 0..n
      /\ \A k \in 1..n : c.segs[k] \in Entry
  <2>1. n \in Nat /\ c.active = n /\ \A k \in 1..n : c.segs[k] \in Entry
    BY SegsType DEF Exact, Linked
  <2> QED BY <2>1
<1>2. CASE ~NeedsRoll(c, e)
  <2>1. r = c /\ M = L /\ HasActive(c)
    BY <1>2 DEF Room, NeedsRoll
  <2>2. c.active \in 1..n
    BY <1>1, <2>1 DEF HasActive
  <2> QED BY <1>1, <1>2, <2>1, <2>2 DEF HasRoom
<1>3. CASE NeedsRoll(c, e)
  <2>1. r = Rolled(c, e) /\ M = NewSegment(L, n)
    BY <1>3 DEF Room
  <2>2. Exact(r, M) /\ Admissible(r, e)
    BY <2>1, RolledExact
  <2>3. /\ r \in Catalog /\ r.active = n + 1 /\ Len(r.segs) = n + 1
        /\ r.segs[n + 1] = RolledEntry(c, e)
        /\ \A k \in 1..n : r.segs[k] = IF k = c.active THEN [c.segs[k] EXCEPT !.sealed = TRUE]
                                                       ELSE c.segs[k]
    <3>1. c.active \in 0..Len(c.segs)
      BY <1>1
    <3>2. /\ Rolled(c, e) \in Catalog /\ Rolled(c, e).active = n + 1
          /\ Len(Rolled(c, e).segs) = n + 1
          /\ Rolled(c, e).segs[n + 1] = RolledEntry(c, e)
          /\ \A k \in 1..n :
               Rolled(c, e).segs[k] = IF k = c.active THEN [c.segs[k] EXCEPT !.sealed = TRUE]
                                                      ELSE c.segs[k]
      BY <3>1, RolledType
    <3> QED BY <2>1, <3>2
  <2>4. ASSUME NEW k \in 1..n PROVE r.segs[k].id = c.segs[k].id /\ r.segs[k].first = c.segs[k].first
    <3>1. c.segs[k] \in Entry
      BY <1>1
    <3>2. [c.segs[k] EXCEPT !.sealed = TRUE].id = c.segs[k].id
      BY <3>1 DEF Entry
    <3>3. [c.segs[k] EXCEPT !.sealed = TRUE].first = c.segs[k].first
      BY <3>1 DEF Entry
    <3> QED BY <2>3, <3>2, <3>3
  <2>5. /\ M \in [1..(n + 1) -> Seq(Event)] /\ M[n + 1] = << >>
        /\ \A k \in 1..n : M[k] = L[k] /\ k <= n + 1
    <3>1. << >> \in Seq(Event)
      OBVIOUS
    <3>2. M = [k \in 1..(n + 1) |-> IF k = n + 1 THEN << >> ELSE L[k]]
      BY <2>1 DEF NewSegment
    <3>0. L \in [1..n -> Seq(Event)]
      OBVIOUS
    <3> HIDE DEF n
    <3>3. M \in [1..(n + 1) -> Seq(Event)] /\ M[n + 1] = << >>
      <4>1. ASSUME NEW k \in 1..(n + 1), k # n + 1 PROVE L[k] \in Seq(Event)
        BY <1>1, <3>0, <4>1
      <4>2. n + 1 \in 1..(n + 1)
        BY <1>1
      <4> QED BY <3>1, <3>2, <4>1, <4>2, Zenon
    <3>4. \A k \in 1..n : M[k] = L[k] /\ k <= n + 1
      BY <1>1, <3>2
    <3> QED BY <3>3, <3>4
  <2>6. r.active \in 1..Len(r.segs) /\ r.active # 0
    BY <1>1, <2>3
  <2>7. HasActive(r)
    BY <2>6 DEF HasActive
  <2> QED BY <1>3, <2>2, <2>3, <2>4, <2>5, <2>6, <2>7 DEF HasRoom
<1> QED BY <1>2, <1>3

\* One event more in a directory and in the catalog of it: whether the log's own
\* or the migration's, and with a roll or without, they are again in agreement.
LEMMA PublishedOneMore ==
  ASSUME NEW c, NEW dir, Published(c, dir), DirOK(dir), NEW e \in Event, Admissible(c, e),
         NEW x, x = WithEvent(dir, Room(c, e), e, NeedsRoll(c, e)),
         NEW d, d = Recorded(Room(c, e), e)
  PROVE  /\ Published(d, x) /\ DirOK(x) /\ DOMAIN dir \subseteq DOMAIN x
         /\ HasActive(d) /\ d.head = DigestOf(e) /\ d.next = e.seq + 1 /\ d.ns = e.ns
<1>1. PICK r : r = Room(c, e)
  OBVIOUS
<1>2. PICK L : L = Contents(c, dir)
  OBVIOUS
<1>3. PICK M : M = IF NeedsRoll(c, e) THEN NewSegment(L, Len(c.segs)) ELSE L
  OBVIOUS
<1>4. /\ c \in Catalog /\ CatalogOK(c, dir) /\ Exact(c, L)
      /\ \A id \in DOMAIN dir : dir[id] \in File
      /\ \A k \in 1..Len(c.segs) : L[k] # << >> /\ c.segs[k].first = DigestOf(L[k][1])
  BY <1>2 DEF Published, DirOK
<1>5. /\ L \in [1..Len(c.segs) -> Seq(Event)]
      /\ \A k \in 1..Len(c.segs) : L[k] = EventsOf(dir[c.segs[k].id].lines)
  BY <1>2, <1>4, ContentsType
<1>6. /\ r \in Catalog /\ Exact(r, M) /\ Admissible(r, e) /\ HasActive(r)
      /\ r.active = Len(r.segs) /\ r.active \in 1..Len(r.segs)
      /\ M \in [1..Len(r.segs) -> Seq(Event)]
      /\ NeedsRoll(c, e) => /\ Len(r.segs) = Len(c.segs) + 1
                            /\ r.segs[Len(r.segs)] = RolledEntry(c, e)
                            /\ M[Len(r.segs)] = << >>
      /\ ~NeedsRoll(c, e) => r = c /\ M = L
      /\ \A k \in 1..Len(c.segs) :
           k <= Len(r.segs) /\ M[k] = L[k]
           /\ r.segs[k].id = c.segs[k].id /\ r.segs[k].first = c.segs[k].first
  <2>1. HasRoom(c, e, L, r, M)
    BY <1>1, <1>3, <1>4, <1>5, RoomExact
  <2> QED BY <2>1 DEF HasRoom
<1> DEFINE n == Len(r.segs)
           entry == r.segs[n]
<1>7. /\ n \in Nat /\ n \in 1..n /\ Len(c.segs) \in Nat
      /\ \A k \in 1..n : r.segs[k] \in Entry
      /\ \A k \in 1..n : k # n => k \in 1..Len(c.segs)
  <2>1. /\ n \in Nat /\ n \in 1..n /\ Len(c.segs) \in Nat /\ \A k \in 1..n : r.segs[k] \in Entry
    BY <1>4, <1>6, SegsType
  <2>2. n = Len(c.segs) \/ n = Len(c.segs) + 1
    BY <1>6
  <2> HIDE DEF n
  <2> QED BY <2>1, <2>2
<1>8. PICK N : N = NewEvent(M, n, e)
  OBVIOUS
<1>9. /\ Exact(d, N) /\ d.active = r.active /\ Len(d.segs) = n
      /\ \A k \in 1..n : d.segs[k].id = r.segs[k].id
  BY <1>1, <1>6, <1>8, RecordedExact
<1>10. /\ d \in Catalog /\ d.next = e.seq + 1 /\ d.head = DigestOf(e) /\ d.ns = e.ns
       /\ \A k \in 1..n : d.segs[k].first = r.segs[k].first
  <2>1. /\ d \in Catalog
        /\ d = [ns     |-> IF r.ns = NoNamespace THEN e.ns ELSE r.ns,
                next   |-> e.seq + 1,
                head   |-> DigestOf(e),
                active |-> r.active,
                segs   |-> [r.segs EXCEPT ![r.active] = WithLine(ActiveEntry(r), e)]]
        /\ WithLine(ActiveEntry(r), e) \in Entry
    BY <1>1, <1>6, RecordedType
  <2>2. d.segs = [r.segs EXCEPT ![n] = WithLine(entry, e)] /\ WithLine(entry, e) \in Entry
    BY <1>6, <2>1 DEF ActiveEntry
  <2>3. r.segs \in Seq(Entry)
    BY <1>6 DEF Catalog
  <2>4. PICK w : w = WithLine(entry, e)
    OBVIOUS
  <2>5. d.segs[n] = w /\ \A k \in 1..n : k # n => d.segs[k] = r.segs[k]
    BY <1>7, <2>2, <2>3, <2>4, Replaced
  <2>6. w.first = entry.first
    <3>1. PICK y \in Entry : y = entry
      BY <1>7
    <3>2. WithLine(y, e).first = y.first
      BY DEF WithLine, Entry
    <3> QED BY <2>4, <3>1, <3>2
  <2>7. d.ns = e.ns
    BY <1>6, <2>1 DEF Admissible
  <2> QED BY <2>1, <2>5, <2>6, <2>7
<1>11. PICK f : f = IF NeedsRoll(c, e) THEN [header |-> HeaderOf(entry), lines |-> << >>]
                                       ELSE dir[entry.id]
  OBVIOUS
<1>12. f \in File /\ EventsOf(f.lines) = M[n]
  <2>1. CASE NeedsRoll(c, e)
    <3>1. f = [header |-> HeaderOf(entry), lines |-> << >>] /\ entry = RolledEntry(c, e)
      BY <1>6, <1>11, <2>1
    <3>2. HeaderOf(entry) \in Header
      BY <1>4, <3>1, RolledEntryType
    <3>3. << >> \in Seq(Line)
      OBVIOUS
    <3>4. f \in File /\ f.lines = << >>
      BY <3>1, <3>2, <3>3 DEF File
    <3>5. EventsOf(f.lines) = << >>
      BY <3>3, <3>4, EventsOfType
    <3> QED BY <1>6, <2>1, <3>4, <3>5
  <2>2. CASE ~NeedsRoll(c, e)
    <3>1. r = c /\ M = L /\ f = dir[c.segs[n].id] /\ n \in 1..Len(c.segs)
      BY <1>6, <1>7, <1>11, <2>2
    <3>2. c.segs[n].id \in DOMAIN dir
      <4>1. DOMAIN c.segs = 1..Len(c.segs)
        BY <1>4, SegsType
      <4> QED BY <1>4, <3>1, <4>1 DEF CatalogOK
    <3> QED BY <1>4, <1>5, <3>1, <3>2
  <2> QED BY <2>1, <2>2
<1>13. PICK g : g = [f EXCEPT !.lines = Append(@, [ev |-> e, nl |-> TRUE])]
  OBVIOUS
<1>14. g \in File /\ EventsOf(g.lines) = Append(M[n], e)
  BY <1>12, <1>13, LineAdded
<1>15. x = [id \in DOMAIN dir \union {entry.id} |-> IF id = entry.id THEN g ELSE dir[id]]
  <2>1. ActiveEntry(r) = entry
    BY <1>6 DEF ActiveEntry
  <2> HIDE DEF entry, n
  <2>2. x = WithEvent(dir, r, e, NeedsRoll(c, e))
    BY <1>1
  <2>3. WithEvent(dir, r, e, NeedsRoll(c, e)) =
          [id \in DOMAIN dir \union {entry.id} |-> IF id = entry.id THEN g ELSE dir[id]]
    BY <1>11, <1>13, <2>1 DEF WithEvent
  <2> QED BY <2>2, <2>3
<1>16. entry.id \in SegId
  <2>1. entry \in Entry
    BY <1>7
  <2> QED BY <2>1 DEF Entry
<1> HIDE DEF entry
<1>17. DirOK(x) /\ DOMAIN dir \subseteq DOMAIN x /\ entry.id \in DOMAIN x /\ x[entry.id] = g
  <2>1. DOMAIN x = DOMAIN dir \union {entry.id}
    BY <1>15
  <2>2. \A id \in DOMAIN x : x[id] = IF id = entry.id THEN g ELSE dir[id]
    BY <1>15
  <2>3. \A id \in DOMAIN x : x[id] \in File
    BY <1>4, <1>14, <2>1, <2>2
  <2>4. DOMAIN x \subseteq SegId
    BY <1>16, <2>1 DEF DirOK
  <2>5. x \in [DOMAIN x -> File]
    BY <1>15, <2>1, <2>3
  <2> QED BY <2>1, <2>2, <2>4, <2>5 DEF DirOK
<1>18. ASSUME NEW k \in 1..n, k # n
       PROVE  /\ k \in 1..Len(c.segs) /\ d.segs[k].id = c.segs[k].id
              /\ d.segs[k].id \in DOMAIN dir /\ x[d.segs[k].id] = dir[c.segs[k].id]
              /\ N[k] = L[k]
  <2>1. k \in 1..Len(c.segs) /\ d.segs[k].id = c.segs[k].id /\ r.segs[k].id = c.segs[k].id
    BY <1>6, <1>7, <1>9, <1>18
  <2>2. c.segs[k].id \in DOMAIN dir
    <3>1. DOMAIN c.segs = 1..Len(c.segs)
      BY <1>4, SegsType
    <3> QED BY <1>4, <2>1, <3>1 DEF CatalogOK
  <2>3. r.segs[k].id # entry.id
    BY <1>6, <1>7, <1>18, FilesDiffer DEF entry, Exact
  <2>4. N[k] = M[k]
    BY <1>8, <1>18 DEF NewEvent
  <2> HIDE DEF n
  <2> QED BY <1>6, <1>15, <2>1, <2>2, <2>3, <2>4
<1>19. d.segs[n].id = entry.id /\ N[n] = Append(M[n], e)
  BY <1>7, <1>8, <1>9 DEF entry, NewEvent
<1>20. CatalogOK(d, x)
  <2>1. DOMAIN d.segs = 1..n
    BY <1>9, <1>10, SegsType
  <2>2. ASSUME NEW k \in 1..n PROVE d.segs[k].id \in DOMAIN x
    <3>1. CASE k = n
      BY <1>17, <1>19, <3>1
    <3>2. CASE k # n
      BY <1>17, <1>18, <3>2
    <3> QED BY <3>1, <3>2
  <2>3. d.active \in 0..Len(d.segs)
    BY <1>6, <1>9
  <2> QED BY <2>1, <2>2, <2>3 DEF CatalogOK
<1>21. Contents(d, x) = N
  <2>1. ASSUME NEW k \in 1..n PROVE EventsOf(x[d.segs[k].id].lines) = N[k]
    <3>1. CASE k = n
      BY <1>14, <1>17, <1>19, <3>1
    <3>2. CASE k # n
      BY <1>5, <1>18, <3>2
    <3> QED BY <3>1, <3>2
  <2>2. N = [k \in 1..n |-> N[k]]
    BY <1>8 DEF NewEvent
  <2>3. Contents(d, x) = [k \in 1..n |-> EventsOf(x[d.segs[k].id].lines)]
    BY <1>9 DEF Contents
  <2> HIDE DEF n
  <2> QED BY <2>1, <2>2, <2>3
<1>22. ASSUME NEW k \in 1..n PROVE N[k] # << >> /\ d.segs[k].first = DigestOf(N[k][1])
  <2>1. CASE k # n
    <3>1. N[k] = L[k] /\ k \in 1..Len(c.segs)
      BY <1>18, <2>1
    <3>2. d.segs[k].first = c.segs[k].first
      BY <1>6, <1>10, <3>1
    <3> QED BY <1>4, <3>1, <3>2
  <2>2. CASE k = n
    <3>1. PICK s \in Seq(Event) : s = M[n]
      BY <1>6, <1>7
    <3>2. PICK t : t = Append(s, e)
      OBVIOUS
    <3>3. N[n] = t
      BY <1>19, <3>1, <3>2
    <3>4. /\ t \in Seq(Event) /\ t # << >> /\ Len(s) \in Nat /\ t[Len(s) + 1] = e
          /\ \A i \in 1..Len(s) : t[i] = s[i]
      BY <3>2, Appended
    <3>5. CASE NeedsRoll(c, e)
      <4>1. t[1] = e
        BY <1>6, <3>1, <3>4, <3>5
      <4>2. d.segs[n].first = DigestOf(e)
        BY <1>6, <1>7, <1>10, <3>5 DEF RolledEntry
      <4> QED BY <2>2, <3>3, <3>4, <4>1, <4>2
    <3>6. CASE ~NeedsRoll(c, e)
      <4>1. r = c /\ s = L[n] /\ n \in 1..Len(c.segs)
        BY <1>6, <1>7, <3>1, <3>6
      <4>2. s # << >> /\ d.segs[n].first = DigestOf(s[1])
        BY <1>4, <1>7, <1>10, <4>1
      <4>3. t[1] = s[1]
        BY <3>1, <3>4, <4>2
      <4> QED BY <2>2, <3>3, <3>4, <4>2, <4>3
    <3> QED BY <3>5, <3>6
  <2> QED BY <2>1, <2>2
<1>23. HasActive(d)
  BY <1>6, <1>9 DEF HasActive
<1>24. Published(d, x)
  BY <1>9, <1>10, <1>20, <1>21, <1>22 DEF Published
<1> QED BY <1>10, <1>17, <1>23, <1>24

\* Nothing published, whatever is in the directory.
LEMMA NonePublished ==
  ASSUME NEW dir
  PROVE  /\ Published(NewCatalog, dir) /\ ~HasActive(NewCatalog)
         /\ NewCatalog.next = 0 /\ NewCatalog.head = Genesis /\ NewCatalog.ns = NoNamespace
<1>1. /\ NewCatalog.active = 0 /\ NewCatalog.segs = << >> /\ NewCatalog.next = 0
      /\ NewCatalog.head = Genesis /\ NewCatalog.ns = NoNamespace
  BY DEF NewCatalog
<1>2. Len(NewCatalog.segs) = 0 /\ 1..0 = {}
  BY <1>1
<1>3. PICK L : L = Contents(NewCatalog, dir)
  OBVIOUS
<1>4. L = [k \in 1..0 |-> EventsOf(dir[NewCatalog.segs[k].id].lines)]
  BY <1>2, <1>3 DEF Contents
<1>5. AllEvents(L) = {}
  BY <1>2, <1>4 DEF AllEvents
<1>6. Linked(NewCatalog) /\ Chained(NewCatalog, L)
  BY <1>1, <1>2 DEF Linked, Chained
<1>7. TailAt(NewCatalog, L)
  BY <1>1, <1>2, <1>5 DEF TailAt, Before
<1>8. Exact(NewCatalog, L)
  BY <1>2, <1>6, <1>7 DEF Exact
<1> QED BY <1>1, <1>2, <1>3, <1>8, NewCatalogType DEF Published, HasActive

\* What is at the beginning of a sequence is at the beginning of what begins
\* with it.
LEMMA BeginsOn ==
  ASSUME NEW s, NEW t, NEW u, Begins(s, t), Begins(t, u),
         Len(s) \in Nat, Len(t) \in Nat, Len(u) \in Nat
  PROVE  Begins(s, u)
<1>1. Len(u) <= Len(t) /\ Len(t) <= Len(s) /\ Len(u) <= Len(s)
  BY DEF Begins
<1>2. \A i \in 1..Len(u) : i \in 1..Len(t)
  BY <1>1
<1> QED BY <1>1, <1>2 DEF Begins


\* Two catalogs that are right on the same events end with the same digest.
LEMMA SameHead ==
  ASSUME NEW c \in Catalog, NEW d \in Catalog, Len(d.segs) = Len(c.segs),
         NEW L \in [1..Len(c.segs) -> Seq(Event)], Exact(c, L), Exact(d, L)
  PROVE  d.head = c.head
<1>1. PICK all : all = FlattenSeq(L)
  OBVIOUS
<1>2. c.head = StampsOf(all)
  BY <1>1, ExactChain
<1>3. L \in [1..Len(d.segs) -> Seq(Event)]
  OBVIOUS
<1>4. d.head = StampsOf(all)
  BY <1>1, <1>3, ExactChain
<1> QED BY <1>2, <1>4

\* What a catalog of the log's files knows of their events.
LEMMA ContentsOfKnown ==
  ASSUME NEW c, NEW dir, NEW m, Knows(c, dir, m), DirOK(dir), NEW L, L = Contents(c, dir)
  PROVE  /\ c \in Catalog /\ CatalogOK(c, dir) /\ HasActive(c) /\ c.next >= m /\ Starts(c, L, m)
         /\ \A id \in DOMAIN dir : dir[id] \in File
         /\ L \in [1..Len(c.segs) -> Seq(Event)]
         /\ \A k \in 1..Len(c.segs) :
              /\ c.segs[k].id \in DOMAIN dir
              /\ dir[c.segs[k].id].lines \in Seq(Line)
              /\ L[k] = EventsOf(dir[c.segs[k].id].lines)
<1>1. /\ c \in Catalog /\ CatalogOK(c, dir) /\ HasActive(c) /\ c.next >= m /\ Starts(c, L, m)
      /\ \A id \in DOMAIN dir : dir[id] \in File
  BY DEF Knows, DirOK
<1>2. \A k \in 1..Len(c.segs) : c.segs[k].id \in DOMAIN dir
  BY <1>1, SegsType DEF CatalogOK
<1> QED BY <1>1, <1>2, ContentsType

\* The first elements of a sequence.
LEMMA FirstOnes ==
  ASSUME NEW S, NEW s \in Seq(S), NEW n \in 0..Len(s), NEW t, t = SubSeq(s, 1, n)
  PROVE  t \in Seq(S) /\ Len(t) = n /\ \A i \in 1..n : t[i] = s[i]
<1>1. t \in Seq(S) /\ Len(t) = n
  OBVIOUS
<1>2. ASSUME NEW i \in 1..n PROVE t[i] = s[i]
  <2>1. t[i] = s[1 + i - 1] /\ 1 + i - 1 = i
    OBVIOUS
  <2> QED BY <2>1
<1> QED BY <1>1, <1>2

\* An entry that describes its segment is right on the events it counts.
LEMMA DescribedCounted ==
  ASSUME NEW entry, NEW evs \in Seq(Event), NEW before, Described(entry, evs, before)
  PROVE  Counted(entry, evs)
<1>1. PICK n : n = Len(evs)
  OBVIOUS
<1>2. n \in Nat /\ (n > 0 => evs # << >>)
  BY <1>1
<1>0. SubSeq(evs, 1, n) = evs
  <2>1. PICK t : t = SubSeq(evs, 1, n)
    OBVIOUS
  <2>2. n \in 0..Len(evs)
    BY <1>1, <1>2
  <2>3. t \in Seq(Event) /\ Len(t) = n /\ \A i \in 1..n : t[i] = evs[i]
    BY <2>1, <2>2, FirstOnes
  <2> QED BY <1>1, <2>1, <2>3, SameElements
<1>3. entry.count = n /\ entry.bytes = Bytes(evs)
      /\ (n > 0 => entry.end = evs[n].seq /\ entry.last = DigestOf(evs[n]))
  BY <1>1, <1>2 DEF Described
<1>4. entry.bytes = Bytes(SubSeq(evs, 1, n))
  BY <1>0, <1>3, Zenon
<1>5. n <= Len(evs)
  BY <1>1, <1>2
<1> QED BY <1>3, <1>4, <1>5 DEF Counted

\* The catalog of a process may be written to the disk: it is what a
\* reconciliation makes of it.
LEMMA SolidKept ==
  ASSUME NEW c, NEW dir, NEW m, Solid(c, dir, m), DirOK(dir)
  PROVE  Kept(c, dir, m) /\ Reconcile(c, dir).head = c.head
<1>1. PICK L : L = Contents(c, dir)
  OBVIOUS
<1>2. Knows(c, dir, m) /\ Exact(c, L)
  BY <1>1 DEF Solid
<1>3. /\ c \in Catalog /\ CatalogOK(c, dir) /\ HasActive(c)
      /\ \A id \in DOMAIN dir : dir[id] \in File
      /\ L \in [1..Len(c.segs) -> Seq(Event)]
  BY <1>1, <1>2, ContentsOfKnown
<1>4. OnDisk(c, L)
  BY <1>2, <1>3, ExactOnDisk
<1>5. Len(c.segs) \in Nat /\ c.active = Len(c.segs) /\ Len(c.segs) # 0
  BY <1>2, <1>3, SegsType DEF Exact, Linked, HasActive
<1>6. ASSUME NEW k \in 1..Len(c.segs)
      PROVE  Counted(c.segs[k], L[k]) /\ c.segs[k].count = Len(L[k])
  <2>1. Described(c.segs[k], L[k], Before(c, k)) /\ L[k] \in Seq(Event)
    BY <1>2, <1>3 DEF Exact
  <2>2. Counted(c.segs[k], L[k])
    BY <2>1, DescribedCounted
  <2> QED BY <2>1, <2>2 DEF Described
<1>7. c.segs[Len(c.segs)].start + c.segs[Len(c.segs)].count = c.next
  <2>1. Len(c.segs) \in 1..Len(c.segs)
    BY <1>5
  <2> QED BY <1>2, <1>5, <1>6, <2>1 DEF Exact, TailAt
<1>8. Kept(c, dir, m)
  BY <1>1, <1>2, <1>4, <1>6, <1>7 DEF Kept, Behind
<1>9. PICK r : r = Reconcile(c, dir)
  OBVIOUS
<1>10. r \in Catalog /\ Exact(r, L) /\ Len(r.segs) = Len(c.segs)
  BY <1>1, <1>3, <1>4, <1>9, ReconcileExact, ReconcileType
<1>11. r.head = c.head
  BY <1>2, <1>3, <1>10, SameHead
<1> QED BY <1>8, <1>9, <1>11

\* A published catalog is right in everything.
LEMMA PublishedSolid ==
  ASSUME NEW c, NEW dir, NEW m, Published(c, dir), HasActive(c), c.next >= m
  PROVE  Solid(c, dir, m)
BY DEF Published, Solid, Knows, Starts

\* Reconciled, a catalog a kill left on the disk is right in everything.
LEMMA KeptReconciled ==
  ASSUME NEW c, NEW dir, NEW m \in Nat, Kept(c, dir, m), DirOK(dir), NEW r, r = Reconcile(c, dir)
  PROVE  /\ Solid(r, dir, m) /\ Contents(r, dir) = Contents(c, dir)
         /\ Follows(c, r) /\ Len(r.segs) = Len(c.segs)
<1>1. PICK L : L = Contents(c, dir)
  OBVIOUS
<1>2. Knows(c, dir, m) /\ OnDisk(c, L) /\ Behind(c, L)
  BY <1>1 DEF Kept
<1>3. /\ c \in Catalog /\ CatalogOK(c, dir) /\ HasActive(c) /\ c.next >= m /\ Starts(c, L, m)
      /\ \A id \in DOMAIN dir : dir[id] \in File
      /\ L \in [1..Len(c.segs) -> Seq(Event)]
  BY <1>1, <1>2, ContentsOfKnown
<1>4. Exact(r, L) /\ Len(r.segs) = Len(c.segs) /\ Contents(r, dir) = L /\ Follows(c, r)
  BY <1>1, <1>2, <1>3, ReconcileExact
<1> DEFINE n == Len(c.segs)
<1>5. n \in Nat /\ c.active = n /\ n # 0 /\ n \in 1..n
  BY <1>2, <1>3, SegsType DEF OnDisk, Linked, HasActive
<1>6. /\ r \in Catalog /\ r.active = n
      /\ \A k \in 1..n : r.segs[k].start = c.segs[k].start /\ r.segs[k].first = c.segs[k].first
  BY <1>3, <1>5, ReconcileKeeps
<1>7. CatalogOK(r, dir) /\ HasActive(r)
  BY <1>3, <1>5, <1>6, ReconcileType DEF HasActive
<1>8. Starts(r, L, m)
  BY <1>3, <1>4, <1>6 DEF Starts
<1>9. r.next >= m
  <2>1. PICK s, l, i : s = c.segs[n].start /\ l = Len(L[n]) /\ i = c.segs[n].count
    OBVIOUS
  <2>2. c.segs[n] \in Entry /\ L[n] \in Seq(Event)
    BY <1>3, <1>5, SegsType
  <2>3. s \in Nat /\ l \in Nat /\ i \in Nat
    BY <2>1, <2>2 DEF Entry
  <2>4. i <= l /\ c.next = s + i
    BY <1>2, <1>5, <2>1 DEF Behind, Counted
  <2>5. r.next = s + l
    BY <1>4, <1>5, <1>6, <2>1 DEF Exact, TailAt
  <2> QED BY <1>3, <2>3, <2>4, <2>5
<1> QED BY <1>1, <1>4, <1>6, <1>7, <1>8, <1>9 DEF Solid, Knows

-----------------------------------------------------------------------------
(* What an append to a log in the new layout writes. *)

\* The header file of a new segment, beside the files there are.
WithHeader(dir, entry) ==
  [id \in DOMAIN dir \union {entry.id} |->
     IF id = entry.id THEN [header |-> HeaderOf(entry), lines |-> << >>] ELSE dir[id]]

\* The catalog of a process whose event needs a new segment, once it has one.
LEMMA RolledSolid ==
  ASSUME NEW c, NEW dir, NEW m \in Nat, Solid(c, dir, m), DirOK(dir),
         NEW e \in Event, Admissible(c, e), NeedsRoll(c, e), NEW r, r = Rolled(c, e),
         NEW x, x = WithHeader(dir, RolledEntry(c, e))
  PROVE  /\ Solid(r, x, m) /\ Admissible(r, e) /\ r.head = c.head
         /\ DirOK(x) /\ DOMAIN dir \subseteq DOMAIN x
         /\ \A k \in 1..Len(c.segs) : x[c.segs[k].id] = dir[c.segs[k].id]
<1>1. PICK L : L = Contents(c, dir)
  OBVIOUS
<1>2. Knows(c, dir, m) /\ Exact(c, L)
  BY <1>1 DEF Solid
<1>3. /\ c \in Catalog /\ CatalogOK(c, dir) /\ HasActive(c) /\ c.next >= m /\ Starts(c, L, m)
      /\ \A id \in DOMAIN dir : dir[id] \in File
      /\ L \in [1..Len(c.segs) -> Seq(Event)]
      /\ \A k \in 1..Len(c.segs) :
           c.segs[k].id \in DOMAIN dir /\ L[k] = EventsOf(dir[c.segs[k].id].lines)
  BY <1>1, <1>2, ContentsOfKnown
<1> DEFINE n == Len(c.segs)
<1>4. PICK entry : entry = RolledEntry(c, e)
  OBVIOUS
<1>5. PICK M : M = NewSegment(L, n)
  OBVIOUS
<1>6. /\ r \in Catalog /\ Exact(r, M) /\ Admissible(r, e) /\ HasActive(r)
      /\ M \in [1..Len(r.segs) -> Seq(Event)]
      /\ Len(r.segs) = n + 1 /\ r.segs[n + 1] = entry /\ M[n + 1] = << >>
      /\ \A k \in 1..n : /\ k <= Len(r.segs) /\ M[k] = L[k]
                         /\ r.segs[k].id = c.segs[k].id /\ r.segs[k].first = c.segs[k].first
  <2>1. r = Room(c, e) /\ M = IF NeedsRoll(c, e) THEN NewSegment(L, Len(c.segs)) ELSE L
    BY <1>5 DEF Room
  <2>2. HasRoom(c, e, L, r, M)
    BY <1>2, <1>3, <2>1, RoomExact
  <2> QED BY <1>4, <2>2 DEF HasRoom
<1>7. /\ n \in Nat /\ c.active \in 0..n
      /\ r.head = c.head /\ r.next = c.next /\ r.active = n + 1
      /\ \A k \in 1..n : r.segs[k].start = c.segs[k].start
  <2>1. n \in Nat /\ c.active = n /\ c.active \in 0..n /\ \A k \in 1..n : c.segs[k] \in Entry
    BY <1>2, <1>3, SegsType DEF Exact, Linked
  <2>2. /\ r.head = c.head /\ r.next = c.next /\ r.active = n + 1
        /\ \A k \in 1..n : r.segs[k] = IF k = c.active THEN [c.segs[k] EXCEPT !.sealed = TRUE]
                                                       ELSE c.segs[k]
    BY <1>3, <2>1, RolledType
  <2>3. ASSUME NEW k \in 1..n PROVE r.segs[k].start = c.segs[k].start
    <3>1. [c.segs[k] EXCEPT !.sealed = TRUE].start = c.segs[k].start
      BY <2>1 DEF Entry
    <3> QED BY <2>2, <3>1
  <2> QED BY <2>1, <2>2, <2>3
<1>8. entry.id \in SegId /\ entry.start = e.seq /\ e.seq = c.next /\ HeaderOf(entry) \in Header
  <2>1. entry \in Entry /\ HeaderOf(entry) \in Header
    BY <1>3, <1>4, RolledEntryType
  <2>2. entry.start = e.seq
    BY <1>4 DEF RolledEntry
  <2> QED BY <2>1, <2>2 DEF Entry, Admissible
<1>9. PICK f : f = [header |-> HeaderOf(entry), lines |-> << >>]
  OBVIOUS
<1>10. f \in File /\ f.lines = << >> /\ EventsOf(f.lines) = << >>
  <2>1. << >> \in Seq(Line)
    OBVIOUS
  <2>2. f \in File /\ f.lines = << >>
    BY <1>8, <1>9, <2>1 DEF File
  <2> QED BY <2>1, <2>2, EventsOfType
<1>11. /\ DOMAIN x = DOMAIN dir \union {entry.id}
       /\ \A id \in DOMAIN x : x[id] = IF id = entry.id THEN f ELSE dir[id]
       /\ x = [id \in DOMAIN x |-> x[id]]
  BY <1>4, <1>9 DEF WithHeader
<1>12. DirOK(x) /\ DOMAIN dir \subseteq DOMAIN x
  <2>1. \A id \in DOMAIN x : x[id] \in File
    BY <1>3, <1>10, <1>11
  <2>2. x \in [DOMAIN x -> File]
    BY <1>11, <2>1
  <2> QED BY <1>8, <1>11, <2>2 DEF DirOK
<1> HIDE DEF n
<1>13. ASSUME NEW k \in 1..n PROVE c.segs[k].id # entry.id /\ x[c.segs[k].id] = dir[c.segs[k].id]
  <2>1. k \in 1..Len(r.segs) /\ n + 1 \in 1..Len(r.segs) /\ k # n + 1
    BY <1>6, <1>7
  <2>2. r.segs[k].id # r.segs[n + 1].id
    <3>1. Linked(r)
      BY <1>6 DEF Exact
    <3> QED BY <2>1, <3>1, <1>6, FilesDiffer
  <2>3. c.segs[k].id # entry.id
    BY <1>6, <2>2
  <2>4. c.segs[k].id \in DOMAIN x
    BY <1>3, <1>11 DEF n
  <2> QED BY <1>11, <2>3, <2>4
<1>14. CatalogOK(r, x)
  <2>1. DOMAIN r.segs = 1..(n + 1)
    BY <1>6, SegsType
  <2>2. ASSUME NEW k \in 1..(n + 1) PROVE r.segs[k].id \in DOMAIN x
    <3>1. CASE k = n + 1
      BY <1>6, <1>11, <3>1
    <3>2. CASE k # n + 1
      <4>1. k \in 1..n
        BY <1>7, <3>2
      <4>2. c.segs[k].id \in DOMAIN dir
        BY <1>3, <4>1 DEF n
      <4> QED BY <1>6, <1>11, <4>1, <4>2
    <3> QED BY <3>1, <3>2
  <2>3. r.active \in 0..Len(r.segs)
    BY <1>6, <1>7
  <2> QED BY <2>1, <2>2, <2>3 DEF CatalogOK
<1>15. Contents(r, x) = M
  <2>1. ASSUME NEW k \in 1..(n + 1) PROVE EventsOf(x[r.segs[k].id].lines) = M[k]
    <3>1. CASE k = n + 1
      <4>1. entry.id \in DOMAIN x
        BY <1>11
      <4>2. x[entry.id] = f
        BY <1>11, <4>1
      <4> QED BY <1>6, <1>10, <3>1, <4>2
    <3>2. CASE k # n + 1
      <4>1. k \in 1..n
        BY <1>7, <3>2
      <4>2. L[k] = EventsOf(dir[c.segs[k].id].lines)
        BY <1>3, <4>1 DEF n
      <4> QED BY <1>6, <1>13, <4>1, <4>2
    <3> QED BY <3>1, <3>2
  <2>2. M = [k \in 1..(n + 1) |-> M[k]]
    BY <1>6
  <2>3. Contents(r, x) = [k \in 1..(n + 1) |-> EventsOf(x[r.segs[k].id].lines)]
    BY <1>6 DEF Contents
  <2> QED BY <2>1, <2>2, <2>3
<1>16. Starts(r, M, m)
  <2> SUFFICES ASSUME NEW k \in 1..(n + 1), r.segs[k].start < m
               PROVE  M[k] # << >> /\ r.segs[k].first = DigestOf(M[k][1])
    BY <1>6 DEF Starts
  <2>1. k # n + 1
    <3>1. c.next \in Nat
      BY <1>3 DEF Catalog
    <3> QED BY <1>3, <1>6, <1>8, <3>1
  <2>2. k \in 1..n
    BY <1>7, <2>1
  <2>3. c.segs[k].start < m
    BY <1>7, <2>2
  <2>4. L[k] # << >> /\ c.segs[k].first = DigestOf(L[k][1])
    BY <1>3, <2>2, <2>3 DEF Starts, n
  <2> QED BY <1>6, <2>2, <2>4
<1> QED BY <1>3, <1>6, <1>7, <1>12, <1>13, <1>14, <1>15, <1>16 DEF Solid, Knows, n

\* Files a catalog does not name say nothing of it.
LEMMA KeptBeside ==
  ASSUME NEW c, NEW dir, NEW m, Kept(c, dir, m), DirOK(dir), NEW x, DOMAIN dir \subseteq DOMAIN x,
         \A k \in 1..Len(c.segs) : x[c.segs[k].id] = dir[c.segs[k].id]
  PROVE  Kept(c, x, m) /\ Reconcile(c, x) = Reconcile(c, dir)
<1>1. Knows(c, dir, m) /\ OnDisk(c, Contents(c, dir)) /\ Behind(c, Contents(c, dir))
  BY DEF Kept
<1>2. c \in Catalog /\ CatalogOK(c, dir) /\ HasActive(c)
  BY <1>1 DEF Knows
<1>3. c.active \in 1..Len(c.segs)
  <2>1. c.active \in 0..Len(c.segs) /\ c.active # 0 /\ Len(c.segs) \in Nat
    BY <1>2, SegsType DEF CatalogOK, HasActive
  <2> QED BY <2>1
<1>4. Contents(c, x) = Contents(c, dir)
  BY DEF Contents
<1>5. CatalogOK(c, x)
  BY <1>2 DEF CatalogOK
<1>6. Kept(c, x, m)
  BY <1>1, <1>4, <1>5 DEF Kept, Knows
<1>7. ActiveLines(c, x) = ActiveLines(c, dir)
  BY <1>3 DEF ActiveLines, ActiveEntry
<1> QED BY <1>6, <1>7 DEF Reconcile

\* A line at the end of one file of a directory.
WithLineAt(dir, id, e) == [dir EXCEPT ![id].lines = Append(@, [ev |-> e, nl |-> TRUE])]

\* One event more in the last segment does not change where the segments begin.
LEMMA StartsStill ==
  ASSUME NEW c \in Catalog, NEW d \in Catalog, Len(d.segs) = Len(c.segs), NEW m,
         \A k \in 1..Len(c.segs) :
           d.segs[k].start = c.segs[k].start /\ d.segs[k].first = c.segs[k].first,
         NEW L \in [1..Len(c.segs) -> Seq(Event)], Starts(c, L, m),
         NEW e \in Event, NEW N, N = NewEvent(L, Len(c.segs), e)
  PROVE  Starts(d, N, m)
<1> SUFFICES ASSUME NEW k \in 1..Len(c.segs), d.segs[k].start < m
             PROVE  N[k] # << >> /\ d.segs[k].first = DigestOf(N[k][1])
  BY DEF Starts
<1>1. L[k] # << >> /\ d.segs[k].first = DigestOf(L[k][1])
  BY DEF Starts
<1>2. PICK s \in Seq(Event) : s = L[k]
  OBVIOUS
<1>3. PICK t : t = Append(s, e)
  OBVIOUS
<1>4. t # << >> /\ t[1] = s[1]
  BY <1>1, <1>2, <1>3, Appended
<1>5. N[k] = s \/ N[k] = t
  BY <1>2, <1>3 DEF NewEvent
<1> QED BY <1>1, <1>2, <1>4, <1>5

\* Nor does it change what an entry has counted.
LEMMA CountedStill ==
  ASSUME NEW entry \in Entry, NEW s \in Seq(Event), Counted(entry, s), NEW e \in Event
  PROVE  Counted(entry, Append(s, e))
<1>1. PICK t : t = Append(s, e)
  OBVIOUS
<1>2. PICK n : n = entry.count
  OBVIOUS
<1>3. /\ t \in Seq(Event) /\ Len(t) = Len(s) + 1 /\ \A i \in 1..Len(s) : t[i] = s[i]
      /\ Len(s) \in Nat
  BY <1>1, Appended
<1>4. n \in Nat /\ n <= Len(s)
  BY <1>2 DEF Counted, Entry
<1>5. n \in 0..Len(s) /\ n \in 0..Len(t) /\ n <= Len(t)
  BY <1>3, <1>4
<1>6. PICK u, v : u = SubSeq(s, 1, n) /\ v = SubSeq(t, 1, n)
  OBVIOUS
<1>7. u \in Seq(Event) /\ Len(u) = n /\ \A i \in 1..n : u[i] = s[i]
  BY <1>5, <1>6, FirstOnes
<1>8. v \in Seq(Event) /\ Len(v) = n /\ \A i \in 1..n : v[i] = t[i]
  BY <1>3, <1>5, <1>6, FirstOnes
<1>9. u = v
  <2>1. ASSUME NEW i \in 1..n PROVE u[i] = v[i]
    <3>1. i \in 1..Len(s)
      BY <1>5
    <3> QED BY <1>3, <1>7, <1>8, <3>1
  <2> QED BY <1>7, <1>8, <2>1, SameElements
<1>10. entry.bytes = Bytes(SubSeq(t, 1, n))
  <2>1. entry.bytes = Bytes(SubSeq(s, 1, n))
    BY <1>2 DEF Counted
  <2> QED BY <1>6, <1>9, <2>1, Zenon
<1>11. n > 0 => entry.end = t[n].seq /\ entry.last = DigestOf(t[n])
  <2> SUFFICES ASSUME n > 0 PROVE entry.end = t[n].seq /\ entry.last = DigestOf(t[n])
    OBVIOUS
  <2>1. n \in 1..Len(s)
    BY <1>4
  <2> QED BY <1>2, <1>3, <2>1 DEF Counted
<1> QED BY <1>1, <1>2, <1>5, <1>10, <1>11 DEF Counted

\* The catalog of a process, and the files, once the event's line is written.
LEMMA RecordedSolid ==
  ASSUME NEW c, NEW dir, NEW m \in Nat, Solid(c, dir, m), DirOK(dir),
         NEW e \in Event, Admissible(c, e), NEW d, d = Recorded(c, e),
         NEW x, x = WithLineAt(dir, ActiveEntry(c).id, e),
         NEW L, L = Contents(c, dir), NEW N, N = NewEvent(L, Len(c.segs), e)
  PROVE  /\ Solid(d, x, m) /\ d.head = DigestOf(e) /\ Len(d.segs) = Len(c.segs)
         /\ DirOK(x) /\ DOMAIN x = DOMAIN dir
         /\ N \in [1..Len(c.segs) -> Seq(Event)] /\ Exact(d, N) /\ N[Len(c.segs)] # << >>
         /\ \A k \in 1..Len(c.segs) : EventsOf(x[c.segs[k].id].lines) = N[k]
         /\ \A b : Follows(b, c) /\ Len(b.segs) = Len(c.segs) => Follows(b, d)
<1>1. Knows(c, dir, m) /\ Exact(c, L)
  BY DEF Solid
<1>2. /\ c \in Catalog /\ CatalogOK(c, dir) /\ HasActive(c) /\ c.next >= m /\ Starts(c, L, m)
      /\ \A id \in DOMAIN dir : dir[id] \in File
      /\ L \in [1..Len(c.segs) -> Seq(Event)]
      /\ \A k \in 1..Len(c.segs) :
           c.segs[k].id \in DOMAIN dir /\ L[k] = EventsOf(dir[c.segs[k].id].lines)
  BY <1>1, ContentsOfKnown
<1> DEFINE n == Len(c.segs)
<1>3. n \in Nat /\ c.active = n /\ n \in 1..n /\ \A k \in 1..n : c.segs[k] \in Entry
  <2>1. n \in Nat /\ c.active = n /\ n # 0 /\ \A k \in 1..n : c.segs[k] \in Entry
    BY <1>1, <1>2, SegsType DEF Exact, Linked, HasActive
  <2> QED BY <2>1
<1>4. /\ Exact(d, N) /\ d.active = n /\ Len(d.segs) = n
      /\ \A k \in 1..n : d.segs[k].id = c.segs[k].id
      /\ \A b : Follows(b, c) /\ Len(b.segs) = Len(c.segs) => Follows(b, d)
  BY <1>1, <1>2, <1>3, RecordedExact
<1>5. /\ d \in Catalog /\ d.next = e.seq + 1 /\ d.head = DigestOf(e)
      /\ \A k \in 1..n : d.segs[k].start = c.segs[k].start /\ d.segs[k].first = c.segs[k].first
  <2>1. /\ d \in Catalog
        /\ d = [ns     |-> IF c.ns = NoNamespace THEN e.ns ELSE c.ns,
                next   |-> e.seq + 1,
                head   |-> DigestOf(e),
                active |-> c.active,
                segs   |-> [c.segs EXCEPT ![c.active] = WithLine(ActiveEntry(c), e)]]
        /\ WithLine(ActiveEntry(c), e) \in Entry
    BY <1>2, <1>3, RecordedType
  <2>2. PICK y, z : y = c.segs[n] /\ z = WithLine(y, e)
    OBVIOUS
  <2>3. d.segs = [c.segs EXCEPT ![n] = z] /\ z \in Entry /\ y \in Entry
    BY <1>3, <2>1, <2>2 DEF ActiveEntry
  <2>4. c.segs \in Seq(Entry)
    BY <1>2 DEF Catalog
  <2>5. d.segs[n] = z /\ \A k \in 1..n : k # n => d.segs[k] = c.segs[k]
    BY <1>3, <2>3, <2>4, Replaced
  <2>6. z.start = y.start
    BY <2>2, <2>3 DEF WithLine, Entry
  <2>7. z.first = y.first
    BY <2>2, <2>3 DEF WithLine, Entry
  <2> QED BY <2>1, <2>2, <2>5, <2>6, <2>7
<1> HIDE DEF n
<1>6. PICK id : id = c.segs[n].id
  OBVIOUS
<1>7. id \in DOMAIN dir /\ L[n] = EventsOf(dir[id].lines) /\ x = WithLineAt(dir, id, e)
  BY <1>2, <1>3, <1>6 DEF ActiveEntry, n
<1>8. PICK g : g = [dir[id] EXCEPT !.lines = Append(@, [ev |-> e, nl |-> TRUE])]
  OBVIOUS
<1>9. g \in File /\ EventsOf(g.lines) = Append(L[n], e)
  <2>1. PICK f \in File : f = dir[id]
    BY <1>2, <1>7
  <2>2. g = [f EXCEPT !.lines = Append(@, [ev |-> e, nl |-> TRUE])]
    BY <1>8, <2>1
  <2> QED BY <1>7, <2>1, <2>2, LineAdded
<1>10. x = [dir EXCEPT ![id] = g]
  BY <1>7, <1>8 DEF WithLineAt
<1>11. /\ DOMAIN x = DOMAIN dir /\ x[id] = g /\ x = [q \in DOMAIN x |-> x[q]]
       /\ \A q \in DOMAIN dir : q # id => x[q] = dir[q]
  <2>1. dir = [q \in DOMAIN dir |-> dir[q]]
    BY DEF DirOK
  <2> QED BY <1>7, <1>10, <2>1
<1>12. DirOK(x)
  <2>1. \A q \in DOMAIN x : x[q] \in File
    BY <1>2, <1>9, <1>11
  <2>2. x \in [DOMAIN x -> File]
    BY <1>11, <2>1
  <2> QED BY <1>11, <2>2 DEF DirOK
<1>13. N \in [1..n -> Seq(Event)] /\ N[n] = Append(L[n], e) /\ N[n] # << >>
       /\ \A k \in 1..n : k # n => N[k] = L[k]
  <2>1. N = [k \in 1..n |-> IF k = n THEN Append(L[k], e) ELSE L[k]]
    BY DEF NewEvent, n
  <2>2. L \in [1..n -> Seq(Event)]
    BY <1>2 DEF n
  <2>3. ASSUME NEW k \in 1..n PROVE Append(L[k], e) \in Seq(Event) /\ Append(L[k], e) # << >>
    <3>1. PICK s \in Seq(Event) : s = L[k]
      BY <2>2
    <3> QED BY <3>1, Appended
  <2> QED BY <1>3, <2>1, <2>2, <2>3
<1>14. ASSUME NEW k \in 1..n PROVE EventsOf(x[c.segs[k].id].lines) = N[k]
  <2>1. CASE k = n
    BY <1>6, <1>9, <1>11, <1>13, <2>1
  <2>2. CASE k # n
    <3>1. c.segs[k].id # id
      <4>1. Linked(c)
        BY <1>1 DEF Exact
      <4> QED BY <1>3, <1>6, <2>2, <4>1, <1>2, FilesDiffer DEF n
    <3>2. c.segs[k].id \in DOMAIN dir /\ L[k] = EventsOf(dir[c.segs[k].id].lines)
      BY <1>2 DEF n
    <3> QED BY <1>11, <1>13, <2>2, <3>1, <3>2
  <2> QED BY <2>1, <2>2
<1>15. Contents(d, x) = N
  <2>1. Contents(d, x) = [k \in 1..n |-> EventsOf(x[d.segs[k].id].lines)]
    BY <1>4 DEF Contents, n
  <2>2. N = [k \in 1..n |-> N[k]]
    BY <1>13
  <2>3. \A k \in 1..n : EventsOf(x[d.segs[k].id].lines) = N[k]
    BY <1>4, <1>14 DEF n
  <2> QED BY <2>1, <2>2, <2>3
<1>16. CatalogOK(d, x) /\ HasActive(d)
  <2>1. DOMAIN d.segs = 1..n
    BY <1>4, <1>5, SegsType DEF n
  <2>2. \A k \in 1..n : d.segs[k].id \in DOMAIN x
    BY <1>2, <1>4, <1>11 DEF n
  <2>3. d.active \in 0..Len(d.segs) /\ d.active # 0
    BY <1>3, <1>4 DEF n
  <2> QED BY <2>1, <2>2, <2>3 DEF CatalogOK, HasActive
<1>17. Starts(d, N, m)
  BY <1>2, <1>4, <1>5, StartsStill DEF n
<1>18. d.next >= m
  <2>1. e.seq = c.next /\ c.next \in Nat
    BY <1>2 DEF Admissible, Catalog
  <2> QED BY <1>2, <1>5, <2>1
<1>19. Solid(d, x, m)
  BY <1>4, <1>5, <1>15, <1>16, <1>17, <1>18 DEF Solid, Knows
<1> QED BY <1>4, <1>5, <1>11, <1>12, <1>13, <1>14, <1>19 DEF n

\* The catalog on the disk knows less than the files then, until it is written;
\* a process that reconciles it finds the event nevertheless.
LEMMA KeptBehind ==
  ASSUME NEW b, NEW c, NEW dir, NEW m \in Nat, Kept(b, dir, m), Solid(c, dir, m), DirOK(dir),
         Follows(b, c), Len(c.segs) = Len(b.segs), Contents(c, dir) = Contents(b, dir),
         NEW e \in Event, Admissible(c, e),
         NEW x, x = WithLineAt(dir, ActiveEntry(c).id, e)
  PROVE  Kept(b, x, m) /\ Reconcile(b, x).head = DigestOf(e)
<1>1. PICK L : L = Contents(b, dir)
  OBVIOUS
<1>2. Knows(b, dir, m) /\ OnDisk(b, L) /\ Behind(b, L)
  BY <1>1 DEF Kept
<1>3. /\ b \in Catalog /\ CatalogOK(b, dir) /\ HasActive(b) /\ b.next >= m /\ Starts(b, L, m)
      /\ L \in [1..Len(b.segs) -> Seq(Event)]
  BY <1>1, <1>2, ContentsOfKnown
<1> DEFINE n == Len(b.segs)
<1>4. PICK d : d = Recorded(c, e)
  OBVIOUS
<1>5. PICK N : N = NewEvent(L, n, e)
  OBVIOUS
<1>6. /\ Solid(d, x, m) /\ d.head = DigestOf(e) /\ Len(d.segs) = n
      /\ DirOK(x) /\ DOMAIN x = DOMAIN dir
      /\ N \in [1..n -> Seq(Event)] /\ Exact(d, N) /\ N[n] # << >>
      /\ \A k \in 1..n : EventsOf(x[c.segs[k].id].lines) = N[k]
      /\ Follows(b, d)
  BY <1>1, <1>4, <1>5, RecordedSolid
<1>7. d \in Catalog
  BY <1>6 DEF Solid, Knows
<1>8. n \in Nat /\ n \in 1..n /\ \A k \in 1..n : b.segs[k] \in Entry
  <2>1. n \in Nat /\ b.active = n /\ n # 0 /\ \A k \in 1..n : b.segs[k] \in Entry
    BY <1>2, <1>3, SegsType DEF OnDisk, Linked, HasActive
  <2> QED BY <2>1
<1>9. OnDisk(b, N)
  BY <1>2, <1>3, <1>6, <1>7, <1>8, OnDiskCatchesUp
<1>10. Contents(b, x) = N
  <2>1. \A k \in 1..n : b.segs[k].id = c.segs[k].id
    BY DEF Follows
  <2>2. N = [k \in 1..n |-> N[k]]
    BY <1>6
  <2> QED BY <1>6, <2>1, <2>2 DEF Contents
<1>11. CatalogOK(b, x)
  BY <1>3, <1>6 DEF CatalogOK
<1>12. Starts(b, N, m)
  BY <1>3, <1>5, StartsStill
<1>13. Behind(b, N)
  <2>1. ASSUME NEW k \in 1..n PROVE Counted(b.segs[k], N[k])
    <3>1. Counted(b.segs[k], L[k]) /\ L[k] \in Seq(Event) /\ b.segs[k] \in Entry
      BY <1>2, <1>3, <1>8 DEF Behind
    <3>2. Counted(b.segs[k], Append(L[k], e))
      BY <3>1, CountedStill
    <3> QED BY <1>5, <3>1, <3>2 DEF NewEvent
  <2> QED BY <1>2, <2>1 DEF Behind
<1>14. Kept(b, x, m)
  BY <1>3, <1>9, <1>10, <1>11, <1>12, <1>13 DEF Kept, Knows
<1>15. PICK r : r = Reconcile(b, x)
  OBVIOUS
<1>16. Solid(r, x, m) /\ Contents(r, x) = N /\ Len(r.segs) = n
  BY <1>6, <1>10, <1>14, <1>15, KeptReconciled
<1>17. r \in Catalog /\ Exact(r, N)
  BY <1>16 DEF Solid, Knows
<1>18. r.head = d.head
  BY <1>6, <1>7, <1>16, <1>17, SameHead
<1> QED BY <1>6, <1>14, <1>15, <1>18
-----------------------------------------------------------------------------
(* The state the migration goes through. *)

\* The events of the files a published catalog names.
LEMMA PublishedChain ==
  ASSUME NEW c, NEW dir, Published(c, dir), DirOK(dir),
         NEW all, all = FlattenSeq(Contents(c, dir))
  PROVE  /\ all \in Seq(Event) /\ Len(all) = c.next /\ c.head = StampsOf(all)
         /\ all # << >> => HasActive(c)
<1>1. PICK L : L = Contents(c, dir)
  OBVIOUS
<1>2. /\ c \in Catalog /\ CatalogOK(c, dir) /\ Exact(c, L)
      /\ \A id \in DOMAIN dir : dir[id] \in File
  BY <1>1 DEF Published, DirOK
<1>3. L \in [1..Len(c.segs) -> Seq(Event)]
  BY <1>1, <1>2, ContentsType
<1> QED BY <1>1, <1>2, <1>3, ExactChain

\* In either layout the log is one chain, and its history is what a load of it
\* returns.
LEMMA LogIsHistory ==
  ASSUME DiskInv
  PROVE  /\ Log = History
         /\ \E x \in Seq(Event) : ChainOf(x) /\ History = StampsOf(x)
<1>1. CASE HasActive(catalog)
  <2>1. PICK m : m = Len(OldEvents)
    OBVIOUS
  <2>2. Kept(catalog, files, m) /\ DirOK(files) /\ m \in Nat
    BY <1>1, <2>1 DEF DiskInv, OldEvents
  <2>3. PICK r : r = Reconcile(catalog, files)
    OBVIOUS
  <2>4. PICK L : L = Contents(catalog, files)
    OBVIOUS
  <2>5. Solid(r, files, m) /\ Contents(r, files) = L /\ Len(r.segs) = Len(catalog.segs)
    BY <2>2, <2>3, <2>4, KeptReconciled
  <2>6. /\ r \in Catalog /\ Exact(r, L) /\ catalog \in Catalog
        /\ L \in [1..Len(r.segs) -> Seq(Event)]
        /\ \A k \in 1..Len(r.segs) : L[k] = EventsOf(files[catalog.segs[k].id].lines)
    <3>1. Knows(r, files, m) /\ Exact(r, L)
      BY <2>5 DEF Solid
    <3>2. Knows(catalog, files, m)
      BY <2>2 DEF Kept
    <3> QED BY <2>2, <2>4, <2>5, <3>1, <3>2, ContentsOfKnown
  <2>7. PICK all : all = FlattenSeq(L)
    OBVIOUS
  <2>8. all \in Seq(Event) /\ ChainOf(all) /\ r.head = StampsOf(all)
    BY <2>6, <2>7, ExactChain
  <2>9. Segmented = StampsOf(all)
    <3>1. DOMAIN catalog.segs = 1..Len(r.segs)
      BY <2>5, <2>6, SegsType
    <3>2. \A k \in 1..Len(r.segs) : FileEvents(files[catalog.segs[k].id]) = L[k]
      BY <2>6 DEF FileEvents, EventsOf
    <3>3. [k \in DOMAIN catalog.segs |-> StampsOf(FileEvents(files[catalog.segs[k].id]))]
            = [k \in 1..Len(r.segs) |-> StampsOf(L[k])]
      BY <3>1, <3>2
    <3>4. Chained(r, L)
      BY <2>6 DEF Exact
    <3>5. FlattenSeq([k \in 1..Len(r.segs) |-> StampsOf(L[k])]) = StampsOf(all)
      BY <2>6, <2>7, <3>4, StampsJoined
    <3> QED BY <3>3, <3>5 DEF Segmented
  <2> QED BY <1>1, <2>3, <2>8, <2>9 DEF History, Log, Opened
<1>2. CASE ~HasActive(catalog)
  <2>1. History = StampsOf(path) /\ Log = StampsOf(path)
    BY <1>2 DEF History, Log
  <2>2. path \in Seq(Event) /\ ChainOf(path)
    BY DEF DiskInv
  <2> QED BY <1>2, <2>1, <2>2
<1> QED BY <1>1, <1>2

LEMMA HistoryType ==
  ASSUME DiskInv
  PROVE  History \in Seq(Stamp) /\ Len(History) \in Nat
<1>1. PICK x \in Seq(Event) : History = StampsOf(x)
  BY LogIsHistory
<1> QED BY <1>1, StampsOfIs

\* What no step does to the disk: take an event of the log away, or its place.
DiskStep ==
  /\ DiskInv'
  /\ Begins(History', History)
  /\ HasActive(catalog) => HasActive(catalog') /\ DOMAIN files \subseteq DOMAIN files'
  /\ path' = path \/ path' = << >>

LEMMA DiskQuiet ==
  ASSUME DiskInv, UNCHANGED <<old, tmp, new>>
  PROVE  DiskStep /\ History' = History
<1>1. UNCHANGED <<path, moved, tmpFiles, tmpCatalog, files, catalog>>
  BY DEF old, tmp, new
<1>2. DiskInv' /\ History' = History
  BY <1>1 DEF DiskInv, History, Opened, OldEvents
<1>3. Begins(History, History)
  BY HistoryType DEF Begins
<1> QED BY <1>1, <1>2, <1>3 DEF DiskStep

\* The process that takes a step leaves the others their state.
OthersKept(w) ==
  \A v \in Writers \ {w} :
    /\ pc'[v] = pc[v] /\ mem'[v] = mem[v] /\ batch'[v] = batch[v] /\ pos'[v] = pos[v]
    /\ lock' = v <=> lock = v

LEMMA OtherWriterInv ==
  ASSUME MigrationInv, NEW w \in Writers, NEW v \in Writers \ {w}, DiskStep, OthersKept(w),
         pc[w] \in Holding \/ UNCHANGED <<old, tmp, new>>
  PROVE  WriterInv(v)'
<1>1. /\ pc'[v] = pc[v] /\ mem'[v] = mem[v] /\ batch'[v] = batch[v] /\ pos'[v] = pos[v]
      /\ lock' = v <=> lock = v
  BY DEF OthersKept
<1>2. WriterInv(v) /\ WriterInv(w)
  BY DEF MigrationInv
<1>3. /\ lock' = v <=> pc'[v] \in Holding
      /\ pc'[v] \in Holding \union {"lock"} => Len(batch'[v]) = 1
  BY <1>1, <1>2 DEF WriterInv
<1>4. ASSUME pc[v] = "scan"
      PROVE  CatalogOK(mem[v], files') /\ (mem[v] = NewCatalog \/ HasActive(catalog'))
  <2>1. CatalogOK(mem[v], files) /\ (mem[v] = NewCatalog \/ HasActive(catalog))
    BY <1>2, <1>4 DEF WriterInv
  <2>2. CASE mem[v] = NewCatalog
    BY <2>2, NewCatalogType
  <2>3. CASE HasActive(catalog)
    <3>1. HasActive(catalog') /\ DOMAIN files \subseteq DOMAIN files'
      BY <2>3 DEF DiskStep
    <3> QED BY <2>1, <3>1 DEF CatalogOK
  <2> QED BY <2>1, <2>2, <2>3
<1>5. Progress(v)'
  <2>1. CASE pc[v] \in Holding
    <3>1. pc[w] \notin Holding
      BY <1>2, <2>1 DEF WriterInv
    <3>2. UNCHANGED <<path, moved, tmpFiles, tmpCatalog, files, catalog>>
      BY <3>1 DEF old, tmp, new
    <3>3. Progress(v)
      BY <1>2 DEF WriterInv
    <3> QED BY <1>1, <3>2, <3>3
            DEF Progress, Copied, Written, CopyOf, InHistory, History, Opened, OldEvents
  <2>2. CASE pc[v] \notin Holding
    BY <1>1, <2>2 DEF Progress, Holding, Migrating, Appending, Labels
  <2> QED BY <2>1, <2>2
<1> QED BY <1>1, <1>3, <1>4, <1>5 DEF WriterInv

\* What was in the log is in it after the step.
LEMMA StaysInHistory ==
  ASSUME DiskInv, DiskStep, NEW e, InHistory(e)
  PROVE  InHistory(e)'
<1>1. PICK i \in 1..Len(History) : History[i] = e
  BY DEF InHistory
<1>2. Len(History) <= Len(History') /\ \A j \in 1..Len(History) : History'[j] = History[j]
  BY DEF DiskStep, Begins
<1>3. Len(History) \in Nat /\ Len(History') \in Nat
  <2>1. DiskInv'
    BY DEF DiskStep
  <2> QED BY <2>1, HistoryType
<1>4. i \in 1..Len(History') /\ History'[i] = e
  BY <1>1, <1>2, <1>3
<1> QED BY <1>4 DEF InHistory

LEMMA ReaderKept ==
  ASSUME MigrationInv, DiskStep, UNCHANGED readers, NEW r \in Readers
  PROVE  ReaderInv(r)'
<1>1. rpc' = rpc /\ got' = got /\ floor' = floor
  BY DEF readers
<1>2. ReaderInv(r) /\ DiskInv /\ DiskInv' /\ got[r] \in Seq(Stamp)
  BY DEF MigrationInv, DiskStep, LocalsOK
<1>3. /\ Len(History) \in Nat /\ Len(History') \in Nat /\ Len(History) <= Len(History')
      /\ Begins(History', History)
  <2>1. Len(History) \in Nat
    BY <1>2, HistoryType
  <2>2. Len(History') \in Nat
    BY <1>2, HistoryType
  <2> QED BY <2>1, <2>2 DEF DiskStep, Begins
<1>4. floor[r] \in 0..Len(History')
  BY <1>2, <1>3 DEF ReaderInv
<1>5. rpc[r] = "segments" => HasActive(catalog')
  BY <1>2 DEF ReaderInv, DiskStep
<1>6. rpc[r] = "file" /\ path' # << >> => floor[r] <= Len(path')
  BY <1>2 DEF ReaderInv, DiskStep
<1>7. rpc[r] = "done" => /\ Begins(History', got[r])
                         /\ got[r] = << >> \/ Len(got[r]) >= floor[r]
  <2> SUFFICES ASSUME rpc[r] = "done"
               PROVE  Begins(History', got[r]) /\ (got[r] = << >> \/ Len(got[r]) >= floor[r])
    OBVIOUS
  <2>1. Begins(History, got[r]) /\ (got[r] = << >> \/ Len(got[r]) >= floor[r])
    BY <1>2 DEF ReaderInv
  <2>2. Len(got[r]) \in Nat
    BY <1>2
  <2>3. Begins(History', got[r])
    BY <1>3, <2>1, <2>2, BeginsOn
  <2> QED BY <2>1, <2>3
<1> QED BY <1>1, <1>4, <1>5, <1>6, <1>7 DEF ReaderInv

\* A step of a writer that keeps the log keeps everything, if the writer's own
\* state is right afterwards.
LEMMA WriterStep ==
  ASSUME MigrationInv, NEW w \in Writers, DiskStep, OthersKept(w), UNCHANGED readers,
         pc[w] \in Holding \/ UNCHANGED <<old, tmp, new>>,
         LocalsOK', WriterInv(w)', \A e \in acked' : e \in acked \/ InHistory(e)'
  PROVE  MigrationInv'
<1>1. \A v \in Writers : WriterInv(v)'
  <2> SUFFICES ASSUME NEW v \in Writers PROVE WriterInv(v)'
    OBVIOUS
  <2>1. CASE v = w
    BY <2>1
  <2>2. CASE v # w
    <3>1. v \in Writers \ {w}
      BY <2>2
    <3> QED BY <3>1, OtherWriterInv
  <2> QED BY <2>1, <2>2
<1>2. \A e \in acked' : InHistory(e)'
  <2> SUFFICES ASSUME NEW e \in acked' PROVE InHistory(e)'
    OBVIOUS
  <2>1. CASE e \in acked
    <3>1. InHistory(e) /\ DiskInv
      BY <2>1 DEF MigrationInv
    <3> QED BY <3>1, StaysInHistory
  <2> QED BY <2>1
<1>3. \A r \in Readers : ReaderInv(r)'
  BY ReaderKept
<1>4. floor' \in [Readers -> Nat]
  BY DEF MigrationInv, readers
<1> QED BY <1>1, <1>2, <1>3, <1>4 DEF MigrationInv, DiskStep

-----------------------------------------------------------------------------
(* The steps that leave the disk as it is. *)

\* A process that is done, or is killed, gives up the lock if it has it.
LEMMA ForgetInv ==
  ASSUME MigrationInv, NEW w \in Writers, Forget(w), UNCHANGED <<old, tmp, new, readers>>,
         lock' = IF lock = w THEN NoOne ELSE lock,
         \A e \in acked' : e \in acked \/ InHistory(e)
  PROVE  MigrationInv'
<1>1. /\ mem' = [mem EXCEPT ![w] = NewCatalog] /\ batch' = [batch EXCEPT ![w] = << >>]
      /\ pos' = [pos EXCEPT ![w] = 1] /\ pc' = [pc EXCEPT ![w] = "idle"]
  BY DEF Forget, Goto
<1>2. LocalsOK /\ DiskInv
  BY DEF MigrationInv
<1>3. << >> \in Seq(Event) /\ 1 \in Nat \ {0} /\ "idle" \in Labels
  BY DEF Labels
<1>4. /\ mem' \in [Writers -> Catalog] /\ batch' \in [Writers -> Seq(Event)]
      /\ pos' \in [Writers -> Nat \ {0}] /\ pc' \in [Writers -> Labels]
      /\ pc'[w] = "idle"
  BY <1>1, <1>2, <1>3, NewCatalogType DEF LocalsOK
<1>5. OthersKept(w)
  BY <1>1, <1>2, ProcessAssumption DEF OthersKept, LocalsOK
<1>6. lock' \in Writers \union {NoOne} /\ lock' # w
  BY <1>2, ProcessAssumption DEF LocalsOK
<1>7. LocalsOK'
  BY <1>2, <1>4, <1>6 DEF LocalsOK, readers
<1>8. WriterInv(w)'
  <2>1. pc'[w] \notin Holding \union {"lock"}
    BY <1>4 DEF Holding
  <2>2. Progress(w)'
    BY <1>4 DEF Progress, Migrating, Appending, Holding
  <2> QED BY <1>4, <1>6, <2>1, <2>2 DEF WriterInv
<1>9. DiskStep /\ History' = History
  BY <1>2, DiskQuiet
<1>10. \A e : InHistory(e) => InHistory(e)'
  BY <1>9 DEF InHistory
<1>11. UNCHANGED readers
  OBVIOUS
<1> QED BY <1>5, <1>7, <1>8, <1>9, <1>10, <1>11, WriterStep

LEMMA ReturnTailInv ==
  ASSUME MigrationInv, NEW w \in Writers, ReturnTail(w)
  PROVE  MigrationInv'
<1>1. pc[w] = "scan" /\ Forget(w) /\ UNCHANGED <<old, tmp, new, lock, history, readers>>
  BY DEF ReturnTail
<1>2. lock # w
  BY <1>1 DEF MigrationInv, WriterInv, Holding
<1> QED BY <1>1, <1>2, ForgetInv DEF history

LEMMA CrashInv ==
  ASSUME MigrationInv, NEW w \in Writers, Crash(w)
  PROVE  MigrationInv'
BY ForgetInv DEF Crash

LEMMA RejectInv ==
  ASSUME MigrationInv, NEW w \in Writers, Reject(w)
  PROVE  MigrationInv'
<1>1. /\ pc[w] = "append" /\ Forget(w) /\ lock' = NoOne
      /\ UNCHANGED <<old, tmp, new, history, readers>>
  BY DEF Reject
<1>2. lock = w
  BY <1>1 DEF MigrationInv, WriterInv, Holding, Labels
<1> QED BY <1>1, <1>2, ForgetInv DEF history

LEMMA UnlockInv ==
  ASSUME MigrationInv, NEW w \in Writers, Unlock(w)
  PROVE  MigrationInv'
<1>1. /\ pc[w] = "unlock" /\ Forget(w) /\ lock' = NoOne
      /\ acked' = acked \union {StampsOf(batch[w])[1]}
      /\ UNCHANGED <<old, tmp, new, readers>>
  BY DEF Unlock
<1>2. lock = w
  BY <1>1 DEF MigrationInv, WriterInv, Holding, Labels
<1>3. InHistory(StampsOf(batch[w])[1])
  BY <1>1 DEF MigrationInv, WriterInv, Progress
<1> QED BY <1>1, <1>2, <1>3, ForgetInv

LEMMA ReadTailInv ==
  ASSUME MigrationInv, NEW w \in Writers, ReadTail(w)
  PROVE  MigrationInv'
<1>1. /\ pc[w] = "idle"
      /\ mem' = [mem EXCEPT ![w] = catalog] /\ pc' = [pc EXCEPT ![w] = "scan"]
      /\ UNCHANGED <<old, tmp, new, lock, batch, pos, history, readers>>
  BY DEF ReadTail, Goto
<1>2. LocalsOK /\ DiskInv
  BY DEF MigrationInv
<1>3. catalog \in Catalog /\ CatalogOK(catalog, files) /\ (catalog = NewCatalog \/ HasActive(catalog))
  BY <1>2, NewCatalogType DEF DiskInv, Kept, Knows
<1>4. /\ mem' \in [Writers -> Catalog] /\ pc' \in [Writers -> Labels]
      /\ pc'[w] = "scan" /\ mem'[w] = catalog
  BY <1>1, <1>2, <1>3 DEF LocalsOK, Labels
<1>5. OthersKept(w) /\ LocalsOK'
  BY <1>1, <1>2, <1>4 DEF OthersKept, LocalsOK, readers
<1>6. WriterInv(w)'
  <2>1. lock' # w
    BY <1>1 DEF MigrationInv, WriterInv, Holding
  <2>2. pc'[w] \notin Holding \union {"lock"}
    BY <1>4 DEF Holding
  <2>3. Progress(w)'
    BY <1>4 DEF Progress, Migrating, Appending, Holding
  <2>4. UNCHANGED <<catalog, files>>
    BY <1>1 DEF new
  <2> QED BY <1>3, <1>4, <2>1, <2>2, <2>3, <2>4 DEF WriterInv
<1>7. DiskStep
  BY <1>1, <1>2, DiskQuiet
<1>8. acked' = acked
  BY <1>1 DEF history
<1>9. UNCHANGED readers /\ UNCHANGED <<old, tmp, new>>
  BY <1>1
<1> QED BY <1>5, <1>6, <1>7, <1>8, <1>9, WriterStep

LEMMA BuildEventInv ==
  ASSUME MigrationInv, NEW w \in Writers, BuildEvent(w)
  PROVE  MigrationInv'
<1> DEFINE tail == IF HasActive(mem[w]) THEN Reconcile(mem[w], files) ELSE LegacyTail
<1>1. /\ pc[w] = "scan"
      /\ \E ns \in Namespaces, pay \in Payloads :
           batch' = [batch EXCEPT ![w] = BuildEvents(tail.next, tail.head, ns, <<pay>>, 0)]
      /\ mem' = [mem EXCEPT ![w] = NewCatalog] /\ pc' = [pc EXCEPT ![w] = "lock"]
      /\ UNCHANGED <<old, tmp, new, lock, pos, history, readers>>
  BY DEF BuildEvent, Goto
<1>2. LocalsOK /\ DiskInv
  BY DEF MigrationInv
<1>3. tail.next \in Nat /\ tail.head \in Digest
  <2>1. CASE HasActive(mem[w])
    <3>1. mem[w] \in Catalog /\ CatalogOK(mem[w], files) /\ \A id \in DOMAIN files : files[id] \in File
      BY <1>1, <1>2 DEF LocalsOK, MigrationInv, WriterInv, DiskInv, DirOK
    <3>2. Reconcile(mem[w], files) \in Catalog
      BY <3>1, ReconcileType
    <3>3. tail = Reconcile(mem[w], files)
      BY <2>1
    <3> HIDE DEF tail
    <3> QED BY <3>2, <3>3 DEF Catalog
  <2>2. CASE ~HasActive(mem[w]) /\ path = << >>
    <3>1. tail = [next |-> 0, head |-> Genesis]
      BY <2>2 DEF LegacyTail
    <3>2. Genesis \in Digest
      BY DEF Genesis, Digest
    <3> HIDE DEF tail
    <3> QED BY <3>1, <3>2
  <2>3. CASE ~HasActive(mem[w]) /\ path # << >>
    <3>1. PICK e : e = path[Len(path)]
      OBVIOUS
    <3>2. path \in Seq(Event)
      BY <1>2 DEF DiskInv
    <3>3. e \in Event
      <4>1. path[Len(path)] \in Event
        BY <2>3, <3>2
      <4> QED BY <3>1, <4>1
    <3>4. tail = [next |-> e.seq + 1, head |-> DigestOf(e)]
      BY <2>3, <3>1 DEF LegacyTail, Last
    <3>5. e.seq + 1 \in Nat /\ DigestOf(e) \in Digest
      BY <3>3, DigestOfType DEF Event
    <3> QED BY <3>4, <3>5
  <2> QED BY <2>1, <2>2, <2>3
<1> HIDE DEF tail
<1>4. PICK b : batch' = [batch EXCEPT ![w] = b] /\ b \in Seq(Event) /\ Len(b) = 1
  <2>1. PICK ns \in Namespaces, pay \in Payloads :
          batch' = [batch EXCEPT ![w] = BuildEvents(tail.next, tail.head, ns, <<pay>>, 0)]
    BY <1>1
  <2>2. PICK b : b = BuildEvents(tail.next, tail.head, ns, <<pay>>, 0)
    OBVIOUS
  <2>3. PICK pays : pays = <<pay>>
    OBVIOUS
  <2>4. pays \in [1..1 -> Payloads] /\ b = BuildEvents(tail.next, tail.head, ns, pays, 0)
    BY <2>2, <2>3
  <2>5. b \in Seq(Event) /\ Len(b) = 1
    <3>1. PICK next, head, n, none : next = tail.next /\ head = tail.head /\ n = 1 /\ none = 0
      OBVIOUS
    <3>2. next \in Nat /\ head \in Digest /\ n \in Nat /\ pays \in [1..n -> Payloads]
      BY <1>3, <2>4, <3>1
    <3>3. b = BuildEvents(next, head, ns, pays, none)
      BY <2>4, <3>1
    <3>4. b \in Seq(Event) /\ Len(b) = n
      BY <3>2, <3>3, BuiltSuccessive
    <3> QED BY <3>1, <3>4
  <2> QED BY <2>1, <2>2, <2>5
<1>5. /\ mem' \in [Writers -> Catalog] /\ pc' \in [Writers -> Labels]
      /\ batch' \in [Writers -> Seq(Event)]
      /\ pc'[w] = "lock" /\ batch'[w] = b
  BY <1>1, <1>2, <1>4, NewCatalogType DEF LocalsOK, Labels
<1>6. OthersKept(w) /\ LocalsOK'
  BY <1>1, <1>2, <1>4, <1>5 DEF OthersKept, LocalsOK, readers
<1>7. WriterInv(w)'
  <2>1. lock' # w
    BY <1>1 DEF MigrationInv, WriterInv, Holding
  <2>2. pc'[w] \notin Holding /\ Len(batch'[w]) = 1
    BY <1>4, <1>5 DEF Holding
  <2>3. Progress(w)'
    BY <1>5 DEF Progress, Migrating, Appending, Holding
  <2> QED BY <1>5, <2>1, <2>2, <2>3 DEF WriterInv
<1>8. DiskStep
  BY <1>1, <1>2, DiskQuiet
<1>9. acked' = acked
  BY <1>1 DEF history
<1>10. UNCHANGED readers /\ UNCHANGED <<old, tmp, new>>
  BY <1>1
<1> QED BY <1>6, <1>7, <1>8, <1>9, <1>10, WriterStep

LEMMA AcquireLockInv ==
  ASSUME MigrationInv, NEW w \in Writers, AcquireLock(w)
  PROVE  MigrationInv'
<1>1. /\ pc[w] = "lock" /\ lock = NoOne /\ lock' = w
      /\ pc' = [pc EXCEPT ![w] = "open"]
      /\ UNCHANGED <<old, tmp, new, local, history, readers>>
  BY DEF AcquireLock, Goto
<1>2. LocalsOK /\ DiskInv /\ mem' = mem /\ batch' = batch /\ pos' = pos
  BY <1>1 DEF MigrationInv, local
<1>3. pc' \in [Writers -> Labels] /\ pc'[w] = "open"
  BY <1>1, <1>2 DEF LocalsOK, Labels
<1>4. OthersKept(w) /\ LocalsOK'
  BY <1>1, <1>2, <1>3, ProcessAssumption DEF OthersKept, LocalsOK, readers
<1>5. WriterInv(w)'
  <2>1. pc'[w] \in Holding /\ Len(batch'[w]) = 1
    BY <1>1, <1>2, <1>3 DEF MigrationInv, WriterInv, Holding, Labels
  <2>2. Progress(w)'
    BY <1>3 DEF Progress, Migrating, Appending, Holding
  <2> QED BY <1>1, <1>3, <2>1, <2>2 DEF WriterInv
<1>6. DiskStep
  BY <1>1, <1>2, DiskQuiet
<1>7. acked' = acked
  BY <1>1 DEF history
<1>8. UNCHANGED readers /\ UNCHANGED <<old, tmp, new>>
  BY <1>1
<1> QED BY <1>4, <1>5, <1>6, <1>7, <1>8, WriterStep

-----------------------------------------------------------------------------
(* The steps of the process that holds the lock. *)

LEMMA HolderStep ==
  ASSUME MigrationInv, NEW w \in Writers, pc[w] \in Holding,
         NEW label \in Holding, pc' = [pc EXCEPT ![w] = label],
         UNCHANGED <<lock, batch, acked, readers>>,
         mem' \in [Writers -> Catalog], pos' \in [Writers -> Nat \ {0}],
         \A v \in Writers \ {w} : mem'[v] = mem[v] /\ pos'[v] = pos[v],
         DiskStep, Progress(w)'
  PROVE  MigrationInv'
<1>1. LocalsOK /\ WriterInv(w)
  BY DEF MigrationInv
<1>2. label \in Labels
  BY DEF Holding
<1>3. pc' \in [Writers -> Labels] /\ pc'[w] = label /\ \A v \in Writers \ {w} : pc'[v] = pc[v]
  BY <1>1, <1>2 DEF LocalsOK
<1>4. LocalsOK'
  BY <1>1, <1>3 DEF LocalsOK, readers
<1>5. OthersKept(w)
  BY <1>3 DEF OthersKept
<1>6. WriterInv(w)'
  <2>1. lock' = w /\ pc'[w] \in Holding /\ pc'[w] # "scan" /\ Len(batch'[w]) = 1
    BY <1>1, <1>3 DEF WriterInv, Holding
  <2> QED BY <2>1 DEF WriterInv
<1>7. UNCHANGED readers
  OBVIOUS
<1> QED BY <1>4, <1>5, <1>6, <1>7, WriterStep

\* The old file whole is the log, as long as there is no catalog.
LEMMA OldLog ==
  ASSUME MigrationInv, NEW w \in Writers, pc[w] \in Migrating
  PROVE  /\ ~HasActive(catalog) /\ History = StampsOf(path)
         /\ path \in Seq(Event) /\ path # << >> /\ ChainOf(path)
         /\ Len(path) \in Nat /\ Len(StampsOf(path)) = Len(path)
<1>1. ~HasActive(catalog)
  BY DEF MigrationInv, WriterInv, Progress
<1>2. path \in Seq(Event) /\ path # << >> /\ ChainOf(path)
  BY <1>1 DEF MigrationInv, DiskInv
<1> QED BY <1>1, <1>2, StampsOfIs DEF History

\* The migration's own files are no part of the log.
LEMMA AsideDisk ==
  ASSUME MigrationInv, UNCHANGED <<old, files, catalog>>, DirOK(tmpFiles'), tmpCatalog' \in Catalog
  PROVE  DiskStep
<1>1. DiskInv /\ UNCHANGED <<path, moved, files, catalog>>
  BY DEF MigrationInv, old
<1>2. History' = History
  BY <1>1 DEF History, Opened
<1>3. DiskInv'
  BY <1>1, <1>2 DEF DiskInv, OldEvents
<1>4. Begins(History, History)
  BY <1>1, HistoryType DEF Begins
<1> QED BY <1>1, <1>2, <1>3, <1>4 DEF DiskStep

LEMMA SkipMigrationInv ==
  ASSUME MigrationInv, NEW w \in Writers, SkipMigration(w)
  PROVE  MigrationInv'
<1>1. /\ pc[w] = "open"
      /\ HasActive(catalog) \/ path = << >>
      /\ pc' = [pc EXCEPT ![w] = "append"]
      /\ UNCHANGED <<old, tmp, new, lock, local, history, readers>>
  BY DEF SkipMigration, Goto
<1>2. LocalsOK /\ DiskInv
  BY DEF MigrationInv
<1>3. /\ mem' = mem /\ batch' = batch /\ pos' = pos /\ catalog' = catalog /\ acked' = acked
      /\ lock' = lock /\ UNCHANGED readers
  BY <1>1 DEF local, new, history
<1>4. HasActive(catalog')
  BY <1>1, <1>2, <1>3 DEF DiskInv
<1>5. pc[w] \in Holding /\ "append" \in Holding
  BY <1>1 DEF Holding, Labels
<1>6. pc'[w] = "append"
  BY <1>1, <1>2 DEF LocalsOK
<1>7. Progress(w)'
  BY <1>4, <1>6 DEF Progress, Migrating, Appending, Holding
<1>8. DiskStep
  BY <1>1, <1>2, DiskQuiet
<1>9. mem' \in [Writers -> Catalog] /\ pos' \in [Writers -> Nat \ {0}]
  BY <1>2, <1>3 DEF LocalsOK
<1> QED BY <1>1, <1>3, <1>5, <1>7, <1>8, <1>9, HolderStep

LEMMA StartMigrationDisk ==
  ASSUME MigrationInv, NEW w \in Writers, StartMigration(w)
  PROVE  DiskStep
<1>1. UNCHANGED <<old, files, catalog>> /\ tmpFiles' = NoFiles /\ tmpCatalog' = NewCatalog
  BY DEF StartMigration, new
<1>2. DirOK(NoFiles)
  BY DEF DirOK, NoFiles
<1> QED BY <1>1, <1>2, AsideDisk, NewCatalogType

LEMMA StartMigrationInv ==
  ASSUME MigrationInv, NEW w \in Writers, StartMigration(w)
  PROVE  MigrationInv'
<1>1. /\ pc[w] = "open" /\ ~HasActive(catalog) /\ path # << >>
      /\ mem' = [mem EXCEPT ![w] = NewCatalog] /\ pos' = [pos EXCEPT ![w] = 1]
      /\ pc' = [pc EXCEPT ![w] = "copy"]
      /\ path' = path /\ catalog' = catalog /\ UNCHANGED <<lock, batch, acked, readers>>
  BY DEF StartMigration, Goto, old, new, history
<1>2. LocalsOK /\ DiskInv
  BY DEF MigrationInv
<1>3. /\ mem' \in [Writers -> Catalog] /\ pos' \in [Writers -> Nat \ {0}]
      /\ mem'[w] = NewCatalog /\ pos'[w] = 1 /\ pc'[w] = "copy"
      /\ \A v \in Writers \ {w} : mem'[v] = mem[v] /\ pos'[v] = pos[v]
  BY <1>1, <1>2, NewCatalogType DEF LocalsOK
<1>4. pc[w] \in Holding /\ "copy" \in Holding
  BY <1>1 DEF Holding, Labels
<1>5. Progress(w)'
  <2>1. 1 \in 1..(Len(path) + 1) /\ FirstStamps(path, 1 - 1) = Genesis
    <3>1. Len(path) \in Nat
      BY <1>2 DEF DiskInv
    <3>2. 1 - 1 = 0
      OBVIOUS
    <3>3. FirstStamps(path, 0) = Genesis
      BY DEF FirstStamps, Genesis
    <3> QED BY <3>1, <3>2, <3>3
  <2>2. Published(NewCatalog, tmpFiles') /\ NewCatalog.next = 1 - 1 /\ NewCatalog.head = Genesis
        /\ NewCatalog.ns = NoNamespace
    BY NonePublished
  <2> QED BY <1>1, <1>3, <2>1, <2>2 DEF Progress, Copied, Migrating, Appending, Holding
<1> QED BY <1>1, <1>3, <1>4, <1>5, StartMigrationDisk, HolderStep

\* One event of the old file more is copied.
LEMMA CopyIs ==
  ASSUME MigrationInv, NEW w \in Writers, CopyEvent(w)
  PROVE  /\ DirOK(tmpFiles') /\ Published(mem'[w], tmpFiles')
         /\ pos[w] \in 1..Len(path)
         /\ mem'[w].head = FirstStamps(path, pos[w])
         /\ mem'[w].next = pos[w] /\ mem'[w].ns = path[1].ns
<1>1. PICK e : e = path[pos[w]]
  OBVIOUS
<1>2. PICK c : c = mem[w]
  OBVIOUS
<1>3. PICK p : p = pos[w]
  OBVIOUS
<1>4. /\ pc[w] = "copy" /\ p <= Len(path)
      /\ tmpFiles' = WithEvent(tmpFiles, Room(c, e), e, NeedsRoll(c, e))
      /\ mem' = [mem EXCEPT ![w] = Recorded(Room(c, e), e)]
  BY <1>1, <1>2, <1>3 DEF CopyEvent
<1>5. LocalsOK /\ DiskInv /\ Progress(w)
  BY DEF MigrationInv, WriterInv
<1>6. path \in Seq(Event) /\ path # << >> /\ ChainOf(path) /\ Len(path) \in Nat
  BY <1>4, OldLog DEF Migrating
<1>7. /\ Published(c, tmpFiles) /\ p \in 1..(Len(path) + 1)
      /\ c.head = FirstStamps(path, p - 1) /\ c.next = p - 1
      /\ c.ns \in {NoNamespace, path[1].ns}
  BY <1>2, <1>3, <1>4, <1>5 DEF Progress, Copied
<1>8. p \in 1..Len(path) /\ p - 1 \in 0..Len(path) /\ p \in 0..Len(path) /\ p # 0
      /\ (p - 1 = 0 <=> p = 1)
  BY <1>4, <1>6, <1>7
<1>9. e \in Event
  <2>1. path[p] \in Event
    BY <1>6, <1>8
  <2> QED BY <1>1, <1>3, <2>1
<1>10. /\ e.seq = p - 1 /\ e.ns = path[1].ns /\ e.sound
       /\ e.prev = IF p - 1 = 0 THEN Genesis ELSE DigestOf(path[p - 1])
  BY <1>1, <1>3, <1>6, <1>8 DEF ChainOf
<1>11. e.prev = FirstStamps(path, p - 1)
  BY <1>6, <1>8, <1>10, ChainHistory
<1>12. DigestOf(e) = FirstStamps(path, p)
  <2>1. (IF p = 0 THEN Genesis ELSE DigestOf(path[p])) = FirstStamps(path, p)
    BY <1>6, <1>8, ChainHistory
  <2> QED BY <1>1, <1>3, <1>8, <2>1
<1>13. Admissible(c, e)
  BY <1>7, <1>10, <1>11 DEF Admissible
<1>14. DirOK(tmpFiles)
  BY <1>5 DEF DiskInv
<1>15. PICK d : d = Recorded(Room(c, e), e)
  OBVIOUS
<1>16. /\ Published(d, tmpFiles') /\ DirOK(tmpFiles')
       /\ d.head = DigestOf(e) /\ d.next = e.seq + 1 /\ d.ns = e.ns
  <2>1. PICK x : x = tmpFiles'
    OBVIOUS
  <2>2. x = WithEvent(tmpFiles, Room(c, e), e, NeedsRoll(c, e))
    BY <1>4, <2>1
  <2>3. /\ Published(d, x) /\ DirOK(x)
        /\ d.head = DigestOf(e) /\ d.next = e.seq + 1 /\ d.ns = e.ns
    BY <1>7, <1>9, <1>13, <1>14, <1>15, <2>2, PublishedOneMore
  <2> QED BY <2>1, <2>3
<1>17. mem'[w] = d
  BY <1>4, <1>5, <1>15 DEF LocalsOK
<1>18. d.next = p
  BY <1>8, <1>10, <1>16
<1> QED BY <1>3, <1>8, <1>10, <1>12, <1>16, <1>17, <1>18

LEMMA CopyEventDisk ==
  ASSUME MigrationInv, NEW w \in Writers, CopyEvent(w)
  PROVE  DiskStep
<1>1. UNCHANGED <<old, files, catalog>> /\ tmpCatalog' = tmpCatalog
  BY DEF CopyEvent, new
<1>2. tmpCatalog' \in Catalog
  BY <1>1 DEF MigrationInv, DiskInv
<1> QED BY <1>1, <1>2, AsideDisk, CopyIs

LEMMA CopyEventInv ==
  ASSUME MigrationInv, NEW w \in Writers, CopyEvent(w)
  PROVE  MigrationInv'
<1>1. /\ pc[w] = "copy" /\ pos' = [pos EXCEPT ![w] = @ + 1] /\ pc' = pc
      /\ \E d : mem' = [mem EXCEPT ![w] = d]
      /\ path' = path /\ catalog' = catalog /\ UNCHANGED <<lock, batch, acked, readers>>
  BY DEF CopyEvent, old, new, history
<1>2. LocalsOK /\ Progress(w)
  BY DEF MigrationInv, WriterInv
<1>3. /\ Published(mem'[w], tmpFiles') /\ pos[w] \in 1..Len(path)
      /\ mem'[w].head = FirstStamps(path, pos[w])
      /\ mem'[w].next = pos[w] /\ mem'[w].ns = path[1].ns
  BY CopyIs
<1>4. mem'[w] \in Catalog
  BY <1>3 DEF Published
<1>5. /\ mem' \in [Writers -> Catalog]
      /\ \A v \in Writers \ {w} : mem'[v] = mem[v]
  BY <1>1, <1>2, <1>4 DEF LocalsOK
<1>6. pos' \in [Writers -> Nat \ {0}] /\ pos'[w] = pos[w] + 1
      /\ \A v \in Writers \ {w} : pos'[v] = pos[v]
  BY <1>1, <1>2 DEF LocalsOK
<1>7. pc' = [pc EXCEPT ![w] = "copy"] /\ pc'[w] = "copy"
  BY <1>1, <1>2 DEF LocalsOK
<1>8. pc[w] \in Holding /\ "copy" \in Holding /\ pc[w] \in Migrating
  BY <1>1 DEF Holding, Labels, Migrating
<1>9. Progress(w)'
  <2>1. ~HasActive(catalog') /\ Len(path) \in Nat
    BY <1>1, <1>8, OldLog
  <2>2. pos'[w] \in 1..(Len(path) + 1) /\ pos'[w] - 1 = pos[w]
    BY <1>3, <1>6, <2>1
  <2> QED BY <1>1, <1>3, <1>7, <2>1, <2>2 DEF Progress, Copied, Migrating, Appending, Holding
<1> QED BY <1>1, <1>5, <1>6, <1>7, <1>8, <1>9, CopyEventDisk, HolderStep

LEMMA WriteTmpCatalogDisk ==
  ASSUME MigrationInv, NEW w \in Writers, WriteTmpCatalog(w)
  PROVE  DiskStep
<1>1. UNCHANGED <<old, files, catalog>> /\ tmpFiles' = tmpFiles /\ tmpCatalog' = mem[w]
  BY DEF WriteTmpCatalog, new
<1>2. DirOK(tmpFiles') /\ tmpCatalog' \in Catalog
  BY <1>1 DEF MigrationInv, DiskInv, LocalsOK
<1> QED BY <1>1, <1>2, AsideDisk

LEMMA WriteTmpCatalogInv ==
  ASSUME MigrationInv, NEW w \in Writers, WriteTmpCatalog(w)
  PROVE  MigrationInv'
<1>1. /\ pc[w] = "copy" /\ pos[w] > Len(path) /\ tmpCatalog' = mem[w]
      /\ pc' = [pc EXCEPT ![w] = "remove"]
      /\ path' = path /\ catalog' = catalog /\ tmpFiles' = tmpFiles
      /\ mem' = mem /\ pos' = pos /\ UNCHANGED <<lock, batch, acked, readers>>
  BY DEF WriteTmpCatalog, Goto, old, new, local, history
<1>2. LocalsOK /\ Progress(w) /\ DiskInv
  BY DEF MigrationInv, WriterInv
<1>3. pc[w] \in Holding /\ "remove" \in Holding /\ pc[w] \in Migrating
  BY <1>1 DEF Holding, Labels, Migrating
<1>4. /\ ~HasActive(catalog) /\ path \in Seq(Event) /\ path # << >>
      /\ Len(path) \in Nat /\ Len(StampsOf(path)) = Len(path)
  BY <1>3, OldLog
<1>5. /\ Published(mem[w], tmpFiles) /\ pos[w] \in 1..(Len(path) + 1)
      /\ mem[w].head = FirstStamps(path, pos[w] - 1)
  BY <1>1, <1>2 DEF Progress, Copied
<1>6. pos[w] - 1 = Len(path)
  BY <1>1, <1>4, <1>5
<1>7. mem[w].head = StampsOf(path)
  BY <1>4, <1>5, <1>6, StampsOfIs
<1>8. HasActive(mem[w])
  <2>1. PICK c, all : c = mem[w] /\ all = FlattenSeq(Contents(c, tmpFiles))
    OBVIOUS
  <2>2. all \in Seq(Event) /\ c.head = StampsOf(all) /\ (all # << >> => HasActive(c))
    <3>1. Published(c, tmpFiles) /\ DirOK(tmpFiles)
      BY <1>2, <1>5, <2>1 DEF DiskInv
    <3> QED BY <2>1, <3>1, PublishedChain
  <2>3. Len(StampsOf(all)) = Len(all)
    BY <2>2, StampsOfIs
  <2>4. Len(all) = Len(path) /\ Len(path) # 0
    BY <1>4, <1>7, <2>1, <2>2, <2>3
  <2> QED BY <2>1, <2>2, <2>4
<1>9. CopyOf(tmpCatalog', tmpFiles) /\ pc'[w] = "remove"
  BY <1>1, <1>2, <1>5, <1>7, <1>8 DEF CopyOf, LocalsOK
<1>10. Progress(w)'
  BY <1>1, <1>4, <1>9 DEF Progress, CopyOf, Migrating, Appending, Holding
<1>11. mem' \in [Writers -> Catalog] /\ pos' \in [Writers -> Nat \ {0}]
  BY <1>1, <1>2 DEF LocalsOK
<1> QED BY <1>1, <1>3, <1>10, <1>11, WriteTmpCatalogDisk, HolderStep

\* While there is no catalog the files in the log's directory are no part of it.
LEMMA BesideDisk ==
  ASSUME MigrationInv, NEW w \in Writers, pc[w] \in Migrating,
         UNCHANGED <<old, catalog, tmpCatalog>>, DirOK(files'), DirOK(tmpFiles')
  PROVE  DiskStep
<1>1. DiskInv /\ UNCHANGED <<path, moved, catalog, tmpCatalog>> /\ ~HasActive(catalog)
  BY OldLog DEF MigrationInv, old
<1>2. History' = History
  BY <1>1 DEF History
<1>3. DiskInv'
  BY <1>1, <1>2 DEF DiskInv, OldEvents
<1>4. Begins(History, History)
  BY <1>1, HistoryType DEF Begins
<1> QED BY <1>1, <1>2, <1>3, <1>4 DEF DiskStep

LEMMA RemoveSegmentsDisk ==
  ASSUME MigrationInv, NEW w \in Writers, RemoveSegments(w)
  PROVE  DiskStep
<1>1. /\ pc[w] \in Migrating /\ files' = NoFiles
      /\ UNCHANGED <<old, catalog, tmpCatalog>> /\ tmpFiles' = tmpFiles
  BY DEF RemoveSegments, tmp, Migrating
<1>2. DirOK(NoFiles) /\ DirOK(tmpFiles)
  BY DEF DirOK, NoFiles, MigrationInv, DiskInv
<1> QED BY <1>1, <1>2, BesideDisk

LEMMA RemoveSegmentsInv ==
  ASSUME MigrationInv, NEW w \in Writers, RemoveSegments(w)
  PROVE  MigrationInv'
<1>1. /\ pc[w] = "remove" /\ pc' = [pc EXCEPT ![w] = "rename_segments"]
      /\ path' = path /\ catalog' = catalog /\ tmpFiles' = tmpFiles /\ tmpCatalog' = tmpCatalog
      /\ mem' = mem /\ pos' = pos /\ UNCHANGED <<lock, batch, acked, readers>>
  BY DEF RemoveSegments, Goto, old, tmp, local, history
<1>2. LocalsOK /\ Progress(w)
  BY DEF MigrationInv, WriterInv
<1>3. pc[w] \in Holding /\ "rename_segments" \in Holding /\ pc[w] \in Migrating
  BY <1>1 DEF Holding, Labels, Migrating
<1>4. CopyOf(tmpCatalog, tmpFiles) /\ ~HasActive(catalog)
  BY <1>1, <1>2, <1>3 DEF Progress
<1>5. mem' \in [Writers -> Catalog] /\ pos' \in [Writers -> Nat \ {0}]
      /\ pc'[w] = "rename_segments"
  BY <1>1, <1>2 DEF LocalsOK
<1>6. Progress(w)'
  BY <1>1, <1>4, <1>5 DEF Progress, CopyOf, Migrating, Appending, Holding
<1> QED BY <1>1, <1>3, <1>5, <1>6, RemoveSegmentsDisk, HolderStep

LEMMA RenameSegmentsDisk ==
  ASSUME MigrationInv, NEW w \in Writers, RenameSegments(w)
  PROVE  DiskStep
<1>1. /\ pc[w] \in Migrating /\ files' = tmpFiles /\ tmpFiles' = NoFiles
      /\ UNCHANGED <<old, catalog, tmpCatalog>>
  BY DEF RenameSegments, Migrating
<1>2. DirOK(NoFiles) /\ DirOK(tmpFiles)
  BY DEF DirOK, NoFiles, MigrationInv, DiskInv
<1> QED BY <1>1, <1>2, BesideDisk

LEMMA RenameSegmentsInv ==
  ASSUME MigrationInv, NEW w \in Writers, RenameSegments(w)
  PROVE  MigrationInv'
<1>1. /\ pc[w] = "rename_segments" /\ pc' = [pc EXCEPT ![w] = "rename_catalog"]
      /\ path' = path /\ catalog' = catalog /\ files' = tmpFiles /\ tmpCatalog' = tmpCatalog
      /\ mem' = mem /\ pos' = pos /\ UNCHANGED <<lock, batch, acked, readers>>
  BY DEF RenameSegments, Goto, old, local, history
<1>2. LocalsOK /\ Progress(w)
  BY DEF MigrationInv, WriterInv
<1>3. pc[w] \in Holding /\ "rename_catalog" \in Holding /\ pc[w] \in Migrating
  BY <1>1 DEF Holding, Labels, Migrating
<1>4. CopyOf(tmpCatalog, tmpFiles) /\ ~HasActive(catalog)
  BY <1>1, <1>2, <1>3 DEF Progress
<1>5. mem' \in [Writers -> Catalog] /\ pos' \in [Writers -> Nat \ {0}]
      /\ pc'[w] = "rename_catalog"
  BY <1>1, <1>2 DEF LocalsOK
<1>6. Progress(w)'
  BY <1>1, <1>4, <1>5 DEF Progress, CopyOf, Migrating, Appending, Holding
<1> QED BY <1>1, <1>3, <1>5, <1>6, RenameSegmentsDisk, HolderStep

LEMMA RenameCatalogDisk ==
  ASSUME MigrationInv, NEW w \in Writers, RenameCatalog(w)
  PROVE  DiskStep /\ History' = History /\ HasActive(catalog') /\ path' # << >>
<1>1. /\ pc[w] = "rename_catalog" /\ catalog' = tmpCatalog /\ tmpCatalog' = NewCatalog
      /\ path' = path /\ moved' = moved /\ tmpFiles' = tmpFiles /\ files' = files
  BY DEF RenameCatalog, old
<1>2. DiskInv
  BY DEF MigrationInv
<1>3. CopyOf(tmpCatalog, files)
  BY <1>1 DEF MigrationInv, WriterInv, Progress
<1>4. /\ ~HasActive(catalog) /\ History = StampsOf(path) /\ path \in Seq(Event) /\ path # << >>
      /\ Len(path) \in Nat /\ Len(StampsOf(path)) = Len(path)
  BY <1>1, OldLog DEF Migrating
<1>5. PICK d, m : d = tmpCatalog /\ m = Len(path)
  OBVIOUS
<1>6. Published(d, files) /\ HasActive(d) /\ d.head = StampsOf(path) /\ DirOK(files)
  BY <1>2, <1>3, <1>5 DEF CopyOf, DiskInv
<1>7. d.next >= m
  <2>1. PICK all : all = FlattenSeq(Contents(d, files))
    OBVIOUS
  <2>2. all \in Seq(Event) /\ Len(all) = d.next /\ d.head = StampsOf(all)
    BY <1>6, <2>1, PublishedChain
  <2>3. Len(StampsOf(all)) = Len(all)
    BY <2>2, StampsOfIs
  <2> QED BY <1>4, <1>5, <1>6, <2>2, <2>3
<1>8. Kept(d, files, m) /\ Reconcile(d, files).head = d.head
  BY <1>6, <1>7, PublishedSolid, SolidKept
<1>9. History' = History /\ HasActive(catalog')
  BY <1>1, <1>4, <1>5, <1>6, <1>8 DEF History, Opened
<1>10. DiskInv'
  BY <1>1, <1>2, <1>4, <1>5, <1>8, <1>9, NewCatalogType DEF DiskInv, OldEvents
<1>11. Begins(History, History)
  BY <1>2, HistoryType DEF Begins
<1> QED BY <1>1, <1>4, <1>9, <1>10, <1>11 DEF DiskStep

LEMMA RenameCatalogInv ==
  ASSUME MigrationInv, NEW w \in Writers, RenameCatalog(w)
  PROVE  MigrationInv'
<1>1. /\ pc[w] = "rename_catalog" /\ pc' = [pc EXCEPT ![w] = "rename_log"]
      /\ mem' = mem /\ pos' = pos /\ UNCHANGED <<lock, batch, acked, readers>>
  BY DEF RenameCatalog, Goto, local, history
<1>2. LocalsOK
  BY DEF MigrationInv
<1>3. pc[w] \in Holding /\ "rename_log" \in Holding
  BY <1>1 DEF Holding, Labels
<1>4. mem' \in [Writers -> Catalog] /\ pos' \in [Writers -> Nat \ {0}]
      /\ pc'[w] = "rename_log"
  BY <1>1, <1>2 DEF LocalsOK
<1>5. DiskStep /\ HasActive(catalog') /\ path' # << >>
  BY RenameCatalogDisk
<1>6. Progress(w)'
  BY <1>4, <1>5 DEF Progress, Migrating, Appending, Holding
<1> QED BY <1>1, <1>3, <1>4, <1>5, <1>6, HolderStep

LEMMA RenameLogDisk ==
  ASSUME MigrationInv, NEW w \in Writers, RenameLog(w)
  PROVE  DiskStep /\ History' = History /\ HasActive(catalog')
<1>1. /\ pc[w] = "rename_log"
      /\ \/ moved' = path /\ path' = << >>
         \/ moved' = moved /\ path' = path
      /\ UNCHANGED <<tmpFiles, tmpCatalog, files, catalog>>
  BY DEF RenameLog, old, tmp, new
<1>2. DiskInv /\ HasActive(catalog) /\ path # << >>
  BY <1>1 DEF MigrationInv, WriterInv, Progress, Holding, Migrating, Labels
<1>3. History' = History /\ OldEvents' = OldEvents
  BY <1>1, <1>2 DEF History, Opened, OldEvents
<1>4. path' \in Seq(Event) /\ moved' \in Seq(Event) /\ ChainOf(path')
  <2>1. << >> \in Seq(Event) /\ 1..Len(<< >>) = {}
    OBVIOUS
  <2>2. ChainOf(<< >>)
    BY <2>1 DEF ChainOf
  <2> QED BY <1>1, <1>2, <2>1, <2>2 DEF DiskInv
<1>5. Begins(History, StampsOf(path'))
  <2>1. CASE path' = path
    BY <1>2, <2>1 DEF DiskInv
  <2>2. CASE path' = << >>
    <3>1. Len(StampsOf(path')) = 0
      BY <2>2 DEF StampsOf
    <3> QED BY <1>2, <3>1, HistoryType DEF Begins
  <2> QED BY <1>1, <2>1, <2>2
<1>6. DiskInv'
  BY <1>1, <1>2, <1>3, <1>4, <1>5 DEF DiskInv
<1>7. Begins(History, History)
  BY <1>2, HistoryType DEF Begins
<1> QED BY <1>1, <1>2, <1>3, <1>6, <1>7 DEF DiskStep

LEMMA RenameLogInv ==
  ASSUME MigrationInv, NEW w \in Writers, RenameLog(w)
  PROVE  MigrationInv'
<1>1. /\ pc[w] = "rename_log" /\ pc' = [pc EXCEPT ![w] = "append"]
      /\ mem' = mem /\ pos' = pos /\ UNCHANGED <<lock, batch, acked, readers>>
  BY DEF RenameLog, Goto, local, history
<1>2. LocalsOK
  BY DEF MigrationInv
<1>3. pc[w] \in Holding /\ "append" \in Holding
  BY <1>1 DEF Holding, Labels
<1>4. mem' \in [Writers -> Catalog] /\ pos' \in [Writers -> Nat \ {0}]
      /\ pc'[w] = "append"
  BY <1>1, <1>2 DEF LocalsOK
<1>5. DiskStep /\ HasActive(catalog')
  BY RenameLogDisk
<1>6. Progress(w)'
  BY <1>4, <1>5 DEF Progress, Migrating, Appending, Holding
<1> QED BY <1>1, <1>3, <1>4, <1>5, <1>6, HolderStep

-----------------------------------------------------------------------------
(* The append that follows, or comes to a log in the new layout. *)

\* What its steps have before them.
LEMMA AppendStands ==
  ASSUME MigrationInv, NEW w \in Writers, pc[w] \in {"append"} \union Appending
  PROVE  /\ DiskInv /\ LocalsOK /\ Progress(w) /\ pc[w] \in Holding
         /\ HasActive(catalog) /\ Kept(catalog, files, Len(OldEvents)) /\ DirOK(files)
         /\ Len(OldEvents) \in Nat /\ History = Opened.head
         /\ batch[w] \in Seq(Event) /\ Len(batch[w]) = 1 /\ batch[w][1] \in Event
<1>1. pc[w] \in Holding \ (Migrating \union {"open"})
  BY DEF Holding, Labels, Migrating, Appending
<1>2. DiskInv /\ LocalsOK /\ Progress(w) /\ Len(batch[w]) = 1
  BY <1>1 DEF MigrationInv, WriterInv
<1>3. HasActive(catalog)
  BY <1>1, <1>2 DEF Progress
<1>4. batch[w] \in Seq(Event) /\ 1 \in 1..Len(batch[w])
  BY <1>2 DEF LocalsOK
<1>5. batch[w][1] \in Event
  BY <1>4
<1>6. Len(OldEvents) \in Nat
  BY <1>2 DEF DiskInv, OldEvents
<1> QED BY <1>1, <1>2, <1>3, <1>4, <1>5, <1>6 DEF DiskInv, History

\* A step of the append keeps the disk, if the catalog it leaves reconciles to
\* a log that begins with the one before.
LEMMA AppendDisk ==
  ASSUME DiskInv, UNCHANGED <<old, tmp>>, HasActive(catalog'),
         Kept(catalog', files', Len(OldEvents)), DirOK(files'),
         DOMAIN files \subseteq DOMAIN files',
         Begins(History', History), Len(History') \in Nat
  PROVE  DiskStep
<1>1. UNCHANGED <<path, moved, tmpFiles, tmpCatalog>> /\ OldEvents' = OldEvents
  BY DEF old, tmp, OldEvents
<1>2. Begins(History', StampsOf(path))
  <2>1. Begins(History, StampsOf(path)) /\ path \in Seq(Event)
    BY DEF DiskInv
  <2>2. Len(StampsOf(path)) \in Nat /\ Len(History) \in Nat
    BY <2>1, StampsOfIs, HistoryType
  <2> QED BY <2>1, <2>2, BeginsOn
<1>3. DiskInv'
  BY <1>1, <1>2 DEF DiskInv
<1> QED BY <1>1, <1>3 DEF DiskStep

\* The header file of a new segment is no part of the log yet.
LEMMA RollSegmentIs ==
  ASSUME MigrationInv, NEW w \in Writers, RollSegment(w)
  PROVE  /\ DiskStep /\ HasActive(catalog')
         /\ Solid(mem'[w], files', Len(OldEvents)) /\ mem'[w].head = History'
         /\ Admissible(mem'[w], batch[w][1])
<1>1. PICK c, e, m : c = Opened /\ e = batch[w][1] /\ m = Len(OldEvents)
  OBVIOUS
<1>2. PICK r, x : r = Rolled(c, e) /\ x = WithHeader(files, RolledEntry(c, e))
  OBVIOUS
<1>3. /\ pc[w] = "append" /\ Admissible(c, e) /\ NeedsRoll(c, e)
      /\ files' = x /\ catalog' = catalog /\ mem' = [mem EXCEPT ![w] = r]
      /\ UNCHANGED <<old, tmp>>
  BY <1>1, <1>2 DEF RollSegment, WithHeader
<1>4. /\ DiskInv /\ mem \in [Writers -> Catalog] /\ HasActive(catalog)
      /\ Kept(catalog, files, m) /\ DirOK(files) /\ m \in Nat /\ History = c.head /\ e \in Event
  BY <1>1, <1>3, AppendStands DEF LocalsOK
<1>5. Solid(c, files, m) /\ Follows(catalog, c) /\ Len(c.segs) = Len(catalog.segs)
  BY <1>1, <1>4, KeptReconciled DEF Opened
<1>6. /\ Solid(r, x, m) /\ Admissible(r, e) /\ r.head = c.head
      /\ DirOK(x) /\ DOMAIN files \subseteq DOMAIN x
      /\ \A k \in 1..Len(c.segs) : x[c.segs[k].id] = files[c.segs[k].id]
  BY <1>2, <1>3, <1>4, <1>5, RolledSolid
<1>7. \A k \in 1..Len(catalog.segs) : x[catalog.segs[k].id] = files[catalog.segs[k].id]
  BY <1>5, <1>6 DEF Follows
<1>8. Kept(catalog, x, m) /\ Reconcile(catalog, x) = Reconcile(catalog, files)
  BY <1>4, <1>6, <1>7, KeptBeside
<1>9. History' = History
  BY <1>3, <1>4, <1>8 DEF History, Opened
<1>10. Begins(History, History) /\ Len(History) \in Nat
  BY <1>4, HistoryType DEF Begins
<1>11. DiskStep
  BY <1>1, <1>3, <1>4, <1>6, <1>8, <1>9, <1>10, AppendDisk
<1> QED BY <1>1, <1>3, <1>4, <1>6, <1>9, <1>11

LEMMA RollSegmentInv ==
  ASSUME MigrationInv, NEW w \in Writers, RollSegment(w)
  PROVE  MigrationInv'
<1>1. /\ pc[w] = "append" /\ pc' = [pc EXCEPT ![w] = "roll_catalog"]
      /\ (\E r : mem' = [mem EXCEPT ![w] = r])
      /\ pos' = pos /\ UNCHANGED <<old, lock, batch, acked, readers>>
  BY DEF RollSegment, Goto, history
<1>2. LocalsOK /\ pc[w] \in Holding /\ "roll_catalog" \in Holding
  BY <1>1 DEF MigrationInv, Holding, Labels
<1>3. /\ DiskStep /\ HasActive(catalog')
      /\ Solid(mem'[w], files', Len(OldEvents)) /\ mem'[w].head = History'
      /\ Admissible(mem'[w], batch[w][1])
  BY RollSegmentIs
<1>4. mem'[w] \in Catalog
  BY <1>3 DEF Solid, Knows
<1>5. /\ mem' \in [Writers -> Catalog] /\ pos' \in [Writers -> Nat \ {0}]
      /\ pc'[w] = "roll_catalog" /\ \A v \in Writers \ {w} : mem'[v] = mem[v] /\ pos'[v] = pos[v]
  BY <1>1, <1>2, <1>4 DEF LocalsOK
<1>6. OldEvents' = OldEvents
  BY <1>1 DEF old, OldEvents
<1>7. Progress(w)'
  BY <1>1, <1>3, <1>5, <1>6 DEF Progress, Written, Migrating, Appending, Holding
<1> QED BY <1>1, <1>2, <1>3, <1>5, <1>7, HolderStep

\* The catalog the process has in memory is right: written, it changes nothing.
LEMMA CatalogWritten ==
  ASSUME MigrationInv, NEW w \in Writers, pc[w] \in Appending,
         catalog' = mem[w], UNCHANGED <<old, tmp, files>>
  PROVE  DiskStep /\ History' = History /\ HasActive(catalog')
<1>1. PICK c, m : c = mem[w] /\ m = Len(OldEvents)
  OBVIOUS
<1>2. DiskInv /\ Progress(w) /\ DirOK(files)
  BY AppendStands
<1>3. Solid(c, files, m) /\ c.head = History
  BY <1>1, <1>2 DEF Progress, Written
<1>4. Kept(c, files, m) /\ Reconcile(c, files).head = c.head /\ HasActive(c)
  BY <1>2, <1>3, SolidKept DEF Solid, Knows
<1>5. History' = History
  BY <1>1, <1>3, <1>4 DEF History, Opened
<1>6. Begins(History, History) /\ Len(History) \in Nat
  BY <1>2, HistoryType DEF Begins
<1>7. DiskStep
  BY <1>1, <1>2, <1>4, <1>5, <1>6, AppendDisk
<1> QED BY <1>1, <1>4, <1>5, <1>7

LEMMA WriteRolledCatalogInv ==
  ASSUME MigrationInv, NEW w \in Writers, WriteRolledCatalog(w)
  PROVE  MigrationInv'
<1>1. /\ pc[w] = "roll_catalog" /\ pc' = [pc EXCEPT ![w] = "put"]
      /\ catalog' = mem[w] /\ mem' = mem /\ pos' = pos
      /\ UNCHANGED <<old, tmp, files, lock, batch, acked, readers>>
  BY DEF WriteRolledCatalog, Goto, local, history
<1>2. LocalsOK /\ pc[w] \in Appending /\ pc[w] \in Holding /\ "put" \in Holding
  BY <1>1 DEF MigrationInv, Appending, Holding, Labels
<1>3. DiskStep /\ History' = History /\ HasActive(catalog')
  BY <1>1, <1>2, CatalogWritten
<1>4. Written(w) /\ Admissible(mem[w], batch[w][1])
  BY <1>1, <1>2 DEF MigrationInv, WriterInv, Progress
<1>5. /\ mem' \in [Writers -> Catalog] /\ pos' \in [Writers -> Nat \ {0}] /\ pc'[w] = "put"
  BY <1>1, <1>2 DEF LocalsOK
<1>6. OldEvents' = OldEvents
  BY <1>1 DEF old, OldEvents
<1>7. Progress(w)'
  BY <1>1, <1>3, <1>4, <1>5, <1>6 DEF Progress, Written, Migrating, Appending, Holding
<1> QED BY <1>1, <1>2, <1>3, <1>5, <1>7, HolderStep

LEMMA WriteCatalogInv ==
  ASSUME MigrationInv, NEW w \in Writers, WriteCatalog(w)
  PROVE  MigrationInv'
<1>1. /\ pc[w] = "commit" /\ pc' = [pc EXCEPT ![w] = "unlock"]
      /\ catalog' = mem[w] /\ mem' = mem /\ pos' = pos
      /\ UNCHANGED <<old, tmp, files, lock, batch, acked, readers>>
  BY DEF WriteCatalog, Goto, local, history
<1>2. LocalsOK /\ pc[w] \in Appending /\ pc[w] \in Holding /\ "unlock" \in Holding
  BY <1>1 DEF MigrationInv, Appending, Holding, Labels
<1>3. DiskStep /\ History' = History /\ HasActive(catalog')
  BY <1>1, <1>2, CatalogWritten
<1>4. InHistory(StampsOf(batch[w])[1])
  BY <1>1 DEF MigrationInv, WriterInv, Progress
<1>5. /\ mem' \in [Writers -> Catalog] /\ pos' \in [Writers -> Nat \ {0}] /\ pc'[w] = "unlock"
  BY <1>1, <1>2 DEF LocalsOK
<1>6. Progress(w)'
  BY <1>1, <1>3, <1>4, <1>5 DEF Progress, InHistory, Migrating, Appending, Holding
<1> QED BY <1>1, <1>2, <1>3, <1>5, <1>6, HolderStep

\* A line puts its event at the end of the log: the catalog on the disk does not
\* say so yet, but whoever reconciles it will find the event.
LEMMA PutIs ==
  ASSUME MigrationInv, NEW w \in Writers, pc[w] \in {"append", "put"}, NEW c, Put(w, c),
         Solid(c, files, Len(OldEvents)), Follows(catalog, c), Len(c.segs) = Len(catalog.segs),
         Contents(c, files) = Contents(catalog, files),
         Admissible(c, batch[w][1]), c.head = History
  PROVE  /\ DiskStep /\ HasActive(catalog')
         /\ Solid(mem'[w], files', Len(OldEvents)) /\ mem'[w].head = History'
         /\ InHistory(StampsOf(batch[w])[1])'
<1>1. PICK e, m : e = batch[w][1] /\ m = Len(OldEvents)
  OBVIOUS
<1>2. PICK x, d : x = WithLineAt(files, ActiveEntry(c).id, e) /\ d = Recorded(c, e)
  OBVIOUS
<1>3. /\ files' = x /\ mem' = [mem EXCEPT ![w] = d]
      /\ catalog' = catalog /\ batch' = batch /\ UNCHANGED <<old, tmp>>
  BY <1>1, <1>2 DEF Put, WithLineAt
<1>4. /\ DiskInv /\ mem \in [Writers -> Catalog] /\ HasActive(catalog)
      /\ Kept(catalog, files, m) /\ DirOK(files) /\ m \in Nat
      /\ batch[w] \in Seq(Event) /\ Len(batch[w]) = 1 /\ e \in Event
  <2>1. pc[w] \in {"append"} \union Appending
    BY DEF Appending
  <2> QED BY <1>1, <2>1, AppendStands DEF LocalsOK
<1>5. Solid(d, x, m) /\ d.head = DigestOf(e) /\ DirOK(x) /\ DOMAIN x = DOMAIN files
  BY <1>1, <1>2, <1>4, RecordedSolid
<1>6. Kept(catalog, x, m) /\ Reconcile(catalog, x).head = DigestOf(e)
  BY <1>1, <1>2, <1>4, KeptBehind
<1>7. History' = DigestOf(e)
  BY <1>3, <1>4, <1>6 DEF History, Opened
<1>8. PICK h, s : h = History /\ s = StampOfEvent(e)
  OBVIOUS
<1>9. PICK g : g = Append(h, s)
  OBVIOUS
<1>10. History' = g
  <2>1. e.prev = h
    BY <1>1, <1>8 DEF Admissible
  <2> QED BY <1>7, <1>8, <1>9, <2>1 DEF DigestOf, StampOfEvent
<1>11. h \in Seq(Stamp) /\ s \in Stamp
  BY <1>4, <1>8, HistoryType DEF StampOfEvent, Event, Stamp
<1>12. /\ Len(g) = Len(h) + 1 /\ g[Len(h) + 1] = s /\ \A i \in 1..Len(h) : g[i] = h[i]
       /\ Len(h) \in Nat
  BY <1>9, <1>11, Appended
<1>13. Begins(g, h) /\ Len(g) \in Nat
  BY <1>12 DEF Begins
<1>14. DiskStep
  <2>1. Begins(History', History) /\ Len(History') \in Nat
    BY <1>8, <1>10, <1>13
  <2>2. DOMAIN files \subseteq DOMAIN files'
    BY <1>3, <1>5
  <2>3. HasActive(catalog') /\ Kept(catalog', files', Len(OldEvents)) /\ DirOK(files')
    BY <1>1, <1>3, <1>4, <1>5, <1>6
  <2> QED BY <1>3, <1>4, <2>1, <2>2, <2>3, AppendDisk
<1>15. StampsOf(batch[w])[1] = s
  <2>1. PICK b \in Seq(Event) : b = batch[w]
    BY <1>4
  <2>2. 1 \in 1..Len(b)
    BY <1>4, <2>1
  <2>3. StampsOf(b)[1] = StampOfEvent(b[1])
    BY <2>2, StampsOfIs
  <2> QED BY <1>1, <1>8, <2>1, <2>3
<1>16. InHistory(s)'
  <2>1. Len(h) + 1 \in 1..Len(g)
    BY <1>12
  <2>2. \E i \in 1..Len(g) : g[i] = s
    BY <1>12, <2>1
  <2> QED BY <1>10, <2>2 DEF InHistory
<1>17. InHistory(StampsOf(batch[w])[1])'
  BY <1>3, <1>15, <1>16
<1>18. mem'[w] = d
  BY <1>3, <1>4
<1> QED BY <1>1, <1>3, <1>4, <1>5, <1>7, <1>14, <1>17, <1>18

LEMMA PutInv ==
  ASSUME MigrationInv, NEW w \in Writers, pc[w] \in {"append", "put"}, NEW c, Put(w, c),
         DiskStep, HasActive(catalog'),
         Solid(mem'[w], files', Len(OldEvents)), mem'[w].head = History',
         InHistory(StampsOf(batch[w])[1])'
  PROVE  MigrationInv'
<1>1. /\ pc' = [pc EXCEPT ![w] = "commit"] /\ (\E d : mem' = [mem EXCEPT ![w] = d])
      /\ pos' = pos /\ batch' = batch /\ UNCHANGED <<old, lock, acked, readers>>
  BY DEF Put, Goto, history
<1>2. LocalsOK /\ pc[w] \in Holding /\ "commit" \in Holding
  BY DEF MigrationInv, Holding, Labels
<1>3. mem'[w] \in Catalog
  BY DEF Solid, Knows
<1>4. /\ mem' \in [Writers -> Catalog] /\ pos' \in [Writers -> Nat \ {0}]
      /\ pc'[w] = "commit" /\ \A v \in Writers \ {w} : mem'[v] = mem[v] /\ pos'[v] = pos[v]
  BY <1>1, <1>2, <1>3 DEF LocalsOK
<1>5. OldEvents' = OldEvents
  BY <1>1 DEF old, OldEvents
<1>6. Progress(w)'
  BY <1>1, <1>4, <1>5 DEF Progress, Written, Migrating, Appending, Holding
<1> QED BY <1>1, <1>2, <1>4, <1>6, HolderStep

\* To a new segment, ...
LEMMA PutFirstIs ==
  ASSUME MigrationInv, NEW w \in Writers, PutFirst(w)
  PROVE  DiskStep /\ MigrationInv'
<1>1. PICK c : c = mem[w]
  OBVIOUS
<1>2. pc[w] = "put" /\ Put(w, c)
  BY <1>1 DEF PutFirst
<1>3. Progress(w)
  BY DEF MigrationInv, WriterInv
<1>4. /\ c = catalog /\ Solid(c, files, Len(OldEvents)) /\ c.head = History
      /\ Admissible(c, batch[w][1])
  BY <1>1, <1>2, <1>3 DEF Progress, Written, Appending
<1>5. Follows(catalog, c)
  BY <1>4 DEF Follows
<1>6. /\ DiskStep /\ HasActive(catalog')
      /\ Solid(mem'[w], files', Len(OldEvents)) /\ mem'[w].head = History'
      /\ InHistory(StampsOf(batch[w])[1])'
  BY <1>2, <1>4, <1>5, PutIs
<1> QED BY <1>2, <1>6, PutInv

\* ... or to the one there was.
LEMMA PutLineIs ==
  ASSUME MigrationInv, NEW w \in Writers, PutLine(w)
  PROVE  DiskStep /\ MigrationInv'
<1>1. PICK c : c = Opened
  OBVIOUS
<1>2. pc[w] = "append" /\ Put(w, c) /\ Admissible(c, batch[w][1])
  BY <1>1 DEF PutLine
<1>3. /\ Kept(catalog, files, Len(OldEvents)) /\ DirOK(files) /\ Len(OldEvents) \in Nat
      /\ History = c.head
  BY <1>1, <1>2, AppendStands
<1>4. /\ Solid(c, files, Len(OldEvents)) /\ Contents(c, files) = Contents(catalog, files)
      /\ Follows(catalog, c) /\ Len(c.segs) = Len(catalog.segs)
  BY <1>1, <1>3, KeptReconciled DEF Opened
<1>5. /\ DiskStep /\ HasActive(catalog')
      /\ Solid(mem'[w], files', Len(OldEvents)) /\ mem'[w].head = History'
      /\ InHistory(StampsOf(batch[w])[1])'
  BY <1>2, <1>3, <1>4, PutIs
<1> QED BY <1>2, <1>5, PutInv

-----------------------------------------------------------------------------
(* The steps of a load. *)

\* A load changes its own state and nothing else.
LEMMA ReaderStep ==
  ASSUME MigrationInv, NEW r \in Readers,
         UNCHANGED <<old, tmp, new, lock, pc, local, history>>,
         rpc' \in [Readers -> {"idle", "segments", "file", "done", "failed"}],
         got' \in [Readers -> Seq(Stamp)], floor' \in [Readers -> Nat],
         \A q \in Readers \ {r} : rpc'[q] = rpc[q] /\ got'[q] = got[q] /\ floor'[q] = floor[q],
         ReaderInv(r)'
  PROVE  MigrationInv'
<1>1. /\ UNCHANGED <<path, moved, tmpFiles, tmpCatalog, files, catalog>>
      /\ UNCHANGED <<lock, pc, mem, batch, pos, acked>>
  BY DEF old, tmp, new, local, history
<1>2. History' = History
  BY <1>1 DEF History, Opened
<1>3. DiskInv' /\ LocalsOK' /\ \A e \in acked' : InHistory(e)'
  BY <1>1, <1>2 DEF MigrationInv, DiskInv, OldEvents, LocalsOK, InHistory
<1>4. \A w \in Writers : WriterInv(w)'
  <2> SUFFICES ASSUME NEW w \in Writers PROVE WriterInv(w)'
    OBVIOUS
  <2>1. WriterInv(w)
    BY DEF MigrationInv
  <2>2. Progress(w)'
    BY <1>1, <1>2, <2>1
       DEF WriterInv, Progress, Copied, Written, CopyOf, InHistory, OldEvents
  <2> QED BY <1>1, <2>1, <2>2 DEF WriterInv
<1>5. \A q \in Readers : ReaderInv(q)'
  <2> SUFFICES ASSUME NEW q \in Readers, q # r PROVE ReaderInv(q)'
    OBVIOUS
  <2>1. ReaderInv(q) /\ rpc'[q] = rpc[q] /\ got'[q] = got[q] /\ floor'[q] = floor[q]
    BY DEF MigrationInv
  <2> QED BY <1>1, <1>2, <2>1 DEF ReaderInv
<1> QED BY <1>3, <1>4, <1>5 DEF MigrationInv

LEMMA LoadInv ==
  ASSUME MigrationInv, NEW r \in Readers, RStep(r),
         UNCHANGED <<old, tmp, new, lock, pc, local, history>>
  PROVE  MigrationInv'
<1>1. LocalsOK /\ DiskInv /\ ReaderInv(r)
  BY DEF MigrationInv
<1>2. /\ Log = History /\ History \in Seq(Stamp) /\ Len(History) \in Nat
      /\ path \in Seq(Event) /\ Begins(History, StampsOf(path))
      /\ StampsOf(path) \in Seq(Stamp) /\ Len(StampsOf(path)) = Len(path) /\ Len(path) \in Nat
  BY <1>1, LogIsHistory, HistoryType, StampsOfIs DEF DiskInv
<1>3. History' = History /\ catalog' = catalog /\ path' = path
  BY DEF History, Opened, old, new
<1>4. /\ rpc \in [Readers -> {"idle", "segments", "file", "done", "failed"}]
      /\ got \in [Readers -> Seq(Stamp)]
      /\ floor[r] \in 0..Len(History) /\ floor \in [Readers -> Nat]
  BY <1>1 DEF LocalsOK, ReaderInv, MigrationInv
<1>5. Begins(History, History) /\ Begins(History, << >>)
  BY <1>2 DEF Begins
<1>6. CASE StartLoad(r)
  <2>1. /\ floor' = [floor EXCEPT ![r] = Len(Log)] /\ got' = got
        /\ rpc' = [rpc EXCEPT ![r] = IF HasActive(catalog) THEN "segments" ELSE "file"]
    BY <1>6 DEF StartLoad, RGoto
  <2>2. PICK label : label = IF HasActive(catalog) THEN "segments" ELSE "file"
    OBVIOUS
  <2>3. /\ label \in {"idle", "segments", "file", "done", "failed"} /\ label # "done"
        /\ label = "segments" => HasActive(catalog)
        /\ label = "file" => History = StampsOf(path)
    BY <2>2 DEF History
  <2>4. \A q \in Readers \ {r} : rpc'[q] = rpc[q] /\ got'[q] = got[q] /\ floor'[q] = floor[q]
    BY <1>4, <2>1
  <2>5. rpc'[r] = label /\ floor'[r] = Len(History)
    BY <1>2, <1>4, <2>1, <2>2
  <2>6. ReaderInv(r)'
    BY <1>2, <1>3, <2>3, <2>5 DEF ReaderInv
  <2>7. /\ rpc' \in [Readers -> {"idle", "segments", "file", "done", "failed"}]
        /\ got' \in [Readers -> Seq(Stamp)] /\ floor' \in [Readers -> Nat]
    BY <1>2, <1>4, <2>1, <2>2, <2>3
  <2> QED BY <2>4, <2>6, <2>7, ReaderStep
<1>7. CASE LoadSegments(r)
  <2>1. /\ rpc[r] = "segments" /\ floor' = floor
        /\ got' = [got EXCEPT ![r] = Segmented]
        /\ rpc' = [rpc EXCEPT ![r] = "done"]
    BY <1>7 DEF LoadSegments, RGoto
  <2>2. Segmented = History
    BY <1>1, <1>2, <2>1 DEF ReaderInv, Log
  <2>3. \A q \in Readers \ {r} : rpc'[q] = rpc[q] /\ got'[q] = got[q] /\ floor'[q] = floor[q]
    BY <1>4, <2>1
  <2>4. rpc'[r] = "done" /\ got'[r] = History /\ floor'[r] = floor[r]
    BY <1>4, <2>1, <2>2
  <2>5. Len(History) >= floor[r]
    BY <1>2, <1>4
  <2>6. ReaderInv(r)'
    BY <1>3, <1>4, <1>5, <2>4, <2>5 DEF ReaderInv
  <2>7. /\ rpc' \in [Readers -> {"idle", "segments", "file", "done", "failed"}]
        /\ got' \in [Readers -> Seq(Stamp)] /\ floor' \in [Readers -> Nat]
    BY <1>2, <1>4, <2>1, <2>2
  <2> QED BY <2>3, <2>6, <2>7, ReaderStep
<1>8. CASE LoadFile(r)
  <2>1. /\ rpc[r] = "file" /\ floor' = floor
        /\ got' = [got EXCEPT ![r] = StampsOf(path)]
        /\ rpc' = [rpc EXCEPT ![r] = "done"]
    BY <1>8 DEF LoadFile, RGoto
  <2>2. \A q \in Readers \ {r} : rpc'[q] = rpc[q] /\ got'[q] = got[q] /\ floor'[q] = floor[q]
    BY <1>4, <2>1
  <2>3. rpc'[r] = "done" /\ got'[r] = StampsOf(path) /\ floor'[r] = floor[r]
    BY <1>4, <2>1
  <2>4. StampsOf(path) = << >> \/ Len(StampsOf(path)) >= floor[r]
    <3>1. CASE path = << >>
      <4>1. Len(path) = 0
        BY <3>1
      <4> QED BY <1>2, <4>1
    <3>2. CASE path # << >>
      BY <1>1, <1>2, <1>4, <2>1, <3>2 DEF ReaderInv
    <3> QED BY <3>1, <3>2
  <2>5. ReaderInv(r)'
    BY <1>2, <1>3, <1>4, <2>3, <2>4 DEF ReaderInv
  <2>6. /\ rpc' \in [Readers -> {"idle", "segments", "file", "done", "failed"}]
        /\ got' \in [Readers -> Seq(Stamp)] /\ floor' \in [Readers -> Nat]
    BY <1>2, <1>4, <2>1
  <2> QED BY <2>2, <2>5, <2>6, ReaderStep
<1>9. CASE LoadFileFails(r)
  <2>1. rpc[r] = "file" /\ floor' = floor /\ got' = got /\ rpc' = [rpc EXCEPT ![r] = "failed"]
    BY <1>9 DEF LoadFileFails, RGoto
  <2>2. \A q \in Readers \ {r} : rpc'[q] = rpc[q] /\ got'[q] = got[q] /\ floor'[q] = floor[q]
    BY <1>4, <2>1
  <2>3. rpc'[r] = "failed" /\ floor'[r] = floor[r]
    BY <1>4, <2>1
  <2>4. ReaderInv(r)'
    BY <1>3, <1>4, <2>3 DEF ReaderInv
  <2>5. rpc' \in [Readers -> {"idle", "segments", "file", "done", "failed"}]
    BY <1>4, <2>1
  <2> QED BY <1>4, <2>1, <2>2, <2>4, <2>5, ReaderStep
<1>10. CASE Return(r)
  <2>1. /\ floor' = [floor EXCEPT ![r] = 0] /\ got' = [got EXCEPT ![r] = << >>]
        /\ rpc' = [rpc EXCEPT ![r] = "idle"]
    BY <1>10 DEF Return, RGoto
  <2>2. \A q \in Readers \ {r} : rpc'[q] = rpc[q] /\ got'[q] = got[q] /\ floor'[q] = floor[q]
    BY <1>4, <2>1
  <2>3. rpc'[r] = "idle" /\ floor'[r] = 0
    BY <1>4, <2>1
  <2>4. ReaderInv(r)'
    BY <1>2, <1>3, <2>3 DEF ReaderInv
  <2>5. /\ rpc' \in [Readers -> {"idle", "segments", "file", "done", "failed"}]
        /\ got' \in [Readers -> Seq(Stamp)] /\ floor' \in [Readers -> Nat]
    BY <1>4, <2>1
  <2> QED BY <2>2, <2>4, <2>5, ReaderStep
<1> QED BY <1>6, <1>7, <1>8, <1>9, <1>10 DEF RStep


-----------------------------------------------------------------------------
(* The invariant of the migration. *)

\* What a log in the old layout holds is one chain.
LEMMA BuiltChain ==
  ASSUME NEW ns \in Namespaces, NEW n \in Nat, NEW pays \in [1..n -> Payloads],
         NEW b, b = BuildEvents(0, Genesis, ns, pays, 0)
  PROVE  b \in Seq(Event) /\ Len(b) = n /\ ChainOf(b)
<1>1. Genesis \in Digest /\ Genesis = << >>
  BY DEF Genesis, Digest
<1>2. PICK next, flaw, head : next = 0 /\ flaw = 0 /\ head = Genesis
  OBVIOUS
<1>3. b = BuildEvents(next, head, ns, pays, flaw) /\ next \in Nat /\ head \in Digest
  BY <1>1, <1>2
<1>4. b \in Seq(Event) /\ Len(b) = n /\ Successive(b)
  BY <1>3, BuiltSuccessive
<1>5. Len(pays) = n
  OBVIOUS
<1> DEFINE before(i) == [j \in 1..(i - 1) |-> [seq |-> 0 + j - 1, ns |-> ns, pay |-> pays[j]]]
           prior(i) == Genesis \o before(i)
<1>6. b = [i \in 1..n |-> [seq |-> 0 + i - 1, ns |-> ns, pay |-> pays[i],
                           prev |-> prior(i), sound |-> i # 0]]
  BY <1>5 DEF BuildEvents
<1>7. 1 \in 1..n => b[1].prev = prior(1)
  <2> HIDE DEF prior
  <2> QED BY <1>6
<1>8. \A i \in 1..n : b[i].seq = i - 1 /\ b[i].ns = ns /\ b[i].sound
  <2> SUFFICES ASSUME NEW i \in 1..n PROVE b[i].seq = i - 1 /\ b[i].ns = ns /\ b[i].sound
    OBVIOUS
  <2> HIDE DEF prior
  <2>1. b[i].seq = i - 1 /\ b[i].ns = ns /\ b[i].sound = (i # 0)
    BY <1>6
  <2>2. i # 0
    OBVIOUS
  <2>3. b[i].sound
    BY <2>1, <2>2, Zenon
  <2> QED BY <2>1, <2>3
<1>9. ASSUME 1 \in 1..n PROVE b[1].prev = Genesis
  <2>1. PICK none : none = before(1)
    OBVIOUS
  <2>2. none \in Seq(Stamp) /\ Len(none) = 0
    <3>1. \A j \in 1..(1 - 1) : [seq |-> 0 + j - 1, ns |-> ns, pay |-> pays[j]] \in Stamp
      OBVIOUS
    <3> QED BY <2>1, <3>1
  <2>3. none = << >>
    BY <2>2
  <2>4. << >> \o << >> = << >>
    OBVIOUS
  <2>5. prior(1) = Genesis \o none
    BY <2>1
  <2> HIDE DEF prior
  <2> QED BY <1>1, <1>7, <1>9, <2>3, <2>4, <2>5
<1> HIDE DEF prior
<1>10. ASSUME NEW i \in 1..n PROVE b[i].prev = IF i = 1 THEN Genesis ELSE DigestOf(b[i - 1])
  <2>1. CASE i = 1
    BY <1>9, <2>1
  <2>2. CASE i # 1
    <3>1. i \in 2..Len(b)
      BY <1>4, <2>2
    <3> QED BY <1>4, <2>2, <3>1 DEF Successive
  <2> QED BY <2>1, <2>2
<1>11. ASSUME NEW i \in 1..n PROVE b[i].ns = b[1].ns
  <2>1. 1 \in 1..n
    OBVIOUS
  <2> QED BY <1>8, <2>1
<1> QED BY <1>4, <1>8, <1>10, <1>11 DEF ChainOf

LEMMA InitMigrationInv == Init => MigrationInv
<1> SUFFICES ASSUME Init PROVE MigrationInv
  OBVIOUS
<1>1. /\ moved = << >> /\ tmpFiles = NoFiles /\ tmpCatalog = NewCatalog
      /\ files = NoFiles /\ catalog = NewCatalog /\ lock = NoOne
      /\ pc = [w \in Writers |-> "idle"] /\ mem = [w \in Writers |-> NewCatalog]
      /\ batch = [w \in Writers |-> << >>] /\ pos = [w \in Writers |-> 1]
      /\ acked = {}
      /\ rpc = [r \in Readers |-> "idle"] /\ got = [r \in Readers |-> << >>]
      /\ floor = [r \in Readers |-> 0]
  BY DEF Init
<1>2. PICK n \in 1..MaxLegacy, ns \in Namespaces : \E pays \in [1..n -> Payloads] :
        path = BuildEvents(0, Genesis, ns, pays, 0)
  BY DEF Init
<1>3. PICK pays \in [1..n -> Payloads] : path = BuildEvents(0, Genesis, ns, pays, 0)
  BY <1>2
<1>4. n \in Nat /\ n >= 1
  BY BoundAssumption
<1>5. path \in Seq(Event) /\ Len(path) = n /\ ChainOf(path)
  <2>1. PICK b : b = BuildEvents(0, Genesis, ns, pays, 0)
    OBVIOUS
  <2>2. b \in Seq(Event) /\ Len(b) = n /\ ChainOf(b)
    BY <1>4, <2>1, BuiltChain
  <2> QED BY <1>3, <2>1, <2>2
<1>6. path # << >>
  BY <1>4, <1>5
<1>7. ~HasActive(catalog) /\ NewCatalog \in Catalog
  BY <1>1, NonePublished, NewCatalogType
<1>8. History = StampsOf(path) /\ StampsOf(path) \in Seq(Stamp)
      /\ Len(StampsOf(path)) \in Nat
  BY <1>5, <1>7, StampsOfIs DEF History
<1>9. DirOK(NoFiles)
  BY DEF DirOK, NoFiles
<1>10. DiskInv
  <2>1. Begins(History, StampsOf(path))
    BY <1>8 DEF Begins
  <2> QED BY <1>1, <1>5, <1>6, <1>7, <1>9, <2>1 DEF DiskInv
<1>11. LocalsOK /\ floor \in [Readers -> Nat]
  BY <1>1, <1>7 DEF LocalsOK, Labels
<1>12. ASSUME NEW w \in Writers PROVE WriterInv(w)
  <2>1. pc[w] = "idle" /\ lock # w
    BY <1>1, ProcessAssumption
  <2> QED BY <2>1 DEF WriterInv, Progress, Holding, Migrating, Appending, Labels
<1>13. ASSUME NEW r \in Readers PROVE ReaderInv(r)
  <2>1. rpc[r] = "idle" /\ floor[r] = 0
    BY <1>1
  <2>2. 0 \in 0..Len(History)
    BY <1>8
  <2> QED BY <2>1, <2>2 DEF ReaderInv
<1> QED BY <1>1, <1>10, <1>11, <1>12, <1>13 DEF MigrationInv

LEMMA NextMigrationInv == MigrationInv /\ [Next]_vars => MigrationInv'
<1> SUFFICES ASSUME MigrationInv, [Next]_vars PROVE MigrationInv'
  OBVIOUS
<1>1. ASSUME NEW w \in Writers, Step(w) PROVE MigrationInv'
  <2>1. CASE ReadTail(w)
    BY <2>1, ReadTailInv
  <2>2. CASE BuildEvent(w)
    BY <2>2, BuildEventInv
  <2>3. CASE ReturnTail(w)
    BY <2>3, ReturnTailInv
  <2>4. CASE AcquireLock(w)
    BY <2>4, AcquireLockInv
  <2>5. CASE SkipMigration(w)
    BY <2>5, SkipMigrationInv
  <2>6. CASE StartMigration(w)
    BY <2>6, StartMigrationInv
  <2>7. CASE CopyEvent(w)
    BY <2>7, CopyEventInv
  <2>8. CASE WriteTmpCatalog(w)
    BY <2>8, WriteTmpCatalogInv
  <2>9. CASE RemoveSegments(w)
    BY <2>9, RemoveSegmentsInv
  <2>10. CASE RenameSegments(w)
    BY <2>10, RenameSegmentsInv
  <2>11. CASE RenameCatalog(w)
    BY <2>11, RenameCatalogInv
  <2>12. CASE RenameLog(w)
    BY <2>12, RenameLogInv
  <2>13. CASE RollSegment(w)
    BY <2>13, RollSegmentInv
  <2>14. CASE Unlock(w)
    BY <2>14, UnlockInv
  <2>15. CASE Reject(w)
    BY <2>15, RejectInv
  <2>16. CASE Crash(w)
    BY <2>16, CrashInv
  <2>17. CASE WriteRolledCatalog(w)
    BY <2>17, WriteRolledCatalogInv
  <2>18. CASE PutFirst(w)
    BY <2>18, PutFirstIs
  <2>19. CASE PutLine(w)
    BY <2>19, PutLineIs
  <2>20. CASE WriteCatalog(w)
    BY <2>20, WriteCatalogInv
  <2> QED BY <1>1, <2>1, <2>2, <2>3, <2>4, <2>5, <2>6, <2>7, <2>8, <2>9, <2>10, <2>11, <2>12,
              <2>13, <2>14, <2>15, <2>16, <2>17, <2>18, <2>19, <2>20 DEF Step
<1>2. ASSUME NEW r \in Readers, RStep(r),
             UNCHANGED <<old, tmp, new, lock, pc, local, history>>
      PROVE  MigrationInv'
  BY <1>2, LoadInv
<1>3. CASE UNCHANGED vars
  <2>1. UNCHANGED <<path, moved, tmpFiles, tmpCatalog, files, catalog>>
        /\ UNCHANGED <<lock, pc, mem, batch, pos, acked, rpc, got, floor>>
    BY <1>3 DEF vars, old, tmp, new, local, history, readers
  <2>2. DiskInv' /\ LocalsOK' /\ floor' \in [Readers -> Nat]
    BY <2>1 DEF MigrationInv, DiskInv, LocalsOK, History, Opened, OldEvents
  <2>3. \A e \in acked' : InHistory(e)'
    BY <2>1 DEF MigrationInv, InHistory, History, Opened
  <2>4. \A w \in Writers : WriterInv(w)'
    BY <2>1 DEF MigrationInv, WriterInv, Progress, Copied, Written, CopyOf, InHistory,
                History, Opened, OldEvents
  <2>5. \A r \in Readers : ReaderInv(r)'
    BY <2>1 DEF MigrationInv, ReaderInv, History, Opened
  <2> QED BY <2>2, <2>3, <2>4, <2>5 DEF MigrationInv
<1> QED BY <1>1, <1>2, <1>3 DEF Next

\* Whatever a process is killed at, the invariant holds.
LEMMA MigrationInvariant == Spec => []MigrationInv
BY InitMigrationInv, NextMigrationInv, PTL DEF Spec

-----------------------------------------------------------------------------
(* What the migration keeps. *)

\* Types, for every number of processes and every length of the old file.
THEOREM MigrationTypeCorrect == Spec => []TypeOK
<1>1. MigrationInv => TypeOK
  <2> SUFFICES ASSUME MigrationInv PROVE TypeOK
    OBVIOUS
  <2>1. DiskInv /\ LocalsOK
    BY DEF MigrationInv
  <2>2. catalog \in Catalog
    BY <2>1, NewCatalogType DEF DiskInv, Kept, Knows
  <2>3. acked \subseteq Stamp
    <3> SUFFICES ASSUME NEW e \in acked PROVE e \in Stamp
      OBVIOUS
    <3>1. PICK i \in 1..Len(History) : History[i] = e
      BY DEF MigrationInv, InHistory
    <3>2. History \in Seq(Stamp)
      BY <2>1, HistoryType
    <3> QED BY <3>1, <3>2
  <2> QED BY <2>1, <2>2, <2>3 DEF TypeOK, DiskInv, DirOK, LocalsOK, Labels
<1> QED BY <1>1, MigrationInvariant, PTL

\* The bytes of the first lines of a file are those of their events.
LEMMA FirstBytes ==
  ASSUME NEW lines \in Seq(Line), NEW n \in 0..Len(lines)
  PROVE  BytesOf(SubSeq(lines, 1, n)) = Bytes(SubSeq(EventsOf(lines), 1, n))
<1>1. PICK evs : evs = EventsOf(lines)
  OBVIOUS
<1>2. /\ evs \in Seq(Event) /\ Len(evs) = Len(lines) /\ n \in 0..Len(evs)
      /\ \A i \in 1..Len(lines) : evs[i] = lines[i].ev
  BY <1>1, EventsOfType
<1>3. PICK a, b : a = SubSeq(lines, 1, n) /\ b = SubSeq(evs, 1, n)
  OBVIOUS
<1>4. a \in Seq(Line) /\ Len(a) = n /\ \A i \in 1..n : a[i] = lines[i]
  BY <1>3, FirstOnes
<1>5. b \in Seq(Event) /\ Len(b) = n /\ \A i \in 1..n : b[i] = evs[i]
  BY <1>2, <1>3, FirstOnes
<1>6. PICK d : d = EventsOf(a)
  OBVIOUS
<1>7. /\ d \in Seq(Event) /\ Len(d) = n /\ BytesOf(a) = Bytes(d)
      /\ \A i \in 1..n : d[i] = a[i].ev
  BY <1>4, <1>6, EventsOfType
<1>8. d = b
  <2>1. ASSUME NEW i \in 1..n PROVE d[i] = b[i]
    <3>1. i \in 1..Len(lines)
      OBVIOUS
    <3> QED BY <1>2, <1>4, <1>5, <1>7, <3>1
  <2> QED BY <1>5, <1>7, <2>1, SameElements
<1>9. BytesOf(a) = Bytes(b)
  BY <1>7, <1>8, Zenon
<1> QED BY <1>1, <1>3, <1>9, Zenon

\* What the catalog c tells of its k-th segment, if the old file had m events.
TellsOf(c, dir, m, k) ==
  LET entry == c.segs[k]
      lines == dir[entry.id].lines
      n == entry.count
  IN  /\ n <= Len(lines)
      /\ entry.bytes = BytesOf(SubSeq(lines, 1, n))
      /\ n > 0 => entry.end = lines[n].ev.seq /\ entry.last = DigestOf(lines[n].ev)
      /\ entry.sealed <=> k # c.active
      /\ entry.sealed => n = Len(lines)
      /\ lines # << >> => entry.start = lines[1].ev.seq
      /\ entry.start < m => lines # << >> /\ entry.first = DigestOf(lines[1].ev)

\* What the catalog on the disk tells, for every length of the old file, every
\* number of processes, and kills and error returns at any step of a migration
\* or of an append after it: all of the old file and of the sealed segments, and
\* of the active one the lines it counts.
THEOREM CatalogAlwaysTells == Spec => []CatalogTells
<1>1. MigrationInv => CatalogTells
  <2> SUFFICES ASSUME MigrationInv, HasActive(catalog) PROVE CatalogTells
    BY DEF CatalogTells
  <2>1. PICK c, dir, m : c = catalog /\ dir = files /\ m = Len(OldEvents)
    OBVIOUS
  <2>2. PICK L : L = Contents(c, dir)
    OBVIOUS
  <2>3. Knows(c, dir, m) /\ OnDisk(c, L) /\ Behind(c, L) /\ DirOK(dir)
    BY <2>1, <2>2 DEF MigrationInv, DiskInv, Kept
  <2>4. /\ c \in Catalog /\ c.next >= m /\ Starts(c, L, m) /\ HasActive(c)
        /\ L \in [1..Len(c.segs) -> Seq(Event)]
        /\ \A k \in 1..Len(c.segs) :
             dir[c.segs[k].id].lines \in Seq(Line) /\ L[k] = EventsOf(dir[c.segs[k].id].lines)
    BY <2>2, <2>3, ContentsOfKnown
  <2>5. /\ DOMAIN c.segs = 1..Len(c.segs) /\ Len(c.segs) \in Nat /\ c.active = Len(c.segs)
        /\ \A k \in 1..Len(c.segs) : c.segs[k] \in Entry /\ c.segs[k].start \in Nat
    BY <2>3, <2>4, SegsType DEF OnDisk, Linked
  <2>6. ActiveEntry(c).start + ActiveEntry(c).count = c.next
    BY <2>3, <2>5 DEF Behind, ActiveEntry
  <2>7. ASSUME NEW k \in DOMAIN c.segs PROVE TellsOf(c, dir, m, k)
    <3>1. PICK entry, lines, n :
            entry = c.segs[k] /\ lines = dir[entry.id].lines /\ n = entry.count
      OBVIOUS
    <3>2. k \in 1..Len(c.segs) /\ k \in DOMAIN c.segs
      BY <2>5
    <3>3. lines \in Seq(Line) /\ L[k] = EventsOf(lines) /\ entry \in Entry /\ entry.start \in Nat
      BY <2>4, <2>5, <3>1, <3>2
    <3>4. PICK evs \in Seq(Event) : evs = L[k]
      BY <2>4, <3>2
    <3>5. /\ Len(evs) = Len(lines) /\ \A i \in 1..Len(lines) : evs[i] = lines[i].ev
          /\ (evs = << >> <=> lines = << >>) /\ evs = EventsOf(lines)
      BY <3>3, <3>4, EventsOfType
    <3>6. /\ n <= Len(evs) /\ entry.bytes = Bytes(SubSeq(evs, 1, n))
          /\ n > 0 => entry.end = evs[n].seq /\ entry.last = DigestOf(evs[n])
      BY <2>3, <3>1, <3>2, <3>4 DEF Behind, Counted
    <3>7. n \in Nat /\ Len(lines) \in Nat /\ n \in 0..Len(lines)
      <4>1. n \in Nat
        BY <3>1, <3>3 DEF Entry
      <4> QED BY <3>3, <3>5, <3>6, <4>1
    <3>8. entry.bytes = BytesOf(SubSeq(lines, 1, n))
      <4>1. BytesOf(SubSeq(lines, 1, n)) = Bytes(SubSeq(EventsOf(lines), 1, n))
        BY <3>3, <3>7, FirstBytes
      <4> QED BY <3>5, <3>6, <4>1, Zenon
    <3>9. n > 0 => entry.end = lines[n].ev.seq /\ entry.last = DigestOf(lines[n].ev)
      <4> SUFFICES ASSUME n > 0
                   PROVE  entry.end = lines[n].ev.seq /\ entry.last = DigestOf(lines[n].ev)
        OBVIOUS
      <4>1. n \in 1..Len(lines)
        BY <3>7
      <4> QED BY <3>5, <3>6, <4>1
    <3>10. entry.sealed <=> k # c.active
      BY <2>3, <2>5, <3>1, <3>2 DEF OnDisk, Linked
    <3>11. entry.sealed => n = Len(lines)
      <4> SUFFICES ASSUME entry.sealed PROVE n = Len(lines)
        OBVIOUS
      <4>1. k # Len(c.segs)
        BY <2>5, <3>10
      <4>2. Described(c.segs[k], L[k], Before(c, k))
        BY <2>3, <3>2, <4>1 DEF OnDisk
      <4> QED BY <3>1, <3>4, <3>5, <4>2 DEF Described
    <3>12. lines # << >> => entry.start = lines[1].ev.seq
      <4> SUFFICES ASSUME lines # << >> PROVE entry.start = lines[1].ev.seq
        OBVIOUS
      <4>1. 1 \in 1..Len(lines) /\ 1 \in 1..Len(evs)
        BY <3>3, <3>5
      <4>2. evs[1].seq = entry.start + 1 - 1
        BY <2>3, <3>1, <3>2, <3>4, <4>1 DEF OnDisk, Chained
      <4> QED BY <3>3, <3>5, <4>1, <4>2
    <3>13. entry.start < m => lines # << >> /\ entry.first = DigestOf(lines[1].ev)
      <4> SUFFICES ASSUME entry.start < m
                   PROVE  lines # << >> /\ entry.first = DigestOf(lines[1].ev)
        OBVIOUS
      <4>1. evs # << >> /\ entry.first = DigestOf(evs[1])
        BY <2>4, <3>1, <3>2, <3>4 DEF Starts
      <4>2. lines # << >> /\ 1 \in 1..Len(lines)
        BY <3>3, <3>5, <4>1
      <4> QED BY <3>5, <4>1, <4>2
    <3> QED BY <3>1, <3>5, <3>6, <3>8, <3>9, <3>10, <3>11, <3>12, <3>13 DEF TellsOf
  <2>8. \A k \in DOMAIN catalog.segs : TellsOf(catalog, files, Len(OldEvents), k)
    BY <2>1, <2>7
  <2>9. /\ catalog.next >= Len(OldEvents)
        /\ ActiveEntry(catalog).start + ActiveEntry(catalog).count = catalog.next
    BY <2>1, <2>4, <2>6
  <2> QED BY <2>8, <2>9, Zenon DEF CatalogTells, TellsOf
<1> QED BY <1>1, MigrationInvariant, PTL

\* A load takes no lock and may find the old file, its segments or, between the
\* two, neither: it returns a beginning of the log, and one that has all the log
\* had when it began, or no event at all.
THEOREM LoadsAllOrNothing == Spec => []LoadAllOrNothing
<1>1. MigrationInv => LoadAllOrNothing
  <2> SUFFICES ASSUME MigrationInv, NEW r \in Readers, rpc[r] = "done"
               PROVE  /\ IsPrefix(got[r], Log)
                      /\ got[r] = << >> \/ Len(got[r]) >= floor[r]
    BY DEF LoadAllOrNothing
  <2>1. DiskInv /\ ReaderInv(r) /\ got[r] \in Seq(Stamp)
    BY DEF MigrationInv, LocalsOK
  <2>2. Begins(History, got[r]) /\ (got[r] = << >> \/ Len(got[r]) >= floor[r])
    BY <2>1 DEF ReaderInv
  <2>3. PICK s, t : s = got[r] /\ t = History
    OBVIOUS
  <2>4. s \in Seq(Stamp) /\ t \in Seq(Stamp)
    BY <2>1, <2>3, HistoryType
  <2>5. Len(s) <= Len(t) /\ \A i \in 1..Len(s) : t[i] = s[i]
    BY <2>2, <2>3 DEF Begins
  <2>6. SubSeq(s, 1, Len(s)) = SubSeq(t, 1, Len(s))
    BY <2>4, <2>5
  <2>7. IsPrefix(s, t)
    BY <2>5, <2>6 DEF IsPrefix
  <2>8. Log = History
    BY <2>1, LogIsHistory
  <2> QED BY <2>2, <2>3, <2>7, <2>8
<1> QED BY <1>1, MigrationInvariant, PTL

\* A step of a process keeps the log or, where it appends, extends it; what it
\* confirms it adds to what was confirmed, and it does not do both.
LogStep == /\ Begins(History', History)
           /\ acked \subseteq acked'
           /\ acked' = acked \/ History' = History

LEMMA StepKeepsLog ==
  ASSUME MigrationInv, [Next]_vars
  PROVE  LogStep
<1> DiskInv
  BY DEF MigrationInv
<1>1. ASSUME UNCHANGED <<old, tmp, new>>, acked \subseteq acked' PROVE LogStep
  BY <1>1, DiskQuiet DEF DiskStep, LogStep
<1>2. ASSUME DiskStep, acked' = acked PROVE LogStep
  BY <1>2 DEF DiskStep, LogStep
<1>3. ASSUME NEW w \in Writers, Step(w) PROVE LogStep
  <2>1. CASE ReadTail(w) \/ BuildEvent(w) \/ ReturnTail(w) \/ AcquireLock(w)
               \/ SkipMigration(w) \/ Unlock(w) \/ Reject(w) \/ Crash(w)
    <3>1. UNCHANGED <<old, tmp, new>> /\ acked \subseteq acked'
      BY <2>1 DEF ReadTail, BuildEvent, ReturnTail, AcquireLock, SkipMigration, Unlock, Reject,
                  Crash, history
    <3> QED BY <1>1, <3>1
  <2>2. CASE StartMigration(w)
    BY <1>2, <2>2, StartMigrationDisk DEF StartMigration, history
  <2>3. CASE CopyEvent(w)
    BY <1>2, <2>3, CopyEventDisk DEF CopyEvent, history
  <2>4. CASE WriteTmpCatalog(w)
    BY <1>2, <2>4, WriteTmpCatalogDisk DEF WriteTmpCatalog, history
  <2>5. CASE RemoveSegments(w)
    BY <1>2, <2>5, RemoveSegmentsDisk DEF RemoveSegments, history
  <2>6. CASE RenameSegments(w)
    BY <1>2, <2>6, RenameSegmentsDisk DEF RenameSegments, history
  <2>7. CASE RenameCatalog(w)
    BY <1>2, <2>7, RenameCatalogDisk DEF RenameCatalog, history
  <2>8. CASE RenameLog(w)
    BY <1>2, <2>8, RenameLogDisk DEF RenameLog, history
  <2>9. CASE RollSegment(w)
    BY <1>2, <2>9, RollSegmentIs DEF RollSegment, history
  <2>10. CASE WriteRolledCatalog(w) \/ WriteCatalog(w)
    <3>1. /\ pc[w] \in Appending /\ catalog' = mem[w] /\ acked' = acked
          /\ UNCHANGED <<old, tmp, files>>
      BY <2>10 DEF WriteRolledCatalog, WriteCatalog, Appending, history
    <3> QED BY <1>2, <3>1, CatalogWritten
  <2>11. CASE PutFirst(w) \/ PutLine(w)
    <3>1. acked' = acked
      BY <2>11 DEF PutFirst, PutLine, Put, history
    <3> QED BY <1>2, <2>11, <3>1, PutFirstIs, PutLineIs
  <2> QED BY <1>3, <2>1, <2>2, <2>3, <2>4, <2>5, <2>6, <2>7, <2>8, <2>9, <2>10, <2>11 DEF Step
<1>4. ASSUME NEW r \in Readers, RStep(r),
             UNCHANGED <<old, tmp, new, lock, pc, local, history>>
      PROVE  LogStep
  BY <1>1, <1>4 DEF history
<1>5. CASE UNCHANGED vars
  BY <1>1, <1>5 DEF vars, history
<1> QED BY <1>3, <1>4, <1>5 DEF Next

\* The log is the history of one chain, before a step and after it.
LogOfChain == /\ Log = History /\ History \in Seq(Stamp)
              /\ \E x \in Seq(Event) : ChainOf(x) /\ History = StampsOf(x)

LEMMA LogIsOfChain == DiskInv => LogOfChain
BY LogIsHistory, HistoryType DEF LogOfChain

LEMMA LogStaysOfChain == DiskInv' => LogOfChain'
BY LogIsOfChain, PTL

\* A step of the migration is a step of the abstract log, or none.
LEMMA MigrationStepIsAbstract ==
  MigrationInv /\ MigrationInv' /\ [Next]_vars => [Abstract!Next]_<<Log, acked>>
<1> SUFFICES ASSUME MigrationInv, MigrationInv', [Next]_vars, ~UNCHANGED <<Log, acked>>
             PROVE  Abstract!Next
  OBVIOUS
<1>1. LogStep
  BY StepKeepsLog
<1>2. DiskInv /\ DiskInv'
  BY DEF MigrationInv
<1>3. PICK h, g : h = History /\ g = History'
  OBVIOUS
<1>4. Log = h /\ h \in Seq(Stamp)
  BY <1>2, <1>3, LogIsHistory, HistoryType
<1>5. Log' = g /\ g \in Seq(Stamp) /\ \E x \in Seq(Event) : ChainOf(x) /\ g = StampsOf(x)
  <2>1. /\ Log' = History' /\ History' \in Seq(Stamp)
        /\ \E x \in Seq(Event) : ChainOf(x) /\ History' = StampsOf(x)
    BY <1>2, LogStaysOfChain DEF LogOfChain
  <2> QED BY <1>3, <2>1
<1>6. CASE g # h
  <2>1. acked' = acked
    BY <1>1, <1>3, <1>6 DEF LogStep
  <2>2. Abstract!StartsWith(g, h)
    BY <1>1, <1>3, <1>4 DEF LogStep, Begins, Abstract!StartsWith
  <2>3. Abstract!Numbered(g)
    <3>1. PICK x \in Seq(Event) : ChainOf(x) /\ g = StampsOf(x)
      BY <1>5
    <3>2. /\ Len(g) = Len(x) /\ \A i \in 1..Len(x) : g[i] = StampOfEvent(x[i])
          /\ Len(x) \in Nat
      BY <3>1, StampsOfIs
    <3>3. ASSUME NEW i \in 1..Len(x) PROVE g[i].seq = i - 1 /\ g[i].ns = g[1].ns
      <4>1. 1 \in 1..Len(x)
        BY <3>2
      <4>2. /\ g[i].seq = x[i].seq /\ g[i].ns = x[i].ns /\ g[1].ns = x[1].ns
        <5>1. /\ g[i] = [seq |-> x[i].seq, ns |-> x[i].ns, pay |-> x[i].pay]
              /\ g[1] = [seq |-> x[1].seq, ns |-> x[1].ns, pay |-> x[1].pay]
          BY <3>2, <3>3, <4>1 DEF StampOfEvent
        <5> QED BY <5>1
      <4> QED BY <3>1, <3>3, <4>2 DEF ChainOf
    <3>4. DOMAIN g = 1..Len(x)
      BY <1>5, <3>2
    <3> QED BY <3>3, <3>4 DEF Abstract!Numbered
  <2>4. Abstract!Extend
    BY <1>4, <1>5, <1>6, <2>1, <2>2, <2>3 DEF Abstract!Extend
  <2> QED BY <2>4 DEF Abstract!Next
<1>7. CASE g = h
  <2>1. acked' # acked /\ acked \subseteq acked' /\ Log' = Log
    BY <1>1, <1>4, <1>5, <1>7 DEF LogStep
  <2>2. ASSUME NEW e \in acked' PROVE \E i \in DOMAIN Log : Log[i] = e
    <3>1. InHistory(e)'
      BY <2>2 DEF MigrationInv
    <3>2. \E i \in 1..Len(g) : g[i] = e
      BY <1>3, <3>1 DEF InHistory
    <3> QED BY <1>4, <1>5, <1>7, <3>2
  <2>3. Abstract!Confirm
    BY <2>1, <2>2 DEF Abstract!Confirm, Abstract!InLog
  <2> QED BY <2>3 DEF Abstract!Next
<1> QED BY <1>6, <1>7

\* A migration cannot be seen in the log: whatever step a process is killed at
\* and whoever tries again, the log stays as it is, is extended at its end, or
\* its events are confirmed, as AbstractLog promises.
THEOREM MigrationKeepsLog == Spec => KeepsLog
<1> QED BY MigrationInvariant, MigrationStepIsAbstract, PTL DEF Spec, KeepsLog
=============================================================================
