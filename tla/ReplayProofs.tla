---------------------------- MODULE ReplayProofs ----------------------------
(***************************************************************************)
(* For every log, of any length and with any payloads: what replay makes   *)
(* of it (its map, its types, its seals and clocks), and that verification *)
(* from a checkpoint agrees with replay from the first event.              *)
(***************************************************************************)
EXTENDS Replay, StateMapProofs

-----------------------------------------------------------------------------
(* The events offered and the steps of an engine are typed. *)

\* The events Feed hands out.
Fed(e) ==
  /\ e \in Event
  /\ Len(e.body.ops) <= MaxBatch
  /\ e.body.kind \in {"seal", "compact"} => e.body.ops = << >>

\* The digest of an event is one longer than that of the event before.
LEMMA DigestOfType ==
  ASSUME NEW e \in Event
  PROVE  DigestOf(e) \in Digest /\ Len(DigestOf(e)) = Len(e.prev) + 1
<1>1. e.prev \in Seq(Body) /\ e.body \in Body
  BY DEF Event, Digest
<1>2. Append(e.prev, e.body) \in Seq(Body) /\ Len(Append(e.prev, e.body)) = Len(e.prev) + 1
  BY <1>1
<1> QED
  BY <1>2 DEF DigestOf, Digest

\* Every kind of event is offered with no more operations than a batch may have.
LEMMA OpsForType ==
  ASSUME NEW kind \in Kinds, NEW ops \in OpsFor(kind)
  PROVE  ops \in Seq(Op) /\ Len(ops) <= MaxBatch
<1>1. CASE kind \in {"write", "delete"}
  <2>1. PICK op \in Ops : ops = <<op>>
    BY <1>1 DEF OpsFor
  <2>2. op \in Op
    BY <2>1, OpAssumption
  <2> QED
    BY <2>1, <2>2, LengthAssumption
<1>2. CASE kind = "batch"
  <2>1. PICK n \in 0..MaxBatch : ops \in [1..n -> Ops]
    BY <1>2 DEF OpsFor
  <2>2. ops \in [1..n -> Op] /\ n \in Nat /\ n <= MaxBatch
    BY <2>1, OpAssumption, LengthAssumption
  <2>3. ops \in Seq(Op) /\ Len(ops) = n
    BY <2>2
  <2> QED
    BY <2>2, <2>3
<1>3. CASE kind \notin {"write", "delete", "batch"}
  <2>1. ops = << >>
    BY <1>3 DEF OpsFor
  <2> QED
    BY <2>1, LengthAssumption
<1> QED
  BY <1>1, <1>2, <1>3

\* A fault of the chain, the clock or the payload is a code.
LEMMA FaultType ==
  ASSUME NEW eng \in Engine, NEW e \in Event
  PROVE  /\ ChainFault(eng, e) \in Codes
         /\ ClockFault(eng, e.body) \in Codes
         /\ ApplyFault(eng.map, e.body) \in Codes
<1>1. ChainFault(eng, e) \in Codes
  BY DEF ChainFault, Codes
<1>2. ClockFault(eng, e.body) \in Codes
  BY DEF ClockFault, Codes
<1>3. ApplyFault(eng.map, e.body) \in Codes
  BY DEF ApplyFault, Codes
<1> QED
  BY <1>1, <1>2, <1>3

\* The engine past an event is an engine.
LEMMA PastType ==
  ASSUME NEW eng \in Engine, NEW e \in Event
  PROVE  Past(eng, e) \in Engine
<1>1. DigestOf(e) \in Digest
  BY DigestOfType
<1>2. e.body.ns \in Namespaces
  BY DEF Event, Body
<1>3. eng.seen \union {DigestOf(e)} \in SUBSET Digest
  BY <1>1 DEF Engine
<1>4. eng.seq + 1 \in Nat
  BY DEF Engine
<1> HIDE DEF Digest, StateMap
<1> QED
  BY <1>1, <1>2, <1>3, <1>4 DEF Past, Engine

\* The engine that applied an event is an engine.
LEMMA AppliedType ==
  ASSUME NEW eng \in Engine, NEW e, Fed(e)
  PROVE  Applied(eng, e) \in Engine
<1>1. Past(eng, e) \in Engine /\ Past(eng, e).map = eng.map
  BY PastType DEF Past, Fed, Engine
<1>2. AfterOps(eng.map, e.body.ops) \in StateMap
  <2>1. eng.map \in StateMap /\ e.body.ops \in Seq(Op) /\ Len(e.body.ops) <= MaxBatch
    BY DEF Fed, Engine, Event, Body
  <2> QED
    BY <2>1, AfterOpsType
<1>3. e.body.ts \in Nat \union {None} /\ e.body.tick \in Nat
  BY DEF Fed, Event, Body
<1> QED
  BY <1>1, <1>2, <1>3, ZenonT(40) DEF Applied, Engine

\* One iteration of the loop yields an engine.
LEMMA AdvanceType ==
  ASSUME NEW eng \in Engine, NEW e, Fed(e)
  PROVE  Advance(eng, e) \in Engine
<1>1. e \in Event
  BY DEF Fed
<1>2. \A s \in Codes : [eng EXCEPT !.status = s] \in Engine
  BY DEF Engine
<1>3. Past(eng, e) \in Engine /\ Applied(eng, e) \in Engine
  BY <1>1, PastType, AppliedType
<1>4. /\ ChainFault(eng, e) \in Codes
      /\ ClockFault(eng, e.body) \in Codes
      /\ ApplyFault(eng.map, e.body) \in Codes
  BY <1>1, FaultType
<1> QED
  BY <1>2, <1>3, <1>4, Zenon DEF Advance

-----------------------------------------------------------------------------
(* Digests grow along the chain, so the duplicate detection finds nothing. *)

\* The digests an engine has seen are shorter than the next one.
Sane(eng) ==
  /\ eng.status # "DUPLICATE_EVENT"
  /\ eng.status = "ok" =>
       Len(eng.prev) = eng.seq /\ \A d \in eng.seen : Len(d) <= eng.seq

\* What lets an engine apply an event.
Accepts(eng, e) ==
  /\ eng.status = "ok"
  /\ eng.ns # None => e.body.ns = eng.ns
  /\ e.body.seq = eng.seq
  /\ e.prev = eng.prev
  /\ ValidDigest(e)
  /\ ClockFault(eng, e.body) = "ok"
  /\ ApplyFault(eng.map, e.body) = "ok"

\* An event that continues the chain of an engine is no duplicate to it.
LEMMA NotSeen ==
  ASSUME NEW eng \in Engine, NEW e \in Event, Sane(eng), eng.status = "ok", e.prev = eng.prev
  PROVE  ~Duplicate(eng, e)
<1>1. Len(DigestOf(e)) = eng.seq + 1 /\ eng.seq \in Nat
  BY DigestOfType DEF Sane, Engine
<1>2. \A d \in eng.seen : Len(d) <= eng.seq
  BY DEF Sane
<1> QED
  BY <1>1, <1>2 DEF Duplicate

\* An engine goes on exactly by applying an event it accepts.
LEMMA AdvanceOk ==
  ASSUME NEW eng \in Engine, NEW e \in Event, Sane(eng)
  PROVE  /\ Accepts(eng, e) => Advance(eng, e) = Applied(eng, e)
         /\ Advance(eng, e).status = "ok" => Accepts(eng, e)
         /\ Advance(eng, e).status # "DUPLICATE_EVENT"
<1>1. eng.seq \in Nat /\ e.body.seq \in Nat
  BY DEF Engine, Event, Body
<1>2. e.prev = eng.prev /\ eng.status = "ok" => ~Duplicate(eng, e)
  BY NotSeen
<1>3. \A s : [eng EXCEPT !.status = s].status = s
  BY DEF Engine
<1>4. Accepts(eng, e) => ChainFault(eng, e) = "ok"
  BY <1>1, <1>2 DEF Accepts, ChainFault
<1>5. eng.status = "ok" /\ ChainFault(eng, e) = "ok" =>
        /\ eng.ns # None => e.body.ns = eng.ns
        /\ e.body.seq = eng.seq
        /\ e.prev = eng.prev
        /\ ValidDigest(e)
  BY <1>1 DEF ChainFault
<1>6. eng.status = "ok" => ChainFault(eng, e) # "DUPLICATE_EVENT"
  BY <1>2 DEF ChainFault
<1>7. ClockFault(eng, e.body) # "DUPLICATE_EVENT"
  BY DEF ClockFault
<1>8. ApplyFault(eng.map, e.body) # "DUPLICATE_EVENT"
  BY DEF ApplyFault
<1>9. Accepts(eng, e) => Advance(eng, e) = Applied(eng, e)
  BY <1>2, <1>4 DEF Accepts, Advance
<1>10. ASSUME Advance(eng, e).status = "ok" PROVE Accepts(eng, e)
  <2>1. eng.status = "ok"
    BY <1>10 DEF Advance
  <2>2. ChainFault(eng, e) = "ok"
    BY <1>10, <1>3, <2>1 DEF Advance
  <2>3. ~Duplicate(eng, e)
    BY <1>2, <1>5, <2>1, <2>2
  <2>4. ClockFault(eng, e.body) = "ok"
    BY <1>10, <1>3, <2>1, <2>2, <2>3 DEF Advance
  <2>5. ApplyFault(eng.map, e.body) = "ok"
    BY <1>10, <1>3, <2>1, <2>2, <2>3, <2>4 DEF Advance
  <2> QED
    BY <1>5, <2>1, <2>2, <2>4, <2>5 DEF Accepts
<1>11. Advance(eng, e).status # "DUPLICATE_EVENT"
  <2>1. eng.status # "DUPLICATE_EVENT"
    BY DEF Sane
  <2>2. Past(eng, e).status = eng.status /\ Applied(eng, e).status = eng.status
    BY DEF Past, Applied, Engine
  <2> QED
    BY <1>3, <1>6, <1>7, <1>8, <2>1, <2>2 DEF Advance
<1> QED
  BY <1>9, <1>10, <1>11

-----------------------------------------------------------------------------
(* The inductive invariant. *)

\* The engine is where the last event of the log left it.
AtLast(eng, e) ==
  /\ eng.prev = DigestOf(e)
  /\ eng.seq = e.body.seq + 1
  /\ eng.ns = e.body.ns
  /\ e.body.kind = "seal" => eng.ts = e.body.ts
  /\ e.body.tick > 0 => eng.tick = e.body.tick
  /\ e.body.tick <= eng.tick

\* Two engines that will judge the next event alike but for its tick.
Alike(eng, other) ==
  /\ other.status = "ok"
  /\ other.map = eng.map
  /\ other.seq = eng.seq
  /\ other.prev = eng.prev
  /\ other.ns = eng.ns
  /\ other.ts = eng.ts
  /\ other.tick <= eng.tick

Inv ==
  /\ TypeOK
  /\ Sane(full) /\ Sane(tail)
  /\ log # << >> /\ full.status = "ok" => AtLast(full, log[Len(log)])
  /\ at # 0 /\ full.status = "ok" => Alike(full, tail)
  /\ at # 0 /\ log[at].body.tick > 0 /\ tail.status = "ok" =>
       full.status = "ok" /\ full.tick = tail.tick

\* An engine that accepts an event stays sane.
LEMMA AdvanceSane ==
  ASSUME NEW eng \in Engine, NEW e \in Event, Sane(eng)
  PROVE  Sane(Advance(eng, e))
<1>1. Advance(eng, e).status # "DUPLICATE_EVENT"
  BY AdvanceOk
<1>2. ASSUME Advance(eng, e).status = "ok"
      PROVE  /\ Len(Advance(eng, e).prev) = Advance(eng, e).seq
             /\ \A d \in Advance(eng, e).seen : Len(d) <= Advance(eng, e).seq
  <2>1. Accepts(eng, e) /\ Advance(eng, e) = Applied(eng, e)
    BY <1>2, AdvanceOk
  <2>2. /\ Applied(eng, e).prev = DigestOf(e)
        /\ Applied(eng, e).seq = eng.seq + 1
        /\ Applied(eng, e).seen = eng.seen \union {DigestOf(e)}
    BY DEF Applied, Past, Engine
  <2>3. Len(DigestOf(e)) = Len(eng.prev) + 1
    BY <2>1, DigestOfType DEF Accepts
  <2>4. Len(eng.prev) = eng.seq /\ \A d \in eng.seen : Len(d) <= eng.seq
    BY <2>1 DEF Accepts, Sane
  <2>5. eng.seq \in Nat /\ \A d \in eng.seen : Len(d) \in Nat
    BY DEF Engine, Digest
  <2> HIDE DEF DigestOf
  <2> QED
    BY <2>1, <2>2, <2>3, <2>4, <2>5
<1> QED
  BY <1>1, <1>2 DEF Sane

\* An engine that went on is where the event left it.
LEMMA AdvanceAtLast ==
  ASSUME NEW eng \in Engine, NEW e \in Event, Sane(eng), Advance(eng, e).status = "ok"
  PROVE  AtLast(Advance(eng, e), e)
<1>1. Accepts(eng, e) /\ Advance(eng, e) = Applied(eng, e)
  BY AdvanceOk
<1>2. /\ Applied(eng, e).prev = DigestOf(e)
      /\ Applied(eng, e).seq = eng.seq + 1
      /\ Applied(eng, e).ns = e.body.ns
      /\ Applied(eng, e).ts = IF e.body.kind = "seal" THEN e.body.ts ELSE eng.ts
      /\ Applied(eng, e).tick = IF e.body.tick > 0 THEN e.body.tick ELSE eng.tick
  BY DEF Applied, Past, Engine
<1>3. e.body.tick \in Nat /\ eng.tick \in Nat
  BY DEF Event, Body, Engine
<1> QED
  BY <1>1, <1>2, <1>3 DEF AtLast, Accepts

\* What one engine accepts the other accepts, if it is no further in ticks.
LEMMA AdvanceAlike ==
  ASSUME NEW eng \in Engine, NEW other \in Engine, NEW e \in Event, Sane(eng), Sane(other),
         Alike(eng, other), Advance(eng, e).status = "ok"
  PROVE  Alike(Advance(eng, e), Advance(other, e))
<1>1. Accepts(eng, e) /\ Advance(eng, e) = Applied(eng, e)
  BY AdvanceOk
<1>2. eng.tick \in Nat /\ other.tick \in Nat /\ e.body.tick \in Nat
  BY DEF Engine, Event, Body
<1>3. ClockFault(other, e.body) = "ok"
  BY <1>1, <1>2 DEF Accepts, ClockFault, Alike
<1>4. Accepts(other, e)
  BY <1>1, <1>3 DEF Accepts, Alike
<1>5. Advance(other, e) = Applied(other, e)
  BY <1>4, AdvanceOk
<1>6. \A x \in Engine :
        /\ Applied(x, e).prev = DigestOf(e)
        /\ Applied(x, e).seq = x.seq + 1
        /\ Applied(x, e).ns = e.body.ns
        /\ Applied(x, e).ts = IF e.body.kind = "seal" THEN e.body.ts ELSE x.ts
        /\ Applied(x, e).tick = IF e.body.tick > 0 THEN e.body.tick ELSE x.tick
        /\ Applied(x, e).map = AfterOps(x.map, e.body.ops)
        /\ Applied(x, e).status = x.status
  BY DEF Applied, Past, Engine
<1> HIDE DEF Applied, DigestOf
<1> QED
  BY <1>1, <1>2, <1>5, <1>6 DEF Alike

\* The other way round, if the two are equally far in ticks.
LEMMA AdvanceAlikeBack ==
  ASSUME NEW eng \in Engine, NEW other \in Engine, NEW e \in Event, Sane(eng), Sane(other),
         Alike(eng, other), eng.status = "ok", eng.tick = other.tick,
         Advance(other, e).status = "ok"
  PROVE  Advance(eng, e).status = "ok" /\ Advance(eng, e).tick = Advance(other, e).tick
<1>1. Accepts(other, e) /\ Advance(other, e) = Applied(other, e)
  BY AdvanceOk
<1>2. ClockFault(eng, e.body) = "ok"
  BY <1>1 DEF Accepts, ClockFault, Alike
<1>3. Accepts(eng, e)
  BY <1>1, <1>2 DEF Accepts, Alike
<1>4. Advance(eng, e) = Applied(eng, e)
  BY <1>3, AdvanceOk
<1>5. \A x \in Engine :
        /\ Applied(x, e).tick = IF e.body.tick > 0 THEN e.body.tick ELSE x.tick
        /\ Applied(x, e).status = x.status
  BY DEF Applied, Past, Engine
<1> HIDE DEF Applied
<1> QED
  BY <1>1, <1>4, <1>5

\* The invariant holds before the first event.
LEMMA InitInv == Init => Inv
<1> SUFFICES ASSUME Init PROVE Inv
  OBVIOUS
<1>1. FromGenesis \in Engine
  <2>1. EmptyMap \in StateMap /\ Genesis \in Digest
    BY EmptyMapType DEF Genesis, Digest
  <2> QED
    BY <2>1 DEF FromGenesis, Engine, Codes
<1>2. Sane(FromGenesis)
  BY DEF FromGenesis, Sane, Genesis
<1>3. TypeOK
  BY <1>1 DEF Init, TypeOK
<1> QED
  BY <1>2, <1>3 DEF Init, Inv

\* Feed hands an event to both engines.
LEMMA FeedEvent ==
  ASSUME Inv, Feed
  PROVE  \E e : /\ Fed(e)
                /\ log' = Append(log, e)
                /\ full' = Advance(full, e)
                /\ tail' = IF at = 0 THEN tail ELSE Advance(tail, e)
                /\ at' = at
<1>1. PICK kind \in Kinds, ns \in Namespaces, seq \in SeqsOffered, tick \in Ticks,
           prev \in HeadsOffered, genuine \in BOOLEAN :
        \E ops \in OpsFor(kind), root \in RootsFor(kind), ts \in TimesFor(kind) :
          LET e == [body |-> [kind |-> kind, ns |-> ns, seq |-> seq, tick |-> tick,
                              ops |-> ops, root |-> root, ts |-> ts],
                    prev |-> prev, genuine |-> genuine]
          IN  /\ log' = Append(log, e)
              /\ full' = Advance(full, e)
              /\ tail' = IF at = 0 THEN tail ELSE Advance(tail, e)
  BY Zenon DEF Feed
<1>2. PICK ops \in OpsFor(kind), root \in RootsFor(kind), ts \in TimesFor(kind) :
        LET e == [body |-> [kind |-> kind, ns |-> ns, seq |-> seq, tick |-> tick,
                            ops |-> ops, root |-> root, ts |-> ts],
                  prev |-> prev, genuine |-> genuine]
        IN  /\ log' = Append(log, e)
            /\ full' = Advance(full, e)
            /\ tail' = IF at = 0 THEN tail ELSE Advance(tail, e)
  BY <1>1, Zenon
<1> DEFINE b == [kind |-> kind, ns |-> ns, seq |-> seq, tick |-> tick,
                 ops |-> ops, root |-> root, ts |-> ts]
           e == [body |-> b, prev |-> prev, genuine |-> genuine]
<1>3. log \in Seq(Event) /\ full \in Engine /\ tail \in Engine
  BY DEF Inv, TypeOK
<1>4. ops \in Seq(Op) /\ Len(ops) <= MaxBatch
  BY OpsForType
<1>5. kind \in AllKinds
  BY KindAssumption
<1>6. seq \in Nat
  <2>1. Len(log) \in Nat
    BY <1>3
  <2> QED
    BY <2>1 DEF SeqsOffered
<1>7. tick \in Nat /\ ts \in Nat \union {None}
  BY ClockAssumption DEF TimesFor
<1>8. root \in StateMap \union {None}
  <2>1. full.map \in StateMap /\ tail.map \in StateMap /\ EmptyMap \in StateMap
    BY <1>3, EmptyMapType DEF Engine
  <2> QED
    BY <2>1, Zenon DEF RootsFor
<1>9. prev \in Digest
  <2>1. Genesis \in Digest
    BY DEF Genesis, Digest
  <2>2. \A i \in DOMAIN log : log[i] \in Event
    BY <1>3
  <2>3. \A i \in DOMAIN log : DigestOf(log[i]) \in Digest
    BY <2>2, DigestOfType
  <2>4. log # << >> => Len(log) \in DOMAIN log
    BY <1>3
  <2> QED
    BY <2>1, <2>3, <2>4, Zenon DEF HeadsOffered
<1>10. b \in Body
  BY <1>4, <1>5, <1>6, <1>7, <1>8 DEF Body
<1>11. e \in Event /\ e.body.ops = ops /\ e.body.kind = kind
  BY <1>9, <1>10 DEF Event
<1>13. kind \in {"seal", "compact"} => ops = << >>
  BY DEF OpsFor
<1>12. at' = at
  BY DEF Feed
<1> QED
  BY <1>2, <1>4, <1>11, <1>12, <1>13, Zenon DEF Fed

\* Feed preserves the invariant.
LEMMA FeedInv == Inv /\ Feed => Inv'
<1> SUFFICES ASSUME Inv, Feed PROVE Inv'
  OBVIOUS
<1>1. PICK e : /\ Fed(e)
               /\ log' = Append(log, e)
               /\ full' = Advance(full, e)
               /\ tail' = IF at = 0 THEN tail ELSE Advance(tail, e)
               /\ at' = at
  BY FeedEvent
<1>2. e \in Event
  BY <1>1 DEF Fed
<1>3. /\ log \in Seq(Event) /\ full \in Engine /\ tail \in Engine
      /\ at \in 0..Len(log) /\ Sane(full) /\ Sane(tail)
  BY DEF Inv, TypeOK
<1>4. /\ log' \in Seq(Event) /\ Len(log') = Len(log) + 1 /\ log'[Len(log')] = e
      /\ at # 0 => log'[at] = log[at]
  BY <1>1, <1>2, <1>3
<1>5. TypeOK'
  <2>1. full' \in Engine /\ tail' \in Engine
    BY <1>1, <1>3, AdvanceType
  <2>2. at' \in 0..Len(log')
    BY <1>1, <1>3, <1>4
  <2> QED
    BY <1>4, <2>1, <2>2 DEF TypeOK
<1>6. Sane(full)' /\ Sane(tail)'
  <2>1. Sane(Advance(full, e)) /\ Sane(Advance(tail, e))
    BY <1>2, <1>3, AdvanceSane
  <2>2. Sane(full')
    BY <1>1, <2>1, Zenon
  <2>3. Sane(tail')
    BY <1>1, <1>3, <2>1, Zenon
  <2> QED
    BY <2>2, <2>3 DEF Sane
<1>7. (log # << >> /\ full.status = "ok" => AtLast(full, log[Len(log)]))'
  <2> SUFFICES ASSUME full'.status = "ok" PROVE AtLast(full', log'[Len(log')])
    BY DEF AtLast
  <2> QED
    BY <1>1, <1>2, <1>3, <1>4, AdvanceAtLast
<1>8. (at # 0 /\ full.status = "ok" => Alike(full, tail))'
  <2> SUFFICES ASSUME at # 0, full'.status = "ok" PROVE Alike(full', tail')
    BY <1>1 DEF Alike
  <2>1. full.status = "ok"
    BY <1>1, <1>2, <1>3, AdvanceOk DEF Accepts
  <2>2. Alike(full, tail)
    BY <2>1 DEF Inv
  <2> QED
    BY <1>1, <1>2, <1>3, <2>2, AdvanceAlike
<1>9. (at # 0 /\ log[at].body.tick > 0 /\ tail.status = "ok" =>
         full.status = "ok" /\ full.tick = tail.tick)'
  <2> SUFFICES ASSUME at # 0, log'[at].body.tick > 0, tail'.status = "ok"
               PROVE  full'.status = "ok" /\ full'.tick = tail'.tick
    BY <1>1
  <2>1. tail.status = "ok"
    BY <1>1, <1>2, <1>3, AdvanceOk DEF Accepts
  <2>2. full.status = "ok" /\ full.tick = tail.tick
    BY <1>4, <2>1 DEF Inv
  <2>3. Alike(full, tail)
    BY <2>2 DEF Inv
  <2> QED
    BY <1>1, <1>2, <1>3, <2>2, <2>3, AdvanceAlikeBack
<1> QED
  BY <1>5, <1>6, <1>7, <1>8, <1>9 DEF Inv

\* Resume establishes what the invariant says of the second engine.
LEMMA ResumeInv == Inv /\ Resume => Inv'
<1> SUFFICES ASSUME Inv, Resume PROVE Inv'
  OBVIOUS
<1> DEFINE e == log[Len(log)]
<1>1. /\ at' = Len(log) /\ tail' = FromSnapshot(SnapshotAt(e, full.map))
      /\ log' = log /\ full' = full /\ full.status = "ok" /\ log # << >>
      /\ e.body.kind = "seal"
  BY DEF Resume
<1>2. log \in Seq(Event) /\ full \in Engine /\ Sane(full)
  BY DEF Inv, TypeOK
<1>3. e \in Event /\ Len(log) \in Nat /\ Len(log) # 0
  BY <1>1, <1>2
<1>4. AtLast(full, e)
  BY <1>1 DEF Inv
<1>5. /\ tail'.map = full.map /\ tail'.seq = e.body.seq + 1 /\ tail'.prev = DigestOf(e)
      /\ tail'.ns = e.body.ns /\ tail'.seen = {} /\ tail'.ts = e.body.ts
      /\ tail'.tick = e.body.tick /\ tail'.status = "ok"
  BY <1>1 DEF FromSnapshot, SnapshotAt
<1>6. tail' \in Engine
  <2>1. DigestOf(e) \in Digest
    BY <1>3, DigestOfType
  <2>2. /\ e.body.seq + 1 \in Nat /\ e.body.ns \in Namespaces
        /\ e.body.ts \in Nat \union {None} /\ e.body.tick \in Nat
    BY <1>3 DEF Event, Body
  <2>3. full.map \in StateMap
    BY <1>2 DEF Engine
  <2> HIDE DEF e
  <2> QED
    BY <1>1, <2>1, <2>2, <2>3 DEF FromSnapshot, SnapshotAt, Engine, Codes
<1>7. TypeOK'
  BY <1>1, <1>2, <1>3, <1>6 DEF TypeOK
<1> HIDE DEF e
<1>8. Sane(tail')
  <2>1. Len(DigestOf(e)) = e.body.seq + 1
    BY <1>1, <1>2, <1>4 DEF Sane, AtLast
  <2> QED
    BY <1>5, <2>1 DEF Sane
<1>9. Alike(full, tail')
  BY <1>1, <1>4, <1>5 DEF Alike, AtLast
<1>10. e.body.tick > 0 => full.tick = tail'.tick
  BY <1>4, <1>5 DEF AtLast
<1>11. log'[at'] = e /\ (log # << >>)' /\ log'[Len(log')] = e
  BY <1>1 DEF e
<1>12. Sane(full)' /\ Sane(tail)'
  BY <1>1, <1>2, <1>8 DEF Sane
<1>13. AtLast(full, log[Len(log)])'
  BY <1>1, <1>4, <1>11 DEF AtLast
<1>14. Alike(full, tail)'
  BY <1>1, <1>9 DEF Alike
<1>15. (at # 0 /\ log[at].body.tick > 0 /\ tail.status = "ok" =>
          full.status = "ok" /\ full.tick = tail.tick)'
  BY <1>1, <1>10, <1>11
<1> QED
  BY <1>7, <1>12, <1>13, <1>14, <1>15 DEF Inv

\* Every step preserves the invariant.
LEMMA NextInv == Inv /\ [Next]_vars => Inv'
<1> SUFFICES ASSUME Inv, [Next]_vars PROVE Inv'
  OBVIOUS
<1>1. CASE Feed
  BY <1>1, FeedInv
<1>2. CASE Resume
  BY <1>2, ResumeInv
<1>3. CASE UNCHANGED vars
  BY <1>3 DEF vars, Inv, TypeOK, Sane, AtLast, Alike
<1> QED
  BY <1>1, <1>2, <1>3 DEF Next

\* The invariant holds for every log.
LEMMA Invariance == Spec => []Inv
<1> QED
  BY InitInv, NextInv, PTL DEF Spec

-----------------------------------------------------------------------------
(* The theorems. *)

\* The engines, the log and the checkpoint stay typed, whatever is replayed.
THEOREM TypesHold == Spec => []TypeOK
<1>1. Inv => TypeOK
  BY DEF Inv
<1> QED
  BY <1>1, Invariance, PTL

\* What replays from the first event verifies from each checkpoint, and gives
\* the same state.
THEOREM CheckpointsComplete == Spec => []CheckpointComplete
<1>1. Inv => CheckpointComplete
  BY DEF Inv, CheckpointComplete, Alike
<1> QED
  BY <1>1, Invariance, PTL

\* What verifies from a checkpoint of a positive tick replays from the first
\* event, and gives the same state.
THEOREM CheckpointsSound == Spec => []CheckpointSound
<1>1. Inv => CheckpointSound
  <2> SUFFICES ASSUME Inv, at # 0, log[at].body.tick > 0, Verdict = "ok"
               PROVE  full.status = "ok" /\ full.map = tail.map
    BY DEF CheckpointSound
  <2>1. tail.status = "ok"
    BY DEF Verdict
  <2>2. full.status = "ok"
    BY <2>1 DEF Inv
  <2> QED
    BY <2>2 DEF Inv, Alike
<1> QED
  BY <1>1, Invariance, PTL

\* No log makes the duplicate detection fire.
THEOREM DuplicatesNeverFound == Spec => []NeverDuplicate
<1>1. Inv => NeverDuplicate
  BY DEF Inv, Sane, NeverDuplicate
<1> QED
  BY <1>1, Invariance, PTL

-----------------------------------------------------------------------------
(* What the operations of a log leave, said without replaying it.          *)

Positions(l, n) == {p \in (1..n) \X (1..MaxBatch) : p[2] \in DOMAIN l[p[1]].body.ops}

OpIn(l, p) == l[p[1]].body.ops[p[2]]

\* Those of the positions whose operation is on key k.
On(l, T, k) == {p \in T : OpIn(l, p).key = k}

IsLastIn(S, p) == p \in S /\ \A q \in S \ {p} : Before(q, p)

\* Two operations on a key have one type, if p comes first, but for a delete.
Consistent(l, S, p, q) ==
  \/ TypeOf[OpIn(l, p).val] = TypeOf[OpIn(l, q).val]
  \/ \E r \in S : OpIn(l, r).kind = "delete" /\ ~Before(r, p) /\ ~Before(q, r)
  \/ Before(q, p)

\* map is what the operations at the positions T leave, and they fit together.
KeyHistory(l, T, map, k) ==
  /\ k \in DOMAIN map <=> \E p \in T : IsLastIn(On(l, T, k), p) /\ OpIn(l, p).kind = "write"
  /\ \A p \in T : IsLastIn(On(l, T, k), p) /\ OpIn(l, p).kind = "write" => map[k] = OpIn(l, p).val
  /\ \A p, q \in On(l, T, k) : Consistent(l, On(l, T, k), p, q)

History(l, T, map) == \A k \in Key : KeyHistory(l, T, map, k)

\* Positions are ordered.
LEMMA PositionOrder ==
  ASSUME NEW p \in Nat \X Nat, NEW q \in Nat \X Nat
  PROVE  /\ ~Before(p, p)
         /\ ~(Before(p, q) /\ Before(q, p))
         /\ p = q \/ Before(p, q) \/ Before(q, p)
<1>1. PICK a \in Nat, b \in Nat, c \in Nat, d \in Nat : p = <<a, b>> /\ q = <<c, d>>
  OBVIOUS
<1> QED
  BY <1>1 DEF Before

\* Of some positions in a log there is one last.
LEMMA LastExists ==
  ASSUME NEW n \in Nat, NEW S, S \subseteq (1..n) \X (1..MaxBatch), S # {}
  PROVE  \E p : IsLastIn(S, p)
<1> DEFINE A == {n - p[1] : p \in S}
<1>1. \A p \in S : p[1] \in 1..n /\ p[2] \in 1..MaxBatch /\ p = <<p[1], p[2]>>
  OBVIOUS
<1>2. A \subseteq Nat /\ A # {}
  BY <1>1
<1>3. PICK x \in A : \A y \in A : x <= y
  <2> HIDE DEF A
  <2> QED
    BY <1>2, LeastNumber
<1>4. PICK p0 \in S : x = n - p0[1]
  BY <1>3
<1>5. PICK a : a = p0[1]
  OBVIOUS
<1>6. a \in 1..n /\ \A q \in S : q[1] <= a
  <2>1. \A q \in S : n - q[1] \in A
    OBVIOUS
  <2> HIDE DEF A
  <2>2. \A q \in S : n - a <= n - q[1]
    BY <1>3, <1>4, <1>5, <2>1
  <2> QED
    BY <1>1, <1>4, <1>5, <2>2
<1> HIDE DEF A
<1> DEFINE B == {MaxBatch - q[2] : q \in {r \in S : r[1] = a}}
<1>7. B \subseteq Nat /\ B # {}
  <2>1. p0 \in {r \in S : r[1] = a}
    BY <1>4, <1>5
  <2> QED
    BY <1>1, <2>1, LengthAssumption
<1>8. PICK y \in B : \A z \in B : y <= z
  <2> HIDE DEF B
  <2> QED
    BY <1>7, LeastNumber
<1>9. PICK p1 \in S : p1[1] = a /\ y = MaxBatch - p1[2]
  BY <1>8
<1>10. PICK b : b = p1[2]
  OBVIOUS
<1>11. b \in 1..MaxBatch /\ p1 = <<a, b>> /\ \A q \in S : q[1] = a => q[2] <= b
  <2>1. \A q \in S : q[1] = a => MaxBatch - q[2] \in B
    OBVIOUS
  <2> HIDE DEF B
  <2>2. \A q \in S : q[1] = a => MaxBatch - b <= MaxBatch - q[2]
    BY <1>8, <1>9, <1>10, <2>1
  <2> QED
    BY <1>1, <1>9, <1>10, <2>2, LengthAssumption
<1> HIDE DEF B
<1>12. ASSUME NEW q \in S, q # p1 PROVE Before(q, p1)
  <2>1. PICK c \in 1..n, d \in 1..MaxBatch : q = <<c, d>>
    BY <1>1
  <2>2. c <= a /\ (c = a => d <= b /\ d # b)
    BY <1>6, <1>11, <1>12, <2>1
  <2> QED
    BY <1>6, <1>11, <2>1, <2>2, LengthAssumption DEF Before
<1> QED
  BY <1>9, <1>12 DEF IsLastIn

\* What an operation does to the key it is on, and to the other keys.
LEMMA ApplyOpAt ==
  ASSUME NEW map \in StateMap, NEW op \in Op, NEW k \in Key, NEW new, new = ApplyOp(map, op)
  PROVE  /\ k = op.key => (k \in DOMAIN new <=> op.kind = "write")
         /\ k = op.key /\ op.kind = "write" => new[k] = op.val
         /\ k # op.key => (k \in DOMAIN new <=> k \in DOMAIN map)
         /\ k # op.key /\ k \in DOMAIN map => new[k] = map[k]
<1>1. CASE op.kind = "write"
  <2>1. new = [x \in DOMAIN map \union {op.key} |-> IF x = op.key THEN op.val ELSE map[x]]
    BY <1>1 DEF ApplyOp, Put
  <2> QED
    BY <1>1, <2>1
<1>2. CASE op.kind # "write"
  <2>1. new = [x \in DOMAIN map \ {op.key} |-> map[x]]
    BY <1>2 DEF ApplyOp, RemoveKey
  <2> QED
    BY <1>2, <2>1
<1> QED
  BY <1>1, <1>2

\* An operation that replay accepts, at a later position, continues a history.
LEMMA OneMore ==
  ASSUME NEW l, NEW n \in Nat, NEW T, T \subseteq (1..n) \X (1..MaxBatch), \A p \in T : OpIn(l, p) \in Op,
         NEW z \in (1..n) \X (1..MaxBatch), \A p \in T : Before(p, z),
         NEW map \in StateMap, NEW op \in Op, op = OpIn(l, z), Applicable(map, op),
         History(l, T, map), NEW new, new = ApplyOp(map, op)
  PROVE  History(l, T \union {z}, new)
<1>1. ASSUME NEW k \in Key PROVE KeyHistory(l, T \union {z}, new, k)
  <2> DEFINE S == On(l, T, k)
             R == On(l, T \union {z}, k)
  <2>1. KeyHistory(l, T, map, k)
    BY DEF History
  <2>2. S \subseteq T /\ z \in Nat \X Nat /\ \A p \in T : p \in Nat \X Nat
    BY DEF On
  <2>3. /\ \A p \in T : Before(p, z) /\ ~Before(z, p) /\ p # z
        /\ ~Before(z, z)
        /\ \A p \in T : ~Before(p, p)
        /\ \A p, q \in T : ~(Before(p, q) /\ Before(q, p))
    BY <2>2, PositionOrder
  <2>4. CASE k # op.key
    <3>1. R = S
      BY <2>4 DEF On
    <3>2. (k \in DOMAIN new <=> k \in DOMAIN map) /\ (k \in DOMAIN map => new[k] = map[k])
      BY <2>4, ApplyOpAt
    <3>3. \A p : IsLastIn(S, p) => p \in T
      BY <2>2 DEF IsLastIn
    <3> HIDE DEF S, R
    <3>4. k \in DOMAIN map <=> \E p \in T : IsLastIn(S, p) /\ OpIn(l, p).kind = "write"
      BY <2>1 DEF KeyHistory, S
    <3>5. \A p \in T : IsLastIn(S, p) /\ OpIn(l, p).kind = "write" => map[k] = OpIn(l, p).val
      BY <2>1 DEF KeyHistory, S
    <3>6. \A p, q \in S : Consistent(l, S, p, q)
      BY <2>1 DEF KeyHistory, S
    <3>7. k \in DOMAIN new <=>
            \E p \in T \union {z} : IsLastIn(R, p) /\ OpIn(l, p).kind = "write"
      BY <3>1, <3>2, <3>3, <3>4, Zenon
    <3>8. \A p \in T \union {z} :
            IsLastIn(R, p) /\ OpIn(l, p).kind = "write" => new[k] = OpIn(l, p).val
      BY <3>1, <3>2, <3>3, <3>4, <3>5, Zenon
    <3> QED
      BY <3>1, <3>6, <3>7, <3>8 DEF KeyHistory, R
  <2>5. CASE k = op.key
    <3>1. R = S \union {z} /\ z \notin S
      BY <2>2, <2>3, <2>5 DEF On
    <3>2. (k \in DOMAIN new <=> op.kind = "write") /\ (op.kind = "write" => new[k] = op.val)
      BY <2>5, ApplyOpAt
    <3>3. \A p \in S : p \in T /\ OpIn(l, p).key = k /\ OpIn(l, p) \in Op
      BY DEF On
    <3>4. \A p \in T : IsLastIn(S, p) /\ OpIn(l, p).kind = "write" =>
                         k \in DOMAIN map /\ map[k] = OpIn(l, p).val
      BY <2>1 DEF KeyHistory
    <3>5. k \in DOMAIN map => \E p \in T : IsLastIn(S, p) /\ OpIn(l, p).kind = "write"
      BY <2>1 DEF KeyHistory
    <3>6. \A p, q \in S : Consistent(l, S, p, q)
      BY <2>1 DEF KeyHistory
    <3>7. S # {} => \E p : IsLastIn(S, p)
      BY <2>2, LastExists
    <3> HIDE DEF S, R
    <3>8. \A p : IsLastIn(R, p) <=> p = z
      <4>1. IsLastIn(R, z)
        BY <2>3, <3>1, <3>3 DEF IsLastIn
      <4>2. ASSUME NEW p, IsLastIn(R, p), p # z PROVE FALSE
        BY <2>3, <3>1, <3>3, <4>2 DEF IsLastIn
      <4> QED
        BY <4>1, <4>2
    <3>9. ASSUME NEW p \in R, NEW q \in R PROVE Consistent(l, R, p, q)
      <4>1. CASE p \in S /\ q \in S
        BY <3>1, <3>6, <4>1 DEF Consistent
      <4>2. CASE p = z /\ q \in S
        BY <2>3, <3>3, <4>2 DEF Consistent
      <4>3. CASE p = z /\ q = z
        BY <4>3 DEF Consistent
      <4>4. CASE p \in S /\ q = z
        <5>1. CASE op.kind # "write"
          <6>1. op.kind = "delete"
            BY <5>1 DEF Op
          <6> QED
            BY <2>3, <3>1, <3>3, <4>4, <6>1 DEF Consistent
        <5>2. CASE op.kind = "write"
          <6>1. PICK m : IsLastIn(S, m)
            BY <3>7, <4>4
          <6>2. m \in S /\ m \in T /\ p \in T /\ (p = m \/ Before(p, m)) /\ m \in R
            BY <3>1, <3>3, <4>4, <6>1 DEF IsLastIn
          <6>3. ~Before(m, p) /\ ~Before(z, m)
            BY <2>3, <6>2
          <6>4. CASE OpIn(l, m).kind = "write"
            <7>1. k \in DOMAIN map /\ map[k] = OpIn(l, m).val
              BY <3>4, <6>1, <6>2, <6>4
            <7>2. TypeOf[OpIn(l, m).val] = TypeOf[op.val]
              BY <2>5, <5>2, <7>1 DEF Applicable
            <7>3. Consistent(l, S, p, m)
              BY <3>6, <4>4, <6>2
            <7>4. CASE TypeOf[OpIn(l, p).val] = TypeOf[OpIn(l, m).val]
              BY <4>4, <7>2, <7>4 DEF Consistent
            <7>5. CASE \E r \in S : OpIn(l, r).kind = "delete" /\ ~Before(r, p) /\ ~Before(m, r)
              <8>1. PICK r \in S : OpIn(l, r).kind = "delete" /\ ~Before(r, p)
                BY <7>5
              <8>2. r \in R /\ ~Before(z, r)
                BY <2>3, <3>1, <3>3
              <8> QED
                BY <4>4, <8>1, <8>2 DEF Consistent
            <7> QED
              BY <6>3, <7>3, <7>4, <7>5 DEF Consistent
          <6>5. CASE OpIn(l, m).kind # "write"
            <7>1. OpIn(l, m).kind = "delete"
              BY <3>3, <6>2, <6>5 DEF Op
            <7> QED
              BY <4>4, <6>2, <6>3, <7>1 DEF Consistent
          <6> QED
            BY <6>4, <6>5
        <5> QED
          BY <5>1, <5>2
      <4> QED
        BY <3>1, <4>1, <4>2, <4>3, <4>4
    <3>10. k \in DOMAIN new <=>
             \E p \in T \union {z} : IsLastIn(R, p) /\ OpIn(l, p).kind = "write"
      BY <3>2, <3>8
    <3>11. \A p \in T \union {z} :
             IsLastIn(R, p) /\ OpIn(l, p).kind = "write" => new[k] = OpIn(l, p).val
      BY <3>2, <3>8
    <3> QED
      BY <3>9, <3>10, <3>11 DEF KeyHistory, R
  <2> QED
    BY <2>4, <2>5
<1> QED
  BY <1>1 DEF History

\* Logs that agree up to n have the same operations there.
LEMMA SamePositions ==
  ASSUME NEW l, NEW m, NEW n \in Nat, \A i \in 1..n : m[i] = l[i]
  PROVE  /\ Positions(m, n) = Positions(l, n)
         /\ \A p \in Positions(l, n) : OpIn(m, p) = OpIn(l, p)
         /\ \A k : On(m, Positions(m, n), k) = On(l, Positions(l, n), k)
<1>1. \A p \in (1..n) \X (1..MaxBatch) : p[1] \in 1..n /\ m[p[1]] = l[p[1]]
  OBVIOUS
<1>2. Positions(m, n) = Positions(l, n)
  BY <1>1 DEF Positions
<1>3. \A p \in Positions(l, n) : OpIn(m, p) = OpIn(l, p)
  BY <1>1 DEF Positions, OpIn
<1> QED
  BY <1>2, <1>3 DEF On

LEMMA SameHistory ==
  ASSUME NEW l, NEW m, NEW T, NEW map, \A p \in T : OpIn(m, p) = OpIn(l, p), History(l, T, map)
  PROVE  History(m, T, map)
<1>1. ASSUME NEW k \in Key PROVE KeyHistory(m, T, map, k)
  <2>1. PICK S : S = On(l, T, k)
    OBVIOUS
  <2>2. On(m, T, k) = S /\ S \subseteq T
    BY <2>1 DEF On
  <2>3. /\ k \in DOMAIN map <=> \E p \in T : IsLastIn(S, p) /\ OpIn(l, p).kind = "write"
        /\ \A p \in T : IsLastIn(S, p) /\ OpIn(l, p).kind = "write" => map[k] = OpIn(l, p).val
        /\ \A p, q \in S : Consistent(l, S, p, q)
    BY <2>1 DEF History, KeyHistory
  <2>4. \A p, q \in S : Consistent(m, S, p, q)
    BY <2>2, <2>3 DEF Consistent
  <2>5. /\ k \in DOMAIN map <=> \E p \in T : IsLastIn(S, p) /\ OpIn(m, p).kind = "write"
        /\ \A p \in T : IsLastIn(S, p) /\ OpIn(m, p).kind = "write" => map[k] = OpIn(m, p).val
    BY <2>3
  <2> QED
    BY <2>2, <2>4, <2>5 DEF KeyHistory
<1> QED
  BY <1>1 DEF History

\* The positions an event adds: one for each of its operations.
LEMMA MorePositions ==
  ASSUME NEW m, NEW n \in Nat, NEW ops, ops = m[n + 1].body.ops, NEW j \in 0..MaxBatch,
         DOMAIN ops = 1..j
  PROVE  Positions(m, n + 1) = Positions(m, n) \union {<<n + 1, i>> : i \in 1..j}
<1>1. ASSUME NEW p
      PROVE  p \in Positions(m, n + 1) <=>
               p \in Positions(m, n) \union {<<n + 1, i>> : i \in 1..j}
  <2>1. CASE p \notin (1..(n + 1)) \X (1..MaxBatch)
    <3>1. p \notin Positions(m, n + 1)
      BY <2>1 DEF Positions
    <3>2. p \notin Positions(m, n)
      BY <2>1 DEF Positions
    <3>3. \A i \in 1..j : <<n + 1, i>> \in (1..(n + 1)) \X (1..MaxBatch)
      BY LengthAssumption
    <3> QED
      BY <2>1, <3>1, <3>2, <3>3
  <2>2. CASE p \in (1..(n + 1)) \X (1..MaxBatch)
    <3>1. PICK a \in 1..(n + 1), b \in 1..MaxBatch : p = <<a, b>>
      BY <2>2
    <3>2. p \in Positions(m, n + 1) <=> b \in DOMAIN m[a].body.ops
      BY <2>2, <3>1 DEF Positions
    <3>3. p \in Positions(m, n) <=> a \in 1..n /\ b \in DOMAIN m[a].body.ops
      BY <3>1 DEF Positions
    <3>4. p \in {<<n + 1, i>> : i \in 1..j} <=> a = n + 1 /\ b \in 1..j
      <4>1. \A i : <<a, b>> = <<n + 1, i>> <=> a = n + 1 /\ b = i
        OBVIOUS
      <4> QED
        BY <3>1, <4>1
    <3>5. a \in 1..n <=> a # n + 1
      OBVIOUS
    <3> QED
      BY <3>2, <3>3, <3>4, <3>5
  <2> QED
    BY <2>1, <2>2
<1> QED
  BY <1>1

\* An event that replay accepts continues the history.
LEMMA EventHistory ==
  ASSUME NEW l \in Seq(Event), NEW e, Fed(e), NEW map \in StateMap,
         ApplyFault(map, e.body) = "ok",
         History(l, Positions(l, Len(l)), map)
  PROVE  History(Append(l, e), Positions(Append(l, e), Len(l) + 1), AfterOps(map, e.body.ops))
<1>1. PICK m, n, ops : m = Append(l, e) /\ n = Len(l) /\ ops = e.body.ops
  OBVIOUS
<1> SUFFICES History(m, Positions(m, n + 1), AfterOps(map, ops))
  BY <1>1
<1>2. /\ e \in Event /\ ops \in Seq(Op) /\ Len(ops) \in 0..MaxBatch /\ DOMAIN ops = 1..Len(ops)
      /\ \A i \in 1..Len(ops) : ops[i] \in Op
      /\ n \in Nat /\ m \in Seq(Event) /\ Len(m) = n + 1 /\ m[n + 1] = e
      /\ \A i \in 1..n : m[i] = l[i]
  <2>1. e \in Event /\ ops \in Seq(Op) /\ Len(ops) <= MaxBatch
    BY <1>1 DEF Fed, Event, Body
  <2>2. Len(ops) \in 0..MaxBatch /\ DOMAIN ops = 1..Len(ops) /\ \A i \in 1..Len(ops) : ops[i] \in Op
    <3>1. ops \in Seq(Op) /\ Len(ops) <= MaxBatch
      BY <2>1
    <3>2. Len(ops) \in Nat /\ DOMAIN ops = 1..Len(ops)
      BY <3>1
    <3>3. \A i \in 1..Len(ops) : ops[i] \in Op
      BY <3>1
    <3> QED
      BY <3>1, <3>2, <3>3
  <2>3. /\ n \in Nat /\ m \in Seq(Event) /\ Len(m) = n + 1 /\ m[n + 1] = e
        /\ \A i \in 1..n : m[i] = l[i]
    <3> HIDE DEF Event
    <3> QED
      BY <1>1, <2>1
  <2> QED
    BY <2>1, <2>2, <2>3
<1>3. PICK T : T = Positions(m, n)
  OBVIOUS
<1>4. History(m, T, map) /\ T \subseteq (1..n) \X (1..MaxBatch)
  <2>1. T = Positions(l, n) /\ \A p \in T : OpIn(m, p) = OpIn(l, p)
    BY <1>2, <1>3, SamePositions
  <2>2. History(l, T, map)
    BY <1>1, <2>1
  <2> QED
    BY <1>3, <2>1, <2>2, SameHistory DEF Positions
<1>5. \A p \in Positions(m, n + 1) : OpIn(m, p) \in Op
  <2>1. \A i \in 1..(n + 1) : m[i].body.ops \in Seq(Op)
    <3>1. \A x \in Event : x.body.ops \in Seq(Op)
      BY DEF Event, Body
    <3>2. \A i \in 1..(n + 1) : m[i] \in Event
      BY <1>2
    <3> QED
      BY <3>1, <3>2
  <2>2. \A i \in 1..(n + 1) : \A j \in DOMAIN m[i].body.ops : m[i].body.ops[j] \in Op
    BY <2>1
  <2> QED
    BY <2>2 DEF Positions, OpIn
<1>6. Positions(m, n + 1) = T \union {<<n + 1, i>> : i \in 1..Len(ops)}
  <2>1. PICK j : j = Len(ops)
    OBVIOUS
  <2>2. j \in 0..MaxBatch /\ DOMAIN ops = 1..j /\ ops = m[n + 1].body.ops /\ n \in Nat
    BY <1>1, <1>2, <2>1
  <2>3. Positions(m, n + 1) = Positions(m, n) \union {<<n + 1, i>> : i \in 1..j}
    BY <2>2, MorePositions
  <2> QED
    BY <1>3, <2>1, <2>3
<1>7. T \subseteq (1..(n + 1)) \X (1..MaxBatch)
  BY <1>2, <1>4
<1>8. PICK s : s = Staged(map, ops)
  OBVIOUS
<1>9. /\ s[0] = map /\ AfterOps(map, ops) = s[Len(ops)]
      /\ \A i \in 1..Len(ops) : s[i] = ApplyOp(s[i - 1], ops[i])
  BY <1>2, <1>8, StagedSteps, SMTT(20) DEF AfterOps
<1>10. \A i \in 1..Len(ops) : Applicable(s[i - 1], ops[i])
  <2>1. CASE e.body.kind \in {"write", "delete", "batch"}
    <3>1. AllApplicable(map, ops)
      BY <1>1, <2>1 DEF ApplyFault
    <3> QED
      BY <1>2, <1>8, <3>1 DEF AllApplicable
  <2>2. CASE e.body.kind \in {"seal", "compact"}
    <3>1. Len(ops) = 0
      BY <1>1, <2>2 DEF Fed
    <3> QED
      BY <3>1
  <2>3. CASE e.body.kind \notin {"write", "delete", "batch", "seal", "compact"}
    BY <2>3 DEF ApplyFault
  <2> QED
    BY <2>1, <2>2, <2>3
<1> DEFINE U(i) == T \union {<<n + 1, h>> : h \in 1..i}
           S == {i \in Nat : i <= Len(ops) => History(m, U(i), s[i]) /\ s[i] \in StateMap}
<1>11. 0 \in S
  <2>1. 1..0 = {}
    OBVIOUS
  <2>2. U(0) = T
    BY <2>1
  <2> QED
    BY <1>4, <1>9, <2>2
<1>12. ASSUME NEW i \in Nat, i \in S PROVE i + 1 \in S
  <2> SUFFICES ASSUME i + 1 <= Len(ops)
               PROVE  History(m, U(i + 1), s[i + 1]) /\ s[i + 1] \in StateMap
    OBVIOUS
  <2>1. i + 1 \in 1..Len(ops) /\ (i + 1) - 1 = i /\ i <= Len(ops)
    BY <1>2
  <2>2. History(m, U(i), s[i]) /\ s[i] \in StateMap
    BY <1>12, <2>1
  <2>3. PICK j, N, V, z : j = i + 1 /\ N = n + 1 /\ V = U(i) /\ z = <<n + 1, i + 1>>
    OBVIOUS
  <2>4. /\ ops[j] \in Op /\ s[j] = ApplyOp(s[i], ops[j]) /\ Applicable(s[i], ops[j])
        /\ j \in 1..MaxBatch /\ N \in Nat /\ N \in 1..N
    BY <1>2, <1>9, <1>10, <2>1, <2>3, LengthAssumption
  <2>5. \A h \in 1..i : h \in 1..Len(ops) /\ h \in 1..MaxBatch /\ h < j
    BY <1>2, <2>1, <2>3, LengthAssumption
  <2>6. \A p \in V : p \in T \/ \E h \in 1..i : p = <<N, h>>
    BY <2>3
  <2>7. V \subseteq (1..N) \X (1..MaxBatch) /\ z \in (1..N) \X (1..MaxBatch)
    BY <1>7, <2>3, <2>4, <2>5, <2>6
  <2>8. \A p \in V : OpIn(m, p) \in Op
    BY <1>5, <1>6, <2>3, <2>5, <2>6
  <2>9. ASSUME NEW p \in V PROVE Before(p, z)
    <3>1. CASE p \in T
      <4>1. p[1] \in 1..n
        BY <1>4, <3>1
      <4>2. p[1] < N
        BY <1>2, <2>3, <4>1
      <4> QED
        BY <2>3, <4>2 DEF Before
    <3>2. CASE \E h \in 1..i : p = <<N, h>>
      BY <2>3, <2>5, <3>2 DEF Before
    <3> QED
      BY <2>6, <3>1, <3>2
  <2>10. ops[j] = OpIn(m, z)
    BY <1>1, <1>2, <2>3 DEF OpIn
  <2>11. PICK st, new : st = s[i] /\ new = s[j]
    OBVIOUS
  <2>12. History(m, V, st) /\ st \in StateMap /\ new = ApplyOp(st, ops[j]) /\ Applicable(st, ops[j])
    BY <2>2, <2>3, <2>4, <2>11
  <2>13. History(m, V \union {z}, new)
    BY <2>4, <2>7, <2>8, <2>9, <2>10, <2>12, OneMore
  <2>14. U(i + 1) = V \union {z}
    <3>1. 1..(i + 1) = (1..i) \union {i + 1}
      OBVIOUS
    <3>2. {<<n + 1, h>> : h \in 1..(i + 1)} = {<<n + 1, h>> : h \in 1..i} \union {<<n + 1, i + 1>>}
      BY <3>1
    <3> QED
      BY <2>3, <3>2
  <2>15. new \in StateMap
    BY <2>4, <2>12, ApplyOpType
  <2> QED
    BY <2>3, <2>11, <2>13, <2>14, <2>15
<1>13. Len(ops) \in Nat
  BY <1>2
<1>14. Len(ops) \in S
  <2> HIDE DEF S
  <2> QED
    BY <1>11, <1>12, <1>13, Induction
<1>15. History(m, U(Len(ops)), s[Len(ops)])
  BY <1>13, <1>14
<1> QED
  BY <1>6, <1>9, <1>15

\* MapAfter, of any log.
LastIn(l, n, k) ==
  LET S == On(l, Positions(l, n), k)
  IN  OpIn(l, CHOOSE p \in S : \A q \in S \ {p} : Before(q, p))

MapIn(l, n) ==
  [k \in {x \in Key : On(l, Positions(l, n), x) # {} /\ LastIn(l, n, x).kind = "write"} |->
     LastIn(l, n, k).val]

\* LastIn is the operation at the last of the positions.
LEMMA LastInIs ==
  ASSUME NEW l, NEW n \in Nat, NEW k, On(l, Positions(l, n), k) # {}
  PROVE  \E p \in Positions(l, n) :
           /\ IsLastIn(On(l, Positions(l, n), k), p)
           /\ LastIn(l, n, k) = OpIn(l, p)
           /\ \A q : IsLastIn(On(l, Positions(l, n), k), q) => q = p
<1> DEFINE S == On(l, Positions(l, n), k)
           c == CHOOSE p \in S : \A q \in S \ {p} : Before(q, p)
<1>1. S \subseteq Positions(l, n) /\ S \subseteq (1..n) \X (1..MaxBatch) /\ S # {}
  BY DEF On, Positions
<1>2. LastIn(l, n, k) = OpIn(l, c)
  BY DEF LastIn
<1> HIDE DEF S
<1>3. \E p : IsLastIn(S, p)
  BY <1>1, LastExists
<1>4. IsLastIn(S, c)
  BY <1>3 DEF IsLastIn
<1> HIDE DEF c
<1>5. ASSUME NEW q, IsLastIn(S, q), q # c PROVE FALSE
  <2>1. q \in S /\ c \in S /\ Before(q, c) /\ Before(c, q)
    BY <1>4, <1>5 DEF IsLastIn
  <2>2. q \in Nat \X Nat /\ c \in Nat \X Nat
    BY <1>1, <2>1
  <2> QED
    BY <2>1, <2>2, PositionOrder
<1>6. c \in Positions(l, n)
  BY <1>1, <1>4 DEF IsLastIn
<1> QED
  BY <1>2, <1>4, <1>5, <1>6 DEF S

\* A map with the history of a log is the map the log says.
LEMMA HistoryMap ==
  ASSUME NEW l, NEW n \in Nat, NEW map \in StateMap, History(l, Positions(l, n), map)
  PROVE  map = MapIn(l, n)
<1> DEFINE T == Positions(l, n)
           D == {x \in Key : On(l, T, x) # {} /\ LastIn(l, n, x).kind = "write"}
<1>1. PICK E \in SUBSET Key : map \in [E -> Values]
  BY DEF StateMap
<1>2. ASSUME NEW k \in Key
      PROVE  /\ k \in E <=> k \in D
             /\ k \in E => map[k] = LastIn(l, n, k).val
  <2>1. /\ k \in DOMAIN map <=> \E p \in T : IsLastIn(On(l, T, k), p) /\ OpIn(l, p).kind = "write"
        /\ \A p \in T : IsLastIn(On(l, T, k), p) /\ OpIn(l, p).kind = "write" =>
                          map[k] = OpIn(l, p).val
    BY DEF History, KeyHistory
  <2>2. DOMAIN map = E
    BY <1>1
  <2>3. CASE On(l, T, k) = {}
    <3>1. \A p : ~IsLastIn(On(l, T, k), p)
      BY <2>3 DEF IsLastIn
    <3> QED
      BY <2>1, <2>2, <2>3, <3>1
  <2>4. CASE On(l, T, k) # {}
    <3>1. PICK p \in T : /\ IsLastIn(On(l, T, k), p)
                         /\ LastIn(l, n, k) = OpIn(l, p)
                         /\ \A q : IsLastIn(On(l, T, k), q) => q = p
      BY <2>4, LastInIs
    <3>2. k \in E <=> OpIn(l, p).kind = "write"
      BY <2>1, <2>2, <3>1
    <3> QED
      BY <2>1, <2>4, <3>1, <3>2
  <2> QED
    BY <2>3, <2>4
<1>3. E = D
  BY <1>2
<1>4. MapIn(l, n) = [k \in D |-> LastIn(l, n, k).val]
  BY DEF MapIn
<1> HIDE DEF D
<1>5. map = [k \in E |-> map[k]]
  BY <1>1
<1>6. \A k \in E : map[k] = LastIn(l, n, k).val
  BY <1>1, <1>2
<1> QED
  BY <1>3, <1>4, <1>5, <1>6

\* The map a log says depends on the events up to there alone.
LEMMA SameMap ==
  ASSUME NEW l, NEW m, NEW n \in Nat, \A i \in 1..n : m[i] = l[i]
  PROVE  MapIn(m, n) = MapIn(l, n)
<1>1. /\ \A p \in Positions(l, n) : OpIn(m, p) = OpIn(l, p)
      /\ \A k : On(m, Positions(m, n), k) = On(l, Positions(l, n), k)
  BY SamePositions
<1>2. ASSUME NEW k, On(l, Positions(l, n), k) # {} PROVE LastIn(m, n, k) = LastIn(l, n, k)
  <2>1. PICK p \in Positions(l, n) : /\ IsLastIn(On(l, Positions(l, n), k), p)
                                     /\ LastIn(l, n, k) = OpIn(l, p)
    BY <1>2, LastInIs
  <2>2. PICK q \in Positions(m, n) :
           /\ LastIn(m, n, k) = OpIn(m, q)
           /\ \A x : IsLastIn(On(m, Positions(m, n), k), x) => x = q
    BY <1>1, <1>2, LastInIs
  <2>3. p = q
    BY <1>1, <2>1, <2>2
  <2> QED
    BY <1>1, <2>1, <2>2, <2>3
<1> DEFINE D == {x \in Key : On(l, Positions(l, n), x) # {} /\ LastIn(l, n, x).kind = "write"}
<1>3. {x \in Key : On(m, Positions(m, n), x) # {} /\ LastIn(m, n, x).kind = "write"} = D
  BY <1>1, <1>2
<1>4. MapIn(m, n) = [k \in D |-> LastIn(m, n, k).val]
  BY <1>3 DEF MapIn
<1>5. \A k \in D : LastIn(m, n, k) = LastIn(l, n, k)
  BY <1>2
<1>6. MapIn(l, n) = [k \in D |-> LastIn(l, n, k).val]
  BY DEF MapIn
<1> HIDE DEF D
<1> QED
  BY <1>4, <1>5, <1>6

\* An event of the log against the engine that applied them all.
Fits(l, eng, i) ==
  /\ l[i].body.kind \in {"seal", "compact"} => l[i].body.root = MapIn(l, i)
  /\ l[i].body.ns = eng.ns
  /\ \A j \in DOMAIN l[i].body.ops : l[i].body.ops[j].key.ns = eng.ns
  /\ l[i].body.tick <= eng.tick
  /\ l[i].body.kind = "seal" =>
       l[i].body.ts \in Nat /\ eng.ts \in Nat /\ l[i].body.ts <= eng.ts

\* Two events, the first of which comes before the second.
InOrder(d, e) ==
  /\ d.body.kind = "seal" /\ e.body.kind = "seal" => d.body.ts <= e.body.ts
  /\ e.body.tick > 0 => d.body.tick <= e.body.tick

\* What the events of a log that replays are to the engine.
Content(l, eng) ==
  /\ History(l, Positions(l, Len(l)), eng.map)
  /\ \A i \in 1..Len(l) : Fits(l, eng, i)
  /\ \A i, j \in 1..Len(l) : i < j => InOrder(l[i], l[j])

ContentInv == Inv /\ (full.status = "ok" => Content(log, full))

\* An engine goes on only with an event that fits the ones before it.
LEMMA ContentStep ==
  ASSUME NEW l \in Seq(Event), NEW eng \in Engine, Content(l, eng), NEW e, Fed(e), Accepts(eng, e),
         NEW new, new = Applied(eng, e), NEW m, m = Append(l, e)
  PROVE  Content(m, new)
<1>1. PICK n : n = Len(l)
  OBVIOUS
<1>2. /\ n \in Nat /\ e \in Event /\ m \in Seq(Event) /\ Len(m) = n + 1 /\ m[n + 1] = e
      /\ \A i \in 1..n : m[i] = l[i] /\ l[i] \in Event
  <2>1. e \in Event
    BY DEF Fed
  <2> HIDE DEF Event
  <2> QED
    BY <1>1, <2>1
<1>3. /\ new.map = AfterOps(eng.map, e.body.ops)
      /\ new.ns = e.body.ns
      /\ new.ts = IF e.body.kind = "seal" THEN e.body.ts ELSE eng.ts
      /\ new.tick = IF e.body.tick > 0 THEN e.body.tick ELSE eng.tick
  BY DEF Applied, Past, Engine
<1>4. /\ eng.map \in StateMap /\ eng.tick \in Nat /\ eng.ts \in Nat \union {None}
      /\ e.body.tick \in Nat /\ e.body.ts \in Nat \union {None}
      /\ e.body.ops \in Seq(Op) /\ Len(e.body.ops) <= MaxBatch
      /\ eng.ns \in Namespaces \union {None} /\ e.body.ns \in Namespaces
  BY <1>2 DEF Engine, Event, Body, Fed
<1>5. /\ eng.ns # None => e.body.ns = eng.ns
      /\ ValidDigest(e)
      /\ ClockFault(eng, e.body) = "ok"
      /\ ApplyFault(eng.map, e.body) = "ok"
  BY DEF Accepts
<1>6. \A i \in 1..n : Fits(l, eng, i)
  BY <1>1 DEF Content
<1>7. \A i \in 1..n : eng.ns = e.body.ns
  <2> SUFFICES ASSUME NEW i \in 1..n PROVE eng.ns = e.body.ns
    OBVIOUS
  <2>1. l[i].body.ns = eng.ns /\ l[i] \in Event
    BY <1>2, <1>6 DEF Fits
  <2>2. l[i].body.ns \in Namespaces
    BY <2>1 DEF Event, Body
  <2>3. None \notin Namespaces
    BY NoneAssumption
  <2> QED
    BY <1>5, <2>1, <2>2, <2>3
<1>8. History(m, Positions(m, n + 1), new.map)
  <2>1. History(l, Positions(l, Len(l)), eng.map)
    BY DEF Content
  <2> QED
    BY <1>1, <1>3, <1>4, <1>5, <2>1, EventHistory
<1>9. new.map = MapIn(m, n + 1)
  <2>1. new.map \in StateMap
    BY <1>3, <1>4, AfterOpsType
  <2>2. n + 1 \in Nat
    BY <1>2
  <2> QED
    BY <1>8, <2>1, <2>2, HistoryMap
<1>10. eng.tick <= new.tick /\ e.body.tick <= new.tick
  <2>1. ~(e.body.tick > 0 /\ e.body.tick < eng.tick)
    BY <1>5 DEF ClockFault
  <2> QED
    BY <1>3, <1>4, <2>1
<1>11. e.body.kind = "seal" => e.body.ts \in Nat /\ (eng.ts \in Nat => eng.ts <= e.body.ts)
  <2> SUFFICES ASSUME e.body.kind = "seal"
               PROVE  e.body.ts \in Nat /\ (eng.ts \in Nat => eng.ts <= e.body.ts)
    OBVIOUS
  <2>1. e.body.ts # None /\ ~(eng.ts # None /\ e.body.ts < eng.ts)
    BY <1>5 DEF ClockFault
  <2>2. None \notin Nat
    BY NoneAssumption
  <2>3. e.body.ts \in Nat
    BY <1>4, <2>1
  <2>4. ASSUME eng.ts \in Nat PROVE eng.ts <= e.body.ts
    <3>1. eng.ts # None
      BY <2>2, <2>4
    <3> QED
      BY <2>1, <2>3, <2>4, <3>1
  <2> QED
    BY <2>3, <2>4
<1>12. ASSUME NEW i \in 1..n PROVE Fits(m, new, i)
  <2>1. Fits(l, eng, i) /\ m[i] = l[i] /\ l[i] \in Event /\ new.ns = eng.ns
    BY <1>2, <1>3, <1>6, <1>7
  <2>2. MapIn(m, i) = MapIn(l, i)
    <3>1. i \in Nat /\ \A j \in 1..i : m[j] = l[j]
      BY <1>2
    <3> QED
      BY <3>1, SameMap
  <2>3. l[i].body.tick \in Nat
    BY <2>1 DEF Event, Body
  <2>4. l[i].body.tick <= new.tick
    <3>1. l[i].body.tick <= eng.tick
      BY <2>1 DEF Fits
    <3>2. new.tick \in Nat
      BY <1>3, <1>4
    <3> QED
      BY <1>4, <1>10, <2>3, <3>1, <3>2
  <2>5. l[i].body.kind = "seal" =>
          l[i].body.ts \in Nat /\ new.ts \in Nat /\ l[i].body.ts <= new.ts
    <3> SUFFICES ASSUME l[i].body.kind = "seal"
                 PROVE  l[i].body.ts \in Nat /\ new.ts \in Nat /\ l[i].body.ts <= new.ts
      OBVIOUS
    <3>1. l[i].body.ts \in Nat /\ eng.ts \in Nat /\ l[i].body.ts <= eng.ts
      BY <2>1 DEF Fits
    <3> QED
      BY <1>3, <1>11, <3>1
  <2> QED
    BY <2>1, <2>2, <2>4, <2>5 DEF Fits
<1>13. Fits(m, new, n + 1)
  <2>1. e.body.kind \in {"seal", "compact"} => e.body.root = MapIn(m, n + 1)
    <3> SUFFICES ASSUME e.body.kind \in {"seal", "compact"} PROVE e.body.root = MapIn(m, n + 1)
      OBVIOUS
    <3>1. e.body.root = eng.map
      BY <1>5 DEF ApplyFault
    <3>2. new.map = eng.map
      BY <1>3, AfterNoOps DEF Fed
    <3> QED
      BY <1>9, <3>1, <3>2
  <2>2. \A j \in DOMAIN e.body.ops : e.body.ops[j].key.ns = new.ns
    BY <1>3, <1>5 DEF ValidDigest, OwnKey
  <2>3. e.body.kind = "seal" => e.body.ts \in Nat /\ new.ts \in Nat /\ e.body.ts <= new.ts
    BY <1>3, <1>11
  <2> QED
    BY <1>2, <1>3, <1>10, <2>1, <2>2, <2>3 DEF Fits
<1>14. ASSUME NEW i \in 1..n PROVE InOrder(m[i], e)
  <2>1. Fits(l, eng, i) /\ m[i] = l[i] /\ l[i] \in Event
    BY <1>2, <1>6
  <2>2. /\ l[i].body.tick \in Nat /\ l[i].body.tick <= eng.tick
        /\ l[i].body.kind = "seal" =>
             l[i].body.ts \in Nat /\ eng.ts \in Nat /\ l[i].body.ts <= eng.ts
    BY <2>1 DEF Fits, Event, Body
  <2>3. e.body.tick > 0 => eng.tick <= e.body.tick
    BY <1>3, <1>10
  <2>4. e.body.tick > 0 => l[i].body.tick <= e.body.tick
    BY <1>4, <2>2, <2>3
  <2>5. l[i].body.kind = "seal" /\ e.body.kind = "seal" => l[i].body.ts <= e.body.ts
    BY <1>11, <2>2
  <2> QED
    BY <2>1, <2>4, <2>5 DEF InOrder
<1>15. \A i \in 1..(n + 1) : i \in 1..n \/ i = n + 1
  BY <1>2
<1>16. \A i \in 1..(n + 1) : Fits(m, new, i)
  BY <1>12, <1>13, <1>15
<1>17. ASSUME NEW i \in 1..(n + 1), NEW j \in 1..(n + 1), i < j PROVE InOrder(m[i], m[j])
  <2>1. i \in 1..n
    BY <1>2, <1>17
  <2>2. CASE j = n + 1
    BY <1>2, <1>14, <2>1, <2>2
  <2>3. CASE j \in 1..n
    BY <1>1, <1>2, <1>17, <2>1, <2>3 DEF Content
  <2> QED
    BY <1>15, <2>2, <2>3
<1> QED
  BY <1>2, <1>8, <1>16, <1>17 DEF Content

\* What replays has this content, after every step.
LEMMA ContentInvariance == Spec => []ContentInv
<1>1. Init => ContentInv
  <2> SUFFICES ASSUME Init PROVE Content(log, full)
    BY InitInv DEF ContentInv
  <2>1. log = << >> /\ Len(log) = 0 /\ full.map = EmptyMap
    BY DEF Init, FromGenesis
  <2>2. \A T, k : T = {} => On(log, T, k) = {}
    BY DEF On
  <2>3. Positions(log, Len(log)) = {}
    BY <2>1 DEF Positions
  <2>4. DOMAIN EmptyMap = {}
    BY DEF EmptyMap
  <2>5. History(log, {}, full.map)
    BY <2>1, <2>2, <2>4 DEF History, KeyHistory
  <2> QED
    BY <2>1, <2>3, <2>5 DEF Content
<1>2. ContentInv /\ [Next]_vars => ContentInv'
  <2> SUFFICES ASSUME ContentInv, [Next]_vars PROVE ContentInv'
    OBVIOUS
  <2>1. Inv /\ Inv'
    BY NextInv DEF ContentInv
  <2>2. PICK m, new : m = log' /\ new = full'
    OBVIOUS
  <2> SUFFICES ASSUME new.status = "ok" PROVE Content(m, new)
    <3>1. Content(log, full)' <=> Content(log', full')
      BY DEF Content, History, KeyHistory, Fits
    <3> QED
      BY <2>1, <2>2, <3>1 DEF ContentInv
  <2>3. CASE Feed
    <3>1. PICK e : Fed(e) /\ log' = Append(log, e) /\ full' = Advance(full, e)
      BY <2>1, <2>3, FeedEvent
    <3>2. log \in Seq(Event) /\ full \in Engine /\ Sane(full) /\ e \in Event
      BY <2>1, <3>1 DEF Inv, TypeOK, Fed
    <3>3. Accepts(full, e) /\ new = Applied(full, e)
      BY <2>2, <3>1, <3>2, AdvanceOk
    <3>4. Content(log, full)
      BY <3>3 DEF ContentInv, Accepts
    <3> QED
      BY <2>2, <3>1, <3>2, <3>3, <3>4, ContentStep
  <2>4. CASE Resume \/ UNCHANGED vars
    <3>1. log' = log /\ full' = full
      BY <2>4 DEF Resume, vars
    <3> QED
      BY <2>2, <3>1 DEF ContentInv
  <2> QED
    BY <2>3, <2>4 DEF Next
<1> QED
  BY <1>1, <1>2, PTL DEF Spec

\* The properties speak of the log itself.
LEMMA AfterIs ==
  /\ \A p : OpAt(p) = OpIn(log, p)
  /\ \A n, k : Touching(n, k) = On(log, Positions(log, n), k)
  /\ \A n : MapAfter(n) = MapIn(log, n)
<1>1. \A p : OpAt(p) = OpIn(log, p)
  BY DEF OpAt, OpIn
<1>2. ASSUME NEW n, NEW k PROVE Touching(n, k) = On(log, Positions(log, n), k)
  BY DEF Touching, On, Positions, OpIn
<1>3. ASSUME NEW n, NEW k PROVE LastOn(n, k) = LastIn(log, n, k)
  BY <1>1, <1>2, Zenon DEF LastOn, LastIn
<1>4. ASSUME NEW n PROVE MapAfter(n) = MapIn(log, n)
  <2> DEFINE D == {x \in Key : Touching(n, x) # {} /\ LastOn(n, x).kind = "write"}
  <2>1. MapAfter(n) = [k \in D |-> LastOn(n, k).val]
    BY DEF MapAfter
  <2>2. MapIn(log, n) = [k \in D |-> LastOn(n, k).val]
    BY <1>2, <1>3 DEF MapIn
  <2> HIDE DEF D
  <2> QED
    BY <2>1, <2>2
<1> QED
  BY <1>1, <1>2, <1>4

\* apply_event and apply_batch over a whole log, last write by last write: the
\* state a replay returns is what the log says.
THEOREM MapsAreLastWrites == Spec => []MapIsLastWrite
<1>1. ContentInv => MapIsLastWrite
  <2> SUFFICES ASSUME ContentInv, full.status = "ok" PROVE full.map = MapAfter(Len(log))
    BY DEF MapIsLastWrite
  <2>1. History(log, Positions(log, Len(log)), full.map)
    BY DEF ContentInv, Content
  <2>2. full.map \in StateMap /\ Len(log) \in Nat
    BY DEF ContentInv, Inv, TypeOK, Engine
  <2>3. full.map = MapIn(log, Len(log))
    BY <2>1, <2>2, HistoryMap
  <2> QED
    BY <2>3, AfterIs
<1> QED
  BY <1>1, ContentInvariance, PTL

\* The type check of a write looks at the value it replaces only, yet holds over
\* the whole log, batches included: the type of a key changes by a delete alone.
THEOREM TypesAlwaysHeld == Spec => []TypesHeld
<1>1. ContentInv => TypesHeld
  <2> SUFFICES ASSUME ContentInv, full.status = "ok", NEW k \in Key,
                      NEW p \in Touching(Len(log), k), NEW q \in Touching(Len(log), k)
               PROVE  \/ TypeOf[OpAt(p).val] = TypeOf[OpAt(q).val]
                      \/ \E r \in Touching(Len(log), k) :
                           OpAt(r).kind = "delete" /\ ~Before(r, p) /\ ~Before(q, r)
                      \/ Before(q, p)
    BY DEF TypesHeld
  <2>1. PICK T, S : T = Positions(log, Len(log)) /\ S = On(log, T, k)
    OBVIOUS
  <2>2. KeyHistory(log, T, full.map, k)
    BY <2>1 DEF ContentInv, Content, History
  <2>3. Touching(Len(log), k) = S
    BY <2>1, AfterIs
  <2>4. Consistent(log, S, p, q)
    BY <2>1, <2>2, <2>3 DEF KeyHistory
  <2>5. \A x : OpAt(x) = OpIn(log, x)
    BY AfterIs
  <2> QED
    BY <2>3, <2>4, <2>5, Zenon DEF Consistent
<1> QED
  BY <1>1, ContentInvariance, PTL

\* Each seal and compaction of a log that replays holds the root of the state
\* there, and no state has a key of a second tenant.
THEOREM SealsAlwaysCommit == Spec => []SealsCommit
<1>1. ContentInv => SealsCommit
  <2> SUFFICES ASSUME ContentInv, full.status = "ok", NEW i \in DOMAIN log
               PROVE  /\ log[i].body.kind \in {"seal", "compact"} => log[i].body.root = MapAfter(i)
                      /\ \A k \in DOMAIN MapAfter(i) : k.ns = log[1].body.ns
    BY DEF SealsCommit
  <2>1. /\ log \in Seq(Event) /\ i \in 1..Len(log) /\ Len(log) \in Nat
        /\ \A j \in 1..Len(log) : Fits(log, full, j)
    BY DEF ContentInv, Inv, TypeOK, Content
  <2>2. MapAfter(i) = MapIn(log, i)
    BY AfterIs
  <2>3. log[i].body.kind \in {"seal", "compact"} => log[i].body.root = MapAfter(i)
    BY <2>1, <2>2 DEF Fits
  <2>4. ASSUME NEW k \in DOMAIN MapAfter(i) PROVE k.ns = log[1].body.ns
    <3>1. On(log, Positions(log, i), k) # {}
      BY <2>2, <2>4 DEF MapIn
    <3>2. PICK p \in Positions(log, i) : OpIn(log, p).key = k
      BY <3>1 DEF On
    <3>3. p[1] \in 1..i /\ p[2] \in DOMAIN log[p[1]].body.ops
      BY <3>2 DEF Positions
    <3>4. p[1] \in 1..Len(log) /\ 1 \in 1..Len(log)
      BY <2>1, <3>3
    <3>5. k.ns = full.ns /\ log[1].body.ns = full.ns
      BY <2>1, <3>2, <3>3, <3>4 DEF Fits, OpIn
    <3> QED
      BY <3>5
  <2> QED
    BY <2>3, <2>4
<1> QED
  BY <1>1, ContentInvariance, PTL

\* Each check compares a clock with the last one only; together they keep all
\* seal times of a log in order, and its ticks but for those of tick 0.
THEOREM ClocksAlwaysForward == Spec => []ClocksForward
<1>1. ContentInv => ClocksForward
  <2> SUFFICES ASSUME ContentInv, full.status = "ok", NEW i \in DOMAIN log, NEW j \in DOMAIN log,
                      i < j
               PROVE  InOrder(log[i], log[j])
    BY DEF ClocksForward, InOrder
  <2>1. i \in 1..Len(log) /\ j \in 1..Len(log)
    BY DEF ContentInv, Inv, TypeOK
  <2> QED
    BY <2>1 DEF ContentInv, Content
<1> QED
  BY <1>1, ContentInvariance, PTL
=============================================================================
