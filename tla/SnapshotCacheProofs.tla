------------------------ MODULE SnapshotCacheProofs ------------------------
(***************************************************************************)
(* For any number of writers and verifiers, any log, batches, kills and    *)
(* damaged lines: what the snapshot cache holds and what verification gets *)
(* from it.                                                                *)
(***************************************************************************)
EXTENDS SnapshotCache, StateMapProofs, FiniteSetTheorems

-----------------------------------------------------------------------------
(* Replay, event by event. *)

\* f has the engine after the first 0, 1, ... n events.
IsReplay(start, events, n, f) ==
  f = [i \in 0..n |-> IF i = 0 THEN start ELSE Advance(f[i - 1], events[i])]

\* There is such a function, whatever the events.
LEMMA ReplayExists ==
  ASSUME NEW start, NEW events, NEW n \in Nat
  PROVE  \E f : IsReplay(start, events, n, f)
<1> DEFINE S == {m \in Nat : \E f : IsReplay(start, events, m, f)}
<1>1. 0 \in S
  <2>1. IsReplay(start, events, 0, [i \in 0..0 |-> start])
    BY DEF IsReplay
  <2> QED
    BY <2>1
<1>2. ASSUME NEW m \in Nat, m \in S PROVE m + 1 \in S
  <2>1. PICK f : IsReplay(start, events, m, f)
    BY <1>2
  <2> DEFINE g == [i \in 0..m + 1 |-> IF i = m + 1 THEN Advance(f[m], events[m + 1]) ELSE f[i]]
  <2>2. ASSUME NEW i \in 0..m + 1
        PROVE  g[i] = IF i = 0 THEN start ELSE Advance(g[i - 1], events[i])
    <3>1. CASE i = m + 1
      <4>1. i # 0 /\ i - 1 = m /\ m \in 0..m + 1 /\ m # m + 1
        BY <3>1
      <4> QED
        BY <3>1, <4>1
    <3>2. CASE i # m + 1
      <4>1. i \in 0..m
        BY <3>2
      <4>2. f[i] = IF i = 0 THEN start ELSE Advance(f[i - 1], events[i])
        BY <2>1, <4>1 DEF IsReplay
      <4>3. i # 0 => i - 1 \in 0..m + 1 /\ i - 1 # m + 1
        BY <4>1
      <4> QED
        BY <3>2, <4>2, <4>3
    <3> QED
      BY <3>1, <3>2
  <2>3. IsReplay(start, events, m + 1, g)
    BY <2>2 DEF IsReplay
  <2> HIDE DEF g
  <2> QED
    BY <2>3
<1> HIDE DEF S
<1>3. n \in S
  BY <1>1, <1>2, Induction
<1> QED
  BY <1>3 DEF S

\* Its values, one from the other.
Runs(start, events, n, f) == f[0] = start /\ \A i \in 1..n : f[i] = Advance(f[i - 1], events[i])

LEMMA ReplayRuns ==
  ASSUME NEW start, NEW events, NEW n \in Nat, NEW f, IsReplay(start, events, n, f)
  PROVE  Runs(start, events, n, f)
<1>1. \A i \in 0..n : f[i] = IF i = 0 THEN start ELSE Advance(f[i - 1], events[i])
  BY DEF IsReplay
<1>2. 0 \in 0..n /\ \A i \in 1..n : i \in 0..n /\ i # 0
  OBVIOUS
<1>3. f[0] = start
  BY <1>1, <1>2
<1>4. ASSUME NEW i \in 1..n PROVE f[i] = Advance(f[i - 1], events[i])
  BY <1>1, <1>2
<1> QED
  BY <1>3, <1>4 DEF Runs

\* Replayed is the last of them.
LEMMA ReplayedIs ==
  ASSUME NEW start, NEW events, Len(events) \in Nat
  PROVE  \E f : Runs(start, events, Len(events), f) /\ Replayed(start, events) = f[Len(events)]
<1> DEFINE n == Len(events)
           F == CHOOSE f : IsReplay(start, events, n, f)
<1>1. \E f : IsReplay(start, events, n, f)
  BY ReplayExists
<1>2. IsReplay(start, events, n, F)
  BY <1>1
<1>3. Replayed(start, events) = F[n]
  BY DEF Replayed, IsReplay
<1> HIDE DEF F
<1>4. Runs(start, events, n, F)
  BY <1>2, ReplayRuns
<1> QED
  BY <1>3, <1>4

\* One function has the engines after all the beginnings of a log.
Stages(start, events, f) ==
  /\ f[0] = start
  /\ \A i \in 1..Len(events) : f[i] = Advance(f[i - 1], events[i])
  /\ \A n \in 0..Len(events) : Replayed(start, SubSeq(events, 1, n)) = f[n]
  /\ Replayed(start, events) = f[Len(events)]

LEMMA ReplayStages ==
  ASSUME NEW X, NEW start, NEW events \in Seq(X)
  PROVE  \E f : Stages(start, events, f)
<1>1. PICK n : n = Len(events) /\ n \in Nat
  OBVIOUS
<1>2. PICK f : Runs(start, events, n, f) /\ Replayed(start, events) = f[n]
  BY <1>1, ReplayedIs
<1>3. f[0] = start /\ \A i \in 1..n : f[i] = Advance(f[i - 1], events[i])
  BY <1>2 DEF Runs
<1>4. ASSUME NEW m \in 0..n PROVE Replayed(start, SubSeq(events, 1, m)) = f[m]
  <2>1. PICK front : front = SubSeq(events, 1, m)
    OBVIOUS
  <2>2. Len(front) = m /\ m \in Nat /\ \A i \in 1..m : front[i] = events[i]
    BY <1>1, <2>1
  <2>3. PICK g : Runs(start, front, m, g) /\ Replayed(start, front) = g[m]
    BY <2>2, ReplayedIs
  <2>4. g[0] = start /\ \A i \in 1..m : g[i] = Advance(g[i - 1], front[i])
    BY <2>3 DEF Runs
  <2> DEFINE S == {i \in Nat : i <= m => g[i] = f[i]}
  <2>5. 0 \in S
    BY <1>3, <2>4
  <2>6. ASSUME NEW i \in Nat, i \in S PROVE i + 1 \in S
    <3>1. SUFFICES ASSUME i + 1 <= m PROVE g[i + 1] = f[i + 1]
      OBVIOUS
    <3>2. i + 1 \in 1..m /\ i + 1 \in 1..n /\ (i + 1) - 1 = i /\ i <= m
      BY <1>1, <3>1
    <3>3. g[i] = f[i]
      BY <2>6, <3>2
    <3>4. g[i + 1] = Advance(g[i], front[i + 1]) /\ f[i + 1] = Advance(f[i], events[i + 1])
      BY <1>3, <2>4, <3>2
    <3> QED
      BY <2>2, <3>2, <3>3, <3>4
  <2> HIDE DEF S
  <2>7. m \in S
    BY <2>2, <2>5, <2>6, Induction
  <2>8. g[m] = f[m]
    BY <2>2, <2>7 DEF S
  <2> QED
    BY <2>1, <2>3, <2>8
<1> QED
  BY <1>1, <1>2, <1>3, <1>4 DEF Stages

\* A record with the fields of an engine.
Plain(eng) ==
  eng = [map |-> eng.map, seq |-> eng.seq, prev |-> eng.prev, ns |-> eng.ns,
         seen |-> eng.seen, ts |-> eng.ts, tick |-> eng.tick, status |-> eng.status]

LEMMA PlainStart == Plain(FromGenesis) /\ \A s : Plain(FromSnapshot(s))
BY DEF Plain, FromGenesis, FromSnapshot

\* What an engine that goes on has found.
LEMMA AdvanceFinds ==
  ASSUME NEW eng, Plain(eng), NEW e, NEW next, next = Advance(eng, e)
  PROVE  /\ Plain(next)
         /\ next.status = "ok" => eng.status = "ok" /\ e.genuine
         /\ next.status = "ok" /\ e.body.kind = "seal" /\ e.body.ops = << >> =>
              e.body.root = next.map
<1>1. PICK map, seq, prev, ns, seen, ts, tick, status :
        eng = [map |-> map, seq |-> seq, prev |-> prev, ns |-> ns,
               seen |-> seen, ts |-> ts, tick |-> tick, status |-> status]
  BY DEF Plain
<1>2. ASSUME NEW s PROVE Plain([eng EXCEPT !.status = s]) /\ [eng EXCEPT !.status = s].status = s
  BY <1>1 DEF Plain
<1> DEFINE past == [map |-> map, seq |-> seq + 1, prev |-> DigestOf(e), ns |-> e.body.ns,
                    seen |-> seen \union {DigestOf(e)}, ts |-> ts, tick |-> tick,
                    status |-> status]
           time == IF e.body.kind = "seal" THEN e.body.ts ELSE ts
           turn == IF e.body.tick > 0 THEN e.body.tick ELSE tick
           done == [map |-> AfterOps(map, e.body.ops), seq |-> seq + 1, prev |-> DigestOf(e),
                    ns |-> e.body.ns, seen |-> seen \union {DigestOf(e)}, ts |-> time,
                    tick |-> turn, status |-> status]
<1>3. Past(eng, e) = past
  <2>1. Past(eng, e) = [eng EXCEPT !.seq = seq + 1, !.prev = DigestOf(e), !.ns = e.body.ns,
                                   !.seen = seen \union {DigestOf(e)}]
    BY <1>1 DEF Past
  <2> QED
    BY <1>1, <2>1
<1>4. Applied(eng, e) = done
  <2> HIDE DEF time, turn
  <2>1. Applied(eng, e) = [past EXCEPT !.map = AfterOps(map, e.body.ops), !.ts = time, !.tick = turn]
    BY <1>3 DEF Applied, time, turn
  <2> QED
    BY <2>1
<1>a. /\ Plain(past) /\ past.status = status /\ past.map = map
      /\ Plain(done) /\ done.status = status /\ done.map = AfterOps(map, e.body.ops)
  <2> HIDE DEF time, turn
  <2> QED
    BY DEF Plain
<1> HIDE DEF past, done
<1>5. eng.status = status /\ eng.map = map
  BY <1>1
<1>6. CASE eng.status # "ok"
  BY <1>6, Zenon DEF Advance
<1>7. CASE eng.status = "ok" /\ ChainFault(eng, e) # "ok"
  <2>1. next = [eng EXCEPT !.status = ChainFault(eng, e)]
    BY <1>7 DEF Advance
  <2> QED
    BY <1>2, <1>7, <2>1
<1>8. CASE eng.status = "ok" /\ ChainFault(eng, e) = "ok"
  <2>1. ValidDigest(e) /\ ~(Duplicate(eng, e) /\ ~Idempotent(e))
    BY <1>8, Zenon DEF ChainFault
  <2>2. e.genuine
    BY <2>1, Zenon DEF ValidDigest
  <2>3. e.body.kind = "seal" => ~Idempotent(e)
    BY DEF Idempotent
  <2>4. CASE Duplicate(eng, e)
    <3>1. next = Past(eng, e)
      BY <1>8, <2>4 DEF Advance
    <3> QED
      BY <1>3, <1>5, <1>8, <1>a, <2>1, <2>2, <2>3, <2>4, <3>1
  <2>5. CASE ~Duplicate(eng, e) /\ ClockFault(eng, e.body) # "ok"
    <3>1. next = [eng EXCEPT !.status = ClockFault(eng, e.body)]
      BY <1>8, <2>5 DEF Advance
    <3> QED
      BY <1>2, <2>5, <3>1
  <2>6. CASE /\ ~Duplicate(eng, e) /\ ClockFault(eng, e.body) = "ok"
             /\ ApplyFault(eng.map, e.body) # "ok"
    <3>1. next = [eng EXCEPT !.status = ApplyFault(eng.map, e.body)]
      BY <1>8, <2>6 DEF Advance
    <3> QED
      BY <1>2, <2>6, <3>1
  <2>7. CASE /\ ~Duplicate(eng, e) /\ ClockFault(eng, e.body) = "ok"
             /\ ApplyFault(eng.map, e.body) = "ok"
    <3>1. next = Applied(eng, e)
      BY <1>8, <2>7 DEF Advance
    <3>2. e.body.kind = "seal" => e.body.root = eng.map
      BY <2>7 DEF ApplyFault
    <3>3. AfterOps(map, << >>) = map
      BY AfterNoOps
    <3> QED
      BY <1>4, <1>5, <1>8, <1>a, <2>2, <3>1, <3>2, <3>3
  <2> QED
    BY <2>4, <2>5, <2>6, <2>7
<1> QED
  BY <1>6, <1>7, <1>8

\* A replay that ends well went well all the way.
LEMMA WellAllTheWay ==
  ASSUME NEW X, NEW start, Plain(start), NEW events \in Seq(X), NEW f, Stages(start, events, f)
  PROVE  /\ \A n \in 0..Len(events) : Plain(f[n])
         /\ f[Len(events)].status = "ok" =>
              /\ \A n \in 0..Len(events) : f[n].status = "ok"
              /\ \A i \in 1..Len(events) : events[i].genuine
<1>1. PICK n : n = Len(events) /\ n \in Nat
  OBVIOUS
<1>2. f[0] = start /\ \A i \in 1..n : f[i] = Advance(f[i - 1], events[i])
  BY <1>1 DEF Stages
<1> DEFINE S == {i \in Nat : i <= n => Plain(f[i])}
<1>3. 0 \in S
  BY <1>2
<1>4. ASSUME NEW i \in Nat, i \in S PROVE i + 1 \in S
  <2>1. SUFFICES ASSUME i + 1 <= n PROVE Plain(f[i + 1])
    OBVIOUS
  <2>2. i + 1 \in 1..n /\ (i + 1) - 1 = i /\ i <= n
    BY <1>1, <2>1
  <2>3. f[i + 1] = Advance(f[i], events[i + 1])
    BY <1>2, <2>2
  <2> QED
    BY <1>4, <2>2, <2>3, AdvanceFinds
<1> HIDE DEF S
<1>5. \A i \in Nat : i \in S
  BY <1>3, <1>4, Induction
<1>6. \A i \in 0..n : Plain(f[i])
  BY <1>1, <1>5 DEF S
<1>7. ASSUME f[n].status = "ok"
      PROVE  /\ \A i \in 0..n : f[i].status = "ok"
             /\ \A i \in 1..n : events[i].genuine
  <2> DEFINE T == {i \in Nat : i <= n => f[n - i].status = "ok"}
  <2>1. 0 \in T
    BY <1>1, <1>7
  <2>2. ASSUME NEW i \in Nat, i \in T PROVE i + 1 \in T
    <3>1. SUFFICES ASSUME i + 1 <= n PROVE f[n - (i + 1)].status = "ok"
      OBVIOUS
    <3>2. /\ n - i \in 1..n /\ (n - i) - 1 = n - (i + 1) /\ i <= n
          /\ n - (i + 1) \in 0..n
      BY <1>1, <3>1
    <3>3. f[n - i].status = "ok"
      BY <2>2, <3>2
    <3>4. f[n - i] = Advance(f[n - (i + 1)], events[n - i])
      BY <1>2, <3>2
    <3> QED
      BY <1>6, <3>2, <3>3, <3>4, AdvanceFinds
  <2> HIDE DEF T
  <2>3. \A i \in Nat : i \in T
    BY <2>1, <2>2, Induction
  <2>4. ASSUME NEW i \in 0..n PROVE f[i].status = "ok"
    <3>1. n - i \in Nat /\ n - i <= n /\ n - (n - i) = i
      BY <1>1
    <3>2. n - i \in T
      BY <2>3, <3>1
    <3> QED
      BY <3>1, <3>2 DEF T
  <2>5. ASSUME NEW i \in 1..n PROVE events[i].genuine
    <3>1. i \in 0..n /\ i - 1 \in 0..n
      BY <1>1
    <3>2. f[i] = Advance(f[i - 1], events[i]) /\ f[i].status = "ok" /\ Plain(f[i - 1])
      BY <1>2, <1>6, <2>4, <3>1
    <3> QED
      BY <3>2, AdvanceFinds, ZenonT(40)
  <2> QED
    BY <2>4, <2>5
<1> QED
  BY <1>1, <1>6, <1>7

-----------------------------------------------------------------------------
(* What a digest and a snapshot commit to. *)

\* What a seal in a log is.
Offered(e) ==
  e.body.kind = "seal" => e.body.root \in Roots /\ e.body.ts \in Nat /\ e.body.ops = << >>

\* Events that were appended one after the other, damaged since or not.
Proper(l) ==
  /\ l \in Seq(Event)
  /\ \A i \in 1..Len(l) :
       /\ Offered(l[i])
       /\ l[i].body.seq = i - 1
       /\ l[i].prev = [j \in 1..(i - 1) |-> l[j].body]

\* The events a digest commits to, as they were appended.
Committed(d) ==
  [i \in 1..Len(d) |-> [body |-> d[i], prev |-> [j \in 1..(i - 1) |-> d[j]], genuine |-> TRUE]]

\* A snapshot that the replay of the events it commits to gives.
Kept(s) ==
  /\ s \in Snapshot
  /\ Replayed(FromGenesis, Committed(s.digest)).status = "ok"
  /\ Replayed(FromGenesis, Committed(s.digest)).map = s.map

MaybeKept(s) == s = None \/ Kept(s)

\* A sequence up to one of its positions, and from there on.
LEMMA FrontIs ==
  ASSUME NEW S, NEW l \in Seq(S), NEW n \in 0..Len(l), NEW front, front = SubSeq(l, 1, n)
  PROVE  /\ front \in Seq(S) /\ Len(front) = n /\ DOMAIN front = 1..n
         /\ \A i \in 1..n : front[i] = l[i]
OBVIOUS

LEMMA RestIs ==
  ASSUME NEW S, NEW l \in Seq(S), NEW n \in 0..Len(l), NEW rest, rest = SubSeq(l, n + 1, Len(l))
  PROVE  /\ rest \in Seq(S) /\ Len(rest) = Len(l) - n /\ DOMAIN rest = 1..(Len(l) - n)
         /\ \A i \in 1..(Len(l) - n) : rest[i] = l[n + i]
OBVIOUS

\* The beginning of a proper log.
LEMMA ProperFront ==
  ASSUME NEW l, Proper(l), NEW n \in 1..Len(l), NEW front, front = SubSeq(l, 1, n)
  PROVE  /\ Proper(front) /\ Len(front) = n /\ front # << >>
         /\ \A i \in 1..n : front[i] = l[i]
<1>1. l \in Seq(Event) /\ Len(l) \in Nat /\ n \in Nat /\ n <= Len(l)
  BY DEF Proper
<1>2. /\ front \in Seq(Event) /\ Len(front) = n /\ front # << >>
      /\ \A i \in 1..n : front[i] = l[i] /\ i \in 1..Len(l)
  BY <1>1
<1>3. ASSUME NEW i \in 1..n
      PROVE  /\ Offered(front[i])
             /\ front[i].body.seq = i - 1
             /\ front[i].prev = [j \in 1..(i - 1) |-> front[j].body]
  <2>1. /\ Offered(l[i]) /\ l[i].body.seq = i - 1
        /\ l[i].prev = [j \in 1..(i - 1) |-> l[j].body]
    BY <1>2 DEF Proper
  <2>2. \A j \in 1..(i - 1) : front[j] = l[j]
    <3>1. \A j \in 1..(i - 1) : j \in 1..n
      BY <1>1
    <3> QED
      BY <1>2, <3>1
  <2> QED
    BY <1>2, <2>1, <2>2
<1> QED
  BY <1>2, <1>3 DEF Proper

\* The digest of the last event commits to them all.
LEMMA CommittedIs ==
  ASSUME NEW l, Proper(l), l # << >>, Undamaged(l), NEW d, d = DigestOf(l[Len(l)])
  PROVE  l = Committed(d)
<1>1. PICK n : n = Len(l) /\ n \in Nat /\ n # 0
  BY DEF Proper
<1>2. /\ l \in Seq(Event) /\ DOMAIN l = 1..n
      /\ \A i \in 1..n : l[i] \in Event
  BY <1>1 DEF Proper
<1>3. \A i \in 1..n : l[i].prev = [j \in 1..(i - 1) |-> l[j].body]
  BY <1>1 DEF Proper
<1>4. PICK p : p = l[n].prev /\ p = [j \in 1..(n - 1) |-> l[j].body]
  <2>1. n \in 1..n
    BY <1>1
  <2> QED
    BY <1>3, <2>1
<1>5. \A i \in 1..n : l[i].body \in Body
  BY <1>2 DEF Event
<1>6. p \in Seq(Body) /\ Len(p) = n - 1
  <2>1. n - 1 \in Nat /\ \A j \in 1..(n - 1) : j \in 1..n
    BY <1>1
  <2> QED
    BY <1>4, <1>5, <2>1
<1>7. d = Append(p, l[n].body)
  BY <1>1, <1>4 DEF DigestOf
<1>8. Len(d) = n /\ \A i \in 1..n : d[i] = l[i].body
  <2>1. Len(d) = n /\ d[n] = l[n].body
    BY <1>1, <1>5, <1>6, <1>7
  <2>2. ASSUME NEW i \in 1..n, i # n PROVE d[i] = l[i].body
    <3>1. i \in 1..(n - 1)
      BY <1>1, <2>2
    <3>2. d[i] = p[i]
      BY <1>1, <1>5, <1>6, <1>7, <3>1
    <3> QED
      BY <1>4, <3>1, <3>2
  <2> QED
    BY <2>1, <2>2
<1>9. ASSUME NEW i \in 1..n
      PROVE  l[i] = [body |-> d[i], prev |-> [j \in 1..(i - 1) |-> d[j]], genuine |-> TRUE]
  <2>1. l[i] = [body |-> l[i].body, prev |-> l[i].prev, genuine |-> l[i].genuine]
    BY <1>2 DEF Event
  <2>2. l[i].genuine
    BY <1>2, Zenon DEF Undamaged
  <2>3. l[i].genuine \in BOOLEAN
    BY <1>2, Zenon DEF Event
  <2>4. l[i].genuine = TRUE
    BY <2>2, <2>3
  <2>5. \A j \in 1..(i - 1) : d[j] = l[j].body
    <3>1. \A j \in 1..(i - 1) : j \in 1..n
      BY <1>1
    <3> QED
      BY <1>8, <3>1
  <2>6. l[i].prev = [j \in 1..(i - 1) |-> d[j]]
    BY <1>3, <2>5
  <2> QED
    BY <1>8, <2>1, <2>4, <2>6
<1>a. \A i \in 1..n : l[i] = Committed(d)[i]
  BY <1>8, <1>9 DEF Committed
<1>b. Committed(d) = [i \in 1..n |-> Committed(d)[i]]
  BY <1>8 DEF Committed
<1>c. l = [i \in 1..n |-> l[i]]
  BY <1>2
<1> QED
  BY <1>a, <1>b, <1>c

\* The snapshot of a seal of an undamaged log is the one its replay gives.
LEMMA RebuiltIs ==
  ASSUME NEW l, Proper(l), Undamaged(l), NEW at \in 1..Len(l), NEW s, Kept(s), Matches(s, l[at]),
         NEW rebuilt, rebuilt = Replayed(FromGenesis, SubSeq(l, 1, at))
  PROVE  rebuilt.status = "ok" /\ SnapshotAt(l[at], rebuilt.map) = s
<1>1. PICK front : front = SubSeq(l, 1, at)
  OBVIOUS
<1>2. /\ Proper(front) /\ Len(front) = at /\ front # << >> /\ \A i \in 1..at : front[i] = l[i]
  BY <1>1, ProperFront
<1>3. at \in Nat /\ \A i \in 1..at : i \in DOMAIN l
  <2>1. l \in Seq(Event)
    BY DEF Proper
  <2> QED
    BY <2>1
<1>4. Undamaged(front)
  <2>1. DOMAIN front = 1..at
    BY <1>2 DEF Proper
  <2> QED
    BY <1>2, <1>3, <2>1, Zenon DEF Undamaged
<1>5. s = SnapshotAt(l[at], l[at].body.root)
  BY DEF Matches
<1>6. s.digest = DigestOf(l[at]) /\ s.map = l[at].body.root
  BY <1>5 DEF SnapshotAt
<1>7. front[Len(front)] = l[at]
  BY <1>2, <1>3
<1>8. front = Committed(s.digest)
  BY <1>2, <1>4, <1>6, <1>7, CommittedIs
<1>9. rebuilt.status = "ok" /\ rebuilt.map = s.map
  BY <1>1, <1>8 DEF Kept
<1> QED
  BY <1>5, <1>6, <1>9

\* Verification of an undamaged log with a snapshot is verification without.
LEMMA SnapshotChangesNothing ==
  ASSUME NEW l, Proper(l), Undamaged(l), NEW root, NEW s, MaybeKept(s)
  PROVE  VerifyEvents(l, root, s) = VerifyEvents(l, root, None)
<1> DEFINE seals == SealsOf(l, root)
           at == CHOOSE i \in seals : TRUE
           rebuilt == Replayed(FromGenesis, SubSeq(l, 1, at))
<1>1. ~Believed(None, l[at])
  BY DEF Believed
<1>2. CASE seals = {} \/ Cardinality(seals) > 1
  BY <1>2 DEF VerifyEvents
<1>3. CASE seals # {} /\ ~(Cardinality(seals) > 1) /\ ~Believed(s, l[at])
  BY <1>1, <1>3 DEF VerifyEvents
<1>4. CASE seals # {} /\ ~(Cardinality(seals) > 1) /\ Believed(s, l[at])
  <2>1. at \in seals
    BY <1>4
  <2>2. at \in 1..Len(l)
    <3> HIDE DEF at
    <3> QED
      BY <2>1 DEF SealsOf, Proper
  <2>3. Kept(s) /\ Matches(s, l[at])
    BY <1>4 DEF Believed, MaybeKept
  <2>4. rebuilt.status = "ok" /\ SnapshotAt(l[at], rebuilt.map) = s
    <3> HIDE DEF at
    <3> QED
      BY <2>2, <2>3, RebuiltIs
  <2> QED
    BY <1>1, <1>4, <2>4 DEF VerifyEvents
<1> QED
  BY <1>2, <1>3, <1>4

\* What goes well on both sides of a checkpoint has no damaged line there.
LEMMA WellAround ==
  ASSUME NEW l \in Seq(Event), NEW at \in 1..Len(l), NEW s,
         \/ /\ Believed(s, l[at])
            /\ Replayed(FromSnapshot(s), SubSeq(l, at + 1, Len(l))).status = "ok"
         \/ /\ ~Believed(s, l[at])
            /\ Replayed(FromGenesis, SubSeq(l, 1, at)).status = "ok"
            /\ \E x : Replayed(FromSnapshot(x), SubSeq(l, at + 1, Len(l))).status = "ok"
  PROVE  /\ Undamaged(SubSeq(l, at, Len(l)))
         /\ s = None => Undamaged(l)
<1>3. at \in 1..Len(l) /\ at \in 0..Len(l) /\ Len(l) \in Nat
  OBVIOUS
<1>f. PICK front : front = SubSeq(l, 1, at)
  OBVIOUS
<1>r. PICK rest : rest = SubSeq(l, at + 1, Len(l))
  OBVIOUS
<1>4. front \in Seq(Event) /\ Len(front) = at /\ \A i \in 1..at : front[i] = l[i]
  BY <1>3, <1>f, FrontIs
<1>5. /\ rest \in Seq(Event) /\ Len(rest) = Len(l) - at
      /\ \A i \in 1..(Len(l) - at) : rest[i] = l[at + i]
  BY <1>3, <1>r, RestIs
<1>6. \A start : Plain(start) /\ Replayed(start, rest).status = "ok" =>
                   \A i \in 1..Len(rest) : rest[i].genuine
  <2> SUFFICES ASSUME NEW start, Plain(start), Replayed(start, rest).status = "ok"
               PROVE  \A i \in 1..Len(rest) : rest[i].genuine
    OBVIOUS
  <2>1. PICK f : Stages(start, rest, f)
    BY <1>5, ReplayStages
  <2>2. f[Len(rest)].status = "ok"
    BY <2>1 DEF Stages
  <2> QED
    BY <1>5, <2>1, <2>2, WellAllTheWay
<1>7. Replayed(FromGenesis, front).status = "ok" => \A i \in 1..at : l[i].genuine
  <2> SUFFICES ASSUME Replayed(FromGenesis, front).status = "ok"
               PROVE  \A i \in 1..at : l[i].genuine
    OBVIOUS
  <2>1. PICK f : Stages(FromGenesis, front, f)
    BY <1>4, ReplayStages
  <2>2. f[Len(front)].status = "ok"
    BY <2>1 DEF Stages
  <2>3. \A i \in 1..Len(front) : front[i].genuine
    BY <1>4, <2>1, <2>2, PlainStart, WellAllTheWay
  <2> QED
    BY <1>4, <2>3
<1>8. \/ Believed(s, l[at]) /\ Replayed(FromSnapshot(s), rest).status = "ok"
      \/ /\ ~Believed(s, l[at])
         /\ Replayed(FromGenesis, front).status = "ok"
         /\ \E x : Replayed(FromSnapshot(x), rest).status = "ok"
  BY <1>f, <1>r
<1>9. \A i \in 1..Len(rest) : rest[i].genuine
  BY <1>6, <1>8, PlainStart
<1>a. l[at].genuine
  <2>1. ASSUME Believed(s, l[at]) PROVE l[at].genuine
    BY <2>1, Zenon DEF Believed, ValidDigest
  <2>2. at \in 1..at
    BY <1>3
  <2> QED
    BY <1>7, <1>8, <2>1, <2>2
<1>b. ASSUME NEW i \in at..Len(l) PROVE l[i].genuine
  <2>1. CASE i = at
    BY <1>a, <2>1
  <2>2. CASE i # at
    <3>1. i - at \in 1..Len(rest) /\ at + (i - at) = i
      BY <1>3, <1>5, <2>2
    <3> QED
      BY <1>5, <1>9, <3>1
  <2> QED
    BY <2>1, <2>2
<1>c. Undamaged(SubSeq(l, at, Len(l)))
  <2>1. PICK from, n : n = at - 1 /\ from = SubSeq(l, n + 1, Len(l))
    OBVIOUS
  <2>2. n \in 0..Len(l) /\ n + 1 = at
    BY <1>3, <2>1
  <2>3. DOMAIN from = 1..(Len(l) - n) /\ \A i \in 1..(Len(l) - n) : from[i] = l[n + i]
    BY <2>1, <2>2, RestIs
  <2>4. \A i \in 1..(Len(l) - n) : n + i \in at..Len(l)
    BY <1>3, <2>2
  <2>5. \A i \in DOMAIN from : from[i].genuine
    BY <1>b, <2>3, <2>4
  <2>6. Undamaged(from)
    BY <2>5, Zenon DEF Undamaged
  <2> QED
    BY <2>1, <2>2, <2>6
<1>d. ASSUME s = None PROVE Undamaged(l)
  <2>1. ~Believed(s, l[at])
    BY <1>d DEF Believed
  <2>2. \A i \in 1..at : l[i].genuine
    BY <1>7, <1>8, <2>1
  <2>3. \A i \in DOMAIN l : i \in 1..at \/ i \in at..Len(l)
    BY <1>3
  <2>4. \A i \in DOMAIN l : l[i].genuine
    BY <1>b, <2>2, <2>3
  <2> QED
    BY <2>4, Zenon DEF Undamaged
<1> QED
  BY <1>c, <1>d

\* What verification calls well has no damaged line from the checkpoint on.
LEMMA WellIsUndamaged ==
  ASSUME NEW l \in Seq(Event), NEW root, NEW s, VerifyEvents(l, root, s).status = "ok",
         NEW at, at = CHOOSE i \in SealsOf(l, root) : TRUE
  PROVE  /\ Undamaged(SubSeq(l, at, Len(l)))
         /\ s = None => Undamaged(l)
<1>1. SealsOf(l, root) # {} /\ ~(Cardinality(SealsOf(l, root)) > 1)
  <2>1. \A x : [FromGenesis EXCEPT !.status = x].status = x
    BY DEF FromGenesis
  <2> QED
    BY <2>1 DEF VerifyEvents
<1>2. at \in SealsOf(l, root)
  BY <1>1
<1>3. at \in 1..Len(l)
  BY <1>2 DEF SealsOf
<1>4. \/ /\ Believed(s, l[at])
         /\ Replayed(FromSnapshot(s), SubSeq(l, at + 1, Len(l))).status = "ok"
      \/ /\ ~Believed(s, l[at])
         /\ Replayed(FromGenesis, SubSeq(l, 1, at)).status = "ok"
         /\ \E x : Replayed(FromSnapshot(x), SubSeq(l, at + 1, Len(l))).status = "ok"
  BY <1>1 DEF VerifyEvents
<1> QED
  BY <1>3, <1>4, WellAround

\* An event of a proper log.
LEMMA ProperAt ==
  ASSUME NEW l, Proper(l)
  PROVE  /\ l \in Seq(Event) /\ Len(l) \in Nat /\ DOMAIN l = 1..Len(l)
         /\ \A i \in 1..Len(l) : l[i] \in Event /\ Offered(l[i]) /\ l[i].body.seq = i - 1
<1>1. l \in Seq(Event)
  BY DEF Proper
<1>2. \A i \in 1..Len(l) : Offered(l[i]) /\ l[i].body.seq = i - 1
  BY DEF Proper
<1>3. Len(l) \in Nat /\ DOMAIN l = 1..Len(l) /\ \A i \in 1..Len(l) : l[i] \in Event
  BY <1>1
<1> QED
  BY <1>1, <1>2, <1>3

\* An engine that takes an event none of those it has seen.
Takes(eng, e) ==
  /\ eng.status = "ok" /\ ~Duplicate(eng, e)
  /\ ChainFault(eng, e) = "ok" /\ ClockFault(eng, e.body) = "ok"
  /\ ApplyFault(eng.map, e.body) = "ok"

\* The engine it becomes, field by field.
Moved(eng, e, next) ==
  /\ next.status = "ok" /\ next.map = AfterOps(eng.map, e.body.ops)
  /\ next.seq = eng.seq + 1 /\ next.prev = DigestOf(e) /\ next.ns = e.body.ns
  /\ next.seen = eng.seen \union {DigestOf(e)}
  /\ next.ts = IF e.body.kind = "seal" THEN e.body.ts ELSE eng.ts
  /\ next.tick = IF e.body.tick > 0 THEN e.body.tick ELSE eng.tick

LEMMA TakenIf ==
  ASSUME NEW eng, Plain(eng), NEW e, Advance(eng, e).status = "ok", ~Duplicate(eng, e)
  PROVE  Takes(eng, e)
<1>1. PICK map, seq, prev, ns, seen, ts, tick, status :
        eng = [map |-> map, seq |-> seq, prev |-> prev, ns |-> ns,
               seen |-> seen, ts |-> ts, tick |-> tick, status |-> status]
  BY DEF Plain
<1>2. \A s : [eng EXCEPT !.status = s].status = s
  BY <1>1
<1>3. eng.status = "ok"
  BY Zenon DEF Advance
<1>4. ChainFault(eng, e) = "ok"
  <2>1. ASSUME ChainFault(eng, e) # "ok" PROVE FALSE
    <3>1. Advance(eng, e) = [eng EXCEPT !.status = ChainFault(eng, e)]
      BY <1>3, <2>1, Zenon DEF Advance
    <3> QED
      BY <1>2, <2>1, <3>1, Zenon
  <2> QED
    BY <2>1
<1>5. ClockFault(eng, e.body) = "ok"
  <2>1. ASSUME ClockFault(eng, e.body) # "ok" PROVE FALSE
    <3>1. Advance(eng, e) = [eng EXCEPT !.status = ClockFault(eng, e.body)]
      BY <1>3, <1>4, <2>1, Zenon DEF Advance
    <3> QED
      BY <1>2, <2>1, <3>1, Zenon
  <2> QED
    BY <2>1
<1>6. ApplyFault(eng.map, e.body) = "ok"
  <2>1. ASSUME ApplyFault(eng.map, e.body) # "ok" PROVE FALSE
    <3>1. Advance(eng, e) = [eng EXCEPT !.status = ApplyFault(eng.map, e.body)]
      BY <1>3, <1>4, <1>5, <2>1, Zenon DEF Advance
    <3> QED
      BY <1>2, <2>1, <3>1, Zenon
  <2> QED
    BY <2>1
<1> QED
  BY <1>3, <1>4, <1>5, <1>6 DEF Takes

LEMMA TakenTo ==
  ASSUME NEW eng, Plain(eng), NEW e, Takes(eng, e)
  PROVE  Moved(eng, e, Advance(eng, e))
<1>1. PICK map, seq, prev, ns, seen, ts, tick, status :
        eng = [map |-> map, seq |-> seq, prev |-> prev, ns |-> ns,
               seen |-> seen, ts |-> ts, tick |-> tick, status |-> status]
  BY DEF Plain
<1>2. Advance(eng, e) = Applied(eng, e)
  BY Zenon DEF Advance, Takes
<1>3. PICK time, turn : /\ time = IF e.body.kind = "seal" THEN e.body.ts ELSE ts
                        /\ turn = IF e.body.tick > 0 THEN e.body.tick ELSE tick
  OBVIOUS
<1>4. PICK past : past = [map |-> map, seq |-> seq + 1, prev |-> DigestOf(e), ns |-> e.body.ns,
                          seen |-> seen \union {DigestOf(e)}, ts |-> ts, tick |-> tick,
                          status |-> status]
  OBVIOUS
<1>5. Past(eng, e) = past
  <2>1. Past(eng, e) = [eng EXCEPT !.seq = seq + 1, !.prev = DigestOf(e), !.ns = e.body.ns,
                                   !.seen = seen \union {DigestOf(e)}]
    BY <1>1 DEF Past
  <2> QED
    BY <1>1, <1>4, <2>1
<1>6. PICK done : done = [map |-> AfterOps(map, e.body.ops), seq |-> seq + 1,
                          prev |-> DigestOf(e), ns |-> e.body.ns,
                          seen |-> seen \union {DigestOf(e)}, ts |-> time, tick |-> turn,
                          status |-> status]
  OBVIOUS
<1>7. Applied(eng, e) = done
  <2>1. Applied(eng, e) = [past EXCEPT !.map = AfterOps(map, e.body.ops), !.ts = time, !.tick = turn]
    BY <1>3, <1>4, <1>5 DEF Applied
  <2> QED
    BY <1>4, <1>6, <2>1
<1>8. status = "ok" /\ eng.map = map /\ eng.seq = seq /\ eng.seen = seen /\ eng.ts = ts /\ eng.tick = tick
  BY <1>1 DEF Takes
<1>9. /\ done.status = "ok" /\ done.map = AfterOps(map, e.body.ops)
      /\ done.seq = seq + 1 /\ done.prev = DigestOf(e) /\ done.ns = e.body.ns
      /\ done.seen = seen \union {DigestOf(e)} /\ done.ts = time /\ done.tick = turn
  BY <1>6, <1>8
<1> QED
  BY <1>2, <1>3, <1>7, <1>8, <1>9 DEF Moved

\* An engine after the first n events of a proper log.
After(eng, n) ==
  Plain(eng) /\ eng.tick \in Nat /\ eng.seq \in Nat /\ \A d \in eng.seen : Len(d) \in 0..n

\* y, that began at a checkpoint, has what x has, and no later a clock.
Alike(x, y) ==
  /\ y.status = "ok" /\ y.map = x.map /\ y.seq = x.seq /\ y.prev = x.prev /\ y.ns = x.ns
  /\ y.ts = x.ts /\ y.tick <= x.tick

\* The next event of a proper log is none of those seen.
LEMMA NeverSeen ==
  ASSUME NEW l, Proper(l), NEW n \in Nat, n + 1 \in 1..Len(l), NEW eng, After(eng, n)
  PROVE  /\ ~Duplicate(eng, l[n + 1])
         /\ Len(DigestOf(l[n + 1])) = n + 1
         /\ l[n + 1].body.tick \in Nat
<1>1. PICK e : e = l[n + 1] /\ e \in Event
  BY ProperAt
<1>2. e.prev = [j \in 1..n |-> l[j].body]
  <2>1. (n + 1) - 1 = n
    OBVIOUS
  <2> QED
    BY <1>1, <2>1 DEF Proper
<1>3. e.prev \in Seq(Body) /\ e.body.tick \in Nat /\ e.body \in Body
  BY <1>1 DEF Event, Digest, Body
<1>4. Len(e.prev) = n
  BY <1>2, <1>3
<1>5. Len(DigestOf(e)) = n + 1
  BY <1>3, <1>4 DEF DigestOf
<1>6. DigestOf(e) \notin eng.seen
  BY <1>5 DEF After
<1> QED
  BY <1>1, <1>3, <1>5, <1>6 DEF Duplicate

LEMMA AfterNext ==
  ASSUME NEW l, Proper(l), NEW n \in Nat, n + 1 \in 1..Len(l), NEW eng, After(eng, n),
         NEW next, next = Advance(eng, l[n + 1]), next.status = "ok"
  PROVE  /\ Takes(eng, l[n + 1]) /\ Moved(eng, l[n + 1], next)
         /\ After(next, n + 1)
<1>1. PICK e : e = l[n + 1]
  OBVIOUS
<1>2. ~Duplicate(eng, e) /\ Len(DigestOf(e)) = n + 1 /\ e.body.tick \in Nat
  BY <1>1, NeverSeen
<1>3. Plain(eng)
  BY DEF After
<1>4. Takes(eng, e)
  BY <1>1, <1>2, <1>3, TakenIf
<1>5. Moved(eng, e, next)
  BY <1>1, <1>3, <1>4, TakenTo
<1>6. Plain(next)
  BY <1>1, <1>3, AdvanceFinds
<1>7. next.tick \in Nat /\ next.seq \in Nat
  BY <1>2, <1>5 DEF Moved, After
<1>8. \A d \in next.seen : Len(d) \in 0..n + 1
  <2>1. ASSUME NEW d \in eng.seen PROVE Len(d) \in 0..n + 1
    <3>1. Len(d) \in 0..n
      BY DEF After
    <3> QED
      BY <3>1
  <2>2. next.seen = eng.seen \union {DigestOf(e)}
    BY <1>5 DEF Moved
  <2> QED
    BY <1>2, <2>1, <2>2
<1> QED
  BY <1>1, <1>4, <1>5, <1>6, <1>7, <1>8 DEF After

\* The engine after n events of a log that replays.
LEMMA AfterAll ==
  ASSUME NEW l, Proper(l), NEW f, Stages(FromGenesis, l, f), f[Len(l)].status = "ok"
  PROVE  /\ \A n \in 0..Len(l) : After(f[n], n) /\ f[n].status = "ok"
         /\ \A i \in 1..Len(l) : Takes(f[i - 1], l[i]) /\ Moved(f[i - 1], l[i], f[i])
<1>1. l \in Seq(Event) /\ Len(l) \in Nat
  BY ProperAt
<1>2. \A n \in 0..Len(l) : f[n].status = "ok"
  BY <1>1, PlainStart, WellAllTheWay
<1>3. f[0] = FromGenesis /\ \A i \in 1..Len(l) : f[i] = Advance(f[i - 1], l[i])
  BY DEF Stages
<1> DEFINE S == {n \in Nat : n <= Len(l) => After(f[n], n)}
<1>4. 0 \in S
  <2>1. FromGenesis.tick \in Nat /\ FromGenesis.seq \in Nat /\ FromGenesis.seen = {}
    BY DEF FromGenesis
  <2>2. After(FromGenesis, 0)
    BY <2>1, PlainStart DEF After
  <2> QED
    BY <1>3, <2>2
<1>5. ASSUME NEW n \in Nat, After(f[n], n), n + 1 <= Len(l)
      PROVE  Takes(f[n], l[n + 1]) /\ Moved(f[n], l[n + 1], f[n + 1]) /\ After(f[n + 1], n + 1)
  <2>1. n + 1 \in 1..Len(l) /\ n + 1 \in 0..Len(l) /\ (n + 1) - 1 = n
    BY <1>1, <1>5
  <2>2. f[n + 1] = Advance(f[n], l[n + 1]) /\ f[n + 1].status = "ok"
    BY <1>2, <1>3, <2>1
  <2> QED
    BY <1>5, <2>1, <2>2, AfterNext
<1>6. ASSUME NEW n \in Nat, n \in S PROVE n + 1 \in S
  <2>1. SUFFICES ASSUME n + 1 <= Len(l) PROVE After(f[n + 1], n + 1)
    OBVIOUS
  <2>2. n <= Len(l)
    BY <1>1, <2>1
  <2> QED
    BY <1>5, <1>6, <2>1, <2>2
<1> HIDE DEF S
<1>7. \A n \in Nat : n \in S
  BY <1>4, <1>6, Induction
<1>8. ASSUME NEW n \in 0..Len(l) PROVE After(f[n], n)
  <2>1. n \in Nat /\ n <= Len(l)
    BY <1>1
  <2> QED
    BY <1>7, <2>1 DEF S
<1>9. ASSUME NEW i \in 1..Len(l) PROVE Takes(f[i - 1], l[i]) /\ Moved(f[i - 1], l[i], f[i])
  <2>1. PICK n \in Nat : n = i - 1
    BY <1>1
  <2>2. n + 1 = i /\ n \in 0..Len(l) /\ n + 1 <= Len(l)
    BY <1>1, <2>1
  <2>3. Takes(f[n], l[n + 1]) /\ Moved(f[n], l[n + 1], f[n + 1])
    BY <1>5, <1>8, <2>2
  <2> QED
    BY <2>1, <2>2, <2>3
<1> QED
  BY <1>2, <1>8, <1>9

\* An engine that is behind in nothing but its clock takes what the other takes.
LEMMA AlikeTakes ==
  ASSUME NEW x, NEW y, NEW e, Takes(x, e), Alike(x, y), ~Duplicate(y, e),
         x.tick \in Nat, y.tick \in Nat, e.body.tick \in Nat
  PROVE  Takes(y, e)
<1>1. /\ y.status = "ok" /\ y.map = x.map /\ y.seq = x.seq /\ y.prev = x.prev /\ y.ns = x.ns
      /\ y.ts = x.ts /\ y.tick <= x.tick
  BY DEF Alike
<1>2. /\ ~Duplicate(x, e) /\ ChainFault(x, e) = "ok" /\ ClockFault(x, e.body) = "ok"
      /\ ApplyFault(x.map, e.body) = "ok"
  BY DEF Takes
<1>3. ChainFault(y, e) = "ok"
  <2>1. ChainFault(y, e) = ChainFault(x, e)
    BY <1>1, <1>2, Zenon DEF ChainFault
  <2> QED
    BY <1>2, <2>1
<1>4. ClockFault(y, e.body) = "ok"
  <2>1. e.body.tick < y.tick => e.body.tick < x.tick
    BY <1>1
  <2> QED
    BY <1>1, <1>2, <2>1 DEF ClockFault
<1> QED
  BY <1>1, <1>2, <1>3, <1>4 DEF Takes

LEMMA AlikeMoved ==
  ASSUME NEW x, NEW y, NEW e, NEW xx, NEW yy, Alike(x, y), Moved(x, e, xx), Moved(y, e, yy),
         x.tick \in Nat, y.tick \in Nat, e.body.tick \in Nat
  PROVE  Alike(xx, yy)
<1>1. /\ y.map = x.map /\ y.seq = x.seq /\ y.ts = x.ts /\ y.tick <= x.tick
  BY DEF Alike
<1>2. /\ yy.status = "ok" /\ yy.map = xx.map /\ yy.seq = xx.seq /\ yy.prev = xx.prev
      /\ yy.ns = xx.ns /\ yy.ts = xx.ts
  BY <1>1 DEF Moved
<1>3. yy.tick <= xx.tick
  BY <1>1 DEF Moved
<1> QED
  BY <1>2, <1>3 DEF Alike

\* A log that replays goes on well from each of its seals.
LEMMA RestReplays ==
  ASSUME NEW l, Proper(l), NEW f, Stages(FromGenesis, l, f), f[Len(l)].status = "ok",
         NEW at \in 1..Len(l), l[at].body.kind = "seal",
         NEW start, start = FromSnapshot(SnapshotAt(l[at], f[at].map)),
         NEW rest, rest = SubSeq(l, at + 1, Len(l))
  PROVE  Replayed(start, rest).status = "ok"
<1>1. /\ l \in Seq(Event) /\ Len(l) \in Nat /\ at \in Nat /\ at \in 0..Len(l)
      /\ l[at] \in Event /\ Offered(l[at]) /\ l[at].body.seq = at - 1
  BY ProperAt
<1>2. /\ rest \in Seq(Event) /\ Len(rest) = Len(l) - at
      /\ \A i \in 1..(Len(l) - at) : rest[i] = l[at + i]
  BY <1>1, RestIs
<1>3. /\ \A n \in 0..Len(l) : After(f[n], n) /\ f[n].status = "ok"
      /\ \A i \in 1..Len(l) : Takes(f[i - 1], l[i]) /\ Moved(f[i - 1], l[i], f[i])
  BY AfterAll
<1>4. PICK g : Stages(start, rest, g)
  BY <1>2, ReplayStages
<1>5. PICK m : m = Len(rest) /\ m \in Nat /\ m = Len(l) - at
  BY <1>1, <1>2
<1>6. /\ g[0] = start /\ \A i \in 1..m : g[i] = Advance(g[i - 1], rest[i])
      /\ Replayed(start, rest) = g[m]
  BY <1>4, <1>5 DEF Stages
<1>7. After(start, at) /\ Alike(f[at], start)
  <2>1. PICK e : e = l[at]
    OBVIOUS
  <2>2. e.body.tick \in Nat /\ e.body.seq = at - 1
    BY <1>1, <2>1 DEF Event, Body
  <2>3. PICK x : x = f[at - 1] /\ Takes(x, e) /\ Moved(x, e, f[at]) /\ x.tick \in Nat /\ x.seq = e.body.seq
    <3>1. Takes(f[at - 1], e) /\ Moved(f[at - 1], e, f[at])
      BY <1>3, <2>1
    <3>2. at - 1 \in 0..Len(l)
      BY <1>1
    <3>3. f[at - 1].tick \in Nat
      BY <1>3, <3>2 DEF After
    <3>4. f[at - 1].seq = e.body.seq
      <4>1. at - 1 \in 0..Len(l)
        BY <1>1
      <4>2. f[at - 1].seq \in Nat
        BY <1>3, <4>1 DEF After
      <4> QED
        BY <2>2, <3>1, <4>2 DEF Takes, ChainFault
    <3> QED
      BY <3>1, <3>3, <3>4
  <2>4. /\ start.map = f[at].map /\ start.seq = e.body.seq + 1 /\ start.prev = DigestOf(e)
        /\ start.ns = e.body.ns /\ start.seen = {} /\ start.ts = e.body.ts
        /\ start.tick = e.body.tick /\ start.status = "ok"
    BY <2>1 DEF FromSnapshot, SnapshotAt
  <2>5. After(start, at)
    BY <2>2, <2>4, PlainStart DEF After
  <2>6. /\ f[at].seq = e.body.seq + 1 /\ f[at].prev = DigestOf(e) /\ f[at].ns = e.body.ns
        /\ f[at].ts = e.body.ts
        /\ f[at].tick = IF e.body.tick > 0 THEN e.body.tick ELSE x.tick
    BY <2>1, <2>3 DEF Moved
  <2>7. e.body.tick <= f[at].tick
    BY <2>2, <2>3, <2>6
  <2> QED
    BY <2>4, <2>5, <2>6, <2>7 DEF Alike
<1>8. ASSUME NEW i \in Nat, i + 1 <= m, After(g[i], at + i), Alike(f[at + i], g[i])
      PROVE  After(g[i + 1], at + (i + 1)) /\ Alike(f[at + (i + 1)], g[i + 1])
  <2>1. PICK n \in Nat : n = at + i
    BY <1>1
  <2>2. /\ at + (i + 1) = n + 1 /\ n + 1 \in 1..Len(l) /\ n \in 0..Len(l) /\ (n + 1) - 1 = n
        /\ i + 1 \in 1..m /\ (i + 1) - 1 = i
    BY <1>1, <1>5, <1>8, <2>1
  <2>3. PICK e : e = l[n + 1] /\ rest[i + 1] = e
    BY <1>2, <1>5, <2>2
  <2>4. g[i + 1] = Advance(g[i], e)
    BY <1>6, <2>2, <2>3
  <2>5. /\ Takes(f[n], e) /\ Moved(f[n], e, f[n + 1]) /\ f[n].tick \in Nat
    BY <1>3, <2>2, <2>3 DEF After
  <2>6. After(g[i], n) /\ g[i].tick \in Nat /\ Plain(g[i]) /\ Alike(f[n], g[i])
    BY <1>8, <2>1 DEF After
  <2>7. ~Duplicate(g[i], e) /\ e.body.tick \in Nat
    BY <2>2, <2>3, <2>6, NeverSeen
  <2>8. Takes(g[i], e)
    BY <2>5, <2>6, <2>7, AlikeTakes
  <2>9. Moved(g[i], e, g[i + 1])
    BY <2>4, <2>6, <2>8, TakenTo
  <2>10. Alike(f[n + 1], g[i + 1])
    BY <2>5, <2>6, <2>7, <2>9, AlikeMoved
  <2>11. g[i + 1].status = "ok"
    BY <2>9 DEF Moved
  <2>12. After(g[i + 1], n + 1)
    BY <2>2, <2>3, <2>4, <2>6, <2>11, AfterNext
  <2> QED
    BY <2>2, <2>10, <2>12
<1> DEFINE S == {i \in Nat : i <= m => After(g[i], at + i) /\ Alike(f[at + i], g[i])}
<1>9. 0 \in S
  BY <1>1, <1>6, <1>7
<1>a. ASSUME NEW i \in Nat, i \in S PROVE i + 1 \in S
  <2>1. SUFFICES ASSUME i + 1 <= m
                 PROVE  After(g[i + 1], at + (i + 1)) /\ Alike(f[at + (i + 1)], g[i + 1])
    OBVIOUS
  <2>2. i <= m
    BY <1>5, <2>1
  <2> QED
    BY <1>8, <1>a, <2>1, <2>2
<1> HIDE DEF S
<1>b. m \in S
  BY <1>5, <1>9, <1>a, Induction
<1>c. Alike(f[at + m], g[m])
  <2>1. m <= m => After(g[m], at + m) /\ Alike(f[at + m], g[m])
    BY <1>b, Zenon DEF S
  <2> QED
    BY <1>5, <2>1
<1> QED
  BY <1>6, <1>c DEF Alike

\* The root of a seal that a log has once verifies if the log replays, whatever
\* snapshot there is of it.
LEMMA ReplayVerifies ==
  ASSUME NEW l, Proper(l), Replayed(FromGenesis, l).status = "ok",
         NEW root, Cardinality(SealsOf(l, root)) = 1, NEW s, MaybeKept(s)
  PROVE  VerifyEvents(l, root, s).status = "ok"
<1>1. l \in Seq(Event) /\ Len(l) \in Nat /\ DOMAIN l = 1..Len(l)
  BY ProperAt
<1>2. PICK f : Stages(FromGenesis, l, f)
  BY <1>1, ReplayStages
<1>3. f[Len(l)].status = "ok"
  BY <1>2 DEF Stages
<1>4. Undamaged(l)
  <2>1. \A i \in 1..Len(l) : l[i].genuine
    BY <1>1, <1>2, <1>3, PlainStart, WellAllTheWay
  <2> QED
    BY <1>1, <2>1, Zenon DEF Undamaged
<1>5. VerifyEvents(l, root, s) = VerifyEvents(l, root, None)
  BY <1>4, SnapshotChangesNothing
<1>6. PICK seals : seals = SealsOf(l, root)
  OBVIOUS
<1>7. seals # {} /\ ~(Cardinality(seals) > 1)
  <2>1. seals = {} => Cardinality(seals) = 0
    BY FS_EmptySet
  <2> QED
    BY <1>6, <2>1
<1>8. PICK at : at = CHOOSE i \in SealsOf(l, root) : TRUE
  OBVIOUS
<1>9. at \in SealsOf(l, root)
  BY <1>6, <1>7, <1>8
<1>a. at \in 1..Len(l) /\ l[at].body.kind = "seal" /\ at \in 0..Len(l)
  BY <1>1, <1>9 DEF SealsOf
<1>b. PICK rebuilt : rebuilt = Replayed(FromGenesis, SubSeq(l, 1, at)) /\ rebuilt = f[at]
  BY <1>2, <1>a DEF Stages
<1>c. rebuilt.status = "ok"
  BY <1>1, <1>2, <1>3, <1>a, <1>b, PlainStart, WellAllTheWay
<1>d. PICK start, rest : /\ start = FromSnapshot(SnapshotAt(l[at], rebuilt.map))
                         /\ rest = SubSeq(l, at + 1, Len(l))
  OBVIOUS
<1>e. Replayed(start, rest).status = "ok"
  BY <1>2, <1>3, <1>a, <1>b, <1>d, RestReplays
<1>f. ~Believed(None, l[at])
  BY DEF Believed
<1>g. VerifyEvents(l, root, None) = Replayed(start, rest)
  BY <1>6, <1>7, <1>8, <1>b, <1>c, <1>d, <1>f DEF VerifyEvents
<1> QED
  BY <1>5, <1>e, <1>g

-----------------------------------------------------------------------------
(* The invariant. *)

Writing == {"open", "first", "second"}
Active == {"next"} \union Writing
Over == {"refused", "failed"}

WriterState ==
  [pc : {"idle"} \union Over \union Active, todo : Seq(Roots), batch : Seq(Event),
   snap : Snapshot \union {None}]

\* The two halves of a file.
HalfFiles == (Snapshot \union {None}) \X (Snapshot \union {None})

VerifierState ==
  [pc : {"idle", "loaded", "read"}, seen : Seq(Event), root : Roots \union {EmptyMap},
   cached : Snapshot \union {None}]

TypeInv ==
  /\ Proper(log)
  /\ files \in [Roots -> HalfFiles]
  /\ writer \in [Writers -> WriterState]
  /\ acked \subseteq Event
  /\ verifier \in [Verifiers -> VerifierState]

\* The seals of root in log l are one.
Sole(l, root) == \A i, j \in SealsOf(l, root) : i = j

FirstIn(l, root) == CHOOSE i \in SealsOf(l, root) : \A j \in SealsOf(l, root) : i <= j

\* An event as it was appended is in log l, damaged since or not.
InLog(l, e) ==
  /\ e \in Event
  /\ e.genuine
  /\ Offered(e)
  /\ e.body.seq + 1 \in 1..Len(l)
  /\ l[e.body.seq + 1].body = e.body
  /\ l[e.body.seq + 1].prev = e.prev

\* The file of the root of a seal has the snapshot of the seal.
Served(l, F, e) ==
  e.body.kind = "seal" /\ Sole(l, e.body.root) =>
    /\ F[e.body.root][1] = SnapshotAt(e, e.body.root)
    /\ F[e.body.root][2] = SnapshotAt(e, e.body.root)

IsSeal(e, root) == e.body.kind = "seal" /\ e.body.root = root

\* The roots a writer has still to write are of its batch; the others are there.
BatchOK(l, F, me) ==
  /\ \A i \in 1..Len(me.batch) : InLog(l, me.batch[i])
  /\ \A k \in 1..Len(me.todo) : \E i \in 1..Len(me.batch) : IsSeal(me.batch[i], me.todo[k])
  /\ \A i \in 1..Len(me.batch) :
       (\E k \in 1..Len(me.todo) : IsSeal(me.batch[i], me.todo[k])) \/ Served(l, F, me.batch[i])

\* It has the snapshot of the first seal in hand, and half of it in the file.
SnapOK(l, F, me) ==
  /\ me.todo # << >>
  /\ Kept(me.snap)
  /\ me.snap = SnapshotAt(l[FirstIn(l, me.todo[1])], me.todo[1])
  /\ me.pc = "second" /\ Sole(l, me.todo[1]) => F[me.todo[1]][1] = me.snap

Broken(l) == Replayed(FromGenesis, l).status # "ok"

\* The batch of a writer is in the log.
Written(l, me) == \A i \in 1..Len(me.batch) : InLog(l, me.batch[i])

\* What an append that returned Err leaves.
EndOK(l, me) == Written(l, me) /\ (me.pc = "refused" => Broken(l))

WriterOK(l, F, me) ==
  /\ me.pc \in Active => BatchOK(l, F, me)
  /\ me.pc \in Writing => SnapOK(l, F, me)
  /\ me.pc \notin Writing => me.snap = None
  /\ me.pc \in Over => EndOK(l, me)

\* An event of seq is in the batch of no writer under way.
Free(me, seq) == me.pc \in Active => \A i \in 1..Len(me.batch) : me.batch[i].body.seq # seq

\* Two writers under way have no event in common.
Apart(me, you) ==
  you.pc \in Active => \A i \in 1..Len(you.batch) : Free(me, you.batch[i].body.seq)

AckOK(l, F, e) == InLog(l, e) /\ Served(l, F, e)

FileOK(file) == MaybeKept(file[1]) /\ MaybeKept(file[2])

VerifierOK(me) ==
  /\ Proper(me.seen)
  /\ MaybeKept(me.cached)
  /\ me.pc # "idle" => me.root \in Roots

CacheInv ==
  /\ TypeInv
  /\ \A root \in Roots : FileOK(files[root])
  /\ \A w \in Writers : WriterOK(log, files, writer[w])
  /\ \A w1, w2 \in Writers : w1 # w2 => Apart(writer[w1], writer[w2])
  /\ \A e \in acked : AckOK(log, files, e)
  /\ \A e \in acked, w \in Writers : Free(writer[w], e.body.seq)
  /\ \A v \in Verifiers : VerifierOK(verifier[v])

-----------------------------------------------------------------------------
(* The log grows, and some of it gets damaged. *)

\* The position of a seal.
LEMMA SealIn ==
  ASSUME NEW l, Proper(l), NEW e, InLog(l, e), NEW root, IsSeal(e, root)
  PROVE  e.body.seq + 1 \in SealsOf(l, root)
BY ProperAt DEF InLog, IsSeal, SealsOf

\* The first seal with a root.
LEMMA FirstIs ==
  ASSUME NEW l, Proper(l), NEW root, SealsOf(l, root) # {}
  PROVE  /\ FirstIn(l, root) \in SealsOf(l, root) /\ FirstIn(l, root) \in 1..Len(l)
         /\ \A i \in SealsOf(l, root) : FirstIn(l, root) <= i
<1>1. SealsOf(l, root) \subseteq 1..Len(l) /\ Len(l) \in Nat
  BY ProperAt DEF SealsOf
<1>2. SealsOf(l, root) \subseteq Nat
  BY <1>1
<1>3. \E i \in SealsOf(l, root) : \A j \in SealsOf(l, root) : i <= j
  BY <1>2, LeastNumber
<1> QED
  BY <1>1, <1>3 DEF FirstIn

\* m is the log l later on: it has the events of l, damaged or not, and it does
\* not replay if l does not.
Grown(l, m) ==
  /\ Proper(l) /\ Proper(m)
  /\ Len(l) <= Len(m)
  /\ \A i \in 1..Len(l) : m[i].body = l[i].body /\ m[i].prev = l[i].prev
  /\ Broken(l) => Broken(m)

LEMMA GrownSeals ==
  ASSUME NEW l, NEW m, Grown(l, m), NEW root
  PROVE  /\ SealsOf(l, root) \subseteq SealsOf(m, root)
         /\ Sole(m, root) => Sole(l, root)
         /\ SealsOf(l, root) # {} =>
              \A map : SnapshotAt(m[FirstIn(m, root)], map) = SnapshotAt(l[FirstIn(l, root)], map)
<1>1. /\ Proper(l) /\ Proper(m) /\ Len(l) <= Len(m)
      /\ \A i \in 1..Len(l) : m[i].body = l[i].body /\ m[i].prev = l[i].prev
  BY DEF Grown
<1>2. /\ DOMAIN l = 1..Len(l) /\ DOMAIN m = 1..Len(m) /\ Len(l) \in Nat /\ Len(m) \in Nat
  BY <1>1, ProperAt
<1>3. \A i \in 1..Len(l) : i \in 1..Len(m)
  BY <1>1, <1>2
<1>4. \A i \in 1..Len(l) : i \in SealsOf(l, root) <=> i \in SealsOf(m, root)
  BY <1>1, <1>2, <1>3 DEF SealsOf
<1>5. SealsOf(l, root) \subseteq 1..Len(l)
  BY <1>2 DEF SealsOf
<1>6. SealsOf(l, root) \subseteq SealsOf(m, root)
  BY <1>4, <1>5
<1>7. Sole(m, root) => Sole(l, root)
  BY <1>6 DEF Sole
<1>8. ASSUME SealsOf(l, root) # {}, NEW map
      PROVE  SnapshotAt(m[FirstIn(m, root)], map) = SnapshotAt(l[FirstIn(l, root)], map)
  <2>1. PICK i : /\ i = FirstIn(l, root) /\ i \in SealsOf(l, root) /\ i \in 1..Len(l)
                 /\ \A j \in SealsOf(l, root) : i <= j
    BY <1>1, <1>8, FirstIs
  <2>2. PICK k : /\ k = FirstIn(m, root) /\ k \in SealsOf(m, root) /\ k \in 1..Len(m)
                 /\ \A j \in SealsOf(m, root) : k <= j
    BY <1>1, <1>6, <1>8, FirstIs
  <2>3. k <= i
    BY <1>6, <2>1, <2>2
  <2>4. k \in 1..Len(l)
    BY <1>2, <2>1, <2>2, <2>3
  <2>5. k = i
    BY <1>2, <1>4, <2>1, <2>2, <2>3, <2>4
  <2>6. m[k].body = l[i].body /\ m[k].prev = l[i].prev
    BY <1>1, <2>1, <2>5
  <2> QED
    BY <2>1, <2>2, <2>6 DEF SnapshotAt, DigestOf
<1> QED
  BY <1>6, <1>7, <1>8

\* What holds of an event or a writer holds in the log later on.
LEMMA GrownEvent ==
  ASSUME NEW l, NEW m, Grown(l, m), NEW F, NEW e, InLog(l, e)
  PROVE  InLog(m, e) /\ (Served(l, F, e) => Served(m, F, e))
<1>1. /\ Proper(l) /\ Proper(m) /\ Len(l) <= Len(m)
      /\ \A i \in 1..Len(l) : m[i].body = l[i].body /\ m[i].prev = l[i].prev
  BY DEF Grown
<1>2. Len(l) \in Nat /\ Len(m) \in Nat
  BY <1>1, ProperAt
<1>3. e.body.seq + 1 \in 1..Len(l) /\ e.body.seq + 1 \in 1..Len(m)
  BY <1>1, <1>2 DEF InLog
<1>4. InLog(m, e)
  BY <1>1, <1>3 DEF InLog
<1>5. Sole(m, e.body.root) => Sole(l, e.body.root)
  BY GrownSeals
<1> QED
  BY <1>4, <1>5 DEF Served

LEMMA GrownWriter ==
  ASSUME NEW l, NEW m, Grown(l, m), NEW F, NEW me \in WriterState, WriterOK(l, F, me)
  PROVE  WriterOK(m, F, me)
<1>1. ASSUME BatchOK(l, F, me) PROVE BatchOK(m, F, me)
  <2>1. /\ \A i \in 1..Len(me.batch) : InLog(l, me.batch[i])
        /\ \A k \in 1..Len(me.todo) : \E i \in 1..Len(me.batch) : IsSeal(me.batch[i], me.todo[k])
        /\ \A i \in 1..Len(me.batch) :
             \/ \E k \in 1..Len(me.todo) : IsSeal(me.batch[i], me.todo[k])
             \/ Served(l, F, me.batch[i])
    BY <1>1 DEF BatchOK
  <2>2. \A i \in 1..Len(me.batch) :
          InLog(m, me.batch[i]) /\ (Served(l, F, me.batch[i]) => Served(m, F, me.batch[i]))
    BY <2>1, GrownEvent
  <2> QED
    BY <2>1, <2>2 DEF BatchOK
<1>2. ASSUME me.pc \in Writing, BatchOK(l, F, me), SnapOK(l, F, me) PROVE SnapOK(m, F, me)
  <2>1. /\ me.todo # << >> /\ Kept(me.snap)
        /\ me.snap = SnapshotAt(l[FirstIn(l, me.todo[1])], me.todo[1])
        /\ me.pc = "second" /\ Sole(l, me.todo[1]) => F[me.todo[1]][1] = me.snap
    BY <1>2 DEF SnapOK
  <2>2. 1 \in 1..Len(me.todo)
    BY <2>1 DEF WriterState
  <2>3. PICK i \in 1..Len(me.batch) : InLog(l, me.batch[i]) /\ IsSeal(me.batch[i], me.todo[1])
    BY <1>2, <2>2 DEF BatchOK
  <2>4. Proper(l)
    BY DEF Grown
  <2>5. SealsOf(l, me.todo[1]) # {}
    BY <2>3, <2>4, SealIn
  <2>6. SnapshotAt(m[FirstIn(m, me.todo[1])], me.todo[1]) = me.snap
    BY <2>1, <2>5, GrownSeals
  <2>7. Sole(m, me.todo[1]) => Sole(l, me.todo[1])
    BY GrownSeals
  <2> QED
    BY <2>1, <2>6, <2>7 DEF SnapOK
<1>3. EndOK(l, me) => EndOK(m, me)
  <2>1. Broken(l) => Broken(m)
    BY DEF Grown
  <2>2. Written(l, me) => Written(m, me)
    BY GrownEvent DEF Written
  <2> QED
    BY <2>1, <2>2 DEF EndOK
<1>4. Writing \subseteq Active
  BY DEF Active
<1> QED
  BY <1>1, <1>2, <1>3, <1>4 DEF WriterOK

\* A sequence with another element at one of its positions.
LEMMA ReplacedIn ==
  ASSUME NEW S, NEW s \in Seq(S), NEW n \in 1..Len(s), NEW x \in S,
         NEW t, t = [s EXCEPT ![n] = x]
  PROVE  /\ t \in Seq(S) /\ Len(t) = Len(s) /\ t[n] = x
         /\ \A k \in 1..Len(s) : k # n => t[k] = s[k]
OBVIOUS

\* An event is damaged.
LEMMA DamagedEvent ==
  ASSUME NEW e \in Event
  PROVE  LET x == [e EXCEPT !.genuine = FALSE]
         IN  x \in Event /\ x.body = e.body /\ x.prev = e.prev /\ ~x.genuine
<1>1. PICK x : x = [e EXCEPT !.genuine = FALSE]
  OBVIOUS
<1>2. x \in Event
  BY <1>1, Zenon DEF Event
<1>3. x.body = e.body /\ x.prev = e.prev
  BY <1>1 DEF Event
<1>4. x.genuine = FALSE
  BY <1>1, Zenon DEF Event
<1> QED
  BY <1>1, <1>2, <1>3, <1>4

LEMMA DamagedLog ==
  ASSUME NEW l, Proper(l), NEW i \in 1..Len(l),
         NEW x \in Event, x.body = l[i].body, x.prev = l[i].prev, ~x.genuine,
         NEW m, m = [l EXCEPT ![i] = x]
  PROVE  Grown(l, m)
<1>1. l \in Seq(Event) /\ Len(l) \in Nat /\ \A j \in 1..Len(l) : l[j] \in Event
  BY ProperAt
<1>5. /\ m \in Seq(Event) /\ Len(m) = Len(l) /\ m[i] = x
      /\ \A j \in 1..Len(l) : j # i => m[j] = l[j]
  BY <1>1, ReplacedIn
<1>6. \A j \in 1..Len(l) : m[j].body = l[j].body /\ m[j].prev = l[j].prev
  BY <1>5
<1>7. Proper(m)
  <2>1. ASSUME NEW j \in 1..Len(l)
        PROVE  /\ Offered(m[j]) /\ m[j].body.seq = j - 1
               /\ m[j].prev = [k \in 1..(j - 1) |-> m[k].body]
    <3>1. Offered(l[j]) /\ l[j].body.seq = j - 1 /\ l[j].prev = [k \in 1..(j - 1) |-> l[k].body]
      BY DEF Proper
    <3>2. \A k \in 1..(j - 1) : k \in 1..Len(l)
      BY <1>1
    <3>3. m[j].prev = [k \in 1..(j - 1) |-> m[k].body]
      BY <1>6, <3>1, <3>2
    <3> QED
      BY <1>6, <3>1, <3>3 DEF Offered
  <2> QED
    BY <1>5, <2>1 DEF Proper
<1>8. Broken(m)
  <2>1. PICK f : Stages(FromGenesis, m, f)
    BY <1>5, ReplayStages
  <2>2. f[Len(m)].status # "ok"
    <3>1. ASSUME f[Len(m)].status = "ok" PROVE m[i].genuine
      BY <1>5, <2>1, <3>1, PlainStart, WellAllTheWay, ZenonT(40)
    <3> QED
      BY <1>5, <3>1
  <2> QED
    BY <2>1, <2>2 DEF Stages, Broken
<1> QED
  BY <1>1, <1>5, <1>6, <1>7, <1>8 DEF Grown

\* A log that does not replay does not with more events behind it.
LEMMA LongerLog ==
  ASSUME NEW l, Proper(l), NEW m, Proper(m), Len(l) <= Len(m), \A i \in 1..Len(l) : m[i] = l[i]
  PROVE  Grown(l, m)
<1>1. /\ l \in Seq(Event) /\ Len(l) \in Nat /\ m \in Seq(Event) /\ Len(m) \in Nat
  BY ProperAt
<1>2. ASSUME Broken(l) PROVE Broken(m)
  <2>1. PICK f : Stages(FromGenesis, m, f)
    BY <1>1, ReplayStages
  <2>2. Len(l) \in 0..Len(m)
    BY <1>1
  <2>3. PICK front : front = SubSeq(m, 1, Len(l))
    OBVIOUS
  <2>4. front \in Seq(Event) /\ Len(front) = Len(l) /\ \A i \in 1..Len(l) : front[i] = l[i]
    BY <1>1, <2>2, <2>3, FrontIs
  <2>5. front = l
    BY <1>1, <2>4
  <2>6. f[Len(l)].status # "ok"
    BY <1>2, <2>1, <2>2, <2>3, <2>5 DEF Stages, Broken
  <2>7. f[Len(m)].status # "ok"
    BY <1>1, <2>1, <2>2, <2>6, PlainStart, WellAllTheWay
  <2> QED
    BY <2>1, <2>7 DEF Stages, Broken
<1> QED
  BY <1>2 DEF Grown

-----------------------------------------------------------------------------
(* Batches, and the roots of their seals. *)

\* What is offered as the body of an event.
LEMMA BodiesOfType ==
  ASSUME NEW kind \in {"write", "delete", "seal"}, NEW seq \in Nat, NEW b \in BodiesOf(kind, seq)
  PROVE  /\ b \in Body /\ b.seq = seq
         /\ b.kind = "seal" => b.root \in Roots /\ b.ts \in Nat /\ b.ops = << >>
<1>1. PICK ns \in Namespaces,
           ops \in IF kind = "seal" THEN {<< >>}
                   ELSE {<<op>> : op \in {o \in Ops : o.kind = kind}},
           root \in IF kind = "seal" THEN Roots ELSE {None},
           ts \in IF kind = "seal" THEN {1} ELSE {None} :
        b = [kind |-> kind, ns |-> ns, seq |-> seq, tick |-> 1, ops |-> ops,
             root |-> root, ts |-> ts]
  BY DEF BodiesOf
<1>2. ops \in Seq(Op)
  <2>1. CASE kind = "seal"
    BY <2>1
  <2>2. CASE kind # "seal"
    <3>1. PICK op \in Ops : ops = <<op>>
      BY <2>2
    <3>2. op \in Op
      BY CacheOpAssumption
    <3> QED
      BY <3>1, <3>2
  <2> QED
    BY <2>1, <2>2
<1>3. root \in StateMap \union {None} /\ ts \in Nat \union {None} /\ kind \in AllKinds
  BY <1>1, CacheOpAssumption DEF AllKinds
<1>4. b \in Body
  BY <1>1, <1>2, <1>3 DEF Body
<1>5. b.seq = seq /\ b.kind = kind /\ b.root = root /\ b.ts = ts /\ b.ops = ops
  BY <1>1
<1>6. kind = "seal" => root \in Roots /\ ts \in Nat /\ ops = << >>
  BY <1>1
<1> QED
  BY <1>4, <1>5, <1>6

\* The digest of the last event of a proper log.
LEMMA LastDigestIs ==
  ASSUME Proper(log)
  PROVE  /\ LastDigest \in Seq(Body) /\ Len(LastDigest) = Len(log)
         /\ \A j \in 1..Len(log) : LastDigest[j] = log[j].body
<1>1. PICK n : n = Len(log) /\ n \in Nat
  BY ProperAt
<1>2. log \in Seq(Event) /\ \A i \in 1..n : log[i].body \in Body
  BY <1>1, ProperAt DEF Event
<1>3. CASE log = << >>
  <2>1. LastDigest = << >> /\ n = 0
    BY <1>1, <1>3 DEF LastDigest, Genesis
  <2> QED
    BY <1>1, <2>1
<1>4. CASE log # << >>
  <2>1. n \in 1..n /\ n - 1 \in Nat
    BY <1>1, <1>2, <1>4
  <2>2. PICK p : p = log[n].prev /\ p = [j \in 1..(n - 1) |-> log[j].body]
    BY <1>1, <2>1 DEF Proper
  <2>3. \A j \in 1..(n - 1) : j \in 1..n
    BY <1>1
  <2>4. p \in Seq(Body) /\ Len(p) = n - 1
    BY <1>2, <2>1, <2>2, <2>3
  <2>5. LastDigest = Append(p, log[n].body)
    BY <1>1, <1>4, <2>2 DEF LastDigest, DigestOf
  <2>6. LastDigest \in Seq(Body) /\ Len(LastDigest) = n /\ LastDigest[n] = log[n].body
    BY <1>2, <2>1, <2>4, <2>5
  <2>7. ASSUME NEW j \in 1..n, j # n PROVE LastDigest[j] = log[j].body
    <3>1. j \in 1..(n - 1)
      BY <1>1, <2>7
    <3> QED
      BY <1>2, <2>1, <2>2, <2>4, <2>5, <3>1
  <2> QED
    BY <1>1, <2>6, <2>7
<1> QED
  BY <1>3, <1>4

\* A sequence and another.
LEMMA JoinIs ==
  ASSUME NEW S, NEW l \in Seq(S), NEW b \in Seq(S), NEW n, n = Len(l), NEW k, k = Len(b)
  PROVE  /\ l \o b \in Seq(S) /\ Len(l \o b) = n + k
         /\ \A i \in 1..n : (l \o b)[i] = l[i]
         /\ \A i \in 1..k : (l \o b)[n + i] = b[i]
OBVIOUS

\* What append_batch takes at the end of the log.
Taken(l, batch) ==
  /\ batch \in Seq(Event)
  /\ \A i \in 1..Len(batch) :
       batch[i].genuine /\ Offered(batch[i]) /\ batch[i].body.seq = Len(l) + i - 1

LEMMA BatchesAre ==
  ASSUME Proper(log), NEW shape \in Shapes, NEW batch \in BatchesOf(shape), NEW m, m = log \o batch
  PROVE  Taken(log, batch) /\ Proper(m)
<1> DEFINE Kinds == {"write", "delete", "seal"}
<1>1. PICK n : n = Len(log) /\ n \in Nat
  BY ProperAt
<1>2. shape \in Seq(Kinds)
  BY ShapeAssumption
<1>3. PICK k : k = Len(shape) /\ k \in Nat /\ DOMAIN shape = 1..k
  BY <1>2
<1>4. PICK bodies :
        /\ \A i \in 1..k : bodies[i] \in BodiesOf(shape[i], n + i - 1)
        /\ batch = [i \in 1..k |-> [body |-> bodies[i],
                                    prev |-> LastDigest \o SubSeq(bodies, 1, i - 1),
                                    genuine |-> TRUE]]
        /\ bodies = [i \in 1..k |-> bodies[i]]
        /\ batch = [i \in 1..k |-> batch[i]]
  <2> DEFINE Offers == UNION {BodiesOf(shape[i], n + i - 1) : i \in 1..k}
             Made(b) == [i \in 1..k |-> [body |-> b[i],
                                         prev |-> LastDigest \o SubSeq(b, 1, i - 1),
                                         genuine |-> TRUE]]
  <2>1. BatchesOf(shape) =
          {Made(b) : b \in {c \in [1..k -> Offers] :
                              \A i \in 1..k : c[i] \in BodiesOf(shape[i], n + i - 1)}}
    BY <1>1, <1>3 DEF BatchesOf
  <2> HIDE DEF Offers, Made
  <2>2. PICK b \in [1..k -> Offers] :
          /\ \A i \in 1..k : b[i] \in BodiesOf(shape[i], n + i - 1)
          /\ batch = Made(b)
    BY <2>1
  <2> QED
    BY <2>2 DEF Made
<1>5. ASSUME NEW i \in 1..k
      PROVE  /\ bodies[i] \in Body /\ bodies[i].seq = n + i - 1
             /\ bodies[i].kind = "seal" =>
                  bodies[i].root \in Roots /\ bodies[i].ts \in Nat /\ bodies[i].ops = << >>
  <2>1. n + i - 1 \in Nat /\ shape[i] \in Kinds
    BY <1>1, <1>2, <1>3
  <2> QED
    BY <1>4, <2>1, BodiesOfType
<1>6. bodies \in Seq(Body) /\ Len(bodies) = k
  BY <1>3, <1>4, <1>5
<1>7. PICK last : /\ last = LastDigest /\ last \in Seq(Body) /\ Len(last) = n
                  /\ \A j \in 1..n : last[j] = log[j].body
  BY <1>1, LastDigestIs
<1>8. ASSUME NEW i \in 1..k
      PROVE  /\ batch[i] \in Event /\ batch[i].genuine /\ batch[i].body = bodies[i]
             /\ batch[i].prev \in Seq(Body) /\ Len(batch[i].prev) = n + i - 1
             /\ \A j \in 1..n : batch[i].prev[j] = log[j].body
             /\ \A j \in 1..(i - 1) : batch[i].prev[n + j] = bodies[j]
  <2>1. i - 1 \in 0..Len(bodies)
    BY <1>3, <1>6
  <2>2. PICK front : front = SubSeq(bodies, 1, i - 1)
    OBVIOUS
  <2>3. front \in Seq(Body) /\ Len(front) = i - 1 /\ \A j \in 1..(i - 1) : front[j] = bodies[j]
    BY <1>6, <2>1, <2>2, FrontIs
  <2>4. PICK p : p = last \o front
    OBVIOUS
  <2>5. /\ p \in Seq(Body) /\ Len(p) = n + (i - 1)
        /\ \A j \in 1..n : p[j] = last[j]
        /\ \A j \in 1..(i - 1) : p[n + j] = front[j]
    <3>1. PICK h : h = i - 1 /\ h = Len(front)
      BY <2>3
    <3>2. last \in Seq(Body) /\ n = Len(last) /\ front \in Seq(Body)
      BY <1>7, <2>3
    <3>3. /\ last \o front \in Seq(Body) /\ Len(last \o front) = n + h
          /\ \A j \in 1..n : (last \o front)[j] = last[j]
          /\ \A j \in 1..h : (last \o front)[n + j] = front[j]
      <4>1. PICK a : a = last /\ a \in Seq(Body) /\ n = Len(a)
        BY <3>2
      <4>2. PICK b : b = front /\ b \in Seq(Body) /\ h = Len(b)
        BY <3>1, <3>2
      <4>3. /\ a \o b \in Seq(Body) /\ Len(a \o b) = n + h
            /\ \A j \in 1..n : (a \o b)[j] = a[j]
            /\ \A j \in 1..h : (a \o b)[n + j] = b[j]
        BY <4>1, <4>2, JoinIs
      <4> QED
        BY <4>1, <4>2, <4>3, Zenon
    <3> QED
      BY <2>4, <3>1, <3>3
  <2>6. batch[i] = [body |-> bodies[i], prev |-> p, genuine |-> TRUE]
    BY <1>4, <1>7, <2>2, <2>4
  <2>7. batch[i] \in Event
    BY <1>5, <2>5, <2>6 DEF Event, Digest
  <2>8. batch[i].genuine /\ batch[i].body = bodies[i] /\ batch[i].prev = p
    BY <2>6
  <2>9. n + (i - 1) = n + i - 1
    BY <1>1
  <2> QED
    BY <1>7, <2>3, <2>5, <2>7, <2>8, <2>9
<1>9. batch \in Seq(Event) /\ Len(batch) = k
  <2>1. batch = [i \in 1..k |-> batch[i]]
    BY <1>4
  <2>2. \A i \in 1..k : batch[i] \in Event
    BY <1>8
  <2> QED
    BY <1>3, <2>1, <2>2
<1>a. Taken(log, batch)
  <2>1. ASSUME NEW i \in 1..k
        PROVE  batch[i].genuine /\ Offered(batch[i]) /\ batch[i].body.seq = n + i - 1
    BY <1>5, <1>8 DEF Offered
  <2> QED
    BY <1>1, <1>9, <2>1 DEF Taken
<1>b. log \in Seq(Event)
  BY ProperAt
<1>c. /\ m \in Seq(Event) /\ Len(m) = n + k
      /\ \A i \in 1..n : m[i] = log[i]
      /\ \A i \in 1..k : m[n + i] = batch[i]
  BY <1>1, <1>9, <1>b, JoinIs
<1>d. ASSUME NEW i \in 1..n + k
      PROVE  /\ Offered(m[i]) /\ m[i].body.seq = i - 1
             /\ m[i].prev = [j \in 1..(i - 1) |-> m[j].body]
  <2>1. CASE i \in 1..n
    <3>1. /\ Offered(log[i]) /\ log[i].body.seq = i - 1
          /\ log[i].prev = [j \in 1..(i - 1) |-> log[j].body]
      BY <1>1, <2>1 DEF Proper
    <3>2. \A j \in 1..(i - 1) : j \in 1..n
      BY <1>1, <2>1
    <3> QED
      BY <1>c, <2>1, <3>1, <3>2
  <2>2. CASE i \notin 1..n
    <3>1. PICK h \in 1..k : i = n + h
      <4>1. i - n \in 1..k /\ i = n + (i - n)
        BY <1>1, <1>3, <2>2
      <4> QED
        BY <4>1
    <3>2. m[i] = batch[h]
      BY <1>c, <3>1
    <3>3. Offered(m[i]) /\ m[i].body.seq = i - 1
      <4>1. PICK b : b = bodies[h] /\ m[i].body = b
        BY <1>8, <3>2
      <4>2. b.seq = n + h - 1 /\ (b.kind = "seal" => b.root \in Roots /\ b.ts \in Nat /\ b.ops = << >>)
        BY <1>5, <4>1
      <4>3. n + h - 1 = i - 1
        BY <1>1, <3>1
      <4> QED
        BY <4>1, <4>2, <4>3 DEF Offered
    <3>4. PICK p : p = batch[h].prev /\ p \in Seq(Body) /\ Len(p) = i - 1
      <4>1. PICK p : p = batch[h].prev
        OBVIOUS
      <4>2. p \in Seq(Body) /\ Len(p) = n + h - 1
        BY <1>8, <4>1
      <4>3. n + h - 1 = i - 1
        BY <1>1, <3>1
      <4> QED
        BY <4>1, <4>2, <4>3
    <3>5. ASSUME NEW j \in 1..(i - 1) PROVE p[j] = m[j].body
      <4>1. CASE j \in 1..n
        BY <1>8, <1>c, <3>1, <3>4, <4>1
      <4>2. CASE j \notin 1..n
        <5>1. j - n \in 1..(h - 1) /\ j - n \in 1..k /\ n + (j - n) = j
          BY <1>1, <1>3, <3>1, <4>2
        <5>2. p[j] = bodies[j - n]
          BY <1>8, <3>1, <3>4, <5>1
        <5>3. m[j] = batch[j - n]
          BY <1>c, <5>1
        <5>4. batch[j - n].body = bodies[j - n]
          BY <1>8, <5>1
        <5> QED
          BY <5>2, <5>3, <5>4
      <4> QED
        BY <4>1, <4>2
    <3>6. p = [j \in 1..(i - 1) |-> p[j]]
      BY <3>4
    <3> QED
      BY <3>2, <3>3, <3>4, <3>5, <3>6
  <2> QED
    BY <2>1, <2>2
<1> QED
  BY <1>a, <1>c, <1>d DEF Proper

\* The roots of the first i events of a batch, by their definition.
IsRoots(batch, n, f) ==
  f = [i \in 0..n |->
         IF i = 0 THEN << >>
         ELSE IF batch[i].body.kind = "seal" THEN Append(f[i - 1], batch[i].body.root)
         ELSE f[i - 1]]

LEMMA RootsExist ==
  ASSUME NEW batch, NEW n \in Nat
  PROVE  \E f : IsRoots(batch, n, f)
<1> DEFINE S == {m \in Nat : \E f : IsRoots(batch, m, f)}
<1>1. 0 \in S
  <2>1. IsRoots(batch, 0, [i \in 0..0 |-> << >>])
    BY DEF IsRoots
  <2> QED
    BY <2>1
<1>2. ASSUME NEW m \in Nat, m \in S PROVE m + 1 \in S
  <2>1. PICK f : IsRoots(batch, m, f)
    BY <1>2
  <2> DEFINE more == IF batch[m + 1].body.kind = "seal" THEN Append(f[m], batch[m + 1].body.root)
                     ELSE f[m]
             g == [i \in 0..m + 1 |-> IF i = m + 1 THEN more ELSE f[i]]
  <2>2. ASSUME NEW i \in 0..m + 1
        PROVE  g[i] = IF i = 0 THEN << >>
                      ELSE IF batch[i].body.kind = "seal" THEN Append(g[i - 1], batch[i].body.root)
                      ELSE g[i - 1]
    <3>1. CASE i = m + 1
      <4>1. i # 0 /\ i - 1 = m /\ m \in 0..m + 1 /\ m # m + 1
        BY <3>1
      <4> QED
        BY <3>1, <4>1
    <3>2. CASE i # m + 1
      <4>1. i \in 0..m
        BY <3>2
      <4>2. f[i] = IF i = 0 THEN << >>
                   ELSE IF batch[i].body.kind = "seal" THEN Append(f[i - 1], batch[i].body.root)
                   ELSE f[i - 1]
        BY <2>1, <4>1 DEF IsRoots
      <4>3. i # 0 => i - 1 \in 0..m + 1 /\ i - 1 # m + 1
        BY <4>1
      <4> HIDE DEF more
      <4> QED
        BY <3>2, <4>2, <4>3
    <3> QED
      BY <3>1, <3>2
  <2>3. IsRoots(batch, m + 1, g)
    <3> HIDE DEF more
    <3> QED
      BY <2>2 DEF IsRoots
  <2> HIDE DEF g
  <2> QED
    BY <2>3
<1> HIDE DEF S
<1>3. n \in S
  BY <1>1, <1>2, Induction
<1> QED
  BY <1>3 DEF S

\* The roots are those of the seals of the batch.
RootsOf(roots, batch, n) ==
  /\ roots \in Seq(Roots)
  /\ \A k \in 1..Len(roots) : \E i \in 1..n : IsSeal(batch[i], roots[k])
  /\ \A i \in 1..n : batch[i].body.kind = "seal" =>
       \E k \in 1..Len(roots) : roots[k] = batch[i].body.root

LEMMA OneMoreRoot ==
  ASSUME NEW batch, NEW n \in Nat, NEW roots, RootsOf(roots, batch, n),
         Offered(batch[n + 1]),
         NEW more, more = IF batch[n + 1].body.kind = "seal"
                          THEN Append(roots, batch[n + 1].body.root) ELSE roots
  PROVE  RootsOf(more, batch, n + 1)
<1>1. /\ roots \in Seq(Roots)
      /\ \A k \in 1..Len(roots) : \E i \in 1..n : IsSeal(batch[i], roots[k])
      /\ \A i \in 1..n : batch[i].body.kind = "seal" =>
           \E k \in 1..Len(roots) : roots[k] = batch[i].body.root
  BY DEF RootsOf
<1>2. 1..(n + 1) = 1..n \union {n + 1} /\ n + 1 \in 1..(n + 1)
  OBVIOUS
<1>3. CASE batch[n + 1].body.kind # "seal"
  BY <1>1, <1>2, <1>3 DEF RootsOf
<1>4. CASE batch[n + 1].body.kind = "seal"
  <2>1. PICK r \in Roots : r = batch[n + 1].body.root
    BY <1>4 DEF Offered
  <2>2. more = Append(roots, r)
    BY <1>4, <2>1
  <2>3. /\ more \in Seq(Roots) /\ Len(more) = Len(roots) + 1 /\ more[Len(roots) + 1] = r
        /\ \A k \in 1..Len(roots) : more[k] = roots[k]
        /\ 1..Len(more) = 1..Len(roots) \union {Len(roots) + 1}
    BY <1>1, <2>2
  <2>4. IsSeal(batch[n + 1], r)
    BY <1>4, <2>1 DEF IsSeal
  <2>5. \A k \in 1..Len(more) : \E i \in 1..(n + 1) : IsSeal(batch[i], more[k])
    BY <1>1, <1>2, <2>3, <2>4
  <2>6. \A i \in 1..(n + 1) : batch[i].body.kind = "seal" =>
          \E k \in 1..Len(more) : more[k] = batch[i].body.root
    BY <1>1, <1>2, <2>1, <2>3
  <2> QED
    BY <2>3, <2>5, <2>6 DEF RootsOf
<1> QED
  BY <1>3, <1>4

LEMMA SealedRootsAre ==
  ASSUME NEW X, NEW batch \in Seq(X), \A i \in 1..Len(batch) : Offered(batch[i])
  PROVE  RootsOf(SealedRoots(batch), batch, Len(batch))
<1>1. PICK n : n = Len(batch) /\ n \in Nat
  OBVIOUS
<1> DEFINE F == CHOOSE f : IsRoots(batch, n, f)
<1>2. \E f : IsRoots(batch, n, f)
  BY <1>1, RootsExist
<1>3. IsRoots(batch, n, F)
  BY <1>2
<1>4. SealedRoots(batch) = F[n]
  BY <1>1 DEF SealedRoots, IsRoots
<1> HIDE DEF F
<1>5. ASSUME NEW i \in 0..n
      PROVE  F[i] = IF i = 0 THEN << >>
                    ELSE IF batch[i].body.kind = "seal" THEN Append(F[i - 1], batch[i].body.root)
                    ELSE F[i - 1]
  BY <1>3 DEF IsRoots
<1> DEFINE S == {i \in Nat : i <= n => RootsOf(F[i], batch, i)}
<1>6. 0 \in S
  <2>1. F[0] = << >>
    BY <1>1, <1>5
  <2>2. RootsOf(<< >>, batch, 0)
    BY DEF RootsOf
  <2> QED
    BY <2>1, <2>2
<1>7. ASSUME NEW i \in Nat, i \in S PROVE i + 1 \in S
  <2>1. SUFFICES ASSUME i + 1 <= n PROVE RootsOf(F[i + 1], batch, i + 1)
    OBVIOUS
  <2>2. i + 1 \in 0..n /\ i + 1 \in 1..n /\ i + 1 # 0 /\ (i + 1) - 1 = i /\ i <= n
    BY <1>1, <2>1
  <2>3. RootsOf(F[i], batch, i) /\ Offered(batch[i + 1])
    BY <1>1, <1>7, <2>2
  <2>4. F[i + 1] = IF batch[i + 1].body.kind = "seal" THEN Append(F[i], batch[i + 1].body.root)
                   ELSE F[i]
    BY <1>5, <2>2
  <2> QED
    BY <2>3, <2>4, OneMoreRoot
<1> HIDE DEF S
<1>8. n \in S
  BY <1>1, <1>6, <1>7, Induction
<1> QED
  BY <1>1, <1>4, <1>8 DEF S

-----------------------------------------------------------------------------
(* Every action keeps the invariant. *)

LEMMA InitInv ==
  ASSUME Init
  PROVE  CacheInv
<1>1. Proper(<< >>)
  BY DEF Proper
<1>2. IdleWriter \in WriterState /\ IdleWriter.pc = "idle" /\ IdleWriter.snap = None
  BY DEF IdleWriter, WriterState, Active, Writing
<1>3. /\ IdleVerifier \in VerifierState /\ IdleVerifier.pc = "idle"
      /\ IdleVerifier.seen = << >> /\ IdleVerifier.cached = None
  BY DEF IdleVerifier, VerifierState
<1>4. /\ NoFile \in HalfFiles
      /\ NoFile[1] = None /\ NoFile[2] = None
  BY DEF NoFile, HalfFiles
<1>5. /\ log = << >> /\ acked = {}
      /\ files = [root \in Roots |-> NoFile]
      /\ writer = [w \in Writers |-> IdleWriter]
      /\ verifier = [v \in Verifiers |-> IdleVerifier]
  BY DEF Init
<1>6. TypeInv
  BY <1>1, <1>2, <1>3, <1>4, <1>5 DEF TypeInv
<1>7. \A root \in Roots : FileOK(files[root])
  BY <1>4, <1>5 DEF FileOK, MaybeKept
<1>8. "idle" \notin Active /\ "idle" \notin Writing /\ "idle" \notin Over
  BY DEF Active, Writing, Over
<1>9. \A w \in Writers : writer[w].pc = "idle" /\ writer[w].snap = None
  BY <1>2, <1>5
<1>a. \A w \in Writers : WriterOK(log, files, writer[w])
  BY <1>8, <1>9 DEF WriterOK
<1>b. \A w1, w2 \in Writers : Apart(writer[w1], writer[w2])
  BY <1>8, <1>9 DEF Apart
<1>c. \A v \in Verifiers : VerifierOK(verifier[v])
  <2>1. VerifierOK(IdleVerifier)
    BY <1>1, <1>3 DEF VerifierOK, MaybeKept
  <2> QED
    BY <1>5, <2>1
<1> QED
  BY <1>5, <1>6, <1>7, <1>a, <1>b, <1>c DEF CacheInv

\* From files F to G nothing changes that an event outside a batch relies on.
Untouched(l, F, G, me) ==
  \A e : InLog(l, e) /\ e.body.kind = "seal" /\ Sole(l, e.body.root) /\ Free(me, e.body.seq) =>
           G[e.body.root] = F[e.body.root]

\* The other writers do not mind.
LEMMA OthersOK ==
  ASSUME NEW l, NEW F, NEW G, NEW me, Untouched(l, F, G, me),
         NEW you \in WriterState, WriterOK(l, F, you), Apart(me, you)
  PROVE  WriterOK(l, G, you)
<1>1. \A e : InLog(l, e) /\ Free(me, e.body.seq) /\ Served(l, F, e) => Served(l, G, e)
  BY DEF Untouched, Served
<1>2. ASSUME you.pc \in Active, BatchOK(l, F, you) PROVE BatchOK(l, G, you)
  <2>1. \A i \in 1..Len(you.batch) : Free(me, you.batch[i].body.seq)
    BY <1>2 DEF Apart
  <2> QED
    BY <1>1, <1>2, <2>1 DEF BatchOK
<1>3. ASSUME you.pc \in Writing, you.pc \in Active, BatchOK(l, F, you), SnapOK(l, F, you)
      PROVE  SnapOK(l, G, you)
  <2>1. \A i \in 1..Len(you.batch) : Free(me, you.batch[i].body.seq)
    BY <1>3 DEF Apart
  <2>2. you.todo # << >> /\ 1 \in 1..Len(you.todo)
    BY <1>3 DEF SnapOK, WriterState
  <2>3. PICK i \in 1..Len(you.batch) : InLog(l, you.batch[i]) /\ IsSeal(you.batch[i], you.todo[1])
    BY <1>3, <2>2 DEF BatchOK
  <2>4. Sole(l, you.todo[1]) => G[you.todo[1]] = F[you.todo[1]]
    BY <2>1, <2>3 DEF Untouched, IsSeal
  <2> QED
    BY <1>3, <2>4 DEF SnapOK
<1>4. Writing \subseteq Active
  BY DEF Active
<1> QED
  BY <1>2, <1>3, <1>4 DEF WriterOK

\* A step of one writer that leaves the log and what is acknowledged.
LEMMA WriterStep ==
  ASSUME CacheInv, NEW w \in Writers, NEW me \in WriterState, NEW G,
         writer' = [writer EXCEPT ![w] = me], files' = G,
         UNCHANGED <<log, acked, verifier>>,
         G \in [Roots -> HalfFiles],
         \A root \in Roots : FileOK(G[root]),
         Untouched(log, files, G, writer[w]),
         WriterOK(log, G, me),
         me.pc \in Active => writer[w].pc \in Active /\ me.batch = writer[w].batch
  PROVE  CacheInv'
<1>1. /\ TypeInv
      /\ \A v \in Writers : WriterOK(log, files, writer[v])
      /\ \A w1, w2 \in Writers : w1 # w2 => Apart(writer[w1], writer[w2])
      /\ \A e \in acked : AckOK(log, files, e)
      /\ \A e \in acked, v \in Writers : Free(writer[v], e.body.seq)
      /\ \A v \in Verifiers : VerifierOK(verifier[v])
  BY DEF CacheInv
<1>2. writer \in [Writers -> WriterState] /\ log' = log /\ acked' = acked /\ verifier' = verifier
  BY <1>1 DEF TypeInv
<1>3. /\ writer' \in [Writers -> WriterState] /\ writer'[w] = me
      /\ \A v \in Writers : v # w => writer'[v] = writer[v]
  BY <1>2
<1>4. TypeInv'
  BY <1>1, <1>2, <1>3 DEF TypeInv
<1>5. \A s : Free(writer[w], s) => Free(me, s)
  BY DEF Free
<1>6. \A v \in Writers : WriterOK(log, G, writer'[v])
  <2>1. ASSUME NEW v \in Writers, v # w PROVE WriterOK(log, G, writer[v])
    <3>1. Apart(writer[w], writer[v]) /\ writer[v] \in WriterState /\ WriterOK(log, files, writer[v])
      BY <1>1, <1>2, <2>1
    <3> QED
      BY <3>1, OthersOK
  <2> QED
    BY <1>3, <2>1
<1>7. \A w1, w2 \in Writers : w1 # w2 => Apart(writer'[w1], writer'[w2])
  <2>1. ASSUME NEW v \in Writers, v # w
        PROVE  Apart(writer[v], me) /\ Apart(me, writer[v])
    <3>1. Apart(writer[v], writer[w]) /\ Apart(writer[w], writer[v])
      BY <1>1, <2>1
    <3>2. Apart(me, writer[v])
      BY <1>5, <3>1 DEF Apart
    <3>3. Apart(writer[v], me)
      BY <3>1 DEF Apart
    <3> QED
      BY <3>2, <3>3
  <2> QED
    BY <1>1, <1>3, <2>1
<1>8. ASSUME NEW e \in acked PROVE AckOK(log, G, e) /\ \A v \in Writers : Free(writer'[v], e.body.seq)
  <2>1. AckOK(log, files, e) /\ \A v \in Writers : Free(writer[v], e.body.seq)
    BY <1>1
  <2>2. AckOK(log, G, e)
    BY <2>1 DEF AckOK, Untouched, Served
  <2> QED
    BY <1>3, <1>5, <2>1, <2>2
<1>9. /\ \A root \in Roots : FileOK(files'[root])
      /\ \A v \in Writers : WriterOK(log', files', writer'[v])
      /\ \A e \in acked' : AckOK(log', files', e)
      /\ \A e \in acked', v \in Writers : Free(writer'[v], e.body.seq)
      /\ \A v \in Verifiers : VerifierOK(verifier'[v])
  BY <1>1, <1>2, <1>6, <1>8
<1> QED
  BY <1>4, <1>7, <1>9 DEF CacheInv

\* Without a change of the files.
LEMMA QuietStep ==
  ASSUME CacheInv, NEW w \in Writers, NEW me \in WriterState,
         writer' = [writer EXCEPT ![w] = me],
         UNCHANGED <<log, files, acked, verifier>>,
         WriterOK(log, files, me),
         me.pc \in Active => writer[w].pc \in Active /\ me.batch = writer[w].batch
  PROVE  CacheInv'
<1>1. Untouched(log, files, files, writer[w])
  BY DEF Untouched
<1>2. /\ files \in [Roots -> HalfFiles]
      /\ \A root \in Roots : FileOK(files[root])
  BY DEF CacheInv, TypeInv
<1>3. files' = files
  OBVIOUS
<1> QED
  BY <1>1, <1>2, <1>3, WriterStep

\* A record with the fields of a writer or a verifier.
IsWriter(me) == me = [pc |-> me.pc, todo |-> me.todo, batch |-> me.batch, snap |-> me.snap]
IsVerifier(me) == me = [pc |-> me.pc, seen |-> me.seen, root |-> me.root, cached |-> me.cached]

\* Records with some fields changed, one after the other.
LEMMA PcAndSnap ==
  ASSUME NEW me, IsWriter(me),
         NEW p, NEW s
  PROVE [me EXCEPT !.pc = p, !.snap = s] = [pc |-> p, todo |-> me.todo, batch |-> me.batch, snap |-> s]
<1>0. PICK pc, todo, batch, snap : me = [pc |-> pc, todo |-> todo, batch |-> batch, snap |-> snap]
  BY DEF IsWriter
<1>1. PICK m2 : m2 = [pc |-> p, todo |-> todo, batch |-> batch, snap |-> snap]
  OBVIOUS
<1>2. m2 = [me EXCEPT !.pc = p]
  BY <1>0, <1>1
<1>3. [m2 EXCEPT !.snap = s] = [pc |-> p, todo |-> todo, batch |-> batch, snap |-> s]
  BY <1>1
<1>4. me.todo = todo /\ me.batch = batch
  BY <1>0
<1> QED
  BY <1>2, <1>3, <1>4

LEMMA PcTodoAndSnap ==
  ASSUME NEW me, IsWriter(me),
         NEW p, NEW s, NEW t
  PROVE [me EXCEPT !.pc = p, !.todo = t, !.snap = s] = [pc |-> p, todo |-> t, batch |-> me.batch, snap |-> s]
<1>0. PICK pc, todo, batch, snap : me = [pc |-> pc, todo |-> todo, batch |-> batch, snap |-> snap]
  BY DEF IsWriter
<1>1. PICK m2 : m2 = [pc |-> p, todo |-> todo, batch |-> batch, snap |-> snap]
  OBVIOUS
<1>2. m2 = [me EXCEPT !.pc = p]
  BY <1>0, <1>1
<1>3. PICK m3 : m3 = [pc |-> p, todo |-> t, batch |-> batch, snap |-> snap]
  OBVIOUS
<1>6. m3 = [m2 EXCEPT !.todo = t]
  BY <1>1, <1>3
<1>4. [m3 EXCEPT !.snap = s] = [pc |-> p, todo |-> t, batch |-> batch, snap |-> s]
  BY <1>3
<1>5. me.batch = batch
  BY <1>0
<1> QED
  BY <1>2, <1>4, <1>5, <1>6

LEMMA PcAndCached ==
  ASSUME NEW me, IsVerifier(me),
         NEW p, NEW s
  PROVE [me EXCEPT !.pc = p, !.cached = s] = [pc |-> p, seen |-> me.seen, root |-> me.root, cached |-> s]
<1>0. PICK pc, todo, batch, snap : me = [pc |-> pc, seen |-> todo, root |-> batch, cached |-> snap]
  BY DEF IsVerifier
<1>1. PICK m2 : m2 = [pc |-> p, seen |-> todo, root |-> batch, cached |-> snap]
  OBVIOUS
<1>2. m2 = [me EXCEPT !.pc = p]
  BY <1>0, <1>1
<1>3. [m2 EXCEPT !.cached = s] = [pc |-> p, seen |-> todo, root |-> batch, cached |-> s]
  BY <1>1
<1>4. me.seen = todo /\ me.root = batch
  BY <1>0
<1> QED
  BY <1>2, <1>3, <1>4

\* What a type says of one writer, record by record.
LEMMA WriterIs ==
  ASSUME NEW me \in WriterState
  PROVE  /\ me.pc \in {"idle"} \union Over \union Active
         /\ me.todo \in Seq(Roots) /\ me.batch \in Seq(Event)
         /\ me.snap \in Snapshot \union {None}
         /\ IsWriter(me)
BY DEF WriterState, IsWriter

\* A writer that has nothing under way, or whose append returned Err.
LEMMA IdleOK ==
  ASSUME NEW l, NEW F, NEW me, me.pc \notin Active, me.snap = None, me.pc \in Over => EndOK(l, me)
  PROVE  WriterOK(l, F, me)
BY DEF WriterOK, Active

\* What the invariant says of one writer.
LEMMA WriterAt ==
  ASSUME CacheInv, NEW w \in Writers
  PROVE  /\ Proper(log) /\ writer[w] \in WriterState /\ WriterOK(log, files, writer[w])
         /\ writer[w].pc \in Active => BatchOK(log, files, writer[w])
         /\ writer[w].pc \in Writing =>
              /\ writer[w].pc \in Active
              /\ SnapOK(log, files, writer[w])
         /\ writer[w].pc \notin Writing => writer[w].snap = None
BY DEF CacheInv, TypeInv, WriterOK, Active

LEMMA CrashInv ==
  ASSUME CacheInv, NEW w \in Writers, GiveUp(w) \/ Crash(w)
  PROVE  CacheInv'
<1>1. /\ writer' = [writer EXCEPT ![w] = IdleWriter]
      /\ UNCHANGED <<log, files, acked, verifier>>
  BY DEF GiveUp, Crash
<1>2. IdleWriter \in WriterState /\ IdleWriter.pc = "idle" /\ IdleWriter.snap = None
  BY DEF IdleWriter, WriterState
<1>3. IdleWriter.pc \notin Active /\ IdleWriter.pc \notin Over
  BY <1>2 DEF Active, Writing, Over
<1>4. WriterOK(log, files, IdleWriter)
  BY <1>2, <1>3, IdleOK
<1> QED
  BY <1>1, <1>2, <1>3, <1>4, QuietStep

LEMMA PersistFailsInv ==
  ASSUME CacheInv, NEW w \in Writers, PersistFails(w)
  PROVE  CacheInv'
<1>1. PICK me : me = writer[w]
  OBVIOUS
<1>2. /\ me.pc \in Active /\ UNCHANGED <<log, files, acked, verifier>>
      /\ writer' = [writer EXCEPT ![w].pc = "failed", ![w].snap = None]
  BY <1>1 DEF PersistFails, Active, Writing
<1>3. me \in WriterState /\ BatchOK(log, files, me)
  BY <1>1, <1>2, WriterAt
<1>4. me.todo \in Seq(Roots) /\ me.batch \in Seq(Event) /\ IsWriter(me)
  BY <1>3, WriterIs
<1>5. PICK new : new = [pc |-> "failed", todo |-> me.todo, batch |-> me.batch, snap |-> None]
  OBVIOUS
<1>6. new \in WriterState /\ new.pc = "failed" /\ new.snap = None /\ new.batch = me.batch
  BY <1>4, <1>5 DEF WriterState, Over
<1>7. writer' = [writer EXCEPT ![w] = new]
  <2>1. new = [me EXCEPT !.pc = "failed", !.snap = None]
    BY <1>4, <1>5, PcAndSnap
  <2>2. writer \in [Writers -> WriterState]
    BY DEF CacheInv, TypeInv
  <2> QED
    BY <1>1, <1>2, <2>1, <2>2
<1>8. "failed" \notin Active
  BY DEF Active, Writing
<1>9. EndOK(log, new)
  BY <1>3, <1>6 DEF BatchOK, Written, EndOK
<1>a. WriterOK(log, files, new)
  BY <1>6, <1>8, <1>9, IdleOK
<1> QED
  BY <1>2, <1>6, <1>7, <1>8, <1>a, QuietStep

\* What the replay up to the first seal with a root finds.
LEMMA PersistFinds ==
  ASSUME NEW l, Proper(l), NEW root \in Roots, NEW at, at = FirstIn(l, root),
         SealsOf(l, root) # {},
         NEW state, state = Replayed(FromGenesis, SubSeq(l, 1, at))
  PROVE  /\ state.status = "ok" /\ state.map = root => Kept(SnapshotAt(l[at], state.map))
         /\ ~(state.status = "ok" /\ state.map = root) => Broken(l)
<1>1. at \in SealsOf(l, root) /\ at \in 1..Len(l)
  BY FirstIs
<1>2. /\ l[at].body.kind = "seal" /\ l[at].body.root = root
  BY <1>1 DEF SealsOf
<1>3. /\ l \in Seq(Event) /\ Len(l) \in Nat /\ at \in Nat
      /\ l[at] \in Event /\ Offered(l[at])
  BY <1>1, ProperAt
<1>4. PICK front : front = SubSeq(l, 1, at)
  OBVIOUS
<1>5. Proper(front) /\ Len(front) = at /\ front # << >> /\ \A i \in 1..at : front[i] = l[i]
  BY <1>1, <1>4, ProperFront
<1>6. front[at] = l[at] /\ at \in 1..at /\ at \in 0..at /\ at - 1 \in 0..at
  BY <1>1, <1>3, <1>5
<1>7. front \in Seq(Event) /\ DOMAIN front = 1..at
  BY <1>5, ProperAt
<1>8. PICK f : Stages(FromGenesis, front, f)
  BY <1>7, ReplayStages
<1>9. state = f[at] /\ f[at] = Advance(f[at - 1], l[at])
  BY <1>4, <1>5, <1>6, <1>8 DEF Stages
<1>a. Plain(f[at - 1])
  BY <1>5, <1>6, <1>7, <1>8, PlainStart, WellAllTheWay
<1>b. state.status = "ok" => state.map = root
  <2>1. l[at].body.ops = << >>
    BY <1>2, <1>3 DEF Offered
  <2> QED
    BY <1>2, <1>9, <1>a, <2>1, AdvanceFinds, SMTT(30)
<1>c. ASSUME state.status = "ok", state.map = root PROVE Kept(SnapshotAt(l[at], state.map))
  <2>1. \A i \in 1..at : front[i].genuine
    BY <1>5, <1>7, <1>8, <1>9, <1>c, PlainStart, WellAllTheWay
  <2>2. Undamaged(front)
    BY <1>7, <2>1, Zenon DEF Undamaged
  <2>3. PICK s : s = SnapshotAt(l[at], state.map)
    OBVIOUS
  <2>4. s.digest = DigestOf(front[Len(front)]) /\ s.map = state.map
    BY <1>5, <1>6, <2>3 DEF SnapshotAt
  <2>5. front = Committed(s.digest)
    BY <1>5, <2>2, <2>4, CommittedIs
  <2>6. s \in Snapshot
    <3>1. l[at].body \in Body /\ l[at].prev \in Seq(Body)
      BY <1>3 DEF Event, Digest
    <3>2. /\ l[at].body.ns \in Namespaces /\ l[at].body.tick \in Nat /\ l[at].body.seq \in Nat
      BY <3>1 DEF Body
    <3>3. l[at].body.ts \in Nat
      BY <1>2, <1>3 DEF Offered
    <3>4. DigestOf(l[at]) \in Digest
      BY <3>1 DEF DigestOf, Digest
    <3>5. state.map \in StateMap
      BY <1>c, CacheOpAssumption
    <3> QED
      BY <2>3, <3>2, <3>3, <3>4, <3>5 DEF SnapshotAt, Snapshot
  <2> QED
    BY <1>4, <1>c, <2>3, <2>4, <2>5, <2>6 DEF Kept
<1>d. ASSUME state.status # "ok" PROVE Broken(l)
  <2>1. Broken(front)
    BY <1>4, <1>d DEF Broken
  <2>2. Grown(front, l)
    BY <1>1, <1>3, <1>5, LongerLog
  <2> QED
    BY <2>1, <2>2 DEF Grown
<1> QED
  BY <1>b, <1>c, <1>d

LEMMA PersistInv ==
  ASSUME CacheInv, NEW w \in Writers, Persist(w)
  PROVE  CacheInv'
<1>1. PICK me : me = writer[w]
  OBVIOUS
<1>2. me.pc = "next" /\ me.todo # << >> /\ UNCHANGED <<log, files, acked, verifier>>
  BY <1>1 DEF Persist
<1>3. /\ Proper(log) /\ me \in WriterState /\ me.pc \in Active /\ BatchOK(log, files, me)
      /\ me.snap = None
  BY <1>1, <1>2, WriterAt DEF Active, Writing
<1>4. /\ me.todo \in Seq(Roots) /\ me.batch \in Seq(Event)
      /\ IsWriter(me)
  BY <1>3, WriterIs
<1>5. PICK root \in Roots : root = me.todo[1] /\ 1 \in 1..Len(me.todo)
  BY <1>2, <1>4
<1>6. PICK i \in 1..Len(me.batch) : InLog(log, me.batch[i]) /\ IsSeal(me.batch[i], root)
  BY <1>3, <1>5 DEF BatchOK
<1>7. SealsOf(log, root) # {}
  BY <1>3, <1>6, SealIn
<1>8. PICK at : at = FirstIn(log, root) /\ at = FirstSeal(root)
  BY DEF FirstIn, FirstSeal
<1>9. PICK state : state = Replayed(FromGenesis, SubSeq(log, 1, at))
  OBVIOUS
<1>a. /\ state.status = "ok" /\ state.map = root => Kept(SnapshotAt(log[at], state.map))
      /\ ~(state.status = "ok" /\ state.map = root) => Broken(log)
  <2>1. Proper(log) /\ at = FirstIn(log, root) /\ SealsOf(log, root) # {}
    BY <1>3, <1>7, <1>8
  <2> QED
    BY <1>9, <2>1, PersistFinds
<1>w. writer \in [Writers -> WriterState]
  BY DEF CacheInv, TypeInv
<1>b. CASE state.status = "ok" /\ state.map = root
  <2>1. PICK snap : snap = SnapshotAt(log[at], state.map) /\ Kept(snap)
    BY <1>a, <1>b
  <2>2. PICK new : new = [pc |-> "open", todo |-> me.todo, batch |-> me.batch, snap |-> snap]
    OBVIOUS
  <2>3. snap \in Snapshot \union {None} /\ "open" \in {"idle"} \union Over \union Active
    BY <2>1 DEF Kept, Active, Writing
  <2>4. /\ new \in WriterState /\ new.pc = "open" /\ new.todo = me.todo
        /\ new.batch = me.batch /\ new.snap = snap
    BY <1>4, <2>2, <2>3 DEF WriterState
  <2>5. writer' = [writer EXCEPT ![w] = new]
    <3>1. writer' = [writer EXCEPT ![w].pc = "open", ![w].snap = snap]
      BY <1>1, <1>5, <1>8, <1>9, <1>b, <2>1 DEF Persist
    <3>2. new = [me EXCEPT !.pc = "open", !.snap = snap]
      BY <1>4, <2>2, PcAndSnap
    <3> QED
      BY <1>1, <1>w, <3>1, <3>2
  <2>6. BatchOK(log, files, new)
    BY <1>3, <2>4 DEF BatchOK
  <2>7. SnapOK(log, files, new)
    BY <1>2, <1>5, <1>8, <1>b, <2>1, <2>4 DEF SnapOK
  <2>8. "open" \in Writing /\ "open" \notin Over
    BY DEF Writing, Over
  <2>9. WriterOK(log, files, new)
    BY <2>4, <2>6, <2>7, <2>8 DEF WriterOK
  <2> QED
    BY <1>1, <1>2, <1>3, <2>4, <2>5, <2>9, QuietStep
<1>c. CASE ~(state.status = "ok" /\ state.map = root)
  <2>1. PICK new : new = [pc |-> "refused", todo |-> me.todo, batch |-> me.batch, snap |-> me.snap]
    OBVIOUS
  <2>2. new \in WriterState /\ new.pc = "refused" /\ new.snap = None
    BY <1>3, <1>4, <2>1 DEF WriterState, Over
  <2>3. writer' = [writer EXCEPT ![w] = new]
    <3>1. writer' = [writer EXCEPT ![w].pc = "refused"]
      BY <1>1, <1>5, <1>8, <1>9, <1>c DEF Persist
    <3>2. new = [me EXCEPT !.pc = "refused"]
      BY <1>4, <2>1 DEF IsWriter
    <3> QED
      BY <1>1, <1>w, <3>1, <3>2
  <2>4. "refused" \notin Active
    BY DEF Active, Writing
  <2>6. EndOK(log, new)
    <3>1. Written(log, new)
      BY <1>3, <2>1 DEF BatchOK, Written
    <3> QED
      BY <1>a, <1>c, <3>1 DEF EndOK
  <2>5. WriterOK(log, files, new)
    BY <2>2, <2>4, <2>6, IdleOK
  <2> QED
    BY <1>1, <1>2, <2>2, <2>3, <2>4, <2>5, QuietStep
<1> QED
  BY <1>b, <1>c

\* The seals of a root that the log has once are one event.
LEMMA SameSeal ==
  ASSUME NEW l, Proper(l), NEW root, Sole(l, root),
         NEW e, InLog(l, e), IsSeal(e, root), NEW d, InLog(l, d), IsSeal(d, root)
  PROVE  d.body.seq = e.body.seq
<1>1. e.body.seq + 1 = d.body.seq + 1
  BY SealIn DEF Sole
<1>2. e.body.seq \in Nat /\ d.body.seq \in Nat
  BY DEF InLog, Event, Body
<1> QED
  BY <1>1, <1>2

\* A file of a root a writer has in its batch.
LEMMA FileStep ==
  ASSUME NEW l, Proper(l), NEW F, NEW G, NEW me, me.pc \in Active, BatchOK(l, F, me),
         NEW i \in 1..Len(me.batch), NEW root, IsSeal(me.batch[i], root),
         \A r \in Roots : r # root => G[r] = F[r]
  PROVE  Untouched(l, F, G, me)
<1> SUFFICES ASSUME NEW e, InLog(l, e), e.body.kind = "seal", Sole(l, e.body.root),
                    Free(me, e.body.seq)
             PROVE  G[e.body.root] = F[e.body.root]
  BY DEF Untouched
<1>1. e.body.root \in Roots
  BY DEF InLog, Offered
<1>2. CASE e.body.root # root
  BY <1>1, <1>2
<1>3. CASE e.body.root = root
  <2>1. InLog(l, me.batch[i])
    BY DEF BatchOK
  <2>2. IsSeal(e, root)
    BY <1>3 DEF IsSeal
  <2>3. me.batch[i].body.seq = e.body.seq
    BY <1>3, <2>1, <2>2, SameSeal
  <2> QED
    BY <2>3 DEF Free
<1> QED
  BY <1>2, <1>3

\* Its own batch loses nothing but the file of the root it is at.
LEMMA BatchKept ==
  ASSUME NEW l, NEW F, NEW G, NEW me \in WriterState, BatchOK(l, F, me), me.todo # << >>,
         \A r \in Roots : r # me.todo[1] => G[r] = F[r],
         NEW you, you.batch = me.batch, you.todo = me.todo
  PROVE  BatchOK(l, G, you)
<1>1. /\ \A i \in 1..Len(me.batch) : InLog(l, me.batch[i])
      /\ \A k \in 1..Len(me.todo) : \E i \in 1..Len(me.batch) : IsSeal(me.batch[i], me.todo[k])
      /\ \A i \in 1..Len(me.batch) :
           \/ \E k \in 1..Len(me.todo) : IsSeal(me.batch[i], me.todo[k])
           \/ Served(l, F, me.batch[i])
  BY DEF BatchOK
<1>2. 1 \in 1..Len(me.todo)
  BY WriterIs
<1>3. ASSUME NEW i \in 1..Len(me.batch), Served(l, F, me.batch[i]),
             ~\E k \in 1..Len(me.todo) : IsSeal(me.batch[i], me.todo[k])
      PROVE  Served(l, G, me.batch[i])
  <2>1. ~IsSeal(me.batch[i], me.todo[1])
    BY <1>2, <1>3
  <2>2. me.batch[i].body.kind = "seal" =>
          me.batch[i].body.root \in Roots /\ me.batch[i].body.root # me.todo[1]
    BY <1>1, <2>1 DEF IsSeal, InLog, Offered
  <2> QED
    BY <1>3, <2>2 DEF Served
<1> QED
  BY <1>1, <1>3 DEF BatchOK

LEMMA HalfWritten ==
  ASSUME NEW S, NEW file \in S \X S, NEW snap \in S
  PROVE  /\ [file EXCEPT ![1] = snap] = <<snap, file[2]>>
         /\ [file EXCEPT ![2] = snap] = <<file[1], snap>>
         /\ <<snap, file[2]>> \in S \X S /\ <<file[1], snap>> \in S \X S
OBVIOUS

LEMMA FilesMade ==
  ASSUME NEW F \in [Roots -> HalfFiles], \A r \in Roots : FileOK(F[r]),
         NEW root \in Roots, NEW file \in HalfFiles, FileOK(file),
         NEW G, G = [F EXCEPT ![root] = file]
  PROVE  /\ G \in [Roots -> HalfFiles] /\ G[root] = file
         /\ \A r \in Roots : FileOK(G[r])
         /\ \A r \in Roots : r # root => G[r] = F[r]
OBVIOUS

\* A writer with the snapshot in hand, as far as its steps on the file go.
InHand(me, root, i) ==
  /\ me \in WriterState
  /\ me.todo \in Seq(Roots) /\ me.batch \in Seq(Event) /\ me.snap \in Snapshot \union {None}
  /\ IsWriter(me)
  /\ Proper(log) /\ me.pc \in Active /\ me.todo # << >> /\ root = me.todo[1]
  /\ BatchOK(log, files, me) /\ SnapOK(log, files, me)
  /\ IsSeal(me.batch[i], root) /\ InLog(log, me.batch[i])

LEMMA WritingAt ==
  ASSUME CacheInv, NEW w \in Writers, writer[w].pc \in Writing
  PROVE  \E root \in Roots, i \in 1..Len(writer[w].batch) : InHand(writer[w], root, i)
<1>1. PICK me : me = writer[w]
  OBVIOUS
<1>2. /\ Proper(log) /\ me \in WriterState /\ me.pc \in Active
      /\ BatchOK(log, files, me) /\ SnapOK(log, files, me)
  BY <1>1, WriterAt
<1>3. /\ me.todo \in Seq(Roots) /\ me.batch \in Seq(Event) /\ me.snap \in Snapshot \union {None}
      /\ IsWriter(me)
  BY <1>2, WriterIs
<1>4. me.todo # << >>
  BY <1>2 DEF SnapOK
<1>5. PICK root \in Roots : root = me.todo[1] /\ 1 \in 1..Len(me.todo)
  BY <1>3, <1>4
<1>6. PICK i \in 1..Len(me.batch) : IsSeal(me.batch[i], root)
  BY <1>2, <1>5 DEF BatchOK
<1>7. InLog(log, me.batch[i])
  BY <1>2 DEF BatchOK
<1>8. i \in 1..Len(writer[w].batch)
  BY <1>1
<1> QED
  BY <1>1, <1>2, <1>3, <1>4, <1>5, <1>6, <1>7, <1>8 DEF InHand

LEMMA FilesAre ==
  ASSUME CacheInv
  PROVE  /\ files \in [Roots -> HalfFiles] /\ writer \in [Writers -> WriterState]
         /\ \A r \in Roots : FileOK(files[r])
BY DEF CacheInv, TypeInv, HalfFiles

LEMMA TruncateInv ==
  ASSUME CacheInv, NEW w \in Writers, Truncate(w)
  PROVE  CacheInv'
<1>1. writer[w].pc \in Writing /\ UNCHANGED <<log, acked, verifier>>
  BY DEF Truncate, Writing
<1>0. PICK me : me = writer[w]
  OBVIOUS
<1>2. PICK root \in Roots, i \in 1..Len(me.batch) : me = writer[w] /\ InHand(me, root, i)
  BY <1>0, <1>1, WritingAt
<1>3. NoFile \in HalfFiles /\ FileOK(NoFile)
  BY DEF NoFile, HalfFiles, FileOK, MaybeKept
<1>4. PICK G : G = [files EXCEPT ![root] = NoFile]
  OBVIOUS
<1>5. /\ G \in [Roots -> HalfFiles] /\ \A r \in Roots : FileOK(G[r])
      /\ \A r \in Roots : r # root => G[r] = files[r]
  BY <1>3, <1>4, FilesAre, FilesMade
<1>6. PICK new : new = [pc |-> "first", todo |-> me.todo, batch |-> me.batch, snap |-> me.snap]
  OBVIOUS
<1>7. /\ new \in WriterState /\ new.pc = "first" /\ new.todo = me.todo
      /\ new.batch = me.batch /\ new.snap = me.snap
  <2>1. "first" \in {"idle"} \union Over \union Active
    BY DEF Active, Writing
  <2>2. me.todo \in Seq(Roots) /\ me.batch \in Seq(Event) /\ me.snap \in Snapshot \union {None}
    BY <1>2 DEF InHand
  <2> QED
    BY <1>6, <2>1, <2>2 DEF WriterState
<1>8. files' = G
  BY <1>2, <1>4 DEF Truncate, InHand
<1>9. writer' = [writer EXCEPT ![w] = new]
  <2>1. writer' = [writer EXCEPT ![w].pc = "first"]
    BY DEF Truncate
  <2>2. new = [me EXCEPT !.pc = "first"]
    BY <1>2, <1>6 DEF InHand, IsWriter
  <2> QED
    BY <1>2, <2>1, <2>2, FilesAre DEF InHand
<1>a. Untouched(log, files, G, writer[w])
  BY <1>2, <1>5, FileStep DEF InHand
<1>b. BatchOK(log, G, new)
  BY <1>2, <1>5, <1>7, BatchKept DEF InHand
<1>c. SnapOK(log, G, new)
  BY <1>2, <1>7 DEF SnapOK, InHand
<1>d. WriterOK(log, G, new)
  BY <1>7, <1>b, <1>c DEF WriterOK, Writing, Over
<1> QED
  BY <1>1, <1>2, <1>5, <1>7, <1>8, <1>9, <1>a, <1>d, WriterStep DEF HalfFiles, InHand

LEMMA WriteFirstInv ==
  ASSUME CacheInv, NEW w \in Writers, WriteFirst(w)
  PROVE  CacheInv'
<1>1. writer[w].pc \in Writing /\ UNCHANGED <<log, acked, verifier>>
  BY DEF WriteFirst, Writing
<1>0. PICK me : me = writer[w]
  OBVIOUS
<1>2. PICK root \in Roots, i \in 1..Len(me.batch) : me = writer[w] /\ InHand(me, root, i)
  BY <1>0, <1>1, WritingAt
<1>3. Kept(me.snap) /\ me.snap = SnapshotAt(log[FirstIn(log, me.todo[1])], me.todo[1])
  BY <1>2 DEF SnapOK, InHand
<1>4. PICK file : file = [files[root] EXCEPT ![1] = me.snap]
  OBVIOUS
<1>5. file \in HalfFiles /\ file[1] = me.snap /\ FileOK(file)
  <2>1. files[root] \in HalfFiles /\ FileOK(files[root])
    BY FilesAre
  <2>2. PICK old, snap : /\ old = files[root] /\ snap = me.snap /\ old \in HalfFiles
                         /\ snap \in Snapshot \union {None}
    BY <1>2, <2>1 DEF InHand
  <2>3. file = <<snap, old[2]>> /\ file \in HalfFiles
    BY <1>4, <2>2, HalfWritten DEF HalfFiles
  <2>4. file[1] = snap /\ file[2] = old[2]
    BY <2>3
  <2> QED
    BY <1>3, <2>1, <2>2, <2>3, <2>4 DEF FileOK, MaybeKept
<1>6. PICK G : G = [files EXCEPT ![root] = file]
  OBVIOUS
<1>7. /\ G \in [Roots -> HalfFiles] /\ \A r \in Roots : FileOK(G[r])
      /\ G[root] = file
      /\ \A r \in Roots : r # root => G[r] = files[r]
  BY <1>5, <1>6, FilesAre, FilesMade
<1>8. PICK new : new = [pc |-> "second", todo |-> me.todo, batch |-> me.batch, snap |-> me.snap]
  OBVIOUS
<1>9. /\ new \in WriterState /\ new.pc = "second" /\ new.todo = me.todo
      /\ new.batch = me.batch /\ new.snap = me.snap
  <2>1. "second" \in {"idle"} \union Over \union Active
    BY DEF Active, Writing
  <2>2. me.todo \in Seq(Roots) /\ me.batch \in Seq(Event) /\ me.snap \in Snapshot \union {None}
    BY <1>2 DEF InHand
  <2> QED
    BY <1>8, <2>1, <2>2 DEF WriterState
<1>a. files' = G
  <2>1. files' = [files EXCEPT ![root][1] = me.snap]
    BY <1>2 DEF WriteFirst, InHand
  <2> QED
    BY <1>4, <1>6, <2>1, FilesAre
<1>b. writer' = [writer EXCEPT ![w] = new]
  <2>1. writer' = [writer EXCEPT ![w].pc = "second"]
    BY DEF WriteFirst
  <2>2. new = [me EXCEPT !.pc = "second"]
    BY <1>2, <1>8 DEF InHand, IsWriter
  <2> QED
    BY <1>2, <2>1, <2>2, FilesAre DEF InHand
<1>c. Untouched(log, files, G, writer[w])
  BY <1>2, <1>7, FileStep DEF InHand
<1>d. BatchOK(log, G, new)
  BY <1>2, <1>7, <1>9, BatchKept DEF InHand
<1>e. SnapOK(log, G, new)
  BY <1>2, <1>3, <1>5, <1>7, <1>9 DEF SnapOK, InHand
<1>f. WriterOK(log, G, new)
  BY <1>9, <1>d, <1>e DEF WriterOK, Writing, Over
<1> QED
  BY <1>1, <1>2, <1>7, <1>9, <1>a, <1>b, <1>c, <1>f, WriterStep DEF HalfFiles, InHand

\* The rest of a sequence.
LEMMA TailIs ==
  ASSUME NEW S, NEW s \in Seq(S), s # << >>, NEW t, t = Tail(s)
  PROVE  /\ t \in Seq(S)
         /\ \A k \in 1..Len(t) : k + 1 \in 1..Len(s) /\ t[k] = s[k + 1]
         /\ \A k \in 1..Len(s) : k # 1 => k - 1 \in 1..Len(t) /\ t[k - 1] = s[k]
OBVIOUS

\* The snapshot of the only seal with a root is in the file.
LEMMA SoleServed ==
  ASSUME NEW l, Proper(l), NEW root, NEW snap,
         snap = SnapshotAt(l[FirstIn(l, root)], root),
         NEW G, Sole(l, root) => G[root][1] = snap /\ G[root][2] = snap,
         NEW e, InLog(l, e), IsSeal(e, root)
  PROVE  Served(l, G, e)
<1> SUFFICES ASSUME e.body.kind = "seal", Sole(l, e.body.root)
             PROVE  /\ G[e.body.root][1] = SnapshotAt(e, e.body.root)
                    /\ G[e.body.root][2] = SnapshotAt(e, e.body.root)
  BY DEF Served
<1>1. root = e.body.root
  BY DEF IsSeal
<1>2. e.body.seq + 1 \in SealsOf(l, root)
  BY SealIn
<1>3. FirstIn(l, root) = e.body.seq + 1
  BY <1>1, <1>2, FirstIs DEF Sole
<1>4. snap = SnapshotAt(e, root)
  BY <1>3 DEF InLog, SnapshotAt, DigestOf
<1> QED
  BY <1>1, <1>4

LEMMA WriteSecondInv ==
  ASSUME CacheInv, NEW w \in Writers, WriteSecond(w)
  PROVE  CacheInv'
<1>1. writer[w].pc \in Writing /\ UNCHANGED <<log, acked, verifier>>
  BY DEF WriteSecond, Writing
<1>0. PICK me : me = writer[w]
  OBVIOUS
<1>2. PICK root \in Roots, i \in 1..Len(me.batch) : me = writer[w] /\ InHand(me, root, i)
  BY <1>0, <1>1, WritingAt
<1>3. /\ Kept(me.snap) /\ me.snap = SnapshotAt(log[FirstIn(log, root)], root)
      /\ Sole(log, root) => files[root][1] = me.snap
  <2>1. me.pc = "second"
    BY <1>2 DEF WriteSecond, InHand
  <2> QED
    BY <1>2, <2>1 DEF SnapOK, InHand
<1>4. PICK file : file = [files[root] EXCEPT ![2] = me.snap]
  OBVIOUS
<1>5. file \in HalfFiles /\ file[1] = files[root][1] /\ file[2] = me.snap /\ FileOK(file)
  <2>1. files[root] \in HalfFiles /\ FileOK(files[root])
    BY FilesAre
  <2>2. PICK old, snap : /\ old = files[root] /\ snap = me.snap /\ old \in HalfFiles
                         /\ snap \in Snapshot \union {None}
    BY <1>2, <2>1 DEF InHand
  <2>3. file = <<old[1], snap>> /\ file \in HalfFiles
    BY <1>4, <2>2, HalfWritten DEF HalfFiles
  <2>4. file[2] = snap /\ file[1] = old[1]
    BY <2>3
  <2> QED
    BY <1>3, <2>1, <2>2, <2>3, <2>4 DEF FileOK, MaybeKept
<1>6. PICK G : G = [files EXCEPT ![root] = file]
  OBVIOUS
<1>7. /\ G \in [Roots -> HalfFiles] /\ \A r \in Roots : FileOK(G[r])
      /\ G[root] = file
      /\ \A r \in Roots : r # root => G[r] = files[r]
  BY <1>5, <1>6, FilesAre, FilesMade
<1>t. PICK todo : todo = Tail(me.todo)
  OBVIOUS
<1>u. /\ todo \in Seq(Roots)
      /\ \A k \in 1..Len(todo) : k + 1 \in 1..Len(me.todo) /\ todo[k] = me.todo[k + 1]
      /\ \A k \in 1..Len(me.todo) : k # 1 => k - 1 \in 1..Len(todo) /\ todo[k - 1] = me.todo[k]
  BY <1>2, <1>t, TailIs DEF InHand
<1>8. PICK new : new = [pc |-> "next", todo |-> todo, batch |-> me.batch, snap |-> None]
  OBVIOUS
<1>9. /\ new \in WriterState /\ new.pc = "next" /\ new.todo = todo
      /\ new.batch = me.batch /\ new.snap = None
  <2>1. "next" \in {"idle"} \union Over \union Active
    BY DEF Active
  <2>2. todo \in Seq(Roots) /\ me.batch \in Seq(Event) /\ None \in Snapshot \union {None}
    BY <1>2, <1>u DEF InHand
  <2> QED
    BY <1>8, <2>1, <2>2 DEF WriterState
<1>a. files' = G
  <2>1. files' = [files EXCEPT ![root][2] = me.snap]
    BY <1>2 DEF WriteSecond, InHand
  <2> QED
    BY <1>4, <1>6, <2>1, FilesAre
<1>b. writer' = [writer EXCEPT ![w] = new]
  <2>1. writer' = [writer EXCEPT ![w] = [me EXCEPT !.pc = "next", !.todo = Tail(me.todo), !.snap = None]]
    BY <1>2, FilesAre DEF WriteSecond, InHand
  <2>2. new = [me EXCEPT !.pc = "next", !.todo = todo, !.snap = None]
    <3>1. IsWriter(me)
      BY <1>2 DEF InHand
    <3>2. [me EXCEPT !.pc = "next", !.todo = todo, !.snap = None] =
            [pc |-> "next", todo |-> todo, batch |-> me.batch, snap |-> None]
      BY <3>1, PcTodoAndSnap, Zenon
    <3> QED
      BY <1>8, <3>2, Zenon
  <2> QED
    BY <1>t, <2>1, <2>2
<1>c. Untouched(log, files, G, writer[w])
  BY <1>2, <1>7, FileStep DEF InHand
<1>d. BatchOK(log, G, new)
  <2>1. BatchOK(log, G, me)
    BY <1>2, <1>7, BatchKept DEF InHand
  <2>2. /\ \A j \in 1..Len(me.batch) : InLog(log, me.batch[j])
        /\ \A k \in 1..Len(me.todo) : \E j \in 1..Len(me.batch) : IsSeal(me.batch[j], me.todo[k])
        /\ \A j \in 1..Len(me.batch) :
             \/ \E k \in 1..Len(me.todo) : IsSeal(me.batch[j], me.todo[k])
             \/ Served(log, G, me.batch[j])
    BY <2>1 DEF BatchOK
  <2>3. Sole(log, root) => G[root][1] = me.snap /\ G[root][2] = me.snap
    BY <1>3, <1>5, <1>7
  <2>4. ASSUME NEW j \in 1..Len(me.batch)
        PROVE  \/ \E k \in 1..Len(todo) : IsSeal(me.batch[j], todo[k])
               \/ Served(log, G, me.batch[j])
    <3>1. CASE IsSeal(me.batch[j], root)
      <4>1. Served(log, G, me.batch[j])
        BY <1>2, <1>3, <2>2, <2>3, <3>1, SoleServed DEF InHand
      <4> QED
        BY <4>1
    <3>2. ASSUME NEW k \in 1..Len(me.todo), k # 1, IsSeal(me.batch[j], me.todo[k])
          PROVE  \E h \in 1..Len(todo) : IsSeal(me.batch[j], todo[h])
      BY <1>u, <3>2
    <3>3. CASE \E k \in 1..Len(me.todo) : IsSeal(me.batch[j], me.todo[k])
      BY <1>2, <3>1, <3>2, <3>3 DEF InHand
    <3> QED
      BY <2>2, <3>3
  <2>5. \A k \in 1..Len(todo) : \E j \in 1..Len(me.batch) : IsSeal(me.batch[j], todo[k])
    BY <1>u, <2>2
  <2> QED
    BY <1>9, <2>2, <2>4, <2>5 DEF BatchOK
<1>e. "next" \notin Writing /\ "next" # "refused"
  BY DEF Writing
<1>f. WriterOK(log, G, new)
  BY <1>9, <1>d, <1>e DEF WriterOK, Over
<1> QED
  BY <1>1, <1>2, <1>7, <1>9, <1>a, <1>b, <1>c, <1>f, WriterStep DEF HalfFiles, InHand

LEMMA AcknowledgeInv ==
  ASSUME CacheInv, NEW w \in Writers, Acknowledge(w)
  PROVE  CacheInv'
<1>1. PICK me : me = writer[w]
  OBVIOUS
<1>2. /\ me.pc = "next" /\ me.todo = << >>
      /\ acked' = acked \union {me.batch[i] : i \in DOMAIN me.batch}
      /\ writer' = [writer EXCEPT ![w] = IdleWriter]
      /\ UNCHANGED <<log, files, verifier>>
  BY <1>1 DEF Acknowledge
<1>3. /\ Proper(log) /\ me \in WriterState /\ me.pc \in Active /\ BatchOK(log, files, me)
  BY <1>1, <1>2, WriterAt DEF Active
<1>4. me.batch \in Seq(Event) /\ DOMAIN me.batch = 1..Len(me.batch)
  BY <1>3, WriterIs
<1>5. \A i \in 1..Len(me.batch) : InLog(log, me.batch[i]) /\ Served(log, files, me.batch[i])
  <2>1. Len(me.todo) = 0
    BY <1>2
  <2> QED
    BY <1>3, <2>1 DEF BatchOK
<1>6. /\ IdleWriter \in WriterState /\ IdleWriter.pc = "idle" /\ IdleWriter.snap = None
      /\ IdleWriter.pc \notin Active /\ IdleWriter.pc \notin Over
  BY DEF IdleWriter, WriterState, Active, Writing, Over
<1>7. WriterOK(log, files, IdleWriter)
  BY <1>6, IdleOK
<1>8. /\ writer' \in [Writers -> WriterState] /\ writer'[w] = IdleWriter
      /\ \A v \in Writers : v # w => writer'[v] = writer[v]
  BY <1>2, <1>6, FilesAre
<1>9. TypeInv'
  <2>1. acked' \subseteq Event
    BY <1>2, <1>4 DEF CacheInv, TypeInv
  <2> QED
    BY <1>2, <1>8, <2>1 DEF CacheInv, TypeInv
<1>a. /\ \A root \in Roots : FileOK(files[root])
      /\ \A v \in Writers : WriterOK(log, files, writer[v])
      /\ \A w1, w2 \in Writers : w1 # w2 => Apart(writer[w1], writer[w2])
      /\ \A e \in acked : AckOK(log, files, e)
      /\ \A e \in acked, v \in Writers : Free(writer[v], e.body.seq)
      /\ \A v \in Verifiers : VerifierOK(verifier[v])
  BY DEF CacheInv
<1>b. \A v \in Writers : WriterOK(log, files, writer'[v])
  BY <1>7, <1>8, <1>a
<1>c. \A s : Free(IdleWriter, s)
  BY <1>6 DEF Free
<1>d. \A w1, w2 \in Writers : w1 # w2 => Apart(writer'[w1], writer'[w2])
  <2>1. \A v \in Writers : Apart(IdleWriter, writer[v]) /\ Apart(writer[v], IdleWriter)
    BY <1>6, <1>c DEF Apart
  <2> QED
    BY <1>8, <1>a, <2>1
<1>e. ASSUME NEW e \in acked'
      PROVE  AckOK(log, files, e) /\ \A v \in Writers : Free(writer'[v], e.body.seq)
  <2>1. CASE e \in acked
    BY <1>8, <1>a, <1>c, <2>1
  <2>2. CASE e \notin acked
    <3>1. PICK i \in 1..Len(me.batch) : e = me.batch[i]
      BY <1>2, <1>4, <2>2
    <3>2. AckOK(log, files, e)
      BY <1>5, <3>1 DEF AckOK
    <3>3. ASSUME NEW v \in Writers, v # w PROVE Free(writer[v], e.body.seq)
      <4>1. Apart(writer[v], me)
        BY <1>1, <1>a, <3>3
      <4> QED
        BY <1>3, <3>1, <4>1 DEF Apart
    <3> QED
      BY <1>8, <1>c, <3>2, <3>3
  <2> QED
    BY <2>1, <2>2
<1> QED
  BY <1>2, <1>9, <1>a, <1>b, <1>d, <1>e DEF CacheInv

\* What the invariant says of writers and acknowledged events goes with the log.
LEMMA GrownInv ==
  ASSUME CacheInv, NEW m, Grown(log, m)
  PROVE  /\ Proper(m)
         /\ \A w \in Writers : WriterOK(m, files, writer[w])
         /\ \A e \in acked : AckOK(m, files, e)
<1>1. \A w \in Writers : WriterOK(m, files, writer[w])
  BY GrownWriter DEF CacheInv, TypeInv
<1>2. \A e \in acked : AckOK(m, files, e)
  BY GrownEvent DEF CacheInv, AckOK
<1> QED
  BY <1>1, <1>2 DEF Grown

LEMMA AppendInv ==
  ASSUME CacheInv, NEW w \in Writers, AppendBatch(w)
  PROVE  CacheInv'
<1>0. PICK shape \in Shapes : \E batch \in BatchesOf(shape) :
        /\ log' = log \o batch
        /\ writer' = [writer EXCEPT ![w] = [pc |-> "next", snap |-> None, batch |-> batch,
                                            todo |-> SealedRoots(batch)]]
  BY DEF AppendBatch
<1>1. PICK batch \in BatchesOf(shape) :
        /\ log' = log \o batch
        /\ writer' = [writer EXCEPT ![w] = [pc |-> "next", snap |-> None, batch |-> batch,
                                            todo |-> SealedRoots(batch)]]
  BY <1>0
<1>2. UNCHANGED <<files, acked, verifier, faults>> /\ writer[w].pc = "idle"
  BY DEF AppendBatch
<1>p. Proper(log)
  BY DEF CacheInv, TypeInv
<1>3. PICK m : m = log \o batch
  OBVIOUS
<1>4. Taken(log, batch) /\ Proper(m)
  BY <1>p, <1>3, BatchesAre
<1>5. PICK n : n = Len(log) /\ n \in Nat
  BY <1>p, ProperAt
<1>6. /\ batch \in Seq(Event)
      /\ \A i \in 1..Len(batch) :
           /\ batch[i].genuine /\ Offered(batch[i]) /\ batch[i].body.seq = n + i - 1
           /\ batch[i] \in Event
  BY <1>4, <1>5 DEF Taken
<1>7. /\ Len(m) = n + Len(batch) /\ \A i \in 1..n : m[i] = log[i]
      /\ \A i \in 1..Len(batch) : m[n + i] = batch[i]
      /\ Len(batch) \in Nat
  BY <1>3, <1>5, <1>6, <1>p, ProperAt, JoinIs
<1>8. Grown(log, m)
  BY <1>4, <1>5, <1>7, <1>p, LongerLog
<1>9. /\ \A v \in Writers : WriterOK(m, files, writer[v])
      /\ \A e \in acked : AckOK(m, files, e)
  BY <1>8, GrownInv
<1>a. PICK todo : todo = SealedRoots(batch) /\ RootsOf(todo, batch, Len(batch))
  BY <1>6, SealedRootsAre
<1>b. /\ todo \in Seq(Roots)
      /\ \A k \in 1..Len(todo) : \E i \in 1..Len(batch) : IsSeal(batch[i], todo[k])
      /\ \A i \in 1..Len(batch) : batch[i].body.kind = "seal" =>
           \E k \in 1..Len(todo) : todo[k] = batch[i].body.root
  BY <1>a DEF RootsOf
<1>c. PICK new : new = [pc |-> "next", todo |-> todo, batch |-> batch, snap |-> None]
  OBVIOUS
<1>d. /\ new \in WriterState /\ new.pc = "next" /\ new.todo = todo
      /\ new.batch = batch /\ new.snap = None
  <2>1. "next" \in {"idle"} \union Over \union Active
    BY DEF Active
  <2>2. todo \in Seq(Roots) /\ batch \in Seq(Event) /\ None \in Snapshot \union {None}
    BY <1>6, <1>b
  <2> QED
    BY <1>c, <2>1, <2>2 DEF WriterState
<1>e. writer' = [writer EXCEPT ![w] = new]
  BY <1>1, <1>a, <1>c
<1>f. /\ writer' \in [Writers -> WriterState] /\ writer'[w] = new
      /\ \A v \in Writers : v # w => writer'[v] = writer[v]
  BY <1>d, <1>e, FilesAre
<1>g. \A i \in 1..Len(batch) : InLog(m, batch[i])
  <2>1. ASSUME NEW i \in 1..Len(batch) PROVE InLog(m, batch[i])
    <3>1. batch[i].body.seq + 1 = n + i /\ n + i \in 1..Len(m)
      BY <1>5, <1>6, <1>7
    <3> QED
      BY <1>6, <1>7, <3>1 DEF InLog
  <2> QED
    BY <2>1
<1>h. WriterOK(m, files, new)
  <2>1. \A i \in 1..Len(batch) :
          (\E k \in 1..Len(todo) : IsSeal(batch[i], todo[k])) \/ Served(m, files, batch[i])
    <3>1. ASSUME NEW i \in 1..Len(batch), batch[i].body.kind = "seal"
          PROVE  \E k \in 1..Len(todo) : IsSeal(batch[i], todo[k])
      BY <1>b, <3>1 DEF IsSeal
    <3>2. ASSUME NEW i \in 1..Len(batch), batch[i].body.kind # "seal"
          PROVE  Served(m, files, batch[i])
      BY <3>2 DEF Served
    <3> QED
      BY <3>1, <3>2
  <2>2. BatchOK(m, files, new)
    BY <1>b, <1>d, <1>g, <2>1 DEF BatchOK
  <2>3. "next" \notin Writing /\ "next" \notin Over
    BY DEF Writing, Over
  <2> QED
    BY <1>d, <2>2, <2>3 DEF WriterOK
<1>i. ASSUME NEW e, InLog(log, e) PROVE Free(new, e.body.seq)
  <2>1. e.body.seq + 1 \in 1..n /\ e.body.seq \in Nat
    BY <1>5, <1>i DEF InLog, Event, Body
  <2>2. \A i \in 1..Len(batch) : batch[i].body.seq # e.body.seq
    BY <1>5, <1>6, <2>1
  <2> QED
    BY <1>d, <2>2 DEF Free
<1>j. ASSUME NEW v \in Writers, v # w
      PROVE  Apart(new, writer[v]) /\ Apart(writer[v], new)
  <2>1. writer[v].pc \in Active => \A i \in 1..Len(writer[v].batch) : InLog(log, writer[v].batch[i])
    BY WriterAt DEF BatchOK
  <2>2. Apart(new, writer[v])
    BY <1>i, <2>1 DEF Apart
  <2>3. ASSUME NEW i \in 1..Len(batch) PROVE Free(writer[v], batch[i].body.seq)
    <3>1. ASSUME writer[v].pc \in Active, NEW j \in 1..Len(writer[v].batch)
          PROVE  writer[v].batch[j].body.seq # batch[i].body.seq
      <4>1. Free(new, writer[v].batch[j].body.seq) /\ new.pc \in Active
        BY <1>d, <1>i, <2>1, <3>1 DEF Active
      <4> QED
        BY <1>d, <4>1 DEF Free
    <3> QED
      BY <3>1 DEF Free
  <2>4. Apart(writer[v], new)
    BY <1>d, <2>3 DEF Apart
  <2> QED
    BY <2>2, <2>4
<1>k. /\ \A w1, w2 \in Writers : w1 # w2 => Apart(writer[w1], writer[w2])
      /\ \A e \in acked : AckOK(log, files, e)
      /\ \A e \in acked, v \in Writers : Free(writer[v], e.body.seq)
      /\ \A root \in Roots : FileOK(files[root])
      /\ \A v \in Verifiers : VerifierOK(verifier[v])
  BY DEF CacheInv
<1>l. TypeInv'
  BY <1>1, <1>2, <1>3, <1>4, <1>f DEF CacheInv, TypeInv
<1>m. \A v \in Writers : WriterOK(m, files, writer'[v])
  BY <1>9, <1>f, <1>h
<1>n. \A w1, w2 \in Writers : w1 # w2 => Apart(writer'[w1], writer'[w2])
  BY <1>f, <1>j, <1>k
<1>o. \A e \in acked, v \in Writers : Free(writer'[v], e.body.seq)
  BY <1>f, <1>i, <1>k DEF AckOK
<1> QED
  BY <1>1, <1>2, <1>3, <1>9, <1>k, <1>l, <1>m, <1>n, <1>o DEF CacheInv

LEMMA DamageInv ==
  ASSUME CacheInv, DamageLine
  PROVE  CacheInv'
<1>1. PICK i \in DOMAIN log : log' = [log EXCEPT ![i].genuine = FALSE]
  BY Zenon DEF DamageLine
<1>2. UNCHANGED <<files, writer, acked, verifier>>
  BY DEF DamageLine
<1>3. Proper(log)
  BY DEF CacheInv, TypeInv
<1>4. i \in 1..Len(log) /\ log \in Seq(Event) /\ log[i] \in Event
  BY <1>3, ProperAt
<1>5. PICK x : x = [log[i] EXCEPT !.genuine = FALSE]
  OBVIOUS
<1>6. x \in Event /\ x.body = log[i].body /\ x.prev = log[i].prev /\ ~x.genuine
  BY <1>4, <1>5, DamagedEvent
<1>7. log' = [log EXCEPT ![i] = x]
  BY <1>1, <1>5, Zenon
<1>8. PICK m : m = [log EXCEPT ![i] = x]
  OBVIOUS
<1>9. Grown(log, m)
  BY <1>3, <1>4, <1>6, <1>8, DamagedLog
<1>a. /\ Proper(m)
      /\ \A w \in Writers : WriterOK(m, files, writer[w])
      /\ \A e \in acked : AckOK(m, files, e)
  BY <1>9, GrownInv
<1>b. TypeInv'
  BY <1>2, <1>7, <1>8, <1>a DEF CacheInv, TypeInv
<1> QED
  BY <1>2, <1>7, <1>8, <1>a, <1>b DEF CacheInv

LEMMA DiscardInv ==
  ASSUME CacheInv, DiscardLog
  PROVE  CacheInv'
<1>1. /\ \A w \in Writers : writer[w].pc = "idle"
      /\ log' = << >> /\ acked' = {} /\ UNCHANGED <<files, writer, verifier>>
  BY DEF DiscardLog
<1>2. Proper(<< >>)
  BY DEF Proper
<1>3. TypeInv'
  BY <1>1, <1>2 DEF CacheInv, TypeInv
<1>4. "idle" \notin Active /\ "idle" \notin Writing /\ "idle" \notin Over
  BY DEF Active, Writing, Over
<1>5. \A w \in Writers : WriterOK(<< >>, files, writer[w])
  BY <1>1, <1>4, WriterAt DEF WriterOK
<1> QED
  BY <1>1, <1>3, <1>5 DEF CacheInv

\* A step of one verifier.
LEMMA VerifierInv ==
  ASSUME CacheInv, NEW v \in Verifiers, Load(v) \/ ReadCache(v) \/ Report(v)
  PROVE  CacheInv'
<1>1. UNCHANGED <<log, files, writer, acked>>
  BY DEF Load, ReadCache, Report
<1>2. /\ Proper(log) /\ verifier \in [Verifiers -> VerifierState]
      /\ VerifierOK(verifier[v])
  BY DEF CacheInv, TypeInv
<1>3. \E me \in VerifierState : VerifierOK(me) /\ verifier' = [verifier EXCEPT ![v] = me]
  <2>1. CASE Load(v)
    <3>1. PICK root \in Roots :
            verifier' = [verifier EXCEPT ![v] =
                           [pc |-> "loaded", seen |-> log, root |-> root, cached |-> None]]
      BY <2>1 DEF Load
    <3>2. PICK me : me = [pc |-> "loaded", seen |-> log, root |-> root, cached |-> None]
      OBVIOUS
    <3>3. me \in VerifierState
      BY <1>2, <3>2, ProperAt DEF VerifierState
    <3>4. VerifierOK(me)
      BY <1>2, <3>2 DEF VerifierOK, MaybeKept
    <3> QED
      BY <3>1, <3>2, <3>3, <3>4
  <2>2. CASE ReadCache(v)
    <3>1. PICK old : old = verifier[v] /\ old \in VerifierState /\ VerifierOK(old)
      BY <1>2
    <3>2. old.pc = "loaded"
      BY <2>2, <3>1 DEF ReadCache
    <3>3. old.root \in Roots /\ Proper(old.seen)
      BY <3>1, <3>2 DEF VerifierOK
    <3>4. PICK s : s = FileSays(old.root)
      OBVIOUS
    <3>5. MaybeKept(s) /\ s \in Snapshot \union {None}
      <4>1. FileOK(files[old.root])
        BY <3>3, FilesAre
      <4>2. MaybeKept(s)
        BY <3>4, <4>1 DEF FileSays, FileOK, MaybeKept
      <4> QED
        BY <4>2 DEF MaybeKept, Kept
    <3>6. PICK me : me = [pc |-> "read", seen |-> old.seen, root |-> old.root, cached |-> s]
      OBVIOUS
    <3>7. verifier' = [verifier EXCEPT ![v] = me]
      <4>1. verifier' = [verifier EXCEPT ![v].pc = "read", ![v].cached = s]
        BY <2>2, <3>1, <3>4 DEF ReadCache
      <4>2. IsVerifier(old)
        BY <3>1 DEF VerifierState, IsVerifier
      <4>3. me = [old EXCEPT !.pc = "read", !.cached = s]
        <5>1. [old EXCEPT !.pc = "read", !.cached = s] =
                [pc |-> "read", seen |-> old.seen, root |-> old.root, cached |-> s]
          BY <4>2, PcAndCached, Zenon
        <5> QED
          BY <3>6, <5>1, Zenon
      <4> QED
        BY <1>2, <3>1, <4>1, <4>3
    <3>8. me \in VerifierState
      BY <3>1, <3>5, <3>6 DEF VerifierState
    <3>9. VerifierOK(me)
      BY <3>3, <3>5, <3>6 DEF VerifierOK
    <3> QED
      BY <3>7, <3>8, <3>9
  <2>3. CASE Report(v)
    <3>1. Proper(<< >>)
      BY DEF Proper
    <3>2. /\ IdleVerifier \in VerifierState /\ VerifierOK(IdleVerifier)
      BY <3>1 DEF IdleVerifier, VerifierState, VerifierOK, MaybeKept
    <3> QED
      BY <2>3, <3>2 DEF Report
  <2> QED
    BY <2>1, <2>2, <2>3
<1>4. PICK me \in VerifierState : VerifierOK(me) /\ verifier' = [verifier EXCEPT ![v] = me]
  BY <1>3
<1>5. /\ verifier' \in [Verifiers -> VerifierState] /\ verifier'[v] = me
      /\ \A x \in Verifiers : x # v => verifier'[x] = verifier[x]
  BY <1>2, <1>4
<1>6. TypeInv'
  BY <1>1, <1>5 DEF CacheInv, TypeInv
<1>7. \A x \in Verifiers : VerifierOK(verifier'[x])
  BY <1>4, <1>5 DEF CacheInv
<1> QED
  BY <1>1, <1>6, <1>7 DEF CacheInv

-----------------------------------------------------------------------------
(* The theorems. *)

\* Events that were appended, files and snapshots that the replay of what they
\* commit to gives, and writers that share no event.
THEOREM CacheInvariant == Spec => []CacheInv
<1>1. Init => CacheInv
  BY InitInv
<1>2. CacheInv /\ [Next]_vars => CacheInv'
  <2> SUFFICES ASSUME CacheInv, [Next]_vars PROVE CacheInv'
    OBVIOUS
  <2>1. ASSUME NEW w \in Writers, AppendBatch(w) PROVE CacheInv'
    BY <2>1, AppendInv
  <2>2. ASSUME NEW w \in Writers, Persist(w) PROVE CacheInv'
    BY <2>2, PersistInv
  <2>3. ASSUME NEW w \in Writers, Truncate(w) PROVE CacheInv'
    BY <2>3, TruncateInv
  <2>4. ASSUME NEW w \in Writers, WriteFirst(w) PROVE CacheInv'
    BY <2>4, WriteFirstInv
  <2>5. ASSUME NEW w \in Writers, WriteSecond(w) PROVE CacheInv'
    BY <2>5, WriteSecondInv
  <2>6. ASSUME NEW w \in Writers, Acknowledge(w) PROVE CacheInv'
    BY <2>6, AcknowledgeInv
  <2>7. ASSUME NEW w \in Writers, GiveUp(w) \/ Crash(w) PROVE CacheInv'
    BY <2>7, CrashInv
  <2>8. ASSUME NEW v \in Verifiers, Load(v) \/ ReadCache(v) \/ Report(v) PROVE CacheInv'
    BY <2>8, VerifierInv
  <2>12. ASSUME NEW w \in Writers, PersistFails(w) PROVE CacheInv'
    BY <2>12, PersistFailsInv
  <2>9. CASE DamageLine
    BY <2>9, DamageInv
  <2>10. CASE DiscardLog
    BY <2>10, DiscardInv
  <2>11. CASE UNCHANGED vars
    BY <2>11 DEF vars, CacheInv, TypeInv
  <2> QED
    BY <2>1, <2>2, <2>3, <2>4, <2>5, <2>6, <2>7, <2>8, <2>9, <2>10, <2>11,
       <2>12 DEF Next
<1> QED
  BY <1>1, <1>2, PTL DEF Spec

\* Of an undamaged log, verification with whatever the cache held says what
\* verification without it does (Believed and the fallback of
\* verify_events_with_snapshot).
THEOREM CacheAlwaysTransparent == Spec => []CacheTransparent
<1>1. CacheInv => CacheTransparent
  <2> SUFFICES ASSUME CacheInv, NEW v \in Verifiers, Undamaged(verifier[v].seen)
               PROVE  Verdict(v) = PlainVerdict(v)
    BY DEF CacheTransparent
  <2>1. Proper(verifier[v].seen) /\ MaybeKept(verifier[v].cached)
    BY DEF CacheInv, VerifierOK
  <2> QED
    BY <2>1, SnapshotChangesNothing DEF Verdict, PlainVerdict
<1> QED
  BY <1>1, CacheInvariant, PTL

\* A verdict of OK says that no line is damaged from the checkpoint on, and none
\* at all without a snapshot (validate_digest in the replay, and of the seal
\* before a snapshot is believed).
THEOREM DamageAlwaysNoticed == Spec => []DamageNoticed
<1>1. CacheInv => DamageNoticed
  <2> SUFFICES ASSUME CacheInv, NEW v \in Verifiers, Verdict(v).status = "ok"
               PROVE  LET seen == verifier[v].seen
                          at == CHOOSE i \in SealsOf(seen, verifier[v].root) : TRUE
                      IN  /\ Undamaged(SubSeq(seen, at, Len(seen)))
                          /\ verifier[v].cached = None => Undamaged(seen)
    BY DEF DamageNoticed
  <2>1. PICK seen, root, cached :
          seen = verifier[v].seen /\ root = verifier[v].root /\ cached = verifier[v].cached
    OBVIOUS
  <2>2. seen \in Seq(Event)
    BY <2>1, ProperAt DEF CacheInv, VerifierOK
  <2>3. VerifyEvents(seen, root, cached).status = "ok"
    BY <2>1 DEF Verdict
  <2>4. PICK at : at = CHOOSE i \in SealsOf(seen, root) : TRUE
    OBVIOUS
  <2>5. /\ Undamaged(SubSeq(seen, at, Len(seen)))
        /\ cached = None => Undamaged(seen)
    BY <2>2, <2>3, <2>4, WellIsUndamaged
  <2> QED
    BY <2>1, <2>4, <2>5
<1> QED
  BY <1>1, CacheInvariant, PTL

\* Writers that race on the file of one root write the same snapshot
\* (persist_snapshot_for_root stops at the first seal with the root).
THEOREM SnapshotsAgree == Spec => []OneSnapshotPerRoot
<1>1. CacheInv => OneSnapshotPerRoot
  <2> SUFFICES ASSUME CacheInv, NEW w1 \in Writers, NEW w2 \in Writers,
                      writer[w1].snap # None, writer[w2].snap # None,
                      writer[w1].todo[1] = writer[w2].todo[1]
               PROVE  writer[w1].snap = writer[w2].snap
    BY DEF OneSnapshotPerRoot
  <2>1. \A w \in {w1, w2} : SnapOK(log, files, writer[w])
    BY WriterAt
  <2> QED
    BY <2>1 DEF SnapOK
<1> QED
  BY <1>1, CacheInvariant, PTL

\* Once an append is acknowledged, the root of each of its seals, if the log has
\* it once, can be verified from the cache (append_batch returns after the last
\* snapshot is written, and no later append writes another in its place).
THEOREM AckedAlwaysServed == Spec => []AckedServed
<1>1. CacheInv => AckedServed
  <2> SUFFICES ASSUME CacheInv, NEW i \in DOMAIN log, log[i] \in acked,
                      log[i].body.kind = "seal",
                      Cardinality(SealsOf(log, log[i].body.root)) = 1
               PROVE  /\ FileSays(log[i].body.root) # None
                      /\ Matches(FileSays(log[i].body.root), log[i])
    BY DEF AckedServed
  <2>1. PICK e, root : e = log[i] /\ root = e.body.root
    OBVIOUS
  <2>2. InLog(log, e) /\ Served(log, files, e) /\ IsSeal(e, root) /\ Proper(log)
    BY <2>1 DEF CacheInv, TypeInv, AckOK, IsSeal
  <2>3. Sole(log, root)
    <3>1. IsFiniteSet(SealsOf(log, root))
      <4>1. SealsOf(log, root) \subseteq 1..Len(log) /\ Len(log) \in Nat
        BY <2>2, ProperAt DEF SealsOf
      <4>2. IsFiniteSet(1..Len(log))
        BY <4>1, FS_Interval
      <4> QED
        BY <4>1, <4>2, FS_Subset
    <3>2. \E x : SealsOf(log, root) = {x}
      BY <2>1, <3>1, FS_Singleton
    <3> QED
      BY <3>2 DEF Sole
  <2>4. /\ files[root][1] = SnapshotAt(e, root) /\ files[root][2] = SnapshotAt(e, root)
    BY <2>1, <2>2, <2>3 DEF Served, IsSeal
  <2>5. FileSays(root) = SnapshotAt(e, root)
    BY <2>4 DEF FileSays
  <2>6. root \in Roots /\ e.body.ts \in Nat
    BY <2>1, <2>2 DEF InLog, Offered, IsSeal
  <2>7. e.body.ts # None
    BY <2>6, NoneAssumption
  <2>8. FileSays(root) # None
    <3>1. FileOK(files[root])
      BY <2>6, FilesAre
    <3>2. SnapshotAt(e, root) \in Snapshot
      <4>1. e.body \in Body /\ e.prev \in Seq(Body)
        BY <2>2 DEF InLog, Event, Digest
      <4>2. e.body.ns \in Namespaces /\ e.body.tick \in Nat /\ e.body.seq \in Nat
        BY <4>1 DEF Body
      <4>3. DigestOf(e) \in Digest /\ root \in StateMap
        BY <2>6, <4>1, CacheOpAssumption DEF DigestOf, Digest
      <4> QED
        BY <2>6, <4>2, <4>3 DEF SnapshotAt, Snapshot
    <3> QED
      BY <2>5, <3>2, NoSnapshotAssumption
  <2> QED
    BY <2>1, <2>5, <2>7, <2>8 DEF Matches
<1> QED
  BY <1>1, CacheInvariant, PTL

\* An append that returns Err after its batch was written has all of the batch in
\* the log, and, if that replays, roots that verify (the `?` of append_batch after
\* append_batch_under_lock passes on what persist_snapshot_for_root returns).
THEOREM RefusedAlwaysAppended == Spec => []RefusedIsAppended
<1>1. CacheInv => RefusedIsAppended
  <2> SUFFICES ASSUME CacheInv, NEW w \in Writers, writer[w].pc \in {"refused", "failed"}
               PROVE  /\ \A i \in DOMAIN writer[w].batch : Appended(writer[w].batch[i])
                      /\ writer[w].pc = "refused" => Replayed(FromGenesis, log).status # "ok"
                      /\ Replayed(FromGenesis, log).status = "ok" =>
                           \A i \in DOMAIN writer[w].batch : Verifiable(writer[w].batch[i])
    BY Zenon DEF RefusedIsAppended
  <2>1. PICK me : me = writer[w] /\ me \in WriterState /\ WriterOK(log, files, me)
    BY WriterAt
  <2>2. Proper(log)
    BY DEF CacheInv, TypeInv
  <2>3. EndOK(log, me)
    BY <2>1 DEF WriterOK, Over
  <2>4. me.batch \in Seq(Event) /\ DOMAIN me.batch = 1..Len(me.batch) /\ DOMAIN log = 1..Len(log)
    BY <2>1, <2>2, WriterIs, ProperAt
  <2>5. ASSUME NEW i \in DOMAIN me.batch PROVE InLog(log, me.batch[i])
    BY <2>3, <2>4 DEF EndOK, Written
  <2>6. \A i \in DOMAIN me.batch : Appended(me.batch[i])
    BY <2>4, <2>5 DEF InLog, Appended
  <2>7. me.pc = "refused" => Replayed(FromGenesis, log).status # "ok"
    BY <2>3 DEF EndOK, Broken
  <2>8. ASSUME Replayed(FromGenesis, log).status = "ok", NEW i \in DOMAIN me.batch
        PROVE  Verifiable(me.batch[i])
    <3>1. PICK e : e = me.batch[i] /\ InLog(log, e)
      BY <2>5
    <3>2. SUFFICES ASSUME e.body.kind = "seal", Cardinality(SealsOf(log, e.body.root)) = 1
                   PROVE  VerifyEvents(log, e.body.root, FileSays(e.body.root)).status = "ok"
      BY <3>1 DEF Verifiable
    <3>3. e.body.root \in Roots
      BY <3>1, <3>2 DEF InLog, Offered
    <3>4. MaybeKept(FileSays(e.body.root))
      <4>1. FileOK(files[e.body.root])
        BY <3>3, FilesAre
      <4> QED
        BY <4>1 DEF FileSays, FileOK, MaybeKept
    <3> QED
      BY <2>2, <2>8, <3>2, <3>4, ReplayVerifies
  <2> QED
    BY <2>1, <2>6, <2>7, <2>8, Zenon
<1> QED
  BY <1>1, CacheInvariant, PTL
=============================================================================
