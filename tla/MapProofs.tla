------------------------------ MODULE MapProofs ------------------------------
(***************************************************************************)
(* What a state map holds.  A map that threads share is serial and its     *)
(* snapshots are linear, for any number of threads and closures of any     *)
(* length; and the keys, decimals, values and binary forms that maps,      *)
(* snapshots and logs are made of are canonical, however long they are.    *)
(***************************************************************************)
EXTENDS SharedMap, Encodings, StateMapProofs, FiniteSetTheorems, SequenceTheorems

-----------------------------------------------------------------------------
(* The map after a number of calls. *)

IsAfter(called, n, f) ==
  f = [i \in 0..n |-> IF i = 0 THEN EmptyMap ELSE AfterOps(f[i - 1], called[i])]

LEMMA AfterExists ==
  ASSUME NEW called, NEW n \in Nat
  PROVE  \E f : IsAfter(called, n, f)
<1> DEFINE S == {m \in Nat : \E f : IsAfter(called, m, f)}
<1>1. 0 \in S
  <2>1. IsAfter(called, 0, [i \in 0..0 |-> EmptyMap])
    BY DEF IsAfter
  <2> QED
    BY <2>1
<1>2. ASSUME NEW m \in Nat, m \in S PROVE m + 1 \in S
  <2>1. PICK f : IsAfter(called, m, f)
    BY <1>2
  <2> DEFINE g == [i \in 0..m + 1 |->
                     IF i = m + 1 THEN AfterOps(f[m], called[m + 1]) ELSE f[i]]
  <2>2. ASSUME NEW i \in 0..m + 1
        PROVE  g[i] = IF i = 0 THEN EmptyMap ELSE AfterOps(g[i - 1], called[i])
    <3>1. CASE i = m + 1
      <4>1. i # 0 /\ i - 1 = m /\ m \in 0..m + 1 /\ m # m + 1
        BY <3>1
      <4> QED
        BY <3>1, <4>1
    <3>2. CASE i # m + 1
      <4>1. i \in 0..m
        BY <3>2
      <4>2. f[i] = IF i = 0 THEN EmptyMap ELSE AfterOps(f[i - 1], called[i])
        BY <2>1, <4>1 DEF IsAfter
      <4>3. i # 0 => i - 1 \in 0..m + 1 /\ i - 1 # m + 1
        BY <4>1
      <4> QED
        BY <3>2, <4>2, <4>3
    <3> QED
      BY <3>1, <3>2
  <2>3. IsAfter(called, m + 1, g)
    BY <2>2 DEF IsAfter
  <2> HIDE DEF g
  <2> QED
    BY <2>3
<1> HIDE DEF S
<1>3. n \in S
  BY <1>1, <1>2, Induction
<1> QED
  BY <1>3 DEF S

\* The function MapAfter is the last value of.
LEMMA AfterSteps ==
  ASSUME NEW called, NEW n \in Nat
  PROVE  \E f : /\ f[0] = EmptyMap
                /\ \A i \in 1..n : f[i] = AfterOps(f[i - 1], called[i])
                /\ f[n] = MapAfter(called, n)
<1> DEFINE s == CHOOSE f : IsAfter(called, n, f)
<1>1. IsAfter(called, n, s)
  <2>1. \E f : IsAfter(called, n, f)
    BY AfterExists
  <2> QED
    BY <2>1, Zenon
<1>2. s[n] = MapAfter(called, n)
  BY DEF MapAfter, IsAfter
<1> HIDE DEF s
<1>3. \A i \in 0..n : s[i] = IF i = 0 THEN EmptyMap ELSE AfterOps(s[i - 1], called[i])
  BY <1>1 DEF IsAfter
<1>4. 0 \in 0..n /\ \A i \in 1..n : i \in 0..n /\ i # 0
  OBVIOUS
<1>5. s[0] = EmptyMap /\ \A i \in 1..n : s[i] = AfterOps(s[i - 1], called[i])
  BY <1>3, <1>4, Zenon
<1> QED
  BY <1>2, <1>5

\* Two functions that step alike up to a number agree up to it.
LEMMA SameSteps ==
  ASSUME NEW called, NEW other, NEW n \in Nat, \A i \in 1..n : called[i] = other[i],
         NEW f, f[0] = EmptyMap, \A i \in 1..n : f[i] = AfterOps(f[i - 1], called[i]),
         NEW g, g[0] = EmptyMap, \A i \in 1..n : g[i] = AfterOps(g[i - 1], other[i])
  PROVE  f[n] = g[n]
<1> DEFINE S == {i \in Nat : i <= n => f[i] = g[i]}
<1>1. 0 \in S
  OBVIOUS
<1>2. ASSUME NEW i \in Nat, i \in S PROVE i + 1 \in S
  <2> SUFFICES ASSUME i + 1 <= n PROVE f[i + 1] = g[i + 1]
    OBVIOUS
  <2>1. i + 1 \in 1..n /\ (i + 1) - 1 = i /\ i <= n
    OBVIOUS
  <2>2. f[i] = g[i] /\ called[i + 1] = other[i + 1]
    BY <1>2, <2>1
  <2>3. f[i + 1] = AfterOps(f[i], called[i + 1]) /\ g[i + 1] = AfterOps(g[i], other[i + 1])
    BY <2>1
  <2> QED
    BY <2>2, <2>3
<1>3. n \in S
  <2> HIDE DEF S
  <2> QED
    BY <1>1, <1>2, Induction
<1> QED
  BY <1>3

\* Calls that come later change nothing of what was.
LEMMA AfterPrefix ==
  ASSUME NEW called, NEW other, NEW n \in Nat, \A i \in 1..n : called[i] = other[i]
  PROVE  MapAfter(called, n) = MapAfter(other, n)
<1>1. PICK f : /\ f[0] = EmptyMap
               /\ \A i \in 1..n : f[i] = AfterOps(f[i - 1], called[i])
               /\ f[n] = MapAfter(called, n)
  BY AfterSteps
<1>2. PICK g : /\ g[0] = EmptyMap
               /\ \A i \in 1..n : g[i] = AfterOps(g[i - 1], other[i])
               /\ g[n] = MapAfter(other, n)
  BY AfterSteps
<1>3. f[n] = g[n]
  BY <1>1, <1>2, SameSteps
<1> QED
  BY <1>1, <1>2, <1>3

LEMMA AfterNoCall == \A called : MapAfter(called, 0) = EmptyMap
BY AfterSteps

\* One more call applies to what the ones before it leave.
LEMMA AfterOneMoreCall ==
  ASSUME NEW called, NEW n \in Nat
  PROVE  MapAfter(called, n + 1) = AfterOps(MapAfter(called, n), called[n + 1])
<1>1. PICK f : /\ f[0] = EmptyMap
               /\ \A i \in 1..n + 1 : f[i] = AfterOps(f[i - 1], called[i])
               /\ f[n + 1] = MapAfter(called, n + 1)
  BY AfterSteps
<1>2. PICK g : /\ g[0] = EmptyMap
               /\ \A i \in 1..n : g[i] = AfterOps(g[i - 1], called[i])
               /\ g[n] = MapAfter(called, n)
  BY AfterSteps
<1>3. \A i \in 1..n : f[i] = AfterOps(f[i - 1], called[i])
  BY <1>1
<1>4. f[n] = g[n]
  BY <1>1, <1>2, <1>3, SameSteps
<1>5. n + 1 \in 1..n + 1 /\ (n + 1) - 1 = n
  OBVIOUS
<1> QED
  BY <1>1, <1>2, <1>4, <1>5

-----------------------------------------------------------------------------
(* The invariant. *)

Points == {"idle", "batch", "guard", "snapshot", "staging", "editing", "got"}
Doing == [pc: Points, copy: StateMap, done: Seq(Ops), tried: Nat, since: Nat]

TypeOK ==
  /\ map \in StateMap
  /\ holder \in Threads \union {NoThread}
  /\ thread \in [Threads -> Doing]
  /\ history \in Seq(Seq(Ops))

\* What a thread has done, seen from the map: a batch did it to its copy.
ThreadOK(t) ==
  /\ thread[t].pc \in {"staging", "editing"} <=> holder = t
  /\ thread[t].pc \in {"batch", "guard", "snapshot"} => thread[t].done = << >>
  /\ thread[t].pc = "staging" => thread[t].copy = AfterOps(map, thread[t].done)
  /\ thread[t].since <= Len(history)

Inv ==
  /\ TypeOK
  /\ \A t \in Threads : ThreadOK(t)
  /\ BatchesSerial
  /\ ReadsLinear

LEMMA InitInv == Init => Inv
<1> SUFFICES ASSUME Init PROVE Inv
  OBVIOUS
<1>1. TypeOK
  BY EmptyMapType DEF Init, TypeOK, Idle, Doing, Points
<1>2. \A t \in Threads : ThreadOK(t)
  BY NoThreadAssumption DEF Init, ThreadOK, Idle
<1>3. BatchesSerial
  <2>1. Len(history) = 0 /\ Editing = << >> /\ map = EmptyMap
    BY DEF Init, Editing
  <2> QED
    BY <2>1, AfterNoCall, AfterNoOps DEF BatchesSerial, MapAfterCalls
<1>4. ReadsLinear
  BY DEF Init, ReadsLinear, Idle
<1> QED
  BY <1>1, <1>2, <1>3, <1>4 DEF Inv

\* A step that changes neither map nor history keeps the map serial, as long as
\* the edits under way stay what they are.
LEMMA SerialKept ==
  ASSUME BatchesSerial, map' = map, history' = history, Editing' = Editing
  PROVE  BatchesSerial'
BY DEF BatchesSerial, MapAfterCalls

\* So does one that appends to the history what was under way.
LEMMA SerialAppends ==
  ASSUME TypeOK, BatchesSerial, NEW done \in Seq(Ops), history' = Append(history, done),
         map' = AfterOps(MapAfterCalls(Len(history)), done), Editing' = << >>
  PROVE  BatchesSerial'
<1> DEFINE n == Len(history)
<1>1. /\ n \in Nat /\ Len(history') = n + 1 /\ history'[n + 1] = done
      /\ \A i \in 1..n : history'[i] = history[i]
  BY DEF TypeOK
<1> HIDE DEF n
<1>2. MapAfter(history', n) = MapAfter(history, n)
  BY <1>1, AfterPrefix
<1>3. MapAfter(history', n + 1) = AfterOps(MapAfter(history, n), done)
  BY <1>1, <1>2, AfterOneMoreCall
<1>4. MapAfterCalls(n) = MapAfter(history, n)
      /\ MapAfterCalls(Len(history))' = MapAfter(history', n + 1)
  BY <1>1 DEF MapAfterCalls
<1> QED
  BY <1>3, <1>4, AfterNoOps DEF BatchesSerial, n

\* A longer history has the same maps after the calls that were there.
LEMMA ReadsKept ==
  ASSUME TypeOK, ReadsLinear,
         history' = history \/ \E done \in Seq(Ops) : history' = Append(history, done),
         \A t \in Threads : thread'[t].pc = "got" => thread'[t] = thread[t]
  PROVE  ReadsLinear'
<1> SUFFICES ASSUME NEW t \in Threads, thread'[t].pc = "got"
             PROVE  \E n \in thread'[t].since..Len(history') :
                      thread'[t].copy = MapAfter(history', n)
  BY DEF ReadsLinear, MapAfterCalls
<1>1. thread'[t] = thread[t] /\ thread[t].since \in Nat
  BY DEF TypeOK, Doing
<1>2. PICK n \in thread[t].since..Len(history) : thread[t].copy = MapAfter(history, n)
  BY <1>1 DEF ReadsLinear, MapAfterCalls
<1>3. /\ Len(history) <= Len(history')
      /\ \A i \in 1..Len(history) : history'[i] = history[i]
      /\ Len(history) \in Nat /\ Len(history') \in Nat
  BY DEF TypeOK
<1>4. n \in Nat /\ \A i \in 1..n : history'[i] = history[i]
  BY <1>1, <1>2, <1>3
<1>5. MapAfter(history', n) = MapAfter(history, n)
  BY <1>4, AfterPrefix
<1>6. n \in thread'[t].since..Len(history')
  BY <1>1, <1>2, <1>3
<1> QED
  BY <1>1, <1>2, <1>5, <1>6

-----------------------------------------------------------------------------
(* The steps. *)

\* The holder of the lock is the one thread that is inside.
LEMMA EditingOf ==
  ASSUME Inv, NEW t \in Threads
  PROVE  /\ holder = t /\ thread[t].pc = "editing" => Editing = thread[t].done
         /\ holder = t /\ thread[t].pc = "staging" => Editing = << >>
         /\ holder = NoThread => Editing = << >>
BY NoThreadAssumption DEF Inv, Editing

\* A step of one thread that changes neither map nor history: it may take or
\* leave the lock, unless it has edited the map.
LEMMA Quiet ==
  ASSUME Inv, NEW t \in Threads, NEW r \in Doing,
         thread' = [thread EXCEPT ![t] = r], map' = map, history' = history,
         holder' = IF r.pc \in {"staging", "editing"} THEN t
                   ELSE IF holder = t THEN NoThread ELSE holder,
         r.pc \in {"staging", "editing"} => holder \in {NoThread, t},
         holder = t /\ thread[t].pc = "editing" => r.pc = "editing",
         r.pc \in {"batch", "guard", "snapshot"} => r.done = << >>,
         r.pc = "staging" => r.copy = AfterOps(map, r.done),
         r.pc = "editing" => r.done = Editing,
         r.pc = "got" => r.copy = map /\ holder = NoThread,
         r.since <= Len(history)
  PROVE  Inv'
<1>1. /\ TypeOK /\ BatchesSerial /\ ReadsLinear /\ (\A u \in Threads : ThreadOK(u))
      /\ t # NoThread
  BY NoThreadAssumption DEF Inv
<1>2. thread'[t] = r /\ \A u \in Threads \ {t} : thread'[u] = thread[u]
  BY <1>1 DEF TypeOK
<1>3. TypeOK'
  BY <1>1 DEF TypeOK
<1>4. ASSUME NEW u \in Threads PROVE ThreadOK(u)'
  <2>1. CASE u = t
    BY <1>1, <1>2, <2>1 DEF ThreadOK
  <2>2. CASE u # t
    <3>1. ThreadOK(u) /\ thread'[u] = thread[u] /\ u # NoThread
      BY <1>1, <1>2, <2>2, NoThreadAssumption
    <3>2. holder' = u <=> holder = u
      BY <2>2, <3>1
    <3> QED
      BY <3>1, <3>2 DEF ThreadOK
  <2> QED
    BY <2>1, <2>2
<1>5. BatchesSerial'
  <2>1. Editing' = Editing
    <3>1. CASE r.pc = "editing"
      BY <1>1, <1>2, <3>1 DEF Editing
    <3>2. CASE r.pc = "staging"
      <4>1. Editing = << >>
        BY <1>1, <3>2, EditingOf DEF ThreadOK
      <4> QED
        BY <1>1, <1>2, <3>2, <4>1 DEF Editing
    <3>3. CASE r.pc \notin {"staging", "editing"} /\ holder = t
      <4>1. Editing = << >>
        BY <1>1, <3>3, EditingOf DEF ThreadOK
      <4> QED
        BY <3>3, <4>1 DEF Editing
    <3>4. CASE r.pc \notin {"staging", "editing"} /\ holder # t
      <4>1. holder = NoThread \/ holder \in Threads \ {t}
        BY <1>1, <3>4 DEF TypeOK
      <4> QED
        BY <1>2, <3>4, <4>1 DEF Editing
    <3> QED
      BY <3>1, <3>2, <3>3, <3>4
  <2> QED
    BY <1>1, <2>1, SerialKept
<1>6. ReadsLinear'
  <2>1. CASE r.pc = "got"
    <3>1. map = MapAfterCalls(Len(history))
      BY <1>1, <2>1, EditingOf, AfterNoOps DEF BatchesSerial
    <3>2. Len(history) \in r.since..Len(history)
      BY <1>1 DEF TypeOK, Doing
    <3>3. \A n : MapAfterCalls(n)' = MapAfterCalls(n)
      BY DEF MapAfterCalls
    <3>4. ASSUME NEW u \in Threads, thread'[u].pc = "got"
          PROVE  \E n \in thread'[u].since..Len(history') : thread'[u].copy = MapAfterCalls(n)
      <4>1. CASE u = t
        BY <1>2, <2>1, <3>1, <3>2, <4>1
      <4>2. CASE u # t
        BY <1>1, <1>2, <3>4, <4>2 DEF ReadsLinear
      <4> QED
        BY <4>1, <4>2
    <3> QED
      BY <3>3, <3>4 DEF ReadsLinear
  <2>2. CASE r.pc # "got"
    <3>1. \A u \in Threads : thread'[u].pc = "got" => thread'[u] = thread[u]
      BY <1>2, <2>2
    <3> QED
      BY <1>1, <3>1, ReadsKept
  <2> QED
    BY <2>1, <2>2
<1> QED
  BY <1>3, <1>4, <1>5, <1>6 DEF Inv

\* A thread that has not edited the map is done.
LEMMA GoIdle ==
  ASSUME Inv, NEW t \in Threads, thread' = [thread EXCEPT ![t] = Idle],
         UNCHANGED <<map, history>>,
         holder = t => thread[t].pc # "editing" /\ holder' = NoThread,
         holder # t => holder' = holder
  PROVE  Inv'
<1>1. PICK r \in Doing : r = Idle /\ r.pc = "idle" /\ r.since = 0
  <2>1. Idle \in Doing
    BY EmptyMapType DEF Idle, Doing, Points
  <2>2. Idle.pc = "idle" /\ Idle.since = 0
    BY DEF Idle
  <2> QED
    BY <2>1, <2>2
<1>2. Len(history) \in Nat
  BY DEF Inv, TypeOK
<1>3. r.pc \notin {"batch", "guard", "snapshot", "staging", "editing", "got"}
  BY <1>1
<1>4. /\ r.since <= Len(history) /\ thread' = [thread EXCEPT ![t] = r]
      /\ holder' = IF holder = t THEN NoThread ELSE holder
  BY <1>1, <1>2
<1> QED
  BY <1>3, <1>4, Quiet

\* The holder leaves the lock with what it did in the map.
LEMMA Leave ==
  ASSUME Inv, NEW t \in Threads, thread[t].pc \in {"staging", "editing"},
         thread' = [thread EXCEPT ![t] = Idle], holder' = NoThread,
         history' = Append(history, thread[t].done),
         map' = IF thread[t].pc = "staging" THEN thread[t].copy ELSE map
  PROVE  Inv'
<1>1. /\ TypeOK /\ BatchesSerial /\ ReadsLinear /\ (\A u \in Threads : ThreadOK(u))
      /\ holder = t
  BY DEF Inv, ThreadOK
<1>2. thread'[t] = Idle /\ \A u \in Threads \ {t} : thread'[u] = thread[u]
  BY <1>1 DEF TypeOK
<1>3. thread[t].done \in Seq(Ops) /\ thread[t].copy \in StateMap
  BY <1>1 DEF TypeOK, Doing
<1>4. Idle \in Doing /\ Idle.pc = "idle" /\ Idle.since = 0
  BY EmptyMapType DEF Idle, Doing, Points
<1>5. TypeOK'
  BY <1>1, <1>3, <1>4 DEF TypeOK
<1>6. ASSUME NEW u \in Threads PROVE ThreadOK(u)'
  <2>1. Len(history) \in Nat /\ Len(history') = Len(history) + 1
    BY <1>1 DEF TypeOK
  <2>2. CASE u = t
    BY <1>2, <1>4, <2>1, <2>2, NoThreadAssumption DEF ThreadOK
  <2>3. CASE u # t
    <3>1. thread'[u] = thread[u] /\ thread[u].pc \notin {"staging", "editing"}
          /\ thread[u].since \in Nat
      BY <1>1, <1>2, <2>3 DEF ThreadOK, TypeOK, Doing
    <3> QED
      BY <1>1, <2>1, <3>1, NoThreadAssumption DEF ThreadOK
  <2> QED
    BY <2>2, <2>3
<1>7. BatchesSerial'
  <2>1. map' = AfterOps(MapAfterCalls(Len(history)), thread[t].done)
    <3>1. CASE thread[t].pc = "staging"
      <4>1. map = MapAfterCalls(Len(history))
        BY <1>1, <3>1, EditingOf, AfterNoOps DEF BatchesSerial
      <4> QED
        BY <1>1, <3>1, <4>1 DEF ThreadOK
    <3>2. CASE thread[t].pc = "editing"
      BY <1>1, <3>2, EditingOf DEF BatchesSerial
    <3> QED
      BY <3>1, <3>2
  <2>2. Editing' = << >>
    BY DEF Editing
  <2> QED
    BY <1>1, <1>3, <2>1, <2>2, SerialAppends
<1>8. ReadsLinear'
  <2>1. \A u \in Threads : thread'[u].pc = "got" => thread'[u] = thread[u]
    BY <1>2, <1>4
  <2> QED
    BY <1>1, <1>3, <2>1, ReadsKept
<1> QED
  BY <1>5, <1>6, <1>7, <1>8 DEF Inv

\* The user of a guard changes the map.
LEMMA Edit ==
  ASSUME Inv, NEW t \in Threads, NEW op \in Ops, thread[t].pc = "editing",
         NEW r \in Doing, r.pc = "editing", r.done = Append(thread[t].done, op),
         r.since = thread[t].since,
         thread' = [thread EXCEPT ![t] = r], map' = ApplyOp(map, op),
         holder' = holder, history' = history
  PROVE  Inv'
<1>1. /\ TypeOK /\ BatchesSerial /\ ReadsLinear /\ (\A u \in Threads : ThreadOK(u))
      /\ holder = t /\ t # NoThread /\ thread[t].done \in Seq(Ops)
  BY NoThreadAssumption DEF Inv, ThreadOK, TypeOK, Doing
<1>2. thread'[t] = r /\ \A u \in Threads \ {t} : thread'[u] = thread[u]
  BY <1>1 DEF TypeOK
<1>3. TypeOK'
  <2>1. op \in Op
    BY SharedOpAssumption
  <2> QED
    BY <1>1, <2>1, ApplyOpType DEF TypeOK
<1>4. \A u \in Threads : ThreadOK(u)'
  BY <1>1, <1>2 DEF ThreadOK
<1>5. BatchesSerial'
  <2>1. Editing = thread[t].done /\ Editing' = Append(thread[t].done, op)
    BY <1>1, <1>2, EditingOf DEF Editing
  <2>2. MapAfterCalls(Len(history))' = MapAfterCalls(Len(history))
    BY DEF MapAfterCalls
  <2> QED
    BY <1>1, <2>1, <2>2, AfterOneMore DEF BatchesSerial
<1>6. ReadsLinear'
  <2>1. \A u \in Threads : thread'[u].pc = "got" => thread'[u] = thread[u]
    BY <1>2
  <2> QED
    BY <1>1, <2>1, ReadsKept
<1> QED
  BY <1>3, <1>4, <1>5, <1>6 DEF Inv

LEMMA NextInv == Inv /\ [Next]_vars => Inv'
<1> SUFFICES ASSUME Inv, [Next]_vars PROVE Inv'
  OBVIOUS
<1>1. CASE UNCHANGED vars
  BY <1>1 DEF vars, Inv, TypeOK, ThreadOK, BatchesSerial, ReadsLinear, MapAfterCalls, Editing
<1> SUFFICES ASSUME NEW t \in Threads,
                    \/ Call(t) \/ RefuseLock(t) \/ BeginBatch(t) \/ BeginGuard(t) \/ Snapshot(t)
                    \/ StageOp(t) \/ EditOp(t) \/ Commit(t) \/ Abandon(t) \/ EndGuard(t)
                    \/ Panic(t) \/ Return(t)
             PROVE  Inv'
  BY <1>1 DEF Next
<1>2. /\ TypeOK /\ ThreadOK(t) /\ thread[t] \in Doing /\ Len(history) \in Nat
      /\ thread[t].done \in Seq(Ops) /\ map \in StateMap /\ t # NoThread
  BY NoThreadAssumption DEF Inv, TypeOK, Doing
<1>3. Idle \in Doing /\ Idle.pc = "idle" /\ Idle.since = 0 /\ Idle.done = << >>
  BY EmptyMapType DEF Idle, Doing, Points
<1>4. CASE Call(t)
  <2>1. PICK method \in {"batch", "guard", "snapshot"} :
          thread' = [thread EXCEPT ![t] = [Idle EXCEPT !.pc = method, !.since = Len(history)]]
    BY <1>4 DEF Call
  <2> DEFINE r == [Idle EXCEPT !.pc = method, !.since = Len(history)]
  <2>2. r \in Doing /\ r.pc = method /\ r.done = << >> /\ r.since = Len(history)
    BY <1>2, <1>3 DEF Doing, Points
  <2>3. holder # t /\ UNCHANGED <<map, history, holder>> /\ thread[t].pc = "idle"
    BY <1>2, <1>4 DEF Call, ThreadOK
  <2> HIDE DEF r
  <2>4. thread' = [thread EXCEPT ![t] = r]
    BY <2>1 DEF r
  <2>5. r.pc \notin {"staging", "editing", "got"} /\ r.since <= Len(history)
    BY <1>2, <2>2
  <2> QED
    BY <2>2, <2>3, <2>4, <2>5, Quiet
<1>5. CASE RefuseLock(t)
  <2>1. /\ thread[t].pc \in {"batch", "guard", "snapshot"}
        /\ thread' = [thread EXCEPT ![t] = Idle] /\ UNCHANGED <<map, history, holder>>
    BY <1>5 DEF RefuseLock
  <2>2. holder # t
    BY <1>2, <2>1 DEF ThreadOK
  <2> QED
    BY <2>1, <2>2, GoIdle
<1>6. CASE BeginBatch(t)
  <2> DEFINE r == [thread[t] EXCEPT !.pc = "staging", !.copy = map]
  <2>1. /\ r \in Doing /\ r.pc = "staging" /\ r.copy = map /\ r.done = << >>
        /\ r.since <= Len(history)
    BY <1>2, <1>6 DEF BeginBatch, ThreadOK, Doing, Points
  <2>2. thread' = [thread EXCEPT ![t] = r]
    BY <1>2, <1>6 DEF BeginBatch, TypeOK
  <2>3. holder = NoThread /\ holder' = t /\ UNCHANGED <<map, history>> /\ thread[t].pc = "batch"
    BY <1>6 DEF BeginBatch
  <2> HIDE DEF r
  <2> QED
    BY <1>2, <2>1, <2>2, <2>3, Quiet, AfterNoOps
<1>7. CASE BeginGuard(t)
  <2> DEFINE r == [thread[t] EXCEPT !.pc = "editing"]
  <2>1. r \in Doing /\ r.pc = "editing" /\ r.done = << >> /\ r.since <= Len(history)
    BY <1>2, <1>7 DEF BeginGuard, ThreadOK, Doing, Points
  <2>2. thread' = [thread EXCEPT ![t] = r]
    BY <1>2, <1>7 DEF BeginGuard, TypeOK
  <2>3. holder = NoThread /\ holder' = t /\ UNCHANGED <<map, history>> /\ thread[t].pc = "guard"
    BY <1>7 DEF BeginGuard
  <2> HIDE DEF r
  <2> QED
    BY <1>2, <2>1, <2>2, <2>3, Quiet, EditingOf
<1>8. CASE Snapshot(t)
  <2> DEFINE r == [thread[t] EXCEPT !.pc = "got", !.copy = map]
  <2>1. r \in Doing /\ r.pc = "got" /\ r.copy = map /\ r.since <= Len(history)
    BY <1>2, <1>8 DEF Snapshot, ThreadOK, Doing, Points
  <2>2. thread' = [thread EXCEPT ![t] = r]
    BY <1>2, <1>8 DEF Snapshot, TypeOK
  <2>3. holder = NoThread /\ UNCHANGED <<map, history, holder>> /\ thread[t].pc = "snapshot"
    BY <1>8 DEF Snapshot
  <2> HIDE DEF r
  <2> QED
    BY <1>2, <2>1, <2>2, <2>3, Quiet
<1>9. CASE StageOp(t)
  <2>1. PICK ns \in Namespaces, op \in Ops :
          IF Accepts(thread[t].copy, ns, op)
          THEN thread' = [thread EXCEPT ![t].copy = ApplyOp(@, op), ![t].done = Append(@, op),
                                        ![t].tried = @ + 1]
          ELSE thread' = [thread EXCEPT ![t].tried = @ + 1]
    BY <1>9 DEF StageOp
  <2>2. /\ thread[t].pc = "staging" /\ holder = t /\ UNCHANGED <<map, history, holder>>
        /\ thread[t].copy = AfterOps(map, thread[t].done)
    BY <1>2, <1>9 DEF StageOp, ThreadOK
  <2>3. op \in Op
    BY SharedOpAssumption
  <2>4. ASSUME NEW r, r = [thread[t] EXCEPT !.copy = ApplyOp(thread[t].copy, op),
                                            !.done = Append(thread[t].done, op),
                                            !.tried = thread[t].tried + 1],
               thread' = [thread EXCEPT ![t] = r]
        PROVE  Inv'
    <3>1. ApplyOp(thread[t].copy, op) \in StateMap
      BY <1>2, <2>3, ApplyOpType DEF Doing
    <3>2. Append(thread[t].done, op) \in Seq(Ops) /\ thread[t].tried + 1 \in Nat
      BY <1>2 DEF Doing
    <3>4. /\ r \in Doing /\ r.pc = "staging" /\ r.copy = ApplyOp(thread[t].copy, op)
          /\ r.done = Append(thread[t].done, op) /\ r.since = thread[t].since
      BY <1>2, <2>2, <2>4, <3>1, <3>2 DEF Doing
    <3>5. r.since <= Len(history)
      BY <1>2, <3>4 DEF ThreadOK
    <3>3. r.copy = AfterOps(map, r.done)
      BY <1>2, <2>2, <3>4, AfterOneMore
    <3> QED
      BY <2>2, <2>4, <3>3, <3>4, <3>5, Quiet
  <2>5. ASSUME NEW r, r = [thread[t] EXCEPT !.tried = thread[t].tried + 1],
               thread' = [thread EXCEPT ![t] = r]
        PROVE  Inv'
    <3>1. /\ r \in Doing /\ r.pc = "staging" /\ r.copy = thread[t].copy
          /\ r.done = thread[t].done /\ r.since <= Len(history)
      BY <1>2, <2>2, <2>5 DEF Doing, ThreadOK
    <3> QED
      BY <1>2, <2>2, <2>5, <3>1, Quiet
  <2> QED
    BY <1>2, <2>1, <2>4, <2>5 DEF TypeOK
<1>10. CASE EditOp(t)
  <2>1. PICK ns \in Namespaces, op \in Ops :
          IF Accepts(map, ns, op)
          THEN /\ map' = ApplyOp(map, op)
               /\ thread' = [thread EXCEPT ![t].done = Append(@, op), ![t].tried = @ + 1]
          ELSE thread' = [thread EXCEPT ![t].tried = @ + 1] /\ UNCHANGED map
    BY <1>10 DEF EditOp
  <2>2. thread[t].pc = "editing" /\ holder = t /\ UNCHANGED <<history, holder>>
    BY <1>2, <1>10 DEF EditOp, ThreadOK
  <2>3. ASSUME NEW r, r = [thread[t] EXCEPT !.done = Append(thread[t].done, op),
                                            !.tried = thread[t].tried + 1],
               thread' = [thread EXCEPT ![t] = r], map' = ApplyOp(map, op)
        PROVE  Inv'
    <3>1. Append(thread[t].done, op) \in Seq(Ops) /\ thread[t].tried + 1 \in Nat
      BY <1>2 DEF Doing
    <3>2. /\ r \in Doing /\ r.pc = "editing" /\ r.done = Append(thread[t].done, op)
          /\ r.since = thread[t].since
      BY <1>2, <2>2, <2>3, <3>1 DEF Doing
    <3> QED
      BY <2>2, <2>3, <3>2, Edit
  <2>4. ASSUME NEW r, r = [thread[t] EXCEPT !.tried = thread[t].tried + 1],
               thread' = [thread EXCEPT ![t] = r], map' = map
        PROVE  Inv'
    <3>1. /\ r \in Doing /\ r.pc = "editing" /\ r.done = Editing
          /\ r.since <= Len(history)
      BY <1>2, <2>2, <2>4, EditingOf, SMTT(30) DEF Doing, ThreadOK
    <3> QED
      BY <1>2, <2>2, <2>4, <3>1, Quiet
  <2> QED
    BY <1>2, <2>1, <2>3, <2>4 DEF TypeOK
<1>11. CASE Commit(t)
  BY <1>11, Leave DEF Commit
<1>12. CASE Abandon(t)
  <2>1. thread' = [thread EXCEPT ![t] = Idle] /\ UNCHANGED <<map, history>>
    BY <1>12 DEF Abandon
  <2>2. thread[t].pc = "staging" /\ holder = t /\ holder' = NoThread
    BY <1>2, <1>12 DEF Abandon, ThreadOK
  <2> QED
    BY <2>1, <2>2, GoIdle
<1>13. CASE EndGuard(t)
  BY <1>13, Leave DEF EndGuard
<1>14. CASE Panic(t)
  <2>1. CASE thread[t].pc = "editing"
    BY <1>14, <2>1, Leave DEF Panic
  <2>2. CASE thread[t].pc = "staging"
    <3>1. /\ thread' = [thread EXCEPT ![t] = Idle] /\ UNCHANGED <<map, history>>
          /\ holder' = NoThread
      BY <1>14, <2>2 DEF Panic
    <3>2. holder = t
      BY <1>2, <2>2 DEF ThreadOK
    <3> QED
      BY <2>2, <3>1, <3>2, GoIdle
  <2> QED
    BY <1>14, <2>1, <2>2 DEF Panic
<1>15. CASE Return(t)
  <2>1. thread' = [thread EXCEPT ![t] = Idle] /\ UNCHANGED <<map, history>>
    BY <1>15 DEF Return
  <2>2. holder # t /\ UNCHANGED holder
    BY <1>2, <1>15 DEF Return, ThreadOK
  <2> QED
    BY <2>1, <2>2, GoIdle
<1> QED
  BY <1>4, <1>5, <1>6, <1>7, <1>8, <1>9, <1>10, <1>11, <1>12, <1>13, <1>14, <1>15

LEMMA InvHolds == Spec => []Inv
BY InitInv, NextInv, PTL DEF Spec

\* For any number of threads and closures of any length, failing and panicking
\* where they like, the map is the calls that took effect, one after the other
\* (TransactionalStateMap::apply_batch): a batch under way or given up shows
\* nothing, and none undoes another.
THEOREM MapSerial == Spec => []BatchesSerial
<1>1. Inv => BatchesSerial
  BY DEF Inv
<1> QED
  BY <1>1, InvHolds, PTL

\* A snapshot (TransactionalStateMap::snapshot) is the map between two of these
\* calls, and misses none that was over when the snapshot was asked for.
THEOREM SnapshotsLinear == Spec => []ReadsLinear
<1>1. Inv => ReadsLinear
  BY DEF Inv
<1> QED
  BY <1>1, InvHolds, PTL

-----------------------------------------------------------------------------
(* Functions by recursion on numbers, and sequences built part by part. *)

IsRecursive(f, n, base, step) ==
  f = [i \in 0..n |-> IF i = 0 THEN base ELSE step[<<f[i - 1], i>>]]

\* A step on S, from a base in S, defines a function into S.
LEMMA RecursionExists ==
  ASSUME NEW S, NEW n \in Nat, NEW base \in S, NEW step \in [S \X (1..n) -> S]
  PROVE  \E f \in [0..n -> S] : IsRecursive(f, n, base, step)
<1> DEFINE M == {m \in Nat : m <= n => \E f \in [0..m -> S] : IsRecursive(f, m, base, step)}
<1>1. 0 \in M
  <2> DEFINE f == [i \in 0..0 |-> base]
  <2>1. f \in [0..0 -> S] /\ IsRecursive(f, 0, base, step)
    BY DEF IsRecursive
  <2> QED
    BY <2>1
<1>2. \A m \in Nat : m \in M => m + 1 \in M
  <2> SUFFICES ASSUME NEW m \in Nat, m \in M, m + 1 <= n
               PROVE  \E f \in [0..m + 1 -> S] : IsRecursive(f, m + 1, base, step)
    OBVIOUS
  <2>1. PICK f \in [0..m -> S] : IsRecursive(f, m, base, step)
    OBVIOUS
  <2> DEFINE g == [i \in 0..m + 1 |-> IF i <= m THEN f[i] ELSE step[<<f[m], m + 1>>]]
  <2>2. step[<<f[m], m + 1>>] \in S
    <3>1. f[m] \in S /\ m + 1 \in 1..n
      OBVIOUS
    <3> QED
      BY <3>1
  <2>3. g \in [0..m + 1 -> S]
    BY <2>2
  <2>4. \A i \in 0..m : g[i] = f[i]
    OBVIOUS
  <2>5. g[m + 1] = step[<<f[m], m + 1>>]
    OBVIOUS
  <2>6. \A i \in 0..m + 1 : g[i] = IF i = 0 THEN base ELSE step[<<g[i - 1], i>>]
    <3> SUFFICES ASSUME NEW i \in 0..m + 1
                 PROVE  g[i] = IF i = 0 THEN base ELSE step[<<g[i - 1], i>>]
      OBVIOUS
    <3>1. CASE i <= m
      <4>1. f[i] = IF i = 0 THEN base ELSE step[<<f[i - 1], i>>]
        BY <2>1, <3>1 DEF IsRecursive
      <4>2. CASE i = 0
        BY <2>4, <3>1, <4>1, <4>2
      <4>3. CASE i # 0
        <5>1. i - 1 \in 0..m
          BY <3>1, <4>3
        <5>2. g[i - 1] = f[i - 1] /\ g[i] = f[i]
          BY <2>4, <3>1, <5>1
        <5> HIDE DEF g
        <5> QED
          BY <4>1, <4>3, <5>2
      <4> QED
        BY <4>2, <4>3
    <3>2. CASE i = m + 1
      <4>1. i # 0 /\ i - 1 = m /\ m \in 0..m
        BY <3>2
      <4>2. g[i - 1] = f[m] /\ g[i] = step[<<f[m], m + 1>>]
        BY <2>4, <2>5, <3>2, <4>1
      <4> HIDE DEF g
      <4> QED
        BY <3>2, <4>1, <4>2
    <3> QED
      BY <3>1, <3>2
  <2>7. IsRecursive(g, m + 1, base, step)
    <3>1. g = [i \in 0..m + 1 |-> g[i]]
      OBVIOUS
    <3> HIDE DEF g
    <3> QED
      BY <2>6, <3>1 DEF IsRecursive
  <2> QED
    BY <2>3, <2>7
<1> HIDE DEF M
<1>3. n \in M
  BY <1>1, <1>2, Induction
<1> QED
  BY <1>3 DEF M

\* Parts appended one after another.
IsJoin(f, n, base, part) ==
  f = [i \in 0..n |-> IF i = 0 THEN base ELSE f[i - 1] \o part[i]]

\* Joining parts one after another defines a function of their number,
LEMMA JoinExists ==
  ASSUME NEW S, NEW n \in Nat, NEW base \in Seq(S), NEW part \in [1..n -> Seq(S)]
  PROVE  \E f \in [0..n -> Seq(S)] : IsJoin(f, n, base, part)
<1> DEFINE step == [p \in Seq(S) \X (1..n) |-> p[1] \o part[p[2]]]
<1>1. step \in [Seq(S) \X (1..n) -> Seq(S)]
  OBVIOUS
<1>2. \A s \in Seq(S), i \in 1..n : step[<<s, i>>] = s \o part[i]
  OBVIOUS
<1> HIDE DEF step
<1>3. PICK f \in [0..n -> Seq(S)] : IsRecursive(f, n, base, step)
  BY <1>1, RecursionExists
<1>4. \A i \in 0..n : f[i] = IF i = 0 THEN base ELSE f[i - 1] \o part[i]
  <2> SUFFICES ASSUME NEW i \in 0..n PROVE f[i] = IF i = 0 THEN base ELSE f[i - 1] \o part[i]
    OBVIOUS
  <2>1. f[i] = IF i = 0 THEN base ELSE step[<<f[i - 1], i>>]
    BY <1>3 DEF IsRecursive
  <2>2. CASE i = 0
    BY <2>1, <2>2
  <2>3. CASE i # 0
    <3>1. i \in 1..n /\ i - 1 \in 0..n
      BY <2>3
    <3>2. f[i - 1] \in Seq(S)
      BY <3>1
    <3>3. step[<<f[i - 1], i>>] = f[i - 1] \o part[i]
      BY <1>2, <3>1, <3>2
    <3> QED
      BY <2>1, <2>3, <3>3
  <2> QED
    BY <2>2, <2>3
<1>5. f = [i \in 0..n |-> f[i]]
  OBVIOUS
<1>6. IsJoin(f, n, base, part)
  BY <1>4, <1>5 DEF IsJoin
<1> QED
  BY <1>6

Agree(s, t) == \A i \in 1..Len(s) : i <= Len(t) => s[i] = t[i]

\* which gives sequences,
LEMMA JoinType ==
  ASSUME NEW S, NEW n \in Nat, NEW base \in Seq(S), NEW part \in [1..n -> Seq(S)],
         NEW f, IsJoin(f, n, base, part)
  PROVE  f \in [0..n -> Seq(S)]
<1>1. \A i \in 0..n : f[i] = IF i = 0 THEN base ELSE f[i - 1] \o part[i]
  BY DEF IsJoin
<1> DEFINE M == {m \in Nat : m <= n => f[m] \in Seq(S)}
<1>2. 0 \in M
  BY <1>1
<1>3. \A m \in Nat : m \in M => m + 1 \in M
  <2> SUFFICES ASSUME NEW m \in Nat, f[m] \in Seq(S), m + 1 <= n PROVE f[m + 1] \in Seq(S)
    OBVIOUS
  <2>1. m + 1 \in 0..n /\ m + 1 # 0 /\ (m + 1) - 1 = m /\ m + 1 \in 1..n
    OBVIOUS
  <2>2. f[m + 1] = f[m] \o part[m + 1]
    BY <1>1, <2>1
  <2>3. part[m + 1] \in Seq(S)
    BY <2>1
  <2>4. f[m] \o part[m + 1] \in Seq(S)
    BY <2>3
  <2> QED
    BY <2>2, <2>4
<1> HIDE DEF M
<1>4. \A m \in Nat : m \in M
  BY <1>2, <1>3, Induction
<1>5. \A i \in 0..n : f[i] \in Seq(S)
  BY <1>4 DEF M
<1>6. f = [i \in 0..n |-> IF i = 0 THEN base ELSE f[i - 1] \o part[i]]
  BY DEF IsJoin
<1>7. f = [i \in 0..n |-> f[i]]
  BY <1>1, <1>6
<1> QED
  BY <1>5, <1>7

Extends(s, t) == Len(t) <= Len(s) /\ \A j \in 1..Len(t) : s[j] = t[j]

Joined(f, n, base, part) ==
  f[0] = base /\ \A i \in 1..n : f[i] = f[i - 1] \o part[i]

\* from the base on, each value the one before it and a part.
LEMMA JoinSteps ==
  ASSUME NEW S, NEW n \in Nat, NEW base, NEW part \in [1..n -> Seq(S)],
         NEW f \in [0..n -> Seq(S)], IsJoin(f, n, base, part)
  PROVE  Joined(f, n, base, part)
<1>1. \A i \in 0..n : f[i] = IF i = 0 THEN base ELSE f[i - 1] \o part[i]
  BY DEF IsJoin
<1>2. 0 \in 0..n /\ \A i \in 1..n : i \in 0..n /\ i # 0
  OBVIOUS
<1> QED
  BY <1>1, <1>2 DEF Joined

\* What was joined stays in front of what follows.
LEMMA JoinExtends ==
  ASSUME NEW S, NEW n \in Nat, NEW base, NEW part \in [1..n -> Seq(S)],
         NEW f \in [0..n -> Seq(S)], IsJoin(f, n, base, part), NEW k \in 0..n
  PROVE  Extends(f[n], f[k])
<1>1. \A i \in 1..n : f[i] = f[i - 1] \o part[i]
  <2>1. Joined(f, n, base, part)
    BY JoinSteps
  <2> QED
    BY <2>1 DEF Joined
<1> DEFINE M == {m \in Nat : k + m <= n => Extends(f[k + m], f[k])}
<1>2. 0 \in M
  BY DEF Extends
<1>3. \A m \in Nat : m \in M => m + 1 \in M
  <2> SUFFICES ASSUME NEW m \in Nat, m \in M, k + (m + 1) <= n
               PROVE  Extends(f[k + (m + 1)], f[k])
    OBVIOUS
  <2>1. PICK i : i = k + (m + 1)
    OBVIOUS
  <2>2. i \in 1..n /\ i - 1 = k + m /\ i - 1 \in 0..n
    BY <2>1
  <2>3. f[i] = f[i - 1] \o part[i]
    BY <1>1, <2>2
  <2>4. PICK s, t, r : s = f[i - 1] /\ t = part[i] /\ r = f[k]
    OBVIOUS
  <2>5. s \in Seq(S) /\ t \in Seq(S) /\ r \in Seq(S)
    BY <2>2, <2>4
  <2>6. Extends(s, r)
    <3>1. k + m <= n /\ f[k + m] = s
      BY <2>2, <2>4
    <3> QED
      BY <2>4, <3>1
  <2>7. Extends(s \o t, r)
    BY <2>5, <2>6 DEF Extends
  <2> QED
    BY <2>1, <2>3, <2>4, <2>7
<1>4. n - k \in Nat
  OBVIOUS
<1> HIDE DEF M
<1>5. n - k \in M
  BY <1>2, <1>3, <1>4, Induction
<1>6. k + (n - k) = n /\ n <= n
  OBVIOUS
<1> QED
  BY <1>5, <1>6 DEF M

-----------------------------------------------------------------------------
(* Parts of sequences. *)

\* A part of one element, the length of a join, and two parts side by side.
LEMMA PartOne ==
  ASSUME NEW S, NEW s \in Seq(S), NEW i \in 1..Len(s)
  PROVE  SubSeq(s, i, i) = <<s[i]>>
<1>1. PICK u : u = SubSeq(s, i, i)
  OBVIOUS
<1>2. u \in Seq(S) /\ Len(u) = 1 /\ u[1] = s[i]
  BY <1>1
<1>3. u = <<u[1]>>
  BY <1>2
<1> QED
  BY <1>1, <1>2, <1>3

LEMMA LenOfJoin ==
  ASSUME NEW S, NEW s \in Seq(S), NEW t \in Seq(S)
  PROVE  Len(s \o t) = Len(s) + Len(t)
OBVIOUS

LEMMA PartsJoin ==
  ASSUME NEW S, NEW s \in Seq(S), NEW p \in Int, NEW q \in Int, NEW r \in Int,
         1 <= p, p <= q + 1, q <= r, r <= Len(s)
  PROVE  SubSeq(s, p, q) \o SubSeq(s, q + 1, r) = SubSeq(s, p, r)
OBVIOUS

-----------------------------------------------------------------------------
(* The binary form of a map. *)

LEMMA Numbers ==
  /\ \A S : \A s \in Seq(S) : Len(s) \in Byte
  /\ \A n \in 1..6 : n \in Byte
  /\ \A n \in Byte : n \in Nat
BY DEF Byte

\* An entry is its front, which tells how long it is, and what follows.
EntryParts(e, front, rest) ==
  /\ front \in Seq(Byte) /\ Len(front) = Len(e.key) + 2
  /\ front[1] = Len(e.key) /\ front[Len(e.key) + 2] = e.tag
  /\ rest \in Seq(Byte)
  /\ Sized(e.tag) => Len(rest) = 1 + Len(e.payload) /\ rest[1] = Len(e.payload)
  /\ ~Sized(e.tag) => Len(rest) = Len(e.payload)
  /\ EncodeEntry(e) = front \o rest

LEMMA EntryEncodes ==
  ASSUME NEW e \in EntryType
  PROVE  \E front, rest : EntryParts(e, front, rest)
<1>1. PICK key, tag, payload : key = e.key /\ tag = e.tag /\ payload = e.payload
  OBVIOUS
<1>2. key \in Seq(Byte) /\ tag \in 1..6 /\ payload \in Seq(Byte)
  BY <1>1 DEF EntryType
<1>3. tag \in Byte /\ Len(key) \in Byte /\ Len(payload) \in Byte
  BY <1>2, Numbers
<1>4. PICK size : size = IF Sized(tag) THEN <<Len(payload)>> ELSE << >>
  OBVIOUS
<1>5. size \in Seq(Byte)
  BY <1>3, <1>4
<1>6. PICK front : front = <<Len(key)>> \o key \o <<tag>>
  OBVIOUS
<1>7. /\ front \in Seq(Byte) /\ Len(front) = Len(key) + 2
      /\ front[1] = Len(key) /\ front[Len(key) + 2] = tag
  BY <1>2, <1>3, <1>6
<1>8. PICK rest : rest = size \o payload
  OBVIOUS
<1>9. rest \in Seq(Byte)
  BY <1>2, <1>5, <1>8
<1>10. EncodeEntry(e) = front \o rest
  <2>1. EncodeEntry(e) = front \o size \o payload
    BY <1>1, <1>4, <1>6 DEF EncodeEntry
  <2>2. front \in Seq(Byte) /\ payload \in Seq(Byte)
    BY <1>2, <1>7
  <2>3. (front \o size) \o payload = front \o (size \o payload)
    BY <1>5, <2>2
  <2> QED
    BY <1>8, <2>1, <2>3
<1>11. Sized(tag) => Len(rest) = 1 + Len(payload) /\ rest[1] = Len(payload)
  <2> SUFFICES ASSUME Sized(tag)
               PROVE  Len(rest) = 1 + Len(payload) /\ rest[1] = Len(payload)
    OBVIOUS
  <2>1. size = <<Len(payload)>>
    BY <1>4
  <2>2. rest = <<Len(payload)>> \o payload
    BY <1>8, <2>1
  <2> QED
    BY <1>2, <1>3, <2>2
<1>12. ~Sized(tag) => Len(rest) = Len(payload)
  <2> SUFFICES ASSUME ~Sized(tag) PROVE Len(rest) = Len(payload)
    OBVIOUS
  <2>1. size = << >>
    BY <1>4
  <2>2. rest = << >> \o payload
    BY <1>8, <2>1
  <2> QED
    BY <1>2, <2>2
<1>13. EntryParts(e, front, rest)
  BY <1>1, <1>7, <1>9, <1>10, <1>11, <1>12 DEF EntryParts
<1> QED
  BY <1>13

\* The bytes of an entry that tell where it ends.
EntryBytes(e, s) ==
  /\ s = EncodeEntry(e) /\ s \in Seq(Byte)
  /\ s[1] = Len(e.key) /\ s[Len(e.key) + 2] = e.tag
  /\ Sized(e.tag) => Len(s) = Len(e.key) + 3 + Len(e.payload) /\ s[Len(e.key) + 3] = Len(e.payload)
  /\ ~Sized(e.tag) => Len(s) = Len(e.key) + 2 + Len(e.payload)

\* Where key, tag and payload of an entry lie in its bytes.
LEMMA EntryHasBytes ==
  ASSUME NEW e \in EntryType
  PROVE  EntryBytes(e, EncodeEntry(e))
<1>1. PICK front, rest : EntryParts(e, front, rest)
  BY EntryEncodes
<1>2. PICK n, m, tag : n = Len(e.key) /\ m = Len(e.payload) /\ tag = e.tag
  OBVIOUS
<1>3. n \in Nat /\ m \in Nat
  BY <1>2 DEF EntryType
<1>4. PICK s : s = front \o rest
  OBVIOUS
<1>5. s = EncodeEntry(e)
  BY <1>1, <1>4 DEF EntryParts
<1>6. /\ front \in Seq(Byte) /\ Len(front) = n + 2 /\ front[1] = n /\ front[n + 2] = tag
      /\ rest \in Seq(Byte)
  BY <1>1, <1>2 DEF EntryParts
<1>7. s \in Seq(Byte) /\ s[1] = n /\ s[n + 2] = tag
  BY <1>3, <1>4, <1>6
<1>8. /\ Len(s) = Len(front) + Len(rest)
       /\ \A i \in 1..Len(rest) : s[Len(front) + i] = rest[i]
  <2>1. front \in Seq(Byte) /\ rest \in Seq(Byte)
    BY <1>6
  <2> QED
    BY <1>4, <2>1
<1>9. Sized(tag) => Len(s) = n + 3 + m /\ s[n + 3] = m
  <2> SUFFICES ASSUME Sized(tag) PROVE Len(s) = n + 3 + m /\ s[n + 3] = m
    OBVIOUS
  <2>1. Len(rest) = 1 + m /\ rest[1] = m
    BY <1>1, <1>2 DEF EntryParts
  <2> QED
    BY <1>3, <1>6, <1>8, <2>1
<1>10. ~Sized(tag) => Len(s) = n + 2 + m
  <2> SUFFICES ASSUME ~Sized(tag) PROVE Len(s) = n + 2 + m
    OBVIOUS
  <2>1. Len(rest) = m
    BY <1>1, <1>2 DEF EntryParts
  <2> QED
    BY <1>3, <1>6, <1>8, <2>1
<1>11. EntryBytes(e, s)
  BY <1>2, <1>5, <1>7, <1>9, <1>10 DEF EntryBytes
<1> QED
  BY <1>5, <1>11

\* No entry begins like another and goes on.
LEMMA EntryEnds ==
  ASSUME NEW d \in EntryType, NEW e \in EntryType, WellSized(d), WellSized(e),
         NEW s, NEW t, EntryBytes(d, s), EntryBytes(e, t),
         Agree(s, t)
  PROVE  Len(s) = Len(t)
<1>1. PICK n, m, tag : n = Len(d.key) /\ m = Len(d.payload) /\ tag = d.tag
  OBVIOUS
<1>2. PICK k, l, kind1 : k = Len(e.key) /\ l = Len(e.payload) /\ kind1 = e.tag
  OBVIOUS
<1>3. n \in Nat /\ m \in Nat /\ k \in Nat /\ l \in Nat /\ tag \in 1..6 /\ kind1 \in 1..6
  BY <1>1, <1>2 DEF EntryType
<1>4. /\ s[1] = n /\ s[n + 2] = tag
      /\ Sized(tag) => Len(s) = n + 3 + m /\ s[n + 3] = m
      /\ ~Sized(tag) => Len(s) = n + 2 + m
  BY <1>1 DEF EntryBytes
<1>5. /\ t[1] = k /\ t[k + 2] = kind1
      /\ Sized(kind1) => Len(t) = k + 3 + l /\ t[k + 3] = l
      /\ ~Sized(kind1) => Len(t) = k + 2 + l
  BY <1>2 DEF EntryBytes
<1>6. /\ ~Sized(tag) => m = IF tag = 6 THEN 0 ELSE 1
      /\ ~Sized(kind1) => l = IF kind1 = 6 THEN 0 ELSE 1
  BY <1>1, <1>2 DEF WellSized
<1>7. PICK p, q : p = Len(s) /\ q = Len(t)
  OBVIOUS
<1>8. p \in Nat /\ q \in Nat /\ p >= n + 2 /\ q >= k + 2
  BY <1>3, <1>4, <1>5, <1>7
<1>9. \A i \in 1..p : i <= q => s[i] = t[i]
  BY <1>7 DEF Agree
<1>10. n = k
  BY <1>3, <1>4, <1>5, <1>8, <1>9
<1>11. tag = kind1
  BY <1>3, <1>4, <1>5, <1>8, <1>9, <1>10
<1>12. CASE Sized(tag)
  <2>1. m = l
    <3>1. n + 3 <= p /\ n + 3 <= q
      BY <1>3, <1>4, <1>5, <1>7, <1>10, <1>11, <1>12
    <3>2. n + 3 \in 1..p
      BY <1>3, <1>8, <3>1
    <3>3. s[n + 3] = t[n + 3]
      BY <1>9, <3>1, <3>2
    <3> QED
      BY <1>4, <1>5, <1>10, <1>11, <1>12, <3>3
  <2> QED
    BY <1>4, <1>5, <1>10, <1>11, <1>12, <2>1
<1>13. CASE ~Sized(tag)
  <2>1. m = l
    BY <1>6, <1>11, <1>13
  <2> QED
    BY <1>4, <1>5, <1>10, <1>11, <1>13, <2>1
<1> QED
  BY <1>12, <1>13

\* The bytes written after each entry.
MapBytes(entries, f) ==
  /\ f \in [0..Len(entries) -> Seq(Byte)]
  /\ f[0] = <<Len(entries)>>
  /\ \A k \in 1..Len(entries) : f[k] = f[k - 1] \o EncodeEntry(entries[k])
  /\ \A k \in 0..Len(entries) : Extends(f[Len(entries)], f[k])
  /\ MapToBinary(entries) = f[Len(entries)]

IsMapBytes(entries, f) ==
  f = [k \in 0..Len(entries) |->
         IF k = 0 THEN <<Len(entries)>> ELSE f[k - 1] \o EncodeEntry(entries[k])]

\* The bytes of a map, entry by entry.
LEMMA MapHasBytes ==
  ASSUME NEW entries \in Seq(EntryType)
  PROVE  \E f : MapBytes(entries, f)
<1>1. PICK n : n = Len(entries)
  OBVIOUS
<1>2. n \in Nat /\ n \in Byte
  BY <1>1, Numbers
<1> DEFINE part == [k \in 1..n |-> EncodeEntry(entries[k])]
<1>3. part \in [1..n -> Seq(Byte)]
  <2> SUFFICES ASSUME NEW k \in 1..n PROVE EncodeEntry(entries[k]) \in Seq(Byte)
    OBVIOUS
  <2>1. entries[k] \in EntryType
    BY <1>1
  <2> QED
    BY <2>1, EntryHasBytes DEF EntryBytes
<1>4. \A k \in 1..n : part[k] = EncodeEntry(entries[k])
  OBVIOUS
<1> HIDE DEF part
<1>5. <<n>> \in Seq(Byte)
  BY <1>2
<1>6. \E f \in [0..n -> Seq(Byte)] : IsJoin(f, n, <<n>>, part)
  BY <1>2, <1>3, <1>5, JoinExists
<1>7. \A f : IsJoin(f, n, <<n>>, part) <=> IsMapBytes(entries, f)
  <2> SUFFICES ASSUME NEW f
               PROVE  IsJoin(f, n, <<n>>, part) <=> IsMapBytes(entries, f)
    OBVIOUS
  <2>1. \A k \in 0..n : (IF k = 0 THEN <<n>> ELSE f[k - 1] \o part[k])
                      = IF k = 0 THEN <<n>> ELSE f[k - 1] \o EncodeEntry(entries[k])
    <3> SUFFICES ASSUME NEW k \in 0..n, k # 0 PROVE part[k] = EncodeEntry(entries[k])
      OBVIOUS
    <3> QED
      BY <1>2, <1>4
  <2> QED
    BY <1>1, <2>1 DEF IsJoin, IsMapBytes
<1>8. MapToBinary(entries) = (CHOOSE f : IsMapBytes(entries, f))[n]
  BY <1>1 DEF MapToBinary, IsMapBytes
<1>9. PICK f : f = CHOOSE g : IsMapBytes(entries, g)
  OBVIOUS
<1>10. IsMapBytes(entries, f)
  BY <1>6, <1>7, <1>9
<1>11. IsJoin(f, n, <<n>>, part)
  BY <1>7, <1>10
<1>12. f \in [0..n -> Seq(Byte)]
  BY <1>2, <1>3, <1>5, <1>11, JoinType
<1>13. Joined(f, n, <<n>>, part)
  BY <1>2, <1>3, <1>11, <1>12, JoinSteps
<1>14. f[0] = <<n>> /\ \A k \in 1..n : f[k] = f[k - 1] \o EncodeEntry(entries[k])
  BY <1>4, <1>13 DEF Joined
<1>15. \A k \in 0..n : Extends(f[n], f[k])
  <2> SUFFICES ASSUME NEW k \in 0..n PROVE Extends(f[n], f[k])
    OBVIOUS
  <2> QED
    BY <1>2, <1>3, <1>11, <1>12, JoinExtends
<1>16. MapBytes(entries, f)
  BY <1>1, <1>8, <1>9, <1>12, <1>14, <1>15 DEF MapBytes
<1> QED
  BY <1>16

AllWellSized(entries) == \A k \in DOMAIN entries : WellSized(entries[k])

\* What agrees with a sequence agrees with its beginning, and its later part
\* with its later part.
LEMMA AgreeParts ==
  ASSUME NEW S, NEW x \in Seq(S), NEW y \in Seq(S), Agree(x, y),
         NEW a \in Seq(S), NEW s \in Seq(S), NEW b \in Seq(S), NEW t \in Seq(S),
         Extends(x, a \o s), Extends(y, b \o t), Len(a) = Len(b)
  PROVE  Agree(s, t)
<1>1. PICK n : n = Len(a)
  OBVIOUS
<1>2. PICK p, q : p = a \o s /\ q = b \o t
  OBVIOUS
<1>3. n \in Nat /\ Len(p) = n + Len(s) /\ Len(q) = n + Len(t)
  <2>1. Len(p) = Len(a) + Len(s) /\ Len(q) = Len(b) + Len(t)
    BY <1>2, LenOfJoin
  <2> QED
    BY <1>1, <2>1
<1>4. \A i \in 1..Len(s) : p[n + i] = s[i]
  BY <1>1, <1>2
<1>5. \A i \in 1..Len(t) : q[n + i] = t[i]
  BY <1>1, <1>2
<1>6. SUFFICES ASSUME NEW i \in 1..Len(s), i <= Len(t) PROVE s[i] = t[i]
  BY DEF Agree
<1>7. PICK k : k = n + i
  OBVIOUS
<1>8. /\ k \in 1..Len(p) /\ k \in 1..Len(q)
      /\ p[k] = s[i] /\ q[k] = t[i]
  <2>1. Len(s) \in Nat /\ Len(t) \in Nat /\ i \in Nat /\ i >= 1 /\ i <= Len(s)
    OBVIOUS
  <2>2. k \in 1..Len(p) /\ k \in 1..Len(q) /\ i \in 1..Len(t)
    BY <1>3, <1>6, <1>7, <2>1
  <2> QED
    BY <1>4, <1>5, <1>7, <2>2
<1>9. k \in 1..Len(x) /\ k <= Len(y) /\ x[k] = p[k] /\ y[k] = q[k]
  <2>1. Len(p) <= Len(x) /\ Len(q) <= Len(y) /\ Len(x) \in Nat /\ Len(y) \in Nat
    BY <1>2 DEF Extends
  <2>2. p \in Seq(S) /\ q \in Seq(S)
    BY <1>2
  <2>3. (\A j \in 1..Len(p) : x[j] = p[j]) /\ \A j \in 1..Len(q) : y[j] = q[j]
    BY <1>2 DEF Extends
  <2> QED
    BY <1>8, <2>1, <2>2, <2>3
<1>10. x[k] = y[k]
  BY <1>9 DEF Agree
<1> QED
  BY <1>8, <1>9, <1>10

\* No map's binary form begins like another's and goes on.
LEMMA MapEnds ==
  ASSUME NEW d \in Seq(EntryType), NEW e \in Seq(EntryType), AllWellSized(d), AllWellSized(e),
         Agree(MapToBinary(d), MapToBinary(e))
  PROVE  Len(MapToBinary(d)) = Len(MapToBinary(e))
<1>1. PICK f : MapBytes(d, f)
  BY MapHasBytes
<1>2. PICK g : MapBytes(e, g)
  BY MapHasBytes
<1>3. PICK n, m : n = Len(d) /\ m = Len(e)
  OBVIOUS
<1>4. n \in Nat /\ m \in Nat
  BY <1>3
<1>5. PICK x, y : x = f[n] /\ y = g[m]
  OBVIOUS
<1>6. x = MapToBinary(d) /\ y = MapToBinary(e) /\ Agree(x, y)
  BY <1>1, <1>2, <1>3, <1>5 DEF MapBytes
<1>7. /\ f \in [0..n -> Seq(Byte)] /\ f[0] = <<n>>
      /\ \A k \in 1..n : f[k] = f[k - 1] \o EncodeEntry(d[k])
      /\ \A k \in 0..n : Extends(x, f[k])
  BY <1>1, <1>3, <1>5 DEF MapBytes
<1>8. /\ g \in [0..m -> Seq(Byte)] /\ g[0] = <<m>>
      /\ \A k \in 1..m : g[k] = g[k - 1] \o EncodeEntry(e[k])
      /\ \A k \in 0..m : Extends(y, g[k])
  BY <1>2, <1>3, <1>5 DEF MapBytes
<1>9. x \in Seq(Byte) /\ y \in Seq(Byte)
  BY <1>4, <1>5, <1>7, <1>8
<1>10. n = m
  <2>1. Extends(x, <<n>>) /\ Extends(y, <<m>>)
    <3>1. 0 \in 0..n /\ 0 \in 0..m
      BY <1>4
    <3>2. Extends(x, f[0]) /\ Extends(y, g[0])
      BY <1>7, <1>8, <3>1
    <3> QED
      BY <1>7, <1>8, <3>2
  <2>2. Len(<<n>>) = 1 /\ Len(<<m>>) = 1 /\ <<n>>[1] = n /\ <<m>>[1] = m /\ 1 \in 1..1
    OBVIOUS
  <2>3. Len(x) >= 1 /\ x[1] = n /\ Len(y) >= 1 /\ y[1] = m
    BY <2>1, <2>2 DEF Extends
  <2>4. Len(x) \in Nat /\ Len(y) \in Nat
    BY <1>9
  <2>5. 1 \in 1..Len(x) /\ 1 <= Len(y)
    BY <2>3, <2>4
  <2> QED
    BY <1>6, <2>3, <2>5 DEF Agree
<1> DEFINE M == {k \in Nat : k <= n => Len(f[k]) = Len(g[k])}
<1>11. 0 \in M
  BY <1>7, <1>8, <1>10
<1>12. \A k \in Nat : k \in M => k + 1 \in M
  <2> SUFFICES ASSUME NEW k \in Nat, Len(f[k]) = Len(g[k]), k + 1 <= n
               PROVE  Len(f[k + 1]) = Len(g[k + 1])
    BY <1>4
  <2>1. PICK i : i = k + 1
    OBVIOUS
  <2>2. i \in 1..n /\ i \in 1..m /\ i - 1 = k /\ k \in 0..n /\ k \in 0..m /\ i \in 0..n /\ i \in 0..m
    BY <1>4, <1>10, <2>1
  <2>3. PICK a, b, s, t : a = f[k] /\ b = g[k] /\ s = EncodeEntry(d[i]) /\ t = EncodeEntry(e[i])
    OBVIOUS
  <2>4. d[i] \in EntryType /\ e[i] \in EntryType /\ WellSized(d[i]) /\ WellSized(e[i])
    BY <1>3, <2>2 DEF AllWellSized
  <2>5. EntryBytes(d[i], s) /\ EntryBytes(e[i], t)
    BY <2>3, <2>4, EntryHasBytes
  <2>6. s \in Seq(Byte) /\ t \in Seq(Byte)
    BY <2>5 DEF EntryBytes
  <2>7. a \in Seq(Byte) /\ b \in Seq(Byte) /\ Len(a) = Len(b)
    BY <1>7, <1>8, <2>2, <2>3
  <2>8. f[i] = a \o s /\ g[i] = b \o t
    BY <1>7, <1>8, <2>2, <2>3
  <2>9. Extends(x, a \o s) /\ Extends(y, b \o t)
    BY <1>7, <1>8, <2>2, <2>8
  <2>10. Agree(s, t)
    BY <1>6, <1>9, <2>6, <2>7, <2>9, AgreeParts
  <2>11. Len(s) = Len(t)
    BY <2>4, <2>5, <2>10, EntryEnds
  <2>12. Len(a \o s) = Len(a) + Len(s) /\ Len(b \o t) = Len(b) + Len(t)
    BY <2>6, <2>7, LenOfJoin
  <2> QED
    BY <2>1, <2>7, <2>8, <2>11, <2>12
<1> HIDE DEF M
<1>13. n \in M
  BY <1>4, <1>11, <1>12, Induction
<1>14. Len(f[n]) = Len(g[n])
  BY <1>4, <1>13 DEF M
<1>15. g[n] = y
  BY <1>5, <1>10
<1> QED
  BY <1>5, <1>6, <1>14, <1>15

-----------------------------------------------------------------------------
(* Reading a map. *)

\* What a turn of the decoder reads is the binary form of the entry it adds.
EntryRead(b, state, new, e) ==
  /\ e \in EntryType /\ WellSized(e)
  /\ state.ok /\ new.entries = Append(state.entries, e)
  /\ new = [ok |-> TRUE, at |-> new.at, entries |-> new.entries]
  /\ new.at \in Nat /\ state.at < new.at /\ new.at <= Len(b) + 1
  /\ EncodeEntry(e) = SubSeq(b, state.at, new.at - 1)

\* Only the six tags have payloads.
LEMMA PayloadTag == \A tag, payload : ValidPayload(tag, payload) => tag \in 1..6
BY DEF ValidPayload

\* A turn of the decoder that succeeds has read an entry whose bytes these are.
LEMMA DecodesEntry ==
  ASSUME NEW b \in Seq(Byte), NEW state, state.at \in Nat, state.at >= 1,
         DecodeEntry(b, state).ok
  PROVE  \E e : EntryRead(b, state, DecodeEntry(b, state), e)
<1> DEFINE i == state.at
           key == Bytes(b, i + 1, b[i])
           j == i + 1 + b[i]
           start == IF Sized(b[j]) THEN j + 2 ELSE j + 1
           size == IF Sized(b[j]) THEN b[j + 1] ELSE IF b[j] \in {1, 2} THEN 1 ELSE 0
           payload == Bytes(b, start, size)
           n == Len(state.entries)
           fits == /\ state.ok /\ CanRead(b, i, 1) /\ CanRead(b, i + 1, b[i]) /\ IsUtf8(key)
                   /\ n > 0 => KeyLess(state.entries[n].key, key)
                   /\ CanRead(b, j, 1)
                   /\ Sized(b[j]) => CanRead(b, j + 1, 1)
                   /\ CanRead(b, start, size)
                   /\ ValidPayload(b[j], payload)
           next == [ok |-> TRUE, at |-> start + size,
                    entries |-> Append(state.entries, Entry(key, b[j], payload))]
           new == DecodeEntry(b, state)
<1>1. new = IF fits THEN next ELSE Broken
  BY DEF DecodeEntry
<1>2. fits /\ new = next
  <2> HIDE DEF fits, next
  <2>1. ~fits => new = Broken
    BY <1>1
  <2>2. ~Broken.ok
    BY DEF Broken
  <2>3. new.ok
    OBVIOUS
  <2> QED
    BY <1>1, <2>1, <2>2, <2>3
<1>3. /\ state.ok /\ CanRead(b, i, 1) /\ CanRead(b, i + 1, b[i]) /\ CanRead(b, j, 1)
      /\ Sized(b[j]) => CanRead(b, j + 1, 1)
      /\ CanRead(b, start, size) /\ ValidPayload(b[j], payload)
  BY <1>2
<1>4. /\ new.at = start + size /\ new.entries = Append(state.entries, Entry(key, b[j], payload))
      /\ new = [ok |-> TRUE, at |-> new.at, entries |-> new.entries]
  BY <1>2
<1>5. PICK at, k, p, len : at = i /\ k = b[i] /\ p = j /\ len = Len(b)
  OBVIOUS
<1>6. at \in Nat /\ at >= 1 /\ at <= len /\ len \in Nat /\ at \in 1..Len(b)
  <2>1. at + 1 - 1 <= len
    BY <1>3, <1>5 DEF CanRead
  <2> QED
    BY <1>5, <2>1
<1>7. k \in Byte /\ k \in Nat
  <2>1. b[at] \in Byte
    BY <1>6
  <2> QED
    BY <1>5, <2>1, Numbers
<1>8. p = at + 1 + k /\ p \in Nat /\ p <= len /\ p \in 1..Len(b)
  <2>1. p + 1 - 1 <= len
    BY <1>3, <1>5 DEF CanRead
  <2>2. p = at + 1 + k
    BY <1>5
  <2>3. p \in Nat /\ p >= 1 /\ p <= len
    BY <1>6, <1>7, <2>1, <2>2
  <2> QED
    BY <1>5, <2>2, <2>3
<1>9. PICK tag, first, more, q : tag = b[p] /\ first = start /\ more = size /\ q = payload
  OBVIOUS
<1>10. tag \in 1..6 /\ tag \in Byte
  <2>1. ValidPayload(tag, q)
    BY <1>3, <1>5, <1>9
  <2> QED
    BY <2>1, PayloadTag, Numbers
<1>11. Sized(tag) => first = p + 2 /\ more = b[p + 1] /\ p + 1 <= len
  BY <1>3, <1>5, <1>8, <1>9 DEF CanRead
<1>12. ~Sized(tag) => first = p + 1 /\ more = IF tag = 6 THEN 0 ELSE 1
  BY <1>5, <1>9, <1>10 DEF Sized
<1>13. Sized(tag) => p + 1 \in 1..Len(b) /\ b[p + 1] \in Byte
  BY <1>5, <1>8, <1>11
<1>14. more \in Nat
  BY <1>11, <1>12, <1>13, Numbers
<1>15. first \in Nat /\ p < first /\ first + more - 1 <= len
  <2>1. first + more - 1 <= len
    BY <1>3, <1>5, <1>9 DEF CanRead
  <2> QED
    BY <1>8, <1>11, <1>12, <2>1
<1>16. PICK name : name = key
  OBVIOUS
<1>17. name = SubSeq(b, at + 1, p - 1) /\ name \in Seq(Byte) /\ Len(name) = k
  <2>1. name = SubSeq(b, at + 1, at + 1 + k - 1)
    BY <1>5, <1>16 DEF Bytes
  <2>2. at + 1 + k - 1 = p - 1
    BY <1>6, <1>7, <1>8
  <2>3. name = SubSeq(b, at + 1, p - 1)
    BY <2>1, <2>2
  <2> QED
    BY <1>6, <1>7, <1>8, <2>3
<1>18. q = SubSeq(b, first, first + more - 1) /\ q \in Seq(Byte) /\ Len(q) = more
  <2>1. q = SubSeq(b, first, first + more - 1)
    BY <1>9 DEF Bytes
  <2> QED
    BY <1>5, <1>8, <1>14, <1>15, <2>1
<1>19. PICK e : e = Entry(name, tag, q)
  OBVIOUS
<1>20. e.key = name /\ e.tag = tag /\ e.payload = q /\ e \in EntryType
  BY <1>10, <1>17, <1>18, <1>19 DEF Entry, EntryType
<1>21. WellSized(e)
  BY <1>12, <1>18, <1>20 DEF WellSized
<1>22. new.at = first + more /\ new.entries = Append(state.entries, e)
  BY <1>4, <1>5, <1>9, <1>16, <1>19
<1> HIDE DEF new, next, fits, payload, size, start, key, j, n
<1>23. EncodeEntry(e) = SubSeq(b, at, first + more - 1)
  <2>1. <<k>> = SubSeq(b, at, at) /\ <<tag>> = SubSeq(b, p, p)
    BY <1>5, <1>6, <1>8, <1>9, PartOne
  <2>2. <<k>> \o name = SubSeq(b, at, p - 1)
    <3>1. SubSeq(b, at, at) \o SubSeq(b, at + 1, p - 1) = SubSeq(b, at, p - 1)
      <4>1. p - 1 \in Int /\ 1 <= at /\ at <= at + 1 /\ at <= p - 1 /\ p - 1 <= Len(b)
        BY <1>5, <1>6, <1>7, <1>8
      <4> QED
        BY <1>6, <4>1, PartsJoin
    <3> QED
      BY <1>17, <2>1, <3>1
  <2>3. <<k>> \o name \o <<tag>> = SubSeq(b, at, p)
    <3>1. SubSeq(b, at, p - 1) \o SubSeq(b, p - 1 + 1, p) = SubSeq(b, at, p)
      <4>1. p - 1 \in Int /\ p \in Int /\ 1 <= at /\ at <= p - 1 + 1 /\ p - 1 <= p /\ p <= Len(b)
        BY <1>5, <1>6, <1>7, <1>8
      <4> QED
        BY <1>6, <4>1, PartsJoin
    <3>2. p - 1 + 1 = p
      BY <1>8
    <3> QED
      BY <2>1, <2>2, <3>1, <3>2
  <2>4. PICK sizes : sizes = IF Sized(tag) THEN <<Len(q)>> ELSE << >>
    OBVIOUS
  <2>5. SubSeq(b, at, p) \o sizes = SubSeq(b, at, first - 1)
    <3>1. CASE Sized(tag)
      <4>1. sizes = <<b[p + 1]>> /\ p + 1 \in 1..Len(b)
        BY <1>11, <1>13, <1>18, <2>4, <3>1
      <4>2. sizes = SubSeq(b, p + 1, p + 1)
        BY <4>1, PartOne
      <4>3. p + 1 \in Int /\ p \in Int /\ 1 <= at /\ at <= p + 1 /\ p <= p + 1 /\ p + 1 <= Len(b)
        BY <1>6, <1>7, <1>8, <4>1
      <4>4. SubSeq(b, at, p) \o SubSeq(b, p + 1, p + 1) = SubSeq(b, at, p + 1)
        BY <1>6, <4>3, PartsJoin
      <4>5. first - 1 = p + 1
        BY <1>8, <1>11, <3>1
      <4> QED
        BY <4>2, <4>4, <4>5
    <3>2. CASE ~Sized(tag)
      <4>1. sizes = << >> /\ first - 1 = p
        BY <1>8, <1>12, <2>4, <3>2
      <4>2. SubSeq(b, at, p) \in Seq(Byte)
        BY <1>5, <1>6, <1>8
      <4> QED
        BY <4>1, <4>2
    <3> QED
      BY <3>1, <3>2
  <2>6. SubSeq(b, at, first - 1) \o q = SubSeq(b, at, first + more - 1)
    <3>1. PICK last, end : last = first - 1 /\ end = first + more - 1
      OBVIOUS
    <3>2. /\ last \in Int /\ end \in Int /\ 1 <= at /\ at <= last + 1 /\ last <= end
          /\ end <= Len(b) /\ last + 1 = first
      BY <1>5, <1>6, <1>7, <1>8, <1>14, <1>15, <3>1
    <3>3. SubSeq(b, at, last) \o SubSeq(b, last + 1, end) = SubSeq(b, at, end)
      BY <1>6, <3>2, PartsJoin
    <3> QED
      BY <1>18, <3>1, <3>2, <3>3
  <2>7. EncodeEntry(e) = <<k>> \o name \o <<tag>> \o sizes \o q
    BY <1>17, <1>20, <2>4 DEF EncodeEntry
  <2> QED
    BY <2>3, <2>5, <2>6, <2>7
<1>24. EntryRead(b, state, new, e)
  <2>1. new.at \in Nat /\ at < new.at /\ new.at <= len + 1 /\ new.at - 1 = first + more - 1
    BY <1>6, <1>7, <1>8, <1>14, <1>15, <1>22
  <2> QED
    BY <1>3, <1>4, <1>5, <1>20, <1>21, <1>22, <1>23, <2>1 DEF EntryRead
<1> QED
  BY <1>24 DEF new

\* After an error every further turn fails.
LEMMA DecodeFails ==
  ASSUME NEW b, NEW state, ~DecodeEntry(b, state).ok
  PROVE  DecodeEntry(b, state) = Broken
BY DEF DecodeEntry

States ==
  {Broken} \union {[ok |-> TRUE, at |-> i, entries |-> entries] :
                     i \in Nat \ {0}, entries \in Seq(EntryType)}

\* A turn of the decoder ends in a state.
LEMMA DecodesToState ==
  ASSUME NEW b \in Seq(Byte), NEW state \in States
  PROVE  DecodeEntry(b, state) \in States
<1>1. PICK new : new = DecodeEntry(b, state)
  OBVIOUS
<1>2. CASE ~new.ok
  BY <1>1, <1>2, DecodeFails DEF States
<1>3. CASE new.ok
  <2>1. CASE state = Broken
    <3>1. ~state.ok
      BY <2>1 DEF Broken
    <3>2. new = Broken
      BY <1>1, <3>1 DEF DecodeEntry
    <3> QED
      BY <1>1, <3>2 DEF States
  <2>2. CASE state # Broken
    <3>1. PICK i \in Nat \ {0}, entries \in Seq(EntryType) :
            state = [ok |-> TRUE, at |-> i, entries |-> entries]
      BY <2>2 DEF States
    <3>2. state.at \in Nat /\ state.at >= 1 /\ state.entries \in Seq(EntryType)
      BY <3>1
    <3>3. PICK e : EntryRead(b, state, new, e)
      BY <1>1, <1>3, <3>2, DecodesEntry
    <3>4. e \in EntryType /\ new.entries = Append(state.entries, e)
      BY <3>3 DEF EntryRead
    <3>5. new.entries \in Seq(EntryType)
      BY <3>2, <3>4
    <3>6. new.at \in Nat \ {0}
      BY <3>2, <3>3 DEF EntryRead
    <3>7. new = [ok |-> TRUE, at |-> new.at, entries |-> new.entries]
      BY <3>3 DEF EntryRead
    <3>8. new \in States
      BY <3>5, <3>6, <3>7 DEF States
    <3> QED
      BY <1>1, <3>8
  <2> QED
    BY <2>1, <2>2
<1> QED
  BY <1>2, <1>3

Started(from) == [ok |-> TRUE, at |-> from + 1, entries |-> << >>]
IsTurns(b, from, f) ==
  f = [k \in 0..b[from] |-> IF k = 0 THEN Started(from) ELSE DecodeEntry(b, f[k - 1])]

\* The states of the decoder of the bytes from a position.
Turns(b, from, f) ==
  /\ f[0] = Started(from)
  /\ \A k \in 1..b[from] : f[k] = DecodeEntry(b, f[k - 1])
  /\ Decoded(b, from) = f[b[from]]

\* The states of the decoder, turn by turn.
LEMMA DecoderTurns ==
  ASSUME NEW b \in Seq(Byte), NEW from \in 1..Len(b)
  PROVE  \E f : Turns(b, from, f)
<1>1. PICK n : n = b[from]
  OBVIOUS
<1>2. n \in Nat
  <2>1. b[from] \in Byte
    OBVIOUS
  <2> QED
    BY <1>1, <2>1, Numbers
<1> DEFINE step == [p \in States \X (1..n) |-> DecodeEntry(b, p[1])]
<1>3. step \in [States \X (1..n) -> States]
  BY DecodesToState
<1>4. \A s \in States, k \in 1..n : step[<<s, k>>] = DecodeEntry(b, s)
  OBVIOUS
<1> HIDE DEF step
<1>5. Started(from) \in States
  <2>1. PICK s : s = Started(from)
    OBVIOUS
  <2>2. s.at \in Nat \ {0} /\ s.entries \in Seq(EntryType)
    BY <2>1 DEF Started
  <2>3. s = [ok |-> TRUE, at |-> s.at, entries |-> s.entries]
    BY <2>1 DEF Started
  <2>4. s \in States
    BY <2>2, <2>3 DEF States
  <2> QED
    BY <2>1, <2>4
<1>6. \E f \in [0..n -> States] : IsRecursive(f, n, Started(from), step)
  <2>1. PICK init : init = Started(from)
    OBVIOUS
  <2>2. init \in States
    BY <1>5, <2>1
  <2>3. \E f \in [0..n -> States] : IsRecursive(f, n, init, step)
    BY <1>2, <1>3, <2>2, RecursionExists
  <2> QED
    BY <2>1, <2>3
<1> PICK f \in [0..n -> States] : IsRecursive(f, n, Started(from), step)
  BY <1>6
<1>7. \A k \in 0..n : f[k] = IF k = 0 THEN Started(from) ELSE DecodeEntry(b, f[k - 1])
  <2> SUFFICES ASSUME NEW k \in 0..n
               PROVE  f[k] = IF k = 0 THEN Started(from) ELSE DecodeEntry(b, f[k - 1])
    OBVIOUS
  <2>1. f[k] = IF k = 0 THEN Started(from) ELSE step[<<f[k - 1], k>>]
    BY DEF IsRecursive
  <2>2. CASE k = 0
    BY <2>1, <2>2
  <2>3. CASE k # 0
    <3>1. k \in 1..n /\ k - 1 \in 0..n
      BY <1>2, <2>3
    <3>2. f[k - 1] \in States
      BY <3>1
    <3>3. step[<<f[k - 1], k>>] = DecodeEntry(b, f[k - 1])
      BY <1>4, <3>1, <3>2
    <3> QED
      BY <2>1, <2>3, <3>3
  <2> QED
    BY <2>2, <2>3
<1>8. f = [k \in 0..n |-> f[k]]
  OBVIOUS
<1>9. IsTurns(b, from, f)
  BY <1>1, <1>7, <1>8 DEF IsTurns
<1>10. PICK g : g = CHOOSE h : IsTurns(b, from, h)
  OBVIOUS
<1>11. IsTurns(b, from, g)
  BY <1>9, <1>10
<1>12. Decoded(b, from) = g[b[from]]
  BY <1>10 DEF Decoded, IsTurns, Started
<1>13. \A k \in 0..n : g[k] = IF k = 0 THEN Started(from) ELSE DecodeEntry(b, g[k - 1])
  BY <1>1, <1>11 DEF IsTurns
<1>14. 0 \in 0..n /\ \A k \in 1..n : k \in 0..n /\ k # 0
  BY <1>2
<1>15. g[0] = Started(from) /\ \A k \in 1..n : g[k] = DecodeEntry(b, g[k - 1])
  BY <1>13, <1>14
<1>16. Turns(b, from, g)
  BY <1>1, <1>12, <1>15 DEF Turns
<1> QED
  BY <1>16

\* What has been read after k turns is what is written for k entries.
ReadSoFar(b, from, state, k) ==
  state.ok =>
    /\ state.at \in Nat /\ from < state.at /\ state.at <= Len(b) + 1
    /\ state.entries \in Seq(EntryType) /\ Len(state.entries) = k
    /\ AllWellSized(state.entries)
    /\ \A entries, g :
         MapBytes(entries, g) /\ Len(entries) = b[from] /\ Extends(entries, state.entries) =>
           g[k] = SubSeq(b, from, state.at - 1)

\* Before the first turn the decoder has read the number of entries,
LEMMA ReadsNothing ==
  ASSUME NEW b \in Seq(Byte), NEW from \in 1..Len(b)
  PROVE  ReadSoFar(b, from, Started(from), 0)
<1>1. PICK s : s = Started(from)
  OBVIOUS
<1>2. s.at = from + 1 /\ s.entries = << >>
  BY <1>1 DEF Started
<1>3. s.at \in Nat /\ from < s.at /\ s.at <= Len(b) + 1
  BY <1>2
<1>4. s.entries \in Seq(EntryType) /\ Len(s.entries) = 0 /\ AllWellSized(s.entries)
  BY <1>2 DEF AllWellSized
<1>5. ASSUME NEW entries, NEW g, MapBytes(entries, g), Len(entries) = b[from]
      PROVE  g[0] = SubSeq(b, from, s.at - 1)
  <2>1. s.at - 1 = from
    BY <1>2
  <2>2. SubSeq(b, from, from) = <<b[from]>>
    BY PartOne
  <2>3. g[0] = <<b[from]>>
    BY <1>5 DEF MapBytes
  <2> QED
    BY <2>1, <2>2, <2>3
<1>6. ReadSoFar(b, from, s, 0)
  BY <1>3, <1>4, <1>5 DEF ReadSoFar
<1> QED
  BY <1>1, <1>6

\* and each turn adds one entry and its bytes to what it has read.
LEMMA ReadsOneMore ==
  ASSUME NEW b \in Seq(Byte), NEW from \in 1..Len(b), NEW k \in Nat, k + 1 <= b[from],
         NEW state, ReadSoFar(b, from, state, k)
  PROVE  ReadSoFar(b, from, DecodeEntry(b, state), k + 1)
<1>1. PICK new : new = DecodeEntry(b, state)
  OBVIOUS
<1>2. SUFFICES ASSUME new.ok PROVE ReadSoFar(b, from, new, k + 1)
  BY <1>1 DEF ReadSoFar
<1>3. state.ok
  BY <1>1, <1>2 DEF DecodeEntry, Broken
<1>4. PICK at, read : at = state.at /\ read = state.entries
  OBVIOUS
<1>5. /\ at \in Nat /\ from < at /\ at <= Len(b) + 1
      /\ read \in Seq(EntryType) /\ Len(read) = k /\ AllWellSized(read)
  BY <1>3, <1>4 DEF ReadSoFar
<1>6. \A entries, g :
        MapBytes(entries, g) /\ Len(entries) = b[from] /\ Extends(entries, read) =>
          g[k] = SubSeq(b, from, at - 1)
  BY <1>3, <1>4 DEF ReadSoFar
<1>7. PICK e : EntryRead(b, state, new, e)
  <2>1. state.at \in Nat /\ state.at >= 1
    BY <1>4, <1>5
  <2> QED
    BY <1>1, <1>2, <2>1, DecodesEntry
<1>8. PICK end, longer : end = new.at /\ longer = new.entries
  OBVIOUS
<1>9. /\ e \in EntryType /\ WellSized(e) /\ longer = Append(read, e)
      /\ end \in Nat /\ at < end /\ end <= Len(b) + 1
      /\ EncodeEntry(e) = SubSeq(b, at, end - 1)
  BY <1>4, <1>7, <1>8 DEF EntryRead
<1>10. longer \in Seq(EntryType) /\ Len(longer) = k + 1
  BY <1>5, <1>9
<1>11. (\A i \in 1..k : longer[i] = read[i]) /\ longer[k + 1] = e
  <2>1. read \in Seq(EntryType) /\ Len(read) = k /\ longer = Append(read, e)
    BY <1>5, <1>9
  <2> QED
    BY <2>1
<1>12. AllWellSized(longer)
  <2> SUFFICES ASSUME NEW i \in 1..k + 1 PROVE WellSized(longer[i])
    BY <1>10 DEF AllWellSized
  <2>1. CASE i = k + 1
    <3>1. longer[i] = e
      BY <1>11, <2>1
    <3> QED
      BY <1>9, <3>1
  <2>2. CASE i # k + 1
    <3>1. i \in 1..k
      BY <2>2
    <3>2. i \in DOMAIN read
      BY <1>5, <3>1
    <3> QED
      BY <1>5, <1>11, <3>1, <3>2 DEF AllWellSized
  <2> QED
    BY <2>1, <2>2
<1>13. ASSUME NEW entries, NEW g, MapBytes(entries, g), Len(entries) = b[from],
              Extends(entries, longer)
       PROVE  g[k + 1] = SubSeq(b, from, end - 1)
  <2>1. Extends(entries, read)
    <3>1. k + 1 <= Len(entries) /\ \A i \in 1..k + 1 : entries[i] = longer[i]
      BY <1>10, <1>13 DEF Extends
    <3>2. b[from] \in Nat
      <4>1. b[from] \in Byte
        OBVIOUS
      <4> QED
        BY <4>1, Numbers
    <3>3. k <= Len(entries)
      BY <1>13, <3>1, <3>2
    <3>4. \A i \in 1..k : i \in 1..k + 1
      OBVIOUS
    <3> QED
      BY <1>5, <1>11, <3>1, <3>3, <3>4 DEF Extends
  <2>2. entries[k + 1] = e
    <3>1. k + 1 \in 1..Len(longer)
      BY <1>10
    <3> QED
      BY <1>11, <1>13, <3>1 DEF Extends
  <2>3. g[k] = SubSeq(b, from, at - 1)
    BY <1>6, <1>13, <2>1
  <2>4. PICK i : i = k + 1
    OBVIOUS
  <2>5. i \in 1..Len(entries) /\ i - 1 = k
    <3>1. b[from] \in Byte
      OBVIOUS
    <3>2. b[from] \in Nat
      BY <3>1, Numbers
    <3> QED
      BY <1>13, <2>4, <3>2
  <2>6. g[i] = g[i - 1] \o EncodeEntry(entries[i])
    BY <1>13, <2>5 DEF MapBytes
  <2>7. g[i] = SubSeq(b, from, at - 1) \o SubSeq(b, at, end - 1)
    BY <1>9, <2>2, <2>3, <2>4, <2>5, <2>6
  <2>8. PICK p, q : p = at - 1 /\ q = end - 1
    OBVIOUS
  <2>9. /\ p \in Int /\ q \in Int /\ 1 <= from /\ from \in Int /\ from <= p + 1 /\ p <= q
        /\ q <= Len(b) /\ p + 1 = at
    BY <1>5, <1>9, <2>8
  <2>10. SubSeq(b, from, p) \o SubSeq(b, p + 1, q) = SubSeq(b, from, q)
    BY <2>9, PartsJoin
  <2> QED
    BY <2>4, <2>7, <2>8, <2>9, <2>10
<1>14. from < end
  BY <1>5, <1>9
<1> QED
  BY <1>8, <1>9, <1>10, <1>12, <1>13, <1>14 DEF ReadSoFar

\* What the decoder accepts is what the encoder writes for what was read.
LEMMA MapReads ==
  ASSUME NEW b \in Seq(Byte), NEW from \in 1..Len(b), MapFromBinary(b, from).ok
  PROVE  LET entries == MapFromBinary(b, from).entries
         IN  /\ entries \in Seq(EntryType) /\ AllWellSized(entries)
             /\ MapToBinary(entries) = SubSeq(b, from, Len(b))
<1>1. PICK last : last = Decoded(b, from)
  OBVIOUS
<1>2. MapFromBinary(b, from) = last /\ last.ok /\ last.at = Len(b) + 1
  BY <1>1 DEF MapFromBinary, Broken
<1>3. PICK f : Turns(b, from, f)
  BY DecoderTurns
<1>4. PICK n : n = b[from]
  OBVIOUS
<1>5. n \in Nat
  <2>1. b[from] \in Byte
    OBVIOUS
  <2> QED
    BY <1>4, <2>1, Numbers
<1>6. /\ f[0] = Started(from) /\ last = f[n]
      /\ \A k \in 1..n : f[k] = DecodeEntry(b, f[k - 1])
  BY <1>1, <1>3, <1>4 DEF Turns
<1> DEFINE M == {k \in Nat : k <= n => ReadSoFar(b, from, f[k], k)}
<1>7. 0 \in M
  BY <1>6, ReadsNothing
<1>8. \A k \in Nat : k \in M => k + 1 \in M
  <2> SUFFICES ASSUME NEW k \in Nat, k \in M, k + 1 <= n
               PROVE  ReadSoFar(b, from, f[k + 1], k + 1)
    OBVIOUS
  <2>1. ReadSoFar(b, from, f[k], k)
    BY <1>5
  <2>2. k + 1 \in 1..n /\ (k + 1) - 1 = k
    BY <1>5
  <2>3. f[k + 1] = DecodeEntry(b, f[k])
    BY <1>6, <2>2
  <2>4. ReadSoFar(b, from, DecodeEntry(b, f[k]), k + 1)
    BY <1>4, <2>1, ReadsOneMore
  <2> QED
    BY <2>3, <2>4
<1> HIDE DEF M
<1>9. n \in M
  BY <1>5, <1>7, <1>8, Induction
<1>10. ReadSoFar(b, from, last, n)
  BY <1>5, <1>6, <1>9 DEF M
<1>11. PICK entries : entries = last.entries
  OBVIOUS
<1>12. entries \in Seq(EntryType) /\ Len(entries) = n /\ AllWellSized(entries)
  BY <1>2, <1>10, <1>11 DEF ReadSoFar
<1>13. PICK g : MapBytes(entries, g)
  BY <1>12, MapHasBytes
<1>14. Extends(entries, entries)
  BY <1>12 DEF Extends
<1>15. g[n] = SubSeq(b, from, last.at - 1)
  BY <1>2, <1>4, <1>10, <1>11, <1>12, <1>13, <1>14 DEF ReadSoFar
<1>16. last.at - 1 = Len(b)
  BY <1>2
<1>17. MapToBinary(entries) = g[n]
  BY <1>12, <1>13 DEF MapBytes
<1> QED
  BY <1>2, <1>11, <1>12, <1>15, <1>16, <1>17

-----------------------------------------------------------------------------
(* Snapshots. *)

IsSums(b, f) == f = [i \in 0..Len(b) |-> IF i = 0 THEN 1 ELSE (2 * f[i - 1] + b[i]) % 7]

\* A checksum is a byte, so what to_binary writes is bytes.
LEMMA ChecksumType ==
  ASSUME NEW b \in Seq(Byte)
  PROVE  Checksum(b) \in Byte
<1>1. PICK n : n = Len(b)
  OBVIOUS
<1>2. n \in Nat /\ \A i \in 1..n : b[i] \in Nat
  BY <1>1 DEF Byte
<1> DEFINE step == [p \in Nat \X (1..n) |-> (2 * p[1] + b[p[2]]) % 7]
<1>3. \A x \in Nat, i \in 1..n : (2 * x + b[i]) % 7 \in Nat
  BY <1>2
<1>4. step \in [Nat \X (1..n) -> Nat]
  BY <1>3
<1>5. \A x \in Nat, i \in 1..n : step[<<x, i>>] = (2 * x + b[i]) % 7
  OBVIOUS
<1> HIDE DEF step
<1>6. PICK f \in [0..n -> Nat] : IsRecursive(f, n, 1, step)
  BY <1>2, <1>4, RecursionExists
<1>7. \A i \in 0..n : f[i] = IF i = 0 THEN 1 ELSE (2 * f[i - 1] + b[i]) % 7
  <2> SUFFICES ASSUME NEW i \in 0..n
               PROVE  f[i] = IF i = 0 THEN 1 ELSE (2 * f[i - 1] + b[i]) % 7
    OBVIOUS
  <2>1. f[i] = IF i = 0 THEN 1 ELSE step[<<f[i - 1], i>>]
    BY <1>6 DEF IsRecursive
  <2>2. CASE i = 0
    BY <2>1, <2>2
  <2>3. CASE i # 0
    <3>1. i \in 1..n /\ i - 1 \in 0..n
      BY <1>2, <2>3
    <3>2. f[i - 1] \in Nat
      BY <3>1
    <3>3. step[<<f[i - 1], i>>] = (2 * f[i - 1] + b[i]) % 7
      BY <1>5, <3>1, <3>2
    <3> QED
      BY <2>1, <2>3, <3>3
  <2> QED
    BY <2>2, <2>3
<1>8. f = [i \in 0..n |-> f[i]]
  OBVIOUS
<1>9. IsSums(b, f)
  BY <1>1, <1>7, <1>8 DEF IsSums
<1>10. PICK g : g = CHOOSE h : IsSums(b, h)
  OBVIOUS
<1>11. IsSums(b, g)
  BY <1>9, <1>10
<1>12. Checksum(b) = g[n]
  BY <1>1, <1>10 DEF Checksum, IsSums
<1>13. \A i \in 0..n : g[i] = IF i = 0 THEN 1 ELSE (2 * g[i - 1] + b[i]) % 7
  BY <1>1, <1>11 DEF IsSums
<1> DEFINE M == {m \in Nat : m <= n => g[m] \in Nat}
<1>14. 0 \in M
  BY <1>13
<1>15. \A m \in Nat : m \in M => m + 1 \in M
  <2> SUFFICES ASSUME NEW m \in Nat, g[m] \in Nat, m + 1 <= n PROVE g[m + 1] \in Nat
    BY <1>2
  <2>1. m + 1 \in 0..n /\ m + 1 # 0 /\ (m + 1) - 1 = m /\ m + 1 \in 1..n
    BY <1>2
  <2>2. g[m + 1] = (2 * g[m] + b[m + 1]) % 7
    BY <1>13, <2>1
  <2>3. (2 * g[m] + b[m + 1]) % 7 \in Nat
    BY <1>3, <2>1
  <2> QED
    BY <2>2, <2>3
<1> HIDE DEF M
<1>16. n \in M
  BY <1>2, <1>14, <1>15, Induction
<1> QED
  BY <1>2, <1>12, <1>16 DEF M, Byte

\* The fields in front of the state.
Header(s) ==
  <<Len(s.ns)>> \o s.ns \o <<s.tick, s.seq, s.ts, Checksum(MapToBinary(s.entries)), s.seal>>

SnapshotType(s) ==
  /\ s.ns \in Seq(Byte) /\ s.tick \in Byte /\ s.seq \in Byte /\ s.ts \in Byte /\ s.seal \in Byte
  /\ s.entries \in Seq(EntryType) /\ AllWellSized(s.entries)

LEMMA MapBytesType ==
  ASSUME NEW entries \in Seq(EntryType)
  PROVE  MapToBinary(entries) \in Seq(Byte)
<1>1. PICK f : MapBytes(entries, f)
  BY MapHasBytes
<1>2. f \in [0..Len(entries) -> Seq(Byte)] /\ MapToBinary(entries) = f[Len(entries)]
  BY <1>1 DEF MapBytes
<1>3. Len(entries) \in 0..Len(entries)
  OBVIOUS
<1> QED
  BY <1>2, <1>3

\* A snapshot's bytes are its header and those of its map.
LEMMA SnapshotParts ==
  ASSUME NEW s, SnapshotType(s)
  PROVE  /\ Header(s) \in Seq(Byte) /\ Len(Header(s)) = Len(s.ns) + 6
         /\ Header(s)[1] = Len(s.ns)
         /\ MapToBinary(s.entries) \in Seq(Byte)
         /\ SnapshotToBinary(s) = Header(s) \o MapToBinary(s.entries)
         /\ SnapshotToBinary(s) \in Seq(Byte)
<1>1. PICK state : state = MapToBinary(s.entries)
  OBVIOUS
<1>2. state \in Seq(Byte) /\ Checksum(state) \in Byte
  BY <1>1, MapBytesType, ChecksumType DEF SnapshotType
<1>3. PICK ns, fields : ns = s.ns /\ fields = <<s.tick, s.seq, s.ts, Checksum(state), s.seal>>
  OBVIOUS
<1>4. ns \in Seq(Byte) /\ Len(ns) \in Byte /\ Len(ns) \in Nat
  BY <1>3, Numbers DEF SnapshotType
<1>5. fields \in Seq(Byte) /\ Len(fields) = 5
  <2>1. s.tick \in Byte /\ s.seq \in Byte /\ s.ts \in Byte /\ s.seal \in Byte
    BY DEF SnapshotType
  <2> QED
    BY <1>2, <1>3, <2>1
<1>6. PICK h : h = <<Len(ns)>> \o ns \o fields
  OBVIOUS
<1>7. Header(s) = h
  BY <1>1, <1>3, <1>6 DEF Header
<1>8. h \in Seq(Byte) /\ h[1] = Len(ns)
  BY <1>4, <1>5, <1>6
<1>9. Len(h) = Len(ns) + 6
  <2>1. <<Len(ns)>> \o ns \in Seq(Byte) /\ Len(<<Len(ns)>> \o ns) = 1 + Len(ns)
    BY <1>4
  <2>2. Len(h) = Len(<<Len(ns)>> \o ns) + Len(fields)
    BY <1>5, <1>6, <2>1, LenOfJoin
  <2> QED
    BY <1>4, <1>5, <2>1, <2>2
<1>10. SnapshotToBinary(s) = h \o state
  BY <1>1, <1>3, <1>6 DEF SnapshotToBinary
<1>11. h \o state \in Seq(Byte)
  BY <1>2, <1>8
<1> QED
  BY <1>1, <1>2, <1>3, <1>7, <1>8, <1>9, <1>10, <1>11

\* No snapshot's file begins like another's and goes on.
LEMMA SnapshotEnds ==
  ASSUME NEW r, NEW s, SnapshotType(r), SnapshotType(s),
         Agree(SnapshotToBinary(r), SnapshotToBinary(s))
  PROVE  Len(SnapshotToBinary(r)) = Len(SnapshotToBinary(s))
<1>1. PICK x, a, p : x = SnapshotToBinary(r) /\ a = Header(r) /\ p = MapToBinary(r.entries)
  OBVIOUS
<1>2. PICK y, b, q : y = SnapshotToBinary(s) /\ b = Header(s) /\ q = MapToBinary(s.entries)
  OBVIOUS
<1>3. PICK n, m : n = Len(r.ns) /\ m = Len(s.ns)
  OBVIOUS
<1>4. n \in Nat /\ m \in Nat
  BY <1>3 DEF SnapshotType
<1>5. /\ a \in Seq(Byte) /\ Len(a) = n + 6 /\ a[1] = n
      /\ p \in Seq(Byte) /\ x = a \o p /\ x \in Seq(Byte)
  BY <1>1, <1>3, SnapshotParts
<1>6. /\ b \in Seq(Byte) /\ Len(b) = m + 6 /\ b[1] = m
      /\ q \in Seq(Byte) /\ y = b \o q /\ y \in Seq(Byte)
  BY <1>2, <1>3, SnapshotParts
<1>7. Agree(x, y)
  BY <1>1, <1>2
<1>8. Len(x) = Len(a) + Len(p) /\ Len(y) = Len(b) + Len(q)
  BY <1>5, <1>6, LenOfJoin
<1>9. n = m
  <2>1. x[1] = n
    BY <1>4, <1>5
  <2>2. y[1] = m
    BY <1>4, <1>6
  <2>3. 1 \in 1..Len(x) /\ 1 <= Len(y)
    BY <1>4, <1>5, <1>6, <1>8
  <2> QED
    BY <1>7, <2>1, <2>2, <2>3 DEF Agree
<1>10. Extends(x, a \o p) /\ Extends(y, b \o q)
  BY <1>5, <1>6 DEF Extends
<1>11. Agree(p, q)
  <2>1. Len(a) = Len(b)
    BY <1>5, <1>6, <1>9
  <2> QED
    BY <1>5, <1>6, <1>7, <1>10, <2>1, AgreeParts
<1>12. Len(p) = Len(q)
  BY <1>1, <1>2, <1>11, MapEnds DEF SnapshotType
<1> QED
  BY <1>1, <1>2, <1>5, <1>6, <1>8, <1>9, <1>12

\* The five fields behind the namespace.
LEMMA FiveOfParts ==
  ASSUME NEW S, NEW b \in Seq(S), NEW i \in Int, 1 <= i, i + 4 <= Len(b)
  PROVE  <<b[i], b[i + 1], b[i + 2], b[i + 3], b[i + 4]>> = SubSeq(b, i, i + 4)
<1>1. PICK u : u = SubSeq(b, i, i + 4)
  OBVIOUS
<1>2. /\ u \in Seq(S) /\ Len(u) = 5
      /\ u[1] = b[i] /\ u[2] = b[i + 1] /\ u[3] = b[i + 2] /\ u[4] = b[i + 3] /\ u[5] = b[i + 4]
  BY <1>1
<1>3. u = <<u[1], u[2], u[3], u[4], u[5]>>
  BY <1>2
<1> QED
  BY <1>1, <1>2, <1>3

\* The file of a snapshot that is accepted is the one written for what was read.
LEMMA SnapshotReads ==
  ASSUME NEW b \in Seq(Byte), SnapshotFromBinary(b).ok
  PROVE  SnapshotType(SnapshotFromBinary(b)) /\ SnapshotToBinary(SnapshotFromBinary(b)) = b
<1> DEFINE size == IF b = << >> THEN 0 ELSE b[1]
           state == MapFromBinary(b, size + 7)
           fits == /\ CanRead(b, 1, size + 6) /\ IsUtf8(Bytes(b, 2, size))
                   /\ state.ok /\ OwnKeys(Bytes(b, 2, size), state.entries)
                   /\ b[size + 5] = Checksum(MapToBinary(state.entries))
           read == [ok |-> TRUE, ns |-> Bytes(b, 2, size), tick |-> b[size + 2],
                    seq |-> b[size + 3], ts |-> b[size + 4], seal |-> b[size + 6],
                    entries |-> state.entries]
<1>1. PICK s : s = SnapshotFromBinary(b)
  OBVIOUS
<1>2. s = IF fits THEN read ELSE NoSnapshot
  BY <1>1 DEF SnapshotFromBinary
<1>3. fits /\ s = read
  <2> HIDE DEF fits, read
  <2>1. ~NoSnapshot.ok
    BY DEF NoSnapshot
  <2> QED
    BY <1>1, <1>2, <2>1
<1>4. PICK n, len : n = size /\ len = Len(b)
  OBVIOUS
<1>5. /\ CanRead(b, 1, n + 6) /\ MapFromBinary(b, n + 7).ok
      /\ b[n + 5] = Checksum(MapToBinary(MapFromBinary(b, n + 7).entries))
  BY <1>3, <1>4
<1>6. /\ s.ns = Bytes(b, 2, n) /\ s.tick = b[n + 2] /\ s.seq = b[n + 3] /\ s.ts = b[n + 4]
      /\ s.seal = b[n + 6] /\ s.entries = MapFromBinary(b, n + 7).entries
  BY <1>3, <1>4
<1>7. n \in Nat /\ len \in Nat
  <2>1. b # << >> => b[1] \in Byte
    OBVIOUS
  <2> QED
    BY <1>4, <2>1, Numbers
<1>8. 1 + (n + 6) - 1 <= len
  BY <1>4, <1>5 DEF CanRead
<1>9. n = b[1]
  <2>1. b # << >>
    BY <1>4, <1>7, <1>8
  <2> QED
    BY <1>4, <2>1
<1> HIDE DEF read, fits, state, size
<1>10. PICK at : at = n + 7
  OBVIOUS
<1>11. at \in Nat /\ at \in 1..Len(b) /\ at <= len
  <2>1. CanRead(b, at, 1)
    BY <1>5, <1>10 DEF MapFromBinary, Broken
  <2>2. at + 1 - 1 <= len
    BY <1>4, <2>1 DEF CanRead
  <2> QED
    BY <1>4, <1>7, <1>10, <2>2
<1>12. /\ s.entries \in Seq(EntryType) /\ AllWellSized(s.entries)
       /\ MapToBinary(s.entries) = SubSeq(b, at, len)
  BY <1>4, <1>5, <1>6, <1>10, <1>11, MapReads
<1>13. PICK ns : ns = s.ns
  OBVIOUS
<1>14. ns = SubSeq(b, 2, n + 1) /\ ns \in Seq(Byte) /\ Len(ns) = n
  <2>1. ns = SubSeq(b, 2, 2 + n - 1)
    BY <1>6, <1>13 DEF Bytes
  <2>2. 2 + n - 1 = n + 1 /\ n + 1 <= Len(b)
    BY <1>4, <1>7, <1>8
  <2>3. ns = SubSeq(b, 2, n + 1)
    BY <2>1, <2>2
  <2> QED
    BY <1>7, <2>2, <2>3
<1>15. s.tick \in Byte /\ s.seq \in Byte /\ s.ts \in Byte /\ s.seal \in Byte
  <2>1. \A i \in 1..Len(b) : b[i] \in Byte
    OBVIOUS
  <2>2. {n + 2, n + 3, n + 4, n + 6} \subseteq 1..Len(b)
    BY <1>4, <1>7, <1>8
  <2> QED
    BY <1>6, <2>1, <2>2
<1>16. SnapshotType(s)
  BY <1>12, <1>13, <1>14, <1>15 DEF SnapshotType
<1>17. PICK fields : fields = <<s.tick, s.seq, s.ts, Checksum(MapToBinary(s.entries)), s.seal>>
  OBVIOUS
<1>18. fields = SubSeq(b, n + 2, n + 6)
  <2>1. PICK i : i = n + 2
    OBVIOUS
  <2>2. /\ i \in Int /\ 1 <= i /\ i + 4 <= Len(b)
        /\ i + 1 = n + 3 /\ i + 2 = n + 4 /\ i + 3 = n + 5 /\ i + 4 = n + 6
    BY <1>4, <1>7, <1>8, <2>1
  <2>3. <<b[i], b[i + 1], b[i + 2], b[i + 3], b[i + 4]>> = SubSeq(b, i, i + 4)
    BY <2>2, FiveOfParts
  <2>4. fields = <<b[n + 2], b[n + 3], b[n + 4], b[n + 5], b[n + 6]>>
    BY <1>5, <1>6, <1>17
  <2> QED
    BY <2>1, <2>2, <2>3, <2>4
<1>19. SnapshotToBinary(s) = <<n>> \o ns \o fields \o SubSeq(b, at, len)
  BY <1>12, <1>13, <1>14, <1>17 DEF SnapshotToBinary
<1>20. <<n>> \o ns = SubSeq(b, 1, n + 1)
  <2>1. 1 \in 1..Len(b)
    BY <1>11
  <2>2. <<n>> = SubSeq(b, 1, 1)
    BY <1>9, <2>1, PartOne
  <2>3. PICK q : q = n + 1
    OBVIOUS
  <2>4. q \in Int /\ 1 <= q /\ q <= Len(b)
    BY <1>4, <1>7, <1>8, <2>3
  <2>5. SubSeq(b, 1, 1) \o SubSeq(b, 1 + 1, q) = SubSeq(b, 1, q)
    BY <2>4, PartsJoin
  <2>6. 1 + 1 = 2
    OBVIOUS
  <2> QED
    BY <1>14, <2>2, <2>3, <2>5, <2>6
<1>21. <<n>> \o ns \o fields = SubSeq(b, 1, n + 6)
  <2>1. PICK p, q : p = n + 1 /\ q = n + 6
    OBVIOUS
  <2>2. p \in Int /\ q \in Int /\ 1 <= p + 1 /\ p <= q /\ q <= Len(b) /\ p + 1 = n + 2
    BY <1>4, <1>7, <1>8, <2>1
  <2>3. SubSeq(b, 1, p) \o SubSeq(b, p + 1, q) = SubSeq(b, 1, q)
    BY <2>2, PartsJoin
  <2> QED
    BY <1>18, <1>20, <2>1, <2>2, <2>3
<1>22. <<n>> \o ns \o fields \o SubSeq(b, at, len) = b
  <2>1. PICK q : q = n + 6
    OBVIOUS
  <2>2. q \in Int /\ len \in Int /\ 1 <= q + 1 /\ q <= len /\ len <= Len(b) /\ q + 1 = at
    BY <1>4, <1>7, <1>8, <1>10, <2>1
  <2>3. SubSeq(b, 1, q) \o SubSeq(b, q + 1, len) = SubSeq(b, 1, len)
    BY <2>2, PartsJoin
  <2>4. SubSeq(b, 1, len) = b
    BY <1>4
  <2> QED
    BY <1>21, <2>1, <2>2, <2>3, <2>4
<1> QED
  BY <1>1, <1>16, <1>19, <1>22

\* A file that is accepted neither begins like that of a snapshot and ends
\* before it, nor goes on after it.
LEMMA NothingCutOff ==
  ASSUME NEW b \in Seq(Byte), SnapshotFromBinary(b).ok, NEW s, SnapshotType(s)
  PROVE  /\ ~IsStrictPrefix(b, SnapshotToBinary(s))
         /\ ~IsStrictPrefix(SnapshotToBinary(s), b)
<1>1. PICK x, r : x = SnapshotToBinary(s) /\ r = SnapshotFromBinary(b)
  OBVIOUS
<1>2. SnapshotType(r) /\ SnapshotToBinary(r) = b
  BY <1>1, SnapshotReads
<1>3. x \in Seq(Byte)
  BY <1>1, SnapshotParts
<1>4. Agree(b, x) => Len(b) = Len(x)
  BY <1>1, <1>2, SnapshotEnds
<1>5. Agree(x, b) => Len(x) = Len(b)
  BY <1>1, <1>2, SnapshotEnds
<1>6. ASSUME NEW t \in Seq(Byte), NEW u \in Seq(Byte), IsPrefix(t, u)
      PROVE  Agree(t, u) /\ (Len(t) = Len(u) => t = u)
  <2>1. Len(t) <= Len(u) /\ SubSeq(t, 1, Len(t)) = SubSeq(u, 1, Len(t))
    BY <1>6 DEF IsPrefix
  <2>2. SubSeq(t, 1, Len(t)) = t /\ SubSeq(u, 1, Len(u)) = u
    OBVIOUS
  <2>3. \A i \in 1..Len(t) : t[i] = u[i]
    <3>1. PICK v : v = SubSeq(u, 1, Len(t))
      OBVIOUS
    <3>2. \A i \in 1..Len(t) : v[i] = u[i]
      BY <2>1, <3>1
    <3> QED
      BY <2>1, <2>2, <3>1, <3>2
  <2> QED
    BY <2>1, <2>2, <2>3 DEF Agree
<1>7. ~IsStrictPrefix(b, x)
  BY <1>3, <1>4, <1>6 DEF IsStrictPrefix
<1>8. ~IsStrictPrefix(x, b)
  BY <1>3, <1>5, <1>6 DEF IsStrictPrefix
<1> QED
  BY <1>1, <1>7, <1>8

-----------------------------------------------------------------------------
(* Strings. *)

\* The characters that are escaped are not those that escape them.
LEMMA CharactersDiffer ==
  /\ Quote # Backslash /\ Quote # NewLine /\ Quote # TabStop /\ Quote # Control
  /\ Backslash # NewLine /\ Backslash # TabStop /\ Backslash # Control
  /\ NewLine # TabStop /\ NewLine # Control /\ TabStop # Control
  /\ "u" \notin {Quote, Backslash, "n", "t"} /\ "n" \notin {Quote, Backslash}
  /\ "t" \notin {Quote, Backslash, "n"}
BY Zenon DEF Quote, Backslash, NewLine, TabStop, Control

\* What is escaped, and what an escape is read as.
LEMMA Unescapes ==
  /\ DOMAIN Unescape = {Quote, Backslash, "n", "t"}
  /\ Unescape[Quote] = Quote /\ Unescape[Backslash] = Backslash
  /\ Unescape["n"] = NewLine /\ Unescape["t"] = TabStop
BY CharactersDiffer DEF Unescape

\* How a character is escaped: with a mark, in long form, or not at all.
Long == <<Backslash, "u", "0", "0", "0", "1">>
EscapedBy(c, m) == m \in DOMAIN Unescape /\ Unescape[m] = c /\ Escape(c) = <<Backslash, m>>

\* A character is written plain, with a backslash, or long.
LEMMA Escapes ==
  ASSUME NEW c
  PROVE  \/ \E m : EscapedBy(c, m)
         \/ c = Control /\ Escape(c) = Long
         \/ c # Quote /\ c # Backslash /\ Escape(c) = <<c>>
<1>1. CASE c \in {Quote, Backslash}
  <2>1. EscapedBy(c, c)
    BY <1>1, Unescapes, CharactersDiffer DEF EscapedBy, Escape
  <2> QED
    BY <2>1
<1>2. CASE c = NewLine
  <2>1. EscapedBy(c, "n")
    BY <1>2, Unescapes, CharactersDiffer DEF EscapedBy, Escape
  <2> QED
    BY <2>1
<1>3. CASE c = TabStop
  <2>1. EscapedBy(c, "t")
    BY <1>3, Unescapes, CharactersDiffer DEF EscapedBy, Escape
  <2> QED
    BY <2>1
<1>4. CASE c = Control
  BY <1>4, CharactersDiffer DEF Escape, Long
<1>5. CASE c \notin {Quote, Backslash, NewLine, TabStop, Control}
  BY <1>5 DEF Escape
<1> QED
  BY <1>1, <1>2, <1>3, <1>4, <1>5

StandsAt(line, i, s) ==
  i + Len(s) <= Len(line) /\ \A j \in 1..Len(s) : line[i + j - 1] = s[j]

CharRead(line, i, text, s, c) ==
  /\ ReadChar(line, [at |-> i, text |-> text]) = [at |-> i + Len(s), text |-> Append(text, c)]
  /\ Len(s) \in Nat /\ Len(s) >= 1

\* What a turn of serde reads where a character was escaped.
LEMMA ReadsEscaped ==
  ASSUME NEW S, NEW line \in Seq(S), NEW i \in Nat, i >= 1, NEW c, NEW text,
         NEW s, s = Escape(c), StandsAt(line, i, s)
  PROVE  CharRead(line, i, text, s, c)
<1> SUFFICES /\ ReadChar(line, [at |-> i, text |-> text])
                  = [at |-> i + Len(s), text |-> Append(text, c)]
             /\ Len(s) \in Nat /\ Len(s) >= 1
  BY DEF CharRead
<1>1. i + Len(s) <= Len(line) /\ \A j \in 1..Len(s) : line[i + j - 1] = s[j]
  BY DEF StandsAt
<1> DEFINE state == [at |-> i, text |-> text]
           n == Len(line)
           long == i < n /\ line[i] = Backslash /\ line[i + 1] = "u"
           short == i < n /\ line[i] = Backslash /\ line[i + 1] \in DOMAIN Unescape
<1>2. ReadChar(line, state) =
        IF i > n \/ line[i] = Quote THEN state
        ELSE [at |-> IF long THEN i + 6 ELSE IF short THEN i + 2 ELSE i + 1,
              text |-> Append(text, IF long THEN Control
                                    ELSE IF short THEN Unescape[line[i + 1]] ELSE line[i])]
  BY DEF ReadChar
<1>3. CASE \E m : EscapedBy(c, m)
  <2>1. PICK m : EscapedBy(c, m)
    BY <1>3
  <2>2. m \in DOMAIN Unescape /\ Unescape[m] = c /\ s = <<Backslash, m>>
    BY <2>1 DEF EscapedBy
  <2>3. Len(s) = 2 /\ s[1] = Backslash /\ s[2] = m
    BY <2>2
  <2>4. i + 1 - 1 = i /\ i + 2 - 1 = i + 1 /\ 1 \in 1..2 /\ 2 \in 1..2
    OBVIOUS
  <2>5. line[i] = Backslash /\ line[i + 1] = m
    BY <1>1, <2>3, <2>4
  <2>6. i < n /\ ~(i > n)
    BY <1>1, <2>3
  <2>7. m # "u"
    BY <2>2, Unescapes, CharactersDiffer
  <2>8. ~long /\ short /\ line[i] # Quote
    BY <2>2, <2>5, <2>6, <2>7, CharactersDiffer
  <2> HIDE DEF long, short, state
  <2>9. ReadChar(line, state) = [at |-> i + 2, text |-> Append(text, Unescape[line[i + 1]])]
    BY <1>2, <2>6, <2>8
  <2> QED
    BY <2>2, <2>3, <2>5, <2>9 DEF state
<1>4. CASE c = Control /\ Escape(c) = Long
  <2>1. Len(s) = 6 /\ s[1] = Backslash /\ s[2] = "u"
    BY <1>4 DEF Long
  <2>2. i + 1 - 1 = i /\ i + 2 - 1 = i + 1 /\ 1 \in 1..6 /\ 2 \in 1..6
    OBVIOUS
  <2>3. line[i] = Backslash /\ line[i + 1] = "u"
    BY <1>1, <2>1, <2>2
  <2>4. i < n /\ ~(i > n)
    BY <1>1, <2>1
  <2>5. long /\ line[i] # Quote
    BY <2>3, <2>4, CharactersDiffer
  <2> HIDE DEF long, short, state
  <2>6. ReadChar(line, state) = [at |-> i + 6, text |-> Append(text, Control)]
    <3>1. PICK at, char :
            /\ at = IF long THEN i + 6 ELSE IF short THEN i + 2 ELSE i + 1
            /\ char = IF long THEN Control
                       ELSE IF short THEN Unescape[line[i + 1]] ELSE line[i]
      OBVIOUS
    <3>2. ReadChar(line, state) = [at |-> at, text |-> Append(text, char)]
      BY <1>2, <2>4, <2>5, <3>1
    <3>3. at = i + 6 /\ char = Control
      BY <2>5, <3>1
    <3> QED
      BY <3>2, <3>3
  <2>7. i + 6 = i + Len(s) /\ Len(s) \in Nat /\ Len(s) >= 1
    BY <2>1
  <2> QED
    BY <1>4, <2>6, <2>7 DEF state
<1>5. CASE c # Quote /\ c # Backslash /\ Escape(c) = <<c>>
  <2>1. Len(s) = 1 /\ s[1] = c
    BY <1>5
  <2>2. i + 1 - 1 = i /\ 1 \in 1..1
    OBVIOUS
  <2>3. line[i] = c
    BY <1>1, <2>1, <2>2
  <2>4. ~(i > n)
    BY <1>1, <2>1
  <2>5. ~long /\ ~short /\ line[i] # Quote
    BY <1>5, <2>3
  <2> HIDE DEF long, short, state
  <2>6. ReadChar(line, state) = [at |-> i + 1, text |-> Append(text, line[i])]
    BY <1>2, <2>4, <2>5
  <2> QED
    BY <2>1, <2>3, <2>6 DEF state
<1> QED
  BY <1>3, <1>4, <1>5, Escapes

Marks == {Quote, Backslash, NewLine, TabStop, Control, "n", "t", "u", "0", "1"}

\* What is written for a character is a text.
LEMMA EscapeType ==
  ASSUME NEW C, NEW c \in C
  PROVE  Escape(c) \in Seq(C \union Marks)
<1>1. PICK S : S = C \union Marks
  OBVIOUS
<1>2. c \in S /\ {Backslash, "u", "0", "1"} \subseteq S
  BY <1>1 DEF Marks
<1>3. CASE \E m : EscapedBy(c, m)
  <2>1. PICK m : EscapedBy(c, m)
    BY <1>3
  <2>2. m \in S /\ Escape(c) = <<Backslash, m>>
    BY <1>1, <2>1, Unescapes DEF EscapedBy, Marks
  <2> QED
    BY <1>1, <1>2, <2>2
<1>4. CASE Escape(c) = Long
  <2>1. Long \in Seq(S)
    BY <1>2 DEF Long
  <2> QED
    BY <1>1, <1>4, <2>1
<1>5. CASE Escape(c) = <<c>>
  BY <1>1, <1>2, <1>5
<1> QED
  BY <1>3, <1>4, <1>5, Escapes

IsWritten(t, f) ==
  f = [i \in 0..Len(t) |-> IF i = 0 THEN <<Quote>> ELSE f[i - 1] \o Escape(t[i])]

\* The line after each character.
Written(S, t, f) ==
  /\ f \in [0..Len(t) -> Seq(S)]
  /\ f[0] = <<Quote>>
  /\ \A i \in 1..Len(t) : f[i] = f[i - 1] \o Escape(t[i])
  /\ \A i \in 0..Len(t) : Extends(f[Len(t)], f[i])
  /\ WriteString(t) = f[Len(t)] \o <<Quote>>

\* The line of a string, character by character.
LEMMA StringHasLine ==
  ASSUME NEW C, NEW t \in Seq(C)
  PROVE  \E f : Written(C \union Marks, t, f)
<1>1. PICK S, n : S = C \union Marks /\ n = Len(t)
  OBVIOUS
<1>2. n \in Nat
  BY <1>1
<1> DEFINE part == [i \in 1..n |-> Escape(t[i])]
<1>3. part \in [1..n -> Seq(S)]
  <2> SUFFICES ASSUME NEW i \in 1..n PROVE Escape(t[i]) \in Seq(S)
    OBVIOUS
  <2>1. t[i] \in C
    BY <1>1
  <2> QED
    BY <1>1, <2>1, EscapeType
<1>4. \A i \in 1..n : part[i] = Escape(t[i])
  OBVIOUS
<1> HIDE DEF part
<1>5. PICK base : base = <<Quote>>
  OBVIOUS
<1>6. base \in Seq(S)
  <2>1. Quote \in S
    BY <1>1 DEF Marks
  <2> QED
    BY <1>5, <2>1
<1>7. \E f \in [0..n -> Seq(S)] : IsJoin(f, n, base, part)
  BY <1>2, <1>3, <1>6, JoinExists
<1>8. \A f : IsJoin(f, n, base, part) <=> IsWritten(t, f)
  <2> SUFFICES ASSUME NEW f
               PROVE  IsJoin(f, n, base, part) <=> IsWritten(t, f)
    OBVIOUS
  <2>1. \A i \in 0..n : (IF i = 0 THEN base ELSE f[i - 1] \o part[i])
                      = IF i = 0 THEN base ELSE f[i - 1] \o Escape(t[i])
    <3> SUFFICES ASSUME NEW i \in 0..n, i # 0 PROVE part[i] = Escape(t[i])
      OBVIOUS
    <3> QED
      BY <1>2, <1>4
  <2> QED
    BY <1>1, <1>5, <2>1 DEF IsJoin, IsWritten
<1>9. WriteString(t) = (CHOOSE f : IsWritten(t, f))[n] \o <<Quote>>
  BY <1>1 DEF WriteString, IsWritten
<1>10. PICK f : f = CHOOSE g : IsWritten(t, g)
  OBVIOUS
<1>11. IsWritten(t, f)
  BY <1>7, <1>8, <1>10
<1>12. IsJoin(f, n, base, part)
  BY <1>8, <1>11
<1>13. f \in [0..n -> Seq(S)]
  BY <1>2, <1>3, <1>6, <1>12, JoinType
<1>14. Joined(f, n, base, part)
  BY <1>2, <1>3, <1>12, <1>13, JoinSteps
<1>15. f[0] = base /\ \A i \in 1..n : f[i] = f[i - 1] \o Escape(t[i])
  BY <1>4, <1>14 DEF Joined
<1>16. \A i \in 0..n : Extends(f[n], f[i])
  <2> SUFFICES ASSUME NEW i \in 0..n PROVE Extends(f[n], f[i])
    OBVIOUS
  <2> QED
    BY <1>2, <1>3, <1>12, <1>13, JoinExtends
<1>17. Written(S, t, f)
  BY <1>1, <1>5, <1>9, <1>10, <1>13, <1>15, <1>16 DEF Written
<1> QED
  BY <1>1, <1>17

IsReading(line, f) ==
  f = [k \in 0..Len(line) |->
         IF k = 0 THEN [at |-> 2, text |-> << >>] ELSE ReadChar(line, f[k - 1])]

Reading(line, f) ==
  /\ f[0] = [at |-> 2, text |-> << >>]
  /\ \A k \in 1..Len(line) : f[k] = ReadChar(line, f[k - 1])
  /\ ReadString(line).text = f[Len(line)].text

\* A turn of the reader ends at a position with a text.
LEMMA ReadCharType ==
  ASSUME NEW S, Marks \subseteq S, NEW line \in Seq(S), NEW state \in [at: Nat \ {0}, text: Seq(S)]
  PROVE  ReadChar(line, state) \in [at: Nat \ {0}, text: Seq(S)]
<1>1. PICK i, n, text : i = state.at /\ n = Len(line) /\ text = state.text
  OBVIOUS
<1>2. i \in Nat /\ i >= 1 /\ n \in Nat /\ text \in Seq(S)
  BY <1>1
<1> DEFINE long == i < n /\ line[i] = Backslash /\ line[i + 1] = "u"
           short == i < n /\ line[i] = Backslash /\ line[i + 1] \in DOMAIN Unescape
<1>3. PICK at, char :
        /\ at = IF long THEN i + 6 ELSE IF short THEN i + 2 ELSE i + 1
        /\ char = IF long THEN Control ELSE IF short THEN Unescape[line[i + 1]] ELSE line[i]
  OBVIOUS
<1>4. at \in Nat \ {0}
  BY <1>2, <1>3
<1>5. ReadChar(line, state) =
        IF i > n \/ line[i] = Quote THEN state ELSE [at |-> at, text |-> Append(text, char)]
  BY <1>1, <1>3 DEF ReadChar
<1>6. i <= n => char \in S
  <2>1. \A c \in DOMAIN Unescape : Unescape[c] \in S
    BY Unescapes DEF Marks
  <2>2. Control \in S
    BY DEF Marks
  <2>3. i <= n => line[i] \in S
    BY <1>1, <1>2
  <2> QED
    BY <1>3, <2>1, <2>2, <2>3
<1> HIDE DEF long, short
<1>7. CASE i > n \/ line[i] = Quote
  BY <1>5, <1>7
<1>8. CASE ~(i > n \/ line[i] = Quote)
  <2>1. char \in S
    BY <1>2, <1>6, <1>8
  <2>2. Append(text, char) \in Seq(S)
    BY <1>2, <2>1
  <2> QED
    BY <1>4, <1>5, <1>8, <2>2
<1> QED
  BY <1>7, <1>8

\* The states of the reader, turn by turn.
LEMMA LineHasReading ==
  ASSUME NEW S, Marks \subseteq S, NEW line \in Seq(S)
  PROVE  \E f : Reading(line, f)
<1>1. PICK T, n, init : T = [at: Nat \ {0}, text: Seq(S)] /\ n = Len(line)
                          /\ init = [at |-> 2, text |-> << >>]
  OBVIOUS
<1>2. n \in Nat /\ init \in T
  BY <1>1
<1> DEFINE step == [p \in T \X (1..n) |-> ReadChar(line, p[1])]
<1>3. step \in [T \X (1..n) -> T]
  <2>1. \A s \in T : ReadChar(line, s) \in T
    BY <1>1, ReadCharType
  <2> QED
    BY <2>1
<1>4. \A s \in T, k \in 1..n : step[<<s, k>>] = ReadChar(line, s)
  OBVIOUS
<1> HIDE DEF step
<1>5. PICK f \in [0..n -> T] : IsRecursive(f, n, init, step)
  BY <1>2, <1>3, RecursionExists
<1>6. \A k \in 0..n : f[k] = IF k = 0 THEN init ELSE ReadChar(line, f[k - 1])
  <2> SUFFICES ASSUME NEW k \in 0..n
               PROVE  f[k] = IF k = 0 THEN init ELSE ReadChar(line, f[k - 1])
    OBVIOUS
  <2>1. f[k] = IF k = 0 THEN init ELSE step[<<f[k - 1], k>>]
    BY <1>5 DEF IsRecursive
  <2>2. CASE k = 0
    BY <2>1, <2>2
  <2>3. CASE k # 0
    <3>1. k \in 1..n /\ k - 1 \in 0..n
      BY <1>2, <2>3
    <3>2. f[k - 1] \in T
      BY <3>1
    <3>3. step[<<f[k - 1], k>>] = ReadChar(line, f[k - 1])
      BY <1>4, <3>1, <3>2
    <3> QED
      BY <2>1, <2>3, <3>3
  <2> QED
    BY <2>2, <2>3
<1>7. f = [k \in 0..n |-> f[k]]
  OBVIOUS
<1>8. IsReading(line, f)
  BY <1>1, <1>6, <1>7 DEF IsReading
<1>9. PICK g : g = CHOOSE h : IsReading(line, h)
  OBVIOUS
<1>10. IsReading(line, g)
  BY <1>8, <1>9
<1>11. ReadString(line).text = g[n].text
  BY <1>1, <1>9 DEF ReadString, IsReading
<1>12. \A k \in 0..n : g[k] = IF k = 0 THEN init ELSE ReadChar(line, g[k - 1])
  BY <1>1, <1>10 DEF IsReading
<1>13. 0 \in 0..n /\ \A k \in 1..n : k \in 0..n /\ k # 0
  BY <1>2
<1>14. g[0] = init /\ \A k \in 1..n : g[k] = ReadChar(line, g[k - 1])
  BY <1>12, <1>13
<1>15. Reading(line, g)
  BY <1>1, <1>11, <1>14 DEF Reading
<1> QED
  BY <1>15

\* The reader after as many turns as characters were written.
InStep(t, written, state, k) ==
  /\ state = [at |-> Len(written) + 1, text |-> SubSeq(t, 1, k)]
  /\ Len(written) > k

\* After k turns the reader is behind the k-th character and has read k of them.
LEMMA StaysInStep ==
  ASSUME NEW C, NEW t \in Seq(C), NEW S, S = C \union Marks, NEW g, Written(S, t, g),
         NEW line, line = WriteString(t), NEW k \in Nat, k + 1 <= Len(t),
         NEW state, InStep(t, g[k], state, k)
  PROVE  InStep(t, g[k + 1], ReadChar(line, state), k + 1)
<1>1. PICK m, i, a, s, c : m = Len(t) /\ i = k + 1 /\ a = g[k] /\ c = t[i] /\ s = Escape(c)
  OBVIOUS
<1>2. m \in Nat /\ i \in 1..m /\ k \in 0..m /\ i \in 0..m /\ i - 1 = k /\ c \in C
  BY <1>1
<1>3. a \in Seq(S) /\ s \in Seq(S) /\ g[m] \in Seq(S) /\ <<Quote>> \in Seq(S)
  <2>1. s \in Seq(S)
    BY <1>1, <1>2, EscapeType
  <2>2. g \in [0..m -> Seq(S)] /\ m \in 0..m
    BY <1>1, <1>2 DEF Written
  <2>3. Quote \in S
    BY DEF Marks
  <2> QED
    BY <1>1, <1>2, <2>1, <2>2, <2>3
<1>4. g[i] = a \o s
  BY <1>1, <1>2 DEF Written
<1>5. line = g[m] \o <<Quote>> /\ Extends(g[m], a \o s)
  BY <1>1, <1>2, <1>4 DEF Written
<1>6. PICK p : p = a \o s
  OBVIOUS
<1>7. p \in Seq(S) /\ Len(p) = Len(a) + Len(s)
  BY <1>3, <1>6, LenOfJoin
<1>8. line \in Seq(S) /\ Len(line) = Len(g[m]) + 1
  BY <1>3, <1>5
<1>9. \A j \in 1..Len(s) : p[Len(a) + j] = s[j]
  BY <1>3, <1>6
<1>10. \A j \in 1..Len(p) : line[j] = p[j]
  <2>1. Len(p) <= Len(g[m]) /\ \A j \in 1..Len(p) : g[m][j] = p[j]
    BY <1>5, <1>6 DEF Extends
  <2>2. \A j \in 1..Len(g[m]) : line[j] = g[m][j]
    BY <1>3, <1>5
  <2>3. Len(p) \in Nat /\ Len(g[m]) \in Nat
    BY <1>3, <1>7
  <2> QED
    BY <2>1, <2>2, <2>3
<1>11. PICK at, text : at = Len(a) + 1 /\ text = SubSeq(t, 1, k)
  OBVIOUS
<1>12. state = [at |-> at, text |-> text] /\ Len(a) > k
  BY <1>1, <1>11 DEF InStep
<1>13. Len(a) \in Nat /\ Len(s) \in Nat
  BY <1>3
<1>14. at \in Nat /\ at >= 1 /\ at + Len(s) <= Len(line)
  <2>1. Len(p) <= Len(g[m])
    BY <1>5, <1>6 DEF Extends
  <2>2. Len(g[m]) \in Nat
    BY <1>3
  <2> QED
    BY <1>7, <1>8, <1>11, <1>13, <2>1, <2>2
<1>15. \A j \in 1..Len(s) : line[at + j - 1] = s[j]
  <2> SUFFICES ASSUME NEW j \in 1..Len(s) PROVE line[at + j - 1] = s[j]
    OBVIOUS
  <2>1. at + j - 1 = Len(a) + j /\ Len(a) + j \in 1..Len(p)
    BY <1>7, <1>11, <1>13
  <2> QED
    BY <1>9, <1>10, <2>1
<1>16. /\ ReadChar(line, [at |-> at, text |-> text])
            = [at |-> at + Len(s), text |-> Append(text, c)]
       /\ Len(s) >= 1
  <2>1. StandsAt(line, at, s)
    BY <1>14, <1>15 DEF StandsAt
  <2>2. CharRead(line, at, text, s, c)
    BY <1>1, <1>8, <1>14, <2>1, ReadsEscaped
  <2> QED
    BY <2>2 DEF CharRead
<1>17. at + Len(s) = Len(p) + 1 /\ Len(p) > i
  <2>1. Len(p) = Len(a) + Len(s) /\ at = Len(a) + 1 /\ Len(a) > k /\ Len(s) >= 1 /\ i = k + 1
    BY <1>1, <1>7, <1>11, <1>12, <1>16
  <2> QED
    BY <1>13, <2>1
<1>18. Append(text, c) = SubSeq(t, 1, i)
  BY <1>1, <1>2, <1>11
<1>19. InStep(t, p, ReadChar(line, state), i)
  BY <1>12, <1>16, <1>17, <1>18 DEF InStep
<1> QED
  BY <1>1, <1>4, <1>6, <1>19

\* A string comes back as it was written.
LEMMA StringReadsBack ==
  ASSUME NEW C, NEW t \in Seq(C)
  PROVE  ReadString(WriteString(t)).text = t
<1>1. PICK S, m, line : S = C \union Marks /\ m = Len(t) /\ line = WriteString(t)
  OBVIOUS
<1>2. PICK g : Written(S, t, g)
  BY <1>1, StringHasLine
<1>3. m \in Nat
  BY <1>1
<1>4. line = g[m] \o <<Quote>> /\ g[m] \in Seq(S) /\ g[0] = <<Quote>>
  <2>1. g \in [0..m -> Seq(S)] /\ line = g[m] \o <<Quote>> /\ g[0] = <<Quote>>
    BY <1>1, <1>2 DEF Written
  <2>2. m \in 0..m
    BY <1>3
  <2> QED
    BY <2>1, <2>2
<1>5. line \in Seq(S) /\ Len(line) = Len(g[m]) + 1 /\ line[Len(g[m]) + 1] = Quote
  <2>1. Quote \in S
    BY <1>1 DEF Marks
  <2> QED
    BY <1>4, <2>1
<1>6. PICK f : Reading(line, f)
  <2>1. Marks \subseteq S
    BY <1>1
  <2> QED
    BY <1>5, <2>1, LineHasReading
<1>7. PICK n, init : n = Len(line) /\ init = [at |-> 2, text |-> << >>]
  OBVIOUS
<1>8. f[0] = init /\ \A k \in 1..n : f[k] = ReadChar(line, f[k - 1])
  BY <1>6, <1>7 DEF Reading
<1>9. ReadString(line).text = f[n].text
  BY <1>6, <1>7 DEF Reading
<1>10. n \in Nat
  BY <1>5, <1>7
<1> DEFINE M == {k \in Nat : k <= m /\ k <= n => InStep(t, g[k], f[k], k)}
<1>11. 0 \in M
  <2>1. SubSeq(t, 1, 0) = << >>
    OBVIOUS
  <2>2. Len(g[0]) = 1
    BY <1>4
  <2>3. f[0] = [at |-> Len(g[0]) + 1, text |-> SubSeq(t, 1, 0)]
    BY <1>7, <1>8, <2>1, <2>2
  <2>4. InStep(t, g[0], f[0], 0)
    BY <2>2, <2>3 DEF InStep
  <2> QED
    BY <2>4
<1>12. \A k \in Nat : k \in M => k + 1 \in M
  <2> SUFFICES ASSUME NEW k \in Nat, k \in M, k + 1 <= m, k + 1 <= n
               PROVE  InStep(t, g[k + 1], f[k + 1], k + 1)
    OBVIOUS
  <2>1. InStep(t, g[k], f[k], k)
    BY <1>3, <1>10
  <2>2. k + 1 \in 1..n /\ (k + 1) - 1 = k
    BY <1>10
  <2>3. f[k + 1] = ReadChar(line, f[k])
    BY <1>8, <2>2
  <2>4. InStep(t, g[k + 1], ReadChar(line, f[k]), k + 1)
    BY <1>1, <1>2, <2>1, StaysInStep
  <2> QED
    BY <2>3, <2>4
<1> HIDE DEF M
<1>13. \A k \in Nat : k \in M
  BY <1>11, <1>12, Induction
<1>14. m <= n
  <2> SUFFICES ASSUME ~(m <= n) PROVE FALSE
    OBVIOUS
  <2>1. InStep(t, g[n], f[n], n)
    BY <1>3, <1>10, <1>13 DEF M
  <2>2. Len(g[n]) > n
    BY <2>1 DEF InStep
  <2>3. Extends(g[m], g[n])
    <3>1. n \in 0..m
      BY <1>3, <1>10
    <3> QED
      BY <1>1, <1>2, <3>1 DEF Written
  <2>4. Len(g[n]) <= Len(g[m])
    BY <2>3 DEF Extends
  <2>5. g[n] \in Seq(S)
    <3>1. n \in 0..m
      BY <1>3, <1>10
    <3> QED
      BY <1>1, <1>2, <3>1 DEF Written
  <2>6. Len(g[n]) \in Nat /\ Len(g[m]) \in Nat
    BY <1>4, <2>5
  <2> QED
    BY <1>5, <1>7, <1>10, <2>2, <2>4, <2>6
<1>15. InStep(t, g[m], f[m], m)
  BY <1>3, <1>13, <1>14 DEF M
<1>16. f[m] = [at |-> n, text |-> t]
  <2>1. SubSeq(t, 1, m) = t
    BY <1>1
  <2>2. Len(g[m]) + 1 = n
    BY <1>5, <1>7
  <2> QED
    BY <1>15, <2>1, <2>2 DEF InStep
<1>17. line[n] = Quote
  BY <1>5, <1>7
<1>18. ReadChar(line, f[m]) = f[m]
  <2>1. f[m].at = n
    BY <1>16
  <2> QED
    BY <1>17, <2>1 DEF ReadChar
<1> DEFINE N == {k \in Nat : m + k <= n => f[m + k] = f[m]}
<1>19. 0 \in N
  BY <1>3
<1>20. \A k \in Nat : k \in N => k + 1 \in N
  <2> SUFFICES ASSUME NEW k \in Nat, k \in N, m + (k + 1) <= n PROVE f[m + (k + 1)] = f[m]
    OBVIOUS
  <2>1. PICK i : i = m + (k + 1)
    OBVIOUS
  <2>2. i \in 1..n /\ i - 1 = m + k /\ m + k <= n
    BY <1>3, <1>10, <2>1
  <2>3. f[i] = ReadChar(line, f[i - 1]) /\ f[i - 1] = f[m]
    BY <1>8, <2>2
  <2> QED
    BY <1>18, <2>1, <2>3
<1> HIDE DEF N
<1>21. n - m \in N
  <2>1. n - m \in Nat
    BY <1>3, <1>10, <1>14
  <2> QED
    BY <1>19, <1>20, <2>1, Induction
<1>22. f[n] = f[m]
  <2>1. m + (n - m) = n
    BY <1>3, <1>10
  <2> QED
    BY <1>10, <1>21, <2>1 DEF N
<1> QED
  BY <1>1, <1>9, <1>16, <1>22

-----------------------------------------------------------------------------
(* Bytes. *)

IsJoinOf(u, s, t) ==
  (\A i \in 1..Len(s) : u[i] = s[i]) /\ \A i \in 1..Len(t) : u[Len(s) + i] = t[i]

\* Where the elements of a join come from.
LEMMA PlacesInJoin ==
  ASSUME NEW S, NEW s \in Seq(S), NEW t \in Seq(S)
  PROVE  IsJoinOf(s \o t, s, t)
BY DEF IsJoinOf

\* A byte is its two hex digits.
LEMMA ByteDigits ==
  \A n \in 0..255 : n \div 16 \in 0..15 /\ n % 16 \in 0..15 /\ 16 * (n \div 16) + (n % 16) = n
OBVIOUS

\* The sixteen digits,
LEMMA HexDigits ==
  /\ HexDigit[1] = "0" /\ HexDigit[2] = "1" /\ HexDigit[3] = "2" /\ HexDigit[4] = "3"
  /\ HexDigit[5] = "4" /\ HexDigit[6] = "5" /\ HexDigit[7] = "6" /\ HexDigit[8] = "7"
  /\ HexDigit[9] = "8" /\ HexDigit[10] = "9" /\ HexDigit[11] = "a" /\ HexDigit[12] = "b"
  /\ HexDigit[13] = "c" /\ HexDigit[14] = "d" /\ HexDigit[15] = "e" /\ HexDigit[16] = "f"
<1> DEFINE C == {"0", "1", "2", "3", "4", "5", "6", "7", "8", "9", "a", "b", "c", "d", "e", "f"}
           later == <<"a", "b", "c", "d", "e", "f">>
<1>1. Digit \in Seq(C) /\ Len(Digit) = 10
  BY DEF Digit
<1>2. later \in Seq(C) /\ Len(later) = 6
  OBVIOUS
<1>3. HexDigit = Digit \o later
  BY DEF HexDigit
<1>4. /\ Digit[1] = "0" /\ Digit[2] = "1" /\ Digit[3] = "2" /\ Digit[4] = "3" /\ Digit[5] = "4"
      /\ Digit[6] = "5" /\ Digit[7] = "6" /\ Digit[8] = "7" /\ Digit[9] = "8" /\ Digit[10] = "9"
  BY DEF Digit
<1>5. /\ later[1] = "a" /\ later[2] = "b" /\ later[3] = "c" /\ later[4] = "d" /\ later[5] = "e"
      /\ later[6] = "f"
  OBVIOUS
<1> HIDE DEF later, C
<1>6. PICK s, t, u : s = Digit /\ t = later /\ u = s \o t
  OBVIOUS
<1>7. s \in Seq(C) /\ t \in Seq(C) /\ Len(s) = 10 /\ Len(t) = 6
  BY <1>1, <1>2, <1>6
<1>8. (\A i \in 1..10 : u[i] = s[i]) /\ \A i \in 1..6 : u[10 + i] = t[i]
  <2>1. IsJoinOf(u, s, t)
    BY <1>6, <1>7, PlacesInJoin
  <2> QED
    BY <1>7, <2>1 DEF IsJoinOf
<1>9. HexDigit = u
  BY <1>3, <1>6
<1>10. \A i \in {1, 2, 3, 4, 5, 6} : HexDigit[10 + i] = later[i]
  <2>1. {1, 2, 3, 4, 5, 6} \subseteq 1..6
    OBVIOUS
  <2> QED
    BY <1>6, <1>8, <1>9, <2>1
<1>11. /\ HexDigit[10 + 1] = "a" /\ HexDigit[10 + 2] = "b" /\ HexDigit[10 + 3] = "c"
      /\ HexDigit[10 + 4] = "d" /\ HexDigit[10 + 5] = "e" /\ HexDigit[10 + 6] = "f"
  BY <1>5, <1>10
<1>12. /\ 10 + 1 = 11 /\ 10 + 2 = 12 /\ 10 + 3 = 13 /\ 10 + 4 = 14 /\ 10 + 5 = 15 /\ 10 + 6 = 16
  OBVIOUS
<1>13. /\ HexDigit[11] = "a" /\ HexDigit[12] = "b" /\ HexDigit[13] = "c"
       /\ HexDigit[14] = "d" /\ HexDigit[15] = "e" /\ HexDigit[16] = "f"
  BY <1>11, <1>12
<1>14. {1, 2, 3, 4, 5, 6, 7, 8, 9, 10} \subseteq 1..10
  OBVIOUS
<1>15. \A i \in {1, 2, 3, 4, 5, 6, 7, 8, 9, 10} : HexDigit[i] = Digit[i]
  BY <1>6, <1>14, <1>8, <1>9
<1> QED
  BY <1>4, <1>13, <1>15

\* each of which is read as the nibble it was written for.
LEMMA NibbleOfDigit ==
  ASSUME NEW n \in 0..15
  PROVE  Nibble(HexDigit[n + 1]) = n
<1>1. \A i \in 1..16, j \in 1..16 : HexDigit[i] = HexDigit[j] => i = j
  BY HexDigits
<1>2. PICK m : m = Nibble(HexDigit[n + 1])
  OBVIOUS
<1>3. m \in 0..15 /\ HexDigit[m + 1] = HexDigit[n + 1]
  BY <1>2 DEF Nibble
<1>4. m + 1 \in 1..16 /\ n + 1 \in 1..16
  BY <1>3
<1>5. m + 1 = n + 1
  BY <1>1, <1>3, <1>4
<1> QED
  BY <1>2, <1>3, <1>5

HexChars == {HexDigit[i] : i \in 1..16}

\* The hex digits of bytes are a text of twice their number.
LEMMA HexType ==
  ASSUME NEW b \in Seq(0..255)
  PROVE  ToHex(b) \in Seq(HexChars) /\ Len(ToHex(b)) = 2 * Len(b)
<1>1. \A i \in 1..2 * Len(b) :
        LET byte == b[(i + 1) \div 2]
        IN  1 + (IF i % 2 = 1 THEN byte \div 16 ELSE byte % 16) \in 1..16
  <2> SUFFICES ASSUME NEW i \in 1..2 * Len(b), NEW byte, byte = b[(i + 1) \div 2]
               PROVE  1 + (IF i % 2 = 1 THEN byte \div 16 ELSE byte % 16) \in 1..16
    OBVIOUS
  <2>1. PICK k, S : k = (i + 1) \div 2 /\ S = 0..255
    OBVIOUS
  <2>2. k \in 1..Len(b)
    BY <2>1
  <2>3. b \in Seq(S)
    BY <2>1
  <2>4. b[k] \in S
    BY <2>2, <2>3
  <2>5. byte \in 0..255
    BY <2>1, <2>4
  <2>6. byte \div 16 \in 0..15 /\ byte % 16 \in 0..15
    BY <2>5, ByteDigits
  <2>7. PICK nibble : nibble = IF i % 2 = 1 THEN byte \div 16 ELSE byte % 16
    OBVIOUS
  <2>8. nibble \in 0..15
    BY <2>6, <2>7
  <2>9. 1 + nibble \in 1..16
    BY <2>8
  <2> QED
    BY <2>7, <2>9
<1>2. \A i \in 1..2 * Len(b) : ToHex(b)[i] \in HexChars
  BY <1>1 DEF ToHex, HexChars
<1>3. ToHex(b) = [i \in 1..2 * Len(b) |-> ToHex(b)[i]]
  BY DEF ToHex
<1> QED
  BY <1>2, <1>3

\* Bytes come back from their digits.
LEMMA HexReadsBack ==
  ASSUME NEW b \in Seq(0..255)
  PROVE  FromHex(ToHex(b)) = b
<1>1. PICK t, n : t = ToHex(b) /\ n = Len(b)
  OBVIOUS
<1>2. n \in Nat /\ Len(t) = 2 * n /\ Len(t) \div 2 = n
  BY <1>1, HexType
<1>3. FromHex(t) = [i \in 1..n |-> 16 * Nibble(t[2 * i - 1]) + Nibble(t[2 * i])]
  BY <1>2 DEF FromHex
<1>4. ASSUME NEW i \in 1..n PROVE 16 * Nibble(t[2 * i - 1]) + Nibble(t[2 * i]) = b[i]
  <2>1. PICK byte, p, q : byte = b[i] /\ p = 2 * i - 1 /\ q = 2 * i
    OBVIOUS
  <2>2. byte \in 0..255
    BY <1>1, <2>1
  <2>3. /\ p \in 1..2 * n /\ q \in 1..2 * n
        /\ (p + 1) \div 2 = i /\ (q + 1) \div 2 = i /\ p % 2 = 1 /\ q % 2 # 1
    BY <1>2, <2>1
  <2>4. t[p] = HexDigit[1 + byte \div 16] /\ t[q] = HexDigit[1 + (byte % 16)]
    BY <1>1, <2>1, <2>3 DEF ToHex
  <2>5. PICK high, low : high = byte \div 16 /\ low = byte % 16
    OBVIOUS
  <2>6. high \in 0..15 /\ low \in 0..15 /\ 16 * high + low = byte
    BY <2>2, <2>5, ByteDigits
  <2>7. 1 + high = high + 1 /\ 1 + low = low + 1
    BY <2>6
  <2>8. Nibble(t[p]) = high /\ Nibble(t[q]) = low
    BY <2>4, <2>5, <2>6, <2>7, NibbleOfDigit
  <2> QED
    BY <2>1, <2>6, <2>8
<1>5. FromHex(t) = [i \in 1..n |-> b[i]]
  BY <1>3, <1>4
<1> QED
  BY <1>1, <1>2, <1>5

-----------------------------------------------------------------------------
(* Values. *)

\* The tag and the JSON of each type.
LEMMA Tags ==
  /\ Tag["boolean"] = 1 /\ Tag["integer"] = 2 /\ Tag["decimal"] = 3
  /\ Tag["string"] = 4 /\ Tag["bytes"] = 5
BY DEF Tag

\* A value of each type comes back from its line.
LEMMA StringValue ==
  ASSUME NEW C, NEW t \in Seq(C)
  PROVE  ReadBack(Value("string", t)) = Value("string", t)
<1>1. PICK v, j : v = Value("string", t) /\ j = Json("string", t)
  OBVIOUS
<1>2. v.type = "string" /\ v.text = t /\ j.kind = "string" /\ j.text = t
  BY <1>1 DEF Value, Json
<1>3. ToJson(v) = j
  BY <1>1, <1>2 DEF ToJson
<1>4. ReadJson("string", WriteJson(j)) = j
  BY <1>1, <1>2, StringReadsBack DEF ReadJson, WriteJson
<1>5. FromJson(4, j) = v
  BY <1>1, <1>2 DEF FromJson
<1> QED
  BY <1>1, <1>2, <1>3, <1>4, <1>5, Tags DEF ReadBack

LEMMA BytesValue ==
  ASSUME NEW t \in Seq(0..255)
  PROVE  ReadBack(Value("bytes", t)) = Value("bytes", t)
<1>1. PICK v, hex, j : v = Value("bytes", t) /\ hex = ToHex(t) /\ j = Json("string", hex)
  OBVIOUS
<1>2. v.type = "bytes" /\ v.text = t /\ j.kind = "string" /\ j.text = hex
  BY <1>1 DEF Value, Json
<1>3. ToJson(v) = j
  BY <1>1, <1>2 DEF ToJson
<1>4. hex \in Seq(HexChars)
  BY <1>1, HexType
<1>5. ReadJson("string", WriteJson(j)) = j
  BY <1>1, <1>2, <1>4, StringReadsBack DEF ReadJson, WriteJson
<1>6. FromHex(hex) = t
  BY <1>1, HexReadsBack
<1>7. FromJson(5, j) = v
  BY <1>1, <1>2, <1>6 DEF FromJson
<1> QED
  BY <1>1, <1>2, <1>3, <1>5, <1>7, Tags DEF ReadBack

LEMMA DecimalValue ==
  ASSUME NEW C, NEW t \in Seq(C), ValidDecimal(t)
  PROVE  ReadBack(Value("decimal", t)) = Value("decimal", t)
<1>1. PICK v, j : v = Value("decimal", t) /\ j = Json("string", t)
  OBVIOUS
<1>2. v.type = "decimal" /\ v.text = t /\ j.kind = "string" /\ j.text = t
  BY <1>1 DEF Value, Json
<1>3. ToJson(v) = j
  BY <1>1, <1>2 DEF ToJson
<1>4. ReadJson("string", WriteJson(j)) = j
  BY <1>1, <1>2, StringReadsBack DEF ReadJson, WriteJson
<1>5. FromJson(3, j) = v
  BY <1>1, <1>2 DEF FromJson
<1> QED
  BY <1>1, <1>2, <1>3, <1>4, <1>5, Tags DEF ReadBack

LEMMA IntegerValue ==
  ASSUME NEW t, ValidDecimal(t)
  PROVE  ReadBack(Value("integer", t)) = Value("integer", t)
<1>1. PICK v, j : v = Value("integer", t) /\ j = Json("number", t)
  OBVIOUS
<1>2. v.type = "integer" /\ v.text = t /\ j.kind = "number" /\ j.text = t
  BY <1>1 DEF Value, Json
<1>3. ToJson(v) = j
  BY <1>1, <1>2 DEF ToJson
<1>4. ReadJson("number", WriteJson(j)) = j
  BY <1>1, <1>2 DEF ReadJson, WriteJson, ValidDecimal
<1>5. FromJson(2, j) = v
  BY <1>1, <1>2 DEF FromJson
<1> QED
  BY <1>1, <1>2, <1>3, <1>4, <1>5, Tags DEF ReadBack

LEMMA BooleanValue ==
  ASSUME NEW t
  PROVE  ReadBack(Value("boolean", t)) = Value("boolean", t)
<1>1. PICK v, j : v = Value("boolean", t) /\ j = Json("bool", t)
  OBVIOUS
<1>2. v.type = "boolean" /\ v.text = t /\ j.kind = "bool" /\ j.text = t
  BY <1>1 DEF Value, Json
<1>3. ToJson(v) = j
  BY <1>1, <1>2 DEF ToJson
<1>4. ReadJson("bool", WriteJson(j)) = j
  BY <1>1, <1>2 DEF ReadJson, WriteJson
<1>5. FromJson(1, j) = v
  BY <1>1, <1>2 DEF FromJson
<1> QED
  BY <1>1, <1>2, <1>3, <1>4, <1>5, Tags DEF ReadBack

\* A value of any type but null comes back from its line.
LEMMA ValuesReadBack ==
  ASSUME NEW C, NEW t \in Seq(C), NEW k \in TextKinds, k = "bytes" => t \in Seq(0..255),
         NEW v \in ValuesOf(k, t), v.type # "null"
  PROVE  ReadBack(v) = v
<1>1. CASE k = "string"
  BY <1>1, StringValue DEF ValuesOf
<1>2. CASE k = "bytes"
  BY <1>2, BytesValue DEF ValuesOf
<1>3. CASE k = "decimal"
  <2>1. ValidDecimal(t) /\ (v = Value("decimal", t) \/ v = Value("integer", t))
    BY <1>3 DEF ValuesOf
  <2> QED
    BY <2>1, DecimalValue, IntegerValue
<1>4. CASE k = "other"
  <2>1. v \in {Value("null", << >>), Value("boolean", <<"true">>), Value("boolean", <<"false">>)}
    BY <1>4 DEF ValuesOf
  <2>2. v # Value("null", << >>)
    BY DEF Value
  <2> QED
    BY <2>1, <2>2, BooleanValue
<1>5. CASE k \in {"key", "map", "snapshot"}
  BY <1>5 DEF ValuesOf
<1> QED
  BY <1>1, <1>2, <1>3, <1>4, <1>5 DEF TextKinds

-----------------------------------------------------------------------------
(* Decimals: taking a text apart. *)

IsFirst(t, S, i) ==
  /\ i \in 1..Len(t) + 1
  /\ i <= Len(t) => t[i] \in S
  /\ \A j \in 1..i - 1 : t[j] \notin S

\* There is a first position of a character of S, or one past the end,
LEMMA FirstExists ==
  ASSUME NEW C, NEW t \in Seq(C), NEW S
  PROVE  IsFirst(t, S, First(t, S))
<1> DEFINE T == {i \in Nat : i \in 1..Len(t) + 1 /\ (i <= Len(t) => t[i] \in S)}
<1>1. Len(t) \in Nat
  OBVIOUS
<1>2. Len(t) + 1 \in T /\ T \subseteq Nat
  BY <1>1
<1>3. PICK i \in T : \A j \in T : i <= j
  <2> HIDE DEF T
  <2> QED
    BY <1>2, LeastNumber
<1>4. IsFirst(t, S, i)
  <2>1. \A j \in 1..i - 1 : t[j] \notin S
    <3> SUFFICES ASSUME NEW j \in 1..i - 1, t[j] \in S PROVE FALSE
      OBVIOUS
    <3>1. i \in Nat /\ i <= Len(t) + 1 /\ ~(i <= j) /\ j \in Nat
      OBVIOUS
    <3>2. j \in 1..Len(t) + 1
      BY <1>1, <3>1
    <3>3. j \in T
      BY <3>1, <3>2
    <3> QED
      BY <1>3, <3>1, <3>3
  <2> QED
    BY <2>1 DEF IsFirst
<1>5. \E k \in 1..Len(t) + 1 : (k <= Len(t) => t[k] \in S) /\ \A j \in 1..k - 1 : t[j] \notin S
  BY <1>4 DEF IsFirst
<1> QED
  BY <1>5 DEF First, IsFirst

\* and only one.
LEMMA FirstIs ==
  ASSUME NEW C, NEW t \in Seq(C), NEW S, NEW i, IsFirst(t, S, i)
  PROVE  First(t, S) = i
<1>1. PICK k : k = First(t, S)
  OBVIOUS
<1>2. IsFirst(t, S, k)
  BY <1>1, FirstExists
<1>3. i \in Nat /\ k \in Nat /\ Len(t) \in Nat
  BY <1>2 DEF IsFirst
<1>4. ~(i < k)
  <2> SUFFICES ASSUME i < k PROVE FALSE
    OBVIOUS
  <2>1. i <= Len(t) /\ i \in 1..k - 1
    BY <1>2, <1>3 DEF IsFirst
  <2> QED
    BY <1>2, <2>1 DEF IsFirst
<1>5. ~(k < i)
  <2> SUFFICES ASSUME k < i PROVE FALSE
    OBVIOUS
  <2>1. k <= Len(t) /\ k \in 1..i - 1
    BY <1>2, <1>3 DEF IsFirst
  <2> QED
    BY <1>2, <2>1 DEF IsFirst
<1> QED
  BY <1>1, <1>3, <1>4, <1>5

\* A digit is no point, no sign and no exponent sign.
LEMMA DigitChars ==
  /\ Digits = {"0", "1", "2", "3", "4", "5", "6", "7", "8", "9"}
  /\ "0" \in Digits /\ "." \notin Digits /\ "-" \notin Digits
  /\ "e" \notin Digits /\ "E" \notin Digits
<1>1. DOMAIN Digit = 1..10
  BY DEF Digit
<1>2. /\ Digit[1] = "0" /\ Digit[2] = "1" /\ Digit[3] = "2" /\ Digit[4] = "3" /\ Digit[5] = "4"
      /\ Digit[6] = "5" /\ Digit[7] = "6" /\ Digit[8] = "7" /\ Digit[9] = "8" /\ Digit[10] = "9"
  BY DEF Digit
<1>3. \A i \in 1..10 : i \in {1, 2, 3, 4, 5, 6, 7, 8, 9, 10}
  OBVIOUS
<1>4. Digits = {"0", "1", "2", "3", "4", "5", "6", "7", "8", "9"}
  BY <1>1, <1>2, <1>3 DEF Digits
<1> QED
  BY <1>4

Chars == Digits \union {".", "-"}

\* A number as digits before and behind the point, and with its sign.
Spelled(whole, fraction) ==
  IF fraction = << >> THEN whole ELSE whole \o <<".">> \o fraction
Signed(negative, text) == IF negative THEN <<"-">> \o text ELSE text

\* Where the digits and the point of a spelled number are.
LEMMA SpelledIs ==
  ASSUME NEW whole \in Seq(Digits), whole # << >>, NEW fraction \in Seq(Digits), fraction # << >>
  PROVE  LET u == Spelled(whole, fraction)
         IN  /\ u \in Seq(Chars) /\ Len(u) = Len(whole) + 1 + Len(fraction)
             /\ \A i \in 1..Len(whole) : u[i] = whole[i]
             /\ u[Len(whole) + 1] = "."
             /\ \A i \in 1..Len(fraction) : u[Len(whole) + 1 + i] = fraction[i]
<1>1. PICK front, u : front = whole \o <<".">> /\ u = front \o fraction
  OBVIOUS
<1>2. whole \in Seq(Chars) /\ fraction \in Seq(Chars) /\ <<".">> \in Seq(Chars)
  BY DEF Chars
<1>3. /\ front \in Seq(Chars) /\ Len(front) = Len(whole) + 1 /\ front[Len(whole) + 1] = "."
      /\ \A i \in 1..Len(whole) : front[i] = whole[i]
  BY <1>1, <1>2
<1>4. Len(whole) \in Nat /\ Len(fraction) \in Nat
  OBVIOUS
<1>5. u \in Seq(Chars) /\ Len(u) = Len(front) + Len(fraction)
  BY <1>1, <1>2, <1>3, LenOfJoin
<1>6. IsJoinOf(u, front, fraction)
  BY <1>1, <1>2, <1>3, PlacesInJoin
<1>7. \A i \in 1..Len(whole) : u[i] = whole[i]
  <2> SUFFICES ASSUME NEW i \in 1..Len(whole) PROVE u[i] = whole[i]
    OBVIOUS
  <2>1. i \in 1..Len(front)
    BY <1>3, <1>4
  <2> QED
    BY <1>3, <1>6, <2>1 DEF IsJoinOf
<1>8. u[Len(whole) + 1] = "."
  <2>1. Len(whole) + 1 \in 1..Len(front)
    BY <1>3, <1>4
  <2> QED
    BY <1>3, <1>6, <2>1 DEF IsJoinOf
<1>9. \A i \in 1..Len(fraction) : u[Len(whole) + 1 + i] = fraction[i]
  BY <1>3, <1>6 DEF IsJoinOf
<1>10. Spelled(whole, fraction) = u
  BY <1>1 DEF Spelled
<1> QED
  BY <1>3, <1>5, <1>7, <1>8, <1>9, <1>10

\* Where a spelled number is split at its point.
LEMMA SpelledFirst ==
  ASSUME NEW whole \in Seq(Digits), whole # << >>, NEW fraction \in Seq(Digits)
  PROVE  LET u == Spelled(whole, fraction)
         IN  /\ u \in Seq(Chars) /\ u # << >> /\ u[1] \in Digits
             /\ First(u, {"e", "E"}) = Len(u) + 1 /\ First(u, {"."}) = Len(whole) + 1
             /\ Until(u, Len(whole) + 1) = whole /\ Beyond(u, Len(whole) + 1) = fraction
<1>1. PICK u : u = Spelled(whole, fraction)
  OBVIOUS
<1>2. \A d \in Digits : d # "." /\ d # "e" /\ d # "E"
  BY DigitChars
<1>3. Len(whole) \in Nat /\ Len(whole) >= 1 /\ Len(fraction) \in Nat
  OBVIOUS
<1>4. \A i \in 1..Len(whole) : whole[i] \in Digits
  OBVIOUS
<1>5. CASE fraction = << >>
  <2>1. u = whole
    BY <1>1, <1>5 DEF Spelled
  <2>2. u \in Seq(Chars) /\ u # << >> /\ u[1] \in Digits
    BY <2>1 DEF Chars
  <2>3. IsFirst(u, {"e", "E"}, Len(u) + 1) /\ IsFirst(u, {"."}, Len(u) + 1)
    BY <2>1, <1>2, <1>3, <1>4 DEF IsFirst
  <2>4. First(u, {"e", "E"}) = Len(u) + 1 /\ First(u, {"."}) = Len(u) + 1
    BY <2>2, <2>3, FirstIs
  <2>5. Until(u, Len(whole) + 1) = whole
    <3>1. (Len(whole) + 1) - 1 = Len(whole)
      BY <1>3
    <3>2. SubSeq(whole, 1, Len(whole)) = whole
      OBVIOUS
    <3> QED
      BY <2>1, <3>1, <3>2 DEF Until
  <2>6. Beyond(u, Len(whole) + 1) = << >>
    <3>1. PICK e : e = SubSeq(whole, Len(whole) + 2, Len(whole))
      OBVIOUS
    <3>2. e \in Seq(Digits) /\ Len(e) = 0
      BY <1>3, <3>1
    <3>3. (Len(whole) + 1) + 1 = Len(whole) + 2
      BY <1>3
    <3> QED
      BY <2>1, <3>1, <3>2, <3>3 DEF Beyond
  <2> QED
    BY <1>1, <1>5, <2>1, <2>2, <2>4, <2>5, <2>6
<1>6. CASE fraction # << >>
  <2>1. /\ u \in Seq(Chars) /\ Len(u) = Len(whole) + 1 + Len(fraction)
        /\ \A i \in 1..Len(whole) : u[i] = whole[i]
        /\ u[Len(whole) + 1] = "."
        /\ \A i \in 1..Len(fraction) : u[Len(whole) + 1 + i] = fraction[i]
    BY <1>1, <1>6, SpelledIs
  <2>2. u # << >> /\ u[1] \in Digits
    BY <1>3, <1>4, <2>1
  <2>3. \A i \in 1..Len(u) : u[i] # "e" /\ u[i] # "E"
    <3> SUFFICES ASSUME NEW i \in 1..Len(u) PROVE u[i] # "e" /\ u[i] # "E"
      OBVIOUS
    <3>1. u[i] \in Chars
      BY <2>1
    <3> QED
      BY <3>1, <1>2 DEF Chars
  <2>4. IsFirst(u, {"e", "E"}, Len(u) + 1)
    BY <1>3, <2>1, <2>3 DEF IsFirst
  <2>5. IsFirst(u, {"."}, Len(whole) + 1)
    BY <1>2, <1>3, <1>4, <2>1 DEF IsFirst
  <2>6. First(u, {"e", "E"}) = Len(u) + 1 /\ First(u, {"."}) = Len(whole) + 1
    BY <2>1, <2>4, <2>5, FirstIs
  <2>7. Until(u, Len(whole) + 1) = whole
    <3>1. PICK v : v = SubSeq(u, 1, Len(whole))
      OBVIOUS
    <3>2. v \in Seq(Chars) /\ Len(v) = Len(whole) /\ \A i \in 1..Len(whole) : v[i] = u[i]
      BY <1>3, <2>1, <3>1
    <3>3. whole \in Seq(Chars)
      BY DEF Chars
    <3>4. v = whole
      BY <2>1, <3>2, <3>3, SeqEqual
    <3>5. (Len(whole) + 1) - 1 = Len(whole)
      BY <1>3
    <3> QED
      BY <3>1, <3>4, <3>5 DEF Until
  <2>8. Beyond(u, Len(whole) + 1) = fraction
    <3>1. PICK v, m, n : m = Len(whole) + 2 /\ n = Len(u) /\ v = SubSeq(u, m, n)
      OBVIOUS
    <3>2. m \in Nat /\ n \in Nat /\ m >= 1 /\ n - m + 1 = Len(fraction) /\ m <= n + 1
      BY <1>3, <2>1, <3>1
    <3>3. v \in Seq(Chars) /\ Len(v) = n - m + 1 /\ \A i \in 1..n - m + 1 : v[i] = u[m + i - 1]
      BY <2>1, <3>1, <3>2
    <3>4. \A i \in 1..Len(fraction) : m + i - 1 = Len(whole) + 1 + i
      BY <1>3, <3>1
    <3>5. \A i \in 1..Len(fraction) : v[i] = fraction[i]
      BY <2>1, <3>2, <3>3, <3>4
    <3>6. fraction \in Seq(Chars)
      BY DEF Chars
    <3>7. v = fraction
      BY <3>2, <3>3, <3>5, <3>6, SeqEqual
    <3>8. (Len(whole) + 1) + 1 = m
      BY <1>3, <3>1
    <3> QED
      BY <3>1, <3>7, <3>8 DEF Beyond
  <2> QED
    BY <1>1, <2>1, <2>2, <2>6, <2>7, <2>8
<1> QED
  BY <1>5, <1>6

\* A text of digits, a point and a sign, and its parts.
PartsOf(t, negative, whole, fraction) ==
  /\ Negative(t) = negative /\ Unsigned(t) = Spelled(whole, fraction)
  /\ Unsigned(t) # << >> /\ Mantissa(t) = Unsigned(t) /\ ~HasExponent(t)
  /\ IntPart(t) = whole /\ FracPart(t) = fraction
  /\ Exponent(t) = 0 /\ Shift(t) = -Len(fraction)
  /\ ValidMantissa(t) /\ ValidExponent(t)

\* A sign is taken off again.
LEMMA SpelledSigned ==
  ASSUME NEW u \in Seq(Chars), u # << >>, u[1] \in Digits, NEW negative \in BOOLEAN
  PROVE  LET t == Signed(negative, u)
         IN  t \in Seq(Chars) /\ Negative(t) = negative /\ Unsigned(t) = u
<1>1. PICK t : t = Signed(negative, u)
  OBVIOUS
<1>2. u[1] # "-"
  BY DigitChars
<1>3. CASE negative
  <2>1. t = <<"-">> \o u
    BY <1>1, <1>3 DEF Signed
  <2>2. <<"-">> \in Seq(Chars)
    BY DEF Chars
  <2>3. t \in Seq(Chars) /\ t # << >> /\ t[1] = "-" /\ Tail(t) = u
    BY <2>1, <2>2
  <2> QED
    BY <1>1, <1>3, <2>3 DEF Negative, Unsigned
<1>4. CASE ~negative
  BY <1>1, <1>2, <1>4 DEF Signed, Negative, Unsigned
<1> QED
  BY <1>3, <1>4

\* A spelled number is parsed into what it was spelled from.
LEMMA SpelledParts ==
  ASSUME NEW whole \in Seq(Digits), whole # << >>, NEW fraction \in Seq(Digits),
         NEW negative \in BOOLEAN
  PROVE  PartsOf(Signed(negative, Spelled(whole, fraction)), negative, whole, fraction)
<1>1. PICK u, t, n : u = Spelled(whole, fraction) /\ t = Signed(negative, u) /\ n = Len(whole)
  OBVIOUS
<1>2. /\ u \in Seq(Chars) /\ u # << >> /\ u[1] \in Digits
      /\ First(u, {"e", "E"}) = Len(u) + 1 /\ First(u, {"."}) = n + 1
      /\ Until(u, n + 1) = whole /\ Beyond(u, n + 1) = fraction
  BY <1>1, SpelledFirst
<1>3. Negative(t) = negative /\ Unsigned(t) = u
  BY <1>1, <1>2, SpelledSigned
<1>4. Mantissa(t) = u
  <2>1. (Len(u) + 1) - 1 = Len(u) /\ SubSeq(u, 1, Len(u)) = u
    BY <1>2
  <2> QED
    BY <1>2, <1>3, <2>1 DEF Mantissa, Until
<1>5. ~HasExponent(t)
  BY <1>3, <1>4 DEF HasExponent
<1>6. IntPart(t) = whole /\ FracPart(t) = fraction
  BY <1>2, <1>4 DEF IntPart, FracPart
<1>7. Exponent(t) = 0
  BY <1>5 DEF Exponent
<1>8. Shift(t) = -Len(fraction)
  <2>1. 0 - Len(fraction) = -Len(fraction)
    OBVIOUS
  <2> QED
    BY <1>6, <1>7, <2>1 DEF Shift
<1>9. ValidExponent(t)
  BY <1>5 DEF ValidExponent
<1>10. AllDigits(whole) /\ AllDigits(fraction)
  BY DEF AllDigits
<1>11. u[Len(u)] # "."
  <2>1. \A d \in Digits : d # "."
    BY DigitChars
  <2>2. Len(whole) \in Nat /\ Len(whole) >= 1 /\ Len(fraction) \in Nat
    OBVIOUS
  <2>3. CASE fraction = << >>
    <3>1. u = whole
      BY <1>1, <2>3 DEF Spelled
    <3>2. whole[Len(whole)] \in Digits
      BY <2>2
    <3> QED
      BY <2>1, <3>1, <3>2
  <2>4. CASE fraction # << >>
    <3>1. /\ Len(u) = Len(whole) + 1 + Len(fraction)
          /\ \A i \in 1..Len(fraction) : u[Len(whole) + 1 + i] = fraction[i]
      BY <1>1, <2>4, SpelledIs
    <3>2. Len(fraction) \in 1..Len(fraction)
      BY <2>4
    <3>3. u[Len(u)] = fraction[Len(fraction)]
      BY <3>1, <3>2
    <3>4. fraction[Len(fraction)] \in Digits
      BY <3>2
    <3> QED
      BY <2>1, <3>3, <3>4
  <2> QED
    BY <2>3, <2>4
<1>12. ValidMantissa(t)
  BY <1>4, <1>6, <1>10, <1>11 DEF ValidMantissa
<1> QED
  BY <1>1, <1>2, <1>3, <1>4, <1>5, <1>6, <1>7, <1>8, <1>9, <1>12 DEF PartsOf

\* What is before and behind a position of a text is a text.
LEMMA PartType ==
  ASSUME NEW C, NEW t \in Seq(C), NEW S
  PROVE  Until(t, First(t, S)) \in Seq(C) /\ Beyond(t, First(t, S)) \in Seq(C)
<1>1. PICK i : i = First(t, S)
  OBVIOUS
<1>2. i \in 1..Len(t) + 1
  BY <1>1, FirstExists DEF IsFirst
<1>3. SubSeq(t, 1, i - 1) \in Seq(C) /\ SubSeq(t, i + 1, Len(t)) \in Seq(C)
  BY <1>2
<1> QED
  BY <1>1, <1>3 DEF Until, Beyond

\* A text of digits only is of digits.
LEMMA DigitsType ==
  ASSUME NEW C, NEW t \in Seq(C), AllDigits(t)
  PROVE  t \in Seq(Digits)
<1>1. \A i \in 1..Len(t) : t[i] \in Digits
  BY DEF AllDigits
<1> QED
  BY <1>1

IsValue(t, f) ==
  f = [i \in 0..Len(t) |->
         IF i = 0 THEN 0 ELSE 10 * f[i - 1] + (CHOOSE d \in 0..9 : Digit[d + 1] = t[i])]

\* A digit has a value,
LEMMA DigitValue ==
  \A c \in Digits : (CHOOSE d \in 0..9 : Digit[d + 1] = c) \in 0..9
<1> SUFFICES ASSUME NEW c \in Digits
             PROVE  (CHOOSE d \in 0..9 : Digit[d + 1] = c) \in 0..9
  OBVIOUS
<1>1. DOMAIN Digit = 1..10
  BY DEF Digit
<1>2. PICK i \in 1..10 : c = Digit[i]
  BY <1>1 DEF Digits
<1>3. i - 1 \in 0..9 /\ (i - 1) + 1 = i
  OBVIOUS
<1>4. \E d \in 0..9 : Digit[d + 1] = c
  BY <1>2, <1>3
<1> QED
  BY <1>4

\* and a text of digits is a natural number.
LEMMA NumberType ==
  ASSUME NEW t \in Seq(Digits)
  PROVE  Number(t) \in Nat
<1>1. PICK n : n = Len(t)
  OBVIOUS
<1> DEFINE digit(i) == CHOOSE d \in 0..9 : Digit[d + 1] = t[i]
<1>2. n \in Nat /\ \A i \in 1..n : digit(i) \in Nat
  <2>1. \A i \in 1..n : t[i] \in Digits
    BY <1>1
  <2>2. \A i \in 1..n : digit(i) \in 0..9
    BY <2>1, DigitValue
  <2> HIDE DEF digit
  <2> QED
    BY <1>1, <2>2
<1> DEFINE step == [p \in Nat \X (1..n) |-> 10 * p[1] + digit(p[2])]
<1> HIDE DEF digit
<1>3. \A x \in Nat, i \in 1..n : 10 * x + digit(i) \in Nat
  BY <1>2
<1>4. step \in [Nat \X (1..n) -> Nat]
  BY <1>3
<1>5. \A x \in Nat, i \in 1..n : step[<<x, i>>] = 10 * x + digit(i)
  OBVIOUS
<1> HIDE DEF step
<1>6. PICK f \in [0..n -> Nat] : IsRecursive(f, n, 0, step)
  BY <1>2, <1>4, RecursionExists
<1>7. \A i \in 0..n : f[i] = IF i = 0 THEN 0 ELSE 10 * f[i - 1] + digit(i)
  <2> SUFFICES ASSUME NEW i \in 0..n
               PROVE  f[i] = IF i = 0 THEN 0 ELSE 10 * f[i - 1] + digit(i)
    OBVIOUS
  <2>1. f[i] = IF i = 0 THEN 0 ELSE step[<<f[i - 1], i>>]
    BY <1>6 DEF IsRecursive
  <2>2. CASE i = 0
    BY <2>1, <2>2
  <2>3. CASE i # 0
    <3>1. i \in 1..n /\ i - 1 \in 0..n
      BY <1>2, <2>3
    <3>2. f[i - 1] \in Nat
      BY <3>1
    <3>3. step[<<f[i - 1], i>>] = 10 * f[i - 1] + digit(i)
      BY <1>5, <3>1, <3>2
    <3> QED
      BY <2>1, <2>3, <3>3
  <2> QED
    BY <2>2, <2>3
<1>8. f = [i \in 0..n |-> f[i]]
  OBVIOUS
<1>9. IsValue(t, f)
  BY <1>1, <1>7, <1>8 DEF IsValue, digit
<1>10. PICK g : g = CHOOSE h : IsValue(t, h)
  OBVIOUS
<1>11. IsValue(t, g)
  BY <1>9, <1>10
<1>12. Number(t) = g[n]
  BY <1>1, <1>10 DEF Number, IsValue
<1>13. \A i \in 0..n : g[i] = IF i = 0 THEN 0 ELSE 10 * g[i - 1] + digit(i)
  BY <1>1, <1>11 DEF IsValue, digit
<1> DEFINE M == {m \in Nat : m <= n => g[m] \in Nat}
<1>14. 0 \in M
  BY <1>13
<1>15. \A m \in Nat : m \in M => m + 1 \in M
  <2> SUFFICES ASSUME NEW m \in Nat, g[m] \in Nat, m + 1 <= n PROVE g[m + 1] \in Nat
    BY <1>2
  <2>1. m + 1 \in 0..n /\ m + 1 # 0 /\ (m + 1) - 1 = m /\ m + 1 \in 1..n
    BY <1>2
  <2>2. g[m + 1] = 10 * g[m] + digit(m + 1)
    BY <1>13, <2>1
  <2>3. 10 * g[m] + digit(m + 1) \in Nat
    BY <1>3, <2>1
  <2> QED
    BY <2>2, <2>3
<1> HIDE DEF M
<1>16. n \in M
  BY <1>2, <1>14, <1>15, Induction
<1> QED
  BY <1>2, <1>12, <1>16 DEF M

\* What is read of an accepted text, with F's length the exponent counts from.
IsRead(t, whole, fraction, shift) ==
  /\ whole \in Seq(Digits) /\ whole # << >> /\ fraction \in Seq(Digits)
  /\ IntPart(t) = whole /\ FracPart(t) = fraction /\ Shift(t) = shift /\ shift \in Int

\* An accepted text has digits before and behind the point, and an exponent.
LEMMA AcceptedParts ==
  ASSUME NEW C, NEW t \in Seq(C), Unsigned(t) # << >>, ValidMantissa(t), ValidExponent(t)
  PROVE  \E whole, fraction, shift : IsRead(t, whole, fraction, shift)
<1>1. Unsigned(t) \in Seq(C)
  BY DEF Unsigned, Negative
<1>2. Mantissa(t) \in Seq(C) /\ ExponentPart(t) \in Seq(C)
  BY <1>1, PartType DEF Mantissa, ExponentPart
<1>3. IntPart(t) \in Seq(C) /\ FracPart(t) \in Seq(C)
  BY <1>2, PartType DEF IntPart, FracPart
<1>4. IntPart(t) \in Seq(Digits) /\ FracPart(t) \in Seq(Digits) /\ IntPart(t) # << >>
  BY <1>3, DigitsType DEF ValidMantissa
<1>5. Exponent(t) \in Int
  <2>1. CASE ~HasExponent(t)
    BY <2>1 DEF Exponent
  <2>2. CASE HasExponent(t)
    <3>1. ExponentDigits(t) \in Seq(C)
      BY <1>2 DEF ExponentDigits
    <3>2. ExponentDigits(t) \in Seq(Digits)
      BY <2>2, <3>1, DigitsType DEF ValidExponent
    <3>3. PICK x : x = Number(ExponentDigits(t))
      OBVIOUS
    <3>4. x \in Nat
      BY <3>2, <3>3, NumberType
    <3> QED
      BY <2>2, <3>3, <3>4 DEF Exponent
  <2> QED
    BY <2>1, <2>2
<1>6. PICK whole, fraction, e : whole = IntPart(t) /\ fraction = FracPart(t) /\ e = Exponent(t)
  OBVIOUS
<1>7. e - Len(fraction) \in Int
  BY <1>4, <1>5, <1>6
<1>8. IsRead(t, whole, fraction, e - Len(fraction))
  BY <1>4, <1>6, <1>7 DEF IsRead, Shift
<1> QED
  BY <1>8

\* Digits without the zeros that lead them.
NonZero == Digits \ {"0"}
IsStripped(digits, k, s) ==
  /\ k \in 1..Len(digits) + 1
  /\ s \in Seq(Digits) /\ Len(s) = Len(digits) - k + 1
  /\ \A i \in 1..Len(s) : s[i] = digits[k + i - 1]
  /\ \A j \in 1..k - 1 : digits[j] = "0"
  /\ s # << >> => s[1] # "0"

\* Taking off the leading zeros leaves digits that begin with another.
LEMMA Strips ==
  ASSUME NEW digits \in Seq(Digits)
  PROVE  IsStripped(digits, First(digits, NonZero),
                    SubSeq(digits, First(digits, NonZero), Len(digits)))
<1>1. PICK k, n, s : k = First(digits, NonZero) /\ n = Len(digits) /\ s = SubSeq(digits, k, n)
  OBVIOUS
<1>2. IsFirst(digits, NonZero, k)
  BY <1>1, FirstExists
<1>3. /\ n \in Nat /\ k \in 1..n + 1 /\ (k <= n => digits[k] \in NonZero)
      /\ \A j \in 1..k - 1 : digits[j] \notin NonZero
  BY <1>1, <1>2 DEF IsFirst
<1>4. s \in Seq(Digits) /\ Len(s) = n - k + 1 /\ \A i \in 1..n - k + 1 : s[i] = digits[k + i - 1]
  BY <1>1, <1>3
<1>5. \A j \in 1..k - 1 : digits[j] = "0"
  <2> SUFFICES ASSUME NEW j \in 1..k - 1 PROVE digits[j] = "0"
    OBVIOUS
  <2>1. j \in 1..n
    BY <1>3
  <2>2. digits[j] \in Digits
    BY <1>1, <2>1
  <2> QED
    BY <1>3, <2>2 DEF NonZero
<1>6. s # << >> => s[1] # "0"
  <2> SUFFICES ASSUME s # << >> PROVE s[1] # "0"
    OBVIOUS
  <2>1. 1 \in 1..n - k + 1 /\ k <= n /\ k + 1 - 1 = k
    BY <1>3, <1>4
  <2>2. s[1] = digits[k]
    BY <1>4, <2>1
  <2> QED
    BY <1>3, <2>1, <2>2 DEF NonZero
<1> QED
  BY <1>1, <1>3, <1>4, <1>5, <1>6 DEF IsStripped

-----------------------------------------------------------------------------
(* Decimals: the digit at each power of ten. *)

\* Of digits that count a power of ten, and of digits around a point.
PlaceDigit(digits, e, p) ==
  IF p \in e..e + Len(digits) - 1 THEN digits[Len(digits) - (p - e)] ELSE "0"
SplitDigit(whole, fraction, p) ==
  IF p \in 0..Len(whole) - 1 THEN whole[Len(whole) - p]
  ELSE IF p \in -Len(fraction)..-1 THEN fraction[-p] ELSE "0"
SameDigits(digits, e, whole, fraction) ==
  \A p \in Int : PlaceDigit(digits, e, p) = SplitDigit(whole, fraction, p)

\* Digits around a point are at the powers of ten they are at without it,
LEMMA JoinPlaces ==
  ASSUME NEW whole \in Seq(Digits), NEW fraction \in Seq(Digits)
  PROVE  SameDigits(whole \o fraction, -Len(fraction), whole, fraction)
<1>1. PICK d, m, n : d = whole \o fraction /\ m = Len(whole) /\ n = Len(fraction)
  OBVIOUS
<1>2. m \in Nat /\ n \in Nat
  BY <1>1
<1>3. Len(d) = m + n
  BY <1>1, LenOfJoin
<1>4. (\A i \in 1..m : d[i] = whole[i]) /\ (\A i \in 1..n : d[m + i] = fraction[i])
  BY <1>1, PlacesInJoin DEF IsJoinOf
<1>5. ASSUME NEW p \in Int PROVE PlaceDigit(d, -n, p) = SplitDigit(whole, fraction, p)
  <2>1. PICK i \in Int : i = m + n - (p - (-n))
    BY <1>2
  <2>2. i = m - p
    BY <1>2, <2>1
  <2>3. CASE p \in 0..m - 1
    <3>1. p \in -n..-n + (m + n) - 1 /\ i \in 1..m
      BY <1>2, <2>2, <2>3
    <3>2. d[i] = whole[i]
      BY <1>4, <3>1
    <3> QED
      BY <1>1, <1>3, <2>1, <2>2, <2>3, <3>1, <3>2 DEF PlaceDigit, SplitDigit
  <2>4. CASE p \in -n..-1
    <3>1. p \in -n..-n + (m + n) - 1 /\ -p \in 1..n /\ i = m + (-p) /\ p \notin 0..m - 1
      BY <1>2, <2>2, <2>4
    <3>2. d[m + (-p)] = fraction[-p]
      BY <1>4, <3>1
    <3> QED
      BY <1>1, <1>3, <2>1, <2>4, <3>1, <3>2 DEF PlaceDigit, SplitDigit
  <2>5. CASE p \notin 0..m - 1 /\ p \notin -n..-1
    <3>1. p \notin -n..-n + (m + n) - 1
      BY <1>2, <2>5
    <3> QED
      BY <1>1, <1>3, <2>5, <3>1 DEF PlaceDigit, SplitDigit
  <2> QED
    BY <2>3, <2>4, <2>5
<1> QED
  BY <1>1, <1>5 DEF SameDigits

\* and leading zeros say nothing.
LEMMA StripPlaces ==
  ASSUME NEW digits \in Seq(Digits), NEW k, NEW s, IsStripped(digits, k, s), NEW e \in Int
  PROVE  \A p \in Int : PlaceDigit(digits, e, p) = PlaceDigit(s, e, p)
<1>1. PICK m, n : m = Len(digits) /\ n = Len(s)
  OBVIOUS
<1>2. /\ m \in Nat /\ n \in Nat /\ k \in 1..m + 1 /\ n = m - k + 1
      /\ \A i \in 1..n : s[i] = digits[k + i - 1]
      /\ \A j \in 1..k - 1 : digits[j] = "0"
  BY <1>1 DEF IsStripped
<1> SUFFICES ASSUME NEW p \in Int PROVE PlaceDigit(digits, e, p) = PlaceDigit(s, e, p)
  OBVIOUS
<1>3. CASE p \in e..e + n - 1
  <2>1. PICK i : i = n - (p - e)
    OBVIOUS
  <2>2. i \in 1..n /\ k + i - 1 = m - (p - e) /\ p \in e..e + m - 1
    BY <1>2, <1>3, <2>1
  <2>3. s[i] = digits[m - (p - e)]
    BY <1>2, <2>2
  <2> QED
    BY <1>1, <1>3, <2>1, <2>2, <2>3 DEF PlaceDigit
<1>4. CASE p \notin e..e + n - 1 /\ p \in e..e + m - 1
  <2>1. m - (p - e) \in 1..k - 1
    BY <1>2, <1>4
  <2>2. digits[m - (p - e)] = "0"
    BY <1>2, <2>1
  <2> QED
    BY <1>1, <1>4, <2>2 DEF PlaceDigit
<1>5. CASE p \notin e..e + n - 1 /\ p \notin e..e + m - 1
  BY <1>1, <1>5 DEF PlaceDigit
<1> QED
  BY <1>3, <1>4, <1>5

\* Zeros are digits.
LEMMA ZerosAre ==
  ASSUME NEW n \in Nat
  PROVE  Zeros(n) \in Seq(Digits) /\ Len(Zeros(n)) = n /\ \A i \in 1..n : Zeros(n)[i] = "0"
BY DigitChars DEF Zeros

-----------------------------------------------------------------------------
(* Decimals: the fraction without its last zeros. *)

IsKept(fraction, k) ==
  /\ k \in 0..Len(fraction)
  /\ k > 0 => fraction[k] # "0"
  /\ \A j \in k + 1..Len(fraction) : fraction[j] = "0"

\* A fraction has a last digit that is kept, or none,
LEMMA KeptExists ==
  ASSUME NEW fraction \in Seq(Digits)
  PROVE  \E k : IsKept(fraction, k)
<1>1. PICK n : n = Len(fraction)
  OBVIOUS
<1> DEFINE T == {i \in Nat : i <= n /\ \A j \in i + 1..n : fraction[j] = "0"}
<1>2. n \in Nat /\ T \subseteq Nat
  BY <1>1
<1>3. n \in T
  BY <1>2
<1>4. PICK k \in T : \A j \in T : k <= j
  <2> HIDE DEF T
  <2> QED
    BY <1>2, <1>3, LeastNumber
<1>5. k > 0 => fraction[k] # "0"
  <2> SUFFICES ASSUME k > 0, fraction[k] = "0" PROVE FALSE
    OBVIOUS
  <2>1. k - 1 \in Nat /\ k - 1 <= n /\ ~(k <= k - 1)
    BY <1>2
  <2>2. \A j \in (k - 1) + 1..n : fraction[j] = "0"
    <3> SUFFICES ASSUME NEW j \in (k - 1) + 1..n PROVE fraction[j] = "0"
      OBVIOUS
    <3>1. CASE j = k
      BY <3>1
    <3>2. CASE j # k
      <4>1. j \in k + 1..n
        BY <1>2, <2>1, <3>2
      <4> QED
        BY <4>1
    <3> QED
      BY <3>1, <3>2
  <2>3. k - 1 \in T
    BY <2>1, <2>2
  <2> QED
    BY <1>4, <2>1, <2>3
<1> QED
  BY <1>1, <1>2, <1>5 DEF IsKept

\* and trimming keeps all up to it.
LEMMA TrimKeeps ==
  ASSUME NEW whole \in Seq(Digits), whole # << >>, NEW fraction \in Seq(Digits),
         NEW k, IsKept(fraction, k)
  PROVE  TrimFraction(Spelled(whole, fraction)) = Spelled(whole, SubSeq(fraction, 1, k))
<1>1. PICK u, m, n : u = Spelled(whole, fraction) /\ m = Len(whole) /\ n = Len(fraction)
  OBVIOUS
<1>2. m \in Nat /\ m >= 1 /\ n \in Nat /\ k \in 0..n
  BY <1>1 DEF IsKept
<1>3. First(u, {"."}) = m + 1 /\ u \in Seq(Chars) /\ Until(u, m + 1) = whole
  BY <1>1, SpelledFirst
<1>4. CASE fraction = << >>
  <2>1. u = whole /\ n = 0 /\ k = 0
    BY <1>1, <1>2, <1>4 DEF Spelled
  <2>2. TrimFraction(u) = u
    BY <1>1, <1>2, <1>3, <2>1 DEF TrimFraction
  <2>3. SubSeq(fraction, 1, k) = << >>
    BY <1>4, <2>1
  <2> QED
    BY <1>1, <2>1, <2>2, <2>3 DEF Spelled
<1>5. CASE fraction # << >>
  <2>1. /\ Len(u) = m + 1 + n
        /\ \A i \in 1..n : u[m + 1 + i] = fraction[i]
        /\ \A i \in 1..m : u[i] = whole[i]
        /\ u[m + 1] = "."
    BY <1>1, <1>5, SpelledIs
  <2> DEFINE IsEnd(j) == /\ j > m + 1 => u[j] # "0"
                         /\ \A i \in j + 1..Len(u) : u[i] = "0"
  <2>2. \A j \in m + 1..Len(u) : IsEnd(j) <=> IsKept(fraction, j - (m + 1))
    <3> SUFFICES ASSUME NEW j \in m + 1..Len(u)
                 PROVE  IsEnd(j) <=> IsKept(fraction, j - (m + 1))
      OBVIOUS
    <3>1. PICK h : h = j - (m + 1)
      OBVIOUS
    <3>2. h \in 0..n /\ j = m + 1 + h
      BY <1>2, <2>1, <3>1
    <3>3. j > m + 1 => (h > 0 /\ h \in 1..n /\ u[j] = fraction[h])
      BY <1>2, <2>1, <3>2
    <3>4. h > 0 => j > m + 1
      BY <1>2, <3>2
    <3>5. (\A i \in j + 1..Len(u) : u[i] = "0") <=> (\A i \in h + 1..n : fraction[i] = "0")
      <4>1. ASSUME \A i \in j + 1..Len(u) : u[i] = "0", NEW i \in h + 1..n
            PROVE  fraction[i] = "0"
        <5>1. m + 1 + i \in j + 1..Len(u) /\ i \in 1..n
          BY <1>2, <2>1, <3>2
        <5> QED
          BY <2>1, <4>1, <5>1
      <4>2. ASSUME \A i \in h + 1..n : fraction[i] = "0", NEW i \in j + 1..Len(u)
            PROVE  u[i] = "0"
        <5>1. PICK g : g = i - (m + 1)
          OBVIOUS
        <5>2. g \in h + 1..n /\ g \in 1..n /\ i = m + 1 + g
          BY <1>2, <2>1, <3>2, <5>1
        <5> QED
          BY <2>1, <4>2, <5>2
      <4> QED
        BY <4>1, <4>2
    <3> QED
      BY <1>1, <3>1, <3>2, <3>3, <3>4, <3>5 DEF IsKept
  <2>3. m + 1 + k \in m + 1..Len(u) /\ (m + 1 + k) - (m + 1) = k
    BY <1>2, <2>1
  <2>4. \A h : IsKept(fraction, h) => h = k
    <3> SUFFICES ASSUME NEW h, IsKept(fraction, h) PROVE h = k
      OBVIOUS
    <3>1. h \in 0..n
      BY <1>1 DEF IsKept
    <3>2. ~(h < k)
      <4> SUFFICES ASSUME h < k PROVE FALSE
        OBVIOUS
      <4>1. k \in h + 1..n /\ k > 0
        BY <1>2, <3>1
      <4> QED
        BY <1>1, <4>1 DEF IsKept
    <3>3. ~(k < h)
      <4> SUFFICES ASSUME k < h PROVE FALSE
        OBVIOUS
      <4>1. h \in k + 1..n /\ h > 0
        BY <1>2, <3>1
      <4> QED
        BY <1>1, <4>1 DEF IsKept
    <3> QED
      BY <1>2, <3>1, <3>2, <3>3
  <2>5. PICK point, kept :
           /\ point = First(u, {"."})
           /\ kept = CHOOSE j \in point..Len(u) : /\ j > point => u[j] # "0"
                                                /\ \A i \in j + 1..Len(u) : u[i] = "0"
    OBVIOUS
  <2>6. kept = m + 1 + k
    <3>1. IsEnd(m + 1 + k)
      BY <2>2, <2>3
    <3>2. \A j \in m + 1..Len(u) : IsEnd(j) => j = m + 1 + k
      <4> SUFFICES ASSUME NEW j \in m + 1..Len(u), IsEnd(j) PROVE j = m + 1 + k
        OBVIOUS
      <4>1. j - (m + 1) = k
        BY <2>2, <2>4
      <4> QED
        BY <1>2, <4>1
    <3>3. kept = CHOOSE j \in m + 1..Len(u) : IsEnd(j)
      BY <1>3, <2>5
    <3> HIDE DEF IsEnd
    <3> QED
      BY <2>3, <3>1, <3>2, <3>3
  <2>7. TrimFraction(u) = SubSeq(u, 1, IF kept = m + 1 THEN (m + 1) - 1 ELSE kept)
    <3>1. ~(m + 1 > Len(u))
      BY <1>2, <2>1
    <3>2. TrimFraction(u) =
            IF point > Len(u) THEN u ELSE SubSeq(u, 1, IF kept = point THEN point - 1 ELSE kept)
      BY <2>5 DEF TrimFraction
    <3> QED
      BY <1>3, <2>5, <3>1, <3>2
  <2>8. CASE k = 0
    <3>1. kept = m + 1
      BY <1>2, <2>6, <2>8
    <3>2. TrimFraction(u) = whole
      BY <1>3, <2>7, <3>1 DEF Until
    <3>3. SubSeq(fraction, 1, k) = << >>
      BY <2>8
    <3> QED
      BY <1>1, <3>2, <3>3 DEF Spelled
  <2>9. CASE k # 0
    <3>1. kept # m + 1 /\ kept \in 1..Len(u)
      BY <1>2, <2>1, <2>6, <2>9
    <3>2. PICK b, v, w : b = SubSeq(fraction, 1, k) /\ v = SubSeq(u, 1, kept) /\ w = Spelled(whole, b)
      OBVIOUS
    <3>3. b \in Seq(Digits) /\ Len(b) = k /\ \A i \in 1..k : b[i] = fraction[i]
      BY <1>1, <1>2, <3>2
    <3>4. b # << >>
      BY <1>2, <2>9, <3>3
    <3>5. /\ w \in Seq(Chars) /\ Len(w) = m + 1 + k
          /\ \A i \in 1..m : w[i] = whole[i]
          /\ w[m + 1] = "."
          /\ \A i \in 1..k : w[m + 1 + i] = b[i]
      <4>1. /\ w \in Seq(Chars) /\ Len(w) = Len(whole) + 1 + Len(b)
            /\ \A i \in 1..Len(whole) : w[i] = whole[i]
            /\ w[Len(whole) + 1] = "."
            /\ \A i \in 1..Len(b) : w[Len(whole) + 1 + i] = b[i]
        BY <3>2, <3>3, <3>4, SpelledIs
      <4> QED
        BY <1>1, <3>3, <4>1
    <3>6. v \in Seq(Chars) /\ Len(v) = kept /\ \A i \in 1..kept : v[i] = u[i]
      BY <1>3, <3>1, <3>2
    <3>7. ASSUME NEW i \in 1..Len(v) PROVE v[i] = w[i]
      <4>1. v[i] = u[i]
        BY <3>6
      <4>2. CASE i \in 1..m
        BY <2>1, <3>5, <4>1, <4>2
      <4>3. CASE i = m + 1
        BY <2>1, <3>5, <4>1, <4>3
      <4>4. CASE i > m + 1
        <5>1. PICK g : g = i - (m + 1)
          OBVIOUS
        <5>2. g \in 1..k /\ g \in 1..n /\ i = m + 1 + g
          BY <1>2, <2>6, <3>6, <4>4, <5>1
        <5>3. u[i] = fraction[g] /\ w[i] = b[g] /\ b[g] = fraction[g]
          BY <2>1, <3>3, <3>5, <5>2
        <5> QED
          BY <4>1, <5>3
      <4> QED
        BY <1>2, <3>1, <3>6, <4>2, <4>3, <4>4
    <3>8. v = w
      BY <2>6, <3>5, <3>6, <3>7, SeqEqual
    <3> QED
      BY <1>1, <2>7, <3>1, <3>2, <3>8
  <2> QED
    BY <2>8, <2>9
<1> QED
  BY <1>4, <1>5

-----------------------------------------------------------------------------
(* Decimals: writing a value out. *)

\* The limit on the digits; a zero in front of the point does not count.
WithinDigits(whole, fraction) ==
  /\ Len(fraction) <= MaxDigits
  /\ whole # <<"0">> => Len(whole) + Len(fraction) <= MaxDigits

IsWrittenOut(t, s, e, whole, fraction) ==
  /\ WrittenOut(t) = Spelled(whole, fraction)
  /\ whole \in Seq(Digits) /\ whole # << >> /\ fraction \in Seq(Digits)
  /\ SameDigits(s, e, whole, fraction)
  /\ WithinDigits(whole, fraction)
  /\ whole[1] # "0" \/ (whole = <<"0">> /\ \E i \in 1..Len(fraction) : fraction[i] # "0")

\* Digits that count a power of ten, within the limit.
IsSignificant(t, s, e) ==
  /\ s \in Seq(Digits) /\ s # << >> /\ s[1] # "0" /\ e \in Int
  /\ Significant(t) = s /\ Shift(t) = e
  /\ Len(s) <= MaxDigits
  /\ IF e >= 0 THEN Len(s) + e <= MaxDigits ELSE -e <= MaxDigits

IsWriting(t, s, places, n) ==
  WrittenOut(t) = IF places <= 0 THEN s \o Zeros(-places)
                  ELSE IF n > places
                  THEN SubSeq(s, 1, n - places) \o <<".">> \o SubSeq(s, n - places + 1, n)
                  ELSE <<"0", ".">> \o Zeros(places - n) \o s

\* What is written of significant digits and their exponent.
LEMMA WritingIs ==
  ASSUME NEW t, NEW s, NEW e, IsSignificant(t, s, e), NEW places, NEW n,
         places = -e, n = Len(s)
  PROVE  IsWriting(t, s, places, n)
BY DEF WrittenOut, IsSignificant, IsWriting

\* With no places behind the point, zeros are added.
LEMMA WritesWhole ==
  ASSUME NEW t, NEW s, NEW e, IsSignificant(t, s, e), e >= 0
  PROVE  \E whole, fraction : IsWrittenOut(t, s, e, whole, fraction)
<1>1. PICK n, places, z, w : n = Len(s) /\ places = -e /\ z = Zeros(e) /\ w = s \o z
  OBVIOUS
<1>2. /\ s \in Seq(Digits) /\ s # << >> /\ s[1] # "0" /\ e \in Nat /\ n \in Nat /\ n >= 1
      /\ n + e <= MaxDigits
  BY <1>1 DEF IsSignificant
<1>3. z \in Seq(Digits) /\ Len(z) = e /\ \A i \in 1..e : z[i] = "0"
  BY <1>1, <1>2, ZerosAre
<1>4. w \in Seq(Digits) /\ Len(w) = n + e
  <2>1. s \in Seq(Digits) /\ z \in Seq(Digits) /\ Len(s) = n /\ Len(z) = e
    BY <1>1, <1>2, <1>3
  <2>2. w \in Seq(Digits)
    BY <1>1, <2>1
  <2>3. Len(w) = Len(s) + Len(z)
    BY <1>1, <2>1, LenOfJoin
  <2> QED
    BY <2>1, <2>2, <2>3
<1>5. (\A i \in 1..n : w[i] = s[i]) /\ (\A i \in 1..e : w[n + i] = z[i])
  BY <1>1, <1>2, <1>3, PlacesInJoin DEF IsJoinOf
<1>6. WrittenOut(t) = w
  <2>1. IsWriting(t, s, places, n)
    BY <1>1, WritingIs
  <2>2. places <= 0 /\ -places = e
    BY <1>1, <1>2
  <2> QED
    BY <1>1, <2>1, <2>2 DEF IsWriting
<1>7. w # << >> /\ w[1] = s[1]
  <2>1. 1 \in 1..n
    BY <1>2
  <2> QED
    BY <1>2, <1>4, <1>5, <2>1
<1>8. SameDigits(s, e, w, << >>)
  <2> SUFFICES ASSUME NEW p \in Int PROVE PlaceDigit(s, e, p) = SplitDigit(w, << >>, p)
    BY DEF SameDigits
  <2>1. Len(<< >>) = 0 /\ p \notin -0..-1
    OBVIOUS
  <2>2. CASE p \in e..e + n - 1
    <3>1. PICK i : i = n - (p - e)
      OBVIOUS
    <3>2. i \in 1..n /\ (n + e) - p = i /\ p \in 0..(n + e) - 1
      BY <1>2, <2>2, <3>1
    <3>3. w[i] = s[i]
      BY <1>5, <3>2
    <3> QED
      BY <1>1, <1>4, <2>2, <3>1, <3>2, <3>3 DEF PlaceDigit, SplitDigit
  <2>3. CASE p \notin e..e + n - 1 /\ p \in 0..(n + e) - 1
    <3>1. PICK i : i = e - p
      OBVIOUS
    <3>2. i \in 1..e /\ n + i = (n + e) - p
      BY <1>2, <2>3, <3>1
    <3>3. w[(n + e) - p] = "0"
      BY <1>3, <1>5, <3>2
    <3> QED
      BY <1>1, <1>4, <2>3, <3>3 DEF PlaceDigit, SplitDigit
  <2>4. CASE p \notin e..e + n - 1 /\ p \notin 0..(n + e) - 1
    BY <1>1, <1>4, <2>1, <2>4 DEF PlaceDigit, SplitDigit
  <2> QED
    BY <2>2, <2>3, <2>4
<1>9. WithinDigits(w, << >>)
  <2>1. Len(<< >>) = 0 /\ 0 <= MaxDigits
    BY DigitsAssumption
  <2> QED
    BY <1>2, <1>4, <2>1, DigitsAssumption DEF WithinDigits
<1>10. << >> \in Seq(Digits) /\ WrittenOut(t) = Spelled(w, << >>)
  BY <1>6 DEF Spelled
<1>11. IsWrittenOut(t, s, e, w, << >>)
  BY <1>2, <1>4, <1>7, <1>8, <1>9, <1>10 DEF IsWrittenOut
<1> QED
  BY <1>11

\* With fewer places than digits, the point goes between two of them.
LEMMA WritesPointInside ==
  ASSUME NEW t, NEW s, NEW e, IsSignificant(t, s, e), e < 0, -e < Len(s)
  PROVE  \E whole, fraction : IsWrittenOut(t, s, e, whole, fraction)
<1>1. PICK n, places, m, a, b :
        /\ n = Len(s) /\ places = -e /\ m = n - places
        /\ a = SubSeq(s, 1, m) /\ b = SubSeq(s, m + 1, n)
  OBVIOUS
<1>2. /\ s \in Seq(Digits) /\ s # << >> /\ s[1] # "0" /\ e \in Int /\ n \in Nat
      /\ n <= MaxDigits
  BY <1>1 DEF IsSignificant
<1>3. m \in 1..n /\ m < n /\ places \in 1..n /\ m + places = n /\ -places = e
  BY <1>1, <1>2
<1>4. a \in Seq(Digits) /\ Len(a) = m /\ \A i \in 1..m : a[i] = s[i]
  BY <1>1, <1>2, <1>3
<1>5. b \in Seq(Digits) /\ Len(b) = places /\ \A i \in 1..places : b[i] = s[m + i]
  <2>1. b \in Seq(Digits) /\ Len(b) = n - (m + 1) + 1 /\ \A i \in 1..n - (m + 1) + 1 : b[i] = s[m + 1 + i - 1]
    BY <1>1, <1>2, <1>3
  <2>2. n - (m + 1) + 1 = places
    BY <1>1, <1>2, <1>3
  <2>3. \A i \in 1..places : m + 1 + i - 1 = m + i
    BY <1>3
  <2> QED
    BY <2>1, <2>2, <2>3
<1>6. a # << >> /\ b # << >> /\ a[1] = s[1]
  <2>1. 1 \in 1..m
    BY <1>3
  <2> QED
    BY <1>3, <1>4, <1>5, <2>1
<1>7. WrittenOut(t) = Spelled(a, b)
  <2>1. IsWriting(t, s, places, n)
    BY <1>1, WritingIs
  <2>2. ~(places <= 0) /\ n > places
    BY <1>2, <1>3
  <2>3. WrittenOut(t) = SubSeq(s, 1, n - places) \o <<".">> \o SubSeq(s, n - places + 1, n)
    BY <2>1, <2>2 DEF IsWriting
  <2> QED
    BY <1>1, <1>6, <2>3 DEF Spelled
<1>8. SameDigits(s, e, a, b)
  <2> SUFFICES ASSUME NEW p \in Int PROVE PlaceDigit(s, e, p) = SplitDigit(a, b, p)
    BY DEF SameDigits
  <2>1. PICK i : i = n - (p - e)
    OBVIOUS
  <2>2. CASE p \in 0..m - 1
    <3>1. i = m - p /\ i \in 1..m /\ p \in e..e + n - 1
      BY <1>2, <1>3, <2>1, <2>2
    <3>2. a[i] = s[i]
      BY <1>4, <3>1
    <3> QED
      BY <1>1, <1>4, <2>1, <2>2, <3>1, <3>2 DEF PlaceDigit, SplitDigit
  <2>3. CASE p \in -places..-1
    <3>1. p \notin 0..m - 1 /\ -p \in 1..places /\ i = m + (-p) /\ p \in e..e + n - 1
      BY <1>2, <1>3, <2>1, <2>3
    <3>2. b[-p] = s[m + (-p)]
      BY <1>5, <3>1
    <3> QED
      BY <1>1, <1>4, <1>5, <2>1, <2>3, <3>1, <3>2 DEF PlaceDigit, SplitDigit
  <2>4. CASE p \notin 0..m - 1 /\ p \notin -places..-1
    <3>1. p \notin e..e + n - 1
      BY <1>2, <1>3, <2>4
    <3> QED
      BY <1>1, <1>4, <1>5, <2>4, <3>1 DEF PlaceDigit, SplitDigit
  <2> QED
    BY <2>2, <2>3, <2>4
<1>9. WithinDigits(a, b)
  BY <1>2, <1>3, <1>4, <1>5, DigitsAssumption DEF WithinDigits
<1>10. IsWrittenOut(t, s, e, a, b)
  BY <1>2, <1>4, <1>5, <1>6, <1>7, <1>8, <1>9 DEF IsWrittenOut
<1> QED
  BY <1>10

\* With as many places or more, a zero, the point and zeros go in front.
LEMMA WritesPointInFront ==
  ASSUME NEW t, NEW s, NEW e, IsSignificant(t, s, e), e < 0, Len(s) <= -e
  PROVE  \E whole, fraction : IsWrittenOut(t, s, e, whole, fraction)
<1>1. PICK n, places, m, z, b :
        n = Len(s) /\ places = -e /\ m = places - n /\ z = Zeros(m) /\ b = z \o s
  OBVIOUS
<1>2. /\ s \in Seq(Digits) /\ s # << >> /\ s[1] # "0" /\ e \in Int /\ n \in Nat /\ n >= 1
      /\ -e <= MaxDigits
  BY <1>1 DEF IsSignificant
<1>3. m \in Nat /\ places \in Nat /\ places >= 1 /\ m + n = places /\ -places = e /\ places <= MaxDigits
  BY <1>1, <1>2
<1>4. z \in Seq(Digits) /\ Len(z) = m /\ \A i \in 1..m : z[i] = "0"
  BY <1>1, <1>3, ZerosAre
<1>5. b \in Seq(Digits) /\ Len(b) = places
  <2>1. b \in Seq(Digits) /\ Len(b) = m + n
    BY <1>1, <1>2, <1>4, LenOfJoin
  <2> QED
    BY <1>3, <2>1
<1>6. (\A i \in 1..m : b[i] = z[i]) /\ (\A i \in 1..n : b[m + i] = s[i])
  <2>1. IsJoinOf(b, z, s)
    BY <1>1, <1>2, <1>4, PlacesInJoin
  <2> QED
    BY <1>1, <1>4, <2>1 DEF IsJoinOf
<1>7. <<"0">> \in Seq(Digits) /\ <<"0">> # << >>
  BY DigitChars
<1>8. b # << >>
  BY <1>3, <1>5
<1>9. WrittenOut(t) = Spelled(<<"0">>, b)
  <2>1. IsWriting(t, s, places, n)
    BY <1>1, WritingIs
  <2>2. ~(places <= 0) /\ ~(n > places)
    BY <1>2, <1>3
  <2>3. WrittenOut(t) = (<<"0", ".">> \o z) \o s
    BY <1>1, <2>1, <2>2 DEF IsWriting
  <2>4. <<"0", ".">> \in Seq(Chars) /\ z \in Seq(Chars) /\ s \in Seq(Chars)
    BY <1>2, <1>4, DigitChars DEF Chars
  <2>5. (<<"0", ".">> \o z) \o s = <<"0", ".">> \o (z \o s)
    BY <2>4
  <2>6. <<"0", ".">> = <<"0">> \o <<".">>
    OBVIOUS
  <2> QED
    BY <1>1, <1>8, <2>3, <2>5, <2>6 DEF Spelled
<1>10. SameDigits(s, e, <<"0">>, b)
  <2> SUFFICES ASSUME NEW p \in Int PROVE PlaceDigit(s, e, p) = SplitDigit(<<"0">>, b, p)
    BY DEF SameDigits
  <2>1. PICK a : a = <<"0">>
    OBVIOUS
  <2>2. Len(a) = 1 /\ a[1] = "0"
    BY <2>1
  <2>3. CASE p = 0
    <3>1. p \in 0..1 - 1 /\ 1 - p = 1 /\ p \notin e..e + n - 1
      BY <1>2, <1>3, <2>3
    <3> QED
      BY <1>1, <2>1, <2>2, <3>1 DEF PlaceDigit, SplitDigit
  <2>4. CASE p \in e..e + n - 1
    <3>1. PICK i : i = n - (p - e)
      OBVIOUS
    <3>2. i \in 1..n /\ m + i = -p /\ p \notin 0..1 - 1 /\ p \in -places..-1
      BY <1>2, <1>3, <2>4, <3>1
    <3>3. b[-p] = s[i]
      BY <1>6, <3>2
    <3> QED
      BY <1>1, <1>5, <2>1, <2>2, <2>4, <3>1, <3>2, <3>3 DEF PlaceDigit, SplitDigit
  <2>5. CASE p # 0 /\ p \notin e..e + n - 1 /\ p \in -places..-1
    <3>1. -p \in 1..m /\ p \notin 0..1 - 1
      BY <1>2, <1>3, <2>5
    <3>2. b[-p] = "0"
      BY <1>4, <1>6, <3>1
    <3> QED
      BY <1>1, <1>5, <2>1, <2>2, <2>5, <3>1, <3>2 DEF PlaceDigit, SplitDigit
  <2>6. CASE p # 0 /\ p \notin e..e + n - 1 /\ p \notin -places..-1
    <3>1. p \notin 0..1 - 1
      BY <2>6
    <3> QED
      BY <1>1, <1>5, <2>1, <2>2, <2>6, <3>1 DEF PlaceDigit, SplitDigit
  <2> QED
    BY <2>3, <2>4, <2>5, <2>6
<1>11. WithinDigits(<<"0">>, b)
  BY <1>3, <1>5 DEF WithinDigits
<1>12. \E i \in 1..Len(b) : b[i] # "0"
  <2>1. 1 \in 1..n /\ m + 1 \in 1..Len(b)
    BY <1>2, <1>3, <1>5
  <2>2. b[m + 1] = s[1]
    BY <1>6, <2>1
  <2> QED
    BY <1>2, <2>1, <2>2
<1>13. IsWrittenOut(t, s, e, <<"0">>, b)
  BY <1>5, <1>7, <1>9, <1>10, <1>11, <1>12 DEF IsWrittenOut
<1> QED
  BY <1>13

\* Whatever the exponent, the digits stay at their powers of ten.
LEMMA WritesOut ==
  ASSUME NEW t, NEW s, NEW e, IsSignificant(t, s, e)
  PROVE  \E whole, fraction : IsWrittenOut(t, s, e, whole, fraction)
<1>1. e \in Int /\ Len(s) \in Nat
  BY DEF IsSignificant
<1>2. CASE e >= 0
  BY <1>2, WritesWhole
<1>3. CASE e < 0 /\ -e < Len(s)
  BY <1>3, WritesPointInside
<1>4. CASE e < 0 /\ Len(s) <= -e
  BY <1>4, WritesPointInFront
<1> QED
  BY <1>1, <1>2, <1>3, <1>4

-----------------------------------------------------------------------------
(* Decimals: the one plain spelling. *)

\* No zero that could be left out, and a number other than zero.
IsPlain(whole, fraction) ==
  /\ whole \in Seq(Digits) /\ whole # << >> /\ fraction \in Seq(Digits)
  /\ fraction # << >> => fraction[Len(fraction)] # "0"
  /\ whole[1] = "0" => whole = <<"0">> /\ fraction # << >>

\* Trimming what was written out makes it plain.
LEMMA TrimsToPlain ==
  ASSUME NEW t, NEW s, NEW e, NEW whole, NEW fraction, IsWrittenOut(t, s, e, whole, fraction),
         NEW k, IsKept(fraction, k)
  PROVE  LET b == SubSeq(fraction, 1, k)
         IN  /\ IsPlain(whole, b) /\ SameDigits(s, e, whole, b) /\ WithinDigits(whole, b)
             /\ TrimFraction(WrittenOut(t)) = Spelled(whole, b)
<1>1. PICK b, n : b = SubSeq(fraction, 1, k) /\ n = Len(fraction)
  OBVIOUS
<1>2. /\ whole \in Seq(Digits) /\ whole # << >> /\ fraction \in Seq(Digits)
      /\ WrittenOut(t) = Spelled(whole, fraction)
      /\ SameDigits(s, e, whole, fraction) /\ WithinDigits(whole, fraction)
      /\ whole[1] # "0" \/ (whole = <<"0">> /\ \E i \in 1..n : fraction[i] # "0")
  BY <1>1 DEF IsWrittenOut
<1>3. /\ n \in Nat /\ k \in 0..n /\ (k > 0 => fraction[k] # "0")
      /\ \A j \in k + 1..n : fraction[j] = "0"
  BY <1>1, <1>2 DEF IsKept
<1>4. b \in Seq(Digits) /\ Len(b) = k /\ \A i \in 1..k : b[i] = fraction[i]
  BY <1>1, <1>2, <1>3
<1>5. TrimFraction(WrittenOut(t)) = Spelled(whole, b)
  BY <1>1, <1>2, TrimKeeps
<1>6. IsPlain(whole, b)
  <2>1. b # << >> => b[Len(b)] # "0"
    <3> SUFFICES ASSUME b # << >> PROVE b[Len(b)] # "0"
      OBVIOUS
    <3>1. k > 0 /\ k \in 1..k
      BY <1>3, <1>4
    <3> QED
      BY <1>3, <1>4, <3>1
  <2>2. whole[1] = "0" => whole = <<"0">> /\ b # << >>
    <3> SUFFICES ASSUME whole[1] = "0" PROVE whole = <<"0">> /\ b # << >>
      OBVIOUS
    <3>1. PICK i \in 1..n : fraction[i] # "0"
      BY <1>2
    <3>2. i \notin k + 1..n
      BY <1>3, <3>1
    <3>3. k >= 1
      BY <1>3, <3>2
    <3> QED
      BY <1>2, <1>4, <3>3
  <2> QED
    BY <1>2, <1>4, <2>1, <2>2 DEF IsPlain
<1>7. SameDigits(s, e, whole, b)
  <2> SUFFICES ASSUME NEW p \in Int PROVE PlaceDigit(s, e, p) = SplitDigit(whole, b, p)
    BY DEF SameDigits
  <2>1. PlaceDigit(s, e, p) = SplitDigit(whole, fraction, p)
    BY <1>2 DEF SameDigits
  <2>2. SplitDigit(whole, fraction, p) = SplitDigit(whole, b, p)
    <3>1. CASE p \in 0..Len(whole) - 1
      BY <3>1 DEF SplitDigit
    <3>2. CASE p \notin 0..Len(whole) - 1 /\ p \in -k..-1
      <4>1. -p \in 1..k /\ p \in -n..-1
        BY <1>3, <3>2
      <4>2. b[-p] = fraction[-p]
        BY <1>4, <4>1
      <4> QED
        BY <1>1, <1>4, <3>2, <4>1, <4>2 DEF SplitDigit
    <3>3. CASE p \notin 0..Len(whole) - 1 /\ p \notin -k..-1 /\ p \in -n..-1
      <4>1. -p \in k + 1..n
        BY <1>3, <3>3
      <4>2. fraction[-p] = "0"
        BY <1>3, <4>1
      <4> QED
        BY <1>1, <1>4, <3>3, <4>2 DEF SplitDigit
    <3>4. CASE p \notin 0..Len(whole) - 1 /\ p \notin -k..-1 /\ p \notin -n..-1
      BY <1>1, <1>4, <3>4 DEF SplitDigit
    <3> QED
      BY <3>1, <3>2, <3>3, <3>4
  <2> QED
    BY <2>1, <2>2
<1>8. WithinDigits(whole, b)
  <2>1. Len(whole) \in Nat
    BY <1>2
  <2> QED
    BY <1>1, <1>2, <1>3, <1>4, <2>1, DigitsAssumption DEF WithinDigits
<1> QED
  BY <1>1, <1>5, <1>6, <1>7, <1>8

\* A plain number is a plain text, with its sign,
LEMMA PlainText ==
  ASSUME NEW whole, NEW fraction, IsPlain(whole, fraction), NEW negative \in BOOLEAN
  PROVE  Plain(Signed(negative, Spelled(whole, fraction)))
<1>1. PICK u, t, m : u = Spelled(whole, fraction) /\ t = Signed(negative, u) /\ m = Len(whole)
  OBVIOUS
<1>2. /\ whole \in Seq(Digits) /\ whole # << >> /\ fraction \in Seq(Digits)
      /\ fraction # << >> => fraction[Len(fraction)] # "0"
      /\ whole[1] = "0" => whole = <<"0">> /\ fraction # << >>
  BY DEF IsPlain
<1>3. m \in Nat /\ m >= 1 /\ \A i \in 1..m : whole[i] \in Digits
  BY <1>1, <1>2
<1>4. First(u, {"."}) = m + 1 /\ Unsigned(t) = u
  BY <1>1, <1>2, SpelledFirst, SpelledSigned
<1>5. CASE fraction = << >>
  <2>1. u = whole /\ whole[1] # "0"
    BY <1>1, <1>2, <1>5 DEF Spelled
  <2>2. \A i \in DOMAIN u : u[i] \in Digits \/ i = m + 1
    BY <1>1, <1>2, <1>3, <2>1
  <2>3. m + 1 # 1 /\ m + 1 # Len(u) /\ ~(m + 1 < Len(u))
    BY <1>1, <1>3, <2>1
  <2> QED
    BY <1>1, <1>4, <2>1, <2>2, <2>3 DEF Plain
<1>6. CASE fraction # << >>
  <2>1. PICK n : n = Len(fraction)
    OBVIOUS
  <2>2. n \in Nat /\ n >= 1 /\ \A i \in 1..n : fraction[i] \in Digits
    BY <1>2, <1>6, <2>1
  <2>3. /\ u \in Seq(Chars) /\ Len(u) = m + 1 + n
        /\ \A i \in 1..m : u[i] = whole[i]
        /\ u[m + 1] = "."
        /\ \A i \in 1..n : u[m + 1 + i] = fraction[i]
    <3>1. /\ u \in Seq(Chars) /\ Len(u) = Len(whole) + 1 + Len(fraction)
          /\ \A i \in 1..Len(whole) : u[i] = whole[i]
          /\ u[Len(whole) + 1] = "."
          /\ \A i \in 1..Len(fraction) : u[Len(whole) + 1 + i] = fraction[i]
      BY <1>1, <1>2, <1>6, SpelledIs
    <3> QED
      BY <1>1, <2>1, <3>1
  <2>4. \A i \in DOMAIN u : u[i] \in Digits \/ i = m + 1
    <3> SUFFICES ASSUME NEW i \in 1..m + 1 + n, i # m + 1 PROVE u[i] \in Digits
      BY <2>3
    <3>1. CASE i \in 1..m
      BY <1>3, <2>3, <3>1
    <3>2. CASE i > m + 1
      <4>1. PICK g : g = i - (m + 1)
        OBVIOUS
      <4>2. g \in 1..n /\ i = m + 1 + g
        BY <1>3, <2>2, <3>2, <4>1
      <4> QED
        BY <2>2, <2>3, <4>2
    <3> QED
      BY <1>3, <3>1, <3>2
  <2>5. u[1] = "0" => m + 1 = 2
    <3>1. 1 \in 1..m
      BY <1>3
    <3>2. u[1] = whole[1]
      BY <2>3, <3>1
    <3>3. whole = <<"0">> => Len(whole) = 1
      OBVIOUS
    <3>4. whole[1] = "0" => m = 1
      BY <1>1, <1>2, <3>3
    <3> QED
      BY <3>2, <3>4
  <2>6. m + 1 # 1 /\ m + 1 # Len(u)
    BY <1>3, <2>2, <2>3
  <2>7. u[Len(u)] # "0"
    <3>1. n \in 1..n
      BY <2>2
    <3>2. u[m + 1 + n] = fraction[n]
      BY <2>3, <3>1
    <3> QED
      BY <1>2, <1>6, <2>1, <2>3, <3>2
  <2> QED
    BY <1>1, <1>4, <2>4, <2>5, <2>6, <2>7 DEF Plain
<1> QED
  BY <1>5, <1>6

\* and so is zero.
LEMMA ZeroIsPlain == Plain(<<"0">>)
<1>1. PICK t : t = <<"0">>
  OBVIOUS
<1>2. t \in Seq(Digits) /\ t # << >> /\ << >> \in Seq(Digits) /\ t[1] = "0" /\ Len(t) = 1
  BY <1>1, DigitChars
<1>3. Spelled(t, << >>) = t /\ Signed(FALSE, t) = t
  BY DEF Spelled, Signed
<1>4. First(t, {"."}) = 2
  <2>1. Len(t) + 1 = 2
    BY <1>2
  <2> QED
    BY <1>2, <1>3, <2>1, SpelledFirst
<1>5. Unsigned(t) = t
  BY <1>2 DEF Unsigned, Negative
<1>6. \A i \in DOMAIN t : t[i] \in Digits
  BY <1>2
<1>7. PICK u, point : u = Unsigned(t) /\ point = First(u, {"."})
  OBVIOUS
<1>8. /\ \A i \in DOMAIN u : u[i] \in Digits \/ i = point
      /\ u[1] = "0" => point = 2 \/ t = <<"0">>
      /\ point # 1 /\ point # Len(u)
      /\ point < Len(u) => u[Len(u)] # "0"
  <2>1. u = t /\ point = 2 /\ Len(u) = 1
    BY <1>2, <1>4, <1>5, <1>7
  <2> QED
    BY <1>6, <2>1
<1>9. Plain(t)
  BY <1>7, <1>8 DEF Plain
<1> QED
  BY <1>1, <1>9

\* A number within the limit has at most one digit more, the zero before the point.
LEMMA NumberOfDigits ==
  ASSUME NEW whole \in Seq(Digits), whole # << >>, NEW fraction \in Seq(Digits),
         WithinDigits(whole, fraction), NEW negative \in BOOLEAN
  PROVE  LET t == Signed(negative, Spelled(whole, fraction))
         IN  Cardinality({i \in DOMAIN t : t[i] \in Digits}) <= MaxDigits + 1
<1>1. PICK u, t, m, n, o, D :
        /\ u = Spelled(whole, fraction) /\ t = Signed(negative, u)
        /\ m = Len(whole) /\ n = Len(fraction)
        /\ o = (IF negative THEN 1 ELSE 0)
        /\ D = {i \in DOMAIN t : t[i] \in Digits}
  OBVIOUS
<1>2. m \in Nat /\ m >= 1 /\ n \in Nat /\ o \in {0, 1} /\ MaxDigits \in Nat
  BY <1>1, DigitsAssumption
<1>3. m + n <= MaxDigits + 1
  <2>1. Len(<<"0">>) = 1
    OBVIOUS
  <2>2. CASE whole = <<"0">>
    BY <1>1, <1>2, <2>1, <2>2 DEF WithinDigits
  <2>3. CASE whole # <<"0">>
    BY <1>1, <1>2, <2>3 DEF WithinDigits
  <2> QED
    BY <2>2, <2>3
<1>4. u \in Seq(Chars) /\ u # << >>
  BY <1>1, SpelledFirst
<1>5. Len(u) = (IF n = 0 THEN m ELSE m + 1 + n) /\ (n > 0 => u[m + 1] = ".")
  <2>1. CASE fraction = << >>
    <3>1. u = whole /\ n = 0
      BY <1>1, <2>1 DEF Spelled
    <3> QED
      BY <1>1, <3>1
  <2>2. CASE fraction # << >>
    <3>1. Len(u) = Len(whole) + 1 + Len(fraction) /\ u[Len(whole) + 1] = "."
      BY <1>1, <2>2, SpelledIs
    <3>2. n # 0
      BY <1>1, <2>2
    <3> QED
      BY <1>1, <3>1, <3>2
  <2> QED
    BY <2>1, <2>2
<1>6. /\ t \in Seq(Chars) /\ Len(t) = o + Len(u)
      /\ o = 1 => t[1] = "-"
      /\ \A i \in 1..Len(u) : t[o + i] = u[i]
  <2>1. CASE negative
    <3>1. t = <<"-">> \o u /\ o = 1 /\ <<"-">> \in Seq(Chars)
      BY <1>1, <2>1 DEF Signed, Chars
    <3> QED
      BY <1>4, <3>1
  <2>2. CASE ~negative
    <3>1. t = u /\ o = 0
      BY <1>1, <2>2 DEF Signed
    <3>2. \A i \in 1..Len(u) : o + i = i
      BY <3>1
    <3> QED
      BY <1>4, <3>1, <3>2
  <2> QED
    BY <2>1, <2>2
<1>7. D \subseteq (o + 1..o + m) \union (o + m + 2..o + m + 1 + n)
  <2> SUFFICES ASSUME NEW i \in D PROVE i \in o + 1..o + m \/ i \in o + m + 2..o + m + 1 + n
    OBVIOUS
  <2>1. i \in 1..o + Len(u) /\ t[i] \in Digits
    BY <1>1, <1>4, <1>6
  <2>2. i # o
    <3> SUFFICES ASSUME i = o PROVE FALSE
      OBVIOUS
    <3>1. i = 1 /\ o = 1
      BY <1>2, <2>1
    <3>2. t[i] = "-"
      BY <1>6, <3>1
    <3> QED
      BY <2>1, <3>2, DigitChars
  <2>3. ~(n > 0 /\ i = o + m + 1)
    <3> SUFFICES ASSUME n > 0, i = o + m + 1 PROVE FALSE
      OBVIOUS
    <3>1. m + 1 \in 1..Len(u) /\ o + (m + 1) = i
      BY <1>2, <1>5
    <3>2. t[i] = "."
      BY <1>5, <1>6, <3>1
    <3> QED
      BY <2>1, <3>2, DigitChars
  <2> QED
    BY <1>2, <1>5, <2>1, <2>2, <2>3
<1>8. PICK X, Y : X = o + 1..o + m /\ Y = o + m + 2..o + m + 1 + n
  OBVIOUS
<1>9. IsFiniteSet(X) /\ Cardinality(X) = m
  <2>1. PICK a, b : a = o + 1 /\ b = o + m
    OBVIOUS
  <2>2. a \in Int /\ b \in Int /\ a <= b /\ b - a + 1 = m
    BY <1>2, <2>1
  <2> QED
    BY <1>8, <2>1, <2>2, FS_Interval
<1>10. IsFiniteSet(Y) /\ Cardinality(Y) = n
  <2>1. PICK a, b : a = o + m + 2 /\ b = o + m + 1 + n
    OBVIOUS
  <2>2. a \in Int /\ b \in Int /\ (a > b <=> n = 0) /\ b - a + 1 = n
    BY <1>2, <2>1
  <2>3. Y = a..b
    BY <1>8, <2>1
  <2>4. IsFiniteSet(a..b) /\ Cardinality(a..b) = IF a > b THEN 0 ELSE b - a + 1
    BY <2>2, FS_Interval
  <2> QED
    BY <2>2, <2>3, <2>4
<1>11. IsFiniteSet(X \union Y) /\ Cardinality(X \union Y) <= m + n
  <2>1. /\ IsFiniteSet(X \union Y) /\ IsFiniteSet(X \cap Y)
        /\ Cardinality(X \union Y) = Cardinality(X) + Cardinality(Y) - Cardinality(X \cap Y)
    BY <1>9, <1>10, FS_Union, FS_Intersection
  <2>2. Cardinality(X \cap Y) \in Nat
    BY <2>1, FS_CardinalityType
  <2> QED
    BY <1>2, <1>9, <1>10, <2>1, <2>2
<1>12. IsFiniteSet(D) /\ Cardinality(D) <= Cardinality(X \union Y)
  BY <1>7, <1>8, <1>11, FS_Subset
<1>13. Cardinality(D) \in Nat /\ Cardinality(X \union Y) \in Nat
  BY <1>11, <1>12, FS_CardinalityType
<1> QED
  BY <1>1, <1>2, <1>3, <1>11, <1>12, <1>13

\* The canonical form of a number other than zero.
IsCanonical(t, whole, fraction) ==
  /\ Canonical(t) = Signed(Negative(t), Spelled(whole, fraction))
  /\ IsPlain(whole, fraction) /\ WithinDigits(whole, fraction)
  /\ \A p \in Int : DigitAt(t, p) = SplitDigit(whole, fraction, p)

\* The digits of an accepted text, and where they count.
LEMMA DigitsRead ==
  ASSUME NEW t, NEW whole, NEW fraction, NEW shift, IsRead(t, whole, fraction, shift)
  PROVE  /\ DigitsOf(t) \in Seq(Digits) /\ DigitsOf(t) = whole \o fraction
         /\ Places(t) \subseteq Int /\ shift \in Int /\ Shift(t) = shift
         /\ IsStripped(DigitsOf(t), First(DigitsOf(t), NonZero), Significant(t))
         /\ \A p : DigitAt(t, p) = PlaceDigit(DigitsOf(t), shift, p)
<1>1. PICK d : d = whole \o fraction
  OBVIOUS
<1>2. d = DigitsOf(t) /\ d \in Seq(Digits) /\ Shift(t) = shift /\ shift \in Int
  BY <1>1 DEF IsRead, DigitsOf
<1>3. Places(t) \subseteq Int
  <2>1. Len(d) \in Nat
    BY <1>2
  <2> QED
    BY <1>2, <2>1 DEF Places
<1>4. Significant(t) = SubSeq(d, First(d, NonZero), Len(d))
  BY <1>1 DEF Significant, IsRead, NonZero
<1>5. IsStripped(d, First(d, NonZero), Significant(t))
  BY <1>2, <1>4, Strips
<1>6. \A p : DigitAt(t, p) = PlaceDigit(d, shift, p)
  BY <1>2 DEF DigitAt, Places, PlaceDigit
<1> QED
  BY <1>1, <1>2, <1>3, <1>5, <1>6

\* The canonical form of a number other than zero is plain and has its digits.
LEMMA CanonicalIs ==
  ASSUME NEW C, NEW t \in Seq(C), Unsigned(t) # << >>, ValidMantissa(t), ValidExponent(t),
         Significant(t) # << >>, WithinLimit(t)
  PROVE  \E whole, fraction : IsCanonical(t, whole, fraction)
<1>1. PICK w, f, e : IsRead(t, w, f, e)
  BY AcceptedParts
<1>2. PICK d, k, s : d = DigitsOf(t) /\ k = First(d, NonZero) /\ s = Significant(t)
  OBVIOUS
<1>3. /\ d \in Seq(Digits) /\ IsStripped(d, k, s) /\ e \in Int /\ Shift(t) = e
      /\ \A p : DigitAt(t, p) = PlaceDigit(d, e, p)
  BY <1>1, <1>2, DigitsRead
<1>4. IsSignificant(t, s, e)
  <2>1. s \in Seq(Digits) /\ s # << >> /\ s[1] # "0"
    BY <1>2, <1>3 DEF IsStripped
  <2>2. Len(s) <= MaxDigits /\ (IF e >= 0 THEN Len(s) + e <= MaxDigits ELSE -e <= MaxDigits)
    BY <1>2, <1>3 DEF WithinLimit
  <2> QED
    BY <1>2, <1>3, <2>1, <2>2 DEF IsSignificant
<1>5. PICK whole, long : IsWrittenOut(t, s, e, whole, long)
  BY <1>4, WritesOut
<1>6. PICK n : IsKept(long, n)
  BY <1>5, KeptExists DEF IsWrittenOut
<1>7. PICK fraction : fraction = SubSeq(long, 1, n)
  OBVIOUS
<1>8. /\ IsPlain(whole, fraction) /\ SameDigits(s, e, whole, fraction)
      /\ WithinDigits(whole, fraction)
      /\ TrimFraction(WrittenOut(t)) = Spelled(whole, fraction)
  BY <1>5, <1>6, <1>7, TrimsToPlain
<1>9. Canonical(t) = Signed(Negative(t), Spelled(whole, fraction))
  <2>1. Canonical(t) = (IF Negative(t) THEN <<"-">> ELSE << >>) \o Spelled(whole, fraction)
    BY <1>8 DEF Canonical
  <2>2. Spelled(whole, fraction) \in Seq(Chars)
    BY <1>8, SpelledFirst DEF IsPlain
  <2> QED
    BY <2>1, <2>2 DEF Signed
<1>10. ASSUME NEW p \in Int PROVE DigitAt(t, p) = SplitDigit(whole, fraction, p)
  <2>1. DigitAt(t, p) = PlaceDigit(d, e, p)
    BY <1>3
  <2>2. PlaceDigit(d, e, p) = PlaceDigit(s, e, p)
    BY <1>3, StripPlaces
  <2>3. PlaceDigit(s, e, p) = SplitDigit(whole, fraction, p)
    BY <1>8 DEF SameDigits
  <2> QED
    BY <2>1, <2>2, <2>3
<1>11. IsCanonical(t, whole, fraction)
  BY <1>8, <1>9, <1>10 DEF IsCanonical
<1> QED
  BY <1>11

\* Of two plain spellings of a number neither has more digits on a side.
LEMMA NoLongerWhole ==
  ASSUME NEW w1, NEW f1, IsPlain(w1, f1), NEW w2, NEW f2, IsPlain(w2, f2),
         \A p \in Int : SplitDigit(w1, f1, p) = SplitDigit(w2, f2, p)
  PROVE  ~(Len(w1) < Len(w2)) /\ ~(Len(f1) < Len(f2))
<1>1. PICK m1, n1, m2, n2 : m1 = Len(w1) /\ n1 = Len(f1) /\ m2 = Len(w2) /\ n2 = Len(f2)
  OBVIOUS
<1>2. m1 \in Nat /\ m1 >= 1 /\ n1 \in Nat /\ m2 \in Nat /\ m2 >= 1 /\ n2 \in Nat
  BY <1>1 DEF IsPlain
<1>3. ASSUME m1 < m2 PROVE FALSE
  <2>1. PICK p : p = m2 - 1
    OBVIOUS
  <2>2. p \in Int /\ p \in 0..m2 - 1 /\ p \notin 0..m1 - 1 /\ p \notin -n1..-1 /\ m2 - p = 1
    BY <1>2, <1>3, <2>1
  <2>3. SplitDigit(w1, f1, p) = "0"
    BY <1>1, <2>2 DEF SplitDigit
  <2>4. SplitDigit(w2, f2, p) = w2[1]
    BY <1>1, <2>2 DEF SplitDigit
  <2>5. w2 = <<"0">>
    BY <2>2, <2>3, <2>4 DEF IsPlain
  <2>6. m2 = 1
    BY <1>1, <2>5
  <2> QED
    BY <1>2, <1>3, <2>6
<1>4. ASSUME n1 < n2 PROVE FALSE
  <2>1. PICK p : p = -n2
    OBVIOUS
  <2>2. /\ p \in Int /\ p \notin 0..m1 - 1 /\ p \notin 0..m2 - 1 /\ p \notin -n1..-1
        /\ p \in -n2..-1 /\ -p = n2
    BY <1>2, <1>4, <2>1
  <2>3. SplitDigit(w1, f1, p) = "0"
    BY <1>1, <2>2 DEF SplitDigit
  <2>4. SplitDigit(w2, f2, p) = f2[n2]
    BY <1>1, <2>2 DEF SplitDigit
  <2>5. f2 # << >>
    BY <1>1, <1>2, <1>4
  <2> QED
    BY <1>1, <2>2, <2>3, <2>4, <2>5 DEF IsPlain
<1> QED
  BY <1>1, <1>3, <1>4

\* Equal numbers are spelled the same.
LEMMA OneSpelling ==
  ASSUME NEW w1, NEW f1, IsPlain(w1, f1), NEW w2, NEW f2, IsPlain(w2, f2),
         \A p \in Int : SplitDigit(w1, f1, p) = SplitDigit(w2, f2, p)
  PROVE  w1 = w2 /\ f1 = f2
<1>1. PICK m, n : m = Len(w1) /\ n = Len(f1)
  OBVIOUS
<1>2. /\ w1 \in Seq(Digits) /\ f1 \in Seq(Digits) /\ w2 \in Seq(Digits) /\ f2 \in Seq(Digits)
      /\ m \in Nat /\ n \in Nat
  BY <1>1 DEF IsPlain
<1>3. m = Len(w2) /\ n = Len(f2)
  <2>1. ~(Len(w1) < Len(w2)) /\ ~(Len(f1) < Len(f2))
    BY NoLongerWhole
  <2>2. \A p \in Int : SplitDigit(w2, f2, p) = SplitDigit(w1, f1, p)
    OBVIOUS
  <2>3. ~(Len(w2) < Len(w1)) /\ ~(Len(f2) < Len(f1))
    BY <2>2, NoLongerWhole
  <2>4. Len(w2) \in Nat /\ Len(f2) \in Nat
    BY <1>2
  <2> QED
    BY <1>1, <1>2, <2>1, <2>3, <2>4
<1>4. ASSUME NEW i \in 1..m PROVE w1[i] = w2[i]
  <2>1. PICK p : p = m - i
    OBVIOUS
  <2>2. p \in Int /\ p \in 0..m - 1 /\ m - p = i
    BY <1>2, <2>1
  <2>3. SplitDigit(w1, f1, p) = w1[i] /\ SplitDigit(w2, f2, p) = w2[i]
    BY <1>1, <1>3, <2>2 DEF SplitDigit
  <2> QED
    BY <2>2, <2>3
<1>5. ASSUME NEW i \in 1..n PROVE f1[i] = f2[i]
  <2>1. PICK p : p = -i
    OBVIOUS
  <2>2. p \in Int /\ p \notin 0..m - 1 /\ p \in -n..-1 /\ -p = i
    BY <1>2, <2>1
  <2>3. SplitDigit(w1, f1, p) = f1[i] /\ SplitDigit(w2, f2, p) = f2[i]
    BY <1>1, <1>3, <2>2 DEF SplitDigit
  <2> QED
    BY <2>2, <2>3
<1> QED
  BY <1>1, <1>2, <1>3, <1>4, <1>5, SeqEqual

\* A plain number within the limit passes the checks of canonicalize_decimal,
LEMMA PlainIsSignificant ==
  ASSUME NEW t, NEW whole, NEW fraction, NEW negative, PartsOf(t, negative, whole, fraction),
         IsPlain(whole, fraction), WithinDigits(whole, fraction)
  PROVE  Significant(t) # << >> /\ WithinLimit(t)
<1>1. PICK d, k, s, m, n : /\ d = DigitsOf(t) /\ k = First(d, NonZero) /\ s = Significant(t)
                           /\ m = Len(whole) /\ n = Len(fraction)
  OBVIOUS
<1>2. /\ whole \in Seq(Digits) /\ whole # << >> /\ fraction \in Seq(Digits)
      /\ fraction # << >> => fraction[n] # "0"
      /\ whole[1] = "0" => whole = <<"0">> /\ fraction # << >>
  BY <1>1 DEF IsPlain
<1>3. m \in Nat /\ m >= 1 /\ n \in Nat
  BY <1>1, <1>2
<1>4. IsRead(t, whole, fraction, -n)
  <2>1. -n \in Int
    BY <1>3
  <2> QED
    BY <1>1, <1>2, <2>1 DEF PartsOf, IsRead
<1>5. d = whole \o fraction /\ d \in Seq(Digits) /\ IsStripped(d, k, s) /\ Shift(t) = -n
  BY <1>1, <1>4, DigitsRead
<1>6. Len(d) = m + n
  BY <1>1, <1>2, <1>5, LenOfJoin
<1>7. (\A i \in 1..m : d[i] = whole[i]) /\ (\A i \in 1..n : d[m + i] = fraction[i])
  <2>1. IsJoinOf(d, whole, fraction)
    BY <1>2, <1>5, PlacesInJoin
  <2> QED
    BY <1>1, <2>1 DEF IsJoinOf
<1>8. /\ k \in 1..m + n + 1 /\ s \in Seq(Digits) /\ Len(s) = m + n - k + 1
      /\ \A j \in 1..k - 1 : d[j] = "0"
  <2>1. PICK l : l = Len(d)
    OBVIOUS
  <2>2. /\ k \in 1..l + 1 /\ s \in Seq(Digits) /\ Len(s) = l - k + 1
        /\ \A j \in 1..k - 1 : d[j] = "0"
    BY <1>5, <2>1 DEF IsStripped
  <2>3. l = m + n
    BY <1>6, <2>1
  <2> QED
    BY <1>3, <2>2, <2>3
<1>9. d[1] = whole[1]
  <2>1. 1 \in 1..m
    BY <1>3
  <2> QED
    BY <1>7, <2>1
<1>10. CASE whole[1] # "0"
  <2>1. k = 1
    <3>1. 1 \notin 1..k - 1
      BY <1>8, <1>9, <1>10
    <3> QED
      BY <1>3, <1>8, <3>1
  <2>2. Len(s) = m + n
    BY <1>3, <1>8, <2>1
  <2>3. s # << >>
    BY <1>3, <1>8, <2>2
  <2>4. whole # <<"0">>
    BY <1>10
  <2>5. m + n <= MaxDigits /\ n <= MaxDigits
    BY <1>1, <2>4 DEF WithinDigits
  <2> QED
    BY <1>1, <1>3, <1>5, <2>2, <2>3, <2>5 DEF WithinLimit
<1>11. CASE whole[1] = "0"
  <2>1. m = 1 /\ n >= 1
    <3>1. whole = <<"0">> => Len(whole) = 1
      OBVIOUS
    <3>2. fraction # << >> => Len(fraction) # 0
      BY <1>2
    <3>3. Len(whole) = 1 /\ Len(fraction) # 0
      BY <1>2, <1>11, <3>1, <3>2
    <3> QED
      BY <1>1, <1>3, <3>3
  <2>2. k # 1
    <3> SUFFICES ASSUME k = 1 PROVE FALSE
      OBVIOUS
    <3>1. Len(s) = m + n /\ s # << >>
      BY <1>3, <1>8
    <3>2. s[1] # "0"
      BY <1>5, <3>1 DEF IsStripped
    <3>3. 1 \in 1..Len(s) /\ 1 + 1 - 1 = 1
      BY <1>3, <3>1
    <3>4. s[1] = d[k + 1 - 1]
      BY <1>5, <3>3 DEF IsStripped
    <3> QED
      BY <1>9, <1>11, <3>2, <3>3, <3>4
  <2>3. Len(s) <= n
    <3>1. PICK l : l = Len(s)
      OBVIOUS
    <3>2. l = m + n - k + 1 /\ k \in 1..m + n + 1
      BY <1>8, <3>1
    <3>3. l <= n
      BY <1>3, <2>1, <2>2, <3>2
    <3> QED
      BY <3>1, <3>3
  <2>4. s # << >>
    <3> SUFFICES ASSUME s = << >> PROVE FALSE
      OBVIOUS
    <3>1. m + n - k + 1 = 0
      BY <1>8
    <3>2. m + n \in 1..k - 1 /\ n \in 1..n
      BY <1>3, <1>8, <2>1, <3>1
    <3>3. d[m + n] = "0" /\ d[m + n] = fraction[n]
      BY <1>7, <1>8, <3>2
    <3>4. fraction # << >>
      BY <1>1, <2>1
    <3> QED
      BY <1>2, <3>3, <3>4
  <2>5. n <= MaxDigits
    BY <1>1 DEF WithinDigits
  <2>6. Len(s) \in Nat /\ MaxDigits \in Nat
    BY <1>8, DigitsAssumption
  <2> QED
    BY <1>1, <1>3, <1>5, <2>1, <2>3, <2>4, <2>5, <2>6 DEF WithinLimit
<1> QED
  BY <1>10, <1>11

\* which gives it back as it is.
LEMMA CanonicalStays ==
  ASSUME NEW whole, NEW fraction, IsPlain(whole, fraction), WithinDigits(whole, fraction),
         NEW negative \in BOOLEAN
  PROVE  LET t == Signed(negative, Spelled(whole, fraction))
         IN  /\ Canonical(t) = t /\ Negative(t) = negative /\ Places(t) \subseteq Int
             /\ \A p \in Int : DigitAt(t, p) = SplitDigit(whole, fraction, p)
<1>1. PICK u, t, n : u = Spelled(whole, fraction) /\ t = Signed(negative, u) /\ n = Len(fraction)
  OBVIOUS
<1>2. whole \in Seq(Digits) /\ whole # << >> /\ fraction \in Seq(Digits) /\ n \in Nat
  BY <1>1 DEF IsPlain
<1>3. PartsOf(t, negative, whole, fraction)
  BY <1>1, <1>2, SpelledParts
<1>4. t \in Seq(Chars)
  BY <1>1, <1>2, SpelledFirst, SpelledSigned
<1>5. Significant(t) # << >> /\ WithinLimit(t)
  BY <1>3, PlainIsSignificant
<1>6. PICK w, f : IsCanonical(t, w, f)
  BY <1>3, <1>4, <1>5, CanonicalIs DEF PartsOf
<1>7. IsRead(t, whole, fraction, -n)
  <2>1. -n \in Int
    BY <1>2
  <2> QED
    BY <1>1, <1>2, <1>3, <2>1 DEF PartsOf, IsRead
<1>8. /\ DigitsOf(t) = whole \o fraction /\ Places(t) \subseteq Int
      /\ \A p : DigitAt(t, p) = PlaceDigit(DigitsOf(t), -n, p)
  BY <1>7, DigitsRead
<1>9. ASSUME NEW p \in Int PROVE DigitAt(t, p) = SplitDigit(whole, fraction, p)
  <2>1. SameDigits(whole \o fraction, -Len(fraction), whole, fraction)
    BY <1>2, JoinPlaces
  <2>2. PlaceDigit(DigitsOf(t), -n, p) = SplitDigit(whole, fraction, p)
    BY <1>1, <1>8, <2>1 DEF SameDigits
  <2> QED
    BY <1>8, <2>2
<1>10. \A p \in Int : SplitDigit(w, f, p) = SplitDigit(whole, fraction, p)
  BY <1>6, <1>9 DEF IsCanonical
<1>11. w = whole /\ f = fraction
  BY <1>6, <1>10, OneSpelling DEF IsCanonical
<1>12. Canonical(t) = Signed(negative, Spelled(whole, fraction))
  BY <1>3, <1>6, <1>11 DEF IsCanonical, PartsOf
<1> QED
  BY <1>1, <1>3, <1>8, <1>9, <1>12 DEF PartsOf

\* What CanonicalDecimals says of one text.
LEMMA CanonicalHolds ==
  ASSUME NEW C, NEW t \in Seq(C), Canonical(t) # Invalid
  PROVE  LET c == Canonical(t)
         IN  /\ Plain(c) /\ SameNumber(t, c)
             /\ Cardinality({i \in DOMAIN c : c[i] \in Digits}) <= MaxDigits + 1
             /\ ValidDecimal(c)
<1>1. Unsigned(t) # << >> /\ ValidMantissa(t) /\ ValidExponent(t)
  BY DEF Canonical
<1>2. PICK w, f, e : IsRead(t, w, f, e)
  BY <1>1, AcceptedParts
<1>3. /\ DigitsOf(t) \in Seq(Digits) /\ Places(t) \subseteq Int /\ e \in Int
      /\ IsStripped(DigitsOf(t), First(DigitsOf(t), NonZero), Significant(t))
      /\ \A p : DigitAt(t, p) = PlaceDigit(DigitsOf(t), e, p)
  BY <1>2, DigitsRead
<1>4. Negative(t) \in BOOLEAN
  BY DEF Negative
<1>5. CASE Significant(t) = << >>
  <2>1. ~Negative(t) /\ Canonical(t) = <<"0">>
    BY <1>1, <1>5 DEF Canonical
  <2>2. PICK z : z = <<"0">>
    OBVIOUS
  <2>3. z \in Seq(Digits) /\ z # << >> /\ << >> \in Seq(Digits) /\ z[1] = "0" /\ Len(z) = 1
    BY <2>2, DigitChars
  <2>4. z = Signed(FALSE, Spelled(z, << >>))
    BY DEF Signed, Spelled
  <2>5. PartsOf(z, FALSE, z, << >>)
    BY <2>3, <2>4, SpelledParts
  <2>6. IsRead(z, z, << >>, -Len(<< >>))
    <3>1. -Len(<< >>) \in Int
      OBVIOUS
    <3> QED
      BY <2>3, <2>5, <3>1 DEF PartsOf, IsRead
  <2>7. /\ DigitsOf(z) \in Seq(Digits) /\ DigitsOf(z) = z \o << >> /\ Places(z) \subseteq Int
        /\ IsStripped(DigitsOf(z), First(DigitsOf(z), NonZero), Significant(z))
        /\ \A p : DigitAt(z, p) = PlaceDigit(DigitsOf(z), -Len(<< >>), p)
    BY <2>6, DigitsRead
  <2>8. Significant(z) = << >>
    <3>1. DigitsOf(z) = z
      BY <2>3, <2>7
    <3>2. PICK k, s : k = First(z, NonZero) /\ s = Significant(z)
      OBVIOUS
    <3>3. IsStripped(z, k, s)
      BY <2>7, <3>1, <3>2
    <3>4. /\ k \in 1..2 /\ s \in Seq(Digits) /\ Len(s) = 2 - k
          /\ \A i \in 1..Len(s) : s[i] = z[k + i - 1]
          /\ s # << >> => s[1] # "0"
      BY <2>3, <3>3 DEF IsStripped
    <3>5. k # 1
      <4> SUFFICES ASSUME k = 1 PROVE FALSE
        OBVIOUS
      <4>1. Len(s) = 1
        <5>1. 2 - 1 = 1
          OBVIOUS
        <5> QED
          BY <3>4, <5>1
      <4>2. s # << >>
        BY <4>1
      <4>3. s[1] = z[1]
        <5>1. 1 \in 1..Len(s) /\ k + 1 - 1 = 1
          BY <4>1
        <5> QED
          BY <3>4, <5>1
      <4> QED
        BY <2>3, <3>4, <4>2, <4>3
    <3>6. Len(s) = 0
      BY <3>4, <3>5
    <3> QED
      BY <3>2, <3>4, <3>6
  <2>9. ValidDecimal(z)
    <3>1. Canonical(z) = z
      BY <2>2, <2>5, <2>8 DEF Canonical, PartsOf
    <3> QED
      BY <2>1, <2>2, <3>1 DEF ValidDecimal
  <2>10. SameNumber(t, z)
    <3>1. ASSUME NEW d \in Seq(Digits), NEW k, IsStripped(d, k, << >>), NEW x \in Int, NEW p \in Int
          PROVE  PlaceDigit(d, x, p) = "0"
      <4>1. PlaceDigit(d, x, p) = PlaceDigit(<< >>, x, p)
        BY <3>1, StripPlaces
      <4>2. Len(<< >>) = 0 /\ p \notin x..x + 0 - 1
        OBVIOUS
      <4> QED
        BY <4>1, <4>2 DEF PlaceDigit
    <3>2. -Len(<< >>) \in Int
      OBVIOUS
    <3>3. ASSUME NEW p \in Places(t) \union Places(z) PROVE DigitAt(t, p) = DigitAt(z, p)
      <4>1. p \in Int
        BY <1>3, <2>7
      <4>2. DigitAt(t, p) = "0"
        BY <1>3, <1>5, <3>1, <4>1
      <4>3. DigitAt(z, p) = "0"
        BY <2>7, <2>8, <3>1, <3>2, <4>1
      <4> QED
        BY <4>2, <4>3
    <3>4. Negative(t) = Negative(z)
      BY <2>1, <2>5 DEF PartsOf, Negative
    <3> QED
      BY <3>3, <3>4 DEF SameNumber
  <2>11. WithinDigits(z, << >>)
    <3>1. Len(<< >>) = 0 /\ 0 <= MaxDigits
      BY DigitsAssumption
    <3> QED
      BY <2>2, <3>1 DEF WithinDigits
  <2>12. Cardinality({i \in DOMAIN z : z[i] \in Digits}) <= MaxDigits + 1
    BY <2>3, <2>4, <2>11, NumberOfDigits
  <2>13. Plain(z)
    BY <2>2, ZeroIsPlain
  <2> QED
    BY <2>1, <2>2, <2>9, <2>10, <2>12, <2>13
<1>6. CASE Significant(t) # << >>
  <2>1. WithinLimit(t)
    BY <1>1, <1>6 DEF Canonical
  <2>2. PICK whole, fraction : IsCanonical(t, whole, fraction)
    BY <1>1, <1>6, <2>1, CanonicalIs
  <2>3. PICK c : c = Canonical(t)
    OBVIOUS
  <2>4. /\ c = Signed(Negative(t), Spelled(whole, fraction))
        /\ IsPlain(whole, fraction) /\ WithinDigits(whole, fraction)
        /\ \A p \in Int : DigitAt(t, p) = SplitDigit(whole, fraction, p)
    BY <2>2, <2>3 DEF IsCanonical
  <2>5. Plain(c)
    BY <1>4, <2>4, PlainText
  <2>6. /\ Canonical(c) = c /\ Negative(c) = Negative(t) /\ Places(c) \subseteq Int
        /\ \A p \in Int : DigitAt(c, p) = SplitDigit(whole, fraction, p)
    BY <1>4, <2>4, CanonicalStays
  <2>7. SameNumber(t, c)
    <3>1. ASSUME NEW p \in Places(t) \union Places(c) PROVE DigitAt(t, p) = DigitAt(c, p)
      <4>1. p \in Int
        BY <1>3, <2>6
      <4> QED
        BY <2>4, <2>6, <4>1
    <3> QED
      BY <2>6, <3>1 DEF SameNumber
  <2>8. ValidDecimal(c)
    BY <2>3, <2>6 DEF ValidDecimal
  <2>9. Cardinality({i \in DOMAIN c : c[i] \in Digits}) <= MaxDigits + 1
    BY <1>4, <2>4, NumberOfDigits DEF IsPlain
  <2> QED
    BY <2>3, <2>5, <2>7, <2>8, <2>9
<1> QED
  BY <1>5, <1>6

-----------------------------------------------------------------------------
(* Keys of every length over every alphabet. *)

\* The prefix of a text is followed by a colon where it owns the text as a key.
LEMMA OwnerEndsAtColon ==
  ASSUME NEW S, NEW key \in Seq(S), NEW n \in 0..Len(key), ValidKey(SubSeq(key, 1, n), key)
  PROVE  n + 1 <= Len(key) /\ key[n + 1] = ":"
<1> DEFINE ns == SubSeq(key, 1, n)
           expected == Append(ns, ":")
<1>1. ns \in Seq(S) /\ Len(ns) = n
  OBVIOUS
<1>2. expected \in Seq(S \union {":"}) /\ Len(expected) = n + 1 /\ expected[n + 1] = ":"
  <2>1. ns \in Seq(S \union {":"})
    BY <1>1
  <2> HIDE DEF ns
  <2> QED BY <1>1, <2>1
<1>3. Len(expected) <= Len(key) /\ SubSeq(key, 1, Len(expected)) = expected
  BY DEF ValidKey, StartsWith
<1>4. SubSeq(key, 1, n + 1)[n + 1] = key[n + 1]
  BY <1>2, <1>3
<1> QED
  BY <1>2, <1>3, <1>4

\* A name that ends before another prefix of the text would put a colon into
\* that other name, which no name has.
LEMMA NoLongerOwner ==
  ASSUME NEW S, NEW key \in Seq(S), NEW m \in 0..Len(key), NEW n \in 0..Len(key), m < n,
         ValidKey(SubSeq(key, 1, m), key), ValidNamespace(SubSeq(key, 1, n))
  PROVE  FALSE
<1>1. key[m + 1] = ":"
  BY OwnerEndsAtColon
<1>2. m + 1 \in DOMAIN SubSeq(key, 1, n) /\ SubSeq(key, 1, n)[m + 1] = key[m + 1]
  OBVIOUS
<1>3. SubSeq(key, 1, n)[m + 1] \in Letters \union {"-"}
  BY <1>2 DEF ValidNamespace
<1> QED
  BY <1>1, <1>2, <1>3, LettersAssumption

\* Of two owners of a key neither is longer.
LEMMA OneOwner ==
  ASSUME NEW S, NEW key \in Seq(S), NEW n1 \in Owners(key), NEW n2 \in Owners(key)
  PROVE  n1 = n2
<1>1. PICK i \in 0..Len(key) : n1 = SubSeq(key, 1, i)
  BY DEF Owners
<1>2. PICK j \in 0..Len(key) : n2 = SubSeq(key, 1, j)
  BY DEF Owners
<1>3. /\ ValidNamespace(n1) /\ ValidKey(n1, key)
      /\ ValidNamespace(n2) /\ ValidKey(n2, key)
  BY DEF Owners
<1>4. ~(i < j) /\ ~(j < i)
  BY <1>1, <1>2, <1>3, NoLongerOwner
<1>5. i = j
  BY <1>4
<1> QED
  BY <1>1, <1>2, <1>5

-----------------------------------------------------------------------------
(* Texts of every length over every alphabet. *)

\* A text is of the alphabet of its kind; a file is of bytes and began as one
\* that was written.
TextType ==
  /\ kind \in TextKinds
  /\ kind # "snapshot" => input \in Seq(Alphabet[kind])
  /\ kind = "snapshot" =>
       /\ input \in Seq(Byte)
       /\ \E s \in Snapshots : origin = SnapshotToBinary(s)

\* What is on file is the bytes of a snapshot.
LEMMA SnapshotsTyped ==
  ASSUME NEW s \in Snapshots
  PROVE  SnapshotType(s) /\ SnapshotToBinary(s) \in Seq(Byte)
<1>1. SnapshotType(s)
  BY SnapshotsAssumption DEF IsSnapshot, SnapshotType, AllWellSized
<1> QED
  BY <1>1, SnapshotParts

\* Texts stay of their alphabet, and files of bytes.
LEMMA TextInductive == TextSpec => []TextType
<1>1. TextInit => TextType
  <2> SUFFICES ASSUME TextInit PROVE TextType
    OBVIOUS
  <2>1. CASE kind = "snapshot"
    BY <2>1, SnapshotsTyped DEF TextInit, TextType
  <2>2. CASE kind # "snapshot"
    BY <2>2 DEF TextInit, TextType
  <2> QED
    BY <2>1, <2>2
<1>2. TextType /\ [TextNext]_textVars => TextType'
  <2> SUFFICES ASSUME TextType, [TextNext]_textVars PROVE TextType'
    OBVIOUS
  <2>1. ASSUME NEW c \in Alphabet[kind], Write(c) PROVE TextType'
    <3>1. kind # "snapshot" /\ kind' = kind /\ input \in Seq(Alphabet[kind]) /\ kind \in TextKinds
      BY <2>1 DEF Write, TextType
    <3>2. input' \in Seq(Alphabet[kind])
      BY <2>1, <3>1 DEF Write
    <3> QED
      BY <3>1, <3>2 DEF TextType
  <2>2. CASE Damage
    <3>1. kind = "snapshot" /\ kind' = kind /\ origin' = origin /\ input \in Seq(Byte)
      BY <2>2 DEF Damage, TextType
    <3>2. Alphabet["snapshot"] \subseteq Byte
      BY AlphabetAssumption
    <3>3. input' \in Seq(Byte)
      <4>1. ASSUME NEW i \in DOMAIN input, NEW c \in Alphabet[kind], input' = [input EXCEPT ![i] = c]
            PROVE  input' \in Seq(Byte)
        <5>1. c \in Byte
          BY <3>1, <3>2
        <5> QED
          BY <3>1, <4>1, <5>1
      <4>2. ASSUME NEW n \in 0..Len(input), input' = SubSeq(input, 1, n)
            PROVE  input' \in Seq(Byte)
        BY <3>1, <4>2
      <4>3. ASSUME NEW c \in Alphabet[kind], input' = Append(input, c)
            PROVE  input' \in Seq(Byte)
        <5>1. c \in Byte
          BY <3>1, <3>2
        <5> QED
          BY <3>1, <4>3, <5>1
      <4> QED
        BY <2>2, <4>1, <4>2, <4>3 DEF Damage
    <3> QED
      BY <2>2, <3>1, <3>3 DEF TextType, TextKinds
  <2>3. CASE UNCHANGED textVars
    BY <2>3 DEF TextType, textVars
  <2> QED
    BY <2>1, <2>2, <2>3 DEF TextNext
<1> QED
  BY <1>1, <1>2, PTL DEF TextSpec

\* However long texts and names are and whatever they are made of, as long as
\* names have no colon in them, no text is a key of two tenants (validate_key,
\* validate_namespace).
THEOREM KeysHaveOneOwner == TextSpec => []KeyHasOneOwner
<1>1. TextType => KeyHasOneOwner
  <2> SUFFICES ASSUME TextType, kind = "key", NEW n1 \in Owners(input), NEW n2 \in Owners(input)
               PROVE  n1 = n2
    BY DEF KeyHasOneOwner
  <2>1. input \in Seq(Alphabet["key"])
    BY DEF TextType
  <2> QED
    BY <2>1, OneOwner
<1> QED
  BY <1>1, TextInductive, PTL

\* However long the text and whatever the digit limit: what canonicalize_decimal
\* accepts it turns into the one plain spelling of the same number, within the
\* limit and accepted by validate_decimal.
THEOREM DecimalsAreCanonical == TextSpec => []CanonicalDecimals
<1>1. TextType => CanonicalDecimals
  <2> SUFFICES ASSUME TextType, kind = "decimal", Canonical(input) # Invalid
               PROVE  LET c == Canonical(input)
                      IN  /\ Plain(c) /\ SameNumber(input, c)
                          /\ Cardinality({i \in DOMAIN c : c[i] \in Digits}) <= MaxDigits + 1
                          /\ ValidDecimal(c)
    BY DEF CanonicalDecimals
  <2>1. input \in Seq(Alphabet["decimal"])
    BY DEF TextType
  <2> QED
    BY <2>1, CanonicalHolds
<1> QED
  BY <1>1, TextInductive, PTL

\* Whatever bytes from_binary is given, of a map or of a snapshot file: what it
\* accepts is exactly what to_binary writes, and no file cut off or added to is
\* accepted.  A value other than null comes back from its log line.
THEOREM EncodingsAreCanonical == TextSpec => []CanonicalEncodings
<1>1. TextType => CanonicalEncodings
  <2> SUFFICES ASSUME TextType PROVE CanonicalEncodings
    OBVIOUS
  <2>1. ASSUME kind = "map", MapFromBinary(input, 1).ok
        PROVE  MapToBinary(MapFromBinary(input, 1).entries) = input
    <3>1. input \in Seq(Byte)
      BY <2>1, AlphabetAssumption DEF TextType
    <3>2. 1 \in 1..Len(input)
      <4>1. CanRead(input, 1, 1)
        BY <2>1 DEF MapFromBinary, Broken
      <4>2. 1 + 1 - 1 = 1
        OBVIOUS
      <4> QED
        BY <3>1, <4>1, <4>2 DEF CanRead
    <3>3. MapToBinary(MapFromBinary(input, 1).entries) = SubSeq(input, 1, Len(input))
      BY <2>1, <3>1, <3>2, MapReads
    <3>4. SubSeq(input, 1, Len(input)) = input
      BY <3>1
    <3> QED
      BY <3>3, <3>4
  <2>2. ASSUME kind = "snapshot", SnapshotFromBinary(input).ok
        PROVE  /\ SnapshotToBinary(SnapshotFromBinary(input)) = input
               /\ ~IsStrictPrefix(input, origin) /\ ~IsStrictPrefix(origin, input)
    <3>1. input \in Seq(Byte)
      BY <2>2 DEF TextType
    <3>2. PICK s \in Snapshots : origin = SnapshotToBinary(s)
      BY <2>2 DEF TextType
    <3>3. SnapshotType(s)
      BY SnapshotsTyped
    <3> QED
      BY <2>2, <3>1, <3>2, <3>3, SnapshotReads, NothingCutOff
  <2>3. ASSUME NEW v \in ValuesOf(kind, input), v.type # "null", Accepted(v)
        PROVE  ReadBack(v) = v
    <3>1. kind \in TextKinds /\ kind # "snapshot"
      <4>1. ValuesOf("snapshot", input) = {}
        BY DEF ValuesOf
      <4> QED
        BY <4>1 DEF TextType
    <3>2. input \in Seq(Alphabet[kind])
      BY <3>1 DEF TextType
    <3>3. kind = "bytes" => input \in Seq(0..255)
      <4> SUFFICES ASSUME kind = "bytes" PROVE input \in Seq(0..255)
        OBVIOUS
      <4>1. PICK B : B = 0..255
        OBVIOUS
      <4>2. Alphabet["bytes"] \subseteq B
        BY <4>1, AlphabetAssumption
      <4>3. input \in Seq(Alphabet["bytes"])
        BY <3>2
      <4>4. input \in Seq(B)
        BY <4>2, <4>3
      <4> QED
        BY <4>1, <4>4
    <3> QED
      BY <2>3, <3>1, <3>2, <3>3, ValuesReadBack
  <2> QED
    BY <2>1, <2>2, <2>3 DEF CanonicalEncodings
<1> QED
  BY <1>1, TextInductive, PTL
==============================================================================
