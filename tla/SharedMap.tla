----------------------------- MODULE SharedMap -----------------------------
(***************************************************************************)
(* TransactionalStateMap (src/src/state_map.rs): a state map that threads  *)
(* share behind a mutex.  apply_batch runs a closure on a copy and puts    *)
(* the copy in place when the closure returns Ok; lock() hands the map     *)
(* itself out; snapshot() copies it.  A closure is whatever sequence of    *)
(* set and delete its caller chose, which may go on after an error, give   *)
(* up or panic at any point.                                               *)
(***************************************************************************)
EXTENDS StateMap

CONSTANTS
  Threads,
  NoThread,
  Ops,       \* bound: the operations closures are made of
  MaxOps,    \* bound: operations of one closure
  MaxCalls   \* bound: calls of the map

ASSUME NoThreadAssumption == NoThread \notin Threads
ASSUME SharedOpAssumption == Ops \subseteq Op
ASSUME CallAssumption == MaxOps \in Nat /\ MaxCalls \in Nat

VARIABLES
  map,      \* the map behind the mutex
  holder,   \* the thread that has the mutex
  poisoned, \* a thread panicked while it had it
  thread,   \* what each thread is doing
  history,  \* the operations that took effect, call by call, in their order
  calls

vars == <<map, holder, poisoned, thread, history, calls>>

\* pc of a thread: "idle", "batch", "guard" or "snapshot" (called), "staging"
\* and "editing" (in the closure, with the copy or the map), "got" (snapshot
\* returned `copy`).  `done` has the operations that succeeded, `since` is the
\* length of the history when the call was made.
Idle == [pc |-> "idle", copy |-> EmptyMap, done |-> << >>, tried |-> 0, since |-> 0]

Init ==
  /\ map = EmptyMap
  /\ holder = NoThread
  /\ poisoned = FALSE
  /\ thread = [t \in Threads |-> Idle]
  /\ history = << >>
  /\ calls = 0

\* Any of the three methods is called.
Call(t) ==
  /\ thread[t].pc = "idle"
  /\ calls < MaxCalls
  /\ calls' = calls + 1
  /\ \E method \in {"batch", "guard", "snapshot"} :
       thread' = [thread EXCEPT ![t] = [Idle EXCEPT !.pc = method, !.since = Len(history)]]
  /\ UNCHANGED <<map, holder, poisoned, history>>

\* lock() fails once the mutex is poisoned: STATE_LOCK_POISON.
RefuseLock(t) ==
  /\ thread[t].pc \in {"batch", "guard", "snapshot"}
  /\ holder = NoThread
  /\ poisoned
  /\ thread' = [thread EXCEPT ![t] = Idle]
  /\ UNCHANGED <<map, holder, poisoned, history, calls>>

\* apply_batch takes the lock and copies the map.
BeginBatch(t) ==
  /\ thread[t].pc = "batch"
  /\ holder = NoThread
  /\ ~poisoned
  /\ holder' = t
  /\ thread' = [thread EXCEPT ![t].pc = "staging", ![t].copy = map]
  /\ UNCHANGED <<map, poisoned, history, calls>>

\* A caller of lock() has the guard.
BeginGuard(t) ==
  /\ thread[t].pc = "guard"
  /\ holder = NoThread
  /\ ~poisoned
  /\ holder' = t
  /\ thread' = [thread EXCEPT ![t].pc = "editing"]
  /\ UNCHANGED <<map, poisoned, history, calls>>

\* A copy that is made without the lock.
Snapshot_Unlocked(t) ==
  /\ thread[t].pc = "snapshot"
  /\ thread' = [thread EXCEPT ![t].pc = "got", ![t].copy = map]
  /\ UNCHANGED <<map, holder, poisoned, history, calls>>

\* snapshot(): lock, copy, unlock.
Snapshot(t) ==
  /\ thread[t].pc = "snapshot"
  /\ holder = NoThread
  /\ ~poisoned
  /\ thread' = [thread EXCEPT ![t].pc = "got", ![t].copy = map]
  /\ UNCHANGED <<map, holder, poisoned, history, calls>>

\* BinaryStateMap::set and delete: both check the key against the namespace
\* given, set also the type; a delete of a missing key is fine.
Accepts(target, ns, op) ==
  /\ OwnKey(ns, op.key)
  /\ op.kind = "write" => Applicable(target, op)

\* A batch that works on the map itself.
StageOp_InPlace(t) ==
  /\ thread[t].pc = "staging"
  /\ thread[t].tried < MaxOps
  /\ \E ns \in Namespaces, op \in Ops :
       IF Accepts(map, ns, op)
       THEN /\ map' = ApplyOp(map, op)
            /\ thread' = [thread EXCEPT ![t].copy = map', ![t].done = Append(@, op),
                                        ![t].tried = @ + 1]
       ELSE thread' = [thread EXCEPT ![t].tried = @ + 1] /\ UNCHANGED map
  /\ UNCHANGED <<holder, poisoned, history, calls>>

\* The closure of a batch calls set or delete on the copy.
StageOp(t) ==
  /\ thread[t].pc = "staging"
  /\ thread[t].tried < MaxOps
  /\ \E ns \in Namespaces, op \in Ops :
       IF Accepts(thread[t].copy, ns, op)
       THEN thread' = [thread EXCEPT ![t].copy = ApplyOp(@, op), ![t].done = Append(@, op),
                                     ![t].tried = @ + 1]
       ELSE thread' = [thread EXCEPT ![t].tried = @ + 1]
  /\ UNCHANGED <<map, holder, poisoned, history, calls>>

\* The user of a guard does so on the map.
EditOp(t) ==
  /\ thread[t].pc = "editing"
  /\ thread[t].tried < MaxOps
  /\ \E ns \in Namespaces, op \in Ops :
       IF Accepts(map, ns, op)
       THEN /\ map' = ApplyOp(map, op)
            /\ thread' = [thread EXCEPT ![t].done = Append(@, op), ![t].tried = @ + 1]
       ELSE thread' = [thread EXCEPT ![t].tried = @ + 1] /\ UNCHANGED map
  /\ UNCHANGED <<holder, poisoned, history, calls>>

\* The closure returns Ok: the copy becomes the map.
Commit(t) ==
  /\ thread[t].pc = "staging"
  /\ map' = thread[t].copy
  /\ history' = Append(history, thread[t].done)
  /\ holder' = NoThread
  /\ thread' = [thread EXCEPT ![t] = Idle]
  /\ UNCHANGED <<poisoned, calls>>

\* The closure returns Err: the copy is dropped.
Abandon(t) ==
  /\ thread[t].pc = "staging"
  /\ holder' = NoThread
  /\ thread' = [thread EXCEPT ![t] = Idle]
  /\ UNCHANGED <<map, poisoned, history, calls>>

\* The guard is dropped.
EndGuard(t) ==
  /\ thread[t].pc = "editing"
  /\ history' = Append(history, thread[t].done)
  /\ holder' = NoThread
  /\ thread' = [thread EXCEPT ![t] = Idle]
  /\ UNCHANGED <<map, poisoned, calls>>

\* A panic unwinds through the guard and poisons the mutex.
Panic(t) ==
  /\ thread[t].pc \in {"staging", "editing"}
  /\ history' = IF thread[t].pc = "editing" THEN Append(history, thread[t].done) ELSE history
  /\ holder' = NoThread
  /\ poisoned' = TRUE
  /\ thread' = [thread EXCEPT ![t] = Idle]
  /\ UNCHANGED <<map, calls>>

\* The caller of snapshot is done with what it got.
Return(t) ==
  /\ thread[t].pc = "got"
  /\ thread' = [thread EXCEPT ![t] = Idle]
  /\ UNCHANGED <<map, holder, poisoned, history, calls>>

Next ==
  \E t \in Threads :
    \/ Call(t) \/ RefuseLock(t) \/ BeginBatch(t) \/ BeginGuard(t) \/ Snapshot(t)
    \/ StageOp(t) \/ EditOp(t) \/ Commit(t) \/ Abandon(t) \/ EndGuard(t)
    \/ Panic(t) \/ Return(t)

Spec == Init /\ [][Next]_vars

-----------------------------------------------------------------------------

\* The map after the first n of some calls.
MapAfter(called, n) ==
  LET after[i \in 0..n] ==
        IF i = 0 THEN EmptyMap ELSE AfterOps(after[i - 1], called[i])
  IN  after[n]
MapAfterCalls(n) == MapAfter(history, n)

\* What the user of the guard has done so far.
Editing == IF holder = NoThread \/ thread[holder].pc # "editing" THEN << >> ELSE thread[holder].done

\* At every moment the map is the committed batches and the direct edits, one
\* after the other in the order of the calls: a batch under way, given up or
\* cut short by a panic shows nothing, and none undoes another.
BatchesSerial == map = AfterOps(MapAfterCalls(Len(history)), Editing)

\* A snapshot is the map after some whole calls, with all those that had taken
\* effect when it was asked for.
ReadsLinear ==
  \A t \in Threads :
    thread[t].pc = "got" =>
      \E n \in thread[t].since..Len(history) : thread[t].copy = MapAfterCalls(n)
=============================================================================
