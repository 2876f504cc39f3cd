--------------------------- MODULE StateMapProofs ---------------------------
(***************************************************************************)
(* What batches of operations on state maps yield.  Induction over a batch *)
(* is induction over sets of numbers (Induction), which rests on the least *)
(* number of a set.                                                        *)
(***************************************************************************)
EXTENDS StateMap, WellFoundedInduction, TLAPS

\* Every set of numbers that is not empty has a least one.
LEMMA LeastNumber ==
  ASSUME NEW T, T \subseteq Nat, T # {}
  PROVE  \E x \in T : \A y \in T : x <= y
<1> DEFINE R == OpToRel(<, Nat)
<1>1. IsWellFoundedOn(R, Nat)
  BY NatLessThanWellFounded
<1>2. \A x, y \in Nat : x < y => <<x, y>> \in R
  BY DEF OpToRel
<1> HIDE DEF R
<1>3. PICK x \in T : \A y \in T : <<y, x>> \notin R
  BY <1>1, WFMin
<1>4. \A y \in T : ~(y < x)
  BY <1>2, <1>3
<1>5. \A y \in T : x <= y
  BY <1>4
<1> QED
  BY <1>5

\* A set of numbers that has 0 and with every number the next has them all.
LEMMA Induction ==
  ASSUME NEW S, 0 \in S, \A n \in Nat : n \in S => n + 1 \in S
  PROVE  \A n \in Nat : n \in S
<1> SUFFICES ASSUME NEW T, T = {n \in Nat : n \notin S}, T # {} PROVE FALSE
  OBVIOUS
<1>1. T \subseteq Nat
  OBVIOUS
<1>2. PICK x \in T : \A y \in T : x <= y
  BY <1>1, LeastNumber
<1>3. x \in Nat /\ x # 0
  OBVIOUS
<1>4. x - 1 \in Nat /\ ~(x <= x - 1) /\ (x - 1) + 1 = x
  BY <1>3
<1>5. x - 1 \in S
  BY <1>2, <1>4
<1> QED
  BY <1>4, <1>5

\* The empty map is a state map.
LEMMA EmptyMapType == EmptyMap \in StateMap
<1>1. EmptyMap \in [{} -> Values]
  BY SMT DEF EmptyMap
<1>2. {} \in SUBSET Key
  OBVIOUS
<1> QED
  BY <1>1, <1>2 DEF StateMap

\* A write or delete of one key of a state map gives a state map.
LEMMA ApplyOpType ==
  ASSUME NEW map \in StateMap, NEW op \in Op
  PROVE  ApplyOp(map, op) \in StateMap
<1>1. PICK D \in SUBSET Key : map \in [D -> Values]
  BY DEF StateMap
<1>2. op.key \in Key /\ op.val \in Values
  BY DEF Op
<1>3. Put(map, op.key, op.val) \in [D \union {op.key} -> Values]
  BY <1>1, <1>2, SMT DEF Put
<1>4. RemoveKey(map, op.key) \in [D \ {op.key} -> Values]
  BY <1>1, SMT DEF RemoveKey
<1>5. D \union {op.key} \in SUBSET Key /\ D \ {op.key} \in SUBSET Key
  BY <1>2
<1>6. Put(map, op.key, op.val) \in StateMap
  BY <1>3, <1>5 DEF StateMap
<1>7. RemoveKey(map, op.key) \in StateMap
  BY <1>4, <1>5 DEF StateMap
<1> QED
  BY <1>6, <1>7 DEF ApplyOp

\* f has the maps after the first 0, 1, ... n operations.
IsStaged(map, ops, n, f) ==
  f = [i \in 0..n |-> IF i = 0 THEN map ELSE ApplyOp(f[i - 1], ops[i])]

\* There is such a function, whatever the operations.
LEMMA StagedExists ==
  ASSUME NEW map, NEW ops, NEW n \in Nat
  PROVE  \E f : IsStaged(map, ops, n, f)
<1> DEFINE S == {m \in Nat : \E f : IsStaged(map, ops, m, f)}
<1>1. 0 \in S
  <2>1. IsStaged(map, ops, 0, [i \in 0..0 |-> map])
    BY DEF IsStaged
  <2> QED
    BY <2>1
<1>2. ASSUME NEW m \in Nat, m \in S PROVE m + 1 \in S
  <2>1. PICK f : IsStaged(map, ops, m, f)
    BY <1>2
  <2> DEFINE g == [i \in 0..m + 1 |-> IF i = m + 1 THEN ApplyOp(f[m], ops[m + 1]) ELSE f[i]]
  <2>2. ASSUME NEW i \in 0..m + 1
        PROVE  g[i] = IF i = 0 THEN map ELSE ApplyOp(g[i - 1], ops[i])
    <3>1. CASE i = m + 1
      <4>1. i # 0 /\ i - 1 = m /\ m \in 0..m + 1 /\ m # m + 1
        BY <3>1
      <4> QED
        BY <3>1, <4>1
    <3>2. CASE i # m + 1
      <4>1. i \in 0..m
        BY <3>2
      <4>2. f[i] = IF i = 0 THEN map ELSE ApplyOp(f[i - 1], ops[i])
        BY <2>1, <4>1 DEF IsStaged
      <4>3. i # 0 => i - 1 \in 0..m + 1 /\ i - 1 # m + 1
        BY <4>1
      <4> QED
        BY <3>2, <4>2, <4>3
    <3> QED
      BY <3>1, <3>2
  <2>3. IsStaged(map, ops, m + 1, g)
    BY <2>2 DEF IsStaged
  <2> HIDE DEF g
  <2> QED
    BY <2>3
<1> HIDE DEF S
<1>3. n \in S
  BY <1>1, <1>2, Induction
<1> QED
  BY <1>3 DEF S

\* Staged has the map after each operation of a batch.
LEMMA StagedSteps ==
  ASSUME NEW map, NEW ops, Len(ops) \in Nat
  PROVE  /\ Staged(map, ops)[0] = map
         /\ \A i \in 1..Len(ops) : Staged(map, ops)[i] = ApplyOp(Staged(map, ops)[i - 1], ops[i])
<1> DEFINE n == Len(ops)
           s == Staged(map, ops)
<1>1. IsStaged(map, ops, n, s)
  <2>1. \E f : IsStaged(map, ops, n, f)
    BY StagedExists
  <2>2. s = CHOOSE f : IsStaged(map, ops, n, f)
    BY DEF Staged, IsStaged
  <2> HIDE DEF s
  <2> QED
    BY <2>1, <2>2
<1> HIDE DEF s
<1>2. \A i \in 0..n : s[i] = IF i = 0 THEN map ELSE ApplyOp(s[i - 1], ops[i])
  BY <1>1 DEF IsStaged
<1>3. 0 \in 0..n /\ \A i \in 1..n : i \in 0..n /\ i # 0
  OBVIOUS
<1>4. s[0] = map /\ \A i \in 1..n : s[i] = ApplyOp(s[i - 1], ops[i])
  BY <1>2, <1>3, Zenon
<1> QED
  BY <1>4 DEF s

\* A batch on a state map gives a state map.
LEMMA AfterOpsType ==
  ASSUME NEW map \in StateMap, NEW ops \in Seq(Op)
  PROVE  AfterOps(map, ops) \in StateMap
<1> DEFINE s == Staged(map, ops)
           S == {i \in Nat : i <= Len(ops) => s[i] \in StateMap}
<1>1. /\ s[0] = map /\ Len(ops) \in Nat
      /\ \A i \in 1..Len(ops) : s[i] = ApplyOp(s[i - 1], ops[i])
  BY StagedSteps
<1> HIDE DEF s
<1>2. 0 \in S
  BY <1>1
<1>3. ASSUME NEW i \in Nat, i \in S PROVE i + 1 \in S
  <2> SUFFICES ASSUME i + 1 <= Len(ops) PROVE s[i + 1] \in StateMap
    OBVIOUS
  <2>1. i + 1 \in 1..Len(ops) /\ (i + 1) - 1 = i /\ i <= Len(ops)
    BY <1>1
  <2>2. s[i] \in StateMap /\ ops[i + 1] \in Op
    BY <1>3, <2>1
  <2>3. s[i + 1] = ApplyOp(s[i], ops[i + 1])
    BY <1>1, <2>1
  <2> QED
    BY <2>2, <2>3, ApplyOpType
<1>4. Len(ops) \in S
  <2> HIDE DEF S
  <2> QED
    BY <1>1, <1>2, <1>3, Induction
<1> QED
  BY <1>1, <1>4 DEF AfterOps, s

\* No operation changes nothing.
LEMMA AfterNoOps == \A map : AfterOps(map, << >>) = map
BY StagedSteps, Len(<< >>) = 0 DEF AfterOps

\* One more operation applies to what the ones before it leave.
LEMMA AfterOneMore ==
  ASSUME NEW X, NEW map, NEW ops \in Seq(X), NEW op \in X
  PROVE  AfterOps(map, Append(ops, op)) = ApplyOp(AfterOps(map, ops), op)
<1> DEFINE more == Append(ops, op)
           n == Len(ops)
           s == Staged(map, ops)
           t == Staged(map, more)
           S == {i \in Nat : i <= n => t[i] = s[i]}
<1>1. /\ n \in Nat /\ Len(more) = n + 1 /\ more[n + 1] = op
      /\ \A i \in 1..n : more[i] = ops[i]
  OBVIOUS
<1>2. s[0] = map /\ \A i \in 1..n : s[i] = ApplyOp(s[i - 1], ops[i])
  BY <1>1, StagedSteps
<1> HIDE DEF more
<1>3. t[0] = map /\ \A i \in 1..n + 1 : t[i] = ApplyOp(t[i - 1], more[i])
  BY <1>1, StagedSteps
<1> HIDE DEF s, t, n
<1>4. 0 \in S
  BY <1>2, <1>3
<1>5. ASSUME NEW i \in Nat, i \in S PROVE i + 1 \in S
  <2> SUFFICES ASSUME i + 1 <= n PROVE t[i + 1] = s[i + 1]
    OBVIOUS
  <2>1. i + 1 \in 1..n /\ i + 1 \in 1..n + 1 /\ (i + 1) - 1 = i /\ i <= n
    BY <1>1
  <2>2. t[i] = s[i] /\ more[i + 1] = ops[i + 1]
    BY <1>1, <1>5, <2>1
  <2>3. t[i + 1] = ApplyOp(t[i], more[i + 1]) /\ s[i + 1] = ApplyOp(s[i], ops[i + 1])
    BY <1>2, <1>3, <2>1
  <2> QED
    BY <2>2, <2>3
<1>6. n \in S
  <2> HIDE DEF S
  <2> QED
    BY <1>1, <1>4, <1>5, Induction
<1>7. n + 1 \in 1..n + 1 /\ (n + 1) - 1 = n
  BY <1>1
<1>8. t[n + 1] = ApplyOp(s[n], op)
  BY <1>1, <1>3, <1>6, <1>7
<1> QED
  BY <1>1, <1>8 DEF AfterOps, s, t, n, more
=============================================================================
