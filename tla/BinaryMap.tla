------------------------------ MODULE BinaryMap ------------------------------
(***************************************************************************)
(* The binary form of state maps and snapshots (state_map.rs), whose       *)
(* digest is the state root.  Every fixed width (counts, lengths, clocks,  *)
(* integers, digests) is one byte here; a byte is a small number.          *)
(***************************************************************************)
EXTENDS Decimal, Keys, FiniteSets

CONSTANTS
  CharOf,      \* the character a byte of a text stands for
  NotUtf8      \* the bytes that occur in no text

\* Any length fits into its field.
Byte == Nat

AsText(b) == [i \in DOMAIN b |-> CharOf[b[i]]]
IsUtf8(b) == \A i \in DOMAIN b : b[i] \notin NotUtf8

\* An entry of the map: key and payload are bytes.
Entry(key, tag, payload) == [key |-> key, tag |-> tag, payload |-> payload]

\* The byte order of keys, which is that of the BTreeMap.
KeyLess(a, b) ==
  \E i \in 1..Len(b) :
    /\ i - 1 <= Len(a) /\ SubSeq(a, 1, i - 1) = SubSeq(b, 1, i - 1)
    /\ i > Len(a) \/ a[i] < b[i]

Sized(tag) == tag \in {3, 4, 5}

\* encode_value_payload behind key and tag.
EncodeEntry(e) ==
  <<Len(e.key)>> \o e.key \o <<e.tag>>
    \o (IF Sized(e.tag) THEN <<Len(e.payload)>> ELSE << >>) \o e.payload

\* BinaryStateMap::to_binary of the entries in key order.
MapToBinary(entries) ==
  LET encoded[k \in 0..Len(entries)] ==
        IF k = 0 THEN <<Len(entries)>> ELSE encoded[k - 1] \o EncodeEntry(entries[k])
  IN  encoded[Len(entries)]

\* decode_value_payload: what a payload of the tag may be.
ValidPayload(tag, payload) ==
  CASE tag = 1 -> payload[1] \in {0, 1}
    [] tag = 3 -> IsUtf8(payload) /\ ValidDecimal(AsText(payload))
    [] tag = 4 -> IsUtf8(payload)
    [] OTHER -> tag \in {2, 5, 6}

\* The decoder at a position; Broken after an error.
Broken == [ok |-> FALSE, at |-> 0, entries |-> << >>]

\* read_exact: n bytes from position i.
CanRead(b, i, n) == i + n - 1 <= Len(b)
Bytes(b, i, n) == SubSeq(b, i, i + n - 1)

\* One turn of the loop of from_binary: key, order, tag, payload.
DecodeEntry(b, state) ==
  LET i == state.at
      key == Bytes(b, i + 1, b[i])
      j == i + 1 + b[i]
      start == IF Sized(b[j]) THEN j + 2 ELSE j + 1
      size == IF Sized(b[j]) THEN b[j + 1] ELSE IF b[j] \in {1, 2} THEN 1 ELSE 0
      payload == Bytes(b, start, size)
      n == Len(state.entries)
  IN  IF /\ state.ok /\ CanRead(b, i, 1) /\ CanRead(b, i + 1, b[i]) /\ IsUtf8(key)
         /\ n > 0 => KeyLess(state.entries[n].key, key)
         /\ CanRead(b, j, 1)
         /\ Sized(b[j]) => CanRead(b, j + 1, 1)
         /\ CanRead(b, start, size)
         /\ ValidPayload(b[j], payload)
      THEN [ok |-> TRUE, at |-> start + size,
            entries |-> Append(state.entries, Entry(key, b[j], payload))]
      ELSE Broken

Decoded(b, from) ==
  LET turn[k \in 0..b[from]] ==
        IF k = 0 THEN [ok |-> TRUE, at |-> from + 1, entries |-> << >>]
        ELSE DecodeEntry(b, turn[k - 1])
  IN  turn[b[from]]

\* A decoder that does not mind what follows the last entry.
MapFromBinary_Trailing(b, from) == IF CanRead(b, from, 1) THEN Decoded(b, from) ELSE Broken

\* BinaryStateMap::from_binary of the bytes from a position.
MapFromBinary(b, from) ==
  IF CanRead(b, from, 1) /\ Decoded(b, from).ok /\ Decoded(b, from).at = Len(b) + 1
  THEN Decoded(b, from) ELSE Broken

-----------------------------------------------------------------------------
(* Snapshots. *)

\* Stands for SHA-256; that it has collisions is of no account here.
Checksum(b) ==
  LET sum[i \in 0..Len(b)] == IF i = 0 THEN 1 ELSE (2 * sum[i - 1] + b[i]) % 7
  IN  sum[Len(b)]

OwnKeys(ns, entries) ==
  \A k \in DOMAIN entries : ValidKey(AsText(ns), AsText(entries[k].key))

\* StateSnapshot::to_binary
SnapshotToBinary(s) ==
  LET state == MapToBinary(s.entries)
  IN  <<Len(s.ns)>> \o s.ns \o <<s.tick, s.seq, s.ts, Checksum(state), s.seal>> \o state

\* What a snapshot of a state map is: keys in order, of the tenant, and payloads
\* of their tag and its size.
EntryType == [key: Seq(Byte), tag: 1..6, payload: Seq(Byte)]
WellSized(e) == Sized(e.tag) \/ Len(e.payload) = IF e.tag = 6 THEN 0 ELSE 1
IsSnapshot(s) ==
  /\ s.ns \in Seq(Byte) /\ IsUtf8(s.ns)
  /\ s.tick \in Byte /\ s.seq \in Byte /\ s.ts \in Byte /\ s.seal \in Byte
  /\ s.entries \in Seq(EntryType)
  /\ \A k \in DOMAIN s.entries :
       LET e == s.entries[k]
       IN  IsUtf8(e.key) /\ WellSized(e) /\ ValidPayload(e.tag, e.payload)
  /\ \A k \in 2..Len(s.entries) : KeyLess(s.entries[k - 1].key, s.entries[k].key)
  /\ OwnKeys(s.ns, s.entries)

NoSnapshot == [ok |-> FALSE]

\* StateSnapshot::from_binary: the root is computed again from the state.
SnapshotFromBinary(b) ==
  LET n == IF b = << >> THEN 0 ELSE b[1]
      state == MapFromBinary(b, n + 7)
  IN  IF /\ CanRead(b, 1, n + 6) /\ IsUtf8(Bytes(b, 2, n))
         /\ state.ok /\ OwnKeys(Bytes(b, 2, n), state.entries)
         /\ b[n + 5] = Checksum(MapToBinary(state.entries))
      THEN [ok |-> TRUE, ns |-> Bytes(b, 2, n), tick |-> b[n + 2], seq |-> b[n + 3],
            ts |-> b[n + 4], seal |-> b[n + 6], entries |-> state.entries]
      ELSE NoSnapshot
=============================================================================
