------------------------------ MODULE Encodings ------------------------------
(***************************************************************************)
(* The text algorithms of TRI-SYNC on every input up to a length: texts of *)
(* decimals, keys, strings, bytes and binary maps are written symbol by    *)
(* symbol; snapshot files start whole and are damaged; booleans and null   *)
(* have no text.                                                           *)
(***************************************************************************)
EXTENDS EventValue

CONSTANTS
  Alphabet,     \* the symbols of the texts of each kind
  MaxText,      \* bound: their length
  Snapshots,    \* snapshots that are on file
  MaxDamage     \* bound: changes to a file

\* Texts of bytes are of bytes, and what is on file was written from a snapshot.
ASSUME AlphabetAssumption ==
  /\ Alphabet["bytes"] \subseteq 0..255
  /\ Alphabet["map"] \subseteq Byte /\ Alphabet["snapshot"] \subseteq Byte
ASSUME SnapshotsAssumption == \A s \in Snapshots : IsSnapshot(s)

TextKinds == {"decimal", "key", "string", "bytes", "map", "snapshot", "other"}

VARIABLES
  kind,      \* what the text is of
  input,     \* the text, or the file
  origin,    \* the file before it was damaged
  damage     \* how often it was damaged

textVars == <<kind, input, origin, damage>>

TextInit ==
  /\ kind \in TextKinds
  /\ origin \in IF kind = "snapshot" THEN {SnapshotToBinary(s) : s \in Snapshots} ELSE {<< >>}
  /\ input = origin
  /\ damage = 0

Write(c) ==
  /\ kind # "snapshot"
  /\ Len(input) < MaxText[kind]
  /\ input' = Append(input, c)
  /\ UNCHANGED <<kind, origin, damage>>

\* A file that was changed, cut off or added to.
Damage ==
  /\ kind = "snapshot"
  /\ damage < MaxDamage
  /\ damage' = damage + 1
  /\ \/ \E i \in DOMAIN input, c \in Alphabet[kind] : input' = [input EXCEPT ![i] = c]
     \/ \E n \in 0..Len(input) : input' = SubSeq(input, 1, n)
     \/ \E c \in Alphabet[kind] : input' = Append(input, c)
  /\ UNCHANGED <<kind, origin>>

TextNext == (\E c \in Alphabet[kind] : Write(c)) \/ Damage

TextSpec == TextInit /\ [][TextNext]_textVars

-----------------------------------------------------------------------------
(* Decimals. *)

\* The number a text stands for: its sign, and its digit at each power of ten.
\* Zero has no negative spelling.
DigitsOf(t) == IntPart(t) \o FracPart(t)
Places(t) == Shift(t)..Shift(t) + Len(DigitsOf(t)) - 1
DigitAt(t, p) ==
  IF p \in Places(t) THEN DigitsOf(t)[Len(DigitsOf(t)) - (p - Shift(t))] ELSE "0"
SameNumber(s, t) ==
  /\ Negative(s) = Negative(t)
  /\ \A p \in Places(s) \union Places(t) : DigitAt(s, p) = DigitAt(t, p)

\* No other text in this form stands for the same number.
Plain(t) ==
  LET u == Unsigned(t)
      point == First(u, {"."})
  IN  /\ \A i \in DOMAIN u : u[i] \in Digits \/ i = point
      /\ u[1] = "0" => point = 2 \/ t = <<"0">>
      /\ point # 1 /\ point # Len(u)
      /\ point < Len(u) => u[Len(u)] # "0"

\* Whatever spelling of a number canonicalize_decimal accepts, it gives the one
\* plain spelling of that number, within the digit limit, and validate_decimal
\* accepts what it gives: equal numbers have equal digests.
CanonicalDecimals ==
  kind = "decimal" /\ Canonical(input) # Invalid =>
    LET c == Canonical(input)
    IN  /\ Plain(c) /\ SameNumber(input, c)
        /\ Cardinality({i \in DOMAIN c : c[i] \in Digits}) <= MaxDigits + 1
        /\ ValidDecimal(c)

-----------------------------------------------------------------------------
(* Keys. *)

Owners(key) == {ns \in {SubSeq(key, 1, n) : n \in 0..Len(key)} :
                  ValidNamespace(ns) /\ ValidKey(ns, key)}

\* No text is a key of two tenants: a namespace that begins like another, or
\* that has the other's separator in it, cannot reach into its keys.
KeyHasOneOwner == kind = "key" => \A n1, n2 \in Owners(input) : n1 = n2

-----------------------------------------------------------------------------
(* Reading what was written. *)

\* The values a text is the payload of.
ValuesOf(k, t) ==
  IF k = "string" THEN {Value("string", t)}
  ELSE IF k = "bytes" THEN {Value("bytes", t)}
  ELSE IF k = "decimal" /\ ValidDecimal(t)
  THEN {Value("decimal", t)}
         \union {Value("integer", s) : s \in {u \in {t} : "." \notin {u[i] : i \in DOMAIN u}}}
  ELSE IF k = "other"
  THEN {Value("null", << >>), Value("boolean", <<"true">>), Value("boolean", <<"false">>)}
  ELSE {}

\* What decodes has one binary form: a file that from_binary accepts is the one
\* to_binary writes for the map or the snapshot read from it, so a state has one
\* root, a file cut off or added to is refused, and a changed byte is refused or
\* shows in the snapshot.  A value other than null comes back from the log.
CanonicalEncodings ==
  /\ kind = "map" /\ MapFromBinary(input, 1).ok =>
       MapToBinary(MapFromBinary(input, 1).entries) = input
  /\ kind = "snapshot" /\ SnapshotFromBinary(input).ok =>
       /\ SnapshotToBinary(SnapshotFromBinary(input)) = input
       /\ ~IsStrictPrefix(input, origin) /\ ~IsStrictPrefix(origin, input)
  /\ \A v \in ValuesOf(kind, input) : v.type # "null" /\ Accepted(v) => ReadBack(v) = v

\* Every value an append accepts is the value replay finds in the log.
EventReadsBack == \A v \in ValuesOf(kind, input) : Accepted(v) => ReadBack(v) = v
=============================================================================
