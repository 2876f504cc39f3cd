----------------------------- MODULE EventValue -----------------------------
(***************************************************************************)
(* How a value travels through the log: from the state map's type to a     *)
(* tagged JSON value (event.rs), to the text of a log line                 *)
(* (canonical_json.rs, hex.rs), and back.                                  *)
(***************************************************************************)
EXTENDS BinaryMap

CONSTANT NoValue

Value(type, text) == [type |-> type, text |-> text]
Json(kind, text) == [kind |-> kind, text |-> text]
Tag == [boolean |-> 1, integer |-> 2, decimal |-> 3, string |-> 4, bytes |-> 5, null |-> 6]

\* encode_hex; decode_hex reads pairs of digits.
HexDigit == Digit \o <<"a", "b", "c", "d", "e", "f">>
ToHex(bytes) ==
  [i \in 1..2 * Len(bytes) |->
     LET byte == bytes[(i + 1) \div 2]
     IN  HexDigit[1 + (IF i % 2 = 1 THEN byte \div 16 ELSE byte % 16)]]
Nibble(c) == CHOOSE n \in 0..15 : HexDigit[n + 1] = c
FromHex(t) == [i \in 1..Len(t) \div 2 |-> 16 * Nibble(t[2 * i - 1]) + Nibble(t[2 * i])]

\* bsm_value_to_event_value: tag and JSON of a value that passes validation.
ToJson(v) ==
  CASE v.type = "boolean" -> Json("bool", v.text)
    [] v.type = "integer" -> Json("number", v.text)
    [] v.type \in {"decimal", "string"} -> Json("string", v.text)
    [] v.type = "bytes" -> Json("string", ToHex(v.text))
    [] v.type = "null" -> Json("null", << >>)

\* event_value_to_bsm of a JSON value that is there; NoValue if it does not fit.
FromJson(tag, j) ==
  CASE tag = 1 /\ j.kind = "bool" -> Value("boolean", j.text)
    [] tag = 2 /\ j.kind = "number" -> Value("integer", j.text)
    [] tag = 3 /\ j.kind = "string" /\ ValidDecimal(j.text) -> Value("decimal", j.text)
    [] tag = 4 /\ j.kind = "string" -> Value("string", j.text)
    [] tag = 5 /\ j.kind = "string" -> Value("bytes", FromHex(j.text))
    [] tag = 6 /\ j.kind = "null" -> Value("null", << >>)
    [] OTHER -> NoValue

\* write_json_string: the characters that are escaped, and how.
Quote == "\""
Backslash == "\\"
NewLine == "\n"
TabStop == "\t"
Control == "^A"
Escape(c) ==
  CASE c \in {Quote, Backslash} -> <<Backslash, c>>
    [] c = NewLine -> <<Backslash, "n">>
    [] c = TabStop -> <<Backslash, "t">>
    [] c = Control -> <<Backslash, "u", "0", "0", "0", "1">>
    [] OTHER -> <<c>>
WriteString(t) ==
  LET written[i \in 0..Len(t)] == IF i = 0 THEN <<Quote>> ELSE written[i - 1] \o Escape(t[i])
  IN  written[Len(t)] \o <<Quote>>

\* What serde_json reads in a string: character after character, plain or
\* escaped, up to the first quote that is not, which must be the last character.
Unescape == [c \in {Quote, Backslash, "n", "t"} |->
               CASE c = "n" -> NewLine [] c = "t" -> TabStop [] OTHER -> c]
ReadChar(line, state) ==
  LET i == state.at
      n == Len(line)
      long == i < n /\ line[i] = Backslash /\ line[i + 1] = "u"
      short == i < n /\ line[i] = Backslash /\ line[i + 1] \in DOMAIN Unescape
  IN  IF i > n \/ line[i] = Quote THEN state
      ELSE [at |-> IF long THEN i + 6 ELSE IF short THEN i + 2 ELSE i + 1,
            text |-> Append(state.text, IF long THEN Control
                                        ELSE IF short THEN Unescape[line[i + 1]] ELSE line[i])]
ReadString(line) ==
  LET turn[k \in 0..Len(line)] ==
        IF k = 0 THEN [at |-> 2, text |-> << >>] ELSE ReadChar(line, turn[k - 1])
      end == turn[Len(line)]
  IN  [ok |-> end.at = Len(line), text |-> end.text]

\* to_canonical_string of the field: numbers are canonicalized as decimals.
WriteJson(j) ==
  CASE j.kind = "string" -> WriteString(j.text)
    [] j.kind = "number" -> Canonical(j.text)
    [] OTHER -> j.text

ReadJson(kind, line) ==
  IF kind = "string" THEN Json(kind, ReadString(line).text) ELSE Json(kind, line)

\* What append accepts: validate_payload_invariants of the event as built.
Accepted(v) == FromJson(Tag[v.type], ToJson(v)) # NoValue

\* The value replay finds in the event that load read; NoValue if it refuses it.
\* serde reads null in an Option<Value> field as if the field were not there.
ReadBack(v) ==
  LET kind == ToJson(v).kind
  IN  IF kind = "null" THEN NoValue
      ELSE FromJson(Tag[v.type], ReadJson(kind, WriteJson(ToJson(v))))
=============================================================================
