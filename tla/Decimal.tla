------------------------------- MODULE Decimal -------------------------------
(***************************************************************************)
(* Decimal canonicalization (decimal.rs).  A text is a sequence of one-    *)
(* character strings.                                                      *)
(***************************************************************************)
EXTENDS Integers, Sequences, SequencesExt

CONSTANTS
  MaxDigits,     \* MAX_DECIMAL_DIGITS
  MaxExponent    \* the largest exponent an i64 holds

\* Exponents the parser lets through go beyond what the digit limit allows.
ASSUME DigitsAssumption ==
  MaxDigits \in Nat \ {0} /\ MaxExponent \in Nat /\ MaxExponent > MaxDigits

Digit == <<"0", "1", "2", "3", "4", "5", "6", "7", "8", "9">>
Digits == {Digit[i] : i \in DOMAIN Digit}
AllDigits(t) == \A i \in DOMAIN t : t[i] \in Digits
Number(t) ==
  LET value[i \in 0..Len(t)] ==
        IF i = 0 THEN 0 ELSE 10 * value[i - 1] + (CHOOSE d \in 0..9 : Digit[d + 1] = t[i])
  IN  value[Len(t)]
Zeros(n) == [i \in 1..n |-> "0"]

\* The first position of a character of S, or one past the end.
First(t, S) ==
  CHOOSE i \in 1..Len(t) + 1 :
    /\ i <= Len(t) => t[i] \in S
    /\ \A j \in 1..i - 1 : t[j] \notin S
Until(t, i) == SubSeq(t, 1, i - 1)
Beyond(t, i) == SubSeq(t, i + 1, Len(t))

Negative(t) == t # << >> /\ t[1] = "-"
Unsigned(t) == IF Negative(t) THEN Tail(t) ELSE t

\* split_once of the unsigned text at the exponent sign.
Mantissa(t) == Until(Unsigned(t), First(Unsigned(t), {"e", "E"}))
HasExponent(t) == Mantissa(t) # Unsigned(t)
ExponentPart(t) == Beyond(Unsigned(t), First(Unsigned(t), {"e", "E"}))

\* parse_exponent
ExponentDigits(t) ==
  LET e == ExponentPart(t) IN IF e # << >> /\ e[1] \in {"-", "+"} THEN Tail(e) ELSE e
ValidExponent(t) ==
  HasExponent(t) =>
    /\ ExponentDigits(t) # << >> /\ AllDigits(ExponentDigits(t))
    /\ Number(ExponentDigits(t)) <= MaxExponent
Exponent(t) ==
  IF ~HasExponent(t) THEN 0
  ELSE IF ExponentPart(t)[1] = "-" THEN -Number(ExponentDigits(t))
  ELSE Number(ExponentDigits(t))

\* parse_mantissa
IntPart(t) == Until(Mantissa(t), First(Mantissa(t), {"."}))
FracPart(t) == Beyond(Mantissa(t), First(Mantissa(t), {"."}))
ValidMantissa(t) ==
  /\ IntPart(t) # << >>
  /\ AllDigits(IntPart(t)) /\ AllDigits(FracPart(t))
  /\ Mantissa(t)[Len(Mantissa(t))] # "."

\* All the digits without leading zeros, and the power of ten they count.
Significant(t) ==
  LET digits == IntPart(t) \o FracPart(t)
  IN  SubSeq(digits, First(digits, Digits \ {"0"}), Len(digits))
Shift(t) == Exponent(t) - Len(FracPart(t))

\* The limit before the zeros of the shift are written out.
WithinLimit_Significant(t) == Len(Significant(t)) <= MaxDigits

\* No more digits than the limit, written out or not.
WithinLimit(t) ==
  LET n == Len(Significant(t))
  IN  /\ n <= MaxDigits
      /\ IF Shift(t) >= 0 THEN n + Shift(t) <= MaxDigits ELSE -Shift(t) <= MaxDigits

\* The value without its exponent.
WrittenOut(t) ==
  LET digits == Significant(t)
      places == -Shift(t)
      n == Len(digits)
  IN  IF places <= 0 THEN digits \o Zeros(-places)
      ELSE IF n > places
      THEN SubSeq(digits, 1, n - places) \o <<".">> \o SubSeq(digits, n - places + 1, n)
      ELSE <<"0", ".">> \o Zeros(places - n) \o digits

\* A fraction that keeps its last zeros.
TrimFraction_Not(t) == t

\* trim_end_matches('0') of the fraction, and the point with it when all goes.
TrimFraction(t) ==
  LET point == First(t, {"."})
      kept == CHOOSE k \in point..Len(t) :
                /\ k > point => t[k] # "0"
                /\ \A j \in k + 1..Len(t) : t[j] = "0"
  IN  IF point > Len(t) THEN t ELSE SubSeq(t, 1, IF kept = point THEN point - 1 ELSE kept)

Invalid == <<"invalid">>

\* canonicalize_decimal, or Invalid.  A sign, white space or a second exponent
\* fails the digit checks; the checks after the trim can no longer fail.
Canonical(t) ==
  IF Unsigned(t) = << >> \/ ~ValidMantissa(t) \/ ~ValidExponent(t) THEN Invalid
  ELSE IF Significant(t) = << >> THEN IF Negative(t) THEN Invalid ELSE <<"0">>
  ELSE IF ~WithinLimit(t) THEN Invalid
  ELSE (IF Negative(t) THEN <<"-">> ELSE << >>) \o TrimFraction(WrittenOut(t))

\* validate_decimal
ValidDecimal(t) == Canonical(t) = t /\ t # Invalid
=============================================================================
