----------------------------- MODULE ValueCodec -----------------------------
(***************************************************************************)
(* The canonical texts of decimals, timestamps and primary keys. Identity,   *)
(* ordering and digests all use the canonical text, so two inputs must share *)
(* it exactly when they stand for the same value. The model canonicalizes    *)
(* two inputs of one kind and compares what comes out.                       *)
(*                                                                           *)
(* Source: packages/value-codec/src/scalars.ts, primary-key.ts, property.ts. *)
(*                                                                           *)
(* Abstractions: a decimal text is its sign and its two digit strings; the   *)
(* pattern's refusals (exponents, leading zeroes) are the shape of the       *)
(* inputs. A timestamp has minutes as its finest part: seconds and their     *)
(* fraction are copied. A key text is a sequence of one-byte characters, of  *)
(* which Fold maps each to its upper case.                                   *)
(***************************************************************************)
EXTENDS Integers, Sequences, SequencesExt, FiniteSets

CONSTANTS
  Digits,      \* the digits decimal texts are made of
  Formats,     \* pairs <<precision, scale>>
  Dates,       \* the dates of the timestamps
  Clocks,      \* pairs <<hour, minute>>
  Offsets,     \* zone offsets in minutes, as signed numbers
  KeyTexts,    \* the texts of key components
  Fold(_),     \* the upper case of a character
  KeyWidth     \* the components of a key

VARIABLES
  kind,      \* "decimal", "timestamp", "key"
  inputs,    \* a pair of inputs of that kind
  schema,    \* the decimal format; the case rules of the key's components
  outputs    \* a pair of canonical texts, <<>> before it is known; a refused input has none

vars == <<kind, inputs, schema, outputs>>

Refusal == <<>>

(* ----- the calendar ---------------------------------------------------- *)

(* year % 4 === 0 && (year % 100 !== 0 || year % 400 === 0). *)
IsLeapYear(year) ==
  /\ year % 4 = 0
  /\ year % 100 # 0 \/ year % 400 = 0

DaysInMonth(year, month) ==
  IF month = 2 THEN (IF IsLeapYear(year) THEN 29 ELSE 28)
  ELSE IF month \in {4, 6, 9, 11} THEN 30 ELSE 31

(* canonicalizeDate: a real date of the years 0001 to 9999 (four digits). *)
IsDate(date) ==
  /\ date[1] \in 1..9999
  /\ date[2] \in 1..12
  /\ date[3] \in 1..DaysInMonth(date[1], date[2])

(* daysFromCivil: years are counted from March in eras of 400. *)
DaysFromCivil(date) ==
  LET year == date[1] - (IF date[2] <= 2 THEN 1 ELSE 0)
      era == year \div 400
      yearOfEra == year - era * 400
      adjustedMonth == date[2] + (IF date[2] > 2 THEN -3 ELSE 9)
      dayOfYear == (153 * adjustedMonth + 2) \div 5 + date[3] - 1
  IN  era * 146097 + yearOfEra * 365 + yearOfEra \div 4 - yearOfEra \div 100
        + dayOfYear - 719468

(* civilFromDays, the inverse. *)
CivilFromDays(days) ==
  LET shifted == days + 719468
      era == shifted \div 146097
      dayOfEra == shifted - era * 146097
      yearOfEra == (dayOfEra - dayOfEra \div 1460 + dayOfEra \div 36524
                     - dayOfEra \div 146096) \div 365
      dayOfYear == dayOfEra - (365 * yearOfEra + yearOfEra \div 4 - yearOfEra \div 100)
      monthPrime == (5 * dayOfYear + 2) \div 153
      month == monthPrime + (IF monthPrime < 10 THEN 3 ELSE -9)
  IN  << yearOfEra + era * 400 + (IF month <= 2 THEN 1 ELSE 0), month,
         dayOfYear - (153 * monthPrime + 2) \div 5 + 1 >>

(* ----- decimals ------------------------------------------------------- *)

IntegerParts == {<<d>> : d \in Digits} \cup {<<d, e>> : d \in Digits \ {0}, e \in Digits}

DecimalTexts ==
  [neg : BOOLEAN, int : IntegerParts, frac : UNION {[1..n -> Digits] : n \in 0..2}]

(* The number in hundredths (a decimal text has at most two fraction digits). *)
Hundredths(text) ==
  LET int == IF Len(text.int) = 1 THEN text.int[1] ELSE 10 * text.int[1] + text.int[2]
      digit(i) == IF i <= Len(text.frac) THEN text.frac[i] ELSE 0
      abs == 100 * int + 10 * digit(1) + digit(2)
  IN  IF text.neg THEN -abs ELSE abs

(* validateDecimalFormat with its limits of 38 and 18. *)
ValidFormat(format) ==
  /\ format[1] \in 1..38
  /\ format[2] \in 0..18
  /\ format[2] <= format[1]

FitsFormat(text, format) ==
  /\ Len(text.frac) <= format[2]
  /\ (IF text.int = <<0>> THEN 0 ELSE Len(text.int)) <= format[1] - format[2]

CanonicalizeDecimal(text, format) ==
  IF ~ValidFormat(format) \/ ~FitsFormat(text, format) THEN Refusal
  ELSE LET padded == [i \in 1..format[2] |-> IF i <= Len(text.frac) THEN text.frac[i] ELSE 0]
           isZero == text.int = <<0>> /\ \A i \in 1..format[2] : padded[i] = 0
       IN  <<[neg |-> text.neg /\ ~isZero, int |-> text.int, frac |-> padded]>>

(* compareCanonicalDecimals: both are brought to the larger scale. *)
CompareDecimals(left, right) ==
  LET scale == IF Len(left.frac) > Len(right.frac) THEN Len(left.frac) ELSE Len(right.frac)
      unscaled(t) == Hundredths(t) \div (IF Len(t.frac) = 0 THEN 100 ELSE IF Len(t.frac) = 1 THEN 10 ELSE 1)
      power(n) == IF n = 0 THEN 1 ELSE IF n = 1 THEN 10 ELSE 100
      l == unscaled(left) * power(scale - Len(left.frac))
      r == unscaled(right) * power(scale - Len(right.frac))
  IN  IF l < r THEN -1 ELSE IF l > r THEN 1 ELSE 0

(* ----- timestamps ----------------------------------------------------- *)

Timestamps == [date : Dates, clock : Clocks, offset : Offsets]

(* The minute an input names, as <<day number, minute of the day>> in UTC. *)
Instant(t) ==
  LET minutes == 60 * t.clock[1] + t.clock[2] - t.offset
  IN  << DaysFromCivil(t.date) + minutes \div 1440, minutes % 1440 >>

(* formatUtcTimestamp: floor division gives the day, also before 1970. *)
FormatUtc(t) ==
  << CivilFromDays(Instant(t)[1]), <<Instant(t)[2] \div 60, Instant(t)[2] % 60>> >>

(* The local date and the clock must exist and the offset lie within 14      *)
(* hours; the year is tested again after the change to UTC.                  *)
CanonicalizeTimestamp(t) ==
  IF \/ ~IsDate(t.date)
     \/ t.clock[1] > 23
     \/ t.clock[2] > 59
     \/ t.offset \notin -840..840
     \/ FormatUtc(t)[1][1] \notin 1..9999
  THEN Refusal ELSE FormatUtc(t)

(* The order of canonical texts: field by field, which is the order of       *)
(* their fixed-width texts.                                                  *)
TextLess(a, b) ==
  LET p == a[1] \o a[2]
      q == b[1] \o b[2]
  IN  \E i \in 1..5 : p[i] < q[i] /\ \A j \in 1..(i - 1) : p[j] = q[j]

(* ----- primary keys --------------------------------------------------- *)

(* normalizePrimaryKeyString: the empty text is refused, a case-insensitive *)
(* text is folded.                                                          *)
NormalizeKeyText(text, caseSensitive) ==
  IF caseSensitive THEN text ELSE [i \in DOMAIN text |-> Fold(text[i])]

(* One component: its tag, its length, a separator and its text. *)
EncodeComponent(text) == <<"s", ToString(Len(text)), "#">> \o text

(* canonicalizePrimaryKey: the number of components comes first. *)
CanonicalizePrimaryKey(texts, caseSensitive) ==
  IF \E i \in DOMAIN texts : texts[i] = <<>> THEN Refusal
  ELSE <<"pk1", ToString(Len(texts))>>
         \o FlattenSeq([i \in DOMAIN texts |->
              EncodeComponent(NormalizeKeyText(texts[i], caseSensitive[i]))])

(* ----- the comparison ------------------------------------------------- *)

Keys == [1..KeyWidth -> KeyTexts]

Init ==
  /\ outputs = <<>>
  /\ \/ kind = "decimal" /\ inputs \in DecimalTexts \X DecimalTexts /\ schema \in Formats
     \/ kind = "timestamp" /\ inputs \in Timestamps \X Timestamps /\ schema = <<>>
     \/ kind = "key" /\ inputs \in Keys \X Keys /\ schema \in [1..KeyWidth -> BOOLEAN]

Canonical(input) ==
  CASE kind = "decimal" -> CanonicalizeDecimal(input, schema)
    [] kind = "timestamp" -> CanonicalizeTimestamp(input)
    [] kind = "key" -> CanonicalizePrimaryKey(input, schema)

Canonicalize ==
  /\ outputs = <<>>
  /\ outputs' = <<Canonical(inputs[1]), Canonical(inputs[2])>>
  /\ UNCHANGED <<kind, inputs, schema>>

Next == Canonicalize

Spec == Init /\ [][Next]_vars

Done(k) == kind = k /\ outputs # <<>> /\ \A i \in 1..2 : outputs[i] # Refusal

(* ----- properties ----------------------------------------------------- *)

(* A decimal's canonical text belongs to its number: two texts of one number *)
(* become equal ("0", "-0" and "0.0" too), texts of two numbers stay apart,  *)
(* and comparing canonical texts compares the numbers.                       *)
DecimalsByValue ==
  Done("decimal") =>
    /\ outputs[1] = outputs[2] <=> Hundredths(inputs[1]) = Hundredths(inputs[2])
    /\ LET order == CompareDecimals(outputs[1][1], outputs[2][1])
       IN  /\ order = -1 <=> Hundredths(inputs[1]) < Hundredths(inputs[2])
           /\ order = 1 <=> Hundredths(inputs[1]) > Hundredths(inputs[2])

(* An accepted decimal fits a NUMERIC(precision, scale) column, so storing   *)
(* it neither rounds it nor fails.                                           *)
DecimalsFitNumeric ==
  Done("decimal") =>
    \A i \in 1..2 :
      LET value == Hundredths(inputs[i])
          limit == 10 ^ (schema[1] + 2 - schema[2])
      IN  value < limit /\ value > -limit

(* Two spellings of one instant, whatever their zones, have one canonical    *)
(* text, and the order of canonical texts is the order of instants, which    *)
(* compareCanonicalTimestamps relies on.                                     *)
TimestampsByInstant ==
  Done("timestamp") =>
    LET earlier(a, b) == \/ Instant(a)[1] < Instant(b)[1]
                         \/ Instant(a)[1] = Instant(b)[1] /\ Instant(a)[2] < Instant(b)[2]
    IN  /\ outputs[1] = outputs[2] <=> Instant(inputs[1]) = Instant(inputs[2])
        /\ TextLess(outputs[1], outputs[2]) <=> earlier(inputs[1], inputs[2])

(* A canonical timestamp is itself accepted and unchanged: a value read back *)
(* from a store canonicalizes to the same text.                              *)
TimestampsStable ==
  Done("timestamp") =>
    \A i \in 1..2 :
      CanonicalizeTimestamp([date |-> outputs[i][1], clock |-> outputs[i][2], offset |-> 0])
        = outputs[i]

(* Two keys share a canonical text only when every component does: no        *)
(* character of a component can be taken for a separator or for the start    *)
(* of the next component.                                                    *)
KeysByComponents ==
  Done("key") =>
    (outputs[1] = outputs[2] <=>
       \A c \in 1..KeyWidth :
         /\ Len(inputs[1][c]) = Len(inputs[2][c])
         /\ \A i \in DOMAIN inputs[1][c] :
              \/ inputs[1][c][i] = inputs[2][c][i]
              \/ ~schema[c] /\ Fold(inputs[1][c][i]) = Fold(inputs[2][c][i]))
=============================================================================
