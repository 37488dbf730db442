----------------------------- MODULE CsvScanner -----------------------------
(***************************************************************************)
(* The scanner of managed CSV files.  The bytes arrive in chunks of any      *)
(* size; the first four are held back to look for a byte order mark or the   *)
(* signature of another format, the rest go through a state machine that     *)
(* emits a row at the end of each record.                                    *)
(*                                                                           *)
(* Source: packages/materialization-domain/src/index.ts (ManagedCsvScanner). *)
(*                                                                           *)
(* Abstractions: a byte is a one-letter string: "," comma, "q" quote, "r"    *)
(* carriage return, "n" line feed, "0" NUL, "x" a byte that is not UTF-8,    *)
(* "B1" "B2" "B3" the byte order mark, "g" "z" the signature of a compressed *)
(* file, other letters are text.  Position reports are left out.             *)
(***************************************************************************)
EXTENDS Integers, Sequences, SequencesExt, FiniteSets

CONSTANTS
  Header,            \* expectedHeader, a sequence of field texts
  Arbitrary,         \* files of arbitrary bytes
  Tables,            \* tables of rows, encoded in every way
  MaxFieldBytes,     \* maximumFieldBytes
  MaxHeaderBytes,    \* maximumHeaderFieldBytes, of the text of a header field
  MaxRecordBytes,    \* maximumRecordBytes
  MaxRows,           \* maximumRows
  MaxColumns,        \* maximumColumns
  MaxFileBytes       \* maximumFileBytes

VARIABLES
  file,      \* the bytes of the file
  intended,  \* the table the file encodes, <<"none">> for an arbitrary file
  read,      \* how many bytes were read
  prefix,    \* the bytes held back before the prefix is decided
  decided,   \* #prefixDecided
  scan,      \* the fields of the state machine
  emitted,   \* the rows handed to the consumer
  outcome    \* "scanning", "accepted", or the code of the failure

vars == <<file, intended, read, prefix, decided, scan, emitted, outcome>>

Scan0 == [state |-> "field_start", cr |-> FALSE, value |-> <<>>, fields |-> <<>>,
          recordBytes |-> 0, fieldBytes |-> 0, record |-> 0, rows |-> <<>>, error |-> "none"]

TypeOK ==
  /\ read \in 0..Len(file)
  /\ decided \in BOOLEAN
  /\ Len(prefix) <= 4
  /\ scan.state \in {"field_start", "unquoted", "quoted", "after_quote"}
  /\ scan.fieldBytes <= MaxFieldBytes
  /\ scan.recordBytes <= MaxRecordBytes
  /\ Len(scan.rows) <= MaxRows
  /\ outcome = "scanning" => scan.error = "none"

(* ----- the ways to write a table --------------------------------------- *)

Special == {",", "q", "r", "n"}

Escaped(text) == FlattenSeq([i \in DOMAIN text |-> IF text[i] = "q" THEN <<"q", "q">> ELSE <<text[i]>>])

(* A field is written in quotes, or bare when no character is special. *)
FieldForms(text) ==
  {<<"q">> \o Escaped(text) \o <<"q">>} \cup
    (IF \E i \in DOMAIN text : text[i] \in Special THEN {} ELSE {text})

RowForms(row) ==
  IF Len(row) = 1 THEN FieldForms(row[1])
  ELSE {f \o <<",">> \o g : f \in FieldForms(row[1]), g \in FieldForms(row[2])}

Ends == {<<"n">>, <<"r", "n">>}

(* The last line end may be missing, unless its record has no bytes at all. *)
LineForms(row, last) ==
  {f \o e : f \in RowForms(row), e \in Ends} \cup (IF last THEN RowForms(row) \ {<<>>} ELSE {})

Encodings(table) ==
  CASE Len(table) = 0 -> LineForms(Header, TRUE)
    [] Len(table) = 1 -> {h \o l : h \in LineForms(Header, FALSE), l \in LineForms(table[1], TRUE)}
    [] Len(table) = 2 ->
         {h \o k \o l : h \in LineForms(Header, FALSE), k \in LineForms(table[1], FALSE),
                        l \in LineForms(table[2], TRUE)}

WithMark(f) == <<"B1", "B2", "B3">> \o f

(* ----- the state machine ----------------------------------------------- *)

Failed(s, code) == [s EXCEPT !.error = code]

FinishField(s) ==
  IF Len(s.fields) + 1 > MaxColumns THEN Failed(s, "CSV_COLUMN_LIMIT_EXCEEDED")
  ELSE [s EXCEPT !.fields = Append(@, s.value), !.value = <<>>, !.fieldBytes = 0,
                 !.state = "field_start"]

(* #validateHeader: the number, the uniqueness and the names of the columns. *)
HeaderError(fields) ==
  CASE fields = Header -> "none"
    [] Len(fields) = Len(Header) /\ ~IsInjective(fields) -> "CSV_HEADER_DUPLICATE"
    [] OTHER -> "CSV_HEADER_MISMATCH"

FinishRecord(s) ==
  LET f == FinishField(s)
  IN  IF f.error # "none" THEN f
      ELSE IF f.record = 0
        THEN IF HeaderError(f.fields) = "none"
             THEN [f EXCEPT !.record = 1, !.fields = <<>>, !.recordBytes = 0]
             ELSE Failed(f, HeaderError(f.fields))
      ELSE IF Len(f.fields) # Len(Header) THEN Failed(f, "CSV_COLUMN_COUNT_MISMATCH")
      ELSE IF Len(f.rows) + 1 > MaxRows THEN Failed(f, "CSV_ROW_LIMIT_EXCEEDED")
      ELSE [f EXCEPT !.record = 1, !.rows = Append(@, f.fields), !.fields = <<>>,
                     !.recordBytes = 0]

(* #countFieldByte, then the value if the byte belongs to it. *)
Count(s, state, value) ==
  IF \/ s.fieldBytes + 1 > MaxFieldBytes
     \/ s.record = 0 /\ Len(s.value \o value) > MaxHeaderBytes
  THEN Failed(s, "CSV_FIELD_LIMIT_EXCEEDED")
  ELSE [s EXCEPT !.fieldBytes = @ + 1, !.state = state, !.value = @ \o value]

(* The switch over the state of the current field. *)
FieldByte(s, byte) ==
  CASE s.state # "quoted" /\ byte = "," -> FinishField(s)
    [] s.state = "field_start" /\ byte = "q" -> Count(s, "quoted", <<>>)
    [] s.state = "unquoted" /\ byte = "q" -> Failed(s, "CSV_QUOTE_INVALID")
    [] s.state = "quoted" /\ byte = "q" -> Count(s, "after_quote", <<>>)
    [] s.state = "quoted" /\ byte # "q" -> Count(s, "quoted", <<byte>>)
    [] s.state = "after_quote" /\ byte = "q" -> Count(s, "quoted", <<"q">>)
    [] s.state = "after_quote" /\ byte \notin {"q", ","} -> Failed(s, "CSV_QUOTE_INVALID")
    [] OTHER -> Count(s, "unquoted", <<byte>>)

(* #consumeByte. *)
ConsumeByte(s, byte) ==
  LET b == [s EXCEPT !.recordBytes = @ + 1]
  IN  IF s.error # "none" THEN s
      ELSE IF byte = "0" THEN Failed(s, "CSV_NUL_BYTE")
      ELSE IF b.recordBytes > MaxRecordBytes THEN Failed(s, "CSV_RECORD_LIMIT_EXCEEDED")
      ELSE IF s.cr
        THEN IF byte = "n" THEN FinishRecord([b EXCEPT !.cr = FALSE])
             ELSE Failed(s, "CSV_BARE_CR")
      ELSE IF s.state # "quoted" /\ byte = "r" THEN [b EXCEPT !.cr = TRUE]
      ELSE IF s.state # "quoted" /\ byte = "n" THEN FinishRecord(b)
      ELSE FieldByte(b, byte)

(* The chunk is decoded as UTF-8 before any of its bytes is scanned. *)
ConsumeBytes(s, bytes) ==
  IF \E i \in DOMAIN bytes : bytes[i] = "x" THEN Failed(s, "CSV_UTF8_INVALID")
  ELSE FoldLeft(ConsumeByte, s, bytes)

Signature(p) == Len(p) >= 2 /\ p[1] = "g" /\ p[2] = "z"
Marked(p) == Len(p) >= 3 /\ SubSeq(p, 1, 3) = <<"B1", "B2", "B3">>

(* #decidePrefix: at four bytes, or at the end of a shorter file. *)
DecidePrefix(s, p) ==
  IF Signature(p) THEN Failed(s, "CSV_UNSUPPORTED_SIGNATURE")
  ELSE ConsumeBytes(s, IF Marked(p) THEN SubSeq(p, 4, Len(p)) ELSE p)

(* ----- actions ---------------------------------------------------------- *)

Init ==
  /\ \/ /\ intended \in Tables
        /\ \E f \in Encodings(intended) : file \in {f, WithMark(f)}
     \/ intended = <<"none">> /\ file \in Arbitrary
  /\ read = 0 /\ prefix = <<>> /\ decided = FALSE
  /\ scan = Scan0 /\ emitted = <<>> /\ outcome = "scanning"

Settle(s) ==
  /\ scan' = s
  /\ emitted' = s.rows
  /\ outcome' = IF s.error = "none" THEN "scanning" ELSE s.error

(* One chunk of n bytes (#consumeChunk). *)
Chunk(n) ==
  LET held == IF decided THEN 0 ELSE IF n < 4 - Len(prefix) THEN n ELSE 4 - Len(prefix)
      start == prefix \o SubSeq(file, read + 1, read + held)
      full == decided \/ Len(start) = 4
      s == IF full /\ ~decided THEN DecidePrefix(scan, start) ELSE scan
      rest == SubSeq(file, read + held + 1, read + n)
  IN  /\ outcome = "scanning" /\ n > 0 /\ read + n <= Len(file)
      /\ read' = read + n
      /\ prefix' = IF full THEN <<>> ELSE start
      /\ decided' = full
      /\ Settle(IF read + n > MaxFileBytes THEN Failed(scan, "CSV_FILE_LIMIT_EXCEEDED")
                ELSE IF s.error = "none" /\ rest # <<>> THEN ConsumeBytes(s, rest) ELSE s)
      /\ UNCHANGED <<file, intended>>

(* What remains is a record without a line end. *)
LastRecord(s) ==
  IF s.error # "none" THEN s
  ELSE IF s.cr THEN Failed(s, "CSV_BARE_CR")
  ELSE IF s.state = "quoted" THEN Failed(s, "CSV_TRUNCATED_QUOTE")
  ELSE IF s.recordBytes > 0 THEN FinishRecord(s) ELSE s

(* The end of the source. *)
End ==
  LET s == LastRecord(IF decided THEN scan ELSE DecidePrefix(scan, prefix))
  IN  /\ outcome = "scanning" /\ read = Len(file)
      /\ scan' = s /\ emitted' = s.rows /\ decided' = TRUE /\ prefix' = <<>>
      /\ outcome' = IF s.error # "none" THEN s.error
                    ELSE IF s.record = 0 THEN "CSV_EMPTY" ELSE "accepted"
      /\ UNCHANGED <<file, intended, read>>

(* The consumer of the rows fails: its own error is passed on. *)
ConsumerFails ==
  /\ outcome = "scanning" /\ emitted # <<>>
  /\ outcome' = "consumer_failed"
  /\ UNCHANGED <<file, intended, read, prefix, decided, scan, emitted>>

Next == End \/ ConsumerFails \/ \E n \in 1..Len(file) : Chunk(n)

Spec == Init /\ [][Next]_vars

(* ----- properties -------------------------------------------------------- *)

(* A file that encodes a table, with any quoting and line ends, with or      *)
(* without a byte order mark and cut into chunks at any place (inside the    *)
(* mark, a pair of quotes or a line end), is read back as that table.        *)
ReadsBack ==
  intended # <<"none">> =>
    /\ outcome \in {"scanning", "accepted", "consumer_failed"}
    /\ outcome = "accepted" => emitted = intended
    /\ IsPrefix(emitted, intended)

(* Nothing else is accepted: an accepted file is an encoding of the rows     *)
(* that were read from it, so quotes, bare carriage returns and ragged rows  *)
(* are never guessed at.                                                     *)
AcceptsOnlyTables ==
  outcome = "accepted" =>
    /\ \A i \in DOMAIN emitted : Len(emitted[i]) = Len(Header)
    /\ \/ file \in Encodings(emitted)
       \/ Len(file) >= 3 /\ Marked(file) /\ SubSeq(file, 4, Len(file)) \in Encodings(emitted)

(* No file is accepted with a field, a record, a row number or a size over   *)
(* the limits, however it was cut.                                           *)
WithinLimits ==
  outcome = "accepted" =>
    /\ Len(file) <= MaxFileBytes
    /\ Len(emitted) <= MaxRows
    /\ \A i \in DOMAIN emitted :
         /\ Len(emitted[i]) <= MaxColumns
         /\ \A f \in DOMAIN emitted[i] : Len(emitted[i][f]) <= MaxFieldBytes
=============================================================================
