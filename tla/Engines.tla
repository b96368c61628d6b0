------------------------------- MODULE Engines -------------------------------
(***************************************************************************)
(* The parse engines that scan text: CEF and LEEF headers and extensions,    *)
(* the structured data of RFC 5424, dissect; the year of an RFC 3164 time;    *)
(* and the TSV engine's memory of Zeek schemas, which one instance keeps for   *)
(* every log.  A text is a sequence of the characters that matter; "x" is      *)
(* any other, "q" a quotation mark.                                            *)
(***************************************************************************)
EXTENDS Integers, Sequences, FiniteSets, SequencesExt

CONSTANTS HeaderFields, Values, SdValues, SdTails, DissectTexts, DissectPatterns,   \* the inputs considered
          Times, Zones,
          ZeekLogs, LogLines,   \* log -> its lines: [kind, n], "fields", "types" or "row"
          StreamOption,         \* log -> the "stream" option of its definition
          MaxOvertakes

VARIABLES reading,   \* [engine, input, result] of the last text read
          schemas,   \* stream key -> _Stream
          parsedTo, zeekRows, overtakes
engVars == <<reading, schemas, parsedTo, zeekRows, overtakes>>

Flat(ss) == FoldLeft(LAMBDA a, b : a \o b, <<>>, ss)
Char(t, i) == IF i \in DOMAIN t THEN t[i] ELSE "end"
From(t, i) == SubSeq(t, i, Len(t))

\* ---- escapes ------------------------------------------------------------------
\* _unescape_header, _unescape_extension: a backslash before one of `set` is dropped.
RECURSIVE Unescaped(_, _)
Unescaped(t, set) ==
  IF t = <<>> THEN <<>>
  ELSE IF t[1] = "\\" /\ Char(t, 2) \in set THEN <<t[2]>> \o Unescaped(From(t, 3), set)
  ELSE <<t[1]>> \o Unescaped(From(t, 2), set)
Escaped(t, set) == Flat([i \in DOMAIN t |-> IF t[i] \in set THEN <<"\\", t[i]>> ELSE <<t[i]>>])

\* _split_unescaped_pipes, _split_header_pipes: escape pairs stay as they are.
RECURSIVE PipeFrom(_, _)
PipeFrom(t, i) == IF i > Len(t) THEN 0 ELSE IF t[i] = "\\" /\ i < Len(t) THEN PipeFrom(t, i + 2) ELSE IF t[i] = "|" THEN i ELSE PipeFrom(t, i + 1)
RECURSIVE SplitPipes(_, _)
SplitPipes(t, max) ==
  LET at == IF max = 0 THEN 0 ELSE PipeFrom(t, 1)
  IN IF at = 0 THEN <<t>> ELSE <<SubSeq(t, 1, at - 1)>> \o SplitPipes(From(t, at + 1), max - 1)
HeaderEscapes == {"|", "\\"}
ReadHeader(t, n) == LET parts == SplitPipes(t, n) IN [i \in 1..Min({n, Len(parts)}) |-> Unescaped(parts[i], HeaderEscapes)]
\* What a device writes: n escaped fields, each followed by a pipe.
WriteHeader(h) == Flat([i \in DOMAIN h |-> Escaped(h[i], HeaderEscapes) \o <<"|">>])

\* ---- CEF extension: key=value pairs, spaces in values -------------------------------
ExtEscapes == {"\\", "="}
Stops(t, i, set) == LET at == {j \in i..Len(t) : t[j] \in set} IN IF at = {} THEN Len(t) + 1 ELSE Min(at)
LooksLikeKeyEq(t, i) == LET j == Stops(t, i, {"=", " ", "\\"}) IN j > i /\ Char(t, j) = "="
RECURSIVE FindValueEnd(_, _)
FindValueEnd(t, i) ==
  IF i > Len(t) THEN i
  ELSE IF t[i] = "\\" /\ Char(t, i + 1) \in ExtEscapes THEN FindValueEnd(t, i + 2)
  ELSE IF t[i] = " " /\ LooksLikeKeyEq(t, i + 1) THEN i
  ELSE FindValueEnd(t, i + 1)
RECURSIVE ParseExtension(_, _)
ParseExtension(t, i) ==   \* sequence of <<key, value>>, the dict's updates in order
  LET j == Stops(t, i, {"=", " "}) IN
  IF i > Len(t) THEN <<>>
  ELSE IF t[i] = " " THEN ParseExtension(t, i + 1)
  ELSE IF Char(t, j) # "=" THEN ParseExtension(t, j)
  ELSE LET end == FindValueEnd(t, j + 1)
       IN (IF j = i THEN <<>> ELSE <<<<SubSeq(t, i, j - 1), Unescaped(SubSeq(t, j + 1, end - 1), ExtEscapes)>>>>) \o ParseExtension(t, end)
WriteExtension(v, w) == <<"k", "=">> \o Escaped(v, ExtEscapes) \o <<" ", "m", "=">> \o Escaped(w, ExtEscapes)

\* ---- LEEF attributes: split at the delimiter, then at the first = --------------------
RECURSIVE SplitAt(_, _)
SplitAt(t, d) == LET at == Stops(t, 1, {d}) IN IF at > Len(t) THEN <<t>> ELSE <<SubSeq(t, 1, at - 1)>> \o SplitAt(From(t, at + 1), d)
Equals(piece) == Min({i \in DOMAIN piece : piece[i] = "="})
ParseAttributes(t, d) ==
  LET pieces == SelectSeq(SplitAt(t, d), LAMBDA piece : "=" \in Range(piece) /\ piece[1] # "=")
  IN [i \in DOMAIN pieces |-> <<SubSeq(pieces[i], 1, Equals(pieces[i]) - 1), From(pieces[i], Equals(pieces[i]) + 1)>>]
WriteAttributes(v, w, d) == <<"k", "=">> \o v \o <<d, "m", "=">> \o w

\* ---- RFC 5424 structured data ----------------------------------------------------------
\* _read_quoted: <<value, index after the quote>>.
RECURSIVE ReadQuoted(_, _)
ReadQuoted(t, i) ==
  IF i > Len(t) THEN <<<<>>, i>>
  ELSE IF t[i] = "\\" /\ i < Len(t) THEN LET r == ReadQuoted(t, i + 2) IN <<<<t[i + 1]>> \o r[1], r[2]>>
  ELSE IF t[i] = "q" THEN <<<<>>, i + 1>>
  ELSE LET r == ReadQuoted(t, i + 1) IN <<<<t[i]>> \o r[1], r[2]>>
\* The parameters of one element from index i on: <<values, index>>.
RECURSIVE SdParams(_, _)
SdParams(t, i) ==
  IF Char(t, i) # " " THEN <<<<>>, i>>
  ELSE LET eq == Stops(t, i + 1, {"="}) IN
       IF Char(t, eq) # "=" \/ Char(t, eq + 1) # "q" THEN <<<<>>, i + 1>>
       ELSE LET v == ReadQuoted(t, eq + 2) r == SdParams(t, v[2]) IN <<<<v[1]>> \o r[1], r[2]>>
ScanSdElement(t, i) ==
  LET id == Stops(t, i + 1, {" ", "]"}) r == SdParams(t, id)
  IN <<r[1], IF Char(t, r[2]) = "]" THEN r[2] + 1 ELSE r[2]>>
RECURSIVE SdElements(_, _)
SdElements(t, i) == IF Char(t, i) # "[" THEN <<<<>>, i>>
                    ELSE LET e == ScanSdElement(t, i) r == SdElements(t, e[2]) IN <<e[1] \o r[1], r[2]>>
\* _parse_structured_data: the values, and where the message begins.
ParseStructuredData(t) ==
  IF Char(t, 1) = "-" /\ Char(t, 2) \in {" ", "end"} THEN <<<<>>, IF Len(t) > 1 THEN 3 ELSE 2>>
  ELSE IF Char(t, 1) # "[" THEN <<<<>>, 1>>
  ELSE LET r == SdElements(t, 1) IN <<r[1], IF Char(t, r[2]) = " " THEN r[2] + 1 ELSE r[2]>>
WriteSd(v, w) == <<"[", "x", " ", "k", "=", "q">> \o Escaped(v, {"q", "\\", "]"}) \o <<"q", " ", "m", "=", "q">> \o Escaped(w, {"q", "\\", "]"}) \o <<"q", "]", " ", "x">>

\* ---- dissect -----------------------------------------------------------------------------
\* A pattern is a sequence of [delim, pad]; delim "" only for the last.  A failure is <<"fail">>.
RECURSIVE SkipDelims(_, _, _)
SkipDelims(t, i, d) == IF Char(t, i) = d THEN SkipDelims(t, i + 1, d) ELSE i
RECURSIVE TrimDelims(_, _)
TrimDelims(t, d) == IF t # <<>> /\ Last(t) = d THEN TrimDelims(Front(t), d) ELSE t
ConsumeLast(t, i, f) ==
  LET body == From(t, i) IN
  IF f.delim = "" THEN <<body>> ELSE IF body = <<>> \/ Last(body) # f.delim THEN <<<<"fail">>>>
  ELSE IF f.pad THEN <<TrimDelims(body, f.delim)>> ELSE <<Front(body)>>
ConsumeMiddleLate(t, i, f) ==   \* up to the last delimiter
  LET at == {j \in i..Len(t) : t[j] = f.delim} IN IF at = {} THEN 0 ELSE Max(at)
ConsumeMiddle(t, i, f) == LET end == Stops(t, i, {f.delim}) IN IF end > Len(t) THEN 0 ELSE end
RECURSIVE Dissect(_, _, _)
Dissect(t, i, p) ==
  IF Len(p) = 1 THEN ConsumeLast(t, i, p[1])
  ELSE LET end == ConsumeMiddle(t, i, p[1])
           on == IF p[1].pad THEN SkipDelims(t, end + 1, p[1].delim) ELSE end + 1
       IN IF end = 0 THEN <<<<"fail">>>> ELSE <<SubSeq(t, i, end - 1)>> \o Dissect(t, on, Tail(p))
Rejoined(vs, p) == Flat([i \in DOMAIN vs |-> IF p[i].delim = "" THEN vs[i] ELSE vs[i] \o <<p[i].delim>>])

\* ---- the year of "Mon dd hh:mm:ss" -----------------------------------------------------------
\* A year has four moments, a leap year (every third) five, the second of which is "Feb 29".
Leap(y) == y % 3 = 0
YearStart(y) == 4 * y + (y + 2) \div 3
YearAt(t) == CHOOSE y \in 0..(t + 1) : YearStart(y) <= t /\ t < YearStart(y + 1)
Stamp(t) == LET y == YearAt(t) k == t - YearStart(y) IN IF Leap(y) THEN k ELSE IF k = 0 THEN 0 ELSE k + 1
\* _rfc3164_with_year: -1 when the year has no such day.
WithYear(s, y) == IF Leap(y) THEN YearStart(y) + s ELSE IF s = 1 THEN -1 ELSE YearStart(y) + (IF s = 0 THEN 0 ELSE s - 1)
\* _try_rfc3164: the UTC year at `clock`, read in the zone `z` ahead of UTC.
TryRfc3164(s, clock, z) ==
  LET y == YearAt(clock) this == WithYear(s, y) prior == WithYear(s, y - 1)
  IN IF this = -1 THEN prior - z ELSE IF this - z > clock /\ prior # -1 THEN prior - z ELSE this - z

\* ---- TSV -------------------------------------------------------------------------------------
NoStream == [columns |-> 0, types |-> 0, lists |-> 0]
StreamKey(log) == StreamOption[log]
\* #fields, #types: list columns are recomputed when both are known and agree; when the
\* counts differ the line is an error, the new value kept.  A schema is known by its
\* number of columns.
ApplyDirective(s, l) ==
  LET t == IF l.kind = "fields" THEN [s EXCEPT !.columns = l.n] ELSE [s EXCEPT !.types = l.n]
  IN IF t.columns # 0 /\ t.columns = t.types THEN [t EXCEPT !.lists = l.n] ELSE t
\* Lines of a log reach the engine in order unless a worker is overtaken.
ReadZeek(log, i) ==
  LET key == StreamKey(log) l == LogLines[log][i] s == schemas[key] IN
  /\ i \notin parsedTo[log] /\ i <= Len(LogLines[log])
  /\ LET late == {j \in 1..(i - 1) : j \notin parsedTo[log]}
     IN overtakes + Cardinality(late) <= MaxOvertakes /\ overtakes' = overtakes + Cardinality(late)
  /\ parsedTo' = [parsedTo EXCEPT ![log] = @ \cup {i}]
  /\ IF l.kind = "row"
     THEN /\ zeekRows' = zeekRows \cup {[log |-> log, at |-> i, columns |-> s.columns, lists |-> s.lists]} /\ UNCHANGED schemas
     ELSE schemas' = [schemas EXCEPT ![key] = ApplyDirective(s, l)] /\ UNCHANGED zeekRows
  /\ UNCHANGED reading

Idling == [engine |-> "none"]
EngInit == /\ reading = Idling /\ schemas = [k \in {"shared"} \cup {StreamOption[g] : g \in ZeekLogs} |-> NoStream]
           /\ parsedTo = [g \in ZeekLogs |-> {}] /\ zeekRows = {} /\ overtakes = 0
Engine(name, input) == reading' = [engine |-> name, input |-> input]
ReadText ==
  /\ reading = Idling
  /\ \/ \E h \in [1..3 -> HeaderFields] : Engine("header", h)
     \/ \E v, w \in Values : Engine("extension", <<v, w>>)
     \/ \E v, w \in SdValues : Engine("sd", <<v, w>>)
     \/ \E t \in SdTails : Engine("tail", t)
     \/ \E t \in DissectTexts, p \in DissectPatterns : Engine("dissect", <<t, p>>)
     \/ \E clock, t \in Times, z \in Zones : Engine("year", <<t, clock, z>>)
  /\ UNCHANGED <<schemas, parsedTo, zeekRows, overtakes>>
ZeekNext == \E g \in ZeekLogs : \E i \in DOMAIN LogLines[g] : ReadZeek(g, i)

\* ---- properties ----------------------------------------------------------------------------------
\* A header written with its escapes is read back field by field, pipes and backslashes
\* in the fields included (cef_engine.py, leef_engine.py).
HeaderRoundTrips ==
  reading.engine = "header" => ReadHeader(WriteHeader(reading.input), 3) = reading.input

\* An extension written with its escapes is read back: values keep their spaces, and an
\* escaped = never starts a new key (_parse_extension).
ExtensionRoundTrips ==
  reading.engine = "extension" =>
    ParseExtension(WriteExtension(reading.input[1], reading.input[2]), 1) = <<<<<<"k">>, reading.input[1]>>, <<<<"m">>, reading.input[2]>>>>

\* LEEF attributes are read back when no value holds the delimiter; = in a value stays.
AttributesRoundTrip ==
  reading.engine = "extension" =>
    ParseAttributes(WriteAttributes(reading.input[1], reading.input[2], "|"), "|") = <<<<<<"k">>, reading.input[1]>>, <<<<"m">>, reading.input[2]>>>>

\* Structured data written with its escapes is read back and the message starts after it
\* (_parse_structured_data).
SdRoundTrips ==
  reading.engine = "sd" =>
    LET t == WriteSd(reading.input[1], reading.input[2]) r == ParseStructuredData(t) IN r[1] = reading.input /\ From(t, r[2]) = <<"x">>

\* Whatever follows the header, closed or not, the message is an end of the text: no
\* unterminated element or quote moves it outside (_parse_structured_data).
MessageIsSuffix ==
  reading.engine = "tail" => ParseStructuredData(reading.input)[2] \in 1..(Len(reading.input) + 1)

\* A text dissect accepts is its values with the delimiters between them: no character is
\* lost or moved to another field; with padding only delimiters are (_dissect).
DissectRejoins ==
  reading.engine = "dissect" =>
    LET t == reading.input[1] p == reading.input[2] vs == Dissect(t, 1, p) IN
    (\A i \in DOMAIN vs : vs[i] # <<"fail">>) =>
      /\ (\A i \in DOMAIN p : ~p[i].pad) => Rejoined(vs, p) = t
      /\ \A i \in 1..(Len(p) - 1) : \A k \in DOMAIN vs[i] : vs[i][k] # p[i].delim

\* A time of the last year gets its own year back, around New Year and "Feb 29" too,
\* except while the year has begun in the source's zone and not yet in UTC (timeutil.py).
YearIsRight ==
  reading.engine = "year" =>
    LET t == reading.input[1] clock == reading.input[2] z == reading.input[3] IN
    (t <= clock /\ t > clock - 4 /\ YearAt(clock + z) <= YearAt(clock)) => TryRfc3164(Stamp(t + z), clock, z) = t

Declared(g, i, kind) ==
  LET ns == {j \in 1..(i - 1) : LogLines[g][j].kind = kind} IN IF ns = {} THEN 0 ELSE LogLines[g][Max(ns)].n
\* A Zeek row is read under the columns its own log declared last, unless its lines were
\* overtaken or another log of the same stream key declared its own in between.
RowsUnderOwnSchema ==
  \A r \in zeekRows :
    \/ r.columns = Declared(r.log, r.at, "fields") /\ r.lists = Declared(r.log, r.at, "types")
    \/ overtakes > 0
    \/ \E g \in ZeekLogs \ {r.log} : StreamOption[g] = StreamOption[r.log]

\* The engines read back what was written: header, extension, attributes, structured data,
\* dissected text, the year of a time, and a Zeek row's columns.
EnginesReadBack == /\ HeaderRoundTrips /\ ExtensionRoundTrips /\ AttributesRoundTrip /\ SdRoundTrips
                   /\ MessageIsSuffix /\ DissectRejoins /\ YearIsRight /\ RowsUnderOwnSchema
=============================================================================
