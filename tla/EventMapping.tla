---------------------------- MODULE EventMapping ----------------------------
(***************************************************************************)
(* MapEvent: the loop that fills one row from one event, for the columns   *)
(* the query selects, in the order in which it selects them.  What several *)
(* columns need (the JSON object within _raw, the severity string, the     *)
(* timestamp) is computed when the first of them asks for it, and kept for *)
(* the rest of the row.                                                    *)
(*                                                                         *)
(* A JSON value is a record of its type and, by its type, its text, its    *)
(* number or its members, a function from keys to values.  Texts are       *)
(* atoms; what the libraries make of a text are parameters.  Numbers and   *)
(* points in time are decimals m * 10^e with two digits m, the latter in   *)
(* nanoseconds.                                                            *)
(***************************************************************************)
EXTENDS Integers, SequencesExt

CONSTANTS
    Events,             \* the objects of the events a response may hold
    Projections,        \* sequences of columns a query may select
    Lower(_),           \* StringUtil::Lower
    ObjectIn(_),        \* the JSON object yyjson_read finds in a text, or None
    InstantIn(_),       \* the instant the ISO-8601 parser reads, or None
    Underscored,        \* the keys that begin with an underscore
    NumberIn(_),        \* the number strtod reads in the whole text, or None
    NotFinite,          \* what strtod reads in "nan" or "inf"
    Unspecified,        \* a result the C++ standard leaves open
    None                \* SQL NULL, a null pointer, a field that is not there

Decimal == [m : (-99..-10) \cup {0} \cup (10..99), e : Int]

ASSUME UnderscoredAssumption == {"_raw", "_time"} \subseteq Underscored
ASSUME ProjectionsAssumption == Projections \subseteq Seq(STRING)

VARIABLES
    column_ids,         \* the columns the query selects
    event,              \* the event being mapped
    c,                  \* the next column of the loop
    row,                \* the cells of the row
    raw_parsed, raw_cache,
    severity_done, severity_cache,
    time_done, time_cache,
    parses              \* history: how often _raw was parsed for this row

raw_memo == <<raw_parsed, raw_cache, parses>>
severity_memo == <<severity_done, severity_cache>>
time_memo == <<time_done, time_cache>>
vars == <<column_ids, event, c, row, raw_memo, severity_memo, time_memo>>

Blank == [i \in DOMAIN column_ids |-> None]

Init ==
    /\ column_ids \in Projections /\ event \in Events
    /\ c = 1 /\ row = Blank
    /\ raw_parsed = FALSE /\ raw_cache = None /\ parses = 0
    /\ severity_done = FALSE /\ severity_cache = None
    /\ time_done = FALSE /\ time_cache = None

-----------------------------------------------------------------------------
(***************************************************************************)
(* Looking fields up.                                                      *)
(***************************************************************************)
GetStr(obj, key) ==
    IF obj # None /\ key \in DOMAIN obj /\ obj[key].type = "string"
    THEN obj[key].text ELSE None

IsFound(text) == text # None

\* The first text under any of the keys, source by source.
LookupStr(sources, keys) ==
    LET Of(source) == [k \in DOMAIN keys |-> GetStr(source, keys[k])]
        found == SelectSeq(FlattenSeq([s \in DOMAIN sources |-> Of(sources[s])]),
                           IsFound)
    IN  IF found = <<>> THEN None ELSE Head(found)

\* The nested object some Splunk JSON shapes have.
Fields(e) == IF "fields" \in DOMAIN e /\ e["fields"].type = "object"
             THEN e["fields"].members ELSE None

ParseRawObject(e) ==
    IF GetStr(e, "_raw") = None THEN None ELSE ObjectIn(GetStr(e, "_raw"))

SeverityKeys == <<"level", "severity", "status">>

SeverityToNumber(text) ==
    LET s == Lower(text)
    IN  CASE s = "trace" -> 1
          [] s = "debug" -> 5
          [] s \in {"info", "notice", "ok"} -> 9
          [] s \in {"warn", "warning"} -> 13
          [] s \in {"error", "err"} -> 17
          [] s \in {"critical", "crit", "alert", "emergency", "fatal"} -> 21
          [] OTHER -> 0

-----------------------------------------------------------------------------
(***************************************************************************)
(* Time.                                                                   *)
(***************************************************************************)
Scaled(n, digits) == [n EXCEPT !.e = @ + digits]

\* n >= 10^(digits + 1), for a decimal with two digits.
AtLeast(n, digits) == n.m > 0 /\ n.e >= digits

\* Mutant: milliseconds begin at 1e11.
InNanosLate(n) ==
    CASE AtLeast(n, 15) -> n
      [] ~AtLeast(n, 15) /\ AtLeast(n, 12) -> Scaled(n, 3)
      [] ~AtLeast(n, 12) /\ AtLeast(n, 10) -> Scaled(n, 6)
      [] OTHER -> Scaled(n, 9)

\* The unit of an epoch is told from its magnitude: nanoseconds from 1e16 on,
\* microseconds from 1e13 on, milliseconds from 1e10 on, otherwise seconds.
InNanos(n) ==
    CASE AtLeast(n, 15) -> n
      [] ~AtLeast(n, 15) /\ AtLeast(n, 12) -> Scaled(n, 3)
      [] ~AtLeast(n, 12) /\ AtLeast(n, 9) -> Scaled(n, 6)
      [] OTHER -> Scaled(n, 9)

\* n is between the least and the greatest 64-bit integer.
Fits(n) == n.e < (IF n.m \in -92..92 THEN 18 ELSE 17) \/ n.m = 0

\* llround has no defined result for what does not fit.
EpochToNanos(n) ==
    IF n # NotFinite /\ Fits(InNanos(n)) THEN InNanos(n) ELSE Unspecified

\* What _time is, or is read as, is a decimal if it is anything.
ASSUME TimesAssumption ==
    \A e \in Events : "_time" \in DOMAIN e =>
        /\ e["_time"].type = "number" => e["_time"].number \in Decimal
        /\ e["_time"].type = "string" =>
              /\ InstantIn(e["_time"].text) \in Decimal \cup {None}
              /\ NumberIn(e["_time"].text) \in Decimal \cup {NotFinite, None}

ParseSplunkTimeToNanos(e) ==
    IF "_time" \notin DOMAIN e THEN None
    ELSE LET value == e["_time"]
             text == value.text
         IN  CASE value.type = "number" -> EpochToNanos(value.number)
               [] value.type = "string" /\ InstantIn(text) # None -> InstantIn(text)
               [] value.type = "string" /\ InstantIn(text) = None /\ NumberIn(text) # None ->
                     EpochToNanos(NumberIn(text))
               [] OTHER -> None

-----------------------------------------------------------------------------
(***************************************************************************)
(* Attributes: a JSON object under construction is a set of key-value      *)
(* pairs, as adding a key to it twice would leave both.                    *)
(***************************************************************************)
OtlpKey == [host |-> "host.name", source |-> "com.splunk.source",
            sourcetype |-> "com.splunk.sourcetype", index |-> "com.splunk.index",
            splunk_server |-> "com.splunk.server"]

IsInternalField(key) ==
    key \in Underscored \cup DOMAIN OtlpKey \cup {"linecount", "punct", "eventtype"}

\* Mutant: an object without fields is written as {}.
WriteAlways(pairs) == pairs

\* An object without fields is not written.
Write(pairs) == IF pairs = {} THEN None ELSE pairs

BuildResourceAttributes(e) ==
    Write({<<OtlpKey[key], GetStr(e, key)>> :
              key \in {k \in DOMAIN OtlpKey : GetStr(e, k) # None}})

\* Mutant: a key that is present already is added again.
CopyAllFields(pairs, source) ==
    IF source = None THEN pairs
    ELSE pairs \cup {<<key, source[key]>> :
                        key \in {k \in DOMAIN source : ~IsInternalField(k)}}

CopyNonInternalFields(pairs, source) ==
    IF source = None THEN pairs
    ELSE pairs \cup {<<key, source[key]>> :
                        key \in {k \in DOMAIN source :
                                    /\ ~IsInternalField(k)
                                    /\ \A p \in pairs : p[1] # k}}

LogAttributes(e, raw) == CopyNonInternalFields(CopyNonInternalFields({}, e), raw)

BuildLogAttributes(e, raw) == Write(LogAttributes(e, raw))

\* NULL is no event, and no object under construction.
ASSUME NullAssumption ==
    \A e \in Events : e # None /\ LogAttributes(e, ParseRawObject(e)) # None

-----------------------------------------------------------------------------
(***************************************************************************)
(* The loop over the columns.                                              *)
(***************************************************************************)
\* The columns that are a text looked up under some keys.
TextKeys == [trace_id |-> <<"trace_id">>,
             span_id |-> <<"span_id">>,
             service_name |-> <<"service", "service_name">>,
             body |-> <<"_raw", "message">>]
TimeColumns == {"time_unix_nano", "observed_time_unix_nano"}
SeverityColumns == {"severity_number", "severity_text"}

At(columns) == c <= Len(column_ids) /\ column_ids[c] \in columns

SetCell(value) ==
    /\ row' = [row EXCEPT ![c] = value]
    /\ c' = c + 1
    /\ UNCHANGED <<column_ids, event>>

Raw == IF raw_parsed THEN raw_cache ELSE ParseRawObject(event)
Sources == <<event, Fields(event), Raw>>

\* Mutant: the outcome is kept, that there is one is not.
CallRawForgetful ==
    /\ raw_cache' = Raw
    /\ raw_parsed' = raw_parsed
    /\ parses' = IF raw_parsed THEN parses ELSE parses + 1

\* raw() is called.
CallRaw ==
    /\ raw_cache' = Raw
    /\ raw_parsed' = TRUE
    /\ parses' = IF raw_parsed THEN parses ELSE parses + 1

MapTime ==
    /\ At(TimeColumns)
    /\ time_cache' = IF time_done THEN time_cache ELSE ParseSplunkTimeToNanos(event)
    /\ time_done' = TRUE
    /\ SetCell(time_cache')
    /\ UNCHANGED <<raw_memo, severity_memo>>

MapText ==
    /\ At(DOMAIN TextKeys)
    /\ CallRaw
    /\ SetCell(LookupStr(Sources, TextKeys[column_ids[c]]))
    /\ UNCHANGED <<severity_memo, time_memo>>

SeverityCell(column, text) ==
    IF column = "severity_text" \/ text = None THEN text ELSE SeverityToNumber(text)

MapSeverity ==
    /\ At(SeverityColumns)
    /\ \/ severity_done /\ UNCHANGED <<raw_memo, severity_cache>>
       \/ /\ ~severity_done
          /\ CallRaw
          /\ severity_cache' = LookupStr(Sources, SeverityKeys)
    /\ severity_done' = TRUE
    /\ SetCell(SeverityCell(column_ids[c], severity_cache'))
    /\ UNCHANGED time_memo

MapResourceAttributes ==
    /\ At({"resource_attributes"})
    /\ SetCell(BuildResourceAttributes(event))
    /\ UNCHANGED <<raw_memo, severity_memo, time_memo>>

MapLogAttributes ==
    /\ At({"log_attributes"})
    /\ CallRaw
    /\ SetCell(BuildLogAttributes(event, Raw))
    /\ UNCHANGED <<severity_memo, time_memo>>

\* Columns Splunk has no data for, and virtual ones, stay NULL.
Mapped == TimeColumns \cup SeverityColumns \cup DOMAIN TextKeys
              \cup {"resource_attributes", "log_attributes"}
MapNothing ==
    /\ c <= Len(column_ids) /\ column_ids[c] \notin Mapped
    /\ SetCell(None)
    /\ UNCHANGED <<raw_memo, severity_memo, time_memo>>

NextRow ==
    /\ c > Len(column_ids)
    /\ event' \in Events
    /\ c' = 1 /\ row' = Blank
    /\ UNCHANGED column_ids

\* Mutant: what was kept for one row is kept for the next.
NextEventWithMemo ==
    /\ NextRow
    /\ parses' = 0
    /\ UNCHANGED <<raw_parsed, raw_cache, severity_memo, time_memo>>

\* The row is done, and MapEvent is called on the next event.
NextEvent ==
    /\ NextRow
    /\ raw_parsed' = FALSE /\ raw_cache' = None /\ parses' = 0
    /\ severity_done' = FALSE /\ severity_cache' = None
    /\ time_done' = FALSE /\ time_cache' = None

Next == \/ MapTime \/ MapText \/ MapSeverity \/ MapResourceAttributes
        \/ MapLogAttributes \/ MapNothing \/ NextEvent

Spec == Init /\ [][Next]_vars

-----------------------------------------------------------------------------
Filled == 1..(c - 1)
Has(columns, i) == column_ids[i] \in columns

\* The loop and its memos stay in their ranges; a cell that is filled has, for a
\* time, a decimal, for severity_number one of the seven numbers, and for
\* attributes an object that has fields: one without is NULL and not {}.
TypeOK ==
    /\ c \in 1..(Len(column_ids) + 1)
    /\ \A i \in DOMAIN row :
          row[i] # None =>
              /\ i \in Filled
              /\ Has(TimeColumns, i) /\ row[i] # Unspecified => row[i] \in Decimal
              /\ Has({"severity_number"}, i) => row[i] \in {0, 1, 5, 9, 13, 17, 21}
              /\ Has({"resource_attributes", "log_attributes"}, i) => row[i] # {}
    /\ raw_parsed \in BOOLEAN /\ severity_done \in BOOLEAN /\ time_done \in BOOLEAN
    /\ parses \in Nat

\* A cell as a function of the event and the column alone.
Cell(e, column) ==
    LET sources == <<e, Fields(e), ParseRawObject(e)>>
    IN  CASE column \in TimeColumns -> ParseSplunkTimeToNanos(e)
          [] column \in DOMAIN TextKeys -> LookupStr(sources, TextKeys[column])
          [] column \in SeverityColumns ->
                SeverityCell(column, LookupStr(sources, SeverityKeys))
          [] column = "resource_attributes" -> BuildResourceAttributes(e)
          [] column = "log_attributes" -> BuildLogAttributes(e, ParseRawObject(e))
          [] OTHER -> None

\* Projection pushdown changes no value: a cell is the same whatever columns
\* are selected beside it, in whatever order, and whatever event came before;
\* so the two severities, and the two times, of a row always agree.
ProjectionChangesNothing ==
    \A i \in Filled : row[i] = Cell(event, column_ids[i])

\* "One that selects two columns backed by the same source does the work
\* once", and one that needs nothing of _raw does not parse it.
RawParsedOnce ==
    /\ parses <= 1
    /\ parses = 1 => \E i \in Filled :
          Has(SeverityColumns \cup DOMAIN TextKeys \cup {"log_attributes"}, i)

\* "A field is never duplicated across both bags", "extracted fields win over
\* _raw": a field that is not internal is in log_attributes once, with the
\* value of the event if it has the field, else with that of _raw.
OneBagPerField ==
    \A i \in Filled : Has({"log_attributes"}, i) =>
        LET raw == ParseRawObject(event)
            nested == IF raw = None THEN {} ELSE DOMAIN raw
            pairs == IF row[i] = None THEN {} ELSE row[i]
        IN  \A key \in DOMAIN event \cup nested :
               {p \in pairs : p[1] = key} =
                   IF key \in Underscored \cup DOMAIN OtlpKey
                                \cup {"linecount", "punct", "eventtype"} THEN {}
                   ELSE {<<key, IF key \in DOMAIN event THEN event[key] ELSE raw[key]>>}

\* The number the event's _time is, or stands for.
EpochOf(e) ==
    IF "_time" \notin DOMAIN e THEN None
    ELSE CASE e["_time"].type = "number" -> e["_time"].number
           [] e["_time"].type = "string" /\ InstantIn(e["_time"].text) = None ->
                 NumberIn(e["_time"].text)
           [] OTHER -> None

\* Of the readings of an epoch as seconds, milliseconds, microseconds and
\* nanoseconds, at most one lies between April 1970 (1e16) and the last
\* instant of 64 bits; it is the one that is taken.  Without such a reading it
\* is seconds, as long as they fit.
TimeIsPlausible ==
    LET n == EpochOf(event)
        plausible == {t \in {Scaled(n, k) : k \in {0, 3, 6, 9}} :
                         AtLeast(t, 15) /\ Fits(t)}
    IN  \A i \in Filled :
          Has(TimeColumns, i) /\ n # None /\ n # NotFinite =>
              /\ plausible # {} => {row[i]} = plausible
              /\ plausible = {} /\ Fits(Scaled(n, 9)) => row[i] = Scaled(n, 9)

\* What the comment on ParseSplunkTimeToNanos says, "returns false if it
\* cannot be interpreted": a timestamp is never made up.
TimeIsNeverInvented ==
    \A i \in Filled : Has(TimeColumns, i) => row[i] # Unspecified
=============================================================================
