------------------------- MODULE EventMappingProofs -------------------------
(***************************************************************************)
(* Proofs about MapEvent, for any events, any sequence of columns a query  *)
(* selects, and any library that parses texts.                             *)
(***************************************************************************)
EXTENDS EventMapping, TLAPS

-----------------------------------------------------------------------------
(***************************************************************************)
(* The invariant: what is kept for the row is what it would be if it were  *)
(* computed afresh.                                                        *)
(***************************************************************************)
\* The loop stands at column c; the cells behind it are still NULL.
Shape ==
    /\ column_ids \in Projections
    /\ event \in Events
    /\ c \in 1..(Len(column_ids) + 1)
    /\ DOMAIN row = DOMAIN column_ids
    /\ \A i \in DOMAIN row : i \notin Filled => row[i] = None

AllSources(e) == <<e, Fields(e), ParseRawObject(e)>>

\* raw() has parsed _raw at most once, and not without a column that asks.
RawMemo ==
    /\ raw_parsed \in BOOLEAN
    /\ raw_parsed => raw_cache = ParseRawObject(event) /\ parses = 1
    /\ ~raw_parsed => parses = 0

OtherMemo ==
    /\ severity_done \in BOOLEAN
    /\ severity_done => severity_cache = LookupStr(AllSources(event), SeverityKeys)
    /\ time_done \in BOOLEAN
    /\ time_done => time_cache = ParseSplunkTimeToNanos(event)

AskedFor ==
    raw_parsed => \E i \in Filled :
        Has(SeverityColumns \cup DOMAIN TextKeys \cup {"log_attributes"}, i)

Inductive ==
    /\ Shape
    /\ RawMemo
    /\ OtherMemo
    /\ AskedFor
    /\ ProjectionChangesNothing

\* A loop that begins has written no cell and computed no memo.
LEMMA InductiveInit == Init => Inductive
  <1> SUFFICES ASSUME Init PROVE Inductive
    OBVIOUS
  <1> USE DEF Init
  <1>1. column_ids \in Seq(STRING) /\ Len(column_ids) \in Nat
    BY ProjectionsAssumption
  <1>2. Filled = {}
    BY DEF Filled
  <1>3. Shape
    BY <1>1 DEF Shape, Blank
  <1>4. RawMemo /\ OtherMemo /\ AskedFor
    BY DEF RawMemo, OtherMemo, AskedFor
  <1>5. ProjectionChangesNothing
    BY <1>2 DEF ProjectionChangesNothing
  <1> QED
    BY <1>3, <1>4, <1>5 DEF Inductive

\* The columns are told apart by their names.
LEMMA ColumnsApart ==
  /\ DOMAIN TextKeys = {"trace_id", "span_id", "service_name", "body"}
  /\ \A x \in TimeColumns : /\ x \notin DOMAIN TextKeys /\ x \notin SeverityColumns
                            /\ x # "resource_attributes" /\ x # "log_attributes"
  /\ \A x \in DOMAIN TextKeys : /\ x \notin TimeColumns /\ x \notin SeverityColumns
                                /\ x # "resource_attributes" /\ x # "log_attributes"
  /\ \A x \in SeverityColumns : /\ x \notin TimeColumns /\ x \notin DOMAIN TextKeys
                                /\ x # "resource_attributes" /\ x # "log_attributes"
  /\ "resource_attributes" \notin TimeColumns \cup SeverityColumns \cup DOMAIN TextKeys
  /\ "log_attributes" \notin TimeColumns \cup SeverityColumns \cup DOMAIN TextKeys
  BY DEF TextKeys, TimeColumns, SeverityColumns

\* The value of a cell, column by column.
LEMMA CellOf ==
  ASSUME NEW e, NEW x
  PROVE  /\ x \in TimeColumns => Cell(e, x) = ParseSplunkTimeToNanos(e)
         /\ x \in DOMAIN TextKeys => Cell(e, x) = LookupStr(AllSources(e), TextKeys[x])
         /\ x \in SeverityColumns =>
               Cell(e, x) = SeverityCell(x, LookupStr(AllSources(e), SeverityKeys))
         /\ x = "resource_attributes" => Cell(e, x) = BuildResourceAttributes(e)
         /\ x = "log_attributes" => Cell(e, x) = BuildLogAttributes(e, ParseRawObject(e))
         /\ x \notin Mapped => Cell(e, x) = None
  <1>1. x \in TimeColumns => Cell(e, x) = ParseSplunkTimeToNanos(e)
    BY ColumnsApart DEF Cell
  <1>2. x \in DOMAIN TextKeys => Cell(e, x) = LookupStr(AllSources(e), TextKeys[x])
    BY ColumnsApart DEF Cell, AllSources
  <1>3. x \in SeverityColumns =>
               Cell(e, x) = SeverityCell(x, LookupStr(AllSources(e), SeverityKeys))
    BY ColumnsApart DEF Cell, AllSources
  <1>4. x = "resource_attributes" => Cell(e, x) = BuildResourceAttributes(e)
    BY ColumnsApart DEF Cell
  <1>5. x = "log_attributes" => Cell(e, x) = BuildLogAttributes(e, ParseRawObject(e))
    BY ColumnsApart DEF Cell
  <1>6. x \notin Mapped => Cell(e, x) = None
    BY DEF Cell, Mapped
  <1> QED
    BY <1>1, <1>2, <1>3, <1>4, <1>5, <1>6

\* A column that is mapped to the value of its cell keeps what is known of the
\* row, and moves the loop one column on.
LEMMA ColumnMapped ==
  ASSUME Inductive, c <= Len(column_ids), SetCell(Cell(event, column_ids[c]))
  PROVE  /\ Shape' /\ ProjectionChangesNothing'
         /\ Filled' = Filled \cup {c}
         /\ UNCHANGED <<column_ids, event>>
  <1>1. /\ column_ids \in Seq(STRING) /\ Len(column_ids) \in Nat /\ column_ids \in Projections
        /\ DOMAIN column_ids = 1..Len(column_ids)
    BY ProjectionsAssumption DEF Inductive, Shape
  <1>2. /\ c \in 1..Len(column_ids) /\ c \in Nat
        /\ DOMAIN row = DOMAIN column_ids /\ c \in DOMAIN row
    BY <1>1 DEF Inductive, Shape
  <1>3. /\ row' = [row EXCEPT ![c] = Cell(event, column_ids[c])]
        /\ c' = c + 1 /\ UNCHANGED <<column_ids, event>>
    BY DEF SetCell
  <1>4. /\ Filled' = 1..c /\ Filled = 1..(c - 1)
        /\ Filled' = Filled \cup {c} /\ c \notin Filled
    BY <1>2, <1>3 DEF Filled
  <1>5. /\ DOMAIN row' = DOMAIN row
        /\ row'[c] = Cell(event, column_ids[c])
        /\ \A i \in DOMAIN row : i # c => row'[i] = row[i]
    BY <1>2, <1>3
  <1>6. Shape'
    <2>1. c' \in 1..(Len(column_ids') + 1)
      BY <1>1, <1>2, <1>3
    <2>2. \A i \in DOMAIN row' : i \notin Filled' => row'[i] = None
      BY <1>4, <1>5 DEF Inductive, Shape
    <2> QED
      BY <1>3, <1>5, <2>1, <2>2 DEF Inductive, Shape
  <1>7. ProjectionChangesNothing'
    <2> SUFFICES ASSUME NEW i \in Filled' PROVE row'[i] = Cell(event, column_ids[i])
      BY <1>3 DEF ProjectionChangesNothing
    <2>1. CASE i = c
      BY <1>5, <2>1
    <2>2. CASE i # c
      <3>1. i \in Filled /\ i \in DOMAIN row
        BY <1>1, <1>2, <1>4, <2>2
      <3> QED
        BY <1>5, <2>2, <3>1 DEF Inductive, ProjectionChangesNothing
    <2> QED
      BY <2>1, <2>2
  <1> QED
    BY <1>3, <1>4, <1>6, <1>7

\* raw() returns what parsing _raw afresh would.
LEMMA RawIsFresh ==
  ASSUME Inductive
  PROVE  Raw = ParseRawObject(event) /\ Sources = AllSources(event)
  <1>1. Raw = ParseRawObject(event)
    BY DEF Inductive, RawMemo, Raw
  <1> QED
    BY <1>1 DEF Sources, AllSources

\* raw() is called for column c.
LEMMA RawIsCalled ==
  ASSUME Inductive, CallRaw, UNCHANGED <<column_ids, event>>, Filled' = Filled \cup {c},
         column_ids[c] \in SeverityColumns \cup DOMAIN TextKeys \cup {"log_attributes"}
  PROVE  RawMemo' /\ AskedFor'
  <1>1. raw_parsed' = TRUE /\ raw_cache' = Raw
           /\ parses' = IF raw_parsed THEN parses ELSE parses + 1
    BY DEF CallRaw
  <1>2. raw_cache' = ParseRawObject(event')
    BY <1>1, RawIsFresh
  <1>3. parses' = 1
    BY <1>1 DEF Inductive, RawMemo
  <1>4. RawMemo'
    BY <1>1, <1>2, <1>3 DEF RawMemo
  <1>5. AskedFor'
    BY DEF AskedFor, Has
  <1> QED
    BY <1>4, <1>5

\* raw() is not called.
LEMMA RawIsKept ==
  ASSUME Inductive, UNCHANGED raw_memo, UNCHANGED <<column_ids, event>>,
         Filled' = Filled \cup {c}
  PROVE  RawMemo' /\ AskedFor'
  BY DEF raw_memo, Inductive, RawMemo, AskedFor, Has

\* Every step keeps the invariant.
LEMMA InductiveNext == Inductive /\ [Next]_vars => Inductive'
  <1> SUFFICES ASSUME Inductive, [Next]_vars PROVE Inductive'
    OBVIOUS
  <1> DEFINE x == column_ids[c]
  <1>1. CASE MapTime
    <2>1. x \in TimeColumns /\ c <= Len(column_ids) /\ UNCHANGED <<raw_memo, severity_memo>>
      BY <1>1 DEF MapTime, At
    <2>2. time_done' = TRUE /\ time_cache' = ParseSplunkTimeToNanos(event)
      BY <1>1 DEF MapTime, Inductive, OtherMemo
    <2>3. SetCell(time_cache')
      BY <1>1 DEF MapTime
    <2>4. SetCell(Cell(event, x))
      BY <2>1, <2>2, <2>3, CellOf
    <2>5. /\ Shape' /\ ProjectionChangesNothing' /\ Filled' = Filled \cup {c}
          /\ UNCHANGED <<column_ids, event>>
      BY <2>1, <2>4, ColumnMapped
    <2>6. OtherMemo'
      BY <2>1, <2>2, <2>5 DEF Inductive, OtherMemo, severity_memo
    <2> QED
      BY <2>1, <2>5, <2>6, RawIsKept DEF Inductive
  <1>2. CASE MapText
    <2>1. /\ x \in DOMAIN TextKeys /\ c <= Len(column_ids) /\ CallRaw
          /\ UNCHANGED <<severity_memo, time_memo>>
      BY <1>2 DEF MapText, At
    <2>2. SetCell(LookupStr(AllSources(event), TextKeys[x]))
      BY <1>2, RawIsFresh DEF MapText
    <2>3. SetCell(Cell(event, x))
      BY <2>1, <2>2, CellOf
    <2>4. /\ Shape' /\ ProjectionChangesNothing' /\ Filled' = Filled \cup {c}
          /\ UNCHANGED <<column_ids, event>>
      BY <2>1, <2>3, ColumnMapped
    <2>5. OtherMemo'
      BY <2>1, <2>4 DEF Inductive, OtherMemo, severity_memo, time_memo
    <2> QED
      BY <2>1, <2>4, <2>5, RawIsCalled DEF Inductive
  <1>3. CASE MapSeverity
    <2>1. x \in SeverityColumns /\ c <= Len(column_ids) /\ UNCHANGED time_memo
      BY <1>3 DEF MapSeverity, At
    <2>2. severity_done' = TRUE
             /\ severity_cache' = LookupStr(AllSources(event), SeverityKeys)
      BY <1>3, RawIsFresh DEF MapSeverity, Inductive, OtherMemo
    <2>3. SetCell(SeverityCell(x, severity_cache'))
      BY <1>3 DEF MapSeverity
    <2>4. SetCell(Cell(event, x))
      BY <2>1, <2>2, <2>3, CellOf
    <2>5. /\ Shape' /\ ProjectionChangesNothing' /\ Filled' = Filled \cup {c}
          /\ UNCHANGED <<column_ids, event>>
      BY <2>1, <2>4, ColumnMapped
    <2>6. OtherMemo'
      BY <2>1, <2>2, <2>5 DEF Inductive, OtherMemo, time_memo
    <2>7. RawMemo' /\ AskedFor'
      <3>1. CASE CallRaw
        BY <2>1, <2>5, <3>1, RawIsCalled
      <3>2. CASE UNCHANGED raw_memo
        BY <2>5, <3>2, RawIsKept
      <3> QED
        BY <1>3, <3>1, <3>2 DEF MapSeverity
    <2> QED
      BY <2>5, <2>6, <2>7 DEF Inductive
  <1>4. CASE MapResourceAttributes
    <2>1. /\ x = "resource_attributes" /\ c <= Len(column_ids)
          /\ UNCHANGED <<raw_memo, severity_memo, time_memo>>
      BY <1>4 DEF MapResourceAttributes, At
    <2>2. SetCell(BuildResourceAttributes(event))
      BY <1>4 DEF MapResourceAttributes
    <2>3. SetCell(Cell(event, x))
      BY <2>1, <2>2, CellOf
    <2>4. /\ Shape' /\ ProjectionChangesNothing' /\ Filled' = Filled \cup {c}
          /\ UNCHANGED <<column_ids, event>>
      BY <2>1, <2>3, ColumnMapped
    <2>5. OtherMemo'
      BY <2>1, <2>4 DEF Inductive, OtherMemo, severity_memo, time_memo
    <2> QED
      BY <2>1, <2>4, <2>5, RawIsKept DEF Inductive
  <1>5. CASE MapLogAttributes
    <2>1. /\ x = "log_attributes" /\ c <= Len(column_ids) /\ CallRaw
          /\ UNCHANGED <<severity_memo, time_memo>>
      BY <1>5 DEF MapLogAttributes, At
    <2>2. SetCell(BuildLogAttributes(event, ParseRawObject(event)))
      BY <1>5, RawIsFresh DEF MapLogAttributes
    <2>3. SetCell(Cell(event, x))
      BY <2>1, <2>2, CellOf
    <2>4. /\ Shape' /\ ProjectionChangesNothing' /\ Filled' = Filled \cup {c}
          /\ UNCHANGED <<column_ids, event>>
      BY <2>1, <2>3, ColumnMapped
    <2>5. OtherMemo'
      BY <2>1, <2>4 DEF Inductive, OtherMemo, severity_memo, time_memo
    <2> QED
      BY <2>1, <2>4, <2>5, RawIsCalled DEF Inductive
  <1>6. CASE MapNothing
    <2>1. /\ x \notin Mapped /\ c <= Len(column_ids)
          /\ UNCHANGED <<raw_memo, severity_memo, time_memo>>
      BY <1>6 DEF MapNothing
    <2>2. SetCell(None)
      BY <1>6 DEF MapNothing
    <2>3. SetCell(Cell(event, x))
      BY <2>1, <2>2, CellOf
    <2>4. /\ Shape' /\ ProjectionChangesNothing' /\ Filled' = Filled \cup {c}
          /\ UNCHANGED <<column_ids, event>>
      BY <2>1, <2>3, ColumnMapped
    <2>5. OtherMemo'
      BY <2>1, <2>4 DEF Inductive, OtherMemo, severity_memo, time_memo
    <2> QED
      BY <2>1, <2>4, <2>5, RawIsKept DEF Inductive
  <1>7. CASE NextEvent
    <2>1. /\ event' \in Events /\ c' = 1 /\ row' = [i \in DOMAIN column_ids |-> None]
          /\ UNCHANGED column_ids
      BY <1>7 DEF NextEvent, NextRow, Blank
    <2>2. raw_parsed' = FALSE /\ parses' = 0 /\ severity_done' = FALSE /\ time_done' = FALSE
      BY <1>7 DEF NextEvent
    <2>3. Filled' = {}
      BY <2>1 DEF Filled
    <2>4. Shape'
      <3>1. Len(column_ids) \in Nat
        BY ProjectionsAssumption DEF Inductive, Shape
      <3> QED
        BY <2>1, <3>1 DEF Inductive, Shape
    <2>5. ProjectionChangesNothing'
      BY <2>3 DEF ProjectionChangesNothing
    <2>6. RawMemo' /\ OtherMemo' /\ AskedFor'
      BY <2>2 DEF RawMemo, OtherMemo, AskedFor
    <2> QED
      BY <2>4, <2>5, <2>6 DEF Inductive
  <1>8. CASE UNCHANGED vars
    BY <1>8
    DEF vars, raw_memo, severity_memo, time_memo, Inductive, Shape, RawMemo, OtherMemo,
        AskedFor, Has, Filled, ProjectionChangesNothing
  <1> QED
    BY <1>1, <1>2, <1>3, <1>4, <1>5, <1>6, <1>7, <1>8 DEF Next

\* What is kept for a row is what would be computed afresh for it.
THEOREM MappingInductiveInvariant == Spec => []Inductive
  BY InductiveInit, InductiveNext, PTL DEF Spec

\* Projection pushdown changes no value: for every event, a cell depends on
\* the event and its column alone, not on the columns selected beside it, on
\* their order, or on the event that was mapped before.
THEOREM ProjectionChangesNothingCorrect == Spec => []ProjectionChangesNothing
  <1>1. Inductive => ProjectionChangesNothing
    BY DEF Inductive
  <1> QED
    BY <1>1, MappingInductiveInvariant, PTL

\* However many columns need the object within _raw, it is parsed at most once
\* for a row, and only for a column that needs it.
THEOREM RawParsedOnceCorrect == Spec => []RawParsedOnce
  <1>1. Inductive => RawParsedOnce
    BY DEF Inductive, RawMemo, AskedFor, RawParsedOnce
  <1> QED
    BY <1>1, MappingInductiveInvariant, PTL

-----------------------------------------------------------------------------
(***************************************************************************)
(* Times.                                                                  *)
(***************************************************************************)
LEMMA ScaledType ==
  ASSUME NEW n \in Decimal, NEW k \in Nat
  PROVE  /\ n.m \in Int /\ n.e \in Int
         /\ Scaled(n, k) \in Decimal
         /\ Scaled(n, k).m = n.m /\ Scaled(n, k).e = n.e + k
  BY DEF Decimal, Scaled

\* A number that is scaled by nothing is the same number.
LEMMA ScaledByNothing ==
  ASSUME NEW n \in Decimal
  PROVE  Scaled(n, 0) = n
  <1>1. Scaled(n, 0) = [n EXCEPT !.e = n.e + 0]
    BY DEF Scaled
  <1>2. n.e + 0 = n.e
    BY ScaledType
  <1>3. [n EXCEPT !.e = n.e] = n
    BY DEF Decimal
  <1> QED
    BY <1>1, <1>2, <1>3

\* An epoch becomes a decimal, unless std::llround cannot represent it.
LEMMA NanosType ==
  ASSUME NEW n \in Decimal \cup {NotFinite}
  PROVE  EpochToNanos(n) \in Decimal \cup {Unspecified}
  <1>1. CASE n = NotFinite
    BY <1>1 DEF EpochToNanos
  <1>2. CASE n # NotFinite
    <2>1. n \in Decimal
      BY <1>2
    <2>2. InNanos(n) \in Decimal
      BY <2>1, ScaledType DEF InNanos
    <2> QED
      BY <2>2 DEF EpochToNanos
  <1> QED
    BY <1>1, <1>2

\* An event's _time becomes a point in time, nothing, or an unspecified one.
LEMMA TimeType ==
  ASSUME NEW e \in Events
  PROVE  ParseSplunkTimeToNanos(e) \in Decimal \cup {Unspecified, None}
  <1>1. CASE "_time" \notin DOMAIN e
    BY <1>1 DEF ParseSplunkTimeToNanos
  <1>2. CASE "_time" \in DOMAIN e
    <2> DEFINE value == e["_time"]
               text == value.text
    <2>1. /\ value.type = "number" => value.number \in Decimal
          /\ value.type = "string" =>
                /\ InstantIn(text) \in Decimal \cup {None}
                /\ NumberIn(text) \in Decimal \cup {NotFinite, None}
      BY <1>2, TimesAssumption
    <2> HIDE DEF value
    <2>2. ParseSplunkTimeToNanos(e) =
             CASE value.type = "number" -> EpochToNanos(value.number)
               [] value.type = "string" /\ InstantIn(text) # None -> InstantIn(text)
               [] value.type = "string" /\ InstantIn(text) = None /\ NumberIn(text) # None ->
                     EpochToNanos(NumberIn(text))
               [] OTHER -> None
      BY <1>2 DEF ParseSplunkTimeToNanos, value
    <2>3. CASE value.type = "number"
      BY <2>1, <2>2, <2>3, NanosType
    <2>4. CASE value.type = "string"
      BY <2>1, <2>2, <2>4, NanosType
    <2>5. CASE value.type \notin {"number", "string"}
      BY <2>2, <2>5
    <2> QED
      BY <2>3, <2>4, <2>5
  <1> QED
    BY <1>1, <1>2

\* The readings of an epoch that are plausible.
Plausible(n) == {t \in {Scaled(n, k) : k \in {0, 3, 6, 9}} : AtLeast(t, 15) /\ Fits(t)}

\* An epoch has at most one plausible reading, and EpochToNanos takes it.
LEMMA EpochIsPlausible ==
  ASSUME NEW n \in Decimal, n # NotFinite
  PROVE  /\ Plausible(n) # {} => {EpochToNanos(n)} = Plausible(n)
         /\ Plausible(n) = {} /\ Fits(Scaled(n, 9)) => EpochToNanos(n) = Scaled(n, 9)
  <1> DEFINE At15(k) == n.m > 0 /\ n.e + k >= 15
             InRange(k) == n.e + k < (IF n.m \in -92..92 THEN 18 ELSE 17) \/ n.m = 0
  <1>1. n.m \in Int /\ n.e \in Int
    BY ScaledType
  <1>2. \A k \in {0, 3, 6, 9} : /\ AtLeast(Scaled(n, k), 15) <=> At15(k)
                                /\ Fits(Scaled(n, k)) <=> InRange(k)
    <2> SUFFICES ASSUME NEW k \in {0, 3, 6, 9}
                 PROVE  /\ AtLeast(Scaled(n, k), 15) <=> At15(k)
                        /\ Fits(Scaled(n, k)) <=> InRange(k)
      OBVIOUS
    <2> DEFINE t == Scaled(n, k)
    <2>1. t.m = n.m /\ t.e = n.e + k
      BY ScaledType
    <2> HIDE DEF t
    <2>2. AtLeast(t, 15) <=> At15(k)
      BY <2>1 DEF AtLeast
    <2>3. Fits(t) <=> InRange(k)
      BY <2>1 DEF Fits
    <2> QED
      BY <2>2, <2>3 DEF t
  <1>3. Scaled(n, 0) = n
    BY ScaledByNothing
  <1>4. PICK k \in {0, 3, 6, 9} :
           /\ InNanos(n) = Scaled(n, k)
           /\ k = 0 <=> n.m > 0 /\ n.e >= 15
           /\ k = 3 <=> n.m > 0 /\ n.e < 15 /\ n.e >= 12
           /\ k = 6 <=> n.m > 0 /\ n.e < 12 /\ n.e >= 9
           /\ k = 9 <=> ~(n.m > 0 /\ n.e >= 9)
    <2>1. CASE n.m > 0 /\ n.e >= 15
      BY <1>1, <1>3, <2>1 DEF InNanos, AtLeast
    <2>2. CASE n.m > 0 /\ n.e < 15 /\ n.e >= 12
      BY <1>1, <2>2 DEF InNanos, AtLeast
    <2>3. CASE n.m > 0 /\ n.e < 12 /\ n.e >= 9
      BY <1>1, <2>3 DEF InNanos, AtLeast
    <2>4. CASE ~(n.m > 0 /\ n.e >= 9)
      BY <1>1, <2>4 DEF InNanos, AtLeast
    <2> QED
      BY <1>1, <2>1, <2>2, <2>3, <2>4
  <1>5. \A j \in {0, 3, 6, 9} : At15(j) /\ InRange(j) => j = k
    BY <1>1, <1>4
  <1>6. Plausible(n) \subseteq {Scaled(n, k)}
    BY <1>2, <1>5 DEF Plausible
  <1>7. EpochToNanos(n) = IF InRange(k) THEN Scaled(n, k) ELSE Unspecified
    BY <1>2, <1>4 DEF EpochToNanos
  <1>8. ASSUME Plausible(n) # {} PROVE {EpochToNanos(n)} = Plausible(n)
    <2>1. Plausible(n) = {Scaled(n, k)}
      BY <1>6, <1>8
    <2>2. InRange(k)
      BY <1>2, <2>1 DEF Plausible
    <2> QED
      BY <1>7, <2>1, <2>2
  <1>9. ASSUME Plausible(n) = {}, Fits(Scaled(n, 9)) PROVE EpochToNanos(n) = Scaled(n, 9)
    <2>1. InRange(9)
      BY <1>2, <1>9
    <2>2. ~(At15(k) /\ InRange(k))
      BY <1>2, <1>9 DEF Plausible
    <2>3. k = 9
      BY <1>1, <1>4, <2>1, <2>2
    <2> QED
      BY <1>7, <2>1, <2>3
  <1> QED
    BY <1>8, <1>9

\* A cell with a time holds what is computed from the event's epoch.
LEMMA TimeIsPlausibleHolds == Inductive => TimeIsPlausible
  <1> SUFFICES ASSUME Inductive,
                      NEW i \in Filled, Has(TimeColumns, i),
                      EpochOf(event) # None, EpochOf(event) # NotFinite
               PROVE  LET n == EpochOf(event)
                          plausible == {t \in {Scaled(n, k) : k \in {0, 3, 6, 9}} :
                                           AtLeast(t, 15) /\ Fits(t)}
                      IN  /\ plausible # {} => {row[i]} = plausible
                          /\ plausible = {} /\ Fits(Scaled(n, 9)) => row[i] = Scaled(n, 9)
    BY DEF TimeIsPlausible
  <1> DEFINE n == EpochOf(event)
             value == event["_time"]
             text == value.text
  <1>1. event \in Events
    BY DEF Inductive, Shape
  <1>2. row[i] = ParseSplunkTimeToNanos(event)
    BY CellOf DEF Inductive, ProjectionChangesNothing, Has
  <1>3. "_time" \in DOMAIN event
    BY DEF EpochOf
  <1>4. /\ value.type = "number" => value.number \in Decimal
        /\ value.type = "string" =>
              /\ InstantIn(text) \in Decimal \cup {None}
              /\ NumberIn(text) \in Decimal \cup {NotFinite, None}
    BY <1>1, <1>3, TimesAssumption
  <1>5. n = CASE value.type = "number" -> value.number
              [] value.type = "string" /\ InstantIn(text) = None -> NumberIn(text)
              [] OTHER -> None
    BY <1>3 DEF EpochOf
  <1>6. ParseSplunkTimeToNanos(event) =
           CASE value.type = "number" -> EpochToNanos(value.number)
             [] value.type = "string" /\ InstantIn(text) # None -> InstantIn(text)
             [] value.type = "string" /\ InstantIn(text) = None /\ NumberIn(text) # None ->
                   EpochToNanos(NumberIn(text))
             [] OTHER -> None
    BY <1>3 DEF ParseSplunkTimeToNanos
  <1>7. n # None /\ n # NotFinite
    OBVIOUS
  <1> HIDE DEF n, value
  <1>8. n \in Decimal /\ row[i] = EpochToNanos(n)
    <2>1. CASE value.type = "number"
      BY <1>2, <1>4, <1>5, <1>6, <2>1
    <2>2. CASE value.type = "string" /\ InstantIn(text) = None
      BY <1>2, <1>4, <1>5, <1>6, <1>7, <2>2
    <2>3. CASE ~(value.type = "number") /\ ~(value.type = "string" /\ InstantIn(text) = None)
      BY <1>5, <1>7, <2>3
    <2> QED
      BY <2>1, <2>2, <2>3
  <1>9. /\ Plausible(n) # {} => {row[i]} = Plausible(n)
        /\ Plausible(n) = {} /\ Fits(Scaled(n, 9)) => row[i] = Scaled(n, 9)
    BY <1>7, <1>8, EpochIsPlausible
  <1> QED
    BY <1>9 DEF Plausible, n

\* An epoch of any size is read in the one unit in which it lies between April
\* 1970 and the last instant of 64 bits, and in seconds if there is none.
THEOREM TimeIsPlausibleCorrect == Spec => []TimeIsPlausible
  BY TimeIsPlausibleHolds, MappingInductiveInvariant, PTL

-----------------------------------------------------------------------------
(***************************************************************************)
(* Types of cells.                                                         *)
(***************************************************************************)
LEMMA SeverityType ==
  ASSUME NEW text
  PROVE  SeverityToNumber(text) \in {0, 1, 5, 9, 13, 17, 21}
  BY DEF SeverityToNumber

\* An object without fields is written as NULL.
LEMMA WriteType ==
  ASSUME NEW pairs
  PROVE  Write(pairs) # None => Write(pairs) # {}
  BY DEF Write

\* A cell that was written has a value of its column.
LEMMA TypeHolds == Inductive => TypeOK
  <1> SUFFICES ASSUME Inductive PROVE TypeOK
    OBVIOUS
  <1>1. Shape /\ RawMemo /\ OtherMemo
    BY DEF Inductive
  <1>2. ASSUME NEW i \in DOMAIN row, row[i] # None
        PROVE  /\ i \in Filled
               /\ Has(TimeColumns, i) /\ row[i] # Unspecified => row[i] \in Decimal
               /\ Has({"severity_number"}, i) => row[i] \in {0, 1, 5, 9, 13, 17, 21}
               /\ Has({"resource_attributes", "log_attributes"}, i) => row[i] # {}
    <2>1. i \in Filled /\ event \in Events
      BY <1>1, <1>2 DEF Shape
    <2> DEFINE x == column_ids[i]
               text == LookupStr(AllSources(event), SeverityKeys)
    <2>2. row[i] = Cell(event, x)
      BY <2>1 DEF Inductive, ProjectionChangesNothing
    <2>3. ASSUME x \in TimeColumns, row[i] # Unspecified PROVE row[i] \in Decimal
      BY <1>2, <2>1, <2>2, <2>3, CellOf, TimeType
    <2>4. ASSUME x = "severity_number" PROVE row[i] \in {0, 1, 5, 9, 13, 17, 21}
      <3>1. x \in SeverityColumns /\ x # "severity_text"
        BY <2>4 DEF SeverityColumns
      <3>2. row[i] = SeverityCell(x, text)
        BY <2>2, <3>1, CellOf
      <3> QED
        BY <1>2, <3>1, <3>2, SeverityType DEF SeverityCell
    <2>5. ASSUME x \in {"resource_attributes", "log_attributes"} PROVE row[i] # {}
      <3>1. row[i] = BuildResourceAttributes(event)
               \/ row[i] = BuildLogAttributes(event, ParseRawObject(event))
        BY <2>2, <2>5, CellOf
      <3> QED
        BY <1>2, <3>1, WriteType DEF BuildResourceAttributes, BuildLogAttributes
    <2> QED
      BY <2>1, <2>3, <2>4, <2>5 DEF Has
  <1>3. parses \in Nat
    BY <1>1 DEF RawMemo
  <1> QED
    BY <1>1, <1>2, <1>3 DEF TypeOK, Shape, RawMemo, OtherMemo

\* Whatever the event is, the cells of times, of severity_number and of
\* attributes have their types, and an object without fields is NULL and not {}.
THEOREM MappingTypeCorrect == Spec => []TypeOK
  BY TypeHolds, MappingInductiveInvariant, PTL

-----------------------------------------------------------------------------
(***************************************************************************)
(* The bag of a field.                                                     *)
(***************************************************************************)
\* What copying adds of the key k.
LEMMA CopiedField ==
  ASSUME NEW pairs, NEW source, source # None, NEW k
  PROVE  {p \in CopyNonInternalFields(pairs, source) : p[1] = k}
            = {p \in pairs : p[1] = k}
                 \cup (IF /\ k \in DOMAIN source /\ ~IsInternalField(k)
                          /\ \A p \in pairs : p[1] # k
                       THEN {<<k, source[k]>>} ELSE {})
  BY DEF CopyNonInternalFields

\* A field is added where it is met first, the event's before that of _raw.
LEMMA OneBagPerFieldHolds == Inductive => OneBagPerField
  <1> SUFFICES ASSUME Inductive, NEW i \in Filled, Has({"log_attributes"}, i)
               PROVE  LET raw == ParseRawObject(event)
                          nested == IF raw = None THEN {} ELSE DOMAIN raw
                          pairs == IF row[i] = None THEN {} ELSE row[i]
                      IN  \A key \in DOMAIN event \cup nested :
                             {p \in pairs : p[1] = key} =
                                 IF key \in Underscored \cup DOMAIN OtlpKey
                                              \cup {"linecount", "punct", "eventtype"} THEN {}
                                 ELSE {<<key, IF key \in DOMAIN event THEN event[key]
                                              ELSE raw[key]>>}
    BY DEF OneBagPerField
  <1> DEFINE raw == ParseRawObject(event)
             nested == IF raw = None THEN {} ELSE DOMAIN raw
             pairs == IF row[i] = None THEN {} ELSE row[i]
             first == CopyNonInternalFields({}, event)
  <1>1. event \in Events
    BY DEF Inductive, Shape
  <1>2. row[i] = Write(LogAttributes(event, raw))
    BY CellOf DEF Inductive, ProjectionChangesNothing, Has, BuildLogAttributes
  <1>3. event # None /\ LogAttributes(event, raw) # None
    BY <1>1, NullAssumption
  <1>4. pairs = CopyNonInternalFields(first, raw)
    BY <1>2, <1>3 DEF Write, LogAttributes
  <1> HIDE DEF pairs, raw
  <1>5. ASSUME NEW k \in DOMAIN event \cup nested
        PROVE  {p \in pairs : p[1] = k} =
                  IF IsInternalField(k) THEN {}
                  ELSE {<<k, IF k \in DOMAIN event THEN event[k] ELSE raw[k]>>}
    <2>1. {p \in first : p[1] = k}
             = IF k \in DOMAIN event /\ ~IsInternalField(k) THEN {<<k, event[k]>>} ELSE {}
      BY <1>3, CopiedField
    <2>2. (\A p \in first : p[1] # k) <=> ~(k \in DOMAIN event /\ ~IsInternalField(k))
      BY <2>1
    <2> HIDE DEF first
    <2>3. CASE raw = None
      <3>1. pairs = first
        BY <1>4, <2>3 DEF CopyNonInternalFields
      <3>2. k \in DOMAIN event
        BY <2>3
      <3> QED
        BY <2>1, <3>1, <3>2
    <2>4. CASE raw # None
      <3>1. {p \in pairs : p[1] = k}
               = {p \in first : p[1] = k}
                    \cup (IF /\ k \in DOMAIN raw /\ ~IsInternalField(k)
                             /\ \A p \in first : p[1] # k
                          THEN {<<k, raw[k]>>} ELSE {})
        BY <1>4, <2>4, CopiedField
      <3>2. k \in DOMAIN event \/ k \in DOMAIN raw
        BY <2>4
      <3>3. CASE k \in DOMAIN event /\ ~IsInternalField(k)
        BY <2>1, <2>2, <3>1, <3>3
      <3>4. CASE k \notin DOMAIN event /\ ~IsInternalField(k)
        BY <2>1, <2>2, <3>1, <3>2, <3>4
      <3>5. CASE IsInternalField(k)
        BY <2>1, <3>1, <3>5
      <3> QED
        BY <3>3, <3>4, <3>5
    <2> QED
      BY <2>3, <2>4
  <1> QED
    BY <1>5 DEF IsInternalField, pairs, raw

\* A field of the event or of its _raw is in log_attributes exactly once if it
\* is not internal, with the value that wins, and not at all if it is.
THEOREM OneBagPerFieldCorrect == Spec => []OneBagPerField
  BY OneBagPerFieldHolds, MappingInductiveInvariant, PTL
=============================================================================
