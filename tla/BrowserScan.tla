----------------------------- MODULE BrowserScan -----------------------------
(***************************************************************************)
(* The scan of Splunk logs in the browser build.  There are no threads:    *)
(* the first call of SplunkLogsScan fetches the whole response, and every  *)
(* call parses as many records as it needs to fill its vector.  Events of  *)
(* a record that do not fit wait in an overflow buffer for the next call.  *)
(* The query's interrupt flag may be raised at any time; it is read once.  *)
(***************************************************************************)
EXTENDS ExportResponse

VARIABLES
    max_rows,           \* bind data: row cap, 0 for unlimited
    response,           \* the response body the search has
    pc,                 \* where SplunkLogsScan is, "idle" between calls
    fetched,            \* the response is here
    response_offset,    \* records parsed or skipped so far
    produced,           \* rows decoded so far
    buffer,             \* rows that did not fit into the vector they came up for
    output,             \* the vector this call is filling
    delivered,          \* rows returned to the engine so far
    outcome,            \* how the scan ended, "open" before that
    interrupted         \* ClientContext::interrupted

setup == <<max_rows, response>>
vars == <<setup, pc, fetched, response_offset, produced, buffer, output,
          delivered, outcome, interrupted>>

Places == {"idle", "fetch", "drain", "parse"}
Outcomes == {"open", "eof", "failed", "interrupted"}

Init ==
    /\ max_rows \in MaxRowsChoices
    /\ response \in Responses
    /\ pc = "idle"
    /\ fetched = FALSE
    /\ response_offset = 0
    /\ produced = 0
    /\ buffer = <<>>
    /\ output = <<>>
    /\ delivered = <<>>
    /\ outcome = "open"
    /\ interrupted = FALSE

Smaller(a, b) == IF a < b THEN a ELSE b
FirstOf(s, n) == SubSeq(s, 1, Smaller(n, Len(s)))
AfterFirst(s, n) == SubSeq(s, Smaller(n, Len(s)) + 1, Len(s))

-----------------------------------------------------------------------------
BeginScan ==
    /\ pc = "idle"
    /\ outcome = "open"
    /\ pc' = IF fetched THEN "drain" ELSE "fetch"
    /\ UNCHANGED <<setup, fetched, response_offset, produced, buffer, output,
                   delivered, outcome, interrupted>>

\* The call throws; what it has put into its vector is lost.
Throw(how) ==
    /\ pc' = "idle"
    /\ outcome' = how
    /\ output' = <<>>

\* AuthenticatedRequest looks at the interrupt flag before the request.
FetchInterrupted ==
    /\ pc = "fetch"
    /\ interrupted
    /\ Throw("interrupted")
    /\ UNCHANGED <<setup, fetched, response_offset, produced, buffer, delivered,
                   interrupted>>

\* No response, or one whose status is not a success.
FetchFails ==
    /\ pc = "fetch"
    /\ Throw("failed")
    /\ UNCHANGED <<setup, fetched, response_offset, produced, buffer, delivered,
                   interrupted>>

FetchBrowserResponse ==
    /\ pc = "fetch"
    /\ fetched' = TRUE
    /\ pc' = "drain"
    /\ UNCHANGED <<setup, response_offset, produced, buffer, output, delivered,
                   outcome, interrupted>>

\* Mutant: the overflow is copied, and stays.
DrainOverflowTwice ==
    /\ pc = "drain"
    /\ output' = FirstOf(buffer, VectorSize)
    /\ buffer' = buffer
    /\ pc' = "parse"
    /\ UNCHANGED <<setup, fetched, response_offset, produced, delivered, outcome,
                   interrupted>>

\* Mutant: the size of the vector is not looked at.
DrainOverflowWhole ==
    /\ pc = "drain"
    /\ output' = buffer
    /\ buffer' = <<>>
    /\ pc' = "parse"
    /\ UNCHANGED <<setup, fetched, response_offset, produced, delivered, outcome,
                   interrupted>>

\* The overflow comes first.
DrainOverflow ==
    /\ pc = "drain"
    /\ output' = FirstOf(buffer, VectorSize)
    /\ buffer' = AfterFirst(buffer, VectorSize)
    /\ pc' = "parse"
    /\ UNCHANGED <<setup, fetched, response_offset, produced, delivered, outcome,
                   interrupted>>

CapIsReached == max_rows > 0 /\ produced >= max_rows

\* Mutant: parsing goes on although the vector is full.
WantsRecordAlways ==
    /\ pc = "parse"
    /\ response_offset < Len(response)

\* The loop's condition: room in the vector, and something left to parse.
WantsRecord ==
    /\ pc = "parse"
    /\ Len(output) < VectorSize
    /\ response_offset < Len(response)

\* The cap ends the scan: what is left of the response is passed over.
SkipRest ==
    /\ WantsRecord
    /\ CapIsReached
    /\ response_offset' = Len(response)
    /\ UNCHANGED <<setup, pc, fetched, produced, buffer, output, delivered,
                   outcome, interrupted>>

\* Mutant: the cap is looked at between records only.
TakenAll(record) == record.to - record.from

\* How many of a record's events become rows before the cap is reached.
Taken(record) ==
    LET events == record.to - record.from
    IN  IF max_rows > 0 THEN Smaller(events, max_rows - produced) ELSE events

ParseRecord ==
    /\ WantsRecord
    /\ ~CapIsReached
    /\ LET record == response[response_offset + 1]
           rows == [i \in 1..Taken(record) |-> record.from + i]
           room == VectorSize - Len(output)
       IN  /\ ~record.fatal
           /\ produced' = produced + Len(rows)
           /\ output' = output \o FirstOf(rows, room)
           /\ buffer' = buffer \o AfterFirst(rows, room)
    /\ response_offset' = response_offset + 1
    /\ UNCHANGED <<setup, pc, fetched, delivered, outcome, interrupted>>

\* Mutant: a search error ends the data.
SearchErrorAsEnd ==
    /\ WantsRecord
    /\ ~CapIsReached
    /\ response[response_offset + 1].fatal
    /\ response_offset' = Len(response)
    /\ UNCHANGED <<setup, pc, fetched, produced, buffer, output, delivered,
                   outcome, interrupted>>

\* ParseExportLine throws on an ERROR or FATAL message.
SearchError ==
    /\ WantsRecord
    /\ ~CapIsReached
    /\ response[response_offset + 1].fatal
    /\ Throw("failed")
    /\ UNCHANGED <<setup, fetched, response_offset, produced, buffer, delivered,
                   interrupted>>

\* SetCardinality and return; an empty vector is the end of the scan.
ReturnVector ==
    /\ pc = "parse"
    /\ Len(output) >= VectorSize \/ response_offset = Len(response)
    /\ delivered' = delivered \o output
    /\ outcome' = IF output = <<>> THEN "eof" ELSE outcome
    /\ output' = <<>>
    /\ pc' = "idle"
    /\ UNCHANGED <<setup, fetched, response_offset, produced, buffer, interrupted>>

Interrupt ==
    /\ ~interrupted
    /\ interrupted' = TRUE
    /\ UNCHANGED <<setup, pc, fetched, response_offset, produced, buffer, output,
                   delivered, outcome>>

Terminated == outcome # "open" /\ UNCHANGED vars

Scan == \/ FetchInterrupted \/ FetchFails \/ FetchBrowserResponse
        \/ DrainOverflow \/ SkipRest \/ ParseRecord \/ SearchError \/ ReturnVector

Next == BeginScan \/ Scan \/ Interrupt \/ Terminated

Spec == Init /\ [][Next]_vars

-----------------------------------------------------------------------------
\* Every variable stays in its range; the offset never passes the response.
TypeOK ==
    /\ max_rows \in MaxRowsChoices
    /\ response \in Responses
    /\ pc \in Places
    /\ fetched \in BOOLEAN
    /\ response_offset \in 0..Len(response)
    /\ produced \in Nat
    /\ buffer \in Seq(Nat)
    /\ output \in Seq(Nat)
    /\ Len(output) <= VectorSize
    /\ delivered \in Seq(Nat)
    /\ outcome \in Outcomes
    /\ interrupted \in BOOLEAN

\* The rows returned, those in the vector and those in the overflow are the
\* events 1, 2, 3, ... of the response, each once, none left out and none
\* beyond the cap, wherever vectors and records end.
RowsInOrder ==
    outcome \in {"open", "eof"} =>
        LET rows == delivered \o output \o buffer
        IN  /\ \A i \in 1..Len(rows) : rows[i] = i
            /\ produced = Len(rows)
            /\ max_rows > 0 => produced <= max_rows

\* An empty vector is returned only when all the rows asked for have been.
EofIsComplete ==
    outcome = "eof" => Complete(response, max_rows, Len(delivered))

\* "Decoded rows are not materialized wholesale": all the rows that wait in
\* the overflow come from one record, the last one parsed.
OneRecordAhead ==
    buffer # <<>> =>
        \E k \in 1..response_offset :
            \A i \in 1..Len(buffer) :
                response[k].from < buffer[i] /\ buffer[i] <= response[k].to

-----------------------------------------------------------------------------
(***************************************************************************)
(* The invariant behind these, inductive as a whole.                       *)
(***************************************************************************)
\* The vector is filled within a call only, and there is overflow only when
\* it is full.
Filling ==
    /\ pc # "parse" => output = <<>>
    /\ pc = "parse" /\ buffer # <<>> => Len(output) = VectorSize
    /\ outcome # "open" => pc = "idle"

\* RowsInOrder, sequence by sequence.
Numbered ==
    outcome \in {"open", "eof"} =>
        /\ \A i \in 1..Len(delivered) : delivered[i] = i
        /\ \A i \in 1..Len(output) : output[i] = Len(delivered) + i
        /\ \A i \in 1..Len(buffer) : buffer[i] = Len(delivered) + Len(output) + i
        /\ produced = Len(delivered) + Len(output) + Len(buffer)
        /\ max_rows > 0 => produced <= max_rows

\* Either all the events of the records so far are rows, or the cap is reached
\* in one of them; no search error stands before.
Parsing ==
    outcome = "open" =>
        \/ /\ produced = RowsThrough(response, response_offset)
           /\ \A k \in 1..response_offset : ~response[k].fatal
        \/ /\ max_rows > 0 /\ produced = max_rows
           /\ \E p \in 1..Len(response) :
                 /\ max_rows <= response[p].to
                 /\ \A k \in 1..p : ~response[k].fatal

Inductive == TypeOK /\ Filling /\ Numbered /\ Parsing /\ EofIsComplete /\ OneRecordAhead

-----------------------------------------------------------------------------
\* The browser's scan is a scan in the sense of LogScan.
Abstract == INSTANCE LogScan
ImplementsLogScan == Abstract!Spec
=============================================================================
