----------------------------- MODULE ExportLines -----------------------------
(***************************************************************************)
(* From bytes to events.  Both builds cut the body of an export response   *)
(* into lines and parse each line as a JSON document.  The native build    *)
(* gets the body in chunks that end anywhere and keeps the incomplete line *)
(* in "pending"; the browser build has the whole body and moves a cursor.  *)
(*                                                                         *)
(* A body is a sequence of newlines, carriage returns and halves of JSON   *)
(* documents.  One half is no JSON, so a chunk may end within a document,  *)
(* and a body may be cut off there.  A row is <<d, i>>, event i of         *)
(* document d.                                                             *)
(***************************************************************************)
EXTENDS Naturals, SequencesExt

CONSTANTS
    Bodies,            \* the bodies a search may be answered with
    MaxRowsChoices,    \* values of the parameter max_rows, 0 for unlimited
    RetriesChoices,    \* values of the parameter retries
    MostEvents,        \* no document of a body has more events than that
    Newline, Return,   \* the bytes \n and \r
    None               \* a JSON object has no such field

(* What a line's root object has in the fields that are looked at.  The    *)
(* type of a message stands for all its spellings in upper and lower case. *)
Item == {"object", "other"}
Document == [id : Nat, root : Item, preview : BOOLEAN, result : Item \cup {None},
             results : Seq(Item) \cup {None}, eventish : BOOLEAN,
             messages : Seq({"FATAL", "ERROR", "INFO", "untyped"}) \cup {None}]
Byte == {Newline, Return} \cup [doc : Document, half : 1..2]

ASSUME BodiesAssumption == Bodies \subseteq Seq(Byte)
ASSUME LimitsAssumption == MaxRowsChoices \subseteq Nat /\ RetriesChoices \subseteq Nat

VARIABLES
    build,            \* "native" or "browser"
    max_rows,         \* bind data: row cap, 0 for unlimited
    retries,          \* bind data: retry budget of the client
    body,             \* the response body the search has, sent on each attempt
    pc,               \* where the reader is
    attempt,          \* ExportSearch: number of the attempt, from 0
    received,         \* bytes of this attempt that have arrived
    pending,          \* native: bytes that are not parsed yet
    start,            \* native: how many of them on_chunk has dealt with
    limit_reached,    \* native: no more events are wanted
    offset,           \* browser: response_offset
    rows,             \* the events handed on so far
    outcome,          \* how the reader ended, "open" before that
    expected          \* history: what the body stands for

setup == <<build, max_rows, retries, body, expected>>
native == <<attempt, received, pending, start, limit_reached>>
vars == <<setup, pc, native, offset, rows, outcome>>

-----------------------------------------------------------------------------
(***************************************************************************)
(* One line.                                                               *)
(***************************************************************************)
\* What yyjson_read takes for a document: its two halves, at i and j.  The
\* returns at the end of a line are stripped before; those in front of the
\* document and between its tokens, where it is halved, are white space.
IsJson(line, i, j) ==
    /\ i < j
    /\ line[i] \notin {Newline, Return} /\ line[j] \notin {Newline, Return}
    /\ line[i].doc = line[j].doc
    /\ line[i].half = 1
    /\ line[j].half = 2
    /\ \A k \in DOMAIN line \ {i, j} : line[k] = Return

\* The documents ParseExportLine finds in a line, none or one.
Parsed(line) ==
    {line[i].doc : i \in {i \in DOMAIN line : \E j \in DOMAIN line : IsJson(line, i, j)}}

\* ThrowIfSearchError.
IsSearchError(d) ==
    /\ d.root = "object"
    /\ d.messages # None
    /\ \E i \in DOMAIN d.messages : d.messages[i] \in {"FATAL", "ERROR"}

\* ExtractEventsFromRoot: the numbers of the events of a document.
Extracted(d) ==
    LET final == d.root = "object" /\ ~d.preview
        Numbers(i) == IF d.results[i] = "object" THEN <<i>> ELSE <<>>
    IN  CASE final /\ d.result = "object" -> <<1>>
          [] final /\ d.result # "object" /\ d.results # None ->
                FlattenSeq([i \in DOMAIN d.results |-> Numbers(i)])
          [] final /\ d.result # "object" /\ d.results = None /\ d.eventish -> <<1>>
          [] OTHER -> <<>>

ASSUME MostEventsAssumption ==
    /\ MostEvents \in Nat \ {0}
    /\ \A bytes \in Bodies : \A i \in DOMAIN bytes :
          bytes[i] \notin {Newline, Return} => Len(Extracted(bytes[i].doc)) <= MostEvents

Fails(line) == \E d \in Parsed(line) : IsSearchError(d)

\* The rows that parsing a line hands to the callback.
EventsOf(line) ==
    IF Parsed(line) = {} \/ Fails(line) THEN <<>>
    ELSE LET d == CHOOSE d \in Parsed(line) : TRUE
             numbers == Extracted(d)
         IN  [i \in DOMAIN numbers |-> <<d.id, numbers[i]>>]

-----------------------------------------------------------------------------
(***************************************************************************)
(* The reference: a body split at its newlines, the events of all its      *)
(* lines, and the sequence of records it is in module ExportResponse.      *)
(***************************************************************************)
AddByte(lines, byte) ==
    IF byte = Newline THEN Append(lines, <<>>)
    ELSE [lines EXCEPT ![Len(lines)] = Append(@, byte)]

Lines(bytes) == FoldLeft(AddByte, << <<>> >>, bytes)

Through(lines, k) == FlattenSeq([i \in 1..k |-> EventsOf(lines[i])])

Records(lines) ==
    [k \in DOMAIN lines |-> [from |-> Len(Through(lines, k - 1)),
                             to |-> Len(Through(lines, k)),
                             fatal |-> Fails(lines[k])]]

Expected(bytes) ==
    LET lines == Lines(bytes)
    IN  [events |-> Through(lines, Len(lines)), records |-> Records(lines)]

Responses == {Expected(bytes).records : bytes \in Bodies}

-----------------------------------------------------------------------------
Init ==
    /\ build \in {"native", "browser"}
    /\ max_rows \in MaxRowsChoices
    /\ retries \in RetriesChoices
    /\ body \in Bodies
    /\ expected = Expected(body)
    /\ pc = "receiving"
    /\ attempt = 0
    /\ received = 0
    /\ pending = <<>>
    /\ start = 0
    /\ limit_reached = FALSE
    /\ offset = 0
    /\ rows = <<>>
    /\ outcome = "open"

-----------------------------------------------------------------------------
(***************************************************************************)
(* What both readers do with a line.                                       *)
(***************************************************************************)
Stop(how) == pc' = "done" /\ outcome' = how

\* The callback takes events until the cap is reached.
TakeRows(line) ==
    LET events == EventsOf(line)
        n == IF max_rows > 0 /\ max_rows < Len(rows) + Len(events)
             THEN max_rows - Len(rows) ELSE Len(events)
    IN  rows' = rows \o SubSeq(events, 1, n)

\* Mutant: the event that reaches the cap sets the flag.
BeyondCapEarly(line) ==
    max_rows > 0 /\ Len(rows) + Len(EventsOf(line)) >= max_rows

\* Only an event that comes after the cap is reached sets limit_reached.
BeyondCap(line) == max_rows > 0 /\ Len(rows) + Len(EventsOf(line)) > max_rows

IsNewline(byte) == byte = Newline

\* The next newline of s after the first n bytes, 0 if there is none.
FindNewline(s, n) == SelectInSubSeq(s, n + 1, Len(s), IsNewline)

-----------------------------------------------------------------------------
(***************************************************************************)
(* The native build: on_chunk of StartExport.                              *)
(***************************************************************************)
\* A chunk arrives and is appended to what is pending.
Receive ==
    /\ pc = "receiving" /\ build = "native"
    /\ \E n \in received + 1 .. Len(body) :
          /\ pending' = pending \o SubSeq(body, received + 1, n)
          /\ received' = n
    /\ pc' = "chunk"
    /\ UNCHANGED <<setup, attempt, start, limit_reached, offset, rows, outcome>>

\* Mutant: the byte that follows a newline is passed over.
PastNewlineByTwo(newline) == newline + 1

PastNewline(newline) == newline

\* parse_line on the next complete line.
ParseLine ==
    /\ pc = "chunk" /\ ~limit_reached
    /\ LET newline == FindNewline(pending, start)
           line == SubSeq(pending, start + 1, newline - 1)
       IN  /\ newline # 0
           /\ \/ Fails(line) /\ Stop("search_error") /\ UNCHANGED <<rows, limit_reached>>
              \/ /\ ~Fails(line)
                 /\ TakeRows(line)
                 /\ limit_reached' = BeyondCap(line)
                 /\ UNCHANGED <<pc, outcome>>
           /\ start' = PastNewline(newline)
    /\ UNCHANGED <<setup, attempt, received, pending, offset>>

\* Mutant: the lines that are parsed are not erased.
UnparsedAll == pending

Unparsed == SubSeq(pending, start + 1, Len(pending))

\* on_chunk returns; FALSE ends the export, and with it the reader.
EndChunk ==
    /\ pc = "chunk"
    /\ \/ limit_reached /\ pc' = "finish"
       \/ ~limit_reached /\ FindNewline(pending, start) = 0 /\ pc' = "receiving"
    /\ pending' = Unparsed
    /\ start' = 0
    /\ UNCHANGED <<setup, attempt, received, limit_reached, offset, rows, outcome>>

\* Mutant: a broken request is replayed whatever of it has been parsed.
MayReplayAlways == attempt < retries

\* Nothing of the response has reached on_chunk.
MayReplay == received = 0 /\ attempt < retries

\* The request breaks: "pending" lives outside of the retry loop.
BreakOff ==
    /\ pc = "receiving"
    /\ \/ /\ build = "native" /\ MayReplay
          /\ attempt' = attempt + 1
          /\ received' = 0
          /\ UNCHANGED <<pc, outcome>>
       \/ /\ build = "browser" \/ ~MayReplay
          /\ Stop("broken")
          /\ UNCHANGED <<attempt, received>>
    /\ UNCHANGED <<setup, pending, start, limit_reached, offset, rows>>

\* The export has returned; what is still pending is the last line.
ParseTail ==
    /\ pc = "receiving" /\ build = "native"
    /\ received = Len(body)
    /\ \/ Fails(pending) /\ Stop("search_error") /\ UNCHANGED rows
       \/ /\ ~Fails(pending)
          /\ TakeRows(pending)
          /\ pc' = "finish"
          /\ UNCHANGED outcome
    /\ UNCHANGED <<setup, native, offset>>

\* The producer ends without an error.
Finish ==
    /\ pc = "finish"
    /\ Stop("complete")
    /\ UNCHANGED <<setup, native, offset, rows>>

-----------------------------------------------------------------------------
(***************************************************************************)
(* The browser build: the loop of SplunkLogsScan over the whole response.  *)
(* Where a vector ends within this loop changes nothing of it.             *)
(***************************************************************************)
FetchBrowserResponse ==
    /\ pc = "receiving" /\ build = "browser"
    /\ pc' = "cursor"
    /\ UNCHANGED <<setup, native, offset, rows, outcome>>

CapIsReached == max_rows > 0 /\ Len(rows) >= max_rows

\* Mutant: what follows the last newline is no line.
LineEndAtNewline == IF FindNewline(body, offset) = 0 THEN offset + 1
                    ELSE FindNewline(body, offset)

\* Where the line at the cursor ends: at a newline, or with the response.
LineEnd == IF FindNewline(body, offset) = 0 THEN Len(body) + 1
           ELSE FindNewline(body, offset)

ParseAtCursor ==
    /\ pc = "cursor"
    /\ offset < Len(body) /\ ~CapIsReached
    /\ LET line == SubSeq(body, offset + 1, LineEnd - 1)
       IN  \/ Fails(line) /\ Stop("search_error") /\ UNCHANGED <<rows, offset>>
           \/ /\ ~Fails(line)
              /\ TakeRows(line)
              /\ offset' = LineEnd
              /\ UNCHANGED <<pc, outcome>>
    /\ UNCHANGED <<setup, native>>

\* The cap ends the scan: what is left of the response is passed over.
SkipRest ==
    /\ pc = "cursor"
    /\ offset < Len(body) /\ CapIsReached
    /\ offset' = Len(body)
    /\ UNCHANGED <<setup, pc, native, rows, outcome>>

EndOfResponse ==
    /\ pc = "cursor"
    /\ offset >= Len(body)
    /\ Stop("complete")
    /\ UNCHANGED <<setup, native, offset, rows>>

Terminated == pc = "done" /\ UNCHANGED vars

Next == \/ Receive \/ ParseLine \/ EndChunk \/ BreakOff \/ ParseTail \/ Finish
        \/ FetchBrowserResponse \/ ParseAtCursor \/ SkipRest \/ EndOfResponse
        \/ Terminated

Spec == Init /\ [][Next]_vars

-----------------------------------------------------------------------------
\* Every variable stays in its range; "start" never passes what is pending.
TypeOK ==
    /\ build \in {"native", "browser"}
    /\ max_rows \in MaxRowsChoices
    /\ retries \in RetriesChoices
    /\ pc \in {"receiving", "chunk", "cursor", "finish", "done"}
    /\ attempt \in 0..retries
    /\ received \in 0..Len(body)
    /\ pending \in Seq({body[i] : i \in DOMAIN body})
    /\ start \in 0..Len(pending)
    /\ limit_reached \in BOOLEAN
    /\ offset \in 0..(Len(body) + 1)
    /\ rows \in Seq(Nat \X Nat)
    /\ outcome \in {"open", "complete", "search_error", "broken"}

\* The rows are the events of the body's lines, in order, none twice and none
\* left out, wherever chunks end and however often the request is sent again;
\* a document that is cut off, or shares a line with another, has none.
RowsAreEvents == IsPrefix(rows, expected.events)

\* "A single partial JSON line is the only unbounded parser allocation":
\* between two chunks "pending" is the unfinished last line of what has been
\* received, and of this attempt only.
PendingIsPartial ==
    pc = "receiving" => pending = Last(Lines(SubSeq(body, 1, received)))

\* A search error fails the scan unless the cap makes it irrelevant, and the
\* two builds differ in one case: an error right after the event that reaches
\* the cap fails the native scan, and the browser's does not read it.
SearchErrorAtCap ==
    LET records == expected.records
        BeforeCap(k) == \/ max_rows = 0
                        \/ records[k].from < max_rows
                        \/ build = "native" /\ records[k].from = max_rows
        fails == \E k \in DOMAIN records : records[k].fatal /\ BeforeCap(k)
    IN  /\ outcome = "search_error" => fails
        /\ outcome = "complete" => ~fails

\* The readers of both builds, at the level of bytes, do what LogScan asks of
\* a scan of the response the body stands for.
Abstract ==
    INSTANCE LogScan WITH
        VectorSize <- MostEvents,
        response <- expected.records,
        delivered <- [i \in DOMAIN rows |-> i],
        outcome <- CASE outcome = "open" -> "open"
                     [] outcome = "complete" -> "eof"
                     [] OTHER -> "failed",
        interrupted <- FALSE
ImplementsLogScan == Abstract!Spec
=============================================================================
