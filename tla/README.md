# TLA+ specification of the DuckDB Splunk extension

The extension lets DuckDB read Splunk logs: `read_splunk_logs(...)` and the tables of an
attached catalog (`ATTACH 'splunk:' AS sp (TYPE splunk)`) run an export search over Splunk's
REST API and turn the newline-delimited JSON answer into rows. This directory models the parts
of it that keep state, run concurrently or translate texts, checks them with TLC on small
instances and proves their safety with TLAPS for every instance. File names below are relative
to the repository; `PROJECT.json` maps each definition to the lines it models.

## 1. Inventory

| Component | State it keeps | Operations | Modelled in |
|---|---|---|---|
| Native scan (`src/logs_table.cpp` 625-745, 816-899) | bounded `buffer` of rows, `error`, `started`/`finished`/`cancelled`, two condition variables, a producer thread | start, push, park, finish (producer); wait, drain, rethrow, interrupt (scan call); destructor | `ExportStream` |
| Export request (`src/splunk_client.cpp` 71-116, 233-318) | connection object, attempt counter, bytes accepted of the attempt | `ExportSearch` with its retry loop and callbacks, `Cancel` | `ExportStream`, waits in `SplunkRequest` |
| Export record parsing (`src/logs_table.cpp` 525-610) | none | `ParseExportLine`, `ThrowIfSearchError`, `ExtractEventsFromRoot`; cutting the body into lines (711-730, 841-851) | `ExportLines`; abstracted in `ExportResponse` |
| Browser scan (`src/logs_table.cpp` 634-640, 747-755, 821-864) | the whole response, an offset, an overflow buffer | fetch, then one vector per call | `BrowserScan` |
| REST request (`src/splunk_client.cpp` 97-231) | attempt counter | `AuthenticatedRequest`, `SleepCheckingInterrupt`, `RateLimitRetryDelaySeconds` | `SplunkRequest` |
| Secrets (`src/splunk_secret.cpp`) | DuckDB's secret manager | `CREATE SECRET`, `GetSplunkCredentials` | `SplunkSession` |
| Catalog (`src/splunk_catalog.cpp`) | the tables of the attachment, the pinned secret name | `ATTACH`, index discovery, `LookupEntry`, bind | `SplunkSession` |
| Bind (`src/logs_table.cpp` 758-807, 922-940) | bind data: query, limits, credentials | bind of the reader and of a table | `SplunkSession` (which secret), `SearchRequest` (parameters, limits, what is stored) |
| Transaction manager (`src/splunk_catalog.cpp` 245-289) | set of open transactions | start, commit, rollback | not modelled (section 6) |
| Event mapping (`src/logs_table.cpp` 105-474) | three memos per row: the object in `_raw`, the severity text, the timestamp | `MapEvent` and its helpers | `EventMapping` |
| Query building (`src/logs_table.cpp` 476-523) | none | `NormalizeSearchQuery`, `BuildIndexQuery`, `BuildExportBody` | `SearchRequest` |
| Client configuration (`src/splunk_client.cpp` 16-95, `src/include/splunk_client.hpp`) | eight fields of a client | `CopyConfigTo`, `NormalizeUrl`, authorization headers | `SearchRequest` |

How they interact. A statement is bound: `GetSplunkCredentials` reads the secret manager and
the credentials are copied into the bind data. The first call of `SplunkLogsScan` starts the
producer thread; that thread calls `ExportSearch`, which calls back for every chunk of the
body; the callback splits it into lines, parses them and pushes rows into the buffer, where it
waits while the buffer is full, so that back pressure reaches the socket. The engine's thread
takes up to a vector of rows per call. `ClientContext::interrupted` is shared by everyone. The
destructor of the scan's state sets `cancelled`, notifies, shuts the request down and joins.
In the browser build there is no thread: the first call fetches everything.

What is hard here:

* the two condition variables, one without a timeout, with notifications sent outside the lock;
* a retry that must not replay a response whose rows are already with the engine;
* an error that is caused by the shutdown and must not be reported, against an error in the
  middle of the data that must not be swallowed;
* the end of the data, which is an empty vector and so looks like any state without rows;
* an interrupt that four places look at, at different times;
* caps, vectors, records and chunks whose boundaries do not coincide;
* waits of up to a minute that must not outlive an interrupt;
* secrets that change between `ATTACH`, discovery, bind and execution;
* lines cut anywhere by chunks, and the rest of a broken attempt in front of the next one;
* cells that share a memo, so that what a cell holds could depend on the columns beside it;
* texts that pass through two languages (SPL inside a form) before Splunk reads them.

`PROJECT.json` lists these as hazards with the lines where they bite and the properties that
cover them, and also those no property covers yet, with the reason.

## 2. Modules

```
ExportResponse          what a response is; which rows are owed (no state)
  |-- ExportResponseProofs     lemmas about responses
  |-- LogScan           abstract: what a scan promises the engine
  |-- ExportStream      native scan, threads and network      --implements--> LogScan
  |     |-- ExportStreamProofs
  |-- BrowserScan       browser scan                          --implements--> LogScan
        |-- BrowserScanProofs
ExportLines             both readers, byte by byte            --implements--> LogScan
  |-- ExportLinesProofs
EventMapping            one event to one row
  |-- EventMappingProofs
SearchRequest           a statement to the request it sends
  |-- SearchRequestProofs
SplunkRequest           one REST request with retries and waits
  |-- SplunkRequestProofs
SplunkSession           secrets, ATTACH, lookup and bind
  |-- SplunkSessionProofs
MC*                     instances for TLC
```

How they fit together. `SplunkSession` says which secret a statement is bound with,
`SearchRequest` what is sent with it, `SplunkRequest` how often and when it is sent.
`ExportLines` turns the body that comes back into the sequence of records that `ExportResponse`
describes; `ExportStream` and `BrowserScan` start from such a sequence and bring its events to
the engine; `EventMapping` says what row an event becomes. `LogScan` is the contract that three
of them are held to.

**ExportResponse.** A response is a sequence of records, one per line; a record has the numbers
of its events (`from + 1 .. to`) and whether it carries an ERROR or FATAL message. Malformed
lines, previews and informational messages are records without events. Rows are the numbers of
events, so "each once, in order" can be stated without looking at payloads. `Wanted`,
`Deliverable` and `Complete` define which rows a scan may and must return.

**LogScan.** Four actions: the scan returns a vector of rows, reports the end, throws, or the
query is interrupted. The end may be reported only when the answer is complete or the query is
interrupted.

**ExportStream.** The producer's `pc` follows the code:

| `pc` | Code |
|---|---|
| `check`, `ready` | top of the loop of `ExportSearch`, before and after the interrupt check (242-244) |
| `inflight` | in `send()` (274), between callbacks |
| `chunk`, `event` | in the callback `on_chunk` between lines (715-722), in `parse_line` between events (685-709) |
| `tail` | after `ExportSearch` has returned, before the last line without newline is parsed (728-730) |
| `backoff` | in `SleepCheckingInterrupt` (290, 294, 298) |
| `catch`, `finish`, `done` | 731-736, 738-742, end of the thread |

The engine's `consumer` is `waiting` in the loop of 871-880, `stopping` and `cancelling` in its
interrupt branch, `drained` between 894 and 895, and `marked`, `notified`, `joining`, `gone` in
the destructor. A section under the scan's mutex is one action, a notification one of its own,
so every window between "changed the state" and "told the other thread" is explored. Waiting on
`space_available` is the flag `parked`, set together with the release of the mutex;
`SpuriousWake` may clear it at any time. `rows_available` needs no flag because its wait is
timed: the loop's body is repeated anyway. The network (`Network`) may at any moment break the
connection, refuse the certificate, answer with any class of status, deliver any number of
complete lines, or stay silent until the read timeout. The HTTP client belongs to DuckDB and is
modelled from how it is used: `stop()` shuts down the request in flight, if there is one, and a
request that has been shut down cannot time out any more, it fails. What precedes the socket
(name lookup, TCP connect) is part of `ready`.

**BrowserScan.** One call is several actions (fetch, drain the overflow, one record at a time,
return) because the interrupt flag, which other threads set, may change between them. The
retries of the browser build are done inside DuckDB's `HTTPUtil`; the model has their outcomes.

**ExportLines.** A body is a sequence of newlines, carriage returns and halves of JSON documents:
a half is no JSON, so chunks and broken connections may cut a document, and two documents on one
line are visible as such. Returns are white space to the JSON reader wherever they are in a line.
What a document has in the fields the code looks at (`preview`, `result`, `results`, `messages`,
the keys of a flat event) is a record; `IsSearchError` and `Extracted` decide on it as
`ThrowIfSearchError` and `ExtractEventsFromRoot` do. The native reader (`Receive`, `ParseLine`,
`EndChunk`, `BreakOff`, `ParseTail`) keeps `pending` and `start` as `on_chunk` does, across
attempts: they are declared outside the retry loop. The browser's (`ParseAtCursor`, `SkipRest`)
moves `response_offset`. `Expected` is the reference: the body split at all its newlines.
`INSTANCE LogScan WITH` maps the rows taken so far to `delivered` and the reference's records to
`response`, which ties the bytes to the records the other two modules start from. Threads, the
buffer and vectors are theirs and are not repeated here; `expected` is computed once, from the
body. A row is handed on with its line and not with a vector, so LogScan is instantiated with
vectors of `MostEvents`, a bound on the events of one document.

**EventMapping.** `MapEvent` runs over the selected columns; each column is an action, and the
loop starts again with another event of the same response, so that a memo that survives its row
would be seen. A JSON value is a record of its type and its text, number or members. Texts are
atoms, and what libraries make of them (`Lower`, `ObjectIn`, `InstantIn`, `NumberIn`) are
parameters. Points in time are decimals `m * 10^e` with two digits, which is enough to stand on
both sides of every threshold of the unit detection and of the range of 64 bits; a conversion
that does not fit is the value `Unspecified`, as `std::llround` leaves it. Which keys begin with
an underscore, and so are internal, is the parameter `Underscored`. Attribute objects are sets of
pairs, so that a key that is added twice is there twice.

**SearchRequest.** A statement is bound once and executed any number of times, while the secret
is replaced or dropped. Texts are sequences of pieces: a piece is a character where the code or
the other side gives it a meaning (`"`, `\`, `&`, `=`, `%`, `+`, blanks, `|`, `/`) and a word
otherwise. `BuildIndexQuery`, `NormalizeSearchQuery`, `URLEncode` and `BuildExportBody` build the
form; `FormFields` and `StringIn` read it back as a web server and Splunk do, so that the
properties speak of what arrives. `MaxBigint` is the greatest BIGINT (2^63 - 1 in the program, 127
in the runs), and `Unsigned` what a cast makes of a negative limit, so that one would show.

**SplunkRequest.** Time is counted in sleeps of `SleepCheckingInterrupt`; `overdue` is a
history variable that counts the sleeps that ended after the interrupt. `Backoff` is a set: a
shift by 64 or more is undefined, and both what processors do (mask the count) and what a
compiler may fold it to (0) are possible. `MaxLongLong` is the greatest `long long` (2^63 - 1 in the
program, 127 in the runs): for a `Retry-After` beyond it `std::stoll` throws, and the wait is the
backoff.

**SplunkSession.** The secret manager is a function from names to secrets, and `SecretOrder` is
the order in which `AllSecrets` enumerates them. An index name is a word and the form it is
written in, so two names can differ in case only. `ATTACH` with `INDEXES` is one step; without
it there are two, and secrets may change between them. A statement that throws changes nothing
and is no step. `selected` and `supplied` are history variables for the properties.

## 3. What the runs show

| Run | Bounds | Properties |
|---|---|---|
| `export_stream` | 8 responses of up to 3 records and 4 events, caps 0-3, 0-2 retries, vectors of 1 row (buffer of 2) | all safety properties below, that the scan implements `LogScan`, `ScanReturns` and `DestructorCompletes` |
| `browser_scan` | all responses of up to 3 records with 0, 1, 2, 3 or 5 events, a search error as the first, a middle or the last record, caps 0-6, vectors of 2 | rows in order, end only when complete, one record ahead, implements `LogScan` |
| `splunk_request` | budgets 0, 4, 8; Retry-After -500, -5, 0, 2, 59, 60, 120, 500 or absent; ten sleeps per second | budget spent exactly, waits bounded and ended by an interrupt, every request ends |
| `splunk_session` | two secret names, six kinds of secret, two words in two forms, five `INDEXES` lists, two discovery answers | pinned secret, tables as supplied, every table reachable, authenticated requests |
| `export_lines` | bodies of up to three documents of ten shapes, ended by `\n`, `\r\n`, a blank line or nothing, with returns in front of, within or behind a document, cut at the last newline or within the last document; every way of cutting them into chunks; caps 0-3, 0-1 retries | rows are events, `pending` is the partial line, search error at the cap, implements `LogScan` |
| `event_mapping` | 150 events with the same fields in different places, 171 timestamps of every magnitude from 10 to 1e20 and of both signs, and odd ones; 50 projections of up to seven columns | projection changes nothing, `_raw` parsed once, one bag per field, plausible times |
| `search_request` | six secrets that differ in every option, 12 queries, 6 times, limits around 0 and at the end of 8 bits, 86 table names with quotes and backslashes | request of the bound secret, limits as stated, form read as meant, table searches its index |
| `interrupt_prompt`, `retry_after`, `backoff`, `time_invented`, `search_repeated` | as above; two responses for `interrupt_prompt`, a budget of 65 for `backoff` | one sentence of the documentation or of a comment each, which the code does not keep (section 5) |

Properties of the native scan:

* `RowsInOrder`: returned rows followed by buffered rows are events 1, 2, 3, ..., at most `max_rows`.
* `BufferBounded`: never more than two vectors of rows.
* `NoLostWakeup`: if the producer is parked and could go on, the thread that made that so still
  has its notification to come.
* `EofIsComplete`: an empty vector means all rows were returned, unless the query was interrupted.
  An interrupted query may see an early end, because the producer may notice the interrupt
  first and finish without an error; the engine discards the result of an interrupted query.
* `NoBackoffAfterAbandon`: `SleepCheckingInterrupt` ignores `cancelled`, so the destructor would
  sit out a retry wait. It never meets one without an interrupt, because the first scan call does
  not return before a row, an error or the end, and a row excludes a retry.
* `AbortIsSilent`: `cancelled` is set before `Cancel()`, so the error that this provokes is not
  stored.
* `ShutdownReachesRequest`: `Cancel()` reaches only the request in flight, and the destructor calls
  it once. Without an interrupt that is enough: when it joins, the request in flight has been shut
  down and no other will be sent, so `join()` does not sit out the read timeout. With an interrupt it
  is not; that is finding 1 of section 5. `DestructorCompletes` says that the join ends at all.

Properties of the readers of lines (`ExportLines`):

* `RowsAreEvents`: the rows are a prefix of the events of the whole body's lines. A document that
  is cut off, or shares its line with another, has none and takes no neighbour with it.
* `PendingIsPartial`: between chunks `pending` is the unfinished last line of what this attempt
  has received. It is what the comment "a single partial JSON line is the only unbounded parser
  allocation" claims, and why an attempt that is broken off leaves nothing for the next one.
* `SearchErrorAtCap`: where a search error stands relative to the cap decides how the scan ends.
  The two builds differ in one place, right after the event that reaches the cap: the native
  build learns that the cap is reached only from one event more, and meets the error first.

Properties of `EventMapping`:

* `ProjectionChangesNothing`: each cell is a function of its event and column alone.
* `RawParsedOnce`: `_raw` is parsed at most once per row, and only for a column that needs it.
* `OneBagPerField`: every field that is not internal is in `log_attributes` once, the event's value
  winning over that of `_raw`.
* `TimeIsPlausible`: of the four readings of an epoch the one between 1970 and 2262 is taken.

Properties of `SearchRequest`:

* `RequestIsOfBoundSecret`: `CopyConfigTo` names eight fields by hand; the request has the URL, the
  authorization and the verification of the secret at bind, whatever the secret is now.
* `LimitsAreAsStated`: NULL is the default, 0 is a limit of its own, and no cast changes a value.
* `FormIsReadAsMeant`, `TableSearchesItsIndex`: neither a form's nor SPL's special characters, in
  a query, a time or the name of a table, change what is asked for.

Why the bounds are enough. With a buffer of two and four events in one record the producer parks
both within a record and between records; with three records, a chunk may end after any of them,
the last may lack its newline, and a search error may stand first, in the middle or last; two
retries let an attempt fail for two different reasons in a row. The caps lie below, at and above
the number of events. In the browser, five events span three vectors of two. In `ExportLines` a
chunk may end at any byte, so all ways of cutting a document, its newline and the `\r` before it
occur, and the attempt may break off behind any of them; it is repeated only if nothing arrived. A
budget of eight reaches the limit of sixty seconds, which the default of four does not. All
constants are parameters; the proofs need no bounds.

Fairness. `ExportStream!FairSpec` assumes weak fairness of the network (the read timeout, which
every connection is given in `GetConnection`, makes `send()` end), of the producer thread, of a
scan call that has begun, and of the destructor once it has begun. The engine owes no next call
and the user no interrupt, so `BeginScan`, `Destroy` and `Interrupt` have none. `SpuriousWake`
has none either, so no liveness rests on it. Liveness is checked on the same instance as safety.
`SplunkRequest!FairSpec` is weak fairness of the one thread that runs the request. The other
modules state no liveness: they are loops over finite data, or statements a user may stop giving.

Deadlock is checked in every run. `Terminated` is the stuttering step of a scan or request that
is over, so a state without a successor is a real deadlock.

## 4. Proofs

`ExportStreamProofs` proves, for all sets of responses, caps and retry budgets and every vector
size above zero:

* `TypeCorrect`, `RowsInOrderCorrect`, `BufferBoundedCorrect`, `NoLostWakeupCorrect`,
  `EofIsCompleteCorrect`, `NoBackoffAfterAbandonCorrect`, `AbortIsSilentCorrect`,
  `ShutdownReachesRequestCorrect`: the safety properties of the run `export_stream`;
* `NativeScanImplementsLogScan`: `Spec => LogScan!Spec` under the identity on the shared variables.

`BrowserScanProofs` proves the same of the other build: `BrowserTypeCorrect`,
`BrowserRowsInOrder`, `BrowserEofIsComplete`, `BrowserOneRecordAhead` and
`BrowserScanImplementsLogScan`. So both builds keep one contract, for every response.
`SplunkRequestProofs` proves `RequestTypeCorrect` (no wait above a minute), `BudgetIsSpentCorrect`
and `InterruptEndsWaitCorrect` for every budget, every advice and every attempt, those with an
undefined shift included.

`SplunkSessionProofs` proves, for any secrets and any order in which they are enumerated,
`SecretIsPinnedCorrect`, an action property, and `RequestsAreAuthenticatedCorrect`; and for index
lists and discovery answers of any length `SessionTypeCorrect`, `TablesAsSuppliedCorrect` and
`TablesAreReachableCorrect`.

`ExportLinesProofs` proves, for every body, every way of cutting it into chunks and every sequence
of broken attempts: `LinesTypeCorrect`, `RowsAreEventsCorrect`, `PendingIsPartialCorrect`,
`SearchErrorAtCapCorrect`, and `LinesImplementLogScan`, which is `Spec => LogScan!Spec` under the
mapping of rows to `delivered` and of the body's lines to `response`. Together with the two
refinements above, `LogScan` is what every reader does, from bytes as well as from records.

`EventMappingProofs` proves, for any events, projections and parsing functions:
`MappingTypeCorrect`, `ProjectionChangesNothingCorrect`, `RawParsedOnceCorrect`,
`OneBagPerFieldCorrect` and `TimeIsPlausibleCorrect`.

`SearchRequestProofs` proves, for any secrets, parameters and texts of any length, and with
integers of any width: `StatementTypeCorrect`, `RequestIsOfBoundSecretCorrect`,
`LimitsAreAsStatedCorrect`, `FormIsReadAsMeantCorrect` and `TableSearchesItsIndexCorrect`.

So every invariant, every action property and every refinement that a passing run checks is also
a theorem; liveness is not.

### Assumptions

They are those of the modules. TLC evaluates each of them for the instances it checks.

| Module | Assumed | Because |
|---|---|---|
| `ExportResponse` | a response is a sequence of records with ascending event numbers; caps are natural numbers; `VectorSize > 0` | rows are named by their number; the cap is an `idx_t`; `STANDARD_VECTOR_SIZE` |
| `ExportStream`, `SplunkRequest` | budgets are natural numbers; `Retry-After`, if present, is an integer, and so is the greatest `long long`; a second has sleeps | negative `retries` are refused at bind; the header is read by `std::stoll` |
| `ExportLines` | bodies are sequences of bytes; no document has more than `MostEvents` events | a response is finite; the bound is of any size and only serves to instantiate `LogScan` |
| `EventMapping` | projections are sequences of column names; `_raw` and `_time` begin with an underscore; times read from an event are decimals, or none; `None` is no event and no set of attributes | NULL is told from every value |
| `SplunkSession` | `None`, `Unnamed` and the two names that are not usable are distinct from names; lists and answers are sequences of names | absence is told from every value |
| `SearchRequest`: `BigintAssumption` | 60 is a BIGINT | the default time-out |
| `ParametersAssumption`, `IndexesAssumption`, `SecretsAssumption` | inputs have their types; a secret in use has a token, or a name and a password | others are refused by `GetSplunkCredentials` |
| `LowerAssumption` | `Lower` of the words the code compares with | `StringUtil::Lower` on ASCII |
| `DecimalAssumption`, `CodeAssumption` | a number contains no special character of a form; different characters have different codes; `%`, `&`, `=` and `+` are encoded | decimal digits; `URLEncode` writes the hexadecimal code of every character outside its safe set |
| `WordsAssumption`, `NoneAssumption` | the words the program writes are strings; `None` is no value | the first is true in TLA+, but not known to the provers |

### Arguments

In `ExportStreamProofs` all rests on one invariant, `Inductive`, because none of the properties
is inductive alone:

* `Control` says which flags go with which places (`cancelled` comes from the destructor or from
  an interrupt only, an error is stored only by a thread that is about to finish, a request that has
  been sent has a connection, ...).
* `Parsing` ties the number of rows pushed to the place of the parser: between records it is
  `RowsThrough(response, parsed)`, within a record the next event is `produced + 1`, and while a
  request may still be retried it is 0. That is why a retry cannot duplicate a row.
* `Pushing` carries completeness from the parser to the end of the scan: a producer that has
  finished without an error, and was not abandoned, has pushed all that is owed.
* `Awaited` says that a scan whose producer has pushed nothing is being waited for; with
  `Control` it gives `NoBackoffAfterAbandon`, and that no request is sent once the destructor waits,
  which `ShutdownReachesRequest` needs: its other half, that what is in flight has been shut down,
  is inductive only with it.

There is one lemma per conjunct (`ControlStep`, `ParsingStep`, `PushingStep`, ...), each split by
action, and frame lemmas for the variables an action group leaves alone. What both scans need to
know of responses (`TotalRows`, `CapIsComplete`, `AllIsComplete`, `DeliverableBefore`, ...) is in
`ExportResponseProofs`.

`BrowserScan!Inductive` is smaller. `Filling` says that rows wait in the overflow only while the
vector is full, so that a record is never parsed in front of them; `Numbered` says which events
the three sequences hold; `Parsing` says that either all events of the records so far are rows,
or the cap was reached in a record without a search error before it. `EmptyVectorIsEnd` derives
from them that an empty vector can only be the end. In `SplunkRequestProofs`, `Waiting` adds that
only an attempt that may be repeated is waited for, and that a wait is not slept beyond its end.

**Loops over data.** `ExportLines`, `SplunkSession` and `SearchRequest` compute with folds: over the
bytes of a body, the names of a list and the pieces of a text. Each fold is a recursive function
inside the community modules; a first lemma (`ReplacedRun`, `ReadFromRun`, `StringFromRun`, ...)
shows that it is a function with the expected recursion, two more give its value for nothing
(`...Nothing`) and for one element more (`...More`), and nothing after that looks into the fold.
What a loop computes for an input of any length is then proved by induction. The library's induction
theorems take a predicate as a parameter, which the provers cannot instantiate, so the induction is
over a set: `Induction` says that a set which contains 0 and the successor of each of its members
contains every natural number, because a least number outside of it would exist by well-foundedness
(`WFMin`). The set is the set of lengths for which the claim holds, and `SequenceInduction` is the
same for texts.

**SplunkSession.** `Inductive` is `TypeOK` with three parts. `Pinned` carries the selected name
through the wait for discovery; `Complete` says that credentials in use were complete when they were
looked up; `Supplied` says that the tables are exactly the usable names supplied, each where it was
first given. The tables are the result of a fold whose accumulator it reads, so `Supplied` is stated
by the positions of first mentions (`AreDistinct`), which grow with the fold (`TakingKeeps`).
`TablesAreReachable` rests on what `LookupEntry` computes for any sequence of tables: an exact match
is preferred, and without one the first that differs in case is found if there is any.

**ExportLines.** The properties are about the lines of the whole body, while a reader knows only
what has arrived. `Inductive` closes this gap with one number: at any time there is a `k` so that
the rows are those of the body's first `k` lines, none of which is a search error (`ReadTo`). For
the native reader, `NativeAt` says where it stands: `pending` is the body from some byte `b` to
what has been received, and `start` is where line `k` ends. A chunk moves neither of them, an
attempt that breaks off is repeated only while nothing has been received, so that `pending` is
empty, and `BrowserAt` says the same of the cursor. `Ending` decides which of two reasons to stop
came first, the cap or a search error (`IsRead`). `PendingIsPartial` alone would not be inductive:
it says nothing while the parser is inside of a chunk.

**EventMapping.** A memo, once computed, is what would be computed from the present event
(`RawMemo`, `OtherMemo`): the loop over rows declares all memos anew. Then a cell equals the cell of
a projection to its column alone, which is `ProjectionChangesNothing`, and the other properties are
consequences for single cells: that a key is added to the bag only when it is not there, and that
the four intervals in which an epoch counts as seconds, milliseconds, microseconds or nanoseconds
map into the years they are meant for.

**SearchRequest.** `Inductive` is `TypeOK` with two parts. `Bound` says that what is bound is the
function of the statement's parameters, or of its index, and of the secret at bind; `Sent` that a
request is the function of what is bound. Both survive any change of the secret, and both mention
the client only through the copy, so a field that `CopyConfigTo` forgot would show. The rest is
about texts, and shown by reading back what was written: `ReadEncoded` says that a form parser at
the start of a value reads an encoded text as the text and is still in that value, `FieldsOfBody`
that it reads the whole body as the fields that were meant, the count being one of them only if
there is a cap, and `ReadEscapedName` that an SPL reader within quotes reads an escaped name as
the name and is still within the quotes. With `SearchOfTable` (normalisation only puts `search `
in front of the query of a table: it begins with `index` and ends in a quote, so nothing is
trimmed) the last two give `TableSearchesItsIndex`. `UrlIs` shows that `NormalizeUrl` cuts off the
blanks around a URL and then the slashes behind it, nothing else, and takes the default if nothing
is left.

### Model-checked only

`ScanReturns`, `DestructorCompletes` and `RequestEnds` are liveness properties under fairness, for
which the provers have no rules here (`ENABLED` is not supported). The five runs that expect a
violation show a behaviour, and are no theorems.

## 5. Where code and documentation differ

1. `README.md` 174-175: an interrupt "takes effect within ~100ms". `ExportSearch` looks at the
   flag (`splunk_client.cpp` 242) and then sends (274). If the interrupt and both `Cancel()` calls
   (`logs_table.cpp` 876 and 657) fall between the two, nothing is in flight to be stopped, and the
   destructor waits in `join()` for the answer or the read timeout (60 s by default). Run
   `interrupt_prompt`.
2. `README.md` 173: "HTTP 429 waits out the server-advised `Retry-After`". The wait is cut to 60
   seconds (`splunk_client.cpp` 125-126). Run `retry_after`.
3. `README.md` 174, "exponential backoff": `uint64_t(1) << attempt` is undefined from the 65th
   attempt on, and `retries` has no upper limit. Run `backoff`.
4. `logs_table.cpp` 198-199: `ParseSplunkTimeToNanos` "returns false if it cannot be interpreted".
   Its numeric branches never do: `std::llround` (195) is given seconds from about 9.3e9 to 1e10,
   milliseconds before 1970 and `nan` or `inf`, which do not fit, and its unspecified result
   becomes the timestamp. Run `time_invented`.
5. `logs_table.cpp` 480-481: the prefix `search ` is added "unless the query already begins with a
   Splunk command: an explicit `search`". Line 492 asks for a blank behind the word, so a query
   that continues on the next line, or after a tab, is sent as `search search`. Run
   `search_repeated`.

Met while modelling, and not the subject of a run: a query that is just `search` (the blank behind
it is trimmed first) becomes `search search`. `README.md` 205-207 maps a missing severity to 0,
while the cell is NULL (`logs_table.cpp` 436-440). A `host`, `source` or `index` that stands only
in the object within `_raw` is in neither attribute column. A search error right behind the last
event the cap admits fails the native scan and not the browser's (`SearchErrorAtCap`).

## 6. Not modelled

* The transaction manager: a map under one mutex, with one statement in each of its three
  sections, that nothing else reads. A model would restate them.
* The entry points of the catalog that only throw, the lookup of its one schema, the parsing of
  `ATTACH` options, the registration of functions and types and the schema of the rows: no state.
* Which keys `CREATE SECRET` copies and which DuckDB redacts; TLS settings other than the
  verification; error texts.
* The characters of a JSON document, an ISO-8601 time or a number: the libraries that read them
  are parameters of `EventMapping` and `ExportLines`. The Basic header is named by what it
  encodes, without Base64.
* What DuckDB's `HTTPUtil` does in the browser build (it retries there), memory exhaustion,
  exceptions from the thread constructor and failures inside DuckDB.
* In `ExportStream` chunks are whole lines plus an invisible rest; how bytes become lines is
  `ExportLines`, which in turn has no threads.

## 7. Plan

Apart from the transaction manager, every component with state or a computation of its own is
modelled, and all safety properties and refinements of the runs are proved. What could still be
added:

1. the composition of `ExportStream` and `ExportLines`, in which a chunk parks the producer in the
   middle of its bytes; today the two meet in `LogScan`, and the records of the one are the lines of
   the other;
2. action properties that follow from the invariants: that nothing is pushed after the
   destructor's join, that rows never leave the engine's sequence;
3. the composition of `SplunkSession` and `SearchRequest`, which would make the bound secret of
   the second the selected secret of the first.
