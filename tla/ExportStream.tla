----------------------------- MODULE ExportStream -----------------------------
(***************************************************************************)
(* The native scan of Splunk logs: a producer thread runs the export       *)
(* request, retrying it while nothing of the response has been consumed,   *)
(* splits the response into records, and hands their events to the         *)
(* engine's thread through a bounded buffer; the engine's thread calls     *)
(* SplunkLogsScan and in the end destroys the scan's state.  The query may *)
(* be interrupted at any time.                                             *)
(*                                                                         *)
(* One action is one section of code that no other thread can observe half *)
(* done: a section under the scan's mutex, a call of the HTTP client, or   *)
(* steps on variables local to one thread.                                 *)
(***************************************************************************)
EXTENDS Naturals, Sequences, ExportResponse

CONSTANT RetriesChoices    \* values of the parameter retries

ASSUME RetriesAssumption == RetriesChoices \subseteq Nat

BufferCapacity == VectorSize * 2

VARIABLES
    (* chosen when the query is bound, or by the server *)
    max_rows,         \* bind data: row cap, 0 for unlimited
    retries,          \* bind data: retry budget of the client
    response,         \* the response body the search has, sent on each attempt
    (* the producer thread *)
    pc,               \* where it is
    attempt,          \* ExportSearch: number of the attempt, from 0
    status,           \* class of the response's status line, "none" before it
    success_bytes,    \* whether on_chunk has accepted bytes of this attempt
    lines,            \* records of this attempt received with their newline
    parsed,           \* records of this attempt handed to parse_line
    event,            \* the next event of the record being parsed
    produced,         \* rows pushed so far
    limit_reached,    \* on_event wants no more events
    failure,          \* the error in flight, or of the last failed attempt
    (* shared, under the mutex *)
    buffer,           \* rows ready for the engine
    parked,           \* the producer waits on space_available
    error,            \* what the producer failed with
    finished,         \* the producer will push nothing more
    cancelled,        \* nobody will take rows any more
    (* the HTTP connection, under its own mutexes *)
    connection,       \* whether a connection object exists
    stopped,          \* stop() has shut down the request in flight
    (* the engine's thread *)
    consumer,         \* where it is, in SplunkLogsScan or the destructor
    delivered,        \* rows returned to the engine so far
    outcome,          \* how the scan ended, "open" before that
    interrupted       \* ClientContext::interrupted

setup == <<max_rows, retries, response>>
transfer == <<attempt, status, success_bytes, lines>>
parser == <<parsed, event, produced, limit_reached>>
shared == <<buffer, parked, error, finished, cancelled>>
http == <<connection, stopped>>
engine == <<consumer, delivered, outcome, interrupted>>
vars == <<setup, pc, transfer, parser, failure, shared, http, engine>>

ProducerPlaces ==
    {"none", "check", "ready", "inflight", "backoff", "chunk", "event", "tail",
     "catch", "finish", "done"}
ConsumerPlaces ==
    {"idle", "waiting", "drained", "stopping", "cancelling",
     "marked", "notified", "joining", "gone"}
Statuses == {"none", "ok", "rate_limited", "server_error", "refused"}
Failures == {"none", "tls", "lost", "timeout", "http", "search", "interrupt"}
Outcomes == {"open", "eof", "failed", "interrupted"}

Init ==
    /\ max_rows \in MaxRowsChoices
    /\ retries \in RetriesChoices
    /\ response \in Responses
    /\ pc = "none"
    /\ attempt = 0
    /\ status = "none"
    /\ success_bytes = FALSE
    /\ lines = 0
    /\ parsed = 0
    /\ event = 0
    /\ produced = 0
    /\ limit_reached = FALSE
    /\ failure = "none"
    /\ buffer = <<>>
    /\ parked = FALSE
    /\ error = "none"
    /\ finished = FALSE
    /\ cancelled = FALSE
    /\ connection = FALSE
    /\ stopped = FALSE
    /\ consumer = "idle"
    /\ delivered = <<>>
    /\ outcome = "open"
    /\ interrupted = FALSE

-----------------------------------------------------------------------------
(***************************************************************************)
(* The retry loop of ExportSearch.                                         *)
(***************************************************************************)
Throw(what) == pc' = "catch" /\ failure' = what

\* The top of the loop looks at the interrupt flag once per attempt.
CheckInterrupt ==
    /\ pc = "check"
    /\ \/ interrupted /\ Throw("interrupt")
       \/ ~interrupted /\ pc' = "ready" /\ UNCHANGED failure
    /\ UNCHANGED <<setup, transfer, parser, shared, http, engine>>

\* GetConnection() and the moment send() takes the socket.  The locals of the
\* attempt start afresh, and the server answers with the response from its
\* first byte.
Send ==
    /\ pc = "ready"
    /\ pc' = "inflight"
    /\ failure' = "none"
    /\ status' = "none"
    /\ success_bytes' = FALSE
    /\ lines' = 0
    /\ parsed' = 0
    /\ connection' = TRUE
    /\ stopped' = FALSE
    /\ UNCHANGED <<setup, attempt, event, produced, limit_reached, shared, engine>>

MayRetry == attempt < retries

\* IsRetryableTransportError: every error but those of TLS certificates.
IsRetryable(cause) == cause # "tls"

\* Mutant: a broken request is replayed whatever of it has been parsed.
MayReplayAlways(cause) == MayRetry /\ IsRetryable(cause)

\* Once bytes have reached the parser the request is not replayed.
MayReplay(cause) == ~success_bytes /\ MayRetry /\ IsRetryable(cause)

\* send() has no response: the connection is dropped, whatever happens next.
TransportError(cause) ==
    /\ pc = "inflight"
    /\ connection' = FALSE
    /\ failure' = cause
    /\ pc' = IF MayReplay(cause) THEN "backoff" ELSE "catch"
    /\ UNCHANGED <<setup, transfer, parser, shared, stopped, engine>>

\* Certificate verification fails while connecting.
TlsError == status = "none" /\ TransportError("tls")

\* The connection breaks, or stop() has shut its socket down.
ConnectionLost == TransportError("lost")

\* Nothing arrives for timeout_seconds.
ReadTimeout == ~stopped /\ TransportError("timeout")

\* response_handler: the status line and the headers have arrived.
ReceiveStatus ==
    /\ pc = "inflight"
    /\ status = "none"
    /\ status' \in Statuses \ {"none"}
    /\ UNCHANGED <<setup, pc, attempt, success_bytes, lines, parser, failure,
                   shared, http, engine>>

\* content_receiver gets a chunk that completes some records, or none.  A
\* further chunk that completes no record changes nothing.
ReceiveChunk ==
    /\ pc = "inflight"
    /\ status = "ok"
    /\ \E k \in 0..(Len(response) - lines) :
          /\ k > 0 \/ ~success_bytes
          /\ lines' = lines + k
    /\ pc' = "chunk"
    /\ UNCHANGED <<setup, attempt, status, success_bytes, parser, failure,
                   shared, http, engine>>

\* The whole body is there; its last record may lack its newline.
BodyReceived ==
    \/ lines = Len(response)
    \/ success_bytes /\ lines = Len(response) - 1

Transient == status \in {"rate_limited", "server_error"}

\* send() returns a response.
ReceiveEnd ==
    /\ pc = "inflight"
    /\ status # "none"
    /\ \/ status = "ok" /\ BodyReceived /\ pc' = "tail" /\ UNCHANGED failure
       \/ Transient /\ MayRetry /\ pc' = "backoff" /\ UNCHANGED failure
       \/ status # "ok" /\ ~(Transient /\ MayRetry) /\ Throw("http")
    /\ UNCHANGED <<setup, transfer, parser, shared, http, engine>>

\* SleepCheckingInterrupt polls the interrupt flag, and only that.
SleepInterrupted ==
    /\ pc = "backoff"
    /\ interrupted
    /\ Throw("interrupt")
    /\ UNCHANGED <<setup, transfer, parser, shared, http, engine>>

\* Mutant: the attempts are counted down.
SleepElapsedCountingDown ==
    /\ pc = "backoff"
    /\ attempt' = attempt - 1
    /\ pc' = "check"
    /\ UNCHANGED <<setup, status, success_bytes, lines, parser, failure, shared,
                   http, engine>>

SleepElapsed ==
    /\ pc = "backoff"
    /\ attempt' = attempt + 1
    /\ pc' = "check"
    /\ UNCHANGED <<setup, status, success_bytes, lines, parser, failure, shared,
                   http, engine>>

-----------------------------------------------------------------------------
(***************************************************************************)
(* The producer's callbacks: splitting chunks into lines, parsing a line,  *)
(* and pushing its events.                                                 *)
(***************************************************************************)
\* Mutant: messages of a response are never taken for errors.
NoSearchError(k) == FALSE

\* The line carries an ERROR or FATAL message.
SearchError(k) == response[k].fatal

\* parse_line on record k: it throws, or its events go to the callback.
ParseRecord(k) ==
    /\ parsed' = k
    /\ \/ SearchError(k) /\ Throw("search") /\ UNCHANGED event
       \/ /\ ~SearchError(k)
          /\ event' = response[k].from + 1
          /\ pc' = "event"
          /\ UNCHANGED failure
    /\ UNCHANGED <<setup, transfer, produced, limit_reached, shared, http, engine>>

\* The next complete line of the chunk.
ParseLine ==
    /\ pc = "chunk"
    /\ ~limit_reached
    /\ parsed < lines
    /\ ParseRecord(parsed + 1)

\* on_chunk returns: FALSE ends the export, TRUE counts the chunk.
EndChunk ==
    /\ pc = "chunk"
    /\ \/ limit_reached /\ pc' = "finish" /\ UNCHANGED success_bytes
       \/ /\ ~limit_reached
          /\ parsed = lines
          /\ success_bytes' = TRUE
          /\ pc' = "inflight"
    /\ UNCHANGED <<setup, attempt, status, lines, parser, failure, shared, http,
                   engine>>

\* Mutant: what follows the last newline is dropped.
ParseTailNever ==
    /\ pc = "tail"
    /\ pc' = "finish"
    /\ UNCHANGED <<setup, transfer, parser, failure, shared, http, engine>>

\* ExportSearch has returned with a whole response: what follows its last
\* newline is a record too.
ParseTail ==
    /\ pc = "tail"
    /\ \/ ~limit_reached /\ parsed < Len(response) /\ ParseRecord(parsed + 1)
       \/ /\ limit_reached \/ parsed = Len(response)
          /\ pc' = "finish"
          /\ UNCHANGED <<setup, transfer, parser, failure, shared, http, engine>>

\* The events of the record are used up; those after the limit are ignored.
EndRecord ==
    /\ pc = "event"
    /\ limit_reached \/ event > response[parsed].to
    /\ pc' = IF parsed > lines THEN "finish" ELSE "chunk"
    /\ UNCHANGED <<setup, transfer, parser, failure, shared, http, engine>>

CapIsReached == max_rows > 0 /\ produced >= max_rows

\* Nobody will take a row that is pushed now.
Abandoned == cancelled \/ interrupted

\* Mutant: one row too many.
HasSpaceForOneMore == Len(buffer) <= BufferCapacity

HasSpace == Len(buffer) < BufferCapacity

\* The callback is running, awake, on an event.
OnEvent ==
    /\ pc = "event"
    /\ ~parked
    /\ ~limit_reached
    /\ event <= response[parsed].to

\* No more events are wanted: the cap is reached, or nobody takes them.
StopPushing ==
    /\ OnEvent
    /\ CapIsReached \/ Abandoned
    /\ limit_reached' = TRUE
    /\ UNCHANGED <<setup, pc, transfer, parsed, event, produced, failure, shared,
                   http, engine>>

Push ==
    /\ OnEvent
    /\ ~CapIsReached
    /\ ~Abandoned
    /\ HasSpace
    /\ buffer' = Append(buffer, event)
    /\ produced' = produced + 1
    /\ event' = event + 1
    /\ UNCHANGED <<setup, pc, transfer, parsed, limit_reached, failure, parked,
                   error, finished, cancelled, http, engine>>

\* space_available.wait: the predicate is false, the mutex is released.
Park ==
    /\ OnEvent
    /\ ~CapIsReached
    /\ ~Abandoned
    /\ ~HasSpace
    /\ parked' = TRUE
    /\ UNCHANGED <<setup, pc, transfer, parser, failure, buffer, error, finished,
                   cancelled, http, engine>>

\* A condition variable may wake without a notification.
SpuriousWake ==
    /\ parked
    /\ parked' = FALSE
    /\ UNCHANGED <<setup, pc, transfer, parser, failure, buffer, error, finished,
                   cancelled, http, engine>>

\* Mutant: an error is recorded even if nobody will ask for it.
CatchAlways ==
    /\ pc = "catch"
    /\ error' = failure
    /\ pc' = "finish"
    /\ UNCHANGED <<setup, transfer, parser, failure, buffer, parked, finished,
                   cancelled, http, engine>>

Catch ==
    /\ pc = "catch"
    /\ error' = IF cancelled THEN error ELSE failure
    /\ pc' = "finish"
    /\ UNCHANGED <<setup, transfer, parser, failure, buffer, parked, finished,
                   cancelled, http, engine>>

\* The last thing the thread does.
Finish ==
    /\ pc = "finish"
    /\ finished' = TRUE
    /\ pc' = "done"
    /\ UNCHANGED <<setup, transfer, parser, failure, buffer, parked, error,
                   cancelled, http, engine>>

-----------------------------------------------------------------------------
(***************************************************************************)
(* Calls of SplunkLogsScan.  The engine makes one call at a time and none  *)
(* after the scan has reported its end or thrown.                          *)
(***************************************************************************)
\* send() is under way: receiving, or in one of its callbacks.
InFlight ==
    \/ pc \in {"inflight", "chunk"}
    \/ pc = "event" /\ parsed <= lines

\* SplunkClient::Cancel: stop() shuts down the request in flight.  Without
\* one it has no effect on a request that is sent later.
Cancel ==
    /\ stopped' = (stopped \/ (connection /\ InFlight))
    /\ UNCHANGED connection

\* The call begins, and starts the producer if it is the first.
BeginScan ==
    /\ consumer = "idle"
    /\ outcome = "open"
    /\ consumer' = "waiting"
    /\ pc' = IF pc = "none" THEN "check" ELSE pc
    /\ UNCHANGED <<setup, transfer, parser, failure, shared, http, delivered,
                   outcome, interrupted>>

NothingToReport == buffer = <<>> /\ ~finished /\ error = "none"

\* The wait is timed, so each turn of its loop looks at the interrupt flag.
ScanInterrupt ==
    /\ consumer = "waiting"
    /\ NothingToReport
    /\ interrupted
    /\ cancelled' = TRUE
    /\ consumer' = "stopping"
    /\ UNCHANGED <<setup, pc, transfer, parser, failure, buffer, parked, error,
                   finished, http, delivered, outcome, interrupted>>

ScanNotifyStop ==
    /\ consumer = "stopping"
    /\ parked' = FALSE
    /\ consumer' = "cancelling"
    /\ UNCHANGED <<setup, pc, transfer, parser, failure, buffer, error, finished,
                   cancelled, http, delivered, outcome, interrupted>>

ScanCancel ==
    /\ consumer = "cancelling"
    /\ Cancel
    /\ outcome' = "interrupted"
    /\ consumer' = "idle"
    /\ UNCHANGED <<setup, pc, transfer, parser, failure, shared, delivered,
                   interrupted>>

\* Rows still in the buffer are not returned once the producer has failed.
ScanRethrow ==
    /\ consumer = "waiting"
    /\ error # "none"
    /\ outcome' = IF error = "interrupt" THEN "interrupted" ELSE "failed"
    /\ consumer' = "idle"
    /\ UNCHANGED <<setup, pc, transfer, parser, failure, shared, http, delivered,
                   interrupted>>

\* Up to a vector of rows moves to the engine; no row at all means the end.
ScanDrain ==
    /\ consumer = "waiting"
    /\ ~NothingToReport
    /\ error = "none"
    /\ LET n == IF Len(buffer) < VectorSize THEN Len(buffer) ELSE VectorSize
       IN  /\ delivered' = delivered \o SubSeq(buffer, 1, n)
           /\ buffer' = SubSeq(buffer, n + 1, Len(buffer))
           /\ outcome' = IF n = 0 THEN "eof" ELSE outcome
    /\ consumer' = "drained"
    /\ UNCHANGED <<setup, pc, transfer, parser, failure, parked, error, finished,
                   cancelled, http, interrupted>>

\* Mutant: the producer is not told of the space the call has made.
ScanReturnSilently ==
    /\ consumer = "drained"
    /\ consumer' = "idle"
    /\ UNCHANGED <<setup, pc, transfer, parser, failure, shared, http, delivered,
                   outcome, interrupted>>

ScanReturn ==
    /\ consumer = "drained"
    /\ parked' = FALSE
    /\ consumer' = "idle"
    /\ UNCHANGED <<setup, pc, transfer, parser, failure, buffer, error, finished,
                   cancelled, http, delivered, outcome, interrupted>>

-----------------------------------------------------------------------------
(***************************************************************************)
(* The destructor of the scan's state, and the query's interruption.       *)
(***************************************************************************)
\* The engine may drop the scan at any time between two calls.
Destroy ==
    /\ consumer = "idle"
    /\ cancelled' = TRUE
    /\ consumer' = "marked"
    /\ UNCHANGED <<setup, pc, transfer, parser, failure, buffer, parked, error,
                   finished, http, delivered, outcome, interrupted>>

\* Mutant: the destructor wakes nobody.
DestroyNotifyNobody ==
    /\ consumer = "marked"
    /\ consumer' = "notified"
    /\ UNCHANGED <<setup, pc, transfer, parser, failure, shared, http, delivered,
                   outcome, interrupted>>

DestroyNotify ==
    /\ consumer = "marked"
    /\ parked' = FALSE
    /\ consumer' = "notified"
    /\ UNCHANGED <<setup, pc, transfer, parser, failure, buffer, error, finished,
                   cancelled, http, delivered, outcome, interrupted>>

\* Mutant: the flag alone is to end the request.
DestroyCancelNothing ==
    /\ consumer = "notified"
    /\ consumer' = "joining"
    /\ UNCHANGED <<setup, pc, transfer, parser, failure, shared, http, delivered,
                   outcome, interrupted>>

DestroyCancel ==
    /\ consumer = "notified"
    /\ Cancel
    /\ consumer' = "joining"
    /\ UNCHANGED <<setup, pc, transfer, parser, failure, shared, delivered,
                   outcome, interrupted>>

\* The thread was never started, or has ended.
Exited == pc \in {"none", "done"}

Join ==
    /\ consumer = "joining"
    /\ Exited
    /\ consumer' = "gone"
    /\ UNCHANGED <<setup, pc, transfer, parser, failure, shared, http, delivered,
                   outcome, interrupted>>

Interrupt ==
    /\ ~interrupted
    /\ consumer # "gone"
    /\ interrupted' = TRUE
    /\ UNCHANGED <<setup, pc, transfer, parser, failure, shared, http, consumer,
                   delivered, outcome>>

\* Nothing is left to do.
Terminated == consumer = "gone" /\ UNCHANGED vars

-----------------------------------------------------------------------------
Network == \/ TlsError \/ ConnectionLost \/ ReadTimeout
           \/ ReceiveStatus \/ ReceiveChunk \/ ReceiveEnd

Producer == \/ CheckInterrupt \/ Send \/ SleepInterrupted \/ SleepElapsed
            \/ ParseLine \/ EndChunk \/ ParseTail \/ EndRecord
            \/ StopPushing \/ Push \/ Park \/ Catch \/ Finish

ScanCall == \/ ScanInterrupt \/ ScanNotifyStop \/ ScanCancel
            \/ ScanRethrow \/ ScanDrain \/ ScanReturn

Destructor == DestroyNotify \/ DestroyCancel \/ Join

Next == \/ Network \/ Producer \/ ScanCall \/ Destructor
        \/ BeginScan \/ Destroy \/ Interrupt \/ SpuriousWake \/ Terminated

Spec == Init /\ [][Next]_vars

\* The threads run, and the read timeout sees to it that a request does not
\* stay without an answer.  The engine owes the scan neither a call nor its
\* destruction, the user no interrupt.
Fairness == /\ WF_vars(Network)
            /\ WF_vars(Producer)
            /\ WF_vars(ScanCall)
            /\ WF_vars(Destructor)

FairSpec == Spec /\ Fairness

-----------------------------------------------------------------------------
\* Every variable stays in its range; the attempts never go below zero.
TypeOK ==
    /\ max_rows \in MaxRowsChoices
    /\ retries \in RetriesChoices
    /\ response \in Responses
    /\ pc \in ProducerPlaces
    /\ attempt \in Nat
    /\ status \in Statuses
    /\ success_bytes \in BOOLEAN
    /\ lines \in 0..Len(response)
    /\ parsed \in 0..Len(response)
    /\ event \in Nat
    /\ produced \in Nat
    /\ limit_reached \in BOOLEAN
    /\ failure \in Failures
    /\ buffer \in Seq(Nat)
    /\ parked \in BOOLEAN
    /\ error \in Failures
    /\ finished \in BOOLEAN
    /\ cancelled \in BOOLEAN
    /\ connection \in BOOLEAN
    /\ stopped \in BOOLEAN
    /\ consumer \in ConsumerPlaces
    /\ delivered \in Seq(Nat)
    /\ outcome \in Outcomes
    /\ interrupted \in BOOLEAN

\* The rows returned, followed by the rows in the buffer, are the events
\* 1, 2, 3, ... of the response, each once and none left out: over chunks that
\* end anywhere, over retries that make the server send everything again, and
\* over the cap, which they do not exceed (the guard on success_bytes in
\* ExportSearch and the counting in StartExport's callback).
RowsInOrder ==
    /\ \A i \in 1..Len(delivered) : delivered[i] = i
    /\ \A i \in 1..Len(buffer) : buffer[i] = Len(delivered) + i
    /\ produced = Len(delivered) + Len(buffer)
    /\ max_rows > 0 => produced <= max_rows

\* SPLUNK_BUFFER_CAPACITY bounds the rows decoded ahead of the engine however
\* the two threads interleave.
BufferBounded == Len(buffer) <= BufferCapacity

\* A producer that waits although it could go on is about to be notified:
\* every thread that makes room or gives the scan up still has its notify to
\* come when the producer's wait predicate has become true.
NoLostWakeup ==
    parked /\ (HasSpace \/ cancelled)
        => consumer \in {"drained", "stopping", "marked"}

\* An empty vector means the end of the data, and nothing else: unless the
\* query was interrupted, all the rows asked for have been returned, and no
\* search error and no transport error has been taken for the end.
EofIsComplete ==
    outcome = "eof" /\ ~interrupted
        => Complete(response, max_rows, Len(delivered))

\* A thread whose scan is dropped without an interrupt is never in a retry
\* wait.  SleepCheckingInterrupt does not look at "cancelled", so a destructor
\* that met such a wait would block in join() for up to a minute per retry.
NoBackoffAfterAbandon == cancelled /\ ~interrupted => pc # "backoff"

\* The error provoked by shutting the request down is never reported as an
\* error of the search: "cancelled" is set before Cancel() is called.
AbortIsSilent == stopped => error = "none"

\* A destructor that waits for the thread, of a query that was not interrupted,
\* has stopped it for good: the request in flight has been shut down, none is
\* about to be sent, and no retry is waited for.  So Cancel() has come neither
\* too early nor too late, although it has no effect on a later request, and
\* join() does not sit out the read timeout.
ShutdownReachesRequest ==
    consumer = "joining" /\ ~interrupted =>
        /\ InFlight => stopped
        /\ pc \notin {"check", "ready", "backoff"}

-----------------------------------------------------------------------------
(***************************************************************************)
(* The invariant behind these, inductive as a whole.                       *)
(***************************************************************************)
Destructing == {"marked", "notified", "joining", "gone"}

\* Who may be where when which flag is set.
Control ==
    /\ pc \in {"chunk", "event", "tail"} => status = "ok"
    /\ status # "ok" => ~success_bytes
    /\ pc \in {"inflight", "chunk", "event", "tail"} => connection
    /\ pc = "catch" => failure # "none"
    /\ failure = "interrupt" => interrupted
    /\ error = "interrupt" => interrupted
    /\ error # "none" => pc \in {"finish", "done"}
    /\ finished => pc = "done"
    /\ consumer \in {"waiting", "stopping", "cancelling"} => outcome = "open"
    /\ consumer \in {"stopping", "cancelling"} => interrupted
    /\ consumer \in {"stopping", "cancelling"} \cup Destructing => cancelled
    /\ cancelled => interrupted \/ consumer \in Destructing
    /\ stopped => cancelled
    /\ stopped => error = "none"

\* How far the parser is, at each place of the producer.
Parsing ==
    /\ pc \in {"none", "check", "ready", "backoff"} =>
          produced = 0 /\ ~limit_reached
    /\ pc = "inflight" /\ ~success_bytes => parsed = 0
    /\ pc \in {"inflight", "tail"} => ~limit_reached /\ parsed = lines
    /\ pc = "chunk" => parsed <= lines
    /\ pc = "tail" => lines + 1 >= Len(response)
    /\ pc \in {"inflight", "chunk", "tail"} /\ ~limit_reached =>
          produced = RowsThrough(response, parsed)
    /\ pc = "event" =>
          /\ parsed > 0
          /\ parsed > lines => parsed = Len(response)
          /\ ~limit_reached => /\ event = produced + 1
                              /\ response[parsed].from <= produced
                              /\ produced <= response[parsed].to
    /\ pc \in {"inflight", "chunk", "event", "tail"} =>
          \A k \in 1..parsed : ~response[k].fatal

\* No row is pushed that the scan must not return, and the producer stops
\* early for a reason only.
Pushing ==
    /\ Deliverable(response, max_rows, produced)
    /\ pc \in {"chunk", "event"} /\ limit_reached /\ ~Abandoned =>
          /\ max_rows > 0
          /\ produced = max_rows
          /\ parsed > 0
          /\ max_rows < response[parsed].to
    /\ pc \in {"finish", "done"} /\ error = "none" /\ ~Abandoned =>
          Complete(response, max_rows, produced)

\* A request of which nothing has been pushed is waited for.
Awaited ==
    pc \notin {"none", "catch", "finish", "done"} /\ produced = 0
        => interrupted \/ consumer = "waiting"

Inductive ==
    /\ TypeOK /\ Control /\ Parsing /\ Pushing /\ Awaited
    /\ RowsInOrder /\ BufferBounded /\ NoLostWakeup /\ EofIsComplete
    /\ ShutdownReachesRequest

-----------------------------------------------------------------------------
\* Every call of the scan returns or throws.
ScanReturns == consumer = "waiting" ~> consumer # "waiting"

\* The destructor gets to its end, whatever the producer was doing.
DestructorCompletes == consumer = "marked" ~> consumer = "gone"

\* The native scan is a scan in the sense of LogScan.
Abstract == INSTANCE LogScan
ImplementsLogScan == Abstract!Spec

\* What README.md says of an interrupt, "takes effect within ~100ms", as a
\* property of the request: a search that was interrupted, and whose scan is
\* being destroyed, does not sit out the read timeout.
InterruptIsPrompt ==
    [][interrupted /\ consumer = "joining" /\ pc = "inflight"
           => failure' # "timeout"]_vars
=============================================================================
