------------------------------- MODULE LogScan -------------------------------
(***************************************************************************)
(* What a scan of Splunk logs promises the query engine, whichever build   *)
(* of the extension runs it.  The scan returns vectors of rows until it    *)
(* reports the end (an empty vector) or throws.  The rows are the events   *)
(* of one response, each once and in order, at most max_rows of them.  The *)
(* end may be reported only once the answer is complete, unless the query  *)
(* was interrupted, in which case the engine discards the result.          *)
(***************************************************************************)
EXTENDS ExportResponse

VARIABLES
    response,         \* what the server answers the search with
    max_rows,         \* the row cap the scan was bound with
    delivered,        \* the rows returned to the engine so far
    outcome,          \* "open" until the scan reports its end or throws
    interrupted       \* the query's interrupt flag

vars == <<response, max_rows, delivered, outcome, interrupted>>

Outcomes == {"open", "eof", "failed", "interrupted"}

Init ==
    /\ response \in Responses
    /\ max_rows \in MaxRowsChoices
    /\ delivered = <<>>
    /\ outcome = "open"
    /\ interrupted = FALSE

Interrupt ==
    /\ interrupted' = TRUE
    /\ UNCHANGED <<response, max_rows, delivered, outcome>>

ReturnRows ==
    /\ outcome = "open"
    /\ \E n \in 1..VectorSize :
          /\ Deliverable(response, max_rows, Len(delivered) + n)
          /\ delivered' = delivered \o [i \in 1..n |-> Len(delivered) + i]
    /\ UNCHANGED <<response, max_rows, outcome, interrupted>>

ReportEnd ==
    /\ outcome = "open"
    /\ interrupted \/ Complete(response, max_rows, Len(delivered))
    /\ outcome' = "eof"
    /\ UNCHANGED <<response, max_rows, delivered, interrupted>>

ThrowError ==
    /\ outcome = "open"
    /\ \/ outcome' = "failed"
       \/ interrupted /\ outcome' = "interrupted"
    /\ UNCHANGED <<response, max_rows, delivered, interrupted>>

Next == Interrupt \/ ReturnRows \/ ReportEnd \/ ThrowError

Spec == Init /\ [][Next]_vars
=============================================================================
