--------------------------- MODULE ExportResponse ---------------------------
(***************************************************************************)
(* The body of one export response, as the reader of the stream sees it:   *)
(* a sequence of records, one per line of newline-delimited JSON.  What a  *)
(* line is made of is abstracted to what ParseExportLine does with it:     *)
(* the events it hands to its callback, and whether it throws because the  *)
(* line carries an ERROR or FATAL message.  A line that is malformed, a    *)
(* preview or an informational message is a record without events.        *)
(*                                                                         *)
(* The events of a response are numbered 1, 2, ... in the order in which   *)
(* they stand in it: record k holds those from r[k].from + 1 to r[k].to.   *)
(***************************************************************************)
EXTENDS Naturals, Sequences

CONSTANTS
    Responses,         \* the responses a search may be answered with
    MaxRowsChoices,    \* values of the parameter max_rows, 0 for unlimited
    VectorSize         \* STANDARD_VECTOR_SIZE: rows one scan call may return

Record == [from : Nat, to : Nat, fatal : BOOLEAN]

\* How many events the first k records of response r hold.
RowsThrough(r, k) == IF k = 0 THEN 0 ELSE r[k].to

IsResponse(r) ==
    /\ r \in Seq(Record)
    /\ \A k \in 1..Len(r) : /\ r[k].from = RowsThrough(r, k - 1)
                            /\ r[k].from <= r[k].to
    /\ \A j, k \in 1..Len(r) : j < k => r[j].to <= r[k].from

ASSUME ResponsesAssumption == \A r \in Responses : IsResponse(r)
ASSUME MaxRowsAssumption == MaxRowsChoices \subseteq Nat
ASSUME VectorSizeAssumption == VectorSize \in Nat \ {0}

-----------------------------------------------------------------------------
\* The rows a scan has to return: all events, or the first max_rows of them.
Wanted(r, max_rows) ==
    LET total == RowsThrough(r, Len(r))
    IN  IF max_rows > 0 /\ max_rows < total THEN max_rows ELSE total

\* A scan that has returned n rows has returned none beyond the cap and none
\* that stands behind a search error.
Deliverable(r, max_rows, n) ==
    /\ n <= Wanted(r, max_rows)
    /\ \A k \in 1..Len(r) : r[k].fatal => n <= r[k].from

\* n rows are the whole answer: every row that is wanted, and no search error
\* among the records that had to be read to obtain them.
Complete(r, max_rows, n) ==
    /\ n = Wanted(r, max_rows)
    /\ \A k \in 1..Len(r) :
          r[k].fatal => max_rows > 0 /\ max_rows <= r[k].from
=============================================================================
