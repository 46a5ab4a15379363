--------------------------- MODULE MCExportStream ---------------------------
(***************************************************************************)
(* The native scan on small responses.  The buffer holds two rows, so that *)
(* a response of three or more events fills it.                            *)
(***************************************************************************)
EXTENDS ExportStream

\* A record with the events from + 1, ..., to.
Row(from, to) == [from |-> from, to |-> to, fatal |-> FALSE]
Fatal(from) == [from |-> from, to |-> from, fatal |-> TRUE]

MCResponses == {
    <<>>,                                       \* an empty body
    <<Row(0, 0)>>,                              \* nothing but a message
    <<Fatal(0)>>,                               \* a search that is refused
    <<Row(0, 1), Row(1, 2), Row(2, 3)>>,        \* one event per line
    <<Row(0, 4)>>,                              \* one "results" array
    <<Row(0, 1), Fatal(1), Row(1, 2)>>,         \* a search that fails midway
    <<Row(0, 2), Row(2, 2), Row(2, 4)>>,        \* a message between arrays
    <<Row(0, 3), Fatal(3)>> }                   \* ... that fails at the end

MCMaxRows == {0, 1, 2, 3}
MCRetries == {0, 1, 2}

\* Fewer of them to look for one execution in.
FewResponses == {
    <<Row(0, 1), Row(1, 2), Row(2, 4)>>,
    <<Row(0, 1), Fatal(1)>> }
FewMaxRows == {0, 3}
FewRetries == {0, 1}
=============================================================================
