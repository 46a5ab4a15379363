---------------------------- MODULE MCBrowserScan ----------------------------
(***************************************************************************)
(* The browser's scan on small responses, with vectors of two rows.        *)
(***************************************************************************)
EXTENDS BrowserScan

\* A record with the events from + 1, ..., to.
Row(from, to) == [from |-> from, to |-> to, fatal |-> FALSE]
Fatal(from) == [from |-> from, to |-> from, fatal |-> TRUE]

\* All the responses of up to three records with up to five events each and,
\* anywhere, a search error.
EventCounts == {0, 1, 2, 3, 5}
MCResponses ==
    {<<>>} \cup
    {<<Row(0, a)>> : a \in EventCounts} \cup
    {<<Row(0, a), Row(a, a + b)>> : a, b \in EventCounts} \cup
    {<<Row(0, a), Row(a, a + b), Row(a + b, a + b + c)>> :
        a, b, c \in EventCounts} \cup
    {<<Fatal(0), Row(0, a)>> : a \in EventCounts} \cup
    {<<Row(0, a), Fatal(a), Row(a, a + c)>> : a, c \in EventCounts} \cup
    {<<Row(0, a), Row(a, a + b), Fatal(a + b)>> : a, b \in EventCounts}

MCMaxRows == 0..6
=============================================================================
