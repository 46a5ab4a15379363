---------------------------- MODULE MCExportLines ----------------------------
(***************************************************************************)
(* Bodies of up to three documents of every shape that is told apart, with *)
(* lines that end in \n or \r\n, blank lines, documents that share a line, *)
(* returns anywhere in a line, and a last line that is complete, lacks its *)
(* newline or is cut off.                                                  *)
(***************************************************************************)
EXTENDS ExportLines

Empty == [id |-> 0, root |-> "object", preview |-> FALSE, result |-> None,
          results |-> None, eventish |-> FALSE, messages |-> None]
Result == [Empty EXCEPT !.result = "object"]
Several == [Empty EXCEPT !.results = <<"object", "other", "object">>]
Fatal == [Empty EXCEPT !.messages = <<"INFO", "FATAL">>]
Preview == [Result EXCEPT !.preview = TRUE]
Shapes == {
    Result, Several, Fatal, Preview,
    [Empty EXCEPT !.eventish = TRUE],                        \* a flat event
    [Empty EXCEPT !.messages = <<"INFO", "untyped">>],       \* a control line
    [Result EXCEPT !.messages = <<"ERROR">>],                \* both in one
    [Preview EXCEPT !.messages = <<"ERROR">>],
    [Several EXCEPT !.result = "other", !.eventish = TRUE],
    [Result EXCEPT !.root = "other"] }                       \* an array

Line(d, id) == <<[doc |-> [d EXCEPT !.id = id], half |-> 1],
                 [doc |-> [d EXCEPT !.id = id], half |-> 2]>>

Separators == {<<Newline>>, <<Return, Newline>>, <<Newline, Newline>>, <<>>}

\* The documents of s, separated; the last one as complete as "cut" leaves it.
Body(s, separator, cut) ==
    LET whole == FlattenSeq([i \in DOMAIN s |-> Line(s[i], i) \o separator])
        n == Len(whole) - (CASE cut = "none" -> 0
                             [] cut = "newline" -> Len(separator)
                             [] cut = "half" -> Len(separator) + 1)
    IN  SubSeq(whole, 1, n)

Cuts == {"none", "newline", "half"}
Many == {<<a, b, c>> : a, b \in {Result, Several, Preview}, c \in {Result, Fatal}}

\* Lines with returns in front of, within and behind a document.
Spaced(d) ==
    LET line == Line(d, 1)
    IN  {<<Return, line[1], line[2], Newline>> \o Line(Result, 2),
         <<line[1], Return, line[2], Return, Return, Newline>> \o Line(Result, 2),
         <<Return, line[1], Return, line[2]>>, <<Return, Return, line[1], Return>>}

MCBodies ==
    {Body(<<>>, <<>>, "none"), <<Return, Newline>>, <<Newline>>} \cup
    {Body(<<a>>, s, c) : a \in Shapes, s \in Separators, c \in Cuts} \cup
    {Body(<<a, b>>, s, c) : a, b \in Shapes, s \in Separators, c \in Cuts} \cup
    {Body(m, <<Newline>>, c) : m \in Many, c \in Cuts} \cup
    UNION {Spaced(d) : d \in {Result, Several, Fatal}}

MCMaxRows == {0, 1, 2, 3}
MCRetries == {0, 1}
=============================================================================
