-------------------------- MODULE MCSearchRequest --------------------------
(***************************************************************************)
(* Texts with every character that means something to a form, to an SPL    *)
(* string or to NormalizeSearchQuery; limits around 0; secrets that differ *)
(* in every option.                                                        *)
(***************************************************************************)
EXTENDS SearchRequest

MCLower(piece) ==
    CASE piece \in {"Search", "SEARCH"} -> "search"
      [] piece \in {"Splunk", "splunk"} -> "splunk"
      [] piece = "ON" -> "on"
      [] piece = "TRUE" -> "true"
      [] piece = "FALSE" -> "false"
      [] piece = "Bearer" -> "bearer"
      [] OTHER -> piece

MCDecimal(n) == IF n = 1 THEN "1" ELSE "5"

MCCode == [ch \in {" ", "\n", "|", "\"", "\\", "&", "=", "+", "%", "*", ":", "/"} |->
    CASE ch = " " -> "20" [] ch = "\n" -> "0A" [] ch = "|" -> "7C" [] ch = "\"" -> "22"
      [] ch = "\\" -> "5C" [] ch = "&" -> "26" [] ch = "=" -> "3D" [] ch = "+" -> "2B"
      [] ch = "%" -> "25" [] ch = "*" -> "2A" [] ch = ":" -> "3A" [] ch = "/" -> "2F"]

S(url, username, token, token_type, insecure_tls) ==
    [url |-> url, username |-> username,
     password |-> IF username = None THEN None ELSE <<"pw">>,
     token |-> token, token_type |-> token_type, insecure_tls |-> insecure_tls]

MCSecrets == {
    S(None, <<"ann">>, None, None, None),
    S(<<" ", "https://a", "/", "/">>, <<"ann">>, <<>>, "Splunk", "TRUE"),
    S(<<"https://b", "/", "p", " ", "/", " ">>, None, <<"t1">>, "Bearer", "FALSE"),
    S(<<"/">>, <<"bob">>, <<"t2">>, "splunk", "ON"),
    S(<<>>, None, <<"t3">>, "", "no"),
    S(<<" ">>, <<"bob">>, None, "Bearer", "1") }

P(query, earliest, latest, max_rows, retries, timeout) ==
    [query |-> query, earliest |-> earliest, latest |-> latest,
     max_rows |-> max_rows, retries |-> retries, timeout |-> timeout]

Queries == { None, <<>>, <<" ", "\n">>, <<"*">>, <<" ", "|", "tstats">>,
    <<"search", " ", "x">>, <<"SEARCH", " ", "x", " ">>, <<"search", "x">>,
    <<"search", " ">>, <<"search", "\n", "x">>, <<"x", "&", "count", "=", "5">>,
    <<"a", "=", "\"", "100", "%", "20", "+", "\\", "\"">> }
Times == { None, <<"-1h">>, <<"now", "&", "latest_time", "=", "0">>, <<"+", "1h">>,
           <<"%", "3D">>, <<>> }
MaxRows == {None, -1, 0, 1, 5}
Retries == {None, -1, 0, 1, 127}
Timeouts == {None, -1, 0, 1, 127}

MCParameters ==
    {P(q, e, None, 5, None, None) : q \in Queries, e \in Times} \cup
    {P(None, e, l, 0, 1, 1) : e, l \in Times} \cup
    {P(<<"x">>, None, None, m, r, t) : m \in MaxRows, r \in Retries, t \in Timeouts}

Characters == {"a", "\"", "\\", " "}
MCIndexes == UNION {[1..n -> Characters] : n \in 1..3} \cup {<<"|", "a">>, <<"\\", "\"", "\\", "\\">>}
=============================================================================
