--------------------------- MODULE MCSplunkSession ---------------------------
(***************************************************************************)
(* A session with two secret names, and secrets of every kind that         *)
(* GetSplunkCredentials tells apart.                                       *)
(***************************************************************************)
EXTENDS SplunkSession

CONSTANTS s1, s2

MCSecretOrder == <<s1, s2>>

Kind(type, token, username, password, scheme) ==
    [type |-> type, token |-> token, username |-> username,
     password |-> password, scheme |-> scheme]

MCSecrets == {
    Kind("splunk", TRUE, FALSE, FALSE, "Bearer"),
    Kind("splunk", FALSE, TRUE, TRUE, "Bearer"),
    Kind("splunk", FALSE, TRUE, FALSE, "Bearer"),     \* no password
    Kind("splunk", TRUE, TRUE, TRUE, "Splunk"),       \* the token wins
    Kind("splunk", TRUE, FALSE, FALSE, "Basic"),      \* no such scheme
    Kind("other", TRUE, FALSE, FALSE, "Bearer") }

MCNames == [word : {"main", "security"}, form : {"lower", "upper"}]
Name(w, f) == [word |-> w, form |-> f]

MCIndexLists == {
    <<>>,
    <<Name("main", "lower"), Name("security", "lower"), Name("main", "lower")>>,
    <<Name("main", "upper"), Name("main", "lower")>>,
    <<Name("main", "lower"), NoName>>,
    <<EmptyName>> }

MCDiscoveryAnswers == {
    <<Name("main", "lower"), NoName, Name("main", "upper"), EmptyName,
      Name("main", "lower")>>,
    <<Name("security", "upper")>> }
=============================================================================
