---------------------------- MODULE SearchRequest ----------------------------
(***************************************************************************)
(* From a statement to the request that is sent for it.  A statement is    *)
(* bound with its parameters, or the index of its table, and with the      *)
(* secret there is at that time; a prepared one is then executed any       *)
(* number of times, while the secret is replaced or dropped.               *)
(*                                                                         *)
(* A text is a sequence of pieces: characters, where one of them matters,  *)
(* and words.  Which secret is chosen, and which secrets are refused, is   *)
(* in module SplunkSession.                                                *)
(***************************************************************************)
EXTENDS Integers, SequencesExt

CONSTANTS
    Secrets,       \* the options of the secrets that may be created
    Parameters,    \* the named parameters a statement may state
    Indexes,       \* names of the catalog's tables, texts
    Lower(_),      \* StringUtil::Lower of a piece
    Decimal(_),    \* std::to_string, a piece
    Code,          \* the hexadecimal code of each character that needs one
    MaxBigint,     \* the greatest BIGINT, 2^63 - 1 in the program
    None           \* NULL, or there is no such thing

Text == Seq(STRING)
Bigint == (-MaxBigint - 1)..MaxBigint
Limits == 0..MaxBigint

Option == Text \cup {None}
Secret == [url : Option, username : Option, password : Option, token : Option,
           token_type : STRING \cup {None}, insecure_tls : STRING \cup {None}]
Parameter == [query : Option, earliest : Option, latest : Option,
              max_rows : Bigint \cup {None}, retries : Bigint \cup {None},
              timeout : Bigint \cup {None}]

ASSUME BigintAssumption == MaxBigint \in Nat /\ MaxBigint >= 60
ASSUME ParametersAssumption == Parameters \subseteq Parameter
ASSUME IndexesAssumption == Indexes \subseteq Text
ASSUME LowerAssumption ==
    /\ Lower("") = "" /\ Lower("index") = "index" /\ Lower("Bearer") = "bearer"
    /\ Lower("TRUE") = "true" /\ Lower("FALSE") = "false"
\* The pieces the program writes are strings, which TLA+ says and the provers
\* have to be told.
ASSUME WordsAssumption ==
    {"search", " ", "*", "=", "&", "earliest_time", "latest_time", "output_mode",
     "json", "count", "index", "\"", "\\", "-15m", "now", ":", "Bearer",
     "https://localhost:8089"} \subseteq STRING
\* No number is a character that means something to a form.
ASSUME DecimalAssumption ==
    \A n \in Limits : Decimal(n) \in STRING \ {"%", "&", "=", "+"}
\* A code stands for one character.
ASSUME CodeAssumption ==
    /\ {"%", "&", "=", "+"} \subseteq DOMAIN Code
    /\ Code \in [DOMAIN Code -> STRING]
    /\ \A ch, other \in DOMAIN Code : Code[ch] = Code[other] => ch = other
    /\ DOMAIN Code \subseteq STRING

VARIABLES
    secret,        \* the options of the secret in the secret manager, or None
    bind,          \* SplunkLogsBindData of the statement, or None
    client,        \* the client of the scan's state
    request,       \* the request sent last for the statement, or None
    statement      \* history: what the statement was bound with

vars == <<secret, bind, client, request, statement>>

OrElse(value, default) == IF value = None THEN default ELSE value

\* A secret that GetSplunkCredentials does not refuse: it has a token, or a
\* user name and a password.
HasCredentials(s) ==
    \/ OrElse(s.token, <<>>) # <<>>
    \/ OrElse(s.username, <<>>) # <<>> /\ OrElse(s.password, <<>>) # <<>>

ASSUME SecretsAssumption == Secrets \subseteq Secret /\ \A s \in Secrets : HasCredentials(s)

-----------------------------------------------------------------------------
(***************************************************************************)
(* Texts.                                                                  *)
(***************************************************************************)
IsSolid(piece) == piece \notin {" ", "\n", "\t"}
IsNoSlash(piece) == piece # "/"

\* StringUtil::Trim.
Trim(text) ==
    IF SelectInSeq(text, IsSolid) = 0 THEN <<>>
    ELSE SubSeq(text, SelectInSeq(text, IsSolid), SelectLastInSeq(text, IsSolid))

\* The text with other pieces in place of some of its characters.
Replaced(text, by) ==
    FoldLeft(LAMBDA result, piece :
                result \o (IF piece \in DOMAIN by THEN by[piece] ELSE <<piece>>),
             <<>>, text)

\* StringUtil::URLEncode.
URLEncode(text) == Replaced(text, [ch \in DOMAIN Code |-> <<"%", Code[ch]>>])

DefaultUrl == <<"https://localhost:8089">>

NormalizeUrl(raw) ==
    LET trimmed == Trim(raw)
        result == SubSeq(trimmed, 1, SelectLastInSeq(trimmed, IsNoSlash))
    IN  IF result = <<>> THEN DefaultUrl ELSE result

NormalizeSearchQuery(query) ==
    LET text == Trim(query)
    IN  CASE text = <<>> -> <<"search", " ", "*">>
          [] text # <<>> /\ text[1] = "|" -> text
          [] Len(text) > 1 /\ Lower(text[1]) = "search" /\ text[2] = " " -> text
          [] OTHER -> <<"search", " ">> \o text

\* Mutant: quotes are escaped, backslashes are not.
BuildIndexQueryUnescaped(name) ==
    <<"index", "=", "\"">>
    \o Replaced(name, [ch \in {"\""} |-> <<"\\", ch>>])
    \o <<"\"">>

BuildIndexQuery(name) ==
    <<"index", "=", "\"">>
    \o Replaced(name, [ch \in {"\\", "\""} |-> <<"\\", ch>>])
    \o <<"\"">>

\* Mutant: the times are not encoded.
BuildExportBodyPlain(b) ==
    <<"search", "=">> \o URLEncode(NormalizeSearchQuery(b.query))
    \o <<"&", "earliest_time", "=">> \o b.earliest
    \o <<"&", "latest_time", "=">> \o b.latest
    \o <<"&", "output_mode", "=", "json">>
    \o IF b.max_rows > 0 THEN <<"&", "count", "=", Decimal(b.max_rows)>> ELSE <<>>

BuildExportBody(b) ==
    <<"search", "=">> \o URLEncode(NormalizeSearchQuery(b.query))
    \o <<"&", "earliest_time", "=">> \o URLEncode(b.earliest)
    \o <<"&", "latest_time", "=">> \o URLEncode(b.latest)
    \o <<"&", "output_mode", "=", "json">>
    \o IF b.max_rows > 0 THEN <<"&", "count", "=", Decimal(b.max_rows)>> ELSE <<>>

-----------------------------------------------------------------------------
(***************************************************************************)
(* The client's configuration.                                             *)
(***************************************************************************)
DefaultClient ==
    [url |-> DefaultUrl, username |-> <<>>, password |-> <<>>, token |-> <<>>,
     token_type |-> "Bearer", insecure_tls |-> FALSE,
     timeout_seconds |-> 60, retries |-> 4]

\* The values of type BOOLEAN are "TRUE" and "FALSE".
ValueToBool(value) ==
    IF value \in {"TRUE", "FALSE"} THEN value = "TRUE"
    ELSE Lower(value) \in {"true", "1", "yes", "on"}

\* A client with what GetSplunkCredentials supplies, and the limits of a bind.
ClientOf(s, timeout_seconds, retries) ==
    [url |-> IF OrElse(s.url, <<>>) = <<>> THEN DefaultUrl ELSE s.url,
     username |-> OrElse(s.username, <<>>),
     password |-> OrElse(s.password, <<>>),
     token |-> OrElse(s.token, <<>>),
     token_type |-> IF OrElse(s.token_type, "") = "" THEN "Bearer" ELSE s.token_type,
     insecure_tls |-> s.insecure_tls # None /\ ValueToBool(s.insecure_tls),
     timeout_seconds |-> timeout_seconds, retries |-> retries]

\* Mutant: a field was added to the client and forgotten here.
CopyConfigToPartly(source, target) ==
    [target EXCEPT !.url = source.url, !.username = source.username,
                   !.password = source.password, !.token = source.token,
                   !.insecure_tls = source.insecure_tls,
                   !.timeout_seconds = source.timeout_seconds,
                   !.retries = source.retries]

CopyConfigTo(source, target) ==
    [target EXCEPT !.url = source.url, !.username = source.username,
                   !.password = source.password, !.token = source.token,
                   !.token_type = source.token_type,
                   !.insecure_tls = source.insecure_tls,
                   !.timeout_seconds = source.timeout_seconds,
                   !.retries = source.retries]

\* The Authorization header, as GetConnection and AddBrowserAuthHeaders set it.
Authorization(c) ==
    CASE c.token # <<>> ->
            [scheme |-> IF Lower(c.token_type) = "splunk" THEN "Splunk" ELSE "Bearer",
             with |-> c.token]
      [] c.token = <<>> /\ c.username # <<>> ->
            [scheme |-> "Basic", with |-> c.username \o <<":">> \o c.password]
      [] OTHER -> None

\* What the connection is set up with, and what is posted over it.
Request(c, body) ==
    [url |-> NormalizeUrl(c.url), authorization |-> Authorization(c),
     verify |-> ~c.insecure_tls, timeout |-> c.timeout_seconds,
     retries |-> c.retries, body |-> body]

-----------------------------------------------------------------------------
(***************************************************************************)
(* The statement.                                                          *)
(***************************************************************************)
Init ==
    /\ secret \in Secrets
    /\ bind = None
    /\ client = DefaultClient
    /\ request = None
    /\ statement = None

\* CREATE OR REPLACE SECRET, DROP SECRET.
ChangeSecret ==
    /\ secret' \in Secrets \cup {None}
    /\ UNCHANGED <<bind, client, request, statement>>

\* static_cast<uint64_t>.
Unsigned(n) == n % (2 * (MaxBigint + 1))

\* Mutant: no limit is refused.
AcceptsAnything(p) == TRUE

\* SplunkLogsBind throws on limits out of range.
Accepts(p) ==
    /\ OrElse(p.retries, 0) >= 0
    /\ OrElse(p.timeout, 1) >= 1
    /\ OrElse(p.max_rows, 0) >= 0

\* Mutant: a parameter that is 0 counts as one that is not given.
ReaderDataZeroIsDefault(p, s) ==
    [query |-> OrElse(p.query, <<"*">>),
     earliest |-> OrElse(p.earliest, <<"-15m">>),
     latest |-> OrElse(p.latest, <<"now">>),
     max_rows |-> OrElse(p.max_rows, 0),
     client |-> ClientOf(s, Unsigned(OrElse(p.timeout, 60)),
                         IF OrElse(p.retries, 0) = 0 THEN 4 ELSE Unsigned(p.retries))]

\* A parameter that is NULL is passed over.
ReaderData(p, s) ==
    [query |-> OrElse(p.query, <<"*">>),
     earliest |-> OrElse(p.earliest, <<"-15m">>),
     latest |-> OrElse(p.latest, <<"now">>),
     max_rows |-> OrElse(p.max_rows, 0),
     client |-> ClientOf(s, Unsigned(OrElse(p.timeout, 60)),
                         Unsigned(OrElse(p.retries, 4)))]

\* What a catalog table's scan is bound with.
TableData(index, s) ==
    [query |-> BuildIndexQuery(index), earliest |-> <<"-15m">>, latest |-> <<"now">>,
     max_rows |-> 0, client |-> ClientOf(s, 60, 4)]

\* A bind that throws, for its parameters or because there is no secret, leaves
\* no statement.
BindReader ==
    /\ bind = None /\ secret # None
    /\ \E p \in Parameters :
          /\ Accepts(p)
          /\ bind' = ReaderData(p, secret)
          /\ statement' = [parameters |-> p, index |-> None, secret |-> secret]
    /\ UNCHANGED <<secret, client, request>>

BindTable ==
    /\ bind = None /\ secret # None
    /\ \E index \in Indexes :
          /\ bind' = TableData(index, secret)
          /\ statement' = [parameters |-> None, index |-> index, secret |-> secret]
    /\ UNCHANGED <<secret, client, request>>

\* The statement is executed: a new state with a client of its own, which
\* StartExport and FetchBrowserResponse configure; the search is posted.
Execute ==
    /\ bind # None
    /\ client' = CopyConfigTo(bind.client, DefaultClient)
    /\ request' = Request(client', BuildExportBody(bind))
    /\ UNCHANGED <<secret, bind, statement>>

Next == ChangeSecret \/ BindReader \/ BindTable \/ Execute

Spec == Init /\ [][Next]_vars

-----------------------------------------------------------------------------
(***************************************************************************)
(* The other side: how a server reads a form, and Splunk a search string.  *)
(***************************************************************************)
IsCoded(piece) == \E ch \in DOMAIN Code : Code[ch] = piece
Coded(piece) == CHOOSE ch \in DOMAIN Code : Code[ch] = piece

\* A reader of forms: the fields it has read, the name and the value of the one
\* it is reading, whether it is at the value, and whether it has just read "%".
Reader(fields, name, value, in_value, percent) ==
    [fields |-> fields, name |-> name, value |-> value,
     in_value |-> in_value, percent |-> percent]

Put(f, piece) ==
    IF f.in_value
    THEN Reader(f.fields, f.name, Append(f.value, piece), TRUE, FALSE)
    ELSE Reader(f.fields, Append(f.name, piece), f.value, FALSE, FALSE)

ReadPiece(f, piece) ==
    CASE f.percent -> Put(f, IF IsCoded(piece) THEN Coded(piece) ELSE piece)
      [] ~f.percent /\ piece = "%" ->
            Reader(f.fields, f.name, f.value, f.in_value, TRUE)
      [] ~f.percent /\ piece = "&" ->
            Reader(Append(f.fields, <<f.name, f.value>>), <<>>, <<>>, FALSE, FALSE)
      [] ~f.percent /\ piece = "=" /\ ~f.in_value ->
            Reader(f.fields, f.name, f.value, TRUE, FALSE)
      [] OTHER -> Put(f, IF piece = "+" THEN " " ELSE piece)

\* The fields of a form, each a name and a value, percent-decoded.
FormFields(body) ==
    LET read == FoldLeft(ReadPiece, Reader(<<>>, <<>>, <<>>, FALSE, FALSE), body)
    IN  Append(read.fields, <<read.name, read.value>>)

\* A reader of SPL strings.
Quoted(text, escaped, quotes) == [text |-> text, escaped |-> escaped, quotes |-> quotes]

ReadQuoted(s, piece) ==
    CASE s.escaped -> Quoted(Append(s.text, piece), FALSE, s.quotes)
      [] ~s.escaped /\ piece = "\\" -> Quoted(s.text, TRUE, s.quotes)
      [] ~s.escaped /\ piece = "\"" -> Quoted(s.text, FALSE, s.quotes + 1)
      [] OTHER -> Quoted(Append(s.text, piece), FALSE, s.quotes)

\* What is between the quotes of an SPL string that ends where the text ends,
\* or None.
StringIn(text) ==
    LET read == FoldLeft(ReadQuoted, Quoted(<<>>, FALSE, 0), text)
    IN  IF /\ Head(text) = "\"" /\ Last(text) = "\""
           /\ read.quotes = 2 /\ ~read.escaped
        THEN read.text ELSE None

-----------------------------------------------------------------------------
Client == [url : Text, username : Text, password : Text, token : Text,
           token_type : STRING, insecure_tls : BOOLEAN,
           timeout_seconds : Limits \ {0}, retries : Limits]
Bind == [query : Text, earliest : Text, latest : Text, max_rows : Limits, client : Client]
Statement == [parameters : Parameters \cup {None}, index : Indexes \cup {None},
              secret : Secrets]

\* None is none of the things there may be.
ASSUME NoneAssumption ==
    /\ None \notin Text /\ None \notin Bigint /\ None \notin STRING
    /\ None \notin Secrets /\ None \notin Parameters
    /\ None \notin Bind /\ None \notin Statement

\* Every variable stays in its range; a limit is in the range of BIGINT and
\* not negative, so that no cast has changed it.
TypeOK ==
    /\ secret \in Secrets \cup {None}
    /\ bind \in Bind \cup {None}
    /\ client \in Client
    /\ statement \in Statement \cup {None}
    /\ statement = None <=> bind = None
    /\ request # None => /\ bind # None
                         /\ request.url \in Text /\ request.body \in Text
                         /\ request.verify \in BOOLEAN

\* The URL is what is left of the text without the blanks around it, and the
\* slashes at the end of that: given[n + 1] to given[e].
IsUrlOf(url, given) ==
    \E n \in 0..Len(given) : \E e \in n..Len(given) : \E k \in e..Len(given) :
        /\ \A i \in (1..n) \cup ((k + 1)..Len(given)) : ~IsSolid(given[i])
        /\ k > n => IsSolid(given[n + 1]) /\ IsSolid(given[k])
        /\ \A i \in (e + 1)..k : given[i] = "/"
        /\ e > n => given[e] # "/"
        /\ url = IF e > n THEN SubSeq(given, n + 1, e) ELSE DefaultUrl

\* Every execution of a statement goes where, as whom and with what
\* verification of certificates the secret said with which it was bound,
\* whatever has become of the secret since; no part of it is the default of a
\* client, or of another secret (CopyConfigTo names eight fields by hand).
RequestIsOfBoundSecret ==
    request # None =>
        LET s == statement.secret
            token == OrElse(s.token, <<>>)
        IN  /\ IsUrlOf(request.url, OrElse(s.url, <<>>))
            /\ request.authorization =
                  IF token # <<>>
                  THEN [scheme |-> IF s.token_type # None /\ Lower(s.token_type) = "splunk"
                                   THEN "Splunk" ELSE "Bearer",
                        with |-> token]
                  ELSE [scheme |-> "Basic", with |-> s.username \o <<":">> \o s.password]
            /\ ~request.verify <=> /\ s.insecure_tls # None
                                   /\ Lower(s.insecure_tls) \in {"true", "1", "yes", "on"}

\* The limits that are sent, and kept to, are those stated: a parameter that
\* is NULL is as one that is not given, and 0 is a limit of its own.
LimitsAreAsStated ==
    request # None =>
        LET p == IF statement.parameters # None THEN statement.parameters
                 ELSE [retries |-> None, timeout |-> None, max_rows |-> None]
            fields == FormFields(request.body)
            counts == {fields[i][2] : i \in {k \in DOMAIN fields : fields[k][1] = <<"count">>}}
        IN  /\ request.retries = OrElse(p.retries, 4)
            /\ request.timeout = OrElse(p.timeout, 60)
            /\ counts = IF OrElse(p.max_rows, 0) = 0 THEN {} ELSE {<<Decimal(p.max_rows)>>}

\* The server reads the form as it was meant: whatever query, earliest and
\* latest hold, each of them is one field, with the text it was given, and
\* adds no other.
FormIsReadAsMeant ==
    request # None =>
        LET fields == FormFields(request.body)
        IN  /\ fields[1] = << <<"search">>, NormalizeSearchQuery(bind.query)>>
            /\ fields[2] = << <<"earliest_time">>, bind.earliest>>
            /\ fields[3] = << <<"latest_time">>, bind.latest>>
            /\ fields[4] = << <<"output_mode">>, <<"json">> >>
            /\ Len(fields) > 4 => Len(fields) = 5 /\ fields[5][1] = <<"count">>

\* A catalog table reads its own index and nothing else, whatever quotes and
\* backslashes the name has ("Build a safe index restriction").
TableSearchesItsIndex ==
    request # None /\ statement.index # None =>
        LET search == FormFields(request.body)[1][2]
        IN  /\ SubSeq(search, 1, 4) = <<"search", " ", "index", "=">>
            /\ StringIn(SubSeq(search, 5, Len(search))) = statement.index

\* "Prepend `search ` unless the query already begins with a Splunk command:
\* an explicit `search`": the command is not itself searched for, whatever
\* blank it is followed by.
SearchIsNotRepeated ==
    request # None /\ statement.parameters # None =>
        LET query == Trim(OrElse(statement.parameters.query, <<>>))
            explicit == /\ Len(query) > 1
                        /\ Lower(query[1]) = "search" /\ ~IsSolid(query[2])
        IN  explicit => FormFields(request.body)[1][2] = query
=============================================================================
