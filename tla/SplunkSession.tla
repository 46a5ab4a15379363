---------------------------- MODULE SplunkSession ----------------------------
(***************************************************************************)
(* What the statements of a session do with Splunk secrets and with an     *)
(* attached Splunk catalog: CREATE and DROP SECRET (DuckDB's own), ATTACH  *)
(* and DETACH, and binding a scan of a catalog table or of                 *)
(* read_splunk_logs.  A bound scan keeps the credentials it was bound      *)
(* with.  ATTACH may have to ask Splunk for the names of the indexes, and  *)
(* other connections go on changing secrets while it waits for the answer. *)
(*                                                                         *)
(* An index name is a record of a word and the form it is written in:      *)
(* two names differ in case when they have the same word.                  *)
(***************************************************************************)
EXTENDS Naturals, Sequences, SequencesExt

CONSTANTS
    SecretOrder,         \* the secrets' names, as AllSecrets enumerates them
    Secrets,             \* the secrets that may be created
    Names,               \* index names
    IndexLists,          \* values of the ATTACH option INDEXES
    DiscoveryAnswers,    \* what Splunk may answer to ListIndexes
    NoName,              \* NULL, or a JSON value that is no index name
    EmptyName,           \* the empty string
    Unnamed,             \* no secret is named in the statement
    None                 \* there is no such thing

SecretNames == ToSet(SecretOrder)
Secret == [type : {"splunk", "other"}, token : BOOLEAN, username : BOOLEAN,
           password : BOOLEAN, scheme : {"Bearer", "Splunk", "Basic"}]
NamesGiven == Names \cup {NoName, EmptyName}

ASSUME SecretNamesAssumption == {Unnamed, None} \cap SecretNames = {}
ASSUME NamesAssumption == {None, NoName, EmptyName} \cap Names = {}
ASSUME SecretsAssumption == Secrets \subseteq Secret
ASSUME IndexListsAssumption == IndexLists \subseteq Seq(NamesGiven)
ASSUME DiscoveryAssumption == DiscoveryAnswers \subseteq Seq(NamesGiven)

VARIABLES
    secrets,      \* the secret manager: a secret or None for each name
    asking,       \* credentials of the ATTACH that waits for Splunk, or None
    catalog,      \* the attached catalog, or None
    scan,         \* the scan bound last, or None
    (* history *)
    selected,     \* name of the secret the last ATTACH has selected
    supplied      \* index names the last ATTACH was given, or has discovered

vars == <<secrets, asking, catalog, scan, selected, supplied>>

Init ==
    /\ secrets = [n \in SecretNames |-> None]
    /\ asking = None
    /\ catalog = None
    /\ scan = None
    /\ selected = None
    /\ supplied = <<>>

-----------------------------------------------------------------------------
(***************************************************************************)
(* GetSplunkCredentials.                                                   *)
(***************************************************************************)
IsSplunk(n) == secrets[n] # None /\ secrets[n].type = "splunk"

\* The secret named in the statement, or the first one of type splunk.
SelectedSecret(name) ==
    IF name # Unnamed THEN name
    ELSE LET candidates == SelectSeq(SecretOrder, IsSplunk)
         IN  IF candidates = <<>> THEN None ELSE Head(candidates)

\* Mutant: a user name alone is enough.
HasUserName(secret) == secret.username

HasBasicAuth(secret) == secret.username /\ secret.password

Usable(secret) ==
    /\ secret.type = "splunk"
    /\ secret.token \/ HasBasicAuth(secret)
    /\ secret.scheme \in {"Bearer", "Splunk"}

\* The credentials are found and valid; otherwise the statement throws.
Resolves(name) ==
    LET n == SelectedSecret(name)
    IN  n \in SecretNames /\ secrets[n] # None /\ Usable(secrets[n])

Credentials(name) ==
    [name |-> SelectedSecret(name), secret |-> secrets[SelectedSecret(name)]]

\* The Authorization header of the requests sent with the credentials.
Authorization(credentials) ==
    IF credentials.secret.token THEN credentials.secret.scheme
    ELSE IF credentials.secret.username THEN "Basic"
    ELSE "none"

CreateSecret ==
    /\ \E n \in SecretNames, s \in Secrets :
          secrets' = [secrets EXCEPT ![n] = s]
    /\ UNCHANGED <<asking, catalog, scan, selected, supplied>>

DropSecret ==
    /\ \E n \in SecretNames :
          /\ secrets[n] # None
          /\ secrets' = [secrets EXCEPT ![n] = None]
    /\ UNCHANGED <<asking, catalog, scan, selected, supplied>>

-----------------------------------------------------------------------------
(***************************************************************************)
(* ATTACH.  An ATTACH that throws leaves everything as it was.             *)
(***************************************************************************)
IsName(name) == name \in Names

\* Mutant: a name is compared with the one before it only.
DistinctNeighbours(names, taken) ==
    FoldLeft(LAMBDA result, name :
                IF name \notin taken \/ (result # <<>> /\ Last(result) = name)
                THEN result ELSE Append(result, name),
             <<>>, names)

\* The loop over "seen": the first of equal names stays, among those taken.
Distinct(names, taken) ==
    FoldLeft(LAMBDA result, name :
                IF name \notin taken \/ Contains(result, name) THEN result
                ELSE Append(result, name),
             <<>>, names)

\* Mutant: NULL and the empty name are taken.
AcceptsAnything(names) == TRUE

\* ParseExplicitIndexes throws on a name it does not take.
AcceptsExplicit(names) == \A i \in 1..Len(names) : IsName(names[i])

\* ParseExplicitIndexes, when it has not thrown, has taken every name.
Explicit(names) == Distinct(names, NamesGiven)

\* ParseDiscoveredIndexes passes over what is no name.
Discovered(names) == Distinct(names, Names)

\* Mutant: the secret named in the statement is kept, not the one selected.
KeepStatedName(name) == name

\* The name the catalog's tables ask for when they are bound.
PinnedName(name) == IF name = Unnamed THEN SelectedSecret(name) ELSE name

\* ATTACH with INDEXES makes no request.
AttachExplicit ==
    /\ catalog = None
    /\ asking = None
    /\ \E name \in SecretNames \cup {Unnamed}, names \in IndexLists :
          /\ AcceptsExplicit(names)
          /\ Resolves(name)
          /\ catalog' = [secret |-> PinnedName(name), tables |-> Explicit(names)]
          /\ selected' = SelectedSecret(name)
          /\ supplied' = names
    /\ UNCHANGED <<secrets, asking, scan>>

\* ATTACH without INDEXES sends ListIndexes and waits.
AttachAsks ==
    /\ catalog = None
    /\ asking = None
    /\ \E name \in SecretNames \cup {Unnamed} :
          /\ Resolves(name)
          /\ asking' = [pinned |-> PinnedName(name), credentials |-> Credentials(name)]
          /\ selected' = SelectedSecret(name)
    /\ UNCHANGED <<secrets, catalog, scan, supplied>>

\* The request fails, or its answer holds no array of entries.
DiscoveryFails ==
    /\ asking # None
    /\ asking' = None
    /\ UNCHANGED <<secrets, catalog, scan, selected, supplied>>

DiscoveryAnswered ==
    /\ asking # None
    /\ \E names \in DiscoveryAnswers :
          /\ catalog' = [secret |-> asking.pinned, tables |-> Discovered(names)]
          /\ supplied' = names
    /\ asking' = None
    /\ UNCHANGED <<secrets, scan, selected>>

Detach ==
    /\ catalog # None
    /\ catalog' = None
    /\ UNCHANGED <<secrets, asking, scan, selected, supplied>>

-----------------------------------------------------------------------------
(***************************************************************************)
(* Binding.                                                                *)
(***************************************************************************)
CIEquals(a, b) == a.word = b.word

\* Mutant: names are compared without regard to case only.
LookupFold(tables, name) ==
    LET Alike(t) == CIEquals(t, name)
        alike == SelectInSeq(tables, Alike)
    IN  IF alike # 0 THEN tables[alike] ELSE None

\* LookupEntry: the table of that very name, else the first that differs from
\* it in case.
LookupEntry(tables, name) ==
    LET Alike(t) == CIEquals(t, name)
        alike == SelectInSeq(tables, Alike)
    IN  IF Contains(tables, name) THEN name
        ELSE IF alike # 0 THEN tables[alike]
        ELSE None

\* GetScanFunction of a catalog table: the secret is looked up again.
BindTable ==
    /\ catalog # None
    /\ \E name \in Names :
          /\ LookupEntry(catalog.tables, name) # None
          /\ Resolves(catalog.secret)
          /\ scan' = [of |-> "table", stated |-> name,
                      index |-> LookupEntry(catalog.tables, name),
                      credentials |-> Credentials(catalog.secret)]
    /\ UNCHANGED <<secrets, asking, catalog, selected, supplied>>

\* SplunkLogsBind with valid parameters.
BindReader ==
    /\ \E name \in SecretNames \cup {Unnamed} :
          /\ Resolves(name)
          /\ scan' = [of |-> "reader", stated |-> name, index |-> None,
                      credentials |-> Credentials(name)]
    /\ UNCHANGED <<secrets, asking, catalog, selected, supplied>>

\* The engine is done with the scan.
DropScan ==
    /\ scan # None
    /\ scan' = None
    /\ UNCHANGED <<secrets, asking, catalog, selected, supplied>>

Next == \/ CreateSecret \/ DropSecret
        \/ AttachExplicit \/ AttachAsks \/ DiscoveryFails \/ DiscoveryAnswered
        \/ Detach \/ BindTable \/ BindReader \/ DropScan

Spec == Init /\ [][Next]_vars

-----------------------------------------------------------------------------
\* Every variable stays in its range; a catalog's tables have proper names.
TypeOK ==
    /\ secrets \in [SecretNames -> Secrets \cup {None}]
    /\ asking = None \/ asking.credentials.secret \in Secrets
    /\ catalog = None \/ /\ catalog.tables \in Seq(Names)
                         /\ catalog.secret \in SecretNames
    /\ scan = None \/ scan.credentials.secret \in Secrets
    /\ selected \in SecretNames \cup {None}
    /\ supplied \in Seq(NamesGiven)

\* "Validate and pin the selected secret at attach time": whatever secrets are
\* created and dropped after an ATTACH, its tables are bound with the secret
\* of the name it has selected, or not at all.
SecretIsPinned ==
    [][BindTable => scan'.credentials.name = selected]_vars

\* "Duplicate names are removed in input order": the tables are the names the
\* ATTACH was supplied with, each once, in the order of their first mention.
TablesAsSupplied ==
    catalog # None =>
        LET tables == catalog.tables
            First(name) == CHOOSE i \in 1..Len(supplied) :
                              /\ supplied[i] = name
                              /\ \A j \in 1..(i - 1) : supplied[j] # name
        IN  /\ ToSet(tables) = ToSet(supplied) \cap Names
            /\ \A i, j \in 1..Len(tables) :
                  i < j => First(tables[i]) < First(tables[j])

\* Every table of the catalog can be reached under its own name, also beside
\* one whose name differs in case only, and a name that is spelled otherwise
\* leads to a table it equals but for case.
TablesAreReachable ==
    catalog # None =>
        /\ \A t \in ToSet(catalog.tables) : LookupEntry(catalog.tables, t) = t
        /\ \A name \in Names :
              LET found == LookupEntry(catalog.tables, name)
              IN  IF \E t \in ToSet(catalog.tables) : CIEquals(t, name)
                  THEN found # None /\ CIEquals(found, name)
                  ELSE found = None

\* No request is sent without complete credentials: a token, or both a user
\* name and a password, however the secret was changed before the bind.
RequestsAreAuthenticated ==
    \A credentials \in
        (IF scan = None THEN {} ELSE {scan.credentials}) \cup
        (IF asking = None THEN {} ELSE {asking.credentials}) :
        /\ Authorization(credentials) # "none"
        /\ Authorization(credentials) = "Basic" => credentials.secret.password
=============================================================================
