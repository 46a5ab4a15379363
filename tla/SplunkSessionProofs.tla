------------------------- MODULE SplunkSessionProofs -------------------------
(***************************************************************************)
(* Proofs about secrets and the attached catalog, for any secrets, index   *)
(* names and answers of Splunk.                                            *)
(***************************************************************************)
EXTENDS SplunkSession, SequenceTheorems, WellFoundedInduction, TLAPS

-----------------------------------------------------------------------------
(***************************************************************************)
(* The loop over "seen", and LookupEntry.                                  *)
(***************************************************************************)
\* A set that contains 0 and every successor of its members contains all
\* natural numbers: otherwise a least one would be missing.
LEMMA Induction ==
  ASSUME NEW S, 0 \in S, \A n \in Nat : n \in S => n + 1 \in S
  PROVE  \A n \in Nat : n \in S
  <1> DEFINE R == OpToRel(<, Nat)
             T == Nat \ S
  <1>1. SUFFICES ASSUME T # {} PROVE FALSE
    OBVIOUS
  <1>2. IsWellFoundedOn(R, Nat)
    BY NatLessThanWellFounded
  <1>3. PICK x \in T : \A y \in T : ~ (<<y, x>> \in R)
    <2> HIDE DEF R, T
    <2>1. T \subseteq Nat
      BY DEF T
    <2> QED
      BY <1>1, <1>2, <2>1, WFMin
  <1>4. x \in Nat /\ x # 0 /\ x \notin S
    OBVIOUS
  <1>5. x - 1 \in Nat /\ x - 1 + 1 = x /\ x - 1 < x
    BY <1>4
  <1>6. x - 1 \in S
    <2>1. <<x - 1, x>> \in R <=> x - 1 < x
      BY <1>4, <1>5 DEF OpToRel
    <2> QED
      BY <2>1, <1>3, <1>5
  <1> QED
    BY <1>4, <1>5, <1>6

\* FoldLeft takes the last element first.
LEMMA MaxOfLast ==
  ASSUME NEW k \in Nat, NEW s, s \subseteq 1..k, k \in s
  PROVE  Max(s) = k
  <1>1. k \in s /\ \A y \in s : k >= y
    OBVIOUS
  <1>2. \A x : x \in s /\ (\A y \in s : x >= y) => x = k
    OBVIOUS
  <1> QED
    BY <1>1, <1>2 DEF Max

\* What the loop over "seen" does with a name.
Taking(result, name, taken) ==
    IF name \notin taken \/ Contains(result, name) THEN result
    ELSE Append(result, name)

\* The loop takes the names one by one: t[k] is "result" after k of them.
TakesOneByOne(t, names, n, taken) ==
    /\ t[0] = <<>>
    /\ \A k \in 1..n : t[k] = Taking(t[k - 1], names[k], taken)
    /\ Distinct(names, taken) = t[n]

\* The names are taken one by one, in their order.
LEMMA DistinctRun ==
  ASSUME NEW n \in Nat, NEW names, NEW taken, DOMAIN names = 1..n
  PROVE  \E t : TakesOneByOne(t, names, n, taken)
  <1> DEFINE Base == <<>>
             Value(f, s) == IF s = {} THEN Base
                            ELSE Taking(f[s \ {Max(s)}], names[Max(s)], taken)
             Fold(f, k) == f = [s \in SUBSET (1..k) |-> Value(f, s)]
             Good == {k \in Nat : \E f : Fold(f, k)}
  <1>1. 0 \in Good
    <2>1. 1..0 = {}
      OBVIOUS
    <2>2. Fold([s \in SUBSET (1..0) |-> Base], 0)
      BY <2>1
    <2> QED
      BY <2>2
  <1>2. ASSUME NEW k \in Nat, k \in Good PROVE k + 1 \in Good
    <2>1. PICK f : Fold(f, k)
      BY <1>2
    <2> DEFINE g == [s \in SUBSET (1..(k + 1)) |->
                        IF k + 1 \in s THEN Taking(f[s \ {k + 1}], names[k + 1], taken)
                        ELSE f[s]]
    <2>2. ASSUME NEW s \in SUBSET (1..(k + 1)) PROVE g[s] = Value(g, s)
      <3>1. CASE s = {}
        <4>1. s \in SUBSET (1..k) /\ k + 1 \notin s
          BY <3>1
        <4> QED
          BY <4>1, <2>1, <3>1
      <3>2. CASE k + 1 \in s
        <4>1. Max(s) = k + 1
          <5>1. k + 1 \in Nat /\ s \subseteq 1..(k + 1)
            OBVIOUS
          <5> HIDE DEF g, Good, Fold, Value
          <5> QED
            BY <3>2, <5>1, MaxOfLast
        <4>2. /\ s \ {k + 1} \in SUBSET (1..k)
              /\ s \ {k + 1} \in SUBSET (1..(k + 1))
              /\ k + 1 \notin s \ {k + 1}
          OBVIOUS
        <4>3. g[s \ {k + 1}] = f[s \ {k + 1}]
          BY <4>2
        <4> QED
          BY <3>2, <4>1, <4>3
      <3>3. CASE k + 1 \notin s /\ s # {}
        <4>1. s \in SUBSET (1..k)
          BY <3>3
        <4>2. s \ {Max(s)} \in SUBSET (1..(k + 1)) /\ k + 1 \notin s \ {Max(s)}
          BY <3>3, <4>1
        <4>3. g[s] = f[s] /\ g[s \ {Max(s)}] = f[s \ {Max(s)}]
          BY <4>2, <3>3
        <4>4. f[s] = Value(f, s)
          BY <4>1, <2>1
        <4> QED
          BY <3>3, <4>3, <4>4
      <3> QED
        BY <3>1, <3>2, <3>3
    <2>3. Fold(g, k + 1)
      <3>1. g = [s \in SUBSET (1..(k + 1)) |-> g[s]]
        OBVIOUS
      <3> HIDE DEF g, Value
      <3>2. g = [s \in SUBSET (1..(k + 1)) |-> Value(g, s)]
        BY <2>2, <3>1, Zenon
      <3> QED
        BY <3>2
    <2> HIDE DEF g, Fold
    <2> QED
      BY <2>3, <1>2
  <1>3. n \in Good
    <2> HIDE DEF Good
    <2> QED
      BY <1>1, <1>2, Induction
  <1> DEFINE iter == CHOOSE f : Fold(f, n)
  <1>4. Fold(iter, n)
    <2> HIDE DEF Fold
    <2>1. \E f : Fold(f, n)
      BY <1>3
    <2> QED
      BY <2>1
  <1>5. Distinct(names, taken) = iter[1..n]
    BY DEF Distinct, Taking, FoldLeft, MapThenFoldSet
  <1> HIDE DEF iter
  <1> DEFINE t == [k \in 0..n |-> iter[1..k]]
  <1>6. t[0] = Base
    <2>1. 1..0 = {} /\ 1..0 \in SUBSET (1..n)
      OBVIOUS
    <2> QED
      BY <2>1, <1>4
  <1>7. ASSUME NEW k \in 1..n PROVE t[k] = Taking(t[k - 1], names[k], taken)
    <2>1. 1..k \in SUBSET (1..n)
      OBVIOUS
    <2>2. k \in Nat /\ k \in 1..k
      OBVIOUS
    <2>3. Max(1..k) = k
      <3> HIDE DEF t, Good, Fold, Value
      <3> QED
        BY <2>2, MaxOfLast
    <2>4. (1..k) \ {k} = 1..(k - 1)
      OBVIOUS
    <2>5. iter[1..k] = Taking(iter[1..(k - 1)], names[k], taken)
      BY <1>4, <2>1, <2>2, <2>3, <2>4
    <2>6. k \in 0..n /\ k - 1 \in 0..n
      OBVIOUS
    <2> QED
      BY <2>5, <2>6
  <1>8. t[n] = Distinct(names, taken)
    BY <1>5
  <1> HIDE DEF t
  <1> QED
    BY <1>6, <1>7, <1>8 DEF TakesOneByOne

\* A set of numbers up to n has a least member.
LEMMA MinIsIn ==
  ASSUME NEW n \in Nat, NEW I, I \subseteq 1..n, I # {}
  PROVE  Min(I) \in I /\ \A i \in I : Min(I) <= i
  <1> DEFINE Good == {k \in Nat : \A T \in SUBSET ((n - k)..n) :
                                    T # {} => \E x \in T : \A y \in T : x <= y}
  <1>1. 0 \in Good
    <2>1. ASSUME NEW T \in SUBSET ((n - 0)..n), T # {}
          PROVE  \E x \in T : \A y \in T : x <= y
      <3>1. PICK x \in T : TRUE
        BY <2>1
      <3>2. \A y \in T : y = n /\ n <= y
        OBVIOUS
      <3>3. \A y \in T : x <= y
        BY <3>2
      <3> QED
        BY <3>3
    <2> QED
      BY <2>1
  <1>2. ASSUME NEW k \in Nat, k \in Good PROVE k + 1 \in Good
    <2>1. SUFFICES ASSUME NEW T \in SUBSET ((n - (k + 1))..n), T # {}
                   PROVE  \E x \in T : \A y \in T : x <= y
      OBVIOUS
    <2>2. CASE n - (k + 1) \in T
      BY <2>2
    <2>3. CASE n - (k + 1) \notin T
      <3>1. T \in SUBSET ((n - k)..n)
        BY <2>3
      <3> QED
        BY <1>2, <2>1, <3>1
    <2> QED
      BY <2>2, <2>3
  <1>3. n \in Good
    <2> HIDE DEF Good
    <2> QED
      BY <1>1, <1>2, Induction
  <1>4. I \in SUBSET ((n - n)..n)
    OBVIOUS
  <1>5. \E x \in I : \A y \in I : x <= y
    BY <1>3, <1>4
  <1> QED
    BY <1>5 DEF Min

\* The tables are the taken ones of the first n names, each once, in the order
\* in which they are first mentioned: first[i] is where tables[i] is.
Firsts(tables, names, n, first) ==
    /\ first \in [1..Len(tables) -> 1..n]
    /\ \A i \in 1..Len(tables) :
          /\ names[first[i]] = tables[i]
          /\ \A j \in 1..(first[i] - 1) : names[j] # tables[i]
    /\ \A i, j \in 1..Len(tables) : i < j => first[i] < first[j]

AllTaken(tables, names, n, taken) ==
    \A k \in 1..n : names[k] \in taken =>
        \E i \in 1..Len(tables) : tables[i] = names[k]

AreDistinct(tables, names, n, taken) ==
    /\ tables \in Seq(taken)
    /\ \E first : Firsts(tables, names, n, first)
    /\ AllTaken(tables, names, n, taken)

\* A name more is taken at the end, unless it is there or is none to take.
LEMMA TakingKeeps ==
  ASSUME NEW k \in Nat, NEW names, NEW taken, NEW tables,
         AreDistinct(tables, names, k, taken)
  PROVE  AreDistinct(Taking(tables, names[k + 1], taken), names, k + 1, taken)
  <1> DEFINE name == names[k + 1]
             n == Len(tables)
  <1>1. tables \in Seq(taken) /\ n \in Nat
    BY DEF AreDistinct
  <1>2. PICK first : Firsts(tables, names, k, first)
    BY DEF AreDistinct
  <1>3. AllTaken(tables, names, k, taken)
    BY DEF AreDistinct
  <1>4. k + 1 \in Nat /\ 1..k \subseteq 1..(k + 1) /\ k + 1 \in 1..(k + 1)
    OBVIOUS
  <1>5. CASE name \notin taken \/ Contains(tables, name)
    <2>1. Taking(tables, name, taken) = tables
      BY <1>5 DEF Taking
    <2>2. Firsts(tables, names, k + 1, first)
      BY <1>2, <1>4 DEF Firsts
    <2>3. AllTaken(tables, names, k + 1, taken)
      BY <1>3, <1>5 DEF AllTaken, Contains
    <2> QED
      BY <1>1, <2>1, <2>2, <2>3 DEF AreDistinct
  <1>6. CASE name \in taken /\ ~ Contains(tables, name)
    <2> DEFINE more == Append(tables, name)
               place == [i \in 1..(n + 1) |-> IF i = n + 1 THEN k + 1 ELSE first[i]]
    <2>1. Taking(tables, name, taken) = more
      BY <1>6 DEF Taking
    <2>2. /\ more \in Seq(taken) /\ Len(more) = n + 1
          /\ more[n + 1] = name
          /\ \A i \in 1..n : more[i] = tables[i]
      BY <1>1, <1>6
    <2>3. \A i \in 1..n : first[i] \in 1..k /\ place[i] = first[i] /\ i # n + 1
      BY <1>1, <1>2 DEF Firsts
    <2>4. place[n + 1] = k + 1 /\ n + 1 \in 1..(n + 1)
      BY <1>1
    <2>5. Firsts(more, names, k + 1, place)
      <3>1. place \in [1..Len(more) -> 1..(k + 1)]
        <4>1. \A i \in 1..(n + 1) : i = n + 1 \/ i \in 1..n
          BY <1>1
        <4>2. \A i \in 1..(n + 1) : place[i] \in 1..(k + 1)
          <5> HIDE DEF place
          <5> QED
            BY <1>4, <2>3, <2>4, <4>1
        <4> QED
          BY <2>2, <4>2
      <3>2. ASSUME NEW i \in 1..Len(more)
            PROVE  /\ names[place[i]] = more[i]
                   /\ \A j \in 1..(place[i] - 1) : names[j] # more[i]
        <4>1. CASE i \in 1..n
          <5>1. place[i] = first[i] /\ more[i] = tables[i]
            BY <2>2, <2>3, <4>1
          <5> HIDE DEF place, more
          <5> QED
            BY <1>2, <4>1, <5>1 DEF Firsts
        <4>2. CASE i = n + 1
          <5>1. names[place[i]] = more[i] /\ place[i] - 1 = k
            BY <2>2, <2>4, <4>2
          <5>2. ASSUME NEW j \in 1..k PROVE names[j] # name
            <6>1. \A i2 \in 1..n : tables[i2] # name
              BY <1>6 DEF Contains
            <6> QED
              BY <1>3, <1>6, <6>1 DEF AllTaken
          <5>3. more[i] = name
            BY <2>2, <4>2
          <5> HIDE DEF place, more, name
          <5> QED
            BY <5>1, <5>2, <5>3
        <4> QED
          BY <1>1, <2>2, <4>1, <4>2
      <3>3. ASSUME NEW i \in 1..Len(more), NEW j \in 1..Len(more), i < j
            PROVE  place[i] < place[j]
        <4>1. i \in 1..n
          BY <1>1, <2>2, <3>3
        <4>2. CASE j = n + 1
          <5> HIDE DEF place, more
          <5>1. first[i] < k + 1
            BY <2>3, <4>1
          <5>2. place[i] = first[i] /\ place[j] = k + 1
            BY <2>3, <2>4, <4>1, <4>2
          <5> QED
            BY <5>1, <5>2
        <4>3. CASE j \in 1..n
          BY <1>2, <2>3, <3>3, <4>1, <4>3 DEF Firsts
        <4> QED
          BY <1>1, <2>2, <4>2, <4>3
      <3> HIDE DEF place, more
      <3> QED
        BY <3>1, <3>2, <3>3 DEF Firsts
    <2>6. AllTaken(more, names, k + 1, taken)
      <3> SUFFICES ASSUME NEW m \in 1..(k + 1), names[m] \in taken
                   PROVE  \E i \in 1..Len(more) : more[i] = names[m]
        BY DEF AllTaken
      <3>1. CASE m = k + 1
        BY <2>2, <2>4, <3>1
      <3>2. CASE m \in 1..k
        <4>1. PICK i \in 1..n : tables[i] = names[m]
          BY <1>3, <3>2 DEF AllTaken
        <4>2. i \in 1..Len(more)
          BY <1>1, <2>2
        <4> QED
          BY <2>2, <4>1, <4>2
      <3> QED
        BY <3>1, <3>2
    <2> HIDE DEF place, more
    <2> QED
      BY <2>1, <2>2, <2>5, <2>6 DEF AreDistinct
  <1> QED
    BY <1>5, <1>6

\* The loop over "seen" returns the names it takes, each once, by first
\* mention.
LEMMA DistinctIs ==
  ASSUME NEW S, NEW names \in Seq(S), NEW taken
  PROVE  AreDistinct(Distinct(names, taken), names, Len(names), taken)
  <1> DEFINE n == Len(names)
  <1>1. n \in Nat /\ DOMAIN names = 1..n
    OBVIOUS
  <1>2. PICK t : TakesOneByOne(t, names, n, taken)
    BY <1>1, DistinctRun
  <1> DEFINE Good == {k \in Nat : k <= n => AreDistinct(t[k], names, k, taken)}
  <1>3. 0 \in Good
    <2>1. <<>> \in Seq(taken) /\ Len(<<>>) = 0 /\ 1..0 = {}
      OBVIOUS
    <2>2. Firsts(<<>>, names, 0, [i \in {} |-> 0])
      BY <2>1 DEF Firsts
    <2>3. AllTaken(<<>>, names, 0, taken)
      BY <2>1 DEF AllTaken
    <2>4. AreDistinct(<<>>, names, 0, taken)
      BY <2>1, <2>2, <2>3 DEF AreDistinct
    <2> QED
      BY <1>2, <2>4 DEF TakesOneByOne
  <1>4. ASSUME NEW k \in Nat, k \in Good PROVE k + 1 \in Good
    <2>1. SUFFICES ASSUME k + 1 <= n
                   PROVE  AreDistinct(t[k + 1], names, k + 1, taken)
      OBVIOUS
    <2>2. AreDistinct(t[k], names, k, taken)
      BY <1>1, <1>4, <2>1
    <2>3. k + 1 \in 1..n /\ k + 1 - 1 = k
      BY <1>1, <2>1
    <2>4. t[k + 1] = Taking(t[k], names[k + 1], taken)
      <3>1. t[k + 1] = Taking(t[k + 1 - 1], names[k + 1], taken)
        BY <1>2, <2>3 DEF TakesOneByOne
      <3> QED
        BY <2>3, <3>1
    <2> QED
      BY <2>2, <2>4, TakingKeeps
  <1>5. n \in Good
    <2> HIDE DEF Good, n
    <2> QED
      BY <1>1, <1>3, <1>4, Induction
  <1>6. AreDistinct(t[n], names, n, taken)
    BY <1>1, <1>5
  <1> QED
    BY <1>2, <1>6 DEF TakesOneByOne

\* A list of names of which every one is taken stands for its proper names.
LEMMA OfNamesOnly ==
  ASSUME NEW names \in Seq(NamesGiven), NEW tables,
         \A i \in 1..Len(names) : names[i] \in Names,
         AreDistinct(tables, names, Len(names), NamesGiven)
  PROVE  AreDistinct(tables, names, Len(names), Names)
  <1>1. PICK first : Firsts(tables, names, Len(names), first)
    BY DEF AreDistinct
  <1>2. tables \in Seq(NamesGiven) /\ Len(tables) \in Nat
    BY DEF AreDistinct
  <1>3. \A i \in 1..Len(tables) : tables[i] \in Names
    BY <1>1 DEF Firsts
  <1>4. tables = [i \in 1..Len(tables) |-> tables[i]]
    BY <1>2
  <1>5. tables \in Seq(Names)
    BY <1>2, <1>3, <1>4, IsASeq
  <1>6. AllTaken(tables, names, Len(names), NamesGiven)
    BY DEF AreDistinct
  <1>7. AllTaken(tables, names, Len(names), Names)
    BY <1>6 DEF AllTaken, NamesGiven
  <1> QED
    BY <1>1, <1>5, <1>7 DEF AreDistinct

\* Both ways ATTACH makes the tables of the names it has.
LEMMA ExplicitIs ==
  ASSUME NEW names \in IndexLists, AcceptsExplicit(names)
  PROVE  AreDistinct(Explicit(names), names, Len(names), Names)
  <1>1. names \in Seq(NamesGiven)
    BY IndexListsAssumption
  <1>2. \A i \in 1..Len(names) : names[i] \in Names
    BY DEF AcceptsExplicit, IsName
  <1>3. AreDistinct(Explicit(names), names, Len(names), NamesGiven)
    BY <1>1, DistinctIs DEF Explicit
  <1> QED
    BY <1>1, <1>2, <1>3, OfNamesOnly

\* The tables of a discovery are the index names that were answered.
LEMMA DiscoveredIs ==
  ASSUME NEW names \in DiscoveryAnswers
  PROVE  AreDistinct(Discovered(names), names, Len(names), Names)
  BY DiscoveryAssumption, DistinctIs DEF Discovered

\* LookupEntry finds the very name, else one that differs in case, else none.
LEMMA LookupFinds ==
  ASSUME NEW tables \in Seq(Names), NEW name
  PROVE  /\ Contains(tables, name) => LookupEntry(tables, name) = name
         /\ (\E t \in ToSet(tables) : CIEquals(t, name)) =>
               /\ LookupEntry(tables, name) # None
               /\ CIEquals(LookupEntry(tables, name), name)
         /\ (\A t \in ToSet(tables) : ~ CIEquals(t, name)) =>
               LookupEntry(tables, name) = None
  <1> DEFINE I == {i \in 1..Len(tables) : CIEquals(tables[i], name)}
             alike == IF I # {} THEN Min(I) ELSE 0
  <1>1. LookupEntry(tables, name) =
          IF Contains(tables, name) THEN name
          ELSE IF alike # 0 THEN tables[alike] ELSE None
    BY DEF LookupEntry, SelectInSeq
  <1>2. Len(tables) \in Nat /\ DOMAIN tables = 1..Len(tables)
    OBVIOUS
  <1>3. I # {} => Min(I) \in I
    <2>1. I \subseteq 1..Len(tables)
      OBVIOUS
    <2> HIDE DEF I
    <2> QED
      BY <1>2, <2>1, MinIsIn
  <1>4. \A i \in 1..Len(tables) : tables[i] \in Names /\ tables[i] \in ToSet(tables)
    BY <1>2 DEF ToSet
  <1>5. \A t \in ToSet(tables) : \E i \in 1..Len(tables) : tables[i] = t
    BY <1>2 DEF ToSet
  <1>6. None \notin Names
    BY NamesAssumption
  <1>7. (\E t \in ToSet(tables) : CIEquals(t, name)) => I # {}
    BY <1>5
  <1>8. CASE Contains(tables, name)
    <2>1. PICK i \in 1..Len(tables) : tables[i] = name
      BY <1>8 DEF Contains
    <2>2. name \in Names /\ name \in ToSet(tables) /\ CIEquals(name, name)
      BY <1>4, <2>1 DEF CIEquals
    <2>3. LookupEntry(tables, name) = name
      BY <1>1, <1>8
    <2> QED
      BY <1>6, <2>2, <2>3
  <1>9. CASE ~ Contains(tables, name) /\ I # {}
    <2>1. alike \in I /\ alike # 0
      BY <1>3, <1>9
    <2>2. LookupEntry(tables, name) = tables[alike]
      BY <1>1, <1>9, <2>1
    <2>3. /\ tables[alike] \in Names /\ tables[alike] \in ToSet(tables)
          /\ CIEquals(tables[alike], name)
      BY <1>4, <2>1
    <2> QED
      BY <1>6, <1>9, <2>2, <2>3
  <1>10. CASE ~ Contains(tables, name) /\ I = {}
    <2>1. LookupEntry(tables, name) = None
      BY <1>1, <1>10
    <2> QED
      BY <1>7, <1>10, <2>1
  <1> QED
    BY <1>8, <1>9, <1>10

-----------------------------------------------------------------------------
(***************************************************************************)
(* Secrets.                                                                *)
(***************************************************************************)

\* The catalog, and an ATTACH that is still waiting, are bound to the secret
\* the last ATTACH selected, a name and not the absence of one.
Pinned ==
    /\ catalog # None => catalog.secret = selected /\ selected \in SecretNames
    /\ asking # None => asking.pinned = selected /\ selected \in SecretNames
    /\ asking # None => catalog = None

\* Credentials in use were complete when they were looked up.
Complete ==
    /\ scan # None => Usable(scan.credentials.secret)
    /\ asking # None => Usable(asking.credentials.secret)

\* A statement that does not throw has found a usable secret under the name it
\* pins.
LEMMA Resolved ==
  ASSUME NEW name, Resolves(name)
  PROVE  /\ SelectedSecret(name) \in SecretNames
         /\ PinnedName(name) = SelectedSecret(name)
         /\ Credentials(name).name = SelectedSecret(name)
         /\ Usable(Credentials(name).secret)
  <1>1. SelectedSecret(name) \in SecretNames /\ Usable(secrets[SelectedSecret(name)])
    BY DEF Resolves
  <1>2. PinnedName(name) = SelectedSecret(name)
    BY DEF PinnedName, SelectedSecret
  <1>3. /\ Credentials(name).name = SelectedSecret(name)
        /\ Credentials(name).secret = secrets[SelectedSecret(name)]
    BY DEF Credentials
  <1> QED
    BY <1>1, <1>2, <1>3

\* Every step keeps both: ATTACH pins what it selects, the answer to discovery
\* keeps it, and nothing else touches it.
LEMMA PinnedStep == Pinned /\ [Next]_vars => Pinned'
  <1> SUFFICES ASSUME Pinned, [Next]_vars PROVE Pinned'
    OBVIOUS
  <1>1. CASE AttachExplicit
    <2>1. PICK name \in SecretNames \cup {Unnamed}, names \in IndexLists :
            /\ Resolves(name)
            /\ catalog' = [secret |-> PinnedName(name), tables |-> Explicit(names)]
            /\ selected' = SelectedSecret(name)
      BY <1>1 DEF AttachExplicit
    <2>2. asking = None /\ asking' = asking
      BY <1>1 DEF AttachExplicit
    <2>3. catalog'.secret = selected' /\ selected' \in SecretNames
      BY <2>1, Resolved
    <2> QED
      BY <2>2, <2>3 DEF Pinned
  <1>2. CASE AttachAsks
    <2>1. PICK name \in SecretNames \cup {Unnamed} :
            /\ Resolves(name)
            /\ asking' = [pinned |-> PinnedName(name), credentials |-> Credentials(name)]
            /\ selected' = SelectedSecret(name)
      BY <1>2 DEF AttachAsks
    <2>2. catalog = None /\ catalog' = catalog
      BY <1>2 DEF AttachAsks
    <2>3. asking'.pinned = selected' /\ selected' \in SecretNames
      BY <2>1, Resolved
    <2> QED
      BY <2>2, <2>3 DEF Pinned
  <1>3. CASE DiscoveryAnswered
    <2>1. /\ asking # None /\ asking' = None /\ selected' = selected
          /\ catalog'.secret = asking.pinned
      BY <1>3 DEF DiscoveryAnswered
    <2> QED
      BY <2>1 DEF Pinned
  <1>4. CASE DiscoveryFails \/ Detach
    BY <1>4 DEF DiscoveryFails, Detach, Pinned
  <1>5. CASE CreateSecret \/ DropSecret \/ BindTable \/ BindReader \/ DropScan
    BY <1>5 DEF CreateSecret, DropSecret, BindTable, BindReader, DropScan, Pinned
  <1>6. CASE UNCHANGED vars
    BY <1>6 DEF vars, Pinned
  <1> QED
    BY <1>1, <1>2, <1>3, <1>4, <1>5, <1>6 DEF Next

\* A scan is bound, and discovery asked for, with what was found and complete.
LEMMA CompleteStep == Complete /\ [Next]_vars => Complete'
  <1> SUFFICES ASSUME Complete, [Next]_vars PROVE Complete'
    OBVIOUS
  <1>1. CASE AttachAsks
    <2>1. PICK name \in SecretNames \cup {Unnamed} :
            /\ Resolves(name)
            /\ asking' = [pinned |-> PinnedName(name), credentials |-> Credentials(name)]
      BY <1>1 DEF AttachAsks
    <2>2. scan' = scan /\ asking'.credentials = Credentials(name)
      BY <1>1, <2>1 DEF AttachAsks
    <2> QED
      BY <2>1, <2>2, Resolved DEF Complete
  <1>2. CASE BindTable
    <2>1. Resolves(catalog.secret) /\ scan'.credentials = Credentials(catalog.secret)
      BY <1>2 DEF BindTable
    <2>2. asking' = asking
      BY <1>2 DEF BindTable
    <2> QED
      BY <2>1, <2>2, Resolved DEF Complete
  <1>3. CASE BindReader
    <2>1. PICK name \in SecretNames \cup {Unnamed} :
            Resolves(name) /\ scan'.credentials = Credentials(name)
      BY <1>3 DEF BindReader
    <2>2. asking' = asking
      BY <1>3 DEF BindReader
    <2> QED
      BY <2>1, <2>2, Resolved DEF Complete
  <1>4. CASE CreateSecret \/ DropSecret \/ AttachExplicit \/ Detach
    BY <1>4 DEF CreateSecret, DropSecret, AttachExplicit, Detach, Complete
  <1>5. CASE DiscoveryFails \/ DiscoveryAnswered \/ DropScan
    BY <1>5 DEF DiscoveryFails, DiscoveryAnswered, DropScan, Complete
  <1>6. CASE UNCHANGED vars
    BY <1>6 DEF vars, Complete
  <1> QED
    BY <1>1, <1>2, <1>3, <1>4, <1>5, <1>6 DEF Next

\* The tables are the names ATTACH was supplied with, each once, by first
\* mention; and the names supplied do not change while the catalog is there.
Supplied ==
    catalog # None => AreDistinct(catalog.tables, supplied, Len(supplied), Names)

\* Only the two ways to attach make tables, and both record their names.
LEMMA SuppliedStep == Pinned /\ Supplied /\ [Next]_vars => Supplied'
  <1> SUFFICES ASSUME Pinned, Supplied, [Next]_vars PROVE Supplied'
    OBVIOUS
  <1>1. CASE AttachExplicit
    <2>1. PICK name \in SecretNames \cup {Unnamed}, names \in IndexLists :
            /\ AcceptsExplicit(names)
            /\ catalog' = [secret |-> PinnedName(name), tables |-> Explicit(names)]
            /\ supplied' = names
      BY <1>1 DEF AttachExplicit
    <2>2. catalog'.tables = Explicit(names)
      BY <2>1
    <2>3. AreDistinct(catalog'.tables, supplied', Len(supplied'), Names)
      BY <2>1, <2>2, ExplicitIs
    <2> QED
      BY <2>3 DEF Supplied
  <1>2. CASE DiscoveryAnswered
    <2>1. PICK names \in DiscoveryAnswers :
            /\ catalog' = [secret |-> asking.pinned, tables |-> Discovered(names)]
            /\ supplied' = names
      BY <1>2 DEF DiscoveryAnswered
    <2>2. catalog'.tables = Discovered(names)
      BY <2>1
    <2>3. AreDistinct(catalog'.tables, supplied', Len(supplied'), Names)
      BY <2>1, <2>2, DiscoveredIs
    <2> QED
      BY <2>3 DEF Supplied
  <1>3. CASE Detach
    BY <1>3 DEF Detach, Supplied
  <1>4. CASE CreateSecret \/ DropSecret \/ AttachAsks \/ DiscoveryFails
    BY <1>4 DEF CreateSecret, DropSecret, AttachAsks, DiscoveryFails, Supplied
  <1>5. CASE BindTable \/ BindReader \/ DropScan
    BY <1>5 DEF BindTable, BindReader, DropScan, Supplied
  <1>6. CASE UNCHANGED vars
    BY <1>6 DEF vars, Supplied
  <1> QED
    BY <1>1, <1>2, <1>3, <1>4, <1>5, <1>6 DEF Next

\* What a statement finds is one of the secrets that were created.
LEMMA FoundSecret ==
  ASSUME secrets \in [SecretNames -> Secrets \cup {None}], NEW name, Resolves(name)
  PROVE  Credentials(name).secret \in Secrets
  BY DEF Resolves, Credentials

\* The variables keep their ranges; the tables' type is what Supplied says.
LEMMA TypeStep ==
  TypeOK /\ Pinned /\ Pinned' /\ Supplied' /\ [Next]_vars => TypeOK'
  <1> SUFFICES ASSUME TypeOK, Pinned, Pinned', Supplied', [Next]_vars PROVE TypeOK'
    OBVIOUS
  <1>1. secrets \in [SecretNames -> Secrets \cup {None}]
    BY DEF TypeOK
  <1>2. secrets' \in [SecretNames -> Secrets \cup {None}]
    BY <1>1 DEF Next, vars, CreateSecret, DropSecret, AttachExplicit, AttachAsks,
            DiscoveryFails, DiscoveryAnswered, Detach, BindTable, BindReader, DropScan
  <1>3. asking' = None \/ asking'.credentials.secret \in Secrets
    <2>1. CASE AttachAsks
      <3>1. PICK name \in SecretNames \cup {Unnamed} :
              /\ Resolves(name)
              /\ asking' = [pinned |-> PinnedName(name),
                            credentials |-> Credentials(name)]
        BY <2>1 DEF AttachAsks
      <3>2. asking'.credentials = Credentials(name)
        BY <3>1
      <3> QED
        BY <1>1, <3>1, <3>2, FoundSecret
    <2>2. CASE DiscoveryFails \/ DiscoveryAnswered
      BY <2>2 DEF DiscoveryFails, DiscoveryAnswered
    <2>3. CASE UNCHANGED asking
      BY <2>3 DEF TypeOK
    <2> QED
      BY <2>1, <2>2, <2>3 DEF Next, vars, CreateSecret, DropSecret, AttachExplicit,
         Detach, BindTable, BindReader, DropScan
  <1>4. scan' = None \/ scan'.credentials.secret \in Secrets
    <2>1. CASE BindTable
      <3>1. Resolves(catalog.secret) /\ scan'.credentials = Credentials(catalog.secret)
        BY <2>1 DEF BindTable
      <3> QED
        BY <1>1, <3>1, FoundSecret
    <2>2. CASE BindReader
      <3>1. PICK name \in SecretNames \cup {Unnamed} :
              Resolves(name) /\ scan'.credentials = Credentials(name)
        BY <2>2 DEF BindReader
      <3> QED
        BY <1>1, <3>1, FoundSecret
    <2>3. CASE DropScan
      BY <2>3 DEF DropScan
    <2>4. CASE UNCHANGED scan
      BY <2>4 DEF TypeOK
    <2> QED
      BY <2>1, <2>2, <2>3, <2>4 DEF Next, vars, CreateSecret, DropSecret,
         AttachExplicit, AttachAsks, DiscoveryFails, DiscoveryAnswered, Detach
  <1>5. catalog' # None => catalog'.tables \in Seq(Names)
    BY DEF Supplied, AreDistinct
  <1>6. catalog' # None => catalog'.secret \in SecretNames
    BY DEF Pinned
  <1>7. selected' \in SecretNames \cup {None}
    <2>1. CASE AttachExplicit \/ AttachAsks
      BY <2>1, Resolved DEF AttachExplicit, AttachAsks
    <2>2. CASE UNCHANGED selected
      BY <2>2 DEF TypeOK
    <2> QED
      BY <2>1, <2>2 DEF Next, vars, CreateSecret, DropSecret, DiscoveryFails,
         DiscoveryAnswered, Detach, BindTable, BindReader, DropScan
  <1>8. supplied' \in Seq(NamesGiven)
    <2>1. CASE AttachExplicit
      BY <2>1, IndexListsAssumption DEF AttachExplicit
    <2>2. CASE DiscoveryAnswered
      BY <2>2, DiscoveryAssumption DEF DiscoveryAnswered
    <2>3. CASE UNCHANGED supplied
      BY <2>3 DEF TypeOK
    <2> QED
      BY <2>1, <2>2, <2>3 DEF Next, vars, CreateSecret, DropSecret, AttachAsks,
         DiscoveryFails, Detach, BindTable, BindReader, DropScan
  <1> QED
    BY <1>2, <1>3, <1>4, <1>5, <1>6, <1>7, <1>8 DEF TypeOK

\* The inductive invariant: that TypeOK is kept takes Pinned (the secret the
\* tables ask for has a name) and Supplied (what the tables are).
Inductive == TypeOK /\ Pinned /\ Complete /\ Supplied

\* It holds in every state.
THEOREM SessionInductiveInvariant == Spec => []Inductive
  <1>1. Init => Inductive
    <2> SUFFICES ASSUME Init PROVE Inductive
      OBVIOUS
    <2>1. Pinned /\ Complete /\ Supplied
      BY DEF Init, Pinned, Complete, Supplied
    <2>2. secrets \in [SecretNames -> Secrets \cup {None}]
      BY DEF Init
    <2>3. supplied \in Seq(NamesGiven)
      <3>1. <<>> \in Seq(NamesGiven)
        OBVIOUS
      <3> QED
        BY <3>1 DEF Init
    <2>4. asking = None /\ catalog = None /\ scan = None /\ selected = None
      BY DEF Init
    <2>5. TypeOK
      BY <2>2, <2>3, <2>4 DEF TypeOK
    <2> QED
      BY <2>1, <2>5 DEF Inductive
  <1>2. Inductive /\ [Next]_vars => Inductive'
    <2>1. Inductive /\ [Next]_vars => Pinned' /\ Complete' /\ Supplied'
      BY PinnedStep, CompleteStep, SuppliedStep DEF Inductive
    <2>2. Inductive /\ [Next]_vars => TypeOK'
      BY <2>1, TypeStep DEF Inductive
    <2> QED
      BY <2>1, <2>2 DEF Inductive
  <1> QED
    BY <1>1, <1>2, PTL DEF Spec

\* Every variable stays in its range, whatever statements the session runs.
THEOREM SessionTypeCorrect == Spec => []TypeOK
  <1>1. Inductive => TypeOK
    BY DEF Inductive
  <1> QED
    BY <1>1, SessionInductiveInvariant, PTL

\* The tables of the catalog are the index names the ATTACH was given, or has
\* discovered, each once and in the order of their first mention.
THEOREM TablesAsSuppliedCorrect == Spec => []TablesAsSupplied
  <1>1. Inductive => TablesAsSupplied
    <2> SUFFICES ASSUME Inductive, catalog # None PROVE TablesAsSupplied
      BY DEF TablesAsSupplied
    <2> DEFINE tables == catalog.tables
               n == Len(tables)
               IsFirst(name, i) == /\ i \in 1..Len(supplied)
                                   /\ supplied[i] = name
                                   /\ \A j \in 1..(i - 1) : supplied[j] # name
               First(name) == CHOOSE i \in 1..Len(supplied) :
                                 /\ supplied[i] = name
                                 /\ \A j \in 1..(i - 1) : supplied[j] # name
    <2>1. supplied \in Seq(NamesGiven) /\ tables \in Seq(Names)
      BY DEF Inductive, TypeOK
    <2>2. /\ n \in Nat /\ Len(supplied) \in Nat
          /\ DOMAIN tables = 1..n /\ DOMAIN supplied = 1..Len(supplied)
      BY <2>1
    <2>3. AreDistinct(tables, supplied, Len(supplied), Names)
      BY DEF Inductive, Supplied
    <2>4. PICK first : Firsts(tables, supplied, Len(supplied), first)
      BY <2>3 DEF AreDistinct
    <2>5. \A i \in 1..n : IsFirst(tables[i], first[i])
      BY <2>4 DEF Firsts
    <2>6. ASSUME NEW i \in 1..n PROVE First(tables[i]) = first[i]
      <3> DEFINE f == First(tables[i])
                 g == first[i]
      <3>1. IsFirst(tables[i], g)
        BY <2>5
      <3>2. IsFirst(tables[i], f)
        <4>1. \E j \in 1..Len(supplied) :
                 /\ supplied[j] = tables[i]
                 /\ \A j2 \in 1..(j - 1) : supplied[j2] # tables[i]
          BY <3>1
        <4> QED
          BY <4>1
      <3> HIDE DEF f, g
      <3>3. f \in Nat /\ g \in Nat /\ f >= 1 /\ g >= 1
        BY <2>2, <3>1, <3>2
      <3>4. ~ (f < g) /\ ~ (g < f)
        BY <3>1, <3>2, <3>3
      <3>5. f = g
        BY <3>3, <3>4
      <3> QED
        BY <3>5 DEF f, g
    <2>7. \A i, j \in 1..n : i < j => First(tables[i]) < First(tables[j])
      <3> SUFFICES ASSUME NEW i \in 1..n, NEW j \in 1..n, i < j
                   PROVE  First(tables[i]) < First(tables[j])
        OBVIOUS
      <3>1. first[i] < first[j]
        BY <2>4 DEF Firsts
      <3>2. First(tables[i]) = first[i] /\ First(tables[j]) = first[j]
        BY <2>6
      <3> HIDE DEF First
      <3> QED
        BY <3>1, <3>2
    <2>8. ToSet(tables) = ToSet(supplied) \cap Names
      <3>1. ASSUME NEW t \in ToSet(tables) PROVE t \in ToSet(supplied) \cap Names
        <4>1. PICK i \in 1..n : tables[i] = t
          BY <2>2 DEF ToSet
        <4>2. t \in Names
          BY <2>1, <4>1
        <4>3. supplied[first[i]] = t /\ first[i] \in DOMAIN supplied
          BY <2>2, <2>5, <4>1
        <4> QED
          BY <4>2, <4>3 DEF ToSet
      <3>2. ASSUME NEW t \in ToSet(supplied), t \in Names PROVE t \in ToSet(tables)
        <4>1. PICK k \in 1..Len(supplied) : supplied[k] = t
          BY <2>2 DEF ToSet
        <4>2. PICK i \in 1..n : tables[i] = t
          BY <2>3, <3>2, <4>1 DEF AreDistinct, AllTaken
        <4> QED
          BY <2>2, <4>2 DEF ToSet
      <3> QED
        BY <3>1, <3>2
    <2> QED
      BY <2>7, <2>8 DEF TablesAsSupplied
  <1> QED
    BY <1>1, SessionInductiveInvariant, PTL

\* Every table is reached under its own name, also beside one whose name
\* differs in case only; another spelling leads to a table it equals but for
\* case, or, when there is none, to no table.
THEOREM TablesAreReachableCorrect == Spec => []TablesAreReachable
  <1>1. Inductive => TablesAreReachable
    <2> SUFFICES ASSUME Inductive, catalog # None PROVE TablesAreReachable
      BY DEF TablesAreReachable
    <2>1. catalog.tables \in Seq(Names)
      BY DEF Inductive, TypeOK
    <2>2. ASSUME NEW t \in ToSet(catalog.tables)
          PROVE  LookupEntry(catalog.tables, t) = t
      <3>1. Contains(catalog.tables, t)
        BY <2>1 DEF ToSet, Contains
      <3> QED
        BY <2>1, <3>1, LookupFinds
    <2>3. ASSUME NEW name \in Names
          PROVE  IF \E t \in ToSet(catalog.tables) : CIEquals(t, name)
                 THEN /\ LookupEntry(catalog.tables, name) # None
                      /\ CIEquals(LookupEntry(catalog.tables, name), name)
                 ELSE LookupEntry(catalog.tables, name) = None
      BY <2>1, LookupFinds
    <2> QED
      BY <2>2, <2>3 DEF TablesAreReachable
  <1> QED
    BY <1>1, SessionInductiveInvariant, PTL

-----------------------------------------------------------------------------
\* Whatever secrets are created, replaced and dropped after an ATTACH, also
\* while it waits for Splunk, its tables are bound with the secret of the name
\* it selected, or not at all.
THEOREM SecretIsPinnedCorrect == Spec => SecretIsPinned
  <1>1. Pinned /\ BindTable => scan'.credentials.name = selected
    <2> SUFFICES ASSUME Pinned, BindTable
                 PROVE  scan'.credentials.name = selected
      OBVIOUS
    <2>1. /\ catalog # None /\ Resolves(catalog.secret)
          /\ scan'.credentials = Credentials(catalog.secret)
      BY DEF BindTable
    <2>2. catalog.secret = selected /\ selected \in SecretNames
      BY <2>1 DEF Pinned
    <2>3. SelectedSecret(selected) = selected
      BY <2>2, SecretNamesAssumption DEF SelectedSecret
    <2> QED
      BY <2>1, <2>2, <2>3, Resolved
  <1>2. Pinned => [BindTable => scan'.credentials.name = selected]_vars
    BY <1>1
  <1>3. Inductive => Pinned
    BY DEF Inductive
  <1> QED
    BY <1>2, <1>3, SessionInductiveInvariant, PTL DEF SecretIsPinned

\* No request is sent without complete credentials, however the secrets have
\* changed between ATTACH and bind.
THEOREM RequestsAreAuthenticatedCorrect == Spec => []RequestsAreAuthenticated
  <1>1. ASSUME NEW credentials, Usable(credentials.secret)
        PROVE  /\ Authorization(credentials) # "none"
               /\ Authorization(credentials) = "Basic" => credentials.secret.password
    BY <1>1 DEF Usable, HasBasicAuth, Authorization
  <1>2. Complete => RequestsAreAuthenticated
    BY <1>1 DEF Complete, RequestsAreAuthenticated
  <1>3. Inductive => Complete
    BY DEF Inductive
  <1> QED
    BY <1>2, <1>3, SessionInductiveInvariant, PTL
=============================================================================
