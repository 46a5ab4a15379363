-------------------------- MODULE ExportLinesProofs --------------------------
(***************************************************************************)
(* Proofs about the two readers of lines, for any bodies, row caps and     *)
(* retry budgets, and any way of cutting a body into chunks.               *)
(*                                                                         *)
(* What a fold computes for every sequence is proved by induction on the   *)
(* length of a prefix.  The induction is over a set of numbers, not over   *)
(* a predicate, so that the lemma of it is a first-order one.              *)
(***************************************************************************)
EXTENDS ExportLines, SequenceTheorems, WellFoundedInduction, TLAPS

\* A set that contains 0 and every successor of its members contains all
\* natural numbers: otherwise a least one would be missing.
LEMMA Induction ==
  ASSUME NEW S, 0 \in S, \A n \in Nat : n \in S => n + 1 \in S
  PROVE  \A n \in Nat : n \in S
  <1> DEFINE R == OpToRel(<, Nat)
             T == Nat \ S
  <1>1. SUFFICES ASSUME T # {} PROVE FALSE
    OBVIOUS
  <1>2. IsWellFoundedOn(R, Nat)
    BY NatLessThanWellFounded
  <1>3. PICK x \in T : \A y \in T : ~ (<<y, x>> \in R)
    <2> HIDE DEF R, T
    <2>1. T \subseteq Nat
      BY DEF T
    <2> QED
      BY <1>1, <1>2, <2>1, WFMin
  <1>4. x \in Nat /\ x # 0 /\ x \notin S
    OBVIOUS
  <1>5. x - 1 \in Nat /\ x - 1 + 1 = x /\ x - 1 < x
    BY <1>4
  <1>6. x - 1 \in S
    <2>1. <<x - 1, x>> \in R <=> x - 1 < x
      BY <1>4, <1>5 DEF OpToRel
    <2> QED
      BY <2>1, <1>3, <1>5
  <1> QED
    BY <1>4, <1>5, <1>6

-----------------------------------------------------------------------------
(***************************************************************************)
(* The two folds the model is built from, as runs over their argument.     *)
(***************************************************************************)
\* FoldLeft takes the last element first.
LEMMA MaxOfLast ==
  ASSUME NEW k \in Nat, NEW s, s \subseteq 1..k, k \in s
  PROVE  Max(s) = k
  <1>1. k \in s /\ \A y \in s : k >= y
    OBVIOUS
  <1>2. \A x : x \in s /\ (\A y \in s : x >= y) => x = k
    OBVIOUS
  <1> QED
    BY <1>1, <1>2 DEF Max

\* Lines adds the bytes one by one.
LEMMA LinesRun ==
  ASSUME NEW n \in Nat, NEW bytes, DOMAIN bytes = 1..n
  PROVE  \E t : /\ t[0] = << <<>> >>
                /\ \A k \in 1..n : t[k] = AddByte(t[k - 1], bytes[k])
                /\ Lines(bytes) = t[n]
  <1> DEFINE Base == << <<>> >>
             Value(f, s) == IF s = {} THEN Base
                            ELSE AddByte(f[s \ {Max(s)}], bytes[Max(s)])
             Fold(f, k) == f = [s \in SUBSET (1..k) |-> Value(f, s)]
             Good == {k \in Nat : \E f : Fold(f, k)}
  <1>1. 0 \in Good
    <2>1. 1..0 = {}
      OBVIOUS
    <2>2. Fold([s \in SUBSET (1..0) |-> Base], 0)
      BY <2>1
    <2> QED
      BY <2>2
  <1>2. ASSUME NEW k \in Nat, k \in Good PROVE k + 1 \in Good
    <2>1. PICK f : Fold(f, k)
      BY <1>2
    <2> DEFINE g == [s \in SUBSET (1..(k + 1)) |->
                        IF k + 1 \in s THEN AddByte(f[s \ {k + 1}], bytes[k + 1])
                        ELSE f[s]]
    <2>2. ASSUME NEW s \in SUBSET (1..(k + 1)) PROVE g[s] = Value(g, s)
      <3>1. CASE s = {}
        <4>1. s \in SUBSET (1..k) /\ k + 1 \notin s
          BY <3>1
        <4> QED
          BY <4>1, <2>1, <3>1
      <3>2. CASE k + 1 \in s
        <4>1. Max(s) = k + 1
          <5>1. k + 1 \in Nat /\ s \subseteq 1..(k + 1)
            OBVIOUS
          <5> HIDE DEF g, Good, Fold, Value
          <5> QED
            BY <3>2, <5>1, MaxOfLast
        <4>2. /\ s \ {k + 1} \in SUBSET (1..k)
              /\ s \ {k + 1} \in SUBSET (1..(k + 1))
              /\ k + 1 \notin s \ {k + 1}
          OBVIOUS
        <4>3. g[s \ {k + 1}] = f[s \ {k + 1}]
          BY <4>2
        <4> QED
          BY <3>2, <4>1, <4>3
      <3>3. CASE k + 1 \notin s /\ s # {}
        <4>1. s \in SUBSET (1..k)
          BY <3>3
        <4>2. s \ {Max(s)} \in SUBSET (1..(k + 1)) /\ k + 1 \notin s \ {Max(s)}
          BY <3>3, <4>1
        <4>3. g[s] = f[s] /\ g[s \ {Max(s)}] = f[s \ {Max(s)}]
          BY <4>2, <3>3
        <4>4. f[s] = Value(f, s)
          BY <4>1, <2>1
        <4> QED
          BY <3>3, <4>3, <4>4
      <3> QED
        BY <3>1, <3>2, <3>3
    <2>3. Fold(g, k + 1)
      <3>1. g = [s \in SUBSET (1..(k + 1)) |-> g[s]]
        OBVIOUS
      <3> HIDE DEF g, Value
      <3>2. g = [s \in SUBSET (1..(k + 1)) |-> Value(g, s)]
        BY <2>2, <3>1, Zenon
      <3> QED
        BY <3>2
    <2> HIDE DEF g, Fold
    <2> QED
      BY <2>3, <1>2
  <1>3. n \in Good
    <2> HIDE DEF Good
    <2> QED
      BY <1>1, <1>2, Induction
  <1> DEFINE iter == CHOOSE f : Fold(f, n)
  <1>4. Fold(iter, n)
    <2> HIDE DEF Fold
    <2>1. \E f : Fold(f, n)
      BY <1>3
    <2> QED
      BY <2>1
  <1>5. Lines(bytes) = iter[1..n]
    BY DEF Lines, FoldLeft, MapThenFoldSet
  <1> HIDE DEF iter
  <1> DEFINE t == [k \in 0..n |-> iter[1..k]]
  <1>6. t[0] = Base
    <2>1. 1..0 = {} /\ 1..0 \in SUBSET (1..n)
      OBVIOUS
    <2> QED
      BY <2>1, <1>4
  <1>7. ASSUME NEW k \in 1..n PROVE t[k] = AddByte(t[k - 1], bytes[k])
    <2>1. 1..k \in SUBSET (1..n)
      OBVIOUS
    <2>2. k \in Nat /\ k \in 1..k
      OBVIOUS
    <2>3. Max(1..k) = k
      <3> HIDE DEF t, Good, Fold, Value
      <3> QED
        BY <2>2, MaxOfLast
    <2>4. (1..k) \ {k} = 1..(k - 1)
      OBVIOUS
    <2>5. iter[1..k] = AddByte(iter[1..(k - 1)], bytes[k])
      BY <1>4, <2>1, <2>2, <2>3, <2>4
    <2>6. k \in 0..n /\ k - 1 \in 0..n
      OBVIOUS
    <2> QED
      BY <2>5, <2>6
  <1>8. t[n] = Lines(bytes)
    BY <1>5
  <1> HIDE DEF t
  <1> QED
    BY <1>6, <1>7, <1>8

\* t[k] is the first k sequences joined.
JoinsOneByOne(t, seqs, n) ==
    /\ t[1] = seqs[1]
    /\ \A k \in 2..n : t[k] = t[k - 1] \o seqs[k]
    /\ FlattenSeq(seqs) = t[n]

\* FlattenSeq joins its elements one by one.
LEMMA FlattenRun ==
  ASSUME NEW n \in Nat, NEW seqs, Len(seqs) = n, n # 0
  PROVE  \E t : JoinsOneByOne(t, seqs, n)
  <1> DEFINE Value(f, i) == IF i = 1 THEN seqs[i] ELSE f[i - 1] \o seqs[i]
             Flat(f, k) == f = [i \in 1..k |-> Value(f, i)]
             Good == {k \in Nat : \E f : Flat(f, k)}
  <1>1. 0 \in Good
    <2>1. 1..0 = {}
      OBVIOUS
    <2>2. Flat([i \in 1..0 |-> seqs], 0)
      BY <2>1
    <2> QED
      BY <2>2
  <1>2. ASSUME NEW k \in Nat, k \in Good PROVE k + 1 \in Good
    <2>1. PICK f : Flat(f, k)
      BY <1>2
    <2> DEFINE g == [i \in 1..(k + 1) |->
                        IF i = k + 1 THEN Value(f, i) ELSE f[i]]
    <2>2. ASSUME NEW i \in 1..(k + 1) PROVE g[i] = Value(g, i)
      <3>1. CASE i = k + 1
        BY <3>1
      <3>2. CASE i # k + 1
        <4>1. i \in 1..k /\ g[i] = f[i]
          BY <3>2
        <4>2. f[i] = Value(f, i)
          BY <4>1, <2>1
        <4>3. i # 1 => g[i - 1] = f[i - 1]
          <5>1. i # 1 => i - 1 \in 1..(k + 1) /\ i - 1 # k + 1
            BY <4>1
          <5> QED
            BY <5>1
        <4> HIDE DEF g
        <4> QED
          BY <4>1, <4>2, <4>3
      <3> QED
        BY <3>1, <3>2
    <2>3. Flat(g, k + 1)
      <3>1. g = [i \in 1..(k + 1) |-> g[i]]
        OBVIOUS
      <3> HIDE DEF g, Value
      <3>2. g = [i \in 1..(k + 1) |-> Value(g, i)]
        BY <2>2, <3>1, Zenon
      <3> QED
        BY <3>2
    <2> HIDE DEF g, Flat
    <2> QED
      BY <2>3, <1>2
  <1>3. n \in Good
    <2> HIDE DEF Good
    <2> QED
      BY <1>1, <1>2, Induction
  <1> DEFINE flatten == CHOOSE f : Flat(f, n)
  <1>4. Flat(flatten, n)
    <2> HIDE DEF Flat
    <2>1. \E f : Flat(f, n)
      BY <1>3
    <2> QED
      BY <2>1
  <1>5. FlattenSeq(seqs) = flatten[n]
    BY DEF FlattenSeq
  <1> HIDE DEF flatten
  <1>6. flatten[1] = seqs[1]
    BY <1>4
  <1>7. ASSUME NEW k \in 2..n PROVE flatten[k] = flatten[k - 1] \o seqs[k]
    <2>1. k \in 1..n /\ k # 1
      OBVIOUS
    <2>2. flatten[k] = Value(flatten, k)
      BY <1>4, <2>1
    <2> QED
      BY <2>1, <2>2
  <1>8. JoinsOneByOne(flatten, seqs, n)
    BY <1>5, <1>6, <1>7 DEF JoinsOneByOne
  <1> QED
    BY <1>8

\* Joining sequences of elements of S.
LEMMA FlattenType ==
  ASSUME NEW S, NEW n \in Nat, NEW f, \A i \in 1..n : f[i] \in Seq(S)
  PROVE  FlattenSeq([i \in 1..n |-> f[i]]) \in Seq(S)
  <1> DEFINE seqs == [i \in 1..n |-> f[i]]
  <1>1. Len(seqs) = n
    OBVIOUS
  <1>2. CASE n = 0
    <2>1. seqs = <<>>
      BY <1>2
    <2>2. FlattenSeq(seqs) = seqs
      BY <1>1, <1>2 DEF FlattenSeq
    <2>3. <<>> \in Seq(S)
      OBVIOUS
    <2> HIDE DEF seqs
    <2>4. FlattenSeq(seqs) \in Seq(S)
      BY <2>1, <2>2, <2>3
    <2> QED
      BY <2>4 DEF seqs
  <1>3. CASE n # 0
    <2>0. PICK t : JoinsOneByOne(t, seqs, n)
      <3> HIDE DEF seqs
      <3> QED
        BY <1>1, <1>3, FlattenRun
    <2>1. /\ t[1] = seqs[1]
          /\ \A k \in 2..n : t[k] = t[k - 1] \o seqs[k]
          /\ FlattenSeq(seqs) = t[n]
      BY <2>0, Zenon DEF JoinsOneByOne
    <2> DEFINE Good == {k \in Nat : k + 1 \in 1..n => t[k + 1] \in Seq(S)}
    <2>2. 0 \in Good
      BY <1>3, <2>1
    <2>3. ASSUME NEW k \in Nat, k \in Good PROVE k + 1 \in Good
      <3>1. CASE k + 2 \in 1..n
        <4>1. k + 1 \in 1..n /\ k + 2 \in 2..n /\ (k + 2) - 1 = k + 1
          BY <3>1
        <4>2. t[k + 1] \in Seq(S) /\ seqs[k + 2] \in Seq(S)
          BY <2>3, <3>1, <4>1
        <4>3. t[k + 2] = t[k + 1] \o seqs[k + 2]
          BY <2>1, <4>1
        <4>4. t[k + 2] \in Seq(S)
          <5> HIDE DEF seqs, Good
          <5> QED
            BY <4>2, <4>3
        <4>5. (k + 1) + 1 = k + 2
          OBVIOUS
        <4> QED
          BY <4>4, <4>5
      <3>2. CASE k + 2 \notin 1..n
        BY <3>2
      <3> QED
        BY <3>1, <3>2
    <2>4. n - 1 \in Good
      <3>1. n - 1 \in Nat
        BY <1>3
      <3> HIDE DEF Good
      <3> QED
        BY <2>2, <2>3, <3>1, Induction
    <2> QED
      BY <1>3, <2>1, <2>4
  <1> QED
    BY <1>2, <1>3

\* One sequence more is joined behind the others.
LEMMA FlattenNext ==
  ASSUME NEW S, NEW n \in Nat, NEW f, \A i \in 1..(n + 1) : f[i] \in Seq(S)
  PROVE  FlattenSeq([i \in 1..(n + 1) |-> f[i]])
            = FlattenSeq([i \in 1..n |-> f[i]]) \o f[n + 1]
  <1> DEFINE more == [i \in 1..(n + 1) |-> f[i]]
             seqs == [i \in 1..n |-> f[i]]
  <1>1. Len(seqs) = n /\ Len(more) = n + 1 /\ n + 1 # 0
    OBVIOUS
  <1>0. PICK t : JoinsOneByOne(t, more, n + 1)
    <2> HIDE DEF more
    <2>1. n + 1 \in Nat
      OBVIOUS
    <2> QED
      BY <1>1, <2>1, FlattenRun
  <1>2. /\ t[1] = more[1]
        /\ \A k \in 2..(n + 1) : t[k] = t[k - 1] \o more[k]
        /\ FlattenSeq(more) = t[n + 1]
    BY <1>0, Zenon DEF JoinsOneByOne
  <1>3. CASE n = 0
    <2>1. seqs = <<>> /\ f[n + 1] \in Seq(S) /\ more[1] = f[n + 1]
      BY <1>3
    <2>2. FlattenSeq(seqs) = <<>>
      BY <1>1, <1>3, <2>1 DEF FlattenSeq
    <2>3. FlattenSeq(more) = f[n + 1]
      BY <1>2, <1>3, <2>1
    <2> HIDE DEF seqs, more
    <2>4. <<>> \o f[n + 1] = f[n + 1]
      BY <2>1
    <2> QED
      BY <2>2, <2>3, <2>4 DEF seqs, more
  <1>4. CASE n # 0
    <2>0. PICK u : JoinsOneByOne(u, seqs, n)
      <3> HIDE DEF seqs
      <3> QED
        BY <1>1, <1>4, FlattenRun
    <2>1. /\ u[1] = seqs[1]
          /\ \A k \in 2..n : u[k] = u[k - 1] \o seqs[k]
          /\ FlattenSeq(seqs) = u[n]
      BY <2>0, Zenon DEF JoinsOneByOne
    <2> DEFINE Good == {k \in Nat : k + 1 \in 1..n => t[k + 1] = u[k + 1]}
    <2>2. 0 \in Good
      BY <1>2, <1>4, <2>1
    <2>3. ASSUME NEW k \in Nat, k \in Good PROVE k + 1 \in Good
      <3>1. CASE k + 2 \in 1..n
        <4>1. k + 1 \in 1..n /\ k + 2 \in 2..n /\ k + 2 \in 2..(n + 1) /\ (k + 2) - 1 = k + 1
          BY <3>1
        <4>2. t[k + 1] = u[k + 1]
          BY <2>3, <4>1
        <4>3. seqs[k + 2] = more[k + 2]
          BY <4>1
        <4>4. t[k + 2] = t[k + 1] \o more[k + 2] /\ u[k + 2] = u[k + 1] \o seqs[k + 2]
          <5> HIDE DEF seqs, more, Good
          <5> QED
            BY <1>2, <2>1, <4>1
        <4>5. (k + 1) + 1 = k + 2
          OBVIOUS
        <4>6. t[k + 2] = u[k + 2]
          <5> HIDE DEF seqs, more, Good
          <5> QED
            BY <4>2, <4>3, <4>4
        <4> QED
          BY <4>5, <4>6
      <3>2. CASE k + 2 \notin 1..n
        BY <3>2
      <3> QED
        BY <3>1, <3>2
    <2>4. n - 1 \in Good
      <3>1. n - 1 \in Nat
        BY <1>4
      <3> HIDE DEF Good
      <3> QED
        BY <2>2, <2>3, <3>1, Induction
    <2>5. t[n] = u[n]
      BY <1>4, <2>4
    <2>6. more[n + 1] = f[n + 1]
      OBVIOUS
    <2>7. n + 1 \in 2..(n + 1) /\ (n + 1) - 1 = n
      BY <1>4
    <2> HIDE DEF seqs, more, Good
    <2>8. t[n + 1] = t[n] \o more[n + 1]
      BY <1>2, <2>7
    <2>9. FlattenSeq(more) = FlattenSeq(seqs) \o f[n + 1]
      BY <1>2, <2>1, <2>5, <2>6, <2>8
    <2> QED
      BY <2>9 DEF seqs, more
  <1> QED
    BY <1>3, <1>4

-----------------------------------------------------------------------------
(***************************************************************************)
(* The lines of a prefix of some bytes.                                    *)
(***************************************************************************)
LinesOf(bytes, k) == Lines(SubSeq(bytes, 1, k))

\* Every byte adds to the lines of those before it.
LEMMA LinesOfNext ==
  ASSUME NEW S, NEW bytes \in Seq(S)
  PROVE  /\ LinesOf(bytes, 0) = << <<>> >>
         /\ LinesOf(bytes, Len(bytes)) = Lines(bytes)
         /\ \A k \in 1..Len(bytes) :
               LinesOf(bytes, k) = AddByte(LinesOf(bytes, k - 1), bytes[k])
  <1>1. Len(bytes) \in Nat /\ DOMAIN bytes = 1..Len(bytes)
    OBVIOUS
  <1>2. PICK t : /\ t[0] = << <<>> >>
                 /\ \A k \in 1..Len(bytes) : t[k] = AddByte(t[k - 1], bytes[k])
                 /\ Lines(bytes) = t[Len(bytes)]
    BY <1>1, LinesRun
  <1>3. ASSUME NEW k \in 0..Len(bytes) PROVE LinesOf(bytes, k) = t[k]
    <2> DEFINE part == SubSeq(bytes, 1, k)
    <2>1. k \in Nat /\ DOMAIN part = 1..k /\ \A j \in 1..k : part[j] = bytes[j]
      BY <1>1
    <2>2. PICK u : /\ u[0] = << <<>> >>
                   /\ \A j \in 1..k : u[j] = AddByte(u[j - 1], part[j])
                   /\ Lines(part) = u[k]
      <3> HIDE DEF part
      <3> QED
        BY <2>1, LinesRun
    <2> DEFINE Good == {j \in Nat : j <= k => u[j] = t[j]}
    <2>3. 0 \in Good
      BY <1>2, <2>2
    <2>4. ASSUME NEW j \in Nat, j \in Good PROVE j + 1 \in Good
      <3>1. CASE j + 1 <= k
        <4>1. j + 1 \in 1..k /\ j + 1 \in 1..Len(bytes) /\ (j + 1) - 1 = j
          BY <1>1, <3>1
        <4>2. u[j] = t[j]
          BY <2>4, <3>1
        <4>3. u[j + 1] = AddByte(u[j], part[j + 1]) /\ t[j + 1] = AddByte(t[j], bytes[j + 1])
          <5> HIDE DEF part, Good
          <5> QED
            BY <1>2, <2>2, <4>1
        <4>4. part[j + 1] = bytes[j + 1]
          BY <2>1, <4>1
        <4>5. u[j + 1] = t[j + 1]
          BY <4>2, <4>3, <4>4
        <4> QED
          BY <4>5
      <3>2. CASE ~(j + 1 <= k)
        BY <3>2
      <3> QED
        BY <3>1, <3>2
    <2>5. k \in Good
      <3> HIDE DEF Good
      <3> QED
        BY <2>1, <2>3, <2>4, Induction
    <2>6. u[k] = t[k]
      BY <2>1, <2>5
    <2> QED
      BY <2>2, <2>6 DEF LinesOf
  <1>4. ASSUME NEW k \in 1..Len(bytes)
        PROVE  LinesOf(bytes, k) = AddByte(LinesOf(bytes, k - 1), bytes[k])
    <2>1. k \in 0..Len(bytes) /\ k - 1 \in 0..Len(bytes)
      BY <1>1
    <2>2. t[k] = AddByte(t[k - 1], bytes[k])
      BY <1>2
    <2> QED
      BY <1>3, <2>1, <2>2
  <1>5. 0 \in 0..Len(bytes) /\ Len(bytes) \in 0..Len(bytes)
    BY <1>1
  <1> QED
    BY <1>2, <1>3, <1>4, <1>5

\* There is always a line, if only an empty one.
LEMMA LinesOfType ==
  ASSUME NEW S, NEW bytes \in Seq(S), NEW k \in 0..Len(bytes)
  PROVE  LinesOf(bytes, k) \in Seq(Seq(S)) /\ Len(LinesOf(bytes, k)) \in Nat \ {0}
  <1> DEFINE Typed(lines) == lines \in Seq(Seq(S)) /\ Len(lines) \in Nat \ {0}
             Good == {j \in Nat : j <= Len(bytes) => Typed(LinesOf(bytes, j))}
  <1>1. 0 \in Good
    <2>1. << <<>> >> \in Seq(Seq(S)) /\ Len(<< <<>> >>) \in Nat \ {0}
      OBVIOUS
    <2>2. LinesOf(bytes, 0) = << <<>> >>
      BY LinesOfNext
    <2>3. Typed(LinesOf(bytes, 0))
      BY <2>1, <2>2, Zenon
    <2> QED
      BY <2>3
  <1>2. ASSUME NEW j \in Nat, j \in Good PROVE j + 1 \in Good
    <2>1. SUFFICES ASSUME j + 1 <= Len(bytes) PROVE Typed(LinesOf(bytes, j + 1))
      OBVIOUS
    <2>2. j + 1 \in 1..Len(bytes) /\ (j + 1) - 1 = j
      BY <2>1
    <2> DEFINE lines == LinesOf(bytes, j)
               b == bytes[j + 1]
    <2>3. LinesOf(bytes, j + 1) = AddByte(lines, b)
      BY <2>2, LinesOfNext
    <2>4. Typed(lines) /\ b \in S
      BY <1>2, <2>1, <2>2
    <2> HIDE DEF lines, b
    <2>5. Typed(Append(lines, <<>>))
      BY <2>4
    <2>6. Typed([lines EXCEPT ![Len(lines)] = Append(@, b)])
      BY <2>4
    <2> QED
      BY <2>3, <2>5, <2>6 DEF AddByte
  <1>3. k \in Good
    <2>1. k \in Nat
      OBVIOUS
    <2> HIDE DEF Good
    <2> QED
      BY <1>1, <1>2, <2>1, Induction
  <1> QED
    BY <1>3

\* Bytes that follow change the last line at most.
LEMMA LinesStay ==
  ASSUME NEW S, NEW bytes \in Seq(S), NEW j \in 0..Len(bytes), NEW k \in j..Len(bytes)
  PROVE  /\ Len(LinesOf(bytes, j)) <= Len(LinesOf(bytes, k))
         /\ \A i \in 1..(Len(LinesOf(bytes, j)) - 1) :
               LinesOf(bytes, k)[i] = LinesOf(bytes, j)[i]
  <1> DEFINE old == LinesOf(bytes, j)
             Stay(lines) == /\ Len(old) <= Len(lines)
                            /\ \A i \in 1..(Len(old) - 1) : lines[i] = old[i]
             Good == {d \in Nat : j + d <= Len(bytes) => Stay(LinesOf(bytes, j + d))}
  <1>0. j \in Nat /\ Len(bytes) \in Nat
    OBVIOUS
  <1>1. 0 \in Good
    <2>1. Len(old) \in Nat
      BY LinesOfType
    <2>2. j + 0 = j
      OBVIOUS
    <2> QED
      BY <2>1, <2>2
  <1>2. ASSUME NEW d \in Nat, d \in Good PROVE d + 1 \in Good
    <2>1. SUFFICES ASSUME j + (d + 1) <= Len(bytes)
                   PROVE  Stay(LinesOf(bytes, j + (d + 1)))
      OBVIOUS
    <2>2. /\ j + (d + 1) \in 1..Len(bytes)
          /\ (j + (d + 1)) - 1 = j + d
          /\ j + d \in 0..Len(bytes)
          /\ j + d <= Len(bytes)
      BY <1>0, <2>1
    <2> DEFINE lines == LinesOf(bytes, j + d)
               b == bytes[j + (d + 1)]
    <2>3. LinesOf(bytes, j + (d + 1)) = AddByte(lines, b)
      BY <2>2, LinesOfNext
    <2>4. lines \in Seq(Seq(S)) /\ Len(lines) \in Nat \ {0} /\ Len(old) \in Nat \ {0}
      BY <2>2, LinesOfType
    <2>5. Stay(lines)
      BY <1>2, <2>2
    <2> HIDE DEF lines, b, old
    <2>6. Stay(Append(lines, <<>>))
      BY <2>4, <2>5
    <2>7. Stay([lines EXCEPT ![Len(lines)] = Append(@, b)])
      BY <2>4, <2>5
    <2> QED
      BY <2>3, <2>6, <2>7 DEF AddByte
  <1>3. k - j \in Good
    <2>1. k - j \in Nat
      BY <1>0
    <2> HIDE DEF Good
    <2> QED
      BY <1>1, <1>2, <2>1, Induction
  <1>4. j + (k - j) = k /\ k <= Len(bytes)
    BY <1>0
  <1> QED
    BY <1>3, <1>4

\* The first k lines of some bytes end at byte p.
Cut(bytes, k, p) ==
    /\ p \in 0..Len(bytes)
    /\ p = 0 \/ bytes[p] = Newline
    /\ Len(LinesOf(bytes, p)) = k + 1

\* What follows the first b elements of s, up to the n-th.
Part(s, b, n) == SubSeq(s, b + 1, n)

\* A part of a sequence is what lies between its ends.
LEMMA PartOf ==
  ASSUME NEW S, NEW s \in Seq(S), NEW b \in Nat, NEW n \in b..Len(s)
  PROVE  /\ Part(s, b, n) \in Seq(S)
         /\ Len(Part(s, b, n)) = n - b
         /\ \A j \in 1..(n - b) : Part(s, b, n)[j] = s[b + j]
  BY DEF Part

\* Two neighbouring parts of a sequence make one.
LEMMA PartsJoin ==
  ASSUME NEW S, NEW s \in Seq(S), NEW b \in Nat, NEW m \in Nat, NEW n \in Nat,
         b <= m, m <= n, n <= Len(s)
  PROVE  Part(s, b, m) \o Part(s, m, n) = Part(s, b, n)
  BY DEF Part

\* A part of a part is a part of the whole.
LEMMA PartOfPart ==
  ASSUME NEW S, NEW s \in Seq(S), NEW b \in Nat, NEW p \in Nat, NEW e \in Nat, NEW r \in Nat,
         b <= p, p <= e, e <= r, r <= Len(s)
  PROVE  Part(Part(s, b, r), p - b, e - b) = Part(s, p, e)
  <1> DEFINE t == Part(s, b, r)
             u == Part(t, p - b, e - b)
             v == Part(s, p, e)
  <1>1. t \in Seq(S) /\ Len(t) = r - b /\ \A j \in 1..(r - b) : t[j] = s[b + j]
    BY DEF Part
  <1> HIDE DEF t
  <1>2. u \in Seq(S) /\ Len(u) = e - p /\ \A j \in 1..(e - p) : u[j] = t[p - b + j]
    <2>1. PICK m \in Nat, n \in Nat : /\ m = p - b /\ n = e - b
                                    /\ n \in m..Len(t) /\ n - m = e - p
      BY <1>1
    <2>2. /\ Part(t, m, n) \in Seq(S)
          /\ Len(Part(t, m, n)) = n - m
          /\ \A j \in 1..(n - m) : Part(t, m, n)[j] = t[m + j]
      <3>1. t \in Seq(S)
        BY <1>1
      <3>2. n \in m..Len(t)
        BY <2>1
      <3> QED
        BY <3>1, <3>2, PartOf, Zenon
    <2>3. u = Part(t, m, n)
      BY <2>1
    <2> QED
      BY <2>1, <2>2, <2>3
  <1>3. v \in Seq(S) /\ Len(v) = e - p /\ \A j \in 1..(e - p) : v[j] = s[p + j]
    BY DEF Part
  <1>4. ASSUME NEW j \in 1..(e - p) PROVE t[p - b + j] = s[p + j]
    <2>1. p - b + j \in 1..(r - b) /\ b + (p - b + j) = p + j
      OBVIOUS
    <2> QED
      BY <1>1, <2>1
  <1> HIDE DEF u, v
  <1>5. Len(u) = Len(v) /\ \A j \in 1..Len(u) : u[j] = v[j]
    BY <1>2, <1>3, <1>4
  <1>6. u = v
    BY <1>2, <1>3, <1>5, SeqEqual
  <1> QED
    BY <1>6 DEF t, u, v

NoNewline(bytes, p, r) == \A i \in (p + 1)..r : bytes[i] # Newline

\* No lines take up no bytes.
LEMMA CutAtStart ==
  ASSUME NEW S, NEW bytes \in Seq(S)
  PROVE  Cut(bytes, 0, 0)
  <1>1. LinesOf(bytes, 0) = << <<>> >>
    BY LinesOfNext
  <1>2. Len(<< <<>> >>) = 1
    OBVIOUS
  <1> QED
    BY <1>1, <1>2 DEF Cut

\* What follows a newline is a line of its own until the next one.
LEMMA LineGrows ==
  ASSUME NEW S, NEW bytes \in Seq(S), NEW k \in Nat, NEW p, Cut(bytes, k, p),
         NEW r \in p..Len(bytes), NoNewline(bytes, p, r)
  PROVE  Len(LinesOf(bytes, r)) = k + 1 /\ LinesOf(bytes, r)[k + 1] = SubSeq(bytes, p + 1, r)
  <1> DEFINE Grown(j) == /\ Len(LinesOf(bytes, j)) = k + 1
                         /\ LinesOf(bytes, j)[k + 1] = SubSeq(bytes, p + 1, j)
             Good == {d \in Nat : p + d <= r => Grown(p + d)}
  <1>0. /\ p \in 0..Len(bytes) /\ p \in Nat /\ Len(bytes) \in Nat /\ r \in Nat
        /\ Len(LinesOf(bytes, p)) = k + 1
    BY DEF Cut
  <1>1. 0 \in Good
    <2>1. LinesOf(bytes, p)[k + 1] = <<>>
      <3>1. CASE p = 0
        <4>1. LinesOf(bytes, p) = << <<>> >>
          BY <3>1, LinesOfNext
        <4>2. Len(<< <<>> >>) = 1 /\ << <<>> >>[1] = <<>>
          OBVIOUS
        <4>3. k + 1 = 1
          BY <1>0, <4>1, <4>2
        <4> QED
          BY <4>1, <4>2, <4>3
      <3>2. CASE p # 0
        <4>1. p \in 1..Len(bytes) /\ p - 1 \in 0..Len(bytes) /\ bytes[p] = Newline
          BY <1>0, <3>2 DEF Cut
        <4> DEFINE lines == LinesOf(bytes, p - 1)
        <4>2. LinesOf(bytes, p) = Append(lines, <<>>)
          BY <4>1, LinesOfNext DEF AddByte
        <4>3. lines \in Seq(Seq(S))
          BY <4>1, LinesOfType
        <4> HIDE DEF lines
        <4>4. /\ Len(Append(lines, <<>>)) = Len(lines) + 1
              /\ Append(lines, <<>>)[Len(lines) + 1] = <<>>
          BY <4>3
        <4> QED
          BY <1>0, <4>2, <4>4
      <3> QED
        BY <3>1, <3>2
    <2>2. SubSeq(bytes, p + 1, p) = <<>>
      BY <1>0
    <2>3. p + 0 = p
      BY <1>0
    <2> HIDE DEF NoNewline
    <2>4. Grown(p + 0)
      BY <1>0, <2>1, <2>2, <2>3
    <2> QED
      BY <2>4
  <1>2. ASSUME NEW d \in Nat, d \in Good PROVE d + 1 \in Good
    <2>1. SUFFICES ASSUME p + (d + 1) <= r PROVE Grown(p + (d + 1))
      OBVIOUS
    <2> DEFINE j == p + d
               lines == LinesOf(bytes, j)
    <2>2. /\ j \in Nat /\ j <= r /\ p + (d + 1) = j + 1 /\ j >= p
          /\ j + 1 \in 1..Len(bytes) /\ (j + 1) - 1 = j /\ j \in 0..Len(bytes)
          /\ j + 1 \in (p + 1)..r
      BY <1>0, <2>1
    <2>3. Grown(j)
      BY <1>2, <2>2
    <2>4. bytes[j + 1] # Newline
      BY <2>2 DEF NoNewline
    <2>5. LinesOf(bytes, j + 1) = [lines EXCEPT ![Len(lines)] = Append(@, bytes[j + 1])]
      <3> HIDE DEF j
      <3> QED
        BY <2>2, <2>4, LinesOfNext DEF AddByte
    <2>6. lines \in Seq(Seq(S)) /\ Len(lines) = k + 1
      <3> HIDE DEF j
      <3> QED
        BY <2>2, <2>3, LinesOfType
    <2>7. lines[k + 1] = SubSeq(bytes, p + 1, j)
      BY <2>3
    <2> HIDE DEF lines, j, Good
    <2>8. /\ Len(LinesOf(bytes, j + 1)) = k + 1
          /\ LinesOf(bytes, j + 1)[k + 1] = Append(SubSeq(bytes, p + 1, j), bytes[j + 1])
      <3>1. LinesOf(bytes, j + 1) = [lines EXCEPT ![k + 1] = Append(@, bytes[j + 1])]
        BY <2>5, <2>6
      <3>2. k + 1 \in DOMAIN lines
        BY <2>6
      <3> DEFINE b == Append(lines[k + 1], bytes[j + 1])
      <3>3. b \in Seq(S)
        BY <2>2, <2>6, <3>2
      <3> HIDE DEF b
      <3>4. Len([lines EXCEPT ![k + 1] = b]) = k + 1 /\ [lines EXCEPT ![k + 1] = b][k + 1] = b
        BY <2>6, <3>2, <3>3
      <3> QED
        BY <2>7, <3>1, <3>4 DEF b
    <2>9. Append(SubSeq(bytes, p + 1, j), bytes[j + 1]) = SubSeq(bytes, p + 1, j + 1)
      BY <1>0, <2>2
    <2> QED
      BY <2>2, <2>8, <2>9
  <1>3. r - p \in Good
    <2>1. r - p \in Nat
      BY <1>0
    <2> HIDE DEF Good
    <2> QED
      BY <1>1, <1>2, <2>1, Induction
  <1>4. p + (r - p) = r
    BY <1>0
  <1> QED
    BY <1>3, <1>4

\* A line that is ended by a newline is a line of the whole.
LEMMA NextCut ==
  ASSUME NEW S, NEW bytes \in Seq(S), NEW k \in Nat, NEW p, Cut(bytes, k, p),
         NEW r \in p..Len(bytes), NoNewline(bytes, p, r),
         NEW q \in 1..Len(bytes), q = r + 1, bytes[q] = Newline
  PROVE  /\ Cut(bytes, k + 1, q)
         /\ k + 1 < Len(Lines(bytes))
         /\ Lines(bytes)[k + 1] = Part(bytes, p, r)
  <1>0. /\ p \in Nat /\ Len(bytes) \in Nat /\ q \in Nat /\ q - 1 = r
        /\ r \in p..Len(bytes) /\ r \in 0..Len(bytes)
        /\ q \in 1..Len(bytes) /\ q \in 0..Len(bytes)
        /\ Len(bytes) \in q..Len(bytes) /\ Len(bytes) \in 0..Len(bytes)
    BY DEF Cut
  <1> DEFINE old == LinesOf(bytes, r)
             now == LinesOf(bytes, q)
  <1>1. Len(old) = k + 1 /\ old[k + 1] = Part(bytes, p, r)
    BY LineGrows DEF Part
  <1>2. now = Append(old, <<>>)
    <2>1. now = AddByte(LinesOf(bytes, q - 1), bytes[q])
      BY LinesOfNext
    <2> QED
      BY <1>0, <2>1 DEF AddByte
  <1>3. old \in Seq(Seq(S))
    BY <1>0, LinesOfType
  <1>4. Len(now) <= Len(Lines(bytes)) /\ \A i \in 1..(Len(now) - 1) : Lines(bytes)[i] = now[i]
    BY <1>0, LinesOfNext, LinesStay
  <1>5. Len(Lines(bytes)) \in Nat
    BY <1>0, LinesOfNext, LinesOfType
  <1> HIDE DEF old
  <1> HIDE DEF now
  <1>6. Len(now) = k + 2 /\ now[k + 1] = old[k + 1]
    BY <1>1, <1>2, <1>3
  <1>7. Cut(bytes, k + 1, q)
    BY <1>0, <1>6 DEF Cut, now
  <1>8. k + 1 < Len(Lines(bytes)) /\ k + 1 \in 1..(Len(now) - 1)
    BY <1>4, <1>5, <1>6
  <1> QED
    BY <1>1, <1>4, <1>6, <1>7, <1>8

\* So are the bytes behind the last newline.
LEMMA LastCut ==
  ASSUME NEW S, NEW bytes \in Seq(S), NEW k \in Nat, NEW p, Cut(bytes, k, p),
         NoNewline(bytes, p, Len(bytes))
  PROVE  /\ Len(Lines(bytes)) = k + 1
         /\ Lines(bytes)[k + 1] = Part(bytes, p, Len(bytes))
  <1>1. Len(bytes) \in p..Len(bytes)
    BY DEF Cut
  <1>2. LinesOf(bytes, Len(bytes)) = Lines(bytes)
    BY LinesOfNext
  <1> QED
    BY <1>1, <1>2, LineGrows DEF Part

-----------------------------------------------------------------------------
(***************************************************************************)
(* The events of a line.                                                   *)
(***************************************************************************)
\* A set of numbers up to n has a greatest and a least member.
LEMMA MaxIsIn ==
  ASSUME NEW n \in Nat, NEW I, I \subseteq 1..n, I # {}
  PROVE  Max(I) \in I /\ \A i \in I : Max(I) >= i
  <1> DEFINE Good == {k \in Nat : \A T \in SUBSET (1..k) :
                                    T # {} => \E x \in T : \A y \in T : x >= y}
  <1>1. 0 \in Good
    <2>1. 1..0 = {}
      OBVIOUS
    <2> QED
      BY <2>1
  <1>2. ASSUME NEW k \in Nat, k \in Good PROVE k + 1 \in Good
    <2>1. SUFFICES ASSUME NEW T \in SUBSET (1..(k + 1)), T # {}
                   PROVE  \E x \in T : \A y \in T : x >= y
      OBVIOUS
    <2>2. CASE k + 1 \in T
      BY <2>2
    <2>3. CASE k + 1 \notin T
      <3>1. T \in SUBSET (1..k)
        BY <2>3
      <3> QED
        BY <1>2, <2>1, <3>1
    <2> QED
      BY <2>2, <2>3
  <1>3. n \in Good
    <2> HIDE DEF Good
    <2> QED
      BY <1>1, <1>2, Induction
  <1>4. \E x \in I : \A y \in I : x >= y
    BY <1>3
  <1> QED
    BY <1>4 DEF Max

\* A set of places that is not empty has a first one.
LEMMA MinIsIn ==
  ASSUME NEW n \in Nat, NEW I, I \subseteq 1..n, I # {}
  PROVE  Min(I) \in I /\ \A i \in I : Min(I) <= i
  <1> DEFINE Good == {k \in Nat : \A T \in SUBSET ((n - k)..n) :
                                    T # {} => \E x \in T : \A y \in T : x <= y}
  <1>1. 0 \in Good
    <2>1. ASSUME NEW T \in SUBSET ((n - 0)..n), T # {}
          PROVE  \E x \in T : \A y \in T : x <= y
      <3>1. PICK x \in T : TRUE
        BY <2>1
      <3>2. \A y \in T : y = n /\ n <= y
        OBVIOUS
      <3>3. \A y \in T : x <= y
        BY <3>2
      <3> QED
        BY <3>3
    <2> QED
      BY <2>1
  <1>2. ASSUME NEW k \in Nat, k \in Good PROVE k + 1 \in Good
    <2>1. SUFFICES ASSUME NEW T \in SUBSET ((n - (k + 1))..n), T # {}
                   PROVE  \E x \in T : \A y \in T : x <= y
      OBVIOUS
    <2>2. CASE n - (k + 1) \in T
      BY <2>2
    <2>3. CASE n - (k + 1) \notin T
      <3>1. T \in SUBSET ((n - k)..n)
        BY <2>3
      <3> QED
        BY <1>2, <2>1, <3>1
    <2> QED
      BY <2>2, <2>3
  <1>3. n \in Good
    <2> HIDE DEF Good
    <2> QED
      BY <1>1, <1>2, Induction
  <1>4. I \in SUBSET ((n - n)..n)
    OBVIOUS
  <1>5. \E x \in I : \A y \in I : x <= y
    BY <1>3, <1>4
  <1> QED
    BY <1>5 DEF Min

\* FindNewline finds the next newline, if there is one.
LEMMA FindNewlineFinds ==
  ASSUME NEW S, NEW s \in Seq(S), NEW n \in 0..Len(s)
  PROVE  \/ FindNewline(s, n) = 0 /\ NoNewline(s, n, Len(s))
         \/ /\ FindNewline(s, n) \in (n + 1)..Len(s)
            /\ s[FindNewline(s, n)] = Newline
            /\ NoNewline(s, n, FindNewline(s, n) - 1)
  <1> DEFINE I == {i \in (n + 1)..Len(s) : s[i] = Newline}
  <1>1. FindNewline(s, n) = IF I # {} THEN Min(I) ELSE 0
    BY DEF FindNewline, SelectInSubSeq, IsNewline
  <1>2. CASE I = {}
    BY <1>1, <1>2 DEF NoNewline
  <1>3. CASE I # {}
    <2>1. I \subseteq 1..Len(s) /\ Len(s) \in Nat
      OBVIOUS
    <2>2. Min(I) \in I /\ \A i \in I : Min(I) <= i
      <3> HIDE DEF I
      <3> QED
        BY <1>3, <2>1, MinIsIn
    <2>3. FindNewline(s, n) = Min(I)
      BY <1>1, <1>3
    <2>4. \A i \in (n + 1)..(Min(I) - 1) : s[i] # Newline
      BY <2>2
    <2> QED
      BY <2>2, <2>3, <2>4 DEF NoNewline
  <1> QED
    BY <1>2, <1>3

Content(bytes) == {bytes[i] : i \in DOMAIN bytes}

\* A body, and each of its lines, consists of the body's bytes.
LEMMA BodyContent ==
  ASSUME NEW bytes \in Bodies
  PROVE  /\ bytes \in Seq(Content(bytes))
         /\ Content(bytes) \subseteq Byte
         /\ \A b \in Content(bytes) :
               b \notin {Newline, Return} =>
                  b.doc \in Document /\ Len(Extracted(b.doc)) <= MostEvents
  <1>1. bytes \in Seq(Byte)
    BY BodiesAssumption
  <1>2. bytes \in Seq(Content(bytes)) /\ Content(bytes) \subseteq Byte
    BY <1>1 DEF Content
  <1>3. ASSUME NEW b \in Content(bytes), b \notin {Newline, Return}
        PROVE  b.doc \in Document /\ Len(Extracted(b.doc)) <= MostEvents
    <2>1. b \in [doc : Document, half : 1..2]
      BY <1>2, <1>3 DEF Byte
    <2>2. PICK i \in DOMAIN bytes : b = bytes[i]
      BY DEF Content
    <2> QED
      BY <1>3, <2>1, <2>2, MostEventsAssumption
  <1> QED
    BY <1>2, <1>3

\* The events of a document are numbers of its results.
LEMMA ExtractedType ==
  ASSUME NEW d \in Document
  PROVE  Extracted(d) \in Seq(Nat)
  <1>1. <<1>> \in Seq(Nat) /\ <<>> \in Seq(Nat)
    OBVIOUS
  <1>2. CASE d.results = None
    BY <1>1, <1>2 DEF Extracted
  <1>3. CASE d.results # None
    <2> DEFINE n == Len(d.results)
               f == [i \in 1..n |-> IF d.results[i] = "object" THEN <<i>> ELSE <<>>]
    <2>1. d.results \in Seq(Item)
      BY <1>3 DEF Document
    <2>2. n \in Nat /\ DOMAIN d.results = 1..n
      BY <2>1
    <2>3. \A i \in 1..n : f[i] \in Seq(Nat)
      OBVIOUS
    <2>4. FlattenSeq([i \in 1..n |-> f[i]]) \in Seq(Nat)
      <3> HIDE DEF f, n
      <3> QED
        BY <2>2, <2>3, FlattenType
    <2>5. [i \in DOMAIN d.results |-> IF d.results[i] = "object" THEN <<i>> ELSE <<>>]
             = [i \in 1..n |-> f[i]]
      BY <2>2
    <2> DEFINE Numbered == [i \in DOMAIN d.results |->
                               IF d.results[i] = "object" THEN <<i>> ELSE <<>>]
    <2>6. FlattenSeq(Numbered) \in Seq(Nat)
      BY <2>4, <2>5
    <2>7. Extracted(d) \in {<<1>>, FlattenSeq(Numbered), <<>>}
      BY DEF Extracted
    <2> HIDE DEF Numbered
    <2> QED
      BY <1>1, <2>6, <2>7
  <1> QED
    BY <1>2, <1>3

\* A line of a body has few events, each of a document of that body.
LEMMA EventsOfType ==
  ASSUME NEW bytes \in Bodies, NEW line \in Seq(Content(bytes))
  PROVE  /\ EventsOf(line) \in Seq(Nat \X Nat)
         /\ Len(EventsOf(line)) <= MostEvents
  <1>1. MostEvents \in Nat
    BY MostEventsAssumption
  <1>2. CASE Parsed(line) = {} \/ Fails(line)
    BY <1>1, <1>2 DEF EventsOf
  <1>3. CASE Parsed(line) # {} /\ ~Fails(line)
    <2> DEFINE d == CHOOSE d \in Parsed(line) : TRUE
               numbers == Extracted(d)
               events == [i \in DOMAIN numbers |-> <<d.id, numbers[i]>>]
    <2>1. PICK i \in DOMAIN line, j \in DOMAIN line : IsJson(line, i, j) /\ d = line[i].doc
      <3>1. d \in Parsed(line)
        BY <1>3
      <3> HIDE DEF d
      <3> QED
        BY <3>1 DEF Parsed
    <2>2. d = line[i].doc /\ line[i] \notin {Newline, Return}
      BY <2>1 DEF IsJson
    <2>3. line[i] \in Content(bytes)
      OBVIOUS
    <2>4. d \in Document /\ Len(numbers) <= MostEvents
      BY <2>2, <2>3, BodyContent
    <2>5. d.id \in Nat
      BY <2>4 DEF Document
    <2>6. numbers \in Seq(Nat)
      BY <2>4, ExtractedType
    <2>7. EventsOf(line) = events
      BY <1>3 DEF EventsOf
    <2> HIDE DEF numbers, d
    <2>8. events \in Seq(Nat \X Nat) /\ Len(events) = Len(numbers)
      <3>1. /\ DOMAIN numbers = 1..Len(numbers) /\ Len(numbers) \in Nat
            /\ \A n \in 1..Len(numbers) : <<d.id, numbers[n]>> \in Nat \X Nat
        BY <2>5, <2>6
      <3> QED
        BY <3>1
    <2> QED
      BY <2>4, <2>7, <2>8
  <1> QED
    BY <1>2, <1>3

\* A blank line has no events and does not fail.
LEMMA BlankLine == EventsOf(<<>>) = <<>> /\ ~Fails(<<>>)
  <1>1. Parsed(<<>>) = {}
    BY DEF Parsed
  <1> QED
    BY <1>1 DEF EventsOf, Fails

\* The events of the first k lines are those of a line fewer and its own.
LEMMA ThroughNext ==
  ASSUME NEW bytes \in Bodies, NEW lines \in Seq(Seq(Content(bytes)))
  PROVE  /\ Through(lines, 0) = <<>>
         /\ \A k \in 0..Len(lines) : Through(lines, k) \in Seq(Nat \X Nat)
         /\ \A k \in 1..Len(lines) :
               Through(lines, k) = Through(lines, k - 1) \o EventsOf(lines[k])
  <1> DEFINE f == [i \in 1..Len(lines) |-> EventsOf(lines[i])]
  <1>1. Len(lines) \in Nat /\ \A i \in 1..Len(lines) : lines[i] \in Seq(Content(bytes))
    OBVIOUS
  <1>2. \A i \in 1..Len(lines) : f[i] \in Seq(Nat \X Nat)
    BY <1>1, EventsOfType
  <1>3. ASSUME NEW k \in 0..Len(lines)
        PROVE  Through(lines, k) = FlattenSeq([i \in 1..k |-> f[i]])
    <2>1. [i \in 1..k |-> EventsOf(lines[i])] = [i \in 1..k |-> f[i]]
      BY <1>1
    <2> HIDE DEF f
    <2> QED
      BY <2>1 DEF Through
  <1> HIDE DEF f
  <1>4. Through(lines, 0) = <<>>
    <2>1. [i \in 1..0 |-> f[i]] = <<>> /\ Len(<<>>) = 0
      OBVIOUS
    <2>2. 0 \in 0..Len(lines)
      BY <1>1
    <2> QED
      BY <1>3, <2>1, <2>2 DEF FlattenSeq
  <1>5. ASSUME NEW k \in 0..Len(lines) PROVE Through(lines, k) \in Seq(Nat \X Nat)
    <2>1. k \in Nat /\ \A i \in 1..k : f[i] \in Seq(Nat \X Nat)
      BY <1>1, <1>2
    <2>2. FlattenSeq([i \in 1..k |-> f[i]]) \in Seq(Nat \X Nat)
      BY <2>1, FlattenType
    <2> QED
      BY <1>3, <2>2
  <1>6. ASSUME NEW k \in 1..Len(lines)
        PROVE  Through(lines, k) = Through(lines, k - 1) \o EventsOf(lines[k])
    <2> DEFINE n == k - 1
    <2>1. n \in Nat /\ n + 1 = k /\ n \in 0..Len(lines) /\ k \in 0..Len(lines)
      BY <1>1
    <2> HIDE DEF n
    <2>2. \A i \in 1..(n + 1) : f[i] \in Seq(Nat \X Nat)
      BY <1>1, <1>2, <2>1
    <2>3. FlattenSeq([i \in 1..(n + 1) |-> f[i]])
             = FlattenSeq([i \in 1..n |-> f[i]]) \o f[n + 1]
      BY <2>1, <2>2, FlattenNext
    <2>4. Through(lines, k) = Through(lines, n) \o f[k]
      BY <1>3, <2>1, <2>3
    <2> QED
      BY <2>4 DEF n, f
  <1> QED
    BY <1>4, <1>5, <1>6

\* Lines that follow add events behind those there are.
LEMMA ThroughGrows ==
  ASSUME NEW bytes \in Bodies, NEW lines \in Seq(Seq(Content(bytes))),
         NEW j \in 0..Len(lines), NEW k \in j..Len(lines)
  PROVE  /\ Len(Through(lines, j)) <= Len(Through(lines, k))
         /\ \A i \in 1..Len(Through(lines, j)) : Through(lines, k)[i] = Through(lines, j)[i]
  <1> DEFINE old == Through(lines, j)
             Grown(s) == /\ Len(old) <= Len(s)
                         /\ \A i \in 1..Len(old) : s[i] = old[i]
             Good == {d \in Nat : j + d <= Len(lines) => Grown(Through(lines, j + d))}
  <1>0. j \in Nat /\ Len(lines) \in Nat
    OBVIOUS
  <1>1. 0 \in Good
    <2>1. old \in Seq(Nat \X Nat)
      BY ThroughNext
    <2>2. Len(old) \in Nat /\ j + 0 = j
      BY <1>0, <2>1
    <2> QED
      BY <2>2
  <1>2. ASSUME NEW d \in Nat, d \in Good PROVE d + 1 \in Good
    <2>1. SUFFICES ASSUME j + (d + 1) <= Len(lines)
                   PROVE  Grown(Through(lines, j + (d + 1)))
      OBVIOUS
    <2> DEFINE s == Through(lines, j + d)
               more == EventsOf(lines[j + (d + 1)])
    <2>2. /\ j + (d + 1) \in 1..Len(lines) /\ (j + (d + 1)) - 1 = j + d
          /\ j + d \in 0..Len(lines) /\ j + d <= Len(lines)
      BY <1>0, <2>1
    <2>3. Through(lines, j + (d + 1)) = s \o more
      BY <2>2, ThroughNext
    <2>4. Grown(s)
      BY <1>2, <2>2
    <2>5. s \in Seq(Nat \X Nat) /\ old \in Seq(Nat \X Nat)
      BY <2>2, ThroughNext
    <2>6. more \in Seq(Nat \X Nat)
      <3>1. lines[j + (d + 1)] \in Seq(Content(bytes))
        BY <2>2
      <3> QED
        BY <3>1, EventsOfType
    <2> HIDE DEF s, more, old
    <2>7. Grown(s \o more)
      <3>1. /\ Len(s) \in Nat /\ Len(old) \in Nat /\ Len(s \o more) = Len(s) + Len(more)
            /\ Len(more) \in Nat
            /\ \A i \in 1..Len(s) : (s \o more)[i] = s[i]
        BY <2>5, <2>6
      <3>2. Len(old) <= Len(s) /\ \A i \in 1..Len(old) : s[i] = old[i]
        BY <2>4
      <3> HIDE DEF Good
      <3>3. \A i \in 1..Len(old) : i \in 1..Len(s)
        BY <3>1, <3>2
      <3> QED
        BY <3>1, <3>2, <3>3
    <2> QED
      BY <2>3, <2>7
  <1>3. k - j \in Good
    <2>1. k - j \in Nat
      BY <1>0
    <2> HIDE DEF Good
    <2> QED
      BY <1>1, <1>2, <2>1, Induction
  <1>4. j + (k - j) = k /\ k <= Len(lines)
    BY <1>0
  <1> QED
    BY <1>3, <1>4

-----------------------------------------------------------------------------
(***************************************************************************)
(* The row cap.                                                            *)
(***************************************************************************)
EventsBefore(bytes, k) == Through(Lines(bytes), k)

\* What a cap leaves of a sequence of events.
Capped(events, cap) ==
    IF cap > 0 /\ cap < Len(events) THEN SubSeq(events, 1, cap) ELSE events

Event == Nat \X Nat

\* The lines of a body, and the events of the first k of them.
LEMMA LinesOfBody ==
  ASSUME NEW bytes \in Bodies
  PROVE  /\ bytes \in Seq(Content(bytes))
         /\ Lines(bytes) \in Seq(Seq(Content(bytes)))
         /\ Len(Lines(bytes)) \in Nat \ {0}
         /\ EventsBefore(bytes, 0) = <<>>
         /\ \A k \in 0..Len(Lines(bytes)) : EventsBefore(bytes, k) \in Seq(Event)
         /\ \A k \in 1..Len(Lines(bytes)) :
               /\ EventsOf(Lines(bytes)[k]) \in Seq(Event)
               /\ EventsBefore(bytes, k) = EventsBefore(bytes, k - 1) \o EventsOf(Lines(bytes)[k])
  <1>1. bytes \in Seq(Content(bytes))
    BY BodyContent
  <1>2. Lines(bytes) \in Seq(Seq(Content(bytes))) /\ Len(Lines(bytes)) \in Nat \ {0}
    <2>1. Len(bytes) \in 0..Len(bytes)
      BY <1>1
    <2> QED
      BY <1>1, <2>1, LinesOfNext, LinesOfType
  <1>3. \A k \in 1..Len(Lines(bytes)) : EventsOf(Lines(bytes)[k]) \in Seq(Event)
    <2>1. \A k \in 1..Len(Lines(bytes)) : Lines(bytes)[k] \in Seq(Content(bytes))
      BY <1>2
    <2> QED
      BY <2>1, EventsOfType DEF Event
  <1>4. /\ Through(Lines(bytes), 0) = <<>>
        /\ \A k \in 0..Len(Lines(bytes)) : Through(Lines(bytes), k) \in Seq(Event)
        /\ \A k \in 1..Len(Lines(bytes)) :
              Through(Lines(bytes), k)
                 = Through(Lines(bytes), k - 1) \o EventsOf(Lines(bytes)[k])
    BY <1>2, ThroughNext DEF Event
  <1> QED
    BY <1>1, <1>2, <1>3, <1>4 DEF EventsBefore

\* The cap leaves a prefix, of its own length or the whole sequence's.
LEMMA CappedType ==
  ASSUME NEW cap \in Nat, NEW e \in Seq(Event)
  PROVE  /\ Capped(e, cap) \in Seq(Event)
         /\ Len(Capped(e, cap)) = IF cap > 0 /\ cap < Len(e) THEN cap ELSE Len(e)
         /\ \A i \in 1..Len(Capped(e, cap)) : i \in 1..Len(e) /\ Capped(e, cap)[i] = e[i]
  <1>1. CASE cap > 0 /\ cap < Len(e)
    BY <1>1 DEF Capped
  <1>2. CASE ~(cap > 0 /\ cap < Len(e))
    BY <1>2 DEF Capped
  <1> QED
    BY <1>1, <1>2

\* Taking more events up to the cap is capping the longer sequence.
LEMMA TakingMore ==
  ASSUME NEW cap \in Nat, NEW e \in Seq(Event), NEW more \in Seq(Event), NEW n,
         n = IF cap > 0 /\ cap < Len(Capped(e, cap)) + Len(more)
             THEN cap - Len(Capped(e, cap)) ELSE Len(more)
  PROVE  Capped(e, cap) \o SubSeq(more, 1, n) = Capped(e \o more, cap)
  <1>1. /\ Len(e) \in Nat /\ Len(more) \in Nat
        /\ e \o more \in Seq(Event) /\ Len(e \o more) = Len(e) + Len(more)
    OBVIOUS
  <1>2. CASE ~(cap > 0 /\ cap < Len(e) + Len(more))
    <2>1. Capped(e, cap) = e /\ Capped(e \o more, cap) = e \o more
      BY <1>1, <1>2 DEF Capped
    <2>2. n = Len(more)
      BY <1>1, <1>2, <2>1
    <2> QED
      <3>1. SubSeq(more, 1, Len(more)) = more
        BY <1>1
      <3> QED
        BY <2>1, <2>2, <3>1
  <1>3. CASE cap > 0 /\ cap < Len(e) + Len(more) /\ Len(e) <= cap
    <2>1. Capped(e, cap) = e /\ Capped(e \o more, cap) = SubSeq(e \o more, 1, cap)
      BY <1>1, <1>3 DEF Capped
    <2>2. n = cap - Len(e)
      BY <1>1, <1>3, <2>1
    <2>3. e \o SubSeq(more, 1, cap - Len(e)) = SubSeq(e \o more, 1, cap)
      BY <1>1, <1>3
    <2> QED
      BY <2>1, <2>2, <2>3
  <1>4. CASE cap > 0 /\ cap < Len(e)
    <2>1. Capped(e, cap) = SubSeq(e, 1, cap) /\ Capped(e \o more, cap) = SubSeq(e \o more, 1, cap)
      BY <1>1, <1>4 DEF Capped
    <2>2. Len(SubSeq(e, 1, cap)) = cap
      BY <1>1, <1>4
    <2>3. n = 0
      BY <1>1, <1>4, <2>1, <2>2
    <2>4. SubSeq(more, 1, 0) = <<>>
      OBVIOUS
    <2>5. SubSeq(e, 1, cap) \o <<>> = SubSeq(e \o more, 1, cap)
      BY <1>1, <1>4
    <2> QED
      BY <2>1, <2>3, <2>4, <2>5
  <1> QED
    BY <1>1, <1>2, <1>3, <1>4

\* Once the cap is reached, lines that follow change nothing.
LEMMA CappedStays ==
  ASSUME NEW bytes \in Bodies, NEW cap \in Nat, cap > 0,
         NEW j \in 0..Len(Lines(bytes)), NEW k \in j..Len(Lines(bytes)),
         cap <= Len(EventsBefore(bytes, j))
  PROVE  Capped(EventsBefore(bytes, k), cap) = Capped(EventsBefore(bytes, j), cap)
  <1> DEFINE e == EventsBefore(bytes, j)
             f == EventsBefore(bytes, k)
  <1>1. e \in Seq(Event) /\ f \in Seq(Event)
    <2>1. k \in 0..Len(Lines(bytes))
      BY LinesOfBody
    <2> QED
      BY <2>1, LinesOfBody
  <1>2. Len(e) <= Len(f) /\ \A i \in 1..Len(e) : f[i] = e[i]
    <2>1. Lines(bytes) \in Seq(Seq(Content(bytes)))
      BY LinesOfBody
    <2> QED
      BY <2>1, ThroughGrows DEF EventsBefore
  <1>3. cap <= Len(e)
    OBVIOUS
  <1> HIDE DEF e, f
  <1>4. Capped(e, cap) = SubSeq(e, 1, cap)
    BY <1>1, <1>3 DEF Capped
  <1>5. Capped(f, cap) = SubSeq(f, 1, cap)
    BY <1>1, <1>2, <1>3 DEF Capped
  <1>6. SubSeq(f, 1, cap) = SubSeq(e, 1, cap)
    BY <1>1, <1>2, <1>3
  <1> QED
    BY <1>4, <1>5, <1>6 DEF e, f

-----------------------------------------------------------------------------
(***************************************************************************)
(* The invariant.  The rows are always those of the first k lines, for     *)
(* some k, and the reader stands behind these lines: a chunk that ends     *)
(* anywhere moves neither.                                                 *)
(***************************************************************************)
\* The native reader has parsed the first k lines; "pending" begins behind
\* byte b of the body, and the lines end at byte p.
NativeAt(k) ==
    \E b \in 0..received : \E p \in b..received :
        /\ Cut(body, k, p)
        /\ pending = Part(body, b, received)
        /\ start = p - b
        /\ limit_reached <=> max_rows > 0 /\ max_rows < Len(EventsBefore(body, k))
        /\ pc = "receiving" => p = b /\ NoNewline(body, p, received) /\ ~limit_reached

\* The cursor of the browser's reader is behind the first k lines, unless the
\* rest has been passed over.
BrowserAt(k) ==
    \/ Cut(body, k, offset)
    \/ offset > Len(body) /\ k = Len(Lines(body))
    \/ CapIsReached /\ offset = Len(body)

\* The rows are those of the first k lines, none of which is a search error.
ReadTo(k) ==
    /\ rows = Capped(EventsBefore(body, k), max_rows)
    /\ \A i \in 1..k : ~Fails(Lines(body)[i])
    /\ build = "native" /\ pc \in {"receiving", "chunk"} => NativeAt(k)
    /\ build = "browser" /\ pc \in {"receiving", "cursor"} => BrowserAt(k)

Reading == \E k \in 0..Len(Lines(body)) : ReadTo(k)

\* The reader of a build looks at line k, in front of which the cap is not
\* reached, or not exceeded.
IsRead(k) ==
    \/ max_rows = 0
    \/ Len(EventsBefore(body, k - 1)) < max_rows
    \/ build = "native" /\ Len(EventsBefore(body, k - 1)) = max_rows

\* A reader that has come to its end has all rows and has met no search error;
\* one that throws a search error has met it.
Ending ==
    /\ pc = "finish" \/ outcome = "complete" =>
          /\ rows = Capped(EventsBefore(body, Len(Lines(body))), max_rows)
          /\ \A k \in 1..Len(Lines(body)) : Fails(Lines(body)[k]) => ~IsRead(k)
    /\ outcome = "search_error" =>
          \E k \in 1..Len(Lines(body)) : Fails(Lines(body)[k]) /\ IsRead(k)

\* Each build has places of its own, and leaves the other's variables alone.
Places ==
    /\ body \in Bodies /\ expected = Expected(body)
    /\ build = "native" => pc # "cursor"
    /\ build = "browser" =>
          /\ pc \in {"receiving", "cursor", "done"}
          /\ received = 0 /\ pending = <<>> /\ start = 0
    /\ outcome = "open" <=> pc # "done"

Inductive == TypeOK /\ Places /\ Reading /\ Ending

\* What the steps need to know of the body and the cap.
LEMMA Setting ==
  ASSUME Inductive
  PROVE  /\ body \in Bodies /\ body \in Seq(Content(body)) /\ Len(body) \in Nat
         /\ max_rows \in Nat /\ retries \in Nat
         /\ Lines(body) \in Seq(Seq(Content(body))) /\ Len(Lines(body)) \in Nat \ {0}
         /\ received \in 0..Len(body) /\ received \in Nat
         /\ pending \in Seq(Content(body)) /\ start \in 0..Len(pending)
  <1>1. body \in Bodies
    BY DEF Inductive, Places
  <1>2. body \in Seq(Content(body)) /\ Lines(body) \in Seq(Seq(Content(body)))
            /\ Len(Lines(body)) \in Nat \ {0}
    BY <1>1, LinesOfBody
  <1>3. max_rows \in Nat /\ retries \in Nat
    BY LimitsAssumption DEF Inductive, TypeOK
  <1>4. received \in 0..Len(body) /\ start \in 0..Len(pending)
    BY DEF Inductive, TypeOK
  <1>5. pending \in Seq(Content(body))
    BY DEF Inductive, TypeOK, Content
  <1> QED
    BY <1>1, <1>2, <1>3, <1>4, <1>5

\* Rows are pairs of numbers, and not more than the cap.
LEMMA RowsType ==
  ASSUME NEW bytes \in Bodies, NEW cap \in Nat, NEW k \in 0..Len(Lines(bytes)), NEW r,
         r = Capped(EventsBefore(bytes, k), cap)
  PROVE  /\ r \in Seq(Nat \X Nat)
         /\ Len(EventsBefore(bytes, k)) \in Nat
         /\ Len(r) = IF cap > 0 /\ cap < Len(EventsBefore(bytes, k))
                     THEN cap ELSE Len(EventsBefore(bytes, k))
  <1>1. EventsBefore(bytes, k) \in Seq(Event)
    BY LinesOfBody
  <1> QED
    BY <1>1, CappedType DEF Event

\* The same for the rows of the reader.
LEMMA RowsAt ==
  ASSUME Inductive, NEW k \in 0..Len(Lines(body)),
         rows = Capped(EventsBefore(body, k), max_rows)
  PROVE  /\ Len(EventsBefore(body, k)) \in Nat /\ max_rows \in Nat
         /\ Len(rows) = IF max_rows > 0 /\ max_rows < Len(EventsBefore(body, k))
                        THEN max_rows ELSE Len(EventsBefore(body, k))
  <1>1. body \in Bodies /\ max_rows \in Nat
    BY Setting, Zenon
  <1>2. /\ Len(EventsBefore(body, k)) \in Nat
        /\ Len(rows) = IF max_rows > 0 /\ max_rows < Len(EventsBefore(body, k))
                       THEN max_rows ELSE Len(EventsBefore(body, k))
    BY <1>1, RowsType, Zenon
  <1> QED
    BY <1>1, <1>2, Zenon

\* TakeRows on the next line takes its events, as far as the cap admits.
LEMMA LineIsTaken ==
  ASSUME Inductive, NEW k \in 1..Len(Lines(body)),
         rows = Capped(EventsBefore(body, k - 1), max_rows),
         TakeRows(Lines(body)[k])
  PROVE  /\ rows' = Capped(EventsBefore(body, k), max_rows)
         /\ Len(EventsBefore(body, k))
               = Len(EventsBefore(body, k - 1)) + Len(EventsOf(Lines(body)[k]))
  <1> DEFINE e == EventsBefore(body, k - 1)
             more == EventsOf(Lines(body)[k])
             n == IF max_rows > 0 /\ max_rows < Len(rows) + Len(more)
                  THEN max_rows - Len(rows) ELSE Len(more)
  <1>1. k - 1 \in 0..Len(Lines(body))
    BY Setting
  <1>2. e \in Seq(Event) /\ more \in Seq(Event) /\ EventsBefore(body, k) = e \o more
    BY <1>1, Setting, LinesOfBody
  <1>3. rows' = rows \o SubSeq(more, 1, n)
    BY DEF TakeRows
  <1>4. max_rows \in Nat /\ rows = Capped(e, max_rows)
    BY Setting
  <1> HIDE DEF e, more
  <1>5. rows \o SubSeq(more, 1, n) = Capped(e \o more, max_rows)
    <2> DEFINE given == Capped(e, max_rows)
               limit == IF max_rows > 0 /\ max_rows < Len(given) + Len(more)
                        THEN max_rows - Len(given) ELSE Len(more)
    <2>1. n = limit
      BY <1>4
    <2>2. given \o SubSeq(more, 1, limit) = Capped(e \o more, max_rows)
      BY <1>2, <1>4, TakingMore, Zenon
    <2> QED
      BY <1>4, <2>1, <2>2, Zenon
  <1>6. Len(e \o more) = Len(e) + Len(more)
    BY <1>2
  <1> QED
    BY <1>2, <1>3, <1>5, <1>6 DEF e, more

\* The lines that follow the first k hold no event in front of theirs.
LEMMA EventsGrow ==
  ASSUME Inductive, NEW j \in 0..Len(Lines(body)), NEW k \in j..Len(Lines(body))
  PROVE  /\ Len(EventsBefore(body, j)) \in Nat
         /\ Len(EventsBefore(body, k)) \in Nat
         /\ Len(EventsBefore(body, j)) <= Len(EventsBefore(body, k))
  <1>1. k \in 0..Len(Lines(body))
    BY Setting
  <1>2. EventsBefore(body, j) \in Seq(Event) /\ EventsBefore(body, k) \in Seq(Event)
    BY <1>1, Setting, LinesOfBody
  <1>3. Len(EventsBefore(body, j)) <= Len(EventsBefore(body, k))
    BY Setting, ThroughGrows DEF EventsBefore
  <1> QED
    BY <1>2, <1>3

\* A reader that begins stands behind no line.
LEMMA InductiveInit == Init => Inductive
  <1> SUFFICES ASSUME Init PROVE Inductive
    OBVIOUS
  <1> USE DEF Init
  <1>1. /\ body \in Bodies /\ body \in Seq(Content(body)) /\ Len(body) \in Nat
        /\ Len(Lines(body)) \in Nat /\ EventsBefore(body, 0) = <<>>
        /\ max_rows \in Nat /\ retries \in Nat
    BY LinesOfBody, LimitsAssumption
  <1>2. SubSeq(body, 1, 0) = <<>>
    BY <1>1
  <1>3. Capped(<<>>, max_rows) = <<>>
    <2>1. Len(<<>>) = 0
      OBVIOUS
    <2> QED
      BY <1>1, <2>1 DEF Capped
  <1>4. Cut(body, 0, 0)
    BY <1>1, CutAtStart
  <1>5. NativeAt(0)
    <2>1. NoNewline(body, 0, received)
      BY DEF NoNewline
    <2>2. 0 \in 0..received /\ start = 0 - 0 /\ Len(<<>>) = 0
      OBVIOUS
    <2>3. pending = Part(body, 0, received)
      BY <1>2 DEF Part
    <2>4. ~(max_rows > 0 /\ max_rows < Len(EventsBefore(body, 0)))
      BY <1>1, <2>2
    <2> QED
      BY <1>4, <2>1, <2>2, <2>3, <2>4 DEF NativeAt
  <1>6. BrowserAt(0)
    BY <1>4 DEF BrowserAt
  <1>7. Reading
    <2>1. 0 \in 0..Len(Lines(body)) /\ 1..0 = {}
      BY <1>1
    <2>2. ReadTo(0)
      BY <1>1, <1>3, <1>5, <1>6, <2>1 DEF ReadTo
    <2> QED
      BY <2>1, <2>2 DEF Reading
  <1>8. TypeOK
    <2>1. <<>> \in Seq(Nat \X Nat) /\ <<>> \in Seq({body[i] : i \in DOMAIN body}) /\ Len(<<>>) = 0
      OBVIOUS
    <2>2. /\ build \in {"native", "browser"}
          /\ max_rows \in MaxRowsChoices
          /\ retries \in RetriesChoices
          /\ pc = "receiving" /\ outcome = "open"
          /\ limit_reached = FALSE
      OBVIOUS
    <2>3. attempt \in 0..retries /\ received \in 0..Len(body) /\ offset \in 0..(Len(body) + 1)
      BY <1>1
    <2>4. pending = <<>> /\ rows = <<>> /\ start = 0
      OBVIOUS
    <2>5. start \in 0..Len(pending)
      BY <2>1, <2>4
    <2> QED
      BY <2>1, <2>2, <2>3, <2>4, <2>5 DEF TypeOK
  <1>9. Places
    BY <1>1 DEF Places
  <1>10. Ending
    BY DEF Ending
  <1> QED
    BY <1>7, <1>8, <1>9, <1>10 DEF Inductive

-----------------------------------------------------------------------------
(***************************************************************************)
(* One lemma per action of the native reader.                              *)
(***************************************************************************)
\* A chunk is appended to what is pending, the lines parsed stay the same.
LEMMA ReceiveKeeps == Inductive /\ Receive => Inductive'
  <1> SUFFICES ASSUME Inductive, Receive PROVE Inductive'
    OBVIOUS
  <1>1. PICK n \in received + 1 .. Len(body) :
           pending' = pending \o Part(body, received, n) /\ received' = n
    BY DEF Receive, Part
  <1>2. /\ pc = "receiving" /\ pc' = "chunk" /\ build = "native" /\ outcome = "open"
        /\ UNCHANGED <<build, max_rows, retries, body, expected>>
        /\ UNCHANGED <<attempt, start, limit_reached, offset, rows, outcome>>
    BY DEF Receive, setup, Inductive, Places
  <1>3. n \in Nat /\ n \in 0..Len(body) /\ received \in Nat /\ received < n /\ n <= Len(body)
    BY Setting
  <1>4. PICK k \in 0..Len(Lines(body)) : ReadTo(k)
    BY DEF Inductive, Reading
  <1>5. PICK b \in 0..received : \E p \in b..received :
           /\ Cut(body, k, p)
           /\ pending = Part(body, b, received)
           /\ start = p - b
           /\ limit_reached <=> max_rows > 0 /\ max_rows < Len(EventsBefore(body, k))
           /\ pc = "receiving" => p = b /\ NoNewline(body, p, received) /\ ~limit_reached
    BY <1>2, <1>4 DEF ReadTo, NativeAt
  <1>6. /\ Cut(body, k, b)
        /\ pending = Part(body, b, received)
        /\ start = b - b
        /\ limit_reached <=> max_rows > 0 /\ max_rows < Len(EventsBefore(body, k))
    BY <1>2, <1>5
  <1>7. b \in Nat /\ b <= received /\ b \in 0..n /\ b \in b..n
    BY <1>3
  <1>8. pending' = Part(body, b, n) /\ pending' \in Seq(Content(body)) /\ Len(pending') = n - b
    <2>1. b <= received /\ received <= n /\ n \in b..Len(body)
      BY <1>3, <1>7
    <2>2. Part(body, b, received) \o Part(body, received, n) = Part(body, b, n)
      BY <1>3, <1>7, <2>1, Setting, PartsJoin
    <2>3. Part(body, b, n) \in Seq(Content(body)) /\ Len(Part(body, b, n)) = n - b
      BY <1>7, <2>1, Setting, PartOf
    <2> QED
      BY <1>1, <1>6, <2>2, <2>3
  <1>9. NativeAt(k)'
    BY <1>1, <1>2, <1>6, <1>7, <1>8 DEF NativeAt
  <1>10. ReadTo(k)'
    BY <1>2, <1>4, <1>9 DEF ReadTo
  <1>11. Reading'
    BY <1>2, <1>10 DEF Reading
  <1>12. TypeOK'
    <2>1. start' \in 0..Len(pending')
      BY <1>2, <1>3, <1>6, <1>7, <1>8
    <2>2. pending' \in Seq({body'[i] : i \in DOMAIN body'})
      BY <1>2, <1>8 DEF Content
    <2> QED
      BY <1>1, <1>2, <1>3, <2>1, <2>2 DEF Inductive, TypeOK
  <1>13. Places'
    BY <1>2 DEF Inductive, Places
  <1>14. Ending'
    BY <1>2 DEF Ending
  <1> QED
    BY <1>11, <1>12, <1>13, <1>14 DEF Inductive

\* A line that is found in a part of the body is the body's next line.
LEMMA LineInPart ==
  ASSUME NEW S, NEW bytes \in Seq(S), NEW k \in Nat, NEW r \in 0..Len(bytes),
         NEW b \in 0..r, NEW p \in b..r, Cut(bytes, k, p),
         NEW s, s = Part(bytes, b, r),
         NEW q \in (p + 1)..r, s[q - b] = Newline, NoNewline(s, p - b, q - b - 1)
  PROVE  /\ Cut(bytes, k + 1, q)
         /\ k + 1 < Len(Lines(bytes))
         /\ Lines(bytes)[k + 1] = Part(s, p - b, q - b - 1)
  <1>1. /\ Len(bytes) \in Nat /\ r \in Nat /\ b \in Nat /\ p \in Nat /\ q \in Nat
        /\ b <= p /\ p < q /\ q <= r /\ r <= Len(bytes) /\ r \in b..Len(bytes)
    OBVIOUS
  <1>2. s \in Seq(S) /\ Len(s) = r - b /\ \A j \in 1..(r - b) : s[j] = bytes[b + j]
    BY <1>1, PartOf
  <1>3. q \in (p + 1)..Len(bytes) /\ q - b \in 1..(r - b) /\ b + (q - b) = q
    BY <1>1
  <1>4. bytes[q] = Newline
    BY <1>2, <1>3
  <1>5. NoNewline(bytes, p, q - 1)
    <2> SUFFICES ASSUME NEW j \in (p + 1)..(q - 1) PROVE bytes[j] # Newline
      BY DEF NoNewline
    <2>1. j - b \in (p - b + 1)..(q - b - 1) /\ j - b \in 1..(r - b) /\ b + (j - b) = j
      BY <1>1
    <2>2. s[j - b] # Newline
      BY <2>1 DEF NoNewline
    <2> QED
      BY <1>2, <2>1, <2>2
  <1>6. Part(s, p - b, q - b - 1) = Part(bytes, p, q - 1)
    <2> DEFINE e == q - 1
    <2>1. e \in Nat /\ p <= e /\ e <= r /\ q - b - 1 = e - b
      BY <1>1
    <2> HIDE DEF e
    <2>2. Part(Part(bytes, b, r), p - b, e - b) = Part(bytes, p, e)
      BY <1>1, <2>1, PartOfPart
    <2> QED
      BY <2>1, <2>2 DEF e
  <1>7. PICK e \in p..Len(bytes) : e = q - 1 /\ q = e + 1 /\ NoNewline(bytes, p, e)
    BY <1>1, <1>5
  <1>8. /\ Cut(bytes, k + 1, q)
        /\ k + 1 < Len(Lines(bytes))
        /\ Lines(bytes)[k + 1] = Part(bytes, p, e)
    <2>1. q \in 1..Len(bytes)
      BY <1>1
    <2> QED
      BY <1>4, <1>7, <2>1, NextCut
  <1> QED
    BY <1>6, <1>7, <1>8

\* The types of what a step of the native reader that parses a line leaves.
LEMMA ParsedType ==
  ASSUME Inductive, NEW k \in 0..Len(Lines(body)), ReadTo(k)',
         UNCHANGED <<build, max_rows, retries, body, attempt, received, pending, offset>>,
         pc' \in {"receiving", "chunk", "cursor", "finish", "done"},
         start' \in 0..Len(pending), limit_reached' \in BOOLEAN,
         outcome' \in {"open", "complete", "search_error", "broken"}
  PROVE  TypeOK'
  <1>1. rows' = Capped(EventsBefore(body, k), max_rows)
    BY DEF ReadTo
  <1>2. rows' \in Seq(Nat \X Nat)
    BY <1>1, Setting, RowsType
  <1>3. start' \in 0..Len(pending')
    OBVIOUS
  <1> QED
    BY <1>2, <1>3 DEF Inductive, TypeOK

\* A complete line is the next line of the body.  If it is a search error, no
\* more than max_rows events stand in front of it.
LEMMA ParseLineKeeps == Inductive /\ ParseLine => Inductive'
  <1> SUFFICES ASSUME Inductive, ParseLine PROVE Inductive'
    OBVIOUS
  <1> DEFINE newline == FindNewline(pending, start)
             line == Part(pending, start, newline - 1)
  <1>1. /\ pc = "chunk" /\ ~limit_reached /\ build = "native" /\ outcome = "open"
        /\ UNCHANGED <<build, max_rows, retries, body, expected>>
        /\ UNCHANGED <<attempt, received, pending, offset>>
        /\ newline # 0 /\ start' = newline
    BY DEF ParseLine, PastNewline, setup, Inductive, Places, TypeOK
  <1>2. PICK k \in 0..Len(Lines(body)) : ReadTo(k)
    BY DEF Inductive, Reading
  <1>3. PICK b \in 0..received : \E p \in b..received :
           /\ Cut(body, k, p)
           /\ pending = Part(body, b, received)
           /\ start = p - b
           /\ limit_reached <=> max_rows > 0 /\ max_rows < Len(EventsBefore(body, k))
    BY <1>1, <1>2 DEF ReadTo, NativeAt
  <1>4. PICK p \in b..received :
           /\ Cut(body, k, p)
           /\ pending = Part(body, b, received)
           /\ start = p - b
           /\ limit_reached <=> max_rows > 0 /\ max_rows < Len(EventsBefore(body, k))
    BY <1>3
  <1>5. /\ newline \in (start + 1)..Len(pending)
        /\ pending[newline] = Newline
        /\ NoNewline(pending, start, newline - 1)
    BY <1>1, Setting, FindNewlineFinds
  <1> HIDE DEF newline
  <1>6. /\ Cut(body, k + 1, b + newline)
        /\ k + 1 < Len(Lines(body))
        /\ Lines(body)[k + 1] = line
        /\ b + newline \in b..received
    <2>1. k \in Nat
      BY Setting
    <2>2. body \in Seq(Content(body)) /\ received \in 0..Len(body)
      BY Setting
    <2> DEFINE q == b + newline
    <2> HIDE DEF q
    <2>3. Len(pending) = received - b
      <3>1. b \in Nat /\ received \in b..Len(body)
        BY <2>2
      <3> QED
        BY <1>4, <2>2, <3>1, PartOf
    <2>4. /\ q \in (p + 1)..received /\ q = b + newline
          /\ q - b = newline /\ p - b = start
      BY <1>4, <1>5, <2>2, <2>3 DEF q
    <2>5. pending[q - b] = Newline /\ NoNewline(pending, p - b, q - b - 1)
      BY <1>5, <2>4
    <2>6. /\ Cut(body, k + 1, q)
          /\ k + 1 < Len(Lines(body))
          /\ Lines(body)[k + 1] = Part(pending, p - b, q - b - 1)
      BY <1>4, <2>1, <2>2, <2>4, <2>5, LineInPart
    <2>7. q \in b..received
      BY <2>2, <2>4
    <2> QED
      BY <2>4, <2>6, <2>7
  <1>7. /\ k + 1 \in 1..Len(Lines(body)) /\ k + 1 \in 0..Len(Lines(body)) /\ (k + 1) - 1 = k
        /\ newline \in 0..Len(pending)
    BY <1>5, <1>6, Setting
  <1>8. Len(EventsBefore(body, k)) \in Nat /\ max_rows \in Nat
    BY Setting, RowsType, <1>2 DEF ReadTo
  <1>9. max_rows = 0 \/ Len(EventsBefore(body, k)) < max_rows
            \/ Len(EventsBefore(body, k)) = max_rows
    BY <1>1, <1>4, <1>8
  <1>10. IsRead(k + 1)'
    BY <1>1, <1>7, <1>9 DEF IsRead
  <1> HIDE DEF line
  <1>11. CASE Fails(line)
    <2>1. pc' = "done" /\ outcome' = "search_error" /\ UNCHANGED <<rows, limit_reached>>
      BY <1>11 DEF ParseLine, Stop, line, newline, Part
    <2>2. ReadTo(k)'
      BY <1>1, <1>2, <2>1 DEF ReadTo
    <2>3. TypeOK'
      <3>1. limit_reached' \in BOOLEAN
        BY <2>1 DEF Inductive, TypeOK
      <3> QED
        BY <1>1, <1>7, <2>1, <2>2, <3>1, ParsedType
    <2>4. Places'
      BY <1>1, <2>1 DEF Inductive, Places
    <2>5. Reading'
      BY <1>1, <2>2 DEF Reading
    <2>6. Ending'
      BY <1>1, <1>6, <1>7, <1>10, <1>11, <2>1 DEF Ending
    <2> QED
      BY <2>3, <2>4, <2>5, <2>6 DEF Inductive
  <1>12. CASE ~Fails(line)
    <2>1. TakeRows(line) /\ limit_reached' = BeyondCap(line) /\ UNCHANGED <<pc, outcome>>
      BY <1>12 DEF ParseLine, line, newline, Part
    <2>2. rows = Capped(EventsBefore(body, k), max_rows)
      BY <1>2 DEF ReadTo
    <2>3. /\ rows' = Capped(EventsBefore(body, k + 1), max_rows)
          /\ Len(EventsBefore(body, k + 1))
               = Len(EventsBefore(body, k)) + Len(EventsOf(line))
      BY <1>6, <1>7, <2>1, <2>2, LineIsTaken
    <2>4. limit_reached' <=> max_rows > 0 /\ max_rows < Len(EventsBefore(body, k + 1))
      <3>1. Len(rows) = Len(EventsBefore(body, k))
        <4>1. Len(rows) = IF max_rows > 0 /\ max_rows < Len(EventsBefore(body, k))
                          THEN max_rows ELSE Len(EventsBefore(body, k))
          BY <2>2, RowsAt, Zenon
        <4> QED
          BY <1>8, <1>9, <4>1
      <3>2. Len(EventsOf(line)) \in Nat
        BY <1>6, <1>7, Setting, LinesOfBody
      <3> QED
        BY <1>8, <2>1, <2>3, <3>1, <3>2 DEF BeyondCap
    <2>5. NativeAt(k + 1)'
      <3>1. b \in 0..received' /\ b + newline \in b..received'
        BY <1>1, <1>6
      <3>2. start' = (b + newline) - b
        BY <1>1, <1>5, Setting
      <3>3. pending' = Part(body', b, received')
        BY <1>1, <1>4
      <3>4. pc' = "chunk"
        BY <1>1, <2>1
      <3> QED
        BY <1>1, <1>6, <2>4, <3>1, <3>2, <3>3, <3>4 DEF NativeAt
    <2>6. \A i \in 1..(k + 1) : ~Fails(Lines(body)[i])
      <3>1. \A i \in 1..(k + 1) : i \in 1..k \/ i = k + 1
        BY Setting
      <3> QED
        BY <1>2, <1>6, <1>12, <3>1 DEF ReadTo
    <2>7. ReadTo(k + 1)'
      BY <1>1, <2>1, <2>3, <2>5, <2>6 DEF ReadTo
    <2>8. TypeOK'
      <3>1. /\ limit_reached' \in BOOLEAN
            /\ pc' = "chunk" /\ outcome' = "open"
        BY <1>1, <2>1 DEF BeyondCap
      <3> QED
        BY <1>1, <1>7, <2>7, <3>1, ParsedType
    <2>9. Places'
      BY <1>1, <2>1 DEF Inductive, Places
    <2>10. Reading'
      BY <1>1, <1>7, <2>7 DEF Reading
    <2>11. Ending'
      BY <1>1, <2>1 DEF Ending
    <2> QED
      BY <2>8, <2>9, <2>10, <2>11 DEF Inductive
  <1> QED
    BY <1>11, <1>12

\* When the cap is exceeded, the lines that follow have no rows, and no search
\* error among them is read.
LEMMA CapEnds ==
  ASSUME Inductive, NEW k \in 0..Len(Lines(body)),
         rows = Capped(EventsBefore(body, k), max_rows),
         \A i \in 1..k : ~Fails(Lines(body)[i]),
         max_rows > 0,
         \/ max_rows < Len(EventsBefore(body, k))
         \/ build = "browser" /\ max_rows = Len(EventsBefore(body, k))
  PROVE  /\ rows = Capped(EventsBefore(body, Len(Lines(body))), max_rows)
         /\ \A i \in 1..Len(Lines(body)) : Fails(Lines(body)[i]) => ~IsRead(i)
  <1>1. /\ Len(Lines(body)) \in Nat /\ Len(Lines(body)) \in k..Len(Lines(body))
        /\ body \in Bodies /\ max_rows \in Nat /\ k \in Nat
    BY Setting
  <1>2. Len(EventsBefore(body, k)) \in Nat
    BY <1>1, EventsGrow
  <1>3. max_rows <= Len(EventsBefore(body, k))
    BY <1>1, <1>2
  <1>4. rows = Capped(EventsBefore(body, Len(Lines(body))), max_rows)
    BY <1>1, <1>3, CappedStays
  <1>5. ASSUME NEW i \in 1..Len(Lines(body)), Fails(Lines(body)[i]) PROVE ~IsRead(i)
    <2>1. i \notin 1..k
      BY <1>5
    <2> DEFINE j == i - 1
    <2>2. j \in k..Len(Lines(body))
      BY <1>1, <2>1
    <2> HIDE DEF j
    <2>3. Len(EventsBefore(body, j)) \in Nat
             /\ Len(EventsBefore(body, k)) <= Len(EventsBefore(body, j))
      BY <1>1, <2>2, EventsGrow
    <2> DEFINE before == Len(EventsBefore(body, j))
    <2>4. /\ max_rows # 0 /\ ~(before < max_rows)
          /\ ~(build = "native" /\ before = max_rows)
      BY <1>1, <1>2, <2>3
    <2>5. before = Len(EventsBefore(body, i - 1))
      BY DEF j
    <2> HIDE DEF before
    <2> QED
      BY <2>4, <2>5 DEF IsRead
  <1> QED
    BY <1>4, <1>5

\* What is parsed is erased; the last line that is incomplete remains.
LEMMA EndChunkKeeps == Inductive /\ EndChunk => Inductive'
  <1> SUFFICES ASSUME Inductive, EndChunk PROVE Inductive'
    OBVIOUS
  <1>1. /\ pc = "chunk" /\ build = "native" /\ outcome = "open"
        /\ UNCHANGED <<build, max_rows, retries, body, expected>>
        /\ UNCHANGED <<attempt, received, limit_reached, offset, rows, outcome>>
        /\ pending' = Part(pending, start, Len(pending)) /\ start' = 0
    BY DEF EndChunk, Unparsed, Part, setup, Inductive, Places, TypeOK
  <1>2. PICK k \in 0..Len(Lines(body)) : ReadTo(k)
    BY DEF Inductive, Reading
  <1>3. PICK b \in 0..received : \E p \in b..received :
           /\ Cut(body, k, p)
           /\ pending = Part(body, b, received)
           /\ start = p - b
           /\ limit_reached <=> max_rows > 0 /\ max_rows < Len(EventsBefore(body, k))
    BY <1>1, <1>2 DEF ReadTo, NativeAt
  <1>4. PICK p \in b..received :
           /\ Cut(body, k, p)
           /\ pending = Part(body, b, received)
           /\ start = p - b
           /\ limit_reached <=> max_rows > 0 /\ max_rows < Len(EventsBefore(body, k))
    BY <1>3
  <1>5. /\ body \in Seq(Content(body)) /\ received \in Nat /\ b \in Nat /\ p \in Nat
        /\ Len(body) \in Nat /\ b <= p /\ p <= received /\ received <= Len(body)
        /\ received \in b..Len(body) /\ received \in p..Len(body) /\ p \in 0..received
    BY Setting
  <1>6. pending \in Seq(Content(body)) /\ Len(pending) = received - b
           /\ \A j \in 1..(received - b) : pending[j] = body[b + j]
    BY <1>4, <1>5, PartOf
  <1>7. pending' = Part(body, p, received)
    <2>1. pending' = Part(pending, p - b, received - b)
      BY <1>1, <1>4, <1>6
    <2>2. Part(Part(body, b, received), p - b, received - b) = Part(body, p, received)
      BY <1>5, PartOfPart
    <2> QED
      BY <1>4, <2>1, <2>2
  <1>8. pending' \in Seq(Content(body)) /\ Len(pending') \in Nat
    <2>1. Part(body, p, received) \in Seq(Content(body))
      BY <1>5, PartOf
    <2> QED
      BY <1>7, <2>1
  <1>9. CASE limit_reached
    <2>1. pc' = "finish"
      BY <1>9 DEF EndChunk
    <2>2. max_rows > 0 /\ max_rows < Len(EventsBefore(body, k))
      BY <1>4, <1>9
    <2>3. /\ rows = Capped(EventsBefore(body, Len(Lines(body))), max_rows)
          /\ \A i \in 1..Len(Lines(body)) : Fails(Lines(body)[i]) => ~IsRead(i)
      BY <1>2, <2>2, CapEnds DEF ReadTo
    <2>4. ReadTo(k)'
      BY <1>1, <1>2, <2>1 DEF ReadTo
    <2>5. Reading'
      BY <1>1, <2>4 DEF Reading
    <2>6. Ending'
      BY <1>1, <2>1, <2>3 DEF Ending, IsRead
    <2>7. TypeOK'
      BY <1>1, <1>8, <2>1 DEF Inductive, TypeOK, Content
    <2>8. Places'
      BY <1>1, <2>1 DEF Inductive, Places
    <2> QED
      BY <2>5, <2>6, <2>7, <2>8 DEF Inductive
  <1>10. CASE ~limit_reached
    <2>1. pc' = "receiving" /\ FindNewline(pending, start) = 0
      BY <1>10 DEF EndChunk
    <2>2. NoNewline(pending, start, Len(pending))
      <3>1. start \in 0..Len(pending) /\ pending \in Seq(Content(body))
        BY Setting
      <3>2. 0 \notin (start + 1)..Len(pending)
        BY <3>1
      <3> QED
        BY <2>1, <3>1, <3>2, FindNewlineFinds
    <2>3. NoNewline(body, p, received)
      <3> SUFFICES ASSUME NEW i \in (p + 1)..received PROVE body[i] # Newline
        BY DEF NoNewline
      <3>1. i - b \in (start + 1)..Len(pending) /\ i - b \in 1..(received - b)
               /\ b + (i - b) = i
        BY <1>4, <1>5, <1>6
      <3> QED
        BY <1>6, <2>2, <3>1 DEF NoNewline
    <2>4. NativeAt(k)'
      <3>1. p \in 0..received' /\ p \in p..received' /\ start' = p - p
        BY <1>1, <1>5
      <3> QED
        BY <1>1, <1>4, <1>7, <1>10, <2>3, <3>1 DEF NativeAt
    <2>5. ReadTo(k)'
      BY <1>1, <1>2, <2>1, <2>4 DEF ReadTo
    <2>6. Reading'
      BY <1>1, <2>5 DEF Reading
    <2>7. Ending'
      BY <1>1, <2>1 DEF Ending
    <2>8. TypeOK'
      BY <1>1, <1>8, <2>1 DEF Inductive, TypeOK, Content
    <2>9. Places'
      BY <1>1, <2>1 DEF Inductive, Places
    <2> QED
      BY <2>6, <2>7, <2>8, <2>9 DEF Inductive
  <1> QED
    BY <1>9, <1>10

\* A request may be sent again only while nothing has been received: the lines
\* parsed and what is pending then belong to every attempt.
LEMMA BreakOffKeeps == Inductive /\ BreakOff => Inductive'
  <1> SUFFICES ASSUME Inductive, BreakOff PROVE Inductive'
    OBVIOUS
  <1>1. /\ pc = "receiving" /\ outcome = "open"
        /\ UNCHANGED <<build, max_rows, retries, body, expected>>
        /\ UNCHANGED <<pending, start, limit_reached, offset, rows>>
    BY DEF BreakOff, setup, Inductive, Places
  <1>2. PICK k \in 0..Len(Lines(body)) : ReadTo(k)
    BY DEF Inductive, Reading
  <1>3. CASE /\ MayReplay /\ attempt' = attempt + 1
             /\ received' = 0 /\ UNCHANGED <<pc, outcome>>
    <2>1. UNCHANGED received /\ attempt' \in 0..retries
      BY <1>3, Setting DEF MayReplay, Inductive, TypeOK
    <2>2. NativeAt(k) => NativeAt(k)'
      BY <1>1, <1>3, <2>1 DEF NativeAt
    <2>3. BrowserAt(k) => BrowserAt(k)'
      BY <1>1 DEF BrowserAt, CapIsReached
    <2>4. ReadTo(k)'
      BY <1>1, <1>2, <1>3, <2>2, <2>3 DEF ReadTo
    <2>5. Reading'
      BY <1>1, <2>4 DEF Reading
    <2>6. TypeOK'
      BY <1>1, <1>3, <2>1 DEF Inductive, TypeOK
    <2>7. Places' /\ Ending'
      BY <1>1, <1>3, <2>1 DEF Inductive, Places, Ending
    <2> QED
      BY <2>5, <2>6, <2>7 DEF Inductive
  <1>4. CASE Stop("broken") /\ UNCHANGED <<attempt, received>>
    <2>1. pc' = "done" /\ outcome' = "broken"
      BY <1>4 DEF Stop
    <2>2. ReadTo(k)'
      BY <1>1, <1>2, <2>1 DEF ReadTo
    <2>3. Reading'
      BY <1>1, <2>2 DEF Reading
    <2>4. TypeOK'
      BY <1>1, <1>4, <2>1 DEF Inductive, TypeOK
    <2>5. Places' /\ Ending'
      BY <1>1, <1>4, <2>1 DEF Inductive, Places, Ending
    <2> QED
      BY <2>3, <2>4, <2>5 DEF Inductive
  <1> QED
    BY <1>3, <1>4 DEF BreakOff

\* The bytes behind the last newline are the last line.
LEMMA ParseTailKeeps == Inductive /\ ParseTail => Inductive'
  <1> SUFFICES ASSUME Inductive, ParseTail PROVE Inductive'
    OBVIOUS
  <1>1. /\ pc = "receiving" /\ build = "native" /\ outcome = "open" /\ received = Len(body)
        /\ UNCHANGED <<build, max_rows, retries, body, expected>>
        /\ UNCHANGED <<attempt, received, pending, start, limit_reached, offset>>
    BY DEF ParseTail, setup, native, Inductive, Places
  <1>2. PICK k \in 0..Len(Lines(body)) : ReadTo(k)
    BY DEF Inductive, Reading
  <1>3. PICK b \in 0..received :
           /\ Cut(body, k, b)
           /\ pending = Part(body, b, received)
           /\ limit_reached <=> max_rows > 0 /\ max_rows < Len(EventsBefore(body, k))
           /\ NoNewline(body, b, received) /\ ~limit_reached
    BY <1>1, <1>2 DEF ReadTo, NativeAt
  <1>4. Len(Lines(body)) = k + 1 /\ Lines(body)[k + 1] = pending
    <2>1. k \in Nat /\ body \in Seq(Content(body))
      BY Setting
    <2> QED
      BY <1>1, <1>3, <2>1, LastCut
  <1>5. k + 1 \in 1..Len(Lines(body)) /\ k + 1 \in 0..Len(Lines(body)) /\ (k + 1) - 1 = k
    BY <1>4, Setting
  <1>6. Len(EventsBefore(body, k)) \in Nat /\ max_rows \in Nat
    BY Setting, RowsType, <1>2 DEF ReadTo
  <1>7. \/ max_rows = 0
        \/ Len(EventsBefore(body, k)) < max_rows
        \/ Len(EventsBefore(body, k)) = max_rows
    BY <1>3, <1>6
  <1>8. limit_reached \in BOOLEAN /\ start \in 0..Len(pending)
    BY DEF Inductive, TypeOK
  <1>9. CASE Fails(pending)
    <2>1. pc' = "done" /\ outcome' = "search_error" /\ UNCHANGED rows
      BY <1>9 DEF ParseTail, Stop
    <2>2. ReadTo(k)'
      BY <1>1, <1>2, <2>1 DEF ReadTo
    <2>3. TypeOK'
      BY <1>1, <1>8, <2>1, <2>2, ParsedType
    <2>4. Places'
      BY <1>1, <2>1 DEF Inductive, Places
    <2>5. Reading'
      BY <1>1, <2>2 DEF Reading
    <2>6. Ending'
      <3>1. IsRead(k + 1)'
        BY <1>1, <1>5, <1>7 DEF IsRead
      <3> QED
        BY <1>1, <1>4, <1>5, <1>9, <2>1, <3>1 DEF Ending
    <2> QED
      BY <2>3, <2>4, <2>5, <2>6 DEF Inductive
  <1>10. CASE ~Fails(pending)
    <2>1. TakeRows(pending) /\ pc' = "finish" /\ outcome' = "open"
      BY <1>1, <1>10 DEF ParseTail
    <2>2. rows' = Capped(EventsBefore(body, k + 1), max_rows)
      <3>1. rows = Capped(EventsBefore(body, k), max_rows)
        BY <1>2 DEF ReadTo
      <3> QED
        BY <1>4, <1>5, <2>1, <3>1, LineIsTaken
    <2>3. \A i \in 1..(k + 1) : ~Fails(Lines(body)[i])
      <3>1. \A i \in 1..(k + 1) : i \in 1..k \/ i = k + 1
        BY Setting
      <3> QED
        BY <1>2, <1>4, <1>10, <3>1 DEF ReadTo
    <2>4. ReadTo(k + 1)'
      BY <1>1, <2>1, <2>2, <2>3 DEF ReadTo
    <2>5. TypeOK'
      BY <1>1, <1>5, <1>8, <2>1, <2>4, ParsedType
    <2>6. Places'
      BY <1>1, <2>1 DEF Inductive, Places
    <2>7. Reading'
      BY <1>1, <1>5, <2>4 DEF Reading
    <2>8. Ending'
      BY <1>1, <1>4, <2>1, <2>2, <2>3 DEF Ending
    <2> QED
      BY <2>5, <2>6, <2>7, <2>8 DEF Inductive
  <1> QED
    BY <1>9, <1>10

\* The producer reports the end only with all rows.
LEMMA FinishKeeps == Inductive /\ Finish => Inductive'
  <1> SUFFICES ASSUME Inductive, Finish PROVE Inductive'
    OBVIOUS
  <1>1. /\ pc = "finish" /\ pc' = "done" /\ outcome' = "complete" /\ build = "native"
        /\ UNCHANGED <<build, max_rows, retries, body, expected>>
        /\ UNCHANGED <<attempt, received, pending, start, limit_reached, offset, rows>>
    BY DEF Finish, Stop, setup, native, Inductive, Places, TypeOK
  <1>2. PICK k \in 0..Len(Lines(body)) : ReadTo(k)
    BY DEF Inductive, Reading
  <1>3. ReadTo(k)'
    BY <1>1, <1>2 DEF ReadTo
  <1>4. Reading'
    BY <1>1, <1>3 DEF Reading
  <1>5. TypeOK'
    BY <1>1 DEF Inductive, TypeOK
  <1>6. Places'
    BY <1>1 DEF Inductive, Places
  <1>7. Ending'
    BY <1>1 DEF Inductive, Ending, IsRead
  <1> QED
    BY <1>4, <1>5, <1>6, <1>7 DEF Inductive

-----------------------------------------------------------------------------
(***************************************************************************)
(* One lemma per action of the browser's reader.                           *)
(***************************************************************************)
LEMMA FetchBrowserResponseKeeps == Inductive /\ FetchBrowserResponse => Inductive'
  <1> SUFFICES ASSUME Inductive, FetchBrowserResponse PROVE Inductive'
    OBVIOUS
  <1>1. /\ pc = "receiving" /\ build = "browser" /\ pc' = "cursor" /\ outcome = "open"
        /\ UNCHANGED <<build, max_rows, retries, body, expected>>
        /\ UNCHANGED <<attempt, received, pending, start, limit_reached, offset, rows, outcome>>
    BY DEF FetchBrowserResponse, setup, native, Inductive, Places
  <1>2. PICK k \in 0..Len(Lines(body)) : ReadTo(k)
    BY DEF Inductive, Reading
  <1>3. BrowserAt(k)'
    BY <1>1, <1>2 DEF ReadTo, BrowserAt, CapIsReached
  <1>4. ReadTo(k)'
    BY <1>1, <1>2, <1>3 DEF ReadTo
  <1>5. Reading'
    BY <1>1, <1>4 DEF Reading
  <1>6. TypeOK'
    BY <1>1 DEF Inductive, TypeOK
  <1>7. Places'
    BY <1>1 DEF Inductive, Places
  <1>8. Ending'
    BY <1>1 DEF Ending
  <1> QED
    BY <1>5, <1>6, <1>7, <1>8 DEF Inductive

\* The line at the cursor is the next line of the body, whether it ends at a
\* newline or with the body.  Fewer than max_rows events stand in front of it.
LEMMA ParseAtCursorKeeps == Inductive /\ ParseAtCursor => Inductive'
  <1> SUFFICES ASSUME Inductive, ParseAtCursor PROVE Inductive'
    OBVIOUS
  <1> DEFINE newline == FindNewline(body, offset)
             line == SubSeq(body, offset + 1, LineEnd - 1)
  <1>1. /\ pc = "cursor" /\ build = "browser" /\ outcome = "open"
        /\ offset < Len(body) /\ ~CapIsReached
        /\ UNCHANGED <<build, max_rows, retries, body, expected>>
        /\ UNCHANGED <<attempt, received, pending, start, limit_reached>>
    BY DEF ParseAtCursor, setup, native, Inductive, Places, TypeOK
  <1>2. PICK k \in 0..Len(Lines(body)) : ReadTo(k)
    BY DEF Inductive, Reading
  <1>3. /\ body \in Seq(Content(body)) /\ k \in Nat /\ Len(body) \in Nat
        /\ offset \in 0..Len(body) /\ limit_reached \in BOOLEAN /\ start \in 0..Len(pending)
    BY <1>1, Setting DEF Inductive, TypeOK
  <1>4. Cut(body, k, offset)
    <2>1. ~(offset > Len(body)) /\ offset # Len(body)
      BY <1>1, <1>3
    <2> QED
      BY <1>1, <1>2, <2>1 DEF ReadTo, BrowserAt
  <1>5. /\ k + 1 \in 1..Len(Lines(body)) /\ k + 1 \in 0..Len(Lines(body)) /\ (k + 1) - 1 = k
        /\ Lines(body)[k + 1] = line
        /\ LineEnd \in 0..(Len(body) + 1)
        /\ \/ Cut(body, k + 1, LineEnd)
           \/ LineEnd > Len(body) /\ k + 1 = Len(Lines(body))
    <2>1. CASE /\ newline \in (offset + 1)..Len(body)
               /\ body[newline] = Newline
               /\ NoNewline(body, offset, newline - 1)
      <3>1. newline # 0 /\ newline \in 1..Len(body) /\ newline \in 0..(Len(body) + 1)
        BY <1>3, <2>1
      <3>2. LineEnd = newline
        BY <3>1 DEF LineEnd
      <3> HIDE DEF newline
      <3>3. PICK e \in offset..Len(body) :
               e = newline - 1 /\ newline = e + 1 /\ NoNewline(body, offset, e)
        BY <1>3, <2>1
      <3>4. /\ Cut(body, k + 1, newline)
            /\ k + 1 < Len(Lines(body))
            /\ Lines(body)[k + 1] = Part(body, offset, e)
        BY <1>3, <1>4, <2>1, <3>1, <3>3, NextCut
      <3>5. line = Part(body, offset, e)
        BY <3>2, <3>3 DEF Part
      <3>6. /\ k + 1 \in 1..Len(Lines(body)) /\ k + 1 \in 0..Len(Lines(body))
            /\ (k + 1) - 1 = k
        BY <1>3, <3>4, Setting
      <3> HIDE DEF line
      <3> QED
        BY <3>1, <3>2, <3>4, <3>5, <3>6
    <2>2. CASE newline = 0 /\ NoNewline(body, offset, Len(body))
      <3>1. LineEnd = Len(body) + 1
        BY <2>2 DEF LineEnd
      <3>2. LineEnd - 1 = Len(body) /\ LineEnd > Len(body) /\ LineEnd \in 0..(Len(body) + 1)
        BY <1>3, <3>1
      <3>3. /\ Len(Lines(body)) = k + 1
            /\ Lines(body)[k + 1] = Part(body, offset, Len(body))
        BY <1>3, <1>4, <2>2, LastCut
      <3>4. line = Part(body, offset, Len(body))
        BY <3>2 DEF Part
      <3>5. /\ k + 1 \in 1..Len(Lines(body)) /\ k + 1 \in 0..Len(Lines(body))
            /\ (k + 1) - 1 = k
        BY <1>3, <3>3
      <3> HIDE DEF line
      <3> QED
        BY <3>2, <3>3, <3>4, <3>5
    <2> QED
      BY <1>3, <2>1, <2>2, FindNewlineFinds
  <1> HIDE DEF line
  <1>6. rows = Capped(EventsBefore(body, k), max_rows)
    BY <1>2 DEF ReadTo
  <1>7. CASE Fails(line)
    <2>1. pc' = "done" /\ outcome' = "search_error" /\ UNCHANGED <<rows, offset>>
      BY <1>7 DEF ParseAtCursor, Stop, line
    <2>2. ReadTo(k)'
      BY <1>1, <1>2, <2>1 DEF ReadTo
    <2>3. TypeOK'
      BY <1>1, <1>3, <2>1, <2>2, ParsedType
    <2>4. Places'
      BY <1>1, <2>1 DEF Inductive, Places
    <2>5. Reading'
      BY <1>1, <2>2 DEF Reading
    <2>6. IsRead(k + 1)'
      <3>1. Len(rows) = IF max_rows > 0 /\ max_rows < Len(EventsBefore(body, k))
                        THEN max_rows ELSE Len(EventsBefore(body, k))
        BY <1>6, RowsAt, Zenon
      <3>2. Len(EventsBefore(body, k)) \in Nat /\ max_rows \in Nat
        BY <1>6, Setting, RowsType
      <3>3. max_rows = 0 \/ Len(EventsBefore(body, k)) < max_rows
        BY <1>1, <3>1, <3>2 DEF CapIsReached
      <3> QED
        BY <1>1, <1>5, <3>3 DEF IsRead
    <2>7. Ending'
      BY <1>1, <1>5, <1>7, <2>1, <2>6 DEF Ending
    <2> QED
      BY <2>3, <2>4, <2>5, <2>7 DEF Inductive
  <1>8. CASE ~Fails(line)
    <2>1. TakeRows(line) /\ offset' = LineEnd /\ UNCHANGED <<pc, outcome>>
      BY <1>8 DEF ParseAtCursor, line
    <2>2. rows' = Capped(EventsBefore(body, k + 1), max_rows)
      BY <1>5, <1>6, <2>1, LineIsTaken
    <2>3. \A i \in 1..(k + 1) : ~Fails(Lines(body)[i])
      <3>1. \A i \in 1..(k + 1) : i \in 1..k \/ i = k + 1
        BY <1>3
      <3> QED
        BY <1>2, <1>5, <1>8, <3>1 DEF ReadTo
    <2>4. BrowserAt(k + 1)'
      BY <1>1, <1>5, <2>1 DEF BrowserAt
    <2>5. ReadTo(k + 1)'
      BY <1>1, <2>1, <2>2, <2>3, <2>4 DEF ReadTo
    <2>6. TypeOK'
      <3>1. rows' \in Seq(Nat \X Nat)
        BY <1>5, <2>2, Setting, RowsType
      <3> QED
        BY <1>1, <1>5, <2>1, <3>1 DEF Inductive, TypeOK
    <2>7. Places'
      BY <1>1, <2>1 DEF Inductive, Places
    <2>8. Reading'
      BY <1>1, <1>5, <2>5 DEF Reading
    <2>9. Ending'
      BY <1>1, <2>1 DEF Ending
    <2> QED
      BY <2>6, <2>7, <2>8, <2>9 DEF Inductive
  <1> QED
    BY <1>7, <1>8

\* The rest of the response is passed over only when the cap is reached.
LEMMA SkipRestKeeps == Inductive /\ SkipRest => Inductive'
  <1> SUFFICES ASSUME Inductive, SkipRest PROVE Inductive'
    OBVIOUS
  <1>1. /\ pc = "cursor" /\ build = "browser" /\ outcome = "open"
        /\ CapIsReached /\ offset' = Len(body)
        /\ UNCHANGED <<build, max_rows, retries, body, expected>>
        /\ UNCHANGED <<pc, attempt, received, pending, start, limit_reached, rows, outcome>>
    BY DEF SkipRest, setup, native, Inductive, Places, TypeOK
  <1>2. PICK k \in 0..Len(Lines(body)) : ReadTo(k)
    BY DEF Inductive, Reading
  <1>3. BrowserAt(k)'
    BY <1>1 DEF BrowserAt, CapIsReached
  <1>4. ReadTo(k)'
    BY <1>1, <1>2, <1>3 DEF ReadTo
  <1>5. Reading'
    BY <1>1, <1>4 DEF Reading
  <1>6. TypeOK'
    <2>1. Len(body) \in 0..(Len(body) + 1)
      BY Setting
    <2> QED
      BY <1>1, <2>1 DEF Inductive, TypeOK
  <1>7. Places'
    BY <1>1 DEF Inductive, Places
  <1>8. Ending'
    BY <1>1 DEF Ending
  <1> QED
    BY <1>5, <1>6, <1>7, <1>8 DEF Inductive

\* The cursor is at the end: what is left is a blank line, or nothing, or what
\* the cap makes irrelevant.
LEMMA EndOfResponseKeeps == Inductive /\ EndOfResponse => Inductive'
  <1> SUFFICES ASSUME Inductive, EndOfResponse PROVE Inductive'
    OBVIOUS
  <1>1. /\ pc = "cursor" /\ build = "browser" /\ offset >= Len(body)
        /\ pc' = "done" /\ outcome' = "complete"
        /\ UNCHANGED <<build, max_rows, retries, body, expected>>
        /\ UNCHANGED <<attempt, received, pending, start, limit_reached, offset, rows>>
    BY DEF EndOfResponse, Stop, setup, native, Inductive, Places, TypeOK
  <1>2. PICK k \in 0..Len(Lines(body)) : ReadTo(k)
    BY DEF Inductive, Reading
  <1>3. /\ body \in Bodies /\ body \in Seq(Content(body)) /\ k \in Nat /\ Len(body) \in Nat
        /\ max_rows \in Nat
    BY Setting
  <1>4. /\ rows = Capped(EventsBefore(body, k), max_rows)
        /\ \A i \in 1..k : ~Fails(Lines(body)[i])
    BY <1>2 DEF ReadTo
  <1>5. /\ rows = Capped(EventsBefore(body, Len(Lines(body))), max_rows)
        /\ \A i \in 1..Len(Lines(body)) : Fails(Lines(body)[i]) => ~IsRead(i)
    <2>1. CASE Cut(body, k, offset)
      <3>1. offset = Len(body)
        BY <1>1, <1>3, <2>1 DEF Cut
      <3>2. NoNewline(body, offset, Len(body))
        <4>1. (offset + 1)..Len(body) = {}
          BY <1>3, <3>1
        <4> QED
          BY <4>1 DEF NoNewline
      <3>3. /\ Len(Lines(body)) = k + 1
            /\ Lines(body)[k + 1] = Part(body, offset, Len(body))
        BY <1>3, <2>1, <3>2, LastCut
      <3>4. Part(body, offset, Len(body)) = <<>>
        BY <1>3, <3>1 DEF Part
      <3>5. EventsOf(Lines(body)[k + 1]) = <<>> /\ ~Fails(Lines(body)[k + 1])
        BY <3>3, <3>4, BlankLine
      <3>6. /\ k + 1 \in 1..Len(Lines(body)) /\ k \in 0..Len(Lines(body)) /\ (k + 1) - 1 = k
            /\ \A i \in 1..(k + 1) : i \in 1..k \/ i = k + 1
        BY <1>3, <3>3
      <3>7. EventsBefore(body, k + 1) = EventsBefore(body, k) \o <<>>
        BY <1>3, <3>5, <3>6, LinesOfBody
      <3>8. EventsBefore(body, k) \in Seq(Event)
        BY <1>3, <3>6, LinesOfBody
      <3>9. EventsBefore(body, k + 1) = EventsBefore(body, k)
        <4> DEFINE s == EventsBefore(body, k)
        <4>1. s \in Seq(Event)
          BY <3>8
        <4> HIDE DEF s
        <4>2. s \o <<>> = s
          BY <4>1
        <4> QED
          BY <3>7, <4>2 DEF s
      <3> QED
        BY <1>4, <3>3, <3>5, <3>6, <3>9
    <2>2. CASE k = Len(Lines(body))
      BY <1>4, <2>2
    <2>3. CASE CapIsReached
      <3>1. Len(rows) = IF max_rows > 0 /\ max_rows < Len(EventsBefore(body, k))
                        THEN max_rows ELSE Len(EventsBefore(body, k))
        BY <1>4, RowsAt, Zenon
      <3>2. Len(EventsBefore(body, k)) \in Nat
        BY <1>3, <1>4, RowsType
      <3>3. max_rows > 0 /\ (\/ max_rows < Len(EventsBefore(body, k))
                             \/ max_rows = Len(EventsBefore(body, k)))
        BY <1>3, <2>3, <3>1, <3>2 DEF CapIsReached
      <3> QED
        BY <1>1, <1>4, <3>3, CapEnds
    <2> QED
      BY <1>1, <1>2, <2>1, <2>2, <2>3 DEF ReadTo, BrowserAt
  <1>6. ReadTo(k)'
    BY <1>1, <1>2 DEF ReadTo
  <1>7. Reading'
    BY <1>1, <1>6 DEF Reading
  <1>8. TypeOK'
    BY <1>1 DEF Inductive, TypeOK
  <1>9. Places'
    BY <1>1 DEF Inductive, Places
  <1>10. Ending'
    BY <1>1, <1>5 DEF Ending, IsRead
  <1> QED
    BY <1>7, <1>8, <1>9, <1>10 DEF Inductive

-----------------------------------------------------------------------------
\* Every step keeps the invariant.
LEMMA InductiveNext == Inductive /\ [Next]_vars => Inductive'
  <1> SUFFICES ASSUME Inductive, [Next]_vars PROVE Inductive'
    OBVIOUS
  <1>1. CASE Terminated \/ UNCHANGED vars
    <2>1. UNCHANGED vars
      BY <1>1 DEF Terminated
    <2>2. UNCHANGED <<build, max_rows, retries, body, expected, pc, attempt, received,
                      pending, start, limit_reached, offset, rows, outcome>>
      BY <2>1 DEF vars, setup, native
    <2>3. TypeOK' /\ Places' /\ Ending'
      BY <2>2 DEF Inductive, TypeOK, Places, Ending, IsRead
    <2>4. Reading'
      BY <2>2 DEF Inductive, Reading, ReadTo, NativeAt, BrowserAt, CapIsReached
    <2> QED
      BY <2>3, <2>4 DEF Inductive
  <1> QED
    BY <1>1, ReceiveKeeps, ParseLineKeeps, EndChunkKeeps, BreakOffKeeps, ParseTailKeeps,
       FinishKeeps, FetchBrowserResponseKeeps, ParseAtCursorKeeps, SkipRestKeeps,
       EndOfResponseKeeps DEF Next

\* The reader of either build always stands behind some lines of its body and
\* has handed on their events.
THEOREM LinesInductiveInvariant == Spec => []Inductive
  BY InductiveInit, InductiveNext, PTL DEF Spec

\* Every variable of the two readers stays in its range: "start" never passes
\* what is pending, and the cursor never passes the end of the response by
\* more than the newline that a last line lacks.
THEOREM LinesTypeCorrect == Spec => []TypeOK
  <1>1. Inductive => TypeOK
    BY DEF Inductive
  <1> QED
    BY <1>1, LinesInductiveInvariant, PTL

-----------------------------------------------------------------------------
(***************************************************************************)
(* The safety properties.                                                  *)
(***************************************************************************)
LEMMA RowsAreEventsHolds == Inductive => RowsAreEvents
  <1> SUFFICES ASSUME Inductive PROVE RowsAreEvents
    OBVIOUS
  <1>1. PICK k \in 0..Len(Lines(body)) : rows = Capped(EventsBefore(body, k), max_rows)
    BY DEF Inductive, Reading, ReadTo
  <1> DEFINE e == EventsBefore(body, k)
             all == EventsBefore(body, Len(Lines(body)))
  <1>2. /\ body \in Bodies /\ max_rows \in Nat /\ Lines(body) \in Seq(Seq(Content(body)))
        /\ Len(Lines(body)) \in k..Len(Lines(body)) /\ Len(Lines(body)) \in 0..Len(Lines(body))
    BY Setting
  <1>3. e \in Seq(Event) /\ all \in Seq(Event)
    BY <1>2, LinesOfBody
  <1>4. Len(e) <= Len(all) /\ \A i \in 1..Len(e) : all[i] = e[i]
    BY <1>2, ThroughGrows DEF EventsBefore
  <1>5. expected.events = all
    BY DEF Inductive, Places, Expected, EventsBefore
  <1> HIDE DEF e, all
  <1>6. /\ rows \in Seq(Event)
        /\ Len(rows) <= Len(e)
        /\ \A i \in 1..Len(rows) : i \in 1..Len(e) /\ rows[i] = e[i]
    <2>1. rows = Capped(e, max_rows)
      BY <1>1 DEF e
    <2> QED
      BY <1>2, <1>3, <2>1, CappedType
  <1>7. Len(rows) <= Len(all) /\ \A i \in 1..Len(rows) : rows[i] = all[i]
    BY <1>3, <1>4, <1>6
  <1>8. SubSeq(rows, 1, Len(rows)) = SubSeq(all, 1, Len(rows))
    BY <1>3, <1>6, <1>7
  <1> QED
    BY <1>5, <1>7, <1>8 DEF RowsAreEvents, IsPrefix

\* Whichever build reads a body, in whatever chunks it arrives, and however
\* often the request is sent again: the rows are the events of the body's
\* lines, in order, none twice and none left out.
THEOREM RowsAreEventsCorrect == Spec => []RowsAreEvents
  BY RowsAreEventsHolds, LinesInductiveInvariant, PTL

\* Between chunks the native reader stands right behind a newline, and what is
\* pending has none.
LEMMA PendingIsPartialHolds == Inductive => PendingIsPartial
  <1> SUFFICES ASSUME Inductive, pc = "receiving"
               PROVE  pending = Last(LinesOf(body, received))
    BY DEF PendingIsPartial, LinesOf
  <1>1. body \in Seq(Content(body)) /\ received \in 0..Len(body)
    BY Setting
  <1>2. CASE build = "browser"
    <2>1. received = 0 /\ pending = <<>>
      BY <1>2 DEF Inductive, Places
    <2>2. LinesOf(body, received) = << <<>> >>
      BY <1>1, <2>1, LinesOfNext
    <2> QED
      BY <2>1, <2>2 DEF Last
  <1>3. CASE build = "native"
    <2>1. PICK k \in 0..Len(Lines(body)) : NativeAt(k)
      BY <1>3 DEF Inductive, Reading, ReadTo
    <2>2. PICK b \in 0..received :
             /\ Cut(body, k, b)
             /\ pending = Part(body, b, received)
             /\ NoNewline(body, b, received)
      BY <2>1 DEF NativeAt
    <2>3. k \in Nat /\ received \in b..Len(body)
      BY <1>1, Setting
    <2>4. /\ Len(LinesOf(body, received)) = k + 1
          /\ LinesOf(body, received)[k + 1] = SubSeq(body, b + 1, received)
      BY <1>1, <2>2, <2>3, LineGrows
    <2> QED
      BY <2>2, <2>4 DEF Last, Part
  <1> QED
    BY <1>2, <1>3 DEF Inductive, TypeOK

\* Between two chunks the parser holds one incomplete line and no more: the
\* bytes of this attempt behind the last newline.
THEOREM PendingIsPartialCorrect == Spec => []PendingIsPartial
  BY PendingIsPartialHolds, LinesInductiveInvariant, PTL

\* Record k of the response stands for line k of the body.
LEMMA RecordsOfBody ==
  ASSUME Inductive
  PROVE  /\ Len(expected.records) = Len(Lines(body))
         /\ DOMAIN expected.records = 1..Len(Lines(body))
         /\ \A k \in 1..Len(Lines(body)) :
               /\ expected.records[k].from = Len(EventsBefore(body, k - 1))
               /\ expected.records[k].to = Len(EventsBefore(body, k))
               /\ expected.records[k].fatal = Fails(Lines(body)[k])
  <1>1. expected.records = Records(Lines(body))
    BY DEF Inductive, Places, Expected
  <1>2. DOMAIN Lines(body) = 1..Len(Lines(body)) /\ Len(Lines(body)) \in Nat
    BY Setting
  <1>3. DOMAIN Records(Lines(body)) = 1..Len(Lines(body))
    BY <1>2 DEF Records
  <1>4. Len(Records(Lines(body))) = Len(Lines(body))
    BY <1>2, <1>3
  <1>5. \A k \in 1..Len(Lines(body)) :
           /\ Records(Lines(body))[k].from = Len(EventsBefore(body, k - 1))
           /\ Records(Lines(body))[k].to = Len(EventsBefore(body, k))
           /\ Records(Lines(body))[k].fatal = Fails(Lines(body)[k])
    BY <1>2 DEF Records, EventsBefore
  <1> QED
    BY <1>1, <1>3, <1>4, <1>5

\* IsRead(k) is what the property says of the record of line k.
LEMMA SearchErrorAtCapHolds == Inductive => SearchErrorAtCap
  <1> SUFFICES ASSUME Inductive PROVE SearchErrorAtCap
    OBVIOUS
  <1> DEFINE records == expected.records
             BeforeCap(k) == \/ max_rows = 0
                             \/ records[k].from < max_rows
                             \/ build = "native" /\ records[k].from = max_rows
             fails == \E k \in DOMAIN records : records[k].fatal /\ BeforeCap(k)
  <1>1. \A k \in 1..Len(Lines(body)) :
           records[k].fatal /\ BeforeCap(k) <=> Fails(Lines(body)[k]) /\ IsRead(k)
    BY RecordsOfBody DEF IsRead
  <1>2. fails <=> \E k \in 1..Len(Lines(body)) : Fails(Lines(body)[k]) /\ IsRead(k)
    BY <1>1, RecordsOfBody
  <1>3. /\ outcome = "search_error" => fails
        /\ outcome = "complete" => ~fails
    <2> HIDE DEF fails
    <2> QED
      BY <1>2 DEF Inductive, Ending
  <1> QED
    BY <1>3 DEF SearchErrorAtCap

\* A scan fails for a search error exactly if its build reads the error's line
\* before the cap ends the reading; the native build reads one event further.
THEOREM SearchErrorAtCapCorrect == Spec => []SearchErrorAtCap
  BY SearchErrorAtCapHolds, LinesInductiveInvariant, PTL

-----------------------------------------------------------------------------
(***************************************************************************)
(* Both readers implement LogScan.                                         *)
(***************************************************************************)
delivered == [i \in DOMAIN rows |-> i]

\* The rows are numbered from 1 without a gap.
LEMMA RowsAreTyped ==
  ASSUME Inductive
  PROVE  /\ DOMAIN rows = 1..Len(rows) /\ Len(rows) \in Nat
         /\ delivered = [i \in 1..Len(rows) |-> i] /\ Len(delivered) = Len(rows)
  <1>1. rows \in Seq(Nat \X Nat)
    BY DEF Inductive, TypeOK
  <1> QED
    BY <1>1 DEF delivered

\* All rows that are wanted are those of all lines, as far as the cap admits.
LEMMA WantedRows ==
  ASSUME Inductive
  PROVE  Abstract!Wanted(expected.records, max_rows)
            = Len(Capped(EventsBefore(body, Len(Lines(body))), max_rows))
  <1>1. /\ Len(Lines(body)) \in 0..Len(Lines(body)) /\ Len(Lines(body)) # 0
        /\ Len(Lines(body)) \in 1..Len(Lines(body))
        /\ body \in Bodies /\ max_rows \in Nat
    BY Setting
  <1> DEFINE total == Len(EventsBefore(body, Len(Lines(body))))
  <1>2. Abstract!RowsThrough(expected.records, Len(expected.records)) = total
    BY <1>1, RecordsOfBody DEF Abstract!RowsThrough
  <1>3. Len(Capped(EventsBefore(body, Len(Lines(body))), max_rows))
           = IF max_rows > 0 /\ max_rows < total THEN max_rows ELSE total
    BY <1>1, RowsType
  <1> HIDE DEF total
  <1> QED
    BY <1>2, <1>3 DEF Abstract!Wanted

\* The rows so far are wanted, and stand in front of every search error.
LEMMA RowsDeliverable ==
  Inductive => Abstract!Deliverable(expected.records, max_rows, Len(rows))
  <1> SUFFICES ASSUME Inductive
               PROVE  Abstract!Deliverable(expected.records, max_rows, Len(rows))
    OBVIOUS
  <1>1. PICK k \in 0..Len(Lines(body)) :
           /\ rows = Capped(EventsBefore(body, k), max_rows)
           /\ \A i \in 1..k : ~Fails(Lines(body)[i])
    BY DEF Inductive, Reading, ReadTo
  <1>2. /\ body \in Bodies /\ max_rows \in Nat /\ k \in Nat /\ Len(Lines(body)) \in Nat
        /\ Len(Lines(body)) \in k..Len(Lines(body)) /\ Len(Lines(body)) \in 0..Len(Lines(body))
    BY Setting
  <1> DEFINE e == Len(EventsBefore(body, k))
             total == Len(EventsBefore(body, Len(Lines(body))))
  <1>3. e \in Nat /\ total \in Nat /\ e <= total
    BY <1>2, EventsGrow
  <1>4. Len(rows) = IF max_rows > 0 /\ max_rows < e THEN max_rows ELSE e
    BY <1>1, RowsAt, Zenon
  <1>5. Abstract!Wanted(expected.records, max_rows)
           = IF max_rows > 0 /\ max_rows < total THEN max_rows ELSE total
    <2>1. Len(Capped(EventsBefore(body, Len(Lines(body))), max_rows))
             = IF max_rows > 0 /\ max_rows < total THEN max_rows ELSE total
      BY <1>2, RowsType
    <2> QED
      BY <2>1, WantedRows
  <1>6. ASSUME NEW j \in 1..Len(Lines(body)), Fails(Lines(body)[j])
        PROVE  Len(rows) <= Len(EventsBefore(body, j - 1))
    <2>1. j \notin 1..k
      BY <1>1, <1>6
    <2>2. PICK i \in k..Len(Lines(body)) : i = j - 1
      BY <1>2, <2>1
    <2>3. Len(EventsBefore(body, i)) \in Nat /\ e <= Len(EventsBefore(body, i))
      BY <1>2, EventsGrow
    <2>4. EventsBefore(body, i) = EventsBefore(body, j - 1)
      BY <2>2
    <2> HIDE DEF e
    <2>5. Len(rows) <= Len(EventsBefore(body, i))
      BY <1>2, <1>3, <1>4, <2>3
    <2> QED
      BY <2>4, <2>5
  <1> HIDE DEF e, total
  <1>7. Len(rows) <= Abstract!Wanted(expected.records, max_rows)
    BY <1>2, <1>3, <1>4, <1>5
  <1>8. \A j \in 1..Len(expected.records) :
           expected.records[j].fatal => Len(rows) <= expected.records[j].from
    BY <1>6, RecordsOfBody
  <1> QED
    BY <1>7, <1>8 DEF Abstract!Deliverable

\* At the end of a scan all is complete in the sense of LogScan.
LEMMA EndIsComplete ==
  Inductive /\ outcome = "complete"
     => Abstract!Complete(expected.records, max_rows, Len(rows))
  <1> SUFFICES ASSUME Inductive, outcome = "complete"
               PROVE  Abstract!Complete(expected.records, max_rows, Len(rows))
    OBVIOUS
  <1>1. /\ rows = Capped(EventsBefore(body, Len(Lines(body))), max_rows)
        /\ \A k \in 1..Len(Lines(body)) : Fails(Lines(body)[k]) => ~IsRead(k)
    BY DEF Inductive, Ending
  <1>2. Len(rows) = Abstract!Wanted(expected.records, max_rows)
    BY <1>1, WantedRows
  <1>3. ASSUME NEW k \in 1..Len(Lines(body)), Fails(Lines(body)[k])
        PROVE  max_rows > 0 /\ max_rows <= Len(EventsBefore(body, k - 1))
    <2>1. max_rows \in Nat /\ body \in Bodies
      BY Setting
    <2>2. PICK j \in 0..Len(Lines(body)) : j = k - 1
      BY Setting
    <2>3. Len(EventsBefore(body, j)) \in Nat
      BY <2>1, RowsType
    <2>4. max_rows # 0 /\ ~(Len(EventsBefore(body, k - 1)) < max_rows)
      BY <1>1, <1>3 DEF IsRead
    <2>5. EventsBefore(body, j) = EventsBefore(body, k - 1)
      BY <2>2
    <2>6. max_rows > 0 /\ max_rows <= Len(EventsBefore(body, j))
      BY <2>1, <2>3, <2>4, <2>5
    <2> QED
      BY <2>5, <2>6
  <1>4. \A k \in 1..Len(expected.records) :
           expected.records[k].fatal => max_rows > 0 /\ max_rows <= expected.records[k].from
    BY <1>3, RecordsOfBody
  <1> QED
    BY <1>2, <1>4 DEF Abstract!Complete

\* Rows that are taken are returned under the numbers that follow.
LEMMA NumbersFollow ==
  ASSUME NEW l \in Nat, NEW n \in Nat
  PROVE  [i \in 1..(l + n) |-> i] = [i \in 1..l |-> i] \o [i \in 1..n |-> l + i]
  <1> DEFINE u == [i \in 1..(l + n) |-> i]
             v == [i \in 1..l |-> i]
             w == [i \in 1..n |-> l + i]
  <1>1. u \in Seq(Nat) /\ v \in Seq(Nat) /\ w \in Seq(Nat)
    OBVIOUS
  <1>2. Len(u) = l + n /\ Len(v) = l /\ Len(w) = n
    OBVIOUS
  <1>3. \A i \in 1..(l + n) : u[i] = i
    OBVIOUS
  <1>4. (\A i \in 1..l : v[i] = i) /\ (\A i \in 1..n : w[i] = l + i)
    OBVIOUS
  <1> HIDE DEF u, v, w
  <1>5. /\ v \o w \in Seq(Nat)
        /\ Len(v \o w) = Len(v) + Len(w)
        /\ \A i \in 1..(Len(v) + Len(w)) :
              (v \o w)[i] = IF i <= Len(v) THEN v[i] ELSE w[i - Len(v)]
    BY <1>1, ConcatProperties
  <1>6. ASSUME NEW i \in 1..(l + n) PROVE (v \o w)[i] = i
    <2>1. (v \o w)[i] = IF i <= l THEN v[i] ELSE w[i - l]
      BY <1>2, <1>5
    <2>2. i > l => i - l \in 1..n /\ l + (i - l) = i
      OBVIOUS
    <2>3. i <= l => i \in 1..l
      OBVIOUS
    <2> QED
      BY <1>4, <2>1, <2>2, <2>3
  <1>7. \A i \in 1..Len(u) : u[i] = (v \o w)[i]
    BY <1>2, <1>3, <1>6
  <1>8. u = v \o w
    BY <1>1, <1>2, <1>5, <1>7, SeqEqual
  <1> QED
    BY <1>8 DEF u, v, w

\* Deliverable after a step, which the prover must be given as one formula.
LEMMA NextDeliverable ==
  Inductive' => (Abstract!Deliverable(expected.records, max_rows, Len(rows)))'
  BY RowsDeliverable, PTL

\* Completeness after a step, likewise.
LEMMA NextEndIsComplete ==
  Inductive' /\ (outcome = "complete")'
     => (Abstract!Complete(expected.records, max_rows, Len(rows)))'
  BY EndIsComplete, PTL

\* A line's events are returned as one vector, unless there is none to take.
LEMMA TakenImplements ==
  ASSUME Inductive, Inductive', NEW line \in Seq(Content(body)), TakeRows(line),
         UNCHANGED <<max_rows, expected>>, outcome = "open", outcome' = "open"
  PROVE  Abstract!ReturnRows \/ UNCHANGED Abstract!vars
  <1> DEFINE events == EventsOf(line)
             n == IF max_rows > 0 /\ max_rows < Len(rows) + Len(events)
                  THEN max_rows - Len(rows) ELSE Len(events)
             more == SubSeq(events, 1, n)
             taken == Len(more)
  <1>1. rows' = rows \o more
    BY DEF TakeRows
  <1>2. events \in Seq(Nat \X Nat) /\ Len(events) \in Nat /\ Len(events) <= MostEvents
    <2>1. body \in Bodies
      BY Setting
    <2> QED
      BY <2>1, EventsOfType
  <1>3. rows \in Seq(Nat \X Nat) /\ Len(rows) \in Nat /\ max_rows \in Nat
    BY Setting DEF Inductive, TypeOK
  <1> HIDE DEF events
  <1>4. n \in Int /\ n <= Len(events)
    BY <1>2, <1>3
  <1> HIDE DEF n
  <1>5. more \in Seq(Nat \X Nat) /\ taken \in Nat /\ taken <= Len(events)
    <2>1. \A i \in 1..n : events[i] \in Nat \X Nat
      BY <1>2, <1>4
    <2>2. more \in Seq(Nat \X Nat) /\ taken = IF 1 <= n THEN n - 1 + 1 ELSE 0
      BY <1>4, <2>1, SubSeqProperties
    <2> QED
      BY <1>2, <1>4, <2>2
  <1> HIDE DEF more
  <1>6. Len(rows') = Len(rows) + taken
    BY <1>1, <1>3, <1>5
  <1>7. delivered = [i \in 1..Len(rows) |-> i] /\ Len(delivered) = Len(rows)
    BY RowsAreTyped
  <1>8. delivered' = [i \in 1..(Len(rows) + taken) |-> i]
    <2>1. rows' \in Seq(Nat \X Nat)
      BY DEF Inductive, TypeOK
    <2>2. DOMAIN rows' = 1..(Len(rows) + taken)
      BY <1>6, <2>1
    <2> QED
      BY <2>2 DEF delivered
  <1>9. Abstract!Deliverable(expected.records, max_rows, Len(rows) + taken)
    BY <1>6, NextDeliverable
  <1> HIDE DEF taken
  <1>10. CASE taken = 0
    <2>1. delivered' = delivered
      BY <1>3, <1>7, <1>8, <1>10
    <2> QED
      BY <2>1 DEF Abstract!vars, delivered
  <1>11. CASE taken # 0
    <2>1. taken \in 1..MostEvents
      BY <1>2, <1>5, <1>11, MostEventsAssumption
    <2>2. delivered' = delivered \o [i \in 1..taken |-> Len(delivered) + i]
      BY <1>3, <1>5, <1>7, <1>8, NumbersFollow
    <2>3. Abstract!Deliverable(expected.records, max_rows, Len(delivered) + taken)
      BY <1>7, <1>9
    <2> QED
      BY <2>1, <2>2, <2>3 DEF Abstract!ReturnRows, delivered
  <1> QED
    BY <1>10, <1>11

\* A line between two newlines consists of bytes of the body.
LEMMA FoundLineType ==
  ASSUME Inductive, NEW s \in Seq(Content(body)), NEW n \in 0..Len(s),
         NEW e, e = FindNewline(s, n) \/ e = Len(s) + 1
  PROVE  SubSeq(s, n + 1, e - 1) \in Seq(Content(body))
  <1>1. FindNewline(s, n) \in 0..Len(s)
    BY FindNewlineFinds
  <1>2. e - 1 \in Int /\ e - 1 <= Len(s) /\ n + 1 \in Int /\ 1 <= n + 1
    BY <1>1
  <1>3. \A i \in (n + 1)..(e - 1) : s[i] \in Content(body)
    BY <1>2
  <1>4. PICK m \in Int, l \in Int : m = n + 1 /\ l = e - 1
    BY <1>2
  <1>5. SubSeq(s, m, l) \in Seq(Content(body))
    BY <1>3, <1>4, SubSeqProperties
  <1> QED
    BY <1>4, <1>5

\* A scan that fails throws, in terms of LogScan.
LEMMA ErrorImplements ==
  ASSUME outcome = "open", outcome' \in {"search_error", "broken"},
         UNCHANGED <<max_rows, expected, rows>>
  PROVE  Abstract!ThrowError
  BY DEF Abstract!ThrowError

\* A scan that is complete reports the end, in terms of LogScan.
LEMMA EndImplements ==
  ASSUME Inductive, Inductive', outcome = "open", outcome' = "complete",
         UNCHANGED <<max_rows, expected, rows>>
  PROVE  Abstract!ReportEnd
  <1>1. Abstract!Complete(expected.records, max_rows, Len(rows))
    BY NextEndIsComplete
  <1>2. Len(delivered) = Len(rows)
    BY RowsAreTyped
  <1> QED
    BY <1>1, <1>2 DEF Abstract!ReportEnd, delivered

\* Every step of either reader is a step of LogScan, or changes nothing that
\* LogScan speaks of.
LEMMA StepImplements ==
  Inductive /\ Inductive' /\ [Next]_vars => [Abstract!Next]_(Abstract!vars)
  <1> SUFFICES ASSUME Inductive, Inductive', [Next]_vars
               PROVE  Abstract!Next \/ UNCHANGED Abstract!vars
    OBVIOUS
  <1> USE DEF setup, native
  <1>1. body \in Seq(Content(body)) /\ pending \in Seq(Content(body))
           /\ start \in 0..Len(pending)
    BY Setting
  <1>2. pc # "done" <=> outcome = "open"
    BY DEF Inductive, Places
  <1>3. CASE Receive \/ EndChunk \/ FetchBrowserResponse \/ SkipRest \/ Terminated
                \/ UNCHANGED vars
    <2>1. UNCHANGED <<max_rows, expected, rows, outcome>>
      BY <1>3 DEF Receive, EndChunk, FetchBrowserResponse, SkipRest, Terminated, vars
    <2> QED
      BY <2>1 DEF Abstract!vars
  <1>4. CASE ParseLine
    <2> DEFINE line == SubSeq(pending, start + 1, FindNewline(pending, start) - 1)
    <2>1. line \in Seq(Content(body))
      BY <1>1, FoundLineType
    <2>2. pc = "chunk" /\ UNCHANGED <<max_rows, expected>>
      BY <1>4 DEF ParseLine
    <2>3. \/ outcome' = "search_error" /\ UNCHANGED rows
          \/ TakeRows(line) /\ UNCHANGED outcome
      BY <1>4 DEF ParseLine, Stop
    <2> HIDE DEF line
    <2> QED
      BY <1>2, <2>1, <2>2, <2>3, TakenImplements, ErrorImplements DEF Abstract!Next
  <1>5. CASE BreakOff
    <2>1. pc = "receiving" /\ UNCHANGED <<max_rows, expected, rows>>
      BY <1>5 DEF BreakOff
    <2>2. outcome' = "broken" \/ UNCHANGED outcome
      BY <1>5 DEF BreakOff, Stop
    <2> QED
      BY <1>2, <2>1, <2>2, ErrorImplements DEF Abstract!Next, Abstract!vars
  <1>6. CASE ParseTail
    <2>1. pc = "receiving" /\ UNCHANGED <<max_rows, expected>>
      BY <1>6 DEF ParseTail
    <2>2. \/ outcome' = "search_error" /\ UNCHANGED rows
          \/ TakeRows(pending) /\ UNCHANGED outcome
      BY <1>6 DEF ParseTail, Stop
    <2> QED
      BY <1>1, <1>2, <2>1, <2>2, TakenImplements, ErrorImplements DEF Abstract!Next
  <1>7. CASE Finish \/ EndOfResponse
    <2>1. /\ pc \in {"finish", "cursor"} /\ outcome' = "complete"
          /\ UNCHANGED <<max_rows, expected, rows>>
      BY <1>7 DEF Finish, EndOfResponse, Stop
    <2> QED
      BY <1>2, <2>1, EndImplements DEF Abstract!Next
  <1>8. CASE ParseAtCursor
    <2> DEFINE line == SubSeq(body, offset + 1, LineEnd - 1)
    <2>1. line \in Seq(Content(body))
      <3>1. offset \in 0..Len(body)
        BY <1>1, <1>8 DEF ParseAtCursor, Inductive, TypeOK
      <3>2. LineEnd = FindNewline(body, offset) \/ LineEnd = Len(body) + 1
        BY DEF LineEnd
      <3> QED
        BY <1>1, <3>1, <3>2, FoundLineType
    <2>2. pc = "cursor" /\ UNCHANGED <<max_rows, expected>>
      BY <1>8 DEF ParseAtCursor
    <2>3. \/ outcome' = "search_error" /\ UNCHANGED rows
          \/ TakeRows(line) /\ UNCHANGED outcome
      BY <1>8 DEF ParseAtCursor, Stop
    <2> HIDE DEF line
    <2> QED
      BY <1>2, <2>1, <2>2, <2>3, TakenImplements, ErrorImplements DEF Abstract!Next
  <1> QED
    BY <1>3, <1>4, <1>5, <1>6, <1>7, <1>8 DEF Next

\* The initial states are initial states of LogScan.
LEMMA InitImplements == Init => Abstract!Init
  <1> SUFFICES ASSUME Init PROVE Abstract!Init
    OBVIOUS
  <1>1. expected.records \in Responses
    BY DEF Init, Responses
  <1>2. [i \in DOMAIN rows |-> i] = <<>>
    BY DEF Init
  <1> QED
    BY <1>1, <1>2 DEF Init, Abstract!Init

\* For every body, every way of cutting it into chunks and every sequence of
\* attempts, the readers of both builds do at the level of bytes what LogScan
\* asks of a scan of the response that the body's lines stand for.
THEOREM LinesImplementLogScan == Spec => ImplementsLogScan
  BY InitImplements, StepImplements, LinesInductiveInvariant, PTL
  DEF Spec, ImplementsLogScan, Abstract!Spec
=============================================================================
