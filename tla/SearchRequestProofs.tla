------------------------- MODULE SearchRequestProofs -------------------------
(***************************************************************************)
(* Proofs about what is sent for a statement, for any secrets, parameters, *)
(* index names and texts.                                                  *)
(*                                                                         *)
(* What a loop over a text computes is proved by induction on the length   *)
(* of the text, over a set of numbers, as in ExportLinesProofs.            *)
(***************************************************************************)
EXTENDS SearchRequest, SequenceTheorems, WellFoundedInduction, TLAPS

\* A set that contains 0 and every successor of its members contains all
\* natural numbers: otherwise a least one would be missing.
LEMMA Induction ==
  ASSUME NEW S, 0 \in S, \A n \in Nat : n \in S => n + 1 \in S
  PROVE  \A n \in Nat : n \in S
  <1> DEFINE R == OpToRel(<, Nat)
             T == Nat \ S
  <1>1. SUFFICES ASSUME T # {} PROVE FALSE
    OBVIOUS
  <1>2. IsWellFoundedOn(R, Nat)
    BY NatLessThanWellFounded
  <1>3. PICK x \in T : \A y \in T : ~ (<<y, x>> \in R)
    <2> HIDE DEF R, T
    <2>1. T \subseteq Nat
      BY DEF T
    <2> QED
      BY <1>1, <1>2, <2>1, WFMin
  <1>4. x \in Nat /\ x # 0 /\ x \notin S
    OBVIOUS
  <1>5. x - 1 \in Nat /\ x - 1 + 1 = x /\ x - 1 < x
    BY <1>4
  <1>6. x - 1 \in S
    <2>1. <<x - 1, x>> \in R <=> x - 1 < x
      BY <1>4, <1>5 DEF OpToRel
    <2> QED
      BY <2>1, <1>3, <1>5
  <1> QED
    BY <1>4, <1>5, <1>6

\* FoldLeft takes the last element first.
LEMMA MaxOfLast ==
  ASSUME NEW k \in Nat, NEW s, s \subseteq 1..k, k \in s
  PROVE  Max(s) = k
  <1>1. k \in s /\ \A y \in s : k >= y
    OBVIOUS
  <1>2. \A x : x \in s /\ (\A y \in s : x >= y) => x = k
    OBVIOUS
  <1> QED
    BY <1>1, <1>2 DEF Max

\* A set of numbers up to n has a greatest and a least member.
LEMMA MaxIsIn ==
  ASSUME NEW n \in Nat, NEW I, I \subseteq 1..n, I # {}
  PROVE  Max(I) \in I /\ \A i \in I : Max(I) >= i
  <1> DEFINE Good == {k \in Nat : \A T \in SUBSET (1..k) :
                                    T # {} => \E x \in T : \A y \in T : x >= y}
  <1>1. 0 \in Good
    <2>1. 1..0 = {}
      OBVIOUS
    <2> QED
      BY <2>1
  <1>2. ASSUME NEW k \in Nat, k \in Good PROVE k + 1 \in Good
    <2>1. SUFFICES ASSUME NEW T \in SUBSET (1..(k + 1)), T # {}
                   PROVE  \E x \in T : \A y \in T : x >= y
      OBVIOUS
    <2>2. CASE k + 1 \in T
      BY <2>2
    <2>3. CASE k + 1 \notin T
      <3>1. T \in SUBSET (1..k)
        BY <2>3
      <3> QED
        BY <1>2, <2>1, <3>1
    <2> QED
      BY <2>2, <2>3
  <1>3. n \in Good
    <2> HIDE DEF Good
    <2> QED
      BY <1>1, <1>2, Induction
  <1>4. \E x \in I : \A y \in I : x >= y
    BY <1>3
  <1> QED
    BY <1>4 DEF Max

\* A set of places that is not empty has a first one.
LEMMA MinIsIn ==
  ASSUME NEW n \in Nat, NEW I, I \subseteq 1..n, I # {}
  PROVE  Min(I) \in I /\ \A i \in I : Min(I) <= i
  <1> DEFINE Good == {k \in Nat : \A T \in SUBSET ((n - k)..n) :
                                    T # {} => \E x \in T : \A y \in T : x <= y}
  <1>1. 0 \in Good
    <2>1. ASSUME NEW T \in SUBSET ((n - 0)..n), T # {}
          PROVE  \E x \in T : \A y \in T : x <= y
      <3>1. PICK x \in T : TRUE
        BY <2>1
      <3>2. \A y \in T : y = n /\ n <= y
        OBVIOUS
      <3>3. \A y \in T : x <= y
        BY <3>2
      <3> QED
        BY <3>3
    <2> QED
      BY <2>1
  <1>2. ASSUME NEW k \in Nat, k \in Good PROVE k + 1 \in Good
    <2>1. SUFFICES ASSUME NEW T \in SUBSET ((n - (k + 1))..n), T # {}
                   PROVE  \E x \in T : \A y \in T : x <= y
      OBVIOUS
    <2>2. CASE n - (k + 1) \in T
      BY <2>2
    <2>3. CASE n - (k + 1) \notin T
      <3>1. T \in SUBSET ((n - k)..n)
        BY <2>3
      <3> QED
        BY <1>2, <2>1, <3>1
    <2> QED
      BY <2>2, <2>3
  <1>3. n \in Good
    <2> HIDE DEF Good
    <2> QED
      BY <1>1, <1>2, Induction
  <1>4. I \in SUBSET ((n - n)..n)
    OBVIOUS
  <1>5. \E x \in I : \A y \in I : x <= y
    BY <1>3, <1>4
  <1> QED
    BY <1>5 DEF Min

-----------------------------------------------------------------------------
(***************************************************************************)
(* The three loops over a text, each as a run over its pieces, and what    *)
(* one piece more makes of their result.                                   *)
(***************************************************************************)
\* What URLEncode and BuildIndexQuery add for a piece.
Replacing(result, piece, by) ==
    result \o (IF piece \in DOMAIN by THEN by[piece] ELSE <<piece>>)

\* t[k] is the result after k pieces.
ReplacedSteps(t, w, n, by) ==
    /\ t[0] = <<>>
    /\ \A k \in 1..n : t[k] = Replacing(t[k - 1], w[k], by)
    /\ Replaced(w, by) = t[n]

\* Replaced adds what stands for the pieces one by one.
LEMMA ReplacedRun ==
  ASSUME NEW n \in Nat, NEW w, NEW by, DOMAIN w = 1..n
  PROVE  \E t : ReplacedSteps(t, w, n, by)
  <1> DEFINE Base == <<>>
             Value(f, s) == IF s = {} THEN Base
                            ELSE Replacing(f[s \ {Max(s)}], w[Max(s)], by)
             Fold(f, k) == f = [s \in SUBSET (1..k) |-> Value(f, s)]
             Good == {k \in Nat : \E f : Fold(f, k)}
  <1>1. 0 \in Good
    <2>1. 1..0 = {}
      OBVIOUS
    <2>2. Fold([s \in SUBSET (1..0) |-> Base], 0)
      BY <2>1
    <2> QED
      BY <2>2
  <1>2. ASSUME NEW k \in Nat, k \in Good PROVE k + 1 \in Good
    <2>1. PICK f : Fold(f, k)
      BY <1>2
    <2> DEFINE g == [s \in SUBSET (1..(k + 1)) |->
                        IF k + 1 \in s THEN Replacing(f[s \ {k + 1}], w[k + 1], by)
                        ELSE f[s]]
    <2>2. ASSUME NEW s \in SUBSET (1..(k + 1)) PROVE g[s] = Value(g, s)
      <3>1. CASE s = {}
        <4>1. s \in SUBSET (1..k) /\ k + 1 \notin s
          BY <3>1
        <4> QED
          BY <4>1, <2>1, <3>1
      <3>2. CASE k + 1 \in s
        <4>1. Max(s) = k + 1
          <5>1. k + 1 \in Nat /\ s \subseteq 1..(k + 1)
            OBVIOUS
          <5> HIDE DEF g, Good, Fold, Value
          <5> QED
            BY <3>2, <5>1, MaxOfLast
        <4>2. /\ s \ {k + 1} \in SUBSET (1..k)
              /\ s \ {k + 1} \in SUBSET (1..(k + 1))
              /\ k + 1 \notin s \ {k + 1}
          OBVIOUS
        <4>3. g[s \ {k + 1}] = f[s \ {k + 1}]
          BY <4>2
        <4> QED
          BY <3>2, <4>1, <4>3
      <3>3. CASE k + 1 \notin s /\ s # {}
        <4>1. s \in SUBSET (1..k)
          BY <3>3
        <4>2. s \ {Max(s)} \in SUBSET (1..(k + 1)) /\ k + 1 \notin s \ {Max(s)}
          BY <3>3, <4>1
        <4>3. g[s] = f[s] /\ g[s \ {Max(s)}] = f[s \ {Max(s)}]
          BY <4>2, <3>3
        <4>4. f[s] = Value(f, s)
          BY <4>1, <2>1
        <4> QED
          BY <3>3, <4>3, <4>4
      <3> QED
        BY <3>1, <3>2, <3>3
    <2>3. Fold(g, k + 1)
      <3>1. g = [s \in SUBSET (1..(k + 1)) |-> g[s]]
        OBVIOUS
      <3> HIDE DEF g, Value
      <3>2. g = [s \in SUBSET (1..(k + 1)) |-> Value(g, s)]
        BY <2>2, <3>1, Zenon
      <3> QED
        BY <3>2
    <2> HIDE DEF g, Fold
    <2> QED
      BY <2>3, <1>2
  <1>3. n \in Good
    <2> HIDE DEF Good
    <2> QED
      BY <1>1, <1>2, Induction
  <1> DEFINE iter == CHOOSE f : Fold(f, n)
  <1>4. Fold(iter, n)
    <2> HIDE DEF Fold
    <2>1. \E f : Fold(f, n)
      BY <1>3
    <2> QED
      BY <2>1
  <1>5. Replaced(w, by) = iter[1..n]
    BY DEF Replaced, Replacing, FoldLeft, MapThenFoldSet
  <1> HIDE DEF iter
  <1> DEFINE t == [k \in 0..n |-> iter[1..k]]
  <1>6. t[0] = Base
    <2>1. 1..0 = {} /\ 1..0 \in SUBSET (1..n)
      OBVIOUS
    <2> QED
      BY <2>1, <1>4
  <1>7. ASSUME NEW k \in 1..n PROVE t[k] = Replacing(t[k - 1], w[k], by)
    <2>1. 1..k \in SUBSET (1..n)
      OBVIOUS
    <2>2. k \in Nat /\ k \in 1..k
      OBVIOUS
    <2>3. Max(1..k) = k
      <3> HIDE DEF t, Good, Fold, Value
      <3> QED
        BY <2>2, MaxOfLast
    <2>4. (1..k) \ {k} = 1..(k - 1)
      OBVIOUS
    <2>5. iter[1..k] = Replacing(iter[1..(k - 1)], w[k], by)
      BY <1>4, <2>1, <2>2, <2>3, <2>4
    <2>6. k \in 0..n /\ k - 1 \in 0..n
      OBVIOUS
    <2> QED
      BY <2>5, <2>6
  <1>8. t[n] = Replaced(w, by)
    BY <1>5
  <1> HIDE DEF t
  <1> QED
    BY <1>6, <1>7, <1>8 DEF ReplacedSteps

\* Nothing is replaced in an empty text.
LEMMA ReplacedNothing ==
  ASSUME NEW by
  PROVE  Replaced(<<>>, by) = <<>>
  <1>1. Len(<<>>) = 0 /\ DOMAIN <<>> = 1..0 /\ 0 \in Nat
    OBVIOUS
  <1>2. PICK t : ReplacedSteps(t, <<>>, 0, by)
    BY <1>1, ReplacedRun
  <1> QED
    BY <1>2 DEF ReplacedSteps

\* One piece more is replaced behind what was replaced before it.
LEMMA ReplacedMore ==
  ASSUME NEW by, NEW S, NEW w \in Seq(S), NEW p \in S
  PROVE  Replaced(Append(w, p), by) = Replacing(Replaced(w, by), p, by)
  <1> DEFINE n == Len(w)
             more == Append(w, p)
  <1>1. n \in Nat /\ n + 1 \in Nat /\ DOMAIN w = 1..n /\ DOMAIN more = 1..(n + 1)
    OBVIOUS
  <1>2. more[n + 1] = p /\ \A k \in 1..n : more[k] = w[k]
    OBVIOUS
  <1> HIDE DEF n, more
  <1>3. PICK t : ReplacedSteps(t, w, n, by)
    BY <1>1, ReplacedRun
  <1>4. PICK u : ReplacedSteps(u, more, n + 1, by)
    BY <1>1, ReplacedRun
  <1> DEFINE Good == {k \in Nat : k <= n => t[k] = u[k]}
  <1>5. 0 \in Good
    BY <1>3, <1>4 DEF ReplacedSteps
  <1>6. ASSUME NEW k \in Nat, k \in Good PROVE k + 1 \in Good
    <2>1. SUFFICES ASSUME k + 1 <= n PROVE t[k + 1] = u[k + 1]
      OBVIOUS
    <2>2. t[k] = u[k]
      BY <1>1, <1>6, <2>1
    <2>3. k + 1 \in 1..n /\ k + 1 \in 1..(n + 1) /\ (k + 1) - 1 = k
      BY <1>1, <2>1
    <2>4. t[k + 1] = Replacing(t[k], w[k + 1], by)
      <3>1. t[k + 1] = Replacing(t[(k + 1) - 1], w[k + 1], by)
        BY <1>3, <2>3 DEF ReplacedSteps
      <3> QED
        BY <2>3, <3>1
    <2>5. u[k + 1] = Replacing(u[k], more[k + 1], by)
      <3>1. u[k + 1] = Replacing(u[(k + 1) - 1], more[k + 1], by)
        BY <1>4, <2>3 DEF ReplacedSteps
      <3> QED
        BY <2>3, <3>1
    <2> QED
      BY <1>2, <2>2, <2>3, <2>4, <2>5
  <1>7. n \in Good
    <2> HIDE DEF Good
    <2> QED
      BY <1>1, <1>5, <1>6, Induction
  <1>8. t[n] = u[n]
    BY <1>1, <1>7
  <1>9. n + 1 \in 1..(n + 1) /\ (n + 1) - 1 = n
    BY <1>1
  <1>10. u[n + 1] = Replacing(u[n], p, by)
    <2>1. u[n + 1] = Replacing(u[(n + 1) - 1], more[n + 1], by)
      BY <1>4, <1>9 DEF ReplacedSteps
    <2> QED
      BY <1>2, <1>9, <2>1
  <1>11. Replaced(w, by) = t[n] /\ Replaced(more, by) = u[n + 1]
    BY <1>3, <1>4 DEF ReplacedSteps
  <1>12. Replaced(more, by) = Replacing(Replaced(w, by), p, by)
    BY <1>8, <1>10, <1>11
  <1> QED
    BY <1>12 DEF more

\* The reader of forms, from any state on.
ReadFrom(f, w) == FoldLeft(ReadPiece, f, w)

ReadFromSteps(t, w, n, f) ==
    /\ t[0] = f
    /\ \A k \in 1..n : t[k] = ReadPiece(t[k - 1], w[k])
    /\ ReadFrom(f, w) = t[n]

\* A form is read piece by piece.
LEMMA ReadFromRun ==
  ASSUME NEW n \in Nat, NEW w, NEW start, DOMAIN w = 1..n
  PROVE  \E t : ReadFromSteps(t, w, n, start)
  <1> DEFINE Base == start
             Value(f, s) == IF s = {} THEN Base
                            ELSE ReadPiece(f[s \ {Max(s)}], w[Max(s)])
             Fold(f, k) == f = [s \in SUBSET (1..k) |-> Value(f, s)]
             Good == {k \in Nat : \E f : Fold(f, k)}
  <1>1. 0 \in Good
    <2>1. 1..0 = {}
      OBVIOUS
    <2>2. Fold([s \in SUBSET (1..0) |-> Base], 0)
      BY <2>1
    <2> QED
      BY <2>2
  <1>2. ASSUME NEW k \in Nat, k \in Good PROVE k + 1 \in Good
    <2>1. PICK f : Fold(f, k)
      BY <1>2
    <2> DEFINE g == [s \in SUBSET (1..(k + 1)) |->
                        IF k + 1 \in s THEN ReadPiece(f[s \ {k + 1}], w[k + 1])
                        ELSE f[s]]
    <2>2. ASSUME NEW s \in SUBSET (1..(k + 1)) PROVE g[s] = Value(g, s)
      <3>1. CASE s = {}
        <4>1. s \in SUBSET (1..k) /\ k + 1 \notin s
          BY <3>1
        <4> QED
          BY <4>1, <2>1, <3>1
      <3>2. CASE k + 1 \in s
        <4>1. Max(s) = k + 1
          <5>1. k + 1 \in Nat /\ s \subseteq 1..(k + 1)
            OBVIOUS
          <5> HIDE DEF g, Good, Fold, Value
          <5> QED
            BY <3>2, <5>1, MaxOfLast
        <4>2. /\ s \ {k + 1} \in SUBSET (1..k)
              /\ s \ {k + 1} \in SUBSET (1..(k + 1))
              /\ k + 1 \notin s \ {k + 1}
          OBVIOUS
        <4>3. g[s \ {k + 1}] = f[s \ {k + 1}]
          BY <4>2
        <4> QED
          BY <3>2, <4>1, <4>3
      <3>3. CASE k + 1 \notin s /\ s # {}
        <4>1. s \in SUBSET (1..k)
          BY <3>3
        <4>2. s \ {Max(s)} \in SUBSET (1..(k + 1)) /\ k + 1 \notin s \ {Max(s)}
          BY <3>3, <4>1
        <4>3. g[s] = f[s] /\ g[s \ {Max(s)}] = f[s \ {Max(s)}]
          BY <4>2, <3>3
        <4>4. f[s] = Value(f, s)
          BY <4>1, <2>1
        <4> QED
          BY <3>3, <4>3, <4>4
      <3> QED
        BY <3>1, <3>2, <3>3
    <2>3. Fold(g, k + 1)
      <3>1. g = [s \in SUBSET (1..(k + 1)) |-> g[s]]
        OBVIOUS
      <3> HIDE DEF g, Value
      <3>2. g = [s \in SUBSET (1..(k + 1)) |-> Value(g, s)]
        BY <2>2, <3>1, Zenon
      <3> QED
        BY <3>2
    <2> HIDE DEF g, Fold
    <2> QED
      BY <2>3, <1>2
  <1>3. n \in Good
    <2> HIDE DEF Good
    <2> QED
      BY <1>1, <1>2, Induction
  <1> DEFINE iter == CHOOSE f : Fold(f, n)
  <1>4. Fold(iter, n)
    <2> HIDE DEF Fold
    <2>1. \E f : Fold(f, n)
      BY <1>3
    <2> QED
      BY <2>1
  <1>5. ReadFrom(start, w) = iter[1..n]
    BY DEF ReadFrom, FoldLeft, MapThenFoldSet
  <1> HIDE DEF iter
  <1> DEFINE t == [k \in 0..n |-> iter[1..k]]
  <1>6. t[0] = Base
    <2>1. 1..0 = {} /\ 1..0 \in SUBSET (1..n)
      OBVIOUS
    <2> QED
      BY <2>1, <1>4
  <1>7. ASSUME NEW k \in 1..n PROVE t[k] = ReadPiece(t[k - 1], w[k])
    <2>1. 1..k \in SUBSET (1..n)
      OBVIOUS
    <2>2. k \in Nat /\ k \in 1..k
      OBVIOUS
    <2>3. Max(1..k) = k
      <3> HIDE DEF t, Good, Fold, Value
      <3> QED
        BY <2>2, MaxOfLast
    <2>4. (1..k) \ {k} = 1..(k - 1)
      OBVIOUS
    <2>5. iter[1..k] = ReadPiece(iter[1..(k - 1)], w[k])
      BY <1>4, <2>1, <2>2, <2>3, <2>4
    <2>6. k \in 0..n /\ k - 1 \in 0..n
      OBVIOUS
    <2> QED
      BY <2>5, <2>6
  <1>8. t[n] = ReadFrom(start, w)
    BY <1>5
  <1> HIDE DEF t
  <1> QED
    BY <1>6, <1>7, <1>8 DEF ReadFromSteps

\* A form that ends leaves its reader where it is.
LEMMA ReadFromNothing ==
  ASSUME NEW f
  PROVE  ReadFrom(f, <<>>) = f
  <1>1. Len(<<>>) = 0 /\ DOMAIN <<>> = 1..0 /\ 0 \in Nat
    OBVIOUS
  <1>2. PICK t : ReadFromSteps(t, <<>>, 0, f)
    BY <1>1, ReadFromRun
  <1> QED
    BY <1>2 DEF ReadFromSteps

\* One piece more of a form is read behind what was read before it.
LEMMA ReadFromMore ==
  ASSUME NEW f, NEW S, NEW w \in Seq(S), NEW p \in S
  PROVE  ReadFrom(f, Append(w, p)) = ReadPiece(ReadFrom(f, w), p)
  <1> DEFINE n == Len(w)
             more == Append(w, p)
  <1>1. n \in Nat /\ n + 1 \in Nat /\ DOMAIN w = 1..n /\ DOMAIN more = 1..(n + 1)
    OBVIOUS
  <1>2. more[n + 1] = p /\ \A k \in 1..n : more[k] = w[k]
    OBVIOUS
  <1> HIDE DEF n, more
  <1>3. PICK t : ReadFromSteps(t, w, n, f)
    BY <1>1, ReadFromRun
  <1>4. PICK u : ReadFromSteps(u, more, n + 1, f)
    BY <1>1, ReadFromRun
  <1> DEFINE Good == {k \in Nat : k <= n => t[k] = u[k]}
  <1>5. 0 \in Good
    BY <1>3, <1>4 DEF ReadFromSteps
  <1>6. ASSUME NEW k \in Nat, k \in Good PROVE k + 1 \in Good
    <2>1. SUFFICES ASSUME k + 1 <= n PROVE t[k + 1] = u[k + 1]
      OBVIOUS
    <2>2. t[k] = u[k]
      BY <1>1, <1>6, <2>1
    <2>3. k + 1 \in 1..n /\ k + 1 \in 1..(n + 1) /\ (k + 1) - 1 = k
      BY <1>1, <2>1
    <2>4. t[k + 1] = ReadPiece(t[k], w[k + 1])
      <3>1. t[k + 1] = ReadPiece(t[(k + 1) - 1], w[k + 1])
        BY <1>3, <2>3 DEF ReadFromSteps
      <3> QED
        BY <2>3, <3>1
    <2>5. u[k + 1] = ReadPiece(u[k], more[k + 1])
      <3>1. u[k + 1] = ReadPiece(u[(k + 1) - 1], more[k + 1])
        BY <1>4, <2>3 DEF ReadFromSteps
      <3> QED
        BY <2>3, <3>1
    <2> QED
      BY <1>2, <2>2, <2>3, <2>4, <2>5
  <1>7. n \in Good
    <2> HIDE DEF Good
    <2> QED
      BY <1>1, <1>5, <1>6, Induction
  <1>8. t[n] = u[n]
    BY <1>1, <1>7
  <1>9. n + 1 \in 1..(n + 1) /\ (n + 1) - 1 = n
    BY <1>1
  <1>10. u[n + 1] = ReadPiece(u[n], p)
    <2>1. u[n + 1] = ReadPiece(u[(n + 1) - 1], more[n + 1])
      BY <1>4, <1>9 DEF ReadFromSteps
    <2> QED
      BY <1>2, <1>9, <2>1
  <1>11. ReadFrom(f, w) = t[n] /\ ReadFrom(f, more) = u[n + 1]
    BY <1>3, <1>4 DEF ReadFromSteps
  <1>12. ReadFrom(f, more) = ReadPiece(ReadFrom(f, w), p)
    BY <1>8, <1>10, <1>11
  <1> QED
    BY <1>12 DEF more

\* The reader of SPL strings, from any state on.
StringFrom(f, w) == FoldLeft(ReadQuoted, f, w)

StringFromSteps(t, w, n, f) ==
    /\ t[0] = f
    /\ \A k \in 1..n : t[k] = ReadQuoted(t[k - 1], w[k])
    /\ StringFrom(f, w) = t[n]

\* An SPL string is read piece by piece.
LEMMA StringFromRun ==
  ASSUME NEW n \in Nat, NEW w, NEW start, DOMAIN w = 1..n
  PROVE  \E t : StringFromSteps(t, w, n, start)
  <1> DEFINE Base == start
             Value(f, s) == IF s = {} THEN Base
                            ELSE ReadQuoted(f[s \ {Max(s)}], w[Max(s)])
             Fold(f, k) == f = [s \in SUBSET (1..k) |-> Value(f, s)]
             Good == {k \in Nat : \E f : Fold(f, k)}
  <1>1. 0 \in Good
    <2>1. 1..0 = {}
      OBVIOUS
    <2>2. Fold([s \in SUBSET (1..0) |-> Base], 0)
      BY <2>1
    <2> QED
      BY <2>2
  <1>2. ASSUME NEW k \in Nat, k \in Good PROVE k + 1 \in Good
    <2>1. PICK f : Fold(f, k)
      BY <1>2
    <2> DEFINE g == [s \in SUBSET (1..(k + 1)) |->
                        IF k + 1 \in s THEN ReadQuoted(f[s \ {k + 1}], w[k + 1])
                        ELSE f[s]]
    <2>2. ASSUME NEW s \in SUBSET (1..(k + 1)) PROVE g[s] = Value(g, s)
      <3>1. CASE s = {}
        <4>1. s \in SUBSET (1..k) /\ k + 1 \notin s
          BY <3>1
        <4> QED
          BY <4>1, <2>1, <3>1
      <3>2. CASE k + 1 \in s
        <4>1. Max(s) = k + 1
          <5>1. k + 1 \in Nat /\ s \subseteq 1..(k + 1)
            OBVIOUS
          <5> HIDE DEF g, Good, Fold, Value
          <5> QED
            BY <3>2, <5>1, MaxOfLast
        <4>2. /\ s \ {k + 1} \in SUBSET (1..k)
              /\ s \ {k + 1} \in SUBSET (1..(k + 1))
              /\ k + 1 \notin s \ {k + 1}
          OBVIOUS
        <4>3. g[s \ {k + 1}] = f[s \ {k + 1}]
          BY <4>2
        <4> QED
          BY <3>2, <4>1, <4>3
      <3>3. CASE k + 1 \notin s /\ s # {}
        <4>1. s \in SUBSET (1..k)
          BY <3>3
        <4>2. s \ {Max(s)} \in SUBSET (1..(k + 1)) /\ k + 1 \notin s \ {Max(s)}
          BY <3>3, <4>1
        <4>3. g[s] = f[s] /\ g[s \ {Max(s)}] = f[s \ {Max(s)}]
          BY <4>2, <3>3
        <4>4. f[s] = Value(f, s)
          BY <4>1, <2>1
        <4> QED
          BY <3>3, <4>3, <4>4
      <3> QED
        BY <3>1, <3>2, <3>3
    <2>3. Fold(g, k + 1)
      <3>1. g = [s \in SUBSET (1..(k + 1)) |-> g[s]]
        OBVIOUS
      <3> HIDE DEF g, Value
      <3>2. g = [s \in SUBSET (1..(k + 1)) |-> Value(g, s)]
        BY <2>2, <3>1, Zenon
      <3> QED
        BY <3>2
    <2> HIDE DEF g, Fold
    <2> QED
      BY <2>3, <1>2
  <1>3. n \in Good
    <2> HIDE DEF Good
    <2> QED
      BY <1>1, <1>2, Induction
  <1> DEFINE iter == CHOOSE f : Fold(f, n)
  <1>4. Fold(iter, n)
    <2> HIDE DEF Fold
    <2>1. \E f : Fold(f, n)
      BY <1>3
    <2> QED
      BY <2>1
  <1>5. StringFrom(start, w) = iter[1..n]
    BY DEF StringFrom, FoldLeft, MapThenFoldSet
  <1> HIDE DEF iter
  <1> DEFINE t == [k \in 0..n |-> iter[1..k]]
  <1>6. t[0] = Base
    <2>1. 1..0 = {} /\ 1..0 \in SUBSET (1..n)
      OBVIOUS
    <2> QED
      BY <2>1, <1>4
  <1>7. ASSUME NEW k \in 1..n PROVE t[k] = ReadQuoted(t[k - 1], w[k])
    <2>1. 1..k \in SUBSET (1..n)
      OBVIOUS
    <2>2. k \in Nat /\ k \in 1..k
      OBVIOUS
    <2>3. Max(1..k) = k
      <3> HIDE DEF t, Good, Fold, Value
      <3> QED
        BY <2>2, MaxOfLast
    <2>4. (1..k) \ {k} = 1..(k - 1)
      OBVIOUS
    <2>5. iter[1..k] = ReadQuoted(iter[1..(k - 1)], w[k])
      BY <1>4, <2>1, <2>2, <2>3, <2>4
    <2>6. k \in 0..n /\ k - 1 \in 0..n
      OBVIOUS
    <2> QED
      BY <2>5, <2>6
  <1>8. t[n] = StringFrom(start, w)
    BY <1>5
  <1> HIDE DEF t
  <1> QED
    BY <1>6, <1>7, <1>8 DEF StringFromSteps

\* A string that ends leaves its reader where it is.
LEMMA StringFromNothing ==
  ASSUME NEW f
  PROVE  StringFrom(f, <<>>) = f
  <1>1. Len(<<>>) = 0 /\ DOMAIN <<>> = 1..0 /\ 0 \in Nat
    OBVIOUS
  <1>2. PICK t : StringFromSteps(t, <<>>, 0, f)
    BY <1>1, StringFromRun
  <1> QED
    BY <1>2 DEF StringFromSteps

\* One piece more of a string is read behind what was read before it.
LEMMA StringFromMore ==
  ASSUME NEW f, NEW S, NEW w \in Seq(S), NEW p \in S
  PROVE  StringFrom(f, Append(w, p)) = ReadQuoted(StringFrom(f, w), p)
  <1> DEFINE n == Len(w)
             more == Append(w, p)
  <1>1. n \in Nat /\ n + 1 \in Nat /\ DOMAIN w = 1..n /\ DOMAIN more = 1..(n + 1)
    OBVIOUS
  <1>2. more[n + 1] = p /\ \A k \in 1..n : more[k] = w[k]
    OBVIOUS
  <1> HIDE DEF n, more
  <1>3. PICK t : StringFromSteps(t, w, n, f)
    BY <1>1, StringFromRun
  <1>4. PICK u : StringFromSteps(u, more, n + 1, f)
    BY <1>1, StringFromRun
  <1> DEFINE Good == {k \in Nat : k <= n => t[k] = u[k]}
  <1>5. 0 \in Good
    BY <1>3, <1>4 DEF StringFromSteps
  <1>6. ASSUME NEW k \in Nat, k \in Good PROVE k + 1 \in Good
    <2>1. SUFFICES ASSUME k + 1 <= n PROVE t[k + 1] = u[k + 1]
      OBVIOUS
    <2>2. t[k] = u[k]
      BY <1>1, <1>6, <2>1
    <2>3. k + 1 \in 1..n /\ k + 1 \in 1..(n + 1) /\ (k + 1) - 1 = k
      BY <1>1, <2>1
    <2>4. t[k + 1] = ReadQuoted(t[k], w[k + 1])
      <3>1. t[k + 1] = ReadQuoted(t[(k + 1) - 1], w[k + 1])
        BY <1>3, <2>3 DEF StringFromSteps
      <3> QED
        BY <2>3, <3>1
    <2>5. u[k + 1] = ReadQuoted(u[k], more[k + 1])
      <3>1. u[k + 1] = ReadQuoted(u[(k + 1) - 1], more[k + 1])
        BY <1>4, <2>3 DEF StringFromSteps
      <3> QED
        BY <2>3, <3>1
    <2> QED
      BY <1>2, <2>2, <2>3, <2>4, <2>5
  <1>7. n \in Good
    <2> HIDE DEF Good
    <2> QED
      BY <1>1, <1>5, <1>6, Induction
  <1>8. t[n] = u[n]
    BY <1>1, <1>7
  <1>9. n + 1 \in 1..(n + 1) /\ (n + 1) - 1 = n
    BY <1>1
  <1>10. u[n + 1] = ReadQuoted(u[n], p)
    <2>1. u[n + 1] = ReadQuoted(u[(n + 1) - 1], more[n + 1])
      BY <1>4, <1>9 DEF StringFromSteps
    <2> QED
      BY <1>2, <1>9, <2>1
  <1>11. StringFrom(f, w) = t[n] /\ StringFrom(f, more) = u[n + 1]
    BY <1>3, <1>4 DEF StringFromSteps
  <1>12. StringFrom(f, more) = ReadQuoted(StringFrom(f, w), p)
    BY <1>8, <1>10, <1>11
  <1> QED
    BY <1>12 DEF more

-----------------------------------------------------------------------------
(***************************************************************************)
(* Sequences.                                                              *)
(***************************************************************************)
\* A set that contains the empty sequence, and with a sequence every one that
\* is longer by an element, contains all sequences over S.
LEMMA SequenceInduction ==
  ASSUME NEW S, NEW G, <<>> \in G,
         \A w \in Seq(S), p \in S : w \in G => Append(w, p) \in G
  PROVE  \A w \in Seq(S) : w \in G
  <1> DEFINE Good == {k \in Nat : \A w \in Seq(S) : Len(w) = k => w \in G}
  <1>1. 0 \in Good
    <2>1. \A w \in Seq(S) : Len(w) = 0 => w = <<>>
      BY EmptySeq
    <2> QED
      BY <2>1
  <1>2. ASSUME NEW k \in Nat, k \in Good PROVE k + 1 \in Good
    <2>1. SUFFICES ASSUME NEW w \in Seq(S), Len(w) = k + 1 PROVE w \in G
      OBVIOUS
    <2>2. w # <<>>
      BY <2>1, EmptySeq
    <2>3. PICK v \in Seq(S), p \in S : w = Append(v, p)
      BY <2>2, SequenceEmptyOrAppend
    <2>4. Len(v) \in Nat /\ Len(w) = Len(v) + 1
      BY <2>3, AppendProperties, LenProperties
    <2>5. Len(v) = k
      BY <2>1, <2>4
    <2>6. v \in G
      BY <1>2, <2>5
    <2> QED
      BY <2>3, <2>6
  <1>3. \A k \in Nat : k \in Good
    <2> HIDE DEF Good
    <2> QED
      BY <1>1, <1>2, Induction
  <1> QED
    BY <1>3, LenProperties

\* A sequence joined to another is appended element by element.
LEMMA ConcatAppend ==
  ASSUME NEW S, NEW v \in Seq(S), NEW w \in Seq(S), NEW p \in S
  PROVE  v \o Append(w, p) = Append(v \o w, p)
  <1>1. <<p>> \in Seq(S) /\ v \o w \in Seq(S)
    BY ConcatProperties
  <1>2. v \o (w \o <<p>>) = (v \o w) \o <<p>>
    BY <1>1, ConcatAssociative
  <1>3. Append(w, p) = w \o <<p>> /\ Append(v \o w, p) = (v \o w) \o <<p>>
    BY <1>1, AppendIsConcat
  <1> QED
    BY <1>2, <1>3

-----------------------------------------------------------------------------
(***************************************************************************)
(* Reading what is joined of parts.                                        *)
(***************************************************************************)
\* The second part is read on from where the first has led.
LEMMA ReadFromJoined ==
  ASSUME NEW f, NEW S, NEW v \in Seq(S), NEW w \in Seq(S)
  PROVE  ReadFrom(f, v \o w) = ReadFrom(ReadFrom(f, v), w)
  <1> DEFINE G == {x \in Seq(S) : ReadFrom(f, v \o x) = ReadFrom(ReadFrom(f, v), x)}
  <1>1. <<>> \in G
    <2>1. <<>> \in Seq(S) /\ v \o <<>> = v
      BY ConcatEmptySeq, EmptySeq
    <2>2. ReadFrom(ReadFrom(f, v), <<>>) = ReadFrom(f, v)
      BY ReadFromNothing
    <2> QED
      BY <2>1, <2>2
  <1>2. ASSUME NEW x \in Seq(S), NEW p \in S, x \in G PROVE Append(x, p) \in G
    <2>1. Append(x, p) \in Seq(S) /\ v \o x \in Seq(S)
      BY AppendProperties, ConcatProperties
    <2>2. v \o Append(x, p) = Append(v \o x, p)
      BY ConcatAppend
    <2>3. ReadFrom(f, Append(v \o x, p)) = ReadPiece(ReadFrom(f, v \o x), p)
      BY <2>1, ReadFromMore
    <2>4. ReadFrom(ReadFrom(f, v), Append(x, p))
            = ReadPiece(ReadFrom(ReadFrom(f, v), x), p)
      BY ReadFromMore
    <2>5. ReadFrom(f, v \o x) = ReadFrom(ReadFrom(f, v), x)
      BY <1>2
    <2>6. ReadFrom(f, v \o Append(x, p)) = ReadFrom(ReadFrom(f, v), Append(x, p))
      BY <2>2, <2>3, <2>4, <2>5
    <2> QED
      BY <2>1, <2>6
  <1>3. w \in G
    <2> HIDE DEF G
    <2> QED
      BY <1>1, <1>2, SequenceInduction
  <1> QED
    BY <1>3

\* Two strings are read one behind the other.
LEMMA StringFromJoined ==
  ASSUME NEW f, NEW S, NEW v \in Seq(S), NEW w \in Seq(S)
  PROVE  StringFrom(f, v \o w) = StringFrom(StringFrom(f, v), w)
  <1> DEFINE G == {x \in Seq(S) :
                     StringFrom(f, v \o x) = StringFrom(StringFrom(f, v), x)}
  <1>1. <<>> \in G
    <2>1. <<>> \in Seq(S) /\ v \o <<>> = v
      BY ConcatEmptySeq, EmptySeq
    <2>2. StringFrom(StringFrom(f, v), <<>>) = StringFrom(f, v)
      BY StringFromNothing
    <2> QED
      BY <2>1, <2>2
  <1>2. ASSUME NEW x \in Seq(S), NEW p \in S, x \in G PROVE Append(x, p) \in G
    <2>1. Append(x, p) \in Seq(S) /\ v \o x \in Seq(S)
      BY AppendProperties, ConcatProperties
    <2>2. v \o Append(x, p) = Append(v \o x, p)
      BY ConcatAppend
    <2>3. StringFrom(f, Append(v \o x, p)) = ReadQuoted(StringFrom(f, v \o x), p)
      BY <2>1, StringFromMore
    <2>4. StringFrom(StringFrom(f, v), Append(x, p))
            = ReadQuoted(StringFrom(StringFrom(f, v), x), p)
      BY StringFromMore
    <2>5. StringFrom(f, v \o x) = StringFrom(StringFrom(f, v), x)
      BY <1>2
    <2>6. StringFrom(f, v \o Append(x, p)) = StringFrom(StringFrom(f, v), Append(x, p))
      BY <2>2, <2>3, <2>4, <2>5
    <2> QED
      BY <2>1, <2>6
  <1>3. w \in G
    <2> HIDE DEF G
    <2> QED
      BY <1>1, <1>2, SequenceInduction
  <1> QED
    BY <1>3

\* A piece is a text.
LEMMA OnePiece ==
  ASSUME NEW S, NEW p \in S
  PROVE  <<p>> \in Seq(S)
  OBVIOUS

\* A sequence with one element more is the other one appended.
LEMMA AppendIs ==
  ASSUME NEW S, NEW v \in Seq(S), NEW e \in S, NEW t \in Seq(S),
         Len(t) = Len(v) + 1, \A i \in 1..Len(v) : t[i] = v[i], t[Len(v) + 1] = e
  PROVE  Append(v, e) = t
  <1> DEFINE s == Append(v, e)
  <1>1. /\ s \in Seq(S) /\ Len(s) = Len(v) + 1
        /\ \A i \in 1..Len(v) : s[i] = v[i]
        /\ s[Len(v) + 1] = e
    BY AppendProperties
  <1>2. Len(v) \in Nat
    BY LenProperties
  <1> HIDE DEF s
  <1>3. \A i \in 1..Len(s) : s[i] = t[i]
    <2>1. \A i \in 1..Len(s) : i \in 1..Len(v) \/ i = Len(v) + 1
      BY <1>1, <1>2
    <2> QED
      BY <1>1, <2>1
  <1>4. s = t
    BY <1>1, <1>3, SeqEqual
  <1> QED
    BY <1>4 DEF s

\* Short texts, appended piece by piece.
LEMMA OneAppended ==
  ASSUME NEW p
  PROVE  Append(<<>>, p) = <<p>>
  <1>1. <<>> \in Seq({p}) /\ <<p>> \in Seq({p}) /\ p \in {p}
    OBVIOUS
  <1>2. Append(<<>>, p) = <<>> \o <<p>>
    BY <1>1, AppendIsConcat
  <1>3. <<>> \o <<p>> = <<p>>
    BY <1>1, ConcatEmptySeq
  <1> QED
    BY <1>2, <1>3

\* Texts of few pieces, written one piece at a time.
LEMMA TwoAppended ==
  ASSUME NEW p, NEW q
  PROVE  Append(<<p>>, q) = <<p, q>>
  <1> DEFINE S == {p, q}
  <1>1. <<p>> \in Seq(S) /\ <<p, q>> \in Seq(S) /\ q \in S
    OBVIOUS
  <1>2. Len(<<p, q>>) = Len(<<p>>) + 1 /\ <<p, q>>[Len(<<p>>) + 1] = q
    OBVIOUS
  <1>3. \A i \in 1..Len(<<p>>) : <<p, q>>[i] = <<p>>[i]
    OBVIOUS
  <1> HIDE DEF S
  <1> QED
    BY <1>1, <1>2, <1>3, AppendIs, Zenon

\* Likewise for three.
LEMMA ThreeAppended ==
  ASSUME NEW p, NEW q, NEW r
  PROVE  Append(<<p, q>>, r) = <<p, q, r>>
  <1> DEFINE S == {p, q, r}
  <1>1. <<p, q>> \in Seq(S) /\ <<p, q, r>> \in Seq(S) /\ r \in S
    OBVIOUS
  <1>2. Len(<<p, q, r>>) = Len(<<p, q>>) + 1 /\ <<p, q, r>>[Len(<<p, q>>) + 1] = r
    OBVIOUS
  <1>3. \A i \in 1..Len(<<p, q>>) : <<p, q, r>>[i] = <<p, q>>[i]
    OBVIOUS
  <1> HIDE DEF S
  <1> QED
    BY <1>1, <1>2, <1>3, AppendIs, Zenon

\* Likewise for four.
LEMMA FourAppended ==
  ASSUME NEW p, NEW q, NEW r, NEW u
  PROVE  Append(<<p, q, r>>, u) = <<p, q, r, u>>
  <1> DEFINE S == {p, q, r, u}
  <1>1. <<p, q, r>> \in Seq(S) /\ <<p, q, r, u>> \in Seq(S) /\ u \in S
    OBVIOUS
  <1>2. Len(<<p, q, r, u>>) = Len(<<p, q, r>>) + 1 /\ <<p, q, r, u>>[Len(<<p, q, r>>) + 1] = u
    OBVIOUS
  <1>3. \A i \in 1..Len(<<p, q, r>>) : <<p, q, r, u>>[i] = <<p, q, r>>[i]
    OBVIOUS
  <1> HIDE DEF S
  <1> QED
    BY <1>1, <1>2, <1>3, AppendIs, Zenon

\* Reading one piece, and some more.
LEMMA ReadFromOne ==
  ASSUME NEW f, NEW p
  PROVE  ReadFrom(f, <<p>>)
           = ReadPiece(f, p)
  <1> DEFINE S == {p}
  <1>1. <<>> \in Seq(S) /\ p \in S
    OBVIOUS
  <1> HIDE DEF S
  <1>2. ReadFrom(f, Append(<<>>, p)) = ReadPiece(ReadFrom(f, <<>>), p)
    BY <1>1, ReadFromMore
  <1>3. ReadFrom(f, <<>>) = f
    BY ReadFromNothing
  <1> QED
    BY <1>2, <1>3, OneAppended

\* A form of few pieces is read piece by piece.
LEMMA ReadFromTwo ==
  ASSUME NEW f, NEW p, NEW q
  PROVE  ReadFrom(f, <<p, q>>)
           = ReadPiece(ReadPiece(f, p), q)
  <1> DEFINE S == {p, q}
  <1>1. <<p>> \in Seq(S) /\ q \in S
    OBVIOUS
  <1> HIDE DEF S
  <1>2. ReadFrom(f, Append(<<p>>, q)) = ReadPiece(ReadFrom(f, <<p>>), q)
    BY <1>1, ReadFromMore
  <1>3. ReadFrom(f, <<p>>) = ReadPiece(f, p)
    BY ReadFromOne
  <1> QED
    BY <1>2, <1>3, TwoAppended

\* Likewise for three.
LEMMA ReadFromThree ==
  ASSUME NEW f, NEW p, NEW q, NEW r
  PROVE  ReadFrom(f, <<p, q, r>>)
           = ReadPiece(ReadPiece(ReadPiece(f, p), q), r)
  <1> DEFINE S == {p, q, r}
  <1>1. <<p, q>> \in Seq(S) /\ r \in S
    OBVIOUS
  <1> HIDE DEF S
  <1>2. ReadFrom(f, Append(<<p, q>>, r)) = ReadPiece(ReadFrom(f, <<p, q>>), r)
    BY <1>1, ReadFromMore
  <1>3. ReadFrom(f, <<p, q>>) = ReadPiece(ReadPiece(f, p), q)
    BY ReadFromTwo
  <1> QED
    BY <1>2, <1>3, ThreeAppended

\* Likewise for four.
LEMMA ReadFromFour ==
  ASSUME NEW f, NEW p, NEW q, NEW r, NEW u
  PROVE  ReadFrom(f, <<p, q, r, u>>)
           = ReadPiece(ReadPiece(ReadPiece(ReadPiece(f, p), q), r), u)
  <1> DEFINE S == {p, q, r, u}
  <1>1. <<p, q, r>> \in Seq(S) /\ u \in S
    OBVIOUS
  <1> HIDE DEF S
  <1>2. ReadFrom(f, Append(<<p, q, r>>, u)) = ReadPiece(ReadFrom(f, <<p, q, r>>), u)
    BY <1>1, ReadFromMore
  <1>3. ReadFrom(f, <<p, q, r>>) = ReadPiece(ReadPiece(ReadPiece(f, p), q), r)
    BY ReadFromThree
  <1> QED
    BY <1>2, <1>3, FourAppended

\* A string of few pieces is read piece by piece.
LEMMA StringFromOne ==
  ASSUME NEW f, NEW p
  PROVE  StringFrom(f, <<p>>)
           = ReadQuoted(f, p)
  <1> DEFINE S == {p}
  <1>1. <<>> \in Seq(S) /\ p \in S
    OBVIOUS
  <1> HIDE DEF S
  <1>2. StringFrom(f, Append(<<>>, p)) = ReadQuoted(StringFrom(f, <<>>), p)
    BY <1>1, StringFromMore
  <1>3. StringFrom(f, <<>>) = f
    BY StringFromNothing
  <1> QED
    BY <1>2, <1>3, OneAppended

\* Likewise for two.
LEMMA StringFromTwo ==
  ASSUME NEW f, NEW p, NEW q
  PROVE  StringFrom(f, <<p, q>>)
           = ReadQuoted(ReadQuoted(f, p), q)
  <1> DEFINE S == {p, q}
  <1>1. <<p>> \in Seq(S) /\ q \in S
    OBVIOUS
  <1> HIDE DEF S
  <1>2. StringFrom(f, Append(<<p>>, q)) = ReadQuoted(StringFrom(f, <<p>>), q)
    BY <1>1, StringFromMore
  <1>3. StringFrom(f, <<p>>) = ReadQuoted(f, p)
    BY StringFromOne
  <1> QED
    BY <1>2, <1>3, TwoAppended

\* Replacing pieces by pieces gives a text.
LEMMA ReplacedType ==
  ASSUME NEW text \in Text, NEW by,
         \A ch \in DOMAIN by : by[ch] \in Text
  PROVE  Replaced(text, by) \in Text
  <1> DEFINE G == {x \in Seq(STRING) : Replaced(x, by) \in Seq(STRING)}
  <1>1. <<>> \in G
    BY EmptySeq, ReplacedNothing
  <1>2. ASSUME NEW x \in Seq(STRING), NEW p \in STRING, x \in G
        PROVE  Append(x, p) \in G
    <2> DEFINE y == IF p \in DOMAIN by THEN by[p] ELSE <<p>>
    <2>1. Append(x, p) \in Seq(STRING)
      BY AppendProperties
    <2>2. Replaced(Append(x, p), by) = Replaced(x, by) \o y
      BY ReplacedMore DEF Replacing
    <2>3. y \in Seq(STRING)
      <3>1. CASE p \in DOMAIN by
        BY <3>1 DEF Text
      <3>2. CASE p \notin DOMAIN by
        <4>1. <<p>> \in Seq(STRING)
          BY OnePiece
        <4> QED
          BY <3>2, <4>1
      <3> QED
        BY <3>1, <3>2
    <2>4. Replaced(x, by) \in Seq(STRING)
      BY <1>2
    <2> HIDE DEF y
    <2>5. Replaced(Append(x, p), by) \in Seq(STRING)
      BY <2>2, <2>3, <2>4, ConcatProperties
    <2> QED
      BY <2>1, <2>5
  <1>3. text \in G
    <2> HIDE DEF G
    <2> QED
      BY <1>1, <1>2, SequenceInduction DEF Text
  <1> QED
    BY <1>3 DEF Text

-----------------------------------------------------------------------------
(***************************************************************************)
(* The form: each field is read as the text it was encoded from.           *)
(***************************************************************************)
\* The reader is at the value of a field, of which it has read this much.
AtValue(fields, name, value) == Reader(fields, name, value, TRUE, FALSE)

\* A piece that means nothing to the reader of a form.
IsPlain(piece) == piece \notin {"%", "&", "=", "+"}

\* A character is read as itself, from its code if it has one.
LEMMA ReadCoded ==
  ASSUME NEW fields, NEW name, NEW value, NEW ch \in DOMAIN Code
  PROVE  ReadPiece(ReadPiece(AtValue(fields, name, value), "%"), Code[ch])
           = AtValue(fields, name, Append(value, ch))
  <1>1. IsCoded(Code[ch]) /\ Coded(Code[ch]) = ch
    BY CodeAssumption DEF IsCoded, Coded
  <1>2. ReadPiece(AtValue(fields, name, value), "%")
          = Reader(fields, name, value, TRUE, TRUE)
    BY DEF ReadPiece, AtValue, Reader
  <1>3. ReadPiece(Reader(fields, name, value, TRUE, TRUE), Code[ch])
          = Put(Reader(fields, name, value, TRUE, TRUE), ch)
    BY <1>1 DEF ReadPiece, Reader
  <1>4. Put(Reader(fields, name, value, TRUE, TRUE), ch)
          = AtValue(fields, name, Append(value, ch))
    BY DEF Put, Reader, AtValue
  <1> QED
    BY <1>2, <1>3, <1>4

\* A piece that means nothing to a form is added to the value.
LEMMA ReadPlain ==
  ASSUME NEW fields, NEW name, NEW value, NEW ch, IsPlain(ch)
  PROVE  ReadPiece(AtValue(fields, name, value), ch)
           = AtValue(fields, name, Append(value, ch))
  <1>1. ReadPiece(AtValue(fields, name, value), ch) = Put(AtValue(fields, name, value), ch)
    BY DEF IsPlain, ReadPiece, Reader, AtValue
  <1>2. Put(AtValue(fields, name, value), ch) = AtValue(fields, name, Append(value, ch))
    BY DEF Put, Reader, AtValue
  <1> QED
    BY <1>1, <1>2

\* What stands for a character.
Codes == [ch \in DOMAIN Code |-> <<"%", Code[ch]>>]

\* Each character that is encoded becomes a percent sign and its code.
LEMMA CodesType ==
  /\ DOMAIN Codes = DOMAIN Code
  /\ \A ch \in DOMAIN Codes : Codes[ch] = <<"%", Code[ch]>> /\ Codes[ch] \in Text
  <1>1. \A ch \in DOMAIN Code : Code[ch] \in STRING
    BY CodeAssumption
  <1>2. ASSUME NEW S, NEW p \in S, NEW q \in S PROVE <<p, q>> \in Seq(S)
    OBVIOUS
  <1>3. ASSUME NEW ch \in DOMAIN Code PROVE <<"%", Code[ch]>> \in Seq(STRING)
    <2> DEFINE c == Code[ch]
    <2>1. c \in STRING
      BY <1>1
    <2>3. "%" \in STRING
      BY CodeAssumption
    <2> HIDE DEF c
    <2>2. <<"%", c>> \in Seq(STRING)
      BY <1>2, <2>1, <2>3, Zenon
    <2> QED
      BY <2>2 DEF c
  <1> QED
    BY <1>3 DEF Codes, Text

\* What URLEncode writes is a text.
LEMMA URLEncodeType ==
  ASSUME NEW text \in Text
  PROVE  URLEncode(text) \in Text
  BY CodesType, ReplacedType DEF URLEncode, Codes

\* An encoded text is read as the text.
LEMMA ReadEncoded ==
  ASSUME NEW fields, NEW name, NEW text \in Text
  PROVE  ReadFrom(AtValue(fields, name, <<>>), URLEncode(text))
           = AtValue(fields, name, text)
  <1> DEFINE start == AtValue(fields, name, <<>>)
             G == {x \in Seq(STRING) :
                     ReadFrom(start, Replaced(x, Codes)) = AtValue(fields, name, x)}
  <1>1. <<>> \in G
    BY EmptySeq, ReplacedNothing, ReadFromNothing
  <1>2. ASSUME NEW x \in Seq(STRING), NEW ch \in STRING, x \in G
        PROVE  Append(x, ch) \in G
    <2> DEFINE before == Replaced(x, Codes)
               y == IF ch \in DOMAIN Codes THEN Codes[ch] ELSE <<ch>>
    <2>1. before \in Seq(STRING)
      BY CodesType, ReplacedType DEF Text
    <2>2. y \in Seq(STRING)
      <3>1. CASE ch \in DOMAIN Codes
        BY <3>1, CodesType DEF Text
      <3>2. CASE ch \notin DOMAIN Codes
        <4>1. <<ch>> \in Seq(STRING)
          BY OnePiece
        <4> QED
          BY <3>2, <4>1
      <3> QED
        BY <3>1, <3>2
    <2>3. Replaced(Append(x, ch), Codes) = before \o y
      BY ReplacedMore DEF Replacing
    <2>4. ReadFrom(start, before) = AtValue(fields, name, x)
      BY <1>2
    <2>5. ReadFrom(AtValue(fields, name, x), y) = AtValue(fields, name, Append(x, ch))
      <3>1. CASE ch \in DOMAIN Codes
        <4>1. y = <<"%", Code[ch]>> /\ ch \in DOMAIN Code
          BY <3>1, CodesType
        <4> HIDE DEF y
        <4>2. ReadFrom(AtValue(fields, name, x), <<"%", Code[ch]>>)
                = ReadPiece(ReadPiece(AtValue(fields, name, x), "%"), Code[ch])
          BY ReadFromTwo
        <4>3. ReadFrom(AtValue(fields, name, x), y)
                = ReadPiece(ReadPiece(AtValue(fields, name, x), "%"), Code[ch])
          BY <4>1, <4>2, Zenon
        <4> QED
          BY <4>1, <4>3, ReadCoded
      <3>2. CASE ch \notin DOMAIN Codes
        <4>1. y = <<ch>> /\ IsPlain(ch)
          BY <3>2, CodesType, CodeAssumption DEF IsPlain
        <4> HIDE DEF y
        <4>2. ReadFrom(AtValue(fields, name, x), y)
                = ReadPiece(AtValue(fields, name, x), ch)
          BY <4>1, ReadFromOne
        <4>3. ReadPiece(AtValue(fields, name, x), ch)
                = AtValue(fields, name, Append(x, ch))
          <5>1. ReadPiece(AtValue(fields, name, x), ch) = Put(AtValue(fields, name, x), ch)
            BY <4>1 DEF IsPlain, ReadPiece, Reader, AtValue
          <5>2. Put(AtValue(fields, name, x), ch) = AtValue(fields, name, Append(x, ch))
            BY DEF Put, Reader, AtValue
          <5> QED
            BY <5>1, <5>2
        <4> QED
          BY <4>2, <4>3
      <3> QED
        BY <3>1, <3>2
    <2> HIDE DEF y, before, start
    <2>6. ReadFrom(start, before \o y) = ReadFrom(ReadFrom(start, before), y)
      BY <2>1, <2>2, ReadFromJoined
    <2>7. ReadFrom(start, Replaced(Append(x, ch), Codes))
            = AtValue(fields, name, Append(x, ch))
      BY <2>3, <2>4, <2>5, <2>6
    <2>8. Append(x, ch) \in Seq(STRING)
      BY AppendProperties
    <2> QED
      BY <2>7, <2>8
  <1>3. text \in G
    <2> HIDE DEF G
    <2> QED
      BY <1>1, <1>2, SequenceInduction DEF Text
  <1> QED
    BY <1>3 DEF URLEncode, Codes

\* The name of the next field ends the one before it.
LEMMA ReadName ==
  ASSUME NEW fields, NEW name, NEW value, NEW next, IsPlain(next)
  PROVE  ReadFrom(AtValue(fields, name, value), <<"&", next, "=">>)
           = AtValue(Append(fields, <<name, value>>), <<next>>, <<>>)
  <1> DEFINE more == Append(fields, <<name, value>>)
             f0 == AtValue(fields, name, value)
             f1 == Reader(more, <<>>, <<>>, FALSE, FALSE)
             f2 == Reader(more, <<next>>, <<>>, FALSE, FALSE)
  <1>1. ReadPiece(f0, "&") = f1
    BY DEF ReadPiece, Reader, AtValue
  <1>2. ReadPiece(f1, next) = f2
    <2> HIDE DEF more
    <2>1. ReadPiece(f1, next) = Put(f1, next)
      BY DEF IsPlain, ReadPiece, Reader
    <2>2. Put(f1, next) = Reader(more, Append(<<>>, next), <<>>, FALSE, FALSE)
      BY DEF Put, Reader
    <2> QED
      BY <2>1, <2>2, OneAppended
  <1>3. ReadPiece(f2, "=") = AtValue(more, <<next>>, <<>>)
    <2> HIDE DEF more
    <2> QED
      BY DEF ReadPiece, Reader, AtValue
  <1>4. ReadFrom(f0, <<"&", next, "=">>)
          = ReadPiece(ReadPiece(ReadPiece(f0, "&"), next), "=")
    <2> HIDE DEF f0
    <2> QED
      BY ReadFromThree
  <1> HIDE DEF f0, f1, f2
  <1>5. ReadFrom(f0, <<"&", next, "=">>) = AtValue(more, <<next>>, <<>>)
    BY <1>1, <1>2, <1>3, <1>4
  <1> QED
    BY <1>5 DEF f0

\* A field whose value is one piece.
LEMMA ReadField ==
  ASSUME NEW fields, NEW name, NEW value, NEW next, NEW piece,
         IsPlain(next), IsPlain(piece)
  PROVE  ReadFrom(AtValue(fields, name, value), <<"&", next, "=", piece>>)
           = AtValue(Append(fields, <<name, value>>), <<next>>, <<piece>>)
  <1> DEFINE f == AtValue(fields, name, value)
             g == AtValue(Append(fields, <<name, value>>), <<next>>, <<>>)
  <1>1. ReadFrom(f, <<"&", next, "=">>) = g
    BY ReadName
  <1>2. ReadPiece(g, piece) = AtValue(Append(fields, <<name, value>>), <<next>>, <<piece>>)
    <2> DEFINE more == Append(fields, <<name, value>>)
               nm == <<next>>
               none == <<>>
    <2>1. Append(none, piece) = <<piece>>
      BY OneAppended
    <2>2. ReadPiece(AtValue(more, nm, none), piece)
            = AtValue(more, nm, Append(none, piece))
      <3> HIDE DEF more, nm, none
      <3> QED
        BY ReadPlain
    <2>3. g = AtValue(more, nm, none)
      OBVIOUS
    <2> HIDE DEF none, g
    <2> QED
      BY <2>1, <2>2, <2>3
  <1> HIDE DEF f, g
  <1>3. ReadFrom(f, <<"&", next, "=">>)
          = ReadPiece(ReadPiece(ReadPiece(f, "&"), next), "=")
    BY ReadFromThree
  <1>4. ReadFrom(f, <<"&", next, "=", piece>>)
          = ReadPiece(ReadPiece(ReadPiece(ReadPiece(f, "&"), next), "="), piece)
    BY ReadFromFour
  <1>5. ReadFrom(f, <<"&", next, "=", piece>>) = ReadPiece(g, piece)
    BY <1>1, <1>3, <1>4
  <1> QED
    BY <1>2, <1>5 DEF f, g

\* The same, with names for the sequences.
Nothing == <<>>
Only(piece) == <<piece>>
NamePart(next) == <<"&", next, "=">>
FieldPart(next, piece) == <<"&", next, "=", piece>>
With(fields, name, value) == Append(fields, <<name, value>>)

\* A name behind a value ends the field before it.
LEMMA NextName ==
  ASSUME NEW fields, NEW name, NEW value, NEW next, IsPlain(next)
  PROVE  ReadFrom(AtValue(fields, name, value), NamePart(next))
           = AtValue(With(fields, name, value), Only(next), Nothing)
  BY ReadName DEF Nothing, Only, NamePart, With

\* So does a name that has its value with it.
LEMMA NextField ==
  ASSUME NEW fields, NEW name, NEW value, NEW next, NEW piece,
         IsPlain(next), IsPlain(piece)
  PROVE  ReadFrom(AtValue(fields, name, value), FieldPart(next, piece))
           = AtValue(With(fields, name, value), Only(next), Only(piece))
  BY ReadField DEF Only, FieldPart, With

Start == Reader(<<>>, <<>>, <<>>, FALSE, FALSE)

\* The form begins with the name of its first field.
LEMMA ReadFirstName ==
  ReadFrom(Start, <<"search", "=">>) = AtValue(<<>>, <<"search">>, <<>>)
  <1> DEFINE f == Reader(<<>>, <<"search">>, <<>>, FALSE, FALSE)
  <1>1. ReadPiece(Start, "search") = f
    <2>1. ReadPiece(Start, "search") = Put(Start, "search")
      BY DEF ReadPiece, Reader, Start
    <2>2. Put(Start, "search") = Reader(<<>>, Append(<<>>, "search"), <<>>, FALSE, FALSE)
      BY DEF Put, Reader, Start
    <2>3. Append(<<>>, "search") = <<"search">>
      BY OneAppended
    <2> QED
      BY <2>1, <2>2, <2>3
  <1>2. ReadPiece(f, "=") = AtValue(<<>>, <<"search">>, <<>>)
    BY DEF ReadPiece, Reader, AtValue
  <1>3. ReadFrom(Start, <<"search", "=">>) = ReadPiece(ReadPiece(Start, "search"), "=")
    BY ReadFromTwo
  <1> HIDE DEF f
  <1> QED
    BY <1>1, <1>2, <1>3

\* From part to part.
LEMMA ReadOn ==
  ASSUME NEW v \in Text, NEW w \in Text, NEW f, NEW g, NEW h,
         ReadFrom(f, v) = g, ReadFrom(g, w) = h
  PROVE  ReadFrom(f, v \o w) = h
  BY ReadFromJoined DEF Text

\* Two texts joined are a text.
LEMMA TextConcat ==
  ASSUME NEW v \in Text, NEW w \in Text
  PROVE  v \o w \in Text
  BY ConcatProperties DEF Text

-----------------------------------------------------------------------------
(***************************************************************************)
(* Trimming.                                                               *)
(***************************************************************************)
\* SelectInSeq and SelectLastInSeq find the first and the last solid piece,
\* and the last that is no slash.
LEMMA FirstSolid ==
  ASSUME NEW text \in Text
  PROVE  \/ /\ SelectInSeq(text, IsSolid) = 0
            /\ \A i \in 1..Len(text) : ~ IsSolid(text[i])
         \/ /\ SelectInSeq(text, IsSolid) \in 1..Len(text)
            /\ IsSolid(text[SelectInSeq(text, IsSolid)])
            /\ \A i \in 1..(SelectInSeq(text, IsSolid) - 1) : ~ IsSolid(text[i])
  <1> DEFINE I == {i \in 1..Len(text) : IsSolid(text[i])}
             m == SelectInSeq(text, IsSolid)
  <1>1. m = IF I # {} THEN Min(I) ELSE 0
    BY DEF SelectInSeq
  <1>2. Len(text) \in Nat
    BY LenProperties DEF Text
  <1>3. I \subseteq 1..Len(text) /\ \A i \in 1..Len(text) : i \in I <=> IsSolid(text[i])
    OBVIOUS
  <1> HIDE DEF I, m
  <1>4. CASE I = {}
    BY <1>1, <1>3, <1>4 DEF m
  <1>5. CASE I # {}
    <2>1. m \in I /\ \A i \in I : m <= i
      BY <1>1, <1>2, <1>3, <1>5, MinIsIn
    <2>2. m \in 1..Len(text) /\ IsSolid(text[m])
      BY <1>3, <2>1
    <2>3. \A i \in 1..(m - 1) : i \in 1..Len(text) /\ ~ (m <= i)
      BY <1>2, <2>2
    <2>4. \A i \in 1..(m - 1) : ~ IsSolid(text[i])
      BY <1>3, <2>1, <2>3
    <2> QED
      BY <2>2, <2>4 DEF m
  <1> QED
    BY <1>4, <1>5

\* The last piece that is no blank, if there is one.
LEMMA LastSolid ==
  ASSUME NEW text \in Text
  PROVE  \/ /\ SelectLastInSeq(text, IsSolid) = 0
            /\ \A i \in 1..Len(text) : ~ IsSolid(text[i])
         \/ /\ SelectLastInSeq(text, IsSolid) \in 1..Len(text)
            /\ IsSolid(text[SelectLastInSeq(text, IsSolid)])
            /\ \A i \in (SelectLastInSeq(text, IsSolid) + 1)..Len(text) :
                  ~ IsSolid(text[i])
  <1> DEFINE I == {i \in 1..Len(text) : IsSolid(text[i])}
             m == SelectLastInSeq(text, IsSolid)
  <1>1. m = IF I # {} THEN Max(I) ELSE 0
    BY DEF SelectLastInSeq
  <1>2. Len(text) \in Nat
    BY LenProperties DEF Text
  <1>3. I \subseteq 1..Len(text) /\ \A i \in 1..Len(text) : i \in I <=> IsSolid(text[i])
    OBVIOUS
  <1> HIDE DEF I, m
  <1>4. CASE I = {}
    BY <1>1, <1>3, <1>4 DEF m
  <1>5. CASE I # {}
    <2>1. m \in I /\ \A i \in I : m >= i
      BY <1>1, <1>2, <1>3, <1>5, MaxIsIn
    <2>2. m \in 1..Len(text) /\ IsSolid(text[m])
      BY <1>3, <2>1
    <2>3. \A i \in (m + 1)..Len(text) : i \in 1..Len(text) /\ ~ (m >= i)
      BY <1>2, <2>2
    <2>4. \A i \in (m + 1)..Len(text) : ~ IsSolid(text[i])
      BY <1>3, <2>1, <2>3
    <2> QED
      BY <2>2, <2>4 DEF m
  <1> QED
    BY <1>4, <1>5

\* The last piece that is no slash, if there is one.
LEMMA LastNoSlash ==
  ASSUME NEW text \in Text
  PROVE  /\ SelectLastInSeq(text, IsNoSlash) \in 0..Len(text)
         /\ SelectLastInSeq(text, IsNoSlash) # 0 =>
               IsNoSlash(text[SelectLastInSeq(text, IsNoSlash)])
         /\ \A i \in (SelectLastInSeq(text, IsNoSlash) + 1)..Len(text) :
               ~ IsNoSlash(text[i])
  <1> DEFINE I == {i \in 1..Len(text) : IsNoSlash(text[i])}
             m == SelectLastInSeq(text, IsNoSlash)
  <1>1. m = IF I # {} THEN Max(I) ELSE 0
    BY DEF SelectLastInSeq
  <1>2. Len(text) \in Nat
    BY LenProperties DEF Text
  <1>3. I \subseteq 1..Len(text) /\ \A i \in 1..Len(text) : i \in I <=> IsNoSlash(text[i])
    OBVIOUS
  <1> HIDE DEF I, m
  <1>4. CASE I = {}
    <2>1. m = 0 /\ 0 \in 0..Len(text)
      BY <1>1, <1>2, <1>4
    <2>2. \A i \in (m + 1)..Len(text) : ~ IsNoSlash(text[i])
      BY <1>2, <1>3, <1>4, <2>1
    <2> QED
      BY <2>1, <2>2 DEF m
  <1>5. CASE I # {}
    <2>1. m \in I /\ \A i \in I : m >= i
      BY <1>1, <1>2, <1>3, <1>5, MaxIsIn
    <2>2. m \in 1..Len(text) /\ IsNoSlash(text[m])
      BY <1>3, <2>1
    <2>3. \A i \in (m + 1)..Len(text) : i \in 1..Len(text) /\ ~ (m >= i)
      BY <1>2, <2>2
    <2>4. \A i \in (m + 1)..Len(text) : ~ IsNoSlash(text[i])
      BY <1>3, <2>1, <2>3
    <2>5. m \in 0..Len(text)
      BY <1>2, <2>2
    <2> QED
      BY <2>2, <2>4, <2>5 DEF m
  <1> QED
    BY <1>4, <1>5

\* Trim leaves what is from the first solid piece to the last.
LEMMA TrimIs ==
  ASSUME NEW text \in Text
  PROVE  \/ /\ Trim(text) = <<>>
            /\ \A i \in 1..Len(text) : ~ IsSolid(text[i])
         \/ \E a \in 1..Len(text) : \E b \in a..Len(text) :
               /\ Trim(text) = SubSeq(text, a, b)
               /\ IsSolid(text[a]) /\ IsSolid(text[b])
               /\ \A i \in (1..(a - 1)) \cup ((b + 1)..Len(text)) : ~ IsSolid(text[i])
  <1> DEFINE a == SelectInSeq(text, IsSolid)
             b == SelectLastInSeq(text, IsSolid)
  <1>1. Trim(text) = IF a = 0 THEN <<>> ELSE SubSeq(text, a, b)
    BY DEF Trim
  <1>2. Len(text) \in Nat
    BY LenProperties DEF Text
  <1>3. \/ a = 0 /\ \A i \in 1..Len(text) : ~ IsSolid(text[i])
        \/ /\ a \in 1..Len(text) /\ IsSolid(text[a])
           /\ \A i \in 1..(a - 1) : ~ IsSolid(text[i])
    BY FirstSolid
  <1>4. \/ b = 0 /\ \A i \in 1..Len(text) : ~ IsSolid(text[i])
        \/ /\ b \in 1..Len(text) /\ IsSolid(text[b])
           /\ \A i \in (b + 1)..Len(text) : ~ IsSolid(text[i])
    BY LastSolid
  <1> HIDE DEF a, b
  <1>5. CASE a = 0
    BY <1>1, <1>3, <1>5
  <1>6. CASE a # 0
    <2>1. /\ a \in 1..Len(text) /\ IsSolid(text[a])
          /\ \A i \in 1..(a - 1) : ~ IsSolid(text[i])
      BY <1>3, <1>6
    <2>2. /\ b \in 1..Len(text) /\ IsSolid(text[b])
          /\ \A i \in (b + 1)..Len(text) : ~ IsSolid(text[i])
      BY <1>4, <2>1
    <2>3. ~ (b < a)
      <3>1. b < a => b \in 1..(a - 1)
        BY <1>2, <2>1, <2>2
      <3> QED
        BY <2>1, <2>2, <3>1
    <2>4. b \in a..Len(text)
      BY <1>2, <2>1, <2>2, <2>3
    <2>5. Trim(text) = SubSeq(text, a, b)
      BY <1>1, <1>6
    <2> QED
      BY <2>1, <2>2, <2>4, <2>5
  <1> QED
    BY <1>5, <1>6

\* What Trim leaves is a text.
LEMMA TrimType ==
  ASSUME NEW text \in Text
  PROVE  Trim(text) \in Text
  <1>1. CASE Trim(text) = <<>>
    BY <1>1, EmptySeq DEF Text
  <1>2. ASSUME NEW a \in 1..Len(text), NEW b \in a..Len(text),
               Trim(text) = SubSeq(text, a, b)
        PROVE  Trim(text) \in Text
    <2>1. Len(text) \in Nat /\ \A i \in 1..Len(text) : text[i] \in STRING
      BY ElementOfSeq, LenProperties DEF Text
    <2>2. a \in Int /\ b \in Int /\ \A i \in a..b : text[i] \in STRING
      BY <2>1
    <2>3. SubSeq(text, a, b) \in Seq(STRING)
      BY <2>2, SubSeqProperties
    <2> QED
      BY <1>2, <2>3 DEF Text
  <1> QED
    BY <1>1, <1>2, TrimIs

-----------------------------------------------------------------------------
(***************************************************************************)
(* What is read of the body of a request.                                  *)
(***************************************************************************)
LEMMA FiveAppended ==
  ASSUME NEW p, NEW q, NEW r, NEW u, NEW v
  PROVE  Append(<<p, q, r, u>>, v) = <<p, q, r, u, v>>
  <1> DEFINE S == {p, q, r, u, v}
  <1>1. <<p, q, r, u>> \in Seq(S) /\ <<p, q, r, u, v>> \in Seq(S) /\ v \in S
    OBVIOUS
  <1>2. /\ Len(<<p, q, r, u, v>>) = Len(<<p, q, r, u>>) + 1
        /\ <<p, q, r, u, v>>[Len(<<p, q, r, u>>) + 1] = v
    OBVIOUS
  <1>3. \A i \in 1..Len(<<p, q, r, u>>) : <<p, q, r, u, v>>[i] = <<p, q, r, u>>[i]
    OBVIOUS
  <1> HIDE DEF S
  <1> QED
    BY <1>1, <1>2, <1>3, AppendIs, Zenon

\* Short texts.
LEMMA TwoPieces ==
  ASSUME NEW S, NEW p \in S, NEW q \in S
  PROVE  <<p, q>> \in Seq(S)
  OBVIOUS

\* Three pieces are a text.
LEMMA ThreePieces ==
  ASSUME NEW S, NEW p \in S, NEW q \in S, NEW r \in S
  PROVE  <<p, q, r>> \in Seq(S)
  OBVIOUS

\* Four pieces are a text.
LEMMA FourPieces ==
  ASSUME NEW S, NEW p \in S, NEW q \in S, NEW r \in S, NEW u \in S
  PROVE  <<p, q, r, u>> \in Seq(S)
  OBVIOUS

\* A normalised query is a text.
LEMMA NormalizeSearchQueryType ==
  ASSUME NEW query \in Text
  PROVE  NormalizeSearchQuery(query) \in Text
  <1> DEFINE text == Trim(query)
  <1>1. text \in Text
    BY TrimType
  <1>2. <<"search", " ", "*">> \in Text /\ <<"search", " ">> \in Text
    BY WordsAssumption, ThreePieces, TwoPieces, Zenon DEF Text
  <1>3. <<"search", " ">> \o text \in Text
    BY <1>1, <1>2, TextConcat
  <1>4. NormalizeSearchQuery(query)
          \in {<<"search", " ", "*">>, text, <<"search", " ">> \o text}
    <2> HIDE DEF text
    <2>1. \/ text = <<>>
          \/ text # <<>> /\ text[1] = "|"
          \/ Len(text) > 1 /\ Lower(text[1]) = "search" /\ text[2] = " "
          \/ ~ \/ text = <<>>
               \/ text # <<>> /\ text[1] = "|"
               \/ Len(text) > 1 /\ Lower(text[1]) = "search" /\ text[2] = " "
      OBVIOUS
    <2>2. NormalizeSearchQuery(query)
            = CASE text = <<>> -> <<"search", " ", "*">>
                [] text # <<>> /\ text[1] = "|" -> text
                [] Len(text) > 1 /\ Lower(text[1]) = "search" /\ text[2] = " " -> text
                [] OTHER -> <<"search", " ">> \o text
      BY DEF NormalizeSearchQuery, text
    <2> QED
      BY <2>1, <2>2
  <1> QED
    BY <1>1, <1>2, <1>3, <1>4

\* The fields of the form, as they are meant.
SearchField(b) == << <<"search">>, NormalizeSearchQuery(b.query)>>
EarliestField(b) == << <<"earliest_time">>, b.earliest>>
LatestField(b) == << <<"latest_time">>, b.latest>>
ModeField == << <<"output_mode">>, <<"json">> >>
CountField(b) == << <<"count">>, <<Decimal(b.max_rows)>> >>

\* The reader of the form at the end of the body is at the value of the last
\* field, and has read all the others.
LEMMA ReadBody ==
  ASSUME NEW b, b.query \in Text, b.earliest \in Text, b.latest \in Text,
         b.max_rows \in Limits
  PROVE  /\ BuildExportBody(b) \in Text
         /\ ReadFrom(Start, BuildExportBody(b)) =
              LET first == <<SearchField(b), EarliestField(b), LatestField(b)>>
              IN  IF b.max_rows > 0
                  THEN AtValue(Append(first, ModeField), <<"count">>, <<Decimal(b.max_rows)>>)
                  ELSE AtValue(first, <<"output_mode">>, <<"json">>)
  <1> DEFINE query == NormalizeSearchQuery(b.query)
             E1 == URLEncode(query)
             E2 == URLEncode(b.earliest)
             E3 == URLEncode(b.latest)
             P1 == <<"search", "=">>
             P2 == <<"&", "earliest_time", "=">>
             P3 == <<"&", "latest_time", "=">>
             P4 == <<"&", "output_mode", "=", "json">>
             P5 == <<"&", "count", "=", Decimal(b.max_rows)>>
             N1 == <<"search">>
             N2 == <<"earliest_time">>
             N3 == <<"latest_time">>
             N4 == <<"output_mode">>
             N5 == <<"count">>
             V4 == <<"json">>
             V5 == <<Decimal(b.max_rows)>>
             F0 == <<>>
             F1 == <<SearchField(b)>>
             F2 == <<SearchField(b), EarliestField(b)>>
             F3 == <<SearchField(b), EarliestField(b), LatestField(b)>>
             F4 == Append(F3, ModeField)
  <1>1. query \in Text
    BY NormalizeSearchQueryType
  <1>2. E1 \in Text /\ E2 \in Text /\ E3 \in Text
    BY <1>1, URLEncodeType
  <1>3. P1 \in Text /\ P2 \in Text /\ P3 \in Text /\ P4 \in Text
    BY WordsAssumption, TwoPieces, ThreePieces, FourPieces, Zenon DEF Text
  <1>4. P5 \in Text /\ IsPlain(Decimal(b.max_rows))
    <2>1. Decimal(b.max_rows) \in STRING \ {"%", "&", "=", "+"}
      BY DecimalAssumption
    <2>2. P5 \in Text
      BY <2>1, WordsAssumption, FourPieces, Zenon DEF Text
    <2> QED
      BY <2>1, <2>2 DEF IsPlain
  <1>5. F1 = With(F0, N1, query)
    BY OneAppended DEF With, SearchField
  <1>6. F2 = With(F1, N2, b.earliest)
    BY TwoAppended DEF With, EarliestField
  <1>7. F3 = With(F2, N3, b.latest)
    BY ThreeAppended DEF With, LatestField
  <1>8. F4 = With(F3, N4, V4)
    BY DEF With, ModeField
  <1>9. ReadFrom(Start, P1) = AtValue(F0, N1, F0)
    BY ReadFirstName
  <1>10. ReadFrom(AtValue(F0, N1, query), P2) = AtValue(F1, N2, F0)
    <2> DEFINE next == "earliest_time"
    <2>1. IsPlain(next) /\ P2 = NamePart(next) /\ N2 = Only(next) /\ F0 = Nothing
      BY DEF IsPlain, NamePart, Only, Nothing
    <2> HIDE DEF next, P2, N1, N2, F0, F1, query
    <2> QED
      BY <1>5, <2>1, NextName
  <1>11. ReadFrom(AtValue(F1, N2, b.earliest), P3) = AtValue(F2, N3, F0)
    <2> DEFINE next == "latest_time"
    <2>1. IsPlain(next) /\ P3 = NamePart(next) /\ N3 = Only(next) /\ F0 = Nothing
      BY DEF IsPlain, NamePart, Only, Nothing
    <2> HIDE DEF next, P3, N2, N3, F0, F1, F2
    <2> QED
      BY <1>6, <2>1, NextName
  <1>12. ReadFrom(AtValue(F2, N3, b.latest), P4) = AtValue(F3, N4, V4)
    <2> DEFINE next == "output_mode"
               piece == "json"
    <2>1. /\ IsPlain(next) /\ IsPlain(piece)
          /\ P4 = FieldPart(next, piece) /\ N4 = Only(next) /\ V4 = Only(piece)
      BY DEF IsPlain, FieldPart, Only
    <2> HIDE DEF next, piece, P4, N3, N4, V4, F2, F3
    <2> QED
      BY <1>7, <2>1, NextField
  <1>13. ReadFrom(AtValue(F3, N4, V4), P5) = AtValue(F4, N5, V5)
    <2> DEFINE next == "count"
               piece == Decimal(b.max_rows)
    <2>1. IsPlain(piece) /\ P5 = FieldPart(next, piece) /\ N5 = Only(next) /\ V5 = Only(piece)
      BY <1>4 DEF FieldPart, Only
    <2>2. IsPlain(next)
      BY DEF IsPlain
    <2> HIDE DEF next, piece, P5, N4, N5, V4, V5, F3, F4
    <2> QED
      BY <1>8, <2>1, <2>2, NextField
  <1>14. /\ ReadFrom(AtValue(F0, N1, F0), E1) = AtValue(F0, N1, query)
         /\ ReadFrom(AtValue(F1, N2, F0), E2) = AtValue(F1, N2, b.earliest)
         /\ ReadFrom(AtValue(F2, N3, F0), E3) = AtValue(F2, N3, b.latest)
    <2>1. F0 = <<>>
      OBVIOUS
    <2> HIDE DEF N1, N2, N3, F0, F1, F2, query
    <2> QED
      BY <1>1, <2>1, ReadEncoded
  <1> DEFINE B1 == P1 \o E1
             B2 == B1 \o P2
             B3 == B2 \o E2
             B4 == B3 \o P3
             B5 == B4 \o E3
             B6 == B5 \o P4
             B7 == B6 \o P5
  <1>15. BuildExportBody(b) = IF b.max_rows > 0 THEN B7 ELSE B6 \o <<>>
    BY DEF BuildExportBody
  <1>16. AtValue(F4, <<"count">>, <<Decimal(b.max_rows)>>) = AtValue(F4, N5, V5)
         /\ AtValue(F3, <<"output_mode">>, <<"json">>) = AtValue(F3, N4, V4)
    OBVIOUS
  <1> HIDE DEF query, E1, E2, E3, P1, P2, P3, P4, P5, N1, N2, N3, N4, N5, V4, V5,
               F0, F1, F2, F3, F4
  <1>17. B1 \in Text /\ ReadFrom(Start, B1) = AtValue(F0, N1, query)
    BY <1>2, <1>3, <1>9, <1>14, ReadOn, TextConcat
  <1>18. B2 \in Text /\ ReadFrom(Start, B2) = AtValue(F1, N2, F0)
    <2> HIDE DEF B1
    <2> QED
      BY <1>3, <1>10, <1>17, ReadOn, TextConcat
  <1>19. B3 \in Text /\ ReadFrom(Start, B3) = AtValue(F1, N2, b.earliest)
    <2> HIDE DEF B2
    <2> QED
      BY <1>2, <1>14, <1>18, ReadOn, TextConcat
  <1>20. B4 \in Text /\ ReadFrom(Start, B4) = AtValue(F2, N3, F0)
    <2> HIDE DEF B3
    <2> QED
      BY <1>3, <1>11, <1>19, ReadOn, TextConcat
  <1>21. B5 \in Text /\ ReadFrom(Start, B5) = AtValue(F2, N3, b.latest)
    <2> HIDE DEF B4
    <2> QED
      BY <1>2, <1>14, <1>20, ReadOn, TextConcat
  <1>22. B6 \in Text /\ ReadFrom(Start, B6) = AtValue(F3, N4, V4)
    <2> HIDE DEF B5
    <2> QED
      BY <1>3, <1>12, <1>21, ReadOn, TextConcat
  <1>23. B7 \in Text /\ ReadFrom(Start, B7) = AtValue(F4, N5, V5)
    <2> HIDE DEF B6
    <2> QED
      BY <1>4, <1>13, <1>22, ReadOn, TextConcat
  <1> HIDE DEF B6, B7
  <1>24. B6 \o <<>> = B6
    BY <1>22, ConcatEmptySeq DEF Text
  <1>25. CASE b.max_rows > 0
    BY <1>15, <1>16, <1>23, <1>25 DEF F3, F4
  <1>26. CASE ~ (b.max_rows > 0)
    BY <1>15, <1>16, <1>22, <1>24, <1>26 DEF F3
  <1> QED
    BY <1>25, <1>26

\* The server reads four fields, and the count if there is one.
LEMMA FieldsOfBody ==
  ASSUME NEW b, b.query \in Text, b.earliest \in Text, b.latest \in Text,
         b.max_rows \in Limits
  PROVE  FormFields(BuildExportBody(b)) =
           IF b.max_rows > 0
           THEN <<SearchField(b), EarliestField(b), LatestField(b), ModeField, CountField(b)>>
           ELSE <<SearchField(b), EarliestField(b), LatestField(b), ModeField>>
  <1> DEFINE body == BuildExportBody(b)
             read == ReadFrom(Start, body)
             first == <<SearchField(b), EarliestField(b), LatestField(b)>>
             four == <<SearchField(b), EarliestField(b), LatestField(b), ModeField>>
  <1>1. FormFields(body) = Append(read.fields, <<read.name, read.value>>)
    <2> HIDE DEF body
    <2> QED
      BY DEF FormFields, ReadFrom, Start
  <1>2. ASSUME NEW fields, NEW name, NEW value
        PROVE  /\ AtValue(fields, name, value).fields = fields
               /\ AtValue(fields, name, value).name = name
               /\ AtValue(fields, name, value).value = value
    BY DEF AtValue, Reader
  <1>3. Append(first, ModeField) = four
    BY FourAppended
  <1>4. CASE b.max_rows > 0
    <2>1. read = AtValue(Append(first, ModeField), <<"count">>, <<Decimal(b.max_rows)>>)
      BY <1>4, ReadBody
    <2>2. read.fields = four /\ <<read.name, read.value>> = CountField(b)
      <3> HIDE DEF read, first, four
      <3> QED
        BY <1>2, <1>3, <2>1 DEF CountField
    <2>3. Append(four, CountField(b))
            = <<SearchField(b), EarliestField(b), LatestField(b), ModeField, CountField(b)>>
      BY FiveAppended
    <2> HIDE DEF read, four, body
    <2>4. FormFields(body) = Append(four, CountField(b))
      BY <1>1, <2>2
    <2> QED
      BY <1>4, <2>3, <2>4 DEF body
  <1>5. CASE ~ (b.max_rows > 0)
    <2>1. read = AtValue(first, <<"output_mode">>, <<"json">>)
      BY <1>5, ReadBody
    <2>2. read.fields = first /\ <<read.name, read.value>> = ModeField
      <3> HIDE DEF read, first
      <3> QED
        BY <1>2, <2>1 DEF ModeField
    <2> HIDE DEF read, first, body
    <2>3. FormFields(body) = Append(first, ModeField)
      BY <1>1, <2>2
    <2> QED
      BY <1>3, <1>5, <2>3 DEF body, four
  <1> QED
    BY <1>4, <1>5

-----------------------------------------------------------------------------
(***************************************************************************)
(* What a statement is bound with, and the client that is made of it.      *)
(***************************************************************************)
LEMMA OrElseType ==
  ASSUME NEW S, NEW value \in S \cup {None}, NEW default \in S
  PROVE  OrElse(value, default) \in S
  BY DEF OrElse

\* The defaults are texts.
LEMMA DefaultUrlType ==
  /\ DefaultUrl \in Text
  /\ <<>> \in Text /\ <<"*">> \in Text /\ <<"-15m">> \in Text /\ <<"now">> \in Text
  <1>1. <<>> \in Text
    BY EmptySeq DEF Text
  <1>2. /\ DefaultUrl \in Text /\ <<"*">> \in Text
        /\ <<"-15m">> \in Text /\ <<"now">> \in Text
    BY WordsAssumption, OnePiece, Zenon DEF Text, DefaultUrl
  <1> QED
    BY <1>1, <1>2

\* A client that was not configured is one.
LEMMA DefaultClientType == DefaultClient \in Client
  <1>1. 60 \in Limits \ {0} /\ 4 \in Limits
    BY BigintAssumption DEF Limits
  <1>2. DefaultUrl \in Text /\ <<>> \in Text /\ "Bearer" \in STRING /\ FALSE \in BOOLEAN
    BY WordsAssumption, DefaultUrlType
  <1> QED
    BY <1>1, <1>2, Zenon DEF DefaultClient, Client

\* No option of the secret makes a client of another kind.
LEMMA ClientOfType ==
  ASSUME NEW s \in Secret, NEW timeout_seconds \in Limits \ {0}, NEW retries \in Limits
  PROVE  ClientOf(s, timeout_seconds, retries) \in Client
  <1> DEFINE c == ClientOf(s, timeout_seconds, retries)
  <1>1. /\ s.url \in Text \cup {None} /\ s.username \in Text \cup {None}
        /\ s.password \in Text \cup {None} /\ s.token \in Text \cup {None}
        /\ s.token_type \in STRING \cup {None}
    BY DEF Secret, Option
  <1>2. /\ OrElse(s.url, <<>>) \in Text /\ OrElse(s.username, <<>>) \in Text
        /\ OrElse(s.password, <<>>) \in Text /\ OrElse(s.token, <<>>) \in Text
    BY <1>1, DefaultUrlType, OrElseType
  <1>3. s.url # None => s.url \in Text
    BY <1>1
  <1>4. OrElse(s.url, <<>>) # <<>> => s.url \in Text
    BY <1>3 DEF OrElse
  <1>5. (IF OrElse(s.url, <<>>) = <<>> THEN DefaultUrl ELSE s.url) \in Text
    BY <1>4, DefaultUrlType
  <1>6. (IF OrElse(s.token_type, "") = "" THEN "Bearer" ELSE s.token_type) \in STRING
    <2>1. OrElse(s.token_type, "") # "" => s.token_type \in STRING
      BY <1>1 DEF OrElse
    <2>2. "Bearer" \in STRING
      BY WordsAssumption
    <2> QED
      BY <2>1, <2>2
  <1>7. (s.insecure_tls # None /\ ValueToBool(s.insecure_tls)) \in BOOLEAN
    OBVIOUS
  <1> QED
    BY <1>2, <1>5, <1>6, <1>7, Zenon DEF ClientOf, Client

\* CopyConfigTo leaves no field as it was.
LEMMA CopyConfigToIs ==
  ASSUME NEW c \in Client, NEW d \in Client
  PROVE  /\ CopyConfigTo(c, d) \in Client
         /\ \A body : Request(CopyConfigTo(c, d), body) = Request(c, body)
  <1> DEFINE e == CopyConfigTo(c, d)
  <1>1. e \in Client
    BY Zenon DEF CopyConfigTo, Client
  <1>2. e.url = c.url /\ e.username = c.username /\ e.password = c.password
    BY DEF CopyConfigTo, Client
  <1>3. e.token = c.token /\ e.token_type = c.token_type
    BY DEF CopyConfigTo, Client
  <1>4. /\ e.insecure_tls = c.insecure_tls /\ e.retries = c.retries
        /\ e.timeout_seconds = c.timeout_seconds
    BY DEF CopyConfigTo, Client
  <1> HIDE DEF e
  <1>5. Authorization(e) = Authorization(c)
    BY <1>2, <1>3, Zenon DEF Authorization
  <1>6. \A body : Request(e, body) = Request(c, body)
    BY <1>2, <1>4, <1>5, Zenon DEF Request
  <1> QED
    BY <1>1, <1>6 DEF e

\* What stands for a quote and for a backslash in a string of SPL.
Escapes == [ch \in {"\\", "\""} |-> <<"\\", ch>>]

\* Backslashes and quotes get a backslash in front of them.
LEMMA EscapesType ==
  /\ DOMAIN Escapes = {"\\", "\""}
  /\ \A ch \in DOMAIN Escapes : Escapes[ch] = <<"\\", ch>> /\ Escapes[ch] \in Text
  <1>1. DOMAIN Escapes = {"\\", "\""}
        /\ \A ch \in {"\\", "\""} : Escapes[ch] = <<"\\", ch>>
    BY DEF Escapes
  <1>2. \A ch \in {"\\", "\""} : ch \in STRING
    BY WordsAssumption
  <1>3. \A ch \in {"\\", "\""} : <<"\\", ch>> \in Text
    BY <1>2, WordsAssumption, TwoPieces, Zenon DEF Text
  <1> QED
    BY <1>1, <1>3, Zenon

\* The query of a table is index="...", with the name escaped.
LEMMA BuildIndexQueryType ==
  ASSUME NEW name \in Text
  PROVE  /\ Replaced(name, Escapes) \in Text
         /\ BuildIndexQuery(name)
              = (<<"index", "=", "\"">> \o Replaced(name, Escapes)) \o <<"\"">>
         /\ BuildIndexQuery(name) \in Text
  <1>1. Replaced(name, Escapes) \in Text
    BY EscapesType, ReplacedType
  <1>2. <<"index", "=", "\"">> \in Text /\ <<"\"">> \in Text
    BY WordsAssumption, OnePiece, ThreePieces, Zenon DEF Text
  <1>3. BuildIndexQuery(name)
          = (<<"index", "=", "\"">> \o Replaced(name, Escapes)) \o <<"\"">>
    BY Zenon DEF BuildIndexQuery, Escapes
  <1>4. (<<"index", "=", "\"">> \o Replaced(name, Escapes)) \o <<"\"">> \in Text
    BY <1>1, <1>2, TextConcat
  <1> QED
    BY <1>1, <1>3, <1>4

\* No cast changes a limit that was accepted.
LEMMA LimitIsKept ==
  ASSUME NEW n \in Limits
  PROVE  Unsigned(n) = n
  <1> DEFINE M == 2 * (MaxBigint + 1)
  <1>1. M \in Nat /\ n \in Nat /\ n < M
    BY BigintAssumption DEF Limits
  <1>2. Unsigned(n) = n % M
    BY DEF Unsigned
  <1> HIDE DEF M
  <1> QED
    BY <1>1, <1>2

\* Limits that are accepted, or left to their defaults, are not negative.
LEMMA AcceptedLimits ==
  ASSUME NEW p \in Parameters, Accepts(p)
  PROVE  /\ OrElse(p.max_rows, 0) \in Limits
         /\ OrElse(p.retries, 4) \in Limits
         /\ OrElse(p.timeout, 60) \in Limits \ {0}
  <1>1. /\ p.max_rows \in Bigint \cup {None} /\ p.retries \in Bigint \cup {None}
        /\ p.timeout \in Bigint \cup {None}
    BY ParametersAssumption DEF Parameter
  <1>2. MaxBigint \in Nat /\ MaxBigint >= 60
    BY BigintAssumption
  <1> USE DEF Bigint, Limits, OrElse, Accepts
  <1>3. OrElse(p.max_rows, 0) \in Limits
    BY <1>1, <1>2
  <1>4. OrElse(p.retries, 4) \in Limits
    BY <1>1, <1>2
  <1>5. OrElse(p.timeout, 60) \in Limits \ {0}
    BY <1>1, <1>2
  <1> QED
    BY <1>3, <1>4, <1>5

\* What a reader binds is bind data.
LEMMA ReaderDataType ==
  ASSUME NEW p \in Parameters, Accepts(p), NEW s \in Secrets
  PROVE  ReaderData(p, s) \in Bind
  <1>1. /\ p.query \in Text \cup {None} /\ p.earliest \in Text \cup {None}
        /\ p.latest \in Text \cup {None}
    BY ParametersAssumption DEF Parameter, Option
  <1>2. /\ OrElse(p.query, <<"*">>) \in Text /\ OrElse(p.earliest, <<"-15m">>) \in Text
        /\ OrElse(p.latest, <<"now">>) \in Text
    BY <1>1, DefaultUrlType, OrElseType
  <1>3. OrElse(p.max_rows, 0) \in Limits
    BY AcceptedLimits
  <1>4. Unsigned(OrElse(p.retries, 4)) \in Limits
    BY AcceptedLimits, LimitIsKept
  <1>5. Unsigned(OrElse(p.timeout, 60)) \in Limits \ {0}
    BY AcceptedLimits, LimitIsKept
  <1>6. s \in Secret
    BY SecretsAssumption
  <1>7. ClientOf(s, Unsigned(OrElse(p.timeout, 60)), Unsigned(OrElse(p.retries, 4))) \in Client
    BY <1>4, <1>5, <1>6, ClientOfType
  <1> QED
    BY <1>2, <1>3, <1>7, Zenon DEF ReaderData, Bind

\* What a table binds is bind data.
LEMMA TableDataType ==
  ASSUME NEW index \in Indexes, NEW s \in Secrets
  PROVE  TableData(index, s) \in Bind
  <1>1. 60 \in Limits \ {0} /\ 4 \in Limits /\ 0 \in Limits
    BY BigintAssumption DEF Limits
  <1>2. index \in Text /\ s \in Secret
    BY IndexesAssumption, SecretsAssumption
  <1>3. BuildIndexQuery(index) \in Text
    BY <1>2, BuildIndexQueryType
  <1>4. ClientOf(s, 60, 4) \in Client
    BY <1>1, <1>2, ClientOfType
  <1>5. <<"-15m">> \in Text /\ <<"now">> \in Text
    BY DefaultUrlType
  <1> QED
    BY <1>1, <1>3, <1>4, <1>5, Zenon DEF TableData, Bind

\* A normalised URL is a text.
LEMMA NormalizeUrlType ==
  ASSUME NEW raw \in Text
  PROVE  NormalizeUrl(raw) \in Text
  <1> DEFINE trimmed == Trim(raw)
             e == SelectLastInSeq(trimmed, IsNoSlash)
  <1>1. trimmed \in Text
    BY TrimType
  <1>2. NormalizeUrl(raw) = IF SubSeq(trimmed, 1, e) = <<>> THEN DefaultUrl
                            ELSE SubSeq(trimmed, 1, e)
    BY DEF NormalizeUrl
  <1> HIDE DEF trimmed
  <1>3. e \in 0..Len(trimmed)
    BY <1>1, LastNoSlash
  <1>4. Len(trimmed) \in Nat /\ \A i \in 1..Len(trimmed) : trimmed[i] \in STRING
    BY <1>1, ElementOfSeq, LenProperties DEF Text
  <1> HIDE DEF e
  <1>5. e \in Int /\ 1 \in Int /\ \A i \in 1..e : trimmed[i] \in STRING
    BY <1>3, <1>4
  <1>6. SubSeq(trimmed, 1, e) \in Text
    BY <1>5, SubSeqProperties DEF Text
  <1> QED
    BY <1>2, <1>6, DefaultUrlType

-----------------------------------------------------------------------------
(***************************************************************************)
(* The inductive invariant.                                                *)
(***************************************************************************)
\* What is bound is what the parameters, or the table, and the secret of that
\* time make it, and remains so.
Bound ==
    bind # None =>
        /\ statement.secret \in Secrets
        /\ \/ /\ statement.parameters \in Parameters
              /\ Accepts(statement.parameters)
              /\ statement.index = None
              /\ bind = ReaderData(statement.parameters, statement.secret)
           \/ /\ statement.parameters = None
              /\ statement.index \in Indexes
              /\ bind = TableData(statement.index, statement.secret)

\* What was sent is what is bound.
Sent ==
    request # None => /\ bind # None
                      /\ request = Request(bind.client, BuildExportBody(bind))

Inductive == TypeOK /\ Bound /\ Sent

\* Before a statement, nothing is bound and nothing sent.
LEMMA InitInductive == Init => Inductive
  <1> SUFFICES ASSUME Init PROVE Inductive
    OBVIOUS
  <1>1. bind = None /\ request = None /\ statement = None /\ secret \in Secrets
    BY DEF Init
  <1>2. client \in Client
    BY DefaultClientType DEF Init
  <1> QED
    BY <1>1, <1>2 DEF Inductive, TypeOK, Bound, Sent

\* What Execute sends, and the client it makes.
LEMMA ExecuteSends ==
  ASSUME Inductive, Execute
  PROVE  /\ client' \in Client
         /\ request' = Request(bind.client, BuildExportBody(bind))
         /\ request'.url \in Text /\ request'.body \in Text
         /\ request'.verify \in BOOLEAN
  <1>1. bind \in Bind
    BY DEF Inductive, TypeOK, Execute
  <1>2. /\ bind.client \in Client /\ bind.query \in Text /\ bind.earliest \in Text
        /\ bind.latest \in Text /\ bind.max_rows \in Limits
    BY <1>1 DEF Bind
  <1>3. client' = CopyConfigTo(bind.client, DefaultClient)
        /\ request' = Request(client', BuildExportBody(bind))
    BY DEF Execute
  <1>4. client' \in Client
    BY <1>2, <1>3, DefaultClientType, CopyConfigToIs
  <1>5. request' = Request(bind.client, BuildExportBody(bind))
    BY <1>2, <1>3, DefaultClientType, CopyConfigToIs
  <1>6. BuildExportBody(bind) \in Text
    BY <1>2, ReadBody
  <1>7. /\ request'.url = NormalizeUrl(bind.client.url)
        /\ request'.body = BuildExportBody(bind)
        /\ request'.verify = ~ bind.client.insecure_tls
    <2> DEFINE body == BuildExportBody(bind)
               url == NormalizeUrl(bind.client.url)
               auth == Authorization(bind.client)
    <2>1. request' = [url |-> url, authorization |-> auth,
                      verify |-> ~ bind.client.insecure_tls,
                      timeout |-> bind.client.timeout_seconds,
                      retries |-> bind.client.retries, body |-> body]
      BY <1>5 DEF Request
    <2> HIDE DEF body, url, auth
    <2>2. /\ request'.url = url /\ request'.body = body
          /\ request'.verify = ~ bind.client.insecure_tls
      BY <2>1
    <2> QED
      BY <2>2 DEF body, url
  <1>8. bind.client.url \in Text
    BY <1>2 DEF Client
  <1>9. NormalizeUrl(bind.client.url) \in Text
    BY <1>8, NormalizeUrlType
  <1>10. request'.url \in Text /\ request'.body \in Text /\ request'.verify \in BOOLEAN
    BY <1>6, <1>7, <1>9
  <1> QED
    BY <1>4, <1>5, <1>10

\* Binding a reader records what it was bound with.
LEMMA BindReaderKeeps ==
  ASSUME Inductive, BindReader
  PROVE  Inductive'
  <1>1. /\ bind = None /\ secret # None
        /\ secret' = secret /\ client' = client /\ request' = request
    BY DEF BindReader
  <1>2. PICK p \in Parameters :
           /\ Accepts(p)
           /\ bind' = ReaderData(p, secret)
           /\ statement' = [parameters |-> p, index |-> None, secret |-> secret]
    BY DEF BindReader
  <1>3. secret \in Secrets
    BY <1>1 DEF Inductive, TypeOK
  <1>4. bind' \in Bind
    BY <1>2, <1>3, ReaderDataType
  <1>5. statement' \in Statement
    BY <1>2, <1>3 DEF Statement
  <1>6. /\ statement'.parameters = p /\ statement'.index = None
        /\ statement'.secret = secret
    BY <1>2
  <1>7. bind' # None /\ statement' # None
    BY <1>4, <1>5, NoneAssumption
  <1>8. request = None
    BY <1>1 DEF Inductive, TypeOK
  <1>9. TypeOK'
    BY <1>1, <1>3, <1>4, <1>5, <1>7, <1>8 DEF Inductive, TypeOK
  <1>10. Bound'
    BY <1>2, <1>3, <1>6 DEF Bound
  <1>11. Sent'
    BY <1>1, <1>8 DEF Sent
  <1> QED
    BY <1>9, <1>10, <1>11 DEF Inductive

\* Binding a table records what it was bound with.
LEMMA BindTableKeeps ==
  ASSUME Inductive, BindTable
  PROVE  Inductive'
  <1>1. /\ bind = None /\ secret # None
        /\ secret' = secret /\ client' = client /\ request' = request
    BY DEF BindTable
  <1>2. PICK index \in Indexes :
           /\ bind' = TableData(index, secret)
           /\ statement' = [parameters |-> None, index |-> index, secret |-> secret]
    BY DEF BindTable
  <1>3. secret \in Secrets
    BY <1>1 DEF Inductive, TypeOK
  <1>4. bind' \in Bind
    BY <1>2, <1>3, TableDataType
  <1>5. statement' \in Statement
    BY <1>2, <1>3 DEF Statement
  <1>6. /\ statement'.parameters = None /\ statement'.index = index
        /\ statement'.secret = secret
    BY <1>2
  <1>7. bind' # None /\ statement' # None
    BY <1>4, <1>5, NoneAssumption
  <1>8. request = None
    BY <1>1 DEF Inductive, TypeOK
  <1>9. TypeOK'
    BY <1>1, <1>3, <1>4, <1>5, <1>7, <1>8 DEF Inductive, TypeOK
  <1>10. Bound'
    BY <1>2, <1>3, <1>6 DEF Bound
  <1>11. Sent'
    BY <1>1, <1>8 DEF Sent
  <1> QED
    BY <1>9, <1>10, <1>11 DEF Inductive

\* A request is made of what is bound, and binds nothing.
LEMMA ExecuteKeeps ==
  ASSUME Inductive, Execute
  PROVE  Inductive'
  <1>1. /\ bind # None /\ secret' = secret /\ bind' = bind
        /\ statement' = statement
    BY DEF Execute
  <1>2. /\ client' \in Client
        /\ request' = Request(bind.client, BuildExportBody(bind))
        /\ request'.url \in Text /\ request'.body \in Text
        /\ request'.verify \in BOOLEAN
    BY ExecuteSends
  <1>3. TypeOK'
    BY <1>1, <1>2 DEF Inductive, TypeOK
  <1>4. Bound'
    BY <1>1 DEF Inductive, Bound
  <1>5. Sent'
    BY <1>1, <1>2 DEF Sent
  <1> QED
    BY <1>3, <1>4, <1>5 DEF Inductive

\* Every step keeps the invariant; those that change the secret touch
\* nothing else.
LEMMA NextKeeps == Inductive /\ [Next]_vars => Inductive'
  <1> SUFFICES ASSUME Inductive, [Next]_vars PROVE Inductive'
    OBVIOUS
  <1>1. CASE ChangeSecret
    <2>1. /\ secret' \in Secrets \cup {None} /\ bind' = bind /\ client' = client
          /\ request' = request /\ statement' = statement
      BY <1>1 DEF ChangeSecret
    <2> QED
      BY <2>1 DEF Inductive, TypeOK, Bound, Sent
  <1>2. CASE BindReader
    BY <1>2, BindReaderKeeps
  <1>3. CASE BindTable
    BY <1>3, BindTableKeeps
  <1>4. CASE Execute
    BY <1>4, ExecuteKeeps
  <1>5. CASE UNCHANGED vars
    <2>1. /\ secret' = secret /\ bind' = bind /\ client' = client
          /\ request' = request /\ statement' = statement
      BY <1>5 DEF vars
    <2> QED
      BY <2>1 DEF Inductive, TypeOK, Bound, Sent
  <1> QED
    BY <1>1, <1>2, <1>3, <1>4, <1>5 DEF Next

\* The inductive invariant: what is bound never changes once it is, and every
\* request is made of it, with a client that has been copied in full.
THEOREM StatementInductiveInvariant == Spec => []Inductive
  <1>1. Init => Inductive
    BY InitInductive
  <1>2. Inductive /\ [Next]_vars => Inductive'
    BY NextKeeps
  <1> QED
    BY <1>1, <1>2, PTL DEF Spec

\* Type correctness, for any secrets, parameters and indexes: no bind has a
\* limit that a cast would change, and no request leaves out its URL or body.
THEOREM StatementTypeCorrect == Spec => []TypeOK
  <1>1. Inductive => TypeOK
    BY DEF Inductive
  <1> QED
    BY <1>1, StatementInductiveInvariant, PTL

-----------------------------------------------------------------------------
(***************************************************************************)
(* The form and the limits.                                                *)
(***************************************************************************)
LEMMA SentIs ==
  ASSUME Inductive, request # None
  PROVE  /\ bind \in Bind /\ statement \in Statement
         /\ bind.client \in Client /\ bind.query \in Text /\ bind.earliest \in Text
         /\ bind.latest \in Text /\ bind.max_rows \in Limits
         /\ request.url = NormalizeUrl(bind.client.url)
         /\ request.authorization = Authorization(bind.client)
         /\ request.verify = ~ bind.client.insecure_tls
         /\ request.timeout = bind.client.timeout_seconds
         /\ request.retries = bind.client.retries
         /\ request.body = BuildExportBody(bind)
  <1>1. bind \in Bind /\ bind # None
    BY DEF Inductive, TypeOK
  <1>2. statement \in Statement
    BY <1>1 DEF Inductive, TypeOK
  <1>3. request = Request(bind.client, BuildExportBody(bind))
    BY DEF Inductive, Sent
  <1>5. /\ request.url = NormalizeUrl(bind.client.url)
        /\ request.authorization = Authorization(bind.client)
        /\ request.verify = ~ bind.client.insecure_tls
        /\ request.timeout = bind.client.timeout_seconds
        /\ request.retries = bind.client.retries
        /\ request.body = BuildExportBody(bind)
    <2> DEFINE c == bind.client
               body == BuildExportBody(bind)
               url == NormalizeUrl(c.url)
               auth == Authorization(c)
    <2>1. request = [url |-> url, authorization |-> auth, verify |-> ~ c.insecure_tls,
                     timeout |-> c.timeout_seconds, retries |-> c.retries, body |-> body]
      BY <1>3 DEF Request
    <2> HIDE DEF c, url, auth, body
    <2>2. /\ request.url = url /\ request.authorization = auth
          /\ request.verify = ~ c.insecure_tls
          /\ request.timeout = c.timeout_seconds /\ request.retries = c.retries
          /\ request.body = body
      BY <2>1
    <2> QED
      BY <2>2 DEF c, url, auth, body
  <1>6. /\ bind.client \in Client /\ bind.query \in Text /\ bind.earliest \in Text
        /\ bind.latest \in Text /\ bind.max_rows \in Limits
    BY <1>1 DEF Bind
  <1> QED
    BY <1>1, <1>2, <1>5, <1>6

\* The form is read as it was meant (BuildExportBody), whatever the texts are:
\* a character that means something to a form is always encoded.
THEOREM FormIsReadAsMeantCorrect == Spec => []FormIsReadAsMeant
  <1>1. Inductive => FormIsReadAsMeant
    <2> SUFFICES ASSUME Inductive, request # None
                 PROVE  FormIsReadAsMeant
      BY DEF FormIsReadAsMeant
    <2> DEFINE fields == FormFields(request.body)
    <2>1. fields = IF bind.max_rows > 0
                   THEN <<SearchField(bind), EarliestField(bind), LatestField(bind),
                          ModeField, CountField(bind)>>
                   ELSE <<SearchField(bind), EarliestField(bind), LatestField(bind),
                          ModeField>>
      BY SentIs, FieldsOfBody
    <2> HIDE DEF fields
    <2>2. /\ fields[1] = SearchField(bind) /\ fields[2] = EarliestField(bind)
          /\ fields[3] = LatestField(bind) /\ fields[4] = ModeField
      BY <2>1
    <2>3. Len(fields) > 4 => Len(fields) = 5 /\ fields[5] = CountField(bind)
      BY <2>1
    <2>4. CountField(bind)[1] = <<"count">>
      BY DEF CountField
    <2>5. Len(fields) > 4 => Len(fields) = 5 /\ fields[5][1] = <<"count">>
      BY <2>3, <2>4
    <2> QED
      BY <2>2, <2>5, Zenon
         DEF FormIsReadAsMeant, fields, SearchField, EarliestField, LatestField, ModeField
  <1> QED
    BY <1>1, StatementInductiveInvariant, PTL

\* The counts among the fields of the body.
LEMMA CountsOfBody ==
  ASSUME NEW b, b.query \in Text, b.earliest \in Text, b.latest \in Text,
         b.max_rows \in Limits,
         NEW fields, fields = FormFields(BuildExportBody(b))
  PROVE  {fields[i][2] : i \in {k \in DOMAIN fields : fields[k][1] = <<"count">>}}
           = IF b.max_rows > 0 THEN {<<Decimal(b.max_rows)>>} ELSE {}
  <1>1. /\ SearchField(b)[1] # <<"count">> /\ EarliestField(b)[1] # <<"count">>
        /\ LatestField(b)[1] # <<"count">> /\ ModeField[1] # <<"count">>
    BY DEF SearchField, EarliestField, LatestField, ModeField
  <1>2. CountField(b)[1] = <<"count">> /\ CountField(b)[2] = <<Decimal(b.max_rows)>>
    BY DEF CountField
  <1>3. CASE b.max_rows > 0
    <2>1. fields = <<SearchField(b), EarliestField(b), LatestField(b), ModeField,
                     CountField(b)>>
      BY <1>3, FieldsOfBody
    <2>2. DOMAIN fields = 1..5 /\ fields[5] = CountField(b)
      BY <2>1
    <2>3. /\ fields[1][1] # <<"count">> /\ fields[2][1] # <<"count">>
          /\ fields[3][1] # <<"count">> /\ fields[4][1] # <<"count">>
      BY <1>1, <2>1
    <2>4. {k \in DOMAIN fields : fields[k][1] = <<"count">>} = {5}
      BY <1>2, <2>2, <2>3
    <2>5. {fields[i][2] : i \in {5}} = {fields[5][2]}
      OBVIOUS
    <2> QED
      BY <1>2, <1>3, <2>2, <2>4, <2>5
  <1>4. CASE ~ (b.max_rows > 0)
    <2>1. fields = <<SearchField(b), EarliestField(b), LatestField(b), ModeField>>
      BY <1>4, FieldsOfBody
    <2>2. DOMAIN fields = 1..4
      BY <2>1
    <2>3. /\ fields[1][1] # <<"count">> /\ fields[2][1] # <<"count">>
          /\ fields[3][1] # <<"count">> /\ fields[4][1] # <<"count">>
      BY <1>1, <2>1
    <2>4. {k \in DOMAIN fields : fields[k][1] = <<"count">>} = {}
      BY <2>2, <2>3
    <2> QED
      BY <1>4, <2>4
  <1> QED
    BY <1>3, <1>4

\* The fields of a client: its limits, and what it has of the secret.
LEMMA ClientLimits ==
  ASSUME NEW s, NEW timeout_seconds, NEW retries
  PROVE  /\ ClientOf(s, timeout_seconds, retries).timeout_seconds = timeout_seconds
         /\ ClientOf(s, timeout_seconds, retries).retries = retries
  <1> DEFINE url == IF OrElse(s.url, <<>>) = <<>> THEN DefaultUrl ELSE s.url
             username == OrElse(s.username, <<>>)
             password == OrElse(s.password, <<>>)
             token == OrElse(s.token, <<>>)
             token_type == IF OrElse(s.token_type, "") = "" THEN "Bearer" ELSE s.token_type
             insecure_tls == s.insecure_tls # None /\ ValueToBool(s.insecure_tls)
             c == ClientOf(s, timeout_seconds, retries)
  <1>1. c = [url |-> url, username |-> username, password |-> password,
             token |-> token, token_type |-> token_type, insecure_tls |-> insecure_tls,
             timeout_seconds |-> timeout_seconds, retries |-> retries]
    BY Zenon DEF ClientOf
  <1> HIDE DEF c, url, username, password, token, token_type, insecure_tls
  <1>2. c.timeout_seconds = timeout_seconds /\ c.retries = retries
    BY <1>1
  <1> QED
    BY <1>2 DEF c

HasOptionsOf(c, s) ==
  /\ c.url = IF OrElse(s.url, <<>>) = <<>> THEN DefaultUrl ELSE s.url
  /\ c.username = OrElse(s.username, <<>>)
  /\ c.password = OrElse(s.password, <<>>)
  /\ c.token = OrElse(s.token, <<>>)
  /\ c.token_type = IF OrElse(s.token_type, "") = "" THEN "Bearer" ELSE s.token_type
  /\ c.insecure_tls = (s.insecure_tls # None /\ ValueToBool(s.insecure_tls))

\* A client that is made of a secret has all of its options.
LEMMA ClientOptions ==
  ASSUME NEW s, NEW timeout_seconds, NEW retries
  PROVE  HasOptionsOf(ClientOf(s, timeout_seconds, retries), s)
  <1> DEFINE url == IF OrElse(s.url, <<>>) = <<>> THEN DefaultUrl ELSE s.url
             username == OrElse(s.username, <<>>)
             password == OrElse(s.password, <<>>)
             token == OrElse(s.token, <<>>)
             token_type == IF OrElse(s.token_type, "") = "" THEN "Bearer" ELSE s.token_type
             insecure_tls == s.insecure_tls # None /\ ValueToBool(s.insecure_tls)
             c == ClientOf(s, timeout_seconds, retries)
  <1>1. c = [url |-> url, username |-> username, password |-> password,
             token |-> token, token_type |-> token_type, insecure_tls |-> insecure_tls,
             timeout_seconds |-> timeout_seconds, retries |-> retries]
    BY Zenon DEF ClientOf
  <1> HIDE DEF c, url, username, password, token, token_type, insecure_tls
  <1>2. c.url = url /\ c.username = username /\ c.password = password
    BY <1>1
  <1>3. c.token = token /\ c.token_type = token_type /\ c.insecure_tls = insecure_tls
    BY <1>1
  <1> QED
    BY <1>2, <1>3, Zenon
       DEF HasOptionsOf, c, url, username, password, token, token_type, insecure_tls

\* What is bound, from what was stated.
LEMMA BindIs ==
  ASSUME Inductive, request # None
  PROVE  LET p == IF statement.parameters # None THEN statement.parameters
                  ELSE [retries |-> None, timeout |-> None, max_rows |-> None]
         IN  /\ statement.secret \in Secrets
             /\ bind.client = ClientOf(statement.secret, OrElse(p.timeout, 60),
                                       OrElse(p.retries, 4))
             /\ bind.max_rows = OrElse(p.max_rows, 0)
             /\ OrElse(p.max_rows, 0) \in Limits
             /\ OrElse(p.max_rows, 0) # 0 => OrElse(p.max_rows, 0) = p.max_rows
  <1> DEFINE p == IF statement.parameters # None THEN statement.parameters
                  ELSE [retries |-> None, timeout |-> None, max_rows |-> None]
             s == statement.secret
  <1>1. /\ s \in Secrets
        /\ \/ /\ statement.parameters \in Parameters
              /\ Accepts(statement.parameters)
              /\ bind = ReaderData(statement.parameters, s)
           \/ /\ statement.parameters = None
              /\ bind = TableData(statement.index, s)
    BY SentIs DEF Inductive, Sent, Bound
  <1>2. OrElse(p.max_rows, 0) # 0 => OrElse(p.max_rows, 0) = p.max_rows
    BY DEF OrElse
  <1>3. CASE /\ statement.parameters \in Parameters
             /\ Accepts(statement.parameters)
             /\ bind = ReaderData(statement.parameters, s)
    <2>1. p = statement.parameters
      BY <1>3, NoneAssumption
    <2> HIDE DEF p, s
    <2>2. p \in Parameters /\ Accepts(p) /\ bind = ReaderData(p, s)
      BY <1>3, <2>1
    <2>3. /\ OrElse(p.max_rows, 0) \in Limits
          /\ Unsigned(OrElse(p.retries, 4)) = OrElse(p.retries, 4)
          /\ Unsigned(OrElse(p.timeout, 60)) = OrElse(p.timeout, 60)
      BY <2>2, AcceptedLimits, LimitIsKept
    <2>4. /\ bind.client = ClientOf(s, Unsigned(OrElse(p.timeout, 60)),
                                    Unsigned(OrElse(p.retries, 4)))
          /\ bind.max_rows = OrElse(p.max_rows, 0)
      BY <2>2 DEF ReaderData
    <2>5. bind.client = ClientOf(s, OrElse(p.timeout, 60), OrElse(p.retries, 4))
      BY <2>3, <2>4, Zenon
    <2> QED
      BY <1>1, <1>2, <2>3, <2>4, <2>5 DEF p, s
  <1>4. CASE statement.parameters = None /\ bind = TableData(statement.index, s)
    <2>1. p = [retries |-> None, timeout |-> None, max_rows |-> None]
      BY <1>4
    <2> HIDE DEF p, s
    <2>2. /\ OrElse(p.max_rows, 0) = 0 /\ OrElse(p.retries, 4) = 4
          /\ OrElse(p.timeout, 60) = 60
      BY <2>1 DEF OrElse
    <2>3. bind.client = ClientOf(s, 60, 4) /\ bind.max_rows = 0
      BY <1>4 DEF TableData
    <2>4. 0 \in Limits
      BY BigintAssumption DEF Limits
    <2>5. bind.client = ClientOf(s, OrElse(p.timeout, 60), OrElse(p.retries, 4))
      BY <2>2, <2>3, Zenon
    <2> QED
      BY <1>1, <1>2, <2>2, <2>3, <2>4, <2>5 DEF p, s
  <1> QED
    BY <1>1, <1>3, <1>4

\* The limits that are sent are those that were stated (SplunkLogsBind,
\* CopyConfigTo, BuildExportBody).
THEOREM LimitsAreAsStatedCorrect == Spec => []LimitsAreAsStated
  <1>1. Inductive => LimitsAreAsStated
    <2> SUFFICES ASSUME Inductive, request # None
                 PROVE  LimitsAreAsStated
      BY DEF LimitsAreAsStated
    <2> DEFINE p == IF statement.parameters # None THEN statement.parameters
                    ELSE [retries |-> None, timeout |-> None, max_rows |-> None]
               fields == FormFields(request.body)
               counts == {fields[i][2] :
                            i \in {k \in DOMAIN fields : fields[k][1] = <<"count">>}}
    <2>1. /\ bind.client = ClientOf(statement.secret, OrElse(p.timeout, 60),
                                    OrElse(p.retries, 4))
          /\ bind.max_rows = OrElse(p.max_rows, 0)
          /\ OrElse(p.max_rows, 0) \in Limits
          /\ OrElse(p.max_rows, 0) # 0 => OrElse(p.max_rows, 0) = p.max_rows
      BY BindIs
    <2>2. counts = IF bind.max_rows > 0 THEN {<<Decimal(bind.max_rows)>>} ELSE {}
      BY SentIs, CountsOfBody, SMTT(30)
    <2> HIDE DEF p, counts
    <2>3. request.retries = OrElse(p.retries, 4) /\ request.timeout = OrElse(p.timeout, 60)
      <3> DEFINE timeout_seconds == OrElse(p.timeout, 60)
                 retries == OrElse(p.retries, 4)
      <3> HIDE DEF timeout_seconds, retries
      <3>1. bind.client = ClientOf(statement.secret, timeout_seconds, retries)
        BY <2>1 DEF timeout_seconds, retries
      <3>2. /\ bind.client.timeout_seconds = timeout_seconds
            /\ bind.client.retries = retries
        BY <3>1, ClientLimits
      <3> QED
        BY <3>2, SentIs DEF timeout_seconds, retries
    <2>4. counts = IF OrElse(p.max_rows, 0) = 0 THEN {} ELSE {<<Decimal(p.max_rows)>>}
      <3>1. OrElse(p.max_rows, 0) = 0 \/ OrElse(p.max_rows, 0) > 0
        BY <2>1, BigintAssumption DEF Limits
      <3>2. CASE OrElse(p.max_rows, 0) = 0
        BY <2>1, <2>2, <3>2
      <3>3. CASE OrElse(p.max_rows, 0) > 0
        BY <2>1, <2>2, <3>3
      <3> QED
        BY <3>1, <3>2, <3>3
    <2> QED
      BY <2>3, <2>4, Zenon DEF LimitsAreAsStated, p, counts
  <1> QED
    BY <1>1, StatementInductiveInvariant, PTL

-----------------------------------------------------------------------------
(***************************************************************************)
(* Where a request goes, and as whom.                                      *)
(***************************************************************************)
\* A part of a part.
LEMMA PartOfPart ==
  ASSUME NEW text \in Text, NEW a \in 1..Len(text), NEW b \in a..Len(text),
         NEW m \in 0..(b - a + 1)
  PROVE  /\ SubSeq(SubSeq(text, a, b), 1, m) = SubSeq(text, a, a + m - 1)
         /\ m = 0 <=> SubSeq(SubSeq(text, a, b), 1, m) = <<>>
  <1> DEFINE t == SubSeq(text, a, b)
             u == SubSeq(t, 1, m)
             v == SubSeq(text, a, a + m - 1)
  <1>1. Len(text) \in Nat /\ \A i \in 1..Len(text) : text[i] \in STRING
    BY ElementOfSeq, LenProperties DEF Text
  <1>2. a \in Int /\ b \in Int /\ m \in Int /\ 1 \in Int /\ a + m - 1 \in Int /\ a <= b
    BY <1>1
  <1>3. /\ \A i \in a..b : text[i] \in STRING
        /\ \A i \in a..(a + m - 1) : text[i] \in STRING
    BY <1>1, <1>2
  <1>4. /\ t \in Seq(STRING) /\ Len(t) = b - a + 1
        /\ \A i \in 1..(b - a + 1) : t[i] = text[a + i - 1]
    BY <1>2, <1>3, SubSeqProperties
  <1>5. /\ v \in Seq(STRING) /\ Len(v) = m
        /\ \A i \in 1..m : v[i] = text[a + i - 1]
    <2>1. /\ v \in Seq(STRING)
          /\ Len(v) = IF a <= a + m - 1 THEN (a + m - 1) - a + 1 ELSE 0
          /\ \A i \in 1..((a + m - 1) - a + 1) : v[i] = text[a + i - 1]
      BY <1>2, <1>3, SubSeqProperties
    <2>2. (a + m - 1) - a + 1 = m /\ (~ (a <= a + m - 1) => m = 0)
      BY <1>1, <1>2
    <2> QED
      BY <2>1, <2>2
  <1> HIDE DEF t, v
  <1>6. \A i \in 1..m : i \in 1..(b - a + 1)
    BY <1>1, <1>2
  <1>7. \A i \in 1..m : t[i] \in STRING
    BY <1>4, <1>6, ElementOfSeq
  <1>8. /\ u \in Seq(STRING) /\ Len(u) = m
        /\ \A i \in 1..m : u[i] = t[i]
    <2>1. /\ u \in Seq(STRING)
          /\ Len(u) = IF 1 <= m THEN m - 1 + 1 ELSE 0
          /\ \A i \in 1..(m - 1 + 1) : u[i] = t[1 + i - 1]
      BY <1>2, <1>7, SubSeqProperties
    <2>2. m - 1 + 1 = m /\ (~ (1 <= m) => m = 0) /\ \A i \in 1..m : 1 + i - 1 = i
      BY <1>1, <1>2
    <2> QED
      BY <2>1, <2>2
  <1> HIDE DEF u
  <1>9. \A i \in 1..Len(u) : u[i] = v[i]
    BY <1>4, <1>5, <1>6, <1>8
  <1>10. u = v
    BY <1>5, <1>8, <1>9, SeqEqual
  <1>11. m = 0 <=> u = <<>>
    BY <1>8, EmptySeq
  <1> QED
    BY <1>10, <1>11 DEF t, u, v

\* NormalizeUrl takes off the blanks, then the slashes.
LEMMA UrlIs ==
  ASSUME NEW given \in Text
  PROVE  IsUrlOf(NormalizeUrl(given), given)
  <1> DEFINE trimmed == Trim(given)
             m == SelectLastInSeq(trimmed, IsNoSlash)
             result == SubSeq(trimmed, 1, m)
             url == NormalizeUrl(given)
  <1>1. url = IF result = <<>> THEN DefaultUrl ELSE result
    BY DEF NormalizeUrl
  <1>2. trimmed \in Text
    BY TrimType
  <1>3. /\ m \in 0..Len(trimmed)
        /\ m # 0 => IsNoSlash(trimmed[m])
        /\ \A i \in (m + 1)..Len(trimmed) : ~ IsNoSlash(trimmed[i])
    <2> HIDE DEF trimmed
    <2> QED
      BY <1>2, LastNoSlash
  <1>4. Len(given) \in Nat /\ Len(<<>>) = 0
    BY LenProperties DEF Text
  <1>5. \/ /\ trimmed = <<>>
           /\ \A i \in 1..Len(given) : ~ IsSolid(given[i])
        \/ \E a \in 1..Len(given) : \E b \in a..Len(given) :
              /\ trimmed = SubSeq(given, a, b)
              /\ IsSolid(given[a]) /\ IsSolid(given[b])
              /\ \A i \in (1..(a - 1)) \cup ((b + 1)..Len(given)) : ~ IsSolid(given[i])
    BY TrimIs
  <1> HIDE DEF trimmed, m, url
  <1>6. CASE trimmed = <<>> /\ \A i \in 1..Len(given) : ~ IsSolid(given[i])
    <2>1. m = 0
      BY <1>3, <1>4, <1>6
    <2>2. result = <<>>
      <3>1. \A i \in 1..0 : trimmed[i] \in STRING
        OBVIOUS
      <3>2. SubSeq(trimmed, 1, 0) \in Seq(STRING) /\ Len(SubSeq(trimmed, 1, 0)) = 0
        BY <3>1, SubSeqProperties
      <3> QED
        BY <2>1, <3>2, EmptySeq
    <2>3. url = DefaultUrl
      BY <1>1, <2>2
    <2>4. /\ 0 \in 0..Len(given)
          /\ \A i \in (1..0) \cup ((0 + 1)..Len(given)) : ~ IsSolid(given[i])
          /\ \A i \in (0 + 1)..0 : given[i] = "/"
      BY <1>4, <1>6
    <2> QED
      BY <2>3, <2>4 DEF IsUrlOf, url
  <1>7. ASSUME NEW a \in 1..Len(given), NEW b \in a..Len(given),
               trimmed = SubSeq(given, a, b), IsSolid(given[a]), IsSolid(given[b]),
               \A i \in (1..(a - 1)) \cup ((b + 1)..Len(given)) : ~ IsSolid(given[i])
        PROVE  IsUrlOf(url, given)
    <2> DEFINE n == a - 1
               e == a + m - 1
    <2>1. \A i \in a..b : given[i] \in STRING
      BY <1>4, ElementOfSeq DEF Text
    <2>2. /\ Len(trimmed) = b - a + 1
          /\ \A i \in 1..(b - a + 1) : trimmed[i] = given[a + i - 1]
      BY <1>4, <1>7, <2>1, SubSeqProperties
    <2>3. m \in 0..(b - a + 1) /\ m \in Nat
      BY <1>3, <1>4, <2>2
    <2>4. /\ SubSeq(trimmed, 1, m) = SubSeq(given, a, a + m - 1)
          /\ m = 0 <=> SubSeq(trimmed, 1, m) = <<>>
      <3>1. /\ SubSeq(SubSeq(given, a, b), 1, m) = SubSeq(given, a, a + m - 1)
            /\ m = 0 <=> SubSeq(SubSeq(given, a, b), 1, m) = <<>>
        BY <2>3, PartOfPart, Zenon
      <3> QED
        BY <1>7, <3>1, Zenon
    <2>5. /\ n \in 0..Len(given) /\ e \in n..Len(given) /\ b \in e..Len(given)
          /\ n + 1 = a /\ (e > n <=> m # 0)
      BY <1>4, <2>3
    <2>6. \A i \in (1..n) \cup ((b + 1)..Len(given)) : ~ IsSolid(given[i])
      BY <1>7
    <2>7. b > n => IsSolid(given[n + 1]) /\ IsSolid(given[b])
      BY <1>7, <2>5
    <2>8. ASSUME NEW i \in (e + 1)..b PROVE given[i] = "/"
      <3> DEFINE j == i - a + 1
      <3>1. j \in (m + 1)..Len(trimmed) /\ j \in 1..(b - a + 1) /\ a + j - 1 = i
        BY <1>4, <2>2, <2>3
      <3>2. ~ IsNoSlash(trimmed[j]) /\ trimmed[j] = given[i]
        <4>1. ~ IsNoSlash(trimmed[j])
          BY <1>3, <3>1
        <4>2. trimmed[j] = given[a + j - 1]
          BY <2>2, <3>1
        <4> QED
          BY <3>1, <4>1, <4>2
      <3> QED
        BY <3>2 DEF IsNoSlash
    <2>9. e > n => given[e] # "/"
      <3>1. m # 0 => m \in 1..(b - a + 1)
        BY <1>4, <2>3
      <3>2. m # 0 => trimmed[m] = given[e]
        BY <2>2, <3>1
      <3> QED
        BY <1>3, <2>5, <3>2 DEF IsNoSlash
    <2>10. url = IF e > n THEN SubSeq(given, n + 1, e) ELSE DefaultUrl
      BY <1>1, <2>4, <2>5
    <2> HIDE DEF n, e
    <2> QED
      BY <2>5, <2>6, <2>7, <2>8, <2>9, <2>10 DEF IsUrlOf
  <1>8. IsUrlOf(url, given)
    BY <1>5, <1>6, <1>7 DEF url
  <1> QED
    BY <1>8 DEF url

\* The default URL has nothing to be trimmed.
LEMMA DefaultUrlStays == NormalizeUrl(DefaultUrl) = DefaultUrl
  <1> DEFINE url == NormalizeUrl(DefaultUrl)
  <1>1. DefaultUrl \in Text
    BY DefaultUrlType
  <1>2. IsUrlOf(url, DefaultUrl)
    BY <1>1, UrlIs
  <1>3. Len(DefaultUrl) = 1
    BY DEF DefaultUrl
  <1> HIDE DEF url
  <1>4. PICK n \in 0..1 : \E e \in n..1 :
           url = IF e > n THEN SubSeq(DefaultUrl, n + 1, e) ELSE DefaultUrl
    BY <1>2, <1>3 DEF IsUrlOf
  <1>5. PICK e \in n..1 :
           url = IF e > n THEN SubSeq(DefaultUrl, n + 1, e) ELSE DefaultUrl
    BY <1>4
  <1>6. CASE e > n
    <2>1. n = 0 /\ e = 1
      BY <1>6
    <2>2. SubSeq(DefaultUrl, 1, 1) = DefaultUrl
      BY <1>1, <1>3, SubSeqFull DEF Text
    <2> QED
      BY <1>5, <1>6, <2>1, <2>2 DEF url
  <1>7. CASE ~ (e > n)
    BY <1>5, <1>7 DEF url
  <1> QED
    BY <1>6, <1>7

\* With which token type a request is sent.
LEMMA SchemeIs ==
  ASSUME NEW tt \in STRING \cup {None}
  PROVE  Lower(IF OrElse(tt, "") = "" THEN "Bearer" ELSE tt) = "splunk"
           <=> tt # None /\ Lower(tt) = "splunk"
  <1>1. Lower("Bearer") # "splunk" /\ Lower("") # "splunk"
    BY LowerAssumption
  <1>2. CASE tt = None
    BY <1>1, <1>2 DEF OrElse
  <1>3. CASE tt # None /\ tt = ""
    BY <1>1, <1>3 DEF OrElse
  <1>4. CASE tt # None /\ tt # ""
    BY <1>4 DEF OrElse
  <1> QED
    BY <1>2, <1>3, <1>4

\* The spellings of TRUE, in any case.
LEMMA ValueToBoolIs ==
  ASSUME NEW value
  PROVE  ValueToBool(value) <=> Lower(value) \in {"true", "1", "yes", "on"}
  <1>1. CASE value = "TRUE"
    BY <1>1, LowerAssumption DEF ValueToBool
  <1>2. CASE value = "FALSE"
    BY <1>2, LowerAssumption DEF ValueToBool
  <1>3. CASE value \notin {"TRUE", "FALSE"}
    BY <1>3 DEF ValueToBool
  <1> QED
    BY <1>1, <1>2, <1>3

\* Every execution goes where, as whom and with what verification the secret
\* said with which the statement was bound (GetSplunkCredentials, CopyConfigTo,
\* NormalizeUrl, GetConnection), whatever has become of the secret since.
THEOREM RequestIsOfBoundSecretCorrect == Spec => []RequestIsOfBoundSecret
  <1>1. Inductive => RequestIsOfBoundSecret
    <2> SUFFICES ASSUME Inductive, request # None
                 PROVE  RequestIsOfBoundSecret
      BY DEF RequestIsOfBoundSecret
    <2> DEFINE s == statement.secret
               token == OrElse(s.token, <<>>)
               given == OrElse(s.url, <<>>)
               c == bind.client
    <2>1. s \in Secrets
      BY BindIs
    <2>2. PICK t, r : c = ClientOf(s, t, r)
      BY BindIs
    <2>3. /\ request.url = NormalizeUrl(c.url)
          /\ request.authorization = Authorization(c)
          /\ request.verify = ~ c.insecure_tls
          /\ c \in Client
      BY SentIs
    <2> HIDE DEF s, c
    <2>4. s \in Secret /\ HasCredentials(s)
      BY <2>1, SecretsAssumption
    <2>5. /\ s.url \in Text \cup {None} /\ s.token_type \in STRING \cup {None}
      BY <2>4 DEF Secret, Option
    <2>6. /\ c.url = IF given = <<>> THEN DefaultUrl ELSE s.url
          /\ c.username = OrElse(s.username, <<>>)
          /\ c.password = OrElse(s.password, <<>>)
          /\ c.token = token
          /\ c.token_type = IF OrElse(s.token_type, "") = "" THEN "Bearer" ELSE s.token_type
          /\ c.insecure_tls = (s.insecure_tls # None /\ ValueToBool(s.insecure_tls))
      <3>1. HasOptionsOf(c, s)
        BY <2>2, ClientOptions
      <3> QED
        BY <3>1, Zenon DEF HasOptionsOf
    <2>7. IsUrlOf(request.url, given)
      <3>1. CASE given = <<>>
        <4>1. request.url = DefaultUrl
          BY <2>3, <2>6, <3>1, DefaultUrlStays
        <4>2. Len(given) = 0
          BY <3>1
        <4> HIDE DEF given
        <4>3. /\ 0 \in 0..Len(given) /\ 0 \in 0..0
              /\ \A i \in (1..0) \cup ((0 + 1)..Len(given)) : ~ IsSolid(given[i])
              /\ \A i \in (0 + 1)..0 : given[i] = "/"
          BY <4>2
        <4> QED
          BY <4>1, <4>3 DEF IsUrlOf
      <3>2. CASE given # <<>>
        <4>1. given = s.url /\ s.url \in Text
          BY <2>5, <3>2 DEF OrElse
        <4>2. request.url = NormalizeUrl(given) /\ given \in Text
          BY <2>3, <2>6, <3>2, <4>1
        <4> HIDE DEF given
        <4> QED
          BY <4>2, UrlIs
      <3> QED
        BY <3>1, <3>2
    <2>8. request.authorization =
             IF token # <<>>
             THEN [scheme |-> IF s.token_type # None /\ Lower(s.token_type) = "splunk"
                              THEN "Splunk" ELSE "Bearer",
                   with |-> token]
             ELSE [scheme |-> "Basic", with |-> s.username \o <<":">> \o s.password]
      <3>1. CASE token # <<>>
        <4>1. Lower(c.token_type) = "splunk"
                <=> s.token_type # None /\ Lower(s.token_type) = "splunk"
          BY <2>5, <2>6, SchemeIs
        <4>2. Authorization(c) =
                [scheme |-> IF Lower(c.token_type) = "splunk" THEN "Splunk" ELSE "Bearer",
                 with |-> c.token]
          BY <2>6, <3>1 DEF Authorization
        <4> QED
          BY <2>3, <2>6, <3>1, <4>1, <4>2
      <3>2. CASE token = <<>>
        <4>1. c.username # <<>> /\ c.username = s.username /\ c.password = s.password
          BY <2>4, <2>6, <3>2 DEF HasCredentials, OrElse
        <4>2. c.token = <<>>
          BY <2>6, <3>2
        <4>3. Authorization(c)
                = [scheme |-> "Basic", with |-> c.username \o <<":">> \o c.password]
          BY <4>1, <4>2 DEF Authorization
        <4> QED
          BY <2>3, <3>2, <4>1, <4>3
      <3> QED
        BY <3>1, <3>2
    <2>9. ~request.verify <=> /\ s.insecure_tls # None
                              /\ Lower(s.insecure_tls) \in {"true", "1", "yes", "on"}
      <3>1. ValueToBool(s.insecure_tls)
              <=> Lower(s.insecure_tls) \in {"true", "1", "yes", "on"}
        BY ValueToBoolIs
      <3>2. ~request.verify <=> s.insecure_tls # None /\ ValueToBool(s.insecure_tls)
        <4>1. c.insecure_tls \in BOOLEAN
          BY <2>3 DEF Client
        <4> QED
          BY <2>3, <2>6, <4>1, Zenon
      <3> QED
        BY <3>1, <3>2
    <2> QED
      BY <2>7, <2>8, <2>9, Zenon DEF RequestIsOfBoundSecret, s
  <1> QED
    BY <1>1, StatementInductiveInvariant, PTL

-----------------------------------------------------------------------------
(***************************************************************************)
(* The search of a catalog table.                                          *)
(***************************************************************************)
\* The reader of SPL strings is between the quotes, and has read this much.
InQuotes(text) == Quoted(text, FALSE, 1)

\* A piece behind a backslash is read as it is.
LEMMA ReadEscaped ==
  ASSUME NEW text, NEW ch
  PROVE  ReadQuoted(ReadQuoted(InQuotes(text), "\\"), ch) = InQuotes(Append(text, ch))
  <1>1. ReadQuoted(InQuotes(text), "\\") = Quoted(text, TRUE, 1)
    BY DEF ReadQuoted, InQuotes, Quoted
  <1>2. ReadQuoted(Quoted(text, TRUE, 1), ch) = InQuotes(Append(text, ch))
    BY DEF ReadQuoted, InQuotes, Quoted
  <1> QED
    BY <1>1, <1>2

\* An escaped name is read as the name.
LEMMA ReadEscapedName ==
  ASSUME NEW name \in Text
  PROVE  StringFrom(InQuotes(<<>>), Replaced(name, Escapes)) = InQuotes(name)
  <1> DEFINE start == InQuotes(<<>>)
             G == {x \in Seq(STRING) :
                     StringFrom(start, Replaced(x, Escapes)) = InQuotes(x)}
  <1>1. <<>> \in G
    BY EmptySeq, ReplacedNothing, StringFromNothing
  <1>2. ASSUME NEW x \in Seq(STRING), NEW ch \in STRING, x \in G
        PROVE  Append(x, ch) \in G
    <2> DEFINE before == Replaced(x, Escapes)
               y == IF ch \in DOMAIN Escapes THEN Escapes[ch] ELSE <<ch>>
    <2>1. before \in Seq(STRING)
      BY EscapesType, ReplacedType DEF Text
    <2>2. y \in Seq(STRING)
      <3>1. CASE ch \in DOMAIN Escapes
        BY <3>1, EscapesType DEF Text
      <3>2. CASE ch \notin DOMAIN Escapes
        <4>1. <<ch>> \in Seq(STRING)
          BY OnePiece
        <4> QED
          BY <3>2, <4>1
      <3> QED
        BY <3>1, <3>2
    <2>3. Replaced(Append(x, ch), Escapes) = before \o y
      BY ReplacedMore DEF Replacing
    <2>4. StringFrom(start, before) = InQuotes(x)
      BY <1>2
    <2>5. StringFrom(InQuotes(x), y) = InQuotes(Append(x, ch))
      <3>1. CASE ch \in DOMAIN Escapes
        <4>1. y = <<"\\", ch>>
          BY <3>1, EscapesType
        <4> HIDE DEF y
        <4>2. StringFrom(InQuotes(x), <<"\\", ch>>)
                = ReadQuoted(ReadQuoted(InQuotes(x), "\\"), ch)
          BY StringFromTwo
        <4>3. StringFrom(InQuotes(x), y) = ReadQuoted(ReadQuoted(InQuotes(x), "\\"), ch)
          BY <4>1, <4>2, Zenon
        <4> QED
          BY <4>3, ReadEscaped
      <3>2. CASE ch \notin DOMAIN Escapes
        <4>1. y = <<ch>> /\ ch # "\\" /\ ch # "\""
          BY <3>2, EscapesType
        <4> HIDE DEF y
        <4>2. StringFrom(InQuotes(x), y) = ReadQuoted(InQuotes(x), ch)
          BY <4>1, StringFromOne
        <4>3. ReadQuoted(InQuotes(x), ch) = InQuotes(Append(x, ch))
          BY <4>1 DEF ReadQuoted, InQuotes, Quoted
        <4> QED
          BY <4>2, <4>3
      <3> QED
        BY <3>1, <3>2
    <2> HIDE DEF y, before, start
    <2>6. StringFrom(start, before \o y) = StringFrom(StringFrom(start, before), y)
      BY <2>1, <2>2, StringFromJoined
    <2>7. StringFrom(start, Replaced(Append(x, ch), Escapes)) = InQuotes(Append(x, ch))
      BY <2>3, <2>4, <2>5, <2>6
    <2>8. Append(x, ch) \in Seq(STRING)
      BY AppendProperties
    <2> QED
      BY <2>7, <2>8
  <1>3. name \in G
    <2> HIDE DEF G
    <2> QED
      BY <1>1, <1>2, SequenceInduction DEF Text
  <1> QED
    BY <1>3

\* The string of SPL that a name is made.
InString(name) == (<<"\"">> \o Replaced(name, Escapes)) \o <<"\"">>

\* A name in an SPL string is read as the name.
LEMMA StringOfName ==
  ASSUME NEW name \in Text
  PROVE  /\ InString(name) \in Text /\ Len(InString(name)) >= 2
         /\ InString(name)[Len(InString(name))] = "\""
         /\ StringIn(InString(name)) = name
  <1> DEFINE R == Replaced(name, Escapes)
             Q == <<"\"">>
             v == Q \o R
             t == v \o Q
             q0 == Quoted(<<>>, FALSE, 0)
  <1>1. R \in Text
    BY BuildIndexQueryType
  <1>2. Q \in Text
    BY WordsAssumption, OnePiece, Zenon DEF Text
  <1>3. Len(Q) = 1 /\ Q[1] = "\""
    OBVIOUS
  <1>4. StringFrom(q0, Q) = InQuotes(<<>>)
    <2>1. StringFrom(q0, Q) = ReadQuoted(q0, "\"")
      <3> HIDE DEF q0
      <3> QED
        BY StringFromOne
    <2>2. ReadQuoted(q0, "\"") = InQuotes(<<>>)
      BY DEF ReadQuoted, InQuotes, Quoted
    <2> QED
      BY <2>1, <2>2
  <1>5. StringFrom(InQuotes(<<>>), R) = InQuotes(name)
    BY ReadEscapedName
  <1>6. StringFrom(InQuotes(name), Q) = Quoted(name, FALSE, 2)
    <2>1. StringFrom(InQuotes(name), Q) = ReadQuoted(InQuotes(name), "\"")
      BY StringFromOne
    <2>2. ReadQuoted(InQuotes(name), "\"") = Quoted(name, FALSE, 2)
      BY DEF ReadQuoted, InQuotes, Quoted
    <2> QED
      BY <2>1, <2>2
  <1> HIDE DEF R, Q, q0
  <1>7. v \in Text
    BY <1>1, <1>2, TextConcat
  <1>8. StringFrom(q0, v) = InQuotes(name)
    BY <1>1, <1>2, <1>4, <1>5, StringFromJoined DEF Text
  <1>9. t \in Text /\ StringFrom(q0, t) = Quoted(name, FALSE, 2)
    <2> HIDE DEF v
    <2>1. t \in Text
      BY <1>2, <1>7, TextConcat
    <2>2. StringFrom(q0, t) = StringFrom(StringFrom(q0, v), Q)
      BY <1>2, <1>7, StringFromJoined DEF Text
    <2> QED
      BY <1>6, <1>8, <2>1, <2>2
  <1>10. Len(v) = Len(Q) + Len(R) /\ Len(R) \in Nat /\ v[1] = "\""
    <2>1. Len(R) \in Nat
      BY <1>1, LenProperties DEF Text
    <2>2. /\ Len(v) = Len(Q) + Len(R)
          /\ \A i \in 1..(Len(Q) + Len(R)) :
                v[i] = IF i <= Len(Q) THEN Q[i] ELSE R[i - Len(Q)]
      BY <1>1, <1>2, ConcatProperties DEF Text
    <2>3. 1 \in 1..(Len(Q) + Len(R)) /\ 1 <= Len(Q)
      <3> DEFINE l == Len(Q)
                 r == Len(R)
      <3>1. l = 1 /\ r \in Nat
        BY <1>3, <2>1
      <3> HIDE DEF l, r
      <3>2. 1 \in 1..(l + r) /\ 1 <= l
        BY <3>1
      <3> QED
        BY <3>2 DEF l, r
    <2> QED
      BY <1>3, <2>1, <2>2, <2>3
  <1>11. Len(t) = Len(v) + Len(Q) /\ t[1] = "\"" /\ t[Len(t)] = "\""
    <2> HIDE DEF v
    <2>1. /\ Len(t) = Len(v) + Len(Q)
          /\ \A i \in 1..(Len(v) + Len(Q)) :
                t[i] = IF i <= Len(v) THEN v[i] ELSE Q[i - Len(v)]
      BY <1>2, <1>7, ConcatProperties DEF Text
    <2> HIDE DEF t
    <2>2. /\ 1 \in 1..(Len(v) + Len(Q)) /\ 1 <= Len(v) /\ Len(t) \in 1..(Len(v) + Len(Q))
          /\ ~ (Len(t) <= Len(v)) /\ Len(t) - Len(v) = 1
      <3> DEFINE k == Len(v)
                 l == Len(Q)
                 m == Len(t)
      <3>1. l = 1 /\ k = l + Len(R) /\ Len(R) \in Nat /\ m = k + l
        BY <1>3, <1>10, <2>1
      <3> HIDE DEF k, l, m
      <3>2. 1 \in 1..(k + l) /\ 1 <= k /\ m \in 1..(k + l) /\ ~ (m <= k) /\ m - k = 1
        BY <3>1
      <3> QED
        BY <3>2 DEF k, l, m
    <2> QED
      BY <1>3, <1>10, <2>1, <2>2
  <1> HIDE DEF t, v
  <1>12. Head(t) = "\"" /\ Last(t) = "\"" /\ Len(t) >= 2
    <2>1. Head(t) = t[1] /\ Last(t) = t[Len(t)]
      BY DEF Last
    <2>2. Len(t) >= 2
      <3> DEFINE k == Len(v)
                 l == Len(Q)
      <3>1. l = 1 /\ k = l + Len(R) /\ Len(R) \in Nat /\ Len(t) = k + l
        BY <1>3, <1>10, <1>11
      <3> HIDE DEF k, l
      <3> QED
        BY <3>1
    <2> QED
      BY <1>11, <2>1, <2>2
  <1>13. StringIn(t) = name
    <2>1. FoldLeft(ReadQuoted, q0, t) = Quoted(name, FALSE, 2)
      BY <1>9 DEF StringFrom
    <2>2. /\ Quoted(name, FALSE, 2).quotes = 2 /\ ~ Quoted(name, FALSE, 2).escaped
          /\ Quoted(name, FALSE, 2).text = name
      BY DEF Quoted
    <2> QED
      BY <1>12, <2>1, <2>2, Zenon DEF StringIn, q0
  <1> QED
    BY <1>9, <1>11, <1>12, <1>13 DEF InString, t, v, Q, R

\* Texts joined of short ones.
LEMMA TwoAndOne ==
  ASSUME NEW p, NEW q, NEW r
  PROVE  <<p, q>> \o <<r>> = <<p, q, r>>
  <1> DEFINE S == {p, q, r}
  <1>1. <<p, q>> \in Seq(S) /\ r \in S
    OBVIOUS
  <1> HIDE DEF S
  <1>2. Append(<<p, q>>, r) = <<p, q>> \o <<r>>
    BY <1>1, AppendIsConcat
  <1> QED
    BY <1>2, ThreeAppended

\* Two pieces and two pieces are four.
LEMMA TwoAndTwo ==
  ASSUME NEW p, NEW q, NEW r, NEW u
  PROVE  <<p, q>> \o <<r, u>> = <<p, q, r, u>>
  <1> DEFINE S == {p, q, r, u}
  <1>1. <<p, q>> \in Seq(S) /\ <<r>> \in Seq(S) /\ u \in S
    OBVIOUS
  <1> HIDE DEF S
  <1>2. <<p, q>> \o Append(<<r>>, u) = Append(<<p, q>> \o <<r>>, u)
    BY <1>1, ConcatAppend
  <1>3. Append(<<r>>, u) = <<r, u>> /\ <<p, q>> \o <<r>> = <<p, q, r>>
    BY TwoAppended, TwoAndOne
  <1>4. Append(<<p, q, r>>, u) = <<p, q, r, u>>
    BY FourAppended
  <1> QED
    BY <1>2, <1>3, <1>4

\* A text that is joined of two comes apart where it was joined.
LEMMA Apart ==
  ASSUME NEW v \in Text, NEW w \in Text, Len(v) > 0, Len(w) > 0
  PROVE  /\ Len(v \o w) = Len(v) + Len(w)
         /\ SubSeq(v \o w, 1, Len(v)) = v
         /\ SubSeq(v \o w, Len(v) + 1, Len(v \o w)) = w
  <1>1. Len(v) \in Nat /\ Len(w) \in Nat /\ v \in Seq(STRING) /\ w \in Seq(STRING)
    BY LenProperties DEF Text
  <1>2. Len(v \o w) = Len(v) + Len(w)
    BY <1>1, ConcatProperties
  <1>3. 1 \in 1..Len(v) /\ Len(v) \in 1..Len(v)
    BY <1>1
  <1>4. SubSeq(v \o w, 1, Len(v)) = SubSeq(v, 1, Len(v))
    BY <1>1, <1>3, SubSeqOfConcat1
  <1>5. SubSeq(v, 1, Len(v)) = v /\ SubSeq(w, 1, Len(w)) = w
    BY <1>1, SubSeqFull
  <1>6. /\ Len(v) + 1 \in (Len(v) + 1)..(Len(v) + Len(w))
        /\ Len(v) + Len(w) \in (Len(v) + 1)..(Len(v) + Len(w))
        /\ (Len(v) + 1) - Len(v) = 1 /\ (Len(v) + Len(w)) - Len(v) = Len(w)
    BY <1>1
  <1>7. SubSeq(v \o w, Len(v) + 1, Len(v) + Len(w))
          = SubSeq(w, (Len(v) + 1) - Len(v), (Len(v) + Len(w)) - Len(v))
    BY <1>1, <1>6, SubSeqOfConcat2
  <1>8. SubSeq(v \o w, Len(v) + 1, Len(v) + Len(w)) = w
    BY <1>5, <1>6, <1>7
  <1> QED
    BY <1>2, <1>4, <1>5, <1>8

\* Nothing is taken off a text whose first and last pieces are solid.
LEMMA TrimNothing ==
  ASSUME NEW text \in Text, Len(text) > 0, IsSolid(text[1]), IsSolid(text[Len(text)])
  PROVE  Trim(text) = text
  <1> DEFINE l == Len(text)
  <1>1. l \in Nat /\ l > 0
    BY LenProperties DEF Text
  <1>2. SubSeq(text, 1, l) = text
    BY SubSeqFull DEF Text
  <1>3. IsSolid(text[l])
    OBVIOUS
  <1>4. \/ \A i \in 1..l : ~ IsSolid(text[i])
        \/ \E a \in 1..l : \E b \in a..l :
              /\ Trim(text) = SubSeq(text, a, b)
              /\ \A i \in (1..(a - 1)) \cup ((b + 1)..l) : ~ IsSolid(text[i])
    BY TrimIs
  <1> HIDE DEF l
  <1>5. ~ \A i \in 1..l : ~ IsSolid(text[i])
    BY <1>1
  <1>6. PICK a \in 1..l : \E b \in a..l :
              /\ Trim(text) = SubSeq(text, a, b)
              /\ \A i \in (1..(a - 1)) \cup ((b + 1)..l) : ~ IsSolid(text[i])
    BY <1>4, <1>5
  <1>7. PICK b \in a..l :
              /\ Trim(text) = SubSeq(text, a, b)
              /\ \A i \in (1..(a - 1)) \cup ((b + 1)..l) : ~ IsSolid(text[i])
    BY <1>6
  <1>8. a = 1
    <2>1. a > 1 => 1 \in 1..(a - 1)
      BY <1>1
    <2> QED
      BY <1>1, <1>7, <2>1
  <1>9. b = l
    <2>1. b < l => l \in (b + 1)..l
      BY <1>1
    <2> QED
      BY <1>1, <1>3, <1>7, <2>1
  <1> QED
    BY <1>2, <1>7, <1>8, <1>9

\* Texts may be joined from either end.
LEMMA TextAssociative ==
  ASSUME NEW u \in Text, NEW v \in Text, NEW w \in Text
  PROVE  (u \o v) \o w = u \o (v \o w)
  BY ConcatAssociative DEF Text

\* The pieces of two texts that are joined.
LEMMA TextJoined ==
  ASSUME NEW u \in Text, NEW v \in Text
  PROVE  /\ Len(u \o v) = Len(u) + Len(v)
         /\ \A i \in 1..(Len(u) + Len(v)) :
               (u \o v)[i] = IF i <= Len(u) THEN u[i] ELSE v[i - Len(u)]
  BY ConcatProperties DEF Text

\* What is searched for a catalog table.
LEMMA SearchOfTable ==
  ASSUME NEW name \in Text
  PROVE  NormalizeSearchQuery(BuildIndexQuery(name))
           = <<"search", " ", "index", "=">> \o InString(name)
  <1> DEFINE S == <<"search", " ">>
             I == <<"index", "=">>
             Q == <<"\"">>
             R == Replaced(name, Escapes)
             v == InString(name)
             text == BuildIndexQuery(name)
  <1>1. S \in Text /\ I \in Text /\ Q \in Text
    BY WordsAssumption, OnePiece, TwoPieces, Zenon DEF Text
  <1>2. R \in Text /\ text \in Text /\ text = (<<"index", "=", "\"">> \o R) \o Q
    BY BuildIndexQueryType
  <1>3. v \in Text /\ Len(v) >= 2 /\ v[Len(v)] = "\"" /\ v = (Q \o R) \o Q
    BY StringOfName DEF InString
  <1>4. <<"index", "=", "\"">> = I \o Q /\ <<"search", " ", "index", "=">> = S \o I
    BY TwoAndOne, TwoAndTwo
  <1>5. Len(I) = 2 /\ I[1] = "index"
    OBVIOUS
  <1> HIDE DEF S, I, Q, R, v, text
  <1>6. text = I \o v
    <2>1. Q \o R \in Text
      BY <1>1, <1>2, TextConcat
    <2>2. (I \o Q) \o R = I \o (Q \o R)
      <3>1. I \in Text /\ Q \in Text /\ R \in Text
        BY <1>1, <1>2
      <3> QED
        BY <3>1, TextAssociative, Zenon
    <2> DEFINE w == Q \o R
    <2> HIDE DEF w
    <2>3. w \in Text /\ text = (I \o w) \o Q /\ v = w \o Q
      BY <1>2, <1>3, <1>4, <2>1, <2>2 DEF w
    <2>4. (I \o w) \o Q = I \o (w \o Q)
      <3>1. I \in Text /\ w \in Text /\ Q \in Text
        BY <1>1, <2>3
      <3> QED
        BY <3>1, TextAssociative, Zenon
    <2> QED
      BY <2>3, <2>4
  <1>7. /\ Len(text) = Len(I) + Len(v)
        /\ \A i \in 1..(Len(I) + Len(v)) :
              text[i] = IF i <= Len(I) THEN I[i] ELSE v[i - Len(I)]
    BY <1>1, <1>3, <1>6, TextJoined
  <1>8. /\ Len(text) > 0 /\ text[1] = "index" /\ text[Len(text)] = "\""
    <2> DEFINE k == Len(I)
               l == Len(v)
               m == Len(text)
    <2>1. k = 2 /\ l \in Nat /\ l >= 2 /\ m = k + l
      BY <1>3, <1>5, <1>7, LenProperties DEF Text
    <2> HIDE DEF k, l, m
    <2>2. /\ 1 \in 1..(k + l) /\ 1 <= k /\ m \in 1..(k + l) /\ ~ (m <= k)
          /\ m - k = l /\ m > 0
      BY <2>1
    <2>3. \A i \in 1..(k + l) : text[i] = IF i <= k THEN I[i] ELSE v[i - k]
      BY <1>7 DEF k, l
    <2>4. text[1] = I[1] /\ text[m] = v[l]
      BY <2>2, <2>3
    <2> QED
      BY <1>3, <1>5, <2>2, <2>4 DEF l, m
  <1>9. Trim(text) = text
    <2>1. IsSolid("index") /\ IsSolid("\"")
      BY DEF IsSolid
    <2>2. IsSolid(text[1]) /\ IsSolid(text[Len(text)])
      BY <1>8, <2>1, Zenon
    <2> QED
      BY <1>2, <1>8, <2>2, TrimNothing
  <1>10. text # <<>> /\ text[1] # "|" /\ Lower(text[1]) # "search"
    <2>1. text # <<>>
      <3>1. Len(<<>>) = 0
        OBVIOUS
      <3>2. Len(text) > 0
        BY <1>8
      <3> QED
        BY <3>1, <3>2
    <2>2. Lower(text[1]) = "index"
      BY <1>8, LowerAssumption, Zenon
    <2> QED
      BY <1>8, <2>1, <2>2
  <1>11. NormalizeSearchQuery(text) = S \o text
    <2>1. NormalizeSearchQuery(text)
            = CASE text = <<>> -> <<"search", " ", "*">>
                [] text # <<>> /\ text[1] = "|" -> text
                [] Len(text) > 1 /\ Lower(text[1]) = "search" /\ text[2] = " " -> text
                [] OTHER -> S \o text
      BY <1>9, Zenon DEF NormalizeSearchQuery, S
    <2> QED
      BY <1>10, <2>1
  <1>12. S \o (I \o v) = (S \o I) \o v
    <2>1. S \in Text /\ I \in Text /\ v \in Text
      BY <1>1, <1>3
    <2> QED
      BY <2>1, TextAssociative, Zenon
  <1>13. NormalizeSearchQuery(text) = (S \o I) \o v
    BY <1>6, <1>11, <1>12
  <1> QED
    BY <1>4, <1>13 DEF v, text

\* A catalog table reads its own index and nothing else (BuildIndexQuery,
\* NormalizeSearchQuery, BuildExportBody), whatever pieces its name is made of.
THEOREM TableSearchesItsIndexCorrect == Spec => []TableSearchesItsIndex
  <1>1. Inductive => TableSearchesItsIndex
    <2> SUFFICES ASSUME Inductive, request # None, statement.index # None
                 PROVE  TableSearchesItsIndex
      BY DEF TableSearchesItsIndex
    <2> DEFINE index == statement.index
               search == FormFields(request.body)[1][2]
               v == InString(index)
               start == <<"search", " ", "index", "=">>
    <2>1. /\ index \in Indexes
          /\ bind = TableData(index, statement.secret)
      BY DEF Inductive, Sent, Bound
    <2>2. index \in Text
      BY <2>1, IndexesAssumption
    <2>3. bind.query = BuildIndexQuery(index)
      BY <2>1 DEF TableData
    <2>4. search = NormalizeSearchQuery(bind.query)
      <3>1. FormFields(request.body)
              = IF bind.max_rows > 0
                THEN <<SearchField(bind), EarliestField(bind), LatestField(bind),
                       ModeField, CountField(bind)>>
                ELSE <<SearchField(bind), EarliestField(bind), LatestField(bind), ModeField>>
        BY SentIs, FieldsOfBody
      <3>2. FormFields(request.body)[1] = SearchField(bind)
        BY <3>1
      <3> QED
        BY <3>2 DEF SearchField
    <2>5. start \in Text /\ Len(start) = 4
      BY WordsAssumption, FourPieces, Zenon DEF Text
    <2> HIDE DEF index, search, v, start
    <2>6. search = start \o v
      BY <2>2, <2>3, <2>4, SearchOfTable DEF v, start
    <2>7. v \in Text /\ Len(v) >= 2 /\ StringIn(v) = index
      BY <2>2, StringOfName DEF v
    <2>8. /\ SubSeq(search, 1, 4) = start
          /\ SubSeq(search, 5, Len(search)) = v
      <3>1. Len(v) > 0 /\ Len(start) > 0 /\ Len(start) + 1 = 5
        BY <2>5, <2>7, LenProperties DEF Text
      <3>2. /\ SubSeq(start \o v, 1, Len(start)) = start
            /\ SubSeq(start \o v, Len(start) + 1, Len(start \o v)) = v
        BY <2>5, <2>7, <3>1, Apart
      <3> QED
        BY <2>5, <2>6, <3>1, <3>2
    <2>9. StringIn(SubSeq(search, 5, Len(search))) = index
      BY <2>7, <2>8
    <2> QED
      BY <2>8, <2>9, Zenon DEF TableSearchesItsIndex, search, index, start
  <1> QED
    BY <1>1, StatementInductiveInvariant, PTL
=============================================================================
