-------------------------- MODULE BrowserScanProofs --------------------------
(***************************************************************************)
(* Proofs about the browser's scan, for any responses, caps and vector     *)
(* size.                                                                   *)
(***************************************************************************)
EXTENDS BrowserScan, ExportResponseProofs, TLAPS

USE DEF Places, Outcomes

\* The first n elements of a sequence, and the others.
LEMMA Parts ==
  ASSUME NEW s \in Seq(Nat), NEW n \in Nat
  PROVE  /\ FirstOf(s, n) \in Seq(Nat)
         /\ AfterFirst(s, n) \in Seq(Nat)
         /\ Len(FirstOf(s, n)) = Smaller(n, Len(s))
         /\ Len(AfterFirst(s, n)) = Len(s) - Len(FirstOf(s, n))
         /\ \A i \in 1..Len(FirstOf(s, n)) : FirstOf(s, n)[i] = s[i]
         /\ \A i \in 1..Len(AfterFirst(s, n)) :
               AfterFirst(s, n)[i] = s[Len(FirstOf(s, n)) + i]
  <1> DEFINE m == Smaller(n, Len(s))
  <1>1. Len(s) \in Nat /\ m \in Nat /\ m <= Len(s)
    BY DEF Smaller
  <1>2. FirstOf(s, n) = SubSeq(s, 1, m) /\ AfterFirst(s, n) = SubSeq(s, m + 1, Len(s))
    BY DEF FirstOf, AfterFirst
  <1> HIDE DEF m
  <1>3. /\ SubSeq(s, 1, m) \in Seq(Nat)
        /\ Len(SubSeq(s, 1, m)) = m
        /\ \A i \in 1..m : SubSeq(s, 1, m)[i] = s[i]
    BY <1>1
  <1>4. /\ SubSeq(s, m + 1, Len(s)) \in Seq(Nat)
        /\ Len(SubSeq(s, m + 1, Len(s))) = Len(s) - m
        /\ \A i \in 1..(Len(s) - m) : SubSeq(s, m + 1, Len(s))[i] = s[m + i]
    BY <1>1
  <1>5. m = Smaller(n, Len(s))
    BY DEF m
  <1> QED
    BY <1>1, <1>2, <1>3, <1>4, <1>5

\* Where the elements of two sequences are after one is put behind the other.
LEMMA Joined ==
  ASSUME NEW s \in Seq(Nat), NEW t \in Seq(Nat)
  PROVE  /\ s \o t \in Seq(Nat)
         /\ Len(s) \in Nat /\ Len(t) \in Nat
         /\ Len(s \o t) = Len(s) + Len(t)
         /\ \A i \in 1..Len(s) : (s \o t)[i] = s[i]
         /\ \A i \in 1..Len(t) : (s \o t)[Len(s) + i] = t[i]
  OBVIOUS

\* What is known of the record that is parsed next, and of its rows.
LEMMA NextRecord ==
  ASSUME TypeOK, WantsRecord, ~CapIsReached
  PROVE  LET k == response_offset + 1
             record == response[k]
             rows == [i \in 1..Taken(record) |-> record.from + i]
         IN  /\ k \in 1..Len(response)
             /\ record.from \in Nat /\ record.to \in Nat /\ record.from <= record.to
             /\ record.from = RowsThrough(response, response_offset)
             /\ Taken(record) \in Nat
             /\ Taken(record) <= record.to - record.from
             /\ max_rows > 0 => produced + Taken(record) <= max_rows
             /\ \/ Taken(record) = record.to - record.from
                \/ max_rows > 0 /\ produced + Taken(record) = max_rows
             /\ rows \in Seq(Nat)
             /\ Len(rows) = Taken(record)
             /\ \A i \in 1..Len(rows) : rows[i] = record.from + i
  <1> DEFINE k == response_offset + 1
             record == response[k]
             t == Taken(record)
             rows == [i \in 1..t |-> record.from + i]
  <1>1. response \in Responses /\ response_offset \in Nat /\ Len(response) \in Nat
    BY ResponseFacts DEF TypeOK
  <1>2. k \in 1..Len(response) /\ k - 1 = response_offset
    BY <1>1 DEF WantsRecord
  <1>3. /\ record.from \in Nat /\ record.to \in Nat /\ record.from <= record.to
        /\ record.from = RowsThrough(response, response_offset)
    BY <1>1, <1>2, ResponseFacts
  <1>4. max_rows \in Nat /\ produced \in Nat /\ (max_rows > 0 => produced < max_rows)
    BY MaxRowsAssumption DEF TypeOK, CapIsReached
  <1>5. /\ t \in Nat /\ t <= record.to - record.from
        /\ max_rows > 0 => produced + t <= max_rows
        /\ \/ t = record.to - record.from
           \/ max_rows > 0 /\ produced + t = max_rows
    <2> HIDE DEF record
    <2> QED
      BY <1>3, <1>4 DEF Taken, Smaller
  <1> HIDE DEF record, t
  <1>6. rows \in Seq(Nat) /\ Len(rows) = t /\ \A i \in 1..t : rows[i] = record.from + i
    BY <1>3, <1>5
  <1> QED
    BY <1>2, <1>3, <1>5, <1>6 DEF record, t

-----------------------------------------------------------------------------
(***************************************************************************)
(* The inductive invariant, one lemma per action that moves rows.          *)
(***************************************************************************)
LEMMA InductiveInit == Init => Inductive
  <1> SUFFICES ASSUME Init PROVE Inductive
    OBVIOUS
  <1>1. response \in Responses /\ Len(response) \in Nat
    BY ResponseFacts DEF Init
  <1>2. <<>> \in Seq(Nat) /\ Len(<<>>) = 0
    OBVIOUS
  <1>3. max_rows \in Nat /\ max_rows \in MaxRowsChoices /\ 0 <= VectorSize
    BY MaxRowsAssumption, VectorSizeAssumption DEF Init
  <1>4. TypeOK
    <2>1. buffer \in Seq(Nat) /\ output \in Seq(Nat) /\ delivered \in Seq(Nat)
      BY <1>2 DEF Init
    <2>2. Len(output) <= VectorSize
      BY <1>2, <1>3 DEF Init
    <2>3. response_offset \in 0..Len(response) /\ produced \in Nat
      BY <1>1 DEF Init
    <2> QED
      BY <1>1, <1>3, <2>1, <2>2, <2>3 DEF Init, TypeOK
  <1>5. Filling /\ EofIsComplete /\ OneRecordAhead
    BY DEF Init, Filling, EofIsComplete, OneRecordAhead
  <1>6. Numbered
    BY <1>2, <1>3 DEF Init, Numbered
  <1>7. Parsing
    BY <1>1 DEF Init, Parsing, RowsThrough
  <1> QED
    BY <1>4, <1>5, <1>6, <1>7 DEF Inductive

\* What holds while a vector is being filled.
LEMMA WhileFilling ==
  ASSUME Inductive, pc = "parse"
  PROVE  /\ outcome = "open"
         /\ response \in Responses /\ Len(response) \in Nat
         /\ max_rows \in Nat /\ produced \in Nat
         /\ response_offset \in Nat /\ response_offset <= Len(response)
         /\ delivered \in Seq(Nat) /\ output \in Seq(Nat) /\ buffer \in Seq(Nat)
         /\ Len(delivered) \in Nat /\ Len(output) \in Nat
         /\ VectorSize \in Nat /\ VectorSize > 0
         /\ Len(output) < VectorSize => buffer = <<>> /\ Len(buffer) = 0
         /\ produced = Len(delivered) + Len(output) + Len(buffer)
         /\ max_rows > 0 => produced <= max_rows
  <1>1. TypeOK /\ Filling /\ Numbered
    BY DEF Inductive
  <1>2. outcome = "open"
    BY <1>1 DEF Filling
  <1>3. response \in Responses /\ Len(response) \in Nat
    BY <1>1, ResponseFacts DEF TypeOK
  <1>4. VectorSize \in Nat /\ VectorSize > 0
    BY VectorSizeAssumption
  <1>5. Len(output) < VectorSize => buffer = <<>>
    BY <1>1, <1>4 DEF Filling, TypeOK
  <1>6. /\ produced = Len(delivered) + Len(output) + Len(buffer)
        /\ max_rows > 0 => produced <= max_rows
    BY <1>1, <1>2 DEF Numbered
  <1> QED
    BY <1>1, <1>2, <1>3, <1>4, <1>5, <1>6, MaxRowsAssumption DEF TypeOK

\* The overflow is drained into the front of an empty vector.
LEMMA DrainOverflowStep ==
  ASSUME Inductive, DrainOverflow
  PROVE  Inductive'
  <1> USE DEF setup
  <1>1. TypeOK /\ Filling /\ Numbered /\ Parsing /\ EofIsComplete /\ OneRecordAhead
    BY DEF Inductive
  <1>2. /\ VectorSize \in Nat
        /\ buffer \in Seq(Nat) /\ delivered \in Seq(Nat)
        /\ Len(buffer) \in Nat /\ Len(delivered) \in Nat
    BY <1>1, VectorSizeAssumption DEF TypeOK
  <1>3. outcome = "open" /\ output = <<>> /\ Len(output) = 0
    BY <1>1 DEF Filling, DrainOverflow
  <1>4. /\ output' \in Seq(Nat) /\ buffer' \in Seq(Nat)
        /\ Len(output') \in Nat /\ Len(buffer') \in Nat
        /\ Len(output') = Smaller(VectorSize, Len(buffer))
        /\ Len(buffer') = Len(buffer) - Len(output')
        /\ \A i \in 1..Len(output') : output'[i] = buffer[i]
        /\ \A i \in 1..Len(buffer') : buffer'[i] = buffer[Len(output') + i]
    <2>1. output' = FirstOf(buffer, VectorSize) /\ buffer' = AfterFirst(buffer, VectorSize)
      BY DEF DrainOverflow
    <2>2. output' \in Seq(Nat) /\ buffer' \in Seq(Nat)
      BY <1>2, <2>1, Parts
    <2>3. Len(output') \in Nat /\ Len(buffer') \in Nat
      BY <2>2
    <2> QED
      <3>1. buffer \in Seq(Nat) /\ VectorSize \in Nat
        BY <1>2
      <3>2. /\ Len(output') = Smaller(VectorSize, Len(buffer))
            /\ Len(buffer') = Len(buffer) - Len(output')
        BY <2>1, <3>1, Parts, Zenon
      <3>3. /\ \A i \in 1..Len(output') : output'[i] = buffer[i]
            /\ \A i \in 1..Len(buffer') : buffer'[i] = buffer[Len(output') + i]
        BY <2>1, <3>1, Parts, Zenon
      <3> QED
        BY <2>2, <2>3, <3>2, <3>3, Zenon
  <1>5. /\ UNCHANGED <<max_rows, response, fetched, response_offset, produced,
                       delivered, outcome, interrupted>>
        /\ pc' = "parse"
    BY DEF DrainOverflow
  <1>6. TypeOK'
    BY <1>1, <1>2, <1>4, <1>5 DEF TypeOK, Smaller
  <1>7. Filling'
    <2>1. buffer' # <<>> => Len(buffer') # 0
      BY <1>4
    <2> QED
      BY <1>2, <1>3, <1>4, <1>5, <2>1 DEF Filling, Smaller
  <1>8. Numbered'
    <2>1. /\ \A i \in 1..Len(delivered) : delivered[i] = i
          /\ \A i \in 1..Len(buffer) : buffer[i] = Len(delivered) + i
          /\ produced = Len(delivered) + Len(buffer)
          /\ max_rows > 0 => produced <= max_rows
      BY <1>1, <1>2, <1>3 DEF Numbered
    <2>2. Len(output') <= Len(buffer) /\ Len(buffer) = Len(output') + Len(buffer')
      BY <1>2, <1>4 DEF Smaller
    <2>3. ASSUME NEW i \in 1..Len(output') PROVE output'[i] = Len(delivered) + i
      <3>1. i \in 1..Len(buffer)
        BY <1>2, <1>4, <2>2
      <3>2. output'[i] = buffer[i]
        BY <1>4
      <3> QED
        BY <2>1, <3>1, <3>2
    <2>4. ASSUME NEW i \in 1..Len(buffer')
          PROVE  buffer'[i] = Len(delivered) + Len(output') + i
      <3>1. Len(output') + i \in 1..Len(buffer)
        BY <1>2, <1>4, <2>2
      <3>2. buffer'[i] = buffer[Len(output') + i]
        BY <1>4
      <3>3. buffer'[i] = Len(delivered) + (Len(output') + i)
        BY <2>1, <3>1, <3>2
      <3> QED
        BY <1>2, <1>4, <3>3
    <2>5. produced = Len(delivered) + Len(output') + Len(buffer')
      BY <1>2, <1>4, <2>1, <2>2
    <2> QED
      BY <1>5, <2>1, <2>3, <2>4, <2>5 DEF Numbered
  <1>9. Parsing' /\ EofIsComplete'
    BY <1>1, <1>5 DEF Parsing, EofIsComplete
  <1>10. OneRecordAhead'
    <2> SUFFICES ASSUME buffer' # <<>>
                 PROVE  OneRecordAhead'
      BY DEF OneRecordAhead
    <2>1. Len(buffer') > 0
      BY <1>4
    <2>2. buffer # <<>>
      BY <1>2, <1>4, <2>1
    <2>3. PICK k \in 1..response_offset :
            \A i \in 1..Len(buffer) :
                response[k].from < buffer[i] /\ buffer[i] <= response[k].to
      BY <1>1, <2>2 DEF OneRecordAhead
    <2>4. \A i \in 1..Len(buffer') : Len(output') + i \in 1..Len(buffer)
      BY <1>2, <1>4
    <2> QED
      BY <1>4, <1>5, <2>3, <2>4 DEF OneRecordAhead
  <1> QED
    BY <1>6, <1>7, <1>8, <1>9, <1>10 DEF Inductive

\* The cap can have been reached in a record that was parsed only.
LEMMA SkipRestStep ==
  ASSUME Inductive, SkipRest
  PROVE  Inductive'
  <1> USE DEF setup
  <1>1. TypeOK /\ Filling /\ Numbered /\ Parsing /\ EofIsComplete /\ OneRecordAhead
    BY DEF Inductive
  <1>2. pc = "parse" /\ max_rows > 0 /\ produced >= max_rows
    BY DEF SkipRest, WantsRecord, CapIsReached
  <1>3. /\ UNCHANGED <<max_rows, response, pc, fetched, produced, buffer, output,
                       delivered, outcome, interrupted>>
        /\ response_offset' = Len(response)
    BY DEF SkipRest
  <1>4. TypeOK' /\ Filling' /\ Numbered' /\ EofIsComplete'
    BY <1>1, <1>2, <1>3, WhileFilling
    DEF TypeOK, Filling, Numbered, EofIsComplete
  <1>5. Parsing'
    <2>1. produced = max_rows
      <3>1. /\ max_rows \in Nat /\ produced \in Nat
            /\ max_rows > 0 => produced <= max_rows
        BY <1>2, WhileFilling
      <3> QED
        BY <1>2, <3>1
    <2>2. \E p \in 1..Len(response) :
             max_rows <= response[p].to /\ \A k \in 1..p : ~response[k].fatal
      <3>1. CASE /\ produced = RowsThrough(response, response_offset)
                 /\ \A k \in 1..response_offset : ~response[k].fatal
        <4>1. response_offset # 0
          BY <1>2, <2>1, <3>1, WhileFilling DEF RowsThrough
        <4>2. response_offset \in 1..Len(response)
          BY <1>2, <4>1, WhileFilling
        <4>3. max_rows = response[response_offset].to
          BY <2>1, <3>1, <4>1 DEF RowsThrough
        <4>4. max_rows <= response[response_offset].to
          BY <1>2, <4>3, WhileFilling
        <4> QED
          BY <3>1, <4>2, <4>4
      <3> QED
        BY <1>1, <1>2, <3>1, WhileFilling DEF Parsing
    <2> QED
      BY <1>2, <1>3, <2>1, <2>2 DEF Parsing
  <1>6. OneRecordAhead'
    <2>1. \A k \in 1..response_offset : k \in 1..Len(response)
      BY <1>2, WhileFilling
    <2> QED
      BY <1>1, <1>3, <2>1 DEF OneRecordAhead
  <1> QED
    BY <1>4, <1>5, <1>6 DEF Inductive

\* A record is parsed only while no overflow waits, so that its events follow
\* those in the vector, and what of them does not fit is all the overflow.
LEMMA ParseRecordStep ==
  ASSUME Inductive, ParseRecord
  PROVE  Inductive'
  <1> USE DEF setup
  <1> DEFINE k == response_offset + 1
             record == response[k]
             t == Taken(record)
             rows == [i \in 1..t |-> record.from + i]
             room == VectorSize - Len(output)
             first == FirstOf(rows, room)
             rest == AfterFirst(rows, room)
  <1>1. TypeOK /\ Filling /\ Numbered /\ Parsing /\ EofIsComplete /\ OneRecordAhead
    BY DEF Inductive
  <1>2. pc = "parse" /\ Len(output) < VectorSize /\ WantsRecord /\ ~CapIsReached
    BY DEF ParseRecord, WantsRecord
  <1>3. /\ outcome = "open"
        /\ response \in Responses /\ Len(response) \in Nat
        /\ max_rows \in Nat /\ produced \in Nat /\ response_offset \in Nat
        /\ delivered \in Seq(Nat) /\ output \in Seq(Nat)
        /\ Len(delivered) \in Nat /\ Len(output) \in Nat
        /\ VectorSize \in Nat
        /\ buffer = <<>> /\ Len(buffer) = 0
        /\ produced = Len(delivered) + Len(output) + Len(buffer)
    BY <1>2, WhileFilling
  <1>4. room \in Nat /\ room = VectorSize - Len(output)
    BY <1>2, <1>3
  <1>5. /\ k \in 1..Len(response) /\ k \in Nat
        /\ record.from \in Nat /\ record.to \in Nat /\ record.from <= record.to
        /\ record.from = RowsThrough(response, response_offset)
        /\ t \in Nat /\ t <= record.to - record.from
        /\ max_rows > 0 => produced + t <= max_rows
        /\ \/ t = record.to - record.from
           \/ max_rows > 0 /\ produced + t = max_rows
        /\ rows \in Seq(Nat)
        /\ Len(rows) = t
        /\ \A i \in 1..Len(rows) : rows[i] = record.from + i
    BY <1>1, <1>2, NextRecord
  <1>6. /\ ~record.fatal
        /\ produced' = produced + Len(rows)
        /\ output' = output \o first
        /\ buffer' = buffer \o rest
        /\ response_offset' = k
        /\ UNCHANGED <<max_rows, response, pc, fetched, delivered, outcome, interrupted>>
    BY DEF ParseRecord
  <1>7. record.from = produced /\ (\A j \in 1..response_offset : ~response[j].fatal)
    <2>1. ~(max_rows > 0 /\ produced = max_rows)
      BY <1>2, <1>3 DEF CapIsReached
    <2>2. /\ produced = RowsThrough(response, response_offset)
          /\ \A j \in 1..response_offset : ~response[j].fatal
      BY <1>1, <1>3, <2>1 DEF Parsing
    <2> QED
      BY <1>5, <2>2
  <1>8. k = response_offset + 1 /\ record = response[k]
    OBVIOUS
  <1> HIDE DEF rows, room, record, t, k
  <1>9. /\ first \in Seq(Nat) /\ rest \in Seq(Nat)
        /\ Len(first) \in Nat /\ Len(rest) \in Nat
        /\ Len(first) = Smaller(room, t)
        /\ Len(rest) = t - Len(first)
        /\ \A i \in 1..Len(first) : first[i] = rows[i]
        /\ \A i \in 1..Len(rest) : rest[i] = rows[Len(first) + i]
    <2>1. first \in Seq(Nat) /\ rest \in Seq(Nat)
      BY <1>4, <1>5, Parts
    <2>2. Len(first) \in Nat /\ Len(rest) \in Nat
      BY <2>1
    <2> QED
      BY <1>4, <1>5, <2>1, <2>2, Parts
  <1> HIDE DEF first, rest
  <1>10. /\ t \in Nat /\ room \in Nat /\ Len(first) \in Nat /\ Len(rest) \in Nat
         /\ Len(rows) = t /\ Len(rest) = t - Len(first)
         /\ Len(first) <= t /\ Len(first) <= room
         /\ Len(first) # room => Len(rest) = 0
    <2>1. /\ t \in Nat /\ room \in Nat /\ Len(first) \in Nat /\ Len(rest) \in Nat
          /\ Len(rows) = t /\ Len(rest) = t - Len(first)
          /\ Len(first) = Smaller(room, t)
      BY <1>4, <1>5, <1>9
    <2> QED
      BY <2>1 DEF Smaller
  <1>11. buffer' = rest
    BY <1>3, <1>6, <1>9
  <1>12. /\ output' \in Seq(Nat)
         /\ Len(output') = Len(output) + Len(first)
         /\ \A i \in 1..Len(output) : output'[i] = output[i]
         /\ \A i \in 1..Len(first) : output'[Len(output) + i] = first[i]
    <2>1. output' = output \o first
      BY <1>6
    <2>2. output \in Seq(Nat) /\ first \in Seq(Nat)
      BY <1>3, <1>9
    <2> QED
      BY <2>1, <2>2, Joined, Zenon
  <1>13. TypeOK'
    <2>1. Len(output') <= VectorSize
      BY <1>3, <1>4, <1>9, <1>10, <1>12
    <2>2. produced' \in Nat
      BY <1>3, <1>5, <1>6
    <2>3. response_offset' \in 0..Len(response')
      BY <1>3, <1>5, <1>6
    <2> QED
      BY <1>1, <1>6, <1>9, <1>11, <1>12, <2>1, <2>2, <2>3 DEF TypeOK
  <1>14. Filling'
    <2>1. buffer' # <<>> => Len(rest) # 0
      BY <1>9, <1>11
    <2>2. buffer' # <<>> => Len(output') = VectorSize
      BY <1>3, <1>4, <1>9, <1>10, <1>12, <2>1
    <2> QED
      BY <1>2, <1>3, <1>6, <2>2 DEF Filling
  <1>15. Numbered'
    <2>1. /\ \A i \in 1..Len(delivered) : delivered[i] = i
          /\ \A i \in 1..Len(output) : output[i] = Len(delivered) + i
      BY <1>1, <1>3 DEF Numbered
    <2>2. ASSUME NEW i \in 1..Len(output') PROVE output'[i] = Len(delivered) + i
      <3>1. CASE i <= Len(output)
        <4>1. i \in 1..Len(output)
          BY <1>3, <3>1
        <4> QED
          BY <1>12, <2>1, <4>1
      <3>2. CASE i > Len(output)
        <4> DEFINE j == i - Len(output)
        <4>1. j \in 1..Len(first) /\ j \in 1..Len(rows) /\ i = Len(output) + j /\ j \in Nat
          <5>1. i \in Nat /\ i <= Len(output) + Len(first)
            BY <1>3, <1>10, <1>12
          <5> QED
            BY <1>3, <1>10, <3>2, <5>1
        <4> HIDE DEF j
        <4>2. output'[i] = rows[j] /\ rows[j] = record.from + j
          BY <1>5, <1>9, <1>12, <4>1
        <4> QED
          BY <1>3, <1>7, <4>1, <4>2
      <3> QED
        BY <1>3, <3>1, <3>2
    <2>3. ASSUME NEW i \in 1..Len(buffer')
          PROVE  buffer'[i] = Len(delivered) + Len(output') + i
      <3>1. i \in 1..Len(rest) /\ Len(first) + i \in 1..Len(rows)
        BY <1>10, <1>11
      <3>2. buffer'[i] = rows[Len(first) + i]
        BY <1>9, <1>11, <3>1
      <3>3. rows[Len(first) + i] = record.from + (Len(first) + i)
        BY <1>5, <3>1
      <3> QED
        BY <1>3, <1>7, <1>9, <1>12, <3>2, <3>3
    <2>4. produced' = Len(delivered) + Len(output') + Len(buffer')
      <3>1. /\ produced' = Len(delivered) + Len(output) + t
            /\ Len(output') = Len(output) + Len(first)
            /\ Len(buffer') = t - Len(first)
        BY <1>3, <1>6, <1>10, <1>11, <1>12
      <3> QED
        BY <1>3, <1>10, <3>1
    <2>5. max_rows > 0 => produced' <= max_rows
      BY <1>3, <1>5, <1>6
    <2> QED
      BY <1>6, <2>1, <2>2, <2>3, <2>4, <2>5 DEF Numbered
  <1>16. Parsing'
    <2>1. \A j \in 1..k : ~response[j].fatal
      <3>1. ASSUME NEW j \in 1..k PROVE j = k \/ j \in 1..response_offset
        BY <1>3, <1>8
      <3> QED
        BY <1>6, <1>7, <1>8, <3>1
    <2>2. produced' = record.from + t
      BY <1>5, <1>6, <1>7
    <2>3. CASE t = record.to - record.from
      <3>1. produced' = response[k].to
        BY <1>5, <1>8, <2>2, <2>3
      <3>2. produced' = RowsThrough(response, k)
        BY <1>5, <3>1 DEF RowsThrough
      <3> QED
        BY <1>6, <2>1, <3>2 DEF Parsing
    <2>4. CASE max_rows > 0 /\ produced + t = max_rows
      <3>1. produced' = max_rows /\ max_rows <= response[k].to
        BY <1>3, <1>5, <1>6, <1>7, <1>8, <2>4
      <3> QED
        BY <1>5, <1>6, <2>1, <2>4, <3>1 DEF Parsing
    <2> QED
      BY <1>5, <2>3, <2>4
  <1>17. EofIsComplete'
    BY <1>3, <1>6 DEF EofIsComplete
  <1>18. OneRecordAhead'
    <2>1. k \in 1..response_offset'
      BY <1>5, <1>6
    <2>2. ASSUME NEW i \in 1..Len(buffer')
          PROVE  response[k].from < buffer'[i] /\ buffer'[i] <= response[k].to
      <3>1. Len(first) + i \in 1..Len(rows) /\ i \in 1..Len(rest)
        BY <1>10, <1>11
      <3>2. buffer'[i] = record.from + (Len(first) + i)
        BY <1>5, <1>9, <1>11, <3>1
      <3>3. Len(first) + i <= record.to - record.from /\ Len(first) + i > 0
        <4>1. record.from \in Nat /\ record.to \in Nat /\ t <= record.to - record.from
          BY <1>5
        <4> QED
          BY <1>10, <3>1, <4>1
      <3>4. /\ record.from \in Nat /\ record.to \in Nat
            /\ response[k].from = record.from /\ response[k].to = record.to
            /\ i \in Nat
        BY <1>5, <1>8
      <3> QED
        BY <1>10, <3>2, <3>3, <3>4
    <2> QED
      BY <1>6, <2>1, <2>2 DEF OneRecordAhead
  <1> QED
    BY <1>13, <1>14, <1>15, <1>16, <1>17, <1>18 DEF Inductive

\* A vector comes back empty only when no overflow is left and the response is
\* used up, and then all the rows asked for have been returned.
LEMMA EmptyVectorIsEnd ==
  ASSUME Inductive, ReturnVector, output = <<>>
  PROVE  Complete(response, max_rows, Len(delivered))
  <1>1. TypeOK /\ Filling /\ Numbered /\ Parsing
    BY DEF Inductive
  <1>2. pc = "parse" /\ (Len(output) >= VectorSize \/ response_offset = Len(response))
    BY DEF ReturnVector
  <1>3. /\ outcome = "open"
        /\ response \in Responses /\ Len(response) \in Nat
        /\ max_rows \in Nat /\ produced \in Nat
        /\ Len(delivered) \in Nat
        /\ VectorSize \in Nat /\ VectorSize > 0
        /\ Len(output) < VectorSize => buffer = <<>> /\ Len(buffer) = 0
        /\ produced = Len(delivered) + Len(output) + Len(buffer)
        /\ max_rows > 0 => produced <= max_rows
    BY <1>2, WhileFilling
  <1>4. Len(output) = 0
    OBVIOUS
  <1>5. response_offset = Len(response) /\ produced = Len(delivered)
    BY <1>2, <1>3, <1>4
  <1>6. CASE /\ produced = RowsThrough(response, response_offset)
             /\ \A k \in 1..response_offset : ~response[k].fatal
    BY <1>3, <1>5, <1>6, AllIsComplete
  <1>7. CASE /\ max_rows > 0 /\ produced = max_rows
             /\ \E p \in 1..Len(response) :
                   /\ max_rows <= response[p].to
                   /\ \A k \in 1..p : ~response[k].fatal
    BY <1>3, <1>5, <1>7, CapIsComplete
  <1> QED
    BY <1>1, <1>3, <1>6, <1>7 DEF Parsing

\* A vector that is returned leaves the rows behind it in the overflow.
LEMMA ReturnVectorStep ==
  ASSUME Inductive, ReturnVector
  PROVE  Inductive'
  <1> USE DEF setup
  <1>1. TypeOK /\ Filling /\ Numbered /\ Parsing /\ EofIsComplete /\ OneRecordAhead
    BY DEF Inductive
  <1>2. pc = "parse" /\ (Len(output) >= VectorSize \/ response_offset = Len(response))
    BY DEF ReturnVector
  <1>3. /\ outcome = "open"
        /\ delivered \in Seq(Nat) /\ output \in Seq(Nat)
        /\ Len(delivered) \in Nat /\ Len(output) \in Nat
        /\ VectorSize \in Nat /\ VectorSize > 0
    BY <1>2, WhileFilling
  <1>4. /\ delivered' = delivered \o output
        /\ outcome' = IF output = <<>> THEN "eof" ELSE outcome
        /\ output' = <<>> /\ pc' = "idle"
        /\ UNCHANGED <<max_rows, response, fetched, response_offset, produced,
                       buffer, interrupted>>
    BY DEF ReturnVector
  <1>5. /\ delivered' \in Seq(Nat)
        /\ Len(delivered') = Len(delivered) + Len(output)
        /\ \A i \in 1..Len(delivered) : delivered'[i] = delivered[i]
        /\ \A i \in 1..Len(output) : delivered'[Len(delivered) + i] = output[i]
    BY <1>3, <1>4, Joined
  <1>6. output' \in Seq(Nat) /\ Len(output') = 0
    BY <1>4
  <1>7. TypeOK'
    <2>1. outcome' \in Outcomes /\ pc' \in Places
      BY <1>3, <1>4
    <2>2. Len(output') <= VectorSize
      BY <1>3, <1>6
    <2> QED
      BY <1>1, <1>4, <1>5, <1>6, <2>1, <2>2 DEF TypeOK
  <1>8. Filling'
    BY <1>4 DEF Filling
  <1>9. Numbered'
    <2>1. /\ \A i \in 1..Len(delivered) : delivered[i] = i
          /\ \A i \in 1..Len(output) : output[i] = Len(delivered) + i
          /\ \A i \in 1..Len(buffer) : buffer[i] = Len(delivered) + Len(output) + i
          /\ produced = Len(delivered) + Len(output) + Len(buffer)
          /\ max_rows > 0 => produced <= max_rows
      BY <1>1, <1>3 DEF Numbered
    <2>2. ASSUME NEW i \in 1..Len(delivered') PROVE delivered'[i] = i
      <3>1. CASE i <= Len(delivered)
        <4>1. i \in 1..Len(delivered)
          BY <1>3, <3>1
        <4> QED
          BY <1>5, <2>1, <4>1
      <3>2. CASE i > Len(delivered)
        <4> DEFINE j == i - Len(delivered)
        <4>1. j \in 1..Len(output) /\ i = Len(delivered) + j
          <5>1. i \in Nat /\ i <= Len(delivered) + Len(output)
            BY <1>3, <1>5
          <5> QED
            BY <1>3, <3>2, <5>1
        <4> HIDE DEF j
        <4> QED
          BY <1>5, <2>1, <4>1
      <3> QED
        BY <1>3, <3>1, <3>2
    <2>3. \A i \in 1..Len(output') : output'[i] = Len(delivered') + i
      BY <1>6
    <2>4. Len(delivered') + Len(output') = Len(delivered) + Len(output)
      BY <1>3, <1>5, <1>6
    <2> QED
      BY <1>4, <2>1, <2>2, <2>3, <2>4 DEF Numbered
  <1>10. Parsing'
    BY <1>1, <1>3, <1>4 DEF Parsing
  <1>11. EofIsComplete'
    <2>1. CASE output = <<>>
      <3>1. Complete(response, max_rows, Len(delivered))
        BY <2>1, EmptyVectorIsEnd
      <3>2. delivered' = delivered
        BY <1>3, <1>4, <2>1
      <3> QED
        BY <1>4, <3>1, <3>2 DEF EofIsComplete
    <2>2. CASE output # <<>>
      BY <1>3, <1>4, <2>2 DEF EofIsComplete
    <2> QED
      BY <2>1, <2>2
  <1>12. OneRecordAhead'
    BY <1>1, <1>4 DEF OneRecordAhead
  <1> QED
    BY <1>7, <1>8, <1>9, <1>10, <1>11, <1>12 DEF Inductive

\* The steps that move no rows: calls that begin, fetch or throw, and the
\* interrupt.
LEMMA OtherStep ==
  ASSUME Inductive,
         \/ BeginScan \/ FetchInterrupted \/ FetchFails \/ FetchBrowserResponse
         \/ SearchError \/ Interrupt \/ UNCHANGED vars
  PROVE  Inductive'
  <1> USE DEF setup, vars, BeginScan, FetchInterrupted, FetchFails,
          FetchBrowserResponse, SearchError, WantsRecord, Interrupt, Throw
  <1>1. TypeOK /\ Filling /\ Numbered /\ Parsing /\ EofIsComplete /\ OneRecordAhead
    BY DEF Inductive
  <1>2. /\ UNCHANGED <<max_rows, response, response_offset, produced, buffer, delivered>>
        /\ output' = output \/ output' = <<>>
        /\ outcome' = outcome \/ outcome' \in {"failed", "interrupted"}
        /\ outcome' = outcome => output' = output
    BY <1>1 DEF Filling
  <1>3. TypeOK'
    <2>1. output' \in Seq(Nat) /\ Len(output') <= VectorSize
      <3>1. <<>> \in Seq(Nat) /\ Len(<<>>) = 0 /\ 0 <= VectorSize
        BY VectorSizeAssumption
      <3>2. CASE output' = output
        BY <1>1, <3>2 DEF TypeOK
      <3>3. CASE output' = <<>>
        BY <3>1, <3>3
      <3> QED
        BY <1>2, <3>2, <3>3
    <2>2. pc' \in Places
      BY <1>1 DEF TypeOK
    <2>3. fetched' \in BOOLEAN
      BY <1>1 DEF TypeOK
    <2>4. interrupted' \in BOOLEAN
      BY <1>1 DEF TypeOK
    <2>5. outcome' \in Outcomes
      BY <1>1, <1>2 DEF TypeOK
    <2> HIDE DEF setup, vars, BeginScan, FetchInterrupted, FetchFails,
             FetchBrowserResponse, SearchError, WantsRecord, Interrupt, Throw
    <2> QED
      BY <1>1, <1>2, <2>1, <2>2, <2>3, <2>4, <2>5 DEF TypeOK
  <1>4. Filling'
    BY <1>1 DEF Filling
  <1>5. Numbered' /\ Parsing' /\ EofIsComplete'
    BY <1>1, <1>2 DEF Numbered, Parsing, EofIsComplete
  <1>6. OneRecordAhead'
    BY <1>1, <1>2 DEF OneRecordAhead
  <1> QED
    BY <1>1, <1>3, <1>4, <1>5, <1>6 DEF Inductive

\* Every step keeps the invariant.
LEMMA InductiveStep == Inductive /\ [Next]_vars => Inductive'
  BY DrainOverflowStep, SkipRestStep, ParseRecordStep, ReturnVectorStep, OtherStep
  DEF Next, Scan, Terminated

\* Every state of the browser's scan satisfies the inductive invariant.
THEOREM BrowserInductiveInvariant == Spec => []Inductive
  BY InductiveInit, InductiveStep, PTL DEF Spec

-----------------------------------------------------------------------------
\* The scan's state stays in its range; the vector never overflows.
THEOREM BrowserTypeCorrect == Spec => []TypeOK
  <1>1. Inductive => TypeOK
    BY DEF Inductive
  <1> QED
    BY <1>1, BrowserInductiveInvariant, PTL

\* What has been returned, the vector and the overflow are the events of the
\* response in order, each once and none beyond the cap.
THEOREM BrowserRowsInOrder == Spec => []RowsInOrder
  <1>1. Inductive => RowsInOrder
    <2> SUFFICES ASSUME Inductive, outcome \in {"open", "eof"}
                 PROVE  LET rows == delivered \o output \o buffer
                        IN  /\ \A i \in 1..Len(rows) : rows[i] = i
                            /\ produced = Len(rows)
                            /\ max_rows > 0 => produced <= max_rows
      BY DEF RowsInOrder
    <2> DEFINE returned == delivered \o output
               rows == returned \o buffer
    <2>1. /\ delivered \in Seq(Nat) /\ output \in Seq(Nat) /\ buffer \in Seq(Nat)
          /\ Len(delivered) \in Nat /\ Len(output) \in Nat /\ Len(buffer) \in Nat
      BY DEF Inductive, TypeOK
    <2>2. /\ \A i \in 1..Len(delivered) : delivered[i] = i
          /\ \A i \in 1..Len(output) : output[i] = Len(delivered) + i
          /\ \A i \in 1..Len(buffer) : buffer[i] = Len(delivered) + Len(output) + i
          /\ produced = Len(delivered) + Len(output) + Len(buffer)
          /\ max_rows > 0 => produced <= max_rows
      BY DEF Inductive, Numbered
    <2>3. /\ returned \in Seq(Nat) /\ Len(returned) \in Nat
          /\ Len(returned) = Len(delivered) + Len(output)
          /\ \A i \in 1..Len(delivered) : returned[i] = delivered[i]
          /\ \A i \in 1..Len(output) : returned[Len(delivered) + i] = output[i]
      BY <2>1, Joined
    <2>4. /\ Len(rows) = Len(returned) + Len(buffer)
          /\ \A i \in 1..Len(returned) : rows[i] = returned[i]
          /\ \A i \in 1..Len(buffer) : rows[Len(returned) + i] = buffer[i]
      <3> HIDE DEF returned
      <3> QED
        BY <2>1, <2>3, Joined
    <2> HIDE DEF returned, rows
    <2>5. ASSUME NEW i \in 1..Len(rows) PROVE rows[i] = i
      <3>1. i \in Nat /\ i >= 1 /\ i <= Len(delivered) + Len(output) + Len(buffer)
        BY <2>1, <2>3, <2>4
      <3>2. CASE i <= Len(delivered)
        <4>1. i \in 1..Len(delivered) /\ i \in 1..Len(returned)
          BY <2>1, <2>3, <3>1, <3>2
        <4> QED
          BY <2>2, <2>3, <2>4, <4>1
      <3>3. CASE i > Len(delivered) /\ i <= Len(delivered) + Len(output)
        <4> DEFINE j == i - Len(delivered)
        <4>1. j \in 1..Len(output) /\ i = Len(delivered) + j /\ i \in 1..Len(returned)
          BY <2>1, <2>3, <3>1, <3>3
        <4> HIDE DEF j
        <4> QED
          BY <2>2, <2>3, <2>4, <4>1
      <3>4. CASE i > Len(delivered) + Len(output)
        <4> DEFINE j == i - Len(returned)
        <4>1. j \in 1..Len(buffer) /\ i = Len(returned) + j
          BY <2>1, <2>3, <3>1, <3>4
        <4> HIDE DEF j
        <4> QED
          BY <2>2, <2>3, <2>4, <4>1
      <3> QED
        BY <2>1, <3>1, <3>2, <3>3, <3>4
    <2>6. produced = Len(rows)
      BY <2>1, <2>2, <2>3, <2>4
    <2>7. rows = delivered \o output \o buffer
      BY DEF rows, returned
    <2> QED
      BY <2>2, <2>5, <2>6, <2>7, Zenon
  <1> QED
    BY <1>1, BrowserInductiveInvariant, PTL

\* The end is reported only when the answer is complete.
THEOREM BrowserEofIsComplete == Spec => []EofIsComplete
  <1>1. Inductive => EofIsComplete
    BY DEF Inductive
  <1> QED
    BY <1>1, BrowserInductiveInvariant, PTL

\* Only events of one record wait in the overflow buffer.
THEOREM BrowserOneRecordAhead == Spec => []OneRecordAhead
  <1>1. Inductive => OneRecordAhead
    BY DEF Inductive
  <1> QED
    BY <1>1, BrowserInductiveInvariant, PTL

-----------------------------------------------------------------------------
(***************************************************************************)
(* The browser's scan implements LogScan.                                  *)
(***************************************************************************)
\* The abstract scan speaks of responses in the same terms.
LEMMA SameTerms ==
  /\ \A r, m, k : Abstract!Deliverable(r, m, k) <=> Deliverable(r, m, k)
  /\ \A r, m, k : Abstract!Complete(r, m, k) <=> Complete(r, m, k)
  BY DEF Abstract!Deliverable, Deliverable, Abstract!Complete, Complete,
         Abstract!Wanted, Wanted, Abstract!RowsThrough, RowsThrough

\* Everything decoded may be returned: the records it comes from were parsed
\* without an error.
LEMMA ProducedDeliverable ==
  ASSUME Inductive, pc = "parse"
  PROVE  Deliverable(response, max_rows, produced)
  <1>1. /\ outcome = "open"
        /\ response \in Responses /\ Len(response) \in Nat
        /\ max_rows \in Nat /\ produced \in Nat
        /\ response_offset \in Nat /\ response_offset <= Len(response)
        /\ max_rows > 0 => produced <= max_rows
    BY WhileFilling
  <1>2. CASE /\ produced = RowsThrough(response, response_offset)
             /\ \A k \in 1..response_offset : ~response[k].fatal
    <2>1. CASE response_offset = 0
      <3>1. produced = 0
        BY <1>2, <2>1 DEF RowsThrough
      <3> QED
        BY <1>1, <3>1, NoRowDeliverable
    <2>2. CASE response_offset # 0
      <3>1. response_offset \in 1..Len(response)
        BY <1>1, <2>2
      <3>2. produced <= response[response_offset].to
        BY <1>1, <1>2, <2>2 DEF RowsThrough
      <3> QED
        BY <1>1, <1>2, <3>1, <3>2, RowsOfParsedDeliverable
    <2> QED
      BY <2>1, <2>2
  <1>3. CASE /\ max_rows > 0 /\ produced = max_rows
             /\ \E p \in 1..Len(response) :
                   /\ max_rows <= response[p].to
                   /\ \A k \in 1..p : ~response[k].fatal
    <2>1. PICK p \in 1..Len(response) :
                   /\ max_rows <= response[p].to
                   /\ \A k \in 1..p : ~response[k].fatal
      BY <1>3
    <2>2. produced <= response[p].to
      BY <1>3, <2>1
    <2> QED
      BY <1>1, <2>1, <2>2, RowsOfParsedDeliverable
  <1> QED
    BY <1>1, <1>2, <1>3 DEF Inductive, Parsing

\* A call that returns rows is ReturnRows, one that returns none is ReportEnd.
LEMMA ReturnVectorImplements ==
  ASSUME Inductive, ReturnVector
  PROVE  Abstract!ReturnRows \/ Abstract!ReportEnd
  <1> USE DEF setup
  <1>1. TypeOK /\ Numbered
    BY DEF Inductive
  <1>2. /\ pc = "parse"
        /\ delivered' = delivered \o output
        /\ outcome' = IF output = <<>> THEN "eof" ELSE outcome
        /\ UNCHANGED <<max_rows, response, interrupted>>
    BY DEF ReturnVector
  <1>3. /\ outcome = "open"
        /\ response \in Responses /\ max_rows \in Nat /\ produced \in Nat
        /\ delivered \in Seq(Nat) /\ output \in Seq(Nat)
        /\ Len(delivered) \in Nat /\ Len(output) \in Nat
        /\ VectorSize \in Nat
        /\ produced = Len(delivered) + Len(output) + Len(buffer)
    BY <1>2, WhileFilling
  <1>4. CASE output = <<>>
    <2>1. delivered' = delivered /\ outcome' = "eof"
      BY <1>2, <1>3, <1>4
    <2>2. Complete(response, max_rows, Len(delivered))
      BY <1>4, EmptyVectorIsEnd
    <2> QED
      BY <1>2, <1>3, <2>1, <2>2, SameTerms DEF Abstract!ReportEnd
  <1>5. CASE output # <<>>
    <2> DEFINE n == Len(output)
    <2>1. n \in 1..VectorSize
      <3>1. Len(output) # 0
        BY <1>3, <1>5
      <3>2. Len(output) <= VectorSize
        BY <1>1 DEF TypeOK
      <3> QED
        BY <1>3, <3>1, <3>2
    <2>2. output = [i \in 1..n |-> Len(delivered) + i]
      <3>1. \A i \in 1..n : output[i] = Len(delivered) + i
        BY <1>1, <1>3 DEF Numbered
      <3> QED
        BY <1>3, <3>1
    <2>3. Deliverable(response, max_rows, Len(delivered) + n)
      <3>1. Len(buffer) \in Nat
        BY <1>1 DEF TypeOK
      <3>2. Len(delivered) + n \in Nat /\ Len(delivered) + n <= produced
        BY <1>3, <3>1
      <3>3. Deliverable(response, max_rows, produced)
        BY <1>2, ProducedDeliverable
      <3> HIDE DEF n
      <3> QED
        BY <1>3, <3>2, <3>3, DeliverableBefore
    <2>4. delivered' = delivered \o [i \in 1..n |-> Len(delivered) + i]
      BY <1>2, <2>2
    <2>5. UNCHANGED <<response, max_rows, outcome, interrupted>>
      BY <1>2, <1>5
    <2> HIDE DEF n
    <2> QED
      BY <1>3, <2>1, <2>3, <2>4, <2>5, SameTerms DEF Abstract!ReturnRows
  <1> QED
    BY <1>4, <1>5

\* Every step of the browser's scan is a step of LogScan, or changes nothing
\* that LogScan speaks of.
LEMMA StepImplements ==
  Inductive /\ [Next]_vars => [Abstract!Next]_(Abstract!vars)
  <1> SUFFICES ASSUME Inductive, [Next]_vars
               PROVE  Abstract!Next \/ UNCHANGED Abstract!vars
    OBVIOUS
  <1> USE DEF setup, Abstract!vars
  <1>1. CASE BeginScan \/ FetchBrowserResponse \/ DrainOverflow \/ SkipRest \/ ParseRecord
    BY <1>1 DEF BeginScan, FetchBrowserResponse, DrainOverflow, SkipRest, ParseRecord
  <1>2. CASE FetchInterrupted \/ FetchFails \/ SearchError
    BY <1>2
    DEF Inductive, Filling, FetchInterrupted, FetchFails, SearchError,
        WantsRecord, Throw, Abstract!Next, Abstract!ThrowError
  <1>3. CASE ReturnVector
    BY <1>3, ReturnVectorImplements DEF Abstract!Next
  <1>4. CASE Interrupt
    BY <1>4 DEF Interrupt, Abstract!Next, Abstract!Interrupt
  <1>5. CASE Terminated \/ UNCHANGED vars
    BY <1>5 DEF Terminated, vars
  <1> QED
    BY <1>1, <1>2, <1>3, <1>4, <1>5 DEF Next, Scan

\* What a query sees of the browser's scan is what LogScan promises, for every
\* response, cap and vector size: the two builds keep one contract.
THEOREM BrowserScanImplementsLogScan == Spec => ImplementsLogScan
  <1>1. Init => Abstract!Init
    BY DEF Init, Abstract!Init
  <1>2. Inductive /\ [Next]_vars => [Abstract!Next]_(Abstract!vars)
    BY StepImplements
  <1> QED
    BY <1>1, <1>2, BrowserInductiveInvariant, PTL
    DEF Spec, ImplementsLogScan, Abstract!Spec
=============================================================================
