------------------------ MODULE ExportResponseProofs ------------------------
(***************************************************************************)
(* Lemmas about responses: which rows one lets a scan return, and which it *)
(* has to.  Both scans rest on them.                                       *)
(***************************************************************************)
EXTENDS ExportResponse, TLAPS

\* What a response is made of, in the form the proofs use it.
LEMMA ResponseFacts ==
  ASSUME NEW r \in Responses
  PROVE  /\ r \in Seq(Record)
         /\ Len(r) \in Nat
         /\ \A k \in 1..Len(r) :
               /\ r[k].from \in Nat
               /\ r[k].to \in Nat
               /\ r[k].from <= r[k].to
               /\ r[k].from = RowsThrough(r, k - 1)
         /\ \A j, k \in 1..Len(r) : j < k => r[j].to <= r[k].from
  <1>1. IsResponse(r)
    BY ResponsesAssumption
  <1>2. r \in Seq(Record) /\ Len(r) \in Nat
    BY <1>1 DEF IsResponse
  <1>3. \A k \in 1..Len(r) : r[k] \in Record
    BY <1>2
  <1>4. \A k \in 1..Len(r) : r[k].from \in Nat /\ r[k].to \in Nat
    BY <1>3 DEF Record
  <1> QED
    BY <1>1, <1>2, <1>4 DEF IsResponse

\* The events of the records do not overlap, so that the last one's are the
\* last.
LEMMA TotalRows ==
  ASSUME NEW r \in Responses, NEW p \in 1..Len(r)
  PROVE  /\ RowsThrough(r, Len(r)) = r[Len(r)].to
         /\ RowsThrough(r, Len(r)) \in Nat
         /\ r[p].to \in Nat
         /\ r[p].to <= RowsThrough(r, Len(r))
  <1>1. Len(r) \in 1..Len(r) /\ Len(r) \in Nat
    BY ResponseFacts
  <1>2. RowsThrough(r, Len(r)) = r[Len(r)].to
    BY <1>1 DEF RowsThrough
  <1>3. r[p].to \in Nat /\ r[Len(r)].to \in Nat /\ r[Len(r)].from \in Nat
    BY <1>1, ResponseFacts
  <1>4. r[Len(r)].from <= r[Len(r)].to
    BY <1>1, ResponseFacts
  <1>5. CASE p = Len(r)
    BY <1>2, <1>3, <1>5
  <1>6. CASE p < Len(r)
    <2>1. r[p].to <= r[Len(r)].from
      BY <1>1, <1>6, ResponseFacts
    <2> QED
      BY <1>2, <1>3, <1>4, <2>1
  <1> QED
    BY <1>1, <1>5, <1>6

\* A scan that has returned nothing has returned nothing wrong.
LEMMA NoRowDeliverable ==
  ASSUME NEW r \in Responses, NEW m \in Nat
  PROVE  Deliverable(r, m, 0)
  <1>1. RowsThrough(r, Len(r)) \in Nat
    <2>1. CASE Len(r) = 0
      BY <2>1 DEF RowsThrough
    <2>2. CASE Len(r) > 0
      <3>1. Len(r) \in 1..Len(r)
        BY <2>2, ResponseFacts
      <3> QED
        BY <3>1, TotalRows
    <2> QED
      BY <2>1, <2>2, ResponseFacts
  <1>2. 0 <= Wanted(r, m)
    BY <1>1 DEF Wanted
  <1>3. \A k \in 1..Len(r) : 0 <= r[k].from
    BY ResponseFacts
  <1> QED
    BY <1>2, <1>3 DEF Deliverable

\* The rows of records that were parsed without an error may be returned.
LEMMA RowsOfParsedDeliverable ==
  ASSUME NEW r \in Responses, NEW p \in 1..Len(r), NEW m \in Nat, NEW n \in Nat,
         n <= r[p].to,
         m > 0 => n <= m,
         \A k \in 1..p : ~r[k].fatal
  PROVE  Deliverable(r, m, n)
  <1>1. n <= Wanted(r, m)
    BY TotalRows DEF Wanted
  <1>2. ASSUME NEW k \in 1..Len(r), r[k].fatal PROVE n <= r[k].from
    <2>1. p < k
      BY <1>2, ResponseFacts
    <2>2. r[p].to <= r[k].from /\ r[p].to \in Nat /\ r[k].from \in Nat
      BY <2>1, ResponseFacts
    <2> QED
      BY <2>2
  <1> QED
    BY <1>1, <1>2 DEF Deliverable

\* As many rows as the cap allows are the whole answer, if so many events have
\* been seen and no search error stands before them.
LEMMA CapIsComplete ==
  ASSUME NEW r \in Responses, NEW p \in 1..Len(r), NEW m \in Nat,
         m > 0,
         m <= r[p].to,
         \A k \in 1..p : ~r[k].fatal
  PROVE  Complete(r, m, m)
  <1>1. m = Wanted(r, m)
    BY TotalRows DEF Wanted
  <1>2. ASSUME NEW k \in 1..Len(r), r[k].fatal PROVE m <= r[k].from
    <2>1. p < k
      BY <1>2, ResponseFacts
    <2>2. r[p].to <= r[k].from /\ r[p].to \in Nat /\ r[k].from \in Nat
      BY <2>1, ResponseFacts
    <2> QED
      BY <2>2
  <1> QED
    BY <1>1, <1>2 DEF Complete

\* All the events of a response without a search error are the whole answer.
LEMMA AllIsComplete ==
  ASSUME NEW r \in Responses, NEW m \in Nat, NEW n \in Nat,
         n = RowsThrough(r, Len(r)),
         m > 0 => n <= m,
         \A k \in 1..Len(r) : ~r[k].fatal
  PROVE  Complete(r, m, n)
  BY DEF Complete, Wanted

\* A scan may stop after any of the rows it may return.
LEMMA DeliverableBefore ==
  ASSUME NEW r \in Responses, NEW m \in Nat, NEW n \in Nat, NEW k \in Nat,
         n <= k,
         Deliverable(r, m, k)
  PROVE  Deliverable(r, m, n)
  <1>1. Wanted(r, m) \in Nat
    <2>1. RowsThrough(r, Len(r)) \in Nat
      <3>1. CASE Len(r) = 0
        BY <3>1 DEF RowsThrough
      <3>2. CASE Len(r) # 0
        <4>1. Len(r) \in 1..Len(r)
          BY <3>2, ResponseFacts
        <4> QED
          BY <4>1, TotalRows
      <3> QED
        BY <3>1, <3>2
    <2> QED
      BY <2>1 DEF Wanted
  <1>2. \A j \in 1..Len(r) : r[j].from \in Nat
    BY ResponseFacts
  <1> QED
    BY <1>1, <1>2 DEF Deliverable
=============================================================================
