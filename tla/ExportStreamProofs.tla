-------------------------- MODULE ExportStreamProofs --------------------------
(***************************************************************************)
(* Proofs about the native scan, for any responses, caps, retry budgets    *)
(* and vector size.                                                        *)
(***************************************************************************)
EXTENDS ExportStream, ExportResponseProofs, TLAPS

\* What the definitions say of places, failures and outcomes.
USE DEF ProducerPlaces, ConsumerPlaces, Statuses, Failures, Outcomes

\* The initial values are of their types.
LEMMA InitTypeOK == Init => TypeOK
  <1> SUFFICES ASSUME Init PROVE TypeOK
    OBVIOUS
  <1>1. response \in Responses
    BY DEF Init
  <1>2. 0 \in 0..Len(response)
    BY <1>1, ResponseFacts
  <1>3. lines \in 0..Len(response) /\ parsed \in 0..Len(response)
    BY <1>2 DEF Init
  <1>4. buffer \in Seq(Nat) /\ delivered \in Seq(Nat)
    BY DEF Init
  <1> QED
    BY <1>1, <1>3, <1>4 DEF Init, TypeOK

\* An action property of the error paths, whatever the cause.
LEMMA TypeTransportError ==
  ASSUME TypeOK, NEW cause \in Failures, TransportError(cause)
  PROVE  TypeOK'
  <1>1. pc' \in {"backoff", "catch"} /\ failure' = cause /\ connection' = FALSE
    BY DEF TransportError
  <1>2. UNCHANGED <<setup, transfer, parser, shared, stopped, engine>>
    BY DEF TransportError
  <1>3. pc' \in ProducerPlaces /\ failure' \in Failures
    BY <1>1
  <1>4. connection' \in BOOLEAN
    BY <1>1
  <1>5. lines' \in 0..Len(response')
    BY <1>2 DEF TypeOK, setup, transfer
  <1>6. success_bytes' \in BOOLEAN /\ stopped' \in BOOLEAN
    BY <1>2 DEF TypeOK, setup, transfer
  <1> QED
    BY <1>2, <1>3, <1>4 DEF TypeOK, setup, transfer, parser, shared, engine

\* parse_line, on any record of the response.
LEMMA TypeParseRecord ==
  ASSUME TypeOK, NEW k \in 1..Len(response), ParseRecord(k)
  PROVE  TypeOK'
  <1>1. /\ response[k].from + 1 \in Nat
        /\ k \in 0..Len(response)
    BY ResponseFacts DEF TypeOK
  <1>2. /\ parsed' = k
        /\ UNCHANGED <<setup, transfer, produced, limit_reached, shared, http,
                       engine>>
    BY DEF ParseRecord
  <1>3. /\ pc' \in ProducerPlaces
        /\ failure' \in Failures
        /\ event' \in Nat
    BY <1>1 DEF ParseRecord, SearchError, Throw, TypeOK
  <1>4. parsed' \in 0..Len(response')
    BY <1>1, <1>2 DEF setup
  <1> QED
    BY <1>2, <1>3, <1>4
    DEF TypeOK, setup, transfer, shared, http, engine

\* Every step keeps the types, one case per action.
LEMMA TypeStep == TypeOK /\ [Next]_vars => TypeOK'
  <1> SUFFICES ASSUME TypeOK, [Next]_vars PROVE TypeOK'
    OBVIOUS
  <1> USE DEF TypeOK, setup, transfer, parser, shared, http, engine
  <1>1. CASE TlsError
    BY <1>1, TypeTransportError DEF TlsError
  <1>2. CASE ConnectionLost
    BY <1>2, TypeTransportError DEF ConnectionLost
  <1>3. CASE ReadTimeout
    BY <1>3, TypeTransportError DEF ReadTimeout
  <1>4. CASE ReceiveStatus
    BY <1>4 DEF ReceiveStatus
  <1>5. CASE ReceiveChunk
    BY <1>5, ResponseFacts DEF ReceiveChunk
  <1>6. CASE ReceiveEnd
    BY <1>6 DEF ReceiveEnd, BodyReceived, Transient, MayRetry, Throw
  <1>7. CASE CheckInterrupt
    BY <1>7 DEF CheckInterrupt, Throw
  <1>8. CASE Send
    <2>1. /\ success_bytes' \in BOOLEAN
          /\ connection' \in BOOLEAN
          /\ stopped' \in BOOLEAN
      BY <1>8 DEF Send
    <2>2. /\ pc' \in ProducerPlaces
          /\ failure' \in Failures
          /\ status' \in Statuses
      BY <1>8 DEF Send
    <2>3. UNCHANGED <<setup, attempt, event, produced, limit_reached, shared,
                      engine>>
      BY <1>8 DEF Send
    <2>4. lines' \in 0..Len(response') /\ parsed' \in 0..Len(response')
      BY <1>8, <2>3, ResponseFacts DEF Send
    <2> QED
      BY <2>1, <2>2, <2>3, <2>4
  <1>9. CASE SleepInterrupted
    BY <1>9 DEF SleepInterrupted, Throw
  <1>10. CASE SleepElapsed
    BY <1>10 DEF SleepElapsed
  <1>11. CASE ParseLine
    <2>1. parsed + 1 \in 1..Len(response)
      BY <1>11, ResponseFacts DEF ParseLine
    <2> QED
      BY <1>11, <2>1, TypeParseRecord DEF ParseLine
  <1>12. CASE EndChunk
    <2>1. success_bytes' \in BOOLEAN /\ pc' \in ProducerPlaces
      BY <1>12 DEF EndChunk
    <2>2. UNCHANGED <<setup, attempt, status, lines, parser, failure, shared,
                      http, engine>>
      BY <1>12 DEF EndChunk
    <2> QED
      BY <2>1, <2>2
  <1>13. CASE ParseTail
    <2>1. CASE ParseRecord(parsed + 1) /\ parsed < Len(response)
      <3>1. parsed + 1 \in 1..Len(response)
        BY <2>1, ResponseFacts
      <3> QED
        BY <2>1, <3>1, TypeParseRecord
    <2>2. CASE /\ pc' = "finish"
               /\ UNCHANGED <<setup, transfer, parser, failure, shared, http,
                              engine>>
      BY <2>2
    <2> QED
      BY <1>13, <2>1, <2>2 DEF ParseTail
  <1>14. CASE EndRecord
    BY <1>14 DEF EndRecord
  <1>15. CASE StopPushing
    BY <1>15 DEF StopPushing, OnEvent, CapIsReached, Abandoned
  <1>16. CASE Push
    BY <1>16 DEF Push, OnEvent, CapIsReached, Abandoned, HasSpace
  <1>17. CASE Park
    BY <1>17 DEF Park, OnEvent, CapIsReached, Abandoned, HasSpace
  <1>18. CASE Catch
    BY <1>18 DEF Catch
  <1>19. CASE Finish
    BY <1>19 DEF Finish
  <1>20. CASE ScanInterrupt
    BY <1>20 DEF ScanInterrupt, NothingToReport
  <1>21. CASE ScanNotifyStop
    <2>1. parked' \in BOOLEAN /\ consumer' \in ConsumerPlaces
      BY <1>21 DEF ScanNotifyStop
    <2>2. UNCHANGED <<setup, pc, transfer, parser, failure, buffer, error,
                   finished, cancelled, http, delivered, outcome, interrupted>>
      BY <1>21 DEF ScanNotifyStop
    <2> QED
      BY <2>1, <2>2
  <1>22. CASE ScanCancel
    BY <1>22 DEF ScanCancel, Cancel, InFlight
  <1>23. CASE ScanRethrow
    BY <1>23 DEF ScanRethrow
  <1>24. CASE ScanDrain
    BY <1>24, VectorSizeAssumption, SMTT(30) DEF ScanDrain, NothingToReport
  <1>25. CASE ScanReturn
    <2>1. parked' \in BOOLEAN /\ consumer' \in ConsumerPlaces
      BY <1>25 DEF ScanReturn
    <2>2. UNCHANGED <<setup, pc, transfer, parser, failure, buffer, error,
                   finished, cancelled, http, delivered, outcome, interrupted>>
      BY <1>25 DEF ScanReturn
    <2> QED
      BY <2>1, <2>2
  <1>26. CASE DestroyNotify
    <2>1. parked' \in BOOLEAN /\ consumer' \in ConsumerPlaces
      BY <1>26 DEF DestroyNotify
    <2>2. UNCHANGED <<setup, pc, transfer, parser, failure, buffer, error,
                   finished, cancelled, http, delivered, outcome, interrupted>>
      BY <1>26 DEF DestroyNotify
    <2> QED
      BY <2>1, <2>2
  <1>27. CASE DestroyCancel
    BY <1>27 DEF DestroyCancel, Cancel, InFlight
  <1>28. CASE Join
    BY <1>28 DEF Join, Exited
  <1>29. CASE BeginScan
    BY <1>29 DEF BeginScan
  <1>30. CASE Destroy
    BY <1>30 DEF Destroy
  <1>31. CASE Interrupt
    BY <1>31 DEF Interrupt
  <1>32. CASE SpuriousWake
    <2>1. parked' \in BOOLEAN
      BY <1>32 DEF SpuriousWake
    <2>2. UNCHANGED <<setup, pc, transfer, parser, failure, buffer, error,
                      finished, cancelled, http, engine>>
      BY <1>32 DEF SpuriousWake
    <2> QED
      BY <2>1, <2>2
  <1>33. CASE Terminated
    BY <1>33 DEF Terminated, vars
  <1>34. CASE UNCHANGED vars
    BY <1>34 DEF vars
  <1> QED
    BY <1>1, <1>2, <1>3, <1>4, <1>5, <1>6, <1>7, <1>8, <1>9, <1>10, <1>11,
       <1>12, <1>13, <1>14, <1>15, <1>16, <1>17, <1>18, <1>19, <1>20, <1>21,
       <1>22, <1>23, <1>24, <1>25, <1>26, <1>27, <1>28, <1>29, <1>30, <1>31,
       <1>32, <1>33, <1>34
       DEF Next, Network, Producer, ScanCall, Destructor

\* Every variable stays in its range, whatever the constants are: what the
\* threads and the connection do to each other's state is well-formed.
THEOREM TypeCorrect == Spec => []TypeOK
  <1>1. Init => TypeOK
    BY InitTypeOK
  <1>2. TypeOK /\ [Next]_vars => TypeOK'
    BY TypeStep
  <1> QED
    BY <1>1, <1>2, PTL DEF Spec

-----------------------------------------------------------------------------
\* Flags and places.
LEMMA ControlStep ==
  TypeOK /\ Control /\ [Next]_vars => Control'
  <1> SUFFICES ASSUME TypeOK, Control, [Next]_vars
               PROVE  Control'
    OBVIOUS
  <1> USE DEF TypeOK, Control, Destructing, setup, transfer, parser, shared,
          http, engine
  <1>1. CASE TlsError
    BY <1>1 DEF TlsError, TransportError, MayReplay
  <1>2. CASE ConnectionLost
    BY <1>2 DEF ConnectionLost, TransportError, MayReplay
  <1>3. CASE ReadTimeout
    BY <1>3 DEF ReadTimeout, TransportError, MayReplay
  <1>4. CASE ReceiveStatus
    BY <1>4 DEF ReceiveStatus
  <1>5. CASE ReceiveChunk
    BY <1>5 DEF ReceiveChunk
  <1>6. CASE ReceiveEnd
    BY <1>6 DEF ReceiveEnd, BodyReceived, Transient, MayRetry, Throw
  <1>7. CASE CheckInterrupt
    BY <1>7 DEF CheckInterrupt, Throw
  <1>8. CASE Send
    BY <1>8 DEF Send
  <1>9. CASE SleepInterrupted
    BY <1>9 DEF SleepInterrupted, Throw
  <1>10. CASE SleepElapsed
    BY <1>10 DEF SleepElapsed
  <1>11. CASE ParseLine
    BY <1>11 DEF ParseLine, ParseRecord, SearchError, Throw
  <1>12. CASE EndChunk
    BY <1>12 DEF EndChunk
  <1>13. CASE ParseTail
    <2>1. CASE ParseRecord(parsed + 1)
      BY <1>13, <2>1 DEF ParseTail, ParseRecord, Throw
    <2>2. CASE pc' = "finish" /\ UNCHANGED <<setup, transfer, failure, shared, http, engine>>
      BY <1>13, <2>2 DEF ParseTail
    <2> QED
      BY <1>13, <2>1, <2>2 DEF ParseTail
  <1>14. CASE EndRecord
    BY <1>14 DEF EndRecord
  <1>15. CASE StopPushing
    BY <1>15 DEF StopPushing, OnEvent, CapIsReached, Abandoned
  <1>16. CASE Push
    BY <1>16 DEF Push, OnEvent, CapIsReached, Abandoned, HasSpace
  <1>17. CASE Park
    BY <1>17 DEF Park, OnEvent, CapIsReached, Abandoned, HasSpace
  <1>18. CASE Catch
    BY <1>18 DEF Catch
  <1>19. CASE Finish
    BY <1>19 DEF Finish
  <1>20. CASE ScanInterrupt
    BY <1>20 DEF ScanInterrupt, NothingToReport
  <1>21. CASE ScanNotifyStop
    BY <1>21 DEF ScanNotifyStop
  <1>22. CASE ScanCancel
    BY <1>22 DEF ScanCancel, Cancel, InFlight
  <1>23. CASE ScanRethrow
    BY <1>23 DEF ScanRethrow
  <1>24. CASE ScanDrain
    BY <1>24 DEF ScanDrain, NothingToReport
  <1>25. CASE ScanReturn
    BY <1>25 DEF ScanReturn
  <1>26. CASE DestroyNotify
    BY <1>26 DEF DestroyNotify
  <1>27. CASE DestroyCancel
    BY <1>27 DEF DestroyCancel, Cancel, InFlight
  <1>28. CASE Join
    BY <1>28 DEF Join, Exited
  <1>29. CASE BeginScan
    BY <1>29 DEF BeginScan
  <1>30. CASE Destroy
    BY <1>30 DEF Destroy
  <1>31. CASE Interrupt
    BY <1>31 DEF Interrupt
  <1>32. CASE SpuriousWake
    BY <1>32 DEF SpuriousWake
  <1>33. CASE Terminated
    BY <1>33 DEF Terminated, vars
  <1>34. CASE UNCHANGED vars
    BY <1>34 DEF vars
  <1> QED
    BY <1>1, <1>2, <1>3, <1>4, <1>5, <1>6, <1>7, <1>8, <1>9, <1>10, <1>11,
       <1>12, <1>13, <1>14, <1>15, <1>16, <1>17, <1>18, <1>19, <1>20, <1>21,
       <1>22, <1>23, <1>24, <1>25, <1>26, <1>27, <1>28, <1>29, <1>30, <1>31,
       <1>32, <1>33, <1>34
       DEF Next, Network, Producer, ScanCall, Destructor

\* A wait of the producer that could end is always followed by a notification.
LEMMA NoLostWakeupStep ==
  TypeOK /\ NoLostWakeup /\ [Next]_vars => NoLostWakeup'
  <1> SUFFICES ASSUME TypeOK, NoLostWakeup, [Next]_vars
               PROVE  NoLostWakeup'
    OBVIOUS
  <1> USE DEF TypeOK, NoLostWakeup, HasSpace, setup, transfer, parser,
          shared, http, engine
  <1>1. CASE TlsError
    BY <1>1 DEF TlsError, TransportError, MayReplay
  <1>2. CASE ConnectionLost
    BY <1>2 DEF ConnectionLost, TransportError, MayReplay
  <1>3. CASE ReadTimeout
    BY <1>3 DEF ReadTimeout, TransportError, MayReplay
  <1>4. CASE ReceiveStatus
    BY <1>4 DEF ReceiveStatus
  <1>5. CASE ReceiveChunk
    BY <1>5 DEF ReceiveChunk
  <1>6. CASE ReceiveEnd
    BY <1>6 DEF ReceiveEnd, BodyReceived, Transient, MayRetry, Throw
  <1>7. CASE CheckInterrupt
    BY <1>7 DEF CheckInterrupt, Throw
  <1>8. CASE Send
    BY <1>8 DEF Send
  <1>9. CASE SleepInterrupted
    BY <1>9 DEF SleepInterrupted, Throw
  <1>10. CASE SleepElapsed
    BY <1>10 DEF SleepElapsed
  <1>11. CASE ParseLine
    BY <1>11 DEF ParseLine, ParseRecord, SearchError, Throw
  <1>12. CASE EndChunk
    BY <1>12 DEF EndChunk
  <1>13. CASE ParseTail
    BY <1>13 DEF ParseTail, ParseRecord, SearchError, Throw
  <1>14. CASE EndRecord
    BY <1>14 DEF EndRecord
  <1>15. CASE StopPushing
    BY <1>15 DEF StopPushing, OnEvent, CapIsReached, Abandoned
  <1>16. CASE Push
    BY <1>16 DEF Push, OnEvent, CapIsReached, Abandoned, HasSpace
  <1>17. CASE Park
    BY <1>17 DEF Park, OnEvent, CapIsReached, Abandoned, HasSpace
  <1>18. CASE Catch
    BY <1>18 DEF Catch
  <1>19. CASE Finish
    BY <1>19 DEF Finish
  <1>20. CASE ScanInterrupt
    BY <1>20 DEF ScanInterrupt, NothingToReport
  <1>21. CASE ScanNotifyStop
    BY <1>21 DEF ScanNotifyStop
  <1>22. CASE ScanCancel
    BY <1>22 DEF ScanCancel, Cancel, InFlight
  <1>23. CASE ScanRethrow
    BY <1>23 DEF ScanRethrow
  <1>24. CASE ScanDrain
    BY <1>24 DEF ScanDrain, NothingToReport
  <1>25. CASE ScanReturn
    BY <1>25 DEF ScanReturn
  <1>26. CASE DestroyNotify
    BY <1>26 DEF DestroyNotify
  <1>27. CASE DestroyCancel
    BY <1>27 DEF DestroyCancel, Cancel, InFlight
  <1>28. CASE Join
    BY <1>28 DEF Join, Exited
  <1>29. CASE BeginScan
    BY <1>29 DEF BeginScan
  <1>30. CASE Destroy
    BY <1>30 DEF Destroy
  <1>31. CASE Interrupt
    BY <1>31 DEF Interrupt
  <1>32. CASE SpuriousWake
    BY <1>32 DEF SpuriousWake
  <1>33. CASE Terminated
    BY <1>33 DEF Terminated, vars
  <1>34. CASE UNCHANGED vars
    BY <1>34 DEF vars
  <1> QED
    BY <1>1, <1>2, <1>3, <1>4, <1>5, <1>6, <1>7, <1>8, <1>9, <1>10, <1>11,
       <1>12, <1>13, <1>14, <1>15, <1>16, <1>17, <1>18, <1>19, <1>20, <1>21,
       <1>22, <1>23, <1>24, <1>25, <1>26, <1>27, <1>28, <1>29, <1>30, <1>31,
       <1>32, <1>33, <1>34
       DEF Next, Network, Producer, ScanCall, Destructor

\* The bind data and the response never change, and only two actions move rows.
LEMMA RowsFrame ==
  [Next]_vars =>
    /\ UNCHANGED setup
    /\ \/ Push
       \/ ScanDrain
       \/ UNCHANGED <<buffer, produced, delivered>>
  <1> SUFFICES ASSUME [Next]_vars
               PROVE  /\ UNCHANGED setup
                      /\ Push \/ ScanDrain \/ UNCHANGED <<buffer, produced, delivered>>
    OBVIOUS
  <1> USE DEF parser, shared, engine
  <1>1. CASE Network
    BY <1>1 DEF Network, TlsError, ConnectionLost, ReadTimeout, TransportError,
       ReceiveStatus, ReceiveChunk, ReceiveEnd
  <1>2. CASE Producer
    BY <1>2 DEF Producer, CheckInterrupt, Send, SleepInterrupted, SleepElapsed,
       ParseLine, ParseRecord, EndChunk, ParseTail, EndRecord, StopPushing,
       Push, Park, Catch, Finish
  <1>3. CASE ScanCall
    BY <1>3 DEF ScanCall, ScanInterrupt, ScanNotifyStop, ScanCancel,
       ScanRethrow, ScanDrain, ScanReturn
  <1>4. CASE Destructor
    BY <1>4 DEF Destructor, DestroyNotify, DestroyCancel, Join
  <1>5. CASE BeginScan \/ Destroy \/ Interrupt \/ SpuriousWake
    BY <1>5 DEF BeginScan, Destroy, Interrupt, SpuriousWake
  <1>6. CASE Terminated \/ UNCHANGED vars
    BY <1>6 DEF Terminated, vars
  <1> QED
    BY <1>1, <1>2, <1>3, <1>4, <1>5, <1>6 DEF Next

\* What a call of the scan takes from the buffer, and what it leaves.
LEMMA DrainedRows ==
  ASSUME TypeOK, ScanDrain
  PROVE  \E n \in 0..VectorSize :
            /\ n <= Len(buffer)
            /\ n = 0 <=> buffer = <<>>
            /\ Len(buffer') = Len(buffer) - n
            /\ \A i \in 1..Len(buffer') : buffer'[i] = buffer[n + i]
            /\ delivered' = delivered \o SubSeq(buffer, 1, n)
            /\ Len(delivered') = Len(delivered) + n
            /\ \A i \in 1..Len(delivered) : delivered'[i] = delivered[i]
            /\ \A i \in 1..n : delivered'[Len(delivered) + i] = buffer[i]
            /\ outcome' = IF n = 0 THEN "eof" ELSE outcome
  <1> DEFINE n == IF Len(buffer) < VectorSize THEN Len(buffer) ELSE VectorSize
  <1>1. buffer \in Seq(Nat) /\ delivered \in Seq(Nat)
    BY DEF TypeOK
  <1>2. Len(buffer) \in Nat /\ Len(delivered) \in Nat
    BY <1>1
  <1>3. n \in 0..VectorSize /\ n <= Len(buffer) /\ (n = 0 <=> Len(buffer) = 0)
    BY <1>2, VectorSizeAssumption
  <1>4. n = 0 <=> buffer = <<>>
    BY <1>1, <1>3
  <1>5. /\ delivered' = delivered \o SubSeq(buffer, 1, n)
        /\ buffer' = SubSeq(buffer, n + 1, Len(buffer))
        /\ outcome' = IF n = 0 THEN "eof" ELSE outcome
    BY DEF ScanDrain
  <1> HIDE DEF n
  <1>6. /\ SubSeq(buffer, 1, n) \in Seq(Nat)
        /\ Len(SubSeq(buffer, 1, n)) = n
        /\ \A i \in 1..n : SubSeq(buffer, 1, n)[i] = buffer[i]
    BY <1>1, <1>2, <1>3
  <1>7. /\ Len(buffer') = Len(buffer) - n
        /\ \A i \in 1..Len(buffer') : buffer'[i] = buffer[n + i]
    BY <1>1, <1>2, <1>3, <1>5
  <1>8. /\ Len(delivered') = Len(delivered) + n
        /\ \A i \in 1..Len(delivered) : delivered'[i] = delivered[i]
        /\ \A i \in 1..n : delivered'[Len(delivered) + i] = buffer[i]
    BY <1>1, <1>2, <1>3, <1>5, <1>6
  <1> QED
    BY <1>3, <1>4, <1>5, <1>7, <1>8

\* The buffer only grows where there is space.
LEMMA BufferBoundedStep ==
  TypeOK /\ BufferBounded /\ [Next]_vars => BufferBounded'
  <1> SUFFICES ASSUME TypeOK, BufferBounded, [Next]_vars
               PROVE  BufferBounded'
    OBVIOUS
  <1> USE VectorSizeAssumption DEF BufferBounded, BufferCapacity
  <1>1. buffer \in Seq(Nat) /\ Len(buffer) \in Nat
    BY DEF TypeOK
  <1>2. CASE Push
    <2>1. event \in Nat /\ buffer' = Append(buffer, event)
      BY <1>2 DEF TypeOK, Push
    <2>2. Len(buffer') = Len(buffer) + 1
      BY <1>1, <2>1
    <2> QED
      BY <1>1, <1>2, <2>2 DEF Push, HasSpace
  <1>3. CASE ScanDrain
    BY <1>1, <1>3, DrainedRows
  <1>4. CASE UNCHANGED <<buffer, produced, delivered>>
    BY <1>4
  <1> QED
    BY <1>2, <1>3, <1>4, RowsFrame

\* The engine's thread leaves the producer's variables alone.
LEMMA EngineFrame ==
  ASSUME \/ ScanCall \/ Destructor \/ Destroy \/ Interrupt \/ SpuriousWake
         \/ Terminated \/ UNCHANGED vars
  PROVE  UNCHANGED <<setup, pc, transfer, parser, failure>>
  <1>1. CASE ScanCall
    BY <1>1 DEF ScanCall, ScanInterrupt, ScanNotifyStop, ScanCancel,
       ScanRethrow, ScanDrain, ScanReturn
  <1>2. CASE Destructor
    BY <1>2 DEF Destructor, DestroyNotify, DestroyCancel, Join
  <1>3. CASE Destroy \/ Interrupt \/ SpuriousWake
    BY <1>3 DEF Destroy, Interrupt, SpuriousWake, engine
  <1>4. CASE Terminated \/ UNCHANGED vars
    BY <1>4 DEF Terminated, vars
  <1> QED
    BY <1>1, <1>2, <1>3, <1>4

\* The parser's position, along the retry loop.
LEMMA ParsingNetwork ==
  TypeOK /\ Control /\ Parsing /\ Network => Parsing'
  <1> SUFFICES ASSUME TypeOK, Control, Parsing, Network
               PROVE  Parsing'
    OBVIOUS
  <1> USE DEF Parsing, RowsThrough, setup, transfer, parser
  <1>1. CASE TlsError \/ ConnectionLost \/ ReadTimeout
    <2>1. /\ pc = "inflight"
          /\ pc' = "catch" \/ (pc' = "backoff" /\ ~success_bytes)
          /\ UNCHANGED <<setup, transfer, parser>>
      BY <1>1 DEF TlsError, ConnectionLost, ReadTimeout, TransportError, MayReplay
    <2> QED
      BY <2>1
  <1>2. CASE ReceiveStatus
    BY <1>2 DEF ReceiveStatus
  <1>3. CASE ReceiveChunk
    <2>1. lines <= lines'
      BY <1>3 DEF TypeOK, ReceiveChunk
    <2> QED
      BY <1>3, <2>1 DEF ReceiveChunk
  <1>4. CASE ReceiveEnd
    <2>1. /\ pc = "inflight"
          /\ UNCHANGED <<setup, transfer, parser>>
          /\ \/ pc' = "tail" /\ BodyReceived
             \/ pc' = "backoff" /\ status # "ok"
             \/ pc' = "catch"
      BY <1>4 DEF ReceiveEnd, Transient, Throw
    <2>2. status # "ok" => produced = 0
      BY <2>1 DEF Control
    <2>3. BodyReceived => lines + 1 >= Len(response)
      BY ResponseFacts DEF BodyReceived, TypeOK
    <2> QED
      BY <2>1, <2>2, <2>3
  <1> QED
    BY <1>1, <1>2, <1>3, <1>4 DEF Network

\* parse_line begins with the record that follows those parsed.
LEMMA ParsingRecord ==
  ASSUME TypeOK, Parsing, pc \in {"chunk", "tail"}, ~limit_reached,
         parsed < Len(response), ParseRecord(parsed + 1),
         parsed + 1 <= lines \/ parsed + 1 = Len(response)
  PROVE  Parsing'
  <1> DEFINE k == parsed + 1
  <1>1. /\ k \in 1..Len(response)
        /\ parsed \in Nat
        /\ lines \in Nat
    BY ResponseFacts DEF TypeOK
  <1>2. /\ response[k].from = RowsThrough(response, parsed)
        /\ response[k].from \in Nat
        /\ response[k].to \in Nat
        /\ response[k].from <= response[k].to
    BY <1>1, ResponseFacts DEF TypeOK
  <1>3. produced = response[k].from
    BY <1>2 DEF Parsing
  <1>4. /\ parsed' = k
        /\ UNCHANGED <<setup, transfer, produced, limit_reached>>
        /\ \/ pc' = "catch"
           \/ /\ pc' = "event"
              /\ ~response[k].fatal
              /\ event' = response[k].from + 1
    BY DEF ParseRecord, SearchError, Throw
  <1>5. CASE pc' = "catch"
    BY <1>5 DEF Parsing
  <1>6. CASE pc' = "event"
    <2>1. parsed' > 0 /\ (parsed' > lines' => parsed' = Len(response'))
      BY <1>1, <1>4 DEF transfer, setup
    <2>2. \A j \in 1..parsed' : ~response'[j].fatal
      BY <1>1, <1>4, <1>6 DEF Parsing, setup
    <2>3. /\ event' = produced' + 1
          /\ response'[parsed'].from <= produced'
          /\ produced' <= response'[parsed'].to
      BY <1>2, <1>3, <1>4, <1>6 DEF setup
    <2> QED
      BY <1>6, <2>1, <2>2, <2>3 DEF Parsing
  <1> QED
    BY <1>4, <1>5, <1>6

\* The parser's position, in the producer's own steps.
LEMMA ParsingProducer ==
  TypeOK /\ Control /\ Parsing /\ Producer => Parsing'
  <1> SUFFICES ASSUME TypeOK, Control, Parsing, Producer
               PROVE  Parsing'
    OBVIOUS
  <1> USE DEF setup, transfer, parser
  <1>1. CASE CheckInterrupt
    BY <1>1 DEF Parsing, CheckInterrupt, Throw
  <1>2. CASE Send
    BY <1>2 DEF Parsing, Send, RowsThrough
  <1>3. CASE SleepInterrupted \/ SleepElapsed
    BY <1>3 DEF Parsing, SleepInterrupted, SleepElapsed, Throw
  <1>4. CASE ParseLine
    <2>1. /\ pc = "chunk" /\ ~limit_reached /\ parsed < lines
          /\ ParseRecord(parsed + 1)
      BY <1>4 DEF ParseLine
    <2>2. parsed < Len(response) /\ parsed + 1 <= lines
      BY <2>1, ResponseFacts DEF TypeOK
    <2> QED
      BY <2>1, <2>2, ParsingRecord
  <1>5. CASE EndChunk
    BY <1>5 DEF Parsing, EndChunk
  <1>6. CASE ParseTail
    <2>1. CASE ~limit_reached /\ parsed < Len(response) /\ ParseRecord(parsed + 1)
      <3>1. pc = "tail" /\ parsed + 1 = Len(response)
        BY <1>6, <2>1, ResponseFacts DEF ParseTail, Parsing, TypeOK
      <3> QED
        BY <2>1, <3>1, ParsingRecord
    <2>2. CASE pc' = "finish"
      BY <2>2 DEF Parsing
    <2> QED
      BY <1>6, <2>1, <2>2 DEF ParseTail
  <1>7. CASE EndRecord
    <2>1. /\ UNCHANGED <<setup, transfer, parser>>
          /\ pc = "event"
          /\ pc' = IF parsed > lines THEN "finish" ELSE "chunk"
          /\ limit_reached \/ event > response[parsed].to
      BY <1>7 DEF EndRecord
    <2>2. parsed \in 1..Len(response) /\ response[parsed].to \in Nat
      BY <2>1, ResponseFacts DEF Parsing, TypeOK
    <2>3. ~limit_reached => produced = RowsThrough(response, parsed)
      BY <2>1, <2>2 DEF Parsing, RowsThrough, TypeOK
    <2>4. ~(parsed > lines) => parsed <= lines
      BY <2>2, ResponseFacts DEF TypeOK
    <2> QED
      BY <2>1, <2>3, <2>4 DEF Parsing
  <1>8. CASE StopPushing
    BY <1>8 DEF Parsing, StopPushing, OnEvent
  <1>9. CASE Push
    <2>1. parsed \in 1..Len(response) /\ pc = "event" /\ ~limit_reached
      BY <1>9, ResponseFacts DEF Push, OnEvent, Parsing, TypeOK
    <2>2. /\ response[parsed].from \in Nat
          /\ response[parsed].to \in Nat
          /\ event <= response[parsed].to
      BY <1>9, <2>1, ResponseFacts DEF Push, OnEvent, TypeOK
    <2>3. /\ UNCHANGED <<setup, pc, transfer, parsed, limit_reached>>
          /\ event' = event + 1
          /\ produced' = produced + 1
      BY <1>9 DEF Push
    <2>4. /\ event' = produced' + 1
          /\ response[parsed].from <= produced'
          /\ produced' <= response[parsed].to
      BY <2>1, <2>2, <2>3 DEF Parsing, TypeOK
    <2> QED
      BY <2>1, <2>3, <2>4 DEF Parsing
  <1>10. CASE Park \/ Catch \/ Finish
    BY <1>10 DEF Parsing, Park, Catch, Finish, OnEvent
  <1> QED
    BY <1>1, <1>2, <1>3, <1>4, <1>5, <1>6, <1>7, <1>8, <1>9, <1>10 DEF Producer

\* Every step keeps the parser's progress and the producer's place in accord.
LEMMA ParsingStep ==
  TypeOK /\ Control /\ Parsing /\ [Next]_vars => Parsing'
  <1> SUFFICES ASSUME TypeOK, Control, Parsing, [Next]_vars
               PROVE  Parsing'
    OBVIOUS
  <1>1. CASE Network
    BY <1>1, ParsingNetwork
  <1>2. CASE Producer
    BY <1>2, ParsingProducer
  <1>3. CASE BeginScan
    BY <1>3 DEF BeginScan, Parsing, setup, transfer, parser
  <1>4. CASE \/ ScanCall \/ Destructor \/ Destroy \/ Interrupt \/ SpuriousWake
             \/ Terminated \/ UNCHANGED vars
    <2>1. UNCHANGED <<setup, pc, transfer, parser, failure>>
      BY <1>4, EngineFrame
    <2> QED
      BY <2>1 DEF Parsing, setup, transfer, parser
  <1> QED
    BY <1>1, <1>2, <1>3, <1>4 DEF Next

-----------------------------------------------------------------------------
\* Nobody takes back an interrupt or a cancellation, and a failure of the
\* producer stays.
LEMMA AbandonedFrame ==
  ASSUME TypeOK, [Next]_vars
  PROVE  /\ Abandoned => Abandoned'
         /\ Catch \/ UNCHANGED error
  <1> USE DEF Abandoned, shared, engine
  <1>1. CASE Network
    BY <1>1 DEF Network, TlsError, ConnectionLost, ReadTimeout, TransportError,
       ReceiveStatus, ReceiveChunk, ReceiveEnd
  <1>2. CASE Producer
    BY <1>2 DEF Producer, CheckInterrupt, Send, SleepInterrupted, SleepElapsed,
       ParseLine, ParseRecord, EndChunk, ParseTail, EndRecord, StopPushing,
       Push, Park, Catch, Finish
  <1>3. CASE ScanCall
    BY <1>3 DEF ScanCall, ScanInterrupt, ScanNotifyStop, ScanCancel,
       ScanRethrow, ScanDrain, ScanReturn
  <1>4. CASE Destructor
    BY <1>4 DEF Destructor, DestroyNotify, DestroyCancel, Join
  <1>5. CASE BeginScan \/ Destroy \/ Interrupt \/ SpuriousWake
    BY <1>5 DEF BeginScan, Destroy, Interrupt, SpuriousWake
  <1>6. CASE Terminated \/ UNCHANGED vars
    BY <1>6 DEF Terminated, vars
  <1> QED
    BY <1>1, <1>2, <1>3, <1>4, <1>5, <1>6 DEF Next

\* What is pushed may be returned.
LEMMA DeliverableStep ==
  ASSUME TypeOK, Parsing, RowsInOrder, [Next]_vars,
         Deliverable(response, max_rows, produced)
  PROVE  Deliverable(response, max_rows, produced)'
  <1>1. response' = response /\ max_rows' = max_rows
    BY RowsFrame DEF setup
  <1>2. CASE Push
    <2>1. parsed \in 1..Len(response) /\ pc = "event" /\ ~limit_reached
      BY <1>2, ResponseFacts DEF Push, OnEvent, Parsing, TypeOK
    <2>2. /\ produced' = produced + 1
          /\ event = produced + 1
          /\ event <= response[parsed].to
      BY <1>2, <2>1 DEF Push, OnEvent, Parsing
    <2>3. max_rows \in Nat /\ (max_rows > 0 => produced' <= max_rows)
      BY <1>2, <2>2, MaxRowsAssumption DEF Push, CapIsReached, TypeOK
    <2>4. produced' \in Nat /\ response \in Responses
      BY <2>2 DEF TypeOK
    <2>5. \A k \in 1..parsed : ~response[k].fatal
      BY <2>1 DEF Parsing
    <2> QED
      BY <1>1, <2>1, <2>2, <2>3, <2>4, <2>5, RowsOfParsedDeliverable
  <1>3. CASE produced' = produced
    BY <1>1, <1>3
  <1>4. ScanDrain => produced' = produced
    BY DEF ScanDrain, parser
  <1> QED
    BY <1>2, <1>3, <1>4, RowsFrame

\* Rows are moved in order, and numbered as the events are.
LEMMA RowsInOrderStep ==
  ASSUME TypeOK, Parsing, RowsInOrder, [Next]_vars
  PROVE  RowsInOrder'
  <1>1. buffer \in Seq(Nat) /\ delivered \in Seq(Nat) /\ max_rows \in Nat
    BY MaxRowsAssumption DEF TypeOK
  <1>2. Len(buffer) \in Nat /\ Len(delivered) \in Nat
    BY <1>1
  <1>3. max_rows' = max_rows
    BY RowsFrame DEF setup
  <1>4. CASE Push
    <2>1. event = produced + 1 /\ event \in Nat /\ produced \in Nat
      BY <1>4 DEF Push, OnEvent, Parsing, TypeOK
    <2>2. /\ buffer' = Append(buffer, event)
          /\ produced' = produced + 1
          /\ delivered' = delivered
          /\ ~(max_rows > 0 /\ produced >= max_rows)
      BY <1>4 DEF Push, engine, CapIsReached
    <2>3. /\ Len(buffer') = Len(buffer) + 1
          /\ \A i \in 1..Len(buffer) : buffer'[i] = buffer[i]
          /\ buffer'[Len(buffer) + 1] = event
      BY <1>1, <2>1, <2>2
    <2>4. event = Len(delivered) + Len(buffer) + 1
      BY <2>1, <1>2 DEF RowsInOrder
    <2>5. \A i \in 1..Len(buffer') : buffer'[i] = Len(delivered') + i
      <3> TAKE i \in 1..Len(buffer')
      <3>1. CASE i \in 1..Len(buffer)
        BY <2>2, <2>3, <3>1 DEF RowsInOrder
      <3>2. CASE i = Len(buffer) + 1
        BY <1>2, <2>2, <2>3, <2>4, <3>2
      <3> QED
        BY <1>2, <2>3, <3>1, <3>2
    <2> QED
      BY <1>1, <1>2, <1>3, <2>1, <2>2, <2>3, <2>5 DEF RowsInOrder
  <1>5. CASE ScanDrain
    <2>1. PICK n \in 0..VectorSize :
            /\ n <= Len(buffer)
            /\ Len(buffer') = Len(buffer) - n
            /\ \A i \in 1..Len(buffer') : buffer'[i] = buffer[n + i]
            /\ Len(delivered') = Len(delivered) + n
            /\ \A i \in 1..Len(delivered) : delivered'[i] = delivered[i]
            /\ \A i \in 1..n : delivered'[Len(delivered) + i] = buffer[i]
      BY <1>5, DrainedRows
    <2>2. n \in Nat /\ produced' = produced
      BY <1>5, VectorSizeAssumption DEF ScanDrain, parser
    <2>3. \A i \in 1..Len(delivered') : delivered'[i] = i
      <3> TAKE i \in 1..Len(delivered')
      <3>1. CASE i \in 1..Len(delivered)
        BY <2>1, <3>1 DEF RowsInOrder
      <3>2. CASE i > Len(delivered)
        <4>1. i - Len(delivered) \in 1..n
          BY <1>2, <2>1, <2>2, <3>2
        <4>2. i - Len(delivered) \in 1..Len(buffer)
          BY <1>2, <2>1, <2>2, <4>1
        <4>3. delivered'[Len(delivered) + (i - Len(delivered))]
                = Len(delivered) + (i - Len(delivered))
          BY <2>1, <4>1, <4>2 DEF RowsInOrder
        <4>4. Len(delivered) + (i - Len(delivered)) = i
          BY <1>2, <2>1, <2>2
        <4> QED
          BY <4>3, <4>4
      <3> QED
        BY <1>2, <2>1, <2>2, <3>1, <3>2
    <2>4. \A i \in 1..Len(buffer') : buffer'[i] = Len(delivered') + i
      <3> TAKE i \in 1..Len(buffer')
      <3>1. n + i \in 1..Len(buffer)
        BY <1>2, <2>1, <2>2
      <3>2. buffer'[i] = Len(delivered) + (n + i)
        BY <2>1, <3>1 DEF RowsInOrder
      <3> QED
        BY <1>2, <2>1, <2>2, <3>2
    <2>5. produced' = Len(delivered') + Len(buffer')
      BY <1>2, <2>1, <2>2 DEF RowsInOrder
    <2> QED
      BY <1>3, <2>2, <2>3, <2>4, <2>5 DEF RowsInOrder
  <1>6. CASE UNCHANGED <<buffer, produced, delivered>>
    BY <1>3, <1>6 DEF RowsInOrder
  <1> QED
    BY <1>4, <1>5, <1>6, RowsFrame

\* When the producer stops, it is for the cap, for want of a taker, or because
\* everything has been pushed.
LEMMA PushingStep ==
  ASSUME TypeOK, Control, Parsing, Pushing, RowsInOrder, [Next]_vars
  PROVE  Pushing'
  <1> DEFINE AtCap == /\ max_rows > 0
                      /\ produced = max_rows
                      /\ parsed > 0
                      /\ max_rows < response[parsed].to
             Stopped == pc \in {"chunk", "event"} /\ limit_reached /\ ~Abandoned
             Finished == /\ pc \in {"finish", "done"}
                         /\ error = "none"
                         /\ ~Abandoned
             Whole == Complete(response, max_rows, produced)
  <1> SUFFICES (Stopped => AtCap)' /\ (Finished => Whole)'
    BY DeliverableStep DEF Pushing
  <1>1. (Stopped => AtCap) /\ (Finished => Whole)
    BY DEF Pushing
  <1>2. /\ response \in Responses /\ max_rows \in Nat /\ produced \in Nat
        /\ UNCHANGED <<max_rows, response>>
        /\ max_rows > 0 => produced <= max_rows
    BY RowsFrame, MaxRowsAssumption DEF setup, TypeOK, RowsInOrder
  <1>3. ~Abandoned' => ~Abandoned
    BY AbandonedFrame
  <1>4. ASSUME Stopped, parsed \in 1..Len(response) PROVE Whole
    <2>1. max_rows > 0 /\ produced = max_rows /\ max_rows < response[parsed].to
      BY <1>1, <1>4
    <2>2. max_rows <= response[parsed].to
      BY <1>2, <1>4, <2>1, ResponseFacts
    <2>3. \A k \in 1..parsed : ~response[k].fatal
      BY <1>4 DEF Parsing
    <2> QED
      BY <1>2, <1>4, <2>1, <2>2, <2>3, CapIsComplete
  <1>5. pc \in {"event", "tail"} /\ parsed = Len(response)
        /\ produced = RowsThrough(response, parsed) => Whole
    BY <1>2, AllIsComplete DEF Parsing
  <1>6. parsed \in Nat /\ (parsed > 0 => parsed \in 1..Len(response))
    BY ResponseFacts DEF TypeOK
  <1>7. CASE EndChunk
    BY <1>1, <1>2, <1>3, <1>4, <1>6, <1>7, AbandonedFrame
    DEF EndChunk, parser, shared, engine
  <1>8. CASE ParseLine \/ ParseTail
    <2>1. CASE pc' \in {"event", "catch"} /\ ~limit_reached'
      BY <2>1
    <2>2. CASE ParseTail /\ pc' = "finish" /\ UNCHANGED parser
      <3>1. pc = "tail" /\ parsed = Len(response) /\ ~limit_reached
        BY <2>2 DEF ParseTail, ParseRecord, Throw, Parsing
      <3>2. Whole
        BY <1>5, <3>1 DEF Parsing
      <3> QED
        BY <1>2, <2>2, <3>2 DEF parser
    <2> QED
      BY <1>8, <2>1, <2>2
      DEF ParseLine, ParseTail, ParseRecord, Throw, Parsing
  <1>9. CASE EndRecord
    <2>1. /\ UNCHANGED <<setup, parser, shared, engine>>
          /\ pc = "event"
          /\ pc' = IF parsed > lines THEN "finish" ELSE "chunk"
          /\ limit_reached \/ event > response[parsed].to
      BY <1>9 DEF EndRecord
    <2>2. parsed \in 1..Len(response) /\ response[parsed].to \in Nat
      BY <1>6, <2>1, ResponseFacts DEF Parsing, TypeOK
    <2>3. ~limit_reached => produced = RowsThrough(response, parsed)
      BY <2>1, <2>2 DEF Parsing, RowsThrough, TypeOK
    <2>4. pc' = "finish" => parsed = Len(response)
      BY <2>1 DEF Parsing
    <2>5. pc' = "finish" /\ ~Abandoned => Whole
      BY <1>4, <1>5, <2>1, <2>2, <2>3, <2>4
    <2> QED
      BY <1>1, <1>2, <1>3, <2>1, <2>5 DEF parser
  <1>10. CASE StopPushing
    <2>1. /\ pc = "event" /\ pc' = "event" /\ ~limit_reached
          /\ event <= response[parsed].to
          /\ UNCHANGED <<parsed, produced>>
          /\ CapIsReached \/ Abandoned
      BY <1>10 DEF StopPushing, OnEvent
    <2>2. parsed \in 1..Len(response) /\ response[parsed].to \in Nat
      BY <1>6, <2>1, ResponseFacts DEF Parsing, TypeOK
    <2>3. event = produced + 1
      BY <2>1 DEF Parsing
    <2> QED
      BY <1>2, <1>3, <2>1, <2>2, <2>3 DEF CapIsReached
  <1>11. CASE Catch
    BY <1>3, <1>11 DEF Catch, Control, Abandoned, shared, engine
  <1>12. CASE Finish
    BY <1>1, <1>2, <1>3, <1>12 DEF Finish, parser
  <1>13. CASE \/ Network \/ CheckInterrupt \/ Send \/ SleepInterrupted
              \/ SleepElapsed
    <2>1. pc' \notin {"event", "finish", "done"} /\ (pc' = "chunk" => ~limit_reached')
      BY <1>13
      DEF Network, TlsError, ConnectionLost, ReadTimeout, TransportError,
          ReceiveStatus, ReceiveChunk, ReceiveEnd, CheckInterrupt, Send,
          SleepInterrupted, SleepElapsed, Throw, Parsing, parser, TypeOK
    <2> QED
      BY <2>1
  <1>14. CASE Push \/ Park
    BY <1>14 DEF Push, Park, OnEvent, parser
  <1>15. CASE BeginScan
    BY <1>1, <1>2, <1>3, <1>15 DEF BeginScan, parser, shared
  <1>16. CASE \/ ScanCall \/ Destructor \/ Destroy \/ Interrupt \/ SpuriousWake
              \/ Terminated \/ UNCHANGED vars
    <2>1. UNCHANGED <<setup, pc, transfer, parser, failure>>
      BY <1>16, EngineFrame
    <2>2. error' = error
      BY <1>16
      DEF ScanCall, ScanInterrupt, ScanNotifyStop, ScanCancel, ScanRethrow,
          ScanDrain, ScanReturn, Destructor, DestroyNotify, DestroyCancel, Join,
          Destroy, Interrupt, SpuriousWake, Terminated, vars, shared
    <2> QED
      BY <1>1, <1>2, <1>3, <2>1, <2>2 DEF parser
  <1> QED
    BY <1>7, <1>8, <1>9, <1>10, <1>11, <1>12, <1>13, <1>14, <1>15, <1>16
    DEF Next, Producer

\* The scan call that finds nothing has found the end.
LEMMA DrainAtEnd ==
  ASSUME TypeOK, Control, Pushing, RowsInOrder, ScanDrain,
         outcome' = "eof", ~interrupted
  PROVE  Complete(response, max_rows, Len(delivered'))
  <1>1. /\ consumer = "waiting" /\ outcome = "open"
        /\ error = "none" /\ (buffer # <<>> \/ finished)
    BY DEF ScanDrain, NothingToReport, Control
  <1>2. PICK n \in 0..VectorSize :
          /\ n = 0 <=> buffer = <<>>
          /\ Len(delivered') = Len(delivered) + n
          /\ outcome' = IF n = 0 THEN "eof" ELSE outcome
    BY DrainedRows
  <1>3. n = 0 /\ buffer = <<>>
    BY <1>1, <1>2
  <1>4. pc = "done" /\ ~cancelled
    BY <1>1, <1>3 DEF Control, Destructing
  <1>5. Complete(response, max_rows, produced)
    BY <1>1, <1>4 DEF Pushing, Abandoned
  <1>6. Len(delivered') = Len(delivered) /\ produced = Len(delivered)
    BY <1>2, <1>3 DEF RowsInOrder, TypeOK
  <1> QED
    BY <1>5, <1>6

\* Every step keeps EofIsComplete: only ScanDrain reports the end.
LEMMA EofIsCompleteStep ==
  ASSUME TypeOK, Control, Pushing, RowsInOrder, EofIsComplete, [Next]_vars
  PROVE  EofIsComplete'
  <1>1. UNCHANGED <<max_rows, response>>
    BY RowsFrame DEF setup
  <1>2. CASE ScanDrain
    BY <1>1, <1>2, DrainAtEnd DEF EofIsComplete, ScanDrain
  <1>3. CASE ~ScanDrain
    <2>1. delivered' = delivered
      BY <1>3, RowsFrame DEF Push, engine
    <2>2. (outcome' = "eof" => outcome = "eof") /\ (interrupted => interrupted')
      <3>1. CASE Network
        BY <3>1 DEF Network, TlsError, ConnectionLost, ReadTimeout,
           TransportError, ReceiveStatus, ReceiveChunk, ReceiveEnd, engine
      <3>2. CASE Producer
        BY <3>2 DEF Producer, CheckInterrupt, Send, SleepInterrupted,
           SleepElapsed, ParseLine, ParseRecord, EndChunk, ParseTail, EndRecord,
           StopPushing, Push, Park, Catch, Finish, engine
      <3>3. CASE ScanCall
        BY <1>3, <3>3 DEF ScanCall, ScanInterrupt, ScanNotifyStop, ScanCancel,
           ScanRethrow, ScanReturn
      <3>4. CASE Destructor
        BY <3>4 DEF Destructor, DestroyNotify, DestroyCancel, Join
      <3>5. CASE BeginScan \/ Destroy \/ Interrupt \/ SpuriousWake
        BY <3>5 DEF BeginScan, Destroy, Interrupt, SpuriousWake, engine
      <3>6. CASE Terminated \/ UNCHANGED vars
        BY <3>6 DEF Terminated, vars, engine
      <3> QED
        BY <3>1, <3>2, <3>3, <3>4, <3>5, <3>6 DEF Next
    <2> QED
      BY <1>1, <2>1, <2>2 DEF EofIsComplete
  <1> QED
    BY <1>2, <1>3

\* While the engine is not in a call, either the producer has pushed a row of
\* the current response or the query is interrupted.
LEMMA AwaitedStep ==
  ASSUME TypeOK, Control, RowsInOrder, Awaited, [Next]_vars
  PROVE  Awaited'
  <1> USE DEF Awaited
  <1>1. CASE Network
    BY <1>1
    DEF Network, TlsError, ConnectionLost, ReadTimeout, TransportError,
        ReceiveStatus, ReceiveChunk, ReceiveEnd, Throw, parser, engine
  <1>2. CASE Producer
    BY <1>2
    DEF Producer, CheckInterrupt, Send, SleepInterrupted, SleepElapsed,
        ParseLine, ParseRecord, EndChunk, ParseTail, EndRecord, StopPushing,
        Push, Park, Catch, Finish, OnEvent, Throw, parser, engine, TypeOK
  <1>3. CASE ScanInterrupt \/ ScanNotifyStop \/ ScanCancel \/ ScanReturn
    BY <1>3
    DEF ScanInterrupt, ScanNotifyStop, ScanCancel, ScanReturn, parser
  <1>4. CASE ScanRethrow
    BY <1>4 DEF ScanRethrow, Control, parser
  <1>5. CASE ScanDrain
    <2>1. UNCHANGED <<pc, produced>>
      BY <1>5 DEF ScanDrain, parser
    <2>2. finished \/ buffer # <<>>
      BY <1>5 DEF ScanDrain, NothingToReport
    <2>3. CASE finished
      BY <2>1, <2>3 DEF Control
    <2>4. CASE buffer # <<>>
      <3>1. buffer \in Seq(Nat) /\ Len(delivered) \in Nat
        BY DEF TypeOK
      <3>2. Len(buffer) > 0
        BY <2>4, <3>1
      <3>3. produced # 0
        BY <3>1, <3>2 DEF RowsInOrder
      <3> QED
        BY <2>1, <3>3
    <2> QED
      BY <2>2, <2>3, <2>4
  <1>6. CASE Destructor \/ Destroy \/ BeginScan
    BY <1>6
    DEF Destructor, DestroyNotify, DestroyCancel, Join, Destroy, BeginScan,
        parser
  <1>7. CASE Interrupt \/ SpuriousWake \/ Terminated \/ UNCHANGED vars
    BY <1>7 DEF Interrupt, SpuriousWake, Terminated, vars, parser, engine
  <1> QED
    BY <1>1, <1>2, <1>3, <1>4, <1>5, <1>6, <1>7 DEF Next, ScanCall

\* Cancel() has stopped what is in flight when the destructor waits, and the
\* producer sends nothing any more: a scan that nobody waits for has pushed rows.
LEMMA ShutdownStep ==
  ASSUME TypeOK, Control, Parsing, ShutdownReachesRequest, [Next]_vars,
         Control', Parsing', Awaited'
  PROVE  ShutdownReachesRequest'
  <1> SUFFICES ASSUME consumer' = "joining", ~interrupted'
               PROVE  /\ InFlight' => stopped'
                      /\ pc' \notin {"check", "ready", "backoff"}
    BY DEF ShutdownReachesRequest
  <1>1. pc' \notin {"check", "ready", "backoff"}
    BY DEF Parsing, Awaited
  <1>2. CASE Network
    <2>1. consumer = "joining" /\ ~interrupted /\ (InFlight => stopped)
      BY <1>2
      DEF ShutdownReachesRequest, Network, TlsError, ConnectionLost, ReadTimeout,
          TransportError, ReceiveStatus, ReceiveChunk, ReceiveEnd, engine
    <2>2. pc = "inflight" /\ stopped' = stopped
      BY <1>2
      DEF Network, TlsError, ConnectionLost, ReadTimeout, TransportError,
          ReceiveStatus, ReceiveChunk, ReceiveEnd, http
    <2> QED
      BY <1>1, <2>1, <2>2 DEF InFlight
  <1>3. CASE Producer
    <2>1. consumer = "joining" /\ ~interrupted
      BY <1>3
      DEF Producer, CheckInterrupt, Send, SleepInterrupted, SleepElapsed,
          ParseLine, ParseRecord, EndChunk, ParseTail, EndRecord, StopPushing,
          Push, Park, Catch, Finish, engine
    <2>2. (InFlight => stopped) /\ pc \notin {"check", "ready", "backoff"}
      BY <2>1 DEF ShutdownReachesRequest
    <2>3. CASE ParseTail
      <3>1. parsed' > lines' \/ pc' \in {"catch", "finish"}
        BY <2>3 DEF ParseTail, ParseRecord, Throw, Parsing, TypeOK, transfer
      <3>2. parsed' > lines' => ~(parsed' <= lines')
        <4>1. lines \in Nat /\ parsed \in Nat /\ lines' = lines
              /\ parsed' \in {parsed, parsed + 1}
          BY <2>3 DEF ParseTail, ParseRecord, TypeOK, transfer, parser
        <4> QED
          BY <4>1
      <3>3. pc' \in {"event", "catch", "finish"}
        BY <2>3 DEF ParseTail, ParseRecord, Throw
      <3> QED
        BY <1>1, <3>1, <3>2, <3>3 DEF InFlight
    <2>4. CASE ParseLine \/ EndChunk \/ EndRecord
      <3>1. (InFlight /\ stopped' = stopped) \/ pc' = "finish"
        BY <2>4
        DEF ParseLine, ParseRecord, EndChunk, EndRecord, InFlight, TypeOK, http
      <3> QED
        BY <1>1, <2>2, <3>1 DEF InFlight
    <2>5. CASE StopPushing \/ Push \/ Park
      <3>1. /\ pc' = pc /\ parsed' = parsed /\ lines' = lines
            /\ stopped' = stopped
        BY <2>5 DEF StopPushing, Push, Park, transfer, parser, http
      <3> QED
        BY <1>1, <2>2, <3>1 DEF InFlight
    <2>6. CASE Catch \/ Finish
      BY <1>1, <2>6 DEF Catch, Finish, InFlight
    <2> QED
      BY <1>3, <2>2, <2>3, <2>4, <2>5, <2>6
      DEF Producer, CheckInterrupt, Send, SleepInterrupted, SleepElapsed
  <1>4. CASE DestroyCancel
    BY <1>1, <1>4 DEF DestroyCancel, Cancel, InFlight, Control, transfer, parser
  <1>5. CASE ScanCall \/ DestroyNotify \/ Join \/ BeginScan \/ Destroy
    BY <1>5
    DEF ScanCall, ScanInterrupt, ScanNotifyStop, ScanCancel, ScanRethrow,
        ScanDrain, ScanReturn, DestroyNotify, Join, BeginScan, Destroy
  <1>6. CASE Interrupt
    BY <1>6 DEF Interrupt
  <1>7. CASE SpuriousWake \/ Terminated \/ UNCHANGED vars
    <2>1. UNCHANGED <<pc, transfer, parser, http, engine>>
      BY <1>7 DEF SpuriousWake, Terminated, vars
    <2> QED
      BY <1>1, <2>1
      DEF ShutdownReachesRequest, InFlight, transfer, parser, http, engine
  <1> QED
    BY <1>2, <1>3, <1>4, <1>5, <1>6, <1>7 DEF Next, Destructor

-----------------------------------------------------------------------------
\* The initial states satisfy the inductive invariant.
LEMMA InductiveInit == Init => Inductive
  <1> SUFFICES ASSUME Init PROVE Inductive
    OBVIOUS
  <1> USE DEF Init
  <1>1. TypeOK
    BY InitTypeOK
  <1>2. Control
    BY DEF Control, Destructing
  <1>3. Parsing
    BY DEF Parsing
  <1>4. Deliverable(response, max_rows, produced)
    BY <1>1, NoRowDeliverable, MaxRowsAssumption DEF TypeOK
  <1>5. Pushing
    BY <1>4 DEF Pushing
  <1>6. Awaited /\ NoLostWakeup /\ EofIsComplete /\ ShutdownReachesRequest
    BY DEF Awaited, NoLostWakeup, EofIsComplete, ShutdownReachesRequest
  <1>7. Len(buffer) = 0 /\ Len(delivered) = 0
    OBVIOUS
  <1>8. RowsInOrder
    BY <1>1, <1>7, MaxRowsAssumption DEF RowsInOrder, TypeOK
  <1>9. BufferBounded
    BY <1>7, VectorSizeAssumption DEF BufferBounded, BufferCapacity
  <1> QED
    BY <1>1, <1>2, <1>3, <1>5, <1>6, <1>8, <1>9 DEF Inductive

\* Every step keeps the inductive invariant.
LEMMA InductiveStep == Inductive /\ [Next]_vars => Inductive'
  <1> SUFFICES ASSUME Inductive, [Next]_vars PROVE Inductive'
    OBVIOUS
  <1>1. /\ TypeOK /\ Control /\ Parsing /\ Pushing /\ Awaited
        /\ RowsInOrder /\ BufferBounded /\ NoLostWakeup /\ EofIsComplete
        /\ ShutdownReachesRequest
    BY DEF Inductive
  <1>2. TypeOK' /\ Control' /\ Parsing'
    BY <1>1, TypeStep, ControlStep, ParsingStep
  <1>3. Pushing' /\ Awaited'
    BY <1>1, PushingStep, AwaitedStep
  <1>4. RowsInOrder' /\ BufferBounded' /\ NoLostWakeup'
    BY <1>1, RowsInOrderStep, BufferBoundedStep, NoLostWakeupStep
  <1>5. EofIsComplete' /\ ShutdownReachesRequest'
    BY <1>1, <1>2, <1>3, EofIsCompleteStep, ShutdownStep
  <1> QED
    BY <1>2, <1>3, <1>4, <1>5 DEF Inductive

\* The invariant that all the following rest on.
THEOREM InductiveInvariant == Spec => []Inductive
  <1>1. Init => Inductive
    BY InductiveInit
  <1>2. Inductive /\ [Next]_vars => Inductive'
    BY InductiveStep
  <1> QED
    BY <1>1, <1>2, PTL DEF Spec

\* Rows come in order, each once, none left out, none beyond the cap: over
\* chunks, retries and vectors of any size.
THEOREM RowsInOrderCorrect == Spec => []RowsInOrder
  <1>1. Inductive => RowsInOrder
    BY DEF Inductive
  <1> QED
    BY <1>1, InductiveInvariant, PTL

\* The buffer never holds more than two vectors of rows.
THEOREM BufferBoundedCorrect == Spec => []BufferBounded
  <1>1. Inductive => BufferBounded
    BY DEF Inductive
  <1> QED
    BY <1>1, InductiveInvariant, PTL

\* No notification that the producer waits for is lost.
THEOREM NoLostWakeupCorrect == Spec => []NoLostWakeup
  <1>1. Inductive => NoLostWakeup
    BY DEF Inductive
  <1> QED
    BY <1>1, InductiveInvariant, PTL

\* The end is reported only when all rows asked for have been returned.
THEOREM EofIsCompleteCorrect == Spec => []EofIsComplete
  <1>1. Inductive => EofIsComplete
    BY DEF Inductive
  <1> QED
    BY <1>1, InductiveInvariant, PTL

\* A destructor that nobody interrupts never waits for a retry wait.
THEOREM NoBackoffAfterAbandonCorrect == Spec => []NoBackoffAfterAbandon
  <1>1. Inductive => NoBackoffAfterAbandon
    BY DEF Inductive, Control, Parsing, Awaited, Destructing,
       NoBackoffAfterAbandon
  <1> QED
    BY <1>1, InductiveInvariant, PTL

\* Shutting a request down is never reported as an error of the search.
THEOREM AbortIsSilentCorrect == Spec => []AbortIsSilent
  <1>1. Inductive => AbortIsSilent
    BY DEF Inductive, Control, AbortIsSilent
  <1> QED
    BY <1>1, InductiveInvariant, PTL

\* A destructor that nobody interrupts waits for no request and no retry.
THEOREM ShutdownReachesRequestCorrect == Spec => []ShutdownReachesRequest
  <1>1. Inductive => ShutdownReachesRequest
    BY DEF Inductive
  <1> QED
    BY <1>1, InductiveInvariant, PTL

-----------------------------------------------------------------------------
(***************************************************************************)
(* The native scan implements LogScan.                                     *)
(***************************************************************************)
\* The abstract scan speaks of responses in the same terms.
LEMMA SameTerms ==
  /\ \A r, m, k : Abstract!Deliverable(r, m, k) <=> Deliverable(r, m, k)
  /\ \A r, m, k : Abstract!Complete(r, m, k) <=> Complete(r, m, k)
  BY DEF Abstract!Deliverable, Deliverable, Abstract!Complete, Complete,
         Abstract!Wanted, Wanted, Abstract!RowsThrough, RowsThrough

\* A scan call that returns rows is ReturnRows, one that returns none is
\* ReportEnd.
LEMMA DrainImplements ==
  ASSUME Inductive, ScanDrain
  PROVE  Abstract!ReturnRows \/ Abstract!ReportEnd
  <1>1. /\ TypeOK /\ Control /\ Pushing /\ RowsInOrder
    BY DEF Inductive
  <1>2. /\ outcome = "open"
        /\ UNCHANGED <<response, max_rows, interrupted>>
        /\ buffer \in Seq(Nat) /\ delivered \in Seq(Nat)
        /\ Len(buffer) \in Nat /\ Len(delivered) \in Nat
    BY <1>1 DEF ScanDrain, Control, setup, TypeOK
  <1>3. PICK n \in 0..VectorSize :
          /\ n <= Len(buffer)
          /\ Len(delivered') = Len(delivered) + n
          /\ delivered' = delivered \o SubSeq(buffer, 1, n)
          /\ outcome' = IF n = 0 THEN "eof" ELSE outcome
    BY <1>1, DrainedRows
  <1>4. n \in Nat
    BY VectorSizeAssumption
  <1>5. SubSeq(buffer, 1, n) = [i \in 1..n |-> Len(delivered) + i]
    BY <1>1, <1>2, <1>3, <1>4 DEF RowsInOrder
  <1>6. CASE n = 0
    <2>1. delivered' = delivered
      BY <1>2, <1>3, <1>6
    <2>2. interrupted \/ Complete(response, max_rows, Len(delivered))
      BY <1>1, <1>3, <1>6, <2>1, DrainAtEnd
    <2> QED
      BY <1>2, <1>3, <1>6, <2>1, <2>2, SameTerms DEF Abstract!ReportEnd
  <1>7. CASE n # 0
    <2>1. n \in 1..VectorSize
      BY <1>3, <1>4, <1>7, VectorSizeAssumption
    <2>2. Len(delivered) + n <= produced /\ produced \in Nat
      BY <1>1, <1>2, <1>3, <1>4 DEF RowsInOrder, TypeOK
    <2>3. Deliverable(response, max_rows, produced)
      BY <1>1 DEF Pushing
    <2>4. Deliverable(response, max_rows, Len(delivered) + n)
      <3>1. Wanted(response, max_rows) \in Nat
        <4>1. RowsThrough(response, Len(response)) \in Nat
          <5>1. CASE Len(response) = 0
            BY <5>1 DEF RowsThrough
          <5>2. CASE Len(response) # 0
            <6>1. Len(response) \in 1..Len(response)
              BY <1>1, <5>2, ResponseFacts DEF TypeOK
            <6> QED
              BY <1>1, <6>1, TotalRows DEF TypeOK
          <5> QED
            BY <5>1, <5>2
        <4> QED
          BY <1>1, <4>1, MaxRowsAssumption DEF Wanted, TypeOK
      <3>2. \A k \in 1..Len(response) : response[k].from \in Nat
        BY <1>1, ResponseFacts DEF TypeOK
      <3> QED
        BY <1>2, <1>4, <2>2, <2>3, <3>1, <3>2 DEF Deliverable
    <2> QED
      BY <1>2, <1>3, <1>5, <1>7, <2>1, <2>4, SameTerms DEF Abstract!ReturnRows
  <1> QED
    BY <1>6, <1>7

\* Every step of the native scan is a step of LogScan, or changes nothing that
\* LogScan speaks of.
LEMMA StepImplements ==
  Inductive /\ [Next]_vars => [Abstract!Next]_(Abstract!vars)
  <1> SUFFICES ASSUME Inductive, [Next]_vars
               PROVE  Abstract!Next \/ UNCHANGED Abstract!vars
    OBVIOUS
  <1> USE DEF setup, engine, Abstract!vars
  <1>1. CASE Network
    BY <1>1
    DEF Network, TlsError, ConnectionLost, ReadTimeout, TransportError,
        ReceiveStatus, ReceiveChunk, ReceiveEnd
  <1>2. CASE Producer
    BY <1>2
    DEF Producer, CheckInterrupt, Send, SleepInterrupted, SleepElapsed,
        ParseLine, ParseRecord, EndChunk, ParseTail, EndRecord, StopPushing,
        Push, Park, Catch, Finish
  <1>3. CASE ScanDrain
    BY <1>3, DrainImplements DEF Abstract!Next
  <1>4. CASE ScanCancel
    BY <1>4
    DEF Inductive, Control, ScanCancel, Abstract!Next, Abstract!ThrowError
  <1>5. CASE ScanRethrow
    BY <1>5
    DEF Inductive, Control, ScanRethrow, Abstract!Next, Abstract!ThrowError
  <1>6. CASE ScanInterrupt \/ ScanNotifyStop \/ ScanReturn \/ Destructor
    BY <1>6
    DEF ScanInterrupt, ScanNotifyStop, ScanReturn, Destructor, DestroyNotify,
        DestroyCancel, Join
  <1>7. CASE Interrupt
    BY <1>7 DEF Interrupt, Abstract!Next, Abstract!Interrupt
  <1>8. CASE BeginScan \/ Destroy \/ SpuriousWake
    BY <1>8 DEF BeginScan, Destroy, SpuriousWake
  <1>9. CASE Terminated \/ UNCHANGED vars
    BY <1>9 DEF Terminated, vars
  <1> QED
    BY <1>1, <1>2, <1>3, <1>4, <1>5, <1>6, <1>7, <1>8, <1>9
    DEF Next, ScanCall

\* What a query sees of the native scan is what LogScan promises, for every
\* response, cap, retry budget and vector size.
THEOREM NativeScanImplementsLogScan == Spec => ImplementsLogScan
  <1>1. Init => Abstract!Init
    BY DEF Init, Abstract!Init
  <1>2. Inductive /\ [Next]_vars => [Abstract!Next]_(Abstract!vars)
    BY StepImplements
  <1> QED
    BY <1>1, <1>2, InductiveInvariant, PTL
    DEF Spec, ImplementsLogScan, Abstract!Spec
=============================================================================
