------------------------- MODULE SplunkRequestProofs -------------------------
(***************************************************************************)
(* Proofs about a request with retries, for any budgets, any advice of the *)
(* server and any length of a sleep.                                       *)
(***************************************************************************)
EXTENDS SplunkRequest, TLAPS

\* A wait belongs to an attempt that may be repeated, is not slept beyond its
\* end, and has seen an overdue sleep only after an interrupt.
Waiting ==
    /\ pc \in {"waiting", "asleep"} => attempt < retries
    /\ slept <= delay * SleepsPerSecond
    /\ pc = "asleep" => slept < delay * SleepsPerSecond
    /\ overdue = 1 => interrupted

Inductive == TypeOK /\ BudgetIsSpent /\ InterruptEndsWait /\ Waiting

USE DEF Places, Finals, Answers

\* Whatever the attempt and the advice, there is a delay, and every delay is at
\* most a minute.
LEMMA DelaysBounded ==
  ASSUME NEW n \in Nat, NEW advice \in RetryAfterChoices \cup {Absent}
  PROVE  /\ Backoff(n) # {} /\ Backoff(n) \subseteq 0..60
         /\ RateLimitRetryDelaySeconds(advice, n) # {}
         /\ RateLimitRetryDelaySeconds(advice, n) \subseteq 0..60
  <1>1. ASSUME NEW k \in Nat PROVE AtMostAMinute(k) \in 0..60
    <2>1. 2^0 = 1 /\ 2^1 = 2 /\ 2^2 = 4 /\ 2^3 = 8 /\ 2^4 = 16 /\ 2^5 = 32
      OBVIOUS
    <2>2. k >= 6 \/ k = 0 \/ k = 1 \/ k = 2 \/ k = 3 \/ k = 4 \/ k = 5
      OBVIOUS
    <2>3. k >= 6 \/ 2^k \in {1, 2, 4, 8, 16, 32}
      BY <2>1, <2>2, Zenon
    <2>4. {1, 2, 4, 8, 16, 32} \subseteq 0..60 /\ 60 \in 0..60
      OBVIOUS
    <2> QED
      BY <2>3, <2>4, Zenon DEF AtMostAMinute
  <1>2. n % 64 \in Nat
    OBVIOUS
  <1>3. Backoff(n) # {} /\ Backoff(n) \subseteq 0..60
    BY <1>1, <1>2 DEF Backoff
  <1>4. CASE advice = Absent \/ advice \notin LongLong
    BY <1>3, <1>4 DEF RateLimitRetryDelaySeconds
  <1>5. CASE advice # Absent /\ advice \in LongLong
    <2>1. advice \in Int
      BY <1>5, RetryAfterAssumption
    <2> DEFINE seconds == IF advice > 59 THEN 60 ELSE IF advice < 0 THEN 1 ELSE advice + 1
    <2>2. seconds \in 0..60
      BY <2>1
    <2>3. RateLimitRetryDelaySeconds(advice, n) = {seconds}
      BY <1>5 DEF RateLimitRetryDelaySeconds
    <2> HIDE DEF seconds
    <2> QED
      BY <1>3, <2>2, <2>3
  <1> QED
    BY <1>3, <1>4, <1>5

\* A request that begins has sent nothing and waits for nothing.
LEMMA InductiveInit == Init => Inductive
  <1> SUFFICES ASSUME Init PROVE Inductive
    OBVIOUS
  <1>1. retries \in Nat /\ 60 * SleepsPerSecond \in Nat /\ 0 * SleepsPerSecond = 0
    BY RetriesAssumption, SleepsAssumption DEF Init
  <1>2. slept \in 0..(60 * SleepsPerSecond) /\ delay \in 0..60 /\ overdue \in Nat
    BY <1>1 DEF Init
  <1>3. TypeOK
    BY <1>2 DEF Init, TypeOK
  <1> QED
    BY <1>1, <1>3 DEF Init, Inductive, BudgetIsSpent, InterruptEndsWait, Waiting

\* What the invariant says in terms of numbers.
LEMMA Numbers ==
  ASSUME Inductive
  PROVE  /\ retries \in Nat /\ attempt \in Nat /\ attempt <= retries
         /\ delay \in 0..60 /\ slept \in Nat /\ overdue \in Nat
         /\ SleepsPerSecond \in Nat
         /\ \A d \in 0..60 : /\ d * SleepsPerSecond \in Nat
                             /\ d * SleepsPerSecond <= 60 * SleepsPerSecond
  <1>1. SleepsPerSecond \in Nat
    BY SleepsAssumption
  <1>2. ASSUME NEW d \in 0..60
        PROVE  /\ d * SleepsPerSecond \in Nat
               /\ d * SleepsPerSecond <= 60 * SleepsPerSecond
    BY <1>1
  <1> QED
    BY <1>1, <1>2, RetriesAssumption DEF Inductive, TypeOK, BudgetIsSpent

\* An attempt that ends in how: it is retried exactly if there is a delay, and
\* for a transient end there is one as long as the budget is not spent.
LEMMA SettleStep ==
  ASSUME Inductive,
         NEW how \in Answers, NEW advice \in RetryAfterChoices \cup {Absent},
         NEW delays \in SUBSET (0..60),
         Settle(how, advice, delays),
         delays # {} => MayRetry,
         how \in {"lost", "rate_limited", "server_error"} /\ MayRetry => delays # {}
  PROVE  Inductive'
  <1>1. /\ retries \in Nat /\ attempt \in Nat /\ attempt <= retries
        /\ SleepsPerSecond \in Nat
        /\ \A d \in 0..60 : /\ d * SleepsPerSecond \in Nat
                            /\ d * SleepsPerSecond <= 60 * SleepsPerSecond
    BY Numbers
  <1>2. /\ answer' = how /\ retry_after' = advice /\ slept' = 0 /\ overdue' = 0
        /\ UNCHANGED <<retries, attempt, interrupted>>
    BY DEF Settle
  <1>3. delay' \in 0..60
    <2>1. delay' \in delays \/ delay' = 0
      BY DEF Settle
    <2>2. 0 \in 0..60
      OBVIOUS
    <2> QED
      BY <2>1, <2>2, Zenon
  <1>4. /\ pc' \in {"waiting", "returned", "failed"}
        /\ pc' = "waiting" => MayRetry
        /\ pc' = "failed" => delays = {}
    BY DEF Settle
  <1>5. TypeOK'
    <2>1. slept' \in 0..(60 * SleepsPerSecond) /\ overdue' \in Nat
      BY <1>1, <1>2
    <2> QED
      BY <1>2, <1>3, <1>4, <2>1 DEF Inductive, TypeOK
  <1>6. BudgetIsSpent'
    <2>1. pc' = "failed" /\ how \in {"lost", "rate_limited", "server_error"} => ~MayRetry
      BY <1>4
    <2>2. ~MayRetry => attempt = retries
      BY <1>1 DEF MayRetry
    <2> QED
      BY <1>1, <1>2, <2>1, <2>2 DEF BudgetIsSpent
  <1>7. InterruptEndsWait'
    BY <1>2 DEF InterruptEndsWait
  <1>8. Waiting'
    <2>1. delay' * SleepsPerSecond \in Nat
      BY <1>1, <1>3
    <2>2. pc' \in {"waiting", "asleep"} => attempt' < retries' /\ pc' # "asleep"
      BY <1>2, <1>4 DEF MayRetry
    <2> QED
      BY <1>2, <1>4, <2>1, <2>2 DEF Waiting
  <1> QED
    BY <1>5, <1>6, <1>7, <1>8 DEF Inductive

\* The ends of an attempt, each with the delays its retry may wait for.
LEMMA AttemptStep ==
  ASSUME Inductive, TransportError \/ TransientStatus \/ FinalStatus
  PROVE  Inductive'
  <1>1. attempt \in Nat
    BY Numbers
  <1>2. CASE Settle("tls", Absent, {})
    BY <1>2, SettleStep
  <1>3. CASE Settle("lost", Absent, IF MayRetry THEN Backoff(attempt) ELSE {})
    BY <1>1, <1>3, DelaysBounded, SettleStep
  <1>4. ASSUME NEW advice \in RetryAfterChoices \cup {Absent},
               Settle("rate_limited", advice,
                      IF MayRetry THEN RateLimitRetryDelaySeconds(advice, attempt) ELSE {})
        PROVE  Inductive'
    BY <1>1, <1>4, DelaysBounded, SettleStep
  <1>5. CASE Settle("server_error", Absent, IF MayRetry THEN Backoff(attempt) ELSE {})
    BY <1>1, <1>5, DelaysBounded, SettleStep
  <1>6. CASE Settle("refused", Absent, {})
    BY <1>6, SettleStep
  <1>7. CASE Settle("ok", Absent, {})
    BY <1>7, SettleStep
  <1> QED
    BY <1>2, <1>3, <1>4, <1>5, <1>6, <1>7
    DEF TransportError, TransientStatus, FinalStatus

\* Every step keeps the invariant: one case per action.
LEMMA InductiveStep == Inductive /\ [Next]_vars => Inductive'
  <1> SUFFICES ASSUME Inductive, [Next]_vars PROVE Inductive'
    OBVIOUS
  <1> USE DEF wait
  <1>1. TypeOK /\ BudgetIsSpent /\ InterruptEndsWait /\ Waiting
    BY DEF Inductive
  <1>2. /\ retries \in Nat /\ attempt \in Nat /\ attempt <= retries
        /\ slept \in Nat /\ overdue \in Nat
        /\ SleepsPerSecond \in Nat
        /\ delay * SleepsPerSecond \in Nat
        /\ delay * SleepsPerSecond <= 60 * SleepsPerSecond
    BY Numbers
  <1>3. CASE CheckInterrupt
    BY <1>1, <1>3
    DEF CheckInterrupt, Inductive, TypeOK, BudgetIsSpent, InterruptEndsWait, Waiting
  <1>4. CASE TransportError \/ TransientStatus \/ FinalStatus
    BY <1>4, AttemptStep
  <1>5. CASE Poll
    BY <1>1, <1>5
    DEF Poll, Inductive, TypeOK, BudgetIsSpent, InterruptEndsWait, Waiting
  <1>6. CASE SleepEnds
    <2>1. /\ pc = "asleep" /\ pc' = "waiting" /\ slept' = slept + 1
          /\ overdue' = IF interrupted THEN overdue + 1 ELSE overdue
          /\ UNCHANGED <<retries, attempt, answer, retry_after, delay, interrupted>>
      BY <1>6 DEF SleepEnds
    <2>2. overdue = 0 /\ overdue' \in {0, 1} /\ (overdue' = 1 => interrupted)
      BY <1>1, <1>2, <2>1 DEF InterruptEndsWait
    <2>3. slept' <= delay * SleepsPerSecond /\ slept' \in 0..(60 * SleepsPerSecond)
      BY <1>1, <1>2, <2>1 DEF Waiting
    <2>4. TypeOK'
      BY <1>1, <2>1, <2>2, <2>3 DEF TypeOK
    <2>5. BudgetIsSpent' /\ InterruptEndsWait'
      BY <1>1, <2>1, <2>2 DEF BudgetIsSpent, InterruptEndsWait
    <2>6. Waiting'
      BY <1>1, <2>1, <2>2, <2>3 DEF Waiting
    <2> QED
      BY <2>4, <2>5, <2>6 DEF Inductive
  <1>7. CASE Retry
    <2>1. /\ pc = "waiting" /\ pc' = "check" /\ attempt' = attempt + 1
          /\ UNCHANGED <<retries, answer, retry_after, delay, slept, overdue, interrupted>>
      BY <1>7 DEF Retry
    <2>2. attempt' \in Nat /\ attempt' <= retries
      BY <1>1, <1>2, <2>1 DEF Waiting
    <2> QED
      BY <1>1, <2>1, <2>2
      DEF Inductive, TypeOK, BudgetIsSpent, InterruptEndsWait, Waiting
  <1>8. CASE Interrupt
    BY <1>1, <1>8
    DEF Interrupt, Inductive, TypeOK, BudgetIsSpent, InterruptEndsWait, Waiting
  <1>9. CASE UNCHANGED vars
    BY <1>1, <1>9
    DEF vars, Inductive, TypeOK, BudgetIsSpent, InterruptEndsWait, Waiting
  <1> QED
    BY <1>3, <1>4, <1>5, <1>6, <1>7, <1>8, <1>9 DEF Next, Request, Terminated

\* Every state of a request satisfies the inductive invariant.
LEMMA InductiveInvariant == Spec => []Inductive
  BY InductiveInit, InductiveStep, PTL DEF Spec

-----------------------------------------------------------------------------
\* The request's state stays in its range, and no wait is longer than a minute,
\* whatever the server advises and however often the request is retried.
THEOREM RequestTypeCorrect == Spec => []TypeOK
  <1>1. Inductive => TypeOK
    BY DEF Inductive
  <1> QED
    BY <1>1, InductiveInvariant, PTL

\* A request gives up for a transient reason when its budget is spent, neither
\* before nor after.
THEOREM BudgetIsSpentCorrect == Spec => []BudgetIsSpent
  <1>1. Inductive => BudgetIsSpent
    BY DEF Inductive
  <1> QED
    BY <1>1, InductiveInvariant, PTL

\* An interrupt ends a wait with the sleep it is in.
THEOREM InterruptEndsWaitCorrect == Spec => []InterruptEndsWait
  <1>1. Inductive => InterruptEndsWait
    BY DEF Inductive
  <1> QED
    BY <1>1, InductiveInvariant, PTL
=============================================================================
