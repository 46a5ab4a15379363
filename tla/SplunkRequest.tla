---------------------------- MODULE SplunkRequest ----------------------------
(***************************************************************************)
(* AuthenticatedRequest in the native build: one request of the REST API,  *)
(* sent again after a transient failure until the retry budget is spent,   *)
(* with the waits between the attempts.  A wait is a loop of short sleeps  *)
(* that polls the interrupt flag; time is counted in such sleeps.          *)
(* ExportSearch (module ExportStream) takes its waits from the same        *)
(* functions.                                                              *)
(***************************************************************************)
EXTENDS Integers

CONSTANTS
    RetriesChoices,       \* values of the parameter retries
    RetryAfterChoices,    \* numbers a Retry-After header may carry
    Absent,               \* no Retry-After header, or one that is no number
    MaxLongLong,          \* the greatest long long
    SleepsPerSecond       \* sleeps of SleepCheckingInterrupt in one second

ASSUME RetriesAssumption == RetriesChoices \subseteq Nat
ASSUME RetryAfterAssumption ==
    /\ RetryAfterChoices \subseteq Int /\ Absent \notin Int
    /\ MaxLongLong \in Nat
ASSUME SleepsAssumption == SleepsPerSecond \in Nat \ {0}

VARIABLES
    retries,        \* the retry budget
    pc,             \* where the request is
    attempt,        \* number of the attempt, from 0
    answer,         \* how the last attempt ended
    retry_after,    \* the header of the last answer
    delay,          \* seconds of the wait for the next attempt
    slept,          \* sleeps of this wait that are over
    overdue,        \* those of them that ended after the interrupt
    interrupted     \* ClientContext::interrupted

wait == <<delay, slept, overdue>>
vars == <<retries, pc, attempt, answer, retry_after, wait, interrupted>>

Places == {"check", "sent", "waiting", "asleep", "returned", "failed", "aborted"}
Finals == {"returned", "failed", "aborted"}
Answers == {"none", "tls", "lost", "rate_limited", "server_error", "refused", "ok"}

Init ==
    /\ retries \in RetriesChoices
    /\ pc = "check"
    /\ attempt = 0
    /\ answer = "none"
    /\ retry_after = Absent
    /\ delay = 0
    /\ slept = 0
    /\ overdue = 0
    /\ interrupted = FALSE

-----------------------------------------------------------------------------
(***************************************************************************)
(* How long to wait.                                                       *)
(***************************************************************************)
\* 2^n seconds, at most a minute.
AtMostAMinute(n) == IF n >= 6 THEN 60 ELSE 2^n

\* Mutant: the wait is not bounded.
BackoffUnbounded(n) == {IF n >= 6 THEN 64 ELSE 2^n}

\* MinValue(uint64_t(1) << attempt, 60).  A shift by 64 or more is undefined:
\* the processors mask the count, a compiler may fold it to 0.
Backoff(n) == IF n < 64 THEN {AtMostAMinute(n)} ELSE {AtMostAMinute(n % 64), 0}

LongLong == (-MaxLongLong - 1) .. MaxLongLong

\* RateLimitRetryDelaySeconds: the advice, between 0 and a minute, and one
\* second on top; without advice, or if stoll throws because the number is out
\* of its range, the usual backoff.
RateLimitRetryDelaySeconds(advice, n) ==
    IF advice = Absent \/ advice \notin LongLong THEN Backoff(n)
    ELSE {IF advice > 59 THEN 60 ELSE IF advice < 0 THEN 1 ELSE advice + 1}

-----------------------------------------------------------------------------
CheckInterrupt ==
    /\ pc = "check"
    /\ pc' = IF interrupted THEN "aborted" ELSE "sent"
    /\ UNCHANGED <<retries, attempt, answer, retry_after, wait, interrupted>>

\* Mutant: the last retry is never made.
MayRetryOneLess == attempt + 1 < retries

MayRetry == attempt < retries

\* The attempt ended in how; a retry waits for one of the delays.
Settle(how, advice, delays) ==
    /\ pc = "sent"
    /\ answer' = how
    /\ retry_after' = advice
    /\ \/ /\ delays # {}
          /\ pc' = "waiting"
          /\ delay' \in delays
       \/ /\ delays = {}
          /\ pc' = IF how = "ok" THEN "returned" ELSE "failed"
          /\ delay' = 0
    /\ slept' = 0
    /\ overdue' = 0
    /\ UNCHANGED <<retries, attempt, interrupted>>

\* No response: the connection is dropped.
TransportError ==
    \/ Settle("tls", Absent, {})
    \/ Settle("lost", Absent, IF MayRetry THEN Backoff(attempt) ELSE {})

TransientStatus ==
    \/ \E advice \in RetryAfterChoices \cup {Absent} :
          Settle("rate_limited", advice,
                 IF MayRetry THEN RateLimitRetryDelaySeconds(advice, attempt) ELSE {})
    \/ Settle("server_error", Absent, IF MayRetry THEN Backoff(attempt) ELSE {})

FinalStatus == Settle("refused", Absent, {}) \/ Settle("ok", Absent, {})

\* Mutant: the interrupt flag is not looked at while waiting.
PollNothing ==
    /\ pc = "waiting"
    /\ slept < delay * SleepsPerSecond
    /\ pc' = "asleep"
    /\ UNCHANGED <<retries, attempt, answer, retry_after, wait, interrupted>>

\* One turn of SleepCheckingInterrupt's loop before the deadline.
Poll ==
    /\ pc = "waiting"
    /\ slept < delay * SleepsPerSecond
    /\ pc' = IF interrupted THEN "aborted" ELSE "asleep"
    /\ UNCHANGED <<retries, attempt, answer, retry_after, wait, interrupted>>

SleepEnds ==
    /\ pc = "asleep"
    /\ pc' = "waiting"
    /\ slept' = slept + 1
    /\ overdue' = IF interrupted THEN overdue + 1 ELSE overdue
    /\ UNCHANGED <<retries, attempt, answer, retry_after, delay, interrupted>>

\* Mutant: the attempt is not counted.
RetryUncounted ==
    /\ pc = "waiting"
    /\ slept >= delay * SleepsPerSecond
    /\ pc' = "check"
    /\ UNCHANGED <<retries, attempt, answer, retry_after, wait, interrupted>>

\* The deadline has passed: the next attempt.
Retry ==
    /\ pc = "waiting"
    /\ slept >= delay * SleepsPerSecond
    /\ attempt' = attempt + 1
    /\ pc' = "check"
    /\ UNCHANGED <<retries, answer, retry_after, wait, interrupted>>

Interrupt ==
    /\ ~interrupted
    /\ pc \notin Finals
    /\ interrupted' = TRUE
    /\ UNCHANGED <<retries, pc, attempt, answer, retry_after, wait>>

Terminated == pc \in Finals /\ UNCHANGED vars

-----------------------------------------------------------------------------
Request == \/ CheckInterrupt \/ TransportError \/ TransientStatus \/ FinalStatus
           \/ Poll \/ SleepEnds \/ Retry

Next == Request \/ Interrupt \/ Terminated

Spec == Init /\ [][Next]_vars

\* The thread runs, and its timeouts see to it that every attempt ends.
FairSpec == Spec /\ WF_vars(Request)

-----------------------------------------------------------------------------
\* Every variable stays in its range; a wait is never longer than a minute,
\* whatever the server advises.
TypeOK ==
    /\ retries \in RetriesChoices
    /\ pc \in Places
    /\ attempt \in Nat
    /\ answer \in Answers
    /\ retry_after \in RetryAfterChoices \cup {Absent}
    /\ delay \in 0..60
    /\ slept \in 0..(60 * SleepsPerSecond)
    /\ overdue \in Nat
    /\ interrupted \in BOOLEAN

\* A request fails for a transient reason only when its budget is spent, and
\* never spends more than it.
BudgetIsSpent ==
    /\ attempt <= retries
    /\ pc = "failed" /\ answer \in {"lost", "rate_limited", "server_error"}
          => attempt = retries

\* "Retry waits honor query cancellation": once the query is interrupted, a
\* wait ends with the sleep it is in.
InterruptEndsWait == overdue <= 1 /\ (overdue = 1 => pc # "asleep")

\* Every request comes to its end: it returns, fails, or is interrupted.
RequestEnds == <>(pc \in Finals)

\* What README.md says of HTTP 429, "waits out the server-advised Retry-After":
\* the next attempt is not made before the time the server asked for.
RetryAfterIsWaitedOut ==
    [][Retry /\ answer = "rate_limited" /\ retry_after # Absent
           => slept >= retry_after * SleepsPerSecond]_vars

\* What README.md says of HTTP 5xx and dropped connections, "retry with
\* exponential backoff": no wait is shorter than the one before it.
BackoffNeverShrinks ==
    [][pc = "sent" /\ answer \in {"lost", "server_error"}
       /\ pc' = "waiting" /\ answer' \in {"lost", "server_error"}
           => delay' >= delay]_vars
=============================================================================
