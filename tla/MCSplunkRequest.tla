--------------------------- MODULE MCSplunkRequest ---------------------------
(***************************************************************************)
(* A request without retries, with the default budget of four, and with a  *)
(* budget that lets the backoff reach its limit; Retry-After headers on    *)
(* both sides of every limit of the code, and beyond those of a long long.  *)
(***************************************************************************)
EXTENDS SplunkRequest

MCRetries == {0, 4, 8}
MCRetryAfter == {-5, 0, 2, 59, 60, 120}
\* With numbers that are no long long.
AnyRetryAfter == MCRetryAfter \cup {-500, 500}
\* Past the width of the shifted integer.
LongRetries == {65}
=============================================================================
