------------------------------- MODULE Backoff -------------------------------
(***************************************************************************)
(* MeteriaSender._backoff_seconds (gateway/app/sender.py): exponential     *)
(* backoff with jitter, capped.                                            *)
(***************************************************************************)
EXTENDS Integers, Sequences

CONSTANTS
    RetryBase,      \* retry_base_seconds
    MaxBackoff      \* max_backoff_seconds

ASSUME BackoffAssumption == RetryBase \in Nat \ {0} /\ MaxBackoff \in Nat \ {0}

AtMost(a, b) == IF a <= b THEN a ELSE b
AtLeast(a, b) == IF a >= b THEN a ELSE b

\* 2 ** min(retry_count, 12)
PowersOfTwo == <<1, 2, 4, 8, 16, 32, 64, 128, 256, 512, 1024, 2048, 4096>>
Exponential(retry_count) == RetryBase * PowersOfTwo[AtMost(retry_count, 12) + 1]

\* Variant of the next definition: the jitter is added after the cap.
BackoffUncapped(retry_count) ==
    LET backoff == AtMost(Exponential(retry_count), MaxBackoff)
    IN  {backoff + jitter : jitter \in 0..AtLeast(1, backoff \div 5)}

\* The delays the random jitter can produce.
BackoffSeconds(retry_count) ==
    LET backoff == AtMost(Exponential(retry_count), MaxBackoff)
    IN  {AtMost(backoff + jitter, MaxBackoff) : jitter \in 0..AtLeast(1, backoff \div 5)}
=============================================================================
