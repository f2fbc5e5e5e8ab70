------------------------------ MODULE WriteQuota ------------------------------
(***************************************************************************)
(* The write quota of policies/autonomy_policy.py as operators over the    *)
(* state of one AutonomyPolicy object:                                     *)
(*                                                                         *)
(*   count   _write_count, the writes recorded since the object was built; *)
(*   times   _write_timestamps, one element [n, at] per recorded write: n  *)
(*           is the value of _write_count when it was recorded, so that    *)
(*           two writes at the same instant stay two elements.  The code   *)
(*           keeps a list, and never looks at its order.                   *)
(*                                                                         *)
(* Time is counted in ticks; Minute is the 60 seconds of line 211.         *)
(***************************************************************************)
EXTENDS Integers, FiniteSets

CONSTANTS
    MaxPerSession,   \* max_operations_per_session
    MaxPerMinute,    \* max_operations_per_minute
    Minute           \* the sliding window, in ticks

ASSUME QuotaAssumption ==
    /\ MaxPerSession \in Nat
    /\ MaxPerMinute \in Nat
    /\ Minute \in Nat \ {0}

Recent(times, now) == {w \in times : w.at > now - Minute}

SessionSpentLate(count) == count > MaxPerSession  \* mutant

SessionSpent(count) == count >= MaxPerSession

RateSpent(times, now) == Cardinality(Recent(times, now)) >= MaxPerMinute

WithinQuota(count, times, now) == ~SessionSpent(count) /\ ~RateSpent(times, now)

CountBackwards(count, times, now) ==  \* mutant
    IF WithinQuota(count, times, now) THEN count - 1 ELSE count

(* What check_write_quota leaves behind: a spent session returns before the  *)
(* old timestamps are dropped, a spent minute after it, and only a write     *)
(* within both quotas is recorded.                                           *)
CountAfter(count, times, now) ==
    IF WithinQuota(count, times, now) THEN count + 1 ELSE count

TimesAfter(count, times, now) ==
    IF SessionSpent(count) THEN times
    ELSE Recent(times, now)
         \cup (IF RateSpent(times, now) THEN {} ELSE {[n |-> count, at |-> now]})
===============================================================================
