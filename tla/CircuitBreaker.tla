---------------------------- MODULE CircuitBreaker ----------------------------
(***************************************************************************)
(* The retry breaker (security/circuit_breaker.py) as a value and what its *)
(* operations make of it.  The kernel, its only caller, uses the text of a *)
(* message both as the name of the tool and as its only parameter, so all  *)
(* failures filed under one name have the same hash and count as similar.  *)
(***************************************************************************)
EXTENDS Integers, FiniteSets

CONSTANTS
    Text,       \* names under which failures are filed
    Window,     \* window_seconds
    Threshold   \* failure_threshold

ASSUME BreakerAssumption == Window \in Nat \ {0} /\ Threshold \in Nat \ {0}

\* A failure is known by the session (the call) it ended.
Failure == [session : Nat, at : Nat]
Breaker == [failures : [Text -> SUBSET Failure], open : SUBSET Text]

AllClosed == [failures |-> [x \in Text |-> {}], open |-> {}]

NeverAgain(b, x, t) == x \in b.open  \* mutant

\* is_open: an open circuit is closed by the first check that comes more than
\* Window after the last failure.
IsOpen(b, x, t) ==
    /\ x \in b.open
    /\ b.failures[x] # {} => \E f \in b.failures[x] : t - f.at <= Window

ForgetFailures(b, x) == [b EXCEPT !.failures[x] = {}]  \* mutant

\* reset of one name
Reset(b, x) == [failures |-> [b.failures EXCEPT ![x] = {}], open |-> b.open \ {x}]

\* What is_open leaves behind.
Checked(b, x, t) == IF x \in b.open /\ ~IsOpen(b, x, t) THEN Reset(b, x) ELSE b

KeptInTheMinute(F, t) == {f \in F : f.at > t}  \* mutant

\* _cleanup_expired
Kept(F, t) == {f \in F : f.at > t - Window}

\* record_failure: file, drop what has left the window, count, open.
Failed(b, x, f) ==
    LET kept == Kept(b.failures[x] \cup {f}, f.at)
    IN  [failures |-> [b.failures EXCEPT ![x] = kept],
         open |-> b.open \cup {y \in {x} : Cardinality(kept) >= Threshold}]
===============================================================================
