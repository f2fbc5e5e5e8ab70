-------------------------------- MODULE Kernel --------------------------------
(***************************************************************************)
(* The chat kernel (kernel/kernel.py) with its safety hooks, the gate      *)
(* behind it, and the webhook that delivers messages to it, each message   *)
(* once or more (main/main.py).                                            *)
(*                                                                         *)
(* wake_up awaits only while the gate awaits the database, so a call is    *)
(* one step, or two with a transaction between them; calls overlap there.  *)
(* The gate is reduced to the nonce inside the message: good once per      *)
(* process, as WriteGate shows; for what else it may refuse is a choice.   *)
(*                                                                         *)
(* A process that fails to make its database client starts without one     *)
(* (main.py:96-106): then the gate burns the nonce, awaits nothing and     *)
(* returns success with nothing committed (write_gate.py:244-250).         *)
(***************************************************************************)
EXTENDS CircuitBreaker, BillingFuse

CONSTANTS
    Caller,        \* calls that may be in the database at once
    Malicious,     \* texts the firewall intercepts
    Forbidden,     \* texts that look like a command off the allowlist
    Governed,      \* well-formed execute_governed_write messages
    Asks,          \* texts with "schema" and "it-asset"
    Mentions,      \* texts with "validate" or "verify"
    Billed,        \* texts with "validate", "verify", "write" or "execute"
    SessionLimit,  \* max_duration_seconds of the policy
    MaxTime,       \* bound: ticks of the clock
    MaxSessions,   \* bound: messages one process receives
    MaxRestarts    \* bound: restarts

ASSUME KernelAssumption ==
    /\ IsFiniteSet(Caller)
    /\ Malicious \subseteq Text /\ Forbidden \subseteq Text /\ Asks \subseteq Text
    /\ Governed \subseteq Billed /\ Mentions \subseteq Billed /\ Billed \subseteq Text
    /\ Forbidden \cap Governed = {}
    /\ SessionLimit \in Nat /\ MaxTime \in Nat /\ MaxSessions \in Nat /\ MaxRestarts \in Nat

VARIABLES
    now,        \* time.time()
    started,    \* _session_start of the policy
    client,     \* whether the gate of this process has a database client
    sessions,   \* _session_count
    breaker,
    fuse,
    burned,     \* texts whose nonce this process has consumed
    calls,      \* calls in the database
    answers,    \* every answer of this process
    graph,      \* how often each text was committed
    restarts

process == <<started, client, sessions, breaker, fuse, burned, calls, answers>>
vars == <<now, process, graph, restarts>>

Status == {"ok", "blocked", "tripped", "intercepted", "exhausted", "error"}
Answer == [session : Nat, text : Text, status : Status, at : Nat]
Idle == [pc |-> "idle"]
Call == [pc : {"writing", "committed"}, text : Governed, session : Nat]

TypeOK ==
    /\ now \in Nat /\ started \in Nat /\ sessions \in Nat /\ restarts \in Nat
    /\ client \in BOOLEAN
    /\ breaker \in Breaker /\ fuse \in Fuse /\ burned \subseteq Governed
    /\ calls \in [Caller -> Call \cup {Idle}]
    /\ answers \subseteq Answer
    /\ graph \in [Text -> Nat]

NoCalls == [c \in Caller |-> Idle]

Init ==
    /\ now = 0 /\ started = 0 /\ sessions = 0 /\ restarts = 0
    /\ client \in BOOLEAN
    /\ breaker = AllClosed /\ fuse = Unspent /\ burned = {}
    /\ calls = NoCalls /\ answers = {}
    /\ graph = [x \in Text |-> 0]
-----------------------------------------------------------------------------
(* Helpers *)

Busy(c) == calls[c].pc # "idle"
SessionOver == now - started > SessionLimit

ReachesGateByKeyword(x) == x \in Billed  \* mutant

\* The intents come before the command: a governed write whose data mention a
\* schema of it-asset-mgmt, or a verification, never gets to the gate.
ReachesGate(x) == x \in Governed \ (Asks \cup Mentions)

\* The hooks in front of _process_message, in their order.
PassesFirewall(x) == x \notin Malicious
PassesBreaker(x) == PassesFirewall(x) /\ ~IsOpen(breaker, x, now)
Admitted(x) == PassesBreaker(x) /\ ~SessionOver /\ x \notin Forbidden

Answered(s, x, status) ==
    answers' = answers \cup {[session |-> s, text |-> x, status |-> status, at |-> now]}

\* A message is received: the next session begins.
Received ==
    /\ sessions < MaxSessions
    /\ sessions' = sessions + 1

\* The hook after _process_message, and the answer.
Bill(s, x) ==
    /\ fuse' = IF x \in Billed THEN Charged(fuse) ELSE fuse
    /\ Answered(s, x, IF x \in Billed /\ Refuses(fuse) THEN "exhausted" ELSE "ok")

\* The two last handlers of exceptions.
Fails(b, s, x) ==
    /\ breaker' = Failed(b, x, [session |-> s, at |-> now])
    /\ Answered(s, x, "error")
-----------------------------------------------------------------------------
(* Actions *)

Tick ==
    /\ now < MaxTime
    /\ now' = now + 1
    /\ UNCHANGED <<process, graph, restarts>>

Intercept(x) ==
    /\ Received
    /\ ~PassesFirewall(x)
    /\ Answered(sessions + 1, x, "intercepted")
    /\ UNCHANGED <<now, started, client, breaker, fuse, burned, calls, graph, restarts>>

Trip(x) ==
    /\ Received
    /\ PassesFirewall(x) /\ IsOpen(breaker, x, now)
    /\ Answered(sessions + 1, x, "tripped")
    /\ UNCHANGED <<now, started, client, breaker, fuse, burned, calls, graph, restarts>>

\* _enforce_policy
Block(x) ==
    /\ Received
    /\ PassesBreaker(x) /\ (SessionOver \/ x \in Forbidden)
    /\ breaker' = Checked(breaker, x, now)
    /\ Answered(sessions + 1, x, "blocked")
    /\ UNCHANGED <<now, started, client, fuse, burned, calls, graph, restarts>>

\* _process_message answers with a text; the schema may be unavailable.
Hint(x) ==
    /\ Received
    /\ Admitted(x) /\ ~ReachesGate(x)
    /\ \/ /\ breaker' = Checked(breaker, x, now)
          /\ Bill(sessions + 1, x)
       \/ /\ x \in Asks
          /\ Fails(Checked(breaker, x, now), sessions + 1, x)
          /\ UNCHANGED fuse
    /\ UNCHANGED <<now, started, client, burned, calls, graph, restarts>>

\* The gate refuses: for its quota, a violation of the policy, or for anything
\* else, and if the data no longer conform the nonce is spent.
GateRefuses(x) ==
    /\ Received
    /\ Admitted(x) /\ ReachesGate(x)
    /\ \/ /\ breaker' = Checked(breaker, x, now)
          /\ Answered(sessions + 1, x, "blocked")
          /\ UNCHANGED burned
       \/ /\ Fails(Checked(breaker, x, now), sessions + 1, x)
          /\ burned' \in {burned, burned \cup {x}}
    /\ UNCHANGED <<now, started, client, fuse, calls, graph, restarts>>

\* Without a client the gate burns the nonce and returns success at once.
SimulateWrite(x) ==
    /\ Received
    /\ ~client /\ Admitted(x) /\ ReachesGate(x) /\ x \notin burned
    /\ burned' = burned \cup {x}
    /\ breaker' = Checked(breaker, x, now)
    /\ Bill(sessions + 1, x)
    /\ UNCHANGED <<now, started, client, calls, graph, restarts>>

WriteUnburned(c, x) ==  \* mutant
    /\ Received
    /\ client /\ Admitted(x) /\ ReachesGate(x) /\ x \notin burned /\ ~Busy(c)
    /\ breaker' = Checked(breaker, x, now)
    /\ calls' = [calls EXCEPT ![c] = [pc |-> "writing", text |-> x, session |-> sessions + 1]]
    /\ UNCHANGED <<now, started, client, fuse, burned, answers, graph, restarts>>

\* The gate burns the nonce and awaits the database.
StartWrite(c, x) ==
    /\ Received
    /\ client /\ Admitted(x) /\ ReachesGate(x) /\ x \notin burned /\ ~Busy(c)
    /\ burned' = burned \cup {x}
    /\ breaker' = Checked(breaker, x, now)
    /\ calls' = [calls EXCEPT ![c] = [pc |-> "writing", text |-> x, session |-> sessions + 1]]
    /\ UNCHANGED <<now, started, client, fuse, answers, graph, restarts>>

Commit(c) ==
    /\ calls[c].pc = "writing"
    /\ graph' = [graph EXCEPT ![calls[c].text] = @ + 1]
    /\ calls' = [calls EXCEPT ![c].pc = "committed"]
    /\ UNCHANGED <<now, started, client, sessions, breaker, fuse, burned, answers, restarts>>

SettleEarly(c) ==  \* mutant
    /\ Busy(c)
    /\ calls' = [calls EXCEPT ![c] = Idle]
    /\ \/ Bill(calls[c].session, calls[c].text) /\ UNCHANGED breaker
       \/ Fails(breaker, calls[c].session, calls[c].text) /\ UNCHANGED fuse
    /\ UNCHANGED <<now, started, client, sessions, burned, graph, restarts>>

\* The database answers, or the driver raises: after a rollback, or with the
\* acknowledgement of the commit lost.
Settle(c) ==
    /\ Busy(c)
    /\ calls' = [calls EXCEPT ![c] = Idle]
    /\ \/ /\ calls[c].pc = "committed"
          /\ Bill(calls[c].session, calls[c].text)
          /\ UNCHANGED breaker
       \/ /\ Fails(breaker, calls[c].session, calls[c].text)
          /\ UNCHANGED fuse
    /\ UNCHANGED <<now, started, client, sessions, burned, graph, restarts>>

\* A new process, with or without a client; what was in the database commits
\* or not.
Restart ==
    /\ restarts < MaxRestarts
    /\ restarts' = restarts + 1
    /\ started' = now /\ client' \in BOOLEAN
    /\ sessions' = 0 /\ breaker' = AllClosed /\ fuse' = Unspent /\ burned' = {}
    /\ calls' = NoCalls /\ answers' = {}
    /\ \E C \in SUBSET {c \in Caller : calls[c].pc = "writing"} :
         graph' = [x \in Text |-> graph[x] + Cardinality({c \in C : calls[c].text = x})]
    /\ UNCHANGED now

\* What is answered at once.
Receive(x) ==
    \/ Intercept(x) \/ Trip(x) \/ Block(x) \/ Hint(x)
    \/ GateRefuses(x) \/ SimulateWrite(x)

Next ==
    \/ Tick \/ Restart
    \/ \E x \in Text : Receive(x)
    \/ \E x \in Text, c \in Caller : StartWrite(c, x)
    \/ \E c \in Caller : Commit(c) \/ Settle(c)

Spec == Init /\ [][Next]_vars

\* The driver answers or raises.
FairSpec == Spec /\ \A c \in Caller : WF_vars(Settle(c))
-----------------------------------------------------------------------------
(* Properties *)

\* The failures of x that ended a call with an error, and those of one Window.
Errors(x) == {[session |-> a.session, at |-> a.at] :
                a \in {b \in answers : b.text = x /\ b.status = "error"}}
ErrorsUpTo(x, t) == {e \in Errors(x) : t - Window < e.at /\ e.at <= t}

PaidFor == {a \in answers : a.text \in Billed /\ a.status = "ok"}

(* A message that keeps failing stops reaching the gate: in any stretch of   *)
(* Window it gets Threshold errors, and one more if a call was already in    *)
(* the database when the circuit opened (circuit_breaker.py:148, kernel.py:  *)
(* 103).  What is_open resets and record_failure prunes never makes room     *)
(* for another.                                                              *)
RetryStormBounded ==
    \A x \in Text, t \in 0..now :
        Cardinality(ErrorsUpTo(x, t)) <= Threshold + (IF ReachesGate(x) THEN 1 ELSE 0)

(* The breaker turns away only a message that failed within the last Window: *)
(* no circuit stays open because its failures were pruned while it was open  *)
(* (is_open, line 182, closes nothing when the list is empty).               *)
TrippedOnlyIfRecent ==
    \A a \in answers : a.status = "tripped" =>
        \E e \in Errors(a.text) : e.at <= a.at /\ a.at - e.at <= Window

(* What the fuse has counted is what was answered, though calls overlap in   *)
(* the database and are billed when they end: each ok answer of a billed     *)
(* message once, within the budget, and the one call that went over it       *)
(* (billing_fuse.py:117-135).                                                *)
SpendIsBilled ==
    /\ fuse.spend = Cost * (Cardinality(PaidFor) + (IF fuse.tripped THEN 1 ELSE 0))
    /\ Cost * Cardinality(PaidFor) <= Budget
    /\ fuse.tripped <=> fuse.spend > Budget

(* However often the webhook delivers a message, a process writes it at most *)
(* once, also while its first delivery is still in the database              *)
(* (write_gate.py:207 before 234).                                           *)
RedeliveryWritesOnce == \A x \in Text : graph[x] <= 1 + restarts

(* What an ok answer to a governed write stands for (kernel.py:267-272,      *)
(* write_gate.py:234-250): it spent the nonce, no other ok answer of this    *)
(* process did, and if the process has a database the write was committed,   *)
(* whatever failed or overlapped.  Without a database it was only simulated. *)
Successes == {a \in answers : a.status = "ok" /\ ReachesGate(a.text)}
OkMeansWritten ==
    \A a \in Successes :
        /\ a.text \in burned
        /\ \A b \in Successes : b.text = a.text => b = a
        /\ client => graph[a.text] > 0

(* What the command's format (kernel.py:259) and the documents promise: a    *)
(* well-formed execute_governed_write that a process with a database         *)
(* answers ok was committed.                                                 *)
CommandsReachTheGate ==
    client =>
        \A a \in answers : a.status = "ok" /\ a.text \in Governed => graph[a.text] > 0

(* What the kernel's tests and billing_fuse.py:158 say: once the budget is   *)
(* exceeded, later calls are refused.  No call to a process with a database  *)
(* that begins with the fuse tripped has its nonce burned for a write.       *)
NoWriteAfterTrip == [][client /\ fuse.tripped => burned' \subseteq burned]_vars
===============================================================================
