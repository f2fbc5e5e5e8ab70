------------------------------- MODULE SOPEngine -------------------------------
(***************************************************************************)
(* The SOP engine (workflow/sop_engine.py) with its two SQLite databases   *)
(* (database/state_store.py, database/feedback_db.py), the handlers of the *)
(* service that resume runs (main/main.py), and a process that may crash.  *)
(* Each process has a database client in its write gate or starts without  *)
(* one (main/main.py:96-106); without one a governed write succeeds and    *)
(* stores nothing (write_gate.py:244-250).                                 *)
(*                                                                         *)
(* A handler is an asyncio task.  It works on its own copy of the run's    *)
(* context and gives up the event loop only while a card is being sent and *)
(* while a write transaction is running; in between no other handler moves *)
(* (loop), but the process can stop between any two durable writes, so     *)
(* each durable write ends a step of the model.                            *)
(*                                                                         *)
(* The write gate is reduced to the life of its nonces: handed out by a    *)
(* validation, good for TTL, burned by use in the memory of one process.   *)
(* Everything else it may refuse for is a choice.                          *)
(***************************************************************************)
EXTENDS Integers, Sequences, FiniteSets, Functions

CONSTANTS
    Run,           \* run ids
    Task,          \* handlers that may be active at once
    NoTask,
    Item,          \* data keys (data_ref)
    Steps,         \* the SOP definition
    Triggered,     \* <<run, approval step>>: the condition holds for the run's data
    Supplied,      \* items for which the caller passes a nonce in the data
    HasFeedback,   \* was the engine given a feedback_db?
    HasSender,     \* was the engine given an approval_card_sender?
    MayRaise,      \* may a step raise something other than SOPExecutionError?
    TTL,           \* lifetime of a nonce
    MaxTime,       \* bound: ticks of the clock
    MaxClicks,     \* bound: decisions that reach the service
    MaxCrashes     \* bound: crashes

StepType == {"validate", "approval", "write", "notify"}
Last == Len(Steps)
StepNo == 1..Last

ASSUME SOPAssumption ==
    /\ Steps \in Seq([type : StepType, item : Item]) /\ Steps # <<>>
    /\ IsFiniteSet(Task) /\ NoTask \notin Task
    /\ Triggered \subseteq Run \X StepNo /\ Supplied \subseteq Item
    /\ HasFeedback \in BOOLEAN /\ HasSender \in BOOLEAN /\ MayRaise \in BOOLEAN
    /\ TTL \in Nat /\ MaxTime \in Nat /\ MaxClicks \in Nat /\ MaxCrashes \in Nat

VARIABLES
    now,        \* the clock
    saved,      \* sop_state: the stored context of each run
    feedback,   \* agent_feedback: the decision stored for each run
    consumed,   \* nonces burned by this process -> end of tracking
    tasks,      \* the handlers
    loop,       \* the handler that has not yielded since its last step
    crashes,
    client,     \* has the gate of this process a database client?
    clicks,     \* every decision that reached the service
    written,    \* how often each write step of each run was committed
    simulated,  \* how often it was reported as done without a database
    abandoned   \* runs that lost a handler to a crash or to an exception

memory == <<consumed, tasks, loop>>
process == <<crashes, client>>
effects == <<written, simulated>>
vars == <<now, saved, feedback, memory, process, clicks, effects, abandoned>>

Time == 0..MaxTime
NoNonce == -1
Final == {"COMPLETED", "REJECTED", "FAILED"}
State == {"PENDING", "RUNNING", "SUSPENDED"} \cup Final
Decision == {"APPROVED", "REJECTED"}

\* SOPRunContext; index counts from 1, and a nonce is known by its timestamp.
Context == [state : State, index : 1..(Last + 1), nonce : [Item -> Time \cup {NoNonce}]]
NoRow == [state |-> "NONE"]

Idle == [pc |-> "idle"]
Handler == [pc : {"run", "sending", "writing", "committed", "rejecting"},
            run : Run, ctx : Context, next : 1..(Last + 1)]

\* A decision that reached the service: the state and the step the run was stored
\* in, and whether no handler was working on it.
Click == [run : Run, step : 1..(Last + 1), state : State, decision : Decision,
          accepted : BOOLEAN, alone : BOOLEAN]

RowsOK == saved \in [Run -> Context \cup {NoRow}] /\ feedback \in [Run -> Decision \cup {"none"}]
HandlersOK ==
    /\ tasks \in [Task -> Handler \cup {Idle}]
    /\ loop \in Task \cup {NoTask}
LedgerOK ==
    /\ DOMAIN consumed \subseteq Run \X Item \X Time
    /\ \A n \in DOMAIN consumed : consumed[n] \in Nat
HistoryOK ==
    /\ now \in Time /\ crashes \in Nat /\ client \in BOOLEAN
    /\ clicks \in Seq(Click)
    /\ written \in [Run -> [StepNo -> Nat]]
    /\ simulated \in [Run -> [StepNo -> Nat]]
    /\ abandoned \subseteq Run

TypeOK == RowsOK /\ HandlersOK /\ LedgerOK /\ HistoryOK

Init ==
    /\ now = 0 /\ crashes = 0 /\ client \in BOOLEAN
    /\ saved = [r \in Run |-> NoRow]
    /\ feedback = [r \in Run |-> "none"]
    /\ consumed = [n \in {} |-> 0]
    /\ tasks = [t \in Task |-> Idle]
    /\ loop = NoTask
    /\ clicks = <<>>
    /\ written = [r \in Run |-> [s \in StepNo |-> 0]]
    /\ simulated = [r \in Run |-> [s \in StepNo |-> 0]]
    /\ abandoned = {}
-----------------------------------------------------------------------------
(* Helpers *)

Busy(t) == tasks[t].pc # "idle"
CanMove(t) == loop \in {t, NoTask}
Handled(r) == \E t \in Task : Busy(t) /\ tasks[t].run = r

\* Handler t has reached a step of type y.
Reached(t, y) ==
    /\ tasks[t].pc = "run" /\ CanMove(t)
    /\ tasks[t].next <= Last /\ Steps[tasks[t].next].type = y

ItemOf(t) == Steps[tasks[t].next].item

\* The context in the body of the loop of run().
Here(t) == [tasks[t].ctx EXCEPT !.state = "RUNNING", !.index = tasks[t].next]

\* A step is done: the context is saved as it is after it, and the handler goes
\* on without yielding.
StepOver(t, c) ==
    /\ saved' = [saved EXCEPT ![tasks[t].run] = c]
    /\ tasks' = [tasks EXCEPT ![t] =
         [pc |-> "run", run |-> tasks[t].run, ctx |-> c, next |-> tasks[t].next + 1]]
    /\ loop' = t
    /\ UNCHANGED abandoned

\* The handler saves the context in a state where it returns.
Return(t, c, state) ==
    /\ saved' = [saved EXCEPT ![tasks[t].run] = [c EXCEPT !.state = state]]
    /\ tasks' = [tasks EXCEPT ![t] = Idle]
    /\ loop' = NoTask
    /\ UNCHANGED abandoned

StepFails(t) == Return(t, Here(t), "FAILED")

\* An exception that run() does not catch: nothing is saved, and nobody goes on
\* with the run.
StepRaises(t) ==
    /\ MayRaise
    /\ tasks' = [tasks EXCEPT ![t] = Idle]
    /\ loop' = NoTask
    /\ abandoned' = abandoned \cup {tasks[t].run}
    /\ UNCHANGED saved

\* The handler waits for something and other handlers may run.
Await(t, pc) ==
    /\ tasks' = [tasks EXCEPT ![t] = [@ EXCEPT !.pc = pc, !.ctx = Here(t)]]
    /\ loop' = NoTask
    /\ UNCHANGED <<saved, abandoned>>

\* _verify_nonce of the gate, reduced to the clock and the ledger.
Usable(n) == /\ now - n[3] <= TTL
             /\ n \in DOMAIN consumed => consumed[n] <= now

BurnedBackwards(n) ==  \* mutant
    [m \in {k \in DOMAIN consumed : consumed[k] > now} \cup {n} |->
       IF m = n THEN now - TTL ELSE consumed[m]]

\* _consume_nonce, after the sweep of the expired ones.
Burned(n) == [m \in {k \in DOMAIN consumed : consumed[k] > now} \cup {n} |->
                IF m = n THEN now + TTL ELSE consumed[m]]
-----------------------------------------------------------------------------
(* Actions *)

Tick ==
    /\ now < MaxTime
    /\ now' = now + 1
    /\ UNCHANGED <<saved, feedback, memory, process, clicks, effects, abandoned>>

\* create_run, then the call of run().  The run id is a fresh uuid4: with a run_id
\* passed in, save_state would overwrite the row that is there.
Create(t, r) ==
    /\ ~Busy(t) /\ loop = NoTask
    /\ saved[r] = NoRow
    /\ LET c == [state |-> "PENDING", index |-> 1,
                 nonce |-> [i \in Item |-> IF i \in Supplied THEN now ELSE NoNonce]]
       IN  /\ saved' = [saved EXCEPT ![r] = c]
           /\ tasks' = [tasks EXCEPT ![t] = [pc |-> "run", run |-> r, ctx |-> c, next |-> 1]]
    /\ UNCHANGED <<now, feedback, consumed, loop, process, clicks, effects, abandoned>>

\* _step_validate: a nonce for later, a violation or missing data, or one of the
\* gate's own exceptions (unknown domain, malformed RDF).
Validate(t) ==
    /\ Reached(t, "validate")
    /\ \/ StepOver(t, [Here(t) EXCEPT !.nonce[ItemOf(t)] = now])
       \/ StepFails(t)
       \/ StepRaises(t)
    /\ UNCHANGED <<now, feedback, consumed, process, clicks, effects>>

\* _step_notify: the template may name a key that is not in the data.
Notify(t) ==
    /\ Reached(t, "notify")
    /\ StepOver(t, Here(t)) \/ StepRaises(t)
    /\ UNCHANGED <<now, feedback, consumed, process, clicks, effects>>

\* _step_human_approval when the condition of the step is false.  It reads keys of
\* the data that no step changes.
AutoApprove(t) ==
    /\ Reached(t, "approval") /\ <<tasks[t].run, tasks[t].next>> \notin Triggered
    /\ StepOver(t, Here(t))
    /\ UNCHANGED <<now, feedback, consumed, process, clicks, effects>>

AskWithoutSuspending(t) ==  \* mutant
    /\ Reached(t, "approval") /\ <<tasks[t].run, tasks[t].next>> \in Triggered
    /\ StepOver(t, Here(t))
    /\ UNCHANGED <<now, feedback, consumed, process, clicks, effects>>

\* _step_human_approval when it is true: the card goes out and the handler waits
\* for the answer of the messenger, or, with no sender, prints it and suspends.
\* The template of the card may name a key that is not in the data.
AskApproval(t) ==
    /\ Reached(t, "approval") /\ <<tasks[t].run, tasks[t].next>> \in Triggered
    /\ \/ HasSender /\ Await(t, "sending")
       \/ ~HasSender /\ Return(t, Here(t), "SUSPENDED")
       \/ StepRaises(t)
    /\ UNCHANGED <<now, feedback, consumed, process, clicks, effects>>

\* The sender returns, or raises.
CardSent(t) ==
    /\ tasks[t].pc = "sending" /\ loop = NoTask
    /\ Return(t, tasks[t].ctx, "SUSPENDED") \/ StepRaises(t)
    /\ UNCHANGED <<now, feedback, consumed, process, clicks, effects>>

\* _action_governed_write up to the await of the transaction.  Whatever the gate
\* raises becomes a failure of the step: a missing, expired or burned nonce, the
\* quota, or the second validation, which comes after the nonce is burned.  Without
\* a client there is no await: the gate returns success at once.
Write(t) ==
    /\ Reached(t, "write")
    /\ LET n == <<tasks[t].run, ItemOf(t), tasks[t].ctx.nonce[ItemOf(t)]>>
       IN  \/ StepFails(t) /\ UNCHANGED <<consumed, simulated>>
           \/ /\ n[3] # NoNonce /\ Usable(n)
              /\ consumed' = Burned(n)
              /\ \/ client /\ Await(t, "writing") /\ UNCHANGED simulated
                 \/ /\ ~client /\ StepOver(t, Here(t))
                    /\ simulated' = [simulated EXCEPT ![tasks[t].run][tasks[t].next] = @ + 1]
                 \/ StepFails(t) /\ UNCHANGED simulated
    /\ UNCHANGED <<now, feedback, process, clicks, written>>

\* The database commits; the engine does not know yet.
Commit(t) ==
    /\ tasks[t].pc = "writing"
    /\ written' = [written EXCEPT ![tasks[t].run][tasks[t].next] = @ + 1]
    /\ tasks' = [tasks EXCEPT ![t].pc = "committed"]
    /\ UNCHANGED <<now, saved, feedback, consumed, loop, process, clicks, simulated, abandoned>>

WriteReturnsAnyway(t) ==  \* mutant
    /\ tasks[t].pc \in {"writing", "committed"} /\ loop = NoTask
    /\ StepOver(t, tasks[t].ctx)
    /\ UNCHANGED <<now, feedback, consumed, process, clicks, effects>>

\* execute_governed_write returns, or raises: with the transaction rolled back,
\* or after it was committed.
WriteReturns(t) ==
    /\ tasks[t].pc \in {"writing", "committed"} /\ loop = NoTask
    /\ \/ tasks[t].pc = "committed" /\ StepOver(t, tasks[t].ctx)
       \/ StepFails(t)
    /\ UNCHANGED <<now, feedback, consumed, process, clicks, effects>>

\* The end of run().
Complete(t) ==
    /\ tasks[t].pc = "run" /\ CanMove(t) /\ tasks[t].next > Last
    /\ Return(t, tasks[t].ctx, "COMPLETED")
    /\ UNCHANGED <<now, feedback, consumed, process, clicks, effects>>

Heard(r, d, accepted) ==
    clicks' = Append(clicks,
        [run |-> r, step |-> saved[r].index, state |-> saved[r].state, decision |-> d,
         accepted |-> accepted, alone |-> ~Handled(r)])

ResumableTwice(r) == saved[r].state = "SUSPENDED"  \* mutant

ResumableInAnyState(r) == HasFeedback => feedback[r] = "none"  \* mutant

\* The two refusals of resume(): a run that is not suspended, and a second row
\* for the same trace_id.
Resumable(r) ==
    /\ saved[r].state = "SUSPENDED"
    /\ HasFeedback => feedback[r] = "none"

\* A decision arrives, from a card or through the resume endpoint (the code does
\* not tell them apart), and its handler ends in an exception.  A handler that does
\* not find the run or its definition ends before resume() and changes nothing.
Refuse(r, d) ==
    /\ loop = NoTask /\ Len(clicks) < MaxClicks
    /\ saved[r] # NoRow /\ ~Resumable(r)
    /\ Heard(r, d, FALSE)
    /\ UNCHANGED <<now, saved, feedback, memory, process, effects, abandoned>>

\* A decision arrives: the handler loads the run, and resume() stores the decision.
Resume(t, r, d) ==
    /\ ~Busy(t) /\ loop = NoTask /\ Len(clicks) < MaxClicks
    /\ saved[r] # NoRow /\ Resumable(r)
    /\ feedback' = IF HasFeedback THEN [feedback EXCEPT ![r] = d] ELSE feedback
    /\ tasks' = [tasks EXCEPT ![t] =
         IF d = "REJECTED"
         THEN [pc |-> "rejecting", run |-> r, ctx |-> saved[r], next |-> saved[r].index]
         ELSE [pc |-> "run", run |-> r,
               ctx |-> [saved[r] EXCEPT !.state = "RUNNING", !.index = saved[r].index + 1],
               next |-> saved[r].index + 1]]
    /\ loop' = t
    /\ Heard(r, d, TRUE)
    /\ UNCHANGED <<now, saved, consumed, process, effects, abandoned>>

RejectionRunsOn(t) ==  \* mutant
    /\ tasks[t].pc = "rejecting"
    /\ StepOver(t, tasks[t].ctx)
    /\ UNCHANGED <<now, feedback, consumed, process, clicks, effects>>

RejectUnsaved(t) ==  \* mutant
    /\ tasks[t].pc = "rejecting"
    /\ tasks' = [tasks EXCEPT ![t] = Idle] /\ loop' = NoTask
    /\ UNCHANGED <<now, saved, feedback, consumed, process, clicks, effects, abandoned>>

\* The rest of resume() for a rejection.
Reject(t) ==
    /\ tasks[t].pc = "rejecting"
    /\ Return(t, tasks[t].ctx, "REJECTED")
    /\ UNCHANGED <<now, feedback, consumed, process, clicks, effects>>

\* The process stops and a new one starts, with a database client or without;
\* transactions in flight commit or not.
Crash ==
    /\ crashes < MaxCrashes
    /\ crashes' = crashes + 1 /\ client' \in BOOLEAN
    /\ \E S \in SUBSET {t \in Task : tasks[t].pc = "writing"} :
         written' = [r \in Run |-> [s \in StepNo |->
           written[r][s] + Cardinality({t \in S : tasks[t].run = r /\ tasks[t].next = s})]]
    /\ consumed' = [n \in {} |-> 0]
    /\ tasks' = [t \in Task |-> Idle]
    /\ loop' = NoTask
    /\ abandoned' = abandoned \cup {tasks[t].run : t \in {u \in Task : Busy(u)}}
    /\ UNCHANGED <<now, saved, feedback, clicks, simulated>>

\* What a handler does once it has started.
Proceed(t) ==
    \/ Validate(t) \/ Notify(t) \/ AutoApprove(t) \/ AskApproval(t) \/ CardSent(t)
    \/ Write(t) \/ Commit(t) \/ WriteReturns(t) \/ Complete(t) \/ Reject(t)

Next ==
    \/ Tick
    \/ \E t \in Task : Proceed(t)
    \/ \E t \in Task, r \in Run : Create(t, r)
    \/ \E r \in Run, d \in Decision : Refuse(r, d)
    \/ \E t \in Task, r \in Run, d \in Decision : Resume(t, r, d)
    \/ Crash

Spec == Init /\ [][Next]_vars

\* asyncio runs every ready task, the messenger's HTTP client has a timeout, and
\* the database driver answers or raises.  Nobody is obliged to decide.
FairSpec == Spec /\ \A t \in Task : WF_vars(Proceed(t))
-----------------------------------------------------------------------------
(* Properties *)

Accepted == {clicks[i] : i \in {j \in DOMAIN clicks : clicks[j].accepted}}
ApprovalSteps == {s \in StepNo : Steps[s].type = "approval"}
WriteSteps == {s \in StepNo : Steps[s].type = "write"}

\* How often a write step took effect: in the graph, or in the engine's eyes only.
Done(r, s) == written[r][s] + simulated[r][s]

(* A governed write takes effect only if every approval step before it was   *)
(* either switched off by its condition or approved by a person (lines       *)
(* 334-376, 250-255), over crashes, repeated and contradicting decisions.    *)
WrittenOnlyIfApproved ==
    \A r \in Run, s \in WriteSteps : Done(r, s) > 0 =>
        \A a \in ApprovalSteps : (a < s /\ <<r, a>> \in Triggered) =>
            \E c \in Accepted : c.run = r /\ c.step = a /\ c.decision = "APPROVED"

(* A rejection that was taken is the end: no later step writes, and the row  *)
(* of the run never ends in another state than REJECTED (lines 239-250).     *)
RejectionStops ==
    \A c \in Accepted : c.decision = "REJECTED" =>
        /\ \A s \in WriteSteps : s > c.step => Done(c.run, s) = 0
        /\ saved[c.run].state \in {"SUSPENDED", "REJECTED"}

(* The database and the audit agree with the state of a run: COMPLETED means *)
(* each of its writes was committed exactly once, or never and reported once *)
(* by a process that started without a database client; REJECTED means that  *)
(* the stored decision is a rejection.                                       *)
OutcomeIsTrue ==
    \A r \in Run :
        /\ saved[r].state = "COMPLETED" => \A s \in WriteSteps : Done(r, s) = 1
        /\ (saved[r].state = "REJECTED" /\ HasFeedback) => feedback[r] = "REJECTED"

(* A run that has ended is never touched again, whatever arrives later.      *)
FinalStays ==
    [][\A r \in Run : saved[r].state \in Final => saved'[r] = saved[r]]_vars

(* The two tables change one row at a time and only forward: a run is first  *)
(* PENDING and never again, REJECTED is saved exactly of a run whose stored  *)
(* decision is a rejection, and a decision is stored once, of a run that is  *)
(* suspended.  The console's endpoints rely on it: Dashboard has no other    *)
(* saves (lines 111-127, 162-189, 222-250).                                  *)
TablesMove ==
    [][\A r \in Run :
         /\ saved'[r] # saved[r] =>
              /\ saved' = [saved EXCEPT ![r] = saved'[r]] /\ UNCHANGED feedback
              /\ saved'[r].state = "PENDING" <=> saved[r] = NoRow
              /\ saved[r].state \notin Final
              /\ saved'[r].state = "REJECTED" <=> feedback[r] = "REJECTED"
         /\ feedback'[r] # feedback[r] =>
              /\ feedback' = [feedback EXCEPT ![r] = feedback'[r]] /\ UNCHANGED saved
              /\ feedback[r] = "none" /\ saved[r].state = "SUSPENDED"]_vars

\* What a decision on step a of run r may come to: the run has ended, or waits for
\* the decision on a later step, or was lost with its handler.
Settled(r, a) ==
    \/ saved[r].state \in Final
    \/ saved[r].state = "SUSPENDED" /\ saved[r].index > a
    \/ r \in abandoned

(* A decision the service has taken takes effect: the run ends or waits at a *)
(* later approval.  Only a crash, or an exception that run() does not catch  *)
(* (line 162), in a handler of this very run is an excuse; no other run's    *)
(* handler, no competing decision and no lost acknowledgement is.            *)
DecisionTakesEffect ==
    \A r \in Run, a \in ApprovalSteps :
        (\E c \in Accepted : c.run = r /\ c.step = a) ~> Settled(r, a)

(* And until then a handler is at it: no decision is dropped between the row *)
(* of agent_feedback and the rows of sop_state (lines 193-255).              *)
DecisionInHand ==
    \A c \in Accepted : Handled(c.run) \/ Settled(c.run, c.step)

(* The engine with its databases keeps the promise of ApprovalProtocol: one  *)
(* decision per run that nobody changes, effects at most once and only after *)
(* it, and none simulated by a process with a database (lines 138-255).      *)
Protocol == INSTANCE ApprovalProtocol WITH
    Effect <- WriteSteps,
    NeedsApproval <- [r \in Run |->
        {s \in WriteSteps : \E a \in ApprovalSteps : a < s /\ <<r, a>> \in Triggered}],
    database <- client,
    decision <- feedback,
    outcome <- [r \in Run |-> IF saved[r].state \in Final THEN saved[r].state ELSE "open"],
    made <- [r \in Run |-> [s \in WriteSteps |-> written[r][s]]],
    imagined <- [r \in Run |-> [s \in WriteSteps |-> simulated[r][s]]]

KeepsProtocol == Protocol!ProtocolSpec

(* Findings: what the documentation says and the code does not do. *)

(* "every single approval decision is stored on its own in agent_feedback"   *)
(* and "after a restart of the service it is resumed correctly"              *)
(* (docs, lines 281 and 76): a decision on a suspended run that no handler   *)
(* works on is taken.                                                        *)
SuspendedRunsCanBeDecided ==
    \A i \in DOMAIN clicks :
        (clicks[i].state = "SUSPENDED" /\ clicks[i].alone) => clicks[i].accepted

(* run() goes on "until it is complete, suspended or failed" (docstring,     *)
(* lines 138-141), and a failing step gives "an honest FAILED state" and not *)
(* a bare exception (comment, lines 403-407): a run that was decided in a    *)
(* process that has not crashed, and that no handler works on, is in such a  *)
(* state.                                                                    *)
DecidedRunsReachAState ==
    crashes = 0 => \A c \in Accepted :
        Handled(c.run) \/ saved[c.run].state \in Final \cup {"SUSPENDED"}
=============================================================================
