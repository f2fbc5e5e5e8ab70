---------------------------- MODULE SOPEngineProofs ----------------------------
(***************************************************************************)
(* Theorems about SOPEngine, for all values of its constants.              *)
(***************************************************************************)
EXTENDS SOPEngine, FiniteSetTheorems, SequenceTheorems, TLAPS

USE DEF process, effects, Done

-----------------------------------------------------------------------------
(* Type correctness *)

(* A definition has steps, numbered from one, and every step has a type and  *)
(* an item (SOPDefinition of sop_schema.py).                                 *)
LEMMA StepsType ==
    /\ Last \in Nat /\ Last > 0 /\ StepNo = 1..Last
    /\ \A s \in StepNo : Steps[s].type \in StepType /\ Steps[s].item \in Item
<1>1. Steps \in Seq([type : StepType, item : Item]) /\ Steps # <<>>
  BY SOPAssumption
<1>2. Last \in Nat /\ Last > 0
  BY <1>1 DEF Last
<1>3. \A s \in 1..Last : Steps[s] \in [type : StepType, item : Item]
  BY <1>1, ElementOfSeq DEF Last
<1> QED
  BY <1>2, <1>3 DEF StepNo

(* A handler that is not idle has a run, a context and a step. *)
LEMMA BusyType ==
    ASSUME HandlersOK, NEW t \in Task, Busy(t)
    PROVE  tasks[t] \in Handler
  BY DEF HandlersOK, Busy, Idle

(* The context that the loop of run() works on and saves (lines 143-148). *)
LEMMA HereType ==
    ASSUME HandlersOK, NEW t \in Task, Busy(t)
    PROVE  /\ Here(t) \in Context
           /\ Here(t).state = "RUNNING" /\ Here(t).index = tasks[t].next
<1>1. tasks[t] \in Handler
  BY BusyType
<1>2. tasks[t].ctx \in Context /\ tasks[t].next \in 1..(Last + 1)
  BY <1>1 DEF Handler
<1> QED
  BY <1>2 DEF Here, Context, State

(* The three ways in which a handler gives up the loop or goes on leave the  *)
(* rows and the handlers well typed.                                         *)
LEMMA StepOverType ==
    ASSUME RowsOK, HandlersOK, NEW t \in Task, Busy(t), NEW c \in Context,
           tasks[t].next <= Last, StepOver(t, c), UNCHANGED feedback
    PROVE  RowsOK' /\ HandlersOK'
<1>1. tasks[t] \in Handler
  BY BusyType
<1>2. tasks[t].run \in Run /\ tasks[t].next + 1 \in 1..(Last + 1)
  BY <1>1, StepsType DEF Handler
<1>3. [pc |-> "run", run |-> tasks[t].run, ctx |-> c, next |-> tasks[t].next + 1] \in Handler
  BY <1>1, <1>2 DEF Handler
<1>4. HandlersOK'
  BY <1>3 DEF HandlersOK, StepOver
<1>5. RowsOK'
  BY <1>2 DEF StepOver, RowsOK
<1> QED
  BY <1>4, <1>5

(* Likewise for a handler that saves the context and returns (lines 162-189). *)
LEMMA ReturnType ==
    ASSUME RowsOK, HandlersOK, NEW t \in Task, Busy(t), NEW c \in Context,
           NEW state \in State, Return(t, c, state), UNCHANGED feedback
    PROVE  RowsOK' /\ HandlersOK'
<1>1. tasks[t].run \in Run
  BY BusyType DEF Handler
<1>2. [c EXCEPT !.state = state] \in Context
  BY DEF Context
<1>3. HandlersOK'
  BY DEF Return, HandlersOK
<1>4. RowsOK'
  BY <1>1, <1>2 DEF Return, RowsOK
<1> QED
  BY <1>3, <1>4

(* Likewise for one that waits for the messenger or the database. *)
LEMMA AwaitType ==
    ASSUME RowsOK, HandlersOK, NEW t \in Task, Busy(t),
           NEW pc \in {"sending", "writing"}, Await(t, pc), UNCHANGED feedback
    PROVE  RowsOK' /\ HandlersOK'
<1>1. tasks[t] \in Handler
  BY BusyType
<1>2. [tasks[t] EXCEPT !.pc = pc, !.ctx = Here(t)] \in Handler
  BY <1>1, HereType DEF Handler
<1>3. HandlersOK'
  BY <1>2 DEF Await, HandlersOK
<1>4. RowsOK'
  BY DEF Await, RowsOK
<1> QED
  BY <1>3, <1>4

(* Likewise for an exception run() does not catch. *)
LEMMA RaiseType ==
    ASSUME RowsOK, HandlersOK, NEW t \in Task, StepRaises(t), UNCHANGED feedback
    PROVE  RowsOK' /\ HandlersOK'
  BY DEF StepRaises, RowsOK, HandlersOK

-----------------------------------------------------------------------------
(* The steps of a handler, by what they do to the rows and the handlers      *)

(* While a card or a transaction is on its way, the handler's context is the *)
(* one it had when it reached the step; and there are transactions only in a *)
(* process with a database client (write_gate.py:232-242).                   *)
Underway ==
    \A t \in Task : tasks[t].pc \in {"sending", "writing", "committed"} =>
        /\ tasks[t].next <= Last
        /\ tasks[t].ctx.state = "RUNNING" /\ tasks[t].ctx.index = tasks[t].next
        /\ Steps[tasks[t].next].type = IF tasks[t].pc = "sending" THEN "approval" ELSE "write"
        /\ tasks[t].pc # "sending" => client

(* A run is suspended at an approval step. *)
SuspendedThere ==
    \A r \in Run : saved[r].state = "SUSPENDED" =>
        saved[r].index \in StepNo /\ Steps[saved[r].index].type = "approval"

TypeInv == TypeOK /\ Underway /\ SuspendedThere

\* The handler is done with its step and takes the next one.
Advances(t) ==
    /\ tasks[t].next <= Last
    /\ \/ /\ tasks[t].pc = "run" /\ Steps[tasks[t].next].type # "write"
          /\ Steps[tasks[t].next].type = "approval" => <<tasks[t].run, tasks[t].next>> \notin Triggered
       \/ tasks[t].pc = "committed"
    /\ \E c \in Context : c.state = "RUNNING" /\ StepOver(t, c)
    /\ UNCHANGED effects

\* Likewise, with a write that only the log knows of.
Simulates(t) ==
    /\ ~client /\ tasks[t].pc = "run"
    /\ tasks[t].next <= Last /\ Steps[tasks[t].next].type = "write"
    /\ \E c \in Context : c.state = "RUNNING" /\ StepOver(t, c)
    /\ simulated' = [simulated EXCEPT ![tasks[t].run][tasks[t].next] = @ + 1]
    /\ UNCHANGED written

\* It waits for the messenger or for the database.
Waits(t) ==
    /\ tasks[t].pc = "run" /\ tasks[t].next <= Last
    /\ \/ Steps[tasks[t].next].type = "approval" /\ Await(t, "sending")
       \/ Steps[tasks[t].next].type = "write" /\ client /\ Await(t, "writing")
    /\ UNCHANGED effects

Suspends(t) ==
    /\ tasks[t].pc \in {"run", "sending"} /\ tasks[t].next <= Last
    /\ Steps[tasks[t].next].type = "approval"
    /\ \E c \in Context : c.index = tasks[t].next /\ Return(t, c, "SUSPENDED")
    /\ UNCHANGED effects

Ends(t) ==
    /\ \E c \in Context :
         \/ tasks[t].pc \in {"run", "writing", "committed"} /\ Return(t, c, "FAILED")
         \/ tasks[t].pc = "run" /\ tasks[t].next > Last /\ Return(t, c, "COMPLETED")
         \/ tasks[t].pc = "rejecting" /\ Return(t, c, "REJECTED")
    /\ UNCHANGED effects

GivesUp(t) ==
    /\ tasks[t].pc \in {"run", "sending"}
    /\ StepRaises(t) /\ UNCHANGED effects

\* Every step of a handler is one of these (lines 138-189, 239-250, 276-428).
LEMMA HandlerStep ==
    ASSUME TypeOK, Underway, NEW t \in Task, Proceed(t)
    PROVE  /\ Busy(t) /\ UNCHANGED <<now, feedback, process, clicks>>
           /\ Advances(t) \/ Simulates(t) \/ Waits(t) \/ Suspends(t) \/ Ends(t) \/ GivesUp(t) \/ Commit(t)
<1> USE DEF TypeOK
<1>1. CASE Validate(t)
  <2>1. Busy(t) /\ tasks[t].next <= Last /\ Steps[tasks[t].next].type = "validate"
    BY <1>1 DEF Validate, Reached, Busy
  <2>2. Here(t) \in Context /\ Here(t).state = "RUNNING"
    BY <2>1, HereType
  <2>3. ItemOf(t) \in Item /\ now \in Time \cup {NoNonce}
    BY <2>1, StepsType, BusyType DEF ItemOf, Handler, HistoryOK
  <2>4. /\ [Here(t) EXCEPT !.nonce[ItemOf(t)] = now] \in Context
        /\ [Here(t) EXCEPT !.nonce[ItemOf(t)] = now].state = "RUNNING"
    BY <2>2, <2>3 DEF Context
  <2> QED
    BY <1>1, <2>1, <2>2, <2>4 DEF Validate, Reached, StepFails, Advances, Ends, GivesUp
<1>2. CASE Notify(t)
  <2>1. Busy(t) /\ tasks[t].next <= Last /\ Steps[tasks[t].next].type = "notify"
    BY <1>2 DEF Notify, Reached, Busy
  <2> QED
    BY <1>2, <2>1, HereType DEF Notify, Reached, Advances, GivesUp
<1>3. CASE AutoApprove(t)
  <2>1. Busy(t) /\ tasks[t].next <= Last /\ Steps[tasks[t].next].type = "approval"
    BY <1>3 DEF AutoApprove, Reached, Busy
  <2> QED
    BY <1>3, <2>1, HereType DEF AutoApprove, Reached, Advances
<1>4. CASE AskApproval(t)
  <2>1. Busy(t) /\ tasks[t].next <= Last /\ Steps[tasks[t].next].type = "approval"
    BY <1>4 DEF AskApproval, Reached, Busy
  <2> QED
    BY <1>4, <2>1, HereType DEF AskApproval, Reached, Waits, Suspends, GivesUp
<1>5. CASE CardSent(t)
  <2>1. tasks[t].pc = "sending" /\ Busy(t)
    BY <1>5 DEF CardSent, Busy
  <2>2. tasks[t].ctx \in Context
    BY <2>1, BusyType DEF Handler
  <2> QED
    BY <1>5, <2>1, <2>2 DEF CardSent, Underway, Suspends, GivesUp
<1>6. CASE Write(t)
  <2>1. Busy(t) /\ tasks[t].pc = "run" /\ tasks[t].next <= Last /\ Steps[tasks[t].next].type = "write"
    BY <1>6 DEF Write, Reached, Busy
  <2>2. /\ UNCHANGED <<now, feedback, process, clicks, written>>
        /\ \/ client /\ Await(t, "writing") /\ UNCHANGED simulated
           \/ Return(t, Here(t), "FAILED") /\ UNCHANGED simulated
           \/ /\ ~client /\ StepOver(t, Here(t))
              /\ simulated' = [simulated EXCEPT ![tasks[t].run][tasks[t].next] = @ + 1]
    BY <1>6 DEF Write, StepFails
  <2>3. Here(t) \in Context /\ Here(t).state = "RUNNING"
    BY <2>1, HereType
  <2> QED
    BY <2>1, <2>2, <2>3 DEF Waits, Ends, Simulates
<1>7. CASE Commit(t)
  BY <1>7 DEF Commit, Busy
<1>8. CASE WriteReturns(t)
  <2>1. Busy(t) /\ tasks[t].pc \in {"writing", "committed"}
    BY <1>8 DEF WriteReturns, Busy
  <2>2. tasks[t].ctx \in Context
    BY <2>1, BusyType DEF Handler
  <2> QED
    BY <1>8, <2>1, <2>2, HereType DEF WriteReturns, StepFails, Underway, Advances, Ends
<1>9. CASE Complete(t)
  <2>1. Busy(t) /\ tasks[t].pc = "run" /\ tasks[t].next > Last
    BY <1>9 DEF Complete, Busy
  <2> QED
    BY <1>9, <2>1, BusyType DEF Complete, Ends, Handler
<1>10. CASE Reject(t)
  <2>1. Busy(t) /\ tasks[t].pc = "rejecting"
    BY <1>10 DEF Reject, Busy
  <2> QED
    BY <1>10, <2>1, BusyType DEF Reject, Ends, Handler
<1> QED
  BY <1>1, <1>2, <1>3, <1>4, <1>5, <1>6, <1>7, <1>8, <1>9, <1>10 DEF Proceed

-----------------------------------------------------------------------------
(* Type correctness of every step *)

(* Burning a nonce keeps the ledger well typed (lines 340-362 of             *)
(* write_gate.py); no other step of a handler touches it.                    *)
LEMMA LedgerStep ==
    ASSUME TypeOK, Underway, NEW t \in Task, Proceed(t)
    PROVE  LedgerOK'
<1> USE DEF TypeOK
<1>1. CASE UNCHANGED consumed
  BY <1>1 DEF LedgerOK
<1>2. CASE Write(t) /\ consumed' # consumed
  <2> DEFINE n == <<tasks[t].run, ItemOf(t), tasks[t].ctx.nonce[ItemOf(t)]>>
  <2>1. consumed' = Burned(n) /\ n[3] # NoNonce
    BY <1>2 DEF Write
  <2>2. Busy(t) /\ tasks[t].next \in StepNo
    <3>1. Busy(t) /\ tasks[t].next <= Last
      BY <1>2 DEF Write, Reached, Busy
    <3> QED
      BY <3>1, BusyType, StepsType DEF Handler
  <2>3. ItemOf(t) \in Item /\ tasks[t].run \in Run /\ tasks[t].ctx \in Context
    BY <2>2, StepsType, BusyType DEF ItemOf, Handler
  <2>4. n \in Run \X Item \X Time
    BY <2>1, <2>3 DEF Context
  <2>5. now + TTL \in Nat
    BY SOPAssumption DEF HistoryOK, Time
  <2> HIDE DEF n
  <2>6. /\ DOMAIN Burned(n) \subseteq DOMAIN consumed \cup {n}
        /\ \A m \in DOMAIN Burned(n) : Burned(n)[m] = IF m = n THEN now + TTL ELSE consumed[m]
    BY DEF Burned
  <2> QED
    BY <2>1, <2>4, <2>5, <2>6 DEF LedgerOK
<1> QED
  BY <1>1, <1>2 DEF Proceed, Validate, Notify, AutoApprove, AskApproval, CardSent,
     Commit, WriteReturns, Complete, Reject

(* Every step of a handler keeps the types. *)
LEMMA ProceedType ==
    ASSUME TypeOK, Underway, NEW t \in Task, Proceed(t)
    PROVE  TypeOK'
<1> USE DEF TypeOK
<1>1. Busy(t) /\ UNCHANGED <<now, feedback, process, clicks>>
  BY HandlerStep
<1>2. tasks[t] \in Handler
  BY <1>1, BusyType
<1>3. ASSUME Advances(t) PROVE RowsOK' /\ HandlersOK'
  BY <1>1, <1>3, StepOverType DEF Advances, HistoryOK
<1>3a. ASSUME Simulates(t) PROVE RowsOK' /\ HandlersOK'
  BY <1>1, <1>3a, StepOverType DEF Simulates
<1>4. ASSUME Waits(t) PROVE RowsOK' /\ HandlersOK'
  BY <1>1, <1>4, AwaitType DEF Waits
<1>5. ASSUME Suspends(t) PROVE RowsOK' /\ HandlersOK'
  BY <1>1, <1>5, ReturnType DEF Suspends, State
<1>6. ASSUME Ends(t) PROVE RowsOK' /\ HandlersOK'
  BY <1>1, <1>6, ReturnType DEF Ends, State, Final
<1>7. ASSUME GivesUp(t) PROVE RowsOK' /\ HandlersOK'
  BY <1>1, <1>7, RaiseType DEF GivesUp
<1>8. ASSUME Commit(t) PROVE RowsOK' /\ HandlersOK'
  <2>1. [tasks[t] EXCEPT !.pc = "committed"] \in Handler
    BY <1>2 DEF Handler
  <2> QED
    BY <1>1, <1>8, <2>1 DEF Commit, RowsOK, HandlersOK
<1>9. RowsOK' /\ HandlersOK'
  BY <1>3, <1>3a, <1>4, <1>5, <1>6, <1>7, <1>8, HandlerStep
<1>10. written' \in [Run -> [StepNo -> Nat]] /\ simulated' \in [Run -> [StepNo -> Nat]]
  <2>1. CASE UNCHANGED effects
    BY <2>1 DEF HistoryOK
  <2>2. CASE Commit(t)
    <3>1. tasks[t].run \in Run /\ tasks[t].next \in StepNo
      BY <1>2, <2>2, StepsType DEF Commit, Underway, Handler
    <3> QED
      BY <2>2, <3>1 DEF Commit, HistoryOK
  <2>3. CASE Simulates(t)
    <3>1. tasks[t].run \in Run /\ tasks[t].next \in StepNo
      BY <1>2, <2>3, StepsType DEF Simulates, Handler
    <3> QED
      BY <2>3, <3>1 DEF Simulates, HistoryOK
  <2> QED
    BY <2>1, <2>2, <2>3, HandlerStep DEF Advances, Waits, Suspends, Ends, GivesUp
<1>11. abandoned' \subseteq Run
  BY <1>2, HandlerStep DEF HistoryOK, Handler, Advances, Simulates, StepOver, Waits, Await,
     Suspends, Ends, Return, GivesUp, StepRaises, Commit
<1>12. HistoryOK'
  BY <1>1, <1>10, <1>11 DEF HistoryOK
<1> QED
  BY <1>9, <1>12, LedgerStep

(* A crash adds to the counters at most what was in flight, and there are    *)
(* finitely many handlers.                                                   *)
LEMMA CrashCounts ==
    ASSUME TypeOK, Crash
    PROVE  \A r \in Run, s \in StepNo :
             /\ written'[r][s] \in Nat
             /\ \/ written'[r][s] = written[r][s]
                \/ \E t \in Task : /\ tasks[t].pc = "writing"
                                   /\ tasks[t].run = r /\ tasks[t].next = s
<1>1. PICK S \in SUBSET {t \in Task : tasks[t].pc = "writing"} :
         written' = [r \in Run |-> [s \in StepNo |->
           written[r][s] + Cardinality({t \in S : tasks[t].run = r /\ tasks[t].next = s})]]
  BY DEF Crash
<1> TAKE r \in Run, s \in StepNo
<1> DEFINE D == {t \in S : tasks[t].run = r /\ tasks[t].next = s}
<1>2. IsFiniteSet(D)
  BY FS_Subset, SOPAssumption
<1>3. Cardinality(D) \in Nat
  BY <1>2, FS_CardinalityType
<1>4. written'[r][s] = written[r][s] + Cardinality(D)
  BY <1>1
<1>5. written[r][s] \in Nat
  BY DEF TypeOK, HistoryOK
<1>6. CASE D = {}
  BY <1>4, <1>5, <1>6, FS_EmptySet
<1>7. CASE D # {}
  BY <1>3, <1>4, <1>5, <1>7
<1> QED
  BY <1>6, <1>7

(* A crash keeps the types. *)
LEMMA CrashType ==
    ASSUME TypeOK, Crash
    PROVE  TypeOK'
<1> USE DEF TypeOK
<1>1. written' \in [Run -> [StepNo -> Nat]]
  <2>1. PICK S : written' = [r \in Run |-> [s \in StepNo |->
           written[r][s] + Cardinality({t \in S : tasks[t].run = r /\ tasks[t].next = s})]]
    BY DEF Crash
  <2>2. \A r \in Run, s \in StepNo : written'[r][s] \in Nat
    BY CrashCounts
  <2> QED
    BY <2>1, <2>2
<1>2. HistoryOK'
  <2>1. abandoned' \subseteq Run
    BY BusyType DEF Crash, HistoryOK, Handler
  <2> QED
    BY <1>1, <2>1 DEF Crash, HistoryOK
<1>3. RowsOK' /\ HandlersOK' /\ LedgerOK'
  BY DEF Crash, RowsOK, HandlersOK, LedgerOK
<1> QED
  BY <1>2, <1>3

(* A row that exists is a saved context (lines 52-83 of state_store.py). *)
LEMMA RowType ==
    ASSUME RowsOK, NEW r \in Run, saved[r] # NoRow
    PROVE  saved[r] \in Context /\ saved[r].state # "NONE"
  BY DEF RowsOK, Context, State, Final

(* A decision that reaches the service is recorded as a Click (lines 438-470   *)
(* of main.py).                                                              *)
LEMMA HeardType ==
    ASSUME TypeOK, NEW r \in Run, saved[r] # NoRow, NEW d \in Decision,
           NEW accepted \in BOOLEAN, Heard(r, d, accepted)
    PROVE  clicks' \in Seq(Click)
<1> DEFINE click == [run |-> r, step |-> saved[r].index, state |-> saved[r].state,
                     decision |-> d, accepted |-> accepted,
                     alone |-> ~Handled(r)]
<1>1. saved[r].index \in 1..(Last + 1) /\ saved[r].state \in State
  BY RowType DEF TypeOK, Context
<1>2. (~Handled(r)) \in BOOLEAN
  BY DEF Handled
<1>3. click \in Click
  BY <1>1, <1>2 DEF Click
<1>4. clicks \in Seq(Click) /\ clicks' = Append(clicks, click)
  BY DEF TypeOK, HistoryOK, Heard
<1> HIDE DEF click
<1> QED
  BY <1>3, <1>4

(* create_run stores a fresh context (lines 111-127). *)
LEMMA CreateType ==
    ASSUME TypeOK, NEW t \in Task, NEW r \in Run, Create(t, r)
    PROVE  TypeOK'
<1> USE DEF TypeOK
<1> DEFINE c == [state |-> "PENDING", index |-> 1,
                 nonce |-> [i \in Item |-> IF i \in Supplied THEN now ELSE NoNonce]]
<1>1. c \in Context
  BY StepsType DEF Context, State, HistoryOK
<1>2. [pc |-> "run", run |-> r, ctx |-> c, next |-> 1] \in Handler
  BY <1>1, StepsType DEF Handler
<1>3. /\ saved' = [saved EXCEPT ![r] = c]
      /\ tasks' = [tasks EXCEPT ![t] = [pc |-> "run", run |-> r, ctx |-> c, next |-> 1]]
      /\ UNCHANGED <<now, feedback, consumed, loop, process, clicks, effects, abandoned>>
  BY DEF Create
<1> HIDE DEF c
<1> QED
  BY <1>1, <1>2, <1>3 DEF RowsOK, HandlersOK, LedgerOK, HistoryOK

(* What resume() does to the handlers (lines 193-255). *)
LEMMA ResumeStep ==
    ASSUME TypeInv, NEW t \in Task, NEW r \in Run, NEW d \in Decision, Resume(t, r, d)
    PROVE  /\ tasks'[t] \in Handler
           /\ tasks' = [tasks EXCEPT ![t] = tasks'[t]]
           /\ tasks'[t].run = r
           /\ d = "REJECTED" => tasks'[t].pc = "rejecting"
           /\ d = "APPROVED" => tasks'[t].pc = "run"
           /\ tasks'[t].next = IF d = "REJECTED" THEN saved[r].index ELSE saved[r].index + 1
<1>1. saved[r] \in Context
  BY RowType DEF Resume, TypeInv, TypeOK
<1>2. tasks \in [Task -> Handler \cup {Idle}]
  BY DEF TypeInv, TypeOK, HandlersOK
<1>3. CASE d = "REJECTED"
  <2>1. [pc |-> "rejecting", run |-> r, ctx |-> saved[r], next |-> saved[r].index] \in Handler
    BY <1>1 DEF Handler, Context
  <2> QED
    BY <1>2, <1>3, <2>1 DEF Resume
<1>4. CASE d = "APPROVED"
  <2> DEFINE c == [saved[r] EXCEPT !.state = "RUNNING", !.index = saved[r].index + 1]
  <2>1. saved[r].index \in 1..Last
    BY DEF Resume, Resumable, TypeInv, SuspendedThere, StepNo
  <2>2. c \in Context
    <3>1. saved[r].index + 1 \in 1..(Last + 1)
      BY <2>1, StepsType
    <3> QED
      BY <1>1, <3>1 DEF Context, State
  <2>3. [pc |-> "run", run |-> r, ctx |-> c, next |-> saved[r].index + 1] \in Handler
    BY <2>1, <2>2, StepsType DEF Handler
  <2> QED
    BY <1>2, <1>4, <2>3 DEF Resume
<1> QED
  BY <1>3, <1>4 DEF Decision

(* resume() keeps the types (lines 193-255). *)
LEMMA ResumeType ==
    ASSUME TypeInv, NEW t \in Task, NEW r \in Run, NEW d \in Decision, Resume(t, r, d)
    PROVE  TypeOK'
<1> USE DEF TypeInv, TypeOK
<1>1. RowsOK'
  BY DEF Resume, RowsOK
<1>2. HandlersOK'
  BY ResumeStep DEF Resume, HandlersOK
<1>3. clicks' \in Seq(Click)
  BY HeardType DEF Resume
<1> QED
  BY <1>1, <1>2, <1>3 DEF Resume, LedgerOK, HistoryOK

(* Every step keeps the types. *)
LEMMA NextType == TypeInv /\ [Next]_vars => TypeOK'
<1> SUFFICES ASSUME TypeInv, [Next]_vars PROVE TypeOK'
  OBVIOUS
<1> USE DEF TypeInv
<1>1. CASE Tick
  BY <1>1, SOPAssumption DEF Tick, memory, TypeOK, RowsOK, HandlersOK, LedgerOK, HistoryOK, Time
<1>2. ASSUME NEW t \in Task, Proceed(t) PROVE TypeOK'
  BY <1>2, ProceedType
<1>3. ASSUME NEW t \in Task, NEW r \in Run, Create(t, r) PROVE TypeOK'
  BY <1>3, CreateType
<1>4. ASSUME NEW r \in Run, NEW d \in Decision, Refuse(r, d) PROVE TypeOK'
  <2>1. clicks' \in Seq(Click)
    BY <1>4, HeardType DEF Refuse
  <2> QED
    BY <1>4, <2>1 DEF Refuse, memory, TypeOK, RowsOK, HandlersOK, LedgerOK, HistoryOK
<1>5. ASSUME NEW t \in Task, NEW r \in Run, NEW d \in Decision, Resume(t, r, d) PROVE TypeOK'
  BY <1>5, ResumeType
<1>6. CASE Crash
  BY <1>6, CrashType
<1>7. CASE UNCHANGED vars
  BY <1>7 DEF vars, memory, TypeOK, RowsOK, HandlersOK, LedgerOK, HistoryOK
<1> QED
  BY <1>1, <1>2, <1>3, <1>4, <1>5, <1>6, <1>7 DEF Next

(* The step a handler waits in stays the one it reached (lines 146-148): only *)
(* its own steps touch its context.                                           *)
LEMMA UnderwayNext == TypeInv /\ [Next]_vars => Underway'
<1> SUFFICES ASSUME TypeInv, [Next]_vars PROVE Underway'
  OBVIOUS
<1> USE DEF TypeInv, TypeOK
<1>1. ASSUME UNCHANGED <<tasks, client>> PROVE Underway'
  BY <1>1 DEF Underway
<1>2. ASSUME NEW t \in Task, Proceed(t) PROVE Underway'
  <2>1. Busy(t) /\ tasks[t] \in Handler /\ UNCHANGED client
    BY <1>2, HandlerStep, BusyType
  <2>2. CASE Advances(t)
    BY <2>1, <2>2 DEF Advances, StepOver, Underway, HandlersOK
  <2>2a. CASE Simulates(t)
    BY <2>1, <2>2a DEF Simulates, StepOver, Underway, HandlersOK
  <2>3. CASE Waits(t)
    <3>1. PICK pc \in {"sending", "writing"} :
             /\ Await(t, pc) /\ tasks[t].next <= Last
             /\ Steps[tasks[t].next].type = IF pc = "sending" THEN "approval" ELSE "write"
             /\ pc # "sending" => client
      BY <2>3 DEF Waits
    <3>2. Here(t).state = "RUNNING" /\ Here(t).index = tasks[t].next
      BY <2>1, HereType
    <3>3. /\ tasks' = [tasks EXCEPT ![t] = tasks'[t]]
          /\ tasks'[t].pc = pc /\ tasks'[t].ctx = Here(t) /\ tasks'[t].next = tasks[t].next
      BY <2>1, <3>1 DEF Await, HandlersOK, Handler
    <3> QED
      BY <2>1, <3>1, <3>2, <3>3 DEF Underway, HandlersOK
  <2>4. CASE Suspends(t)
    BY <2>1, <2>4 DEF Suspends, Return, Underway, HandlersOK, Idle
  <2>5. CASE Ends(t)
    BY <2>1, <2>5 DEF Ends, Return, Underway, HandlersOK, Idle
  <2>6. CASE GivesUp(t)
    BY <2>1, <2>6 DEF GivesUp, StepRaises, Underway, HandlersOK, Idle
  <2>7. CASE Commit(t)
    BY <2>1, <2>7 DEF Commit, Underway, HandlersOK, Handler
  <2> QED
    BY <1>2, <2>2, <2>2a, <2>3, <2>4, <2>5, <2>6, <2>7, HandlerStep
<1>3. ASSUME NEW t \in Task, NEW r \in Run, Create(t, r) PROVE Underway'
  BY <1>3 DEF Create, Underway, HandlersOK
<1>4. ASSUME NEW t \in Task, NEW r \in Run, NEW d \in Decision, Resume(t, r, d) PROVE Underway'
  BY <1>4, ResumeStep DEF Resume, Underway, HandlersOK, Decision
<1>5. CASE Crash
  BY <1>5 DEF Crash, Underway, Idle
<1> QED
  BY <1>1, <1>2, <1>3, <1>4, <1>5 DEF Next, Tick, Refuse, memory, vars

(* A run is stored as SUSPENDED only by an approval step (lines 368-376). *)
LEMMA SuspendedThereNext == TypeInv /\ [Next]_vars => SuspendedThere'
<1> SUFFICES ASSUME TypeInv, [Next]_vars PROVE SuspendedThere'
  OBVIOUS
<1> USE DEF TypeInv, TypeOK
<1>1. ASSUME UNCHANGED saved PROVE SuspendedThere'
  BY <1>1 DEF SuspendedThere
<1>2. ASSUME NEW t \in Task, Proceed(t) PROVE SuspendedThere'
  <2>1. Busy(t) /\ tasks[t] \in Handler
    BY <1>2, HandlerStep, BusyType
  <2>2. CASE Advances(t) \/ Simulates(t)
    BY <2>1, <2>2 DEF Advances, Simulates, StepOver, SuspendedThere, RowsOK
  <2>3. CASE Waits(t) \/ GivesUp(t) \/ Commit(t)
    BY <1>1, <2>3 DEF Waits, Await, GivesUp, StepRaises, Commit
  <2>4. CASE Suspends(t)
    <3>1. tasks[t].next \in StepNo /\ Steps[tasks[t].next].type = "approval" /\ tasks[t].run \in Run
      BY <2>1, <2>4, StepsType DEF Suspends, Handler
    <3> QED
      BY <2>4, <3>1 DEF Suspends, Return, SuspendedThere, RowsOK, Context
  <2>5. CASE Ends(t)
    <3>1. PICK c \in Context, state \in Final : Return(t, c, state)
      BY <2>5 DEF Ends, Final
    <3>2. saved' = [saved EXCEPT ![tasks[t].run] = [c EXCEPT !.state = state]]
      BY <3>1 DEF Return
    <3> QED
      BY <2>1, <3>2 DEF SuspendedThere, RowsOK, Context, Final
  <2> QED
    BY <1>2, <2>2, <2>3, <2>4, <2>5, HandlerStep
<1>3. ASSUME NEW t \in Task, NEW r \in Run, Create(t, r) PROVE SuspendedThere'
  BY <1>3 DEF Create, SuspendedThere, RowsOK
<1> QED
  BY <1>1, <1>2, <1>3 DEF Next, Tick, Refuse, Resume, Crash, memory, vars

(* A new database and an idle service. *)
LEMMA InitType == Init => TypeInv
<1> SUFFICES ASSUME Init PROVE TypeInv
  OBVIOUS
<1> USE DEF Init, TypeInv
<1>1. RowsOK /\ HandlersOK /\ LedgerOK
  BY DEF RowsOK, HandlersOK, LedgerOK
<1>2. HistoryOK
  BY SOPAssumption DEF HistoryOK, Time
<1>3. Underway /\ SuspendedThere
  BY DEF Underway, SuspendedThere, Idle, NoRow
<1> QED
  BY <1>1, <1>2, <1>3 DEF TypeOK

(* Rows, handlers, ledger and history stay well typed, and what the handlers *)
(* and rows say of the step they are at stays true.                          *)
THEOREM TypeInvCorrect == Spec => []TypeInv
<1>1. TypeInv /\ [Next]_vars => TypeInv'
  BY NextType, UnderwayNext, SuspendedThereNext DEF TypeInv
<1> QED
  BY InitType, <1>1, PTL DEF Spec

(* The type invariant the runs check. *)
THEOREM TypeCorrect == Spec => []TypeOK
<1>1. TypeInv => TypeOK
  BY DEF TypeInv
<1> QED
  BY TypeInvCorrect, <1>1, PTL

-----------------------------------------------------------------------------
(* Nothing is written without its approvals *)

\* Every approval step of run r before step k was switched off or approved in A.
ApprovedIn(A, r, k) ==
    \A a \in ApprovalSteps : (a < k /\ <<r, a>> \in Triggered) =>
        \E c \in A : c.run = r /\ c.step = a /\ c.decision = "APPROVED"

(* WrittenOnlyIfApproved says nothing of what is still to be written: a      *)
(* handler must have its approvals when it reaches a step, and a suspended   *)
(* run those before the step it waits in.                                    *)
ApprovedInv ==
    /\ \A t \in Task : Busy(t) => ApprovedIn(Accepted, tasks[t].run, tasks[t].next)
    /\ \A r \in Run : saved[r].state = "SUSPENDED" => ApprovedIn(Accepted, r, saved[r].index)
    /\ WrittenOnlyIfApproved

\* Click c is decision d on run r, stored in step k.
Decides(c, r, k, d) == c.run = r /\ c.step = k /\ c.decision = d

(* One more decision adds it to the accepted ones if it was accepted. *)
LEMMA Appended ==
    ASSUME TypeOK, NEW click, clicks' = Append(clicks, click)
    PROVE  Accepted' = Accepted \cup {k \in {click} : k.accepted}
<1>1. clicks \in Seq(Click)
  BY DEF TypeOK, HistoryOK
<1>2. /\ DOMAIN clicks = 1..Len(clicks) /\ Len(clicks) \in Nat
      /\ DOMAIN clicks' = 1..(Len(clicks) + 1)
      /\ \A i \in 1..Len(clicks) : clicks'[i] = clicks[i]
      /\ clicks'[Len(clicks) + 1] = click
  BY <1>1
<1> QED
  BY <1>2 DEF Accepted

(* A decision that was taken is the only one added (lines 230-237). *)
LEMMA Taken ==
    ASSUME TypeOK, NEW r \in Run, NEW d, Heard(r, d, TRUE)
    PROVE  /\ Accepted \subseteq Accepted'
           /\ \E c \in Accepted' : Decides(c, r, saved[r].index, d)
           /\ \A c \in Accepted' \ Accepted : Decides(c, r, saved[r].index, d)
<1> DEFINE click == [run |-> r, step |-> saved[r].index, state |-> saved[r].state,
                     decision |-> d, accepted |-> TRUE,
                     alone |-> ~Handled(r)]
<1>1. clicks' = Append(clicks, click)
  BY DEF Heard
<1>2. click.accepted /\ Decides(click, r, saved[r].index, d)
  BY DEF Decides
<1> HIDE DEF click
<1>3. Accepted' = Accepted \cup {k \in {click} : k.accepted}
  BY <1>1, Appended
<1> QED
  BY <1>2, <1>3

(* A refused one adds nothing (line 214). *)
LEMMA NotTaken ==
    ASSUME TypeOK, NEW r \in Run, NEW d, Heard(r, d, FALSE)
    PROVE  Accepted' = Accepted
<1> DEFINE click == [run |-> r, step |-> saved[r].index, state |-> saved[r].state,
                     decision |-> d, accepted |-> FALSE,
                     alone |-> ~Handled(r)]
<1>1. clicks' = Append(clicks, click)
  BY DEF Heard
<1>2. ~click.accepted
  OBVIOUS
<1> HIDE DEF click
<1>3. Accepted' = Accepted \cup {k \in {click} : k.accepted}
  BY <1>1, Appended
<1> QED
  BY <1>2, <1>3

(* What is approved stays approved. *)
LEMMA ApprovedStays ==
    ASSUME NEW A, NEW B, A \subseteq B, NEW r, NEW k, ApprovedIn(A, r, k)
    PROVE  ApprovedIn(B, r, k)
  BY DEF ApprovedIn

(* At the start nothing is reached, suspended or written. *)
LEMMA ApprovedInit == Init => ApprovedInv
<1> SUFFICES ASSUME Init PROVE ApprovedInv
  OBVIOUS
<1>1. \A t \in Task : ~Busy(t)
  BY DEF Init, Busy, Idle
<1>2. \A r \in Run : saved[r].state # "SUSPENDED"
  BY DEF Init, NoRow
<1>3. \A r \in Run, s \in WriteSteps : ~(Done(r, s) > 0)
  BY DEF Init, WriteSteps
<1> QED
  BY <1>1, <1>2, <1>3 DEF ApprovedInv, WrittenOnlyIfApproved

(* Approvals are never forgotten, and no step is passed without them. *)
LEMMA ApprovedNext == TypeInv /\ ApprovedInv /\ [Next]_vars => ApprovedInv'
<1> SUFFICES ASSUME TypeInv, ApprovedInv, [Next]_vars PROVE ApprovedInv'
  OBVIOUS
<1> USE DEF TypeInv, TypeOK
<1> DEFINE Handlers == \A t \in Task : Busy(t) => ApprovedIn(Accepted, tasks[t].run, tasks[t].next)
           Rows == \A r \in Run : saved[r].state = "SUSPENDED" => ApprovedIn(Accepted, r, saved[r].index)
<1>0. Handlers /\ Rows /\ WrittenOnlyIfApproved
  BY DEF ApprovedInv
\* What each group needs of a step, given that decisions are only added.
<1>1. ASSUME Accepted \subseteq Accepted',
             \A u \in Task : Busy(u)' => \/ tasks'[u] = tasks[u]
                                         \/ ApprovedIn(Accepted', tasks'[u].run, tasks'[u].next)
      PROVE  Handlers'
  <2>1. \A r, k : ApprovedIn(Accepted, r, k) => ApprovedIn(Accepted', r, k)
    BY <1>1, ApprovedStays
  <2> QED
    BY <1>0, <1>1, <2>1 DEF Busy
<1>2. ASSUME Accepted \subseteq Accepted',
             \A r \in Run : saved'[r].state = "SUSPENDED" =>
                              saved'[r] = saved[r] \/ ApprovedIn(Accepted', r, saved'[r].index)
      PROVE  Rows'
  <2>1. \A r, k : ApprovedIn(Accepted, r, k) => ApprovedIn(Accepted', r, k)
    BY <1>2, ApprovedStays
  <2> QED
    BY <1>0, <1>2, <2>1
<1>3. ASSUME Accepted \subseteq Accepted',
             \A r \in Run, s \in WriteSteps : Done(r, s)' > 0 =>
                              Done(r, s) > 0 \/ ApprovedIn(Accepted, r, s)
      PROVE  WrittenOnlyIfApproved'
  BY <1>0, <1>3 DEF ApprovedIn, WrittenOnlyIfApproved
<1> HIDE DEF Handlers, Rows
<1>4. ASSUME UNCHANGED <<tasks, saved, effects>>, Accepted \subseteq Accepted' PROVE ApprovedInv'
  BY <1>1, <1>2, <1>3, <1>4 DEF ApprovedInv, Handlers, Rows
<1>5. ASSUME NEW t \in Task, Proceed(t) PROVE ApprovedInv'
  <2>1. Busy(t) /\ tasks[t] \in Handler /\ UNCHANGED clicks
    BY <1>5, HandlerStep, BusyType
  <2>2. Accepted' = Accepted
    BY <2>1 DEF Accepted
  <2>3. ApprovedIn(Accepted, tasks[t].run, tasks[t].next) /\ tasks[t].next \in Nat
    BY <1>0, <2>1 DEF Handlers, Handler
  <2>4. CASE Advances(t)
    <3>1. tasks[t].next \in ApprovalSteps => <<tasks[t].run, tasks[t].next>> \notin Triggered
      BY <2>1, <2>4 DEF Advances, Underway, ApprovalSteps
    <3>2. \A a \in ApprovalSteps : a \in Nat
      BY StepsType DEF ApprovalSteps
    <3>3. ApprovedIn(Accepted, tasks[t].run, tasks[t].next + 1)
      BY <2>3, <3>1, <3>2 DEF ApprovedIn
    <3>4. /\ tasks'[t].run = tasks[t].run /\ tasks'[t].next = tasks[t].next + 1
          /\ \A u \in Task \ {t} : tasks'[u] = tasks[u]
      BY <2>4 DEF Advances, StepOver, HandlersOK
    <3>5. Handlers'
      BY <1>1, <2>2, <3>3, <3>4
    <3>6. Rows'
      BY <1>2, <2>1, <2>2, <2>4 DEF Advances, StepOver, RowsOK
    <3> QED
      BY <1>3, <2>2, <2>4, <3>5, <3>6 DEF ApprovedInv, Advances, Handlers, Rows
  <2>4a. CASE Simulates(t)
    <3>1. tasks[t].next \notin ApprovalSteps
      BY <2>4a DEF Simulates, ApprovalSteps
    <3>2. \A a \in ApprovalSteps : a \in Nat
      BY StepsType DEF ApprovalSteps
    <3>3. ApprovedIn(Accepted, tasks[t].run, tasks[t].next + 1)
      BY <2>3, <3>1, <3>2 DEF ApprovedIn
    <3>4. /\ tasks'[t].run = tasks[t].run /\ tasks'[t].next = tasks[t].next + 1
          /\ \A u \in Task \ {t} : tasks'[u] = tasks[u]
      BY <2>4a DEF Simulates, StepOver, HandlersOK
    <3>5. Handlers'
      BY <1>1, <2>2, <3>3, <3>4
    <3>6. Rows'
      BY <1>2, <2>1, <2>2, <2>4a DEF Simulates, StepOver, RowsOK
    <3>7. \A r \in Run, s \in WriteSteps :
            Done(r, s)' = Done(r, s) \/ (r = tasks[t].run /\ s = tasks[t].next)
      BY <2>1, <2>4a DEF Simulates, HistoryOK, WriteSteps, Handler
    <3> QED
      BY <1>3, <2>2, <2>3, <3>5, <3>6, <3>7 DEF ApprovedInv, Handlers, Rows
  <2>5. CASE Suspends(t)
    <3>1. /\ tasks' = [tasks EXCEPT ![t] = Idle] /\ UNCHANGED effects
          /\ \E c \in Context : c.index = tasks[t].next /\
               saved' = [saved EXCEPT ![tasks[t].run] = [c EXCEPT !.state = "SUSPENDED"]]
      BY <2>5 DEF Suspends, Return
    <3>2. Handlers'
      BY <1>1, <2>2, <3>1 DEF HandlersOK, Busy, Idle
    <3>3. Rows'
      BY <1>2, <2>1, <2>2, <2>3, <3>1 DEF RowsOK, Context
    <3> QED
      BY <1>3, <2>2, <3>1, <3>2, <3>3 DEF ApprovedInv, Handlers, Rows
  <2>6. CASE Ends(t)
    <3>1. PICK c \in Context, state \in Final : Return(t, c, state) /\ UNCHANGED effects
      BY <2>6 DEF Ends, Final
    <3>2. Handlers'
      BY <1>1, <2>2, <3>1 DEF Return, HandlersOK, Busy, Idle
    <3>3. Rows'
      BY <1>2, <2>1, <2>2, <3>1 DEF Return, RowsOK, Context, Final
    <3> QED
      BY <1>3, <2>2, <3>1, <3>2, <3>3 DEF ApprovedInv, Handlers, Rows
  <2>7. CASE Waits(t) \/ GivesUp(t)
    <3>1. /\ \A u \in Task : tasks'[u] = tasks[u] \/ ~Busy(u)' \/
               (u = t /\ tasks'[u].run = tasks[u].run /\ tasks'[u].next = tasks[u].next)
          /\ UNCHANGED <<saved, effects>>
      <4>1. CASE Waits(t)
        <5>1. PICK pc \in {"sending", "writing"} : Await(t, pc) /\ UNCHANGED effects
          BY <4>1 DEF Waits
        <5> QED
          BY <2>1, <5>1 DEF Await, HandlersOK, Handler
      <4>2. CASE GivesUp(t)
        BY <4>2 DEF GivesUp, StepRaises, HandlersOK, Busy, Idle
      <4> QED
        BY <2>7, <4>1, <4>2
    <3>2. Handlers'
      BY <1>1, <2>2, <2>3, <3>1
    <3> QED
      BY <1>2, <1>3, <2>2, <3>1, <3>2 DEF ApprovedInv, Handlers, Rows
  <2>8. CASE Commit(t)
    <3>1. /\ \A u \in Task : tasks'[u] = tasks[u] \/
               (u = t /\ tasks'[u].run = tasks[u].run /\ tasks'[u].next = tasks[u].next)
          /\ written' = [written EXCEPT ![tasks[t].run][tasks[t].next] = @ + 1]
          /\ UNCHANGED <<saved, simulated>>
      BY <2>1, <2>8 DEF Commit, HandlersOK, Handler
    <3>2. Handlers'
      BY <1>1, <2>2, <2>3, <3>1
    <3>3. \A r \in Run, s \in WriteSteps :
            Done(r, s)' = Done(r, s) \/ (r = tasks[t].run /\ s = tasks[t].next)
      BY <2>1, <3>1 DEF HistoryOK, WriteSteps, Handler
    <3> QED
      BY <1>2, <1>3, <2>2, <2>3, <3>1, <3>2, <3>3 DEF ApprovedInv, Handlers, Rows
  <2> QED
    BY <1>5, <2>4, <2>4a, <2>5, <2>6, <2>7, <2>8, HandlerStep
<1>6. ASSUME NEW t \in Task, NEW r \in Run, Create(t, r) PROVE ApprovedInv'
  <2>1. /\ \A u \in Task \ {t} : tasks'[u] = tasks[u]
        /\ tasks'[t].run = r /\ tasks'[t].next = 1
        /\ \A q \in Run : saved'[q] = saved[q] \/ saved'[q].state = "PENDING"
        /\ UNCHANGED <<clicks, effects>>
    BY <1>6 DEF Create, HandlersOK, RowsOK
  <2>2. Accepted' = Accepted
    BY <2>1 DEF Accepted
  <2>3. ApprovedIn(Accepted, r, 1)
    BY StepsType DEF ApprovedIn, ApprovalSteps
  <2>4. Handlers'
    BY <1>1, <2>1, <2>2, <2>3
  <2> QED
    BY <1>2, <1>3, <2>1, <2>2, <2>4 DEF ApprovedInv, Handlers, Rows
<1>7. ASSUME NEW r \in Run, NEW d \in Decision, Refuse(r, d) PROVE ApprovedInv'
  BY <1>4, <1>7, NotTaken DEF Refuse, memory
<1>8. ASSUME NEW t \in Task, NEW r \in Run, NEW d \in Decision, Resume(t, r, d) PROVE ApprovedInv'
  <2>1. Heard(r, d, TRUE) /\ saved[r].state = "SUSPENDED" /\ UNCHANGED <<saved, effects>>
    BY <1>8 DEF Resume, Resumable
  <2>2. Accepted \subseteq Accepted'
    BY <2>1, Taken
  <2>3. \E c \in Accepted' : Decides(c, r, saved[r].index, d)
    BY <2>1, Taken
  <2>4. ApprovedIn(Accepted, r, saved[r].index) /\ saved[r].index \in StepNo
    BY <1>0, <2>1 DEF Rows, SuspendedThere
  <2>5. ApprovedIn(Accepted', r, tasks'[t].next)
    <3>1. \A a \in ApprovalSteps \cup StepNo : a \in Nat
      BY StepsType DEF ApprovalSteps
    <3>2. CASE d = "REJECTED"
      BY <1>8, <2>2, <2>4, <3>2, ResumeStep DEF ApprovedIn
    <3>3. CASE d = "APPROVED"
      <4>1. tasks'[t].next = saved[r].index + 1
        BY <1>8, <3>3, ResumeStep
      <4> QED
        BY <2>2, <2>3, <2>4, <3>1, <3>3, <4>1 DEF ApprovedIn, Decides
    <3> QED
      BY <3>2, <3>3 DEF Decision
  <2>6. tasks'[t].run = r /\ \A u \in Task \ {t} : tasks'[u] = tasks[u]
    BY <1>8, ResumeStep DEF HandlersOK
  <2>7. Handlers'
    BY <1>1, <2>2, <2>5, <2>6
  <2> QED
    BY <1>2, <1>3, <2>1, <2>2, <2>7 DEF ApprovedInv, Handlers, Rows
<1>9. CASE Crash
  <2>1. Accepted' = Accepted /\ UNCHANGED saved /\ \A t \in Task : ~Busy(t)'
    BY <1>9 DEF Crash, Accepted, Busy, Idle
  <2>2. \A r \in Run, s \in WriteSteps : Done(r, s)' > 0 =>
          Done(r, s) > 0 \/ ApprovedIn(Accepted, r, s)
    <3>1. ASSUME NEW t \in Task, tasks[t].pc = "writing"
          PROVE  ApprovedIn(Accepted, tasks[t].run, tasks[t].next)
      BY <1>0, <3>1 DEF Busy, Handlers
    <3>2. UNCHANGED simulated
      BY <1>9 DEF Crash
    <3> QED
      BY <1>9, <3>1, <3>2, CrashCounts DEF WriteSteps
  <2> QED
    BY <1>1, <1>2, <1>3, <2>1, <2>2 DEF ApprovedInv, Handlers, Rows
<1> QED
  <2>1. CASE UNCHANGED vars
    BY <1>4, <2>1 DEF vars, memory, Accepted
  <2>2. CASE Tick
    BY <1>4, <2>2 DEF Tick, memory, Accepted
  <2> QED
    BY <1>5, <1>6, <1>7, <1>8, <1>9, <2>1, <2>2 DEF Next

(* For every definition, with any number of approval steps, handlers,        *)
(* decisions and crashes, with or without a feedback database and a client:  *)
(* a write is committed, or reported, only after every approval step before  *)
(* it was switched off by its condition or approved (lines 250-255,          *)
(* 334-376).                                                                 *)
THEOREM ApprovalCorrect == Spec => []WrittenOnlyIfApproved
<1>1. ApprovedInv => WrittenOnlyIfApproved
  BY DEF ApprovedInv
<1> QED
  BY TypeInvCorrect, ApprovedInit, ApprovedNext, <1>1, PTL DEF Spec

-----------------------------------------------------------------------------
(* With a feedback database, one pass through the steps                      *)

Works(t, r) == Busy(t) /\ tasks[t].run = r

\* The writes of r before step k were made once, or reported once, the others not.
Progress(r, k) == \A s \in WriteSteps : Done(r, s) = IF s < k THEN 1 ELSE 0

\* The first step of its run that handler t has not carried out.
Ahead(t) == IF tasks[t].pc = "committed" THEN tasks[t].next + 1 ELSE tasks[t].next

\* A handler is alone with its run; the run has not ended, and if the row still
\* says SUSPENDED its decision is stored.  It has made exactly the writes behind it.
HandlerTrue(r) ==
    \A t \in Task : Works(t, r) =>
        /\ \A u \in Task : Works(u, r) => u = t
        /\ saved[r] # NoRow /\ saved[r].state \notin Final
        /\ saved[r].state = "SUSPENDED" => feedback[r] # "none"
        /\ (feedback[r] = "REJECTED") <=> (tasks[t].pc = "rejecting")
        /\ Progress(r, Ahead(t))

RowTrue(r) ==
    /\ saved[r] = NoRow => feedback[r] = "none" /\ Progress(r, 1)
    /\ (saved[r].state = "SUSPENDED" /\ feedback[r] = "none") => Progress(r, saved[r].index)
    /\ saved[r].state = "COMPLETED" => Progress(r, Last + 1)
    /\ feedback[r] = "REJECTED" => saved[r].state \in {"SUSPENDED", "REJECTED"}
    /\ saved[r].state = "REJECTED" => feedback[r] = "REJECTED"

\* The stored decision is the one that was taken; after a rejection nothing
\* beyond the step it was given for has been written.
DecisionTrue(r) ==
    \A c \in Accepted : c.run = r =>
        /\ feedback[r] = c.decision
        /\ c.decision = "REJECTED" => Progress(r, c.step)

RunInv == \A r \in Run : HandlerTrue(r) /\ RowTrue(r) /\ DecisionTrue(r)

\* A step that does not concern run r.
Elsewhere(r) ==
    /\ saved'[r] = saved[r] /\ feedback'[r] = feedback[r]
    /\ written'[r] = written[r] /\ simulated'[r] = simulated[r]
    /\ \A c \in Accepted' : c.run = r => c \in Accepted
    /\ \A t \in Task : Works(t, r)' => tasks'[t] = tasks[t]

(* Such a step changes nothing that is said of run r. *)
LEMMA ElsewhereKeeps ==
    ASSUME NEW r, HandlerTrue(r), RowTrue(r), DecisionTrue(r), Elsewhere(r)
    PROVE  HandlerTrue(r)' /\ RowTrue(r)' /\ DecisionTrue(r)'
<1>1. \A k : Progress(r, k) <=> Progress(r, k)'
  BY DEF Elsewhere, Progress
<1>2. \A t \in Task : Works(t, r)' => Works(t, r) /\ Ahead(t)' = Ahead(t) /\ tasks'[t] = tasks[t]
  BY DEF Elsewhere, Works, Busy, Ahead
<1>3. HandlerTrue(r)'
  BY <1>1, <1>2 DEF HandlerTrue, Elsewhere, Progress
<1>4. RowTrue(r)'
  BY <1>1 DEF RowTrue, Elsewhere, Progress
<1>5. DecisionTrue(r)'
  BY <1>1 DEF DecisionTrue, Elsewhere, Progress
<1> QED
  BY <1>3, <1>4, <1>5

(* At the start there are no rows, no decisions and no writes. *)
LEMMA RunInit == Init => RunInv
<1> SUFFICES ASSUME Init, NEW r \in Run PROVE HandlerTrue(r) /\ RowTrue(r) /\ DecisionTrue(r)
  BY DEF RunInv
<1>1. HandlerTrue(r)
  BY DEF Init, HandlerTrue, Works, Busy, Idle
<1>2. RowTrue(r)
  <2>1. \A s \in WriteSteps : Done(r, s) = 0 /\ ~(s < 1)
    BY StepsType DEF Init, WriteSteps
  <2> QED
    BY <2>1 DEF Init, RowTrue, Progress, NoRow
<1>3. DecisionTrue(r)
  BY DEF Init, DecisionTrue, Accepted
<1> QED
  BY <1>1, <1>2, <1>3

(* A handler's step concerns its own run only. *)
LEMMA ProceedElsewhere ==
    ASSUME TypeInv, NEW t \in Task, Proceed(t)
    PROVE  /\ \A r \in Run \ {tasks[t].run} : Elsewhere(r)
           /\ \A u \in Task \ {t} : tasks'[u] = tasks[u]
           /\ Busy(t)' => tasks'[t].run = tasks[t].run
<1> USE DEF TypeInv, TypeOK
<1>1. Busy(t) /\ tasks[t] \in Handler /\ UNCHANGED <<feedback, clicks>>
  BY HandlerStep, BusyType
<1>2. /\ \A u \in Task \ {t} : tasks'[u] = tasks[u]
      /\ Busy(t)' => tasks'[t].run = tasks[t].run
  <2>1. CASE Advances(t) \/ Simulates(t)
    BY <2>1 DEF Advances, Simulates, StepOver, HandlersOK
  <2>2. CASE Waits(t)
    BY <1>1, <2>2 DEF Waits, Await, HandlersOK, Handler
  <2>3. CASE Suspends(t) \/ Ends(t)
    <3>1. tasks' = [tasks EXCEPT ![t] = Idle]
      BY <2>3 DEF Suspends, Ends, Return
    <3> QED
      BY <3>1 DEF HandlersOK, Busy, Idle
  <2>4. CASE GivesUp(t)
    BY <2>4 DEF GivesUp, StepRaises, HandlersOK, Busy, Idle
  <2>5. CASE Commit(t)
    BY <1>1, <2>5 DEF Commit, HandlersOK, Handler
  <2> QED
    BY <2>1, <2>2, <2>3, <2>4, <2>5, HandlerStep
<1>3. ASSUME NEW r \in Run \ {tasks[t].run}
      PROVE  saved'[r] = saved[r] /\ written'[r] = written[r] /\ simulated'[r] = simulated[r]
  <2>1. CASE Advances(t)
    BY <2>1 DEF Advances, StepOver, RowsOK
  <2>1a. CASE Simulates(t)
    BY <2>1a DEF Simulates, StepOver, RowsOK, HistoryOK
  <2>2. CASE Suspends(t) \/ Ends(t)
    BY <2>2 DEF Suspends, Ends, Return, RowsOK
  <2>3. CASE Waits(t) \/ GivesUp(t)
    BY <2>3 DEF Waits, Await, GivesUp, StepRaises
  <2>4. CASE Commit(t)
    BY <1>1, <2>4 DEF Commit, HistoryOK
  <2> QED
    BY <2>1, <2>1a, <2>2, <2>3, <2>4, HandlerStep
<1> QED
  BY <1>1, <1>2, <1>3 DEF Elsewhere, Accepted, Works

(* What a handler's step does to its own run. *)
LEMMA ProceedOwn ==
    ASSUME TypeInv, RunInv, NEW t \in Task, Proceed(t), NEW r, r = tasks[t].run
    PROVE  HandlerTrue(r)' /\ RowTrue(r)' /\ DecisionTrue(r)'
<1> USE DEF TypeInv, TypeOK
<1>1. /\ Busy(t) /\ tasks[t] \in Handler /\ r \in Run /\ tasks[t].next \in 1..(Last + 1)
      /\ UNCHANGED feedback /\ Accepted' = Accepted
  BY HandlerStep, BusyType DEF Handler, Accepted
<1>2. /\ \A u \in Task : Works(u, r) => u = t
      /\ saved[r] # NoRow /\ saved[r].state \notin Final
      /\ saved[r].state = "SUSPENDED" => feedback[r] # "none"
      /\ (feedback[r] = "REJECTED") <=> (tasks[t].pc = "rejecting")
      /\ Progress(r, Ahead(t))
  BY <1>1 DEF RunInv, HandlerTrue, Works
<1>3. RowTrue(r) /\ DecisionTrue(r)
  BY <1>1 DEF RunInv
<1>4. \A u \in Task : Works(u, r)' => u = t
  BY <1>2, ProceedElsewhere DEF Works, Busy
<1>5. \A s \in WriteSteps : s \in 1..Last /\ Steps[s].type = "write"
  BY StepsType DEF WriteSteps
<1>6. ASSUME UNCHANGED effects PROVE /\ \A k : Progress(r, k) => Progress(r, k)'
                                     /\ DecisionTrue(r)'
  <2>1. \A k : Progress(r, k) <=> Progress(r, k)'
    BY <1>6 DEF Progress
  <2> QED
    BY <1>1, <1>3, <1>6, <2>1 DEF DecisionTrue, Progress
<1>7. CASE Advances(t)
  <2>1. /\ tasks'[t].pc = "run" /\ tasks'[t].next = tasks[t].next + 1
        /\ saved'[r].state = "RUNNING" /\ saved'[r] # NoRow
        /\ UNCHANGED effects
    BY <1>1, <1>7 DEF Advances, StepOver, HandlersOK, RowsOK, NoRow
  <2>2. Progress(r, tasks[t].next + 1)
    BY <1>1, <1>2, <1>5, <1>7 DEF Advances, Ahead, Progress
  <2>3. tasks[t].pc # "rejecting"
    BY <1>7 DEF Advances
  <2>4. HandlerTrue(r)'
    BY <1>1, <1>2, <1>4, <2>1, <2>2, <2>3 DEF HandlerTrue, Progress, Ahead, Final
  <2>5. RowTrue(r)'
    BY <1>1, <1>2, <2>1, <2>3 DEF RowTrue
  <2> QED
    BY <1>6, <2>1, <2>4, <2>5
<1>7a. CASE Simulates(t)
  <2>1. /\ tasks'[t].pc = "run" /\ tasks'[t].next = tasks[t].next + 1
        /\ tasks[t].pc = "run"
        /\ saved'[r].state = "RUNNING" /\ saved'[r] # NoRow
    BY <1>1, <1>7a DEF Simulates, StepOver, HandlersOK, RowsOK, NoRow
  <2>2. \A s \in WriteSteps : Done(r, s)' = IF s = tasks[t].next THEN Done(r, s) + 1 ELSE Done(r, s)
    BY <1>1, <1>7a DEF Simulates, HistoryOK, WriteSteps
  <2>3. Progress(r, tasks[t].next)'
    <3>1. \A s \in WriteSteps : Done(r, s) = IF s < tasks[t].next THEN 1 ELSE 0
      BY <1>2, <2>1 DEF Progress, Ahead
    <3> HIDE DEF Done
    <3> QED
      BY <1>1, <1>5, <2>1, <2>2, <3>1 DEF Progress
  <2>4. HandlerTrue(r)'
    BY <1>1, <1>2, <1>4, <2>1, <2>3 DEF HandlerTrue, Progress, Ahead, Final
  <2>5. RowTrue(r)'
    BY <1>1, <1>2, <2>1 DEF RowTrue
  <2>6. DecisionTrue(r)'
    BY <1>1, <1>2, <1>3, <2>1 DEF DecisionTrue
  <2> QED
    BY <2>4, <2>5, <2>6
<1>8. CASE Waits(t)
  <2>1. /\ tasks'[t].pc \in {"sending", "writing"} /\ tasks'[t].next = tasks[t].next
        /\ tasks[t].pc = "run" /\ UNCHANGED <<saved, effects>>
    <3>1. PICK pc \in {"sending", "writing"} : Await(t, pc) /\ UNCHANGED effects
      BY <1>8 DEF Waits
    <3> QED
      BY <1>1, <1>8, <3>1 DEF Waits, Await, HandlersOK, Handler
  <2>2. HandlerTrue(r)'
    BY <1>1, <1>2, <1>4, <2>1 DEF HandlerTrue, Progress, Ahead
  <2>3. RowTrue(r)'
    BY <1>1, <1>3, <2>1 DEF RowTrue, Progress
  <2> QED
    BY <1>6, <2>1, <2>2, <2>3
<1>9. CASE Suspends(t)
  <2>1. /\ tasks'[t] = Idle /\ UNCHANGED effects
        /\ tasks[t].pc \in {"run", "sending"}
        /\ saved'[r].state = "SUSPENDED" /\ saved'[r].index = tasks[t].next
        /\ saved'[r] # NoRow
    BY <1>1, <1>9 DEF Suspends, Return, HandlersOK, RowsOK, Context, NoRow
  <2>2. HandlerTrue(r)'
    BY <1>4, <2>1 DEF HandlerTrue, Works, Busy, Idle
  <2>3. RowTrue(r)'
    BY <1>1, <1>2, <2>1 DEF RowTrue, Progress, Ahead
  <2> QED
    BY <1>6, <2>1, <2>2, <2>3
<1>10. CASE Ends(t)
  <2>1. PICK c \in Context, state \in Final :
          /\ Return(t, c, state) /\ UNCHANGED effects
          /\ state = "REJECTED" <=> tasks[t].pc = "rejecting"
          /\ state = "COMPLETED" => tasks[t].pc = "run" /\ tasks[t].next > Last
    BY <1>10 DEF Ends, Final
  <2>2. tasks'[t] = Idle /\ saved'[r].state = state /\ saved'[r] # NoRow
    BY <1>1, <2>1 DEF Return, HandlersOK, RowsOK, Context, NoRow
  <2>3. HandlerTrue(r)'
    BY <1>4, <2>2 DEF HandlerTrue, Works, Busy, Idle
  <2>4. state = "COMPLETED" => Progress(r, Last + 1)
    <3>1. CASE state = "COMPLETED"
      <4>1. tasks[t].next = Last + 1 /\ Ahead(t) = tasks[t].next
        BY <1>1, <2>1, <3>1, StepsType DEF Ahead
      <4> QED
        BY <1>2, <4>1
    <3> QED
      BY <3>1
  <2>5. RowTrue(r)'
    BY <1>1, <1>2, <2>1, <2>2, <2>4 DEF RowTrue, Progress, Final, NoRow
  <2> QED
    BY <1>6, <2>1, <2>3, <2>5
<1>11. CASE GivesUp(t)
  <2>1. tasks'[t] = Idle /\ UNCHANGED <<saved, effects>>
    BY <1>11 DEF GivesUp, StepRaises, HandlersOK
  <2>2. HandlerTrue(r)'
    BY <1>4, <2>1 DEF HandlerTrue, Works, Busy, Idle
  <2>3. RowTrue(r)'
    BY <1>1, <1>3, <2>1 DEF RowTrue, Progress
  <2> QED
    BY <1>6, <2>1, <2>2, <2>3
<1>12. CASE Commit(t)
  <2>1. /\ tasks'[t].pc = "committed" /\ tasks'[t].next = tasks[t].next
        /\ tasks[t].pc = "writing" /\ UNCHANGED saved
    BY <1>1, <1>12 DEF Commit, HandlersOK, Handler
  <2>2. \A s \in WriteSteps : Done(r, s)' = IF s = tasks[t].next THEN Done(r, s) + 1 ELSE Done(r, s)
    BY <1>1, <1>12 DEF Commit, HistoryOK, WriteSteps
  <2>3. Progress(r, tasks[t].next + 1)'
    <3>1. \A s \in WriteSteps : Done(r, s) = IF s < tasks[t].next THEN 1 ELSE 0
      BY <1>2, <2>1 DEF Progress, Ahead
    <3> HIDE DEF Done
    <3> QED
      BY <1>1, <1>5, <2>1, <2>2, <3>1 DEF Progress
  <2>4. HandlerTrue(r)'
    BY <1>1, <1>2, <1>4, <2>1, <2>3 DEF HandlerTrue, Progress, Ahead
  <2>5. RowTrue(r)'
    BY <1>1, <1>2, <1>3, <2>1 DEF RowTrue, Final
  <2>6. DecisionTrue(r)'
    BY <1>1, <1>2, <1>3, <2>1 DEF DecisionTrue
  <2> QED
    BY <2>4, <2>5, <2>6
<1> QED
  BY <1>7, <1>7a, <1>8, <1>9, <1>10, <1>11, <1>12, HandlerStep

(* A new run has no row, so no handler and no writes. *)
LEMMA CreateRun ==
    ASSUME TypeInv, RunInv, NEW t \in Task, NEW q \in Run, Create(t, q)
    PROVE  RunInv'
<1> USE DEF TypeInv, TypeOK
<1>1. /\ ~Busy(t) /\ saved[q] = NoRow
      /\ \A u \in Task \ {t} : tasks'[u] = tasks[u]
      /\ tasks'[t].pc = "run" /\ tasks'[t].run = q /\ tasks'[t].next = 1
      /\ \A r \in Run \ {q} : saved'[r] = saved[r]
      /\ saved'[q].state = "PENDING" /\ saved'[q] # NoRow
      /\ UNCHANGED <<feedback, effects, clicks>>
  BY DEF Create, HandlersOK, RowsOK, NoRow
<1>2. Accepted' = Accepted
  BY <1>1 DEF Accepted
<1>3. ASSUME NEW r \in Run \ {q} PROVE HandlerTrue(r)' /\ RowTrue(r)' /\ DecisionTrue(r)'
  <2>1. Elsewhere(r)
    BY <1>1, <1>2 DEF Elsewhere, Works
  <2> QED
    BY <2>1, ElsewhereKeeps DEF RunInv
<1>4. HandlerTrue(q) /\ RowTrue(q) /\ DecisionTrue(q)
  BY DEF RunInv
<1>5. \A u \in Task : Works(u, q)' => u = t
  BY <1>1, <1>4 DEF HandlerTrue, Works, Busy
<1>6. feedback[q] = "none" /\ Progress(q, 1)
  BY <1>1, <1>4 DEF RowTrue
<1>7. HandlerTrue(q)'
  BY <1>1, <1>5, <1>6 DEF HandlerTrue, Progress, Ahead, Final
<1>8. RowTrue(q)'
  BY <1>1, <1>6 DEF RowTrue
<1>9. DecisionTrue(q)'
  BY <1>1, <1>2, <1>4 DEF DecisionTrue, Progress
<1> QED
  BY <1>3, <1>7, <1>8, <1>9 DEF RunInv

(* A decision is taken only for a run that nobody works on, because the row  *)
(* in agent_feedback is there before anybody else can move (lines 214-237).  *)
LEMMA ResumeRun ==
    ASSUME HasFeedback, TypeInv, RunInv,
           NEW t \in Task, NEW q \in Run, NEW d \in Decision, Resume(t, q, d)
    PROVE  RunInv'
<1> USE DEF TypeInv, TypeOK
<1>1. /\ ~Busy(t) /\ saved[q].state = "SUSPENDED" /\ saved[q] # NoRow /\ feedback[q] = "none"
      /\ feedback' = [feedback EXCEPT ![q] = d] /\ UNCHANGED <<saved, effects>>
      /\ Heard(q, d, TRUE)
  BY DEF Resume, Resumable
<1>2. /\ \A u \in Task \ {t} : tasks'[u] = tasks[u]
      /\ tasks'[t].run = q
      /\ d = "REJECTED" => tasks'[t].pc = "rejecting"
      /\ d = "APPROVED" => tasks'[t].pc = "run"
      /\ tasks'[t].next = IF d = "REJECTED" THEN saved[q].index ELSE saved[q].index + 1
  BY ResumeStep DEF HandlersOK
<1>3. \A c \in Accepted' : c \in Accepted \/ Decides(c, q, saved[q].index, d)
  BY <1>1, Taken
<1>4. feedback'[q] = d /\ \A r \in Run \ {q} : feedback'[r] = feedback[r]
  BY <1>1 DEF RowsOK
<1>5. ASSUME NEW r \in Run \ {q} PROVE HandlerTrue(r)' /\ RowTrue(r)' /\ DecisionTrue(r)'
  <2>1. Elsewhere(r)
    BY <1>1, <1>2, <1>3, <1>4 DEF Elsewhere, Works, Decides
  <2> QED
    BY <2>1, ElsewhereKeeps DEF RunInv
<1>6. HandlerTrue(q) /\ RowTrue(q) /\ DecisionTrue(q)
  BY DEF RunInv
<1>7. \A u \in Task : Works(u, q)' => u = t
  BY <1>1, <1>2, <1>6 DEF HandlerTrue, Works, Busy
<1>8. Progress(q, saved[q].index) /\ Progress(q, saved[q].index + 1)
  <2>1. Progress(q, saved[q].index)
    BY <1>1, <1>6 DEF RowTrue
  <2>2. saved[q].index \in Nat /\ saved[q].index \notin WriteSteps
    BY <1>1, StepsType DEF SuspendedThere, WriteSteps
  <2>3. \A s \in WriteSteps : s \in Nat
    BY StepsType DEF WriteSteps
  <2> QED
    BY <2>1, <2>2, <2>3 DEF Progress
<1>9. HandlerTrue(q)'
  <2>1. tasks'[t].pc # "committed" /\ (d = "REJECTED" <=> tasks'[t].pc = "rejecting")
    BY <1>2 DEF Decision
  <2>2. Progress(q, tasks'[t].next)
    BY <1>2, <1>8
  <2>3. saved'[q] # NoRow /\ saved'[q].state \notin Final /\ feedback'[q] # "none"
    BY <1>1, <1>4 DEF Final, Decision
  <2> QED
    BY <1>1, <1>4, <1>7, <2>1, <2>2, <2>3 DEF HandlerTrue, Ahead, Progress
<1>10. RowTrue(q)'
  BY <1>1, <1>4 DEF RowTrue, Decision
<1>11. DecisionTrue(q)'
  <2>1. ASSUME NEW c \in Accepted', c.run = q
        PROVE  c.decision = d /\ c.step = saved[q].index
    <3>1. c \notin Accepted
      <4>1. c \in Accepted => c.decision \in Decision
        <5>1. clicks \in Seq(Click)
          BY DEF HistoryOK
        <5>2. \A i \in DOMAIN clicks : clicks[i] \in Click
          BY <5>1
        <5> QED
          BY <5>2 DEF Accepted, Click
      <4> QED
        BY <1>1, <1>6, <2>1, <4>1 DEF DecisionTrue, Decision
    <3> QED
      BY <1>3, <3>1 DEF Decides
  <2> QED
    BY <1>1, <1>4, <1>8, <2>1 DEF DecisionTrue, Progress
<1> QED
  BY <1>5, <1>9, <1>10, <1>11 DEF RunInv

(* A crash takes the handlers; a transaction in flight belongs to a run that *)
(* is neither suspended without a decision nor ended, nor rejected.          *)
LEMMA CrashRun ==
    ASSUME TypeInv, RunInv, Crash
    PROVE  RunInv'
<1> USE DEF TypeInv, TypeOK
<1> SUFFICES ASSUME NEW r \in Run PROVE HandlerTrue(r)' /\ RowTrue(r)' /\ DecisionTrue(r)'
  BY DEF RunInv
<1>1. /\ UNCHANGED <<saved, feedback, simulated>> /\ Accepted' = Accepted
      /\ \A t \in Task : ~Works(t, r)'
  BY DEF Crash, Accepted, Works, Busy, Idle
<1>2. HandlerTrue(r) /\ RowTrue(r) /\ DecisionTrue(r)
  BY DEF RunInv
<1>3. HandlerTrue(r)'
  BY <1>1 DEF HandlerTrue
<1>4. CASE \E t \in Task : Works(t, r) /\ tasks[t].pc = "writing"
  <2>1. /\ saved[r] # NoRow /\ saved[r].state \notin Final
        /\ saved[r].state = "SUSPENDED" => feedback[r] # "none"
        /\ feedback[r] # "REJECTED"
    BY <1>2, <1>4 DEF HandlerTrue
  <2> QED
    BY <1>1, <1>2, <1>3, <2>1 DEF RowTrue, DecisionTrue, Final
<1>5. CASE \A t \in Task : Works(t, r) => tasks[t].pc # "writing"
  <2>1. \A s \in WriteSteps : written'[r][s] = written[r][s]
    BY <1>5, CrashCounts DEF Works, Busy, WriteSteps
  <2> QED
    BY <1>1, <1>2, <1>3, <2>1 DEF RowTrue, DecisionTrue, Progress
<1> QED
  BY <1>4, <1>5

(* Every step of a service with a feedback database. *)
LEMMA RunNext == HasFeedback /\ TypeInv /\ RunInv /\ [Next]_vars => RunInv'
<1> SUFFICES ASSUME HasFeedback, TypeInv, RunInv, [Next]_vars PROVE RunInv'
  OBVIOUS
<1>1. ASSUME UNCHANGED <<tasks, saved, feedback, effects>>, Accepted' = Accepted PROVE RunInv'
  <2>1. \A r \in Run : Elsewhere(r)
    BY <1>1 DEF Elsewhere
  <2> QED
    BY <2>1, ElsewhereKeeps DEF RunInv
<1>2. ASSUME NEW t \in Task, Proceed(t) PROVE RunInv'
  <2>1. ASSUME NEW r \in Run PROVE HandlerTrue(r)' /\ RowTrue(r)' /\ DecisionTrue(r)'
    <3>1. CASE r = tasks[t].run
      BY <1>2, <3>1, ProceedOwn
    <3>2. CASE r # tasks[t].run
      BY <1>2, <3>2, ProceedElsewhere, ElsewhereKeeps DEF RunInv
    <3> QED
      BY <3>1, <3>2
  <2> QED
    BY <2>1 DEF RunInv
<1>3. ASSUME NEW r \in Run, NEW d \in Decision, Refuse(r, d) PROVE RunInv'
  BY <1>1, <1>3, NotTaken DEF Refuse, memory, TypeInv
<1>4. CASE Tick \/ UNCHANGED vars
  BY <1>1, <1>4 DEF Tick, memory, vars, Accepted
<1> QED
  BY <1>2, <1>3, <1>4, CreateRun, ResumeRun, CrashRun DEF Next

(* With a feedback database there is one handler per run, and the row, the   *)
(* decision and the graph agree on how far the run has come.                 *)
THEOREM RunInvCorrect == ASSUME HasFeedback PROVE Spec => []RunInv
<1>1. RunInv /\ TypeInv /\ [Next]_vars => RunInv'
  BY RunNext
<1> QED
  BY TypeInvCorrect, RunInit, <1>1, PTL DEF Spec

(* With a feedback database a rejection that was taken is the end: no later  *)
(* write, and the row is SUSPENDED or REJECTED (lines 239-250).              *)
THEOREM RejectionCorrect == ASSUME HasFeedback PROVE Spec => []RejectionStops
<1>1. TypeInv /\ RunInv => RejectionStops
  <2> SUFFICES ASSUME TypeInv, RunInv, NEW c \in Accepted, c.decision = "REJECTED"
               PROVE  /\ \A s \in WriteSteps : s > c.step => Done(c.run, s) = 0
                      /\ saved[c.run].state \in {"SUSPENDED", "REJECTED"}
    BY DEF RejectionStops
  <2>1. c.run \in Run /\ c.step \in Nat
    <3>1. clicks \in Seq(Click)
      BY DEF TypeInv, TypeOK, HistoryOK
    <3>2. c \in Click
      BY <3>1 DEF Accepted
    <3> QED
      BY <3>2 DEF Click
  <2>2. feedback[c.run] = "REJECTED" /\ Progress(c.run, c.step) /\ RowTrue(c.run)
    BY <2>1 DEF RunInv, DecisionTrue
  <2>3. \A s \in WriteSteps : s \in Nat
    BY StepsType DEF WriteSteps
  <2> QED
    BY <2>1, <2>2, <2>3 DEF RowTrue, Progress
<1> QED
  BY TypeInvCorrect, RunInvCorrect, <1>1, PTL

(* With a feedback database COMPLETED means that every write was committed   *)
(* exactly once, or simulated exactly once by a process without a client,    *)
(* whatever crashed or was repeated in between, and REJECTED that the stored *)
(* decision is a rejection.                                                  *)
THEOREM OutcomeCorrect == ASSUME HasFeedback PROVE Spec => []OutcomeIsTrue
<1>1. RunInv => OutcomeIsTrue
  <2>1. \A s \in WriteSteps : s < Last + 1
    BY StepsType DEF WriteSteps
  <2> QED
    BY <2>1 DEF RunInv, RowTrue, Progress, OutcomeIsTrue
<1> QED
  BY RunInvCorrect, <1>1, PTL

(* With a feedback database the row of a run that has ended is never written *)
(* again: whoever could write it would have to be working on the run.        *)
LEMMA FinalStep ==
    ASSUME TypeInv, RunInv, [Next]_vars, NEW r \in Run, saved[r].state \in Final
    PROVE  saved'[r] = saved[r]
<1> USE DEF TypeInv, TypeOK
<1>1. HandlerTrue(r)
  BY DEF RunInv
<1>2. ASSUME NEW t \in Task, Proceed(t) PROVE saved'[r] = saved[r]
  <2>1. tasks[t].run # r
    BY <1>1, <1>2, HandlerStep DEF HandlerTrue, Works
  <2> QED
    BY <1>2, <2>1, ProceedElsewhere DEF Elsewhere
<1>3. ASSUME NEW t \in Task, NEW q \in Run, Create(t, q) PROVE saved'[r] = saved[r]
  BY <1>3 DEF Create, RowsOK, NoRow, Final
<1> QED
  BY <1>2, <1>3 DEF Next, Tick, Refuse, Resume, Crash, memory, vars

(* The action property the runs check. *)
THEOREM FinalCorrect == ASSUME HasFeedback PROVE Spec => FinalStays
<1>1. TypeInv /\ RunInv /\ [Next]_vars =>
        [\A r \in Run : saved[r].state \in Final => saved'[r] = saved[r]]_vars
  BY FinalStep
<1> QED
  BY TypeInvCorrect, RunInvCorrect, <1>1, PTL DEF Spec, FinalStays

-----------------------------------------------------------------------------
(* The engine implements ApprovalProtocol                                    *)

Outcome == [r \in Run |-> IF saved[r].state \in Final THEN saved[r].state ELSE "open"]
Made == [r \in Run |-> [s \in WriteSteps |-> written[r][s]]]
Imagined == [r \in Run |-> [s \in WriteSteps |-> simulated[r][s]]]
Needs == [r \in Run |->
    {s \in WriteSteps : \E a \in ApprovalSteps : a < s /\ <<r, a>> \in Triggered}]

\* What Progress says of a write step, for the two counts.
LEMMA ProgressCounts ==
    ASSUME HistoryOK, NEW r \in Run, NEW k, Progress(r, k), NEW s \in WriteSteps
    PROVE  /\ written[r][s] \in Nat /\ simulated[r][s] \in Nat
           /\ ~(s < k) => written[r][s] = 0 /\ simulated[r][s] = 0
           /\ s < k => written[r][s] + simulated[r][s] = 1
<1>1. s \in StepNo
  BY DEF WriteSteps
<1> QED
  BY <1>1 DEF HistoryOK, Progress

\* A write step of run r that its handler has reached may be made.
LEMMA ReachedMayBeMade ==
    ASSUME HasFeedback, TypeInv, ApprovedInv, RunInv, NEW t \in Task, Busy(t),
           tasks[t].pc \in {"run", "writing"}, tasks[t].next \in WriteSteps
    PROVE  tasks[t].run \in Run /\ Protocol!MayMake(tasks[t].run, tasks[t].next)
<1> USE DEF TypeInv, TypeOK
<1> DEFINE r == tasks[t].run
           s == tasks[t].next
<1>1. r \in Run /\ s \in Nat /\ s \in WriteSteps
  BY BusyType, StepsType DEF Handler, WriteSteps
<1>2. saved[r].state \notin Final /\ feedback[r] # "REJECTED" /\ Progress(r, s)
  BY <1>1 DEF RunInv, HandlerTrue, Works, Ahead
<1>3. written[r][s] = 0 /\ simulated[r][s] = 0
  BY <1>1, <1>2, ProgressCounts
<1>4. ASSUME NEW a \in ApprovalSteps, a < s, <<r, a>> \in Triggered PROVE feedback[r] = "APPROVED"
  <2>1. ApprovedIn(Accepted, r, s)
    BY <1>1 DEF ApprovedInv
  <2>2. PICK c \in Accepted : c.run = r /\ c.decision = "APPROVED"
    BY <1>4, <2>1 DEF ApprovedIn
  <2> QED
    BY <1>1, <2>2 DEF RunInv, DecisionTrue
<1> QED
  BY <1>1, <1>2, <1>3, <1>4 DEF Protocol!MayMake

\* A transaction that a handler has in flight may be made.
LEMMA InFlightMayBeMade ==
    ASSUME HasFeedback, TypeInv, ApprovedInv, RunInv, NEW t \in Task, tasks[t].pc = "writing"
    PROVE  /\ tasks[t].run \in Run /\ tasks[t].next \in WriteSteps /\ client
           /\ Protocol!MayMake(tasks[t].run, tasks[t].next)
<1> USE DEF TypeInv, TypeOK
<1>1. Busy(t) /\ tasks[t].next \in WriteSteps /\ client
  BY BusyType, StepsType DEF Busy, Underway, Handler, WriteSteps
<1> QED
  BY <1>1, ReachedMayBeMade

\* At most one transaction of a run is in flight.
LEMMA CrashMakes ==
    ASSUME HasFeedback, TypeInv, ApprovedInv, RunInv, Crash
    PROVE  Protocol!Make
<1> USE DEF TypeInv, TypeOK
<1>1. PICK S \in SUBSET {t \in Task : tasks[t].pc = "writing"} :
         written' = [r \in Run |-> [s \in StepNo |->
           written[r][s] + Cardinality({t \in S : tasks[t].run = r /\ tasks[t].next = s})]]
  BY DEF Crash
<1> DEFINE P == {<<tasks[t].run, tasks[t].next>> : t \in S}
<1>2. P \in SUBSET {p \in Run \X WriteSteps : client /\ Protocol!MayMake(p[1], p[2])}
  BY InFlightMayBeMade
<1>3. ASSUME NEW r \in Run, NEW s \in WriteSteps
      PROVE  written'[r][s] = IF <<r, s>> \in P THEN 1 ELSE written[r][s]
  <2> DEFINE D == {t \in S : tasks[t].run = r /\ tasks[t].next = s}
  <2>1. written'[r][s] = written[r][s] + Cardinality(D) /\ written[r][s] \in Nat
    BY <1>1 DEF WriteSteps, HistoryOK
  <2>2. CASE D = {}
    BY <2>1, <2>2, FS_EmptySet
  <2>3. CASE D # {}
    <3>1. PICK t \in D : TRUE
      BY <2>3
    <3>2. \A u \in D : u = t
      BY <3>1 DEF RunInv, HandlerTrue, Works, Busy
    <3>3. D = {t}
      BY <3>1, <3>2
    <3>4. Cardinality(D) = 1
      BY <3>3, FS_Singleton
    <3>5. written[r][s] = 0 /\ <<r, s>> \in P
      BY <3>1, InFlightMayBeMade DEF Protocol!MayMake
    <3> QED
      BY <2>1, <3>4, <3>5
  <2> QED
    BY <2>2, <2>3
<1>4. Made' = [r \in Run |-> [s \in WriteSteps |-> IF <<r, s>> \in P THEN 1 ELSE Made[r][s]]]
  BY <1>3 DEF Made
<1>5. UNCHANGED <<feedback, saved, simulated>> /\ client' \in BOOLEAN
  BY DEF Crash
<1> QED
  BY <1>2, <1>4, <1>5 DEF Protocol!Make, Made

(* The initial states map to initial states. *)
LEMMA ProtocolStarts == Init => Protocol!ProtocolInit
<1> SUFFICES ASSUME Init PROVE Protocol!ProtocolInit
  OBVIOUS
<1>1. \A r \in Run : saved[r].state \notin Final
  BY DEF Init, NoRow, Final
<1>2. \A r \in Run, s \in WriteSteps : written[r][s] = 0 /\ simulated[r][s] = 0
  BY DEF Init, WriteSteps
<1> QED
  BY <1>1, <1>2 DEF Init, Protocol!ProtocolInit

\* Steps that the protocol does not see.
LEMMA Unseen ==
    ASSUME UNCHANGED <<client, feedback, effects>>,
           \A r \in Run : \/ saved'[r].state = saved[r].state
                          \/ saved'[r].state \notin Final /\ saved[r].state \notin Final
    PROVE  UNCHANGED Protocol!protocolVars
  BY DEF Protocol!protocolVars

(* Saving a final state closes the run in the protocol. *)
LEMMA EndCloses ==
    ASSUME HasFeedback, TypeInv, RunInv, RunInv', NEW t \in Task, Proceed(t), Ends(t)
    PROVE  \E r \in Run : Protocol!Close(r)
<1> USE DEF TypeInv, TypeOK
<1>1. PICK r \in Run : r = tasks[t].run /\ Busy(t) /\ UNCHANGED <<client, feedback>>
  BY HandlerStep, BusyType DEF Handler
<1>2. saved[r].state \notin Final /\ ((feedback[r] = "REJECTED") <=> (tasks[t].pc = "rejecting"))
  BY <1>1 DEF RunInv, HandlerTrue, Works
<1>3. PICK c \in Context, o \in Final :
        /\ Return(t, c, o) /\ UNCHANGED effects
        /\ o = "REJECTED" <=> tasks[t].pc = "rejecting"
  BY DEF Ends, Final
<1>4. saved'[r].state = o /\ \A q \in Run \ {r} : saved'[q] = saved[q]
  BY <1>1, <1>3 DEF Return, RowsOK, Context
<1>5. ASSUME o = "COMPLETED" PROVE \A s \in WriteSteps : Made[r][s] + Imagined[r][s] = 1
  <2>1. Progress(r, Last + 1)'
    BY <1>1, <1>4, <1>5 DEF RunInv, RowTrue
  <2>2. \A s \in WriteSteps : s < Last + 1
    BY StepsType DEF WriteSteps
  <2> QED
    BY <1>1, <1>3, <2>1, <2>2 DEF Progress, Made, Imagined
<1>6. Outcome' = [Outcome EXCEPT ![r] = o] /\ Outcome[r] = "open"
  BY <1>1, <1>2, <1>4 DEF Outcome
<1>7. UNCHANGED <<Made, Imagined>>
  BY <1>3 DEF Made, Imagined
<1> QED
  BY <1>1, <1>2, <1>3, <1>5, <1>6, <1>7 DEF Protocol!Close, Outcome, Made, Imagined, Final

(* A commit makes one effect. *)
LEMMA CommitMakes ==
    ASSUME HasFeedback, TypeInv, ApprovedInv, RunInv, NEW t \in Task, Commit(t)
    PROVE  Protocol!Make
<1> DEFINE r == tasks[t].run
           s == tasks[t].next
<1>1. r \in Run /\ s \in WriteSteps /\ client /\ Protocol!MayMake(r, s)
  BY InFlightMayBeMade DEF Commit
<1>2. /\ written' = [written EXCEPT ![r][s] = @ + 1]
      /\ UNCHANGED <<client, feedback, saved, simulated>>
  BY DEF Commit
<1>3. written[r][s] = 0
  BY <1>1 DEF Protocol!MayMake
<1>4. ASSUME NEW q \in Run, NEW e \in WriteSteps
      PROVE  written'[q][e] = IF <<q, e>> \in {<<r, s>>} THEN 1 ELSE written[q][e]
  BY <1>1, <1>2, <1>3 DEF TypeInv, TypeOK, HistoryOK, WriteSteps
<1>5. Made' = [q \in Run |-> [e \in WriteSteps |-> IF <<q, e>> \in {<<r, s>>} THEN 1 ELSE Made[q][e]]]
  BY <1>4 DEF Made
<1>6. {<<r, s>>} \in SUBSET {p \in Run \X WriteSteps : client /\ Protocol!MayMake(p[1], p[2])}
  BY <1>1
<1> QED
  BY <1>1, <1>2, <1>5, <1>6 DEF Protocol!Make, Made

(* A simulated write imagines one.                                           *)
LEMMA SimulateImagines ==
    ASSUME HasFeedback, TypeInv, ApprovedInv, RunInv, NEW t \in Task, Proceed(t), Simulates(t)
    PROVE  \E r \in Run, s \in WriteSteps : Protocol!Imagine(r, s)
<1> DEFINE r == tasks[t].run
           s == tasks[t].next
<1>1. /\ Busy(t) /\ tasks[t] \in Handler /\ s \in WriteSteps /\ ~client
      /\ UNCHANGED <<client, feedback, written>>
      /\ simulated' = [simulated EXCEPT ![r][s] = @ + 1]
  BY HandlerStep, BusyType, StepsType DEF TypeInv, TypeOK, Simulates, Handler, WriteSteps
<1>2. r \in Run /\ Protocol!MayMake(r, s)
  BY <1>1, ReachedMayBeMade DEF Simulates
<1>3. \A q \in Run : \/ saved'[q].state = saved[q].state
                     \/ saved'[q].state \notin Final /\ saved[q].state \notin Final
  <2>1. saved[r].state \notin Final
    BY <1>1, <1>2 DEF RunInv, HandlerTrue, Works
  <2> QED
    BY <1>2, <2>1 DEF Simulates, StepOver, TypeInv, TypeOK, RowsOK, Final
<1>4. UNCHANGED Outcome
  BY <1>3 DEF Outcome
<1>5. Imagined' = [Imagined EXCEPT ![r][s] = 1]
  <2>1. simulated[r][s] = 0
    BY <1>1, <1>2 DEF Protocol!MayMake
  <2>2. ASSUME NEW q \in Run, NEW e \in WriteSteps
        PROVE  simulated'[q][e] = IF q = r /\ e = s THEN 1 ELSE simulated[q][e]
    BY <1>1, <1>2, <2>1 DEF TypeInv, TypeOK, HistoryOK, WriteSteps
  <2>3. Imagined' = [q \in Run |-> [e \in WriteSteps |->
                       IF q = r /\ e = s THEN 1 ELSE Imagined[q][e]]]
    BY <2>2 DEF Imagined
  <2>4. [Imagined EXCEPT ![r][s] = 1] = [q \in Run |-> [e \in WriteSteps |->
                       IF q = r /\ e = s THEN 1 ELSE Imagined[q][e]]]
    BY <1>1, <1>2 DEF Imagined
  <2> QED
    BY <2>3, <2>4
<1> QED
  BY <1>1, <1>2, <1>4, <1>5 DEF Protocol!Imagine, Imagined, Outcome

(* Storing the decision decides. *)
LEMMA ResumeDecides ==
    ASSUME HasFeedback, TypeInv, NEW t \in Task, NEW r \in Run, NEW d \in Decision, Resume(t, r, d)
    PROVE  Protocol!Decide(r)
<1>1. /\ saved[r].state = "SUSPENDED" /\ feedback[r] = "none"
      /\ feedback' = [feedback EXCEPT ![r] = d] /\ UNCHANGED <<client, saved, effects>>
  BY DEF Resume, Resumable
<1> QED
  BY <1>1 DEF Protocol!Decide, Decision, Final

(* Every step maps to a step of the protocol or to none. *)
LEMMA ProtocolSteps ==
    ASSUME HasFeedback, TypeInv, ApprovedInv, RunInv, RunInv', [Next]_vars
    PROVE  [Protocol!ProtocolNext]_(Protocol!protocolVars)
<1> USE DEF TypeInv, TypeOK
<1>1. ASSUME NEW t \in Task, Proceed(t) PROVE [Protocol!ProtocolNext]_(Protocol!protocolVars)
  <2>1. Busy(t) /\ tasks[t].run \in Run /\ UNCHANGED <<client, feedback>>
    BY <1>1, HandlerStep, BusyType DEF Handler
  <2>2. saved[tasks[t].run].state \notin Final
    BY <2>1 DEF RunInv, HandlerTrue, Works
  <2>3. CASE Advances(t)
    BY <2>1, <2>2, <2>3, Unseen DEF Advances, StepOver, RowsOK, Final
  <2>3a. CASE Simulates(t)
    BY <1>1, <2>3a, SimulateImagines DEF Protocol!ProtocolNext
  <2>4. CASE Waits(t) \/ GivesUp(t)
    BY <2>1, <2>4, Unseen DEF Waits, Await, GivesUp, StepRaises
  <2>5. CASE Suspends(t)
    <3>1. /\ saved'[tasks[t].run].state = "SUSPENDED" /\ UNCHANGED effects
          /\ \A r \in Run \ {tasks[t].run} : saved'[r] = saved[r]
      BY <2>1, <2>5 DEF Suspends, Return, RowsOK, Context
    <3> QED
      BY <2>1, <2>2, <3>1, Unseen DEF Final
  <2>6. CASE Ends(t)
    BY <1>1, <2>6, EndCloses DEF Protocol!ProtocolNext
  <2>7. CASE Commit(t)
    BY <2>7, CommitMakes DEF Protocol!ProtocolNext
  <2> QED
    BY <1>1, <2>3, <2>3a, <2>4, <2>5, <2>6, <2>7, HandlerStep
<1>2. ASSUME NEW t \in Task, NEW r \in Run, Create(t, r)
      PROVE  [Protocol!ProtocolNext]_(Protocol!protocolVars)
  <2>1. /\ saved'[r].state = "PENDING" /\ saved[r].state \notin Final
        /\ \A q \in Run \ {r} : saved'[q] = saved[q]
        /\ UNCHANGED <<client, feedback, effects>>
    BY <1>2 DEF Create, RowsOK, NoRow, Final
  <2> QED
    BY <2>1, Unseen DEF Final
<1>3. ASSUME NEW t \in Task, NEW r \in Run, NEW d \in Decision, Resume(t, r, d)
      PROVE  [Protocol!ProtocolNext]_(Protocol!protocolVars)
  BY <1>3, ResumeDecides DEF Protocol!ProtocolNext
<1>4. CASE Crash
  BY <1>4, CrashMakes DEF Protocol!ProtocolNext
<1>5. ASSUME UNCHANGED <<client, feedback, effects, saved>>
      PROVE  [Protocol!ProtocolNext]_(Protocol!protocolVars)
  BY <1>5, Unseen
<1> QED
  BY <1>1, <1>2, <1>3, <1>4, <1>5 DEF Next, Tick, Refuse, memory, vars

(* With a feedback database the engine, its two databases and its crashes    *)
(* keep the promise of ApprovalProtocol, for every definition.               *)
THEOREM ProtocolCorrect == ASSUME HasFeedback PROVE Spec => KeepsProtocol
<1>1. TypeInv /\ ApprovedInv /\ RunInv /\ RunInv' /\ [Next]_vars
        => [Protocol!ProtocolNext]_(Protocol!protocolVars)
  BY ProtocolSteps
<1>2. Spec => []ApprovedInv
  BY TypeInvCorrect, ApprovedInit, ApprovedNext, PTL DEF Spec
<1> QED
  BY TypeInvCorrect, RunInvCorrect, ProtocolStarts, <1>1, <1>2, PTL
     DEF Spec, KeepsProtocol, Protocol!ProtocolSpec
===============================================================================
