--------------------------- MODULE SOPProgressProofs ---------------------------
(***************************************************************************)
(* Theorems about what becomes of the decisions that SOPEngine takes, for  *)
(* all values of its constants.  DecisionTakesEffect is a liveness         *)
(* property and stays with TLC; what it rests on is here: a decision that  *)
(* was taken is always in somebody's hands or settled, and whoever keeps   *)
(* the others from moving can move.                                        *)
(***************************************************************************)
EXTENDS SOPEngineProofs

USE DEF process, effects, Done

-----------------------------------------------------------------------------
(* A decision that was taken is in somebody's hands                          *)

\* What DecisionInHand says of one decision.
Kept(c) == Handled(c.run) \/ Settled(c.run, c.step)

\* A handler that is not about to save a rejection is past the decisions on its run.
PastDecisions(t) ==
    \A c \in Accepted : (Busy(t) /\ tasks[t].run = c.run /\ tasks[t].pc # "rejecting") =>
        tasks[t].next > c.step

(* DecisionInHand does not say in which step the handler will suspend the    *)
(* run again: it must be beyond the step that was decided.                   *)
InHandInv ==
    /\ \A t \in Task : PastDecisions(t)
    /\ DecisionInHand

(* Every accepted decision is about a run and a step. *)
LEMMA AcceptedType ==
    ASSUME TypeOK
    PROVE  \A c \in Accepted : c.run \in Run /\ c.step \in 1..(Last + 1) /\ c.decision \in Decision
<1>1. clicks \in Seq(Click)
  BY DEF TypeOK, HistoryOK
<1>2. \A i \in DOMAIN clicks : clicks[i] \in Click
  BY <1>1
<1> QED
  BY <1>2 DEF Accepted, Click

(* No decision at the start. *)
LEMMA InHandInit == Init => InHandInv
  BY DEF Init, Accepted, InHandInv, PastDecisions, DecisionInHand

(* A step of a handler goes forward, and where it lets go of the run the run *)
(* is suspended further on, has ended, or is abandoned by an exception.      *)
LEMMA ProceedInHand ==
    ASSUME TypeInv, RunInv, InHandInv, NEW t \in Task, Proceed(t)
    PROVE  InHandInv'
<1> USE DEF TypeInv, TypeOK
<1>1. /\ Busy(t) /\ tasks[t] \in Handler /\ tasks[t].run \in Run
      /\ Accepted' = Accepted /\ \A c \in Accepted : Kept(c)
  BY HandlerStep, BusyType DEF Handler, Accepted, InHandInv, DecisionInHand, Kept
<1>2. /\ \A r \in Run \ {tasks[t].run} : saved'[r] = saved[r]
      /\ \A u \in Task \ {t} : tasks'[u] = tasks[u]
      /\ Busy(t)' => tasks'[t].run = tasks[t].run
  BY ProceedElsewhere DEF Elsewhere
<1>3. \A c \in Accepted : c.run \in Run /\ c.step \in Nat
  BY AcceptedType, StepsType
<1>3a. abandoned \subseteq abandoned'
  BY HandlerStep DEF Advances, Simulates, StepOver, Waits, Await, Suspends, Ends, Return,
     GivesUp, StepRaises, Commit
<1>4. tasks[t].next \in Nat /\ \A c \in Accepted : (tasks[t].run = c.run /\ tasks[t].pc # "rejecting") => tasks[t].next > c.step
  BY <1>1, StepsType DEF InHandInv, PastDecisions, Handler
<1>5. CASE Busy(t)'
  <2>1. tasks'[t].next \in Nat /\ tasks'[t].next >= tasks[t].next /\ tasks[t].pc # "rejecting"
    <3>1. CASE Advances(t) \/ Simulates(t)
      BY <1>4, <3>1 DEF Advances, Simulates, StepOver, HandlersOK
    <3>2. CASE Waits(t)
      <4>1. PICK pc : Await(t, pc) /\ tasks[t].pc = "run"
        BY <3>2 DEF Waits
      <4> QED
        BY <1>1, <1>4, <4>1 DEF Await, HandlersOK, Handler
    <3>3. CASE Commit(t)
      BY <1>1, <1>4, <3>3 DEF Commit, HandlersOK, Handler
    <3>4. CASE Suspends(t) \/ Ends(t) \/ GivesUp(t)
      <4>1. tasks'[t] = Idle
        BY <3>4 DEF Suspends, Ends, GivesUp, Return, StepRaises, HandlersOK
      <4> QED
        BY <1>5, <4>1 DEF Busy, Idle
    <3> QED
      BY <3>1, <3>2, <3>3, <3>4, HandlerStep
  <2>2. \A u \in Task : PastDecisions(u)'
    BY <1>1, <1>2, <1>3, <1>4, <1>5, <2>1 DEF InHandInv, PastDecisions, Busy
  <2>3. \A r \in Run : Handled(r) => Handled(r)'
    BY <1>2, <1>5 DEF Handled, Busy
  <2>4. \A c \in Accepted : c.run = tasks[t].run => Handled(c.run)'
    BY <1>2, <1>5 DEF Handled
  <2>5. ASSUME NEW c \in Accepted PROVE Kept(c)'
    <3>1. CASE c.run = tasks[t].run
      BY <2>4, <3>1 DEF Kept
    <3>2. CASE c.run # tasks[t].run
      <4>1. saved'[c.run] = saved[c.run] /\ (Handled(c.run) => Handled(c.run)')
        BY <1>2, <1>3, <2>3, <3>2
      <4> QED
        BY <1>1, <1>3a, <2>5, <4>1 DEF Kept, Settled
    <3> QED
      BY <3>1, <3>2
  <2> QED
    BY <1>1, <2>2, <2>5 DEF InHandInv, DecisionInHand, Kept
<1>6. CASE ~Busy(t)'
  <2>1. \A u \in Task : PastDecisions(u)'
    BY <1>1, <1>2, <1>6 DEF InHandInv, PastDecisions, Busy
  <2>2. \A r \in Run \ {tasks[t].run} : Handled(r) => Handled(r)'
    BY <1>2 DEF Handled, Busy
  <2>3. \A c \in Accepted : c.run # tasks[t].run => Kept(c)'
    BY <1>1, <1>2, <1>3, <1>3a, <2>2 DEF Kept, Settled
  <2>4. ASSUME NEW c \in Accepted, c.run = tasks[t].run PROVE Kept(c)'
    <3>1. CASE Suspends(t)
      <4>1. /\ saved'[c.run].state = "SUSPENDED" /\ saved'[c.run].index = tasks[t].next
            /\ tasks[t].pc # "rejecting"
        BY <1>1, <2>4, <3>1 DEF Suspends, Return, RowsOK, Context
      <4> QED
        BY <1>4, <2>4, <4>1 DEF Kept, Settled
    <3>2. CASE Ends(t)
      <4>1. PICK d \in Context, state \in Final : Return(t, d, state)
        BY <3>2 DEF Ends, Final
      <4>2. saved'[c.run].state = state
        BY <1>1, <2>4, <4>1 DEF Return, RowsOK, Context
      <4> QED
        BY <4>1, <4>2 DEF Kept, Settled
    <3>3. CASE GivesUp(t)
      BY <2>4, <3>3 DEF GivesUp, StepRaises, Kept, Settled
    <3>4. CASE Advances(t) \/ Simulates(t)
      BY <1>6, <3>4 DEF Advances, Simulates, StepOver, HandlersOK, Busy
    <3>5. CASE Waits(t)
      BY <1>1, <1>6, <3>5 DEF Waits, Await, HandlersOK, Handler, Busy
    <3>6. CASE Commit(t)
      BY <1>1, <1>6, <3>6 DEF Commit, HandlersOK, Handler, Busy
    <3> QED
      BY <3>1, <3>2, <3>3, <3>4, <3>5, <3>6, HandlerStep
  <2> QED
    BY <1>1, <2>1, <2>3, <2>4 DEF InHandInv, DecisionInHand, Kept
<1> QED
  BY <1>5, <1>6

(* A new run has no decision (lines 111-127). *)
LEMMA CreateInHand ==
    ASSUME TypeInv, RunInv, InHandInv, NEW t \in Task, NEW q \in Run, Create(t, q)
    PROVE  InHandInv'
<1> USE DEF TypeInv, TypeOK
<1>1. /\ ~Busy(t) /\ saved[q] = NoRow
      /\ \A u \in Task \ {t} : tasks'[u] = tasks[u]
      /\ tasks'[t].run = q
      /\ \A r \in Run \ {q} : saved'[r] = saved[r]
      /\ abandoned' = abandoned /\ Accepted' = Accepted
  BY DEF Create, HandlersOK, RowsOK, Accepted
<1>2. \A c \in Accepted : c.run \in Run /\ c.run # q
  BY <1>1, AcceptedType DEF RunInv, RowTrue, DecisionTrue, Decision
<1>3. \A u \in Task : PastDecisions(u)'
  BY <1>1, <1>2 DEF InHandInv, PastDecisions, Busy
<1>4. \A r \in Run : Handled(r) => Handled(r)'
  BY <1>1 DEF Handled, Busy
<1>5. \A c \in Accepted : Kept(c) => Kept(c)'
  BY <1>1, <1>2, <1>4 DEF Kept, Settled
<1> QED
  BY <1>1, <1>3, <1>5 DEF InHandInv, DecisionInHand, Kept

(* The decision that is taken is the first on its run, and its handler goes  *)
(* on one step further or saves the rejection (lines 239-255).               *)
LEMMA ResumeInHand ==
    ASSUME HasFeedback, TypeInv, RunInv, InHandInv,
           NEW t \in Task, NEW q \in Run, NEW d \in Decision, Resume(t, q, d)
    PROVE  InHandInv'
<1> USE DEF TypeInv, TypeOK
<1>1. /\ ~Busy(t) /\ saved[q].state = "SUSPENDED" /\ saved[q] # NoRow /\ feedback[q] = "none"
      /\ Heard(q, d, TRUE) /\ UNCHANGED <<saved, abandoned>>
  BY DEF Resume, Resumable
<1>2. /\ \A u \in Task \ {t} : tasks'[u] = tasks[u]
      /\ tasks'[t].run = q /\ Busy(t)'
      /\ tasks'[t].pc # "rejecting" => tasks'[t].next = saved[q].index + 1
  BY ResumeStep DEF HandlersOK, Decision, Busy
<1>3. \A c \in Accepted' : c \in Accepted \/ Decides(c, q, saved[q].index, d)
  BY <1>1, Taken
<1>4. \A c \in Accepted : c.run \in Run /\ c.run # q
  BY <1>1, AcceptedType DEF RunInv, DecisionTrue, Decision
<1>5. saved[q].index \in Nat
  BY <1>1, StepsType DEF SuspendedThere
<1>6. \A u \in Task \ {t} : ~(Works(u, q))
  BY <1>1 DEF RunInv, HandlerTrue, Works
<1>7. \A u \in Task : PastDecisions(u)'
  BY <1>1, <1>2, <1>3, <1>4, <1>5, <1>6 DEF InHandInv, PastDecisions, Busy, Works, Decides
<1>8. Handled(q)' /\ \A r \in Run : Handled(r) => Handled(r)'
  BY <1>1, <1>2 DEF Handled, Busy
<1>9. \A c \in Accepted : Kept(c) => Kept(c)'
  BY <1>1, <1>4, <1>8 DEF Kept, Settled
<1>10. \A c \in Accepted' : c.run = q => Kept(c)'
  BY <1>8 DEF Kept
<1> QED
  BY <1>1, <1>3, <1>7, <1>9, <1>10 DEF InHandInv, DecisionInHand, Kept, Decides

(* Every step of a service with a feedback database. *)
LEMMA InHandNext == HasFeedback /\ TypeInv /\ RunInv /\ InHandInv /\ [Next]_vars => InHandInv'
<1> SUFFICES ASSUME HasFeedback, TypeInv, RunInv, InHandInv, [Next]_vars PROVE InHandInv'
  OBVIOUS
<1>1. ASSUME UNCHANGED <<tasks, saved, abandoned>>, Accepted' = Accepted PROVE InHandInv'
  BY <1>1 DEF InHandInv, DecisionInHand, PastDecisions, Settled, Handled, Busy
<1>2. ASSUME NEW r \in Run, NEW d \in Decision, Refuse(r, d) PROVE InHandInv'
  BY <1>1, <1>2, NotTaken DEF Refuse, memory, TypeInv
<1>3. CASE Crash
  <2>1. /\ UNCHANGED saved /\ Accepted' = Accepted /\ \A t \in Task : ~Busy(t)'
        /\ abandoned' = abandoned \cup {tasks[t].run : t \in {u \in Task : Busy(u)}}
    BY <1>3 DEF Crash, Accepted, Busy, Idle
  <2>2. \A r \in Run : Handled(r) => r \in abandoned'
    BY <2>1 DEF Handled
  <2>3. \A c \in Accepted : c.run \in Run
    BY AcceptedType DEF TypeInv
  <2> QED
    BY <2>1, <2>2, <2>3 DEF InHandInv, DecisionInHand, PastDecisions, Settled
<1>4. CASE Tick \/ UNCHANGED vars
  BY <1>1, <1>4 DEF Tick, memory, vars, Accepted
<1> QED
  BY <1>2, <1>3, <1>4, ProceedInHand, CreateInHand, ResumeInHand DEF Next

(* With a feedback database no decision is dropped, over crashes and         *)
(* exceptions of other runs: its run has ended, or a handler is at it, or it *)
(* waits for a decision on a later step, or its own handler was lost (lines  *)
(* 162, 193-255).  Without the database a second press of the card starts a  *)
(* second handler of the run, which may suspend it again behind the first    *)
(* one.                                                                      *)
THEOREM InHandCorrect == ASSUME HasFeedback PROVE Spec => []DecisionInHand
<1>1. InHandInv /\ TypeInv /\ RunInv /\ [Next]_vars => InHandInv'
  BY InHandNext
<1>2. InHandInv => DecisionInHand
  BY DEF InHandInv
<1> QED
  BY TypeInvCorrect, RunInvCorrect, InHandInit, <1>1, <1>2, PTL DEF Spec

-----------------------------------------------------------------------------
(* Nobody holds the event loop and waits                                     *)

(* A handler that keeps the others from moving is neither idle nor waiting   *)
(* for the messenger or the database, and a rejection is saved before        *)
(* anybody else moves: resume() has no await between the row of              *)
(* agent_feedback and the state REJECTED (lines 230-250).                    *)
LoopIsBusy ==
    /\ loop # NoTask => tasks[loop].pc \in {"run", "rejecting"}
    /\ \A t \in Task : tasks[t].pc = "rejecting" => loop = t

(* For every definition: whoever holds the loop can go on, so that a handler *)
(* that waits gets its turn.                                                 *)
THEOREM LoopCorrect == Spec => []LoopIsBusy
<1>1. Init => LoopIsBusy
  BY DEF Init, LoopIsBusy, Idle
<1>2. TypeInv /\ LoopIsBusy /\ [Next]_vars => LoopIsBusy'
  <2> SUFFICES ASSUME TypeInv, LoopIsBusy, [Next]_vars PROVE LoopIsBusy'
    OBVIOUS
  <2> USE DEF TypeInv, TypeOK
  <2>1. ASSUME NEW t \in Task, Proceed(t) PROVE LoopIsBusy'
    <3>1. /\ tasks[t] \in Handler /\ t # NoTask
          /\ \A u \in Task \ {t} : tasks'[u] = tasks[u]
          /\ \A u \in Task \ {t} : tasks[u].pc = "rejecting" => loop = u
          /\ loop # NoTask => loop \in Task /\ tasks[loop].pc \in {"run", "rejecting"}
      BY <2>1, HandlerStep, BusyType, ProceedElsewhere, SOPAssumption DEF LoopIsBusy, HandlersOK
    <3>2. CASE Commit(t)
      <4>1. tasks[t].pc = "writing" /\ tasks'[t].pc = "committed" /\ loop' = loop /\ loop # t
        BY <3>1, <3>2 DEF Commit, HandlersOK, Handler
      <4> QED
        BY <3>1, <4>1 DEF LoopIsBusy
    <3>3. loop \in {t, NoTask} \/ Commit(t)
      <4>1. tasks[t].pc = "rejecting" => loop = t
        BY DEF LoopIsBusy
      <4> QED
        BY <2>1, <4>1 DEF Proceed, Validate, Notify, AutoApprove, AskApproval, CardSent, Write,
           WriteReturns, Complete, Reject, Reached, CanMove
    <3>4. CASE ~Commit(t)
      <4>1. \A u \in Task \ {t} : tasks'[u].pc # "rejecting"
        BY <3>1, <3>3, <3>4, SOPAssumption
      <4>2. CASE Advances(t) \/ Simulates(t)
        BY <4>1, <4>2 DEF Advances, Simulates, StepOver, HandlersOK, LoopIsBusy
      <4>3. CASE Waits(t)
        BY <3>1, <4>1, <4>3 DEF Waits, Await, HandlersOK, Handler, LoopIsBusy
      <4>4. CASE Suspends(t) \/ Ends(t) \/ GivesUp(t)
        <5>1. tasks'[t] = Idle /\ loop' = NoTask
          BY <4>4 DEF Suspends, Ends, GivesUp, Return, StepRaises, HandlersOK
        <5> QED
          BY <4>1, <5>1 DEF LoopIsBusy, Idle
      <4> QED
        BY <2>1, <3>4, <4>2, <4>3, <4>4, HandlerStep
    <3> QED
      BY <3>2, <3>4
  <2>2. ASSUME NEW t \in Task, NEW r \in Run, Create(t, r) PROVE LoopIsBusy'
    BY <2>2, SOPAssumption DEF Create, LoopIsBusy, HandlersOK
  <2>3. ASSUME NEW t \in Task, NEW r \in Run, NEW d \in Decision, Resume(t, r, d) PROVE LoopIsBusy'
    <3>1. loop = NoTask /\ loop' = t /\ \A u \in Task : tasks[u].pc # "rejecting"
      BY <2>3, SOPAssumption DEF Resume, LoopIsBusy
    <3>2. tasks'[t].pc \in {"run", "rejecting"} /\ \A u \in Task \ {t} : tasks'[u] = tasks[u]
      BY <2>3, ResumeStep DEF HandlersOK, Decision
    <3> QED
      BY <3>1, <3>2 DEF LoopIsBusy
  <2>4. CASE Crash
    BY <2>4 DEF Crash, LoopIsBusy, Idle
  <2>5. CASE UNCHANGED <<tasks, loop>>
    BY <2>5 DEF LoopIsBusy
  <2> QED
    BY <2>1, <2>2, <2>3, <2>4, <2>5 DEF Next, Tick, Refuse, memory, vars
<1> QED
  BY TypeInvCorrect, <1>1, <1>2, PTL DEF Spec

-----------------------------------------------------------------------------
(* What an auditor of the engine may conclude                                *)

(* With a feedback database the two tables and the graph form a true audit   *)
(* trail, and what they say of a run that has ended stays: the engine keeps  *)
(* the promise of ApprovalProtocol, and this follows from the promise.       *)
THEOREM EngineAuditCorrect ==
    ASSUME HasFeedback PROVE Spec => []Protocol!AuditTrail /\ Protocol!AuditStands
<1>1. Protocol!ProtocolSpec => []Protocol!AuditTrail /\ Protocol!AuditStands
  BY Protocol!AuditCorrect
<1>2. Spec => Protocol!ProtocolSpec
  BY ProtocolCorrect DEF KeepsProtocol
<1> QED
  BY <1>1, <1>2

-----------------------------------------------------------------------------
(* The tables change one row at a time                                       *)

\* What TablesMove says of one run.
SavesWell(r) ==
    saved'[r] # saved[r] =>
        /\ saved' = [saved EXCEPT ![r] = saved'[r]] /\ UNCHANGED feedback
        /\ saved'[r].state = "PENDING" <=> saved[r] = NoRow
        /\ saved[r].state \notin Final
        /\ saved'[r].state = "REJECTED" <=> feedback[r] = "REJECTED"
DecidesWell(r) ==
    feedback'[r] # feedback[r] =>
        /\ feedback' = [feedback EXCEPT ![r] = feedback'[r]] /\ UNCHANGED saved
        /\ feedback[r] = "none" /\ saved[r].state = "SUSPENDED"

(* A handler saves the row of its own run, which has not ended, and the      *)
(* rejection if and only if it is stored.                                    *)
LEMMA ProceedMoves ==
    ASSUME TypeInv, RunInv, NEW t \in Task, Proceed(t), NEW r \in Run
    PROVE  SavesWell(r) /\ DecidesWell(r)
<1> USE DEF TypeInv, TypeOK
<1>1. Busy(t) /\ tasks[t] \in Handler /\ tasks[t].run \in Run /\ UNCHANGED feedback
  BY HandlerStep, BusyType DEF Handler
<1>2. CASE r # tasks[t].run
  <2>1. saved'[r] = saved[r]
    BY <1>2, ProceedElsewhere DEF Elsewhere
  <2> QED
    BY <1>1, <2>1 DEF SavesWell, DecidesWell
<1>3. CASE r = tasks[t].run
  <2>1. /\ saved[r] # NoRow /\ saved[r].state \notin Final
        /\ (feedback[r] = "REJECTED") <=> (tasks[t].pc = "rejecting")
    BY <1>1, <1>3 DEF RunInv, HandlerTrue, Works
  <2>2. ASSUME NEW row, saved' = [saved EXCEPT ![r] = row], row.state # "PENDING",
               (row.state = "REJECTED") <=> (tasks[t].pc = "rejecting")
        PROVE  SavesWell(r)
    BY <1>1, <2>1, <2>2 DEF SavesWell, RowsOK
  <2>3. CASE Advances(t)
    <3>1. PICK c \in Context : c.state = "RUNNING" /\ StepOver(t, c)
      BY <2>3 DEF Advances
    <3>2. tasks[t].pc # "rejecting"
      BY <2>3 DEF Advances
    <3> QED
      BY <1>1, <1>3, <2>2, <3>1, <3>2 DEF StepOver, DecidesWell
  <2>4. CASE Suspends(t)
    <3>1. PICK c \in Context : Return(t, c, "SUSPENDED") /\ tasks[t].pc # "rejecting"
      BY <2>4 DEF Suspends
    <3>2. [c EXCEPT !.state = "SUSPENDED"].state = "SUSPENDED"
      BY DEF Context
    <3> QED
      BY <1>1, <1>3, <2>2, <3>1, <3>2 DEF Return, DecidesWell
  <2>5. CASE Ends(t)
    <3>1. PICK c \in Context, state \in Final :
             Return(t, c, state) /\ ((state = "REJECTED") <=> (tasks[t].pc = "rejecting"))
      BY <2>5 DEF Ends, Final
    <3>2. [c EXCEPT !.state = state].state = state /\ state # "PENDING"
      BY DEF Context, Final
    <3> QED
      BY <1>1, <1>3, <2>2, <3>1, <3>2 DEF Return, DecidesWell
  <2>3a. CASE Simulates(t)
    <3>1. PICK c \in Context : c.state = "RUNNING" /\ StepOver(t, c) /\ tasks[t].pc = "run"
      BY <2>3a DEF Simulates
    <3> QED
      BY <1>1, <1>3, <2>2, <3>1 DEF StepOver, DecidesWell
  <2>6. CASE Waits(t) \/ GivesUp(t) \/ Commit(t)
    BY <1>1, <2>6 DEF Waits, Await, GivesUp, StepRaises, Commit, SavesWell, DecidesWell
  <2> QED
    BY <2>3, <2>3a, <2>4, <2>5, <2>6, HandlerStep
<1> QED
  BY <1>2, <1>3

(* Every step of a service with a feedback database. *)
LEMMA NextMoves ==
    ASSUME HasFeedback, TypeInv, RunInv, [Next]_vars, NEW r \in Run
    PROVE  SavesWell(r) /\ DecidesWell(r)
<1> USE DEF TypeInv, TypeOK
<1>1. ASSUME NEW t \in Task, NEW q \in Run, Create(t, q) PROVE SavesWell(r) /\ DecidesWell(r)
  <2> DEFINE c == [state |-> "PENDING", index |-> 1,
                   nonce |-> [i \in Item |-> IF i \in Supplied THEN now ELSE NoNonce]]
  <2>1. saved' = [saved EXCEPT ![q] = c] /\ c.state = "PENDING" /\ c # NoRow
    BY <1>1 DEF Create, NoRow
  <2> HIDE DEF c
  <2>2. saved[q] = NoRow /\ feedback[q] = "none" /\ UNCHANGED feedback
    BY <1>1 DEF Create, RunInv, RowTrue
  <2>3. CASE q = r
    BY <2>1, <2>2, <2>3 DEF SavesWell, DecidesWell, RowsOK, NoRow, Final
  <2>4. CASE q # r
    BY <2>1, <2>2, <2>4 DEF SavesWell, DecidesWell, RowsOK
  <2> QED
    BY <2>3, <2>4
<1>2. ASSUME NEW t \in Task, NEW q \in Run, NEW d \in Decision, Resume(t, q, d)
      PROVE  SavesWell(r) /\ DecidesWell(r)
  BY <1>2 DEF Resume, Resumable, SavesWell, DecidesWell, RowsOK
<1>3. CASE UNCHANGED <<saved, feedback>>
  BY <1>3 DEF SavesWell, DecidesWell
<1> QED
  BY <1>1, <1>2, <1>3, ProceedMoves DEF Next, Tick, Refuse, Crash, memory, vars

(* With a feedback database the tables change only in the ways that          *)
(* Dashboard lets them change (SaveState, InsertFeedback), so the pages over *)
(* this engine's tables are among those its theorems are about.              *)
THEOREM TablesCorrect == ASSUME HasFeedback PROVE Spec => TablesMove
<1>1. TypeInv /\ RunInv /\ [Next]_vars =>
        [\A r \in Run :
           /\ saved'[r] # saved[r] =>
                /\ saved' = [saved EXCEPT ![r] = saved'[r]] /\ UNCHANGED feedback
                /\ saved'[r].state = "PENDING" <=> saved[r] = NoRow
                /\ saved[r].state \notin Final
                /\ saved'[r].state = "REJECTED" <=> feedback[r] = "REJECTED"
           /\ feedback'[r] # feedback[r] =>
                /\ feedback' = [feedback EXCEPT ![r] = feedback'[r]] /\ UNCHANGED saved
                /\ feedback[r] = "none" /\ saved[r].state = "SUSPENDED"]_vars
  BY NextMoves DEF SavesWell, DecidesWell
<1> QED
  BY TypeInvCorrect, RunInvCorrect, <1>1, PTL DEF Spec, TablesMove
===============================================================================
