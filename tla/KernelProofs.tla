------------------------------ MODULE KernelProofs ------------------------------
(***************************************************************************)
(* Theorems about Kernel, for all values of its constants.                 *)
(***************************************************************************)
EXTENDS Kernel, FiniteSetTheorems, TLAPS

-----------------------------------------------------------------------------
(* Type correctness *)

(* What the breaker's two operations return is a breaker                     *)
(* (circuit_breaker.py:113-204).                                             *)
LEMMA CheckedType ==
    ASSUME NEW b \in Breaker, NEW x \in Text, NEW t \in Nat
    PROVE  Checked(b, x, t) \in Breaker
  BY DEF Checked, Reset, Breaker

(* record_failure files what it is given (circuit_breaker.py:129-159). *)
LEMMA FailedType ==
    ASSUME NEW b \in Breaker, NEW x \in Text, NEW f \in Failure
    PROVE  Failed(b, x, f) \in Breaker
<1>1. Kept(b.failures[x] \cup {f}, f.at) \in SUBSET Failure
  BY DEF Breaker, Kept
<1> QED
  BY <1>1 DEF Failed, Breaker

(* record_usage returns a fuse (billing_fuse.py:104-163). *)
LEMMA ChargedType ==
    ASSUME NEW f \in Fuse
    PROVE  Charged(f) \in Fuse
  BY FuseAssumption DEF Charged, Fuse

(* A message received is answered with a status of kernel.py:129-214. *)
LEMMA AnsweredType ==
    ASSUME TypeOK, NEW s \in Nat, NEW x \in Text, NEW st \in Status, Answered(s, x, st)
    PROVE  answers' \subseteq Answer
  BY DEF TypeOK, Answered, Answer

(* The billing hook keeps the types of what it writes (kernel.py:118-136). *)
LEMMA BillType ==
    ASSUME TypeOK, NEW s \in Nat, NEW x \in Text, Bill(s, x)
    PROVE  fuse' \in Fuse /\ answers' \subseteq Answer
<1>1. fuse' \in Fuse
  BY ChargedType DEF Bill, TypeOK
<1>2. (IF x \in Billed /\ Refuses(fuse) THEN "exhausted" ELSE "ok") \in Status
  BY DEF Status
<1> QED
  BY <1>1, <1>2, AnsweredType DEF Bill

(* The handlers of exceptions keep the types of what they write              *)
(* (kernel.py:184-214).                                                      *)
LEMMA FailsType ==
    ASSUME TypeOK, NEW b \in Breaker, NEW s \in Nat, NEW x \in Text, Fails(b, s, x)
    PROVE  breaker' \in Breaker /\ answers' \subseteq Answer
<1>1. [session |-> s, at |-> now] \in Failure
  BY DEF TypeOK, Failure
<1>2. "error" \in Status
  BY DEF Status
<1> QED
  BY <1>1, <1>2, FailedType, AnsweredType DEF Fails

(* A message that is received leaves well-typed counters (kernel.py:83). *)
LEMMA ReceivedType ==
    ASSUME TypeOK, Received
    PROVE  sessions' \in Nat /\ sessions + 1 \in Nat
  BY DEF TypeOK, Received

(* What commits when a process stops is counted by a natural number. *)
LEMMA LostCommits ==
    ASSUME TypeOK, NEW C \in SUBSET Caller, NEW x
    PROVE  /\ IsFiniteSet({c \in C : calls[c].text = x})
           /\ Cardinality({c \in C : calls[c].text = x}) \in Nat
<1>1. {c \in C : calls[c].text = x} \in SUBSET Caller
  OBVIOUS
<1> QED
  BY <1>1, KernelAssumption, FS_Subset, FS_CardinalityType

(* Every action of the kernel preserves the types. *)
LEMMA TypeStep == TypeOK /\ [Next]_vars => TypeOK'
<1> SUFFICES ASSUME TypeOK, [Next]_vars
             PROVE  TypeOK'
  OBVIOUS
<1> USE KernelAssumption
<1>1. CASE Tick
  BY <1>1 DEF Tick, TypeOK, process
<1>2. CASE Restart
  <2>1. PICK C \in SUBSET {c \in Caller : calls[c].pc = "writing"} :
          graph' = [x \in Text |-> graph[x] + Cardinality({c \in C : calls[c].text = x})]
    BY <1>2 DEF Restart
  <2>2. C \in SUBSET Caller
    OBVIOUS
  <2>3. ASSUME NEW x \in Text
        PROVE  graph[x] + Cardinality({c \in C : calls[c].text = x}) \in Nat
    <3>1. graph[x] \in Nat
      BY DEF TypeOK
    <3>2. Cardinality({c \in C : calls[c].text = x}) \in Nat
      BY <2>2, LostCommits
    <3> QED
      BY <3>1, <3>2
  <2>4. graph' \in [Text -> Nat]
    BY <2>1, <2>3
  <2>5. AllClosed \in Breaker /\ Unspent \in Fuse
    BY DEF AllClosed, Breaker, Unspent, Fuse
  <2> QED
    BY <1>2, <2>4, <2>5 DEF Restart, TypeOK, NoCalls
<1>3. ASSUME NEW x \in Text, Intercept(x)
      PROVE  TypeOK'
  <2>1. "intercepted" \in Status
    BY DEF Status
  <2> QED
    BY <1>3, <2>1, ReceivedType, AnsweredType DEF Intercept, TypeOK
<1>4. ASSUME NEW x \in Text, Trip(x)
      PROVE  TypeOK'
  <2>1. "tripped" \in Status
    BY DEF Status
  <2> QED
    BY <1>4, <2>1, ReceivedType, AnsweredType DEF Trip, TypeOK
<1>5. ASSUME NEW x \in Text, Block(x)
      PROVE  TypeOK'
  <2>1. "blocked" \in Status
    BY DEF Status
  <2>2. Checked(breaker, x, now) \in Breaker
    BY CheckedType DEF TypeOK
  <2> QED
    BY <1>5, <2>1, <2>2, ReceivedType, AnsweredType DEF Block, TypeOK
<1>6. ASSUME NEW x \in Text, Hint(x)
      PROVE  TypeOK'
  <2>1. sessions' \in Nat /\ sessions + 1 \in Nat
    BY <1>6, ReceivedType DEF Hint
  <2>2. Checked(breaker, x, now) \in Breaker
    BY CheckedType DEF TypeOK
  <2>3. breaker' \in Breaker /\ fuse' \in Fuse /\ answers' \subseteq Answer
    <3>1. CASE breaker' = Checked(breaker, x, now) /\ Bill(sessions + 1, x)
      BY <3>1, <2>1, <2>2, BillType
    <3>2. CASE Fails(Checked(breaker, x, now), sessions + 1, x) /\ UNCHANGED fuse
      BY <3>2, <2>1, <2>2, FailsType DEF TypeOK
    <3> QED
      BY <1>6, <3>1, <3>2 DEF Hint
  <2> QED
    BY <1>6, <2>1, <2>3 DEF Hint, TypeOK
<1>7. ASSUME NEW x \in Text, GateRefuses(x)
      PROVE  TypeOK'
  <2>1. sessions' \in Nat /\ sessions + 1 \in Nat
    BY <1>7, ReceivedType DEF GateRefuses
  <2>2. Checked(breaker, x, now) \in Breaker
    BY CheckedType DEF TypeOK
  <2>3. breaker' \in Breaker /\ answers' \subseteq Answer
    <3>1. CASE breaker' = Checked(breaker, x, now) /\ Answered(sessions + 1, x, "blocked")
      <4>1. "blocked" \in Status
        BY DEF Status
      <4> QED
        BY <3>1, <4>1, <2>1, <2>2, AnsweredType
    <3>2. CASE Fails(Checked(breaker, x, now), sessions + 1, x)
      BY <3>2, <2>1, <2>2, FailsType
    <3> QED
      BY <1>7, <3>1, <3>2 DEF GateRefuses
  <2>4. burned' \subseteq Governed
    BY <1>7 DEF GateRefuses, ReachesGate, TypeOK
  <2> QED
    BY <1>7, <2>1, <2>3, <2>4 DEF GateRefuses, TypeOK
<1>12. ASSUME NEW x \in Text, SimulateWrite(x)
       PROVE  TypeOK'
  <2>1. sessions' \in Nat /\ sessions + 1 \in Nat
    BY <1>12, ReceivedType DEF SimulateWrite
  <2>2. Checked(breaker, x, now) \in Breaker
    BY CheckedType DEF TypeOK
  <2>3. fuse' \in Fuse /\ answers' \subseteq Answer
    BY <1>12, <2>1, BillType DEF SimulateWrite
  <2>4. burned' \subseteq Governed
    BY <1>12 DEF SimulateWrite, ReachesGate, TypeOK
  <2> QED
    BY <1>12, <2>1, <2>2, <2>3, <2>4 DEF SimulateWrite, TypeOK
<1>8. ASSUME NEW x \in Text, NEW c \in Caller, StartWrite(c, x)
      PROVE  TypeOK'
  <2>1. sessions' \in Nat /\ sessions + 1 \in Nat
    BY <1>8, ReceivedType DEF StartWrite
  <2>2. Checked(breaker, x, now) \in Breaker
    BY CheckedType DEF TypeOK
  <2>3. x \in Governed
    BY <1>8 DEF StartWrite, ReachesGate
  <2>4. [pc |-> "writing", text |-> x, session |-> sessions + 1] \in Call
    BY <2>1, <2>3 DEF Call
  <2> QED
    BY <1>8, <2>1, <2>2, <2>3, <2>4 DEF StartWrite, TypeOK
<1>9. ASSUME NEW c \in Caller, Commit(c)
      PROVE  TypeOK'
  <2>1. calls[c] \in Call
    BY <1>9 DEF Commit, TypeOK, Idle
  <2>2. [calls[c] EXCEPT !.pc = "committed"] \in Call
    BY <2>1 DEF Call
  <2>3. calls' \in [Caller -> Call \cup {Idle}]
    BY <1>9, <2>2 DEF Commit, TypeOK
  <2>4. calls[c].text \in Text
    BY <2>1 DEF Call
  <2>5. graph' \in [Text -> Nat]
    BY <1>9, <2>4 DEF Commit, TypeOK
  <2> QED
    BY <1>9, <2>3, <2>5 DEF Commit, TypeOK
<1>10. ASSUME NEW c \in Caller, Settle(c)
       PROVE  TypeOK'
  <2>1. calls[c] \in Call
    BY <1>10 DEF Settle, Busy, TypeOK, Idle
  <2>2. calls[c].text \in Text /\ calls[c].session \in Nat
    BY <2>1 DEF Call
  <2>3. breaker' \in Breaker /\ fuse' \in Fuse /\ answers' \subseteq Answer
    <3>1. CASE Bill(calls[c].session, calls[c].text) /\ UNCHANGED breaker
      BY <3>1, <2>2, BillType DEF TypeOK
    <3>2. CASE Fails(breaker, calls[c].session, calls[c].text) /\ UNCHANGED fuse
      <4>1. breaker \in Breaker
        BY DEF TypeOK
      <4> QED
        BY <3>2, <4>1, <2>2, FailsType DEF TypeOK
    <3> QED
      BY <1>10, <3>1, <3>2 DEF Settle
  <2> QED
    BY <1>10, <2>3 DEF Settle, TypeOK
<1>11. CASE UNCHANGED vars
  BY <1>11 DEF TypeOK, vars, process
<1> QED
  BY <1>1, <1>2, <1>3, <1>4, <1>5, <1>6, <1>7, <1>8, <1>9, <1>10, <1>11, <1>12
  DEF Next, Receive

(* The first state of the service is well typed (kernel.py:46-66). *)
LEMMA TypeInit == Init => TypeOK
  BY KernelAssumption DEF Init, TypeOK, AllClosed, Breaker, Unspent, Fuse, NoCalls

(* Every reachable state of the kernel, its hooks and its calls is well      *)
(* typed, for any texts, limits and number of overlapping calls.             *)
THEOREM TypeCorrect == Spec => []TypeOK
  BY TypeInit, TypeStep, PTL DEF Spec
-----------------------------------------------------------------------------
(* The calls and what they leave in the graph *)

\* A call in the database holds the nonce of a text of its own, and a session
\* of its own that nothing has answered yet.  Without a client there is none.
CallInv ==
    /\ IsFiniteSet(answers)
    /\ \A a \in answers : a.session <= sessions
    /\ \A c \in Caller : Busy(c) =>
         /\ client /\ calls[c].text \in burned /\ ReachesGate(calls[c].text)
         /\ calls[c].session <= sessions
         /\ \A a \in answers : a.session # calls[c].session
    /\ \A c, d \in Caller : Busy(c) /\ Busy(d) /\ c # d =>
         calls[c].text # calls[d].text /\ calls[c].session # calls[d].session

(* Adding an answer keeps the answers finite. *)
LEMMA AddAnswer ==
    ASSUME IsFiniteSet(answers), NEW a, answers' = answers \cup {a}
    PROVE  IsFiniteSet(answers')
  BY FS_AddElement

(* What a busy call is. *)
LEMMA BusyCall ==
    ASSUME TypeOK, NEW c \in Caller, Busy(c)
    PROVE  calls[c] \in Call /\ calls[c].text \in Text /\ calls[c].session \in Nat
  BY KernelAssumption DEF TypeOK, Busy, Idle, Call

(* A message that is answered at once gets an answer of the session that     *)
(* received it and leaves the other calls alone (kernel.py:83-84).           *)
LEMMA AnsweredAtOnce ==
    ASSUME TypeOK, NEW x \in Text, Receive(x)
    PROVE  /\ sessions' = sessions + 1 /\ calls' = calls /\ client' = client
           /\ burned \subseteq burned'
           /\ \E st \in Status :
                answers' = answers \cup
                  {[session |-> sessions + 1, text |-> x, status |-> st, at |-> now]}
  BY DEF Receive, Intercept, Trip, Block, Hint, GateRefuses, SimulateWrite, Received,
         Answered, Bill, Fails, Status

(* A call that ends is answered once, under its own session                  *)
(* (kernel.py:118-136, 184-214).                                             *)
LEMMA AnsweredAtTheEnd ==
    ASSUME TypeOK, NEW c \in Caller, Settle(c)
    PROVE  /\ UNCHANGED <<sessions, burned, client>>
           /\ calls' = [calls EXCEPT ![c] = Idle]
           /\ \E st \in Status :
                answers' = answers \cup
                  {[session |-> calls[c].session, text |-> calls[c].text,
                    status |-> st, at |-> now]}
  BY DEF Settle, Answered, Bill, Fails, Status

(* Overlapping calls keep apart: a nonce is burned before the call awaits    *)
(* the database, so a text is there at most once (write_gate.py:207).        *)
LEMMA CallStep == TypeOK /\ CallInv /\ [Next]_vars => CallInv'
<1> SUFFICES ASSUME TypeOK, CallInv, [Next]_vars
             PROVE  CallInv'
  OBVIOUS
<1>1. CASE Tick \/ UNCHANGED vars
  BY <1>1 DEF Tick, vars, process, CallInv, Busy
<1>2. CASE Restart
  BY <1>2, FS_EmptySet DEF Restart, NoCalls, Idle, CallInv, Busy
<1>3. ASSUME NEW x \in Text, Receive(x)
      PROVE  CallInv'
  <2>1. PICK st \in Status :
          answers' = answers \cup
            {[session |-> sessions + 1, text |-> x, status |-> st, at |-> now]}
    BY <1>3, AnsweredAtOnce
  <2>2. /\ sessions' = sessions + 1 /\ calls' = calls /\ client' = client
        /\ burned \subseteq burned'
    BY <1>3, AnsweredAtOnce
  <2>3. IsFiniteSet(answers')
    BY <2>1, AddAnswer DEF CallInv
  <2>4. \A a \in answers' : a.session <= sessions'
    BY <2>1, <2>2 DEF CallInv, TypeOK, Answer
  <2>5. ASSUME NEW c \in Caller, Busy(c)
        PROVE  /\ client' /\ calls[c].text \in burned' /\ ReachesGate(calls[c].text)
               /\ calls[c].session <= sessions'
               /\ \A a \in answers' : a.session # calls[c].session
    <3>1. calls[c].session \in Nat
      BY <2>5, BusyCall
    <3> QED
      BY <3>1, <2>5, <2>1, <2>2 DEF CallInv, TypeOK
  <2> QED
    BY <2>2, <2>3, <2>4, <2>5 DEF CallInv, Busy
<1>4. ASSUME NEW x \in Text, NEW c \in Caller, StartWrite(c, x)
      PROVE  CallInv'
  <2> DEFINE call == [pc |-> "writing", text |-> x, session |-> sessions + 1]
  <2>1. /\ calls' = [calls EXCEPT ![c] = call] /\ sessions' = sessions + 1
        /\ answers' = answers /\ burned' = burned \cup {x}
        /\ ReachesGate(x) /\ x \notin burned /\ client'
    BY <1>4 DEF StartWrite, Received
  <2>2. calls'[c] = call /\ \A d \in Caller \ {c} : calls'[d] = calls[d]
    BY <2>1 DEF TypeOK
  <2>3. \A a \in answers' : a.session <= sessions' /\ a.session # sessions + 1
    BY <2>1 DEF CallInv, TypeOK, Answer
  <2>4. ASSUME NEW d \in Caller \ {c}, Busy(d)
        PROVE  /\ calls[d].text \in burned /\ ReachesGate(calls[d].text)
               /\ calls[d].text # x
               /\ calls[d].session <= sessions' /\ calls[d].session # sessions + 1
               /\ \A a \in answers : a.session # calls[d].session
    <3>1. calls[d].session \in Nat /\ sessions \in Nat
      BY <2>4, BusyCall DEF TypeOK
    <3>2. calls[d].session <= sessions /\ calls[d].text \in burned
      BY <2>4 DEF CallInv
    <3> QED
      BY <3>1, <3>2, <2>1, <2>4 DEF CallInv
  <2>5. \A d \in Caller \ {c} : Busy(d)' => Busy(d)
    BY <2>2 DEF Busy
  <2>6. call.text = x /\ call.session = sessions + 1
    OBVIOUS
  <2>7. sessions + 1 <= sessions'
    BY <2>1 DEF TypeOK
  <2>8. \A d \in Caller : Busy(d)' =>
         /\ client' /\ calls'[d].text \in burned' /\ ReachesGate(calls'[d].text)
         /\ calls'[d].session <= sessions'
         /\ \A a \in answers' : a.session # calls'[d].session
    BY <2>1, <2>2, <2>3, <2>4, <2>5, <2>6, <2>7
  <2>9. \A d, e \in Caller : Busy(d)' /\ Busy(e)' /\ d # e =>
         calls'[d].text # calls'[e].text /\ calls'[d].session # calls'[e].session
    BY <2>2, <2>4, <2>5, <2>6 DEF CallInv
  <2> QED
    BY <2>1, <2>3, <2>8, <2>9 DEF CallInv
<1>5. ASSUME NEW c \in Caller, Commit(c)
      PROVE  CallInv'
  <2>1. calls[c] \in Call
    BY <1>5, BusyCall DEF Commit, Busy
  <2>2. /\ calls'[c].text = calls[c].text /\ calls'[c].session = calls[c].session
        /\ \A d \in Caller \ {c} : calls'[d] = calls[d]
    BY <1>5, <2>1 DEF Commit, TypeOK, Call
  <2>3. \A d \in Caller : Busy(d)' => Busy(d)
    BY <1>5, <2>2 DEF Busy, Commit
  <2> QED
    BY <1>5, <2>2, <2>3 DEF Commit, CallInv
<1>6. ASSUME NEW c \in Caller, Settle(c)
      PROVE  CallInv'
  <2>1. PICK st \in Status :
          answers' = answers \cup
            {[session |-> calls[c].session, text |-> calls[c].text,
              status |-> st, at |-> now]}
    BY <1>6, AnsweredAtTheEnd
  <2>2. UNCHANGED <<sessions, burned, client>> /\ calls' = [calls EXCEPT ![c] = Idle]
    BY <1>6, AnsweredAtTheEnd
  <2>3. IsFiniteSet(answers')
    BY <2>1, AddAnswer DEF CallInv
  <2>4. ~Busy(c)' /\ \A d \in Caller \ {c} : calls'[d] = calls[d] /\ (Busy(d)' <=> Busy(d))
    BY <2>2 DEF TypeOK, Busy, Idle
  <2>5. Busy(c)
    BY <1>6 DEF Settle
  <2>6. \A a \in answers' : a.session <= sessions'
    BY <2>1, <2>2, <2>5 DEF CallInv
  <2> QED
    BY <2>1, <2>2, <2>3, <2>4, <2>5, <2>6 DEF CallInv
<1> QED
  BY <1>1, <1>2, <1>3, <1>4, <1>5, <1>6 DEF Next, Receive
-----------------------------------------------------------------------------
(* The graph *)

\* How often a text was committed, by what this process may still do with it.
GraphInv ==
    /\ RedeliveryWritesOnce
    /\ \A x \in Text \ burned : graph[x] <= restarts
    /\ \A c \in Caller : calls[c].pc = "writing" => graph[calls[c].text] <= restarts
    /\ \A c \in Caller : calls[c].pc = "committed" => graph[calls[c].text] > 0
    /\ OkMeansWritten
    /\ \A c \in Caller, a \in Successes : Busy(c) => a.text # calls[c].text

(* A message answered at once writes nothing, and if it reaches the gate it  *)
(* is answered ok only by a process without a client, over a nonce that      *)
(* nothing had spent (kernel.py:246-288, write_gate.py:244-250).             *)
LEMMA NoWriteAtOnce ==
    ASSUME NEW x \in Text, Receive(x)
    PROVE  /\ UNCHANGED <<calls, graph, restarts>>
           /\ client' = client /\ burned \subseteq burned'
           /\ \A a, b \in Successes' \ Successes :
                ~client /\ a.text \notin burned /\ a.text \in burned' /\ a = b
  BY DEF Receive, Intercept, Trip, Block, Hint, GateRefuses, SimulateWrite, Received,
         Answered, Bill, Fails, Successes

(* A stopping process adds at most one commit of each text: no two of its    *)
(* calls have the same.                                                      *)
LEMMA LostOnce ==
    ASSUME TypeOK, CallInv, NEW x,
           NEW C \in SUBSET {c \in Caller : calls[c].pc = "writing"}
    PROVE  LET L == {c \in C : calls[c].text = x}
           IN  Cardinality(L) = 0 \/ (Cardinality(L) = 1 /\ \E c \in L : TRUE)
<1> DEFINE L == {c \in C : calls[c].text = x}
<1>1. CASE L = {}
  BY <1>1, FS_EmptySet
<1>2. CASE L # {}
  <2>1. PICK c \in L : TRUE
    BY <1>2
  <2>2. \A d \in L : d = c
    BY <2>1 DEF CallInv, Busy
  <2>3. L = {c}
    BY <2>1, <2>2
  <2>4. Cardinality(L) = 1
    BY <2>3, FS_Singleton
  <2> QED
    BY <2>1, <2>4
<1> QED
  BY <1>1, <1>2

(* The first process writes a text once, a later one once more at most: its  *)
(* nonce is burned before the call awaits the database.                      *)
LEMMA GraphStep == TypeOK /\ CallInv /\ GraphInv /\ [Next]_vars => GraphInv'
<1> SUFFICES ASSUME TypeOK, CallInv, GraphInv, [Next]_vars
             PROVE  GraphInv'
  OBVIOUS
<1> USE DEF RedeliveryWritesOnce, OkMeansWritten
<1>1. CASE Tick \/ UNCHANGED vars
  BY <1>1 DEF Tick, vars, process, GraphInv, Successes, Busy
<1>2. CASE Restart
  <2>1. PICK C \in SUBSET {c \in Caller : calls[c].pc = "writing"} :
          graph' = [x \in Text |-> graph[x] + Cardinality({c \in C : calls[c].text = x})]
    BY <1>2 DEF Restart
  <2>2. restarts' = restarts + 1 /\ burned' = {} /\ answers' = {} /\ calls' = NoCalls
    BY <1>2 DEF Restart
  <2>3. ASSUME NEW x \in Text
        PROVE  graph'[x] <= restarts'
    <3> DEFINE L == {c \in C : calls[c].text = x}
    <3>1. graph'[x] = graph[x] + Cardinality(L)
      BY <2>1
    <3>2. graph[x] \in Nat /\ restarts \in Nat
      BY DEF TypeOK
    <3>3. CASE Cardinality(L) = 0
      BY <3>1, <3>2, <3>3, <2>2 DEF GraphInv
    <3>4. CASE Cardinality(L) = 1 /\ \E c \in L : TRUE
      <4>1. graph[x] <= restarts
        BY <3>4 DEF GraphInv
      <4> QED
        BY <4>1, <3>1, <3>2, <3>4, <2>2
    <3> QED
      BY <3>3, <3>4, LostOnce
  <2>4. \A x \in Text : graph'[x] \in Nat /\ restarts' \in Nat
    BY TypeStep DEF TypeOK
  <2> QED
    BY <2>2, <2>3, <2>4 DEF GraphInv, NoCalls, Idle, Busy, Successes
<1>3. ASSUME NEW x \in Text, Receive(x)
      PROVE  GraphInv'
  <2>1. /\ UNCHANGED <<calls, graph, restarts, client>> /\ burned \subseteq burned'
        /\ \A a, b \in Successes' \ Successes :
             ~client /\ a.text \notin burned /\ a.text \in burned' /\ a = b
    BY <1>3, NoWriteAtOnce
  <2>2. \A a \in Successes : a.text \in burned
    BY DEF GraphInv
  <2>3. OkMeansWritten'
    <3>1. \A a \in Successes' : a.text \in burned' /\ (client' => graph'[a.text] > 0)
      BY <2>1, <2>2 DEF GraphInv
    <3>2. \A a, b \in Successes' : a.text = b.text => a = b
      BY <2>1, <2>2 DEF GraphInv
    <3> QED
      BY <3>1, <3>2
  <2>4. \A c \in Caller, a \in Successes' : Busy(c)' => a.text # calls'[c].text
    BY <2>1 DEF GraphInv, CallInv, Busy
  <2> QED
    BY <2>1, <2>3, <2>4 DEF GraphInv
<1>4. ASSUME NEW x \in Text, NEW c \in Caller, StartWrite(c, x)
      PROVE  GraphInv'
  <2>1. /\ UNCHANGED <<graph, restarts, client>> /\ burned' = burned \cup {x}
        /\ x \notin burned /\ Successes' = Successes
    BY <1>4 DEF StartWrite, Successes
  <2>2. calls'[c].text = x /\ calls'[c].pc = "writing"
        /\ \A d \in Caller \ {c} : calls'[d] = calls[d]
    BY <1>4 DEF StartWrite, TypeOK
  <2>3. graph[x] <= restarts
    BY <2>1 DEF GraphInv
  <2>4. /\ \A d \in Caller : calls'[d].pc = "writing" => graph'[calls'[d].text] <= restarts'
        /\ \A d \in Caller : calls'[d].pc = "committed" => graph'[calls'[d].text] > 0
    BY <2>1, <2>2, <2>3 DEF GraphInv
  <2>5. \A d \in Caller, a \in Successes' : Busy(d)' => a.text # calls'[d].text
    BY <2>1, <2>2 DEF GraphInv, Busy
  <2> QED
    BY <2>1, <2>4, <2>5 DEF GraphInv
<1>5. ASSUME NEW c \in Caller, Commit(c)
      PROVE  GraphInv'
  <2> DEFINE x == calls[c].text
  <2>1. calls[c] \in Call /\ x \in Text /\ x \in burned
    BY <1>5, BusyCall DEF Commit, Busy, CallInv
  <2>2. /\ calls'[c].text = x /\ calls'[c].pc = "committed"
        /\ \A d \in Caller \ {c} : calls'[d] = calls[d]
    BY <1>5, <2>1 DEF Commit, TypeOK, Call
  <2>3. UNCHANGED <<restarts, client, burned>> /\ Successes' = Successes
    BY <1>5 DEF Commit, Successes
  <2>4. graph'[x] = graph[x] + 1 /\ \A y \in Text \ {x} : graph'[y] = graph[y]
    BY <1>5, <2>1 DEF Commit, TypeOK
  <2>5. graph[x] \in Nat /\ restarts \in Nat /\ graph[x] <= restarts
    BY <1>5, <2>1 DEF GraphInv, TypeOK, Commit
  <2>6. \A y \in Text : graph'[y] <= 1 + restarts'
    BY <2>3, <2>4, <2>5 DEF GraphInv
  <2>7. \A y \in Text \ burned' : graph'[y] <= restarts'
    BY <2>1, <2>3, <2>4 DEF GraphInv
  <2>8. ASSUME NEW d \in Caller \ {c}, Busy(d)
        PROVE  graph'[calls'[d].text] = graph[calls[d].text]
    <3>1. calls[d].text # x /\ calls[d].text \in Text
      BY <1>5, <2>8, BusyCall DEF CallInv, Busy, Commit
    <3> QED
      BY <3>1, <2>2, <2>4
  <2>9. /\ \A d \in Caller : calls'[d].pc = "writing" => graph'[calls'[d].text] <= restarts'
        /\ \A d \in Caller : calls'[d].pc = "committed" => graph'[calls'[d].text] > 0
    BY <2>2, <2>3, <2>4, <2>5, <2>8 DEF GraphInv, Busy
  <2>10. OkMeansWritten'
    <3>1. \A a \in Successes : graph[a.text] > 0 => graph'[a.text] > 0
      <4>1. \A a \in Successes : a.text \in Text
        BY DEF TypeOK, Answer, Successes
      <4> QED
        BY <4>1, <2>4, <2>5
    <3> QED
      BY <3>1, <2>3 DEF GraphInv
  <2>11. \A d \in Caller, a \in Successes' : Busy(d)' => a.text # calls'[d].text
    BY <1>5, <2>2, <2>3 DEF GraphInv, Busy, Commit
  <2> QED
    BY <2>6, <2>7, <2>9, <2>10, <2>11 DEF GraphInv
<1>6. ASSUME NEW c \in Caller, Settle(c)
      PROVE  GraphInv'
  <2>1. UNCHANGED <<graph, restarts, burned, client>> /\ calls' = [calls EXCEPT ![c] = Idle]
    BY <1>6 DEF Settle
  <2>2. calls'[c] = Idle /\ \A d \in Caller \ {c} : calls'[d] = calls[d]
    BY <2>1 DEF TypeOK
  <2>3. /\ Successes \subseteq Successes'
        /\ \A a, b \in Successes' \ Successes :
             a.text = calls[c].text /\ calls[c].pc = "committed" /\ a = b
    BY <1>6 DEF Settle, Bill, Fails, Answered, Successes
  <2>4. Busy(c) /\ calls[c].text \in burned
    BY <1>6 DEF Settle, CallInv
  <2>5. OkMeansWritten'
    <3>1. \A a \in Successes' : a.text \in burned' /\ (client' => graph'[a.text] > 0)
      BY <2>1, <2>3, <2>4 DEF GraphInv
    <3>2. \A a, b \in Successes' : a.text = b.text => a = b
      BY <2>3, <2>4 DEF GraphInv
    <3> QED
      BY <3>1, <3>2
  <2>6. ASSUME NEW d \in Caller \ {c}, NEW a \in Successes', Busy(d)'
        PROVE  a.text # calls'[d].text
    <3>1. Busy(d) /\ calls'[d] = calls[d]
      BY <2>2, <2>6 DEF Busy
    <3>2. calls[d].text # calls[c].text
      BY <2>4, <3>1 DEF CallInv
    <3> QED
      BY <2>3, <3>1, <3>2 DEF GraphInv
  <2>7. ~Busy(c)'
    BY <2>2 DEF Busy, Idle
  <2> QED
    BY <2>1, <2>2, <2>5, <2>6, <2>7 DEF GraphInv, Idle
<1> QED
  BY <1>1, <1>2, <1>3, <1>4, <1>5, <1>6 DEF Next, Receive

(* Nothing is in the graph when the service first starts. *)
LEMMA GraphInit == Init => CallInv /\ GraphInv
  BY FS_EmptySet
  DEF Init, CallInv, GraphInv, Busy, NoCalls, Idle, RedeliveryWritesOnce, OkMeansWritten,
      Successes

(* The invariant of the calls and the graph. *)
LEMMA GraphCorrect == Spec => [](TypeOK /\ CallInv /\ GraphInv)
<1>1. Init => TypeOK /\ CallInv /\ GraphInv
  BY TypeInit, GraphInit
<1>2. TypeOK /\ CallInv /\ GraphInv /\ [Next]_vars => (TypeOK /\ CallInv /\ GraphInv)'
  BY TypeStep, CallStep, GraphStep
<1> QED
  BY <1>1, <1>2, PTL DEF Spec

(* However often a message is delivered, and whatever else is in the         *)
(* database, one process commits it at most once (write_gate.py:207 before   *)
(* 234).                                                                     *)
THEOREM RedeliveryCorrect == Spec => []RedeliveryWritesOnce
<1>1. TypeOK /\ CallInv /\ GraphInv => RedeliveryWritesOnce
  BY DEF GraphInv
<1> QED
  BY <1>1, GraphCorrect, PTL

(* An ok answer to a message that reached the gate spent the nonce, is the   *)
(* only one that did, and means the message was committed if the process has *)
(* a database (kernel.py:267-272, write_gate.py:234-250).                    *)
THEOREM OkCorrect == Spec => []OkMeansWritten
<1>1. TypeOK /\ CallInv /\ GraphInv => OkMeansWritten
  BY DEF GraphInv
<1> QED
  BY <1>1, GraphCorrect, PTL
-----------------------------------------------------------------------------
(* The fuse *)

LEMMA OneMore ==
    ASSUME NEW n \in Nat
    PROVE  Cost * (n + 1) = Cost * n + Cost
  BY FuseAssumption

(* PaidFor is a finite set of answers. *)
LEMMA PaidForFinite ==
    ASSUME CallInv
    PROVE  IsFiniteSet(PaidFor) /\ Cardinality(PaidFor) \in Nat
<1>1. PaidFor \in SUBSET answers
  BY DEF PaidFor
<1> QED
  BY <1>1, FS_Subset, FS_CardinalityType DEF CallInv

(* An answer that is not ok, or not of a billed message, pays for nothing. *)
LEMMA Unpaid ==
    ASSUME NEW a, answers' = answers \cup {a}, a.status # "ok" \/ a.text \notin Billed
    PROVE  PaidFor' = PaidFor
  BY DEF PaidFor

(* The billing hook charges an ok answer once, and refuses the one that goes *)
(* over the budget after charging it (billing_fuse.py:117-163).              *)
LEMMA BillSpends ==
    ASSUME TypeOK, CallInv, SpendIsBilled, NEW s \in Nat, NEW x \in Text,
           \A a \in answers : a.session # s, Bill(s, x)
    PROVE  SpendIsBilled'
<1> DEFINE n == Cardinality(PaidFor)
           refused == [session |-> s, text |-> x, status |-> "exhausted", at |-> now]
           done == [session |-> s, text |-> x, status |-> "ok", at |-> now]
<1>1. n \in Nat /\ IsFiniteSet(PaidFor)
  BY PaidForFinite
<1>2. fuse.spend \in Nat /\ fuse.tripped \in BOOLEAN /\ Budget \in Nat /\ Cost \in Nat
  BY FuseAssumption DEF TypeOK, Fuse
<1>3. Cost * (n + 1) = Cost * n + Cost /\ Cost * n \in Nat /\ Cost * (n + 0) = Cost * n
  BY <1>1, <1>2, OneMore
<1>4. CASE x \notin Billed
  <2>1. fuse' = fuse /\ answers' = answers \cup {done}
    BY <1>4 DEF Bill, Answered
  <2>2. PaidFor' = PaidFor
    BY <2>1, <1>4, Unpaid
  <2> QED
    BY <2>1, <2>2 DEF SpendIsBilled
<1>5. CASE x \in Billed /\ fuse.tripped
  <2>1. fuse' = fuse /\ answers' = answers \cup {refused}
    BY <1>5 DEF Bill, Answered, Charged, Refuses
  <2>2. PaidFor' = PaidFor
    BY <2>1, Unpaid
  <2> QED
    BY <2>1, <2>2 DEF SpendIsBilled
<1>6. CASE x \in Billed /\ ~fuse.tripped
  <2>1. fuse.spend = Cost * n /\ Cost * n <= Budget
    BY <1>3, <1>6 DEF SpendIsBilled
  <2>2. fuse'.spend = Cost * n + Cost /\ (fuse'.tripped <=> Cost * n + Cost > Budget)
    BY <1>6, <2>1 DEF Bill, Charged
  <2>3. CASE Cost * n + Cost > Budget
    <3>1. answers' = answers \cup {refused}
      BY <1>6, <2>1, <2>3 DEF Bill, Answered, Refuses
    <3>2. PaidFor' = PaidFor
      BY <3>1, Unpaid
    <3> QED
      BY <3>2, <2>1, <2>2, <2>3, <1>3 DEF SpendIsBilled
  <2>4. CASE ~(Cost * n + Cost > Budget)
    <3>1. answers' = answers \cup {done}
      BY <1>6, <2>1, <2>4 DEF Bill, Answered, Refuses
    <3>2. PaidFor' = PaidFor \cup {done} /\ done \notin PaidFor
      BY <3>1, <1>6 DEF PaidFor
    <3>3. Cardinality(PaidFor') = n + 1
      BY <3>2, <1>1, FS_AddElement
    <3>4. Cost * n + Cost <= Budget
      BY <2>4, <1>2, <1>3
    <3>5. Cost * (n + 1 + 0) = Cost * n + Cost
      BY <1>1, <1>3
    <3> QED
      BY <3>3, <3>4, <3>5, <2>2, <2>4, <1>3 DEF SpendIsBilled
  <2> QED
    BY <2>3, <2>4
<1> QED
  BY <1>2, <1>4, <1>5, <1>6

(* Answers that are not ok leave the fuse as it is (kernel.py:138-214). *)
LEMMA OthersSpendNothing ==
    ASSUME SpendIsBilled, UNCHANGED fuse, NEW s, NEW x, NEW st, st # "ok", Answered(s, x, st)
    PROVE  SpendIsBilled'
<1>1. PaidFor' = PaidFor
  BY Unpaid DEF Answered
<1> QED
  BY <1>1 DEF SpendIsBilled

(* Calls that overlap in the database are billed when they end, each once. *)
LEMMA SpendStep == TypeOK /\ CallInv /\ SpendIsBilled /\ [Next]_vars => SpendIsBilled'
<1> SUFFICES ASSUME TypeOK, CallInv, SpendIsBilled, [Next]_vars
             PROVE  SpendIsBilled'
  OBVIOUS
<1>1. CASE Tick \/ UNCHANGED vars
  BY <1>1 DEF Tick, vars, process, SpendIsBilled, PaidFor
<1>2. CASE Restart
  <2>1. PaidFor' = {} /\ fuse' = Unspent
    BY <1>2 DEF Restart, PaidFor
  <2> QED
    BY <2>1, FS_EmptySet, FuseAssumption DEF Unspent, SpendIsBilled
<1>8. ASSUME NEW x \in Text, SimulateWrite(x)
      PROVE  SpendIsBilled'
  <2>1. sessions + 1 \in Nat /\ \A a \in answers : a.session # sessions + 1
    BY DEF CallInv, TypeOK, Answer
  <2> QED
    BY <1>8, <2>1, BillSpends DEF SimulateWrite
<1>3. ASSUME NEW x \in Text, Intercept(x) \/ Trip(x) \/ Block(x) \/ GateRefuses(x)
      PROVE  SpendIsBilled'
  BY <1>3, OthersSpendNothing DEF Intercept, Trip, Block, GateRefuses, Fails
<1>4. ASSUME NEW x \in Text, Hint(x)
      PROVE  SpendIsBilled'
  <2>1. CASE Bill(sessions + 1, x)
    <3>1. sessions + 1 \in Nat /\ \A a \in answers : a.session # sessions + 1
      BY DEF CallInv, TypeOK, Answer
    <3> QED
      BY <2>1, <3>1, BillSpends
  <2>2. CASE Fails(Checked(breaker, x, now), sessions + 1, x) /\ UNCHANGED fuse
    BY <2>2, OthersSpendNothing DEF Fails
  <2> QED
    BY <1>4, <2>1, <2>2 DEF Hint
<1>5. ASSUME NEW x \in Text, NEW c \in Caller, StartWrite(c, x)
      PROVE  SpendIsBilled'
  BY <1>5 DEF StartWrite, SpendIsBilled, PaidFor
<1>6. ASSUME NEW c \in Caller, Commit(c)
      PROVE  SpendIsBilled'
  BY <1>6 DEF Commit, SpendIsBilled, PaidFor
<1>7. ASSUME NEW c \in Caller, Settle(c)
      PROVE  SpendIsBilled'
  <2>1. CASE Bill(calls[c].session, calls[c].text)
    <3>1. /\ calls[c].session \in Nat /\ calls[c].text \in Text
          /\ \A a \in answers : a.session # calls[c].session
      BY <1>7, BusyCall DEF CallInv, Settle
    <3> QED
      BY <2>1, <3>1, BillSpends
  <2>2. CASE Fails(breaker, calls[c].session, calls[c].text) /\ UNCHANGED fuse
    BY <2>2, OthersSpendNothing DEF Fails
  <2> QED
    BY <1>7, <2>1, <2>2 DEF Settle
<1> QED
  BY <1>1, <1>2, <1>3, <1>4, <1>5, <1>6, <1>7, <1>8 DEF Next, Receive

(* The fuse counts what was answered: every ok answer of a billed message    *)
(* once, within the budget, and the one that went over it, for any budget,   *)
(* cost and number of overlapping calls.                                     *)
THEOREM SpendCorrect == Spec => []SpendIsBilled
<1>1. Init => SpendIsBilled
  BY FS_EmptySet, FuseAssumption DEF Init, Unspent, SpendIsBilled, PaidFor
<1>2. TypeOK /\ CallInv /\ GraphInv /\ SpendIsBilled /\ [Next]_vars => SpendIsBilled'
  BY SpendStep
<1> QED
  BY <1>1, <1>2, GraphCorrect, PTL DEF Spec
-----------------------------------------------------------------------------
(* The breaker *)

\* The errors of E in the Window that ends at t.
Recent(E, t) == {e \in E : t - Window < e.at /\ e.at <= t}

\* What is filed under x in b are errors of x, all of the last Window among them.
FiledFor(b, x) ==
    /\ IsFiniteSet(b.failures[x]) /\ IsFiniteSet(Errors(x))
    /\ Errors(x) \subseteq Failure /\ \A e \in Errors(x) : e.at <= now
    /\ b.failures[x] \subseteq Errors(x)
    /\ Recent(Errors(x), now) \subseteq b.failures[x]

\* An open circuit can be closed by is_open; a closed one has room for an error.
CircuitFor(b, x) ==
    /\ x \in b.open => b.failures[x] # {}
    /\ x \notin b.open => Cardinality(Recent(Errors(x), now)) < Threshold

BreakerFits(b) == \A x \in Text : FiledFor(b, x) /\ CircuitFor(b, x)

\* A call in the database may still fail after its circuit opened.
FlightInv ==
    \A c \in Caller : Busy(c) => Cardinality(Recent(Errors(calls[c].text), now)) <= Threshold

BreakerInv == BreakerFits(breaker) /\ FlightInv /\ RetryStormBounded /\ TrippedOnlyIfRecent

(* Subsets of what is filed can be counted. *)
LEMMA RecentFinite ==
    ASSUME NEW E, IsFiniteSet(E), NEW t
    PROVE  IsFiniteSet(Recent(E, t)) /\ Cardinality(Recent(E, t)) \in Nat
<1>1. Recent(E, t) \in SUBSET E
  BY DEF Recent
<1> QED
  BY <1>1, FS_Subset, FS_CardinalityType

(* The set the property counts. *)
LEMMA UpToIsRecent == \A x, t : ErrorsUpTo(x, t) = Recent(Errors(x), t)
  BY DEF ErrorsUpTo, Recent

(* is_open and the reset it makes (circuit_breaker.py:176-204) leave a       *)
(* breaker that fits, and x closed unless its circuit is still open.         *)
LEMMA CheckedFits ==
    ASSUME TypeOK, BreakerFits(breaker), NEW x \in Text
    PROVE  /\ Checked(breaker, x, now) \in Breaker
           /\ BreakerFits(Checked(breaker, x, now))
           /\ ~IsOpen(breaker, x, now) => x \notin Checked(breaker, x, now).open
<1> DEFINE b == Checked(breaker, x, now)
<1>1. b \in Breaker
  BY CheckedType DEF TypeOK
<1>2. ~IsOpen(breaker, x, now) => x \notin b.open
  BY DEF Checked, Reset
<1>3. CASE b = breaker
  BY <1>1, <1>2, <1>3
<1>4. CASE b = Reset(breaker, x) /\ x \in breaker.open /\ ~IsOpen(breaker, x, now)
  <2>1. breaker.failures \in [Text -> SUBSET Failure] /\ now \in Nat
    BY DEF TypeOK, Breaker
  <2>2. /\ b.failures[x] = {} /\ x \notin b.open
        /\ \A y \in Text \ {x} : /\ b.failures[y] = breaker.failures[y]
                                 /\ (y \in b.open <=> y \in breaker.open)
    BY <1>4, <2>1 DEF Reset
  <2>3. \A f \in breaker.failures[x] : ~(now - f.at <= Window)
    BY <1>4 DEF IsOpen
  <2>4. Recent(Errors(x), now) = {}
    <3>1. \A f \in Errors(x) : f.at \in Nat
      BY DEF BreakerFits, FiledFor, Failure
    <3>2. Recent(Errors(x), now) \subseteq breaker.failures[x]
      BY DEF BreakerFits, FiledFor
    <3> QED
      BY <2>1, <2>3, <3>1, <3>2, BreakerAssumption DEF Recent
  <2>5. FiledFor(b, x)
    BY <2>2, <2>4, FS_EmptySet DEF BreakerFits, FiledFor
  <2>6. CircuitFor(b, x)
    BY <2>2, <2>4, FS_EmptySet, BreakerAssumption DEF CircuitFor
  <2>7. \A y \in Text \ {x} : FiledFor(b, y) /\ CircuitFor(b, y)
    BY <2>2 DEF BreakerFits, FiledFor, CircuitFor
  <2> QED
    BY <1>1, <1>2, <2>5, <2>6, <2>7 DEF BreakerFits
<1> QED
  BY <1>3, <1>4 DEF Checked

(* An answer that is not an error is none of the errors the breaker filed. *)
LEMMA NoNewError ==
    ASSUME NEW s, NEW x, NEW st, st # "error", Answered(s, x, st), NEW y
    PROVE  Errors(y)' = Errors(y)
<1>1. {c \in answers' : c.text = y /\ c.status = "error"}
        = {c \in answers : c.text = y /\ c.status = "error"}
  BY DEF Answered
<1> QED
  BY <1>1 DEF Errors

(* An error of x is one more error of x, and of no other text                *)
(* (kernel.py:184-214).                                                      *)
LEMMA NewError ==
    ASSUME NEW b, NEW s, NEW x, Fails(b, s, x)
    PROVE  /\ Errors(x)' = Errors(x) \cup {[session |-> s, at |-> now]}
           /\ \A y \in Text \ {x} : Errors(y)' = Errors(y)
<1> DEFINE a == [session |-> s, text |-> x, status |-> "error", at |-> now]
<1>1. answers' = answers \cup {a}
  BY DEF Fails, Answered
<1>2. {c \in answers' : c.text = x /\ c.status = "error"}
        = {c \in answers : c.text = x /\ c.status = "error"} \cup {a}
  BY <1>1
<1>3. \A y \in Text \ {x} : {c \in answers' : c.text = y /\ c.status = "error"}
                             = {c \in answers : c.text = y /\ c.status = "error"}
  BY <1>1
<1>4. Errors(x)' = Errors(x) \cup {[session |-> s, at |-> now]}
  <2>1. a.session = s /\ a.at = now
    OBVIOUS
  <2> QED
    BY <1>2, <2>1, Zenon DEF Errors
<1> QED
  BY <1>3, <1>4 DEF Errors

(* record_failure (circuit_breaker.py:113-163): what it keeps has every      *)
(* error of the last Window, the new one included, and unless it opens the   *)
(* circuit there is room for another.                                        *)
LEMMA FailFits ==
    ASSUME TypeOK, NEW b \in Breaker, BreakerFits(b), NEW s \in Nat, NEW x \in Text,
           Fails(b, s, x), UNCHANGED now
    PROVE  BreakerFits(breaker)'
<1> DEFINE f == [session |-> s, at |-> now]
           K == Kept(b.failures[x] \cup {f}, now)
<1>1. b.failures \in [Text -> SUBSET Failure] /\ now \in Nat /\ f \in Failure /\ f.at = now
  BY DEF TypeOK, Breaker, Failure
<1>2. /\ breaker'.failures[x] = K
      /\ (x \in breaker'.open <=> x \in b.open \/ Cardinality(K) >= Threshold)
      /\ \A y \in Text \ {x} : /\ breaker'.failures[y] = b.failures[y]
                               /\ (y \in breaker'.open <=> y \in b.open)
  BY <1>1 DEF Fails, Failed
<1>3. Errors(x)' = Errors(x) \cup {f} /\ \A y \in Text \ {x} : Errors(y)' = Errors(y)
  BY NewError
<1>4. FiledFor(b, x) /\ CircuitFor(b, x)
  BY DEF BreakerFits
<1>5. f \in K
  BY <1>1, BreakerAssumption DEF Kept
<1>6. IsFiniteSet(b.failures[x] \cup {f}) /\ IsFiniteSet(Errors(x) \cup {f})
  BY <1>4, FS_AddElement DEF FiledFor
<1>7. IsFiniteSet(K) /\ Cardinality(K) \in Nat
  <2>1. K \in SUBSET (b.failures[x] \cup {f})
    BY DEF Kept
  <2> QED
    BY <2>1, <1>6, FS_Subset, FS_CardinalityType
<1>8. Recent(Errors(x) \cup {f}, now) \subseteq K
  BY <1>1, <1>4 DEF Recent, Kept, FiledFor
<1>9. Cardinality(Recent(Errors(x) \cup {f}, now)) <= Cardinality(K)
  BY <1>7, <1>8, FS_Subset
<1>10. Cardinality(Recent(Errors(x) \cup {f}, now)) \in Nat
  BY <1>6, RecentFinite
<1>11. FiledFor(breaker, x)'
  <2>1. K \subseteq Errors(x) \cup {f}
    BY <1>4 DEF Kept, FiledFor
  <2>2. \A e \in Errors(x) \cup {f} : e \in Failure /\ e.at <= now
    BY <1>1, <1>4 DEF FiledFor
  <2> QED
    BY <1>2, <1>3, <1>6, <1>7, <1>8, <2>1, <2>2 DEF FiledFor
<1>12. CircuitFor(breaker, x)'
  <2>1. x \notin breaker'.open => Cardinality(Recent(Errors(x) \cup {f}, now)) < Threshold
    BY <1>2, <1>7, <1>9, <1>10, BreakerAssumption
  <2> QED
    BY <1>2, <1>3, <1>5, <2>1 DEF CircuitFor
<1>13. ASSUME NEW y \in Text \ {x}
       PROVE  FiledFor(breaker, y)' /\ CircuitFor(breaker, y)'
  BY <1>2, <1>3 DEF BreakerFits, FiledFor, CircuitFor
<1> QED
  BY <1>11, <1>12, <1>13 DEF BreakerFits
-----------------------------------------------------------------------------
(* What a step adds to the errors of a Window *)

Allowance(x) == IF ReachesGate(x) THEN 1 ELSE 0

(* A step that ends no call with an error and turns nothing away adds        *)
(* nothing that the properties of the breaker count.                         *)
LEMMA QuietKeeps ==
    ASSUME TypeOK, BreakerInv, UNCHANGED now, BreakerFits(breaker'),
           \A x \in Text : Errors(x)' = Errors(x),
           \A a \in answers' : a \in answers \/ a.status # "tripped"
    PROVE  BreakerFits(breaker)' /\ RetryStormBounded' /\ TrippedOnlyIfRecent'
<1>1. BreakerFits(breaker)'
  BY DEF BreakerFits, FiledFor, CircuitFor
<1>2. RetryStormBounded'
  BY DEF BreakerInv, RetryStormBounded, ErrorsUpTo
<1>3. TrippedOnlyIfRecent'
  <2>1. \A a \in answers : a.text \in Text
    BY DEF TypeOK, Answer
  <2> QED
    BY <2>1 DEF BreakerInv, TrippedOnlyIfRecent
<1> QED
  BY <1>1, <1>2, <1>3

(* An error of x, where there was room for one, leaves every Window within   *)
(* its bound.                                                                *)
LEMMA ErrorKeeps ==
    ASSUME TypeOK, BreakerInv, UNCHANGED now, NEW b \in Breaker, BreakerFits(b),
           NEW s \in Nat, NEW x \in Text, Fails(b, s, x),
           Cardinality(Recent(Errors(x), now)) < Threshold + Allowance(x)
    PROVE  /\ BreakerFits(breaker)' /\ RetryStormBounded' /\ TrippedOnlyIfRecent'
           /\ Cardinality(Recent(Errors(x)', now)) <= Cardinality(Recent(Errors(x), now)) + 1
           /\ Cardinality(Recent(Errors(x)', now)) \in Nat
<1> DEFINE f == [session |-> s, at |-> now]
           R == Recent(Errors(x), now)
<1>1. BreakerFits(breaker)'
  BY FailFits
<1>2. Errors(x)' = Errors(x) \cup {f} /\ \A y \in Text \ {x} : Errors(y)' = Errors(y)
  BY NewError
<1>3. IsFiniteSet(R) /\ Cardinality(R) \in Nat
  BY RecentFinite DEF BreakerFits, FiledFor
<1>4. IsFiniteSet(R \cup {f}) /\ Cardinality(R \cup {f}) <= Cardinality(R) + 1
      /\ Cardinality(R \cup {f}) \in Nat
  <2>1. /\ IsFiniteSet(R \cup {f})
        /\ Cardinality(R \cup {f}) = IF f \in R THEN Cardinality(R) ELSE Cardinality(R) + 1
    BY <1>3, FS_AddElement
  <2> QED
    BY <1>3, <2>1
<1>5. now \in Nat /\ Threshold \in Nat /\ Window \in Nat \ {0} /\ f.at = now
  BY BreakerAssumption DEF TypeOK
<1>6. Recent(Errors(x) \cup {f}, now) = R \cup {f}
  BY <1>5 DEF Recent
<1>7. ASSUME NEW t \in 0..now, t # now
      PROVE  Recent(Errors(x) \cup {f}, t) = Recent(Errors(x), t)
  BY <1>5, <1>7 DEF Recent
<1>8. Allowance(x) \in Nat
  BY DEF Allowance
<1>9. RetryStormBounded'
  <2>1. ASSUME NEW y \in Text, NEW t \in 0..now
        PROVE  Cardinality(Recent(Errors(y)', t)) <= Threshold + Allowance(y)
    <3>1. CASE y # x \/ t # now
      <4>1. Recent(Errors(y)', t) = Recent(Errors(y), t)
        BY <3>1, <1>2, <1>7
      <4>2. Cardinality(Recent(Errors(y), t)) <= Threshold + Allowance(y)
        BY UpToIsRecent DEF BreakerInv, RetryStormBounded, Allowance
      <4> QED
        BY <4>1, <4>2
    <3>2. CASE y = x /\ t = now
      <4>1. Recent(Errors(y)', t) = R \cup {f}
        BY <3>2, <1>2, <1>6
      <4>2. Cardinality(R) < Threshold + Allowance(x)
        OBVIOUS
      <4>3. Cardinality(R \cup {f}) <= Threshold + Allowance(x)
        BY <4>2, <1>3, <1>4, <1>5, <1>8
      <4> QED
        BY <3>2, <4>1, <4>3
    <3> QED
      BY <3>1, <3>2
  <2> QED
    BY <2>1 DEF RetryStormBounded, ErrorsUpTo, Recent, Allowance
<1>10. TrippedOnlyIfRecent'
  <2>1. \A a \in answers' : a.status = "tripped" => a \in answers
    BY DEF Fails, Answered
  <2>2. \A a \in answers : a.text \in Text
    BY DEF TypeOK, Answer
  <2>3. \A y \in Text : Errors(y) \subseteq Errors(y)'
    BY <1>2
  <2> QED
    BY <2>1, <2>2, <2>3 DEF BreakerInv, TrippedOnlyIfRecent
<1> QED
  BY <1>1, <1>2, <1>4, <1>6, <1>9, <1>10
-----------------------------------------------------------------------------
(* The breaker's invariant *)

(* Where a circuit is closed there is room for an error. *)
LEMMA RoomIfClosed ==
    ASSUME TypeOK, NEW b \in Breaker, BreakerFits(b), NEW x \in Text, x \notin b.open
    PROVE  /\ Cardinality(Recent(Errors(x), now)) \in Nat
           /\ Cardinality(Recent(Errors(x), now)) < Threshold
           /\ Cardinality(Recent(Errors(x), now)) < Threshold + Allowance(x)
<1>1. Cardinality(Recent(Errors(x), now)) \in Nat
  BY RecentFinite DEF BreakerFits, FiledFor
<1>2. Cardinality(Recent(Errors(x), now)) < Threshold
  BY DEF BreakerFits, CircuitFor
<1>3. Allowance(x) \in Nat /\ Threshold \in Nat
  BY BreakerAssumption DEF Allowance
<1> QED
  BY <1>1, <1>2, <1>3

(* A message answered at once files an error only where a closed circuit     *)
(* left room for it, and is turned away only over an error of the last       *)
(* Window (kernel.py:100-116).                                               *)
LEMMA BreakerStepAtOnce ==
    ASSUME TypeOK, CallInv, BreakerInv, NEW x \in Text, Receive(x)
    PROVE  BreakerInv'
<1> DEFINE b == Checked(breaker, x, now)
<1>1. b \in Breaker /\ BreakerFits(b) /\ (~IsOpen(breaker, x, now) => x \notin b.open)
  BY CheckedFits DEF BreakerInv
<1>2. UNCHANGED <<now, calls>>
  BY DEF Receive, Intercept, Trip, Block, Hint, GateRefuses, SimulateWrite
<1>4. ASSUME Fails(b, sessions + 1, x), ~IsOpen(breaker, x, now)
      PROVE  BreakerInv'
  <2>1. sessions + 1 \in Nat
    BY DEF TypeOK
  <2>2. x \notin b.open
    BY <1>1, <1>4
  <2>3. /\ BreakerFits(breaker)' /\ RetryStormBounded' /\ TrippedOnlyIfRecent'
        /\ Cardinality(Recent(Errors(x)', now)) <= Cardinality(Recent(Errors(x), now)) + 1
        /\ Cardinality(Recent(Errors(x)', now)) \in Nat
    BY <1>1, <1>2, <1>4, <2>1, <2>2, ErrorKeeps, RoomIfClosed
  <2>4. \A y \in Text \ {x} : Errors(y)' = Errors(y)
    BY <1>4, NewError
  <2>5. Cardinality(Recent(Errors(x)', now)) <= Threshold
    BY <1>1, <2>2, <2>3, RoomIfClosed, BreakerAssumption
  <2>6. FlightInv'
    <3>1. ASSUME NEW y \in Text, NEW c \in Caller, Busy(c), calls[c].text = y
          PROVE  Cardinality(Recent(Errors(y)', now)) <= Threshold
      BY <3>1, <2>4, <2>5 DEF BreakerInv, FlightInv
    <3>2. \A c \in Caller : Busy(c) => calls[c].text \in Text
      BY BusyCall
    <3> QED
      BY <1>2, <3>1, <3>2 DEF FlightInv, Busy
  <2> QED
    BY <2>3, <2>6 DEF BreakerInv
<1>5. ASSUME NEW st \in Status \ {"error", "tripped"}, Answered(sessions + 1, x, st),
             BreakerFits(breaker')
      PROVE  BreakerInv'
  <2>1. \A y \in Text : Errors(y)' = Errors(y)
    BY <1>5, NoNewError
  <2>2. \A a \in answers' : a \in answers \/ a.status # "tripped"
    BY <1>5 DEF Answered
  <2>4. BreakerFits(breaker)' /\ RetryStormBounded' /\ TrippedOnlyIfRecent'
    BY <1>2, <1>5, <2>1, <2>2, QuietKeeps
  <2>3. FlightInv'
    <3>1. \A c \in Caller : Busy(c) => calls[c].text \in Text
      BY BusyCall
    <3> QED
      BY <1>2, <2>1, <3>1 DEF BreakerInv, FlightInv, Busy
  <2> QED
    BY <2>4, <2>3 DEF BreakerInv
<1>6. CASE Intercept(x)
  <2>1. BreakerFits(breaker')
    BY <1>6 DEF Intercept, BreakerInv
  <2> QED
    BY <1>5, <1>6, <2>1 DEF Intercept, Status
<1>7. CASE Trip(x)
  <2> DEFINE a == [session |-> sessions + 1, text |-> x, status |-> "tripped", at |-> now]
  <2>1. answers' = answers \cup {a} /\ UNCHANGED breaker /\ IsOpen(breaker, x, now)
    BY <1>7 DEF Trip, Answered
  <2>2. \A y : Errors(y)' = Errors(y)
    BY <1>7, NoNewError DEF Trip
  <2>3. BreakerFits(breaker)' /\ RetryStormBounded' /\ FlightInv'
    BY <1>2, <2>1, <2>2
    DEF BreakerInv, BreakerFits, FiledFor, CircuitFor, RetryStormBounded, ErrorsUpTo,
        FlightInv, Busy
  <2>4. PICK e \in breaker.failures[x] : now - e.at <= Window
    BY <2>1 DEF IsOpen, BreakerInv, BreakerFits, CircuitFor
  <2>5. e \in Errors(x) /\ e.at <= now
    BY <2>4 DEF BreakerInv, BreakerFits, FiledFor
  <2>6. TrippedOnlyIfRecent'
    <3>1. \E g \in Errors(x) : g.at <= a.at /\ a.at - g.at <= Window
      BY <2>4, <2>5
    <3>2. a.text = x
      OBVIOUS
    <3> QED
      BY <2>1, <2>2, <3>1, <3>2 DEF BreakerInv, TrippedOnlyIfRecent
  <2> QED
    BY <2>3, <2>6 DEF BreakerInv
<1>8. CASE Block(x)
  <2>1. BreakerFits(breaker')
    BY <1>1, <1>8 DEF Block
  <2> QED
    BY <1>5, <1>8, <2>1 DEF Block, Status
<1>9. CASE Hint(x)
  <2>1. ~IsOpen(breaker, x, now)
    BY <1>9 DEF Hint, Admitted, PassesBreaker
  <2>2. CASE breaker' = b /\ Bill(sessions + 1, x)
    <3>1. BreakerFits(breaker')
      BY <1>1, <2>2
    <3> QED
      BY <1>5, <2>2, <3>1 DEF Bill, Status
  <2> QED
    BY <1>4, <1>9, <2>1, <2>2 DEF Hint
<1>10. CASE GateRefuses(x)
  <2>1. ~IsOpen(breaker, x, now)
    BY <1>10 DEF GateRefuses, Admitted, PassesBreaker
  <2>2. CASE breaker' = b /\ Answered(sessions + 1, x, "blocked")
    <3>1. BreakerFits(breaker')
      BY <1>1, <2>2
    <3> QED
      BY <1>5, <2>2, <3>1 DEF Status
  <2> QED
    BY <1>4, <1>10, <2>1, <2>2 DEF GateRefuses
<1>11. CASE SimulateWrite(x)
  <2>1. BreakerFits(breaker')
    BY <1>1, <1>11 DEF SimulateWrite
  <2> QED
    BY <1>5, <1>11, <2>1 DEF SimulateWrite, Bill, Status
<1> QED
  BY <1>6, <1>7, <1>8, <1>9, <1>10, <1>11 DEF Receive

(* A call that ends may add one error to those that opened the circuit while *)
(* it was in the database: no other call of its text is there.               *)
LEMMA BreakerStepSettle ==
    ASSUME TypeOK, CallInv, BreakerInv, NEW c \in Caller, Settle(c)
    PROVE  BreakerInv'
<1> DEFINE x == calls[c].text
           s == calls[c].session
<1>1. Busy(c) /\ x \in Text /\ s \in Nat /\ ReachesGate(x)
  BY BusyCall DEF Settle, CallInv
<1>2. UNCHANGED now /\ calls' = [calls EXCEPT ![c] = Idle]
  BY DEF Settle
<1>3. ~Busy(c)' /\ \A d \in Caller \ {c} : calls'[d] = calls[d] /\ (Busy(d)' <=> Busy(d))
  BY <1>2 DEF TypeOK, Busy, Idle
<1>4. breaker \in Breaker /\ BreakerFits(breaker)
  BY DEF TypeOK, BreakerInv
<1>5. CASE Bill(s, x) /\ UNCHANGED breaker
  <2>1. PICK st \in Status \ {"error", "tripped"} : Answered(s, x, st)
    BY <1>5 DEF Bill, Status
  <2>2. \A y \in Text : Errors(y)' = Errors(y)
    BY <2>1, NoNewError
  <2>3. \A a \in answers' : a \in answers \/ a.status # "tripped"
    BY <2>1 DEF Answered
  <2>4. BreakerFits(breaker)' /\ RetryStormBounded' /\ TrippedOnlyIfRecent'
    BY <1>2, <1>4, <1>5, <2>2, <2>3, QuietKeeps
  <2>5. FlightInv'
    <3>1. \A d \in Caller : Busy(d) => calls[d].text \in Text
      BY BusyCall
    <3> QED
      BY <1>2, <1>3, <2>2, <3>1 DEF BreakerInv, FlightInv
  <2> QED
    BY <2>4, <2>5 DEF BreakerInv
<1>6. CASE Fails(breaker, s, x)
  <2>1. Cardinality(Recent(Errors(x), now)) < Threshold + Allowance(x)
    <3>1. Cardinality(Recent(Errors(x), now)) <= Threshold /\ Allowance(x) = 1
      BY <1>1 DEF BreakerInv, FlightInv, Allowance
    <3>2. Cardinality(Recent(Errors(x), now)) \in Nat
      BY <1>1, RecentFinite DEF BreakerInv, BreakerFits, FiledFor
    <3> QED
      BY <3>1, <3>2, BreakerAssumption
  <2>2. BreakerFits(breaker)' /\ RetryStormBounded' /\ TrippedOnlyIfRecent'
    BY <1>1, <1>2, <1>4, <1>6, <2>1, ErrorKeeps
  <2>3. FlightInv'
    <3>1. ASSUME NEW y \in Text, NEW d \in Caller \ {c}, Busy(d), calls[d].text = y
          PROVE  Cardinality(Recent(Errors(y)', now)) <= Threshold
      <4>1. y # x
        BY <1>1, <3>1 DEF CallInv
      <4>2. Errors(y)' = Errors(y)
        BY <1>6, <4>1, NewError
      <4> QED
        BY <3>1, <4>2 DEF BreakerInv, FlightInv
    <3>2. \A d \in Caller : Busy(d) => calls[d].text \in Text
      BY BusyCall
    <3> QED
      BY <1>2, <1>3, <3>1, <3>2 DEF FlightInv
  <2> QED
    BY <2>2, <2>3 DEF BreakerInv
<1> QED
  BY <1>5, <1>6 DEF Settle

(* A call that begins found its circuit closed, so there is room for the     *)
(* error it may end with, whatever its text fails with in the meantime.      *)
LEMMA BreakerStepStart ==
    ASSUME TypeOK, CallInv, BreakerInv, NEW x \in Text, NEW c \in Caller, StartWrite(c, x)
    PROVE  BreakerInv'
<1> DEFINE b == Checked(breaker, x, now)
<1>1. b \in Breaker /\ BreakerFits(b) /\ x \notin b.open
  BY CheckedFits DEF BreakerInv, StartWrite, Admitted, PassesBreaker
<1>2. UNCHANGED <<now, answers>> /\ breaker' = b
  BY DEF StartWrite
<1>3. \A y \in Text : Errors(y)' = Errors(y)
  BY <1>2 DEF Errors
<1>4. BreakerFits(breaker)' /\ RetryStormBounded' /\ TrippedOnlyIfRecent'
  BY <1>1, <1>2, <1>3, QuietKeeps
<1>5. calls'[c].text = x /\ \A d \in Caller \ {c} : calls'[d] = calls[d]
  BY DEF StartWrite, TypeOK
<1>6. Cardinality(Recent(Errors(x), now)) <= Threshold
  BY <1>1, RoomIfClosed, BreakerAssumption
<1>7. FlightInv'
  <2>1. \A d \in Caller : Busy(d) => calls[d].text \in Text
    BY BusyCall
  <2>2. \A d \in Caller \ {c} : Busy(d)' => Busy(d)
    BY <1>5 DEF Busy
  <2> QED
    BY <1>2, <1>3, <1>5, <1>6, <2>1, <2>2 DEF BreakerInv, FlightInv
<1> QED
  BY <1>4, <1>7 DEF BreakerInv

(* As time passes errors leave the Window, and none enter it. *)
LEMMA BreakerStepTick ==
    ASSUME TypeOK, BreakerInv, Tick
    PROVE  BreakerInv'
<1> DEFINE later == now + 1
<1>1. now' = later /\ UNCHANGED <<breaker, answers, calls>> /\ now \in Nat /\ later \in Nat
  BY DEF Tick, process, TypeOK
<1>2. \A y : Errors(y)' = Errors(y)
  BY <1>1 DEF Errors
<1>3. ASSUME NEW y \in Text
      PROVE  /\ Recent(Errors(y), later) \subseteq Recent(Errors(y), now)
             /\ Cardinality(Recent(Errors(y), later)) <= Cardinality(Recent(Errors(y), now))
             /\ Cardinality(Recent(Errors(y), later)) \in Nat
             /\ Cardinality(Recent(Errors(y), now)) \in Nat
  <2>1. FiledFor(breaker, y)
    BY DEF BreakerInv, BreakerFits
  <2>2. Recent(Errors(y), later) \subseteq Recent(Errors(y), now)
    BY <1>1, <2>1, BreakerAssumption DEF FiledFor, Failure, Recent
  <2>3. IsFiniteSet(Recent(Errors(y), now))
    BY <2>1, RecentFinite DEF FiledFor
  <2> QED
    BY <2>1, <2>2, <2>3, FS_Subset, RecentFinite DEF FiledFor
<1>4. ASSUME NEW y \in Text
      PROVE  FiledFor(breaker, y)' /\ CircuitFor(breaker, y)'
  <2>1. FiledFor(breaker, y) /\ CircuitFor(breaker, y)
    BY DEF BreakerInv, BreakerFits
  <2>2. \A e \in Errors(y) : e.at <= later
    BY <1>1, <2>1 DEF FiledFor, Failure
  <2>3. FiledFor(breaker, y)'
    BY <1>1, <1>2, <1>3, <2>1, <2>2 DEF FiledFor
  <2>4. CircuitFor(breaker, y)'
    BY <1>1, <1>2, <1>3, <2>1, BreakerAssumption DEF CircuitFor
  <2> QED
    BY <2>3, <2>4
<1>5. FlightInv'
  <2>1. \A c \in Caller : Busy(c) => calls[c].text \in Text
    BY BusyCall
  <2> QED
    BY <1>1, <1>2, <1>3, <2>1, BreakerAssumption DEF BreakerInv, FlightInv, Busy
<1>6. RetryStormBounded'
  <2>1. ASSUME NEW y \in Text, NEW t \in 0..later
        PROVE  Cardinality(Recent(Errors(y), t)) <= Threshold + Allowance(y)
    <3>1. \A u \in 0..now : Cardinality(Recent(Errors(y), u)) <= Threshold + Allowance(y)
      BY UpToIsRecent DEF BreakerInv, RetryStormBounded, Allowance
    <3>2. CASE t \in 0..now
      BY <3>1, <3>2
    <3>3. CASE t = later
      <4>1. Cardinality(Recent(Errors(y), now)) <= Threshold + Allowance(y)
        BY <1>1, <3>1
      <4>2. Threshold + Allowance(y) \in Nat
        BY BreakerAssumption DEF Allowance
      <4> QED
        BY <1>3, <3>3, <4>1, <4>2
    <3> QED
      BY <1>1, <3>2, <3>3
  <2> QED
    BY <1>1, <1>2, <2>1 DEF RetryStormBounded, ErrorsUpTo, Recent, Allowance
<1>7. TrippedOnlyIfRecent'
  BY <1>1, <1>2 DEF BreakerInv, TrippedOnlyIfRecent
<1> QED
  BY <1>4, <1>5, <1>6, <1>7 DEF BreakerInv, BreakerFits

(* A new process starts with every circuit closed and no error. *)
LEMMA BreakerFresh ==
    breaker = AllClosed /\ answers = {} /\ calls = NoCalls => BreakerInv
<1> SUFFICES ASSUME breaker = AllClosed, answers = {}, calls = NoCalls
             PROVE  BreakerInv
  OBVIOUS
<1>1. \A y : Errors(y) = {}
  BY DEF Errors
<1>2. \A t : Recent({}, t) = {}
  BY DEF Recent
<1>3. \A y \in Text : FiledFor(breaker, y) /\ CircuitFor(breaker, y)
  BY <1>1, <1>2, FS_EmptySet, BreakerAssumption DEF AllClosed, FiledFor, CircuitFor
<1>4. RetryStormBounded
  <2>1. ASSUME NEW x
        PROVE  Cardinality({}) <= Threshold + (IF ReachesGate(x) THEN 1 ELSE 0)
    BY FS_EmptySet, BreakerAssumption
  <2> QED
    BY <1>1, <1>2, <2>1, UpToIsRecent DEF RetryStormBounded
<1>5. FlightInv /\ TrippedOnlyIfRecent
  BY DEF FlightInv, Busy, NoCalls, Idle, TrippedOnlyIfRecent
<1> QED
  BY <1>3, <1>4, <1>5 DEF BreakerInv, BreakerFits

(* Every step of the kernel keeps the breaker's invariant. *)
LEMMA BreakerStep == TypeOK /\ CallInv /\ BreakerInv /\ [Next]_vars => BreakerInv'
<1> SUFFICES ASSUME TypeOK, CallInv, BreakerInv, [Next]_vars
             PROVE  BreakerInv'
  OBVIOUS
<1> USE DEF BreakerInv, BreakerFits, FiledFor, CircuitFor, FlightInv, RetryStormBounded,
            TrippedOnlyIfRecent, ErrorsUpTo, Errors, Busy
<1>1. CASE UNCHANGED vars
  BY <1>1 DEF vars, process
<1>2. ASSUME NEW c \in Caller, Commit(c)
      PROVE  BreakerInv'
  <2>1. calls[c] \in Call
    BY <1>2, BusyCall DEF Commit
  <2>2. /\ calls'[c].text = calls[c].text /\ calls[c].pc # "idle"
        /\ \A d \in Caller \ {c} : calls'[d] = calls[d]
    BY <1>2, <2>1 DEF Commit, TypeOK, Call
  <2>3. UNCHANGED <<now, breaker, answers>>
    BY <1>2 DEF Commit
  <2>4. FlightInv'
    BY <2>2, <2>3
  <2> QED
    BY <2>3, <2>4
<1>3. CASE Restart
  <2>1. (breaker = AllClosed /\ answers = {} /\ calls = NoCalls)'
    BY <1>3 DEF Restart
  <2> QED
    BY <2>1, BreakerFresh, PTL
<1> QED
  BY <1>1, <1>2, <1>3, BreakerStepAtOnce, BreakerStepSettle, BreakerStepStart, BreakerStepTick
  DEF Next, Receive

(* The invariant of the breaker. *)
LEMMA BreakerCorrect == Spec => []BreakerInv
<1>1. Init => BreakerInv
  BY BreakerFresh DEF Init
<1>2. (TypeOK /\ CallInv /\ GraphInv) /\ BreakerInv /\ [Next]_vars => BreakerInv'
  BY BreakerStep
<1> QED
  BY <1>1, <1>2, GraphCorrect, PTL DEF Spec

(* In any stretch of Window a text gets at most Threshold errors, and one    *)
(* more if a call of it was in the database when its circuit opened          *)
(* (circuit_breaker.py:113-204, kernel.py:103).                              *)
THEOREM RetryStormCorrect == Spec => []RetryStormBounded
<1>1. BreakerInv => RetryStormBounded
  BY DEF BreakerInv
<1> QED
  BY <1>1, BreakerCorrect, PTL

(* A message is turned away only over an error of its text in the last       *)
(* Window: no circuit is left open by what record_failure prunes             *)
(* (circuit_breaker.py:165-189, 306-315).                                    *)
THEOREM TrippedCorrect == Spec => []TrippedOnlyIfRecent
<1>1. BreakerInv => TrippedOnlyIfRecent
  BY DEF BreakerInv
<1> QED
  BY <1>1, BreakerCorrect, PTL
================================================================================
