---------------------------- MODULE WriteGateProofs ----------------------------
(***************************************************************************)
(* Theorems about WriteGate, for all values of its constants.              *)
(***************************************************************************)
EXTENDS WriteGate, TLAPS

-----------------------------------------------------------------------------
(* Lemmas about the helpers *)

(* Truncation to a full second stays within the clock's range (int() of      *)
(* line 261 never names a later time).                                       *)
LEMMA SecondInRange ==
    ASSUME NEW r \in Nat
    PROVE  Second(r) \in 0..r
<1>1. r % TicksPerSecond \in 0..(TicksPerSecond - 1)
  BY GateAssumption
<1>2. r % TicksPerSecond <= r
  BY GateAssumption, Z3
<1> QED
  BY <1>1, <1>2, GateAssumption DEF Second

(* The sweep returns a ledger of the same kind (lines 352-362). *)
LEMMA SweptLedger ==
    ASSUME TypeOK, NEW r
    PROVE  /\ DOMAIN Swept(r) \subseteq DOMAIN consumed
           /\ DOMAIN Swept(r) = {s \in DOMAIN consumed : consumed[s] > r}
           /\ \A s \in DOMAIN Swept(r) : Swept(r)[s] = consumed[s]
  BY DEF Swept, Restrict

(* A nonce that passes every check carries a well-formed signature over its  *)
(* own fields and the arguments of the call (lines 314-329).                 *)
LEMMA AcceptableNonce ==
    ASSUME TypeOK, NEW n \in Presented, NEW d \in Domain, NEW x \in Data, NEW ledger,
           Acceptable(n, d, x, ledger)
    PROVE  /\ n.sig \in Signature /\ n.sig.ts = n.ts
           /\ n.sig.data = x /\ n.sig.domain = d
           /\ n.sig \notin DOMAIN ledger
           /\ \E m \in minted : m.sig = n.sig
<1>1. n.sig = [ts |-> n.ts, data |-> x, domain |-> d]
  BY DEF Acceptable, SignatureMatches
<1>2. n.sig # NoSignature
  <2>1. DOMAIN n.sig = {"ts", "data", "domain"}
    BY <1>1
  <2>2. DOMAIN NoSignature = {"ts"}
    BY DEF NoSignature
  <2> QED
    BY <2>1, <2>2
<1>3. PICK m \in minted : m.sig = n.sig
  BY <1>2 DEF Presented
<1>4. n.sig \in Signature
  BY <1>3 DEF TypeOK, MintedOK
<1> QED
  BY <1>1, <1>3, <1>4 DEF Acceptable
-----------------------------------------------------------------------------
(* Type correctness *)

(* Writes leave the policy's state well typed (lines 188-229 of              *)
(* autonomy_policy.py).                                                      *)
LEMMA QuotaType ==
    ASSUME TypeOK, NEW ok, CheckQuota(ok)
    PROVE  PolicyOK'
<1>1. CASE HasPolicy
  <2>1. writeCount' \in Nat
    BY <1>1 DEF CheckQuota, CountAfter, TypeOK, PolicyOK
  <2>2. writeTimes' \subseteq writeTimes \cup {[n |-> writeCount, at |-> Now]}
    BY <1>1 DEF CheckQuota, TimesAfter, Recent
  <2> QED
    BY <2>1, <2>2 DEF TypeOK, PolicyOK, ClocksOK, Now
<1>2. CASE ~HasPolicy
  BY <1>2 DEF CheckQuota, policy, TypeOK, PolicyOK, Time
<1> QED
  BY <1>1, <1>2

(* An answer given before the await leaves every other call where it was. *)
LEMMA AnswerType ==
    ASSUME TypeOK, NEW c \in Caller, NEW result \in {"refused", "success", "failed"},
           Answer(c, result), Len(log') \in Nat, Len(log) <= Len(log')
    PROVE  CallsOK'
<1> USE DEF TypeOK, LogOK, CallsOK
<1>1. Len(log) \in Nat
  OBVIOUS
<1>2. calls' \in [Caller -> [phase : {"idle", "writing"},
                            result : {"none", "refused", "success", "failed", "lost"},
                            entry : 0..Len(log')]]
  BY <1>1 DEF Answer
<1>3. InFlight' \subseteq InFlight /\ \A d \in InFlight' : calls'[d] = calls[d]
  BY DEF Answer, InFlight
<1> QED
  BY <1>1, <1>2, <1>3

LEMMA InitType == Init => TypeOK
<1> SUFFICES ASSUME Init PROVE TypeOK
  OBVIOUS
<1> USE GateAssumption DEF Init
<1>1. ClocksOK /\ PolicyOK /\ MintedOK /\ LedgerOK
  BY DEF ClocksOK, PolicyOK, MintedOK, LedgerOK, Time
<1>2. LogOK /\ CallsOK
  BY DEF LogOK, CallsOK, Idle, InFlight
<1>3. FilesOK
  BY DEF FilesOK, Shape
<1> QED
  BY <1>1, <1>2, <1>3 DEF TypeOK

(* Everything of a step in which a write passes the nonce check, by name. *)
LEMMA AuthorisedStep ==
    ASSUME NEW c, NEW d, NEW x, NEW f, WriteAuthorised(c, d, x, f)
    PROVE  \E n \in Presented, r \in mono..(mono + Drift) : \E b \in r..(r + Drift) :
             /\ boot + b <= MaxTime
             /\ ~Expired(n, mono)
             /\ Acceptable(n, d, x, Swept(r))
             /\ consumed' = Burn(Swept(r), n.sig, b)
             /\ mono' = b
             /\ log' = Append(log, [sig |-> n.sig, domain |-> d, data |-> x,
                                    shape |-> Loaded(d), format |-> f,
                                    checked |-> mono, swept |-> r, burned |-> b,
                                    epoch |-> epoch, at |-> Now])
  BY DEF WriteAuthorised

LEMMA NextType == TypeOK /\ [Next]_vars => TypeOK'
<1> SUFFICES ASSUME TypeOK, [Next]_vars PROVE TypeOK'
  OBVIOUS
<1> USE GateAssumption
<1>0. mono \in Nat /\ boot \in Nat /\ mono \in Time /\ Now \in Time
  BY DEF TypeOK, ClocksOK, Now, Time
<1>1. CASE Tick
  BY <1>1, <1>0 DEF Tick, Now, TypeOK, ClocksOK, FilesOK, LedgerOK, PolicyOK, MintedOK, LogOK,
              CallsOK, InFlight, Time, policy
<1>2. ASSUME NEW d \in Domain, EditShapes(d) PROVE TypeOK'
  <2>1. FilesOK'
    BY <1>2 DEF EditShapes, TypeOK, FilesOK, Shape
  <2> QED
    BY <1>2, <2>1 DEF EditShapes, TypeOK, ClocksOK, LedgerOK, PolicyOK, MintedOK, LogOK,
                      CallsOK, InFlight, clocks, policy
<1>3. ASSUME NEW d \in Domain, NEW x \in Data, NEW f \in Format, Verify(d, x, f)
      PROVE TypeOK'
  <2>1. Second(mono) \in Time
    BY <1>0, SecondInRange DEF TypeOK, ClocksOK, Time
  <2>2. MintedOK'
    BY <2>1, <1>0, <1>3 DEF Verify, TypeOK, MintedOK, Signature
  <2>3. FilesOK'
    BY <1>3 DEF Verify, TypeOK, FilesOK, Loaded
  <2> QED
    BY <1>3, <2>2, <2>3 DEF Verify, TypeOK, ClocksOK, LedgerOK, PolicyOK, LogOK,
                            CallsOK, InFlight, clocks, policy
<1>4. ASSUME NEW c \in Caller, WriteOverQuota(c) \/ WriteUnreadable(c) PROVE TypeOK'
  <2>1. PolicyOK'
    BY <1>4, QuotaType DEF WriteOverQuota, WriteUnreadable
  <2>2. CallsOK'
    <3>1. Answer(c, "refused") /\ log' = log
      BY <1>4 DEF WriteOverQuota, WriteUnreadable
    <3>2. Len(log) \in Nat
      BY DEF TypeOK, LogOK
    <3> QED
      BY <3>1, <3>2, AnswerType
  <2> QED
    BY <1>4, <2>1, <2>2 DEF WriteOverQuota, WriteUnreadable, TypeOK, ClocksOK, FilesOK,
                            LedgerOK, MintedOK, LogOK, clocks
<1>5. ASSUME NEW c \in Caller, NEW d \in Domain, NEW x \in Data, WriteRejected(c, d, x)
      PROVE TypeOK'
  <2>1. PICK r \in mono..(mono + Drift) :
          boot + r <= MaxTime /\ consumed' = Swept(r) /\ mono' = r
    BY <1>5 DEF WriteRejected
  <2>2. ClocksOK'
    BY <1>0, <1>5, <2>1 DEF WriteRejected, TypeOK, ClocksOK, Now, Time
  <2>3. LedgerOK'
    BY <2>1, SweptLedger DEF TypeOK, LedgerOK
  <2>4. PolicyOK'
    BY <1>5, QuotaType DEF WriteRejected
  <2>5. CallsOK'
    BY <1>5, AnswerType DEF WriteRejected, TypeOK, LogOK
  <2> QED
    BY <1>5, <2>2, <2>3, <2>4, <2>5 DEF WriteRejected, TypeOK, FilesOK, MintedOK, LogOK
<1>6. ASSUME NEW c \in Caller, NEW d \in Domain, NEW x \in Data, NEW f \in Format,
             WriteAuthorised(c, d, x, f)
      PROVE TypeOK'
  <2>1. PICK n \in Presented, r \in mono..(mono + Drift) : \E b \in r..(r + Drift) :
          /\ boot + b <= MaxTime
          /\ Acceptable(n, d, x, Swept(r))
          /\ consumed' = Burn(Swept(r), n.sig, b)
          /\ mono' = b
          /\ log' = Append(log, [sig |-> n.sig, domain |-> d, data |-> x,
                                 shape |-> Loaded(d), format |-> f,
                                 checked |-> mono, swept |-> r, burned |-> b,
                                 epoch |-> epoch, at |-> Now])
    BY <1>6, AuthorisedStep
  <2>2. PICK b \in r..(r + Drift) :
          /\ boot + b <= MaxTime
          /\ consumed' = Burn(Swept(r), n.sig, b)
          /\ mono' = b
          /\ log' = Append(log, [sig |-> n.sig, domain |-> d, data |-> x,
                                 shape |-> Loaded(d), format |-> f,
                                 checked |-> mono, swept |-> r, burned |-> b,
                                 epoch |-> epoch, at |-> Now])
    BY <2>1
  <2>3. r \in Time /\ b \in Time
    BY <1>0, <2>2 DEF TypeOK, ClocksOK, Time
  <2>4. ClocksOK'
    BY <1>0, <1>6, <2>2 DEF WriteAuthorised, TypeOK, ClocksOK, Now, Time
  <2>5. n.sig \in Signature
    BY <2>1, AcceptableNonce
  <2>6. Loaded(d) \in Shape
    BY DEF Loaded, TypeOK, FilesOK
  <2>7. FilesOK'
    BY <1>6, <2>6 DEF WriteAuthorised, TypeOK, FilesOK
  <2>8. LedgerOK'
    <3>1. /\ DOMAIN consumed' = DOMAIN Swept(r) \cup {n.sig}
          /\ consumed'[n.sig] = b + TTL
          /\ \A s \in DOMAIN Swept(r) : s # n.sig => consumed'[s] = Swept(r)[s]
      BY <2>2 DEF Burn
    <3>2. b + TTL \in Nat
      BY <2>3 DEF Time
    <3> QED
      BY <2>5, <3>1, <3>2, SweptLedger DEF TypeOK, LedgerOK
  <2>9. PolicyOK'
    BY <1>6, QuotaType DEF WriteAuthorised
  <2>10. log' \in Seq(Authorisation) /\ Len(log') = Len(log) + 1 /\ Len(log) \in Nat
    BY <1>0, <2>2, <2>3, <2>5, <2>6 DEF TypeOK, LogOK, ClocksOK, Authorisation
  <2>11. LogOK'
    BY <1>6, <2>10 DEF WriteAuthorised, TypeOK, LogOK
  <2>12. CallsOK'
    <3>1. CASE \E result \in {"success", "failed"} : Answer(c, result)
      BY <2>10, <3>1, AnswerType
    <3>2. CASE calls' = [calls EXCEPT ![c] = [phase |-> "writing", result |-> "none",
                                              entry |-> Len(log) + 1]]
      <4>1. calls' \in [Caller -> [phase : {"idle", "writing"},
                                  result : {"none", "refused", "success", "failed", "lost"},
                                  entry : 0..Len(log')]]
        BY <2>10, <3>2 DEF TypeOK, CallsOK
      <4>2. \A e \in InFlight' : calls'[e].entry \in 1..Len(log')
        BY <2>10, <3>2 DEF TypeOK, CallsOK, InFlight
      <4> QED
        BY <4>1, <4>2 DEF CallsOK
    <3> QED
      BY <1>6, <3>1, <3>2 DEF WriteAuthorised
  <2> QED
    BY <1>6, <2>4, <2>7, <2>8, <2>9, <2>11, <2>12 DEF WriteAuthorised, TypeOK, MintedOK
<1>7. ASSUME NEW c \in Caller, NEW stored \in BOOLEAN, Settle(c, stored) PROVE TypeOK'
  <2>1. LogOK'
    BY <1>7 DEF Settle, TypeOK, LogOK, CallsOK, InFlight
  <2>2. CallsOK'
    BY <1>7 DEF Settle, TypeOK, CallsOK, InFlight
  <2> QED
    BY <1>7, <2>1, <2>2 DEF Settle, TypeOK, ClocksOK, FilesOK, LedgerOK, PolicyOK,
                            MintedOK, clocks, policy
<1>8. CASE Restart
  <2>1. ClocksOK'
    <3>1. /\ epoch' = epoch + 1 /\ epoch < MaxRestarts
          /\ (mono' = mono /\ boot' = boot) \/ (mono' = 0 /\ boot' = Now)
      BY <1>8 DEF Restart
    <3> QED
      BY <1>0, <3>1 DEF TypeOK, ClocksOK, Now, Time
  <2>2. FilesOK' /\ LedgerOK' /\ PolicyOK' /\ MintedOK'
    BY <1>8 DEF Restart, TypeOK, FilesOK, LedgerOK, PolicyOK, MintedOK
  <2>3. LogOK'
    BY <1>8 DEF Restart, TypeOK, LogOK, CallsOK
  <2>4. calls' \in [Caller -> [phase : {"idle", "writing"},
                              result : {"none", "refused", "success", "failed", "lost"},
                              entry : 0..Len(log')]]
    BY <1>8 DEF Restart, TypeOK, CallsOK
  <2>5. InFlight' = {}
    BY <1>8 DEF Restart, TypeOK, CallsOK, InFlight
  <2> QED
    BY <2>1, <2>2, <2>3, <2>4, <2>5 DEF TypeOK, CallsOK
<1>9. CASE UNCHANGED vars
  BY <1>9 DEF vars, clocks, policy, TypeOK, ClocksOK, FilesOK, LedgerOK, PolicyOK,
              MintedOK, LogOK, CallsOK, InFlight
<1> QED
  BY <1>1, <1>2, <1>3, <1>4, <1>5, <1>6, <1>7, <1>8, <1>9 DEF Next

(* Every reachable state of the gate is well typed: clocks, ledger, policy   *)
(* counters, log and calls stay in their ranges whatever the constants.      *)
THEOREM TypeCorrect == Spec => []TypeOK
  BY InitType, NextType, PTL DEF Spec
-----------------------------------------------------------------------------
(* Reuse of a nonce *)

(* The burns of this process are in the past of its clock. *)
BurnsArePast ==
    \A i \in DOMAIN log :
        log[i].epoch <= epoch /\ (log[i].epoch = epoch => log[i].burned <= mono)

(* A signature burned by this process is tracked until TTL after the burn:   *)
(* what _consumed_nonces must remember for the replay check to be of use.    *)
Tracked ==
    \A i \in DOMAIN log :
        log[i].epoch = epoch =>
            \/ mono >= log[i].burned + TTL
            \/ /\ log[i].sig \in DOMAIN consumed
               /\ consumed[log[i].sig] >= log[i].burned + TTL

(* The expiry check held when it was made. *)
CheckedInTime == \A i \in DOMAIN log : log[i].checked - log[i].sig.ts <= TTL

ReuseInv == TypeOK /\ BurnsArePast /\ Tracked /\ CheckedInTime /\ ReuseOnlyAfterTTL

LEMMA InitReuse == Init => ReuseInv
  BY InitType DEF Init, ReuseInv, BurnsArePast, Tracked, CheckedInTime, ReuseOnlyAfterTTL

LEMMA NextReuse == ReuseInv /\ [Next]_vars => ReuseInv'
<1> SUFFICES ASSUME ReuseInv, [Next]_vars PROVE ReuseInv'
  OBVIOUS
<1>0. TypeOK /\ TypeOK' /\ TTL \in Nat
  BY NextType, GateAssumption DEF ReuseInv
<1>1. mono \in Nat /\ mono' \in Nat /\ epoch \in Nat
  BY <1>0 DEF TypeOK, ClocksOK, Time
<1>3. \A i \in DOMAIN log : /\ log[i].burned \in Nat /\ log[i].swept \in Nat
                            /\ log[i].epoch \in Nat /\ log[i].sig \in Signature
  <2>1. \A i \in DOMAIN log : log[i] \in Authorisation
    BY <1>0 DEF TypeOK, LogOK
  <2> QED
    BY <2>1 DEF Authorisation, Time
<1>4. DOMAIN log = 1..Len(log) /\ Len(log) \in Nat
  BY <1>0 DEF TypeOK, LogOK
(* Steps of one process that authorise nothing only let time pass and forget *)
(* what is overdue. *)
<1>5. ASSUME log' = log, epoch' = epoch, mono' >= mono,
             \A s \in DOMAIN consumed : \/ s \in DOMAIN consumed' /\ consumed'[s] = consumed[s]
                                        \/ consumed[s] <= mono'
      PROVE  ReuseInv'
  <2>2. BurnsArePast' /\ CheckedInTime' /\ ReuseOnlyAfterTTL'
    BY <1>1, <1>3, <1>5
       DEF ReuseInv, BurnsArePast, CheckedInTime, ReuseOnlyAfterTTL
  <2>3. Tracked'
    BY <1>0, <1>1, <1>3, <1>5 DEF ReuseInv, Tracked, TypeOK, LedgerOK
  <2> QED
    BY <1>0, <2>2, <2>3 DEF ReuseInv
<1>6. CASE Tick
  BY <1>5, <1>6, <1>1 DEF Tick
<1>7. ASSUME NEW d \in Domain, EditShapes(d) PROVE ReuseInv'
  BY <1>5, <1>7, <1>1 DEF EditShapes, clocks
<1>8. ASSUME NEW d \in Domain, NEW x \in Data, NEW f \in Format, Verify(d, x, f)
      PROVE ReuseInv'
  BY <1>5, <1>8, <1>1 DEF Verify, clocks
<1>9. ASSUME NEW c \in Caller, WriteOverQuota(c) \/ WriteUnreadable(c) PROVE ReuseInv'
  <2>1. log' = log /\ consumed' = consumed /\ mono' = mono /\ epoch' = epoch
    BY <1>9 DEF WriteOverQuota, WriteUnreadable, clocks
  <2> QED
    BY <1>1, <1>5, <2>1
<1>10. ASSUME NEW c \in Caller, NEW d \in Domain, NEW x \in Data, WriteRejected(c, d, x)
       PROVE ReuseInv'
  <2>1. PICK r \in mono..(mono + Drift) :
          boot + r <= MaxTime /\ consumed' = Swept(r) /\ mono' = r
    BY <1>10 DEF WriteRejected
  <2>2. log' = log /\ epoch' = epoch
    BY <1>10 DEF WriteRejected
  <2>3. mono' = r /\ mono' >= mono
    BY <1>1, <2>1
  <2>4. \A s \in DOMAIN consumed : \/ s \in DOMAIN consumed' /\ consumed'[s] = consumed[s]
                                   \/ consumed[s] <= mono'
    <3>1. \A s \in DOMAIN consumed : consumed[s] \in Nat
      BY <1>0 DEF TypeOK, LedgerOK
    <3>2. \A s \in DOMAIN consumed : s \in DOMAIN consumed' <=> consumed[s] > r
      BY <1>0, <2>1, SweptLedger
    <3>3. \A s \in DOMAIN consumed' : consumed'[s] = consumed[s]
      BY <1>0, <2>1, SweptLedger
    <3> QED
      BY <1>1, <2>3, <3>1, <3>2, <3>3
  <2> QED
    BY <1>5, <2>2, <2>3, <2>4
<1>11. ASSUME NEW c \in Caller, NEW d \in Domain, NEW x \in Data, NEW f \in Format,
              WriteAuthorised(c, d, x, f)
       PROVE ReuseInv'
  <2>1. PICK n \in Presented, r \in mono..(mono + Drift) : \E b \in r..(r + Drift) :
          /\ ~Expired(n, mono)
          /\ Acceptable(n, d, x, Swept(r))
          /\ consumed' = Burn(Swept(r), n.sig, b)
          /\ mono' = b
          /\ log' = Append(log, [sig |-> n.sig, domain |-> d, data |-> x,
                                 shape |-> Loaded(d), format |-> f,
                                 checked |-> mono, swept |-> r, burned |-> b,
                                 epoch |-> epoch, at |-> Now])
    BY <1>11, AuthorisedStep
  <2>2. PICK b \in r..(r + Drift) :
          /\ consumed' = Burn(Swept(r), n.sig, b)
          /\ mono' = b
          /\ log' = Append(log, [sig |-> n.sig, domain |-> d, data |-> x,
                                 shape |-> Loaded(d), format |-> f,
                                 checked |-> mono, swept |-> r, burned |-> b,
                                 epoch |-> epoch, at |-> Now])
    BY <2>1
  <2> DEFINE new == Len(log) + 1
  <2>3. /\ n.sig \in Signature /\ n.sig.ts = n.ts
        /\ n.sig \notin DOMAIN Swept(r)
    BY <1>0, <2>1, AcceptableNonce
  <2>4. r \in Nat /\ b \in Nat /\ mono <= r /\ r <= b /\ mono' = b
        /\ epoch' = epoch
    BY <1>1, <1>11, <2>1, <2>2 DEF WriteAuthorised
  <2>5. /\ DOMAIN log' = 1..new /\ new \notin DOMAIN log
        /\ \A i \in DOMAIN log : i \in DOMAIN log' /\ log'[i] = log[i]
        /\ \A i \in DOMAIN log' : i \in DOMAIN log \/ i = new
        /\ log'[new].sig = n.sig /\ log'[new].epoch = epoch
        /\ log'[new].checked = mono /\ log'[new].swept = r /\ log'[new].burned = b
    <3>1. log \in Seq(Authorisation)
      BY <1>0 DEF TypeOK, LogOK
    <3> QED
      BY <1>4, <2>2, <3>1
  <2>6. /\ DOMAIN consumed' = DOMAIN Swept(r) \cup {n.sig}
        /\ consumed'[n.sig] = b + TTL
        /\ \A s \in DOMAIN Swept(r) : s # n.sig => consumed'[s] = consumed[s]
    BY <2>2, <1>0, SweptLedger DEF Burn
  <2>7. BurnsArePast'
    BY <1>1, <1>3, <2>4, <2>5 DEF ReuseInv, BurnsArePast
  <2>8. CheckedInTime'
    <3>1. mono - n.sig.ts <= TTL
      BY <1>0, <1>1, <2>1, <2>3 DEF Expired, Signature, Time
    <3> QED
      BY <2>5, <3>1 DEF ReuseInv, CheckedInTime
  (* The heart of the argument: a signature this process burned before was   *)
  (* swept from the ledger, so its tracking was over at reading r. *)
  <2>9. ASSUME NEW i \in DOMAIN log, log[i].sig = n.sig, log[i].epoch = epoch
        PROVE  log[i].burned + TTL <= r
    <3>1. CASE mono >= log[i].burned + TTL
      BY <1>0, <1>1, <1>3, <2>4, <3>1
    <3>2. CASE log[i].sig \in DOMAIN consumed /\ consumed[log[i].sig] >= log[i].burned + TTL
      <4>1. consumed[n.sig] <= r
        <5>1. ~(consumed[n.sig] > r)
          BY <1>0, <2>3, <2>9, <3>2, SweptLedger
        <5>2. consumed[n.sig] \in Nat
          BY <1>0, <2>9, <3>2 DEF TypeOK, LedgerOK
        <5> QED
          BY <2>4, <5>1, <5>2
      <4> QED
        BY <1>0, <1>3, <2>4, <2>9, <3>2, <4>1 DEF TypeOK, LedgerOK
    <3> QED
      BY <2>9, <3>1, <3>2 DEF ReuseInv, Tracked
  <2>10. ReuseOnlyAfterTTL'
    <3> SUFFICES ASSUME NEW i \in DOMAIN log', NEW j \in DOMAIN log', i < j,
                        log'[i].sig = log'[j].sig, log'[i].epoch = log'[j].epoch
                 PROVE  log'[j].swept >= log'[i].burned + TTL
      BY DEF ReuseOnlyAfterTTL
    <3>1. CASE j \in DOMAIN log
      BY <1>4, <2>5, <3>1 DEF ReuseInv, ReuseOnlyAfterTTL
    <3>2. CASE j = new
      <4>1. i \in DOMAIN log
        BY <1>4, <2>5, <3>2
      <4> QED
        BY <1>3, <2>4, <2>5, <2>9, <3>2, <4>1
    <3> QED
      BY <2>5, <3>1, <3>2
  <2>11. Tracked'
    <3> SUFFICES ASSUME NEW i \in DOMAIN log', log'[i].epoch = epoch
                 PROVE  \/ b >= log'[i].burned + TTL
                        \/ /\ log'[i].sig \in DOMAIN consumed'
                           /\ consumed'[log'[i].sig] >= log'[i].burned + TTL
      BY <2>4 DEF Tracked
    <3>1. CASE i = new
      BY <1>0, <2>4, <2>5, <2>6, <3>1
    <3>2. CASE i \in DOMAIN log /\ log[i].sig = n.sig
      BY <1>0, <1>3, <2>4, <2>5, <2>9, <3>2
    <3>3. CASE i \in DOMAIN log /\ log[i].sig # n.sig
      <4>1. CASE mono >= log[i].burned + TTL
        BY <1>0, <1>1, <1>3, <2>4, <2>5, <3>3, <4>1
      <4>2. CASE log[i].sig \in DOMAIN consumed /\ consumed[log[i].sig] >= log[i].burned + TTL
        <5>1. CASE consumed[log[i].sig] > r
          BY <1>0, <2>5, <2>6, <3>3, <4>2, <5>1, SweptLedger
        <5>2. CASE consumed[log[i].sig] <= r
          BY <1>0, <1>3, <2>4, <2>5, <3>3, <4>2, <5>2 DEF TypeOK, LedgerOK
        <5> QED
          BY <1>0, <2>4, <4>2, <5>1, <5>2 DEF TypeOK, LedgerOK
      <4> QED
        BY <2>5, <3>3, <4>1, <4>2 DEF ReuseInv, Tracked
    <3> QED
      BY <2>5, <3>1, <3>2, <3>3
  <2> QED
    BY <1>0, <2>7, <2>8, <2>10, <2>11 DEF ReuseInv
<1>12. ASSUME NEW c \in Caller, NEW stored \in BOOLEAN, Settle(c, stored) PROVE ReuseInv'
  <2>1. log' = log /\ consumed' = consumed /\ mono' = mono /\ epoch' = epoch
    BY <1>12 DEF Settle, clocks
  <2> QED
    BY <1>1, <1>5, <2>1
<1>13. CASE Restart
  <2>1. log' = log /\ epoch' = epoch + 1
    BY <1>13 DEF Restart
  <2>2. \A i \in DOMAIN log' : log'[i].epoch < epoch'
    BY <1>1, <1>3, <2>1 DEF ReuseInv, BurnsArePast
  <2> QED
    BY <1>0, <1>1, <1>3, <2>1, <2>2
       DEF ReuseInv, BurnsArePast, Tracked, CheckedInTime, ReuseOnlyAfterTTL
<1>14. CASE UNCHANGED vars
  <2>1. log' = log /\ consumed' = consumed /\ mono' = mono /\ epoch' = epoch
    BY <1>14 DEF vars, clocks
  <2> QED
    BY <1>1, <1>5, <2>1
<1> QED
  BY <1>6, <1>7, <1>8, <1>9, <1>10, <1>11, <1>12, <1>13, <1>14 DEF Next

(* In one process, a signature is accepted a second time only by a sweep     *)
(* that reads the clock TTL or more after the first burn.                    *)
THEOREM ReuseCorrect == Spec => []ReuseOnlyAfterTTL
<1>1. Spec => []ReuseInv
  BY InitReuse, NextReuse, PTL DEF Spec
<1>2. ReuseInv => ReuseOnlyAfterTTL
  BY DEF ReuseInv
<1> QED
  BY <1>1, <1>2, PTL

(* As a nonce is refused when it is older than TTL, that second use can only *)
(* happen at the boundary instant.                                           *)
THEOREM BoundaryCorrect == Spec => []ReuseOnlyAtTheBoundary
<1>1. Spec => []ReuseInv
  BY InitReuse, NextReuse, PTL DEF Spec
<1>2. ReuseInv => ReuseOnlyAtTheBoundary
  <2> SUFFICES ASSUME ReuseInv, NEW i \in DOMAIN log, NEW j \in DOMAIN log, i < j,
                      log[i].sig = log[j].sig, log[i].epoch = log[j].epoch
               PROVE  log[i].burned - log[i].sig.ts <= log[j].swept - log[j].checked
    BY DEF ReuseOnlyAtTheBoundary
  <2>1. log[i] \in Authorisation /\ log[j] \in Authorisation
    BY DEF ReuseInv, TypeOK, LogOK
  <2>2. log[j].swept >= log[i].burned + TTL
    BY DEF ReuseInv, ReuseOnlyAfterTTL
  <2>3. log[j].checked - log[i].sig.ts <= TTL
    BY DEF ReuseInv, CheckedInTime
  <2> QED
    BY <2>1, <2>2, <2>3, GateAssumption DEF Authorisation, Signature, Time
<1> QED
  BY <1>1, <1>2, PTL
================================================================================
