---------------------------- MODULE GateStoreProofs ----------------------------
(***************************************************************************)
(* Theorems about what the gate of WriteGate lets into the graph: bound to *)
(* a validation, fresh, conforming, and as GovernedStore promises.         *)
(***************************************************************************)
EXTENDS WriteGateProofs

-----------------------------------------------------------------------------
(* Two kinds of steps *)

\* The calls that were in the database at a later state were there before.
NoneStarted == \A c \in InFlight' : c \in InFlight /\ calls'[c].entry = calls[c].entry

\* A step in which no write passes the nonce check.
Quiet ==
    /\ log' = log /\ minted \subseteq minted' /\ Now <= Now'
    /\ \A m \in minted' \ minted : m.at = Now /\ m.sig.ts <= mono
    /\ NoneStarted
    /\ \A i \in committed' \ committed : \E c \in InFlight : i = calls[c].entry
    /\ \/ /\ epoch' = epoch /\ boot' = boot
          /\ \A s \in DOMAIN consumed' : s \in DOMAIN consumed /\ consumed'[s] = consumed[s]
       \/ epoch' = epoch + 1 /\ (MayReboot \/ boot' = boot)

\* A step in which one does, and is logged as e.
Authorises(e, c, d, x, f) ==
    /\ log' = Append(log, e) /\ e \in Authorisation
    /\ e.domain = d /\ e.data = x /\ e.format = f /\ e.shape = Loaded(d)
    /\ e.sig.domain = d /\ e.sig.data = x
    /\ e.at = Now /\ e.checked = mono /\ e.epoch = epoch /\ e.swept <= e.burned
    /\ e.checked <= e.swept /\ e.swept <= e.checked + Drift
    /\ e.checked - e.sig.ts <= TTL
    /\ \E m \in minted : m.sig = e.sig
    /\ \A s \in DOMAIN consumed' : consumed'[s] > e.swept \/ consumed'[s] = e.burned + TTL
    /\ calls[c].phase = "idle"
    /\ \/ /\ Conforms(d, x, f) /\ HasNeo4j
          /\ calls' = [calls EXCEPT ![c] = [phase |-> "writing", result |-> "none",
                                            entry |-> Len(log) + 1]]
       \/ ~HasNeo4j /\ Answer(c, "success")
       \/ Answer(c, "failed")
    /\ Now <= Now' /\ UNCHANGED <<minted, committed, epoch, boot>>

(* An answer given at once starts nothing. *)
LEMMA AnswerStartsNothing ==
    ASSUME TypeOK, NEW c \in Caller, NEW result, Answer(c, result)
    PROVE  NoneStarted
  BY DEF TypeOK, CallsOK, Answer, NoneStarted, InFlight

LEMMA AuthorisedKind ==
    ASSUME TypeOK, NEW c \in Caller, NEW d \in Domain, NEW x \in Data, NEW f \in Format,
           WriteAuthorised(c, d, x, f)
    PROVE  \E e \in Authorisation : Authorises(e, c, d, x, f)
<1>0. /\ mono \in Nat /\ boot \in Nat /\ Now \in Time /\ epoch \in 0..MaxRestarts
      /\ mono \in Time /\ MaxTime \in Nat /\ TTL \in Nat /\ Drift \in Nat
  BY GateAssumption DEF TypeOK, ClocksOK, Now, Time
<1>1. PICK n \in Presented, r \in mono..(mono + Drift) : \E b \in r..(r + Drift) :
        /\ boot + b <= MaxTime
        /\ ~Expired(n, mono)
        /\ Acceptable(n, d, x, Swept(r))
        /\ consumed' = Burn(Swept(r), n.sig, b)
        /\ mono' = b
        /\ log' = Append(log, [sig |-> n.sig, domain |-> d, data |-> x,
                               shape |-> Loaded(d), format |-> f,
                               checked |-> mono, swept |-> r, burned |-> b,
                               epoch |-> epoch, at |-> Now])
  BY AuthorisedStep
<1>2. PICK b \in r..(r + Drift) :
        /\ boot + b <= MaxTime
        /\ consumed' = Burn(Swept(r), n.sig, b)
        /\ mono' = b
        /\ log' = Append(log, [sig |-> n.sig, domain |-> d, data |-> x,
                               shape |-> Loaded(d), format |-> f,
                               checked |-> mono, swept |-> r, burned |-> b,
                               epoch |-> epoch, at |-> Now])
  BY <1>1
<1> DEFINE e == [sig |-> n.sig, domain |-> d, data |-> x, shape |-> Loaded(d), format |-> f,
                 checked |-> mono, swept |-> r, burned |-> b, epoch |-> epoch, at |-> Now]
<1>3. /\ n.sig \in Signature /\ n.sig.ts = n.ts /\ n.sig.data = x /\ n.sig.domain = d
      /\ \E m \in minted : m.sig = n.sig
  BY <1>1, AcceptableNonce
<1>4. Loaded(d) \in Shape
  BY DEF Loaded, TypeOK, FilesOK
<1>5. r \in Nat /\ b \in Nat /\ mono <= r /\ r <= mono + Drift /\ r <= b /\ r \in Time /\ b \in Time
  BY <1>0, <1>2 DEF Time
<1>6. e \in Authorisation
  BY <1>0, <1>3, <1>4, <1>5 DEF Authorisation
<1>7. mono - n.sig.ts <= TTL
  BY <1>0, <1>1, <1>3 DEF Expired, Signature, Time
<1>8. \A s \in DOMAIN consumed' : consumed'[s] > r \/ consumed'[s] = b + TTL
  <2>1. /\ DOMAIN consumed' = DOMAIN Swept(r) \cup {n.sig}
        /\ consumed'[n.sig] = b + TTL
        /\ \A s \in DOMAIN Swept(r) : s # n.sig => consumed'[s] = Swept(r)[s]
    BY <1>2 DEF Burn
  <2> QED
    BY <2>1, SweptLedger
<1>9. Now <= Now' /\ UNCHANGED <<minted, committed, epoch, boot>>
  BY <1>0, <1>2, <1>5 DEF WriteAuthorised, Now
<1>10. /\ calls[c].phase = "idle"
       /\ \/ /\ Conforms(d, x, f) /\ HasNeo4j
             /\ calls' = [calls EXCEPT ![c] = [phase |-> "writing", result |-> "none",
                                               entry |-> Len(log) + 1]]
          \/ ~HasNeo4j /\ Answer(c, "success")
          \/ Answer(c, "failed")
  BY DEF WriteAuthorised, Revalidated
<1> QED
  BY <1>2, <1>3, <1>5, <1>6, <1>7, <1>8, <1>9, <1>10 DEF Authorises

(* Every other step is a quiet one. *)
LEMMA StepKinds ==
    ASSUME TypeOK, [Next]_vars
    PROVE  \/ Quiet
           \/ \E c \in Caller, d \in Domain, x \in Data, f \in Format :
                \E e \in Authorisation : Authorises(e, c, d, x, f)
<1>0. mono \in Nat /\ boot \in Nat /\ Now = boot + mono /\ Now \in Nat
  BY DEF TypeOK, ClocksOK, Now, Time
<1>1. CASE Tick
  BY <1>0, <1>1 DEF Tick, Now, Quiet, NoneStarted, InFlight
<1>2. ASSUME NEW d \in Domain, EditShapes(d) PROVE Quiet
  BY <1>0, <1>2 DEF EditShapes, clocks, Now, Quiet, NoneStarted, InFlight
<1>3. ASSUME NEW d \in Domain, NEW x \in Data, NEW f \in Format, Verify(d, x, f) PROVE Quiet
  <2>1. \A m \in minted' \ minted : m.at = Now /\ m.sig.ts = Second(mono)
    BY <1>3 DEF Verify
  <2>2. Second(mono) <= mono /\ Second(mono) \in Nat
    BY <1>0, SecondInRange
  <2>3. minted \subseteq minted'
    BY <1>3 DEF Verify
  <2> QED
    BY <1>0, <1>3, <2>1, <2>2, <2>3 DEF Verify, clocks, Now, Quiet, NoneStarted, InFlight
<1>4. ASSUME NEW c \in Caller, WriteOverQuota(c) \/ WriteUnreadable(c) PROVE Quiet
  <2>1. Answer(c, "refused")
        /\ UNCHANGED <<clocks, shapeFile, validators, consumed, minted, log, committed>>
    BY <1>4 DEF WriteOverQuota, WriteUnreadable
  <2> QED
    BY <1>0, <2>1, AnswerStartsNothing DEF clocks, Now, Quiet
<1>5. ASSUME NEW c \in Caller, NEW d \in Domain, NEW x \in Data, WriteRejected(c, d, x)
      PROVE Quiet
  <2>1. PICK r \in mono..(mono + Drift) : consumed' = Swept(r) /\ mono' = r
    BY <1>5 DEF WriteRejected
  <2>2. \A s \in DOMAIN consumed' : s \in DOMAIN consumed /\ consumed'[s] = consumed[s]
    BY <2>1, SweptLedger
  <2>3. NoneStarted
    BY <1>5, AnswerStartsNothing DEF WriteRejected
  <2>4. Now <= Now'
    BY <1>0, <1>5, <2>1, GateAssumption DEF WriteRejected, Now
  <2> QED
    BY <1>5, <2>2, <2>3, <2>4 DEF WriteRejected, Quiet
<1>6. ASSUME NEW c \in Caller, NEW stored \in BOOLEAN, Settle(c, stored) PROVE Quiet
  <2>1. NoneStarted
    BY <1>6 DEF Settle, TypeOK, CallsOK, NoneStarted, InFlight
  <2>2. \A i \in committed' \ committed : i = calls[c].entry /\ c \in InFlight
    BY <1>6 DEF Settle, InFlight
  <2> QED
    BY <1>0, <1>6, <2>1, <2>2 DEF Settle, clocks, Now, Quiet
<1>7. CASE Restart
  <2>1. NoneStarted
    BY <1>7 DEF Restart, TypeOK, CallsOK, NoneStarted, InFlight
  <2>2. \/ mono' = mono /\ boot' = boot
        \/ MayReboot /\ mono' = 0 /\ boot' = Now
    BY <1>7 DEF Restart
  <2>3. \A i \in committed' \ committed : \E c \in InFlight : i = calls[c].entry
    BY <1>7 DEF Restart
  <2>4. Now' = boot' + mono'
    BY DEF Now
  <2>5. Now <= Now'
    BY <1>0, <2>2, <2>4
  <2>6. log' = log /\ minted' = minted /\ epoch' = epoch + 1
    BY <1>7 DEF Restart
  <2>7. MayReboot \/ boot' = boot
    BY <2>2
  <2> QED
    BY <2>1, <2>3, <2>5, <2>6, <2>7 DEF Quiet
<1>8. CASE UNCHANGED vars
  BY <1>0, <1>8 DEF vars, clocks, policy, Now, Quiet, NoneStarted, InFlight
<1> QED
  BY <1>1, <1>2, <1>3, <1>4, <1>5, <1>6, <1>7, <1>8, AuthorisedKind DEF Next

-----------------------------------------------------------------------------
(* The invariant *)

\* Nonces were handed out in the past, in a process that never rebooted with a
\* timestamp that is not later.
MintedBefore ==
    \A m \in minted : m.at <= Now /\ (~MayReboot => m.sig.ts <= m.at)

\* What is in the database conformed when it was sent.
PendingConforms ==
    \A c \in InFlight : LET e == log[calls[c].entry] IN Valid(e.shape, e.data, e.format)

\* Entries are of past processes or this one, and were checked before expiry.
EntriesOK ==
    \A i \in DOMAIN log :
        /\ log[i].epoch <= epoch
        /\ log[i].checked - log[i].sig.ts <= TTL
        /\ log[i].checked <= log[i].swept /\ log[i].swept <= log[i].burned
        /\ log[i].swept <= log[i].checked + Drift
        /\ ~MayReboot => log[i].at = log[i].checked

LedgerInv == TTL > 0 => LedgerIsRecent

GateInv ==
    /\ TypeOK /\ MintedBefore /\ PendingConforms /\ EntriesOK /\ LedgerInv
    /\ BoundToValidation /\ StoredConforms
    /\ ~MayReboot => boot = 0

LEMMA GateInit == Init => GateInv
<1> SUFFICES ASSUME Init PROVE GateInv
  OBVIOUS
<1>1. TypeOK
  BY InitType
<1>2. minted = {} /\ log = <<>> /\ committed = {} /\ boot = 0 /\ InFlight = {}
  BY DEF Init, InFlight, Idle
<1> QED
  BY <1>1, <1>2 DEF GateInv, MintedBefore, PendingConforms, EntriesOK, LedgerInv,
                    LedgerIsRecent, BoundToValidation, StoredConforms

(* Clock readings are natural numbers before and after a step. *)
LEMMA ClocksRange ==
    ASSUME TypeOK, TypeOK'
    PROVE  /\ Now \in Nat /\ Now' \in Nat /\ mono \in Nat /\ Now = boot + mono
           /\ epoch \in Nat /\ boot \in Nat
<1>1. Now \in Nat /\ mono \in Nat /\ Now = boot + mono /\ epoch \in Nat /\ boot \in Nat
  BY DEF TypeOK, ClocksOK, Now, Time
<1>2. boot' + mono' \in Time
  BY DEF TypeOK, ClocksOK
<1>3. Now' = boot' + mono'
  BY DEF Now
<1> QED
  BY <1>1, <1>2, <1>3 DEF Time

LEMMA QuietKeeps == ASSUME GateInv, TypeOK', Quiet PROVE GateInv'
<1>0. /\ Now \in Nat /\ Now' \in Nat /\ mono \in Nat /\ Now = boot + mono
      /\ epoch \in Nat /\ boot \in Nat
  BY ClocksRange DEF GateInv
<1>1. \A m \in minted : m.at \in Nat /\ m.sig.ts \in Nat
  BY DEF GateInv, TypeOK, MintedOK, Signature, Time
<1>2. \A i \in DOMAIN log : log[i].epoch \in Nat
  <2>1. \A i \in DOMAIN log : log[i] \in Authorisation
    BY DEF GateInv, TypeOK, LogOK
  <2> QED
    BY <2>1 DEF Authorisation
<1>3. MintedBefore'
  <2>1. ASSUME NEW m \in minted PROVE m.at <= Now' /\ (~MayReboot => m.sig.ts <= m.at)
    BY <1>0, <1>1 DEF GateInv, MintedBefore, Quiet
  <2>2. ASSUME NEW m \in minted', m \notin minted
        PROVE  m.at <= Now' /\ (~MayReboot => m.sig.ts <= m.at)
    BY <1>0, <2>2 DEF GateInv, Quiet
  <2> QED
    BY <2>1, <2>2 DEF MintedBefore
<1>4. PendingConforms'
  BY DEF GateInv, PendingConforms, Quiet, NoneStarted
<1>5. EntriesOK'
  <2>1. epoch <= epoch' /\ epoch' \in Nat
    BY <1>0 DEF Quiet
  <2> QED
    BY <1>0, <1>2, <2>1 DEF GateInv, EntriesOK, Quiet
<1>6. LedgerInv'
  <2>1. CASE epoch' = epoch /\ \A s \in DOMAIN consumed' :
                 s \in DOMAIN consumed /\ consumed'[s] = consumed[s]
    BY <2>1 DEF GateInv, LedgerInv, LedgerIsRecent, Quiet
  <2>2. CASE epoch' = epoch + 1
    <3>1. \A i \in DOMAIN log : log[i].epoch # epoch'
      BY <1>0, <1>2, <2>2 DEF GateInv, EntriesOK
    <3> QED
      BY <3>1 DEF LedgerInv, LedgerIsRecent, Quiet
  <2> QED
    BY <2>1, <2>2 DEF Quiet
<1>7. BoundToValidation'
  BY DEF GateInv, BoundToValidation, FactOf, Quiet
<1>8. StoredConforms'
  <2> SUFFICES ASSUME NEW i \in committed'
               PROVE  Valid(log[i].shape, log[i].data, log[i].format)
    BY DEF StoredConforms, Quiet
  <2>1. CASE i \in committed
    BY <2>1 DEF GateInv, StoredConforms
  <2>2. CASE i \notin committed
    BY <2>2 DEF GateInv, PendingConforms, Quiet
  <2> QED
    BY <2>1, <2>2
<1>9. ~MayReboot => boot' = 0
  BY DEF GateInv, Quiet
<1> QED
  BY <1>3, <1>4, <1>5, <1>6, <1>7, <1>8, <1>9 DEF GateInv

LEMMA AuthorisationKeeps ==
    ASSUME GateInv, TypeOK', NEW c \in Caller, NEW d \in Domain, NEW x \in Data,
           NEW f \in Format, NEW e \in Authorisation, Authorises(e, c, d, x, f)
    PROVE  GateInv'
<1> DEFINE new == Len(log) + 1
<1>0. /\ Now \in Nat /\ Now' \in Nat /\ mono \in Nat /\ Now = boot + mono
      /\ epoch \in Nat /\ boot \in Nat /\ TTL \in Nat
  BY ClocksRange, GateAssumption DEF GateInv
<1>1. log \in Seq(Authorisation)
  BY DEF GateInv, TypeOK, LogOK
<1>2. /\ DOMAIN log' = 1..new /\ new \notin DOMAIN log /\ log'[new] = e /\ Len(log') = new
      /\ \A i \in DOMAIN log : i \in DOMAIN log' /\ log'[i] = log[i]
      /\ \A i \in DOMAIN log' : i \in DOMAIN log \/ i = new
  BY <1>1 DEF Authorises
<1>3. MintedBefore'
  <2>1. \A m \in minted : m.at \in Nat
    BY DEF GateInv, TypeOK, MintedOK, Time
  <2> QED
    BY <1>0, <2>1 DEF GateInv, MintedBefore, Authorises
<1>4. PendingConforms'
  <2> SUFFICES ASSUME NEW g \in InFlight'
               PROVE  Valid(log'[calls'[g].entry].shape, log'[calls'[g].entry].data,
                            log'[calls'[g].entry].format)
    BY DEF PendingConforms
  <2>0. calls \in [Caller -> [phase : {"idle", "writing"},
                              result : {"none", "refused", "success", "failed", "lost"},
                              entry : 0..Len(log)]]
    BY DEF GateInv, TypeOK, CallsOK
  <2>1. CASE g \in InFlight /\ calls'[g].entry = calls[g].entry
    <3>1. calls[g].entry \in DOMAIN log
      BY <1>1, <2>1 DEF GateInv, TypeOK, CallsOK
    <3> QED
      BY <1>2, <2>1, <3>1 DEF GateInv, PendingConforms
  <2>2. CASE calls'[g].entry = new /\ Conforms(d, x, f)
    BY <1>2, <2>2 DEF Authorises, Conforms
  <2>3. ASSUME NEW result, Answer(c, result)
        PROVE  g \in InFlight /\ calls'[g].entry = calls[g].entry
    BY <2>0, <2>3 DEF Answer, InFlight
  <2>4. ASSUME calls' = [calls EXCEPT ![c] = [phase |-> "writing", result |-> "none",
                                              entry |-> Len(log) + 1]],
               Conforms(d, x, f)
        PROVE  \/ g \in InFlight /\ calls'[g].entry = calls[g].entry
               \/ calls'[g].entry = new /\ Conforms(d, x, f)
    BY <2>0, <2>4 DEF InFlight
  <2> QED
    BY <2>1, <2>2, <2>3, <2>4 DEF Authorises
<1>5. EntriesOK'
  <2>1. ~MayReboot => e.at = e.checked
    BY <1>0 DEF GateInv, Authorises
  <2>2. /\ e.epoch <= epoch' /\ epoch' = epoch /\ e.checked - e.sig.ts <= TTL
        /\ e.swept <= e.burned /\ e.checked <= e.swept /\ e.swept <= e.checked + Drift
    BY <1>0 DEF Authorises
  <2> QED
    BY <1>2, <2>1, <2>2 DEF GateInv, EntriesOK
<1>6. LedgerInv'
  <2> SUFFICES ASSUME TTL > 0, NEW s \in DOMAIN consumed'
               PROVE  consumed'[s] > e.swept
    BY <1>2 DEF LedgerInv, LedgerIsRecent
  <2>1. e.swept \in Nat /\ e.burned \in Nat /\ e.swept <= e.burned
    BY DEF Authorises, Authorisation, Time
  <2>2. consumed'[s] > e.swept \/ consumed'[s] = e.burned + TTL
    BY DEF Authorises
  <2> QED
    BY <1>0, <2>1, <2>2
<1>7. BoundToValidation'
  <2>1. PICK m \in minted : m.sig = e.sig
    BY DEF Authorises
  <2>2. m.at <= e.at /\ FactOf(e) = <<m.sig.domain, m.sig.data>>
    BY <2>1 DEF GateInv, MintedBefore, Authorises, FactOf
  <2> QED
    BY <1>2, <2>1, <2>2 DEF GateInv, BoundToValidation, FactOf, Authorises
<1>8. StoredConforms'
  <2>1. committed \subseteq DOMAIN log
    BY <1>1 DEF GateInv, TypeOK, LogOK
  <2> QED
    BY <1>2, <2>1 DEF GateInv, StoredConforms, Authorises
<1>9. ~MayReboot => boot' = 0
  BY DEF GateInv, Authorises
<1> QED
  BY <1>3, <1>4, <1>5, <1>6, <1>7, <1>8, <1>9 DEF GateInv

LEMMA GateNext == GateInv /\ [Next]_vars => GateInv'
<1> SUFFICES ASSUME GateInv, [Next]_vars PROVE GateInv'
  OBVIOUS
<1>1. TypeOK /\ TypeOK'
  BY NextType DEF GateInv
<1> QED
  BY <1>1, StepKinds, QuietKeeps, AuthorisationKeeps

LEMMA GateCorrect == Spec => []GateInv
  BY GateInit, GateNext, PTL DEF Spec
-----------------------------------------------------------------------------
(* The theorems *)

(* Whatever fields callers mix, a nonce authorises only the data and domain  *)
(* it was handed out for, after it was (write_gate.py:272-338).              *)
THEOREM BoundCorrect == Spec => []BoundToValidation
<1>1. GateInv => BoundToValidation
  BY DEF GateInv
<1> QED
  BY <1>1, GateCorrect, PTL

(* What is in the graph conforms to the shapes of the process that sent it,  *)
(* over restarts, edited shapes and lost answers (write_gate.py:211-220).    *)
THEOREM ConformsCorrect == Spec => []StoredConforms
<1>1. GateInv => StoredConforms
  BY DEF GateInv
<1> QED
  BY <1>1, GateCorrect, PTL

(* With a lifetime that is not zero the ledger never holds a signature whose *)
(* tracking had ended at the last sweep (write_gate.py:352-362).             *)
THEOREM RecentCorrect == ASSUME TTL > 0 PROVE Spec => []LedgerIsRecent
<1>1. GateInv => LedgerIsRecent
  BY DEF GateInv, LedgerInv
<1> QED
  BY <1>1, GateCorrect, PTL

(* While the host is not rebooted, what is written was validated at most TTL *)
(* before (write_gate.py:8-10 and 289-295).                                  *)
THEOREM SoonCorrect == ASSUME ~MayReboot PROVE Spec => []WrittenSoonAfterValidation
<1>1. GateInv => WrittenSoonAfterValidation
  <2> SUFFICES ASSUME GateInv, NEW i \in DOMAIN log
               PROVE  \E m \in minted : /\ m.sig = log[i].sig /\ m.at <= log[i].at
                                        /\ log[i].at <= m.at + TTL
    BY DEF WrittenSoonAfterValidation
  <2>1. PICK m \in minted : m.sig = log[i].sig /\ m.at <= log[i].at
    BY DEF GateInv, BoundToValidation
  <2>2. /\ log[i].at = log[i].checked /\ log[i].checked - m.sig.ts <= TTL
        /\ m.sig.ts <= m.at
    BY <2>1 DEF GateInv, EntriesOK, MintedBefore
  <2>3. log[i] \in Authorisation /\ m.sig \in Signature /\ m.at \in Nat
    BY DEF GateInv, TypeOK, LogOK, MintedOK, Time
  <2>4. log[i].at \in Nat /\ m.sig.ts \in Nat
    BY <2>3 DEF Authorisation, Signature, Time
  <2> QED
    BY <2>1, <2>2, <2>3, <2>4, GateAssumption
<1> QED
  BY <1>1, GateCorrect, PTL
-----------------------------------------------------------------------------
(* How often a nonce is good *)

(* A nonce whose first burn comes more than the drift of one call after its  *)
(* timestamp is single-use in the process that burned it: what is left of    *)
(* the promise of write_gate.py:14-15, and what Kernel takes from the gate.  *)
BurnedLateIsFinal ==
    \A i, j \in DOMAIN log :
        (i < j /\ log[i].sig = log[j].sig /\ log[i].epoch = log[j].epoch)
            => log[i].burned <= log[i].sig.ts + Drift

THEOREM FinalBurnCorrect == Spec => []BurnedLateIsFinal
<1>1. TypeOK /\ EntriesOK /\ ReuseOnlyAtTheBoundary => BurnedLateIsFinal
  <2> SUFFICES ASSUME TypeOK, EntriesOK, ReuseOnlyAtTheBoundary,
                      NEW i \in DOMAIN log, NEW j \in DOMAIN log, i < j,
                      log[i].sig = log[j].sig, log[i].epoch = log[j].epoch
               PROVE  log[i].burned <= log[i].sig.ts + Drift
    BY DEF BurnedLateIsFinal
  <2>1. log[i] \in Authorisation /\ log[j] \in Authorisation
    BY DEF TypeOK, LogOK
  <2>2. log[i].burned - log[i].sig.ts <= log[j].swept - log[j].checked
    BY DEF ReuseOnlyAtTheBoundary
  <2>3. log[j].swept <= log[j].checked + Drift
    BY DEF EntriesOK
  <2> QED
    BY <2>1, <2>2, <2>3, GateAssumption DEF Authorisation, Signature, Time
<1>2. GateInv => TypeOK /\ EntriesOK
  BY DEF GateInv
<1> QED
  BY <1>1, <1>2, GateCorrect, BoundaryCorrect, PTL

(* While the host stays up and TTL is longer than the drift of a call, no    *)
(* process accepts a nonce three times: the boundary instant is met once     *)
(* (write_gate.py:291-298 and 352-362).                                      *)
AcceptedTwiceAtMost ==
    \A i, j, k \in DOMAIN log :
        i < j /\ j < k /\ log[i].sig = log[j].sig /\ log[j].sig = log[k].sig
            => ~(log[i].epoch = log[j].epoch /\ log[j].epoch = log[k].epoch)

THEOREM TwiceCorrect == ASSUME ~MayReboot, Drift < TTL PROVE Spec => []AcceptedTwiceAtMost
<1>1. GateInv /\ ReuseOnlyAfterTTL /\ BurnedLateIsFinal => AcceptedTwiceAtMost
  <2> SUFFICES ASSUME GateInv, ReuseOnlyAfterTTL, BurnedLateIsFinal,
                      NEW i \in DOMAIN log, NEW j \in DOMAIN log, NEW k \in DOMAIN log,
                      i < j, j < k, log[i].sig = log[j].sig, log[j].sig = log[k].sig,
                      log[i].epoch = log[j].epoch, log[j].epoch = log[k].epoch
               PROVE  FALSE
    BY DEF AcceptedTwiceAtMost
  <2>1. log[i] \in Authorisation /\ log[j] \in Authorisation
    BY DEF GateInv, TypeOK, LogOK
  <2>2. PICK m \in minted : m.sig = log[i].sig /\ m.at <= log[i].at
    BY DEF GateInv, BoundToValidation
  <2>3. /\ m.sig.ts <= m.at /\ log[i].at = log[i].checked
        /\ log[j].swept <= log[j].burned
        /\ log[i].checked <= log[i].swept /\ log[i].swept <= log[i].burned
    BY <2>2 DEF GateInv, EntriesOK, MintedBefore
  <2>4. m.sig \in Signature /\ m.at \in Nat
    BY DEF GateInv, TypeOK, MintedOK, Time
  (* The first burn is not before the timestamp, the second TTL after the    *)
  (* first, and so too late to be followed by a third use. *)
  <2>5. log[i].burned >= log[i].sig.ts
    <3>1. /\ log[i].checked \in Nat /\ log[i].swept \in Nat /\ log[i].burned \in Nat
          /\ log[i].sig.ts \in Nat /\ m.at \in Nat
      BY <2>1, <2>4 DEF Authorisation, Signature, Time
    <3> QED
      BY <2>2, <2>3, <3>1
  <2>6. log[j].swept >= log[i].burned + TTL
    BY DEF ReuseOnlyAfterTTL
  <2>7. log[j].burned <= log[j].sig.ts + Drift
    BY DEF BurnedLateIsFinal
  <2> QED
    BY <2>1, <2>3, <2>5, <2>6, <2>7, GateAssumption DEF Authorisation, Signature, Time
<1> QED
  BY <1>1, GateCorrect, ReuseCorrect, FinalBurnCorrect, PTL
-----------------------------------------------------------------------------
(* The refinement of GovernedStore *)

\* The variables of the abstract specification.
Approved == {<<m.sig.domain, m.sig.data>> : m \in minted}
Pending == [c \in Caller |-> IF c \in InFlight THEN FactOf(log[calls[c].entry]) ELSE <<>>]
LastAnswer == [c \in Caller |-> calls[c].result]
InGraph == {FactOf(log[i]) : i \in committed}

\* The log only grows.
LogKept == \A i \in DOMAIN log : log'[i] = log[i]

LEMMA CallType ==
    ASSUME TypeOK, NEW c \in Caller
    PROVE  /\ calls[c] \in [phase : {"idle", "writing"},
                            result : {"none", "refused", "success", "failed", "lost"},
                            entry : 0..Len(log)]
           /\ DOMAIN calls = Caller
           /\ c \in InFlight <=> calls[c].phase = "writing"
           /\ c \in InFlight => calls[c].entry \in DOMAIN log
<1>1. log \in Seq(Authorisation)
  BY DEF TypeOK, LogOK
<1> QED
  BY <1>1 DEF TypeOK, CallsOK, InFlight

LEMMA CommittedAreLogged == TypeOK => committed \subseteq DOMAIN log
<1>1. ASSUME TypeOK PROVE committed \subseteq DOMAIN log
  <2>1. log \in Seq(Authorisation)
    BY <1>1 DEF TypeOK, LogOK
  <2> QED
    BY <1>1, <2>1 DEF TypeOK, LogOK
<1> QED
  BY <1>1

(* A fact is not the absence of one. *)
LEMMA FactIsSome == \A e : FactOf(e) # <<>>
  BY DEF FactOf

LEMMA StoreStarts == Init => Store!StoreInit
<1> SUFFICES ASSUME Init PROVE Store!StoreInit
  OBVIOUS
<1>1. /\ minted = {} /\ committed = {} /\ InFlight = {}
      /\ \A c \in Caller : calls[c].result = "none"
  BY DEF Init, InFlight, Idle
<1> QED
  BY <1>1 DEF Store!StoreInit

(* An answer before the await is a refusal. *)
LEMMA AnswerRefuses ==
    ASSUME TypeOK, NEW c \in Caller, NEW result \in {"refused", "failed"},
           Answer(c, result), calls[c].phase = "idle", LogKept, UNCHANGED <<minted, committed>>
    PROVE  Store!Refuse(c, result)
<1>1. /\ \A g \in Caller : g \in InFlight' <=> g \in InFlight
      /\ \A g \in InFlight : calls'[g] = calls[g]
      /\ \A g \in Caller : calls'[g].result = IF g = c THEN result ELSE calls[g].result
      /\ c \notin InFlight
  BY CallType DEF Answer, InFlight
<1>2. Pending' = Pending /\ Pending[c] = <<>>
  BY <1>1, CallType DEF Pending, LogKept, FactOf
<1>3. LastAnswer' = [LastAnswer EXCEPT ![c] = result]
  BY <1>1 DEF LastAnswer
<1>4. InGraph' = InGraph /\ Approved' = Approved
  BY CommittedAreLogged DEF InGraph, Approved, LogKept, FactOf
<1> QED
  BY <1>2, <1>3, <1>4 DEF Store!Refuse, Pending, LastAnswer, InGraph, Approved

(* A write that passes the nonce check starts with an approved fact, or is   *)
(* refused because its data no longer conform. *)
LEMMA AuthorisedStarts ==
    ASSUME HasNeo4j, TypeOK, NEW c \in Caller, NEW d \in Domain, NEW x \in Data,
           NEW f \in Format, NEW e \in Authorisation, Authorises(e, c, d, x, f)
    PROVE  Store!Start(c, <<d, x>>) \/ Store!Refuse(c, "failed")
<1> DEFINE new == Len(log) + 1
<1>1. /\ LogKept /\ log'[new] = e /\ new \notin DOMAIN log
  <2>1. log \in Seq(Authorisation)
    BY DEF TypeOK, LogOK
  <2> QED
    BY <2>1 DEF Authorises, LogKept
<1>2. UNCHANGED <<minted, committed>> /\ calls[c].phase = "idle"
  BY DEF Authorises
<1>3. CASE Answer(c, "failed")
  BY <1>1, <1>2, <1>3, AnswerRefuses
<1>4. CASE calls' = [calls EXCEPT ![c] = [phase |-> "writing", result |-> "none",
                                          entry |-> new]]
  <2>1. /\ InFlight' = InFlight \cup {c} /\ c \notin InFlight
        /\ \A g \in Caller : g # c => calls'[g] = calls[g]
        /\ calls'[c].entry = new /\ calls'[c].result = "none"
    BY <1>2, <1>4, CallType DEF InFlight
  <2>2. FactOf(e) = <<d, x>>
    BY DEF Authorises, FactOf
  <2>3. Pending' = [Pending EXCEPT ![c] = <<d, x>>] /\ Pending[c] = <<>>
    <3>1. \A g \in Caller : g # c /\ g \in InFlight
            => FactOf(log'[calls'[g].entry]) = FactOf(log[calls[g].entry])
      BY <1>1, <2>1, CallType DEF LogKept
    <3>2. FactOf(log'[calls'[c].entry]) = <<d, x>>
      BY <1>1, <2>1, <2>2
    <3> QED
      BY <2>1, <3>1, <3>2 DEF Pending, FactOf
  <2>4. LastAnswer' = [LastAnswer EXCEPT ![c] = "none"]
    BY <2>1 DEF LastAnswer
  <2>5. InGraph' = InGraph /\ Approved' = Approved
    BY <1>1, <1>2, CommittedAreLogged DEF InGraph, Approved, LogKept, FactOf
  <2>6. <<d, x>> \in Approved
    BY DEF Authorises, Approved
  <2> QED
    BY <2>3, <2>4, <2>5, <2>6
    DEF Store!Start, Pending, LastAnswer, InGraph, Approved
<1> QED
  BY <1>3, <1>4 DEF Authorises

(* The end of a transaction finishes the write. *)
LEMMA SettleFinishes ==
    ASSUME TypeOK, NEW c \in Caller, NEW stored \in BOOLEAN, Settle(c, stored)
    PROVE  Store!Finish(c)
<1>1. /\ c \in InFlight /\ UNCHANGED <<minted, log>>
      /\ committed' = IF stored THEN committed \cup {calls[c].entry} ELSE committed
  BY DEF Settle, InFlight
<1>2. PICK result \in {"success", "failed"} :
        /\ calls' = [calls EXCEPT ![c].phase = "idle", ![c].result = result]
        /\ result = "success" => stored
  BY DEF Settle
<1>3. /\ InFlight' = InFlight \ {c}
      /\ \A g \in Caller : g # c => calls'[g] = calls[g]
      /\ calls'[c].result = result
  BY <1>2, CallType DEF InFlight
<1>4. /\ Pending' = [Pending EXCEPT ![c] = <<>>]
      /\ Pending[c] = FactOf(log[calls[c].entry]) /\ Pending[c] # <<>>
  BY <1>1, <1>3, FactIsSome DEF Pending, FactOf
<1>5. LastAnswer' = [LastAnswer EXCEPT ![c] = result]
  BY <1>3 DEF LastAnswer
<1>6. InGraph' = IF stored THEN InGraph \cup {Pending[c]} ELSE InGraph
  <2>1. InGraph' = {FactOf(log[i]) : i \in committed'}
    BY <1>1 DEF InGraph, FactOf
  <2>2. CASE stored
    BY <1>1, <1>4, <2>1, <2>2 DEF InGraph
  <2>3. CASE ~stored
    BY <1>1, <2>1, <2>3 DEF InGraph
  <2> QED
    BY <2>2, <2>3
<1>7. Approved' = Approved
  BY <1>1 DEF Approved
<1>8. \/ InGraph' = InGraph \cup {Pending[c]} /\ result = "success"
      \/ InGraph' \in {InGraph, InGraph \cup {Pending[c]}} /\ result = "failed"
  BY <1>2, <1>6
<1> QED
  BY <1>4, <1>5, <1>7, <1>8 DEF Store!Finish, Pending, LastAnswer, InGraph, Approved

(* A restart loses the writes in flight, some of them committed. *)
LEMMA RestartLoses ==
    ASSUME TypeOK, Restart
    PROVE  Store!Lose
<1>1. PICK S \in SUBSET InFlight : committed' = committed \cup {calls[c].entry : c \in S}
  BY DEF Restart
<1>2. UNCHANGED <<minted, log>>
  BY DEF Restart
<1>3. /\ InFlight' = {}
      /\ \A c \in Caller : calls'[c].result = IF c \in InFlight THEN "lost" ELSE calls[c].result
  BY CallType DEF Restart, InFlight
<1>4. \A c \in Caller : Pending[c] # <<>> <=> c \in InFlight
  BY FactIsSome DEF Pending
<1>5. Pending' = [c \in Caller |-> <<>>]
  BY <1>3 DEF Pending
<1>6. LastAnswer' = [c \in Caller |-> IF Pending[c] = <<>> THEN LastAnswer[c] ELSE "lost"]
  BY <1>3, <1>4 DEF LastAnswer
<1>7. InGraph' = InGraph \cup {Pending[c] : c \in S}
  <2>1. InGraph' = {FactOf(log[i]) : i \in committed'}
    BY <1>2 DEF InGraph, FactOf
  <2>2. \A c \in S : Pending[c] = FactOf(log[calls[c].entry])
    BY <1>1 DEF Pending, InFlight
  <2> QED
    BY <1>1, <2>1, <2>2 DEF InGraph
<1>8. S \in SUBSET {c \in Caller : Pending[c] # <<>>}
  BY <1>1, <1>4 DEF InFlight
<1>9. Approved' = Approved
  BY <1>2 DEF Approved
<1> QED
  BY <1>5, <1>6, <1>7, <1>8, <1>9 DEF Store!Lose, Pending, LastAnswer, InGraph, Approved

(* A validation approves its data or changes nothing. *)
LEMMA VerifyApproves ==
    ASSUME TypeOK, NEW d \in Domain, NEW x \in Data, NEW f \in Format, Verify(d, x, f)
    PROVE  Store!Approve(<<d, x>>) \/ UNCHANGED Store!storeVars
<1>1. UNCHANGED <<log, calls, committed>>
  BY DEF Verify
<1>2. /\ Pending' = Pending /\ LastAnswer' = LastAnswer /\ InGraph' = InGraph
  BY <1>1 DEF Pending, LastAnswer, InGraph, InFlight, FactOf
<1>3. CASE minted' = minted
  BY <1>2, <1>3 DEF Store!storeVars, Pending, LastAnswer, InGraph
<1>4. CASE minted' = minted \cup {[sig |-> [ts |-> Second(mono), data |-> x, domain |-> d],
                                   at |-> Now]}
  <2> DEFINE fresh == [sig |-> [ts |-> Second(mono), data |-> x, domain |-> d], at |-> Now]
  <2>1. fresh.sig.domain = d /\ fresh.sig.data = x
    OBVIOUS
  <2>2. minted' = minted \cup {fresh}
    BY <1>4
  <2> HIDE DEF fresh
  <2>3. Approved' = {<<m.sig.domain, m.sig.data>> : m \in minted \cup {fresh}}
    BY <2>2 DEF Approved
  <2>4. Approved' = Approved \cup {<<d, x>>}
    BY <2>1, <2>3 DEF Approved
  <2> QED
    BY <1>2, <2>4 DEF Store!Approve, Approved, Pending, LastAnswer, InGraph
<1> QED
  BY <1>3, <1>4 DEF Verify

(* Every step maps to a step of GovernedStore or to none. *)
LEMMA StoreSteps ==
    ASSUME HasNeo4j, TypeOK, [Next]_vars
    PROVE  [Store!StoreNext]_(Store!storeVars)
<1>1. ASSUME UNCHANGED <<minted, log, calls, committed>>
      PROVE  UNCHANGED Store!storeVars
  BY <1>1 DEF Store!storeVars, InFlight, FactOf
<1>2. ASSUME NEW d \in Domain, NEW x \in Data, NEW f \in Format, Verify(d, x, f)
      PROVE  [Store!StoreNext]_(Store!storeVars)
  BY <1>2, VerifyApproves DEF Store!StoreNext
<1>3. ASSUME NEW c \in Caller, Answer(c, "refused"), calls[c].phase = "idle",
             UNCHANGED <<minted, log, committed>>
      PROVE  Store!StoreNext
  <2>1. LogKept
    BY <1>3 DEF LogKept
  <2>2. Store!Refuse(c, "refused")
    BY <1>3, <2>1, AnswerRefuses
  <2> QED
    BY <2>2 DEF Store!StoreNext, Store!Answers
<1>4. ASSUME NEW c \in Caller, WriteOverQuota(c) \/ WriteUnreadable(c) PROVE Store!StoreNext
  BY <1>3, <1>4 DEF WriteOverQuota, WriteUnreadable
<1>5. ASSUME NEW c \in Caller, NEW d \in Domain, NEW x \in Data, WriteRejected(c, d, x)
      PROVE  Store!StoreNext
  BY <1>3, <1>5 DEF WriteRejected
<1>6. ASSUME NEW c \in Caller, NEW d \in Domain, NEW x \in Data, NEW f \in Format,
             WriteAuthorised(c, d, x, f)
      PROVE  Store!StoreNext
  BY <1>6, AuthorisedKind, AuthorisedStarts DEF Store!StoreNext, Store!Answers
<1>7. ASSUME NEW c \in Caller, NEW stored \in BOOLEAN, Settle(c, stored)
      PROVE  Store!StoreNext
  BY <1>7, SettleFinishes DEF Store!StoreNext
<1>8. CASE Restart
  BY <1>8, RestartLoses DEF Store!StoreNext
<1>9. CASE Tick
  BY <1>1, <1>9 DEF Tick
<1>10. ASSUME NEW d \in Domain, EditShapes(d) PROVE UNCHANGED Store!storeVars
  BY <1>1, <1>10 DEF EditShapes
<1>11. CASE UNCHANGED vars
  BY <1>1, <1>11 DEF vars
<1> QED
  BY <1>2, <1>4, <1>5, <1>6, <1>7, <1>8, <1>9, <1>10, <1>11 DEF Next

(* A gate with a database keeps the promise of GovernedStore: approved facts *)
(* only, through writes that were started, and a reported success is in the  *)
(* graph, over restarts and lost answers (write_gate.py:118-250).            *)
THEOREM StoreCorrect == ASSUME HasNeo4j PROVE Spec => KeepsStorePromise
<1>1. TypeOK /\ [Next]_vars => [Store!StoreNext]_(Store!storeVars)
  BY StoreSteps
<1> QED
  BY TypeCorrect, StoreStarts, <1>1, PTL DEF Spec, KeepsStorePromise, Store!StoreSpec
================================================================================
