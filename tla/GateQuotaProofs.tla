---------------------------- MODULE GateQuotaProofs ----------------------------
(***************************************************************************)
(* The theorem that the gate of WriteGate keeps its quota: over all calls, *)
(* clock drifts and restarts, no process authorises more writes than the   *)
(* session and the minute allow.                                           *)
(***************************************************************************)
EXTENDS GateStoreProofs, FiniteSetTheorems

-----------------------------------------------------------------------------
(* The invariant *)

\* The writes this process recorded, and those it authorised, after time t.
Recorded(t) == {w \in writeTimes : w.at > t}
Made(t) == {i \in DOMAIN log : log[i].epoch = epoch /\ log[i].at > t}

\* All writes this process authorised.
MadeHere == {i \in DOMAIN log : log[i].epoch = epoch}

\* Authorised writes are of past processes or this one, and in the past.
LogIsPast == \A i \in DOMAIN log : log[i].epoch <= epoch /\ log[i].at <= Now

\* Elements of _write_timestamps are told apart by the count at which they were made.
TimesOK == IsFiniteSet(writeTimes) /\ \A w \in writeTimes : w.n < writeCount

\* The session counter covers every authorised write, and stays within its limit.
SessionCovered == writeCount <= MaxPerSession /\ Cardinality(MadeHere) <= writeCount

\* So do the timestamps, for every instant that is still in the window: what was
\* pruned can no longer be counted.
Instants == (0 - Minute)..MaxTime
WindowCovered ==
    \A t \in Instants : t >= Now - Minute => Cardinality(Made(t)) <= Cardinality(Recorded(t))

QuotaInv ==
    /\ TypeOK /\ LogIsPast /\ QuotaHolds
    /\ HasPolicy => TimesOK /\ SessionCovered /\ WindowCovered

-----------------------------------------------------------------------------
(* Lemmas about the quota *)

(* Pruning drops nothing that a window ending now or later looks at          *)
(* (autonomy_policy.py:211).                                                 *)
LEMMA PruneKeeps ==
    ASSUME NEW times, \A w \in times : w.at \in Int, NEW now \in Int, NEW t \in Int,
           t >= now - Minute
    PROVE  {w \in Recent(times, now) : w.at > t} = {w \in times : w.at > t}
  BY QuotaAssumption DEF Recent

(* Part of a finite set is finite and not larger. *)
LEMMA PartIsSmaller ==
    ASSUME NEW S, IsFiniteSet(S), NEW R \in SUBSET S
    PROVE  /\ IsFiniteSet(R)
           /\ Cardinality(R) \in Nat /\ Cardinality(S) \in Nat
           /\ Cardinality(R) <= Cardinality(S)
  BY FS_Subset, FS_CardinalityType

(* Counting one element more. *)
LEMMA OneMore ==
    ASSUME NEW S, IsFiniteSet(S), NEW e
    PROVE  /\ IsFiniteSet(S \cup {e}) /\ Cardinality(S) \in Nat
           /\ Cardinality(S \cup {e}) = IF e \in S THEN Cardinality(S) ELSE Cardinality(S) + 1
  BY FS_AddElement, FS_CardinalityType

(* A check of the quota, whatever it answers, forgets nothing that a window  *)
(* ending now or later looks at; one that lets the write pass records it,    *)
(* with the limits still kept (autonomy_policy.py:188-229).                  *)
LEMMA QuotaChecked ==
    ASSUME TypeOK, HasPolicy, TimesOK, SessionCovered, NEW ok, CheckQuota(ok)
    PROVE  /\ TimesOK' /\ writeCount' \in Nat
           /\ writeCount <= writeCount' /\ writeCount' <= MaxPerSession
           /\ \A t \in Instants : t >= Now - Minute => Recorded(t) \subseteq Recorded(t)'
           /\ ok => /\ writeCount' = writeCount + 1
                    /\ \A t \in Instants : t = Now - Minute =>
                         Cardinality(Recorded(t)') <= MaxPerMinute
                    /\ \A t \in Instants : Now - Minute <= t /\ t < Now =>
                         Cardinality(Recorded(t)') = Cardinality(Recorded(t)) + 1
<1> DEFINE this == [n |-> writeCount, at |-> Now]
<1>0. /\ writeCount \in Nat /\ Now \in Int /\ this.at = Now /\ this.n = writeCount
      /\ \A w \in writeTimes : w.at \in Int /\ w.n \in Nat
      /\ MaxPerSession \in Nat /\ MaxPerMinute \in Nat /\ Minute \in Nat /\ Minute > 0
  BY QuotaAssumption DEF TypeOK, PolicyOK, ClocksOK, Now, Time
<1>1. /\ ok = WithinQuota(writeCount, writeTimes, Now)
      /\ writeCount' = CountAfter(writeCount, writeTimes, Now)
      /\ writeTimes' = TimesAfter(writeCount, writeTimes, Now)
  BY DEF CheckQuota
<1>2. this \notin writeTimes
  BY <1>0 DEF TimesOK
<1> HIDE DEF this
<1>3. /\ IsFiniteSet(Recent(writeTimes, Now)) /\ Recent(writeTimes, Now) \subseteq writeTimes
      /\ Cardinality(Recent(writeTimes, Now)) \in Nat
  BY PartIsSmaller DEF TimesOK, Recent
<1>4. Instants \subseteq Int
  BY <1>0, GateAssumption DEF Instants
<1>5. ASSUME NEW t \in Int, t >= Now - Minute
      PROVE  {w \in Recent(writeTimes, Now) : w.at > t} = {w \in writeTimes : w.at > t}
  BY <1>0, <1>5, PruneKeeps
<1>6. CASE ~ok
  <2>1. writeCount' = writeCount
    BY <1>1, <1>6 DEF CountAfter
  <2>2. writeTimes' \in {writeTimes, Recent(writeTimes, Now)}
    BY <1>1, <1>6 DEF TimesAfter, WithinQuota
  <2>3. TimesOK'
    BY <1>3, <2>1, <2>2 DEF TimesOK
  <2>4. \A t \in Instants : t >= Now - Minute => Recorded(t) \subseteq Recorded(t)'
    BY <1>4, <1>5, <2>2 DEF Recorded
  <2> QED
    BY <1>0, <1>6, <2>1, <2>3, <2>4 DEF SessionCovered
<1>7. CASE ok
  <2>1. ~SessionSpent(writeCount) /\ ~RateSpent(writeTimes, Now)
    BY <1>1, <1>7 DEF WithinQuota
  <2>2. writeCount' = writeCount + 1 /\ writeCount' <= MaxPerSession
    BY <1>0, <1>1, <1>7, <2>1 DEF CountAfter, SessionSpent
  <2>3. writeTimes' = Recent(writeTimes, Now) \cup {this}
    BY <1>1, <2>1 DEF TimesAfter, this
  <2>4. TimesOK'
    <3>1. IsFiniteSet(writeTimes')
      BY <1>3, <2>3, OneMore
    <3>2. \A w \in writeTimes' : w.n < writeCount'
      BY <1>0, <1>3, <2>2, <2>3 DEF TimesOK
    <3> QED
      BY <3>1, <3>2 DEF TimesOK
  <2>5. \A t \in Int : t >= Now - Minute =>
          Recorded(t)' = IF t < Now THEN Recorded(t) \cup {this} ELSE Recorded(t)
    BY <1>0, <1>5, <2>3 DEF Recorded
  <2>6. ASSUME NEW t \in Int, Now - Minute <= t, t < Now
        PROVE  Cardinality(Recorded(t)') = Cardinality(Recorded(t)) + 1
    <3>1. IsFiniteSet(Recorded(t))
      BY PartIsSmaller DEF TimesOK, Recorded
    <3>2. this \notin Recorded(t)
      BY <1>2 DEF Recorded
    <3> QED
      BY <2>5, <2>6, <3>1, <3>2, OneMore
  <2>7. ASSUME NEW t \in Int, t = Now - Minute
        PROVE  Cardinality(Recorded(t)') <= MaxPerMinute
    <3>1. Cardinality(Recent(writeTimes, Now)) < MaxPerMinute
      BY <1>0, <1>3, <2>1 DEF RateSpent
    <3>2. Recorded(t) = Recent(writeTimes, Now)
      BY <2>7 DEF Recorded, Recent
    <3>3. Now - Minute <= t /\ t < Now
      BY <1>0, <2>7
    <3>4. Cardinality(Recorded(t)') = Cardinality(Recorded(t)) + 1
      BY <2>6, <3>3
    <3> QED
      BY <1>0, <1>3, <3>1, <3>2, <3>4
  <2> QED
    BY <1>0, <1>4, <2>2, <2>4, <2>5, <2>6, <2>7
<1> QED
  BY <1>1, <1>6, <1>7 DEF WithinQuota
-----------------------------------------------------------------------------
(* The steps *)

\* A step of one process in which no write passes the nonce check: the quota may
\* have been asked, and whatever it answered is recorded.
Counts ==
    /\ log' = log /\ epoch' = epoch /\ Now <= Now'
    /\ UNCHANGED policy \/ \E ok \in BOOLEAN : CheckQuota(ok)

\* A step in which one does, as entry e of the log.
Logs(e) ==
    /\ log' = Append(log, e) /\ epoch' = epoch /\ Now <= Now'
    /\ e \in Authorisation /\ e.epoch = epoch /\ e.at = Now
    /\ CheckQuota(TRUE)

\* A step to the next process, with the counters of a new one.
Forgets ==
    /\ log' = log /\ epoch' = epoch + 1 /\ Now <= Now'
    /\ writeCount' = 0 /\ writeTimes' = {}

LEMMA QuotaSteps ==
    ASSUME TypeOK, TypeOK', [Next]_vars
    PROVE  Counts \/ Forgets \/ \E e \in Authorisation : Logs(e)
<1>0. /\ Now \in Nat /\ Now' \in Nat /\ Now = boot + mono /\ boot \in Nat /\ mono \in Nat
  BY ClocksRange
<1>1. CASE Tick
  BY <1>0, <1>1 DEF Tick, Now, Counts
<1>2. ASSUME NEW d \in Domain, EditShapes(d) PROVE Counts
  BY <1>0, <1>2 DEF EditShapes, clocks, Now, Counts
<1>3. ASSUME NEW d \in Domain, NEW x \in Data, NEW f \in Format, Verify(d, x, f) PROVE Counts
  BY <1>0, <1>3 DEF Verify, clocks, Now, Counts
<1>4. ASSUME NEW c \in Caller, WriteOverQuota(c) PROVE Counts
  <2>1. Now <= Now' /\ log' = log /\ epoch' = epoch
    BY <1>0, <1>4 DEF WriteOverQuota, clocks, Now
  <2>2. CheckQuota(FALSE)
    BY <1>4 DEF WriteOverQuota
  <2> QED
    BY <2>1, <2>2 DEF Counts
<1>5. ASSUME NEW c \in Caller, WriteUnreadable(c) PROVE Counts
  <2>1. Now <= Now' /\ log' = log /\ epoch' = epoch
    BY <1>0, <1>5 DEF WriteUnreadable, clocks, Now
  <2>2. CheckQuota(TRUE)
    BY <1>5 DEF WriteUnreadable
  <2> QED
    BY <2>1, <2>2 DEF Counts
<1>6. ASSUME NEW c \in Caller, NEW d \in Domain, NEW x \in Data, WriteRejected(c, d, x)
      PROVE Counts
  <2>1. PICK r \in mono..(mono + Drift) : mono' = r
    BY <1>6 DEF WriteRejected
  <2>2. Now <= Now'
    BY <1>0, <1>6, <2>1, GateAssumption DEF WriteRejected, Now
  <2> QED
    BY <1>6, <2>2 DEF WriteRejected, Counts
<1>7. ASSUME NEW c \in Caller, NEW d \in Domain, NEW x \in Data, NEW f \in Format,
             WriteAuthorised(c, d, x, f)
      PROVE  \E e \in Authorisation : Logs(e)
  <2>1. PICK e \in Authorisation : Authorises(e, c, d, x, f)
    BY <1>7, AuthorisedKind
  <2>2. CheckQuota(TRUE)
    BY <1>7 DEF WriteAuthorised
  <2> QED
    BY <2>1, <2>2 DEF Authorises, Logs
<1>8. ASSUME NEW c \in Caller, NEW stored \in BOOLEAN, Settle(c, stored) PROVE Counts
  BY <1>0, <1>8 DEF Settle, clocks, Now, Counts
<1>9. CASE Restart
  <2>1. \/ mono' = mono /\ boot' = boot
        \/ mono' = 0 /\ boot' = Now
    BY <1>9 DEF Restart
  <2>2. Now' = boot' + mono'
    BY DEF Now
  <2>3. Now <= Now'
    BY <1>0, <2>1, <2>2
  <2> QED
    BY <1>9, <2>3 DEF Restart, Forgets
<1>10. CASE UNCHANGED vars
  BY <1>0, <1>10 DEF vars, clocks, Now, Counts
<1> QED
  BY <1>1, <1>2, <1>3, <1>4, <1>5, <1>6, <1>7, <1>8, <1>9, <1>10 DEF Next

(* What the invariant is about, as numbers. *)
LEMMA QuotaRange ==
    ASSUME TypeOK, TypeOK'
    PROVE  /\ Now \in Nat /\ Now' \in Nat /\ epoch \in Nat /\ writeCount \in Nat
           /\ DOMAIN log = 1..Len(log) /\ Len(log) \in Nat /\ IsFiniteSet(DOMAIN log)
           /\ \A i \in DOMAIN log : log[i].epoch \in Nat /\ log[i].at \in Nat
           /\ Instants \subseteq Int /\ Minute \in Nat /\ Minute > 0
           /\ Now - Minute \in Instants
           /\ MaxPerSession \in Nat /\ MaxPerMinute \in Nat
<1>1. log \in Seq(Authorisation)
  BY DEF TypeOK, LogOK
<1>2. \A i \in DOMAIN log : log[i] \in Authorisation
  BY <1>1
<1>3. DOMAIN log = 1..Len(log) /\ Len(log) \in Nat
  BY <1>1
<1>4. IsFiniteSet(1..Len(log))
  BY <1>3, FS_Interval
<1>5. Now \in 0..MaxTime /\ MaxTime \in Nat
  BY GateAssumption DEF TypeOK, ClocksOK, Now, Time
<1> QED
  BY <1>2, <1>3, <1>4, <1>5, ClocksRange, QuotaAssumption, GateAssumption
  DEF TypeOK, PolicyOK, Authorisation, Time, Instants

LEMMA CountsKeeps == ASSUME QuotaInv, TypeOK', Counts PROVE QuotaInv'
<1>0. /\ Now \in Nat /\ Now' \in Nat /\ epoch \in Nat /\ writeCount \in Nat
      /\ IsFiniteSet(DOMAIN log) /\ Instants \subseteq Int /\ Minute \in Nat
      /\ \A i \in DOMAIN log : log[i].at \in Nat
      /\ MaxPerSession \in Nat
  BY QuotaRange DEF QuotaInv
<1>1. LogIsPast'
  BY <1>0 DEF QuotaInv, LogIsPast, Counts
<1>2. QuotaHolds'
  BY DEF QuotaInv, QuotaHolds, Counts
<1>3. ASSUME HasPolicy PROVE TimesOK' /\ SessionCovered' /\ WindowCovered'
  <2>1. TimesOK /\ SessionCovered /\ WindowCovered
    BY <1>3 DEF QuotaInv
  <2>2. MadeHere' = MadeHere /\ \A t : Made(t)' = Made(t)
    BY DEF MadeHere, Made, Counts
  <2>3. /\ TimesOK' /\ writeCount' \in Nat
        /\ writeCount <= writeCount' /\ writeCount' <= MaxPerSession
        /\ \A t \in Instants : t >= Now - Minute => Recorded(t) \subseteq Recorded(t)'
    <3>1. CASE UNCHANGED policy
      BY <1>0, <2>1, <3>1 DEF policy, TimesOK, SessionCovered, Recorded
    <3>2. CASE \E ok \in BOOLEAN : CheckQuota(ok)
      <4>1. PICK ok \in BOOLEAN : CheckQuota(ok)
        BY <3>2
      <4> QED
        BY <1>3, <2>1, <4>1, QuotaChecked DEF QuotaInv
    <3> QED
      BY <3>1, <3>2 DEF Counts
  <2>4. SessionCovered'
    <3>1. Cardinality(MadeHere) \in Nat
      BY <1>0, PartIsSmaller DEF MadeHere
    <3> QED
      BY <1>0, <2>1, <2>2, <2>3, <3>1 DEF SessionCovered
  <2>5. ASSUME NEW t \in Instants, t >= Now' - Minute
        PROVE  Cardinality(Made(t)') <= Cardinality(Recorded(t)')
    <3>1. t >= Now - Minute
      <4>1. PICK later \in Nat : later = Now'
        BY <1>0
      <4>2. t >= later - Minute
        BY <2>5, <4>1
      <4>3. Now <= later /\ t \in Int
        BY <1>0, <4>1 DEF Counts
      <4> QED
        BY <1>0, <4>2, <4>3
    <3>2. Cardinality(Made(t)) <= Cardinality(Recorded(t))
      BY <2>1, <3>1 DEF WindowCovered
    <3>3. IsFiniteSet(Recorded(t)') /\ Recorded(t) \subseteq Recorded(t)'
      <4>1. Recorded(t)' \subseteq writeTimes' /\ IsFiniteSet(writeTimes')
        BY <2>3 DEF Recorded, TimesOK
      <4> QED
        BY <2>3, <3>1, <4>1, PartIsSmaller
    <3>4. IsFiniteSet(Made(t)) /\ Cardinality(Made(t)) \in Nat
      BY <1>0, PartIsSmaller DEF Made
    <3>5. /\ Cardinality(Recorded(t)) <= Cardinality(Recorded(t)')
          /\ Cardinality(Recorded(t)) \in Nat /\ Cardinality(Recorded(t)') \in Nat
      BY <3>3, PartIsSmaller
    <3> QED
      BY <2>2, <3>2, <3>4, <3>5
  <2>6. WindowCovered'
    BY <2>5 DEF WindowCovered, Instants
  <2> QED
    BY <2>3, <2>4, <2>6
<1> QED
  BY <1>1, <1>2, <1>3 DEF QuotaInv

LEMMA ForgetsKeeps == ASSUME QuotaInv, TypeOK', Forgets PROVE QuotaInv'
<1>0. /\ Now \in Nat /\ Now' \in Nat /\ epoch \in Nat
      /\ \A i \in DOMAIN log : log[i].at \in Nat /\ log[i].epoch \in Nat
      /\ MaxPerSession \in Nat
  BY QuotaRange DEF QuotaInv
<1>1. LogIsPast' /\ \A i \in DOMAIN log : log[i].epoch < epoch'
  BY <1>0 DEF QuotaInv, LogIsPast, Forgets
<1>2. QuotaHolds'
  BY DEF QuotaInv, QuotaHolds, Forgets
<1>3. MadeHere' = {} /\ \A t : Made(t)' = {}
  BY <1>0, <1>1 DEF MadeHere, Made, Forgets
<1>4. Cardinality({}) = 0 /\ IsFiniteSet({}) /\ \A t : Recorded(t)' = {}
  BY FS_EmptySet DEF Recorded, Forgets
<1>5. TimesOK'
  BY <1>4 DEF TimesOK, Forgets
<1>6. SessionCovered'
  BY <1>0, <1>3, <1>4 DEF SessionCovered, Forgets
<1>7. WindowCovered'
  BY <1>3, <1>4 DEF WindowCovered
<1> QED
  BY <1>1, <1>2, <1>5, <1>6, <1>7 DEF QuotaInv

LEMMA LogsKeeps ==
    ASSUME QuotaInv, TypeOK', NEW e \in Authorisation, Logs(e)
    PROVE  QuotaInv'
<1> DEFINE new == Len(log) + 1
<1>0. /\ Now \in Nat /\ Now' \in Nat /\ epoch \in Nat /\ writeCount \in Nat
      /\ DOMAIN log = 1..Len(log) /\ Len(log) \in Nat /\ IsFiniteSet(DOMAIN log)
      /\ \A i \in DOMAIN log : log[i].epoch \in Nat /\ log[i].at \in Nat
      /\ Instants \subseteq Int /\ Minute \in Nat /\ Minute > 0 /\ Now - Minute \in Instants
      /\ MaxPerSession \in Nat /\ MaxPerMinute \in Nat
  BY QuotaRange DEF QuotaInv
<1>1. /\ DOMAIN log' = DOMAIN log \cup {new} /\ new \notin DOMAIN log
      /\ \A i \in DOMAIN log : log'[i] = log[i]
      /\ log'[new].epoch = epoch /\ log'[new].at = Now
  <2>1. log \in Seq(Authorisation) /\ log' = Append(log, e) /\ e.epoch = epoch /\ e.at = Now
    BY DEF QuotaInv, TypeOK, LogOK, Logs
  <2> QED
    BY <1>0, <2>1
<1> HIDE DEF new
<1>2. \A i \in DOMAIN log : log[i].epoch <= epoch /\ log[i].at <= Now
  BY DEF QuotaInv, LogIsPast
<1>3. epoch' = epoch /\ Now <= Now'
  BY DEF Logs
<1>4. LogIsPast'
  BY <1>0, <1>1, <1>2, <1>3 DEF LogIsPast
<1>5. CASE HasPolicy
  <2>1. TimesOK /\ SessionCovered /\ WindowCovered
    BY <1>5 DEF QuotaInv
  <2>2. /\ TimesOK' /\ writeCount' = writeCount + 1 /\ writeCount' <= MaxPerSession
        /\ \A t \in Instants : t >= Now - Minute => Recorded(t) \subseteq Recorded(t)'
        /\ \A t \in Instants : t = Now - Minute => Cardinality(Recorded(t)') <= MaxPerMinute
        /\ \A t \in Instants : Now - Minute <= t /\ t < Now =>
             Cardinality(Recorded(t)') = Cardinality(Recorded(t)) + 1
    <3>1. CheckQuota(TRUE)
      BY DEF Logs
    <3> QED
      BY <1>5, <2>1, <3>1, QuotaChecked DEF QuotaInv
  <2>3. /\ MadeHere' = MadeHere \cup {new}
        /\ \A t \in Instants : Made(t)' = IF t < Now THEN Made(t) \cup {new} ELSE Made(t)
    BY <1>0, <1>1, <1>3 DEF MadeHere, Made
  <2>4. /\ new \notin MadeHere /\ \A t \in Instants : new \notin Made(t)
    BY <1>1 DEF MadeHere, Made
  <2>5. IsFiniteSet(MadeHere)
    BY <1>0, PartIsSmaller DEF MadeHere
  <2>6. SessionCovered'
    <3>1. Cardinality(MadeHere') = Cardinality(MadeHere) + 1 /\ Cardinality(MadeHere) \in Nat
      BY <2>3, <2>4, <2>5, OneMore
    <3> QED
      BY <1>0, <2>1, <2>2, <3>1 DEF SessionCovered
  (* The window: one authorised write more, and one timestamp more. *)
  <2>7. ASSUME NEW t \in Instants, t >= Now - Minute
        PROVE  /\ Cardinality(Made(t)') <= Cardinality(Recorded(t)')
               /\ IsFiniteSet(Made(t)') /\ IsFiniteSet(Recorded(t)')
    <3>1. IsFiniteSet(Made(t)) /\ Cardinality(Made(t)) \in Nat
      BY <1>0, PartIsSmaller DEF Made
    <3>2. IsFiniteSet(Recorded(t)') /\ Recorded(t) \subseteq Recorded(t)'
      <4>1. Recorded(t)' \subseteq writeTimes' /\ IsFiniteSet(writeTimes')
        BY <2>2 DEF Recorded, TimesOK
      <4> QED
        BY <2>2, <2>7, <4>1, PartIsSmaller
    <3>3. /\ Cardinality(Recorded(t)) <= Cardinality(Recorded(t)')
          /\ Cardinality(Recorded(t)) \in Nat /\ Cardinality(Recorded(t)') \in Nat
      BY <3>2, PartIsSmaller
    <3>4. Cardinality(Made(t)) <= Cardinality(Recorded(t))
      BY <2>1, <2>7 DEF WindowCovered
    <3>5. CASE t < Now
      <4>1. /\ Cardinality(Made(t)') = Cardinality(Made(t)) + 1
            /\ IsFiniteSet(Made(t)')
        BY <2>3, <2>4, <3>1, <3>5, OneMore
      <4>2. Cardinality(Recorded(t)') = Cardinality(Recorded(t)) + 1
        BY <2>2, <2>7, <3>5
      <4> QED
        BY <3>1, <3>2, <3>3, <3>4, <4>1, <4>2
    <3>6. CASE ~(t < Now)
      BY <2>3, <3>1, <3>2, <3>3, <3>4, <3>6
    <3> QED
      BY <3>5, <3>6
  <2>8. WindowCovered'
    <3> SUFFICES ASSUME NEW t \in Instants, t >= Now' - Minute
                 PROVE  Cardinality(Made(t)') <= Cardinality(Recorded(t)')
      BY DEF WindowCovered, Instants
    <3>1. PICK later \in Nat : later = Now'
      BY <1>0
    <3>2. t >= later - Minute
      BY <3>1
    <3>3. Now <= later /\ t \in Int
      BY <1>0, <1>3, <3>1
    <3>4. t >= Now - Minute
      BY <1>0, <3>2, <3>3
    <3> QED
      BY <2>7, <3>4
  <2>9. QuotaHolds'
    <3> SUFFICES ASSUME NEW i \in DOMAIN log'
                 PROVE  LET here == {j \in DOMAIN log' : log'[j].epoch = log'[i].epoch}
                        IN  /\ Cardinality(here) <= MaxPerSession
                            /\ Cardinality({j \in here : /\ log'[j].at <= log'[i].at
                                                         /\ log'[j].at > log'[i].at - Minute})
                                 <= MaxPerMinute
      BY DEF QuotaHolds
    <3> DEFINE here == {j \in DOMAIN log' : log'[j].epoch = log'[i].epoch}
               window == {j \in here : /\ log'[j].at <= log'[i].at
                                       /\ log'[j].at > log'[i].at - Minute}
               before == {j \in DOMAIN log : log[j].epoch = log[i].epoch}
               earlier == {j \in before : /\ log[j].at <= log[i].at
                                          /\ log[j].at > log[i].at - Minute}
    <3>1. ASSUME i \in DOMAIN log
          PROVE  Cardinality(before) <= MaxPerSession /\ Cardinality(earlier) <= MaxPerMinute
      BY <1>5, <3>1 DEF QuotaInv, QuotaHolds
    (* The writes of this process: counted by its counter. *)
    <3>2. ASSUME log'[i].epoch = epoch PROVE Cardinality(here) <= MaxPerSession
      <4>1. here = MadeHere'
        BY <1>3, <3>2 DEF MadeHere
      <4>2. Cardinality(MadeHere') <= writeCount' /\ Cardinality(MadeHere') \in Nat
        BY <2>3, <2>5, <2>6, OneMore, FS_CardinalityType DEF SessionCovered
      <4> HIDE DEF here
      <4> QED
        BY <1>0, <2>2, <4>1, <4>2
    (* The minute that ends with the new write: counted by the timestamps. *)
    <3>3. ASSUME log'[i].epoch = epoch, log'[i].at = Now
          PROVE  Cardinality(window) <= MaxPerMinute
      <4>0. PICK t \in Instants : t = Now - Minute /\ t >= Now - Minute
        BY <1>0
      <4>1. \A j \in window : j \in DOMAIN log' /\ log'[j].epoch = epoch /\ log'[j].at > t
        BY <3>3, <4>0
      <4> HIDE DEF window
      <4>2. window \in SUBSET Made(t)'
        BY <1>3, <4>1 DEF Made
      <4>3. /\ Cardinality(Recorded(t)') <= MaxPerMinute
            /\ Cardinality(Made(t)') <= Cardinality(Recorded(t)')
            /\ IsFiniteSet(Made(t)') /\ IsFiniteSet(Recorded(t)')
        BY <2>2, <2>7, <4>0
      <4>4. /\ Cardinality(window) \in Nat /\ Cardinality(Made(t)') \in Nat
            /\ Cardinality(window) <= Cardinality(Made(t)')
        BY <4>2, <4>3, PartIsSmaller
      <4>5. Cardinality(Recorded(t)') \in Nat
        BY <4>3, FS_CardinalityType
      <4> QED
        BY <1>0, <4>3, <4>4, <4>5
    (* Every other set is what it was. *)
    <3>4. ASSUME log'[i].epoch # epoch
          PROVE  i \in DOMAIN log /\ here = before /\ window = earlier
      BY <1>1, <3>4
    <3>5. ASSUME log'[i].epoch = epoch, log'[i].at # Now
          PROVE  i \in DOMAIN log /\ window = earlier
      <4>1. i \in DOMAIN log /\ log'[i] = log[i] /\ log[i].at < Now
        BY <1>0, <1>1, <1>2, <3>5
      <4> QED
        BY <1>0, <1>1, <4>1
    <3> QED
      BY <3>1, <3>2, <3>3, <3>4, <3>5
  <2> QED
    BY <1>4, <2>2, <2>6, <2>8, <2>9 DEF QuotaInv
<1>6. CASE ~HasPolicy
  BY <1>4, <1>6 DEF QuotaInv, QuotaHolds
<1> QED
  BY <1>5, <1>6

LEMMA QuotaInit == Init => QuotaInv
<1> SUFFICES ASSUME Init PROVE QuotaInv
  OBVIOUS
<1>1. TypeOK /\ MaxPerSession \in Nat
  BY InitType, QuotaAssumption
<1>2. log = <<>> /\ writeCount = 0 /\ writeTimes = {} /\ DOMAIN log = {}
  BY DEF Init
<1>3. Cardinality({}) = 0 /\ IsFiniteSet({})
  BY FS_EmptySet
<1>4. MadeHere = {} /\ \A t : Made(t) = {} /\ Recorded(t) = {}
  BY <1>2 DEF MadeHere, Made, Recorded
<1>5. LogIsPast /\ QuotaHolds /\ TimesOK
  BY <1>2, <1>3 DEF LogIsPast, QuotaHolds, TimesOK
<1>6. SessionCovered
  BY <1>1, <1>2, <1>3, <1>4 DEF SessionCovered
<1>7. WindowCovered
  <2>1. \A t : Cardinality(Made(t)) = 0 /\ Cardinality(Recorded(t)) = 0
    BY <1>3, <1>4
  <2> QED
    BY <2>1 DEF WindowCovered
<1> QED
  BY <1>1, <1>5, <1>6, <1>7 DEF QuotaInv

LEMMA QuotaNext == QuotaInv /\ [Next]_vars => QuotaInv'
<1> SUFFICES ASSUME QuotaInv, [Next]_vars PROVE QuotaInv'
  OBVIOUS
<1>1. TypeOK /\ TypeOK'
  BY NextType DEF QuotaInv
<1> QED
  BY <1>1, QuotaSteps, CountsKeeps, ForgetsKeeps, LogsKeeps

(* No process authorises more writes than max_operations_per_session, nor    *)
(* more in any minute than max_operations_per_minute, whatever happens       *)
(* between the clock readings of a call (autonomy_policy.py:188-229,         *)
(* write_gate.py:196-198).                                                   *)
THEOREM QuotaCorrect == Spec => []QuotaHolds
<1>1. QuotaInv => QuotaHolds
  BY DEF QuotaInv
<1> QED
  BY QuotaInit, QuotaNext, <1>1, PTL DEF Spec
================================================================================
