---------------------------- MODULE DashboardProofs ----------------------------
(***************************************************************************)
(* Theorems about Dashboard, for all values of its constants.              *)
(***************************************************************************)
EXTENDS Dashboard, FiniteSetTheorems, TLAPS

-----------------------------------------------------------------------------
(* The invariant *)

\* What a later moment keeps of an earlier one.
Later(m, n) ==
    /\ \A r \in Rows(m) : r \in Rows(n) /\ m.runs[r].at <= n.runs[r].at
    /\ \A r \in Rows(m) : m.runs[r].state = "COMPLETED" => n.runs[r].state = "COMPLETED"
    /\ \A r \in Run : m.audits[r] # NoRow => n.audits[r] = m.audits[r]

\* No row is stamped with a time to come.
Stamped(m) == \A r \in Rows(m) : m.runs[r].at <= m.now

HistoryInv ==
    /\ history \in Seq(Moment) /\ history # <<>>
    /\ \A i \in DOMAIN history : Stamped(history[i])
    /\ \A i, j \in DOMAIN history : i <= j => Later(history[i], history[j])

\* d is the answer of a page's endpoint at a moment of h, from i on.
FromMoment(d, page, i, h) == \E k \in i..Len(h) : d \in Answers(page, h[k])

Fields(tab) ==
    tab = [page |-> tab.page, phase |-> tab.phase, body |-> tab.body, data |-> tab.data,
           since |-> tab.since]

TabOK(tab, h) ==
    /\ Fields(tab)
    /\ tab.page \in Page \cup {"none", "missing"}
    /\ tab.phase \in {"waiting", "answered", "done"}
    /\ tab.since \in 1..Len(h)
    /\ tab.phase # "done" => tab.page \in Page
    /\ tab.body = NoData \/ (tab.page \in Page /\ FromMoment(tab.body, tab.page, tab.since, h))
    /\ tab.phase = "answered" => FromMoment(tab.body, tab.page, tab.since, h)
    /\ \/ tab.page \in Page /\ tab.data = Unloaded(tab.page)
       \/ tab.page \notin Page /\ tab.data = NoData
       \/ tab.page \in Page /\ FromMoment(tab.data, tab.page, tab.since, h)

TabsInv == DOMAIN tabs = Tab /\ tabs = [t \in Tab |-> tabs[t]]
           /\ \A t \in Tab : TabOK(tabs[t], history)

DashboardInv == HistoryInv /\ TabsInv
-----------------------------------------------------------------------------
(* The service *)

(* The last moment is a moment. *)
LEMMA NowType ==
    ASSUME history \in Seq(Moment), history # <<>>
    PROVE  Now \in Moment /\ Len(history) \in DOMAIN history /\ Len(history) \in Nat \ {0}
  BY DEF Now

(* Each change of the databases or the fuse leads to a moment that keeps     *)
(* what the pages may already show: rows are never removed or stamped back,  *)
(* COMPLETED and decisions are final (state_store.py:52-68,                  *)
(* feedback_db.py:114-154).                                                  *)
LEMMA ServiceStep ==
    ASSUME HistoryInv, Service
    PROVE  \E m \in Moment : Stamped(m) /\ Later(Now, m) /\ history' = Append(history, m)
<1>1. Now \in Moment /\ Stamped(Now) /\ Later(Now, Now)
  BY NowType DEF HistoryInv, Now
<1>2. Now.now \in Nat /\ Now.spend \in Nat
  BY <1>1 DEF Moment
<1>3. CASE Tick
  <2> DEFINE m == [Now EXCEPT !.now = @ + 1]
  <2>1. m \in Moment /\ m.runs = Now.runs /\ m.audits = Now.audits /\ m.now = Now.now + 1
    BY <1>1 DEF Moment
  <2>2. \A r \in Rows(Now) : Now.runs[r].at \in Nat
    BY <1>1, DashboardAssumption DEF Moment, Rows
  <2>3. Stamped(m) /\ Later(Now, m)
    BY <1>1, <1>2, <2>1, <2>2 DEF Stamped, Later, Rows
  <2> QED
    BY <1>3, <2>1, <2>3 DEF Tick, Happens
<1>4. CASE Spend \/ Restart
  <2>1. PICK n \in Nat : history' = Append(history, [Now EXCEPT !.spend = n])
    <3>1. CASE Spend
      <4>1. history' = Append(history, [Now EXCEPT !.spend = Now.spend + 1])
        BY <3>1 DEF Spend, Happens
      <4>2. Now.spend + 1 \in Nat
        BY <1>2
      <4> QED
        BY <4>1, <4>2
    <3>2. CASE Restart
      BY <3>2 DEF Restart, Happens
    <3> QED
      BY <1>4, <3>1, <3>2
  <2> DEFINE m == [Now EXCEPT !.spend = n]
  <2>2. m \in Moment /\ m.runs = Now.runs /\ m.audits = Now.audits /\ m.now = Now.now
    BY <1>1 DEF Moment
  <2>3. Stamped(m) /\ Later(Now, m)
    BY <1>1, <2>2 DEF Stamped, Later, Rows
  <2> QED
    BY <2>1, <2>2, <2>3
<1>5. ASSUME NEW r \in Run, NEW s \in State, SaveState(r, s)
      PROVE  \E m \in Moment : Stamped(m) /\ Later(Now, m) /\ history' = Append(history, m)
  <2> DEFINE row == [state |-> s, at |-> Now.now]
             m == [Now EXCEPT !.runs[r] = row]
  <2>1. row \in [state : State, at : Nat] /\ row # NoRow /\ row.at = Now.now
    BY <1>2, DashboardAssumption
  <2>2. /\ m \in Moment /\ m.audits = Now.audits /\ m.now = Now.now
        /\ m.runs = [Now.runs EXCEPT ![r] = row]
    BY <1>1, <2>1 DEF Moment
  <2>3. m.runs[r] = row /\ \A q \in Run \ {r} : m.runs[q] = Now.runs[q]
    BY <1>1, <2>2 DEF Moment
  <2>4. Rows(m) = Rows(Now) \cup {r}
    BY <2>1, <2>3 DEF Rows
  <2>5. Stamped(m)
    BY <1>1, <1>2, <2>1, <2>2, <2>3, <2>4 DEF Stamped
  <2>6. r \in Rows(Now) => Now.runs[r].state # "COMPLETED" /\ Now.runs[r].at <= row.at
    BY <1>1, <1>5, <2>1 DEF SaveState, Rows, Final, Stamped
  <2>7. Later(Now, m)
    BY <1>1, <2>2, <2>3, <2>4, <2>6 DEF Later
  <2> QED
    BY <1>5, <2>2, <2>5, <2>7 DEF SaveState, Happens
<1>6. ASSUME NEW r \in Run, NEW d \in Decision, InsertFeedback(r, d)
      PROVE  \E m \in Moment : Stamped(m) /\ Later(Now, m) /\ history' = Append(history, m)
  <2> DEFINE m == [Now EXCEPT !.audits[r] = d]
  <2>1. /\ m \in Moment /\ m.runs = Now.runs /\ m.now = Now.now
        /\ m.audits = [Now.audits EXCEPT ![r] = d]
    BY <1>1 DEF Moment
  <2>2. \A q \in Run \ {r} : m.audits[q] = Now.audits[q]
    BY <1>1, <2>1 DEF Moment
  <2>3. Now.audits[r] = NoRow
    BY <1>6 DEF InsertFeedback
  <2>4. Stamped(m) /\ Later(Now, m)
    BY <1>1, <2>1, <2>2, <2>3 DEF Stamped, Later, Rows
  <2> QED
    BY <1>6, <2>1, <2>4 DEF InsertFeedback, Happens
<1> QED
  BY <1>3, <1>4, <1>5, <1>6 DEF Service

(* What is kept is kept for good. *)
LEMMA LaterTransitive ==
    ASSUME NEW a \in Moment, NEW b \in Moment, NEW c \in Moment, Later(a, b), Later(b, c)
    PROVE  Later(a, c)
<1>1. \A r \in Rows(a) : /\ a.runs[r].at \in Nat
      BY DashboardAssumption DEF Rows, Moment
<1>2. \A r \in Rows(b) : /\ b.runs[r].at \in Nat
      BY DashboardAssumption DEF Rows, Moment
<1>3. \A r \in Rows(c) : /\ c.runs[r].at \in Nat
      BY DashboardAssumption DEF Rows, Moment
<1> QED
  BY <1>1, <1>2, <1>3 DEF Later

(* The history only grows, by moments that keep the one before. *)
LEMMA HistoryStep ==
    ASSUME HistoryInv, NEW m \in Moment, Stamped(m), Later(Now, m),
           history' = Append(history, m)
    PROVE  HistoryInv'
<1>1. /\ history' \in Seq(Moment) /\ history' # <<>> /\ Len(history') = Len(history) + 1
      /\ history'[Len(history')] = m /\ Len(history) \in Nat \ {0}
      /\ \A i \in DOMAIN history : history'[i] = history[i]
      /\ DOMAIN history' = DOMAIN history \cup {Len(history')}
      /\ DOMAIN history = 1..Len(history)
  BY DEF HistoryInv
<1>2. \A i \in DOMAIN history' : Stamped(history'[i])
  BY <1>1 DEF HistoryInv
<1>3. ASSUME NEW i \in DOMAIN history
      PROVE  Later(history[i], m)
  <2>1. Later(history[i], Now)
    BY <1>1 DEF HistoryInv, Now
  <2>2. history[i] \in Moment /\ Now \in Moment
    BY <1>1, NowType DEF HistoryInv
  <2> QED
    BY <2>1, <2>2, LaterTransitive
<1>4. Later(m, m)
  <2>1. \A r \in Rows(m) : m.runs[r].at \in Nat
    BY DashboardAssumption DEF Rows, Moment
  <2> QED
    BY <2>1 DEF Later
<1>5. \A i, j \in DOMAIN history' : i <= j => Later(history'[i], history'[j])
  BY <1>1, <1>3, <1>4 DEF HistoryInv
<1> QED
  BY <1>1, <1>2, <1>5 DEF HistoryInv
-----------------------------------------------------------------------------
(* The tabs *)

(* What was read once stays readable in a history that grows. *)
LEMMA FromMomentKept ==
    ASSUME NEW h \in Seq(Moment), NEW m \in Moment, NEW d, NEW page, NEW i \in Nat \ {0},
           FromMoment(d, page, i, h)
    PROVE  FromMoment(d, page, i, Append(h, m))
<1>1. PICK k \in i..Len(h) : d \in Answers(page, h[k])
  BY DEF FromMoment
<1>2. k \in i..Len(Append(h, m)) /\ Append(h, m)[k] = h[k]
  BY <1>1
<1> QED
  BY <1>1, <1>2 DEF FromMoment

(* Changes of the service leave a tab as good as it was. *)
LEMMA TabKept ==
    ASSUME NEW h \in Seq(Moment), NEW m \in Moment, NEW tab, TabOK(tab, h)
    PROVE  TabOK(tab, Append(h, m))
<1>1. tab.since \in Nat \ {0} /\ tab.since \in 1..Len(Append(h, m))
  BY DEF TabOK
<1>2. \A d, page : FromMoment(d, page, tab.since, h)
                     => FromMoment(d, page, tab.since, Append(h, m))
  BY <1>1, FromMomentKept
<1> QED
  BY <1>1, <1>2 DEF TabOK

(* A fetch that fails leaves the page with what it showed (page.tsx:20). *)
LEMMA LostOK ==
    ASSUME NEW tab, NEW h, TabOK(tab, h)
    PROVE  TabOK(Lost(tab), h)
<1>1. /\ Lost(tab).page = tab.page /\ Lost(tab).body = tab.body
      /\ Lost(tab).data = tab.data /\ Lost(tab).since = tab.since
      /\ Lost(tab).phase \in {"answered", "done"}
      /\ Lost(tab).phase = "answered" => tab.phase = "answered"
      /\ Fields(Lost(tab))
  BY DEF TabOK, Fields, Lost
<1> QED
  BY <1>1 DEF TabOK

(* A page that is mounted shows nothing of the one before (page.tsx:14-21). *)
LEMMA MountOK ==
    ASSUME HistoryInv, TabsInv, NEW t \in Tab, NEW page \in Page \cup {"missing"},
           Mount(t, page)
    PROVE  TabOK(tabs'[t], history)
<1> DEFINE tab == [page |-> page, phase |-> IF page = "missing" THEN "done" ELSE "waiting",
                   body |-> NoData,
                   data |-> IF page = "missing" THEN NoData ELSE Unloaded(page),
                   since |-> Len(history)]
<1>1. tabs'[t] = tab
  BY DEF Mount, TabsInv
<1>2. Len(history) \in 1..Len(history)
  BY NowType DEF HistoryInv
<1>3. "missing" \notin Page
  BY DEF Page
<1> QED
  BY <1>1, <1>2, <1>3 DEF TabOK, Fields

(* Every address has a page, or none. *)
LEMMA PageAtType ==
    ASSUME NEW x
    PROVE  PageAt(x) \in Page \cup {"missing"}
  BY DEF PageAt, Page

(* Each step of the browser is a step of one tab, which keeps it sound. *)
LEMMA BrowserStep ==
    ASSUME HistoryInv, TabsInv, NEW t \in Tab, Browser(t)
    PROVE  /\ UNCHANGED history
           /\ tabs' = [tabs EXCEPT ![t] = tabs'[t]]
           /\ TabOK(tabs'[t], history)
<1> USE DEF TabsInv
<1>1. TabOK(tabs[t], history) /\ Len(history) \in 1..Len(history)
  BY NowType DEF HistoryInv
<1>2. ASSUME NEW page \in Page \cup {"missing"}, Mount(t, page)
      PROVE  UNCHANGED history /\ tabs' = [tabs EXCEPT ![t] = tabs'[t]]
             /\ TabOK(tabs'[t], history)
  BY <1>2, MountOK DEF Mount
<1>3. ASSUME NEW x \in Address, Visit(t, x)
      PROVE  UNCHANGED history /\ tabs' = [tabs EXCEPT ![t] = tabs'[t]]
             /\ TabOK(tabs'[t], history)
  BY <1>2, <1>3, PageAtType DEF Visit
<1>4. ASSUME NEW x \in NavLink, Follow(t, x)
      PROVE  UNCHANGED history /\ tabs' = [tabs EXCEPT ![t] = tabs'[t]]
             /\ TabOK(tabs'[t], history)
  BY <1>2, <1>4, PageAtType DEF Follow
<1>5. ASSUME Serve(t)
      PROVE  UNCHANGED history /\ tabs' = [tabs EXCEPT ![t] = tabs'[t]]
             /\ TabOK(tabs'[t], history)
  <2>1. PICK a \in Answers(tabs[t].page, Now) :
          tabs' = [tabs EXCEPT ![t].phase = "answered", ![t].body = a]
    BY <1>5 DEF Serve
  <2> DEFINE tab == [page |-> tabs[t].page, phase |-> "answered", body |-> a,
                     data |-> tabs[t].data, since |-> tabs[t].since]
  <2>2. tabs'[t] = [tabs[t] EXCEPT !.phase = "answered", !.body = a]
    BY <2>1
  <2>3. tabs'[t] = tab
    BY <1>1, <2>2 DEF TabOK, Fields
  <2>4. FromMoment(a, tabs[t].page, tabs[t].since, history)
    <3>1. Len(history) \in tabs[t].since..Len(history)
      BY <1>1 DEF TabOK
    <3> QED
      BY <2>1, <3>1 DEF FromMoment, Now
  <2>5. tabs[t].page \in Page
    BY <1>1, <1>5 DEF TabOK, Serve
  <2>6. TabOK(tab, history)
    BY <1>1, <2>4, <2>5 DEF TabOK, Fields
  <2> QED
    BY <1>5, <2>1, <2>3, <2>6 DEF Serve
<1>6. ASSUME Lose(t)
      PROVE  UNCHANGED history /\ tabs' = [tabs EXCEPT ![t] = tabs'[t]]
             /\ TabOK(tabs'[t], history)
  BY <1>1, <1>6, LostOK DEF Lose
<1>7. ASSUME NEW page \in Page, Settle(t, page)
      PROVE  UNCHANGED history /\ tabs' = [tabs EXCEPT ![t] = tabs'[t]]
             /\ TabOK(tabs'[t], history)
  <2> DEFINE tab == [page |-> tabs[t].page, phase |-> "done", body |-> tabs[t].body,
                     data |-> tabs[t].body, since |-> tabs[t].since]
  <2>1. tabs'[t] = [tabs[t] EXCEPT !.phase = "done", !.data = tabs[t].body]
    BY <1>7 DEF Settle
  <2>2. tabs'[t] = tab
    BY <1>1, <2>1 DEF TabOK, Fields
  <2>3. TabOK(tab, history)
    BY <1>1, <1>7 DEF TabOK, Fields, Settle
  <2> QED
    BY <1>7, <2>2, <2>3 DEF Settle
<1>8. CASE SetMetrics(t) \/ SetRuns(t) \/ SetAudits(t)
  BY <1>7, <1>8 DEF SetMetrics, SetRuns, SetAudits, Page
<1> QED
  BY <1>3, <1>4, <1>5, <1>6, <1>8 DEF Browser

(* Every step of the console keeps its invariant. *)
LEMMA DashboardStep == DashboardInv /\ [Next]_vars => DashboardInv'
<1> SUFFICES ASSUME HistoryInv, TabsInv, [Next]_vars
             PROVE  DashboardInv'
  BY DEF DashboardInv
<1>1. CASE UNCHANGED vars
  BY <1>1 DEF vars, DashboardInv, HistoryInv, TabsInv
<1>2. ASSUME NEW t \in Tab, Browser(t)
      PROVE  DashboardInv'
  <2>1. /\ UNCHANGED history /\ tabs' = [tabs EXCEPT ![t] = tabs'[t]]
        /\ TabOK(tabs'[t], history)
    BY <1>2, BrowserStep
  <2>2. DOMAIN tabs' = Tab /\ \A u \in Tab \ {t} : tabs'[u] = tabs[u]
    BY <2>1 DEF TabsInv
  <2>3. tabs' = [u \in Tab |-> tabs'[u]]
    BY <2>1, <2>2 DEF TabsInv
  <2>4. \A u \in Tab : TabOK(tabs'[u], history')
    BY <2>1, <2>2 DEF TabsInv
  <2> QED
    BY <2>1, <2>2, <2>3, <2>4 DEF DashboardInv, HistoryInv, TabsInv
<1>3. CASE Service
  <2>1. PICK m \in Moment : Stamped(m) /\ Later(Now, m) /\ history' = Append(history, m)
    BY <1>3, ServiceStep
  <2>2. HistoryInv'
    BY <2>1, HistoryStep
  <2>3. \A t \in Tab : tabs'[t] = tabs[t] \/ tabs'[t] = Lost(tabs[t])
    BY <1>3 DEF Service, Tick, Spend, Restart, SaveState, InsertFeedback
  <2>4. DOMAIN tabs' = Tab /\ tabs' = [t \in Tab |-> tabs'[t]]
    BY <1>3 DEF Service, Tick, Spend, Restart, SaveState, InsertFeedback, TabsInv
  <2>5. ASSUME NEW t \in Tab
        PROVE  TabOK(tabs'[t], history')
    <3>1. TabOK(tabs'[t], history)
      BY <2>3, LostOK DEF TabsInv
    <3>2. history \in Seq(Moment)
      BY DEF HistoryInv
    <3> QED
      BY <2>1, <3>1, <3>2, TabKept
  <2> QED
    BY <2>2, <2>4, <2>5 DEF DashboardInv, TabsInv
<1> QED
  BY <1>1, <1>2, <1>3 DEF Next

(* An empty database, and tabs that are not open. *)
LEMMA DashboardInit == Init => DashboardInv
<1> SUFFICES ASSUME Init
             PROVE  DashboardInv
  OBVIOUS
<1> DEFINE m == [now |-> 0, spend |-> 0, runs |-> [r \in Run |-> NoRow],
                 audits |-> [r \in Run |-> NoRow]]
<1>1. m \in Moment /\ history = <<m>>
  BY DEF Init, Moment
<1>2. Rows(m) = {}
  BY DEF Rows
<1>3. Stamped(m) /\ Later(m, m)
  BY <1>2 DEF Stamped, Later
<1>4. HistoryInv
  BY <1>1, <1>3 DEF HistoryInv
<1>5. TabOK(Blank, history)
  BY <1>1 DEF TabOK, Fields, Blank, Page
<1>6. TabsInv
  BY <1>5 DEF Init, TabsInv
<1> QED
  BY <1>4, <1>6 DEF DashboardInv

LEMMA DashboardCorrect == Spec => []DashboardInv
  BY DashboardInit, DashboardStep, PTL DEF Spec
-----------------------------------------------------------------------------
(* What the endpoints answer *)

(* The sets the endpoints count are finite, the lists well typed             *)
(* (api/metrics.py:5-25, api/workflows.py:5-16, api/governance.py:5-23).     *)
LEMMA AnswersType ==
    ASSUME NEW m \in Moment, NEW page \in Page, NEW a \in Answers(page, m)
    PROVE  a \in DataOf(page)
<1>1. \A r \in Rows(m) : r \in Run /\ m.runs[r] \in [state : State, at : Nat]
  BY DEF Rows, Moment
<1>2. CASE page = "overview"
  <2>1. \A s : {r \in Rows(m) : m.runs[r].state = s} \in SUBSET Run
    BY DEF Rows
  <2>2. \A d : {r \in Run : m.audits[r] = d} \in SUBSET Run
    OBVIOUS
  <2>3. \A S \in SUBSET Run : Cardinality(S) \in Nat
    BY DashboardAssumption, FS_Subset, FS_CardinalityType
  <2>4. m.spend \in Nat
    BY DEF Moment
  <2> QED
    BY <1>2, <2>1, <2>2, <2>3, <2>4
    DEF Answers, get_overview, count_by_state, count_by_decision, DataOf, Metrics
<1>3. CASE page = "runs"
  <2>1. PICK L \in Newest(m) : a = {[run |-> r, state |-> m.runs[r].state] : r \in L}
    BY <1>3 DEF Answers, list_runs
  <2>2. \A r \in L : [run |-> r, state |-> m.runs[r].state] \in RunRecord
    BY <1>1, <2>1 DEF Newest, RunRecord
  <2> QED
    BY <1>3, <2>1, <2>2 DEF DataOf
<1>4. CASE page = "audits"
  <2>1. \A r \in Run : m.audits[r] # NoRow => [run |-> r, decision |-> m.audits[r]] \in AuditRecord
    BY DEF Moment, AuditRecord
  <2> QED
    BY <1>4, <2>1 DEF Answers, list_audits, DataOf
<1> QED
  BY <1>2, <1>3, <1>4 DEF Page

(* A badge is green for COMPLETED runs only, and red for rejections only     *)
(* (runs/page.tsx:46, audits/page.tsx:48, badge.tsx:30-50, utils.ts:4-6).    *)
LEMMA RunBadgeColour ==
    ASSUME NEW r \in RunRecord, RunBadge(r)["text"] = "emerald"
    PROVE  r.state = "COMPLETED"
<1>1. Badge("secondary", <<>>)["text"] = "secondary-foreground"
  <2>1. DOMAIN <<>> = {}
    OBVIOUS
  <2>2. /\ DOMAIN badgeVariants["secondary"] = {"bg", "text", "border"}
        /\ badgeVariants["secondary"]["text"] = "secondary-foreground"
    BY DEF badgeVariants
  <2> QED
    BY <2>1, <2>2 DEF Badge, cn
<1> QED
  BY <1>1 DEF RunBadge

LEMMA AuditBadgeColour ==
    ASSUME NEW a \in AuditRecord
    PROVE  AuditBadge(a)["text"] = "rose" <=> a.decision = "REJECTED"
<1>1. "text" \in DOMAIN badgeVariants["outline"]
  BY DEF badgeVariants
<1>2. Badge("outline", [border |-> "rose", text |-> "rose"])["text"] = "rose"
  BY <1>1 DEF Badge, cn
<1>3. Badge("outline", [border |-> "emerald", text |-> "emerald"])["text"] = "emerald"
  BY <1>1 DEF Badge, cn
<1> QED
  BY <1>2, <1>3 DEF AuditBadge
-----------------------------------------------------------------------------
(* The theorems *)

LEMMA HistoryLength ==
    ASSUME HistoryInv, NEW i \in Nat \ {0}, NEW k \in i..Len(history)
    PROVE  /\ k \in DOMAIN history /\ Len(history) \in DOMAIN history
           /\ history[k] \in Moment /\ Now \in Moment /\ Later(history[k], Now)
<1>1. k \in DOMAIN history /\ Len(history) \in DOMAIN history /\ k <= Len(history)
  BY NowType DEF HistoryInv
<1> QED
  BY <1>1, NowType DEF HistoryInv, Now

(* Every reachable state of the service and the tabs is well typed, and      *)
(* every page shows data of its own kind.                                    *)
THEOREM TypeCorrect == Spec => []TypeOK
<1>1. DashboardInv => TypeOK
  <2> SUFFICES ASSUME HistoryInv, TabsInv
               PROVE  TypeOK
    BY DEF DashboardInv
  <2>1. ASSUME NEW t \in Tab
        PROVE  /\ tabs[t].page \in Page \cup {"none", "missing"}
               /\ tabs[t].phase \in {"waiting", "answered", "done"}
               /\ tabs[t].body = NoData \/ tabs[t].body \in DataOf(tabs[t].page)
               /\ tabs[t].data = NoData \/ tabs[t].data \in DataOf(tabs[t].page)
               /\ tabs[t].since \in DOMAIN history
    <3>1. TabOK(tabs[t], history)
      BY DEF TabsInv
    <3>2. ASSUME NEW d, tabs[t].page \in Page,
                 FromMoment(d, tabs[t].page, tabs[t].since, history)
          PROVE  d \in DataOf(tabs[t].page)
      <4>1. PICK k \in tabs[t].since..Len(history) : d \in Answers(tabs[t].page, history[k])
        BY <3>2 DEF FromMoment
      <4>2. tabs[t].since \in Nat \ {0}
        BY <3>1 DEF TabOK
      <4> QED
        BY <3>2, <4>1, <4>2, HistoryLength, AnswersType
    <3>3. tabs[t].page \in Page =>
            Unloaded(tabs[t].page) = NoData \/ Unloaded(tabs[t].page) \in DataOf(tabs[t].page)
      BY DEF Unloaded, DataOf, Page
    <3>4. tabs[t].since \in DOMAIN history
      BY <3>1 DEF TabOK, HistoryInv
    <3> QED
      BY <3>1, <3>2, <3>3, <3>4 DEF TabOK
  <2> QED
    BY <2>1 DEF TypeOK, HistoryInv
<1> QED
  BY <1>1, DashboardCorrect, PTL

(* What a page shows is its own endpoint's answer of one moment since it was *)
(* opened, for any number of tabs, runs, changes and visits                  *)
(* (page.tsx:16-21).                                                         *)
THEOREM MomentCorrect == Spec => []ShownIsOneMoment
<1>1. DashboardInv => ShownIsOneMoment
  BY DEF DashboardInv, TabsInv, TabOK, Shows, FromMoment, ShownIsOneMoment
<1> QED
  BY <1>1, DashboardCorrect, PTL

(* What a page shows of counts, finished runs and decisions stays true while *)
(* the page is open, though it is never refreshed (runs/page.tsx:46,         *)
(* audits/page.tsx:48).                                                      *)
THEOREM StaysTrueCorrect == Spec => []ShownStaysTrue
<1>1. DashboardInv => ShownStaysTrue
  <2> SUFFICES ASSUME HistoryInv, TabsInv, ShownIsOneMoment, NEW t \in Tab
               PROVE  /\ tabs[t].page = "overview" =>
                           /\ Tiles(tabs[t].data).successes <= count_by_state(Now, "COMPLETED")
                           /\ Tiles(tabs[t].data).intercepts
                                <= count_by_decision(Now, "REJECTED")
                      /\ Shows(t, "runs") => \A r \in tabs[t].data :
                           RunBadge(r)["text"] = "emerald"
                             => Now.runs[r.run].state = "COMPLETED"
                      /\ Shows(t, "audits") => \A a \in tabs[t].data :
                           Now.audits[a.run] =
                             IF AuditBadge(a)["text"] = "rose" THEN "REJECTED" ELSE "APPROVED"
    BY DEF DashboardInv, TabsInv, TabOK, Shows, FromMoment, ShownIsOneMoment, ShownStaysTrue,
           Workflows, Audits
  <2>1. tabs[t].since \in Nat \ {0}
    BY DEF TabsInv, TabOK
  <2>2. \A page \in Page : Shows(t, page) =>
          \E k \in tabs[t].since..Len(history) :
            /\ tabs[t].data \in Answers(page, history[k])
            /\ history[k] \in Moment /\ Now \in Moment /\ Later(history[k], Now)
    BY <2>1, HistoryLength DEF ShownIsOneMoment
  <2>3. ASSUME tabs[t].page = "overview"
        PROVE  /\ Tiles(tabs[t].data).successes <= count_by_state(Now, "COMPLETED")
               /\ Tiles(tabs[t].data).intercepts <= count_by_decision(Now, "REJECTED")
    <3> DEFINE done(m) == {r \in Rows(m) : m.runs[r].state = "COMPLETED"}
               refused(m) == {r \in Run : m.audits[r] = "REJECTED"}
    <3>1. /\ IsFiniteSet(done(Now)) /\ IsFiniteSet(refused(Now))
          /\ Cardinality(done(Now)) \in Nat /\ Cardinality(refused(Now)) \in Nat
      <4>1. done(Now) \in SUBSET Run /\ refused(Now) \in SUBSET Run
        BY DEF Rows
      <4> QED
        BY <4>1, DashboardAssumption, FS_Subset, FS_CardinalityType
    <3>2. CASE tabs[t].data = NoData
      BY <3>1, <3>2 DEF Tiles, count_by_state, count_by_decision
    <3>3. CASE tabs[t].data # NoData
      <4>1. Shows(t, "overview") /\ "overview" \in Page
        BY <2>3, <3>3 DEF Shows, Unloaded, Page
      <4>2. PICK k \in tabs[t].since..Len(history) :
              /\ tabs[t].data \in Answers("overview", history[k])
              /\ Later(history[k], Now)
        BY <2>2, <4>1
      <4>3. /\ Tiles(tabs[t].data).successes = Cardinality(done(history[k]))
            /\ Tiles(tabs[t].data).intercepts = Cardinality(refused(history[k]))
        BY <3>3, <4>2
        DEF Answers, get_overview, Tiles, count_by_state, count_by_decision
      <4>4. done(history[k]) \in SUBSET done(Now) /\ refused(history[k]) \in SUBSET refused(Now)
        BY <4>2, DashboardAssumption DEF Later, Decision
      <4>5. /\ Cardinality(done(history[k])) <= Cardinality(done(Now))
            /\ Cardinality(refused(history[k])) <= Cardinality(refused(Now))
        BY <3>1, <4>4, FS_Subset
      <4> QED
        BY <4>3, <4>5 DEF count_by_state, count_by_decision
    <3> QED
      BY <3>2, <3>3
  <2>4. ASSUME Shows(t, "runs"), NEW r \in tabs[t].data, RunBadge(r)["text"] = "emerald"
        PROVE  Now.runs[r.run].state = "COMPLETED"
    <3>1. PICK k \in tabs[t].since..Len(history) :
            /\ tabs[t].data \in Answers("runs", history[k])
            /\ history[k] \in Moment /\ Later(history[k], Now)
      BY <2>2, <2>4 DEF Page
    <3>2. tabs[t].data \in SUBSET RunRecord
      BY <3>1, AnswersType DEF DataOf, Page
    <3>3. r.state = "COMPLETED"
      BY <2>4, <3>2, RunBadgeColour
    <3>4. PICK L \in Newest(history[k]) :
            tabs[t].data = {[run |-> q, state |-> history[k].runs[q].state] : q \in L}
      BY <3>1 DEF Answers, list_runs
    <3>5. PICK q \in L : r = [run |-> q, state |-> history[k].runs[q].state]
      BY <3>4
    <3>6. q \in Rows(history[k]) /\ history[k].runs[q].state = "COMPLETED" /\ r.run = q
      BY <3>3, <3>4, <3>5 DEF Newest
    <3> QED
      BY <3>1, <3>6 DEF Later
  <2>5. ASSUME Shows(t, "audits"), NEW a \in tabs[t].data
        PROVE  Now.audits[a.run] =
                 IF AuditBadge(a)["text"] = "rose" THEN "REJECTED" ELSE "APPROVED"
    <3>1. PICK k \in tabs[t].since..Len(history) :
            /\ tabs[t].data \in Answers("audits", history[k])
            /\ history[k] \in Moment /\ Later(history[k], Now)
      BY <2>2, <2>5 DEF Page
    <3>2. a \in AuditRecord
      BY <2>5, <3>1, AnswersType DEF DataOf, Page
    <3>3. PICK q \in Run : /\ history[k].audits[q] # NoRow
                           /\ a = [run |-> q, decision |-> history[k].audits[q]]
      BY <2>5, <3>1 DEF Answers, list_audits
    <3>4. Now.audits[a.run] = a.decision
      BY <3>1, <3>3 DEF Later
    <3>5. a.decision \in {"APPROVED", "REJECTED"}
      BY <3>2 DEF AuditRecord, Decision
    <3>6. AuditBadge(a)["text"] = "rose" <=> a.decision = "REJECTED"
      BY <3>2, AuditBadgeColour
    <3>7. CASE a.decision = "REJECTED"
      BY <3>4, <3>6, <3>7
    <3>8. CASE a.decision = "APPROVED"
      BY <3>4, <3>6, <3>8
    <3> QED
      BY <3>5, <3>7, <3>8
  <2> QED
    BY <2>3, <2>4, <2>5
<1> QED
  BY <1>1, DashboardCorrect, PTL

(* A run missing from a list that was loaded has fallen off behind Limit     *)
(* runs saved as late or later, if its row has not moved since the page was  *)
(* opened (state_store.py:93-101).                                           *)
THEOREM MissingCorrect == Spec => []MissingBehindNewer
<1>1. DashboardInv => MissingBehindNewer
  <2> SUFFICES ASSUME HistoryInv, TabsInv, ShownIsOneMoment, NEW t \in Tab, NEW r \in Run,
                      Shows(t, "runs"),
                      r \in Rows(Now), Now.runs[r] = history[tabs[t].since].runs[r],
                      \A row \in tabs[t].data : row.run # r
               PROVE  Cardinality({q \in Rows(Now) \ {r} :
                                     Now.runs[q].at >= Now.runs[r].at}) >= Limit
    BY DEF DashboardInv, TabsInv, TabOK, Shows, FromMoment, ShownIsOneMoment,
           MissingBehindNewer, Rows
  <2> DEFINE s == tabs[t].since
             newer == {q \in Rows(Now) \ {r} : Now.runs[q].at >= Now.runs[r].at}
  <2>1. s \in Nat \ {0} /\ s \in 1..Len(history) /\ s \in s..Len(history)
    BY DEF TabsInv, TabOK
  <2>2. PICK k \in s..Len(history) : tabs[t].data \in Answers("runs", history[k])
    BY DEF ShownIsOneMoment, Page
  <2>3. /\ history[k] \in Moment /\ Now \in Moment /\ history[s] \in Moment
        /\ Later(history[k], Now) /\ Later(history[s], history[k])
    <3>1. k \in DOMAIN history /\ s \in DOMAIN history /\ s <= k
      BY <2>1, <2>2 DEF HistoryInv
    <3> QED
      BY <2>1, <2>2, <3>1, HistoryLength DEF HistoryInv
  <2>4. PICK L \in Newest(history[k]) :
          tabs[t].data = {[run |-> q, state |-> history[k].runs[q].state] : q \in L}
    BY <2>2 DEF Answers, list_runs
  <2>5. r \notin L
    <3>1. ASSUME r \in L PROVE [run |-> r, state |-> history[k].runs[r].state] \in tabs[t].data
      BY <2>4, <3>1
    <3> QED
      BY <3>1
  <2>6. /\ r \in Rows(history[k])
        /\ history[k].runs[r].at = Now.runs[r].at
    <3>1. r \in Rows(history[s])
      BY DEF Rows
    <3>2. r \in Rows(history[k])
      BY <2>3, <3>1 DEF Later
    <3>3. /\ history[s].runs[r].at \in Nat /\ history[k].runs[r].at \in Nat
          /\ Now.runs[r].at \in Nat
      BY <2>3, <3>1, <3>2, DashboardAssumption DEF Rows, Moment
    <3>4. /\ history[s].runs[r].at <= history[k].runs[r].at
          /\ history[k].runs[r].at <= Now.runs[r].at
          /\ history[s].runs[r].at = Now.runs[r].at
      BY <2>3, <3>1, <3>2 DEF Later
    <3> QED
      BY <3>2, <3>3, <3>4
  <2>7. Cardinality(L) = Limit
    BY <2>5, <2>6 DEF Newest
  <2>8. L \in SUBSET newer
    <3>1. SUFFICES ASSUME NEW q \in L
                   PROVE  q \in Rows(Now) \ {r} /\ Now.runs[q].at >= Now.runs[r].at
      OBVIOUS
    <3>2. q \in Rows(history[k]) /\ history[k].runs[q].at >= history[k].runs[r].at
      BY <2>5, <2>6 DEF Newest
    <3>3. q \in Rows(Now) /\ history[k].runs[q].at <= Now.runs[q].at
      BY <2>3, <3>2 DEF Later
    <3>4. /\ history[k].runs[q].at \in Nat /\ Now.runs[q].at \in Nat
          /\ history[k].runs[r].at \in Nat
      BY <2>3, <2>6, <3>2, <3>3, DashboardAssumption DEF Rows, Moment
    <3> QED
      BY <2>5, <2>6, <3>2, <3>3, <3>4
  <2>9. IsFiniteSet(newer)
    <3>1. newer \in SUBSET Run
      BY DEF Rows
    <3> QED
      BY <3>1, DashboardAssumption, FS_Subset
  <2>10. Cardinality(L) <= Cardinality(newer) /\ Cardinality(newer) \in Nat
    BY <2>8, <2>9, FS_Subset, FS_CardinalityType
  <2> QED
    BY <2>7, <2>10, DashboardAssumption
<1> QED
  BY <1>1, DashboardCorrect, PTL
================================================================================
