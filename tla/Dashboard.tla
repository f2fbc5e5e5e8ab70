------------------------------- MODULE Dashboard -------------------------------
(***************************************************************************)
(* The console: three pages of agentos-ui, the endpoints they fetch        *)
(* (api/*.py), and the two databases and the fuse those read, which the    *)
(* rest of the service changes meanwhile.                                  *)
(*                                                                         *)
(* A page fetches once, when it is mounted, and shows what it got until    *)
(* it is left; nothing refreshes it.  An endpoint is one turn of the event *)
(* loop, so it reads one moment.                                           *)
(***************************************************************************)
EXTENDS Integers, FiniteSets, Sequences

CONSTANTS
    Tab,       \* browser tabs
    Run,       \* runs of SOPs
    Limit,     \* the default limit of /api/v1/workflows/runs
    NoRow,     \* no row of that run
    NoData,    \* useState(null)
    MaxMoments \* bound: changes of the service

Page == {"overview", "runs", "audits"}
Final == {"COMPLETED", "FAILED", "REJECTED"}
State == Final \cup {"PENDING", "RUNNING", "SUSPENDED"}
Decision == {"APPROVED", "REJECTED"}

ASSUME DashboardAssumption ==
    /\ IsFiniteSet(Run)
    /\ NoRow \notin Decision /\ NoRow \notin [state : State, at : Nat]
    /\ Limit \in Nat \ {0} /\ MaxMoments \in Nat

VARIABLES
    history,   \* what the endpoints could read, at every moment so far
    tabs

vars == <<history, tabs>>

\* updated_at has a resolution of a second; spend counts calls (a call costs
\* 0.0084, which the four decimals shown are enough for).
Moment ==
    [now : Nat, spend : Nat,
     runs : [Run -> {NoRow} \cup [state : State, at : Nat]],
     audits : [Run -> {NoRow} \cup Decision]]

Now == history[Len(history)]

\* What the pages keep: Metrics, RunRecord, AuditRecord.
Metrics == [spend : Nat, intercepts : Nat, successes : Nat]
RunRecord == [run : Run, state : State]
AuditRecord == [run : Run, decision : Decision]
DataOf(page) ==
    CASE page = "overview" -> Metrics
      [] page = "runs" -> SUBSET RunRecord
      [] page = "audits" -> SUBSET AuditRecord
      [] OTHER -> {}

Unloaded(page) == IF page = "overview" THEN NoData ELSE {}

Blank == [page |-> "none", phase |-> "done", body |-> NoData, data |-> NoData, since |-> 1]

TypeOK ==
    /\ history \in Seq(Moment) /\ history # <<>>
    /\ \A t \in Tab :
         /\ tabs[t].page \in Page \cup {"none", "missing"}
         /\ tabs[t].phase \in {"waiting", "answered", "done"}
         /\ tabs[t].body = NoData \/ tabs[t].body \in DataOf(tabs[t].page)
         /\ tabs[t].data = NoData \/ tabs[t].data \in DataOf(tabs[t].page)
         /\ tabs[t].since \in DOMAIN history

Init ==
    /\ history = <<[now |-> 0, spend |-> 0, runs |-> [r \in Run |-> NoRow],
                    audits |-> [r \in Run |-> NoRow]]>>
    /\ tabs = [t \in Tab |-> Blank]
-----------------------------------------------------------------------------
(* The endpoints, of a moment m *)

Rows(m) == {r \in Run : m.runs[r] # NoRow}

count_by_state(m, s) == Cardinality({r \in Rows(m) : m.runs[r].state = s})
count_by_decision(m, d) == Cardinality({r \in Run : m.audits[r] = d})

Oldest(m) ==  \* mutant
    {L \in SUBSET Rows(m) :
       /\ Cardinality(L) <= Limit
       /\ L # Rows(m) => Cardinality(L) = Limit
       /\ \A r \in L, q \in Rows(m) \ L : m.runs[r].at <= m.runs[q].at}

\* ORDER BY updated_at DESC LIMIT: any order of rows of the same second.
Newest(m) ==
    {L \in SUBSET Rows(m) :
       /\ Cardinality(L) <= Limit
       /\ L # Rows(m) => Cardinality(L) = Limit
       /\ \A r \in L, q \in Rows(m) \ L : m.runs[r].at >= m.runs[q].at}

get_overview(m) ==
    {[spend |-> m.spend, intercepts |-> count_by_decision(m, "REJECTED"),
      successes |-> count_by_state(m, "COMPLETED")]}

list_runs(m) == {{[run |-> r, state |-> m.runs[r].state] : r \in L} : L \in Newest(m)}

ListEveryRun(m) ==  \* mutant
    {{[run |-> r, decision |-> m.audits[r]] : r \in Run}}

list_audits(m) ==
    {{[run |-> r, decision |-> m.audits[r]] : r \in {q \in Run : m.audits[q] # NoRow}}}

\* What the endpoint of a page may answer.
Answers(page, m) ==
    CASE page = "overview" -> get_overview(m)
      [] page = "runs" -> list_runs(m)
      [] page = "audits" -> list_audits(m)
-----------------------------------------------------------------------------
(* What the pages show of their data *)

ClassNameIgnored(classes, className) == classes  \* mutant

\* twMerge: of two classes that say the same thing the later one counts.
cn(classes, className) ==
    [k \in DOMAIN classes |-> IF k \in DOMAIN className THEN className[k] ELSE classes[k]]

badgeVariants ==
    [default   |-> [bg |-> "primary", text |-> "primary-foreground", border |-> "transparent"],
     secondary |-> [bg |-> "secondary", text |-> "secondary-foreground", border |-> "transparent"],
     outline   |-> [bg |-> "none", text |-> "foreground", border |-> "border"]]

Badge(variant, className) == cn(badgeVariants[variant], className)

\* The tiles: zero until there are metrics.
Tiles(data) ==
    IF data = NoData THEN [spend |-> 0, intercepts |-> 0, successes |-> 0] ELSE data

\* The badge of a run in Workflow Traces
RunBadge(r) ==
    IF r.state = "COMPLETED"
    THEN Badge("default", [bg |-> "emerald", text |-> "emerald"])
    ELSE Badge("secondary", <<>>)

\* The badge of a decision in Governance Audits
AuditBadge(a) ==
    IF a.decision = "REJECTED"
    THEN Badge("outline", [border |-> "rose", text |-> "rose"])
    ELSE Badge("outline", [border |-> "emerald", text |-> "emerald"])

\* The tables, a row for each record; one without rows says that none were found.
Workflows(data) ==
    {[run |-> r.run, state |-> r.state, badge |-> RunBadge(r)] : r \in data}
Audits(data) ==
    {[run |-> a.run, decision |-> a.decision, badge |-> AuditBadge(a)] : a \in data}
-----------------------------------------------------------------------------
(* The service *)

Happens(m) ==
    /\ Len(history) < MaxMoments
    /\ history' = Append(history, m)

Tick == Happens([Now EXCEPT !.now = @ + 1]) /\ UNCHANGED tabs

\* What the engine may save: PENDING first, REJECTED after that decision only.
Saves(r, s) ==
    IF Now.runs[r] = NoRow THEN s = "PENDING"
    ELSE s # "PENDING" /\ (s = "REJECTED" <=> Now.audits[r] = "REJECTED")

SaveAnyState(r, s) ==  \* mutant
    /\ Saves(r, s)
    /\ Happens([Now EXCEPT !.runs[r] = [state |-> s, at |-> Now.now]])
    /\ UNCHANGED tabs

\* save_state, by the engine: nothing over a final state (SOPEngine!FinalStays).
SaveState(r, s) ==
    /\ Saves(r, s)
    /\ Now.runs[r] # NoRow => Now.runs[r].state \notin Final
    /\ Happens([Now EXCEPT !.runs[r] = [state |-> s, at |-> Now.now]])
    /\ UNCHANGED tabs

\* insert_feedback: one row for each run, from resume.
InsertFeedback(r, d) ==
    /\ Now.runs[r] # NoRow /\ Now.runs[r].state = "SUSPENDED" /\ Now.audits[r] = NoRow
    /\ Happens([Now EXCEPT !.audits[r] = d])
    /\ UNCHANGED tabs

\* The billing fuse counts a call.
Spend == Happens([Now EXCEPT !.spend = @ + 1]) /\ UNCHANGED tabs

\* A fetch that fails is logged to the console.
Lost(tab) == [tab EXCEPT !.phase = IF @ = "waiting" THEN "done" ELSE @]

\* A new process: a new fuse, and no answer to what the old one was asked.
Restart ==
    /\ Happens([Now EXCEPT !.spend = 0])
    /\ tabs' = [t \in Tab |-> Lost(tabs[t])]
-----------------------------------------------------------------------------
(* The browser *)

NavLink == {"/", "/runs", "/audits"}
Address == {"/dashboard", "/dashboard/runs", "/dashboard/runs.html", "/dashboard/audits.html"}

\* serve_dashboard: the files of the export below /dashboard, the overview for
\* anything else there (runs is a directory); the root has no such routes.
PageAt(path) ==
    CASE path \in NavLink -> "missing"
      [] path = "/dashboard/runs.html" -> "runs"
      [] path = "/dashboard/audits.html" -> "audits"
      [] OTHER -> "overview"

MountCached(t, page) ==  \* mutant
    /\ tabs' = [tabs EXCEPT ![t] =
         [page |-> page,
          phase |-> IF page = "missing" THEN "done"
                    ELSE IF @.page = page /\ @.body # NoData THEN "answered" ELSE "waiting",
          body |-> IF @.page = page THEN @.body ELSE NoData,
          data |-> IF page = "missing" THEN NoData ELSE Unloaded(page),
          since |-> Len(history)]]
    /\ UNCHANGED history

\* The page before is gone, and with it the answer it was waiting for.
Mount(t, page) ==
    /\ tabs' = [tabs EXCEPT ![t] =
         [page |-> page, phase |-> IF page = "missing" THEN "done" ELSE "waiting",
          body |-> NoData, data |-> IF page = "missing" THEN NoData ELSE Unloaded(page),
          since |-> Len(history)]]
    /\ UNCHANGED history

\* The user types an address below /dashboard.
Visit(t, path) == Mount(t, PageAt(path))

\* The user follows a link of the layout, which is around every page.
Follow(t, href) == tabs[t].page \in Page /\ Mount(t, PageAt(href))

\* The endpoint runs, and its answer is on the way.
Serve(t) ==
    /\ tabs[t].phase = "waiting"
    /\ \E a \in Answers(tabs[t].page, Now) :
         tabs' = [tabs EXCEPT ![t].phase = "answered", ![t].body = a]
    /\ UNCHANGED history

\* The network, or the endpoint, fails.
Lose(t) ==
    /\ tabs[t].phase = "waiting"
    /\ tabs' = [tabs EXCEPT ![t] = Lost(@)]
    /\ UNCHANGED history

\* The answer is there, and the page of it still is: its state is set.
Settle(t, page) ==
    /\ tabs[t].page = page /\ tabs[t].phase = "answered"
    /\ tabs' = [tabs EXCEPT ![t].phase = "done", ![t].data = tabs[t].body]
    /\ UNCHANGED history

SetMetrics(t) == Settle(t, "overview")
SetRuns(t) == Settle(t, "runs")
SetAudits(t) == Settle(t, "audits")

Service ==
    \/ Tick \/ Spend \/ Restart
    \/ \E r \in Run, s \in State : SaveState(r, s)
    \/ \E r \in Run, d \in Decision : InsertFeedback(r, d)

Browser(t) ==
    \/ \E path \in Address : Visit(t, path)
    \/ \E href \in NavLink : Follow(t, href)
    \/ Serve(t) \/ Lose(t)
    \/ SetMetrics(t) \/ SetRuns(t) \/ SetAudits(t)

Next == Service \/ \E t \in Tab : Browser(t)

Spec == Init /\ [][Next]_vars
-----------------------------------------------------------------------------
(* Properties *)

Shows(t, page) == tabs[t].page = page /\ tabs[t].data # Unloaded(page)

(* What a page shows is its own endpoint's answer of one moment since it was *)
(* opened: never the answer of the page before, of an earlier visit, or      *)
(* numbers of several moments (page.tsx:16-21, api/metrics.py:5-25).         *)
ShownIsOneMoment ==
    \A t \in Tab, page \in Page : Shows(t, page) =>
        \E i \in tabs[t].since..Len(history) :
            tabs[t].data \in Answers(page, history[i])

(* Pages are never refreshed, and what they say of runs and decisions stays  *)
(* true all the same: counts are never ahead, a run shown in green is        *)
(* COMPLETED, a decision shown in red is a stored rejection, one in green an *)
(* approval (audits/page.tsx:48, runs/page.tsx:46).                          *)
ShownStaysTrue ==
    \A t \in Tab :
        /\ tabs[t].page = "overview" =>
             /\ Tiles(tabs[t].data).successes <= count_by_state(Now, "COMPLETED")
             /\ Tiles(tabs[t].data).intercepts <= count_by_decision(Now, "REJECTED")
        /\ Shows(t, "runs") => \A row \in Workflows(tabs[t].data) :
             row.badge["text"] = "emerald" => Now.runs[row.run].state = "COMPLETED"
        /\ Shows(t, "audits") => \A row \in Audits(tabs[t].data) :
             Now.audits[row.run] =
               IF row.badge["text"] = "rose" THEN "REJECTED" ELSE "APPROVED"

(* A run that has not moved since the page was opened, waiting for its       *)
(* approval say, is missing from a list that was loaded only behind Limit    *)
(* runs saved as late or later (state_store.py:93-101): old runs fall off,   *)
(* new ones do not.                                                          *)
MissingBehindNewer ==
    \A t \in Tab, r \in Run :
        /\ Shows(t, "runs")
        /\ r \in Rows(Now) /\ Now.runs[r] = history[tabs[t].since].runs[r]
        /\ \A row \in tabs[t].data : row.run # r
        => Cardinality({q \in Rows(Now) \ {r} : Now.runs[q].at >= Now.runs[r].at}) >= Limit
===============================================================================
