# Agent OS: a verification development

Agent OS is a governance runtime between LLM agents and enterprise data: a
write gate in front of a graph database, a declarative workflow engine with
human approvals, and safety hooks around a chat kernel. This directory models
the parts where concurrency, crashes, clocks and durable state meet, checks
them on small instances with TLC, and proves the central facts with TLAPS.

All source paths below are relative to `src/src/agentos/` unless they start at
the root of the repository.

## 1. Inventory

| component | state | operations | who calls it |
|---|---|---|---|
| Write gate `governance/write_gate.py`, with `shacl_validator.py` | `_validators`, `_consumed_nonces` (memory of one object) | `get_domain_schema`, `verify_shacl_compliance`, `execute_governed_write` | kernel, SOP engine, MCP server, CLI |
| Autonomy policy `policies/autonomy_policy.py` | `_write_count`, `_write_timestamps`, `_session_start` | `check_write_quota`, `check_session_alive`, `check_command`, `check_path_access` | gate, kernel |
| Neo4j client `governance/neo4j_client.py` | driver | `execute_write_batch`, `health_check` | gate, service start-up |
| Schema provider `governance/schema_provider.py` | cached domains | `get_domain` | gate |
| SOP engine `workflow/sop_engine.py`, `sop_schema.py` | none of its own; a context per handler | `create_run`, `run`, `resume` | service, scripts |
| State store, feedback database `database/` | two SQLite files | `save_state`, `load_state`, `insert_feedback` | SOP engine, service |
| Unified service `main/main.py` | the wired objects | webhook, card callback, resume endpoint | uvicorn |
| Kernel `kernel/kernel.py` | session counter | `wake_up` | service, CLI |
| Circuit breaker `security/circuit_breaker.py` | `_failures`, `_open_circuits` | `is_open`, `record_failure`, `reset` | kernel |
| Billing fuse `security/billing_fuse.py` | spend, `_tripped` | `record_usage`, `reset` | kernel |
| Semantic firewall `security/firewall.py` | none | `scan` | kernel |
| Dashboard API `api/` | none | `get_overview`, `list_runs`, `list_audits` | the console |
| Dashboard UI `src/agentos-ui/` (at the root) | the React state of each page in each tab | mount, fetch, set, follow a link | a browser |
| MCP server `governance/mcp_server.py` | none | the gate's operations, one call of the sandbox | MCP clients |
| Wasm sandbox `sandbox/wasm_executor.py` | one engine for each call | `execute_untrusted_code` | MCP server |
| Feishu adapter `adapters/feishu_adapter.py` | token cache | parsing of events, cards, replies | service |
| Observability `observability/`, CLI `cli/` | exporters; none | spans; commands | everything |

**How they interact.** A document is validated (gate, stage 2) and gets a
nonce: timestamp, hash and an HMAC over both and the domain. The nonce goes to
the caller, into a workflow's stored context, or into a chat message, and comes
back with the write (stage 3). The gate asks the policy for quota, checks and
burns the nonce, validates again, and awaits the database transaction. The SOP
engine runs the steps of a definition, sends an approval card and suspends the
run in SQLite; a card callback or a call of the resume endpoint loads it, stores
the decision in a second database, and goes on. Kernel and SOP engine share one
gate and therefore one quota (the kernel's constructor injects its policy). The
webhook hands each chat message to the kernel, which looks at it with its hooks
and may call the gate. The console polls nothing: each of its pages fetches one
endpoint once, and the endpoints read the two SQLite files and the fuse.

**Where it is hard.** Everything is one asyncio process: code between two
awaits is atomic with respect to other handlers, but not with respect to the
clock, which the gate reads three times in one call, nor to a crash, which can
fall between the writes to the two SQLite files and the graph. A process that
cannot make its database client starts without one (main.py:96-106): its gate
still checks and burns nonces, then reports success with nothing stored
(write_gate.py:244-250), so the same workflow may be carried on by processes that
write and processes that only simulate. Burned nonces
live in memory while nonces live in databases and terminals. Callbacks are early,
repeated or contradictory, and chat messages are redelivered while their first
delivery is still in the database. What a browser shows is as old as its page.
Nonce timestamps are whole seconds of a clock that restarts with the host. `PROJECT.json` lists these hazards with their lines.

**What makes the components correct.**

* gate: a nonce authorises only what was validated, soon after, and once; what
  is stored conforms to the shapes; with a database a success is in the graph; quotas
  hold;
  the ledger stays bounded.
* workflow: no write without its approvals, a rejection is final, the stored
  outcome tells the truth about the graph and the audit table (in a process without
  a database: about what it simulated), a decision that was taken leads to an end.
* kernel: a message that keeps failing stops reaching the gate and a silent
  window lets it through again; the fuse counts what was answered; a message is
  written once however often it is delivered; an ok stands for one write, in the
  graph if the process has a database.
* console: what a page shows was true at one moment since it was opened. While
  nobody refreshes it, its counts of successes and intercepts are never ahead and its
  coloured badges stay true; the spend and the grey badge of a run that was PENDING,
  RUNNING, SUSPENDED, FAILED or REJECTED when it was read may be out of date.

## 2. Plan

| step | modules | status |
|---|---|---|
| 1 | `WriteQuota`, `WriteGate`, abstract `GovernedStore`, `MCWriteGate`, `WriteGateProofs` | done |
| 2 | `SOPEngine`, abstract `ApprovalProtocol`, `MCSOPEngine`, `SOPEngineProofs` | done |
| 3 | `CircuitBreaker`, `BillingFuse`: values and operators, composed by `Kernel` with the policy's session check, the gate's write and the webhook's redeliveries; `MCKernel`, `KernelProofs` | done |
| 4 | `Dashboard`: the console's pages over the endpoints and what they read; `MCDashboard`, `DashboardProofs` | done |
| 5 | the remaining properties of the gate and its refinement for every instance: `GateStoreProofs` | done |
| 6 | the quotas for every instance (`GateQuotaProofs`), how often a nonce is good (`GateStoreProofs`) | done |
| 7 | the decisions in hand, the tables the console reads, the audit trail: `SOPProgressProofs`, `ApprovalProtocol` | done |

## 3. Modules

### WriteQuota, WriteGate

`WriteQuota` holds the quota of the policy as operators over its two counters;
`WriteGate` extends it. Correspondence:

| TLA+ | code |
|---|---|
| `mono`, `boot`, `Now` | `time.monotonic()`, the real time at which it was zero, `time.time()` |
| `validators`, `shapeFile` | `_validators`, the SHACL file on disk |
| `consumed` | `_consumed_nonces` |
| `writeCount`, `writeTimes` | the policy's counters |
| `Verify` | `verify_shacl_compliance` |
| `WriteOverQuota`, `WriteUnreadable`, `WriteRejected`, `WriteAuthorised` | the four ways through the synchronous part of `execute_governed_write`: over quota; malformed or expired nonce (nothing is swept); refused after the sweep; burned and validated again |
| `Settle` | the end of the awaited transaction: committed and reported, or an exception after a rollback or after a lost acknowledgement |
| `Restart` | a new process (also the next command of the CLI, which builds its own gate), optionally a reboot of the host |
| `minted`, `log`, `committed` | history: nonces handed out, writes that passed the check, those whose facts are in the graph |

A signature is the triple it signs (HMAC equality); a nonce presented by a caller
is any signature seen before, or none, under any timestamp and hash field. The
clock moves by up to `Drift` between two readings in one call. What validation
says of a document is the constant `Verdict`. The three stages' texts, the RDF to
Cypher translation and reports are left out.

`GovernedStore` is the promise to callers: approve, start, finish, lose. A fact
gets into the graph only through a started write of an approved fact; a success
is in the graph; a failed or lost write may be.

### SOPEngine

| TLA+ | code |
|---|---|
| `saved`, `feedback` | rows of `sop_state` and `agent_feedback` |
| `client` | whether the gate of this process has a database client, chosen when the process starts |
| `tasks` | the asyncio tasks inside `run` or `resume`, each with its own copy of the context, and the step its loop is at |
| `loop` | the task that has not awaited since its last step; nobody else moves |
| `Create` | `create_run` and the call of `run` |
| `Validate`, `Notify`, `AutoApprove`, `AskApproval`, `CardSent`, `Write`, `WriteReturns`, `Complete` | the steps and the loop of `run`, split where it awaits and after each durable write |
| `Resume`, `Refuse`, `Reject` | `resume` called by the card callback or the resume endpoint, its two refusals, and its rejection branch |
| `Commit`, `Crash` | the database commits; the process stops between any two durable writes, and the next starts with a client or without |
| `Triggered` | the pairs of a run and an approval step whose condition holds for the run's data; conditions read keys that no step changes |
| `clicks`, `written`, `simulated`, `abandoned` | history: decisions that reached the service, commits per write step, successes per write step that a process without a client reported, runs that lost a handler to a crash or an exception |

Inside `SOPEngine` the gate is only the life of its nonces (handed out, good for
`TTL`, burned in the memory of one process); any other refusal is a choice. In
Python `current_step_index` counts from 0, here from 1. With a client `Write` awaits
the transaction; without one it returns at once with the step done and nothing in the
graph. `Create` makes a run under an id that has no row, as the default uuid4 does;
`create_run` with an id passed in would overwrite the row (`save_state` is an upsert),
which no caller in the repository does with a used id.

`ApprovalProtocol` is what an auditor is promised: at most one decision per
run, effects only after an approval, each at most once, none after the end,
rejected exactly when rejected, complete only with every effect made or imagined
exactly once. `Imagine` is what takes the place of an effect while there is no
`database`: `client` and `simulated` are mapped to it. It ends with what an auditor may conclude from the
promise (`AuditTrail`, `AuditStands`) and the proof that this follows.

### CircuitBreaker, BillingFuse, Kernel

The breaker and the fuse are values with operators, as they have no step of
their own; `Kernel` extends both and adds the order in which `wake_up` uses them.

| TLA+ | code |
|---|---|
| `breaker.failures`, `breaker.open` | `_failures`, the keys of `_open_circuits` |
| `IsOpen`, `Checked` | the answer of `is_open`, and the reset it may leave behind |
| `Failed`, `Kept` | `record_failure`, `_cleanup_expired` |
| `fuse`, `Charged`, `Refuses` | `_spend_usd` and `_tripped`, `record_usage`, its two raises |
| `sessions`, `started`, `now` | `_session_count`, the policy's `_session_start`, `time.time()` |
| `Intercept`, `Trip`, `Block` | a call ended by the firewall, the breaker, the policy |
| `Hint` | every answer of `_process_message` that does not call the gate, or the schema failing |
| `client` | whether the gate of this process has a database client |
| `SimulateWrite` | the gate without a client: the nonce is burned, success is reported at once, nothing is stored |
| `GateRefuses`, `StartWrite`, `Commit`, `Settle` | the gate refusing at once; the awaited transaction beginning, committing, and ending in an answer or an exception |
| `Bill`, `Fails` | the billing hook with the answer; the two handlers that record a failure |
| `Restart` | a new process: hooks, counters and the ledger of nonces are fresh, and there is a client or not |
| `answers`, `graph`, `burned` | history of the process; commits of each message; nonces consumed |

A message is its text, and the text decides by keywords what happens to it, so a
text is a model value and the sets `Malicious`, `Forbidden`, `Governed`, `Asks`,
`Mentions` and `Billed` say which keywords it contains. The kernel uses the text
both as the name of the failing tool and as its only parameter, so failures filed
under one name always have the same hash; the breaker's cosine similarity never
decides. Redelivery needs no action of its own: any message may come again at any
time. `WriteGate` shows in detail when a nonce may be used twice within a process
(one boundary instant of the clock); `Kernel` leaves that instant out, which
`FinalBurnCorrect` allows for every nonce whose first burn comes later than the
movement of the clock within one call after its timestamp.

### Dashboard

| TLA+ | code |
|---|---|
| `history` | everything the endpoints could read, at each moment so far: the two tables, the spend, the second that `CURRENT_TIMESTAMP` gives |
| `tabs` | the mounted page of each browser tab, its fetch, and its React state (`metrics`, `runs`, `audits`) |
| `get_overview`, `list_runs`, `list_audits`, `Newest` | the endpoints and the query with its order and limit, as the set of answers they may give at a moment |
| `SaveState`, `InsertFeedback`, `Spend`, `Restart` | the rest of the service writing |
| `Mount`, `Serve`, `Lose`, `SetMetrics`, `SetRuns`, `SetAudits` | `useEffect` with its one fetch; the endpoint; an error; the `.then` that sets the state |
| `Tiles`, `Workflows`, `Audits`, `RunBadge`, `AuditBadge`, `Badge`, `cn` | what the pages render: the numbers, the rows, and the colour of a badge, which is the variant's unless the page overrides it |
| `Visit`, `Follow`, `PageAt` | an address typed below `/dashboard`, a link of the layout, and what the service serves there |

What the engine may save (`Saves`, and nothing over a final state) is taken from
`SOPEngine`, where `TablesMove` and `FinalStays` are checked and proved: the rows the
pages read change one at a time and only in these ways. Spend is counted in calls:
each costs 0.0084 dollars, which the four decimals shown represent exactly.

The `MC` modules only define documents, definitions of workflows, texts and
symmetry.

## 4. Runs

Each run takes at most about a minute and a half; the bounds are named constants (`Max...`)
in guards.

| run | shows |
|---|---|
| `gate_replay` | two domains, a policy, a clock of two ticks per second that moves inside a call, a restart of the process or the host: a nonce authorises only what it was minted for; a second use of a nonce within a process needs TTL between burn and sweep, and the boundary instant; quotas hold; the ledger is recent |
| `gate_restart` | two callers in flight, a restart with edited shapes: what is stored conforms, nonces age, `GovernedStore` is refined |
| `sop_audit` | two runs, two handlers, processes with and without a database client, a crash, exceptions, early, repeated and contradicting decisions: no write without approval, rejections stop, outcomes are true, final rows stay, the tables change one row at a time and forward, `ApprovalProtocol` is refined |
| `sop_progress` | two approvals before the write, of which one run needs both and the other the second only; fair handlers, a crash, exceptions, processes with and without a client: nothing is written before each approval that applies, a decision that was taken is never out of somebody's hands and brings the run to its end or to its next approval, unless a handler of that very run was lost to the crash or an exception |
| `kernel_hooks` | every kind of message, redelivered at will, two calls in the database at once, a clock that passes the window and the session, processes with and without a database client, a restart: at most `Threshold` errors of one text in a window (one more if it was in flight), nothing turned away without a recent error of its own, the fuse counts each paid answer once, one write per message and process, an ok answer stands for one write of its own, in the graph if there is one |
| `dashboard_views` | a tab moved between the pages while runs are saved, decided and the service restarts, with late and lost answers: a page shows one moment of its own endpoint, its counts and coloured badges stay true, and a run is missing only behind `Limit` newer ones |

Expected violations, each with a finding in `PROJECT.json`:

| run | what happens |
|---|---|
| `gate_reuse_after_restart` | a nonce burned by one process is accepted by the next |
| `sop_second_approval` | the second approval step of a run can never be decided: the first decision holds the run's unique row |
| `sop_lost_approval` | a crash after the stored decision leaves a suspended run that refuses every decision |
| `sop_exception` | an exception that `run()` does not catch (a template of notify that names a missing key), raised after the approval, leaves the approved run RUNNING with nobody at work on it, in a process that never crashed |
| `kernel_routing` | a governed write whose data mention a schema and it-asset is answered ok with the schema and not written |
| `kernel_budget` | after the budget is exceeded a governed write still reaches the gate, which burns its nonce: `record_usage` comes after the work |

**Other disagreements between documents and code**, seen while modelling and left
without a run of their own:

* Nonce timestamps are readings of `time.monotonic()` (write_gate.py:262), not the
  "Unix epoch" of line 258. After a reboot of the host the clock starts again and
  an old nonce is accepted: `WrittenSoonAfterValidation` needs `~MayReboot`.
* They have a resolution of a second and nothing else in a nonce is fresh, so
  validating again within the second (as line 303 advises) returns the nonce that
  was just burned; `test_write_gate.py:260` says each validation gives a unique one.
* The approval card is sent before the run is SUSPENDED (sop_engine.py:360, 369):
  for an engine with a sender, a press before the sender returns is refused and lost.
* The layout of the console links to `/`, `/runs` and `/audits` (layout.tsx:33-39) and the
  export has no basePath (next.config.ts), while the service serves its pages below
  `/dashboard` only (main.py:411-424) and README.md:248 presents the console there: a
  followed link asks for an address without a route (`Follow`, `PageAt`).
* A gate without a database client returns "success" and `_action_governed_write` records
  `written: True` (sop_engine.py:418): a COMPLETED run or an ok answer says nothing of the
  graph unless one knows how the process was started (`simulated`, `SimulateWrite`).
* The "Intercepts" tile counts rejected approvals, not messages stopped by the
  firewall; "System Status" is the constant Healthy.
* main.py:103 logs "writes will be simulated" after a failed health check, but the
  client is kept and writes go to it.

**Why the bounds are enough.** Reuse of a nonce needs two writes of one
signature and one expiry, so two or three writes, a TTL of one or two ticks and a
clock that passes TTL twice show every order of burn, sweep and expiry. Each
restart erases all memory, so one restart shows what a second would. For the
workflow, decisions on one run interact only with that run's rows and nonces; two
handlers allow a resumed run and a competing decision, and two decisions can be
early, repeated or opposite. Two runs appear in `sop_audit` to show that they do
not disturb each other. In the kernel, two failures open a circuit and a third call
meets it open, so four messages with a window of one tick show opening, closing
and a call that was in flight meanwhile; a budget of one call trips at the second.
For the console, two runs and a limit of one put a run on either side of the end of
the list, and six moments are enough for a run to be created, suspended, decided
and finished while the page stands. The theorems of section 5 hold without the
bounds on the number of runs, tabs, callers and messages.

**Deadlock** is switched off where the system may rightly stop: the clock and the
numbers of writes and decisions are bounded, and a run may wait for a person for
ever.

**Fairness.** `sop_progress` assumes weak fairness of every handler: asyncio
schedules every ready task, the HTTP client of the card sender has a timeout, and
the database driver answers or raises. Creating a run and deciding are not fair:
nobody is obliged to do either. The process may crash and steps may raise in that run.
A decision whose own run loses a handler that way has no effect, which `sop_lost_approval` and
`sop_exception` show, and `DecisionTakesEffect` excuses (`abandoned`); it excuses
nothing that happens to another run, or to a competing decision. `kernel_budget`
assumes weak fairness of `Settle` only, for the same reason: its counterexample is
then not one of a call that never ends.

## 5. Proofs

`WriteGateProofs` proves, for all values of the constants allowed by
`QuotaAssumption` and `GateAssumption`:

* `TypeCorrect`: `Spec => []TypeOK`, from one lemma per group of variables; the
  step of an authorised write is a lemma of its own (`AuthorisedStep`).
* `ReuseCorrect`: `Spec => []ReuseOnlyAfterTTL`. The property is not inductive:
  it says nothing of the ledger. The strengthening `ReuseInv` adds that every
  write of the current process was burned no later than the clock stands
  (`BurnsArePast`), that its signature is either still tracked until at least
  TTL after the burn, or its tracking has ended by now (`Tracked`), and that each
  write was checked before its nonce expired (`CheckedInTime`).
* `BoundaryCorrect`: `Spec => []ReuseOnlyAtTheBoundary`, from the same invariant: a
  second use within a process needs the burn in the very tick of the timestamp,
  up to the movement of the clock between two readings.

`SOPEngineProofs` proves every safety property that `sop_audit` checks, for any
definition of a workflow and any finite number of handlers (`SOPAssumption`):

* `TypeCorrect`. The type invariant needs two companions: a handler that waits
  has the context with which it reached its step (`Underway`), and a run is
  suspended at an approval step (`SuspendedThere`), so that the index after it
  exists. `HandlerStep` sorts the ten actions of a handler into six kinds of
  step (`Advances`, `Waits`, `Suspends`, `Ends`, `GivesUp`, `Commit`); all later
  proofs go by these.
* `ApprovalCorrect`: `Spec => []WrittenOnlyIfApproved`, strengthened by what a
  handler and a suspended row have behind them (`ApprovedInv`). It needs no
  feedback database, and speaks of simulated writes as of committed ones.
* `RunInvCorrect`: with a feedback database (`HasFeedback`) a handler is alone with
  its run (`HandlerTrue`), and row, decision and writes agree (`RowTrue`,
  `DecisionTrue`), where a write is done when it was committed or simulated. From it `RejectionCorrect`, `OutcomeCorrect`, `FinalCorrect`
  and, together with `ApprovedInv`, the refinement `ProtocolCorrect`. `OutcomeCorrect`
  says of COMPLETED that each write was committed once or simulated once, never both: a
  handler is at a write step only when the step was neither (`ReachedMayBeMade`).
  `ProtocolCorrect` says who does which: a process with a client only commits, one
  without only simulates.

The assumption `HasFeedback` is what the service sets up. Without a feedback
database the properties of these four are false: the row stays SUSPENDED while the handler that took
the first decision waits for the database, so a second decision starts a second
handler on the same run, and the graph may be written after a rejection.

`GateStoreProofs` extends `WriteGateProofs` with the rest of the gate. Its
inductive invariant `GateInv` adds to the properties that nonces were handed out
in the past (`MintedBefore`), that every entry of the log was checked before its
nonce expired (`EntriesOK`), and that what is in the database already conformed when
it was sent (`PendingConforms`), as the transaction may commit after the shapes
have changed. `StepKinds` sorts the steps into those that leave the log alone
(`Quiet`) and the one that authorises a write.

* `BoundCorrect`, `ConformsCorrect`: without further assumptions.
* `RecentCorrect`: `Spec => []LedgerIsRecent`, for `TTL > 0`; with a TTL of zero
  the tracking of a burn is over in its own tick and the strict bound fails.
* `SoonCorrect`: `Spec => []WrittenSoonAfterValidation`, for `~MayReboot`: after a
  reboot it is false, see section 4.
* `StoreCorrect`: `Spec => KeepsStorePromise`, the refinement of `GovernedStore`
  step by step, for `HasNeo4j`; a gate without a database answers success and
  stores nothing.

* `FinalBurnCorrect`: a nonce first burned more than `Drift` after its timestamp is
  single-use in that process, whatever the host does. `TwiceCorrect`: one process
  accepts no nonce a third time, for `~MayReboot` and `Drift < TTL`. The assumptions are
  needed: after a reboot the timestamp of an old nonce may lie ahead of the clock,
  and where a call may take as long as a nonce lives TLC shows three uses. In the
  code the TTL is 300 seconds and `Drift` is what passes between two statements.

`GateQuotaProofs` proves `QuotaCorrect`: `Spec => []QuotaHolds`, for every quota, number
of callers and clock. `QuotaHolds` speaks of the log only, while the code decides by its
two counters, so the invariant `QuotaInv` says that the counters cover the log:

* `SessionCovered`: this process has logged at most `writeCount` writes, and
  `writeCount` is within the session's quota;
* `WindowCovered`: for every instant from a minute ago on, at least as many entries of
  `writeTimes` as of the log lie after it. It must hold for every such instant, not
  only the present one: the policy prunes against a clock that moves on, the log
  is counted back from the time of each of its entries;
* `TimesOK`, `LogIsPast`: `writeTimes` is finite and numbered below `writeCount`, and no
  entry of the log is later than the clock.

`QuotaSteps` sorts the steps into those that count an attempt without logging it, the one
that logs what it counted, and a restart; the cardinalities are the lemmas `OneMore`,
`PartIsSmaller` and `PruneKeeps`. TLC checked `QuotaInv` before it was proved.

`SOPProgressProofs` proves what keeps a decision alive, from `TypeInv` and
`RunInv` of `SOPEngineProofs`:

* `InHandCorrect`: `Spec => []DecisionInHand`, with a feedback database, over crashes and
  exceptions. The invariant `InHandInv` adds that a handler is past every decision
  taken on its run (`PastDecisions`): otherwise it might suspend the run where it already was.
* `LoopCorrect`: whoever holds the event loop can go on, and a rejection is saved
  before anybody else moves (`LoopIsBusy`).
* `TablesCorrect`: `Spec => TablesMove`, with a feedback database.
* `EngineAuditCorrect`: the audit trail of the engine, from the refinement
  `ProtocolCorrect` and from `AuditCorrect` of `ApprovalProtocol` under its mapping.

The first two are the safety half of `DecisionTakesEffect`: a decision is in the
hands of a handler, which is never kept waiting by one that waits itself. That fair
handlers come to their end is left to TLC.

`KernelProofs` proves all that `kernel_hooks` checks, for every window, threshold,
budget, cost, set of texts and finite set of callers (`KernelAssumption`,
`BreakerAssumption`, `FuseAssumption`), and with any number of messages:

* `CallInv` says that calls in the database have burned texts and sessions of their
  own, which no answer has yet, and that there are none without a client.
* `RedeliveryCorrect` and `OkCorrect` from `GraphInv`: a text whose nonce this
  process has not burned, or whose transaction is still open, has at most one commit
  for each earlier process; a committed call has at least one; and a text that was
  answered ok is in no call any more. `OkMeansWritten` says of a process without a client
  only that each ok spent a nonce of its own.
* `SpendCorrect`: by `CallInv` sessions tell calls apart, so the step that bills a
  call adds exactly one answer to those paid for.
* `RetryStormCorrect` and `TrippedCorrect` from `BreakerInv`: what the breaker has filed
  under a text agrees with its errors (`BreakerFits`), and a call that is in flight
  was admitted with the circuit closed, so at most `Threshold` errors of its text are
  recent (`FlightInv`); by `CallInv` it is the only one of its text.

`DashboardProofs` proves all that `dashboard_views` checks, for any number of tabs,
runs and moments and any limit. `DashboardInv` has two halves: `HistoryInv` (the
clock and the rows of the tables only move forward, a final state and a decision
stay) and `TabsInv` (what a tab has, or is about to get, is the answer of its own
page at one moment since it was mounted). `MissingCorrect` follows since runs saved
as late as an unmoved run, or later, at the moment of the answer still are.

Only model-checked: `DecisionTakesEffect`, as liveness is outside TLAPS. Every other
property of a passing run is stated by a theorem.

## 6. Not modelled

* An engine without a write gate or without a state store (sop_engine.py:278, 390): the
  service gives it both. A process whose gate has no database client is modelled, in
  `WriteGate` (`HasNeo4j`), `SOPEngine` and `Kernel` (`client`). A client is there for the life
  of a process or not at all, as in `ServiceBootstrap.init`; one whose database is down
  is a client whose writes raise.
* SHACL validation, the pattern list of the firewall and the command and path lists
  of the policy are pure functions of one input and enter as constants
  (`Verdict`, `Malicious`, `Forbidden`).
* The MCP server passes arguments to the gate; the callers of `WriteGate` stand for it.
* The Wasm sandbox is one synchronous call with an engine, a store and fuel of its
  own; what it does is what the wasmtime library does.
* The Feishu adapter: what it parses enters as messages and decisions. Its token
  cache is out of the service's reach: `send_response` returns early because the
  answers of the kernel name no message (feishu_adapter.py:57), and no card sender is
  given to the engine.
* The start-up of the service constructs objects before the first request;
  health and introspection only read. The command line is a `Restart` of the gate
  between two commands.
* `card.tsx`, `table.tsx`, `tabs.tsx` and `button.tsx` render an element with a fixed
  class name; no page uses the last two. The pages have no paging, so `offset` is 0.
* Observability, the configuration, the scripts and the container files keep no
  state the program depends on.
