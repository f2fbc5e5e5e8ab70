------------------------------- MODULE WriteGate -------------------------------
(***************************************************************************)
(* The three-stage write gate (governance/write_gate.py) with the graph    *)
(* database it writes to (governance/neo4j_client.py), in one process that *)
(* may be restarted.                                                       *)
(*                                                                         *)
(* Verify is stage 2: it hands out a nonce for data that conforms.  Write  *)
(* is stage 3 up to its only await: quota, nonce check, burning of the     *)
(* nonce, re-validation.  asyncio runs all of that without interruption,   *)
(* so it is one step, but the step reads the clock three times and the     *)
(* clock may move between the readings (Drift).  Settle is what comes back *)
(* from the awaited transaction; a failed one may have been committed.     *)
(*                                                                         *)
(* A nonce is a bearer token "{ts}:{hash}:{signature}".  Its signature is  *)
(* an HMAC, modelled as the triple it signs: equal exactly when the triples*)
(* are.  The hash of the data is the data.                                 *)
(***************************************************************************)
EXTENDS WriteQuota, Sequences, Functions

CONSTANTS
    Caller,          \* tasks that may be inside execute_governed_write
    Domain,          \* the configured ontology domains
    Data,            \* RDF documents
    Format,          \* rdf_format arguments
    NumShapes,       \* versions of a domain's SHACL file are 1..NumShapes
    Verdict,         \* Verdict[shape, data, format]: what validation answers
    TTL,             \* nonce_ttl_seconds, in ticks
    TicksPerSecond,  \* resolution of the model's clock
    Drift,           \* ticks that may pass between two readings in one call
    MaxTime,         \* bound: ticks of real time
    MaxRestarts,     \* bound: restarts of the process
    MaxMints,        \* bound: different nonces (or times of minting one)
    MaxWrites,       \* bound: writes that pass the nonce check
    MayReboot,       \* does a restart ever restart the host as well?
    HasNeo4j,        \* was the gate built with a neo4j_client?
    HasPolicy        \* was the gate given an autonomy_policy?

Shape == 1..NumShapes
NoShape == 0

ASSUME GateAssumption ==
    /\ NumShapes \in Nat \ {0} /\ TTL \in Nat /\ Drift \in Nat
    /\ MaxTime \in Nat /\ MaxRestarts \in Nat
    /\ MaxMints \in Nat /\ MaxWrites \in Nat
    /\ TicksPerSecond \in Nat \ {0}
    /\ Verdict \in [Shape \X Data \X Format -> {"valid", "invalid", "malformed"}]
    /\ MayReboot \in BOOLEAN /\ HasNeo4j \in BOOLEAN /\ HasPolicy \in BOOLEAN

VARIABLES
    mono,            \* the host's monotonic clock
    boot,            \* real time at which it was 0
    epoch,           \* number of restarts so far
    shapeFile,       \* the SHACL file of each domain on disk
    validators,      \* _validators: the version loaded, NoShape if not yet
    consumed,        \* _consumed_nonces: signature -> end of tracking
    writeCount,      \* the policy's _write_count
    writeTimes,      \* the policy's _write_timestamps
    minted,          \* every nonce handed out, with the time it was
    log,             \* every write that passed the nonce check, in order
    calls,           \* the call each caller is in, and how its last one ended
    committed        \* indices of log whose facts are in the graph

clocks == <<mono, boot, epoch>>
policy == <<writeCount, writeTimes>>
vars == <<clocks, shapeFile, validators, consumed, policy, minted, log, calls, committed>>

Time == 0..MaxTime
Now == boot + mono   \* real time
Signature == [ts : Time, data : Data, domain : Domain]
NoSignature == [ts |-> 0]

Authorisation ==
    [sig : Signature, domain : Domain, data : Data, shape : Shape, format : Format,
     checked : Time, swept : Time, burned : Time, epoch : 0..MaxRestarts, at : Time]

InFlight == {c \in Caller : calls[c].phase = "writing"}

ClocksOK == mono \in Time /\ boot \in Time /\ boot + mono \in Time /\ epoch \in 0..MaxRestarts
FilesOK ==
    /\ shapeFile \in [Domain -> Shape]
    /\ validators \in [Domain -> Shape \cup {NoShape}]
LedgerOK == DOMAIN consumed \subseteq Signature /\ \A s \in DOMAIN consumed : consumed[s] \in Nat
PolicyOK == writeCount \in Nat /\ \A w \in writeTimes : w.n \in Nat /\ w.at \in Time
MintedOK == \A m \in minted : m.sig \in Signature /\ m.at \in Time
LogOK == log \in Seq(Authorisation) /\ committed \subseteq 1..Len(log)
CallsOK ==
    /\ calls \in [Caller -> [phase : {"idle", "writing"},
                             result : {"none", "refused", "success", "failed", "lost"},
                             entry : 0..Len(log)]]
    /\ \A c \in InFlight : calls[c].entry \in 1..Len(log)

TypeOK ==
    ClocksOK /\ FilesOK /\ LedgerOK /\ PolicyOK /\ MintedOK /\ LogOK /\ CallsOK

Idle == [phase |-> "idle", result |-> "none", entry |-> 0]

Init ==
    /\ mono = 0 /\ boot = 0 /\ epoch = 0
    /\ shapeFile = [d \in Domain |-> 1]
    /\ validators = [d \in Domain |-> NoShape]
    /\ consumed = [s \in {} |-> 0]
    /\ writeCount = 0 /\ writeTimes = {}
    /\ minted = {}
    /\ log = <<>>
    /\ calls = [c \in Caller |-> Idle]
    /\ committed = {}
-----------------------------------------------------------------------------
(* Helpers *)

\* int(time.monotonic())
Second(reading) == reading - (reading % TicksPerSecond)

\* The validator used for domain d, loading it if the process has not yet.
Loaded(d) == IF validators[d] = NoShape THEN shapeFile[d] ELSE validators[d]

\* What SHACLValidator answers of a document and one version of the shapes.
Valid(s, x, f) == Verdict[<<s, x, f>>] = "valid"

Conforms(d, x, f) == Valid(Loaded(d), x, f)

NeverSwept(reading) == consumed  \* mutant

\* _cleanup_expired_nonces, with the clock reading it makes.
Swept(reading) == Restrict(consumed, {s \in DOMAIN consumed : consumed[s] > reading})

ExpiredLate(n, reading) == reading - n.ts > TTL + 1  \* mutant

Expired(n, reading) == reading - n.ts > TTL

SignatureOverData(n, d) == n.sig # NoSignature /\ n.sig.ts = n.ts /\ n.sig.data = n.hash  \* mutant

SignatureMatches(n, d) == n.sig = [ts |-> n.ts, data |-> n.hash, domain |-> d]

\* The checks of _verify_nonce after the expiry check.
Acceptable(n, d, x, ledger) ==
    /\ n.sig \notin DOMAIN ledger
    /\ SignatureMatches(n, d)
    /\ n.hash = x

BurnUntilExpiry(ledger, s, reading) ==  \* mutant
    [t \in DOMAIN ledger \cup {s} |-> IF t = s THEN s.ts + TTL ELSE ledger[t]]

\* _consume_nonce
Burn(ledger, s, reading) ==
    [t \in DOMAIN ledger \cup {s} |-> IF t = s THEN reading + TTL ELSE ledger[t]]

\* Nonces a caller can present: a signature it has seen, or none of the gate's,
\* under any timestamp and hash fields.
Presented ==
    [ts : {m.sig.ts : m \in minted} \cup {0}, hash : Data,
     sig : {m.sig : m \in minted} \cup {NoSignature}]

NotRevalidated(d, x, f) == TRUE  \* mutant

\* The second validation, after the nonce was burned.
Revalidated(d, x, f) == Conforms(d, x, f)

-----------------------------------------------------------------------------
(* Actions *)

Tick ==
    /\ Now < MaxTime
    /\ mono' = mono + 1
    /\ UNCHANGED <<boot, epoch, shapeFile, validators, consumed, policy, minted,
                   log, calls, committed>>

\* An operator replaces the SHACL file of a domain; the process does not notice.
EditShapes(d) ==
    /\ shapeFile[d] < NumShapes
    /\ shapeFile' = [shapeFile EXCEPT ![d] = @ + 1]
    /\ UNCHANGED <<clocks, validators, consumed, policy, minted, log, calls, committed>>

\* Stage 2, verify_shacl_compliance.
Verify(d, x, f) ==
    /\ validators' = [validators EXCEPT ![d] = Loaded(d)]
    /\ minted' = IF Conforms(d, x, f)
                 THEN minted \cup {[sig |-> [ts |-> Second(mono), data |-> x, domain |-> d],
                                    at |-> Now]}
                 ELSE minted
    /\ Cardinality(minted') <= MaxMints
    /\ UNCHANGED <<clocks, shapeFile, consumed, policy, log, calls, committed>>

\* check_write_quota, when a policy was given; ok says whether it let the write pass.
CheckQuota(ok) ==
    IF HasPolicy
    THEN /\ ok = WithinQuota(writeCount, writeTimes, Now)
         /\ writeCount' = CountAfter(writeCount, writeTimes, Now)
         /\ writeTimes' = TimesAfter(writeCount, writeTimes, Now)
    ELSE ok = TRUE /\ UNCHANGED policy

Answer(c, result) ==
    calls' = [calls EXCEPT ![c] = [phase |-> "idle", result |-> result, entry |-> 0]]

\* Stage 3 refused by the policy.
WriteOverQuota(c) ==
    /\ calls[c].phase = "idle"
    /\ CheckQuota(FALSE)
    /\ Answer(c, "refused")
    /\ UNCHANGED <<clocks, shapeFile, validators, consumed, minted, log, committed>>

\* Stage 3 refused because the nonce is not three fields, or has expired: nothing
\* is swept.  A caller can always present a malformed one.
WriteUnreadable(c) ==
    /\ calls[c].phase = "idle"
    /\ CheckQuota(TRUE)
    /\ Answer(c, "refused")
    /\ UNCHANGED <<clocks, shapeFile, validators, consumed, minted, log, committed>>

\* Stage 3 refused by the replay, signature or hash check, after the sweep.
WriteRejected(c, d, x) ==
    /\ calls[c].phase = "idle"
    /\ CheckQuota(TRUE)
    /\ \E n \in Presented, swept \in mono..(mono + Drift) :
         /\ boot + swept <= MaxTime
         /\ ~Expired(n, mono)
         /\ ~Acceptable(n, d, x, Swept(swept))
         /\ consumed' = Swept(swept)
         /\ mono' = swept
    /\ Answer(c, "refused")
    /\ UNCHANGED <<boot, epoch, shapeFile, validators, minted, log, committed>>

\* Stage 3 with an acceptable nonce: it is burned, then the data is validated
\* again.  The call goes on to the database if the data conforms, answers at once
\* if there is no database, and fails, the nonce spent, if the data does not.
WriteAuthorised(c, d, x, f) ==
    /\ calls[c].phase = "idle"
    /\ Len(log) < MaxWrites
    /\ CheckQuota(TRUE)
    /\ \E n \in Presented, swept \in mono..(mono + Drift) :
       \E burned \in swept..(swept + Drift) :
         /\ boot + burned <= MaxTime
         /\ ~Expired(n, mono)
         /\ Acceptable(n, d, x, Swept(swept))
         /\ consumed' = Burn(Swept(swept), n.sig, burned)
         /\ mono' = burned
         /\ log' = Append(log, [sig |-> n.sig, domain |-> d, data |-> x,
                                shape |-> Loaded(d), format |-> f,
                                checked |-> mono, swept |-> swept, burned |-> burned,
                                epoch |-> epoch, at |-> Now])
    /\ validators' = [validators EXCEPT ![d] = Loaded(d)]
    /\ \/ /\ Revalidated(d, x, f) /\ HasNeo4j
          /\ calls' = [calls EXCEPT ![c] = [phase |-> "writing", result |-> "none",
                                            entry |-> Len(log) + 1]]
       \/ Revalidated(d, x, f) /\ ~HasNeo4j /\ Answer(c, "success")
       \/ ~Revalidated(d, x, f) /\ Answer(c, "failed")
    /\ UNCHANGED <<boot, epoch, shapeFile, minted, committed>>

SettleOptimistic(c, stored) ==  \* mutant
    /\ calls[c].phase = "writing"
    /\ committed' = IF stored THEN committed \cup {calls[c].entry} ELSE committed
    /\ calls' = [calls EXCEPT ![c].phase = "idle", ![c].result = "success"]
    /\ UNCHANGED <<clocks, shapeFile, validators, consumed, policy, minted, log>>

\* The awaited transaction ends.  Success is only reported after tx.commit()
\* returned; an exception leaves the transaction rolled back, or committed with
\* the acknowledgement lost.
Settle(c, stored) ==
    /\ calls[c].phase = "writing"
    /\ committed' = IF stored THEN committed \cup {calls[c].entry} ELSE committed
    /\ \/ stored /\ calls' = [calls EXCEPT ![c].phase = "idle", ![c].result = "success"]
       \/ calls' = [calls EXCEPT ![c].phase = "idle", ![c].result = "failed"]
    /\ UNCHANGED <<clocks, shapeFile, validators, consumed, policy, minted, log>>

\* The process stops and a new one starts with fresh objects.  Transactions in
\* flight commit or not.  The monotonic clock goes on, unless the host rebooted.
Restart ==
    /\ epoch < MaxRestarts
    /\ epoch' = epoch + 1
    /\ \E S \in SUBSET InFlight : committed' = committed \cup {calls[c].entry : c \in S}
    /\ calls' = [c \in Caller |->
                   IF c \in InFlight THEN [calls[c] EXCEPT !.phase = "idle", !.result = "lost"]
                                     ELSE calls[c]]
    /\ consumed' = [s \in {} |-> 0]
    /\ writeCount' = 0 /\ writeTimes' = {}
    /\ validators' = [d \in Domain |-> NoShape]
    /\ \/ UNCHANGED <<mono, boot>>
       \/ MayReboot /\ mono' = 0 /\ boot' = Now
    /\ UNCHANGED <<shapeFile, minted, log>>

Next ==
    \/ Tick
    \/ \E d \in Domain : EditShapes(d)
    \/ \E d \in Domain, x \in Data, f \in Format : Verify(d, x, f)
    \/ \E c \in Caller : WriteOverQuota(c) \/ WriteUnreadable(c)
    \/ \E c \in Caller, d \in Domain, x \in Data : WriteRejected(c, d, x)
    \/ \E c \in Caller, d \in Domain, x \in Data, f \in Format : WriteAuthorised(c, d, x, f)
    \/ \E c \in Caller, stored \in BOOLEAN : Settle(c, stored)
    \/ Restart

Spec == Init /\ [][Next]_vars
-----------------------------------------------------------------------------
(* Properties *)

FactOf(e) == <<e.domain, e.data>>

(* A nonce authorises only the data and the domain it was handed out for:    *)
(* every write that passed the check of lines 272-338 presents a signature   *)
(* minted for exactly its arguments, whatever fields callers mix.            *)
BoundToValidation ==
    \A i \in DOMAIN log :
        \E m \in minted : /\ m.sig = log[i].sig /\ m.at <= log[i].at
                          /\ FactOf(log[i]) = <<m.sig.domain, m.sig.data>>

(* Every fact in the graph conforms to the shapes its writing process had    *)
(* loaded, in the format it was written in.  The nonce does not show this    *)
(* (it may come from before a restart with older shapes, or from another     *)
(* format): the re-validation of line 214 does.                              *)
StoredConforms ==
    \A i \in committed : Valid(log[i].shape, log[i].data, log[i].format)

(* Within one process a signature is accepted again only when the tracking   *)
(* of its last use is over: the sweep that let it pass (line 298) read the   *)
(* clock at least TTL after the burn (line 347).                             *)
ReuseOnlyAfterTTL ==
    \A i, j \in DOMAIN log :
        (i < j /\ log[i].sig = log[j].sig /\ log[i].epoch = log[j].epoch)
            => log[j].swept >= log[i].burned + TTL

(* Together with the expiry check of line 291 that leaves one instant for a  *)
(* second use: the first burn must come in the tick the timestamp names, or  *)
(* as much after it as the clock moves between lines 291 and 298.            *)
ReuseOnlyAtTheBoundary ==
    \A i, j \in DOMAIN log :
        (i < j /\ log[i].sig = log[j].sig /\ log[i].epoch = log[j].epoch)
            => log[i].burned - log[i].sig.ts <= log[j].swept - log[j].checked

(* After every write that reached the burn, the ledger of consumed nonces    *)
(* holds only burns of the last TTL: it cannot grow with the age of the      *)
(* process (lines 352-362).                                                  *)
LedgerIsRecent ==
    \A i \in DOMAIN log :
        (i = Len(log) /\ log[i].epoch = epoch)
            => \A s \in DOMAIN consumed : consumed[s] > log[i].swept

(* A nonce is good for nonce_ttl_seconds of real time: whatever is written   *)
(* was validated at most TTL before (lines 8-10 of the module docstring).    *)
WrittenSoonAfterValidation ==
    \A i \in DOMAIN log :
        \E m \in minted : m.sig = log[i].sig /\ m.at <= log[i].at /\ log[i].at <= m.at + TTL

(* Writes authorised by one process stay within the session quota, and those *)
(* of any minute within the rate limit (autonomy_policy.py:188-229).         *)
QuotaHolds ==
    HasPolicy =>
        \A i \in DOMAIN log :
          LET here == {j \in DOMAIN log : log[j].epoch = log[i].epoch}
          IN  /\ Cardinality(here) <= MaxPerSession
              /\ Cardinality({j \in here : /\ log[j].at <= log[i].at
                                           /\ log[j].at > log[i].at - Minute}) <= MaxPerMinute

(* The gate keeps the promise of GovernedStore: a fact is stored only after  *)
(* it was approved and through a write that was started, and a success       *)
(* answered to a caller is in the graph.                                     *)
Store == INSTANCE GovernedStore WITH
    Writer <- Caller,
    Fact <- Domain \X Data,
    NoFact <- <<>>,
    approved <- {<<m.sig.domain, m.sig.data>> : m \in minted},
    pending <- [c \in Caller |-> IF c \in InFlight THEN FactOf(log[calls[c].entry]) ELSE <<>>],
    answer <- [c \in Caller |-> calls[c].result],
    stored <- {FactOf(log[i]) : i \in committed}

KeepsStorePromise == Store!StoreSpec

(* Findings: what the documentation says and the code does not do. *)

(* "each nonce is single-use. Once consumed by a successful                  *)
(* execute_governed_write, it is burned and cannot be reused"                *)
(* (write_gate.py:14-15).  A new process knows nothing of the burned ones.   *)
SingleUse ==
    \A i, j \in DOMAIN log : log[i].sig = log[j].sig => i = j
=============================================================================
