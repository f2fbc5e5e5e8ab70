----------------------------- MODULE GovernedStore -----------------------------
(***************************************************************************)
(* What the write gate promises its callers, without nonces, quotas, clocks*)
(* or schemas: a fact reaches the graph only after it was approved and only*)
(* through a write somebody started; a write reported as a success is in   *)
(* the graph; one reported as failed, or lost with the process, may be.    *)
(* Facts are never removed.                                                *)
(***************************************************************************)
CONSTANTS Writer, Fact, NoFact   \* NoFact is not in Fact

VARIABLES
    approved,   \* facts that passed validation
    pending,    \* the fact each writer is writing, or NoFact
    answer,     \* how each writer's last write ended
    stored      \* the facts in the graph

storeVars == <<approved, pending, answer, stored>>

Answers == {"none", "refused", "success", "failed", "lost"}

StoreTypeOK ==
    /\ approved \subseteq Fact
    /\ pending \in [Writer -> Fact \cup {NoFact}]
    /\ answer \in [Writer -> Answers]
    /\ stored \subseteq Fact

StoreInit ==
    /\ approved = {} /\ stored = {}
    /\ pending = [w \in Writer |-> NoFact]
    /\ answer = [w \in Writer |-> "none"]

Approve(x) ==
    /\ approved' = approved \cup {x}
    /\ UNCHANGED <<pending, answer, stored>>

Start(w, x) ==
    /\ pending[w] = NoFact /\ x \in approved
    /\ pending' = [pending EXCEPT ![w] = x]
    /\ answer' = [answer EXCEPT ![w] = "none"]
    /\ UNCHANGED <<approved, stored>>

\* A write that never reached the database.
Refuse(w, a) ==
    /\ pending[w] = NoFact /\ a \in {"refused", "failed"}
    /\ answer' = [answer EXCEPT ![w] = a]
    /\ UNCHANGED <<approved, pending, stored>>

Finish(w) ==
    /\ pending[w] # NoFact
    /\ pending' = [pending EXCEPT ![w] = NoFact]
    /\ \/ /\ stored' = stored \cup {pending[w]}
          /\ answer' = [answer EXCEPT ![w] = "success"]
       \/ /\ stored' \in {stored, stored \cup {pending[w]}}
          /\ answer' = [answer EXCEPT ![w] = "failed"]
    /\ UNCHANGED approved

\* Every pending write is cut off at once.
Lose ==
    /\ \E W \in SUBSET {w \in Writer : pending[w] # NoFact} :
         stored' = stored \cup {pending[w] : w \in W}
    /\ answer' = [w \in Writer |-> IF pending[w] = NoFact THEN answer[w] ELSE "lost"]
    /\ pending' = [w \in Writer |-> NoFact]
    /\ UNCHANGED approved

StoreNext ==
    \/ \E x \in Fact : Approve(x)
    \/ \E w \in Writer, x \in Fact : Start(w, x)
    \/ \E w \in Writer, a \in Answers : Refuse(w, a)
    \/ \E w \in Writer : Finish(w)
    \/ Lose

StoreSpec == StoreInit /\ [][StoreNext]_storeVars
===============================================================================
