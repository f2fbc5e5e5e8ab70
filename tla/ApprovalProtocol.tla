--------------------------- MODULE ApprovalProtocol ---------------------------
(***************************************************************************)
(* What a governed workflow promises to an auditor, without steps, saved   *)
(* contexts, nonces, handlers or crashes.  Every run has at most one       *)
(* decision, which is never changed; an effect that needs a decision       *)
(* happens only after an approval, at most once, and never after the run   *)
(* has ended; a run ends rejected exactly when the decision was a          *)
(* rejection, and complete only with all its effects made.  While there is *)
(* no database an effect is imagined instead of made: under the same       *)
(* conditions, but nothing is stored.  A run may stay open for ever.       *)
(***************************************************************************)
EXTENDS Naturals, TLAPS

CONSTANTS
    Run,
    Effect,         \* the effects a run makes
    NeedsApproval   \* NeedsApproval[r]: the effects of r that need a decision

VARIABLES
    database,   \* is there one?
    decision, outcome,
    made,       \* how often each effect of each run was made
    imagined    \* how often it was imagined

protocolVars == <<database, decision, outcome, made, imagined>>

ProtocolInit ==
    /\ database \in BOOLEAN
    /\ decision = [r \in Run |-> "none"]
    /\ outcome = [r \in Run |-> "open"]
    /\ made = [r \in Run |-> [e \in Effect |-> 0]]
    /\ imagined = [r \in Run |-> [e \in Effect |-> 0]]

Decide(r) ==
    /\ decision[r] = "none" /\ outcome[r] = "open"
    /\ \E d \in {"APPROVED", "REJECTED"} : decision' = [decision EXCEPT ![r] = d]
    /\ UNCHANGED <<database, outcome, made, imagined>>

MayMake(r, e) ==
    /\ outcome[r] = "open" /\ decision[r] # "REJECTED"
    /\ made[r][e] = 0 /\ imagined[r][e] = 0
    /\ e \in NeedsApproval[r] => decision[r] = "APPROVED"

\* Several runs may make an effect at once, transactions in flight in a crash, and
\* after a crash there may be a database or none.
Make ==
    \E P \in SUBSET {p \in Run \X Effect : database /\ MayMake(p[1], p[2])} :
        /\ made' = [r \in Run |-> [e \in Effect |->
                      IF <<r, e>> \in P THEN 1 ELSE made[r][e]]]
        /\ database' \in BOOLEAN
        /\ UNCHANGED <<decision, outcome, imagined>>

Imagine(r, e) ==
    /\ ~database /\ MayMake(r, e)
    /\ imagined' = [imagined EXCEPT ![r][e] = 1]
    /\ UNCHANGED <<database, decision, outcome, made>>

Close(r) ==
    /\ outcome[r] = "open"
    /\ \E o \in {"COMPLETED", "REJECTED", "FAILED"} :
         /\ (o = "REJECTED") <=> (decision[r] = "REJECTED")
         /\ o = "COMPLETED" => \A e \in Effect : made[r][e] + imagined[r][e] = 1
         /\ outcome' = [outcome EXCEPT ![r] = o]
    /\ UNCHANGED <<database, decision, made, imagined>>

ProtocolNext ==
    \/ Make
    \/ \E r \in Run, e \in Effect : Imagine(r, e)
    \/ \E r \in Run : Decide(r) \/ Close(r)

ProtocolSpec == ProtocolInit /\ [][ProtocolNext]_protocolVars
-----------------------------------------------------------------------------
(* What an auditor may conclude from the promise                             *)

(* Who finds an effect that needed a decision finds the approval, and the    *)
(* outcome of a run says what was decided and done: COMPLETED, that each     *)
(* effect was made or imagined, once (the row of agent_feedback beside that  *)
(* of sop_state, sop_engine.py:214-255).                                     *)
AuditTrail ==
    \A r \in Run :
        /\ \A e \in Effect : made[r][e] + imagined[r][e] \in {0, 1}
        /\ \A e \in Effect \cap NeedsApproval[r] :
             made[r][e] + imagined[r][e] = 1 => decision[r] = "APPROVED"
        /\ outcome[r] = "COMPLETED" => \A e \in Effect : made[r][e] + imagined[r][e] = 1
        /\ outcome[r] = "REJECTED" => decision[r] = "REJECTED"
        /\ decision[r] = "REJECTED" => outcome[r] \in {"open", "REJECTED"}

(* And it stays so: a decision is never changed, of a run that has ended     *)
(* nothing is, and where there is a database nothing is imagined, where      *)
(* there is none nothing is made (sop_engine.py:199-222,                     *)
(* write_gate.py:232-250).                                                   *)
AuditStands ==
    [][\A r \in Run :
         /\ decision[r] # "none" => decision'[r] = decision[r]
         /\ outcome[r] # "open" => /\ outcome'[r] = outcome[r] /\ decision'[r] = decision[r]
                                   /\ \A e \in Effect : /\ made'[r][e] = made[r][e]
                                                        /\ imagined'[r][e] = imagined[r][e]
         /\ \A e \in Effect : IF database THEN imagined'[r][e] = imagined[r][e]
                              ELSE made'[r][e] = made[r][e]]_protocolVars

ProtocolTypeOK ==
    /\ database \in BOOLEAN
    /\ decision \in [Run -> {"none", "APPROVED", "REJECTED"}]
    /\ outcome \in [Run -> {"open", "COMPLETED", "REJECTED", "FAILED"}]
    /\ made \in [Run -> [Effect -> Nat]]
    /\ imagined \in [Run -> [Effect -> Nat]]

AuditInv == ProtocolTypeOK /\ AuditTrail

\* What AuditStands says of one run.
Stands(r) ==
    /\ decision[r] # "none" => decision'[r] = decision[r]
    /\ outcome[r] # "open" => /\ outcome'[r] = outcome[r] /\ decision'[r] = decision[r]
                              /\ \A e \in Effect : /\ made'[r][e] = made[r][e]
                                                   /\ imagined'[r][e] = imagined[r][e]
    /\ \A e \in Effect : IF database THEN imagined'[r][e] = imagined[r][e]
                         ELSE made'[r][e] = made[r][e]

(* A new effect, decision or outcome fits what is there, and leaves alone    *)
(* what must stay.                                                           *)
LEMMA AuditNext ==
    ASSUME AuditInv, [ProtocolNext]_protocolVars
    PROVE  AuditInv' /\ \A r \in Run : Stands(r)
<1> USE DEF AuditInv, ProtocolTypeOK
<1>1. CASE Make
  <2>1. PICK P \in SUBSET {p \in Run \X Effect : database /\ MayMake(p[1], p[2])} :
          /\ made' = [r \in Run |-> [e \in Effect |-> IF <<r, e>> \in P THEN 1 ELSE made[r][e]]]
          /\ database' \in BOOLEAN
          /\ UNCHANGED <<decision, outcome, imagined>>
    BY <1>1 DEF Make
  <2>2. \A r \in Run, e \in Effect :
          \/ made'[r][e] = made[r][e]
          \/ made'[r][e] = 1 /\ database /\ MayMake(r, e)
    BY <2>1
  <2>3. ProtocolTypeOK'
    BY <2>1
  <2>4. AuditTrail'
    BY <2>1, <2>2, <2>3 DEF AuditTrail, MayMake
  <2> QED
    BY <2>1, <2>2, <2>3, <2>4 DEF Stands, MayMake
<1>2. ASSUME NEW q \in Run, NEW i \in Effect, Imagine(q, i)
      PROVE  AuditInv' /\ \A r \in Run : Stands(r)
  <2>1. \A r \in Run, e \in Effect :
          \/ imagined'[r][e] = imagined[r][e]
          \/ imagined'[r][e] = 1 /\ ~database /\ MayMake(r, e)
    BY <1>2 DEF Imagine
  <2>2. ProtocolTypeOK'
    BY <1>2 DEF Imagine
  <2>3. AuditTrail'
    BY <1>2, <2>1, <2>2 DEF Imagine, AuditTrail, MayMake
  <2> QED
    BY <1>2, <2>1, <2>2, <2>3 DEF Imagine, Stands, MayMake
<1>3. ASSUME NEW q \in Run, Decide(q) PROVE AuditInv' /\ \A r \in Run : Stands(r)
  BY <1>3 DEF Decide, AuditTrail, Stands
<1>4. ASSUME NEW q \in Run, Close(q) PROVE AuditInv' /\ \A r \in Run : Stands(r)
  BY <1>4 DEF Close, AuditTrail, Stands
<1>5. CASE UNCHANGED protocolVars
  BY <1>5 DEF protocolVars, AuditTrail, Stands
<1> QED
  BY <1>1, <1>2, <1>3, <1>4, <1>5 DEF ProtocolNext

(* Whatever keeps the promise leaves a true audit trail. *)
THEOREM AuditCorrect == ProtocolSpec => []AuditTrail /\ AuditStands
<1>1. ProtocolInit => AuditInv
  BY DEF ProtocolInit, AuditInv, ProtocolTypeOK, AuditTrail
<1>2. AuditInv => AuditTrail
  BY DEF AuditInv
<1>3. AuditInv /\ [ProtocolNext]_protocolVars => AuditInv'
  BY AuditNext
<1>4. AuditInv /\ [ProtocolNext]_protocolVars =>
        [\A r \in Run :
           /\ decision[r] # "none" => decision'[r] = decision[r]
           /\ outcome[r] # "open" => /\ outcome'[r] = outcome[r] /\ decision'[r] = decision[r]
                                     /\ \A e \in Effect : /\ made'[r][e] = made[r][e]
                                                          /\ imagined'[r][e] = imagined[r][e]
           /\ \A e \in Effect : IF database THEN imagined'[r][e] = imagined[r][e]
                                ELSE made'[r][e] = made[r][e]]_protocolVars
  BY AuditNext DEF Stands
<1> QED
  BY <1>1, <1>2, <1>3, <1>4, PTL DEF ProtocolSpec, AuditStands
===============================================================================
