------------------------------ MODULE MCSOPEngine ------------------------------
(***************************************************************************)
(* Small instances of SOPEngine.  Onboarding has the shape of              *)
(* it-onboarding.sop.yaml: a validation, a conditional approval, a write   *)
(* of a document the caller validated, a notification.  FourEyes asks for  *)
(* two approvals before it writes what it validated itself.                *)
(***************************************************************************)
EXTENDS SOPEngine, TLC

CONSTANTS r1, r2, asset, assignment

Onboarding == <<[type |-> "validate", item |-> asset],
                [type |-> "approval", item |-> asset],
                [type |-> "write", item |-> assignment],
                [type |-> "notify", item |-> asset]>>

FourEyes == <<[type |-> "validate", item |-> asset],
              [type |-> "approval", item |-> asset],
              [type |-> "approval", item |-> asset],
              [type |-> "write", item |-> asset],
              [type |-> "notify", item |-> asset]>>

\* r1 meets the condition of the approval, a second run does not; r1 meets those of
\* both approvals; and a second run that of the second one only.
AsksForOne == {<<r1, 2>>}
AsksForTwo == {<<r1, 2>>, <<r1, 3>>}
AsksForSome == {<<r1, 2>>, <<r1, 3>>, <<r2, 3>>}

Handlers == Permutations(Task)
================================================================================
