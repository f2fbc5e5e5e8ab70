------------------------------ MODULE MCWriteGate ------------------------------
(***************************************************************************)
(* Small instances of WriteGate.  Two documents, x valid under every       *)
(* version of the shapes, y valid only under the first and only as turtle: *)
(* with two versions or two formats the re-validation of stage 3 has       *)
(* something to find.                                                      *)
(***************************************************************************)
EXTENDS WriteGate, TLC

CONSTANTS x, y, turtle, xml

MCVerdict == [q \in Shape \X Data \X Format |->
    CASE q[2] = x /\ q[3] = turtle -> "valid"
      [] q[2] = y /\ q[3] = turtle -> IF q[1] = 1 THEN "valid" ELSE "invalid"
      [] OTHER -> "malformed"]

Callers == Permutations(Caller)
================================================================================
