------------------------------- MODULE MCKernel -------------------------------
(***************************************************************************)
(* Instances of Kernel: an injection, a forbidden command, a question for  *)
(* the schema that says "validate", a governed write, and one whose data   *)
(* say "schema" and "it-asset" (the prefix rdfs and the domain do).        *)
(***************************************************************************)
EXTENDS Kernel, TLC

CONSTANTS injection, command, question, write, shadowed

MCText == {injection, command, question, write, shadowed}
MCMalicious == {injection}
MCForbidden == {command}
MCAsks == {question, shadowed}
MCMentions == {}
MCGoverned == {write, shadowed}
MCBilled == {question, write, shadowed}
Callers == Permutations(Caller)
===============================================================================
