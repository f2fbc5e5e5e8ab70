------------------------------ MODULE BillingFuse ------------------------------
(***************************************************************************)
(* The billing fuse (security/billing_fuse.py) as a value and what its     *)
(* operation makes of it.  Every call is charged the same Cost: the kernel *)
(* reports fixed token counts of one model.  No revoke callback is set.    *)
(***************************************************************************)
EXTENDS Integers

CONSTANTS
    Budget,   \* budget_cap_usd
    Cost      \* _calculate_cost of one call, in the unit of Budget

ASSUME FuseAssumption == Budget \in Nat /\ Cost \in Nat \ {0}

Fuse == [spend : Nat, tripped : BOOLEAN]

Unspent == [spend |-> 0, tripped |-> FALSE]

\* record_usage raises: the fuse has tripped before or trips now.
Refuses(f) == f.tripped \/ f.spend + Cost > Budget

ChargedWhenTripped(f) ==  \* mutant
    [spend |-> f.spend + Cost, tripped |-> f.spend + Cost > Budget]

\* record_usage: a tripped fuse adds nothing.
Charged(f) ==
    IF f.tripped THEN f
    ELSE [spend |-> f.spend + Cost, tripped |-> f.spend + Cost > Budget]
================================================================================
