--------------------------- MODULE MeteredBilling ---------------------------
(***************************************************************************)
(* What pay-per-use billing promises an organisation, whatever the order   *)
(* of flushes, failures and crashes: in each month the extra replies are   *)
(* counted one at a time up to a cap, and Stripe bills counted replies     *)
(* only, each of them once.                                                *)
(***************************************************************************)
EXTENDS Integers

CONSTANTS
    Orgs,       \* organisations
    Periods,    \* calendar months
    Caps        \* the monthly caps of the plans

VARIABLES
    counted,    \* counted[o][p]: extra replies counted in month p
    billed      \* billed[o][p]: extra replies Stripe has added up for month p

vars == <<counted, billed>>

Init ==
    /\ counted = [o \in Orgs |-> [p \in Periods |-> 0]]
    /\ billed = [o \in Orgs |-> [p \in Periods |-> 0]]

\* One more extra reply is counted, never above some plan's cap.
Count(o, p) ==
    /\ \E cap \in Caps : counted[o][p] < cap
    /\ counted' = [counted EXCEPT ![o][p] = @ + 1]
    /\ UNCHANGED billed

\* Stripe adds up one counted reply that it has not billed before.
Bill(o, p) ==
    /\ billed[o][p] < counted[o][p]
    /\ billed' = [billed EXCEPT ![o][p] = @ + 1]
    /\ UNCHANGED counted

Next == \E o \in Orgs, p \in Periods : Count(o, p) \/ Bill(o, p)

Spec == Init /\ [][Next]_vars

=============================================================================
