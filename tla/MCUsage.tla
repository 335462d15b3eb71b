------------------------------- MODULE MCUsage -------------------------------
(* One organisation, a request and a sweep whose flushes race, over three months. *)
EXTENDS UsageMetering

const_Allowance == [t \in {"free", "starter"} |-> IF t = "free" THEN 1 ELSE 2]

=============================================================================
