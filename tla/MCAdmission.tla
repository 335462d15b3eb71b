----------------------------- MODULE MCAdmission -----------------------------
(* Three lookups, two of them on the same key, one slot, one place in the queue. *)
EXTENDS MissAdmission

CONSTANTS r1, r2, r3, k1, k2

const_Key == [r \in {r1, r2, r3} |-> IF r = r3 THEN k2 ELSE k1]
const_Priority == [r \in {r1, r2, r3} |-> IF r = r3 THEN 1 ELSE 0]

=============================================================================
