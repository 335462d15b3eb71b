------------------------------- MODULE MCEmails -------------------------------
(* One ticket, two replicas polling, two rows. *)
EXTENDS StatusEmails
=============================================================================
