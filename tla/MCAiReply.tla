------------------------------- MODULE MCAiReply -------------------------------
(* Two messages, one of which may be retried; the requests are interchangeable. *)
EXTENDS AiReply, TLC

Symmetry == Permutations(Requests) \cup Permutations(Messages) \cup Permutations(Presses)

=============================================================================
