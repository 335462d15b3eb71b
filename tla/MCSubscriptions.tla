--------------------------- MODULE MCSubscriptions ---------------------------
(* Two admins, two webhook handlers, two subscriptions. *)
EXTENDS SubscriptionSync
=============================================================================
