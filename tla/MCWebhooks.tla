----------------------------- MODULE MCWebhooks -----------------------------
(* Two replicas, one endpoint, one event and one test event. *)
EXTENDS WebhookDelivery
=============================================================================
