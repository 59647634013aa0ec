----------------------------- MODULE MCWebhook -----------------------------
(* One event, of a publication or of a test: deliveries share nothing.     *)
EXTENDS Webhook
============================================================================
