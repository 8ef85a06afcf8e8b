-------------------------- MODULE MCWebhookDelivery --------------------------
(* Small instances of WebhookDelivery for TLC.                             *)
EXTENDS WebhookDelivery, TLC

\* [60_000, 300_000] up to scale: the second wait is the longer one.
ShippedDelays == <<1, 3>>

=============================================================================
