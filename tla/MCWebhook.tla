------------------------------ MODULE MCWebhook ------------------------------
(* Small instances of the webhook deliveries for TLC. *)
EXTENDS WebhookDelivery, TLC

CONSTANTS d1, w1, w2

OneDelivery == [r \in {d1} |-> 2]

=============================================================================
