------------------------- MODULE MCWebhookDelivery --------------------------
(* WebhookDelivery with a few subscriptions, events and overlapping calls. *)
EXTENDS WebhookDelivery
CONSTANTS s1, s2, e1, e2, c1, c2
=============================================================================
