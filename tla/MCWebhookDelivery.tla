-------------------------- MODULE MCWebhookDelivery --------------------------
(***************************************************************************)
(* An order and two updates, two webhooks that need tokens.                *)
(***************************************************************************)
EXTENDS WebhookDelivery

CONSTANTS o1, u1, u2, i1, i2, h1, h2
=============================================================================
