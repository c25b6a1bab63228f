-------------------------- MODULE MCWebhookDelivery --------------------------
(***************************************************************************)
(* WebhookDelivery for TLC.                                                *)
(***************************************************************************)
EXTENDS WebhookDelivery, TLC

Symmetry == Permutations(Runs) \cup Permutations(Processes)

=============================================================================
