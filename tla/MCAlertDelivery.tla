-------------------------- MODULE MCAlertDelivery --------------------------
(* Model-checking instance of AlertDelivery. *)
EXTENDS AlertDelivery
=============================================================================
