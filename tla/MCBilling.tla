------------------------------ MODULE MCBilling ------------------------------
(* Instances of Billing for TLC: one checkout or portal call at a time and two *)
(* overlapping deliveries.                                                     *)
EXTENDS Billing

CONSTANTS c1, d1, d2
=============================================================================
