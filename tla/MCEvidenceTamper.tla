-------------------------- MODULE MCEvidenceTamper --------------------------
(* An instance of EvidenceTamper for TLC: one tenant and the system chain. *)
EXTENDS EvidenceTamper, TLC

CONSTANTS t1, r1, r2

MCLockApart == (t1 :> 1) @@ (System :> 2)

\* An alteration may write a value, null, or drop a property.
MCMetadata == {[note |-> "x"], [note |-> "null"]}
=============================================================================
