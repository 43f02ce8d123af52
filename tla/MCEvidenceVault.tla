--------------------------- MODULE MCEvidenceVault ---------------------------
(* Instances of EvidenceVault for TLC: two tenants and the system chain. *)
EXTENDS EvidenceVault, TLC

CONSTANTS t1, t2, r1, r2

\* hashtext() gives the two tenants one lock key, the system chain another.
MCLockOf == (t1 :> 1) @@ (t2 :> 1) @@ (System :> 2)

\* Metadata whose every property has a value.
MCMetadata == {[note |-> "null"]}

\* updateCase() spreads its DTO: the properties that were not sent are undefined.
MCMetadataSpread == {[title |-> "x", status |-> Undefined]}
=============================================================================
