--------------------------- MODULE EvidenceTamper ---------------------------
(***************************************************************************)
(* The Evidence Vault with one out-of-band change to the stored table: a   *)
(* field of one row is altered, or a row that is not the newest of its     *)
(* chain is removed.  Appends go on before and after it.                   *)
(***************************************************************************)
EXTENDS EvidenceVault

VARIABLE tampered     \* the chain that was tampered with, {} or {chain}

tamperVars == <<rows, holder, pc, tx, begun, tampered>>

TInit == Init /\ tampered = {}

AlteredRows(e) ==
         {[e EXCEPT !.actorId = a] : a \in Requests}
    \cup {[e EXCEPT !.metadata = StoreJsonb(m)] : m \in Metadata}
    \cup {[e EXCEPT !.previousHash = f.eventHash] : f \in rows}
    \cup {[e EXCEPT !.sequence = n] : n \in 1..AppendBound}

Alter(e) ==
    /\ tampered = {}
    /\ \E x \in AlteredRows(e) \ {e} :
          /\ x.tenantId # System =>
                \A f \in RowsOf(e.tenantId) \ {e} : f.sequence # x.sequence
          /\ rows' = (rows \ {e}) \union {x}
    /\ tampered' = {e.tenantId}
    /\ UNCHANGED <<holder, pc, tx, begun>>

Remove(e) ==
    /\ tampered = {}
    /\ ~IsLast(e, RowsOf(e.tenantId))
    /\ rows' = rows \ {e}
    /\ tampered' = {e.tenantId}
    /\ UNCHANGED <<holder, pc, tx, begun>>

TNext ==
    \/ Next /\ UNCHANGED tampered
    \/ \E e \in rows : Alter(e)
    \/ \E e \in rows : Remove(e)

TSpec == TInit /\ [][TNext]_tamperVars

\* Tamper-evidence (EvidenceService.verifyChain): verification fails for a chain
\* once one of its events was altered, re-linked, renumbered or removed from
\* before the newest event, and later appends never make it pass again.
TamperDetected == \A t \in tampered : ~VerifyIntact(t)
=============================================================================
