---------------------------- MODULE EvidenceLog ----------------------------
(***************************************************************************)
(* The abstract Evidence Vault: an append-only log per chain.  An entry    *)
(* takes the position after the last one of its chain, in one step, and is *)
(* never changed.                                                          *)
(***************************************************************************)
EXTENDS Naturals

CONSTANTS Chains, Actors

VARIABLE entries   \* set of [chain, position, actor]

EntriesOf(c) == {e \in entries : e.chain = c}

NextPositions(c) ==
    {n \in {1} \union {e.position + 1 : e \in EntriesOf(c)} :
        \A e \in EntriesOf(c) : e.position < n}

Init == entries = {}

Append(c, n, a) ==
    entries' = entries \union {[chain |-> c, position |-> n, actor |-> a]}

Next ==
    \E c \in Chains, a \in Actors : \E n \in NextPositions(c) : Append(c, n, a)

Spec == Init /\ [][Next]_entries
=============================================================================
