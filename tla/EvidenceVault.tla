--------------------------- MODULE EvidenceVault ---------------------------
(***************************************************************************)
(* The Evidence Vault: EvidenceService.append runs one database            *)
(* transaction per event (advisory lock, read of the last event, insert,   *)
(* commit) and verifyChain walks the stored chain.  Many requests append   *)
(* at once, and a transaction may be rolled back between any two of its    *)
(* statements (statement error, transaction timeout, server crash).        *)
(*                                                                         *)
(* SHA-256 is abstracted to a collision-free function: the hash of a       *)
(* content is the tuple of what is hashed.  Of the thirteen hashed fields  *)
(* the model keeps the sequence, the tenant, the actor, the metadata and   *)
(* the previous hash; the others are copied exactly as the actor is.       *)
(***************************************************************************)
EXTENDS Naturals, FiniteSets

CONSTANTS
    Tenants,      \* tenants with an id
    System,       \* the chain of tenantId = null (lock key '__system__')
    Requests,     \* concurrent callers of append()
    Metadata,     \* metadata objects the callers pass
    LockOf,       \* hashtext(tenantKey): collisions are possible
    AppendBound   \* bound on the number of append() calls

Chains == Tenants \union {System}
LockKeys == {LockOf[t] : t \in Chains}

ASSUME SystemAssumption == System \notin Tenants
ASSUME LockAssumption == LockOf \in [Chains -> LockKeys]
ASSUME BoundAssumption == AppendBound \in Nat

VARIABLES
    rows,      \* committed rows of evidence_events
    holder,    \* holder[k]: requests holding advisory lock k
    pc,        \* where each request's transaction is
    tx,        \* what each transaction was called with and has read
    begun      \* number of append() calls so far

vars == <<rows, holder, pc, tx, begun>>

NoHash == <<>>
Undefined == "undefined"

(***************************************************************************)
(* Metadata is a function from property names to values.  stableStringify  *)
(* writes an undefined property as null; storing the same object as JSONB  *)
(* drops the property.                                                     *)
(***************************************************************************)
stableStringify(m) ==
    [k \in DOMAIN m |-> IF m[k] = Undefined THEN "null" ELSE m[k]]

StoreJsonb(m) == [k \in {p \in DOMAIN m : m[p] # Undefined} |-> m[k]]

\* Mutant: the metadata is left out of the canonical content.
HashWithoutMetadata(sequence, tenantId, actorId, metadata, previousHash) ==
    <<sequence, tenantId, actorId, previousHash>>

computeEventHash(sequence, tenantId, actorId, metadata, previousHash) ==
    <<sequence, tenantId, actorId, stableStringify(metadata), previousHash>>

RowsOf(t) == {e \in rows : e.tenantId = t}

\* findFirst({ where: { tenantId }, orderBy: { sequence: 'desc' } })
IsLast(e, R) == e \in R /\ \A f \in R : f.sequence <= e.sequence

NoTx == [tenantId |-> System, actorId |-> "none", metadata |-> <<>>,
         sequence |-> 0, previousHash |-> NoHash]

EventOf(x) ==
    [tenantId     |-> x.tenantId,
     sequence     |-> x.sequence,
     actorId      |-> x.actorId,
     metadata     |-> StoreJsonb(x.metadata),
     previousHash |-> x.previousHash,
     eventHash    |-> computeEventHash(x.sequence, x.tenantId, x.actorId,
                                       x.metadata, x.previousHash)]

Linked(x, n, h) == [x EXCEPT !.sequence = n, !.previousHash = h]

LockKey(r) == LockOf[tx[r].tenantId]
InTx == {"begun", "locked", "read", "inserted"}

Init ==
    /\ rows = {}
    /\ holder = [k \in LockKeys |-> {}]
    /\ pc = [r \in Requests |-> "idle"]
    /\ tx = [r \in Requests |-> NoTx]
    /\ begun = 0

\* append() is called and its transaction opens.
Begin(r) ==
    /\ pc[r] = "idle"
    /\ begun < AppendBound
    /\ \E t \in Chains, m \in Metadata :
          tx' = [tx EXCEPT ![r] = [tenantId |-> t, actorId |-> r, metadata |-> m,
                                   sequence |-> 0, previousHash |-> NoHash]]
    /\ pc' = [pc EXCEPT ![r] = "begun"]
    /\ begun' = begun + 1
    /\ UNCHANGED <<rows, holder>>

\* Mutant: pg_try_advisory_xact_lock, its answer ignored.
LockWithoutWaiting(r) ==
    /\ pc[r] = "begun"
    /\ holder' = [holder EXCEPT ![LockKey(r)] = @ \union {r}]
    /\ pc' = [pc EXCEPT ![r] = "locked"]
    /\ UNCHANGED <<rows, tx, begun>>

\* SELECT pg_advisory_xact_lock(hashtext(tenantKey)): waits for the holder.
Lock(r) ==
    /\ pc[r] = "begun"
    /\ holder[LockKey(r)] = {}
    /\ holder' = [holder EXCEPT ![LockKey(r)] = {r}]
    /\ pc' = [pc EXCEPT ![r] = "locked"]
    /\ UNCHANGED <<rows, tx, begun>>

\* Mutant: sequence = last?.sequence ?? 0, without the + 1.
ReadLastNoIncrement(r) ==
    /\ pc[r] = "locked"
    /\ \/ RowsOf(tx[r].tenantId) = {} /\ UNCHANGED tx
       \/ \E last \in RowsOf(tx[r].tenantId) :
             /\ IsLast(last, RowsOf(tx[r].tenantId))
             /\ tx' = [tx EXCEPT ![r] = Linked(@, last.sequence, last.eventHash)]
    /\ pc' = [pc EXCEPT ![r] = "read"]
    /\ UNCHANGED <<rows, holder, begun>>

\* Mutant: the last event is looked up without "where: { tenantId }".
ReadLastOfAnyTenant(r) ==
    /\ pc[r] = "locked"
    /\ \/ /\ rows = {}
          /\ tx' = [tx EXCEPT ![r] = Linked(@, 1, NoHash)]
       \/ \E last \in rows :
             /\ IsLast(last, rows)
             /\ tx' = [tx EXCEPT ![r] = Linked(@, last.sequence + 1, last.eventHash)]
    /\ pc' = [pc EXCEPT ![r] = "read"]
    /\ UNCHANGED <<rows, holder, begun>>

\* Mutant: the lock guards the read only, and is given back before the insert.
ReadLastThenUnlock(r) ==
    /\ pc[r] = "locked"
    /\ \/ /\ RowsOf(tx[r].tenantId) = {}
          /\ tx' = [tx EXCEPT ![r] = Linked(@, 1, NoHash)]
       \/ \E last \in RowsOf(tx[r].tenantId) :
             /\ IsLast(last, RowsOf(tx[r].tenantId))
             /\ tx' = [tx EXCEPT ![r] = Linked(@, last.sequence + 1, last.eventHash)]
    /\ holder' = [holder EXCEPT ![LockKey(r)] = {}]
    /\ pc' = [pc EXCEPT ![r] = "read"]
    /\ UNCHANGED <<rows, begun>>

\* Each statement sees what is committed when it runs (READ COMMITTED).
ReadLast(r) ==
    LET R == RowsOf(tx[r].tenantId) IN
    /\ pc[r] = "locked"
    /\ \/ /\ R = {}
          /\ tx' = [tx EXCEPT ![r] = Linked(@, 1, NoHash)]
       \/ \E last \in R :
             /\ IsLast(last, R)
             /\ tx' = [tx EXCEPT ![r] = Linked(@, last.sequence + 1, last.eventHash)]
    /\ pc' = [pc EXCEPT ![r] = "read"]
    /\ UNCHANGED <<rows, holder, begun>>

\* UNIQUE (tenantId, sequence); SQL's NULL is distinct from every NULL, so the
\* index never refuses a row of the system chain.
Conflicts(r) ==
    /\ tx[r].tenantId # System
    /\ \E e \in RowsOf(tx[r].tenantId) : e.sequence = tx[r].sequence

BlockedByInsert(r) ==
    /\ tx[r].tenantId # System
    /\ \E q \in Requests \ {r} :
          /\ pc[q] = "inserted"
          /\ tx[q].tenantId = tx[r].tenantId
          /\ tx[q].sequence = tx[r].sequence

Insert(r) ==
    /\ pc[r] = "read"
    /\ ~Conflicts(r)
    /\ ~BlockedByInsert(r)
    /\ pc' = [pc EXCEPT ![r] = "inserted"]
    /\ UNCHANGED <<rows, holder, tx, begun>>

\* Mutant: a session-level lock, which outlives the transaction.
ReleaseNothing(r) == holder

Release(r) == [k \in LockKeys |-> holder[k] \ {r}]

\* Mutant: the vault keeps one event per chain, an upsert on the tenant.
CommitReplacing(r) ==
    /\ pc[r] = "inserted"
    /\ rows' = (rows \ RowsOf(tx[r].tenantId)) \union {EventOf(tx[r])}
    /\ holder' = Release(r)
    /\ pc' = [pc EXCEPT ![r] = "idle"]
    /\ tx' = [tx EXCEPT ![r] = NoTx]
    /\ UNCHANGED begun

\* COMMIT makes the row visible and releases the transaction's lock.
Commit(r) ==
    /\ pc[r] = "inserted"
    /\ rows' = rows \union {EventOf(tx[r])}
    /\ holder' = Release(r)
    /\ pc' = [pc EXCEPT ![r] = "idle"]
    /\ tx' = [tx EXCEPT ![r] = NoTx]
    /\ UNCHANGED begun

\* ROLLBACK at any point: error, timeout, unique violation or crash.
Rollback(r) ==
    /\ pc[r] \in InTx
    /\ holder' = Release(r)
    /\ pc' = [pc EXCEPT ![r] = "idle"]
    /\ tx' = [tx EXCEPT ![r] = NoTx]
    /\ UNCHANGED <<rows, begun>>

Next ==
    \E r \in Requests :
        Begin(r) \/ Lock(r) \/ ReadLast(r) \/ Insert(r) \/ Commit(r) \/ Rollback(r)

Spec == Init /\ [][Next]_vars

(***************************************************************************)
(* A transaction that has been opened runs its statements to the end; the  *)
(* database queues the waiters of an advisory lock, so one of them is not  *)
(* passed over for ever.                                                   *)
(***************************************************************************)
Fairness ==
    \A r \in Requests :
        /\ SF_vars(Lock(r))
        /\ WF_vars(ReadLast(r) \/ Insert(r) \/ Commit(r))

FairSpec == Spec /\ Fairness

-----------------------------------------------------------------------------
(***************************************************************************)
(* verifyChain: the walk in sequence order fails at an event whose         *)
(* previousHash is not the eventHash of the event before it, or whose      *)
(* recomputed hash differs from the stored one.  Two events with one       *)
(* sequence always fail the walk, whichever comes first.                   *)
(***************************************************************************)
LinkBroken(e, R) ==
    LET before == {f \in R : f.sequence < e.sequence} IN
    \/ before = {} /\ e.previousHash # NoHash
    \/ \E f \in before : IsLast(f, before) /\ e.previousHash # f.eventHash
    \/ \E f \in R : f # e /\ f.sequence = e.sequence

ContentAltered(e) ==
    e.eventHash # computeEventHash(e.sequence, e.tenantId, e.actorId,
                                   e.metadata, e.previousHash)

VerifyIntact(t) ==
    \A e \in RowsOf(t) : ~LinkBroken(e, RowsOf(t)) /\ ~ContentAltered(e)

-----------------------------------------------------------------------------
Hashes == {NoHash} \union {e.eventHash : e \in rows}

TxRecords ==
    [tenantId     : Chains,
     actorId      : Requests \union {"none"},
     metadata     : Metadata \union {<<>>},
     sequence     : Nat,
     previousHash : Hashes]

\* Types; what a transaction links to is the hash of a committed event.
TypeOK ==
    /\ \A e \in rows : e.tenantId \in Chains /\ e.sequence \in Nat \ {0}
    /\ holder \in [LockKeys -> SUBSET Requests]
    /\ pc \in [Requests -> InTx \union {"idle"}]
    /\ tx \in [Requests -> TxRecords]
    /\ \A r \in Requests :
          /\ pc[r] # "idle" => tx[r].metadata \in Metadata
          /\ pc[r] \in {"read", "inserted"} => tx[r].sequence # 0
    /\ begun \in 0..AppendBound

\* The chain cannot fork (comment in append()): a tenant has one event per
\* sequence, no sequence is skipped, and each event links to the one before it,
\* whatever the interleaving and wherever transactions are rolled back.
ChainLinear ==
    \A e \in rows :
        /\ \A f \in RowsOf(e.tenantId) : f.sequence = e.sequence => f = e
        /\ e.sequence = 1 => e.previousHash = NoHash
        /\ e.sequence > 1 =>
              \E f \in RowsOf(e.tenantId) :
                  /\ f.sequence = e.sequence - 1
                  /\ e.previousHash = f.eventHash

\* An untouched chain verifies: GET /evidence/verify never reports an event as
\* altered when nothing but append() wrote to the table.
UntouchedChainVerifies == \A t \in Chains : VerifyIntact(t)

\* The log is append-only: a committed event is never changed or removed, and a
\* new event is the last one of its chain.
AppendOnly ==
    [][/\ rows \subseteq rows'
       /\ \A e \in rows' \ rows, f \in rows :
             f.tenantId = e.tenantId => f.sequence < e.sequence]_vars

\* The lock serialises a tenant's appends (hashtext collisions included): the
\* last event a transaction read is still the last one when it inserts.
ReadStaysFresh ==
    \A r \in Requests :
        pc[r] \in {"read", "inserted"} =>
            \A e \in RowsOf(tx[r].tenantId) : e.sequence < tx[r].sequence

\* Every append() ends, committed or rolled back: no request waits for ever on
\* the advisory lock of its chain, because the lock dies with its transaction.
AppendEnds == \A r \in Requests : (pc[r] = "begun") ~> (pc[r] = "idle")

(***************************************************************************)
(* What the vault promises: one log per chain, each append adding one      *)
(* entry at the next position in a single step.                            *)
(***************************************************************************)
Log == INSTANCE EvidenceLog WITH
    Actors <- Requests,
    entries <- {[chain |-> e.tenantId, position |-> e.sequence, actor |-> e.actorId]
                    : e \in rows}

\* The transactional append implements the atomic, append-only log.
ImplementsLog == Log!Spec
=============================================================================
