------------------------- MODULE EvidenceVaultProofs -------------------------
(***************************************************************************)
(* Proofs about EvidenceVault and EvidenceTamper, for every set of tenants,*)
(* of requests and of metadata, every lock-key function and every bound on *)
(* the appends.                                                            *)
(***************************************************************************)
EXTENDS EvidenceTamper, TLAPS

Holding == {"locked", "read", "inserted"}

(***************************************************************************)
(* ChainLinear is not inductive: it needs that a transaction past its lock *)
(* is the only holder of its key, and that what it read is still the last  *)
(* event of its chain when it commits.                                     *)
(***************************************************************************)
LockHeld == \A r \in Requests : pc[r] \in Holding => holder[LockKey(r)] = {r}

Follows(n, h, R) ==
    \/ R = {} /\ n = 1 /\ h = NoHash
    \/ \E last \in R : IsLast(last, R) /\ n = last.sequence + 1 /\ h = last.eventHash

ReadIsLast ==
    \A r \in Requests :
        pc[r] \in {"read", "inserted"} =>
            Follows(tx[r].sequence, tx[r].previousHash, RowsOf(tx[r].tenantId))

IInv == TypeOK /\ LockHeld /\ ReadIsLast /\ ChainLinear

-----------------------------------------------------------------------------
\* The empty vault has its types.
LEMMA InitTypeOK == Init => TypeOK
  BY BoundAssumption DEF Init, TypeOK, NoTx, Hashes, TxRecords, Chains, InTx, NoHash

\* ReadLast gives the transaction the position and the hash that follow the last
\* event of its chain.
LEMMA ReadLastLinks ==
    ASSUME TypeOK, NEW r \in Requests, ReadLast(r)
    PROVE  \E n \in Nat \ {0}, h \in Hashes :
              /\ tx' = [tx EXCEPT ![r] = Linked(tx[r], n, h)]
              /\ Follows(n, h, RowsOf(tx[r].tenantId))
<1>1. CASE RowsOf(tx[r].tenantId) = {}
  <2>1. tx' = [tx EXCEPT ![r] = Linked(tx[r], 1, NoHash)]
    BY <1>1 DEF ReadLast
  <2>2. 1 \in Nat \ {0} /\ NoHash \in Hashes
    BY DEF Hashes
  <2>3. Follows(1, NoHash, RowsOf(tx[r].tenantId))
    BY <1>1 DEF Follows
  <2> QED BY <2>1, <2>2, <2>3
<1>2. CASE RowsOf(tx[r].tenantId) # {}
  <2>1. PICK last \in RowsOf(tx[r].tenantId) :
          /\ IsLast(last, RowsOf(tx[r].tenantId))
          /\ tx' = [tx EXCEPT ![r] = Linked(tx[r], last.sequence + 1, last.eventHash)]
    BY <1>2 DEF ReadLast
  <2>2. last.sequence + 1 \in Nat \ {0} /\ last.eventHash \in Hashes
    BY <2>1 DEF RowsOf, TypeOK, Hashes
  <2>3. Follows(last.sequence + 1, last.eventHash, RowsOf(tx[r].tenantId))
    BY <2>1 DEF Follows
  <2> QED BY <2>1, <2>2, <2>3
<1> QED BY <1>1, <1>2

\* Every step of append() keeps the types.
LEMMA TypeStep == TypeOK /\ [Next]_vars => TypeOK'
<1> SUFFICES ASSUME TypeOK, [Next]_vars PROVE TypeOK'
  OBVIOUS
<1> USE BoundAssumption
<1>1. ASSUME NEW r \in Requests, Begin(r) PROVE TypeOK'
  BY <1>1 DEF TypeOK, Begin, InTx, Hashes, TxRecords, NoHash
<1>2. ASSUME NEW r \in Requests, Lock(r) PROVE TypeOK'
  BY <1>2 DEF TypeOK, Lock, InTx, Hashes, TxRecords, LockKey, LockKeys
<1>3. ASSUME NEW r \in Requests, ReadLast(r) PROVE TypeOK'
  <2>1. PICK n \in Nat \ {0}, h \in Hashes :
            tx' = [tx EXCEPT ![r] = Linked(tx[r], n, h)]
    BY <1>3, ReadLastLinks
  <2>2. /\ UNCHANGED <<rows, holder, begun>>
        /\ pc[r] = "locked"
        /\ pc' = [pc EXCEPT ![r] = "read"]
    BY <1>3 DEF ReadLast
  <2>3. TxRecords' = TxRecords
    BY <2>2 DEF Hashes, TxRecords
  <2>4. Linked(tx[r], n, h) \in TxRecords
    BY <2>1 DEF TypeOK, Linked, TxRecords
  <2>5. tx' \in [Requests -> TxRecords]
    BY <2>1, <2>4 DEF TypeOK
  <2>6. /\ tx'[r].sequence # 0
        /\ \A q \in Requests :
              /\ tx'[q].metadata = tx[q].metadata
              /\ q # r => tx'[q] = tx[q]
    BY <2>1 DEF TypeOK, Linked, TxRecords
  <2>7. \A q \in Requests :
            /\ pc'[q] # "idle" => tx'[q].metadata \in Metadata
            /\ pc'[q] \in {"read", "inserted"} => tx'[q].sequence # 0
    BY <2>2, <2>6 DEF TypeOK, InTx
  <2> QED BY <2>2, <2>3, <2>5, <2>7 DEF TypeOK, InTx
<1>4. ASSUME NEW r \in Requests, Insert(r) PROVE TypeOK'
  BY <1>4 DEF TypeOK, Insert, InTx, Hashes, TxRecords
<1>5. ASSUME NEW r \in Requests, Commit(r) PROVE TypeOK'
  BY <1>5 DEF TypeOK, Commit, InTx, Hashes, TxRecords, Release, EventOf, NoTx, Chains, NoHash
<1>6. ASSUME NEW r \in Requests, Rollback(r) PROVE TypeOK'
  BY <1>6 DEF TypeOK, Rollback, InTx, Hashes, TxRecords, Release, NoTx, Chains, NoHash
<1>7. CASE UNCHANGED vars
  BY <1>7 DEF TypeOK, vars, Hashes, TxRecords
<1> QED BY <1>1, <1>2, <1>3, <1>4, <1>5, <1>6, <1>7 DEF Next

\* The tables have their types in every reachable state of append().
THEOREM TypeCorrect == Spec => []TypeOK
<1>1. QED BY InitTypeOK, TypeStep, PTL DEF Spec

-----------------------------------------------------------------------------
\* The empty vault satisfies the inductive invariant.
LEMMA InitIInv == Init => IInv
<1> SUFFICES ASSUME Init PROVE IInv
  OBVIOUS
<1> QED BY InitTypeOK
        DEF Init, IInv, LockHeld, ReadIsLast, ChainLinear, Holding, RowsOf

\* Only one transaction is past the lock of a key, so only one per chain.
LEMMA OneHolder ==
    ASSUME LockHeld, NEW q \in Requests, NEW r \in Requests,
           pc[q] \in Holding, pc[r] \in Holding, tx[q].tenantId = tx[r].tenantId
    PROVE  q = r
<1>1. LockKey(q) = LockKey(r)
  BY DEF LockKey
<1>2. holder[LockKey(q)] = {q} /\ holder[LockKey(r)] = {r}
  BY DEF LockHeld
<1> QED BY <1>1, <1>2

\* Steps that leave the table alone and take r nowhere past its read keep the
\* chain, and keep what the others have read.
LEMMA LockHeldStep == TypeOK /\ LockHeld /\ [Next]_vars => LockHeld'
<1> SUFFICES ASSUME TypeOK, LockHeld, [Next]_vars PROVE LockHeld'
  OBVIOUS
<1> USE LockAssumption DEF TypeOK, LockHeld, Holding, LockKey, InTx
<1>1. ASSUME NEW r \in Requests, Begin(r) PROVE LockHeld'
  BY <1>1 DEF Begin
<1>2. ASSUME NEW r \in Requests, Lock(r) PROVE LockHeld'
  <2> SUFFICES ASSUME NEW q \in Requests, pc'[q] \in Holding
               PROVE  holder'[LockKey(q)'] = {q}
    OBVIOUS
  <2>1. LockOf[tx[r].tenantId] \in LockKeys /\ LockOf[tx[q].tenantId] \in LockKeys
    BY DEF TxRecords
  <2>2. CASE q = r
    BY <1>2, <2>1, <2>2 DEF Lock
  <2>3. CASE q # r
    BY <1>2, <2>1, <2>3 DEF Lock
  <2> QED BY <2>2, <2>3
<1>3. ASSUME NEW r \in Requests, ReadLast(r) PROVE LockHeld'
  <2>1. \A q \in Requests : tx'[q].tenantId = tx[q].tenantId
    <3>1. PICK n \in Nat \ {0}, h \in Hashes :
              tx' = [tx EXCEPT ![r] = Linked(tx[r], n, h)]
      BY <1>3, ReadLastLinks
    <3> QED BY <3>1 DEF Linked, TxRecords
  <2>2. holder' = holder /\ pc[r] = "locked" /\ pc' = [pc EXCEPT ![r] = "read"]
    BY <1>3 DEF ReadLast
  <2> QED BY <2>1, <2>2
<1>4. ASSUME NEW r \in Requests, Insert(r) PROVE LockHeld'
  BY <1>4 DEF Insert
<1>5. ASSUME NEW r \in Requests, Commit(r) \/ Rollback(r) PROVE LockHeld'
  <2> SUFFICES ASSUME NEW q \in Requests, pc'[q] \in Holding
               PROVE  holder'[LockKey(q)'] = {q}
    OBVIOUS
  <2>1. q # r /\ pc[q] \in Holding /\ tx'[q] = tx[q]
    BY <1>5 DEF Commit, Rollback
  <2>2. LockOf[tx[q].tenantId] \in LockKeys
    BY DEF TxRecords
  <2>3. holder' = Release(r)
    BY <1>5 DEF Commit, Rollback
  <2> QED BY <2>1, <2>2, <2>3 DEF Release
<1>6. CASE UNCHANGED vars
  BY <1>6 DEF vars
<1> QED BY <1>1, <1>2, <1>3, <1>4, <1>5, <1>6 DEF Next

\* What a transaction read stays the end of its chain: only it could extend it.
LEMMA ReadIsLastStep ==
    TypeOK /\ LockHeld /\ ReadIsLast /\ [Next]_vars => ReadIsLast'
<1> SUFFICES ASSUME TypeOK, LockHeld, ReadIsLast, [Next]_vars,
                    NEW q \in Requests, pc'[q] \in {"read", "inserted"}
             PROVE  Follows(tx[q].sequence, tx[q].previousHash, RowsOf(tx[q].tenantId))'
  BY DEF ReadIsLast
<1> DEFINE F == Follows(tx[q].sequence, tx[q].previousHash, RowsOf(tx[q].tenantId))
<1>1. ASSUME pc[q] \in {"read", "inserted"}, tx'[q] = tx[q], rows' = rows PROVE F'
  BY <1>1 DEF ReadIsLast, Follows, RowsOf, IsLast
<1>2. ASSUME NEW r \in Requests, Begin(r) PROVE F'
  BY <1>1, <1>2 DEF Begin, TypeOK
<1>3. ASSUME NEW r \in Requests, Lock(r) PROVE F'
  BY <1>1, <1>3 DEF Lock, TypeOK
<1>4. ASSUME NEW r \in Requests, ReadLast(r) PROVE F'
  <2>1. PICK n \in Nat \ {0}, h \in Hashes :
          /\ tx' = [tx EXCEPT ![r] = Linked(tx[r], n, h)]
          /\ Follows(n, h, RowsOf(tx[r].tenantId))
    BY <1>4, ReadLastLinks
  <2>2. rows' = rows /\ pc' = [pc EXCEPT ![r] = "read"]
    BY <1>4 DEF ReadLast
  <2>3. CASE q = r
    <3>1. /\ tx'[r].sequence = n
          /\ tx'[r].previousHash = h
          /\ tx'[r].tenantId = tx[r].tenantId
      BY <2>1 DEF TypeOK, TxRecords, Linked
    <3>2. RowsOf(tx[q].tenantId)' = RowsOf(tx[r].tenantId)
      BY <2>2, <2>3, <3>1 DEF RowsOf
    <3> QED BY <2>1, <2>3, <3>1, <3>2 DEF Follows, IsLast
  <2>4. CASE q # r
    BY <1>1, <2>1, <2>2, <2>4 DEF TypeOK
  <2> QED BY <2>3, <2>4
<1>5. ASSUME NEW r \in Requests, Insert(r) PROVE F'
  BY <1>1, <1>5 DEF Insert, TypeOK
<1>6. ASSUME NEW r \in Requests, Commit(r) PROVE F'
  <2>1. q # r /\ tx'[q] = tx[q] /\ pc[q] \in {"read", "inserted"} /\ pc[r] = "inserted"
    BY <1>6 DEF Commit, TypeOK
  <2>2. tx[q].tenantId # tx[r].tenantId
    BY <2>1, OneHolder DEF Holding
  <2>3. EventOf(tx[r]).tenantId = tx[r].tenantId
    BY DEF EventOf
  <2>4. RowsOf(tx[q].tenantId)' = RowsOf(tx[q].tenantId)
    BY <1>6, <2>1, <2>2, <2>3 DEF Commit, RowsOf
  <2> QED BY <2>1, <2>4 DEF ReadIsLast, Follows, IsLast
<1>7. ASSUME NEW r \in Requests, Rollback(r) PROVE F'
  BY <1>1, <1>7 DEF Rollback, TypeOK
<1>8. CASE UNCHANGED vars
  BY <1>1, <1>8 DEF vars
<1> QED BY <1>2, <1>3, <1>4, <1>5, <1>6, <1>7, <1>8 DEF Next

\* A commit adds one event, which follows the last one of its chain.
LEMMA CommitExtends ==
    ASSUME TypeOK, ReadIsLast, NEW r \in Requests, Commit(r)
    PROVE  \E e :
              /\ rows' = rows \union {e}
              /\ e = EventOf(tx[r])
              /\ e.tenantId = tx[r].tenantId
              /\ e.sequence \in Nat \ {0}
              /\ Follows(e.sequence, e.previousHash, RowsOf(e.tenantId))
              /\ \A f \in RowsOf(e.tenantId) : f.sequence < e.sequence
<1> DEFINE e == EventOf(tx[r])
<1>1. rows' = rows \union {e} /\ pc[r] = "inserted"
  BY DEF Commit
<1>2. /\ e.tenantId = tx[r].tenantId
      /\ e.sequence = tx[r].sequence
      /\ e.previousHash = tx[r].previousHash
  BY DEF EventOf
<1>3. e.sequence \in Nat \ {0}
  BY <1>1, <1>2 DEF TypeOK, TxRecords
<1>4. Follows(e.sequence, e.previousHash, RowsOf(e.tenantId))
  BY <1>1, <1>2 DEF ReadIsLast
<1>5. \A f \in RowsOf(e.tenantId) : f.sequence < e.sequence
  <2> HIDE DEF e
  <2> QED BY <1>3, <1>4 DEF Follows, IsLast, RowsOf, TypeOK
<1> QED BY <1>1, <1>2, <1>3, <1>4, <1>5

\* Every step of append() keeps the chains linear.
LEMMA ChainLinearStep == IInv /\ [Next]_vars => ChainLinear'
<1> SUFFICES ASSUME IInv, [Next]_vars PROVE ChainLinear'
  OBVIOUS
<1>1. CASE rows' = rows
  BY <1>1 DEF IInv, ChainLinear, RowsOf
<1>2. ASSUME NEW r \in Requests, Commit(r) PROVE ChainLinear'
  <2>1. PICK e :
          /\ rows' = rows \union {e}
          /\ e.sequence \in Nat \ {0}
          /\ Follows(e.sequence, e.previousHash, RowsOf(e.tenantId))
          /\ \A f \in RowsOf(e.tenantId) : f.sequence < e.sequence
    BY <1>2, CommitExtends DEF IInv
  <2> SUFFICES ASSUME NEW g \in rows'
               PROVE  /\ \A f \in RowsOf(g.tenantId)' : f.sequence = g.sequence => f = g
                      /\ g.sequence = 1 => g.previousHash = NoHash
                      /\ g.sequence > 1 =>
                            \E f \in RowsOf(g.tenantId)' :
                                /\ f.sequence = g.sequence - 1
                                /\ g.previousHash = f.eventHash
    BY DEF ChainLinear, RowsOf
  <2>2. \A f \in rows : f.sequence \in Nat \ {0}
    BY DEF IInv, TypeOK
  <2>3. CASE g = e
    BY <2>1, <2>2, <2>3 DEF RowsOf, Follows, IsLast
  <2>4. CASE g \in rows /\ g # e
    <3>1. \A f \in RowsOf(g.tenantId)' : f.sequence = g.sequence => f = g
      BY <2>1, <2>2, <2>4 DEF RowsOf, IInv, ChainLinear
    <3>2. g.sequence = 1 => g.previousHash = NoHash
      BY <2>4 DEF IInv, ChainLinear
    <3>3. RowsOf(g.tenantId) \subseteq RowsOf(g.tenantId)'
      BY <2>1 DEF RowsOf
    <3> QED BY <2>4, <3>1, <3>2, <3>3 DEF IInv, ChainLinear
  <2> QED BY <2>1, <2>3, <2>4
<1>3. ASSUME NEW r \in Requests,
             Begin(r) \/ Lock(r) \/ ReadLast(r) \/ Insert(r) \/ Rollback(r)
      PROVE  ChainLinear'
  BY <1>1, <1>3 DEF Begin, Lock, ReadLast, Insert, Rollback
<1>4. CASE UNCHANGED vars
  BY <1>1, <1>4 DEF vars
<1> QED BY <1>2, <1>3, <1>4 DEF Next

\* The invariant holds in every reachable state.
THEOREM Invariance == Spec => []IInv
<1>1. IInv /\ [Next]_vars => IInv'
  BY TypeStep, LockHeldStep, ReadIsLastStep, ChainLinearStep DEF IInv
<1> QED BY InitIInv, <1>1, PTL DEF Spec

\* No fork, no gap, every link right (append(): "so the chain cannot fork under
\* concurrency"), for any number of requests and any lock-key collisions.
THEOREM ChainIsLinear == Spec => []ChainLinear
<1>1. IInv => ChainLinear
  BY DEF IInv
<1> QED BY Invariance, <1>1, PTL

\* The last event a transaction read is still the last one when it inserts.
THEOREM ReadsStayFresh == Spec => []ReadStaysFresh
<1>1. IInv => ReadStaysFresh
  <2> SUFFICES ASSUME IInv, NEW r \in Requests, pc[r] \in {"read", "inserted"},
                      NEW e \in RowsOf(tx[r].tenantId)
               PROVE  e.sequence < tx[r].sequence
    BY DEF ReadStaysFresh
  <2>1. Follows(tx[r].sequence, tx[r].previousHash, RowsOf(tx[r].tenantId))
    BY DEF IInv, ReadIsLast
  <2> QED BY <2>1 DEF Follows, IsLast, RowsOf, IInv, TypeOK
<1> QED BY Invariance, <1>1, PTL

\* The table is append-only, and a chain grows at its end.
THEOREM TableAppendOnly == Spec => AppendOnly
<1> DEFINE A == /\ rows \subseteq rows'
                /\ \A e \in rows' \ rows, f \in rows :
                      f.tenantId = e.tenantId => f.sequence < e.sequence
<1>1. IInv /\ [Next]_vars => [A]_vars
  <2> SUFFICES ASSUME IInv, Next PROVE A
    OBVIOUS
  <2>1. CASE rows' = rows
    BY <2>1
  <2>2. ASSUME NEW r \in Requests, Commit(r) PROVE A
    <3>1. PICK e : /\ rows' = rows \union {e}
                   /\ \A f \in RowsOf(e.tenantId) : f.sequence < e.sequence
      BY <2>2, CommitExtends DEF IInv
    <3> QED BY <3>1 DEF RowsOf
  <2>3. ASSUME NEW r \in Requests,
               Begin(r) \/ Lock(r) \/ ReadLast(r) \/ Insert(r) \/ Rollback(r)
        PROVE  A
    BY <2>1, <2>3 DEF Begin, Lock, ReadLast, Insert, Rollback
  <2> QED BY <2>2, <2>3 DEF Next
<1> QED BY Invariance, <1>1, PTL DEF Spec, AppendOnly

-----------------------------------------------------------------------------
(***************************************************************************)
(* Verification of an untouched chain.  It holds as long as no caller      *)
(* passes metadata with an undefined property.                             *)
(***************************************************************************)
EveryPropertyDefined == \A m \in Metadata : \A k \in DOMAIN m : m[k] # Undefined

ContentIntact == \A e \in rows : ~ContentAltered(e)

\* The JSONB round trip does not change the hash of fully defined metadata.
LEMMA StorageKeepsHash ==
    ASSUME EveryPropertyDefined, NEW m \in Metadata
    PROVE  stableStringify(StoreJsonb(m)) = stableStringify(m)
<1>1. {p \in DOMAIN m : m[p] # Undefined} = DOMAIN m
  BY DEF EveryPropertyDefined
<1> DEFINE s == [k \in DOMAIN m |-> m[k]]
<1>2. StoreJsonb(m) = s
  BY <1>1 DEF StoreJsonb
<1>3. DOMAIN s = DOMAIN m /\ \A k \in DOMAIN m : s[k] = m[k]
  OBVIOUS
<1> HIDE DEF s
<1> QED BY <1>2, <1>3 DEF stableStringify

\* Every step keeps the stored hashes equal to the recomputed ones.
LEMMA ContentStep ==
    ASSUME EveryPropertyDefined
    PROVE  TypeOK /\ ContentIntact /\ [Next]_vars => ContentIntact'
<1> SUFFICES ASSUME TypeOK, ContentIntact, [Next]_vars PROVE ContentIntact'
  OBVIOUS
<1>1. CASE rows' = rows
  BY <1>1 DEF ContentIntact, ContentAltered
<1>2. ASSUME NEW r \in Requests, Commit(r) PROVE ContentIntact'
  <2>1. rows' = rows \union {EventOf(tx[r])} /\ tx[r].metadata \in Metadata
    BY <1>2 DEF Commit, TypeOK
  <2>2. stableStringify(StoreJsonb(tx[r].metadata)) = stableStringify(tx[r].metadata)
    BY <2>1, StorageKeepsHash
  <2>3. ~ContentAltered(EventOf(tx[r]))
    BY <2>2 DEF ContentAltered, EventOf, computeEventHash
  <2> QED BY <2>1, <2>3 DEF ContentIntact, ContentAltered
<1>3. ASSUME NEW r \in Requests,
             Begin(r) \/ Lock(r) \/ ReadLast(r) \/ Insert(r) \/ Rollback(r)
      PROVE  ContentIntact'
  BY <1>1, <1>3 DEF Begin, Lock, ReadLast, Insert, Rollback
<1>4. CASE UNCHANGED vars
  BY <1>1, <1>4 DEF vars
<1> QED BY <1>2, <1>3, <1>4 DEF Next

\* verifyChain finds no broken link in a linear chain.
LEMMA LinearHasNoBrokenLink ==
    ASSUME TypeOK, ChainLinear, NEW t \in Chains, NEW e \in RowsOf(t)
    PROVE  ~LinkBroken(e, RowsOf(t))
<1> DEFINE R == RowsOf(t)
           before == {f \in R : f.sequence < e.sequence}
<1>1. e \in rows /\ RowsOf(e.tenantId) = R
  BY DEF RowsOf
<1>2. \A f \in R : f.sequence \in Nat \ {0}
  BY DEF RowsOf, TypeOK
<1>3. /\ \A f \in R : f.sequence = e.sequence => f = e
      /\ e.sequence = 1 => e.previousHash = NoHash
      /\ e.sequence > 1 =>
            \E f \in R : f.sequence = e.sequence - 1 /\ e.previousHash = f.eventHash
  BY <1>1 DEF ChainLinear
<1>4. \A f, g \in R : f.sequence = g.sequence => f = g
  BY DEF ChainLinear, RowsOf
<1> HIDE DEF R
<1>5. before = {} => e.previousHash = NoHash
  BY <1>2, <1>3 DEF R
<1>6. ASSUME NEW f \in before, IsLast(f, before) PROVE e.previousHash = f.eventHash
  <2>1. f.sequence \in Nat \ {0} /\ e.sequence \in Nat \ {0} /\ f.sequence < e.sequence
    BY <1>2, <1>6 DEF R
  <2>2. PICK g \in R : g.sequence = e.sequence - 1 /\ e.previousHash = g.eventHash
    BY <1>3, <2>1
  <2>3. g \in before
    BY <1>2, <2>1, <2>2
  <2>4. f.sequence = g.sequence
    BY <1>6, <2>1, <2>2, <2>3 DEF IsLast
  <2> QED BY <1>4, <2>2, <2>4
<1> QED BY <1>3, <1>5, <1>6 DEF LinkBroken, R

\* GET /evidence/verify reports an untouched chain as intact, as long as every
\* metadata property the callers pass has a value.
THEOREM UntouchedVerifies ==
    ASSUME EveryPropertyDefined
    PROVE  Spec => []UntouchedChainVerifies
<1>1. Init => ContentIntact
  BY DEF Init, ContentIntact
<1>2. IInv /\ ContentIntact /\ [Next]_vars => ContentIntact'
  BY ContentStep DEF IInv
<1>3. IInv /\ ContentIntact => UntouchedChainVerifies
  BY LinearHasNoBrokenLink
  DEF IInv, UntouchedChainVerifies, VerifyIntact, ContentIntact, RowsOf
<1> QED BY Invariance, <1>1, <1>2, <1>3, PTL DEF Spec

-----------------------------------------------------------------------------
\* The entry of the abstract log that a stored event stands for.
Entry(e) == [chain |-> e.tenantId, position |-> e.sequence, actor |-> e.actorId]

Entries == {Entry(e) : e \in rows}

\* A transaction belongs to the request that opened it.
OwnActor == \A r \in Requests : pc[r] # "idle" => tx[r].actorId = r

\* A transaction keeps the actor it was called with.
LEMMA OwnActorStep == TypeOK /\ OwnActor /\ [Next]_vars => OwnActor'
<1> SUFFICES ASSUME TypeOK, OwnActor, [Next]_vars PROVE OwnActor'
  OBVIOUS
<1> USE DEF OwnActor, TypeOK
<1>1. ASSUME NEW r \in Requests, Begin(r) PROVE OwnActor'
  BY <1>1 DEF Begin
<1>2. ASSUME NEW r \in Requests, Lock(r) \/ Insert(r) PROVE OwnActor'
  BY <1>2 DEF Lock, Insert
<1>3. ASSUME NEW r \in Requests, ReadLast(r) PROVE OwnActor'
  <2>1. PICK n \in Nat \ {0}, h \in Hashes :
          tx' = [tx EXCEPT ![r] = Linked(tx[r], n, h)]
    BY <1>3, ReadLastLinks
  <2>2. \A q \in Requests : tx'[q].actorId = tx[q].actorId
    BY <2>1 DEF Linked, TxRecords
  <2> QED BY <1>3, <2>2 DEF ReadLast
<1>4. ASSUME NEW r \in Requests, Commit(r) \/ Rollback(r) PROVE OwnActor'
  BY <1>4 DEF Commit, Rollback
<1>5. CASE UNCHANGED vars
  BY <1>5 DEF vars
<1> QED BY <1>1, <1>2, <1>3, <1>4, <1>5 DEF Next

\* A commit is an append of the abstract log; every other step leaves it alone.
LEMMA StepSimulation ==
    IInv /\ OwnActor /\ [Next]_vars => [Log!Next]_Entries
<1> SUFFICES ASSUME IInv, OwnActor, [Next]_vars, Entries' # Entries PROVE Log!Next
  OBVIOUS
<1>1. PICK r \in Requests : Commit(r)
  <2>1. rows' # rows
    BY DEF Entries, Entry
  <2> QED BY <2>1 DEF Next, vars, Begin, Lock, ReadLast, Insert, Rollback
<1>2. PICK e :
        /\ rows' = rows \union {e}
        /\ e = EventOf(tx[r])
        /\ e.tenantId = tx[r].tenantId
        /\ e.sequence \in Nat \ {0}
        /\ Follows(e.sequence, e.previousHash, RowsOf(e.tenantId))
        /\ \A f \in RowsOf(e.tenantId) : f.sequence < e.sequence
  BY <1>1, CommitExtends DEF IInv
<1>3. e.tenantId \in Chains
  BY <1>2 DEF IInv, TypeOK, TxRecords
<1>4. e.actorId = r
  BY <1>1, <1>2 DEF OwnActor, Commit, EventOf
<1>5. Entries' = Entries \union {Entry(e)}
  BY <1>2 DEF Entries
<1>6. Log!EntriesOf(e.tenantId) = {Entry(f) : f \in RowsOf(e.tenantId)}
  BY DEF Log!EntriesOf, Entry, RowsOf
<1>7. e.sequence \in Log!NextPositions(e.tenantId)
  <2>1. \A x \in Log!EntriesOf(e.tenantId) : x.position < e.sequence
    BY <1>2, <1>6 DEF Entry
  <2>2. CASE e.sequence = 1
    BY <2>1, <2>2 DEF Log!NextPositions
  <2>3. CASE e.sequence # 1
    <3>1. PICK last \in RowsOf(e.tenantId) : e.sequence = last.sequence + 1
      BY <1>2, <2>3 DEF Follows
    <3>2. Entry(last) \in Log!EntriesOf(e.tenantId) /\ Entry(last).position = last.sequence
      BY <1>6, <3>1 DEF Entry
    <3> QED BY <2>1, <3>1, <3>2 DEF Log!NextPositions
  <2> QED BY <2>2, <2>3
<1>8. Log!Append(e.tenantId, e.sequence, r)
  BY <1>4, <1>5 DEF Log!Append, Entries, Entry
<1> QED BY <1>3, <1>7, <1>8 DEF Log!Next

\* The transactional append implements the abstract, atomic, append-only log.
THEOREM Refinement == Spec => ImplementsLog
<1>1. Init => Log!Init /\ OwnActor
  BY DEF Init, Log!Init, OwnActor
<1>2. IInv /\ OwnActor /\ [Next]_vars => OwnActor'
  BY OwnActorStep DEF IInv
<1>3. IInv /\ OwnActor /\ [Next]_vars => [Log!Next]_Entries
  BY StepSimulation
<1> QED BY Invariance, <1>1, <1>2, <1>3, PTL
        DEF Spec, ImplementsLog, Log!Spec, Entries, Entry

-----------------------------------------------------------------------------
(***************************************************************************)
(* Tampering.  Until it happens the chain is linear, every stored row has  *)
(* the hash of its content, and each event that is not the newest has its  *)
(* successor.  Afterwards one row does not hash to its content for ever,   *)
(* or one link stays broken, because appends only add rows beyond it.      *)
(***************************************************************************)
StoredRow(e, m) ==
    e = [tenantId     |-> e.tenantId,
         sequence     |-> e.sequence,
         actorId      |-> e.actorId,
         metadata     |-> StoreJsonb(m),
         previousHash |-> e.previousHash,
         eventHash    |-> computeEventHash(e.sequence, e.tenantId, e.actorId, StoreJsonb(m), e.previousHash)]

Untouched == \A e \in rows : \E m \in Metadata : StoredRow(e, m)

Successors ==
    \A e, f \in rows :
        f.tenantId = e.tenantId /\ e.sequence < f.sequence =>
            \E g \in rows : /\ g.tenantId = e.tenantId /\ g.sequence = e.sequence + 1
                            /\ g.previousHash = e.eventHash

\* A transaction that has not read yet links to nothing.
NothingRead == \A r \in Requests : pc[r] \notin {"read", "inserted"} => tx[r].previousHash = NoHash

Before(g) == {f \in RowsOf(g.tenantId) : f.sequence < g.sequence}

Forged(t) == \E e \in RowsOf(t) : ContentAltered(e)

Gap(g) ==
    /\ \/ Before(g) = {} /\ g.previousHash # NoHash
       \/ \E f \in Before(g) : IsLast(f, Before(g)) /\ g.previousHash # f.eventHash
    /\ \A r \in Requests : pc[r] \in {"read", "inserted"} /\ tx[r].tenantId = g.tenantId =>
          g.sequence < tx[r].sequence

TamperInv ==
    /\ TypeOK
    /\ tampered = {} => IInv /\ NothingRead /\ Untouched /\ Successors
    /\ \A t \in tampered : Forged(t) \/ \E g \in RowsOf(t) : Gap(g)

\* What JSONB stores is hashed as it is: it holds no undefined property.
LEMMA StoredIsStable ==
    ASSUME NEW m
    PROVE  stableStringify(StoreJsonb(m)) = StoreJsonb(m)
<1> DEFINE D == {p \in DOMAIN m : m[p] # Undefined}
           s == [k \in D |-> m[k]]
<1>1. StoreJsonb(m) = s /\ DOMAIN s = D /\ \A k \in D : s[k] = m[k] /\ s[k] # Undefined
  BY DEF StoreJsonb
<1>2. stableStringify(s) = [k \in D |-> m[k]]
  <2> HIDE DEF s, D
  <2> QED  BY <1>1 DEF stableStringify
<1> QED  BY <1>1, <1>2

\* Commit is the only step of append() that touches the table.
LEMMA RowsOrCommit ==
    ASSUME [Next]_vars
    PROVE  rows' = rows \/ \E r \in Requests : Commit(r)
  BY DEF Next, vars, Begin, Lock, ReadLast, Insert, Rollback

\* What commits is stored with the hash of its content.
LEMMA UntouchedStep ==
    ASSUME EveryPropertyDefined
    PROVE  TypeOK /\ Untouched /\ [Next]_vars => Untouched'
<1> SUFFICES ASSUME TypeOK, Untouched, [Next]_vars PROVE Untouched'
  OBVIOUS
<1>1. CASE rows' = rows
  BY <1>1 DEF Untouched
<1>2. ASSUME NEW r \in Requests, Commit(r) PROVE Untouched'
  <2> DEFINE x == tx[r]
  <2>1. rows' = rows \union {EventOf(x)} /\ x.metadata \in Metadata
    BY <1>2 DEF Commit, TypeOK
  <2> HIDE DEF x
  <2>2. stableStringify(StoreJsonb(x.metadata)) = stableStringify(x.metadata)
    BY <2>1, StorageKeepsHash
  <2>3. StoredRow(EventOf(x), x.metadata)
    BY <2>2 DEF StoredRow, EventOf, computeEventHash
  <2> QED  BY <2>1, <2>3 DEF Untouched
<1> QED  BY <1>1, <1>2, RowsOrCommit

\* A transaction links when it reads, and forgets the link when it ends.
LEMMA NothingReadStep == TypeOK /\ NothingRead /\ [Next]_vars => NothingRead'
<1> SUFFICES ASSUME TypeOK, NothingRead, [Next]_vars PROVE NothingRead'
  OBVIOUS
<1> USE DEF NothingRead, TypeOK
<1>1. ASSUME NEW r \in Requests, Begin(r) PROVE NothingRead'
  BY <1>1 DEF Begin
<1>2. ASSUME NEW r \in Requests, Lock(r) \/ Insert(r) PROVE NothingRead'
  BY <1>2 DEF Lock, Insert
<1>3. ASSUME NEW r \in Requests, ReadLast(r) PROVE NothingRead'
  <2>1. pc' = [pc EXCEPT ![r] = "read"] /\ \A q \in Requests \ {r} : tx'[q] = tx[q]
    BY <1>3 DEF ReadLast
  <2> QED  BY <2>1
<1>4. ASSUME NEW r \in Requests, Commit(r) \/ Rollback(r) PROVE NothingRead'
  BY <1>4 DEF Commit, Rollback, NoTx
<1>5. CASE UNCHANGED vars
  BY <1>5 DEF vars
<1> QED  BY <1>1, <1>2, <1>3, <1>4, <1>5 DEF Next

\* The event that commits is the successor of the one that was last.
LEMMA SuccessorsStep == IInv /\ Successors /\ [Next]_vars => Successors'
<1> SUFFICES ASSUME IInv, Successors, [Next]_vars PROVE Successors'
  OBVIOUS
<1>1. CASE rows' = rows
  BY <1>1 DEF Successors
<1>2. ASSUME NEW r \in Requests, Commit(r) PROVE Successors'
  <2>1. PICK n :
          /\ rows' = rows \union {n}
          /\ n.sequence \in Nat \ {0}
          /\ Follows(n.sequence, n.previousHash, RowsOf(n.tenantId))
          /\ \A f \in RowsOf(n.tenantId) : f.sequence < n.sequence
    BY <1>2, CommitExtends DEF IInv
  <2>2. /\ \A f \in rows : f.sequence \in Nat \ {0}
        /\ \A e, f \in rows : f.tenantId = e.tenantId /\ f.sequence = e.sequence => f = e
    BY DEF IInv, TypeOK, ChainLinear, RowsOf
  <2> SUFFICES ASSUME NEW e \in rows', NEW f \in rows', f.tenantId = e.tenantId, e.sequence < f.sequence
               PROVE  \E g \in rows' : /\ g.tenantId = e.tenantId /\ g.sequence = e.sequence + 1
                                       /\ g.previousHash = e.eventHash
    BY DEF Successors
  <2>3. CASE e \in rows /\ f \in rows
    BY <2>1, <2>3 DEF Successors
  <2>4. CASE e \in rows /\ f = n
    <3>1. e \in RowsOf(n.tenantId)
      BY <2>4 DEF RowsOf
    <3>2. PICK last \in RowsOf(n.tenantId) :
             /\ IsLast(last, RowsOf(n.tenantId))
             /\ n.sequence = last.sequence + 1 /\ n.previousHash = last.eventHash
      BY <2>1, <3>1 DEF Follows
    <3>3. last \in rows /\ last.tenantId = e.tenantId /\ e.sequence <= last.sequence
      BY <2>4, <3>1, <3>2 DEF RowsOf, IsLast
    <3>4. CASE e.sequence = last.sequence
      BY <2>1, <2>2, <2>4, <3>2, <3>3, <3>4
    <3>5. CASE e.sequence < last.sequence
      BY <2>1, <2>4, <3>3, <3>5 DEF Successors
    <3> QED  BY <2>2, <2>4, <3>3, <3>4, <3>5
  <2>5. CASE e = n
    BY <2>1, <2>2, <2>5 DEF RowsOf
  <2> QED  BY <2>1, <2>3, <2>4, <2>5
<1> QED  BY <1>1, <1>2, RowsOrCommit

\* An altered row does not hash to its content: each field it could be changed in is
\* part of what was hashed.
LEMMA AlterForges ==
    ASSUME TypeOK, Untouched, NEW e \in rows, NEW x \in AlteredRows(e) \ {e}
    PROVE  /\ ContentAltered(x) /\ x.tenantId = e.tenantId /\ x.eventHash = e.eventHash
           /\ x.sequence \in Nat \ {0}
<1>1. PICK m \in Metadata : StoredRow(e, m)
  BY DEF Untouched
<1> DEFINE s == e.sequence
           a == e.actorId
           t == e.tenantId
           p == e.previousHash
           d == StoreJsonb(m)
           hash == computeEventHash(s, t, a, d, p)
<1>2. e = [tenantId |-> t, sequence |-> s, actorId |-> a, metadata |-> d, previousHash |-> p, eventHash |-> hash]
  BY <1>1 DEF StoredRow
<1>3. hash = <<s, t, a, d, p>>
  BY StoredIsStable DEF computeEventHash
<1>4. s \in Nat \ {0}
  BY DEF TypeOK
<1> HIDE DEF s, a, t, p, d, hash
<1>5. CASE x \in {[e EXCEPT !.actorId = b] : b \in Requests}
  <2> PICK b \in Requests : x = [e EXCEPT !.actorId = b]
    BY <1>5
  <2>1. x = [tenantId |-> t, sequence |-> s, actorId |-> b, metadata |-> d, previousHash |-> p, eventHash |-> hash]
    BY <1>2
  <2>2. b # a
    BY <1>2, <2>1
  <2>3. computeEventHash(s, t, b, d, p) = <<s, t, b, d, p>>
    BY StoredIsStable DEF computeEventHash, d
  <2>4. ContentAltered(x) <=> hash # computeEventHash(s, t, b, d, p)
    BY <2>1 DEF ContentAltered
  <2> QED  BY <1>2, <1>3, <1>4, <2>1, <2>2, <2>3, <2>4
<1>6. CASE x \in {[e EXCEPT !.metadata = StoreJsonb(n)] : n \in Metadata}
  <2> PICK n \in Metadata : x = [e EXCEPT !.metadata = StoreJsonb(n)]
    BY <1>6
  <2> DEFINE c == StoreJsonb(n)
  <2>1. x = [tenantId |-> t, sequence |-> s, actorId |-> a, metadata |-> c, previousHash |-> p, eventHash |-> hash]
    BY <1>2
  <2>2. c # d
    BY <1>2, <2>1
  <2>3. computeEventHash(s, t, a, c, p) = <<s, t, a, c, p>>
    BY StoredIsStable DEF computeEventHash
  <2> HIDE DEF c
  <2>4. ContentAltered(x) <=> hash # computeEventHash(s, t, a, c, p)
    BY <2>1 DEF ContentAltered
  <2> QED  BY <1>2, <1>3, <1>4, <2>1, <2>2, <2>3, <2>4
<1>7. CASE x \in {[e EXCEPT !.previousHash = f.eventHash] : f \in rows}
  <2> PICK f \in rows : x = [e EXCEPT !.previousHash = f.eventHash]
    BY <1>7
  <2> DEFINE q == f.eventHash
  <2>1. x = [tenantId |-> t, sequence |-> s, actorId |-> a, metadata |-> d, previousHash |-> q, eventHash |-> hash]
    BY <1>2
  <2> HIDE DEF q
  <2>2. q # p
    BY <1>2, <2>1
  <2>3. computeEventHash(s, t, a, d, q) = <<s, t, a, d, q>>
    BY StoredIsStable DEF computeEventHash, d
  <2>4. ContentAltered(x) <=> hash # computeEventHash(s, t, a, d, q)
    BY <2>1 DEF ContentAltered
  <2> QED  BY <1>2, <1>3, <1>4, <2>1, <2>2, <2>3, <2>4
<1>8. CASE x \in {[e EXCEPT !.sequence = n] : n \in 1..AppendBound}
  <2> PICK n \in 1..AppendBound : x = [e EXCEPT !.sequence = n]
    BY <1>8
  <2>1. x = [tenantId |-> t, sequence |-> n, actorId |-> a, metadata |-> d, previousHash |-> p, eventHash |-> hash]
    BY <1>2
  <2>2. n # s
    BY <1>2, <2>1
  <2>3. computeEventHash(n, t, a, d, p) = <<n, t, a, d, p>>
    BY StoredIsStable DEF computeEventHash, d
  <2>4. ContentAltered(x) <=> hash # computeEventHash(n, t, a, d, p)
    BY <2>1 DEF ContentAltered
  <2>5. n \in Nat \ {0}
    BY BoundAssumption
  <2> QED  BY <1>2, <1>3, <2>1, <2>2, <2>3, <2>4, <2>5
<1> QED  BY <1>5, <1>6, <1>7, <1>8 DEF AlteredRows

\* What is left after an alteration or a removal has its types.
LEMMA TamperTypes ==
    ASSUME TypeOK, UNCHANGED <<holder, pc, tx, begun>>,
           \A e \in rows' : e.tenantId \in Chains /\ e.sequence \in Nat \ {0},
           \A r \in Requests : tx[r].previousHash \in Hashes'
    PROVE  TypeOK'
<1>1. ASSUME NEW r \in Requests PROVE tx[r] \in TxRecords'
  <2>1. tx[r] \in TxRecords /\ tx[r].previousHash \in Hashes'
    BY DEF TypeOK
  <2> QED  BY <2>1 DEF TxRecords
<1>2. tx' \in [Requests -> TxRecords']
  BY <1>1 DEF TypeOK
<1> QED  BY <1>2 DEF TypeOK, InTx

\* An alteration leaves a row that does not hash to its content.
LEMMA AlterStep ==
    ASSUME TypeOK, Untouched, NEW e \in rows, Alter(e)
    PROVE  TypeOK' /\ \A t \in tampered' : Forged(t)'
<1> PICK x \in AlteredRows(e) \ {e} : rows' = (rows \ {e}) \union {x}
  BY DEF Alter
<1>1. /\ ContentAltered(x) /\ x.tenantId = e.tenantId /\ x.eventHash = e.eventHash
      /\ x.sequence \in Nat \ {0}
  BY AlterForges
<1>2. UNCHANGED <<holder, pc, tx, begun>> /\ tampered' = {e.tenantId}
  BY DEF Alter
<1>3. \A r \in Requests : tx[r].previousHash \in Hashes'
  <2>1. \A r \in Requests : tx[r].previousHash \in Hashes
    BY DEF TypeOK, TxRecords
  <2>2. Hashes \subseteq Hashes'
    BY <1>1 DEF Hashes
  <2> QED  BY <2>1, <2>2
<1>4. \A f \in rows' : f.tenantId \in Chains /\ f.sequence \in Nat \ {0}
  BY <1>1 DEF TypeOK
<1>5. TypeOK'
  BY <1>2, <1>3, <1>4, TamperTypes
<1>6. x \in rows' /\ ContentAltered(x)' /\ x.tenantId = e.tenantId
  BY <1>1 DEF ContentAltered
<1> QED  BY <1>2, <1>5, <1>6 DEF Forged, RowsOf

\* A removal leaves its successor without the event it links to, and what is in
\* progress follows the newest event, which is still there.
LEMMA RemoveStep ==
    ASSUME IInv, NothingRead, Untouched, Successors, NEW e \in rows, Remove(e)
    PROVE  TypeOK' /\ \A t \in tampered' : (\E g \in RowsOf(t) : Gap(g))'
<1>1. /\ rows' = rows \ {e} /\ tampered' = {e.tenantId} /\ UNCHANGED <<holder, pc, tx, begun>>
      /\ ~IsLast(e, RowsOf(e.tenantId))
  BY DEF Remove
<1>2. /\ TypeOK /\ ChainLinear /\ \A f \in rows : f.sequence \in Nat \ {0} /\ f.tenantId \in Chains
      /\ \A f \in RowsOf(e.tenantId) : f \in rows /\ f.tenantId = e.tenantId
  BY DEF IInv, TypeOK, RowsOf
<1>3. PICK g \in rows : /\ g.tenantId = e.tenantId /\ g.sequence = e.sequence + 1
                        /\ g.previousHash = e.eventHash
  <2>1. PICK f \in RowsOf(e.tenantId) : ~(f.sequence <= e.sequence)
    BY <1>1 DEF IsLast, RowsOf
  <2>2. f \in rows /\ f.tenantId = e.tenantId /\ e.sequence < f.sequence
    BY <1>2, <2>1
  <2> QED  BY <2>2 DEF Successors
<1>4. g # e /\ g \in rows'
  BY <1>1, <1>2, <1>3
\* Every transaction that has read follows an event other than e, beyond g.
<1>5. ASSUME NEW r \in Requests, pc[r] \in {"read", "inserted"}
      PROVE  /\ tx[r].previousHash \in Hashes'
             /\ tx[r].tenantId = e.tenantId => g.sequence < tx[r].sequence
  <2>1. Follows(tx[r].sequence, tx[r].previousHash, RowsOf(tx[r].tenantId))
    BY <1>5 DEF IInv, ReadIsLast
  <2>2. CASE RowsOf(tx[r].tenantId) = {} /\ tx[r].previousHash = NoHash
    BY <1>3, <2>2 DEF RowsOf, Hashes
  <2>3. ASSUME NEW last \in RowsOf(tx[r].tenantId), IsLast(last, RowsOf(tx[r].tenantId)),
               tx[r].sequence = last.sequence + 1, tx[r].previousHash = last.eventHash
        PROVE  /\ tx[r].previousHash \in Hashes'
               /\ tx[r].tenantId = e.tenantId => g.sequence < tx[r].sequence
    <3>1. last \in rows /\ last.tenantId = tx[r].tenantId
      BY DEF RowsOf
    <3>2. tx[r].tenantId = e.tenantId => g.sequence <= last.sequence
      BY <1>3, <2>3 DEF IsLast, RowsOf
    <3>3. last # e
      BY <1>2, <1>3, <3>1, <3>2
    <3>4. last \in rows'
      BY <1>1, <3>1, <3>3
    <3> QED  BY <1>2, <1>3, <2>3, <3>1, <3>2, <3>4 DEF Hashes
  <2> QED  BY <2>1, <2>2, <2>3 DEF Follows
<1>6. TypeOK'
  <2>1. \A r \in Requests : tx[r].previousHash \in Hashes'
    BY <1>5 DEF NothingRead, Hashes
  <2>2. \A f \in rows' : f.tenantId \in Chains /\ f.sequence \in Nat \ {0}
    BY <1>1, <1>2
  <2> QED  BY <1>1, <1>2, <2>1, <2>2, TamperTypes
<1> DEFINE left == {f \in rows' : f.tenantId = e.tenantId /\ f.sequence < g.sequence}
<1>7. \A f \in left : f.sequence < e.sequence /\ f \in rows /\ f.tenantId = e.tenantId
  <2>1. \A f \in rows : f.tenantId = e.tenantId /\ f.sequence = e.sequence => f = e
    BY DEF IInv, ChainLinear, RowsOf
  <2> QED  BY <1>1, <1>2, <1>3, <2>1
<1>8. PICK m \in Metadata : StoredRow(e, m)
  BY DEF Untouched
<1>9. e.eventHash # NoHash /\ \A f \in rows : f.eventHash = e.eventHash => f.sequence = e.sequence
  <2>1. \A f \in rows : f.eventHash[1] = f.sequence /\ f.eventHash # <<>>
    <3> SUFFICES ASSUME NEW f \in rows PROVE f.eventHash[1] = f.sequence /\ f.eventHash # <<>>
      OBVIOUS
    <3>1. PICK n \in Metadata : StoredRow(f, n)
      BY DEF Untouched
    <3>2. f.eventHash = <<f.sequence, f.tenantId, f.actorId, stableStringify(StoreJsonb(n)), f.previousHash>>
      BY <3>1 DEF StoredRow, computeEventHash
    <3> QED  BY <3>2
  <2> QED  BY <2>1 DEF NoHash
<1>10. \/ left = {} /\ g.previousHash # NoHash
       \/ \E f \in left : IsLast(f, left) /\ g.previousHash # f.eventHash
  <2>1. CASE e.sequence = 1
    BY <1>2, <1>3, <1>7, <1>9, <2>1
  <2>2. CASE e.sequence # 1
    <3>1. e.sequence > 1
      BY <1>2, <2>2
    <3>2. PICK p \in RowsOf(e.tenantId) : p.sequence = e.sequence - 1
      BY <3>1 DEF IInv, ChainLinear
    <3>3. p \in rows /\ p.tenantId = e.tenantId /\ p # e
      BY <1>2, <3>2
    <3>4. p \in left
      BY <1>1, <1>2, <1>3, <3>2, <3>3
    <3>5. IsLast(p, left)
      BY <1>2, <1>7, <3>2, <3>4 DEF IsLast
    <3>6. p.eventHash # e.eventHash
      BY <1>2, <1>9, <3>2, <3>3
    <3> QED  BY <1>3, <3>4, <3>5, <3>6
  <2> QED  BY <2>1, <2>2
<1>11. Before(g)' = left
  BY <1>3 DEF Before, RowsOf
<1> HIDE DEF left
<1>12. Gap(g)'
  BY <1>1, <1>3, <1>5, <1>10, <1>11 DEF Gap, IsLast
<1>13. g \in RowsOf(e.tenantId)'
  BY <1>3, <1>4 DEF RowsOf
<1> QED  BY <1>1, <1>6, <1>12, <1>13

\* An append adds a row beyond the broken link, and leaves the forged row there.
LEMMA DamageStays ==
    ASSUME TypeOK, [Next]_vars
    PROVE  /\ \A t : Forged(t) => Forged(t)'
           /\ \A g \in rows : Gap(g) => g \in rows' /\ Gap(g)'
<1>1. rows \subseteq rows'
  BY RowsOrCommit DEF Commit
<1>2. \A t : Forged(t) => Forged(t)'
  BY <1>1 DEF Forged, RowsOf, ContentAltered
<1>3. ASSUME NEW g \in rows, Gap(g)
      PROVE  Gap(g)'
  <2>1. g.sequence \in Nat /\ \A r \in Requests : tx[r].sequence \in Nat
    BY DEF TypeOK, TxRecords
  <2>2. Before(g)' = Before(g)
    <3>1. CASE rows' = rows
      BY <3>1 DEF Before, RowsOf
    <3>2. ASSUME NEW r \in Requests, Commit(r) PROVE Before(g)' = Before(g)
      <4> DEFINE n == EventOf(tx[r])
      <4>1. /\ rows' = rows \union {n} /\ pc[r] = "inserted"
            /\ n.tenantId = tx[r].tenantId /\ n.sequence = tx[r].sequence
        BY <3>2 DEF Commit, EventOf
      <4> HIDE DEF n
      <4>2. ~(n.tenantId = g.tenantId /\ n.sequence < g.sequence)
        BY <1>3, <2>1, <4>1 DEF Gap
      <4> QED  BY <4>1, <4>2 DEF Before, RowsOf
    <3> QED  BY <3>1, <3>2, RowsOrCommit
  <2>3. ASSUME NEW q \in Requests, pc'[q] \in {"read", "inserted"}, tx'[q].tenantId = g.tenantId
        PROVE  g.sequence < tx'[q].sequence
    <3>1. CASE tx'[q] = tx[q] /\ pc[q] \in {"read", "inserted"}
      BY <1>3, <2>3, <3>1 DEF Gap
    <3>2. ASSUME NEW r \in Requests, Begin(r) PROVE g.sequence < tx'[q].sequence
      BY <2>3, <3>1, <3>2 DEF Begin, TypeOK
    <3>3. ASSUME NEW r \in Requests, Lock(r) \/ Insert(r) PROVE g.sequence < tx'[q].sequence
      BY <2>3, <3>1, <3>3 DEF Lock, Insert, TypeOK
    <3>4. ASSUME NEW r \in Requests, ReadLast(r) PROVE g.sequence < tx'[q].sequence
      <4>1. CASE q = r
        <5>1. PICK n \in Nat \ {0}, h \in Hashes :
                 /\ tx' = [tx EXCEPT ![r] = Linked(tx[r], n, h)]
                 /\ Follows(n, h, RowsOf(tx[r].tenantId))
          BY <3>4, ReadLastLinks
        <5>2. tx'[r].sequence = n /\ tx'[r].tenantId = tx[r].tenantId
          BY <5>1 DEF TypeOK, TxRecords, Linked
        <5>3. g \in RowsOf(tx[r].tenantId)
          BY <2>3, <4>1, <5>2 DEF RowsOf
        <5>4. PICK last \in RowsOf(tx[r].tenantId) :
                 IsLast(last, RowsOf(tx[r].tenantId)) /\ n = last.sequence + 1
          BY <5>1, <5>3 DEF Follows
        <5>5. last.sequence \in Nat /\ g.sequence <= last.sequence
          BY <5>3, <5>4 DEF IsLast, RowsOf, TypeOK
        <5> QED  BY <2>1, <4>1, <5>2, <5>4, <5>5
      <4>2. CASE q # r
        BY <2>3, <3>1, <3>4, <4>2 DEF ReadLast, TypeOK
      <4> QED  BY <4>1, <4>2
    <3>5. ASSUME NEW r \in Requests, Commit(r) \/ Rollback(r) PROVE g.sequence < tx'[q].sequence
      BY <2>3, <3>1, <3>5 DEF Commit, Rollback, TypeOK
    <3>6. CASE UNCHANGED vars
      BY <2>3, <3>1, <3>6 DEF vars
    <3> QED  BY <3>2, <3>3, <3>4, <3>5, <3>6 DEF Next
  <2> QED  BY <1>3, <2>2, <2>3 DEF Gap, IsLast
<1> QED  BY <1>1, <1>2, <1>3

\* A broken link or a forged row fails the walk of verifyChain.
LEMMA DamageDetected ==
    ASSUME NEW t
    PROVE  Forged(t) \/ (\E g \in RowsOf(t) : Gap(g)) => ~VerifyIntact(t)
<1>1. Forged(t) => ~VerifyIntact(t)
  BY DEF Forged, VerifyIntact
<1>2. ASSUME NEW g \in RowsOf(t), Gap(g) PROVE ~VerifyIntact(t)
  <2>1. RowsOf(g.tenantId) = RowsOf(t) /\ Before(g) = {f \in RowsOf(t) : f.sequence < g.sequence}
    BY DEF RowsOf, Before
  <2>2. LinkBroken(g, RowsOf(t))
    BY <1>2, <2>1 DEF Gap, LinkBroken
  <2> QED  BY <2>2 DEF VerifyIntact
<1> QED  BY <1>1, <1>2

\* EvidenceService.verifyChain: once an event was altered, re-linked or renumbered, or
\* one before the newest was removed, the chain never verifies again, wherever the
\* tampering fell among the appends, as long as every metadata property has a value.
THEOREM TamperingIsDetected ==
    ASSUME EveryPropertyDefined
    PROVE  TSpec => []TamperDetected
<1>1. TInit => TamperInv
  BY InitIInv DEF TInit, TamperInv, Init, IInv, NothingRead, Untouched, Successors, NoTx
<1>2. TamperInv /\ [TNext]_tamperVars => TamperInv'
  <2> SUFFICES ASSUME TamperInv, [TNext]_tamperVars PROVE TamperInv'
    OBVIOUS
  <2>1. TypeOK /\ (tampered = {} => IInv /\ NothingRead /\ Untouched /\ Successors)
    BY DEF TamperInv
  <2>2. ASSUME [Next]_vars, tampered' = tampered PROVE TamperInv'
    <3>1. TypeOK'
      BY <2>1, <2>2, TypeStep
    <3>2. tampered = {} => IInv' /\ NothingRead' /\ Untouched' /\ Successors'
      BY <2>1, <2>2, TypeStep, LockHeldStep, ReadIsLastStep, ChainLinearStep, NothingReadStep,
         UntouchedStep, SuccessorsStep
      DEF IInv
    <3>3. ASSUME NEW t \in tampered PROVE (Forged(t) \/ \E g \in RowsOf(t) : Gap(g))'
      <4>1. CASE Forged(t)
        BY <2>1, <2>2, <4>1, DamageStays
      <4>2. ASSUME NEW g \in RowsOf(t), Gap(g) PROVE (\E f \in RowsOf(t) : Gap(f))'
        <5>1. g \in rows /\ g.tenantId = t
          BY DEF RowsOf
        <5>2. g \in rows' /\ Gap(g)'
          BY <2>1, <2>2, <4>2, <5>1, DamageStays
        <5> QED  BY <5>1, <5>2 DEF RowsOf
      <4> QED  BY <4>1, <4>2 DEF TamperInv
    <3> QED  BY <2>2, <3>1, <3>2, <3>3 DEF TamperInv
  <2>3. ASSUME NEW e \in rows, Alter(e) PROVE TamperInv'
    <3>1. tampered = {} /\ tampered' # {}
      BY <2>3 DEF Alter
    <3> QED  BY <2>1, <2>3, <3>1, AlterStep DEF TamperInv
  <2>4. ASSUME NEW e \in rows, Remove(e) PROVE TamperInv'
    <3>1. tampered = {} /\ tampered' # {}
      BY <2>4 DEF Remove
    <3> QED  BY <2>1, <2>4, <3>1, RemoveStep DEF TamperInv
  <2> QED  BY <2>2, <2>3, <2>4 DEF TNext, tamperVars, vars
<1>3. TamperInv => TamperDetected
  BY DamageDetected DEF TamperInv, TamperDetected
<1> QED  BY <1>1, <1>2, <1>3, PTL DEF TSpec
=============================================================================
