--------------------------- MODULE IntelligenceProofs ---------------------------
(***************************************************************************)
(* What holds of the agency feeds, of the registry and of the enrichment   *)
(* of signals for any number of entries, signals and requests, with proofs.*)
(***************************************************************************)
EXTENDS MCIntelligence, RequestsProofs, FiniteSetTheorems, WellFoundedInduction, TLAPS

(* The agency feeds. *)

\* Versions of an entry only grow: what the agency and the page hold is no newer than
\* the entry, and an update that was sent is no older.  A page that is not the last has
\* an entry to go on from.
VersionsGrow ==
    /\ \A e \in Entries :
          /\ seen[e] <= entry[e].updatedAt
          /\ update[e] # NoUpdate => entry[e].updatedAt <= update[e].updatedAt
    /\ poll.at = "queried" =>
          /\ poll.items \in [DOMAIN poll.items -> Nat] /\ DOMAIN poll.items \subseteq Entries
          /\ poll.cut \subseteq Entries
          /\ poll.hasMore => DOMAIN poll.items # {}
          /\ \A e \in DOMAIN poll.items : poll.items[e] <= entry[e].updatedAt /\ poll.items[e] <= poll.now

\* The page that was read holds every entry it should, or a late update or its end
\* keeps the entry out.
PageCovers ==
    poll.at = "queried" =>
        \A e \in Entries :
            entry[e].published /\ entry[e].updatedAt > cursor /\ entry[e].updatedAt <= poll.now =>
                \/ e \in missedBy.late
                \/ e \in DOMAIN poll.items /\ poll.items[e] = entry[e].updatedAt
                \/ /\ poll.hasMore
                   /\ \A f \in DOMAIN poll.items :
                         /\ poll.items[f] <= entry[e].updatedAt
                         /\ poll.items[f] = entry[e].updatedAt => e \in poll.cut

FeedInv ==
    /\ FeedsTypeOK /\ DOMAIN poll = {"at", "now", "items", "hasMore", "cut"}
    /\ VersionsGrow /\ PageCovers

\* A new feed: the agency and the page have nothing.
LEMMA InitFeeds == FeedsInit => FeedInv /\ FeedComplete
<1> SUFFICES ASSUME FeedsInit
             PROVE  FeedInv /\ FeedComplete
  OBVIOUS
<1>1. /\ clock = 1 /\ cursor = 0 /\ poll = NoPoll /\ missedBy = [late |-> {}, tied |-> {}]
      /\ entry = [e \in Entries |-> [published |-> FALSE, updatedAt |-> 0]]
      /\ update = [e \in Entries |-> NoUpdate] /\ seen = [e \in Entries |-> 0]
  BY DEF FeedsInit
<1>2. NoUpdate \in Versions /\ NoUpdate.updatedAt = 0 /\ [published |-> FALSE, updatedAt |-> 0] \in Versions
  BY DEF NoUpdate, Versions
<1>3. FeedsTypeOK
  BY <1>1, <1>2 DEF FeedsTypeOK, NoPoll
<1>4. VersionsGrow /\ PageCovers /\ FeedComplete /\ DOMAIN poll = {"at", "now", "items", "hasMore", "cut"}
  BY <1>1 DEF VersionsGrow, PageCovers, FeedComplete, NoPoll
<1> QED  BY <1>3, <1>4 DEF FeedInv

\* A page that leaves matching entries out is not empty (limit >= 1).
LEMMA PageNotEmpty ==
    ASSUME NEW rows \in SUBSET Entries, NEW page \in Page(rows, FALSE), page # rows
    PROVE  page # {}
<1>1. IsFiniteSet(rows)
  BY FeedAssumption, FS_Subset
<1>2. Cardinality(rows) \in Nat /\ (Cardinality(rows) = 0 <=> rows = {})
  BY <1>1, FS_CardinalityType, FS_EmptySet
<1>3. Cardinality(page) = IF Cardinality(rows) < PageSize THEN Cardinality(rows) ELSE PageSize
  BY DEF Page
<1>4. ASSUME page = {}
      PROVE  FALSE
  <2>1. Cardinality(page) = 0
    BY <1>4, FS_EmptySet
  <2> QED  BY <1>2, <1>3, <1>4, <2>1, FeedAssumption
<1> QED  BY <1>4

\* Each action keeps the types and the order of the versions, and what a page covers.
LEMMA FeedStep == FeedInv /\ [FeedsNext]_feedVars => FeedInv'
<1> SUFFICES ASSUME FeedInv, [FeedsNext]_feedVars
             PROVE  FeedInv'
  OBVIOUS
<1>0. /\ clock \in Nat /\ cursor \in 0..clock /\ poll.now \in 0..clock
      /\ entry \in [Entries -> Versions] /\ update \in [Entries -> Versions] /\ seen \in [Entries -> Nat]
      /\ missedBy \in [late : SUBSET Entries, tied : SUBSET Entries]
      /\ DOMAIN poll = {"at", "now", "items", "hasMore", "cut"}
      /\ \A e \in Entries : /\ entry[e].updatedAt \in Nat /\ update[e].updatedAt \in Nat
                            /\ entry[e].published \in BOOLEAN /\ update[e].published \in BOOLEAN
                            /\ entry[e].updatedAt <= clock /\ update[e].updatedAt <= clock
  BY DEF FeedInv, FeedsTypeOK, Versions
<1>1. CASE Clock
  <2>1. clock' = clock + 1 /\ UNCHANGED <<entry, update, updates, feed, poll, cursor, seen, missedBy>>
    BY <1>1 DEF Clock
  <2>2. FeedsTypeOK'
    BY <1>0, <2>1 DEF FeedInv, FeedsTypeOK
  <2> QED  BY <2>1, <2>2 DEF FeedInv, VersionsGrow, PageCovers
<1>2. ASSUME NEW e \in Entries, NEW p \in BOOLEAN, SendUpdate(e, p)
      PROVE  FeedInv'
  <2> DEFINE new == [published |-> p, updatedAt |-> clock]
  <2>1. new \in Versions /\ new.updatedAt = clock
    BY <1>0 DEF Versions
  <2>2. update' = [update EXCEPT ![e] = new]
        /\ UNCHANGED <<clock, entry, feed, poll, cursor, seen, missedBy>>
    BY <1>2 DEF SendUpdate
  <2> HIDE DEF new
  <2>3. \A f \in Entries : update'[f] = IF f = e THEN new ELSE update[f]
    BY <1>0, <2>2
  <2>4. FeedsTypeOK'
    BY <1>0, <2>1, <2>2, <2>3 DEF FeedInv, FeedsTypeOK
  <2>5. VersionsGrow'
    BY <1>0, <2>1, <2>2, <2>3 DEF FeedInv, VersionsGrow
  <2> QED  BY <2>2, <2>4, <2>5 DEF FeedInv, PageCovers
<1>3. ASSUME NEW e \in Entries, CommitUpdate(e)
      PROVE  FeedInv'
  <2>1. /\ update[e] # NoUpdate /\ entry' = [entry EXCEPT ![e] = update[e]]
        /\ update' = [update EXCEPT ![e] = NoUpdate]
        /\ UNCHANGED <<clock, updates, feed, poll, cursor, seen>>
    BY <1>3 DEF CommitUpdate
  <2>2. /\ missedBy'.late = IF Read(update[e].updatedAt) THEN missedBy.late \union {e} ELSE missedBy.late \ {e}
        /\ missedBy' \in [late : SUBSET Entries, tied : SUBSET Entries]
    BY <1>0, <1>3 DEF CommitUpdate
  <2>3. \A f \in Entries : /\ entry'[f] = IF f = e THEN update[e] ELSE entry[f]
                           /\ update'[f] = IF f = e THEN NoUpdate ELSE update[f]
    BY <1>0, <2>1
  <2>4. NoUpdate \in Versions /\ NoUpdate.updatedAt = 0
    BY DEF NoUpdate, Versions
  <2>5. entry' \in [Entries -> Versions] /\ update' \in [Entries -> Versions]
    BY <1>0, <2>1, <2>4
  <2>6. FeedsTypeOK'
    BY <1>0, <2>1, <2>2, <2>3, <2>4, <2>5 DEF FeedInv, FeedsTypeOK
  <2>7. entry[e].updatedAt <= update[e].updatedAt
    BY <2>1 DEF FeedInv, VersionsGrow
  <2>8. VersionsGrow'
    <3>1. \A f \in Entries : seen[f] <= entry'[f].updatedAt /\ entry[f].updatedAt <= entry'[f].updatedAt
      BY <1>0, <2>3, <2>7 DEF FeedInv, VersionsGrow
    <3>2. poll.at = "queried" =>
             \A f \in DOMAIN poll.items : poll.items[f] <= entry'[f].updatedAt /\ poll.items[f] <= poll.now
      BY <1>0, <2>5, <3>1 DEF FeedInv, VersionsGrow, Versions
    <3> QED  BY <2>1, <2>3, <3>1, <3>2 DEF FeedInv, VersionsGrow
  <2>9. PageCovers'
    <3> SUFFICES ASSUME poll.at = "queried", NEW f \in Entries, entry'[f].published,
                        entry'[f].updatedAt > cursor, entry'[f].updatedAt <= poll.now
                 PROVE  \/ f \in missedBy'.late
                        \/ f \in DOMAIN poll.items /\ poll.items[f] = entry'[f].updatedAt
                        \/ /\ poll.hasMore
                           /\ \A g \in DOMAIN poll.items :
                                 /\ poll.items[g] <= entry'[f].updatedAt
                                 /\ poll.items[g] = entry'[f].updatedAt => f \in poll.cut
      BY <2>1 DEF PageCovers
    <3>1. CASE f = e
      BY <2>2, <2>3, <3>1 DEF Read
    <3>2. CASE f # e
      <4>1. entry'[f] = entry[f] /\ (f \in missedBy.late => f \in missedBy'.late)
        BY <2>2, <2>3, <3>2
      <4> QED  BY <4>1 DEF FeedInv, PageCovers
    <3> QED  BY <3>1, <3>2
  <2> QED  BY <1>0, <2>1, <2>6, <2>8, <2>9 DEF FeedInv
<1>4. CASE revokeFeed
  <2>1. UNCHANGED <<clock, entry, update, updates, poll, cursor, seen, missedBy>>
    BY <1>4 DEF revokeFeed
  <2> QED  BY <2>1 DEF FeedInv, FeedsTypeOK, VersionsGrow, PageCovers
<1>5. CASE BeginConsume
  <2>1. /\ poll' = [NoPoll EXCEPT !.at = "begun", !.now = clock]
        /\ UNCHANGED <<clock, entry, update, updates, feed, cursor, seen, missedBy>>
    BY <1>5 DEF BeginConsume
  <2>2. poll'.at = "begun" /\ poll'.now = clock /\ DOMAIN poll' = {"at", "now", "items", "hasMore", "cut"}
    BY <2>1 DEF NoPoll
  <2>3. FeedsTypeOK'
    BY <1>0, <2>1, <2>2 DEF FeedInv, FeedsTypeOK
  <2> QED  BY <2>1, <2>2, <2>3 DEF FeedInv, VersionsGrow, PageCovers
<1>6. CASE QueryEntries
  <2>1. poll.at = "begun" /\ UNCHANGED <<clock, entry, update, updates, feed, cursor, seen, missedBy>>
    BY <1>6 DEF QueryEntries, Query
  <2> PICK page \in Page(Matching, FALSE) :
         poll' = [poll EXCEPT !.at = "queried", !.hasMore = page # Matching,
                              !.items = [e \in page |-> entry[e].updatedAt],
                              !.cut = {f \in Matching \ page :
                                         \E e \in page : entry[e].updatedAt = entry[f].updatedAt}]
    BY <1>6 DEF QueryEntries, Query
  <2>2. /\ poll'.at = "queried" /\ poll'.now = poll.now /\ (poll'.hasMore <=> page # Matching)
        /\ poll'.items = [e \in page |-> entry[e].updatedAt]
        /\ poll'.cut = {f \in Matching \ page : \E e \in page : entry[e].updatedAt = entry[f].updatedAt}
        /\ DOMAIN poll' = {"at", "now", "items", "hasMore", "cut"}
    BY <1>0
  <2>3. page \subseteq Matching /\ Matching \subseteq Entries
        /\ \A e \in page, f \in Matching \ page : entry[e].updatedAt <= entry[f].updatedAt
    BY DEF Page, Matching
  <2>4. FeedsTypeOK'
    BY <1>0, <2>1, <2>2 DEF FeedInv, FeedsTypeOK
  <2>5. VersionsGrow'
    <3>1. \A e \in page : entry[e].updatedAt \in Nat /\ entry[e].updatedAt <= poll.now
      BY <1>0, <2>3 DEF Matching
    <3>2. page # Matching => page # {}
      BY <2>3, PageNotEmpty
    <3> QED  BY <2>1, <2>2, <2>3, <3>1, <3>2 DEF FeedInv, VersionsGrow
  <2>6. PageCovers'
    <3> SUFFICES ASSUME NEW f \in Entries, entry[f].published, entry[f].updatedAt > cursor,
                        entry[f].updatedAt <= poll.now, f \notin page
                 PROVE  /\ page # Matching
                        /\ \A g \in page : /\ entry[g].updatedAt <= entry[f].updatedAt
                                           /\ entry[g].updatedAt = entry[f].updatedAt => f \in poll'.cut
      BY <2>1, <2>2 DEF PageCovers
    <3>1. f \in Matching \ page
      BY DEF Matching
    <3> QED  BY <2>2, <2>3, <3>1
  <2> QED  BY <2>2, <2>4, <2>5, <2>6 DEF FeedInv
<1>7. CASE Answer
  <2>1. /\ poll' = NoPoll /\ UNCHANGED <<clock, entry, update, updates>> /\ poll.at = "queried"
        /\ seen' = [e \in Entries |-> IF e \in DOMAIN poll.items /\ poll.items[e] > seen[e]
                                      THEN poll.items[e] ELSE seen[e]]
        /\ missedBy' = [missedBy EXCEPT !.tied = @ \union poll.cut]
    BY <1>7 DEF Answer
  <2>2. /\ poll.items \in [DOMAIN poll.items -> Nat] /\ poll.cut \subseteq Entries
        /\ \A e \in DOMAIN poll.items : poll.items[e] <= entry[e].updatedAt /\ poll.items[e] <= poll.now
        /\ DOMAIN poll.items \subseteq Entries
        /\ \A e \in Entries : seen[e] <= entry[e].updatedAt
    BY <2>1 DEF FeedInv, VersionsGrow
  <2>3. cursor' \in 0..clock
    BY <1>0, <1>7, <2>2 DEF Answer
  <2>4. seen' \in [Entries -> Nat] /\ \A e \in Entries : seen'[e] <= entry[e].updatedAt
    BY <1>0, <2>1, <2>2
  <2>5. missedBy' \in [late : SUBSET Entries, tied : SUBSET Entries]
    BY <1>0, <2>1, <2>2
  <2>6. poll'.at = "none" /\ poll'.now = 0 /\ DOMAIN poll' = {"at", "now", "items", "hasMore", "cut"}
    BY <2>1 DEF NoPoll
  <2>7. FeedsTypeOK'
    BY <1>0, <2>1, <2>3, <2>4, <2>5, <2>6 DEF FeedInv, FeedsTypeOK
  <2>8. VersionsGrow' /\ PageCovers'
    BY <2>1, <2>4, <2>6 DEF FeedInv, VersionsGrow, PageCovers
  <2> QED  BY <2>6, <2>7, <2>8 DEF FeedInv
<1>8. CASE LoseAnswer
  <2>1. poll' = NoPoll /\ UNCHANGED <<clock, entry, update, updates, feed, cursor, seen, missedBy>>
    BY <1>8 DEF LoseAnswer
  <2>2. poll'.at = "none" /\ poll'.now = 0 /\ DOMAIN poll' = {"at", "now", "items", "hasMore", "cut"}
    BY <2>1 DEF NoPoll
  <2>3. FeedsTypeOK'
    BY <1>0, <2>1, <2>2 DEF FeedInv, FeedsTypeOK
  <2> QED  BY <2>1, <2>2, <2>3 DEF FeedInv, VersionsGrow, PageCovers
<1>9. CASE UNCHANGED feedVars
  BY <1>9 DEF feedVars, FeedInv, FeedsTypeOK, VersionsGrow, PageCovers
<1> QED  BY <1>1, <1>2, <1>3, <1>4, <1>5, <1>6, <1>7, <1>8, <1>9 DEF FeedsNext

\* Nothing up to the cursor is missed, but for late updates and ties.
LEMMA CompleteStep == FeedInv /\ FeedComplete /\ [FeedsNext]_feedVars => FeedComplete'
<1> SUFFICES ASSUME FeedInv, FeedComplete, [FeedsNext]_feedVars,
                    NEW e \in Entries, entry'[e].published, entry'[e].updatedAt <= cursor'
             PROVE  seen'[e] = entry'[e].updatedAt \/ e \in missedBy'.late \union missedBy'.tied
  BY DEF FeedComplete
<1>0. /\ entry \in [Entries -> Versions] /\ update \in [Entries -> Versions]
      /\ missedBy \in [late : SUBSET Entries, tied : SUBSET Entries] /\ cursor \in Nat /\ poll.now \in Nat
      /\ seen \in [Entries -> Nat]
  BY DEF FeedInv, FeedsTypeOK
<1>1. CASE UNCHANGED <<entry, cursor, seen, missedBy>>
  BY <1>1 DEF FeedComplete
<1>2. ASSUME NEW f \in Entries, CommitUpdate(f)
      PROVE  seen'[e] = entry'[e].updatedAt \/ e \in missedBy'.late \union missedBy'.tied
  <2>1. /\ entry' = [entry EXCEPT ![f] = update[f]] /\ UNCHANGED <<cursor, seen>>
        /\ missedBy'.late = IF Read(update[f].updatedAt) THEN missedBy.late \union {f} ELSE missedBy.late \ {f}
        /\ missedBy'.tied = missedBy.tied \ {f}
    BY <1>0, <1>2 DEF CommitUpdate
  <2>2. CASE e = f
    <3>1. entry'[e] = update[f]
      BY <1>0, <2>1, <2>2
    <3> QED  BY <2>1, <2>2, <3>1 DEF Read
  <2>3. CASE e # f
    <3>1. entry'[e] = entry[e]
      BY <1>0, <2>1, <2>3
    <3> QED  BY <2>1, <2>3, <3>1 DEF FeedComplete
  <2> QED  BY <2>2, <2>3
<1>3. CASE Answer
  <2>1. /\ entry' = entry /\ poll.at = "queried"
        /\ seen'[e] = IF e \in DOMAIN poll.items /\ poll.items[e] > seen[e] THEN poll.items[e] ELSE seen[e]
        /\ missedBy'.late = missedBy.late /\ missedBy'.tied = missedBy.tied \union poll.cut
    BY <1>0, <1>3 DEF Answer
  <2>2. /\ seen[e] <= entry[e].updatedAt
        /\ e \in DOMAIN poll.items => poll.items[e] <= entry[e].updatedAt /\ poll.items[e] \in Nat
        /\ \A f \in DOMAIN poll.items : poll.items[f] \in Nat /\ poll.items[f] <= poll.now
        /\ entry[e].updatedAt \in Nat /\ seen[e] \in Nat
    <3>1. entry[e] \in Versions
      BY <1>0
    <3>2. entry[e].updatedAt \in Nat
      BY <3>1 DEF Versions
    <3> QED  BY <1>0, <2>1, <3>2 DEF FeedInv, VersionsGrow
  <2>3. CASE entry[e].updatedAt <= cursor
    <3>1. seen[e] = entry[e].updatedAt \/ e \in missedBy.late \union missedBy.tied
      BY <2>1, <2>3 DEF FeedComplete
    <3> QED  BY <2>1, <2>2, <3>1
  <2>4. CASE entry[e].updatedAt > cursor
    <3>1. \/ ~poll.hasMore /\ cursor' = poll.now
          \/ /\ poll.hasMore
             /\ \E last \in DOMAIN poll.items : cursor' = poll.items[last]
      BY <1>3 DEF Answer
    <3>2. entry[e].updatedAt <= poll.now
      BY <1>0, <2>1, <2>2, <3>1
    <3>3. \/ e \in missedBy.late
          \/ e \in DOMAIN poll.items /\ poll.items[e] = entry[e].updatedAt
          \/ /\ poll.hasMore
             /\ \A f \in DOMAIN poll.items :
                   /\ poll.items[f] <= entry[e].updatedAt
                   /\ poll.items[f] = entry[e].updatedAt => e \in poll.cut
      BY <2>1, <2>4, <3>2 DEF FeedInv, PageCovers
    <3>4. ASSUME poll.hasMore,
                 \A f \in DOMAIN poll.items : /\ poll.items[f] <= entry[e].updatedAt
                                              /\ poll.items[f] = entry[e].updatedAt => e \in poll.cut
          PROVE  e \in poll.cut
      <4> PICK last \in DOMAIN poll.items : cursor' = poll.items[last]
        BY <3>1, <3>4
      <4>1. poll.items[last] = entry[e].updatedAt
        BY <2>1, <2>2, <3>4
      <4> QED  BY <3>4, <4>1
    <3> QED  BY <2>1, <2>2, <3>3, <3>4
  <2> QED  BY <1>0, <2>2, <2>3, <2>4
<1> QED  BY <1>1, <1>2, <1>3 DEF FeedsNext, Clock, SendUpdate, revokeFeed, BeginConsume, QueryEntries,
         Query, LoseAnswer, feedVars

\* An agency that goes on from the cursor it was given has every published entry up to
\* it, whatever overlaps, but for the two it cannot have (AgencyFeedService.consumeFeed).
THEOREM FeedsAreComplete == FeedsSpec => []FeedComplete
BY InitFeeds, FeedStep, CompleteStep, PTL DEF FeedsSpec

-----------------------------------------------------------------------------
(* The registry. *)

\* Requests that are in progress together were noted.
MeetingsNoted ==
    \A v, w \in Staff : v # w /\ work[v] # Idle /\ work[w] # Idle =>
        {work[v].kind, work[w].kind} \in met

\* The entry a request works on, and how far it must have come: an entry with a decision
\* is a row, and one that was published or appealed has left the candidates for good.
Past == {"APPROVED_PUBLIC_SAFE", "PUBLISHED", "REJECTED"}
Advanced(e) == entries[e].status \in Past
Refers(r) ==
    /\ r.kind = "create" /\ r.at = "queue" => r.entry # 0 /\ entries[r.entry] # NoEntry
    /\ r.kind \in Decisions => entries[r.entry] # NoEntry
    /\ r.kind \in {"publish", "unpublish"} => Advanced(r.entry) /\ entries[r.entry].approvedAt
    /\ r.kind \in {"approve", "reject"} /\ r.at # "write" => Advanced(r.entry)
    /\ r.kind = "appeal" => Advanced(r.entry) /\ entries[r.entry].approvedAt
    /\ r.kind \in {"start", "decide"} => appeals[r.appeal] # NoAppeal

RegistryInv ==
    /\ RegistryTypeOK
    /\ \A w \in Staff : Refers(work[w])
    /\ \A a \in 1..AppealBound : appeals[a] # NoAppeal =>
          Advanced(appeals[a].entry) /\ entries[appeals[a].entry].approvedAt
    /\ \A e \in 1..EntryBound :
          /\ entries[e].status \in {"APPROVED_PUBLIC_SAFE", "PUBLISHED"} => entries[e].approvedAt
          /\ entries[e].status = "PUBLISHED" => entries[e].publishedAt

\* While no decision overlaps another request: a decision finds the entry as it was
\* checked, a takedown for an appeal too, and what was rejected stays so.
RefusalsStand ==
    Calm(Decisions) =>
        /\ \A e \in refused : entries[e].status = "REJECTED"
        /\ \A w \in Staff :
              /\ work[w].kind \in Decisions /\ work[w].at = "write" =>
                    entries[work[w].entry].status \in requireStatus(work[w].kind)
              /\ At(w, "decide", "takedown") =>
                    entries[appeals[work[w].appeal].entry].status \in {"PUBLISHED", "APPROVED_PUBLIC_SAFE"}

\* While no publication overlaps another request: an entry that an appeal took down, or
\* is about to have taken down, is not published and not about to be.
AppealsStand ==
    Calm({"publish"}) =>
        /\ \A e \in upheld : /\ entries[e].status # "PUBLISHED"
                             /\ \A w \in Staff : ~(At(w, "publish", "write") /\ work[w].entry = e)
        /\ \A w \in Staff : At(w, "decide", "record") /\ work[w].unpublish =>
              entries[appeals[work[w].appeal].entry].status # "PUBLISHED"

\* While creations and decisions of candidates overlap nothing and none failed: the queue
\* holds the candidates, but for the request that is about to add or to close the item.
QueueHolds ==
    Whole({"create", "approve", "reject"}) /\ Calm({"create", "approve", "reject"}) =>
        /\ \A e \in openItems : \/ entries[e].status = "CANDIDATE"
                                \/ \E w \in Staff : /\ At(w, "approve", "after") \/ At(w, "reject", "after")
                                                    /\ work[w].entry = e
        /\ \A e \in 1..EntryBound : entries[e].status = "CANDIDATE" =>
              e \in openItems \/ \E w \in Staff : At(w, "create", "queue") /\ work[w].entry = e
        /\ \A w \in Staff : At(w, "create", "queue") => entries[work[w].entry].status = "CANDIDATE"

\* While no publication overlaps another request: the one that is about to draft a
\* takedown found none.
DraftsApart ==
    Calm({"publish"}) =>
        /\ \A d1, d2 \in drafts : d1[1] = d2[1] /\ d1[2] = d2[2] => d1 = d2
        /\ \A w \in Staff : At(w, "publish", "draft") =>
              \A d \in drafts : ~(d[1] = work[w].entry /\ d[2] = Chosen(entries[work[w].entry].type))

\* The five kinds of records, and none.
LEMMA WorkKinds ==
    /\ \A r \in CreateWork : r.kind = "create" /\ r \in WorkRecords
    /\ \A r \in DecisionWork : r.kind \in Decisions /\ r \in WorkRecords
    /\ \A r \in FilingWork : r.kind = "appeal" /\ r \in WorkRecords
    /\ \A r \in StartWork : r.kind = "start" /\ r \in WorkRecords
    /\ \A r \in AppealWork : r.kind = "decide" /\ r \in WorkRecords
    /\ \A r \in WorkRecords : r # Idle
    /\ Idle.kind = "idle"
<1>1. /\ \A r \in CreateWork : r.kind = "create"
      /\ \A r \in DecisionWork : r.kind \in Decisions
      /\ \A r \in FilingWork : r.kind = "appeal"
      /\ \A r \in StartWork : r.kind = "start"
      /\ \A r \in AppealWork : r.kind = "decide"
  BY DEF CreateWork, DecisionWork, FilingWork, StartWork, AppealWork
<1>2. Idle.kind = "idle"
  BY DEF Idle
<1> QED  BY <1>1, <1>2 DEF WorkRecords, Decisions

\* The kind of a request says which record it is; another request does not move with it.
LEMMA WorkShape ==
    ASSUME RegistryTypeOK, NEW w \in Staff
    PROVE  /\ work[w] # Idle => work[w] \in WorkRecords
           /\ work[w].kind = "create" => work[w] \in CreateWork
           /\ work[w].kind \in Decisions => work[w] \in DecisionWork
           /\ work[w].kind = "appeal" => work[w] \in FilingWork
           /\ work[w].kind = "start" => work[w] \in StartWork
           /\ work[w].kind = "decide" => work[w] \in AppealWork
           /\ work[w].kind = "idle" => work[w] = Idle
           /\ \A r : work' = [work EXCEPT ![w] = r] =>
                 work'[w] = r /\ \A v \in Staff \ {w} : work'[v] = work[v]
<1>1. work \in [Staff -> WorkRecords \union {Idle}]
  BY DEF RegistryTypeOK
<1>2. CASE work[w] = Idle
  BY <1>1, <1>2 DEF Idle, Decisions
<1>3. CASE work[w] # Idle
  BY <1>1, <1>3, WorkKinds DEF WorkRecords, Decisions
<1> QED  BY <1>1, <1>2, <1>3

\* A row and what a decision makes of it.
LEMMA DecidedRow ==
    ASSUME NEW row \in EntryRows, NEW kind \in Decisions
    PROVE  /\ Decided(kind, row) \in EntryRows
           /\ Decided(kind, row).type = row.type
           /\ Decided(kind, row).status \in {"APPROVED_PUBLIC_SAFE", "PUBLISHED", "REJECTED"}
           /\ Decided(kind, row).status = "PUBLISHED" <=> kind = "publish"
           /\ Decided(kind, row).status = "REJECTED" <=> kind = "reject"
           /\ row.approvedAt => Decided(kind, row).approvedAt
           /\ kind = "approve" => Decided(kind, row).approvedAt
           /\ kind = "publish" => Decided(kind, row).publishedAt
  BY DEF Decided, EntryRows, Decisions

\* A row is none of the placeholders.
LEMMA RowsAreRows ==
    /\ \A row \in EntryRows : row # NoEntry /\ row.status # "none"
    /\ NoEntry.status = "none"
    /\ \A row \in AppealRows : row # NoAppeal /\ row.status # "none"
    /\ NoAppeal.status = "none"
  BY DEF EntryRows, NoEntry, AppealRows, NoAppeal

\* An empty registry.
LEMMA InitRegistry ==
    RegistryInit =>
        RegistryInv /\ MeetingsNoted /\ RefusalsStand /\ AppealsStand /\ QueueHolds /\ DraftsApart
<1> SUFFICES ASSUME RegistryInit
             PROVE  RegistryInv /\ MeetingsNoted /\ RefusalsStand /\ AppealsStand /\ QueueHolds /\ DraftsApart
  OBVIOUS
<1>1. /\ entries = [e \in 1..EntryBound |-> NoEntry] /\ appeals = [a \in 1..AppealBound |-> NoAppeal]
      /\ work = [w \in Staff |-> Idle] /\ verified = TRUE /\ taken = 0 /\ breaks = 0
      /\ openItems = {} /\ drafts = {} /\ upheld = {} /\ refused = {}
  BY DEF RegistryInit
<1>2. /\ \A w \in Staff : work[w] = Idle /\ work[w].kind = "idle"
      /\ \A e \in 1..EntryBound : entries[e] = NoEntry /\ entries[e].status = "none"
      /\ \A a \in 1..AppealBound : appeals[a] = NoAppeal
  BY <1>1, WorkKinds, RowsAreRows
<1>3. RegistryTypeOK
  <2>1. /\ entries \in [1..EntryBound -> EntryRows \union {NoEntry}]
        /\ appeals \in [1..AppealBound -> AppealRows \union {NoAppeal}]
        /\ work \in [Staff -> WorkRecords \union {Idle}]
    BY <1>1
  <2>2. 0 \in 0..RequestBound /\ 0 \in 0..BreakBound
    BY RegistryAssumption
  <2> QED  BY <1>1, <2>1, <2>2 DEF RegistryTypeOK
<1>4. RegistryInv
  BY <1>2, <1>3 DEF RegistryInv, Refers, Decisions
<1>5. MeetingsNoted
  BY <1>2 DEF MeetingsNoted
<1>6. RefusalsStand /\ AppealsStand /\ QueueHolds /\ DraftsApart
  BY <1>1, <1>2 DEF RefusalsStand, AppealsStand, QueueHolds, DraftsApart, At, Decisions
<1> QED  BY <1>4, <1>5, <1>6

\* A request begins with what it checked.
Begins(w, r) ==
    /\ r \in WorkRecords /\ work[w] = Idle /\ work' = [work EXCEPT ![w] = r]
    /\ r.kind = "create" => r.at = "write"
    /\ r.kind \in Decisions => r.at = "write" /\ entries[r.entry].status \in requireStatus(r.kind)
    /\ r.kind = "appeal" => entries[r.entry].status = "PUBLISHED"
    /\ r.kind \in {"start", "decide"} => appeals[r.appeal] # NoAppeal
    /\ r.kind = "decide" => r.at \in {"entry", "record"} /\ (r.at = "record" => ~r.unpublish)
    /\ upheld' = IF r.kind = "publish" THEN upheld \ {r.entry} ELSE upheld
    /\ met \subseteq met' /\ \A v \in Staff : work[v] # Idle => {r.kind, work[v].kind} \in met'
    /\ taken' \in 0..RequestBound
    /\ UNCHANGED <<verified, entries, openItems, appeals, drafts, breaks, torn, refused>>

\* A new request meets every one under way and writes nothing yet.
LEMMA BeginWorkFacts ==
    ASSUME RegistryTypeOK, NEW w \in Staff, NEW r, BeginWork(w, r)
    PROVE  /\ work[w] = Idle /\ work' = [work EXCEPT ![w] = r]
           /\ met \subseteq met' /\ \A v \in Staff : work[v] # Idle => {r.kind, work[v].kind} \in met'
           /\ taken' \in 0..RequestBound
           /\ UNCHANGED <<verified, entries, openItems, appeals, drafts, breaks, torn, refused>>
<1>1. taken \in 0..RequestBound /\ taken < RequestBound /\ taken' = taken + 1
  BY DEF RegistryTypeOK, BeginWork
<1>2. taken' \in 0..RequestBound
  BY <1>1, RegistryAssumption
<1> QED  BY <1>2 DEF BeginWork

\* A handler of the registry or of appeals begins with its checks passed.
LEMMA BeginFacts ==
    ASSUME RegistryTypeOK, NEW w \in Staff,
           \/ createCandidate(w) \/ \E kind \in Decisions : Decide(w, kind)
           \/ fileAppeal(w) \/ startReview(w) \/ decideAppeal(w)
    PROVE  \E r : Begins(w, r)
<1>0. /\ DOMAIN entries = 1..EntryBound /\ DOMAIN appeals = 1..AppealBound
  BY DEF RegistryTypeOK
<1>1. CASE createCandidate(w)
  <2> PICK t \in IndicatorTypes : BeginWork(w, [kind |-> "create", at |-> "write", entry |-> 0, type |-> t])
    BY <1>1 DEF createCandidate
  <2> DEFINE r == [kind |-> "create", at |-> "write", entry |-> 0, type |-> t]
  <2>1. r \in CreateWork /\ r.kind = "create" /\ r.at = "write" /\ BeginWork(w, r) /\ upheld' = upheld
    BY <1>1, RegistryAssumption DEF CreateWork, createCandidate
  <2> HIDE DEF r
  <2>2. Begins(w, r)
    BY <2>1, BeginWorkFacts, WorkKinds DEF Begins, Decisions
  <2> QED  BY <2>2
<1>2. ASSUME NEW kind \in Decisions, Decide(w, kind)
      PROVE  \E r : Begins(w, r)
  <2> PICK e \in 1..EntryBound :
         /\ entries[e].status \in requireStatus(kind)
         /\ BeginWork(w, [kind |-> kind, at |-> "write", entry |-> e])
         /\ upheld' = IF kind = "publish" THEN upheld \ {e} ELSE upheld
    BY <1>0, <1>2 DEF Decide
  <2> DEFINE r == [kind |-> kind, at |-> "write", entry |-> e]
  <2>1. r \in DecisionWork /\ r.kind = kind /\ r.at = "write" /\ r.entry = e /\ BeginWork(w, r)
    BY DEF DecisionWork
  <2> HIDE DEF r
  <2>2. Begins(w, r)
    BY <2>1, BeginWorkFacts, WorkKinds DEF Begins, Decisions
  <2> QED  BY <2>2
<1>3. CASE fileAppeal(w)
  <2> PICK e \in 1..EntryBound :
         /\ entries[e].status = "PUBLISHED"
         /\ BeginWork(w, [kind |-> "appeal", at |-> "write", entry |-> e])
    BY <1>0, <1>3 DEF fileAppeal
  <2> DEFINE r == [kind |-> "appeal", at |-> "write", entry |-> e]
  <2>1. r \in FilingWork /\ r.kind = "appeal" /\ r.entry = e /\ BeginWork(w, r) /\ upheld' = upheld
    BY <1>3 DEF FilingWork, fileAppeal
  <2> HIDE DEF r
  <2>2. Begins(w, r)
    BY <2>1, BeginWorkFacts, WorkKinds DEF Begins, Decisions
  <2> QED  BY <2>2
<1>4. CASE startReview(w)
  <2> PICK a \in 1..AppealBound :
         /\ appeals[a].status = "SUBMITTED"
         /\ BeginWork(w, [kind |-> "start", at |-> "write", appeal |-> a])
    BY <1>0, <1>4 DEF startReview
  <2> DEFINE r == [kind |-> "start", at |-> "write", appeal |-> a]
  <2>1. r \in StartWork /\ r.kind = "start" /\ r.appeal = a /\ BeginWork(w, r) /\ upheld' = upheld
    BY <1>4 DEF StartWork, startReview
  <2> HIDE DEF r
  <2>2. Begins(w, r)
    BY <2>1, BeginWorkFacts, WorkKinds, RowsAreRows DEF Begins, Decisions
  <2> QED  BY <2>2
<1>5. CASE decideAppeal(w)
  <2> PICK a \in 1..AppealBound, accepted \in BOOLEAN, unpublish \in BOOLEAN :
         /\ appeals[a].status \in {"SUBMITTED", "UNDER_REVIEW"}
         /\ BeginWork(w, [kind |-> "decide", appeal |-> a, accepted |-> accepted,
                          unpublish |-> accepted /\ unpublish,
                          at |-> IF accepted /\ unpublish THEN "entry" ELSE "record"])
    BY <1>0, <1>5 DEF decideAppeal
  <2> DEFINE both == accepted /\ unpublish
             at == IF accepted /\ unpublish THEN "entry" ELSE "record"
             r == [kind |-> "decide", appeal |-> a, accepted |-> accepted, unpublish |-> both, at |-> at]
  <2>0. both \in BOOLEAN /\ at \in {"entry", "record"} /\ (at = "record" => ~both)
    OBVIOUS
  <2>1. BeginWork(w, r) /\ upheld' = upheld
    BY <1>5 DEF decideAppeal
  <2> HIDE DEF both, at
  <2>2. r \in AppealWork /\ r.kind = "decide" /\ r.appeal = a /\ r.at = at /\ r.unpublish = both
    BY <2>0 DEF AppealWork
  <2> HIDE DEF r
  <2>3. Begins(w, r)
    BY <2>0, <2>1, <2>2, BeginWorkFacts, WorkKinds, RowsAreRows DEF Begins, Decisions
  <2> QED  BY <2>3
<1> QED  BY <1>1, <1>2, <1>3, <1>4, <1>5

\* A request goes on or ends without touching a row, or fails: a publication that looked
\* for drafts, an appeal's decision that read the entry.
GoesOn(w, r) ==
    /\ work[w] # Idle /\ work' = [work EXCEPT ![w] = r]
    /\ \/ r = Idle /\ (work[w].kind \in {"unpublish", "publish", "decide"} \/ work[w].kind \in torn')
       \/ /\ work[w] \in DecisionWork /\ work[w].kind = "publish"
          /\ r \in DecisionWork /\ r.kind = "publish" /\ r.at = "draft" /\ r.entry = work[w].entry
          /\ \A d \in drafts : ~(d[1] = r.entry /\ d[2] = Chosen(entries[r.entry].type))
       \/ /\ work[w] \in AppealWork /\ r \in AppealWork /\ r.kind = "decide"
          /\ r.appeal = work[w].appeal /\ r.unpublish = work[w].unpublish
          /\ r.at = "record" => entries[appeals[r.appeal].entry].status # "PUBLISHED"
          /\ r.at = "takedown" => entries[appeals[r.appeal].entry].status = "PUBLISHED"
    /\ torn \subseteq torn' /\ breaks' \in 0..BreakBound
    /\ UNCHANGED <<verified, entries, openItems, appeals, drafts, taken, met, upheld, refused>>

\* The steps of a request that change no entry, appeal or queue item.
LEMMA GoesOnFacts ==
    ASSUME RegistryTypeOK, NEW w \in Staff,
           FinishUnpublish(w) \/ tryAutomate(w) \/ ReadContested(w) \/ CheckContested(w) \/ FailWork(w)
    PROVE  \E r \in WorkRecords \union {Idle} : GoesOn(w, r)
<1>0. breaks \in 0..BreakBound
  BY DEF RegistryTypeOK
<1>1. CASE FinishUnpublish(w)
  <2>1. GoesOn(w, Idle)
    BY <1>0, <1>1, WorkKinds DEF FinishUnpublish, At, EndWork, GoesOn
  <2> QED  BY <2>1
<1>2. CASE tryAutomate(w)
  <2>1. /\ work[w].kind = "publish" /\ work[w] \in DecisionWork /\ work[w] # Idle
        /\ UNCHANGED <<verified, entries, openItems, appeals, drafts, taken, breaks, met, torn, upheld, refused>>
    BY <1>2, WorkShape, WorkKinds DEF tryAutomate, At, Decisions
  <2>2. CASE EndWork(w)
    <3>1. GoesOn(w, Idle)
      BY <1>0, <2>1, <2>2 DEF EndWork, GoesOn
    <3> QED  BY <3>1
  <2>3. CASE ~EndWork(w)
    <3> DEFINE r == [work[w] EXCEPT !.at = "draft"]
    <3>1. /\ work' = [work EXCEPT ![w] = r]
          /\ \A d \in drafts : ~(d[1] = work[w].entry /\ d[2] = Chosen(entries[work[w].entry].type))
      BY <1>2, <2>3 DEF tryAutomate, GoOn
    <3>2. r \in DecisionWork /\ r.kind = "publish" /\ r.at = "draft" /\ r.entry = work[w].entry
      BY <2>1 DEF DecisionWork, Decisions
    <3> HIDE DEF r
    <3>3. GoesOn(w, r) /\ r \in WorkRecords
      BY <1>0, <2>1, <3>1, <3>2, WorkKinds DEF GoesOn
    <3> QED  BY <3>3
  <2> QED  BY <2>2, <2>3
<1>3. ASSUME NEW at \in {"unpublish", "record", "takedown"}, At(w, "decide", "entry") \/ At(w, "decide", "unpublish"),
             at = "record" => entries[appeals[work[w].appeal].entry].status # "PUBLISHED",
             at = "takedown" => entries[appeals[work[w].appeal].entry].status = "PUBLISHED",
             GoOn(w, at),
             UNCHANGED <<verified, entries, openItems, appeals, drafts, taken, breaks, met, torn, upheld, refused>>
      PROVE  \E r \in WorkRecords : GoesOn(w, r)
  <2> DEFINE r == [work[w] EXCEPT !.at = at]
  <2>1. work[w] \in AppealWork /\ work[w] # Idle
    BY <1>3, WorkShape, WorkKinds DEF At
  <2>2. /\ r \in AppealWork /\ r.kind = "decide" /\ r.at = at /\ r.appeal = work[w].appeal
        /\ r.unpublish = work[w].unpublish
    BY <2>1 DEF AppealWork
  <2>3. work' = [work EXCEPT ![w] = r]
    BY <1>3 DEF GoOn
  <2> HIDE DEF r
  <2>4. GoesOn(w, r) /\ r \in WorkRecords
    BY <1>0, <1>3, <2>1, <2>2, <2>3, WorkKinds DEF GoesOn
  <2> QED  BY <2>4
<1>4. CASE ReadContested(w)
  BY <1>3, <1>4 DEF ReadContested
<1>5. CASE CheckContested(w)
  <2>1. CASE entries[appeals[work[w].appeal].entry].status = "PUBLISHED"
    BY <1>3, <1>5, <2>1 DEF CheckContested
  <2>2. CASE entries[appeals[work[w].appeal].entry].status # "PUBLISHED"
    <3>1. GoesOn(w, Idle)
      BY <1>0, <1>5, <2>2, WorkKinds DEF CheckContested, At, EndWork, GoesOn
    <3> QED  BY <3>1
  <2> QED  BY <2>1, <2>2
<1>6. CASE FailWork(w)
  <2>1. breaks' \in 0..BreakBound
    BY <1>0, <1>6, RegistryAssumption DEF FailWork
  <2>2. GoesOn(w, Idle)
    BY <1>6, <2>1 DEF FailWork, EndWork, GoesOn
  <2> QED  BY <2>2
<1> QED  BY <1>1, <1>2, <1>4, <1>5, <1>6

\* A new candidate: a row where there was none.
LEMMA CreateEntryFacts ==
    ASSUME RegistryInv, NEW w \in Staff, CreateEntry(w)
    PROVE  \E e \in 1..EntryBound, row \in EntryRows, r \in CreateWork :
              /\ work[w] \in CreateWork /\ work' = [work EXCEPT ![w] = r]
              /\ r.at = "queue" /\ r.entry = e /\ row.status = "CANDIDATE" /\ entries[e] = NoEntry
              /\ entries' = [entries EXCEPT ![e] = row]
              /\ UNCHANGED <<verified, openItems, appeals, drafts, taken, breaks, met, torn, upheld, refused>>
<1>1. work[w] \in CreateWork /\ DOMAIN entries = 1..EntryBound
  BY WorkShape DEF RegistryInv, CreateEntry, At, RegistryTypeOK
<1> PICK e \in 1..EntryBound :
       /\ entries[e] = NoEntry
       /\ entries' = [entries EXCEPT ![e] = [NoEntry EXCEPT !.status = "CANDIDATE", !.type = work[w].type]]
       /\ work' = [work EXCEPT ![w].at = "queue", ![w].entry = e]
  BY <1>1 DEF CreateEntry
<1> DEFINE row == [NoEntry EXCEPT !.status = "CANDIDATE", !.type = work[w].type]
           r == [work[w] EXCEPT !.at = "queue", !.entry = e]
<1>2. row \in EntryRows /\ row.status = "CANDIDATE"
  BY <1>1 DEF NoEntry, EntryRows, CreateWork
<1>3. r \in CreateWork /\ r.at = "queue" /\ r.entry = e
  <2>1. e \in 0..EntryBound
    BY RegistryAssumption
  <2> QED  BY <1>1, <2>1 DEF CreateWork
<1>4. entries' = [entries EXCEPT ![e] = row] /\ work' = [work EXCEPT ![w] = r]
      /\ UNCHANGED <<verified, openItems, appeals, drafts, taken, breaks, met, torn, upheld, refused>>
  BY DEF CreateEntry
<1> HIDE DEF row, r
<1> QED  BY <1>1, <1>2, <1>3, <1>4

\* A decision written over the row.
LEMMA WriteEntryFacts ==
    ASSUME RegistryInv, NEW w \in Staff, WriteEntry(w)
    PROVE  \E r \in DecisionWork, row \in EntryRows :
              /\ work[w] \in DecisionWork /\ work[w].at = "write" /\ work' = [work EXCEPT ![w] = r]
              /\ r.at = "after" /\ r.kind = work[w].kind /\ r.entry = work[w].entry
              /\ entries[r.entry] \in EntryRows /\ row = Decided(r.kind, entries[r.entry])
              /\ entries' = [entries EXCEPT ![r.entry] = row]
              /\ refused' = IF r.kind = "reject" THEN refused \union {r.entry} ELSE refused
              /\ UNCHANGED <<verified, openItems, appeals, drafts, taken, breaks, met, torn, upheld>>
<1>1. work[w] \in DecisionWork /\ work[w].at = "write" /\ work[w].kind \in Decisions
  BY WorkShape DEF RegistryInv, WriteEntry
<1>2. work[w].entry \in 1..EntryBound
  BY <1>1 DEF DecisionWork
<1>3. entries[work[w].entry] \in EntryRows
  BY <1>1, <1>2 DEF RegistryInv, RegistryTypeOK, Refers
<1> DEFINE r == [work[w] EXCEPT !.at = "after"]
           row == Decided(work[w].kind, entries[work[w].entry])
<1>4. r \in DecisionWork /\ r.at = "after" /\ r.kind = work[w].kind /\ r.entry = work[w].entry
  BY <1>1 DEF DecisionWork
<1>5. row \in EntryRows
  BY <1>1, <1>3, DecidedRow
<1>6. /\ entries' = [entries EXCEPT ![work[w].entry] = row] /\ work' = [work EXCEPT ![w] = r]
      /\ refused' = IF work[w].kind = "reject" THEN refused \union {work[w].entry} ELSE refused
      /\ UNCHANGED <<verified, openItems, appeals, drafts, taken, breaks, met, torn, upheld>>
  BY DEF WriteEntry, GoOn
<1>7. row = Decided(r.kind, entries[r.entry])
  BY <1>4
<1> HIDE DEF r, row
<1> QED  BY <1>1, <1>3, <1>4, <1>5, <1>6, <1>7

\* The takedown for an appeal, written over the row.
LEMMA UnpublishFacts ==
    ASSUME RegistryInv, NEW w \in Staff, UnpublishContested(w)
    PROVE  \E r \in AppealWork, e \in 1..EntryBound, row \in EntryRows :
              /\ work[w] \in AppealWork /\ work[w].at = "takedown" /\ work' = [work EXCEPT ![w] = r]
              /\ r.at = "record" /\ r.appeal = work[w].appeal /\ r.unpublish = work[w].unpublish
              /\ e = appeals[r.appeal].entry /\ Advanced(e) /\ entries[e].approvedAt
              /\ entries[e] \in EntryRows /\ row = Decided("unpublish", entries[e])
              /\ entries' = [entries EXCEPT ![e] = row]
              /\ UNCHANGED <<verified, openItems, appeals, drafts, taken, breaks, met, torn, upheld, refused>>
<1>1. work[w] \in AppealWork /\ work[w].at = "takedown" /\ work[w].kind = "decide"
  BY WorkShape DEF RegistryInv, UnpublishContested, At
<1>2. work[w].appeal \in 1..AppealBound /\ appeals[work[w].appeal] # NoAppeal
  BY <1>1 DEF AppealWork, RegistryInv, Refers
<1> DEFINE e == appeals[work[w].appeal].entry
           r == [work[w] EXCEPT !.at = "record"]
           row == Decided("unpublish", entries[e])
<1>3. e \in 1..EntryBound /\ Advanced(e) /\ entries[e].approvedAt
  <2>1. appeals[work[w].appeal] \in AppealRows
    BY <1>2 DEF RegistryInv, RegistryTypeOK
  <2> QED  BY <1>2, <2>1 DEF RegistryInv, AppealRows
<1>4. entries[e] \in EntryRows
  BY <1>3, RowsAreRows DEF RegistryInv, RegistryTypeOK, Advanced, Past
<1>5. row \in EntryRows
  BY <1>4, DecidedRow DEF Decisions
<1>6. r \in AppealWork /\ r.at = "record" /\ r.appeal = work[w].appeal /\ r.unpublish = work[w].unpublish
  BY <1>1 DEF AppealWork
<1>7. /\ entries' = [entries EXCEPT ![e] = row] /\ work' = [work EXCEPT ![w] = r]
      /\ UNCHANGED <<verified, openItems, appeals, drafts, taken, breaks, met, torn, upheld, refused>>
  BY DEF UnpublishContested, GoOn
<1>8. e = appeals[r.appeal].entry
  BY <1>6
<1>9. row = Decided("unpublish", entries[e])
  OBVIOUS
<1> HIDE DEF r, e, row
<1> QED  BY <1>1, <1>3, <1>4, <1>5, <1>6, <1>7, <1>8, <1>9

\* An appeal that is filed, taken up or decided.
LEMMA AppealFacts ==
    ASSUME RegistryInv, NEW w \in Staff, CreateAppeal(w) \/ WriteReview(w) \/ RecordDecision(w)
    PROVE  \E a \in 1..AppealBound, row \in AppealRows :
              /\ work[w] # Idle /\ work' = [work EXCEPT ![w] = Idle]
              /\ appeals' = [appeals EXCEPT ![a] = row]
              /\ Advanced(row.entry) /\ entries[row.entry].approvedAt
              /\ appeals[a] # NoAppeal => row.entry = appeals[a].entry
              /\ \/ upheld' = upheld
                 \/ /\ At(w, "decide", "record") /\ work[w].unpublish /\ a = work[w].appeal
                    /\ appeals[a] # NoAppeal
                    /\ upheld' = upheld \union {appeals[a].entry}
              /\ work[w].kind \in {"appeal", "start", "decide"}
              /\ UNCHANGED <<verified, entries, openItems, drafts, taken, breaks, met, torn, refused>>
<1>0. /\ appeals \in [1..AppealBound -> AppealRows \union {NoAppeal}]
      /\ \A a \in 1..AppealBound : appeals[a] # NoAppeal =>
            /\ appeals[a] \in AppealRows /\ appeals[a].entry \in 1..EntryBound
            /\ Advanced(appeals[a].entry) /\ entries[appeals[a].entry].approvedAt
      /\ Refers(work[w])
  BY DEF RegistryInv, RegistryTypeOK, AppealRows
<1>1. CASE CreateAppeal(w)
  <2>1. work[w] \in FilingWork /\ work[w].kind = "appeal" /\ work[w] # Idle
    BY <1>1, WorkShape, WorkKinds DEF RegistryInv, CreateAppeal, At
  <2>2. work[w].entry \in 1..EntryBound /\ Advanced(work[w].entry) /\ entries[work[w].entry].approvedAt
    BY <1>0, <2>1 DEF Refers, FilingWork
  <2> DEFINE row == [status |-> "SUBMITTED", entry |-> work[w].entry]
  <2> PICK a \in 1..AppealBound : appeals[a] = NoAppeal /\ appeals' = [appeals EXCEPT ![a] = row]
    BY <1>0, <1>1 DEF CreateAppeal
  <2>3. row \in AppealRows /\ row.entry = work[w].entry
    BY <2>2 DEF AppealRows
  <2>4. work' = [work EXCEPT ![w] = Idle]
        /\ UNCHANGED <<verified, entries, openItems, drafts, taken, breaks, met, torn, upheld, refused>>
    BY <1>1 DEF CreateAppeal, EndWork
  <2> HIDE DEF row
  <2> QED  BY <2>1, <2>2, <2>3, <2>4
<1>2. CASE WriteReview(w)
  <2> DEFINE a == work[w].appeal
             row == [appeals[a] EXCEPT !.status = "UNDER_REVIEW"]
  <2>1. work[w] \in StartWork /\ work[w].kind = "start" /\ work[w] # Idle
    BY <1>2, WorkShape, WorkKinds DEF RegistryInv, WriteReview, At
  <2>2. a \in 1..AppealBound /\ appeals[a] # NoAppeal
    BY <1>0, <2>1 DEF Refers, StartWork
  <2>3. row \in AppealRows /\ row.entry = appeals[a].entry
    BY <1>0, <2>2 DEF AppealRows
  <2>4. appeals' = [appeals EXCEPT ![a] = row] /\ work' = [work EXCEPT ![w] = Idle]
        /\ UNCHANGED <<verified, entries, openItems, drafts, taken, breaks, met, torn, upheld, refused>>
    BY <1>2 DEF WriteReview, EndWork
  <2> HIDE DEF row, a
  <2> QED  BY <1>0, <2>1, <2>2, <2>3, <2>4
<1>3. CASE RecordDecision(w)
  <2> DEFINE a == work[w].appeal
             status == IF work[w].accepted THEN "ACCEPTED" ELSE "REJECTED"
             row == [appeals[a] EXCEPT !.status = status]
  <2>1. work[w] \in AppealWork /\ work[w].kind = "decide" /\ work[w] # Idle /\ At(w, "decide", "record")
    BY <1>3, WorkShape, WorkKinds DEF RegistryInv, RecordDecision, At
  <2>2. a \in 1..AppealBound /\ appeals[a] # NoAppeal
    BY <1>0, <2>1 DEF Refers, AppealWork
  <2>3. row \in AppealRows /\ row.entry = appeals[a].entry
    BY <1>0, <2>2 DEF AppealRows
  <2>4. work' = [work EXCEPT ![w] = Idle]
        /\ UNCHANGED <<verified, entries, openItems, drafts, taken, breaks, met, torn, refused>>
    BY <1>3 DEF RecordDecision, EndWork
  <2>6. appeals' = [appeals EXCEPT ![a] = row]
    BY <1>3 DEF RecordDecision
  <2>7. upheld' = upheld \/ (work[w].unpublish /\ upheld' = upheld \union {appeals[a].entry})
    BY <1>3 DEF RecordDecision
  <2>5. a = work[w].appeal
    OBVIOUS
  <2> HIDE DEF row, a
  <2>8. Advanced(row.entry) /\ entries[row.entry].approvedAt
    BY <1>0, <2>2, <2>3
  <2> QED  BY <2>1, <2>2, <2>3, <2>4, <2>5, <2>6, <2>7, <2>8
<1> QED  BY <1>1, <1>2, <1>3

\* The queue and the drafts: the request ends.
LEMMA ClosingFacts ==
    ASSUME RegistryInv, NEW w \in Staff, QueueCandidate(w) \/ markQueueComplete(w) \/ DraftTakedown(w)
    PROVE  /\ work[w] # Idle /\ work' = [work EXCEPT ![w] = Idle]
           /\ work[w].entry \in 1..EntryBound
           /\ \/ /\ At(w, "create", "queue") /\ openItems' = openItems \union {work[w].entry}
                 /\ drafts' = drafts
              \/ /\ At(w, "approve", "after") \/ At(w, "reject", "after")
                 /\ openItems' = openItems \ {work[w].entry} /\ drafts' = drafts
                 /\ Advanced(work[w].entry)
              \/ /\ At(w, "publish", "draft") /\ openItems' = openItems
                 /\ \E n : drafts' = drafts \union {<<work[w].entry, Chosen(entries[work[w].entry].type), n>>}
           /\ UNCHANGED <<verified, entries, appeals, taken, breaks, met, torn, upheld, refused>>
<1>1. Refers(work[w]) /\ RegistryTypeOK
  BY DEF RegistryInv
<1>2. CASE QueueCandidate(w)
  <2>1. work[w] \in CreateWork /\ work[w].kind = "create" /\ work[w].at = "queue"
    BY <1>1, <1>2, WorkShape DEF QueueCandidate, At
  <2>2. work[w].entry \in 1..EntryBound
    BY <1>1, <2>1, RegistryAssumption DEF Refers, CreateWork
  <2> QED  BY <1>2, <2>1, <2>2, WorkKinds DEF QueueCandidate, EndWork
<1>3. CASE markQueueComplete(w)
  <2>1. work[w] \in DecisionWork /\ work[w].kind \in {"approve", "reject"} /\ work[w].at = "after"
    BY <1>1, <1>3, WorkShape DEF markQueueComplete, At, Decisions
  <2>2. work[w].entry \in 1..EntryBound /\ Advanced(work[w].entry)
    BY <1>1, <2>1 DEF Refers, DecisionWork
  <2> QED  BY <1>3, <2>1, <2>2, WorkKinds DEF markQueueComplete, EndWork
<1>4. CASE DraftTakedown(w)
  <2>1. work[w] \in DecisionWork
    BY <1>1, <1>4, WorkShape DEF DraftTakedown, At, Decisions
  <2>2. work[w].entry \in 1..EntryBound
    BY <2>1 DEF DecisionWork
  <2> QED  BY <1>4, <2>1, <2>2, WorkKinds DEF DraftTakedown, EndWork
<1> QED  BY <1>2, <1>3, <1>4

\* One request moves; the rows stay, decided ones decided, approved ones approved.
LEMMA RegistryKept ==
    ASSUME RegistryInv, NEW w \in Staff, NEW r \in WorkRecords \union {Idle}, work' = [work EXCEPT ![w] = r],
           RegistryTypeOK' , Refers(r)',
           \A e \in 1..EntryBound :
              /\ entries[e] # NoEntry => entries'[e] # NoEntry
              /\ Advanced(e) => entries'[e].status \in Past
              /\ entries[e].approvedAt => entries'[e].approvedAt
              /\ entries'[e].status \in {"APPROVED_PUBLIC_SAFE", "PUBLISHED"} => entries'[e].approvedAt
              /\ entries'[e].status = "PUBLISHED" => entries'[e].publishedAt,
           \A a \in 1..AppealBound :
              /\ appeals[a] # NoAppeal => appeals'[a] # NoAppeal
              /\ appeals'[a] # NoAppeal =>
                    \/ appeals[a] # NoAppeal /\ appeals'[a].entry = appeals[a].entry
                    \/ /\ entries'[appeals'[a].entry].status \in Past
                       /\ entries'[appeals'[a].entry].approvedAt
    PROVE  RegistryInv'
<1>1. work'[w] = r /\ \A v \in Staff \ {w} : work'[v] = work[v]
  BY WorkShape DEF RegistryInv
<1>2. \A v \in Staff \ {w} : Refers(work[v]) /\ work[v] \in WorkRecords \union {Idle}
  BY DEF RegistryInv, RegistryTypeOK
<1>3. ASSUME NEW v \in Staff \ {w}, NEW x, x = work'[v]
      PROVE  Refers(x)'
  <2>0. work'[v] = work[v] /\ Refers(work[v])
    BY <1>1, <1>2
  <2>1. work[v] \in CreateWork => work[v].entry \in 0..EntryBound
    BY DEF CreateWork
  <2>2. work[v] \in DecisionWork \union FilingWork => work[v].entry \in 1..EntryBound
    BY DEF DecisionWork, FilingWork
  <2>3. work[v] \in StartWork \union AppealWork => work[v].appeal \in 1..AppealBound
    BY DEF StartWork, AppealWork
  <2>4. /\ work[v].kind = "create" => work[v].entry \in 0..EntryBound
        /\ work[v].kind \in Decisions \union {"appeal"} => work[v].entry \in 1..EntryBound
        /\ work[v].kind \in {"start", "decide"} => work[v].appeal \in 1..AppealBound
    BY <2>1, <2>2, <2>3, WorkShape DEF RegistryInv
  <2>5. work[v].entry \in 0..EntryBound /\ work[v].entry # 0 => work[v].entry \in 1..EntryBound
    BY RegistryAssumption
  <2>6. /\ work[v].kind = "create" /\ work[v].at = "queue" =>
              work[v].entry # 0 /\ entries'[work[v].entry] # NoEntry
        /\ work[v].kind \in Decisions => entries'[work[v].entry] # NoEntry
        /\ work[v].kind \in {"publish", "unpublish"} =>
              Advanced(work[v].entry) /\ entries[work[v].entry].approvedAt
        /\ work[v].kind \in {"approve", "reject"} /\ work[v].at # "write" => Advanced(work[v].entry)
        /\ work[v].kind = "appeal" => Advanced(work[v].entry) /\ entries[work[v].entry].approvedAt
        /\ work[v].kind \in {"start", "decide"} => appeals'[work[v].appeal] # NoAppeal
    BY <2>0, <2>4, <2>5 DEF Refers
  <2>7. \A e \in 1..EntryBound : /\ Advanced(e) => Advanced(e)'
                                 /\ entries[e].approvedAt => entries'[e].approvedAt
    BY DEF Advanced
  <2>8. /\ work[v].kind \in {"publish", "unpublish", "approve", "reject", "appeal"} =>
              work[v].entry \in 1..EntryBound
    BY <2>4 DEF Decisions
  <2> QED  BY <1>3, <2>0, <2>6, <2>7, <2>8 DEF Refers, Advanced
<1>4. \A v \in Staff : \A x : x = work'[v] => Refers(x)'
  BY <1>1, <1>3
<1>5. ASSUME NEW a \in 1..AppealBound, appeals'[a] # NoAppeal
      PROVE  /\ entries'[appeals'[a].entry].status \in Past
             /\ entries'[appeals'[a].entry].approvedAt
  <2>1. CASE appeals[a] # NoAppeal /\ appeals'[a].entry = appeals[a].entry
    <3>1. appeals[a] \in AppealRows
      BY <2>1 DEF RegistryInv, RegistryTypeOK
    <3>2. appeals[a].entry \in 1..EntryBound /\ Advanced(appeals[a].entry)
          /\ entries[appeals[a].entry].approvedAt
      BY <2>1, <3>1 DEF RegistryInv, AppealRows
    <3> QED  BY <2>1, <3>2
  <2> QED  BY <1>5, <2>1 DEF Advanced
<1> QED  BY <1>4, <1>5 DEF RegistryInv, Refers, Advanced

\* A request that begins was noted with those it overlaps; one that goes on was.
LEMMA MeetingsKept ==
    ASSUME RegistryTypeOK, MeetingsNoted, NEW w \in Staff, NEW r, work' = [work EXCEPT ![w] = r],
           met \subseteq met',
           r # Idle => \/ work[w] # Idle /\ r.kind = work[w].kind
                       \/ \A v \in Staff : work[v] # Idle => {r.kind, work[v].kind} \in met'
    PROVE  MeetingsNoted'
<1>1. work'[w] = r /\ \A v \in Staff \ {w} : work'[v] = work[v]
  BY WorkShape
<1> SUFFICES ASSUME NEW a \in Staff, NEW b \in Staff, a # b, work'[a] # Idle, work'[b] # Idle
             PROVE  {work'[a].kind, work'[b].kind} \in met'
  BY DEF MeetingsNoted
<1>2. \A x, y : {x, y} = {y, x}
  OBVIOUS
<1>3. CASE a # w /\ b # w
  BY <1>1, <1>3 DEF MeetingsNoted
<1>4. ASSUME NEW v \in Staff, v # w, r # Idle, work[v] # Idle
      PROVE  {r.kind, work[v].kind} \in met'
  BY <1>4 DEF MeetingsNoted
<1>5. CASE a = w
  BY <1>1, <1>4, <1>5
<1>6. CASE b = w
  <2>1. {work'[b].kind, work'[a].kind} \in met'
    BY <1>1, <1>4, <1>6
  <2> QED  BY <1>2, <2>1
<1> QED  BY <1>3, <1>5, <1>6

\* A request that is in progress beside another: the kinds of both were noted.
LEMMA Meeting ==
    ASSUME MeetingsNoted, NEW v \in Staff, NEW w \in Staff, v # w, work[v] # Idle, work[w] # Idle,
           NEW kinds, work[v].kind \in kinds
    PROVE  ~Calm(kinds)
<1>1. {work[v].kind, work[w].kind} \in met
  BY DEF MeetingsNoted
<1>2. work[v].kind \in {work[v].kind, work[w].kind} \intersect kinds
  OBVIOUS
<1> QED  BY <1>1, <1>2 DEF Calm

\* Each action keeps the types, the references and the stamps, and notes the overlaps.
LEMMA RegistryStep ==
    RegistryInv /\ MeetingsNoted /\ [RegistryNext]_registryVars => RegistryInv' /\ MeetingsNoted'
<1> SUFFICES ASSUME RegistryInv, MeetingsNoted, [RegistryNext]_registryVars
             PROVE  RegistryInv' /\ MeetingsNoted'
  OBVIOUS
<1>0. /\ RegistryTypeOK
      /\ \A e \in 1..EntryBound :
            /\ entries[e].status \in {"APPROVED_PUBLIC_SAFE", "PUBLISHED"} => entries[e].approvedAt
            /\ entries[e].status = "PUBLISHED" => entries[e].publishedAt
      /\ \A a \in 1..AppealBound : appeals[a] # NoAppeal =>
            Advanced(appeals[a].entry) /\ entries[appeals[a].entry].approvedAt
  BY DEF RegistryInv
<1>i. /\ \A x : UNCHANGED <<entries, appeals>> => (Refers(x)' <=> Refers(x))
      /\ Refers(Idle)'
  BY WorkKinds DEF Refers, Advanced, Decisions
<1>1. ASSUME NEW w \in Staff,
             \/ createCandidate(w) \/ \E kind \in Decisions : Decide(w, kind)
             \/ fileAppeal(w) \/ startReview(w) \/ decideAppeal(w)
      PROVE  RegistryInv' /\ MeetingsNoted'
  <2> PICK r : Begins(w, r)
    BY <1>0, <1>1, BeginFacts
  <2>1. /\ r \in WorkRecords /\ work[w] = Idle /\ work' = [work EXCEPT ![w] = r]
        /\ met \subseteq met' /\ \A v \in Staff : work[v] # Idle => {r.kind, work[v].kind} \in met'
        /\ taken' \in 0..RequestBound /\ upheld' \subseteq upheld
        /\ UNCHANGED <<verified, entries, openItems, appeals, drafts, breaks, torn, refused>>
    BY DEF Begins
  <2>2. RegistryTypeOK'
    BY <1>0, <2>1 DEF RegistryTypeOK
  <2>3. Refers(r)
    <3>1. r.kind \in Decisions =>
             /\ entries[r.entry] # NoEntry
             /\ r.kind \in {"publish", "unpublish"} =>
                   Advanced(r.entry) /\ entries[r.entry].approvedAt
      <4> SUFFICES ASSUME r.kind \in Decisions
                   PROVE  /\ entries[r.entry] # NoEntry
                          /\ r.kind \in {"publish", "unpublish"} =>
                                Advanced(r.entry) /\ entries[r.entry].approvedAt
        OBVIOUS
      <4>1. r \in DecisionWork
        BY <2>1, WorkKinds DEF WorkRecords, Decisions
      <4>2. r.entry \in 1..EntryBound /\ entries[r.entry].status \in requireStatus(r.kind)
        BY <4>1 DEF Begins, DecisionWork
      <4>3. /\ requireStatus(r.kind) \subseteq {"CANDIDATE", "UNDER_REVIEW", "APPROVED_PUBLIC_SAFE", "PUBLISHED"}
            /\ r.kind \in {"publish", "unpublish"} =>
                  requireStatus(r.kind) \subseteq {"APPROVED_PUBLIC_SAFE", "PUBLISHED"}
        BY DEF requireStatus, Decisions
      <4> QED  BY <1>0, <4>2, <4>3, RowsAreRows DEF Advanced, Past
    <3>2. r.kind = "appeal" => Advanced(r.entry) /\ entries[r.entry].approvedAt
      <4>1. r.kind = "appeal" => r \in FilingWork
        BY <2>1, WorkKinds DEF WorkRecords, Decisions
      <4>2. r.kind = "appeal" => r.entry \in 1..EntryBound /\ entries[r.entry].status = "PUBLISHED"
        BY <4>1 DEF Begins, FilingWork
      <4> QED  BY <1>0, <4>2 DEF Advanced, Past
    <3> QED  BY <3>1, <3>2 DEF Refers, Begins, Decisions
  <2>4. Refers(r)'
    BY <1>i, <2>1, <2>3
  <2>5. RegistryInv'
    BY <1>0, <2>1, <2>2, <2>4, RegistryKept DEF Advanced
  <2> QED  BY <1>0, <2>1, <2>5, MeetingsKept
<1>2. ASSUME NEW w \in Staff,
             FinishUnpublish(w) \/ tryAutomate(w) \/ ReadContested(w) \/ CheckContested(w) \/ FailWork(w)
      PROVE  RegistryInv' /\ MeetingsNoted'
  <2> PICK r \in WorkRecords \union {Idle} : GoesOn(w, r)
    BY <1>0, <1>2, GoesOnFacts
  <2>1. /\ work[w] # Idle /\ work' = [work EXCEPT ![w] = r] /\ breaks' \in 0..BreakBound
        /\ UNCHANGED <<verified, entries, openItems, appeals, drafts, taken, met, upheld, refused>>
    BY DEF GoesOn
  <2>2. RegistryTypeOK'
    BY <1>0, <2>1 DEF RegistryTypeOK
  <2>3. Refers(r) /\ (r = Idle \/ r.kind = work[w].kind)
    <3>1. Refers(work[w])
      BY DEF RegistryInv
    <3>2. work[w] \in AppealWork => work[w].kind = "decide"
      BY WorkKinds
    <3>3. CASE r = Idle
      BY <3>3, WorkKinds DEF Refers, Decisions
    <3>4. CASE r # Idle
      BY <3>1, <3>2, <3>4 DEF GoesOn, Refers, Decisions
    <3> QED  BY <3>3, <3>4
  <2>4. Refers(r)'
    BY <1>i, <2>1, <2>3
  <2>5. RegistryInv'
    BY <1>0, <2>1, <2>2, <2>4, RegistryKept DEF Advanced
  <2> QED  BY <1>0, <2>1, <2>3, <2>5, MeetingsKept
<1>3. ASSUME NEW w \in Staff, CreateEntry(w)
      PROVE  RegistryInv' /\ MeetingsNoted'
  <2> PICK e \in 1..EntryBound, row \in EntryRows, r \in CreateWork :
         /\ work[w] \in CreateWork /\ work' = [work EXCEPT ![w] = r]
         /\ r.at = "queue" /\ r.entry = e /\ row.status = "CANDIDATE" /\ entries[e] = NoEntry
         /\ entries' = [entries EXCEPT ![e] = row]
         /\ UNCHANGED <<verified, openItems, appeals, drafts, taken, breaks, met, torn, upheld, refused>>
    BY <1>3, CreateEntryFacts
  <2>1. \A f \in 1..EntryBound : entries'[f] = IF f = e THEN row ELSE entries[f]
    BY <1>0 DEF RegistryTypeOK
  <2>2. RegistryTypeOK'
    <3>1. r \in WorkRecords
      BY WorkKinds
    <3>2. /\ entries' \in [1..EntryBound -> EntryRows \union {NoEntry}]
          /\ work' \in [Staff -> WorkRecords \union {Idle}]
      BY <1>0, <3>1 DEF RegistryTypeOK
    <3> QED  BY <1>0, <3>2 DEF RegistryTypeOK
  <2>3. Refers(r)'
    <3>1. r.kind = "create" /\ entries'[e] # NoEntry /\ e # 0
      BY <2>1, WorkKinds, RowsAreRows
    <3> QED  BY <3>1 DEF Refers, Decisions
  <2>4. RegistryInv'
    <3>1. ~Advanced(e) /\ ~entries[e].approvedAt
      BY DEF Advanced, Past, NoEntry
    <3>2. row # NoEntry /\ row.status \notin {"APPROVED_PUBLIC_SAFE", "PUBLISHED"}
      BY RowsAreRows
    <3>3. \A f \in 1..EntryBound :
             /\ entries[f] # NoEntry => entries'[f] # NoEntry
             /\ Advanced(f) => entries'[f].status \in Past
             /\ entries[f].approvedAt => entries'[f].approvedAt
             /\ entries'[f].status \in {"APPROVED_PUBLIC_SAFE", "PUBLISHED"} => entries'[f].approvedAt
             /\ entries'[f].status = "PUBLISHED" => entries'[f].publishedAt
      BY <1>0, <2>1, <3>1, <3>2 DEF Advanced
    <3>4. \A a \in 1..AppealBound :
             /\ appeals[a] # NoAppeal => appeals'[a] # NoAppeal
             /\ appeals'[a] # NoAppeal =>
                   \/ appeals[a] # NoAppeal /\ appeals'[a].entry = appeals[a].entry
                   \/ /\ entries'[appeals'[a].entry].status \in Past
                      /\ entries'[appeals'[a].entry].approvedAt
      OBVIOUS
    <3>5. r \in WorkRecords \union {Idle}
      BY WorkKinds
    <3> QED  BY <2>2, <2>3, <3>3, <3>4, <3>5, RegistryKept
  <2> QED  BY <1>0, <2>4, MeetingsKept, WorkKinds
<1>4. ASSUME NEW w \in Staff, NEW r \in WorkRecords, NEW f \in 1..EntryBound, NEW kind \in Decisions, NEW row,
             work' = [work EXCEPT ![w] = r], r.kind = work[w].kind, work[w] # Idle, Refers(work[w]),
             entries[f] \in EntryRows, row = Decided(kind, entries[f]),
             entries' = [entries EXCEPT ![f] = row],
             r.kind \in Decisions => r.entry = f /\ r.kind = kind,
             r.kind \in {"decide", "start"} => appeals[r.appeal] # NoAppeal,
             r.kind \in Decisions \union {"decide"},
             kind \in {"publish", "unpublish"} => entries[f].approvedAt,
             refused' \subseteq refused \union {f},
             UNCHANGED <<verified, openItems, appeals, drafts, taken, breaks, met, torn, upheld>>
      PROVE  RegistryInv' /\ MeetingsNoted'
  <2>1. \A g \in 1..EntryBound : entries'[g] = IF g = f THEN row ELSE entries[g]
    BY <1>0, <1>4 DEF RegistryTypeOK
  <2>2. /\ row \in EntryRows /\ row.status \in Past /\ (entries[f].approvedAt => row.approvedAt)
        /\ row.status \in {"APPROVED_PUBLIC_SAFE", "PUBLISHED"} => row.approvedAt
        /\ row.status = "PUBLISHED" => row.publishedAt
    BY <1>4, DecidedRow DEF Past, Decisions
  <2>3. RegistryTypeOK'
    <3>1. /\ entries' \in [1..EntryBound -> EntryRows \union {NoEntry}]
          /\ work' \in [Staff -> WorkRecords \union {Idle}]
      BY <1>0, <1>4, <2>2 DEF RegistryTypeOK
    <3> QED  BY <1>0, <1>4, <3>1 DEF RegistryTypeOK
  <2>4. Refers(r)'
    <3>1. entries'[f] = row /\ row # NoEntry
      BY <2>1, <2>2, RowsAreRows
    <3>2. kind \in {"publish", "unpublish"} => row.approvedAt
      BY <1>4, <2>2
    <3> QED  BY <1>4, <2>2, <3>1, <3>2 DEF Refers, Advanced, Decisions
  <2>5. RegistryInv'
    <3>1. row # NoEntry
      BY <2>2, RowsAreRows
    <3>2. \A g \in 1..EntryBound :
             /\ entries[g] # NoEntry => entries'[g] # NoEntry
             /\ Advanced(g) => entries'[g].status \in Past
             /\ entries[g].approvedAt => entries'[g].approvedAt
             /\ entries'[g].status \in {"APPROVED_PUBLIC_SAFE", "PUBLISHED"} => entries'[g].approvedAt
             /\ entries'[g].status = "PUBLISHED" => entries'[g].publishedAt
      BY <1>0, <2>1, <2>2, <3>1 DEF Advanced
    <3>3. \A a \in 1..AppealBound :
             /\ appeals[a] # NoAppeal => appeals'[a] # NoAppeal
             /\ appeals'[a] # NoAppeal =>
                   \/ appeals[a] # NoAppeal /\ appeals'[a].entry = appeals[a].entry
                   \/ /\ entries'[appeals'[a].entry].status \in Past
                      /\ entries'[appeals'[a].entry].approvedAt
      BY <1>4
    <3> QED  BY <1>4, <2>3, <2>4, <3>2, <3>3, RegistryKept
  <2> QED  BY <1>0, <1>4, <2>5, MeetingsKept
<1>5. ASSUME NEW w \in Staff, WriteEntry(w)
      PROVE  RegistryInv' /\ MeetingsNoted'
  <2> PICK r \in DecisionWork, row \in EntryRows :
         /\ work[w] \in DecisionWork /\ work' = [work EXCEPT ![w] = r]
         /\ r.kind = work[w].kind /\ r.entry = work[w].entry
         /\ entries[r.entry] \in EntryRows /\ row = Decided(r.kind, entries[r.entry])
         /\ entries' = [entries EXCEPT ![r.entry] = row]
         /\ refused' = IF r.kind = "reject" THEN refused \union {r.entry} ELSE refused
         /\ UNCHANGED <<verified, openItems, appeals, drafts, taken, breaks, met, torn, upheld>>
    BY <1>5, WriteEntryFacts
  <2>1. r.entry \in 1..EntryBound /\ r.kind \in Decisions /\ r \in WorkRecords /\ work[w] # Idle
    BY WorkKinds DEF DecisionWork
  <2>2. Refers(work[w])
    BY DEF RegistryInv
  <2>3. r.kind \in {"publish", "unpublish"} => entries[r.entry].approvedAt
    BY <2>2 DEF Refers
  <2>4. r.kind \notin {"decide", "start"} /\ refused' \subseteq refused \union {r.entry}
    BY <2>1 DEF Decisions
  <2> QED  BY <1>4, <2>1, <2>2, <2>3, <2>4
<1>6. ASSUME NEW w \in Staff, UnpublishContested(w)
      PROVE  RegistryInv' /\ MeetingsNoted'
  <2> PICK r \in AppealWork, e \in 1..EntryBound, row \in EntryRows :
         /\ work[w] \in AppealWork /\ work' = [work EXCEPT ![w] = r]
         /\ r.appeal = work[w].appeal
         /\ entries[e].approvedAt /\ entries[e] \in EntryRows /\ row = Decided("unpublish", entries[e])
         /\ entries' = [entries EXCEPT ![e] = row]
         /\ UNCHANGED <<verified, openItems, appeals, drafts, taken, breaks, met, torn, upheld, refused>>
    BY <1>6, UnpublishFacts
  <2>1. r.kind = "decide" /\ work[w].kind = "decide" /\ r \in WorkRecords /\ work[w] # Idle
    BY WorkKinds
  <2>2. Refers(work[w])
    BY DEF RegistryInv
  <2>3. appeals[r.appeal] # NoAppeal
    BY <2>1, <2>2 DEF Refers
  <2>4. "unpublish" \in Decisions /\ r.kind \notin Decisions
    BY <2>1 DEF Decisions
  <2> QED  BY <1>4, <2>1, <2>2, <2>3, <2>4
<1>7. ASSUME NEW w \in Staff, CreateAppeal(w) \/ WriteReview(w) \/ RecordDecision(w)
      PROVE  RegistryInv' /\ MeetingsNoted'
  <2> PICK a \in 1..AppealBound, row \in AppealRows :
         /\ work[w] # Idle /\ work' = [work EXCEPT ![w] = Idle]
         /\ appeals' = [appeals EXCEPT ![a] = row]
         /\ Advanced(row.entry) /\ entries[row.entry].approvedAt
         /\ appeals[a] # NoAppeal => row.entry = appeals[a].entry
         /\ upheld' = upheld \/ (appeals[a] # NoAppeal /\ upheld' = upheld \union {appeals[a].entry})
         /\ UNCHANGED <<verified, entries, openItems, drafts, taken, breaks, met, torn, refused>>
    BY <1>7, AppealFacts
  <2>1. \A b \in 1..AppealBound : appeals'[b] = IF b = a THEN row ELSE appeals[b]
    BY <1>0 DEF RegistryTypeOK
  <2>2. RegistryTypeOK'
    <3>1. /\ appeals' \in [1..AppealBound -> AppealRows \union {NoAppeal}]
          /\ work' \in [Staff -> WorkRecords \union {Idle}]
      BY <1>0 DEF RegistryTypeOK
    <3>2. appeals[a] # NoAppeal => appeals[a].entry \in 1..EntryBound
      BY <1>0 DEF RegistryTypeOK, AppealRows
    <3> QED  BY <1>0, <3>1, <3>2 DEF RegistryTypeOK
  <2>3. RegistryInv'
    BY <1>0, <1>i, <2>1, <2>2, RegistryKept, RowsAreRows DEF Advanced
  <2> QED  BY <1>0, <2>3, MeetingsKept
<1>8. ASSUME NEW w \in Staff, QueueCandidate(w) \/ markQueueComplete(w) \/ DraftTakedown(w)
      PROVE  RegistryInv' /\ MeetingsNoted'
  <2>1. /\ work[w] # Idle /\ work' = [work EXCEPT ![w] = Idle] /\ work[w].entry \in 1..EntryBound
        /\ openItems' \subseteq openItems \union {work[w].entry}
        /\ \A d \in drafts' : d \in drafts \/ d[1] = work[w].entry
        /\ UNCHANGED <<verified, entries, appeals, taken, breaks, met, torn, upheld, refused>>
    BY <1>8, ClosingFacts
  <2>2. RegistryTypeOK'
    <3>1. work' \in [Staff -> WorkRecords \union {Idle}]
      BY <1>0, <2>1 DEF RegistryTypeOK
    <3> QED  BY <1>0, <2>1, <3>1 DEF RegistryTypeOK
  <2>3. RegistryInv'
    BY <1>0, <1>i, <2>1, <2>2, RegistryKept DEF Advanced
  <2> QED  BY <1>0, <2>1, <2>3, MeetingsKept
<1>9. CASE SignalMoves \/ UNCHANGED registryVars
  <2>1. UNCHANGED <<entries, openItems, appeals, drafts, work, taken, breaks, met, torn, upheld, refused>>
        /\ (verified' = verified \/ verified' = FALSE)
    BY <1>9 DEF SignalMoves, registryVars
  <2>2. RegistryTypeOK'
    BY <1>0, <2>1 DEF RegistryTypeOK
  <2>3. RegistryInv'
    BY <2>1, <2>2 DEF RegistryInv, Refers, Advanced
  <2> QED  BY <2>1, <2>3 DEF MeetingsNoted
<1> QED  BY <1>1, <1>2, <1>3, <1>5, <1>6, <1>7, <1>8, <1>9 DEF RegistryNext, Decisions

\* A step of the registry, by what the request does: it arrives, goes on without touching
\* a row, writes an entry, writes an appeal, or ends.
LEMMA RegistryCases ==
    ASSUME [RegistryNext]_registryVars
    PROVE  \/ SignalMoves \/ UNCHANGED registryVars
           \/ \E w \in Staff :
                 \/ \/ createCandidate(w) \/ \E kind \in Decisions : Decide(w, kind)
                    \/ fileAppeal(w) \/ startReview(w) \/ decideAppeal(w)
                 \/ FinishUnpublish(w) \/ tryAutomate(w) \/ ReadContested(w) \/ CheckContested(w) \/ FailWork(w)
                 \/ CreateEntry(w)
                 \/ WriteEntry(w)
                 \/ UnpublishContested(w)
                 \/ CreateAppeal(w) \/ WriteReview(w) \/ RecordDecision(w)
                 \/ QueueCandidate(w) \/ markQueueComplete(w) \/ DraftTakedown(w)
  BY DEF RegistryNext, Decisions

\* The history only grows: what overlaps nothing after a step overlapped nothing before it.
LEMMA CalmBefore ==
    ASSUME RegistryTypeOK, [RegistryNext]_registryVars, NEW kinds
    PROVE  (Calm(kinds)' => Calm(kinds)) /\ (Whole(kinds)' => Whole(kinds))
<1>1. met \subseteq met' /\ torn \subseteq torn'
  <2>1. ASSUME NEW w \in Staff,
               \/ createCandidate(w) \/ \E kind \in Decisions : Decide(w, kind)
               \/ fileAppeal(w) \/ startReview(w) \/ decideAppeal(w)
        PROVE  met \subseteq met' /\ torn \subseteq torn'
    <3> PICK r : Begins(w, r)
      BY <2>1, BeginFacts
    <3> QED  BY DEF Begins
  <2>2. ASSUME NEW w \in Staff,
               \/ CreateEntry(w) \/ QueueCandidate(w) \/ WriteEntry(w) \/ markQueueComplete(w)
               \/ FinishUnpublish(w) \/ tryAutomate(w) \/ DraftTakedown(w)
        PROVE  met \subseteq met' /\ torn \subseteq torn'
    BY <2>2 DEF CreateEntry, QueueCandidate, WriteEntry, markQueueComplete, FinishUnpublish, tryAutomate,
                DraftTakedown
  <2>3. ASSUME NEW w \in Staff,
               \/ CreateAppeal(w) \/ WriteReview(w) \/ ReadContested(w) \/ CheckContested(w)
               \/ UnpublishContested(w) \/ RecordDecision(w) \/ FailWork(w)
        PROVE  met \subseteq met' /\ torn \subseteq torn'
    BY <2>3 DEF CreateAppeal, WriteReview, ReadContested, CheckContested, UnpublishContested, RecordDecision,
                FailWork
  <2>4. CASE SignalMoves \/ UNCHANGED registryVars
    BY <2>4 DEF SignalMoves, registryVars
  <2> QED  BY <2>1, <2>2, <2>3, <2>4, RegistryCases
<1> QED  BY <1>1 DEF Calm, Whole

\* A decision is never taken on what was rejected, and a takedown for an appeal finds an
\* entry that was published.
LEMMA RefusalsStep ==
    RegistryInv /\ MeetingsNoted /\ RefusalsStand /\ [RegistryNext]_registryVars => RefusalsStand'
<1> SUFFICES ASSUME RegistryInv, MeetingsNoted, RefusalsStand, [RegistryNext]_registryVars, Calm(Decisions)'
             PROVE  RefusalsStand'
  BY DEF RefusalsStand
<1> DEFINE Stands ==
       /\ \A e \in refused' : entries'[e].status = "REJECTED"
       /\ \A v \in Staff :
             /\ work'[v].kind \in Decisions /\ work'[v].at = "write" =>
                   entries'[work'[v].entry].status \in requireStatus(work'[v].kind)
             /\ work'[v].kind = "decide" /\ work'[v].at = "takedown" =>
                   entries'[appeals'[work'[v].appeal].entry].status \in {"PUBLISHED", "APPROVED_PUBLIC_SAFE"}
<1>0. RegistryTypeOK /\ Calm(Decisions)
  BY CalmBefore DEF RegistryInv
<1>a. /\ \A e \in refused : entries[e].status = "REJECTED"
      /\ \A w \in Staff :
            /\ work[w].kind \in Decisions /\ work[w].at = "write" =>
                  entries[work[w].entry].status \in requireStatus(work[w].kind)
            /\ work[w].kind = "decide" /\ work[w].at = "takedown" =>
                  entries[appeals[work[w].appeal].entry].status \in {"PUBLISHED", "APPROVED_PUBLIC_SAFE"}
  BY <1>0 DEF RefusalsStand, At
<1>b. \A v, w \in Staff : v # w /\ work[v].kind \in Decisions => work[w] = Idle
  <2> SUFFICES ASSUME NEW v \in Staff, NEW w \in Staff, v # w, work[v].kind \in Decisions, work[w] # Idle
               PROVE  FALSE
    OBVIOUS
  <2>1. work[v] # Idle
    BY WorkKinds DEF Decisions
  <2> QED  BY <1>0, <2>1, Meeting
<1>c. \A w \in Staff : /\ work[w].kind \in Decisions =>
                             work[w].entry \in 1..EntryBound /\ entries[work[w].entry] # NoEntry
                       /\ work[w].kind = "decide" =>
                             work[w].appeal \in 1..AppealBound /\ appeals[work[w].appeal] # NoAppeal
  BY <1>0, WorkShape DEF RegistryInv, Refers, DecisionWork, AppealWork
<1>d. \A kind \in Decisions : "REJECTED" \notin requireStatus(kind)
  BY DEF requireStatus, Decisions
<1>1. ASSUME NEW w \in Staff,
             \/ createCandidate(w) \/ \E kind \in Decisions : Decide(w, kind)
             \/ fileAppeal(w) \/ startReview(w) \/ decideAppeal(w)
      PROVE  Stands
  <2> PICK r : Begins(w, r)
    BY <1>0, <1>1, BeginFacts
  <2>1. work'[w] = r /\ \A v \in Staff \ {w} : work'[v] = work[v]
    BY <1>0, WorkShape DEF Begins
  <2>2. /\ UNCHANGED <<entries, appeals, refused>>
        /\ r.kind \in Decisions => entries[r.entry].status \in requireStatus(r.kind)
        /\ r.kind = "decide" => r.at # "takedown"
    BY DEF Begins
  <2> QED  BY <1>a, <2>1, <2>2
<1>2. ASSUME NEW w \in Staff,
             FinishUnpublish(w) \/ tryAutomate(w) \/ ReadContested(w) \/ CheckContested(w) \/ FailWork(w)
      PROVE  Stands
  <2> PICK r \in WorkRecords \union {Idle} : GoesOn(w, r)
    BY <1>0, <1>2, GoesOnFacts
  <2>1. work'[w] = r /\ \A v \in Staff \ {w} : work'[v] = work[v]
    BY <1>0, WorkShape DEF GoesOn
  <2>2. /\ UNCHANGED <<entries, appeals, refused>>
        /\ r.kind \in Decisions => r.at # "write"
        /\ r.kind = "decide" /\ r.at = "takedown" =>
              entries[appeals[r.appeal].entry].status = "PUBLISHED"
    BY WorkKinds DEF GoesOn, Decisions
  <2> QED  BY <1>a, <2>1, <2>2
<1>3. ASSUME NEW w \in Staff, CreateEntry(w)
      PROVE  Stands
  <2> PICK e \in 1..EntryBound, row \in EntryRows, r \in CreateWork :
         /\ work' = [work EXCEPT ![w] = r] /\ entries[e] = NoEntry /\ entries' = [entries EXCEPT ![e] = row]
         /\ UNCHANGED <<appeals, refused>>
    BY <1>3, CreateEntryFacts
  <2>1. work'[w] = r /\ \A v \in Staff \ {w} : work'[v] = work[v]
    BY <1>0, WorkShape
  <2>2. \A f \in 1..EntryBound : f # e => entries'[f] = entries[f]
    BY <1>0 DEF RegistryTypeOK
  <2>3. r.kind \notin Decisions /\ r.kind # "decide"
    BY WorkKinds DEF Decisions
  <2>4. e \notin refused /\ refused \subseteq 1..EntryBound
    BY <1>0, <1>a, RowsAreRows DEF RegistryTypeOK
  <2>5. \A v \in Staff : work[v].kind = "decide" /\ work[v].at = "takedown" =>
           /\ appeals[work[v].appeal].entry \in 1..EntryBound
           /\ appeals[work[v].appeal].entry # e
    <3>1. \A a \in 1..AppealBound : appeals[a] # NoAppeal => appeals[a].entry \in 1..EntryBound
      BY <1>0 DEF RegistryTypeOK, AppealRows
    <3> QED  BY <1>a, <1>c, <3>1, RowsAreRows
  <2> QED  BY <1>a, <1>c, <2>1, <2>2, <2>3, <2>4, <2>5
<1>4. ASSUME NEW w \in Staff, WriteEntry(w)
      PROVE  Stands
  <2> PICK r \in DecisionWork, row \in EntryRows :
         /\ work[w] \in DecisionWork /\ work[w].at = "write" /\ work' = [work EXCEPT ![w] = r]
         /\ r.at = "after" /\ r.kind = work[w].kind /\ r.entry = work[w].entry
         /\ entries[r.entry] \in EntryRows /\ row = Decided(r.kind, entries[r.entry])
         /\ entries' = [entries EXCEPT ![r.entry] = row]
         /\ refused' = IF r.kind = "reject" THEN refused \union {r.entry} ELSE refused
         /\ UNCHANGED appeals
    BY <1>4, WriteEntryFacts
  <2>1. work'[w] = r /\ \A v \in Staff \ {w} : work'[v] = work[v]
    BY <1>0, WorkShape
  <2>2. r.kind \in Decisions /\ r.entry \in 1..EntryBound
    BY DEF DecisionWork
  <2>3. \A f \in 1..EntryBound : entries'[f] = IF f = r.entry THEN row ELSE entries[f]
    BY <1>0, <2>2 DEF RegistryTypeOK
  <2>4. \A v \in Staff \ {w} : work'[v] = Idle
    BY <1>b, <2>1, <2>2
  <2>5. r.entry \notin refused /\ refused \subseteq 1..EntryBound
    BY <1>0, <1>a, <1>d, <2>2 DEF RegistryTypeOK
  <2>6. r.kind = "reject" => row.status = "REJECTED"
    BY <2>2, DecidedRow
  <2>7. \A e \in refused' : entries'[e].status = "REJECTED"
    BY <1>a, <2>2, <2>3, <2>5, <2>6
  <2> QED  BY <2>1, <2>2, <2>4, <2>7, WorkKinds DEF Decisions
<1>5. ASSUME NEW w \in Staff, UnpublishContested(w)
      PROVE  Stands
  <2> PICK r \in AppealWork, e \in 1..EntryBound, row \in EntryRows :
         /\ work[w] \in AppealWork /\ work[w].at = "takedown" /\ work' = [work EXCEPT ![w] = r]
         /\ r.at = "record" /\ r.appeal = work[w].appeal /\ e = appeals[r.appeal].entry
         /\ entries[e] \in EntryRows /\ row = Decided("unpublish", entries[e])
         /\ entries' = [entries EXCEPT ![e] = row] /\ UNCHANGED <<appeals, refused>>
    BY <1>5, UnpublishFacts
  <2>1. work'[w] = r /\ \A v \in Staff \ {w} : work'[v] = work[v]
    BY <1>0, WorkShape
  <2>2. r.kind = "decide" /\ work[w].kind = "decide" /\ work[w] # Idle
    BY WorkKinds
  <2>3. \A v \in Staff \ {w} : work[v].kind \notin Decisions
    BY <1>b, <2>2
  <2>4. \A f \in 1..EntryBound : entries'[f] = IF f = e THEN row ELSE entries[f]
    BY <1>0 DEF RegistryTypeOK
  <2>5. row.status = "APPROVED_PUBLIC_SAFE"
    BY DEF Decided, EntryRows
  <2>6. e \notin refused /\ refused \subseteq 1..EntryBound
    BY <1>0, <1>a, <2>2 DEF RegistryTypeOK
  <2>7. \A v \in Staff : work[v].kind = "decide" => appeals[work[v].appeal].entry \in 1..EntryBound
    BY <1>0, <1>c DEF RegistryTypeOK, AppealRows
  <2>8. r.kind \notin Decisions
    BY <2>2 DEF Decisions
  <2>9. \A f \in refused' : entries'[f].status = "REJECTED"
    BY <1>a, <2>4, <2>6
  <2>10. \A v \in Staff : work'[v].kind \notin Decisions
    BY <2>1, <2>3, <2>8
  <2>11. ASSUME NEW v \in Staff, work'[v].kind = "decide", work'[v].at = "takedown"
         PROVE  entries'[appeals'[work'[v].appeal].entry].status \in {"PUBLISHED", "APPROVED_PUBLIC_SAFE"}
    <3>1. v # w /\ work'[v] = work[v]
      BY <2>1, <2>11
    <3> QED  BY <1>a, <2>4, <2>5, <2>7, <2>11, <3>1
  <2> QED  BY <2>9, <2>10, <2>11
<1>6. ASSUME NEW w \in Staff, CreateAppeal(w) \/ WriteReview(w) \/ RecordDecision(w)
      PROVE  Stands
  <2> PICK a \in 1..AppealBound, row \in AppealRows :
         /\ work' = [work EXCEPT ![w] = Idle] /\ appeals' = [appeals EXCEPT ![a] = row]
         /\ appeals[a] # NoAppeal => row.entry = appeals[a].entry
         /\ UNCHANGED <<entries, refused>>
    BY <1>6, AppealFacts
  <2>1. work'[w] = Idle /\ \A v \in Staff \ {w} : work'[v] = work[v]
    BY <1>0, WorkShape
  <2>2. \A b \in 1..AppealBound : appeals[b] # NoAppeal => appeals'[b].entry = appeals[b].entry
    BY <1>0 DEF RegistryTypeOK
  <2> QED  BY <1>a, <1>c, <2>1, <2>2, WorkKinds DEF Decisions
<1>7. ASSUME NEW w \in Staff, QueueCandidate(w) \/ markQueueComplete(w) \/ DraftTakedown(w)
      PROVE  Stands
  <2>1. work' = [work EXCEPT ![w] = Idle] /\ UNCHANGED <<entries, appeals, refused>>
    BY <1>7, ClosingFacts
  <2>2. work'[w] = Idle /\ \A v \in Staff \ {w} : work'[v] = work[v]
    BY <1>0, <2>1, WorkShape
  <2> QED  BY <1>a, <2>1, <2>2, WorkKinds DEF Decisions
<1>8. ASSUME SignalMoves \/ UNCHANGED registryVars
      PROVE  Stands
  <2>1. UNCHANGED <<entries, appeals, work, refused>>
    BY <1>8 DEF SignalMoves, registryVars
  <2> QED  BY <1>a, <2>1
<1> HIDE DEF Stands
<1>9. Stands
  BY <1>1, <1>2, <1>3, <1>4, <1>5, <1>6, <1>7, <1>8, RegistryCases
<1> USE DEF Stands
<1> QED  BY <1>9 DEF RefusalsStand, At, requireStatus

\* A publication begins by taking the entry from those an appeal took down; any other
\* request beside one that is writing has overlapped it.
LEMMA AppealsStep ==
    RegistryInv /\ MeetingsNoted /\ AppealsStand /\ [RegistryNext]_registryVars => AppealsStand'
<1> SUFFICES ASSUME RegistryInv, MeetingsNoted, AppealsStand, [RegistryNext]_registryVars, Calm({"publish"})'
             PROVE  AppealsStand'
  BY DEF AppealsStand
<1> DEFINE Stands ==
       /\ \A e \in upheld' :
             /\ entries'[e].status # "PUBLISHED"
             /\ \A v \in Staff : ~(work'[v].kind = "publish" /\ work'[v].at = "write" /\ work'[v].entry = e)
       /\ \A v \in Staff : work'[v].kind = "decide" /\ work'[v].at = "record" /\ work'[v].unpublish =>
             entries'[appeals'[work'[v].appeal].entry].status # "PUBLISHED"
<1>0. RegistryTypeOK /\ Calm({"publish"})
  BY CalmBefore DEF RegistryInv
<1>a. /\ \A e \in upheld :
            /\ entries[e].status # "PUBLISHED"
            /\ \A v \in Staff : ~(work[v].kind = "publish" /\ work[v].at = "write" /\ work[v].entry = e)
      /\ \A v \in Staff : work[v].kind = "decide" /\ work[v].at = "record" /\ work[v].unpublish =>
            entries[appeals[work[v].appeal].entry].status # "PUBLISHED"
  BY <1>0 DEF AppealsStand, At
<1>b. \A v, w \in Staff : v # w /\ work[v].kind = "publish" => work[w] = Idle
  <2> SUFFICES ASSUME NEW v \in Staff, NEW w \in Staff, v # w, work[v].kind = "publish", work[w] # Idle
               PROVE  FALSE
    OBVIOUS
  <2>1. work[v] # Idle
    BY WorkKinds
  <2> QED  BY <1>0, <2>1, Meeting
<1>c. /\ \A v \in Staff : work[v].kind = "decide" =>
            work[v].appeal \in 1..AppealBound /\ appeals[work[v].appeal] # NoAppeal
      /\ \A a \in 1..AppealBound : appeals[a] # NoAppeal => appeals[a].entry \in 1..EntryBound
      /\ upheld \subseteq 1..EntryBound
  BY <1>0, WorkShape DEF RegistryInv, RegistryTypeOK, Refers, AppealWork, AppealRows
<1>1. ASSUME NEW w \in Staff,
             \/ createCandidate(w) \/ \E kind \in Decisions : Decide(w, kind)
             \/ fileAppeal(w) \/ startReview(w) \/ decideAppeal(w)
      PROVE  Stands
  <2> PICK r : Begins(w, r)
    BY <1>0, <1>1, BeginFacts
  <2>1. work'[w] = r /\ \A v \in Staff \ {w} : work'[v] = work[v]
    BY <1>0, WorkShape DEF Begins
  <2>2. /\ UNCHANGED <<entries, appeals>>
        /\ upheld' = IF r.kind = "publish" THEN upheld \ {r.entry} ELSE upheld
        /\ r.kind = "decide" => ~(r.at = "record" /\ r.unpublish)
    BY DEF Begins
  <2> QED  BY <1>a, <2>1, <2>2
<1>2. ASSUME NEW w \in Staff,
             FinishUnpublish(w) \/ tryAutomate(w) \/ ReadContested(w) \/ CheckContested(w) \/ FailWork(w)
      PROVE  Stands
  <2> PICK r \in WorkRecords \union {Idle} : GoesOn(w, r)
    BY <1>0, <1>2, GoesOnFacts
  <2>1. work'[w] = r /\ \A v \in Staff \ {w} : work'[v] = work[v]
    BY <1>0, WorkShape DEF GoesOn
  <2>2. /\ UNCHANGED <<entries, appeals, upheld>>
        /\ r.kind = "publish" => r.at # "write"
        /\ r.kind = "decide" /\ r.at = "record" => entries[appeals[r.appeal].entry].status # "PUBLISHED"
    BY WorkKinds DEF GoesOn, Decisions
  <2> QED  BY <1>a, <2>1, <2>2
<1>3. ASSUME NEW w \in Staff, CreateEntry(w)
      PROVE  Stands
  <2> PICK e \in 1..EntryBound, row \in EntryRows, r \in CreateWork :
         /\ work' = [work EXCEPT ![w] = r] /\ row.status = "CANDIDATE"
         /\ entries' = [entries EXCEPT ![e] = row] /\ UNCHANGED <<appeals, upheld>>
    BY <1>3, CreateEntryFacts
  <2>1. work'[w] = r /\ \A v \in Staff \ {w} : work'[v] = work[v]
    BY <1>0, WorkShape
  <2>2. \A f \in 1..EntryBound : entries'[f] = IF f = e THEN row ELSE entries[f]
    BY <1>0 DEF RegistryTypeOK
  <2>3. r.kind # "publish" /\ r.kind # "decide"
    BY WorkKinds
  <2> QED  BY <1>a, <1>c, <2>1, <2>2, <2>3
<1>4. ASSUME NEW w \in Staff, WriteEntry(w)
      PROVE  Stands
  <2> PICK r \in DecisionWork, row \in EntryRows :
         /\ work[w] \in DecisionWork /\ work[w].at = "write" /\ work' = [work EXCEPT ![w] = r]
         /\ r.at = "after" /\ r.kind = work[w].kind /\ r.entry = work[w].entry
         /\ entries[r.entry] \in EntryRows /\ row = Decided(r.kind, entries[r.entry])
         /\ entries' = [entries EXCEPT ![r.entry] = row] /\ UNCHANGED <<appeals, upheld>>
    BY <1>4, WriteEntryFacts
  <2>1. work'[w] = r /\ \A v \in Staff \ {w} : work'[v] = work[v]
    BY <1>0, WorkShape
  <2>2. r.kind \in Decisions /\ r.entry \in 1..EntryBound /\ r.kind # "decide"
    BY DEF DecisionWork, Decisions
  <2>3. \A f \in 1..EntryBound : entries'[f] = IF f = r.entry THEN row ELSE entries[f]
    BY <1>0, <2>2 DEF RegistryTypeOK
  <2>4. row.status = "PUBLISHED" <=> r.kind = "publish"
    BY <2>2, DecidedRow
  <2>5. CASE r.kind = "publish"
    <3>1. \A v \in Staff \ {w} : work'[v] = Idle
      BY <1>b, <2>1, <2>5
    <3>2. r.entry \notin upheld
      BY <1>a, <2>5
    <3> QED  BY <1>a, <1>c, <2>1, <2>2, <2>3, <3>1, <3>2, WorkKinds
  <2>6. CASE r.kind # "publish"
    <3>1. \A f \in 1..EntryBound : entries[f].status # "PUBLISHED" => entries'[f].status # "PUBLISHED"
      BY <2>3, <2>4, <2>6
    <3> QED  BY <1>a, <1>c, <2>1, <2>2, <2>6, <3>1
  <2> QED  BY <2>5, <2>6
<1>5. ASSUME NEW w \in Staff, UnpublishContested(w)
      PROVE  Stands
  <2> PICK r \in AppealWork, e \in 1..EntryBound, row \in EntryRows :
         /\ work[w] \in AppealWork /\ work' = [work EXCEPT ![w] = r] /\ e = appeals[r.appeal].entry
         /\ entries[e] \in EntryRows /\ row = Decided("unpublish", entries[e])
         /\ entries' = [entries EXCEPT ![e] = row] /\ UNCHANGED <<appeals, upheld>>
    BY <1>5, UnpublishFacts
  <2>1. work'[w] = r /\ \A v \in Staff \ {w} : work'[v] = work[v]
    BY <1>0, WorkShape
  <2>2. \A f \in 1..EntryBound : entries'[f] = IF f = e THEN row ELSE entries[f]
    BY <1>0 DEF RegistryTypeOK
  <2>3. row.status # "PUBLISHED" /\ r.kind # "publish"
    BY WorkKinds, DecidedRow DEF Decisions
  <2>4. \A f \in 1..EntryBound : entries[f].status # "PUBLISHED" => entries'[f].status # "PUBLISHED"
    BY <2>2, <2>3
  <2>5. entries'[appeals'[r.appeal].entry].status # "PUBLISHED"
    BY <2>2, <2>3
  <2> QED  BY <1>a, <1>c, <2>1, <2>3, <2>4, <2>5
<1>6. ASSUME NEW w \in Staff, CreateAppeal(w) \/ WriteReview(w) \/ RecordDecision(w)
      PROVE  Stands
  <2> PICK a \in 1..AppealBound, row \in AppealRows :
         /\ work[w] # Idle /\ work' = [work EXCEPT ![w] = Idle] /\ appeals' = [appeals EXCEPT ![a] = row]
         /\ appeals[a] # NoAppeal => row.entry = appeals[a].entry
         /\ \/ upheld' = upheld
            \/ /\ At(w, "decide", "record") /\ work[w].unpublish /\ a = work[w].appeal
               /\ appeals[a] # NoAppeal /\ upheld' = upheld \union {appeals[a].entry}
         /\ UNCHANGED entries
    BY <1>6, AppealFacts
  <2>1. work'[w] = Idle /\ \A v \in Staff \ {w} : work'[v] = work[v]
    BY <1>0, WorkShape
  <2>2. \A b \in 1..AppealBound : appeals[b] # NoAppeal => appeals'[b].entry = appeals[b].entry
    BY <1>0 DEF RegistryTypeOK
  <2>3. \A v \in Staff : work'[v].kind # "publish"
    BY <1>b, <2>1, WorkKinds
  <2>4. \A e \in upheld' : entries'[e].status # "PUBLISHED"
    BY <1>a DEF At
  <2>5. ASSUME NEW v \in Staff, work'[v].kind = "decide", work'[v].at = "record", work'[v].unpublish
        PROVE  entries'[appeals'[work'[v].appeal].entry].status # "PUBLISHED"
    <3>1. work'[v] = work[v]
      BY <2>1, <2>5, WorkKinds
    <3> QED  BY <1>a, <1>c, <2>2, <2>5, <3>1
  <2> QED  BY <2>3, <2>4, <2>5
<1>7. ASSUME NEW w \in Staff, QueueCandidate(w) \/ markQueueComplete(w) \/ DraftTakedown(w)
      PROVE  Stands
  <2>1. work' = [work EXCEPT ![w] = Idle] /\ UNCHANGED <<entries, appeals, upheld>>
    BY <1>7, ClosingFacts
  <2>2. work'[w] = Idle /\ \A v \in Staff \ {w} : work'[v] = work[v]
    BY <1>0, <2>1, WorkShape
  <2> QED  BY <1>a, <2>1, <2>2, WorkKinds
<1>8. ASSUME SignalMoves \/ UNCHANGED registryVars
      PROVE  Stands
  <2>1. UNCHANGED <<entries, appeals, work, upheld>>
    BY <1>8 DEF SignalMoves, registryVars
  <2> QED  BY <1>a, <2>1
<1> HIDE DEF Stands
<1>9. Stands
  BY <1>1, <1>2, <1>3, <1>4, <1>5, <1>6, <1>7, <1>8, RegistryCases
<1> USE DEF Stands
<1> QED  BY <1>9 DEF AppealsStand, At

\* Whoever creates or decides a candidate runs alone, so the queue follows the rows; the
\* decisions that may overlap are taken on entries past being candidates.
LEMMA QueueStep ==
    RegistryInv /\ MeetingsNoted /\ QueueHolds /\ [RegistryNext]_registryVars => QueueHolds'
<1> DEFINE K == {"create", "approve", "reject"}
           Closing(v, e) == work[v].kind \in {"approve", "reject"} /\ work[v].at = "after" /\ work[v].entry = e
           Queueing(v, e) == work[v].kind = "create" /\ work[v].at = "queue" /\ work[v].entry = e
           ClosingNext(v, e) == work'[v].kind \in {"approve", "reject"} /\ work'[v].at = "after" /\ work'[v].entry = e
           QueueingNext(v, e) == work'[v].kind = "create" /\ work'[v].at = "queue" /\ work'[v].entry = e
           Holds ==
              /\ \A e \in openItems' : entries'[e].status = "CANDIDATE" \/ \E v \in Staff : ClosingNext(v, e)
              /\ \A e \in 1..EntryBound : entries'[e].status = "CANDIDATE" =>
                    e \in openItems' \/ \E v \in Staff : QueueingNext(v, e)
              /\ \A v \in Staff, e \in 1..EntryBound : QueueingNext(v, e) => entries'[e].status = "CANDIDATE"
<1> SUFFICES ASSUME RegistryInv, MeetingsNoted, QueueHolds, [RegistryNext]_registryVars, Whole(K)', Calm(K)'
             PROVE  QueueHolds'
  BY DEF QueueHolds
<1>0. RegistryTypeOK /\ Calm(K) /\ Whole(K) /\ torn' \intersect K = {}
  BY CalmBefore DEF RegistryInv, Whole
<1>a. /\ \A e \in openItems : entries[e].status = "CANDIDATE" \/ \E v \in Staff : Closing(v, e)
      /\ \A e \in 1..EntryBound : entries[e].status = "CANDIDATE" =>
            e \in openItems \/ \E v \in Staff : Queueing(v, e)
      /\ \A v \in Staff, e \in 1..EntryBound : Queueing(v, e) => entries[e].status = "CANDIDATE"
  <2> HIDE DEF K
  <2>1. K = {"create", "approve", "reject"}
    BY DEF K
  <2> QED  BY <1>0, <2>1 DEF QueueHolds, At
<1>b. \A v, w \in Staff : v # w /\ work[v].kind \in K => work[w] = Idle
  <2> SUFFICES ASSUME NEW v \in Staff, NEW w \in Staff, v # w, work[v].kind \in K, work[w] # Idle
               PROVE  FALSE
    OBVIOUS
  <2>1. work[v] # Idle
    BY WorkKinds
  <2> QED  BY <1>0, <2>1, Meeting
<1>c. /\ openItems \subseteq 1..EntryBound
      /\ \A v \in Staff : /\ work[v].kind \in Decisions =>
                                work[v].entry \in 1..EntryBound /\ entries[work[v].entry] # NoEntry
                          /\ work[v].kind = "create" /\ work[v].at = "queue" => entries[work[v].entry] # NoEntry
                          /\ work[v].kind \in {"publish", "unpublish"} => Advanced(work[v].entry)
  BY <1>0, WorkShape DEF RegistryInv, RegistryTypeOK, Refers, DecisionWork
<1>k. K \cap {"idle", "publish", "unpublish", "appeal", "start", "decide"} = {}
  OBVIOUS
<1> HIDE DEF K
\* Who is neither closing nor queueing an entry leaves those who are.
<1>d. ASSUME NEW w \in Staff, NEW r, work'[w] = r, \A v \in Staff \ {w} : work'[v] = work[v]
      PROVE  \A v \in Staff, e \in 1..EntryBound :
                /\ v # w => (ClosingNext(v, e) <=> Closing(v, e)) /\ (QueueingNext(v, e) <=> Queueing(v, e))
                /\ v = w => /\ ClosingNext(v, e) <=>
                                  r.kind \in {"approve", "reject"} /\ r.at = "after" /\ r.entry = e
                            /\ QueueingNext(v, e) <=> r.kind = "create" /\ r.at = "queue" /\ r.entry = e
  BY <1>d
<1> HIDE DEF Closing, Queueing, ClosingNext, QueueingNext
<1>e. ASSUME NEW w \in Staff, NEW r, work'[w] = r, \A v \in Staff \ {w} : work'[v] = work[v],
             \A e \in 1..EntryBound : ~Closing(w, e) /\ ~Queueing(w, e),
             ~(r.kind = "create" /\ r.at = "queue"),
             UNCHANGED <<entries, openItems>>
      PROVE  Holds
  BY <1>a, <1>c, <1>d, <1>e
<1>1. ASSUME NEW w \in Staff,
             \/ createCandidate(w) \/ \E kind \in Decisions : Decide(w, kind)
             \/ fileAppeal(w) \/ startReview(w) \/ decideAppeal(w)
      PROVE  Holds
  <2> PICK r : Begins(w, r)
    BY <1>0, <1>1, BeginFacts
  <2>1. work'[w] = r /\ \A v \in Staff \ {w} : work'[v] = work[v]
    BY <1>0, WorkShape DEF Begins
  <2>2. /\ UNCHANGED <<entries, openItems>> /\ ~(r.kind = "create" /\ r.at = "queue")
        /\ \A e \in 1..EntryBound : ~Closing(w, e) /\ ~Queueing(w, e)
    BY WorkKinds DEF Begins, Closing, Queueing
  <2> HIDE DEF Holds
  <2> QED  BY <1>e, <2>1, <2>2
<1>2. ASSUME NEW w \in Staff,
             FinishUnpublish(w) \/ tryAutomate(w) \/ ReadContested(w) \/ CheckContested(w) \/ FailWork(w)
      PROVE  Holds
  <2> PICK r \in WorkRecords \union {Idle} : GoesOn(w, r)
    BY <1>0, <1>2, GoesOnFacts
  <2>1. work'[w] = r /\ \A v \in Staff \ {w} : work'[v] = work[v]
    BY <1>0, WorkShape DEF GoesOn
  <2>2. /\ UNCHANGED <<entries, openItems>> /\ r.kind # "create" /\ work[w].kind \notin K
    BY <1>0, <1>k, WorkKinds DEF GoesOn
  <2>3. \A e \in 1..EntryBound : ~Closing(w, e) /\ ~Queueing(w, e)
    BY <2>2 DEF Closing, Queueing, K
  <2> HIDE DEF Holds
  <2> QED  BY <1>e, <2>1, <2>2, <2>3
<1>3. ASSUME NEW w \in Staff, CreateEntry(w)
      PROVE  Holds
  <2> PICK e \in 1..EntryBound, row \in EntryRows, r \in CreateWork :
         /\ work' = [work EXCEPT ![w] = r] /\ r.at = "queue" /\ r.entry = e
         /\ row.status = "CANDIDATE" /\ entries[e] = NoEntry
         /\ entries' = [entries EXCEPT ![e] = row] /\ UNCHANGED openItems
    BY <1>3, CreateEntryFacts
  <2>1. work'[w] = r /\ \A v \in Staff \ {w} : work'[v] = work[v]
    BY <1>0, WorkShape
  <2>2. \A f \in 1..EntryBound : entries'[f] = IF f = e THEN row ELSE entries[f]
    BY <1>0 DEF RegistryTypeOK
  <2>3. \A f \in 1..EntryBound : /\ QueueingNext(w, f) <=> f = e
                                 /\ ~ClosingNext(w, f) /\ ~Closing(w, f) /\ ~Queueing(w, f)
    BY <1>3, <2>1, WorkKinds DEF QueueingNext, ClosingNext, Closing, Queueing, CreateEntry, At
  <2>4. \A v \in Staff \ {w}, f \in 1..EntryBound :
           (ClosingNext(v, f) <=> Closing(v, f)) /\ (QueueingNext(v, f) <=> Queueing(v, f))
    BY <1>d, <2>1
  <2> QED  BY <1>a, <1>c, <2>2, <2>3, <2>4
<1>4. ASSUME NEW w \in Staff, WriteEntry(w)
      PROVE  Holds
  <2> PICK r \in DecisionWork, row \in EntryRows :
         /\ work[w] \in DecisionWork /\ work[w].at = "write" /\ work' = [work EXCEPT ![w] = r]
         /\ r.at = "after" /\ r.kind = work[w].kind /\ r.entry = work[w].entry
         /\ entries[r.entry] \in EntryRows /\ row = Decided(r.kind, entries[r.entry])
         /\ entries' = [entries EXCEPT ![r.entry] = row] /\ UNCHANGED openItems
    BY <1>4, WriteEntryFacts
  <2>1. work'[w] = r /\ \A v \in Staff \ {w} : work'[v] = work[v]
    BY <1>0, WorkShape
  <2>2. r.kind \in Decisions /\ r.entry \in 1..EntryBound /\ r.kind # "create"
    BY DEF DecisionWork, Decisions
  <2>3. \A f \in 1..EntryBound : entries'[f] = IF f = r.entry THEN row ELSE entries[f]
    BY <1>0, <2>2 DEF RegistryTypeOK
  <2>4. row.status # "CANDIDATE"
    BY <2>2, DecidedRow
  <2>5. \A f \in 1..EntryBound : ~Closing(w, f) /\ ~Queueing(w, f) /\ ~QueueingNext(w, f)
    BY <2>1, <2>2 DEF Closing, Queueing, QueueingNext
  <2>6. \A v \in Staff \ {w}, f \in 1..EntryBound :
           (ClosingNext(v, f) <=> Closing(v, f)) /\ (QueueingNext(v, f) <=> Queueing(v, f))
    BY <1>d, <2>1
  <2>7. entries[r.entry].status # "CANDIDATE" \/ ClosingNext(w, r.entry)
    <3>1. CASE r.kind \in {"approve", "reject"}
      BY <2>1, <3>1 DEF ClosingNext
    <3>2. CASE r.kind \in {"publish", "unpublish"}
      BY <1>c, <3>2 DEF Advanced, Past
    <3> QED  BY <2>2, <3>1, <3>2 DEF Decisions
  <2>8. ASSUME NEW v \in Staff, QueueingNext(v, r.entry)
        PROVE  FALSE
    <3>1. v # w /\ Queueing(v, r.entry)
      BY <2>2, <2>5, <2>6, <2>8
    <3>2. work[v].kind \in K
      BY <3>1 DEF Queueing, K
    <3>3. work[w] # Idle
      BY WorkKinds
    <3> QED  BY <1>b, <3>1, <3>2, <3>3
  <2>9. \A f \in openItems : entries'[f].status = "CANDIDATE" \/ \E v \in Staff : ClosingNext(v, f)
    <3> SUFFICES ASSUME NEW f \in openItems, entries'[f].status # "CANDIDATE"
                 PROVE  \E v \in Staff : ClosingNext(v, f)
      OBVIOUS
    <3>1. f \in 1..EntryBound
      BY <1>c
    <3>2. CASE entries[f].status = "CANDIDATE"
      BY <2>2, <2>3, <2>7, <3>1, <3>2
    <3>3. CASE entries[f].status # "CANDIDATE"
      BY <1>a, <2>5, <2>6, <3>1, <3>3
    <3> QED  BY <3>2, <3>3
  <2>10. ASSUME NEW f \in 1..EntryBound, entries'[f].status = "CANDIDATE"
         PROVE  f \in openItems \/ \E v \in Staff : QueueingNext(v, f)
    BY <1>a, <2>3, <2>4, <2>5, <2>6, <2>10
  <2>11. ASSUME NEW v \in Staff, NEW f \in 1..EntryBound, QueueingNext(v, f)
         PROVE  entries'[f].status = "CANDIDATE"
    BY <1>a, <2>3, <2>5, <2>6, <2>8, <2>11
  <2> QED  BY <2>9, <2>10, <2>11
<1>5. ASSUME NEW w \in Staff, UnpublishContested(w)
      PROVE  Holds
  <2> PICK r \in AppealWork, e \in 1..EntryBound, row \in EntryRows :
         /\ work[w] \in AppealWork /\ work' = [work EXCEPT ![w] = r] /\ Advanced(e)
         /\ entries[e] \in EntryRows /\ row = Decided("unpublish", entries[e])
         /\ entries' = [entries EXCEPT ![e] = row] /\ UNCHANGED openItems
    BY <1>5, UnpublishFacts
  <2>1. work'[w] = r /\ \A v \in Staff \ {w} : work'[v] = work[v]
    BY <1>0, WorkShape
  <2>2. \A f \in 1..EntryBound : entries'[f] = IF f = e THEN row ELSE entries[f]
    BY <1>0 DEF RegistryTypeOK
  <2>3. row.status # "CANDIDATE" /\ entries[e].status # "CANDIDATE"
    BY DecidedRow DEF Decisions, Advanced, Past
  <2>4. \A f \in 1..EntryBound : entries'[f].status = "CANDIDATE" <=> entries[f].status = "CANDIDATE"
    BY <2>2, <2>3
  <2>5. \A f \in 1..EntryBound : ~Closing(w, f) /\ ~Queueing(w, f) /\ ~ClosingNext(w, f) /\ ~QueueingNext(w, f)
    BY <2>1, WorkKinds DEF Closing, Queueing, ClosingNext, QueueingNext
  <2>6. \A v \in Staff \ {w}, f \in 1..EntryBound :
           (ClosingNext(v, f) <=> Closing(v, f)) /\ (QueueingNext(v, f) <=> Queueing(v, f))
    BY <1>d, <2>1
  <2> QED  BY <1>a, <1>c, <2>4, <2>5, <2>6
<1>6. ASSUME NEW w \in Staff, CreateAppeal(w) \/ WriteReview(w) \/ RecordDecision(w)
      PROVE  Holds
  <2>1. /\ work' = [work EXCEPT ![w] = Idle] /\ work[w].kind \in {"appeal", "start", "decide"}
        /\ UNCHANGED <<entries, openItems>>
    BY <1>6, AppealFacts
  <2>2. work'[w] = Idle /\ \A v \in Staff \ {w} : work'[v] = work[v]
    BY <1>0, <2>1, WorkShape
  <2>3. \A e \in 1..EntryBound : ~Closing(w, e) /\ ~Queueing(w, e)
    BY <2>1 DEF Closing, Queueing
  <2>4. Idle.kind # "create"
    BY WorkKinds
  <2> HIDE DEF Holds
  <2> QED  BY <1>e, <2>1, <2>2, <2>3, <2>4
<1>7. ASSUME NEW w \in Staff, QueueCandidate(w) \/ markQueueComplete(w) \/ DraftTakedown(w)
      PROVE  Holds
  <2>1. /\ work' = [work EXCEPT ![w] = Idle] /\ work[w].entry \in 1..EntryBound /\ UNCHANGED entries
        /\ \/ At(w, "create", "queue") /\ openItems' = openItems \union {work[w].entry}
           \/ /\ At(w, "approve", "after") \/ At(w, "reject", "after")
              /\ openItems' = openItems \ {work[w].entry} /\ Advanced(work[w].entry)
           \/ At(w, "publish", "draft") /\ openItems' = openItems
    BY <1>7, ClosingFacts
  <2>2. work'[w] = Idle /\ \A v \in Staff \ {w} : work'[v] = work[v]
    BY <1>0, <2>1, WorkShape
  <2>3. \A f \in 1..EntryBound : ~ClosingNext(w, f) /\ ~QueueingNext(w, f)
    BY <2>2, WorkKinds DEF ClosingNext, QueueingNext
  <2>4. \A v \in Staff \ {w}, f \in 1..EntryBound :
           (ClosingNext(v, f) <=> Closing(v, f)) /\ (QueueingNext(v, f) <=> Queueing(v, f))
    BY <1>d, <2>2
  <2>5. CASE At(w, "create", "queue") /\ openItems' = openItems \union {work[w].entry}
    <3>1. \A f \in 1..EntryBound : ~Closing(w, f) /\ (Queueing(w, f) <=> f = work[w].entry)
      BY <2>5 DEF At, Closing, Queueing
    <3> QED  BY <1>a, <1>c, <2>1, <2>3, <2>4, <2>5, <3>1
  <2>6. CASE /\ At(w, "approve", "after") \/ At(w, "reject", "after")
             /\ openItems' = openItems \ {work[w].entry} /\ Advanced(work[w].entry)
    <3>1. \A f \in 1..EntryBound : ~Queueing(w, f) /\ (Closing(w, f) <=> f = work[w].entry)
      BY <2>6 DEF At, Closing, Queueing
    <3>2. entries[work[w].entry].status # "CANDIDATE"
      BY <2>6 DEF Advanced, Past
    <3> QED  BY <1>a, <1>c, <2>1, <2>3, <2>4, <2>6, <3>1, <3>2
  <2>7. CASE At(w, "publish", "draft") /\ openItems' = openItems
    <3>1. \A f \in 1..EntryBound : ~Closing(w, f) /\ ~Queueing(w, f)
      BY <2>7 DEF At, Closing, Queueing
    <3> QED  BY <1>a, <1>c, <2>1, <2>3, <2>4, <2>7, <3>1
  <2> QED  BY <2>1, <2>5, <2>6, <2>7
<1>8. ASSUME SignalMoves \/ UNCHANGED registryVars
      PROVE  Holds
  <2>1. UNCHANGED <<entries, openItems, work>>
    BY <1>8 DEF SignalMoves, registryVars
  <2> QED  BY <1>a, <2>1 DEF Closing, Queueing, ClosingNext, QueueingNext
<1> HIDE DEF Holds
<1>9. Holds
  BY <1>1, <1>2, <1>3, <1>4, <1>5, <1>6, <1>7, <1>8, RegistryCases
<1>10. \A v \in Staff : work'[v].kind = "create" /\ work'[v].at = "queue" => work'[v].entry \in 1..EntryBound
  <2>1. RegistryTypeOK' /\ \A v \in Staff : Refers(work[v])'
    BY RegistryStep DEF RegistryInv
  <2>2. \A v \in Staff : work'[v].kind = "create" /\ work'[v].at = "queue" => work'[v].entry # 0
    BY <2>1 DEF Refers
  <2>3. \A v \in Staff : work'[v].kind = "create" => work'[v].entry \in 0..EntryBound
    <3>1. \A r \in WorkRecords \union {Idle} : r.kind = "create" => r.entry \in 0..EntryBound
      BY WorkKinds DEF WorkRecords, CreateWork, Decisions
    <3>2. \A v \in Staff : work'[v] \in WorkRecords \union {Idle}
      BY <2>1 DEF RegistryTypeOK
    <3> QED  BY <3>1, <3>2
  <2> QED  BY <2>2, <2>3, RegistryAssumption
<1> QED  BY <1>9, <1>10 DEF Holds, QueueHolds, At, ClosingNext, QueueingNext

\* The types of the entries stay, so a publication that found no draft still finds none
\* when it drafts one, as long as no other publication ran beside it.
LEMMA DraftsStep ==
    RegistryInv /\ MeetingsNoted /\ DraftsApart /\ [RegistryNext]_registryVars => DraftsApart'
<1> DEFINE Clear(e, type) == \A d \in drafts : ~(d[1] = e /\ d[2] = Chosen(type))
           Apart ==
              /\ \A d1, d2 \in drafts' : d1[1] = d2[1] /\ d1[2] = d2[2] => d1 = d2
              /\ \A v \in Staff : work'[v].kind = "publish" /\ work'[v].at = "draft" =>
                    \A d \in drafts' :
                        ~(d[1] = work'[v].entry /\ d[2] = Chosen(entries'[work'[v].entry].type))
<1> SUFFICES ASSUME RegistryInv, MeetingsNoted, DraftsApart, [RegistryNext]_registryVars, Calm({"publish"})'
             PROVE  DraftsApart'
  BY DEF DraftsApart
<1>0. RegistryTypeOK /\ Calm({"publish"})
  BY CalmBefore DEF RegistryInv
<1>a. /\ \A d1, d2 \in drafts : d1[1] = d2[1] /\ d1[2] = d2[2] => d1 = d2
      /\ \A v \in Staff : work[v].kind = "publish" /\ work[v].at = "draft" =>
            Clear(work[v].entry, entries[work[v].entry].type)
  BY <1>0 DEF DraftsApart, At
<1>b. \A v, w \in Staff : v # w /\ work[v].kind = "publish" => work[w] = Idle
  <2> SUFFICES ASSUME NEW v \in Staff, NEW w \in Staff, v # w, work[v].kind = "publish", work[w] # Idle
               PROVE  FALSE
    OBVIOUS
  <2>1. work[v] # Idle
    BY WorkKinds
  <2> QED  BY <1>0, <2>1, Meeting
<1>c. \A v \in Staff : work[v].kind = "publish" =>
         work[v].entry \in 1..EntryBound /\ entries[work[v].entry] # NoEntry
  BY <1>0, WorkShape DEF RegistryInv, Refers, DecisionWork, Decisions
\* No draft is added, and no row that a publication names changes its type.
<1>d. ASSUME NEW w \in Staff, NEW r, work'[w] = r, \A v \in Staff \ {w} : work'[v] = work[v],
             \A f \in 1..EntryBound : entries[f] # NoEntry => entries'[f].type = entries[f].type,
             r.kind = "publish" /\ r.at = "draft" => Clear(r.entry, entries'[r.entry].type),
             UNCHANGED drafts
      PROVE  Apart
  <2>1. ASSUME NEW v \in Staff, work'[v].kind = "publish", work'[v].at = "draft"
        PROVE  Clear(work'[v].entry, entries'[work'[v].entry].type)
    <3>1. CASE v = w
      BY <1>d, <2>1, <3>1
    <3>2. CASE v # w
      <4>1. work'[v] = work[v]
        BY <1>d, <3>2
      <4>2. entries'[work[v].entry].type = entries[work[v].entry].type
        BY <1>c, <1>d, <2>1, <4>1
      <4> QED  BY <1>a, <2>1, <4>1, <4>2
    <3> QED  BY <3>1, <3>2
  <2> QED  BY <1>a, <1>d, <2>1
<1>1. ASSUME NEW w \in Staff,
             \/ createCandidate(w) \/ \E kind \in Decisions : Decide(w, kind)
             \/ fileAppeal(w) \/ startReview(w) \/ decideAppeal(w)
      PROVE  Apart
  <2> PICK r : Begins(w, r)
    BY <1>0, <1>1, BeginFacts
  <2>1. work'[w] = r /\ \A v \in Staff \ {w} : work'[v] = work[v]
    BY <1>0, WorkShape DEF Begins
  <2>2. UNCHANGED <<entries, drafts>> /\ (r.kind = "publish" => r.at # "draft")
    BY DEF Begins, Decisions
  <2> HIDE DEF Apart, Clear
  <2> QED  BY <1>d, <2>1, <2>2
<1>2. ASSUME NEW w \in Staff,
             FinishUnpublish(w) \/ tryAutomate(w) \/ ReadContested(w) \/ CheckContested(w) \/ FailWork(w)
      PROVE  Apart
  <2> PICK r \in WorkRecords \union {Idle} : GoesOn(w, r)
    BY <1>0, <1>2, GoesOnFacts
  <2>1. work'[w] = r /\ \A v \in Staff \ {w} : work'[v] = work[v]
    BY <1>0, WorkShape DEF GoesOn
  <2>2. /\ UNCHANGED <<entries, drafts>>
        /\ r.kind = "publish" => Clear(r.entry, entries[r.entry].type)
    BY WorkKinds DEF GoesOn
  <2> HIDE DEF Apart, Clear
  <2> QED  BY <1>d, <2>1, <2>2
<1>3. ASSUME NEW w \in Staff, CreateEntry(w)
      PROVE  Apart
  <2> PICK e \in 1..EntryBound, row \in EntryRows, r \in CreateWork :
         /\ work' = [work EXCEPT ![w] = r] /\ entries[e] = NoEntry /\ entries' = [entries EXCEPT ![e] = row]
         /\ UNCHANGED drafts
    BY <1>3, CreateEntryFacts
  <2>1. work'[w] = r /\ \A v \in Staff \ {w} : work'[v] = work[v]
    BY <1>0, WorkShape
  <2>2. \A f \in 1..EntryBound : entries[f] # NoEntry => entries'[f].type = entries[f].type
    BY <1>0 DEF RegistryTypeOK
  <2>3. r.kind # "publish"
    BY WorkKinds
  <2> HIDE DEF Apart, Clear
  <2> QED  BY <1>d, <2>1, <2>2, <2>3
<1>4. ASSUME NEW w \in Staff, WriteEntry(w)
      PROVE  Apart
  <2> PICK r \in DecisionWork, row \in EntryRows :
         /\ work' = [work EXCEPT ![w] = r] /\ r.at = "after"
         /\ entries[r.entry] \in EntryRows /\ row = Decided(r.kind, entries[r.entry])
         /\ entries' = [entries EXCEPT ![r.entry] = row] /\ UNCHANGED drafts
    BY <1>4, WriteEntryFacts
  <2>1. work'[w] = r /\ \A v \in Staff \ {w} : work'[v] = work[v]
    BY <1>0, WorkShape
  <2>2. r.kind \in Decisions /\ row.type = entries[r.entry].type
    BY DecidedRow DEF DecisionWork
  <2>3. \A f \in 1..EntryBound : entries[f] # NoEntry => entries'[f].type = entries[f].type
    BY <1>0, <2>2 DEF RegistryTypeOK
  <2> HIDE DEF Apart, Clear
  <2> QED  BY <1>d, <2>1, <2>3
<1>5. ASSUME NEW w \in Staff, UnpublishContested(w)
      PROVE  Apart
  <2> PICK r \in AppealWork, e \in 1..EntryBound, row \in EntryRows :
         /\ work' = [work EXCEPT ![w] = r]
         /\ entries[e] \in EntryRows /\ row = Decided("unpublish", entries[e])
         /\ entries' = [entries EXCEPT ![e] = row] /\ UNCHANGED drafts
    BY <1>5, UnpublishFacts
  <2>1. work'[w] = r /\ \A v \in Staff \ {w} : work'[v] = work[v]
    BY <1>0, WorkShape
  <2>2. row.type = entries[e].type
    BY DecidedRow DEF Decisions
  <2>3. \A f \in 1..EntryBound : entries[f] # NoEntry => entries'[f].type = entries[f].type
    BY <1>0, <2>2 DEF RegistryTypeOK
  <2>4. r.kind # "publish"
    BY WorkKinds
  <2> HIDE DEF Apart, Clear
  <2> QED  BY <1>d, <2>1, <2>3, <2>4
<1>6. ASSUME NEW w \in Staff, CreateAppeal(w) \/ WriteReview(w) \/ RecordDecision(w)
      PROVE  Apart
  <2>1. work' = [work EXCEPT ![w] = Idle] /\ UNCHANGED <<entries, drafts>>
    BY <1>6, AppealFacts
  <2>2. work'[w] = Idle /\ \A v \in Staff \ {w} : work'[v] = work[v]
    BY <1>0, <2>1, WorkShape
  <2>3. Idle.kind # "publish"
    BY WorkKinds
  <2> HIDE DEF Apart, Clear
  <2> QED  BY <1>d, <2>1, <2>2, <2>3
<1>7. ASSUME NEW w \in Staff, QueueCandidate(w) \/ markQueueComplete(w) \/ DraftTakedown(w)
      PROVE  Apart
  <2>1. /\ work[w] # Idle /\ work' = [work EXCEPT ![w] = Idle] /\ UNCHANGED entries
        /\ \/ drafts' = drafts
           \/ /\ At(w, "publish", "draft")
              /\ \E n : drafts' = drafts \union {<<work[w].entry, Chosen(entries[work[w].entry].type), n>>}
    BY <1>7, ClosingFacts
  <2>2. work'[w] = Idle /\ \A v \in Staff \ {w} : work'[v] = work[v]
    BY <1>0, <2>1, WorkShape
  <2>3. Idle.kind # "publish"
    BY WorkKinds
  <2>4. CASE drafts' = drafts
    <3> HIDE DEF Apart, Clear
    <3> QED  BY <1>d, <2>1, <2>2, <2>3, <2>4
  <2>5. CASE At(w, "publish", "draft")
             /\ \E n : drafts' = drafts \union {<<work[w].entry, Chosen(entries[work[w].entry].type), n>>}
    <3> DEFINE chosen == Chosen(entries[work[w].entry].type)
    <3>1. /\ \A d \in drafts : ~(d[1] = work[w].entry /\ d[2] = chosen)
          /\ \E n : drafts' = drafts \union {<<work[w].entry, chosen, n>>}
      BY <1>a, <2>5 DEF At
    <3> HIDE DEF chosen
    <3>2. \A d1, d2 \in drafts' : d1[1] = d2[1] /\ d1[2] = d2[2] => d1 = d2
      BY <1>a, <3>1
    <3>3. \A v \in Staff : work'[v].kind # "publish"
      BY <1>b, <2>1, <2>2, <2>3
    <3> QED  BY <3>2, <3>3
  <2> QED  BY <2>1, <2>4, <2>5
<1>8. ASSUME SignalMoves \/ UNCHANGED registryVars
      PROVE  Apart
  <2>1. UNCHANGED <<entries, drafts, work>>
    BY <1>8 DEF SignalMoves, registryVars
  <2> QED  BY <1>a, <2>1
<1> HIDE DEF Apart
<1>9. Apart
  BY <1>1, <1>2, <1>3, <1>4, <1>5, <1>6, <1>7, <1>8, RegistryCases
<1> QED  BY <1>9 DEF Apart, DraftsApart, At

RegistryIInv == RegistryInv /\ MeetingsNoted /\ RefusalsStand /\ AppealsStand /\ QueueHolds /\ DraftsApart

\* The inductive invariant of the registry: the types and references, the overlaps, and
\* the four promises in the form in which each step keeps them.
THEOREM RegistryInvariance == RegistrySpec => []RegistryIInv
<1>1. RegistryInit => RegistryIInv
  BY InitRegistry DEF RegistryIInv
<1>2. RegistryIInv /\ [RegistryNext]_registryVars => RegistryIInv'
  BY RegistryStep, RefusalsStep, AppealsStep, QueueStep, DraftsStep DEF RegistryIInv
<1> QED  BY <1>1, <1>2, PTL DEF RegistrySpec

\* RegistryAppealService: an accepted appeal that asks for it keeps its entry off the
\* public registry until the entry is published anew, for any number of reviewers, as
\* long as no publication runs beside another request.
THEOREM AppealsAreHonoured == RegistrySpec => []AppealHonoured
<1>1. RegistryIInv => AppealHonoured
  BY DEF RegistryIInv, AppealsStand, AppealHonoured
<1> QED  BY <1>1, RegistryInvariance, PTL

\* RegistryService and TakedownAutomationService: what is published was approved and not
\* rejected, the review queue holds exactly the candidates, and one takedown is drafted
\* for an entry and a provider, under the overlaps each of them excepts.
THEOREM RegistryIsHonest == RegistrySpec => []RegistryHonest
<1>1. RegistryIInv => PublishedWasApproved
  <2> SUFFICES ASSUME RegistryInv, RefusalsStand PROVE PublishedWasApproved
    BY DEF RegistryIInv
  <2>1. DOMAIN entries = 1..EntryBound
    BY DEF RegistryInv, RegistryTypeOK
  <2>2. /\ Calm(Decisions) => \A e \in refused : entries[e].status = "REJECTED"
        /\ \A e \in 1..EntryBound :
              /\ entries[e].status = "PUBLISHED" => entries[e].approvedAt
              /\ entries[e].status = "PUBLISHED" => entries[e].publishedAt
    BY DEF RegistryInv, RefusalsStand
  <2> QED  BY <2>1, <2>2 DEF PublishedWasApproved
<1>2. RegistryIInv => CandidatesQueued
  <2> DEFINE K == {"create", "approve", "reject"}
  <2> SUFFICES ASSUME RegistryInv, QueueHolds, AtRest(K), Whole(K), Calm(K)
               PROVE  \A e \in DOMAIN entries : e \in openItems <=> entries[e].status = "CANDIDATE"
    BY DEF RegistryIInv, CandidatesQueued
  <2>1. DOMAIN entries = 1..EntryBound
    BY DEF RegistryInv, RegistryTypeOK
  <2>2. \A w \in Staff : ~At(w, "create", "queue") /\ ~At(w, "approve", "after") /\ ~At(w, "reject", "after")
    BY DEF AtRest, At
  <2> QED  BY <2>1, <2>2 DEF QueueHolds
<1>3. RegistryIInv => OneDraft
  BY DEF RegistryIInv, DraftsApart, OneDraft
<1>4. RegistryIInv => RegistryHonest
  BY <1>1, <1>2, <1>3 DEF RegistryHonest
<1> QED  BY <1>4, RegistryInvariance, PTL
-----------------------------------------------------------------------------
(* The enrichment of signals. *)

Stages == {"none", "draft", "osint"} \union Clustering \union Embedding \union Graphing
Workers == [at: Stages, signal: Signals \union {Campaign}, score: Nat, text: BOOLEAN,
            key: Keys \union {NoKey}, read: Nat, todo: SUBSET (Signals \union Keys)]
Spoils == [recount: BOOLEAN, risk: SUBSET Signals, failed: SUBSET Signals, draft: BOOLEAN]

GraphTypeOK ==
    /\ DOMAIN clusters \subseteq Keys /\ clusters = [k \in DOMAIN clusters |-> clusters[k]]
    /\ clusterOf \in [Signals -> Keys \union {NoKey}]
    /\ embedded \subseteq Signals
    /\ nodes \in [Signals -> [count: Nat, risk: Nat]]
    /\ processed \in [Signals -> SUBSET Nat]
    /\ suggested \in [Keys -> Nat]
    /\ crew \in [Crew -> Workers]
    /\ spoilt \in Spoils

\* A signal on its way, by how far it is: it has a key, its cluster is there, it is
\* linked to it, it has its node.
Fits(c) ==
    LET s == c.signal
    IN  /\ c.at \notin {"none", "draft"} => s \in Signals
        /\ c.at \in Clustering => KeyOf[s] # NoKey
        /\ c.at \in {"link", "count", "counted"} => KeyOf[s] \in DOMAIN clusters
        /\ c.at \in {"count", "counted"} => clusterOf[s] = KeyOf[s]
        /\ c.at \in Embedding \union Graphing /\ s \notin spoilt.failed => c.key = KeyOf[s] /\ clusterOf[s] = KeyOf[s]
        /\ c.at \in {"peers", "linkPeers", "sims", "linkSims"} => nodes[s] # NoNode
WorkersFit == \A w \in Crew : Fits(crew[w])

\* A signal is in the cluster of its key or in none; with a node and without failures it
\* is in it.
ClustersFit ==
    \A s \in Signals :
        /\ clusterOf[s] \in {NoKey, KeyOf[s]}
        /\ clusterOf[s] # NoKey => clusterOf[s] \in DOMAIN clusters
        /\ nodes[s] # NoNode /\ s \notin spoilt.failed => clusterOf[s] = KeyOf[s]

GraphInv == GraphTypeOK /\ WorkersFit /\ ClustersFit

Through(s) == s \in Signals /\ nodes[s] # NoNode /\ s \notin spoilt.failed

\* A request is to look for the peers of its signal, or to link this one.
EdgeTypes == {"CO_OCCURRENCE_CLUSTER", "SIMILAR_TEXT"}
Heading(c, t, type) ==
    \/ type = "CO_OCCURRENCE_CLUSTER" /\ (c.at = "peers" \/ (c.at = "linkPeers" /\ t \in c.todo))
    \/ type = "SIMILAR_TEXT" /\ \/ c.at \in {"node", "createNode", "updateNode", "peers", "linkPeers", "sims"}
                                \/ c.at = "linkSims" /\ t \in c.todo
Linking(s, t, type) == \E w \in Crew : crew[w].signal = s /\ Heading(crew[w], t, type)

\* Two signals of a cluster, or on record as similar, have their edge, or the request of
\* one of them is to link the other.
Owed(s, t, type) ==
    \/ type = "CO_OCCURRENCE_CLUSTER" /\ KeyOf[s] = KeyOf[t] /\ KeyOf[s] # NoKey
    \/ type = "SIMILAR_TEXT" /\ Ordered(s, t) \in similar
Joined(s, t, type) == upsertEdge(s, t, type) \subseteq edges
Meet(type) ==
    \A s, t \in Signals : s # t /\ Through(s) /\ Through(t) /\ Owed(s, t, type) =>
        Joined(s, t, type) \/ Linking(s, t, type) \/ Linking(t, s, type)
PeersMeet == \A type \in EdgeTypes : Meet(type)

\* Two signals of similar text are on record as such, or one is about to be compared.
Compared(s) == \E w \in Crew : crew[w].signal = s /\ crew[w].at = "similar"
AlikeMeet ==
    \A s, t \in Signals :
        s # t /\ {s, t} \subseteq embedded \ spoilt.failed /\ Ordered(s, t) \in Alike =>
            Ordered(s, t) \in similar \/ Compared(s) \/ Compared(t)

EdgesOrdered == \A e \in edges : e[1] < e[2]

\* A cluster's count is right, about to be written, or spoilt; what was counted last is
\* still right unless another signal was linked since.
Counting(k) == \E w \in Crew : crew[w].at \in {"count", "counted"} /\ KeyOf[crew[w].signal] = k
CountsFit ==
    /\ ~spoilt.recount =>
          \A w \in Crew : crew[w].at = "counted" => crew[w].read = Cardinality(Linked(KeyOf[crew[w].signal]))
    /\ \A k \in DOMAIN clusters :
          \/ spoilt.recount \/ Linked(k) \intersect spoilt.failed # {} \/ clusters[k] = Cardinality(Linked(k))
          \/ Counting(k)

Highest(n, S) == n \in S /\ \A m \in S : m <= n
RisksFit ==
    \A s \in Signals :
        /\ nodes[s] = NoNode => processed[s] = {}
        /\ nodes[s] # NoNode => s \in spoilt.risk \/ Highest(nodes[s].risk, processed[s])

DraftsFit ==
    ~spoilt.draft => /\ \A k \in Keys : suggested[k] <= 1
                     /\ \A w \in Crew : crew[w].at = "draft" => \A k \in crew[w].todo \intersect Keys : suggested[k] = 0

-----------------------------------------------------------------------------
\* One request moves on with its signal, and the others stay where they are.
Turned(w, at, key, read, todo) ==
    /\ crew' \in [Crew -> Workers]
    /\ \A v \in Crew : v # w => crew'[v] = crew[v]
    /\ crew'[w].signal = crew[w].signal /\ crew'[w].score = crew[w].score
    /\ crew'[w].at = at /\ crew'[w].key = key /\ crew'[w].read = read /\ crew'[w].todo = todo

\* A step that changes only where its request is.
LEMMA TurnAt ==
    ASSUME crew \in [Crew -> Workers], NEW w \in Crew, NEW a \in Stages, crew' = [crew EXCEPT ![w].at = a]
    PROVE  Turned(w, a, crew[w].key, crew[w].read, crew[w].todo)
<1>1. crew[w] \in Workers
  OBVIOUS
<1>2. [crew[w] EXCEPT !.at = a] \in Workers
  BY <1>1 DEF Workers
<1>3. crew' = [crew EXCEPT ![w] = [crew[w] EXCEPT !.at = a]]
  OBVIOUS
<1>4. crew' \in [Crew -> Workers]
  BY <1>2, <1>3
<1> QED  BY <1>1, <1>3, <1>4 DEF Turned, Workers

\* A step that changes only what its request still has to do.
LEMMA TurnTodo ==
    ASSUME crew \in [Crew -> Workers], NEW w \in Crew, NEW T \in SUBSET (Signals \union Keys),
           crew' = [crew EXCEPT ![w].todo = T]
    PROVE  Turned(w, crew[w].at, crew[w].key, crew[w].read, T)
<1>1. crew[w] \in Workers
  OBVIOUS
<1>2. [crew[w] EXCEPT !.todo = T] \in Workers
  BY <1>1 DEF Workers
<1>3. crew' = [crew EXCEPT ![w] = [crew[w] EXCEPT !.todo = T]]
  OBVIOUS
<1>4. crew' \in [Crew -> Workers]
  BY <1>2, <1>3
<1> QED  BY <1>1, <1>3, <1>4 DEF Turned, Workers

\* A step in which its request reads a number.
LEMMA TurnRead ==
    ASSUME crew \in [Crew -> Workers], NEW w \in Crew, NEW a \in Stages, NEW r \in Nat,
           crew' = [crew EXCEPT ![w].at = a, ![w].read = r]
    PROVE  Turned(w, a, crew[w].key, r, crew[w].todo)
<1>1. crew[w] \in Workers
  OBVIOUS
<1>2. [crew[w] EXCEPT !.at = a, !.read = r] \in Workers
  BY <1>1 DEF Workers
<1>3. crew' = [crew EXCEPT ![w] = [crew[w] EXCEPT !.at = a, !.read = r]]
  OBVIOUS
<1>4. crew' \in [Crew -> Workers]
  BY <1>2, <1>3
<1> QED  BY <1>1, <1>3, <1>4 DEF Turned, Workers

\* A step in which its request learns its cluster.
LEMMA TurnKey ==
    ASSUME crew \in [Crew -> Workers], NEW w \in Crew, NEW a \in Stages, NEW k \in Keys \union {NoKey},
           crew' = [crew EXCEPT ![w].at = a, ![w].key = k]
    PROVE  Turned(w, a, k, crew[w].read, crew[w].todo)
<1>1. crew[w] \in Workers
  OBVIOUS
<1>2. [crew[w] EXCEPT !.at = a, !.key = k] \in Workers
  BY <1>1 DEF Workers
<1>3. crew' = [crew EXCEPT ![w] = [crew[w] EXCEPT !.at = a, !.key = k]]
  OBVIOUS
<1>4. crew' \in [Crew -> Workers]
  BY <1>2, <1>3
<1> QED  BY <1>1, <1>3, <1>4 DEF Turned, Workers

\* A step in which its request learns what to do next.
LEMMA TurnAtTodo ==
    ASSUME crew \in [Crew -> Workers], NEW w \in Crew, NEW a \in Stages, NEW T \in SUBSET (Signals \union Keys),
           crew' = [crew EXCEPT ![w].at = a, ![w].todo = T]
    PROVE  Turned(w, a, crew[w].key, crew[w].read, T)
<1>1. crew[w] \in Workers
  OBVIOUS
<1>2. [crew[w] EXCEPT !.at = a, !.todo = T] \in Workers
  BY <1>1 DEF Workers
<1>3. crew' = [crew EXCEPT ![w] = [crew[w] EXCEPT !.at = a, !.todo = T]]
  OBVIOUS
<1>4. crew' \in [Crew -> Workers]
  BY <1>2, <1>3
<1> QED  BY <1>1, <1>3, <1>4 DEF Turned, Workers

\* The stages of a request, one by one.
LEMMA StagesKnown ==
    /\ {"none", "draft", "osint", "find", "create", "link", "count", "counted", "embed", "similar"} \subseteq Stages
    /\ {"node", "createNode", "updateNode", "peers", "linkPeers", "sims", "linkSims"} \subseteq Stages
  BY DEF Stages, Clustering, Embedding, Graphing

\* Where each action takes the request that takes it.
LEMMA Moves ==
    ASSUME GraphTypeOK, WorkersFit, NEW w \in Crew, NEW c, c = crew[w]
    PROVE  /\ FindCluster(w) =>
                Turned(w, IF KeyOf[c.signal] \in DOMAIN clusters THEN "link" ELSE "create", c.key, c.read, c.todo)
           /\ CreateCluster(w) =>
                Turned(w, IF KeyOf[c.signal] \in DOMAIN clusters THEN "embed" ELSE "link", c.key, c.read, c.todo)
           /\ LinkSignal(w) => Turned(w, "count", c.key, c.read, c.todo)
           /\ CountSignals(w) => Turned(w, "counted", c.key, Cardinality(Linked(KeyOf[c.signal])), c.todo)
           /\ recount(w) => Turned(w, "embed", clusterOf[c.signal], c.read, c.todo)
           /\ embedSignal(w) => Turned(w, IF c.text THEN "similar" ELSE "node", c.key, c.read, c.todo)
           /\ persistSimilar(w) => Turned(w, "node", c.key, c.read, c.todo)
           /\ ReadNode(w) =>
                Turned(w, IF nodes[c.signal] = NoNode THEN "createNode" ELSE "updateNode", c.key,
                       nodes[c.signal].risk, c.todo)
           /\ ensureNodeForSignal(w) =>
                Turned(w, IF c.at = "createNode" /\ nodes[c.signal] # NoNode THEN "osint" ELSE "peers",
                       c.key, c.read, c.todo)
           /\ ReadPeers(w) =>
                Turned(w, IF c.at = "peers" THEN "linkPeers" ELSE "linkSims", c.key, c.read,
                       IF c.at = "peers" THEN Siblings(w) ELSE SimilarTo(c.signal))
           /\ \A peer \in Signals : LinkPeer(w, peer) => Turned(w, c.at, c.key, c.read, c.todo \ {peer})
           /\ PeersDone(w) => Turned(w, IF c.at = "linkPeers" THEN "sims" ELSE "osint", c.key, c.read, c.todo)
           /\ PhaseFails(w) =>
                Turned(w, IF c.at \in Clustering THEN "embed" ELSE IF c.at \in Embedding THEN "node" ELSE "osint",
                       c.key, c.read, {})
           /\ \A k \in Keys : createSuggestion(w, k) => Turned(w, c.at, c.key, c.read, c.todo \ {k})
<1>1. /\ crew \in [Crew -> Workers] /\ c \in Workers /\ c.at \in Stages /\ c.read \in Nat
      /\ c.todo \subseteq Signals \union Keys
  BY DEF GraphTypeOK, Workers
<1>2. c.at \notin {"none", "draft"} =>
         c.signal \in Signals /\ clusterOf[c.signal] \in Keys \union {NoKey} /\ nodes[c.signal].risk \in Nat
  BY DEF GraphTypeOK, WorkersFit, Fits
<1>3. ASSUME FindCluster(w)
      PROVE  Turned(w, IF KeyOf[c.signal] \in DOMAIN clusters THEN "link" ELSE "create", c.key, c.read, c.todo)
  <2> DEFINE a == IF KeyOf[c.signal] \in DOMAIN clusters THEN "link" ELSE "create"
  <2>1. crew' = [crew EXCEPT ![w].at = a] /\ a \in Stages
    BY <1>3, StagesKnown DEF FindCluster, GoTo
  <2> HIDE DEF a
  <2>2. Turned(w, a, c.key, c.read, c.todo)
    BY <1>1, <2>1, TurnAt
  <2> QED  BY <2>2 DEF a
<1>4. ASSUME CreateCluster(w)
      PROVE  Turned(w, IF KeyOf[c.signal] \in DOMAIN clusters THEN "embed" ELSE "link", c.key, c.read, c.todo)
  <2> DEFINE a == IF KeyOf[c.signal] \in DOMAIN clusters THEN "embed" ELSE "link"
  <2>1. crew' = [crew EXCEPT ![w].at = a] /\ a \in Stages
    BY <1>4, StagesKnown DEF CreateCluster, GoTo
  <2> HIDE DEF a
  <2>2. Turned(w, a, c.key, c.read, c.todo)
    BY <1>1, <2>1, TurnAt
  <2> QED  BY <2>2 DEF a
<1>5. LinkSignal(w) => Turned(w, "count", c.key, c.read, c.todo)
  BY <1>1, TurnAt, StagesKnown DEF LinkSignal, GoTo
<1>6. ASSUME CountSignals(w)
      PROVE  Turned(w, "counted", c.key, Cardinality(Linked(KeyOf[c.signal])), c.todo)
  <2>1. Cardinality(Linked(KeyOf[c.signal])) \in Nat
    <3>1. Linked(KeyOf[c.signal]) \subseteq Signals
      BY DEF Linked
    <3> QED  BY <3>1, FS_Subset, FS_CardinalityType, IntelAssumption
  <2>2. crew' = [crew EXCEPT ![w].at = "counted", ![w].read = Cardinality(Linked(KeyOf[c.signal]))]
    BY <1>6 DEF CountSignals
  <2>3. Turned(w, "counted", c.key, Cardinality(Linked(KeyOf[c.signal])), c.todo)
    BY <1>1, <2>1, <2>2, TurnRead, StagesKnown
  <2> QED  BY <2>3
<1>7. recount(w) => Turned(w, "embed", clusterOf[c.signal], c.read, c.todo)
  BY <1>1, <1>2, TurnKey, StagesKnown DEF recount
<1>8. ASSUME embedSignal(w)
      PROVE  Turned(w, IF c.text THEN "similar" ELSE "node", c.key, c.read, c.todo)
  <2> DEFINE a == IF c.text THEN "similar" ELSE "node"
  <2>1. crew' = [crew EXCEPT ![w].at = a] /\ a \in Stages
    BY <1>8, StagesKnown DEF embedSignal, GoTo
  <2> HIDE DEF a
  <2>2. Turned(w, a, c.key, c.read, c.todo)
    BY <1>1, <2>1, TurnAt
  <2> QED  BY <2>2 DEF a
<1>9. persistSimilar(w) => Turned(w, "node", c.key, c.read, c.todo)
  BY <1>1, TurnAt, StagesKnown DEF persistSimilar, GoTo
<1>10. ASSUME ReadNode(w)
      PROVE  Turned(w, IF nodes[c.signal] = NoNode THEN "createNode" ELSE "updateNode", c.key,
                     nodes[c.signal].risk, c.todo)
  <2> DEFINE a == IF nodes[c.signal] = NoNode THEN "createNode" ELSE "updateNode"
  <2>1. crew' = [crew EXCEPT ![w].at = a, ![w].read = nodes[c.signal].risk] /\ a \in Stages
    BY <1>10, StagesKnown DEF ReadNode
  <2>2. nodes[c.signal].risk \in Nat
    BY <1>2, <1>10 DEF ReadNode
  <2> HIDE DEF a
  <2>3. Turned(w, a, c.key, nodes[c.signal].risk, c.todo)
    BY <1>1, <2>1, <2>2, TurnRead
  <2> QED  BY <2>3 DEF a
<1>11. ASSUME ensureNodeForSignal(w)
      PROVE  Turned(w, IF c.at = "createNode" /\ nodes[c.signal] # NoNode THEN "osint" ELSE "peers",
                     c.key, c.read, c.todo)
  <2> DEFINE a == IF c.at = "createNode" /\ nodes[c.signal] # NoNode THEN "osint" ELSE "peers"
  <2>1. crew' = [crew EXCEPT ![w].at = a] /\ a \in Stages
    BY <1>11, StagesKnown DEF ensureNodeForSignal, GoTo
  <2> HIDE DEF a
  <2>2. Turned(w, a, c.key, c.read, c.todo)
    BY <1>1, <2>1, TurnAt
  <2> QED  BY <2>2 DEF a
<1>12. ASSUME ReadPeers(w)
      PROVE  Turned(w, IF c.at = "peers" THEN "linkPeers" ELSE "linkSims", c.key, c.read,
                     IF c.at = "peers" THEN Siblings(w) ELSE SimilarTo(c.signal))
  <2> DEFINE a == IF c.at = "peers" THEN "linkPeers" ELSE "linkSims"
             T == IF c.at = "peers" THEN Siblings(w) ELSE SimilarTo(c.signal)
  <2>1. crew' = [crew EXCEPT ![w].at = a, ![w].todo = T]
    BY <1>12 DEF ReadPeers
  <2>2. a \in Stages /\ T \in SUBSET (Signals \union Keys)
    BY StagesKnown DEF Siblings, SimilarTo
  <2> HIDE DEF a, T
  <2>3. Turned(w, a, c.key, c.read, T)
    BY <1>1, <2>1, <2>2, TurnAtTodo
  <2> QED  BY <2>3 DEF a, T
<1>13. ASSUME NEW peer \in Signals, LinkPeer(w, peer)
       PROVE  Turned(w, c.at, c.key, c.read, c.todo \ {peer})
  <2>1. crew' = [crew EXCEPT ![w].todo = c.todo \ {peer}] /\ c.todo \ {peer} \in SUBSET (Signals \union Keys)
    BY <1>1, <1>13 DEF LinkPeer
  <2> QED  BY <1>1, <2>1, TurnTodo
<1>14. ASSUME PeersDone(w)
      PROVE  Turned(w, IF c.at = "linkPeers" THEN "sims" ELSE "osint", c.key, c.read, c.todo)
  <2> DEFINE a == IF c.at = "linkPeers" THEN "sims" ELSE "osint"
  <2>1. crew' = [crew EXCEPT ![w].at = a] /\ a \in Stages
    BY <1>14, StagesKnown DEF PeersDone, GoTo
  <2> HIDE DEF a
  <2>2. Turned(w, a, c.key, c.read, c.todo)
    BY <1>1, <2>1, TurnAt
  <2> QED  BY <2>2 DEF a
<1>15. ASSUME PhaseFails(w)
      PROVE  Turned(w, IF c.at \in Clustering THEN "embed" ELSE IF c.at \in Embedding THEN "node" ELSE "osint",
                     c.key, c.read, {})
  <2> DEFINE a == IF c.at \in Clustering THEN "embed" ELSE IF c.at \in Embedding THEN "node" ELSE "osint"
  <2>1. crew' = [crew EXCEPT ![w].at = a, ![w].todo = {}]
    <3>1. crew' = [crew EXCEPT ![w].at = CASE c.at \in Clustering -> "embed" [] c.at \in Embedding -> "node"
                                            [] OTHER -> "osint", ![w].todo = {}]
      BY <1>15 DEF PhaseFails
    <3>2. a = CASE c.at \in Clustering -> "embed" [] c.at \in Embedding -> "node" [] OTHER -> "osint"
      BY DEF Clustering, Embedding
    <3> HIDE DEF a
    <3> QED  BY <3>1, <3>2
  <2>2. a \in Stages
    BY StagesKnown
  <2> HIDE DEF a
  <2>3. Turned(w, a, c.key, c.read, {})
    BY <1>1, <2>1, <2>2, TurnAtTodo
  <2> QED  BY <2>3 DEF a
<1>16. ASSUME NEW k \in Keys, createSuggestion(w, k)
       PROVE  Turned(w, c.at, c.key, c.read, c.todo \ {k})
  <2>1. crew' = [crew EXCEPT ![w].todo = c.todo \ {k}] /\ c.todo \ {k} \in SUBSET (Signals \union Keys)
    BY <1>1, <1>16 DEF createSuggestion
  <2> QED  BY <1>1, <2>1, TurnTodo
<1> QED  BY <1>3, <1>4, <1>5, <1>6, <1>7, <1>8, <1>9, <1>10, <1>11, <1>12, <1>13, <1>14, <1>15, <1>16

\* A request begins with what it was given, or comes to rest.
LEMMA Turns ==
    ASSUME GraphTypeOK, NEW w \in Crew
    PROVE  /\ \A s \in Signals, score \in Scores, text \in BOOLEAN : Hand(w, s, score, text) =>
                /\ crew' \in [Crew -> Workers] /\ \A v \in Crew : v # w => crew'[v] = crew[v]
                /\ crew'[w].at = IF KeyOf[s] = NoKey THEN "embed" ELSE "find"
                /\ crew'[w].signal = s /\ crew'[w].key = clusterOf[s] /\ crew'[w].todo = {}
           /\ generateSuggestions(w) =>
                /\ crew' \in [Crew -> Workers] /\ \A v \in Crew : v # w => crew'[v] = crew[v]
                /\ crew'[w].at = "draft" /\ crew'[w].signal = Campaign
                /\ \A k \in crew'[w].todo : k \in Keys /\ suggested[k] = 0
           /\ enrichSignal(w) \/ SuggestionsDone(w) =>
                /\ crew' \in [Crew -> Workers] /\ \A v \in Crew : v # w => crew'[v] = crew[v]
                /\ crew'[w] = Resting
<1>1. crew \in [Crew -> Workers] /\ Resting \in Workers /\ \A s \in Signals : clusterOf[s] \in Keys \union {NoKey}
  BY StagesKnown DEF GraphTypeOK, Workers, Resting
<1>2. ASSUME NEW s \in Signals, NEW score \in Scores, NEW text \in BOOLEAN, Hand(w, s, score, text)
      PROVE  /\ crew' \in [Crew -> Workers] /\ \A v \in Crew : v # w => crew'[v] = crew[v]
             /\ crew'[w].at = IF KeyOf[s] = NoKey THEN "embed" ELSE "find"
             /\ crew'[w].signal = s /\ crew'[w].key = clusterOf[s] /\ crew'[w].todo = {}
  <2> DEFINE a == IF KeyOf[s] = NoKey THEN "embed" ELSE "find"
             r == [Resting EXCEPT !.at = a, !.signal = s, !.score = score, !.text = text, !.key = clusterOf[s]]
  <2>1. crew' = [crew EXCEPT ![w] = r]
    BY <1>2 DEF Hand
  <2>2. a \in Stages /\ score \in Nat
    BY StagesKnown, IntelAssumption
  <2>3. r \in Workers /\ r.at = a /\ r.signal = s /\ r.key = clusterOf[s] /\ r.todo = Resting.todo
    <3> HIDE DEF a
    <3> QED  BY <1>1, <2>2 DEF Workers
  <2>4. crew' \in [Crew -> Workers] /\ (\A v \in Crew : v # w => crew'[v] = crew[v]) /\ crew'[w] = r
    <3> HIDE DEF r
    <3> QED  BY <1>1, <2>1, <2>3
  <2>5. Resting.todo = {}
    BY DEF Resting
  <2> HIDE DEF r
  <2> QED  BY <2>3, <2>4, <2>5
<1>3. ASSUME generateSuggestions(w)
      PROVE  /\ crew' \in [Crew -> Workers] /\ \A v \in Crew : v # w => crew'[v] = crew[v]
             /\ crew'[w].at = "draft" /\ crew'[w].signal = Campaign
             /\ \A k \in crew'[w].todo : k \in Keys /\ suggested[k] = 0
  <2>1. PICK fit \in SUBSET Keys :
           crew' = [crew EXCEPT ![w] = [Resting EXCEPT !.at = "draft",
                      !.todo = {k \in DOMAIN clusters \intersect fit :
                                  clusters[k] >= MIN_SIGNALS_FOR_SUGGESTION /\ suggested[k] = 0}]]
    BY <1>3 DEF generateSuggestions
  <2> DEFINE T == {k \in DOMAIN clusters \intersect fit :
                     clusters[k] >= MIN_SIGNALS_FOR_SUGGESTION /\ suggested[k] = 0}
             r == [Resting EXCEPT !.at = "draft", !.todo = T]
  <2>2. \A k \in T : k \in Keys /\ suggested[k] = 0
    OBVIOUS
  <2>3. crew' = [crew EXCEPT ![w] = r]
    BY <2>1
  <2>4. r \in Workers /\ r.at = "draft" /\ r.signal = Resting.signal /\ r.todo = T
    <3> HIDE DEF T
    <3> QED  BY <1>1, <2>2, StagesKnown DEF Workers
  <2>5. crew' \in [Crew -> Workers] /\ (\A v \in Crew : v # w => crew'[v] = crew[v]) /\ crew'[w] = r
    <3> HIDE DEF r
    <3> QED  BY <1>1, <2>3, <2>4
  <2>6. Resting.signal = Campaign
    BY DEF Resting
  <2> HIDE DEF r, T
  <2> QED  BY <2>2, <2>4, <2>5, <2>6
<1>4. ASSUME enrichSignal(w) \/ SuggestionsDone(w)
      PROVE  /\ crew' \in [Crew -> Workers] /\ \A v \in Crew : v # w => crew'[v] = crew[v]
             /\ crew'[w] = Resting
  <2>1. crew' = [crew EXCEPT ![w] = Resting]
    BY <1>4 DEF enrichSignal, SuggestionsDone
  <2> QED  BY <1>1, <2>1
<1> QED  BY <1>2, <1>3, <1>4

\* Every request stays one.
LEMMA CrewTyped ==
    ASSUME GraphTypeOK, WorkersFit, [IntelNext]_intelVars
    PROVE  crew' \in [Crew -> Workers]
<1>1. ASSUME NEW w \in Crew,
             \/ FindCluster(w) \/ CreateCluster(w) \/ LinkSignal(w) \/ CountSignals(w) \/ recount(w)
             \/ embedSignal(w) \/ persistSimilar(w) \/ ReadNode(w) \/ ensureNodeForSignal(w)
             \/ ReadPeers(w) \/ PeersDone(w) \/ PhaseFails(w)
      PROVE  crew' \in [Crew -> Workers]
  BY <1>1, Moves DEF Turned
<1>2. ASSUME NEW w \in Crew, NEW peer \in Signals, LinkPeer(w, peer)
      PROVE  crew' \in [Crew -> Workers]
  BY <1>2, Moves DEF Turned
<1>3. ASSUME NEW w \in Crew, NEW k \in Keys, createSuggestion(w, k)
      PROVE  crew' \in [Crew -> Workers]
  BY <1>3, Moves DEF Turned
<1>4. ASSUME NEW w \in Crew, generateSuggestions(w) \/ enrichSignal(w) \/ SuggestionsDone(w)
      PROVE  crew' \in [Crew -> Workers]
  BY <1>4, Turns
<1>5. ASSUME NEW w \in Crew, NEW s \in Signals, NEW score \in Scores, NEW text \in BOOLEAN, Hand(w, s, score, text)
      PROVE  crew' \in [Crew -> Workers]
  BY <1>5, Turns
<1>6. ASSUME UNCHANGED crew
      PROVE  crew' \in [Crew -> Workers]
  BY <1>6 DEF GraphTypeOK
<1>7. \A s \in Signals : addCampaignMember(s) \/ removeCampaignMember(s) => UNCHANGED crew
  BY DEF addCampaignMember, removeCampaignMember
<1> QED  BY <1>1, <1>2, <1>3, <1>4, <1>5, <1>6, <1>7 DEF IntelNext, intelVars

\* What a step adds to the record of overlaps and failures, and leaves of the rest of it.
LEMMA Spoilt ==
    ASSUME spoilt \in Spoils, NEW s \in Signals, NEW b
    PROVE  /\ spoilt' = [spoilt EXCEPT !.failed = @ \union {s}] =>
                /\ spoilt' \in Spoils /\ spoilt'.failed = spoilt.failed \union {s}
                /\ spoilt'.recount = spoilt.recount /\ spoilt'.risk = spoilt.risk /\ spoilt'.draft = spoilt.draft
           /\ spoilt' = [spoilt EXCEPT !.risk = IF b THEN @ \union {s} ELSE @] =>
                /\ spoilt' \in Spoils /\ spoilt'.risk = IF b THEN spoilt.risk \union {s} ELSE spoilt.risk
                /\ spoilt'.recount = spoilt.recount /\ spoilt'.failed = spoilt.failed /\ spoilt'.draft = spoilt.draft
           /\ spoilt' = [spoilt EXCEPT !.recount = @ \/ b] =>
                /\ spoilt' \in Spoils /\ (spoilt'.recount <=> spoilt.recount \/ b)
                /\ spoilt'.risk = spoilt.risk /\ spoilt'.failed = spoilt.failed /\ spoilt'.draft = spoilt.draft
<1>1. spoilt' = [spoilt EXCEPT !.failed = @ \union {s}] =>
          /\ spoilt' \in Spoils /\ spoilt'.failed = spoilt.failed \union {s}
          /\ spoilt'.recount = spoilt.recount /\ spoilt'.risk = spoilt.risk /\ spoilt'.draft = spoilt.draft
  BY DEF Spoils
<1>2. spoilt' = [spoilt EXCEPT !.risk = IF b THEN @ \union {s} ELSE @] =>
          /\ spoilt' \in Spoils /\ spoilt'.risk = IF b THEN spoilt.risk \union {s} ELSE spoilt.risk
          /\ spoilt'.recount = spoilt.recount /\ spoilt'.failed = spoilt.failed /\ spoilt'.draft = spoilt.draft
  BY DEF Spoils
<1>3. spoilt' = [spoilt EXCEPT !.recount = @ \/ b] =>
          /\ spoilt' \in Spoils /\ (spoilt'.recount <=> spoilt.recount \/ b)
          /\ spoilt'.risk = spoilt.risk /\ spoilt'.failed = spoilt.failed /\ spoilt'.draft = spoilt.draft
  BY DEF Spoils
<1> QED  BY <1>1, <1>2, <1>3

\* The same of two generations of suggestions.
LEMMA Redrafted ==
    ASSUME spoilt \in Spoils, NEW b, spoilt' = [spoilt EXCEPT !.draft = @ \/ b]
    PROVE  /\ spoilt' \in Spoils /\ (spoilt'.draft <=> spoilt.draft \/ b)
           /\ spoilt'.risk = spoilt.risk /\ spoilt'.failed = spoilt.failed /\ spoilt'.recount = spoilt.recount
  BY DEF Spoils

\* Max of FiniteSetsExt, of two numbers.
LEMMA LargerOfTwo ==
    ASSUME NEW a \in Nat, NEW b \in Nat
    PROVE  Max({a, b}) = IF a >= b THEN a ELSE b
  BY DEF Max

\* And of any set with a highest number.
LEMMA MaxIsHighest ==
    ASSUME NEW S \in SUBSET Nat, NEW n, Highest(n, S)
    PROVE  Max(S) = n
<1>1. n \in S /\ \A m \in S : n >= m
  BY DEF Highest
<1>2. Max(S) \in S /\ \A m \in S : Max(S) >= m
  BY <1>1 DEF Max
<1>3. n \in Nat /\ Max(S) \in Nat /\ n >= Max(S) /\ Max(S) >= n
  BY <1>1, <1>2
<1> QED  BY <1>3

\* Min of FiniteSetsExt: numbers have a smallest one.
LEMMA MinExists ==
    ASSUME NEW S \in SUBSET Nat, S # {}
    PROVE  Min(S) \in S
<1>1. PICK n \in S : \A m \in S : ~ <<m, n>> \in OpToRel(<, Nat)
  BY WFMin, NatLessThanWellFounded
<1>2. ASSUME NEW m \in S
      PROVE  n <= m
  <2>1. <<m, n>> \notin {p \in Nat \X Nat : p[1] < p[2]}
    BY <1>1 DEF OpToRel
  <2> QED  BY <2>1
<1> QED  BY <1>2 DEF Min

\* Actions that only move a request on.
Quiet(w) ==
    \/ \E s \in Signals, score \in Scores, text \in BOOLEAN : Hand(w, s, score, text)
    \/ FindCluster(w) \/ CountSignals(w) \/ ReadNode(w) \/ ReadPeers(w) \/ PeersDone(w)
    \/ generateSuggestions(w) \/ SuggestionsDone(w)

\* They leave every table as it is.
LEMMA QuietKeeps ==
    ASSUME NEW w \in Crew, Quiet(w)
    PROVE  UNCHANGED <<clusters, clusterOf, embedded, similar, nodes, edges, enriched, suggested, processed, spoilt>>
  BY DEF Quiet, Hand, FindCluster, CountSignals, ReadNode, ReadPeers, PeersDone, generateSuggestions, SuggestionsDone

\* Every step is one of these.
LEMMA Actions ==
    ASSUME [IntelNext]_intelVars
    PROVE  \/ \E w \in Crew :
                \/ Quiet(w)
                \/ CreateCluster(w) \/ LinkSignal(w) \/ recount(w) \/ embedSignal(w) \/ persistSimilar(w)
                \/ ensureNodeForSignal(w) \/ enrichSignal(w) \/ PhaseFails(w)
                \/ \E peer \in Signals : LinkPeer(w, peer)
                \/ \E k \in Keys : createSuggestion(w, k)
           \/ \E s \in Signals : addCampaignMember(s) \/ removeCampaignMember(s)
           \/ UNCHANGED intelVars
  BY DEF IntelNext, Quiet

\* Each action keeps the types.
LEMMA GraphTypes ==
    ASSUME GraphTypeOK, WorkersFit, [IntelNext]_intelVars
    PROVE  GraphTypeOK'
<1>1. crew' \in [Crew -> Workers]
  BY CrewTyped
<1>2. ASSUME NEW w \in Crew, Quiet(w)
      PROVE  GraphTypeOK'
  BY <1>1, <1>2, QuietKeeps DEF GraphTypeOK
<1>3. ASSUME NEW w \in Crew, crew[w].at \notin {"none", "draft"}
      PROVE  crew[w].signal \in Signals /\ crew[w].score \in Nat /\ crew[w].read \in Nat
  BY <1>3 DEF GraphTypeOK, WorkersFit, Fits, Workers
<1>4. ASSUME NEW w \in Crew, CreateCluster(w)
      PROVE  GraphTypeOK'
  <2> DEFINE key == KeyOf[crew[w].signal]
  <2>1. crew[w].signal \in Signals /\ key \in Keys
    BY <1>3, <1>4, StagesKnown DEF CreateCluster, WorkersFit, Fits, Keys, Clustering
  <2>2. spoilt' \in Spoils
    BY <1>4, <2>1, Spoilt DEF CreateCluster, GraphTypeOK
  <2>3. DOMAIN clusters' \subseteq Keys /\ clusters' = [k \in DOMAIN clusters' |-> clusters'[k]]
    BY <1>4, <2>1 DEF CreateCluster, GraphTypeOK
  <2> QED  BY <1>1, <1>4, <2>2, <2>3 DEF CreateCluster, GraphTypeOK
<1>5. ASSUME NEW w \in Crew, LinkSignal(w)
      PROVE  GraphTypeOK'
  <2>1. crew[w].signal \in Signals /\ KeyOf[crew[w].signal] \in Keys
    BY <1>3, <1>5, StagesKnown DEF LinkSignal, WorkersFit, Fits, Keys, Clustering
  <2>2. spoilt' \in Spoils
    BY <1>5, <2>1, Spoilt DEF LinkSignal, GraphTypeOK
  <2>3. clusterOf' \in [Signals -> Keys \union {NoKey}]
    BY <1>5, <2>1 DEF LinkSignal, GraphTypeOK
  <2> QED  BY <1>1, <1>5, <2>2, <2>3 DEF LinkSignal, GraphTypeOK
<1>6. ASSUME NEW w \in Crew, recount(w)
      PROVE  GraphTypeOK'
  <2>1. DOMAIN clusters' = DOMAIN clusters /\ clusters' = [k \in DOMAIN clusters' |-> clusters'[k]]
    BY <1>6 DEF recount, GraphTypeOK
  <2> QED  BY <1>1, <1>6, <2>1 DEF recount, GraphTypeOK
<1>7. ASSUME NEW w \in Crew, embedSignal(w) \/ persistSimilar(w) \/ enrichSignal(w)
      PROVE  GraphTypeOK'
  BY <1>1, <1>3, <1>7 DEF embedSignal, persistSimilar, enrichSignal, GraphTypeOK
<1>8. ASSUME NEW w \in Crew, ensureNodeForSignal(w)
      PROVE  GraphTypeOK'
  <2> DEFINE c == crew[w]  s == crew[w].signal
  <2>1. s \in Signals /\ c.score \in Nat /\ c.read \in Nat
    BY <1>3, <1>8 DEF ensureNodeForSignal
  <2>2. spoilt' \in Spoils
    BY <1>8, <2>1, Spoilt DEF ensureNodeForSignal, GraphTypeOK
  <2>3. nodes' \in [Signals -> [count: Nat, risk: Nat]] /\ processed' \in [Signals -> SUBSET Nat]
    <3>1. CASE UNCHANGED <<nodes, processed>>
      BY <3>1 DEF GraphTypeOK
    <3>2. CASE nodes' = [nodes EXCEPT ![s] = [count |-> @.count + 1, risk |-> Max({c.read, c.score})]]
               /\ processed' = [processed EXCEPT ![s] = @ \union {c.score}]
      <4>1. Max({c.read, c.score}) \in Nat
        BY <2>1, LargerOfTwo
      <4>2. nodes[s].count + 1 \in Nat
        BY <2>1 DEF GraphTypeOK
      <4> HIDE DEF c, s
      <4>3. [count |-> nodes[s].count + 1, risk |-> Max({c.read, c.score})] \in [count: Nat, risk: Nat]
        BY <4>1, <4>2
      <4> QED  BY <2>1, <3>2, <4>3 DEF GraphTypeOK
    <3> QED  BY <1>8, <3>1, <3>2 DEF ensureNodeForSignal
  <2> QED  BY <1>1, <1>8, <2>2, <2>3 DEF ensureNodeForSignal, GraphTypeOK
<1>9. ASSUME NEW w \in Crew, PhaseFails(w)
      PROVE  GraphTypeOK'
  <2>1. crew[w].signal \in Signals
    BY <1>3, <1>9 DEF PhaseFails, Clustering, Embedding, Graphing
  <2>2. spoilt' \in Spoils
    BY <1>9, <2>1, Spoilt DEF PhaseFails, GraphTypeOK
  <2> QED  BY <1>1, <1>9, <2>2 DEF PhaseFails, GraphTypeOK
<1>10. ASSUME NEW w \in Crew, NEW peer \in Signals, LinkPeer(w, peer)
       PROVE  GraphTypeOK'
  BY <1>1, <1>10 DEF LinkPeer, GraphTypeOK
<1>11. ASSUME NEW w \in Crew, NEW k \in Keys, createSuggestion(w, k)
       PROVE  GraphTypeOK'
  <2>1. spoilt' \in Spoils
    BY <1>11, Redrafted DEF createSuggestion, GraphTypeOK
  <2>2. suggested' \in [Keys -> Nat]
    BY <1>11 DEF createSuggestion, GraphTypeOK
  <2> QED  BY <1>1, <1>11, <2>1, <2>2 DEF createSuggestion, GraphTypeOK
<1>12. ASSUME NEW s \in Signals, addCampaignMember(s) \/ removeCampaignMember(s)
       PROVE  GraphTypeOK'
  BY <1>1, <1>12 DEF addCampaignMember, removeCampaignMember, GraphTypeOK
<1>13. CASE UNCHANGED intelVars
  BY <1>1, <1>13 DEF intelVars, GraphTypeOK
<1> QED  BY <1>2, <1>4, <1>5, <1>6, <1>7, <1>8, <1>9, <1>10, <1>11, <1>12, <1>13, Actions

\* Clusters, links, nodes and failures stay.
Onward ==
    /\ DOMAIN clusters \subseteq DOMAIN clusters' /\ spoilt.failed \subseteq spoilt'.failed
    /\ \A s \in Signals : /\ clusterOf'[s] = clusterOf[s] \/ clusterOf'[s] = KeyOf[s]
                          /\ nodes[s] # NoNode => nodes'[s] # NoNode

\* What the others do to a signal never takes away what a request relies on.
LEMMA FitKept ==
    ASSUME NEW c, Fits(c), Onward
    PROVE  Fits(c)'
<1> DEFINE s == c.signal
<1>1. /\ "none" \notin Clustering \union Embedding \union Graphing
      /\ "draft" \notin Clustering \union Embedding \union Graphing
      /\ {"link", "count", "counted"} \subseteq Clustering
      /\ {"peers", "linkPeers", "sims", "linkSims"} \subseteq Graphing
  BY DEF Clustering, Embedding, Graphing
<1>2. CASE c.at \in {"none", "draft"}
  BY <1>1, <1>2 DEF Fits
<1>3. CASE c.at \notin {"none", "draft"}
  BY <1>1, <1>3 DEF Fits, Onward
<1> QED  BY <1>2, <1>3

\* WorkersFit is kept when no one takes back what a request relies on and the one that
\* moves still fits.
LEMMA FitStep ==
    ASSUME WorkersFit, NEW w \in Crew, \A v \in Crew : v # w => crew'[v] = crew[v],
           NEW c, c = crew'[w], Fits(c)',
           Onward
    PROVE  WorkersFit'
<1> SUFFICES ASSUME NEW v \in Crew, NEW d, d = crew'[v]
             PROVE  Fits(d)'
  BY DEF WorkersFit, Fits
<1>1. CASE v = w
  BY <1>1
<1>2. CASE v # w
  <2>1. d = crew[v] /\ Fits(d)
    BY <1>2 DEF WorkersFit
  <2> QED  BY <2>1, FitKept
<1> QED  BY <1>1, <1>2

\* Signals keep fitting their clusters when a new link has its cluster and a new node its
\* link.
LEMMA ClustersKept ==
    ASSUME ClustersFit, Onward,
           \A s \in Signals : clusterOf'[s] # clusterOf[s] => KeyOf[s] \in DOMAIN clusters',
           \A s \in Signals : nodes[s] = NoNode /\ nodes'[s] # NoNode /\ s \notin spoilt'.failed => clusterOf'[s] = KeyOf[s]
    PROVE  ClustersFit'
  BY DEF ClustersFit, Onward

\* A node that was written is there.
LEMMA CountedNode ==
    ASSUME nodes \in [Signals -> [count: Nat, risk: Nat]], NEW s \in Signals, NEW r,
           nodes' = [nodes EXCEPT ![s] = [count |-> @.count + 1, risk |-> r]]
    PROVE  /\ nodes'[s].count = nodes[s].count + 1 /\ nodes'[s].risk = r /\ nodes'[s] # NoNode
           /\ \A t \in Signals : t # s => nodes'[t] = nodes[t]
<1>1. nodes[s].count \in Nat
  OBVIOUS
<1>2. nodes'[s] = [count |-> nodes[s].count + 1, risk |-> r]
  OBVIOUS
<1>3. nodes'[s].count = nodes[s].count + 1 /\ nodes'[s].risk = r
  BY <1>2
<1>4. nodes'[s] # NoNode
  BY <1>1, <1>3 DEF NoNode
<1> QED  BY <1>3, <1>4

\* The stages by phase.
LEMMA Phases ==
    /\ Clustering = {"find", "create", "link", "count", "counted"}
    /\ Embedding \union Graphing = {"embed", "similar", "node", "createNode", "updateNode", "peers", "linkPeers", "sims",
                                    "linkSims"}
  BY DEF Clustering, Embedding, Graphing

\* Requests and clusters keep fitting each other.
LEMMA GraphFits ==
    ASSUME GraphInv, [IntelNext]_intelVars
    PROVE  Onward /\ WorkersFit' /\ ClustersFit'
<1>0. GraphTypeOK /\ WorkersFit /\ ClustersFit
  BY DEF GraphInv
<1>1. UNCHANGED <<clusters, clusterOf, nodes, spoilt>> => Onward /\ ClustersFit'
  <2>1. UNCHANGED <<clusters, clusterOf, nodes, spoilt>> => Onward
    BY DEF Onward
  <2> QED  BY <1>0, <2>1 DEF ClustersFit
<1>2. ASSUME NEW w \in Crew, Quiet(w)
      PROVE  Onward /\ WorkersFit' /\ ClustersFit'
  <2> SUFFICES ASSUME NEW c, c = crew'[w]
               PROVE  Onward /\ WorkersFit' /\ ClustersFit'
    OBVIOUS
  <2>1. UNCHANGED <<clusters, clusterOf, nodes, spoilt>> /\ Onward /\ ClustersFit'
    BY <1>1, <1>2, QuietKeeps
  <2>2. (\A v \in Crew : v # w => crew'[v] = crew[v]) /\ Fits(c)'
    <3>1. ASSUME NEW s \in Signals, NEW score \in Scores, NEW text \in BOOLEAN, Hand(w, s, score, text)
          PROVE  (\A v \in Crew : v # w => crew'[v] = crew[v]) /\ Fits(c)'
      <4>1. /\ \A v \in Crew : v # w => crew'[v] = crew[v]
            /\ c.at = IF KeyOf[s] = NoKey THEN "embed" ELSE "find"
            /\ c.signal = s /\ c.key = clusterOf[s]
        BY <1>0, <3>1, Turns
      <4>2. clusterOf[s] \in {NoKey, KeyOf[s]}
        BY <1>0 DEF ClustersFit
      <4> QED  BY <2>1, <4>1, <4>2, Phases DEF Fits
    <3>2. CASE FindCluster(w)
      <4>1. Turned(w, IF KeyOf[crew[w].signal] \in DOMAIN clusters THEN "link" ELSE "create",
                   crew[w].key, crew[w].read, crew[w].todo)
        BY <1>0, <3>2, Moves
      <4>2. crew[w].at = "find" /\ Fits(crew[w])
        BY <1>0, <3>2 DEF FindCluster, WorkersFit
      <4> QED  BY <2>1, <4>1, <4>2, Phases DEF Fits, Turned
    <3>3. CASE CountSignals(w)
      <4>1. Turned(w, "counted", crew[w].key, Cardinality(Linked(KeyOf[crew[w].signal])), crew[w].todo)
        BY <1>0, <3>3, Moves
      <4>2. crew[w].at = "count" /\ Fits(crew[w])
        BY <1>0, <3>3 DEF CountSignals, WorkersFit
      <4> QED  BY <2>1, <4>1, <4>2, Phases DEF Fits, Turned
    <3>4. CASE ReadNode(w)
      <4>1. Turned(w, IF nodes[crew[w].signal] = NoNode THEN "createNode" ELSE "updateNode", crew[w].key,
                   nodes[crew[w].signal].risk, crew[w].todo)
        BY <1>0, <3>4, Moves
      <4>2. crew[w].at = "node" /\ Fits(crew[w])
        BY <1>0, <3>4 DEF ReadNode, WorkersFit
      <4> QED  BY <2>1, <4>1, <4>2, Phases DEF Fits, Turned
    <3>5. CASE ReadPeers(w)
      <4>1. Turned(w, IF crew[w].at = "peers" THEN "linkPeers" ELSE "linkSims", crew[w].key, crew[w].read,
                   IF crew[w].at = "peers" THEN Siblings(w) ELSE SimilarTo(crew[w].signal))
        BY <1>0, <3>5, Moves
      <4>2. crew[w].at \in {"peers", "sims"} /\ Fits(crew[w])
        BY <1>0, <3>5 DEF ReadPeers, WorkersFit
      <4> QED  BY <2>1, <4>1, <4>2, Phases DEF Fits, Turned
    <3>6. CASE PeersDone(w)
      <4>1. Turned(w, IF crew[w].at = "linkPeers" THEN "sims" ELSE "osint", crew[w].key, crew[w].read, crew[w].todo)
        BY <1>0, <3>6, Moves
      <4>2. crew[w].at \in {"linkPeers", "linkSims"} /\ Fits(crew[w])
        BY <1>0, <3>6 DEF PeersDone, WorkersFit
      <4> QED  BY <2>1, <4>1, <4>2, Phases DEF Fits, Turned
    <3>7. CASE generateSuggestions(w)
      <4>1. (\A v \in Crew : v # w => crew'[v] = crew[v]) /\ c.at = "draft"
        BY <1>0, <3>7, Turns
      <4> QED  BY <4>1, Phases DEF Fits
    <3>8. CASE SuggestionsDone(w)
      <4>1. (\A v \in Crew : v # w => crew'[v] = crew[v]) /\ c.at = "none"
        BY <1>0, <3>8, Turns DEF Resting
      <4> QED  BY <4>1, Phases DEF Fits
    <3> QED  BY <1>2, <3>1, <3>2, <3>3, <3>4, <3>5, <3>6, <3>7, <3>8 DEF Quiet
  <2> QED  BY <1>0, <2>1, <2>2, FitStep
<1>3. ASSUME NEW w \in Crew, CreateCluster(w)
      PROVE  Onward /\ WorkersFit' /\ ClustersFit'
  <2> SUFFICES ASSUME NEW c, c = crew'[w]
               PROVE  Onward /\ WorkersFit' /\ ClustersFit'
    OBVIOUS
  <2> DEFINE s == crew[w].signal
  <2>1. Turned(w, IF KeyOf[s] \in DOMAIN clusters THEN "embed" ELSE "link", crew[w].key, crew[w].read, crew[w].todo)
    BY <1>0, <1>3, Moves
  <2>2. crew[w].at = "create" /\ Fits(crew[w]) /\ s \in Signals
    BY <1>0, <1>3 DEF CreateCluster, WorkersFit, Fits
  <2>3. UNCHANGED <<clusterOf, nodes>>
    BY <1>3 DEF CreateCluster
  <2>4. CASE KeyOf[s] \in DOMAIN clusters
    <3>1. clusters' = clusters /\ spoilt' = [spoilt EXCEPT !.failed = @ \union {s}]
      BY <1>3, <2>4 DEF CreateCluster
    <3>2. spoilt'.failed = spoilt.failed \union {s}
      BY <1>0, <2>2, <3>1, Spoilt DEF GraphTypeOK
    <3>3. Onward
      BY <2>3, <3>1, <3>2 DEF Onward
    <3>4. Fits(c)'
      BY <2>1, <2>2, <2>3, <2>4, <3>1, <3>2, Phases DEF Fits, Turned
    <3>5. WorkersFit'
      BY <1>0, <2>1, <3>3, <3>4, FitStep DEF Turned
    <3>6. ClustersFit'
      BY <1>0, <2>3, <3>3, ClustersKept
    <3> QED  BY <3>3, <3>5, <3>6
  <2>5. CASE KeyOf[s] \notin DOMAIN clusters
    <3>1. DOMAIN clusters' = DOMAIN clusters \union {KeyOf[s]} /\ spoilt' = spoilt
      BY <1>3, <2>5 DEF CreateCluster
    <3>2. Onward
      BY <2>3, <3>1 DEF Onward
    <3>3. Fits(c)'
      BY <2>1, <2>2, <2>3, <2>5, <3>1, Phases DEF Fits, Turned
    <3>4. WorkersFit'
      BY <1>0, <2>1, <3>2, <3>3, FitStep DEF Turned
    <3>5. ClustersFit'
      BY <1>0, <2>3, <3>2, ClustersKept
    <3> QED  BY <3>2, <3>4, <3>5
  <2> QED  BY <2>4, <2>5
<1>4. ASSUME NEW w \in Crew, LinkSignal(w)
      PROVE  Onward /\ WorkersFit' /\ ClustersFit'
  <2> SUFFICES ASSUME NEW c, c = crew'[w]
               PROVE  Onward /\ WorkersFit' /\ ClustersFit'
    OBVIOUS
  <2> DEFINE s == crew[w].signal
  <2>1. Turned(w, "count", crew[w].key, crew[w].read, crew[w].todo)
    BY <1>0, <1>4, Moves
  <2>2. crew[w].at = "link" /\ Fits(crew[w]) /\ s \in Signals
    BY <1>0, <1>4 DEF LinkSignal, WorkersFit, Fits
  <2>3. UNCHANGED <<clusters, nodes>> /\ clusterOf' = [clusterOf EXCEPT ![s] = KeyOf[s]]
    BY <1>4 DEF LinkSignal
  <2>4. spoilt'.failed = spoilt.failed
    BY <1>0, <1>4, <2>2, Spoilt DEF LinkSignal, GraphTypeOK
  <2>5. clusterOf'[s] = KeyOf[s] /\ \A t \in Signals : t # s => clusterOf'[t] = clusterOf[t]
    BY <1>0, <2>2, <2>3 DEF GraphTypeOK
  <2>6. Onward
    BY <2>3, <2>4, <2>5 DEF Onward
  <2>7. Fits(c)'
    BY <2>1, <2>2, <2>3, <2>4, <2>5, Phases DEF Fits, Turned
  <2>8. WorkersFit'
    BY <1>0, <2>1, <2>6, <2>7, FitStep DEF Turned
  <2>9. KeyOf[s] \in DOMAIN clusters
    BY <2>2 DEF Fits
  <2>10. ClustersFit'
    BY <1>0, <2>3, <2>5, <2>6, <2>9, ClustersKept
  <2> QED  BY <2>6, <2>8, <2>10
<1>5. ASSUME NEW w \in Crew, recount(w)
      PROVE  Onward /\ WorkersFit' /\ ClustersFit'
  <2> SUFFICES ASSUME NEW c, c = crew'[w]
               PROVE  Onward /\ WorkersFit' /\ ClustersFit'
    OBVIOUS
  <2> DEFINE s == crew[w].signal
  <2>1. Turned(w, "embed", clusterOf[s], crew[w].read, crew[w].todo)
    BY <1>0, <1>5, Moves
  <2>2. crew[w].at = "counted" /\ Fits(crew[w])
    BY <1>0, <1>5 DEF recount, WorkersFit
  <2>3. UNCHANGED <<clusterOf, nodes, spoilt>> /\ DOMAIN clusters' = DOMAIN clusters
    BY <1>5 DEF recount
  <2>4. Onward
    BY <2>3 DEF Onward
  <2>5. Fits(c)'
    BY <2>1, <2>2, <2>3, Phases DEF Fits, Turned
  <2>6. WorkersFit'
    BY <1>0, <2>1, <2>4, <2>5, FitStep DEF Turned
  <2>7. ClustersFit'
    BY <1>0, <2>3, <2>4, ClustersKept
  <2> QED  BY <2>4, <2>6, <2>7
<1>6. ASSUME NEW w \in Crew, embedSignal(w) \/ persistSimilar(w)
      PROVE  Onward /\ WorkersFit' /\ ClustersFit'
  <2> SUFFICES ASSUME NEW c, c = crew'[w]
               PROVE  Onward /\ WorkersFit' /\ ClustersFit'
    OBVIOUS
  <2>1. Turned(w, IF embedSignal(w) /\ crew[w].text THEN "similar" ELSE "node", crew[w].key, crew[w].read, crew[w].todo)
    <3>1. CASE embedSignal(w)
      BY <1>0, <3>1, Moves
    <3>2. CASE persistSimilar(w)
      <4>1. crew[w].at # "embed"
        BY <3>2 DEF persistSimilar
      <4> QED  BY <1>0, <3>2, <4>1, Moves DEF embedSignal
    <3> QED  BY <1>6, <3>1, <3>2
  <2>2. crew[w].at \in {"embed", "similar"} /\ Fits(crew[w])
    BY <1>0, <1>6 DEF embedSignal, persistSimilar, WorkersFit
  <2>3. UNCHANGED <<clusters, clusterOf, nodes, spoilt>>
    BY <1>6 DEF embedSignal, persistSimilar
  <2>4. Fits(c)'
    BY <2>1, <2>2, <2>3, Phases DEF Fits, Turned
  <2> QED  BY <1>0, <1>1, <2>1, <2>3, <2>4, FitStep DEF Turned
<1>7. ASSUME NEW w \in Crew, ensureNodeForSignal(w)
      PROVE  Onward /\ WorkersFit' /\ ClustersFit'
  <2> SUFFICES ASSUME NEW c, c = crew'[w]
               PROVE  Onward /\ WorkersFit' /\ ClustersFit'
    OBVIOUS
  <2> DEFINE s == crew[w].signal
             late == crew[w].at = "createNode" /\ nodes[s] # NoNode
  <2>1. Turned(w, IF late THEN "osint" ELSE "peers", crew[w].key, crew[w].read, crew[w].todo)
    BY <1>0, <1>7, Moves
  <2>2. crew[w].at \in {"createNode", "updateNode"} /\ Fits(crew[w]) /\ s \in Signals
    BY <1>0, <1>7 DEF ensureNodeForSignal, WorkersFit, Fits
  <2>3. UNCHANGED <<clusters, clusterOf>>
    BY <1>7 DEF ensureNodeForSignal
  <2>4. CASE late
    <3>1. nodes' = nodes /\ spoilt' = [spoilt EXCEPT !.failed = @ \union {s}]
      BY <1>7, <2>4 DEF ensureNodeForSignal
    <3>2. spoilt'.failed = spoilt.failed \union {s}
      BY <1>0, <2>2, <3>1, Spoilt DEF GraphTypeOK
    <3>3. Onward
      BY <2>3, <3>1, <3>2 DEF Onward
    <3>4. Fits(c)'
      BY <2>1, <2>2, <2>3, <2>4, <3>1, <3>2, Phases DEF Fits, Turned
    <3>5. WorkersFit'
      BY <1>0, <2>1, <3>3, <3>4, FitStep DEF Turned
    <3>6. ClustersFit'
      BY <1>0, <2>3, <3>1, <3>3, ClustersKept
    <3> QED  BY <3>3, <3>5, <3>6
  <2>5. CASE ~late
    <3>1. /\ nodes' = [nodes EXCEPT ![s] = [count |-> @.count + 1, risk |-> Max({crew[w].read, crew[w].score})]]
          /\ spoilt' = [spoilt EXCEPT !.risk = IF crew[w].read # nodes[s].risk THEN @ \union {s} ELSE @]
      BY <1>7, <2>5 DEF ensureNodeForSignal
    <3>2. spoilt'.failed = spoilt.failed
      <4> DEFINE b == crew[w].read # nodes[s].risk
      <4>1. spoilt' = [spoilt EXCEPT !.risk = IF b THEN @ \union {s} ELSE @]
        BY <3>1
      <4> HIDE DEF b
      <4> QED  BY <1>0, <2>2, <4>1, Spoilt DEF GraphTypeOK
    <3>3. nodes'[s] # NoNode /\ \A t \in Signals : t # s => nodes'[t] = nodes[t]
      BY <1>0, <2>2, <3>1, CountedNode DEF GraphTypeOK
    <3>4. Onward
      BY <2>3, <3>2, <3>3 DEF Onward
    <3>5. Fits(c)'
      BY <2>1, <2>2, <2>3, <2>5, <3>2, <3>3, Phases DEF Fits, Turned
    <3>6. WorkersFit'
      BY <1>0, <2>1, <3>4, <3>5, FitStep DEF Turned
    <3>7. s \notin spoilt.failed => clusterOf[s] = KeyOf[s]
      BY <2>2, Phases DEF Fits
    <3>8. ClustersFit'
      BY <1>0, <2>3, <3>2, <3>3, <3>4, <3>7, ClustersKept
    <3> QED  BY <3>4, <3>6, <3>8
  <2> QED  BY <2>4, <2>5
<1>8. ASSUME NEW w \in Crew, enrichSignal(w)
      PROVE  Onward /\ WorkersFit' /\ ClustersFit'
  <2> SUFFICES ASSUME NEW c, c = crew'[w]
               PROVE  Onward /\ WorkersFit' /\ ClustersFit'
    OBVIOUS
  <2>1. (\A v \in Crew : v # w => crew'[v] = crew[v]) /\ c.at = "none"
    BY <1>0, <1>8, Turns DEF Resting
  <2>2. UNCHANGED <<clusters, clusterOf, nodes, spoilt>>
    BY <1>8 DEF enrichSignal
  <2>3. Fits(c)'
    BY <2>1, Phases DEF Fits
  <2> QED  BY <1>0, <1>1, <2>1, <2>2, <2>3, FitStep
<1>9. ASSUME NEW w \in Crew, PhaseFails(w)
      PROVE  Onward /\ WorkersFit' /\ ClustersFit'
  <2> SUFFICES ASSUME NEW c, c = crew'[w]
               PROVE  Onward /\ WorkersFit' /\ ClustersFit'
    OBVIOUS
  <2> DEFINE s == crew[w].signal
  <2>1. Turned(w, IF crew[w].at \in Clustering THEN "embed" ELSE IF crew[w].at \in Embedding THEN "node" ELSE "osint",
               crew[w].key, crew[w].read, {})
    BY <1>0, <1>9, Moves
  <2>2. crew[w].at \notin {"none", "draft"} /\ Fits(crew[w]) /\ s \in Signals
    BY <1>0, <1>9, Phases DEF PhaseFails, WorkersFit, Fits, Clustering, Embedding, Graphing
  <2>3. UNCHANGED <<clusters, clusterOf, nodes>> /\ spoilt' = [spoilt EXCEPT !.failed = @ \union {s}]
    BY <1>9 DEF PhaseFails
  <2>4. spoilt'.failed = spoilt.failed \union {s}
    BY <1>0, <2>2, <2>3, Spoilt DEF GraphTypeOK
  <2>5. Onward
    BY <2>3, <2>4 DEF Onward
  <2>6. c.at \in {"embed", "node", "osint"} /\ c.signal = s
    BY <2>1 DEF Turned
  <2>7. Fits(c)'
    BY <2>2, <2>3, <2>4, <2>6, Phases DEF Fits
  <2>8. WorkersFit'
    BY <1>0, <2>1, <2>5, <2>7, FitStep DEF Turned
  <2>9. ClustersFit'
    BY <1>0, <2>3, <2>5, ClustersKept
  <2> QED  BY <2>5, <2>8, <2>9
<1>10. ASSUME NEW w \in Crew, NEW T, Turned(w, crew[w].at, crew[w].key, crew[w].read, T),
              UNCHANGED <<clusters, clusterOf, nodes>>, spoilt'.failed = spoilt.failed
       PROVE  Onward /\ WorkersFit' /\ ClustersFit'
  <2> SUFFICES ASSUME NEW c, c = crew'[w]
               PROVE  Onward /\ WorkersFit' /\ ClustersFit'
    OBVIOUS
  <2>1. Onward
    BY <1>10 DEF Onward
  <2>2. Fits(crew[w])
    BY <1>0 DEF WorkersFit
  <2>3. Fits(c)'
    BY <1>10, <2>2 DEF Fits, Turned
  <2>4. WorkersFit'
    BY <1>0, <1>10, <2>1, <2>3, FitStep DEF Turned
  <2>5. ClustersFit'
    BY <1>0, <1>10, <2>1, ClustersKept
  <2> QED  BY <2>1, <2>4, <2>5
<1>11. ASSUME NEW w \in Crew, NEW peer \in Signals, LinkPeer(w, peer)
       PROVE  Onward /\ WorkersFit' /\ ClustersFit'
  <2>1. UNCHANGED <<clusters, clusterOf, nodes, spoilt>>
    BY <1>11 DEF LinkPeer
  <2>2. Turned(w, crew[w].at, crew[w].key, crew[w].read, crew[w].todo \ {peer})
    BY <1>0, <1>11, Moves
  <2> QED  BY <1>10, <2>1, <2>2
<1>12. ASSUME NEW w \in Crew, NEW k \in Keys, createSuggestion(w, k)
       PROVE  Onward /\ WorkersFit' /\ ClustersFit'
  <2>1. UNCHANGED <<clusters, clusterOf, nodes>> /\ spoilt'.failed = spoilt.failed
    BY <1>0, <1>12, Redrafted DEF createSuggestion, GraphTypeOK
  <2>2. Turned(w, crew[w].at, crew[w].key, crew[w].read, crew[w].todo \ {k})
    BY <1>0, <1>12, Moves
  <2> QED  BY <1>10, <2>1, <2>2
<1>13. ASSUME UNCHANGED <<clusters, clusterOf, nodes, spoilt, crew>>
       PROVE  Onward /\ WorkersFit' /\ ClustersFit'
  BY <1>0, <1>1, <1>13 DEF WorkersFit, Fits
<1>14. \A s \in Signals : addCampaignMember(s) \/ removeCampaignMember(s) =>
          UNCHANGED <<clusters, clusterOf, nodes, spoilt, crew>>
  BY DEF addCampaignMember, removeCampaignMember
<1>15. UNCHANGED intelVars => UNCHANGED <<clusters, clusterOf, nodes, spoilt, crew>>
  BY DEF intelVars
<1> QED  BY <1>2, <1>3, <1>4, <1>5, <1>6, <1>7, <1>8, <1>9, <1>11, <1>12, <1>13, <1>14, <1>15, Actions

-----------------------------------------------------------------------------
\* The ends of an edge in order: either may come first.
LEMMA Sorted ==
    ASSUME NEW a \in Signals, NEW b \in Signals, a # b
    PROVE  /\ Ordered(a, b) = Ordered(b, a) /\ \A type : upsertEdge(a, b, type) = upsertEdge(b, a, type)
           /\ (a < b \/ b < a) /\ (a < b => Ordered(a, b) = <<a, b>>)
<1>1. a \in Nat /\ b \in Nat
  BY IntelAssumption
<1>2. (a < b /\ ~(b < a)) \/ (b < a /\ ~(a < b))
  BY <1>1
<1> QED  BY <1>2 DEF Ordered, upsertEdge

\* Two signals still meet when the request that moves keeps on its way to those it
\* is to link, and whatever is new between two signals is on its way to them.
LEMMA MeetKept ==
    ASSUME NEW type \in EdgeTypes, Meet(type), NEW w \in Crew, \A v \in Crew : v # w => crew'[v] = crew[v],
           NEW c, c = crew[w], NEW d, d = crew'[w],
           \A s, t \in Signals : Joined(s, t, type) => Joined(s, t, type)',
           \A s \in Signals : Through(s)' /\ ~Through(s) => d.signal = s /\ d.at = "peers",
           \A s, t \in Signals : Owed(s, t, type)' /\ ~Owed(s, t, type) =>
               (d.signal = s /\ Heading(d, t, type)) \/ (d.signal = t /\ Heading(d, s, type)),
           \A t \in Signals :
               /\ c.signal \in Signals /\ t # c.signal /\ Through(c.signal) /\ Through(c.signal)' /\ Through(t)
               /\ Owed(c.signal, t, type) /\ Heading(c, t, type)
               => Joined(c.signal, t, type)' \/ (d.signal = c.signal /\ Heading(d, t, type))
    PROVE  Meet(type)'
<1> SUFFICES ASSUME NEW s \in Signals, NEW t \in Signals, s # t, Through(s)', Through(t)', Owed(s, t, type)'
             PROVE  Joined(s, t, type)' \/ Linking(s, t, type)' \/ Linking(t, s, type)'
  BY DEF Meet
<1>1. \A x, y \in Signals : d.signal = x /\ Heading(d, y, type) => Linking(x, y, type)'
  BY DEF Linking, Heading
<1>2. CASE ~Through(s) \/ ~Through(t)
  <2>1. \A y \in Signals : d.at = "peers" => Heading(d, y, type)
    BY DEF Heading, EdgeTypes
  <2> QED  BY <1>1, <1>2, <2>1
<1>3. CASE ~Owed(s, t, type)
  BY <1>1, <1>3
<1>4. CASE Through(s) /\ Through(t) /\ Owed(s, t, type)
  <2>1. Joined(s, t, type) \/ Linking(s, t, type) \/ Linking(t, s, type)
    BY <1>4 DEF Meet
  <2>2. Owed(t, s, type) /\ (Joined(t, s, type)' <=> Joined(s, t, type)')
    BY <1>4, Sorted DEF Owed, Joined
  <2>3. ASSUME NEW x \in Signals, NEW y \in Signals, x # y, Through(x), Through(y), Through(x)', Owed(x, y, type),
               Linking(x, y, type)
        PROVE  Joined(x, y, type)' \/ Linking(x, y, type)'
    <3>1. PICK v \in Crew : crew[v].signal = x /\ Heading(crew[v], y, type)
      BY <2>3 DEF Linking
    <3>2. CASE v = w
      BY <1>1, <2>3, <3>1, <3>2
    <3>3. CASE v # w
      <4>1. crew'[v].signal = x /\ Heading(crew'[v], y, type)
        BY <3>1, <3>3
      <4> QED  BY <4>1 DEF Linking, Heading
    <3> QED  BY <3>2, <3>3
  <2> QED  BY <1>4, <2>1, <2>2, <2>3
<1> QED  BY <1>2, <1>3, <1>4

\* MeetKept for a step that writes neither edges, nodes nor similarities.
LEMMA MeetOnward ==
    ASSUME NEW type \in EdgeTypes, Meet(type), NEW w \in Crew, \A v \in Crew : v # w => crew'[v] = crew[v],
           NEW c, c = crew[w], NEW d, d = crew'[w], Onward, UNCHANGED <<edges, nodes, similar>>,
           \A t \in Signals : /\ c.signal \in Signals /\ Through(c.signal) /\ Through(c.signal)' /\ Through(t)
                              /\ t # c.signal /\ Owed(c.signal, t, type) /\ Heading(c, t, type)
                              => d.signal = c.signal /\ Heading(d, t, type)
    PROVE  Meet(type)'
<1>1. \A s, t \in Signals : Joined(s, t, type) => Joined(s, t, type)'
  BY DEF Joined, upsertEdge, Ordered
<1>2. \A s \in Signals : Through(s)' => Through(s)
  BY DEF Through, Onward
<1>3. \A s, t \in Signals : Owed(s, t, type)' => Owed(s, t, type)
  BY DEF Owed, Ordered
<1> QED  BY <1>1, <1>2, <1>3, MeetKept

\* Each action keeps two peers joined or on the way to be: a node is written before its
\* peers are read, and a peer linked before it is struck off the list.
LEMMA PeersStep ==
    ASSUME GraphInv, [IntelNext]_intelVars, NEW type \in EdgeTypes, Meet(type)
    PROVE  Meet(type)'
<1>0. GraphTypeOK /\ WorkersFit /\ ClustersFit /\ Onward
  BY GraphFits DEF GraphInv
<1>1. \A c, t : c.at \in {"none", "draft", "find", "create", "link", "count", "counted", "embed", "similar", "osint"} =>
          ~Heading(c, t, type)
  BY DEF Heading
<1>2. ASSUME NEW w \in Crew,
             crew[w].at \in {"none", "draft", "find", "create", "link", "count", "counted", "embed", "osint"},
             \A v \in Crew : v # w => crew'[v] = crew[v], UNCHANGED <<edges, nodes, similar>>
      PROVE  Meet(type)'
  <2> SUFFICES ASSUME NEW c, c = crew[w], NEW d, d = crew'[w]
               PROVE  Meet(type)'
    OBVIOUS
  <2>1. \A t : ~Heading(c, t, type)
    BY <1>1, <1>2
  <2> QED  BY <1>0, <1>2, <2>1, MeetOnward
<1>3. ASSUME NEW w \in Crew, Quiet(w)
      PROVE  Meet(type)'
  <2> SUFFICES ASSUME NEW c, c = crew[w], NEW d, d = crew'[w]
               PROVE  Meet(type)'
    OBVIOUS
  <2>1. UNCHANGED <<edges, nodes, similar>>
    BY <1>3, QuietKeeps
  <2>2. ASSUME NEW s \in Signals, NEW score \in Scores, NEW text \in BOOLEAN, Hand(w, s, score, text)
        PROVE  Meet(type)'
    <3>1. crew[w].at = "none" /\ \A v \in Crew : v # w => crew'[v] = crew[v]
      <4>1. crew[w] = Resting
        BY <2>2 DEF Hand
      <4>2. \A v \in Crew : v # w => crew'[v] = crew[v]
        BY <1>0, <2>2, Turns
      <4> QED  BY <4>1, <4>2 DEF Resting
    <3> QED  BY <1>2, <2>1, <3>1
  <2>3. CASE FindCluster(w)
    <3>1. crew[w].at = "find" /\ \A v \in Crew : v # w => crew'[v] = crew[v]
      BY <1>0, <2>3, Moves DEF FindCluster, Turned
    <3> QED  BY <1>2, <2>1, <3>1
  <2>4. CASE CountSignals(w)
    <3>1. crew[w].at = "count" /\ \A v \in Crew : v # w => crew'[v] = crew[v]
      BY <1>0, <2>4, Moves DEF CountSignals, Turned
    <3> QED  BY <1>2, <2>1, <3>1
  <2>5. CASE ReadNode(w)
    <3>1. Turned(w, IF nodes[c.signal] = NoNode THEN "createNode" ELSE "updateNode", c.key,
                 nodes[c.signal].risk, c.todo)
      BY <1>0, <2>5, Moves
    <3>2. c.at = "node" /\ d.at \in {"createNode", "updateNode"} /\ d.signal = c.signal
      BY <2>5, <3>1 DEF ReadNode, Turned
    <3>3. \A t : Heading(c, t, type) => Heading(d, t, type)
      BY <3>2 DEF Heading
    <3>4. \A v \in Crew : v # w => crew'[v] = crew[v]
      BY <3>1 DEF Turned
    <3> QED  BY <1>0, <2>1, <3>2, <3>3, <3>4, MeetOnward
  <2>6. CASE ReadPeers(w)
    <3>1. Turned(w, IF c.at = "peers" THEN "linkPeers" ELSE "linkSims", c.key, c.read,
                 IF c.at = "peers" THEN Siblings(w) ELSE SimilarTo(c.signal))
      BY <1>0, <2>6, Moves
    <3>2. /\ c.at \in {"peers", "sims"} /\ d.signal = c.signal
          /\ c.at = "peers" => d.at = "linkPeers" /\ d.todo = Siblings(w)
          /\ c.at = "sims" => d.at = "linkSims" /\ d.todo = SimilarTo(c.signal)
      BY <2>6, <3>1 DEF ReadPeers, Turned
    <3>3. ASSUME NEW t \in Signals, c.signal \in Signals, Through(c.signal), Through(t), t # c.signal,
                 Owed(c.signal, t, type), Heading(c, t, type)
          PROVE  Heading(d, t, type)
      <4>1. CASE c.at = "peers" /\ type = "CO_OCCURRENCE_CLUSTER"
        <5>1. c.key = KeyOf[c.signal] /\ clusterOf[t] = KeyOf[t]
          BY <1>0, <3>3, <4>1, Phases DEF WorkersFit, Fits, ClustersFit, Through
        <5>2. t \in Siblings(w)
          BY <3>3, <4>1, <5>1 DEF Siblings, Owed
        <5> QED  BY <3>2, <4>1, <5>2 DEF Heading
      <4>2. CASE c.at = "peers" /\ type = "SIMILAR_TEXT"
        BY <3>2, <4>2 DEF Heading
      <4>3. CASE c.at = "sims"
        <5>1. type = "SIMILAR_TEXT"
          BY <3>3, <4>3 DEF Heading
        <5>2. t \in SimilarTo(c.signal)
          BY <3>3, <5>1 DEF SimilarTo, Owed
        <5> QED  BY <3>2, <4>3, <5>1, <5>2 DEF Heading
      <4> QED  BY <3>2, <4>1, <4>2, <4>3 DEF EdgeTypes
    <3>4. \A v \in Crew : v # w => crew'[v] = crew[v]
      BY <3>1 DEF Turned
    <3> QED  BY <1>0, <2>1, <3>2, <3>3, <3>4, MeetOnward
  <2>7. CASE PeersDone(w)
    <3>1. Turned(w, IF c.at = "linkPeers" THEN "sims" ELSE "osint", c.key, c.read, c.todo)
      BY <1>0, <2>7, Moves
    <3>2. /\ c.at \in {"linkPeers", "linkSims"} /\ c.todo = {} /\ d.signal = c.signal
          /\ c.at = "linkPeers" => d.at = "sims"
      BY <2>7, <3>1 DEF PeersDone, Turned
    <3>3. \A t : Heading(c, t, type) => Heading(d, t, type)
      BY <3>2 DEF Heading
    <3>4. \A v \in Crew : v # w => crew'[v] = crew[v]
      BY <3>1 DEF Turned
    <3> QED  BY <1>0, <2>1, <3>2, <3>3, <3>4, MeetOnward
  <2>8. CASE generateSuggestions(w)
    <3>1. crew[w].at = "none" /\ \A v \in Crew : v # w => crew'[v] = crew[v]
      <4>1. crew[w] = Resting
        BY <2>8 DEF generateSuggestions
      <4>2. \A v \in Crew : v # w => crew'[v] = crew[v]
        BY <1>0, <2>8, Turns
      <4> QED  BY <4>1, <4>2 DEF Resting
    <3> QED  BY <1>2, <2>1, <3>1
  <2>9. CASE SuggestionsDone(w)
    <3>1. crew[w].at = "draft" /\ \A v \in Crew : v # w => crew'[v] = crew[v]
      BY <1>0, <2>9, Turns DEF SuggestionsDone
    <3> QED  BY <1>2, <2>1, <3>1
  <2> QED  BY <1>3, <2>2, <2>3, <2>4, <2>5, <2>6, <2>7, <2>8, <2>9 DEF Quiet
<1>4. ASSUME NEW w \in Crew, CreateCluster(w) \/ LinkSignal(w) \/ recount(w) \/ embedSignal(w) \/ enrichSignal(w)
      PROVE  Meet(type)'
  <2>1. \A v \in Crew : v # w => crew'[v] = crew[v]
    BY <1>0, <1>4, Moves, Turns DEF Turned
  <2>2. crew[w].at \in {"create", "link", "counted", "embed", "osint"} /\ UNCHANGED <<edges, nodes, similar>>
    BY <1>4 DEF CreateCluster, LinkSignal, recount, embedSignal, enrichSignal
  <2> QED  BY <1>2, <2>1, <2>2
<1>5. ASSUME NEW w \in Crew, persistSimilar(w)
      PROVE  Meet(type)'
  <2> SUFFICES ASSUME NEW c, c = crew[w], NEW d, d = crew'[w]
               PROVE  Meet(type)'
    OBVIOUS
  <2>1. Turned(w, "node", c.key, c.read, c.todo)
    BY <1>0, <1>5, Moves
  <2>2. /\ c.at = "similar" /\ UNCHANGED <<edges, nodes, spoilt>>
        /\ similar' = similar \union ({Ordered(c.signal, x) : x \in embedded \ {c.signal}} \intersect Alike)
    BY <1>5 DEF persistSimilar
  <2>3. d.at = "node" /\ d.signal = c.signal /\ (\A v \in Crew : v # w => crew'[v] = crew[v])
    BY <2>1 DEF Turned
  <2>4. c.signal \in Signals /\ embedded \subseteq Signals
    BY <1>0, <2>2 DEF WorkersFit, Fits, GraphTypeOK
  <2>5. \A t : Heading(d, t, type) <=> type = "SIMILAR_TEXT"
    BY <2>3 DEF Heading
  <2>6. ASSUME NEW s \in Signals, NEW t \in Signals, Owed(s, t, type)', ~Owed(s, t, type)
        PROVE  (d.signal = s /\ Heading(d, t, type)) \/ (d.signal = t /\ Heading(d, s, type))
    <3>1. type = "SIMILAR_TEXT" /\ Ordered(s, t) \in similar' \ similar
      BY <2>6 DEF Owed, Ordered
    <3>2. PICK x \in embedded \ {c.signal} : Ordered(s, t) = Ordered(c.signal, x)
      BY <2>2, <3>1
    <3>3. s = c.signal \/ t = c.signal
      BY <3>2 DEF Ordered
    <3> QED  BY <2>3, <2>5, <3>1, <3>3
  <2>7. \A s, t \in Signals : Joined(s, t, type) => Joined(s, t, type)'
    BY <2>2 DEF Joined, upsertEdge, Ordered
  <2>8. \A s \in Signals : Through(s)' => Through(s)
    BY <2>2 DEF Through
  <2>9. \A t : ~Heading(c, t, type)
    BY <1>1, <2>2
  <2> QED  BY <2>3, <2>6, <2>7, <2>8, <2>9, MeetKept
<1>6. ASSUME NEW w \in Crew, ensureNodeForSignal(w)
      PROVE  Meet(type)'
  <2> SUFFICES ASSUME NEW c, c = crew[w], NEW d, d = crew'[w]
               PROVE  Meet(type)'
    OBVIOUS
  <2> DEFINE late == c.at = "createNode" /\ nodes[c.signal] # NoNode
  <2>1. Turned(w, IF late THEN "osint" ELSE "peers", c.key, c.read, c.todo)
    BY <1>0, <1>6, Moves
  <2>2. c.at \in {"createNode", "updateNode"} /\ UNCHANGED <<edges, similar>>
    BY <1>6 DEF ensureNodeForSignal
  <2>3. d.signal = c.signal /\ d.at = (IF late THEN "osint" ELSE "peers") /\ (\A v \in Crew : v # w => crew'[v] = crew[v])
    BY <2>1 DEF Turned
  <2>4. c.signal \in Signals
    BY <1>0, <2>2 DEF WorkersFit, Fits
  <2>5. CASE late
    <3>1. nodes' = nodes /\ spoilt' = [spoilt EXCEPT !.failed = @ \union {c.signal}]
      BY <1>6, <2>5 DEF ensureNodeForSignal
    <3>2. spoilt'.failed = spoilt.failed \union {c.signal}
      BY <1>0, <2>4, <3>1, Spoilt DEF GraphTypeOK
    <3>3. ~Through(c.signal)'
      BY <3>2 DEF Through
    <3> QED  BY <1>0, <2>2, <2>3, <3>1, <3>3, MeetOnward
  <2>6. CASE ~late
    <3>1. nodes' = [nodes EXCEPT ![c.signal] = [count |-> @.count + 1, risk |-> Max({c.read, c.score})]]
      BY <1>6, <2>6 DEF ensureNodeForSignal
    <3>2. \A s \in Signals : s # c.signal => nodes'[s] = nodes[s]
      BY <1>0, <2>4, <3>1 DEF GraphTypeOK
    <3>3. d.at = "peers"
      BY <2>3, <2>6
    <3>4. \A s \in Signals : Through(s)' /\ ~Through(s) => d.signal = s /\ d.at = "peers"
      BY <1>0, <2>3, <3>2, <3>3 DEF Through, Onward
    <3>5. \A t : Heading(d, t, type)
      BY <3>3 DEF Heading, EdgeTypes
    <3>6. \A s, t \in Signals : /\ Joined(s, t, type) => Joined(s, t, type)'
                                /\ Owed(s, t, type)' => Owed(s, t, type)
      BY <2>2 DEF Joined, Owed, upsertEdge, Ordered
    <3> QED  BY <2>3, <3>4, <3>5, <3>6, MeetKept
  <2> QED  BY <2>5, <2>6
<1>7. ASSUME NEW w \in Crew, PhaseFails(w)
      PROVE  Meet(type)'
  <2> SUFFICES ASSUME NEW c, c = crew[w], NEW d, d = crew'[w]
               PROVE  Meet(type)'
    OBVIOUS
  <2>1. \A v \in Crew : v # w => crew'[v] = crew[v]
    BY <1>0, <1>7, Moves DEF Turned
  <2>2. UNCHANGED <<edges, nodes, similar>> /\ spoilt' = [spoilt EXCEPT !.failed = @ \union {c.signal}]
    BY <1>7 DEF PhaseFails
  <2>3. c.signal \in Signals => ~Through(c.signal)'
    <3>1. c.signal \in Signals => spoilt'.failed = spoilt.failed \union {c.signal}
      BY <1>0, <2>2, Spoilt DEF GraphTypeOK
    <3> QED  BY <3>1 DEF Through
  <2> QED  BY <1>0, <2>1, <2>2, <2>3, MeetOnward
<1>8. ASSUME NEW w \in Crew, NEW peer \in Signals, LinkPeer(w, peer)
      PROVE  Meet(type)'
  <2> SUFFICES ASSUME NEW c, c = crew[w], NEW d, d = crew'[w]
               PROVE  Meet(type)'
    OBVIOUS
  <2> DEFINE kind == IF c.at = "linkPeers" THEN "CO_OCCURRENCE_CLUSTER" ELSE "SIMILAR_TEXT"
  <2>1. Turned(w, c.at, c.key, c.read, c.todo \ {peer})
    BY <1>0, <1>8, Moves
  <2>2. d.at = c.at /\ d.signal = c.signal /\ d.todo = c.todo \ {peer} /\ (\A v \in Crew : v # w => crew'[v] = crew[v])
    BY <2>1 DEF Turned
  <2>3. /\ c.at \in {"linkPeers", "linkSims"} /\ UNCHANGED <<nodes, similar, spoilt>>
        /\ edges \subseteq edges' /\ (nodes[peer] # NoNode => upsertEdge(c.signal, peer, kind) \subseteq edges')
    BY <1>8 DEF LinkPeer
  <2>4. ASSUME NEW t \in Signals, Through(t), Heading(c, t, type)
        PROVE  Joined(c.signal, t, type)' \/ Heading(d, t, type)
    <3>1. CASE t # peer
      <4>1. Heading(d, t, type)
        BY <2>2, <2>4, <3>1 DEF Heading
      <4> QED  BY <4>1
    <3>2. CASE t = peer /\ type = kind
      <4>1. upsertEdge(c.signal, t, type) \subseteq edges'
        BY <2>3, <2>4, <3>2 DEF Through
      <4> QED  BY <4>1 DEF Joined, upsertEdge, Ordered
    <3>3. CASE type # kind
      <4>1. type = "SIMILAR_TEXT" /\ c.at = "linkPeers"
        BY <2>3, <2>4, <3>3 DEF Heading, EdgeTypes
      <4> QED  BY <2>2, <4>1 DEF Heading
    <3> QED  BY <3>1, <3>2, <3>3
  <2>5. \A s, t \in Signals : /\ Joined(s, t, type) => Joined(s, t, type)'
                              /\ Owed(s, t, type)' => Owed(s, t, type)
    BY <2>3 DEF Joined, Owed, upsertEdge, Ordered
  <2>6. \A s \in Signals : Through(s)' => Through(s)
    BY <2>3 DEF Through
  <2> QED  BY <2>2, <2>4, <2>5, <2>6, MeetKept
<1>9. ASSUME NEW w \in Crew, NEW k \in Keys, createSuggestion(w, k)
      PROVE  Meet(type)'
  <2>1. \A v \in Crew : v # w => crew'[v] = crew[v]
    BY <1>0, <1>9, Moves DEF Turned
  <2>2. crew[w].at = "draft" /\ UNCHANGED <<edges, nodes, similar>>
    BY <1>9 DEF createSuggestion
  <2> QED  BY <1>2, <2>1, <2>2
<1>10. ASSUME NEW s \in Signals, addCampaignMember(s) \/ removeCampaignMember(s)
       PROVE  Meet(type)'
  <2>1. UNCHANGED <<nodes, similar, spoilt, crew>>
    BY <1>10 DEF addCampaignMember, removeCampaignMember
  <2>2. \A x, t \in Signals : Joined(x, t, type) => Joined(x, t, type)'
    <3>1. \A x, t \in Signals : \A e \in upsertEdge(x, t, type) : e[3] # "CAMPAIGN_MEMBERSHIP"
      BY DEF upsertEdge, EdgeTypes
    <3>2. \A e \in edges : e[3] # "CAMPAIGN_MEMBERSHIP" => e \in edges'
      BY <1>10 DEF addCampaignMember, removeCampaignMember
    <3>3. \A x, t \in Signals : upsertEdge(x, t, type) \subseteq edges => upsertEdge(x, t, type) \subseteq edges'
      BY <3>1, <3>2
    <3> QED  BY <3>3 DEF Joined, upsertEdge, Ordered
  <2>3. \A x, t \in Signals : /\ Linking(x, t, type) => Linking(x, t, type)'
                              /\ Owed(x, t, type)' => Owed(x, t, type)
    BY <2>1 DEF Linking, Heading, Owed, Ordered
  <2>4. \A x \in Signals : Through(x)' => Through(x)
    BY <2>1 DEF Through
  <2> QED  BY <2>2, <2>3, <2>4 DEF Meet
<1>11. CASE UNCHANGED intelVars
  <2>1. UNCHANGED <<nodes, similar, spoilt, crew, edges>>
    BY <1>11 DEF intelVars
  <2>2. \A x, t \in Signals : /\ Linking(x, t, type) => Linking(x, t, type)'
                              /\ Owed(x, t, type)' => Owed(x, t, type)
                              /\ Joined(x, t, type) => Joined(x, t, type)'
    BY <2>1 DEF Linking, Heading, Owed, Ordered, Joined, upsertEdge
  <2>3. \A x \in Signals : Through(x)' => Through(x)
    BY <2>1 DEF Through
  <2> QED  BY <2>2, <2>3 DEF Meet
<1> QED  BY <1>3, <1>4, <1>5, <1>6, <1>7, <1>8, <1>9, <1>10, <1>11, Actions

\* The same of the comparison of texts.
LEMMA AlikeKept ==
    ASSUME GraphTypeOK, AlikeMeet, Onward, similar \subseteq similar', NEW w \in Crew,
           \A v \in Crew : v # w => crew'[v] = crew[v], NEW c, c = crew[w], NEW d, d = crew'[w],
           \A s \in embedded' \ embedded : d.signal = s /\ d.at = "similar",
           c.at = "similar" =>
               \/ c.signal \in spoilt'.failed
               \/ \A t \in embedded' : t # c.signal /\ Ordered(c.signal, t) \in Alike => Ordered(c.signal, t) \in similar'
    PROVE  AlikeMeet'
<1> SUFFICES ASSUME NEW s \in Signals, NEW t \in Signals, s # t, {s, t} \subseteq embedded' \ spoilt'.failed,
                    Ordered(s, t) \in Alike
             PROVE  Ordered(s, t) \in similar' \/ Compared(s)' \/ Compared(t)'
  BY DEF AlikeMeet, Ordered
<1>1. d.at = "similar" => Compared(d.signal)'
  BY DEF Compared
<1>2. CASE ~({s, t} \subseteq embedded)
  BY <1>2 DEF Compared
<1>3. CASE {s, t} \subseteq embedded
  <2>1. Ordered(s, t) \in similar \/ Compared(s) \/ Compared(t)
    BY <1>3 DEF AlikeMeet, Onward
  <2>2. ASSUME NEW x \in Signals, NEW y \in Signals, x # y, {x, y} \subseteq embedded', x \notin spoilt'.failed,
               Ordered(x, y) \in Alike, Compared(x)
        PROVE  Ordered(x, y) \in similar' \/ Compared(x)'
    <3>1. PICK v \in Crew : crew[v].signal = x /\ crew[v].at = "similar"
      BY <2>2 DEF Compared
    <3>2. CASE v = w
      BY <2>2, <3>1, <3>2
    <3>3. CASE v # w
      BY <3>1, <3>3 DEF Compared
    <3> QED  BY <3>2, <3>3
  <2>3. Ordered(t, s) = Ordered(s, t)
    BY Sorted
  <2> QED  BY <2>1, <2>2, <2>3
<1> QED  BY <1>2, <1>3

\* A signal is embedded before it looks for those like it.
LEMMA AlikeStep ==
    ASSUME GraphInv, [IntelNext]_intelVars, AlikeMeet
    PROVE  AlikeMeet'
<1>0. GraphTypeOK /\ WorkersFit /\ ClustersFit /\ Onward
  BY GraphFits DEF GraphInv
<1>1. ASSUME NEW w \in Crew, crew[w].at # "similar", \A v \in Crew : v # w => crew'[v] = crew[v],
             UNCHANGED <<embedded, similar>>
      PROVE  AlikeMeet'
  <2> SUFFICES ASSUME NEW c, c = crew[w], NEW d, d = crew'[w]
               PROVE  AlikeMeet'
    OBVIOUS
  <2> QED  BY <1>0, <1>1, AlikeKept
<1>2. ASSUME NEW w \in Crew, Quiet(w)
      PROVE  AlikeMeet'
  <2>1. UNCHANGED <<embedded, similar>>
    BY <1>2, QuietKeeps
  <2>2. \A v \in Crew : v # w => crew'[v] = crew[v]
    BY <1>0, <1>2, Moves, Turns DEF Quiet, Turned
  <2>3. crew[w] = Resting \/ crew[w].at \in {"find", "count", "node", "peers", "sims", "linkPeers", "linkSims", "draft"}
    BY <1>2 DEF Quiet, Hand, FindCluster, CountSignals, ReadNode, ReadPeers, PeersDone, generateSuggestions,
                SuggestionsDone
  <2>4. crew[w].at # "similar"
    BY <2>3 DEF Resting
  <2> QED  BY <1>1, <2>1, <2>2, <2>4
<1>3. ASSUME NEW w \in Crew, CreateCluster(w) \/ LinkSignal(w) \/ recount(w) \/ ensureNodeForSignal(w) \/ enrichSignal(w)
      PROVE  AlikeMeet'
  <2>1. \A v \in Crew : v # w => crew'[v] = crew[v]
    BY <1>0, <1>3, Moves, Turns DEF Turned
  <2>2. crew[w].at # "similar" /\ UNCHANGED <<embedded, similar>>
    BY <1>3 DEF CreateCluster, LinkSignal, recount, ensureNodeForSignal, enrichSignal
  <2> QED  BY <1>1, <2>1, <2>2
<1>4. ASSUME NEW w \in Crew, embedSignal(w)
      PROVE  AlikeMeet'
  <2> SUFFICES ASSUME NEW c, c = crew[w], NEW d, d = crew'[w]
               PROVE  AlikeMeet'
    OBVIOUS
  <2>1. Turned(w, IF c.text THEN "similar" ELSE "node", c.key, c.read, c.todo)
    BY <1>0, <1>4, Moves
  <2>2. c.at = "embed" /\ UNCHANGED similar /\ embedded' = IF c.text THEN embedded \union {c.signal} ELSE embedded
    BY <1>4 DEF embedSignal
  <2>3. /\ d.signal = c.signal /\ d.at = (IF c.text THEN "similar" ELSE "node")
        /\ \A v \in Crew : v # w => crew'[v] = crew[v]
    BY <2>1 DEF Turned
  <2>4. \A s \in embedded' \ embedded : d.signal = s /\ d.at = "similar"
    BY <2>2, <2>3
  <2> QED  BY <1>0, <2>2, <2>3, <2>4, AlikeKept
<1>5. ASSUME NEW w \in Crew, persistSimilar(w)
      PROVE  AlikeMeet'
  <2> SUFFICES ASSUME NEW c, c = crew[w], NEW d, d = crew'[w]
               PROVE  AlikeMeet'
    OBVIOUS
  <2>1. \A v \in Crew : v # w => crew'[v] = crew[v]
    BY <1>0, <1>5, Moves DEF Turned
  <2>2. /\ UNCHANGED embedded
        /\ similar' = similar \union ({Ordered(c.signal, x) : x \in embedded \ {c.signal}} \intersect Alike)
    BY <1>5 DEF persistSimilar
  <2>3. \A t \in embedded' : t # c.signal /\ Ordered(c.signal, t) \in Alike => Ordered(c.signal, t) \in similar'
    BY <2>2
  <2> QED  BY <1>0, <2>1, <2>2, <2>3, AlikeKept
<1>6. ASSUME NEW w \in Crew, PhaseFails(w)
      PROVE  AlikeMeet'
  <2> SUFFICES ASSUME NEW c, c = crew[w], NEW d, d = crew'[w]
               PROVE  AlikeMeet'
    OBVIOUS
  <2>1. \A v \in Crew : v # w => crew'[v] = crew[v]
    BY <1>0, <1>6, Moves DEF Turned
  <2>2. UNCHANGED <<embedded, similar>> /\ spoilt' = [spoilt EXCEPT !.failed = @ \union {c.signal}]
    BY <1>6 DEF PhaseFails
  <2>3. c.at = "similar" => c.signal \in spoilt'.failed
    <3>1. c.at = "similar" => c.signal \in Signals
      BY <1>0 DEF WorkersFit, Fits
    <3> QED  BY <1>0, <2>2, <3>1, Spoilt DEF GraphTypeOK
  <2> QED  BY <1>0, <2>1, <2>2, <2>3, AlikeKept
<1>7. ASSUME NEW w \in Crew, NEW peer \in Signals, LinkPeer(w, peer)
      PROVE  AlikeMeet'
  <2>1. \A v \in Crew : v # w => crew'[v] = crew[v]
    BY <1>0, <1>7, Moves DEF Turned
  <2>2. crew[w].at # "similar" /\ UNCHANGED <<embedded, similar>>
    BY <1>7 DEF LinkPeer
  <2> QED  BY <1>1, <2>1, <2>2
<1>8. ASSUME NEW w \in Crew, NEW k \in Keys, createSuggestion(w, k)
      PROVE  AlikeMeet'
  <2>1. \A v \in Crew : v # w => crew'[v] = crew[v]
    BY <1>0, <1>8, Moves DEF Turned
  <2>2. crew[w].at # "similar" /\ UNCHANGED <<embedded, similar>>
    BY <1>8 DEF createSuggestion
  <2> QED  BY <1>1, <2>1, <2>2
<1>9. ASSUME UNCHANGED <<embedded, similar, spoilt, crew>>
      PROVE  AlikeMeet'
  BY <1>9 DEF AlikeMeet, Ordered, Compared
<1>10. \A s \in Signals : addCampaignMember(s) \/ removeCampaignMember(s) => UNCHANGED <<embedded, similar, spoilt, crew>>
  BY DEF addCampaignMember, removeCampaignMember
<1>11. UNCHANGED intelVars => UNCHANGED <<embedded, similar, spoilt, crew>>
  BY DEF intelVars
<1> QED  BY <1>2, <1>3, <1>4, <1>5, <1>6, <1>7, <1>8, <1>9, <1>10, <1>11, Actions

\* An edge's ends are in order, the one of a campaign too.
LEMMA EdgesStep ==
    ASSUME GraphInv, [IntelNext]_intelVars, EdgesOrdered
    PROVE  EdgesOrdered'
<1>0. GraphTypeOK /\ WorkersFit
  BY DEF GraphInv
<1>1. \A e \in edges' \ edges : \E a, b \in Signals \union {Campaign} : \E type : e \in upsertEdge(a, b, type)
  <2>1. ASSUME NEW w \in Crew, NEW peer \in Signals, LinkPeer(w, peer)
        PROVE  \A e \in edges' \ edges : \E a, b \in Signals \union {Campaign} : \E type : e \in upsertEdge(a, b, type)
    <3> DEFINE s == crew[w].signal
               kind == IF crew[w].at = "linkPeers" THEN "CO_OCCURRENCE_CLUSTER" ELSE "SIMILAR_TEXT"
    <3>1. s \in Signals
      BY <1>0, <2>1 DEF LinkPeer, WorkersFit, Fits
    <3>2. edges' \subseteq edges \union upsertEdge(s, peer, kind)
      BY <2>1 DEF LinkPeer
    <3> HIDE DEF s, kind
    <3> QED  BY <3>1, <3>2
  <2>2. ASSUME NEW s \in Signals, addCampaignMember(s) \/ removeCampaignMember(s)
        PROVE  \A e \in edges' \ edges : \E a, b \in Signals \union {Campaign} : \E type : e \in upsertEdge(a, b, type)
    <3>1. edges' \subseteq edges \union upsertEdge(Campaign, s, "CAMPAIGN_MEMBERSHIP")
      BY <2>2 DEF addCampaignMember, removeCampaignMember
    <3> QED  BY <3>1
  <2>3. ASSUME NEW w \in Crew,
               \/ Quiet(w) \/ CreateCluster(w) \/ LinkSignal(w) \/ recount(w) \/ embedSignal(w) \/ persistSimilar(w)
               \/ ensureNodeForSignal(w) \/ enrichSignal(w) \/ PhaseFails(w)
        PROVE  edges' = edges
    BY <2>3, QuietKeeps DEF CreateCluster, LinkSignal, recount, embedSignal, persistSimilar, ensureNodeForSignal,
                            enrichSignal, PhaseFails
  <2>4. \A w \in Crew, k \in Keys : createSuggestion(w, k) => edges' = edges
    BY DEF createSuggestion
  <2>5. UNCHANGED intelVars => edges' = edges
    BY DEF intelVars
  <2> QED  BY <2>1, <2>2, <2>3, <2>4, <2>5, Actions
<1>2. ASSUME NEW a \in Signals \union {Campaign}, NEW b \in Signals \union {Campaign}, NEW type,
             NEW e \in upsertEdge(a, b, type)
      PROVE  e[1] < e[2]
  <2>1. a \in Nat /\ b \in Nat /\ a # b
    BY <1>2, IntelAssumption DEF upsertEdge
  <2>2. e[1] = Ordered(a, b)[1] /\ e[2] = Ordered(a, b)[2]
    BY <1>2, <2>1 DEF upsertEdge
  <2> QED  BY <2>1, <2>2 DEF Ordered
<1> QED  BY <1>1, <1>2 DEF EdgesOrdered

\* A step that links nothing, writes no count and reads none leaves the counts right.
LEMMA CountsKept ==
    ASSUME CountsFit, Onward, UNCHANGED <<clusters, clusterOf>>, spoilt'.recount = spoilt.recount,
           NEW w \in Crew, \A v \in Crew : v # w => crew'[v] = crew[v],
           NEW c, c = crew[w], NEW d, d = crew'[w],
           d.at = "counted" => d.read = Cardinality(Linked(KeyOf[d.signal])),
           c.at \in {"count", "counted"} =>
               \/ d.at \in {"count", "counted"} /\ d.signal = c.signal
               \/ Linked(KeyOf[c.signal]) \intersect spoilt'.failed # {}
    PROVE  CountsFit'
<1>1. \A k : Linked(k)' = Linked(k)
  BY DEF Linked
<1>2. ~spoilt'.recount =>
          \A v \in Crew : crew'[v].at = "counted" => crew'[v].read = Cardinality(Linked(KeyOf[crew'[v].signal]))
  BY DEF CountsFit
<1>3. ASSUME NEW k \in DOMAIN clusters
      PROVE  \/ spoilt'.recount \/ Linked(k) \intersect spoilt'.failed # {} \/ clusters'[k] = Cardinality(Linked(k))
             \/ Counting(k)'
  <2>1. \/ spoilt.recount \/ Linked(k) \intersect spoilt.failed # {} \/ clusters[k] = Cardinality(Linked(k))
        \/ Counting(k)
    BY DEF CountsFit
  <2>2. CASE Counting(k)
    <3>1. PICK v \in Crew : crew[v].at \in {"count", "counted"} /\ KeyOf[crew[v].signal] = k
      BY <2>2 DEF Counting
    <3>2. CASE v = w
      BY <3>1, <3>2 DEF Counting
    <3>3. CASE v # w
      BY <3>1, <3>3 DEF Counting
    <3> QED  BY <3>2, <3>3
  <2>3. Linked(k) \intersect spoilt.failed # {} => Linked(k) \intersect spoilt'.failed # {}
    BY DEF Onward
  <2> QED  BY <2>1, <2>2, <2>3
<1>5. ~spoilt'.recount =>
          \A v \in Crew : crew'[v].at = "counted" => crew'[v].read = Cardinality(Linked(KeyOf[crew[v].signal])')
  BY <1>2 DEF Linked
<1> QED  BY <1>1, <1>3, <1>5 DEF CountsFit

\* Each action keeps the clusters' counts right, but for an overlap or a failure.
LEMMA CountsStep ==
    ASSUME GraphInv, [IntelNext]_intelVars, CountsFit
    PROVE  CountsFit'
<1>0. GraphTypeOK /\ WorkersFit /\ ClustersFit /\ Onward
  BY GraphFits DEF GraphInv
<1>1. ASSUME NEW w \in Crew, NEW c, c = crew[w], NEW d, d = crew'[w], \A v \in Crew : v # w => crew'[v] = crew[v],
             c.at \notin {"count", "counted"}, d.at # "counted",
             UNCHANGED <<clusters, clusterOf>>, spoilt'.recount = spoilt.recount
      PROVE  CountsFit'
  BY <1>0, <1>1, CountsKept
<1>2. ASSUME NEW w \in Crew, Quiet(w)
      PROVE  CountsFit'
  <2> SUFFICES ASSUME NEW c, c = crew[w], NEW d, d = crew'[w]
               PROVE  CountsFit'
    OBVIOUS
  <2>1. UNCHANGED <<clusters, clusterOf, spoilt>>
    BY <1>2, QuietKeeps
  <2>2. \A v \in Crew : v # w => crew'[v] = crew[v]
    BY <1>0, <1>2, Moves, Turns DEF Quiet, Turned
  <2>3. CASE CountSignals(w)
    <3>1. Turned(w, "counted", c.key, Cardinality(Linked(KeyOf[c.signal])), c.todo)
      BY <1>0, <2>3, Moves
    <3>2. d.at = "counted" /\ d.read = Cardinality(Linked(KeyOf[c.signal])) /\ d.signal = c.signal
      BY <3>1 DEF Turned
    <3> QED  BY <1>0, <2>1, <2>2, <3>2, CountsKept
  <2>4. CASE ~CountSignals(w)
    <3>1. c = Resting \/ c.at \in {"find", "node", "peers", "sims", "linkPeers", "linkSims", "draft"}
      BY <1>2, <2>4 DEF Quiet, Hand, FindCluster, ReadNode, ReadPeers, PeersDone, generateSuggestions, SuggestionsDone
    <3>2. c.at \notin {"count", "counted"}
      BY <3>1 DEF Resting
    <3>3. d.at # "counted"
      <4>1. \A s \in Signals, score \in Scores, text \in BOOLEAN : Hand(w, s, score, text) => d.at # "counted"
        BY <1>0, Turns
      <4>2. generateSuggestions(w) \/ SuggestionsDone(w) => d.at # "counted"
        BY <1>0, Turns DEF Resting
      <4>3. FindCluster(w) \/ ReadNode(w) \/ ReadPeers(w) \/ PeersDone(w) => d.at # "counted"
        BY <1>0, Moves DEF Turned
      <4> QED  BY <1>2, <2>4, <4>1, <4>2, <4>3 DEF Quiet
    <3> QED  BY <1>1, <2>1, <2>2, <3>2, <3>3
  <2> QED  BY <2>3, <2>4
<1>3. ASSUME NEW w \in Crew, CreateCluster(w)
      PROVE  CountsFit'
  <2> SUFFICES ASSUME NEW c, c = crew[w], NEW d, d = crew'[w]
               PROVE  CountsFit'
    OBVIOUS
  <2> DEFINE key == KeyOf[c.signal]
  <2>1. Turned(w, IF key \in DOMAIN clusters THEN "embed" ELSE "link", c.key, c.read, c.todo)
    BY <1>0, <1>3, Moves
  <2>2. c.at = "create" /\ c.signal \in Signals /\ key # NoKey /\ UNCHANGED clusterOf
    BY <1>0, <1>3, Phases DEF CreateCluster, WorkersFit, Fits
  <2>3. d.at \in {"embed", "link"} /\ \A v \in Crew : v # w => crew'[v] = crew[v]
    BY <2>1 DEF Turned
  <2>4. CASE key \in DOMAIN clusters
    <3>1. UNCHANGED clusters /\ spoilt' = [spoilt EXCEPT !.failed = @ \union {c.signal}]
      BY <1>3, <2>4 DEF CreateCluster
    <3>2. spoilt'.recount = spoilt.recount
      BY <1>0, <2>2, <3>1, Spoilt DEF GraphTypeOK
    <3> QED  BY <1>1, <2>2, <2>3, <3>1, <3>2
  <2>5. CASE key \notin DOMAIN clusters
    <3>1. spoilt' = spoilt /\ clusters' = [k \in DOMAIN clusters \union {key} |-> IF k = key THEN 0 ELSE clusters[k]]
      BY <1>3, <2>5 DEF CreateCluster
    <3>2. Linked(key) = {}
      BY <1>0, <2>2, <2>5 DEF Linked, ClustersFit
    <3>3. Cardinality(Linked(key)) = 0
      BY <3>2, FS_EmptySet
    <3>4. \A k : Linked(k)' = Linked(k)
      BY <2>2 DEF Linked
    <3>5. \A v \in Crew : crew'[v].at \in {"count", "counted"} => crew'[v] = crew[v]
      BY <2>3
    <3>6. \A k : Counting(k) => Counting(k)'
      BY <2>2, <2>3 DEF Counting
    <3>7. \A k \in DOMAIN clusters' : clusters'[k] = IF k = key THEN 0 ELSE clusters[k]
      BY <3>1
    <3>8. ASSUME NEW k \in DOMAIN clusters'
          PROVE  \/ spoilt'.recount \/ Linked(k)' \intersect spoilt'.failed # {} \/ clusters'[k] = Cardinality(Linked(k)')
                 \/ Counting(k)'
      <4>1. CASE k = key
        BY <3>3, <3>4, <3>7, <4>1
      <4>2. CASE k # key
        <5>1. k \in DOMAIN clusters /\ clusters'[k] = clusters[k]
          BY <3>1, <3>7, <4>2
        <5> QED  BY <3>1, <3>4, <3>6, <5>1 DEF CountsFit
      <4> QED  BY <4>1, <4>2
    <3>9. ~spoilt'.recount =>
              \A v \in Crew : crew'[v].at = "counted" => crew'[v].read = Cardinality(Linked(KeyOf[crew[v].signal])')
      BY <3>1, <3>5, <2>2 DEF CountsFit, Linked
    <3> QED  BY <3>5, <3>8, <3>9 DEF CountsFit
  <2> QED  BY <2>4, <2>5
<1>4. ASSUME NEW w \in Crew, LinkSignal(w)
      PROVE  CountsFit'
  <2> SUFFICES ASSUME NEW c, c = crew[w], NEW d, d = crew'[w]
               PROVE  CountsFit'
    OBVIOUS
  <2> DEFINE key == KeyOf[c.signal]
  <2>1. Turned(w, "count", c.key, c.read, c.todo)
    BY <1>0, <1>4, Moves
  <2>2. c.at = "link" /\ c.signal \in Signals /\ key # NoKey /\ UNCHANGED clusters
        /\ clusterOf' = [clusterOf EXCEPT ![c.signal] = key]
    BY <1>0, <1>4, Phases DEF LinkSignal, WorkersFit, Fits
  <2>3. d.at = "count" /\ d.signal = c.signal /\ \A v \in Crew : v # w => crew'[v] = crew[v]
    BY <2>1 DEF Turned
  <2>4. (spoilt'.recount <=> spoilt.recount \/ Others(w, {"counted"})) /\ spoilt'.failed = spoilt.failed
    BY <1>0, <1>4, <2>2, Spoilt DEF LinkSignal, GraphTypeOK
  <2>5. ASSUME NEW k \in DOMAIN clusters, k # key
        PROVE  Linked(k)' = Linked(k)
    <3>1. clusterOf[c.signal] \in {NoKey, key} /\ k # NoKey
      BY <1>0, <2>2, <2>5 DEF ClustersFit, GraphTypeOK, Keys
    <3>2. clusterOf'[c.signal] = key /\ \A s \in Signals : s # c.signal => clusterOf'[s] = clusterOf[s]
      BY <1>0, <2>2 DEF GraphTypeOK
    <3>3. \A s \in Signals : clusterOf'[s] = k <=> clusterOf[s] = k
      BY <2>5, <3>1, <3>2
    <3> HIDE DEF key
    <3> QED  BY <3>3 DEF Linked
  <2>6. ~spoilt'.recount => \A v \in Crew : crew'[v].at # "counted"
    BY <2>2, <2>3, <2>4 DEF Others
  <2>7. ASSUME NEW k \in DOMAIN clusters
        PROVE  \/ spoilt'.recount \/ Linked(k)' \intersect spoilt'.failed # {} \/ clusters'[k] = Cardinality(Linked(k)')
               \/ Counting(k)'
    <3>1. CASE k = key
      BY <2>3, <3>1 DEF Counting
    <3>2. CASE k # key
      <4>1. Linked(k)' = Linked(k)
        BY <2>5, <3>2
      <4>2. Counting(k) => Counting(k)'
        BY <2>2, <2>3 DEF Counting
      <4> QED  BY <2>2, <2>4, <4>1, <4>2 DEF CountsFit
    <3> QED  BY <3>1, <3>2
  <2> QED  BY <2>2, <2>6, <2>7 DEF CountsFit
<1>5. ASSUME NEW w \in Crew, recount(w)
      PROVE  CountsFit'
  <2> SUFFICES ASSUME NEW c, c = crew[w], NEW d, d = crew'[w]
               PROVE  CountsFit'
    OBVIOUS
  <2> DEFINE key == KeyOf[c.signal]
  <2>1. Turned(w, "embed", clusterOf[c.signal], c.read, c.todo)
    BY <1>0, <1>5, Moves
  <2>2. c.at = "counted" /\ UNCHANGED <<clusterOf, spoilt>> /\ clusters' = [clusters EXCEPT ![key] = c.read]
    BY <1>5 DEF recount
  <2>3. d.at = "embed" /\ \A v \in Crew : v # w => crew'[v] = crew[v]
    BY <2>1 DEF Turned
  <2>4. \A k : Linked(k)' = Linked(k)
    BY <2>2 DEF Linked
  <2>5. ~spoilt.recount => c.read = Cardinality(Linked(key))
    BY <2>2 DEF CountsFit
  <2>6. DOMAIN clusters' = DOMAIN clusters
        /\ \A k \in DOMAIN clusters : clusters'[k] = IF k = key THEN c.read ELSE clusters[k]
    BY <1>0, <2>2 DEF GraphTypeOK
  <2>7. ASSUME NEW k \in DOMAIN clusters
        PROVE  \/ spoilt'.recount \/ Linked(k)' \intersect spoilt'.failed # {} \/ clusters'[k] = Cardinality(Linked(k)')
               \/ Counting(k)'
    <3>1. CASE k = key
      BY <2>2, <2>4, <2>5, <2>6, <3>1
    <3>2. CASE k # key
      <4>1. Counting(k) => Counting(k)'
        BY <2>2, <2>3, <3>2 DEF Counting
      <4> QED  BY <2>2, <2>4, <2>6, <3>2, <4>1 DEF CountsFit
    <3> QED  BY <3>1, <3>2
  <2>8. \A v \in Crew : crew'[v].at = "counted" => crew'[v] = crew[v]
    BY <2>3
  <2>9. ~spoilt'.recount =>
            \A v \in Crew : crew'[v].at = "counted" => crew'[v].read = Cardinality(Linked(KeyOf[crew[v].signal])')
    BY <2>2, <2>8 DEF CountsFit, Linked
  <2> QED  BY <2>6, <2>7, <2>8, <2>9 DEF CountsFit
<1>6. ASSUME NEW w \in Crew, embedSignal(w) \/ persistSimilar(w) \/ enrichSignal(w)
      PROVE  CountsFit'
  <2> SUFFICES ASSUME NEW c, c = crew[w], NEW d, d = crew'[w]
               PROVE  CountsFit'
    OBVIOUS
  <2>1. \A v \in Crew : v # w => crew'[v] = crew[v]
    BY <1>0, <1>6, Moves, Turns DEF Turned
  <2>2. d.at # "counted"
    BY <1>0, <1>6, Moves, Turns DEF Turned, Resting
  <2>3. c.at \notin {"count", "counted"} /\ UNCHANGED <<clusters, clusterOf, spoilt>>
    BY <1>6 DEF embedSignal, persistSimilar, enrichSignal
  <2> QED  BY <1>1, <2>1, <2>2, <2>3
<1>7. ASSUME NEW w \in Crew, ensureNodeForSignal(w)
      PROVE  CountsFit'
  <2> SUFFICES ASSUME NEW c, c = crew[w], NEW d, d = crew'[w]
               PROVE  CountsFit'
    OBVIOUS
  <2>1. d.at # "counted" /\ \A v \in Crew : v # w => crew'[v] = crew[v]
    BY <1>0, <1>7, Moves DEF Turned
  <2>2. c.at \in {"createNode", "updateNode"} /\ c.signal \in Signals /\ UNCHANGED <<clusters, clusterOf>>
    BY <1>0, <1>7 DEF ensureNodeForSignal, WorkersFit, Fits
  <2>3. spoilt'.recount = spoilt.recount
    <3> DEFINE b == c.read # nodes[c.signal].risk
    <3>1. spoilt' = [spoilt EXCEPT !.failed = @ \union {c.signal}]
          \/ spoilt' = [spoilt EXCEPT !.risk = IF b THEN @ \union {c.signal} ELSE @]
      BY <1>7 DEF ensureNodeForSignal
    <3> HIDE DEF b
    <3> QED  BY <1>0, <2>2, <3>1, Spoilt DEF GraphTypeOK
  <2> QED  BY <1>1, <2>1, <2>2, <2>3
<1>8. ASSUME NEW w \in Crew, PhaseFails(w)
      PROVE  CountsFit'
  <2> SUFFICES ASSUME NEW c, c = crew[w], NEW d, d = crew'[w]
               PROVE  CountsFit'
    OBVIOUS
  <2>1. Turned(w, IF c.at \in Clustering THEN "embed" ELSE IF c.at \in Embedding THEN "node" ELSE "osint",
               c.key, c.read, {})
    BY <1>0, <1>8, Moves
  <2>2. d.at # "counted" /\ \A v \in Crew : v # w => crew'[v] = crew[v]
    BY <2>1 DEF Turned
  <2>3. c.at \notin {"none", "draft"} /\ Fits(c) /\ c.signal \in Signals
    BY <1>0, <1>8, Phases DEF PhaseFails, WorkersFit, Fits, Clustering, Embedding, Graphing
  <2>4. UNCHANGED <<clusters, clusterOf>> /\ spoilt' = [spoilt EXCEPT !.failed = @ \union {c.signal}]
    BY <1>8 DEF PhaseFails
  <2>5. spoilt'.failed = spoilt.failed \union {c.signal} /\ spoilt'.recount = spoilt.recount
    BY <1>0, <2>3, <2>4, Spoilt DEF GraphTypeOK
  <2>6. c.at \in {"count", "counted"} => Linked(KeyOf[c.signal]) \intersect spoilt'.failed # {}
    BY <2>3, <2>5 DEF Fits, Linked
  <2> QED  BY <1>0, <2>2, <2>4, <2>5, <2>6, CountsKept
<1>9. ASSUME NEW w \in Crew, NEW T, Turned(w, crew[w].at, crew[w].key, crew[w].read, T),
             crew[w].at \notin {"count", "counted"}, UNCHANGED <<clusters, clusterOf>>, spoilt'.recount = spoilt.recount
      PROVE  CountsFit'
  <2> SUFFICES ASSUME NEW c, c = crew[w], NEW d, d = crew'[w]
               PROVE  CountsFit'
    OBVIOUS
  <2>1. d.at # "counted" /\ \A v \in Crew : v # w => crew'[v] = crew[v]
    BY <1>9 DEF Turned
  <2> QED  BY <1>1, <1>9, <2>1
<1>10. ASSUME NEW w \in Crew, NEW peer \in Signals, LinkPeer(w, peer)
       PROVE  CountsFit'
  <2>1. Turned(w, crew[w].at, crew[w].key, crew[w].read, crew[w].todo \ {peer})
    BY <1>0, <1>10, Moves
  <2>2. crew[w].at \notin {"count", "counted"} /\ UNCHANGED <<clusters, clusterOf, spoilt>>
    BY <1>10 DEF LinkPeer
  <2> QED  BY <1>9, <2>1, <2>2
<1>11. ASSUME NEW w \in Crew, NEW k \in Keys, createSuggestion(w, k)
       PROVE  CountsFit'
  <2>1. Turned(w, crew[w].at, crew[w].key, crew[w].read, crew[w].todo \ {k})
    BY <1>0, <1>11, Moves
  <2>2. crew[w].at \notin {"count", "counted"} /\ UNCHANGED <<clusters, clusterOf>> /\ spoilt'.recount = spoilt.recount
    BY <1>0, <1>11, Redrafted DEF createSuggestion, GraphTypeOK
  <2> QED  BY <1>9, <2>1, <2>2
<1>12. ASSUME UNCHANGED <<clusters, clusterOf, spoilt, crew>>
       PROVE  CountsFit'
  BY <1>12 DEF CountsFit, Counting, Linked
<1>13. \A s \in Signals : addCampaignMember(s) \/ removeCampaignMember(s) => UNCHANGED <<clusters, clusterOf, spoilt, crew>>
  BY DEF addCampaignMember, removeCampaignMember
<1>14. UNCHANGED intelVars => UNCHANGED <<clusters, clusterOf, spoilt, crew>>
  BY DEF intelVars
<1> QED  BY <1>2, <1>3, <1>4, <1>5, <1>6, <1>7, <1>8, <1>10, <1>11, <1>12, <1>13, <1>14, Actions

\* A node's risk: what was read and the score, whichever is larger.
LEMMA RisksStep ==
    ASSUME GraphInv, [IntelNext]_intelVars, RisksFit
    PROVE  RisksFit'
<1>0. GraphTypeOK /\ WorkersFit
  BY DEF GraphInv
<1>1. ASSUME UNCHANGED <<nodes, processed>>, spoilt.risk \subseteq spoilt'.risk
      PROVE  RisksFit'
  BY <1>1 DEF RisksFit
<1>2. ASSUME NEW w \in Crew,
             \/ Quiet(w) \/ recount(w) \/ embedSignal(w) \/ persistSimilar(w) \/ enrichSignal(w)
             \/ \E peer \in Signals : LinkPeer(w, peer)
      PROVE  RisksFit'
  <2>1. UNCHANGED <<nodes, processed, spoilt>>
    BY <1>2, QuietKeeps DEF recount, embedSignal, persistSimilar, enrichSignal, LinkPeer
  <2> QED  BY <1>1, <2>1
<1>3. ASSUME NEW w \in Crew, CreateCluster(w) \/ LinkSignal(w) \/ PhaseFails(w)
      PROVE  RisksFit'
  <2>1. crew[w].signal \in Signals
    BY <1>0, <1>3, Phases DEF CreateCluster, LinkSignal, PhaseFails, WorkersFit, Fits, Clustering, Embedding, Graphing
  <2>2. UNCHANGED <<nodes, processed>>
    BY <1>3 DEF CreateCluster, LinkSignal, PhaseFails
  <2>3. \/ UNCHANGED spoilt \/ spoilt' = [spoilt EXCEPT !.failed = @ \union {crew[w].signal}]
        \/ spoilt' = [spoilt EXCEPT !.recount = @ \/ Others(w, {"counted"})]
    BY <1>3 DEF CreateCluster, LinkSignal, PhaseFails
  <2>4. spoilt'.risk = spoilt.risk
    BY <1>0, <2>1, <2>3, Spoilt DEF GraphTypeOK
  <2> QED  BY <1>1, <2>2, <2>4
<1>4. ASSUME NEW w \in Crew, ensureNodeForSignal(w)
      PROVE  RisksFit'
  <2> DEFINE c == crew[w]  s == crew[w].signal  b == c.read # nodes[s].risk
  <2>1. s \in Signals /\ c.score \in Nat /\ c.read \in Nat
    BY <1>0, <1>4 DEF ensureNodeForSignal, GraphTypeOK, WorkersFit, Fits, Workers
  <2>2. CASE c.at = "createNode" /\ nodes[s] # NoNode
    <3>1. UNCHANGED <<nodes, processed>> /\ spoilt' = [spoilt EXCEPT !.failed = @ \union {s}]
      BY <1>4, <2>2 DEF ensureNodeForSignal
    <3>2. spoilt'.risk = spoilt.risk
      BY <1>0, <2>1, <3>1, Spoilt DEF GraphTypeOK
    <3> QED  BY <1>1, <3>1, <3>2
  <2>3. CASE ~(c.at = "createNode" /\ nodes[s] # NoNode)
    <3> DEFINE r == Max({c.read, c.score})
    <3>1. /\ nodes' = [nodes EXCEPT ![s] = [count |-> @.count + 1, risk |-> r]]
          /\ processed' = [processed EXCEPT ![s] = @ \union {c.score}]
          /\ spoilt' = [spoilt EXCEPT !.risk = IF b THEN @ \union {s} ELSE @]
      BY <1>4, <2>3 DEF ensureNodeForSignal
    <3>2. spoilt'.risk = IF b THEN spoilt.risk \union {s} ELSE spoilt.risk
      <4> HIDE DEF b
      <4> QED  BY <1>0, <2>1, <3>1, Spoilt DEF GraphTypeOK
    <3>3. r = IF c.read >= c.score THEN c.read ELSE c.score
      BY <2>1, LargerOfTwo
    <3> HIDE DEF r
    <3>4. nodes'[s].risk = r /\ nodes'[s] # NoNode /\ \A t \in Signals : t # s => nodes'[t] = nodes[t]
      BY <1>0, <2>1, <3>1, CountedNode DEF GraphTypeOK
    <3>5. /\ processed'[s] = processed[s] \union {c.score} /\ processed[s] \subseteq Nat
          /\ \A t \in Signals : t # s => processed'[t] = processed[t]
      BY <1>0, <2>1, <3>1 DEF GraphTypeOK
    <3>6. s \in spoilt'.risk \/ Highest(r, processed'[s])
      <4>1. CASE b \/ s \in spoilt.risk
        BY <3>2, <4>1
      <4>2. CASE nodes[s] = NoNode /\ ~b
        <5>1. c.read = 0 /\ processed[s] = {}
          BY <2>1, <4>2 DEF NoNode, RisksFit
        <5>2. r = c.score
          BY <2>1, <3>3, <5>1
        <5> QED  BY <2>1, <3>5, <5>1, <5>2 DEF Highest
      <4>3. CASE nodes[s] # NoNode /\ ~b /\ s \notin spoilt.risk
        <5>1. c.read \in processed[s] /\ \A m \in processed[s] : m <= c.read
          BY <2>1, <4>3 DEF RisksFit, Highest
        <5>2. \A m \in processed'[s] : m <= r
          BY <2>1, <3>3, <3>5, <5>1
        <5> QED  BY <3>3, <3>5, <5>1, <5>2 DEF Highest
      <4> QED  BY <4>1, <4>2, <4>3
    <3>7. ASSUME NEW t \in Signals
          PROVE  /\ nodes'[t] = NoNode => processed'[t] = {}
                 /\ nodes'[t] # NoNode => t \in spoilt'.risk \/ Highest(nodes'[t].risk, processed'[t])
      <4>1. CASE t = s
        BY <3>4, <3>6, <4>1
      <4>2. CASE t # s
        <5>1. nodes'[t] = nodes[t] /\ processed'[t] = processed[t] /\ (t \in spoilt.risk => t \in spoilt'.risk)
          BY <3>2, <3>4, <3>5, <4>2
        <5> HIDE DEF s
        <5> QED  BY <5>1 DEF RisksFit
      <4> QED  BY <4>1, <4>2
    <3> QED  BY <3>7 DEF RisksFit, Highest
  <2> QED  BY <2>2, <2>3
<1>5. ASSUME NEW w \in Crew, NEW k \in Keys, createSuggestion(w, k)
      PROVE  RisksFit'
  <2>1. UNCHANGED <<nodes, processed>> /\ spoilt'.risk = spoilt.risk
    BY <1>0, <1>5, Redrafted DEF createSuggestion, GraphTypeOK
  <2> QED  BY <1>1, <2>1
<1>6. \A s \in Signals : addCampaignMember(s) \/ removeCampaignMember(s) => UNCHANGED <<nodes, processed, spoilt>>
  BY DEF addCampaignMember, removeCampaignMember
<1>7. UNCHANGED intelVars => UNCHANGED <<nodes, processed, spoilt>>
  BY DEF intelVars
<1> QED  BY <1>1, <1>2, <1>3, <1>4, <1>5, <1>6, <1>7, Actions

\* A generation that has no other beside it drafts for clusters without a rule.
LEMMA SuggestionsStep ==
    ASSUME GraphInv, [IntelNext]_intelVars, DraftsFit
    PROVE  DraftsFit'
<1>0. GraphTypeOK /\ WorkersFit
  BY DEF GraphInv
<1>1. ASSUME NEW w \in Crew, \A v \in Crew : v # w => crew'[v] = crew[v],
             crew'[w].at = "draft" => \A k \in crew'[w].todo \intersect Keys : suggested[k] = 0,
             UNCHANGED suggested, spoilt'.draft = spoilt.draft
      PROVE  DraftsFit'
  BY <1>1 DEF DraftsFit
<1>2. ASSUME NEW w \in Crew, Quiet(w)
      PROVE  DraftsFit'
  <2>1. UNCHANGED <<suggested, spoilt>>
    BY <1>2, QuietKeeps
  <2>2. \A v \in Crew : v # w => crew'[v] = crew[v]
    BY <1>0, <1>2, Moves, Turns DEF Quiet, Turned
  <2>3. crew'[w].at = "draft" => \A k \in crew'[w].todo : suggested[k] = 0
    <3>1. \A s \in Signals, score \in Scores, text \in BOOLEAN : Hand(w, s, score, text) => crew'[w].at # "draft"
      BY <1>0, Turns
    <3>2. SuggestionsDone(w) => crew'[w].at # "draft"
      BY <1>0, Turns DEF Resting
    <3>3. FindCluster(w) \/ CountSignals(w) \/ ReadNode(w) \/ ReadPeers(w) \/ PeersDone(w) => crew'[w].at # "draft"
      BY <1>0, Moves DEF Turned
    <3>4. generateSuggestions(w) => \A k \in crew'[w].todo : suggested[k] = 0
      BY <1>0, Turns
    <3> QED  BY <1>2, <3>1, <3>2, <3>3, <3>4 DEF Quiet
  <2> QED  BY <1>1, <2>1, <2>2, <2>3
<1>3. ASSUME NEW w \in Crew,
             \/ CreateCluster(w) \/ LinkSignal(w) \/ recount(w) \/ embedSignal(w) \/ persistSimilar(w)
             \/ ensureNodeForSignal(w) \/ enrichSignal(w) \/ PhaseFails(w)
      PROVE  DraftsFit'
  <2> DEFINE s == crew[w].signal  b == crew[w].read # nodes[s].risk
  <2>1. \A v \in Crew : v # w => crew'[v] = crew[v]
    BY <1>0, <1>3, Moves, Turns DEF Turned
  <2>2. crew'[w].at # "draft"
    <3>1. enrichSignal(w) => crew'[w].at # "draft"
      BY <1>0, Turns DEF Resting
    <3> QED  BY <1>0, <1>3, <3>1, Moves DEF Turned
  <2>3. UNCHANGED suggested
    BY <1>3 DEF CreateCluster, LinkSignal, recount, embedSignal, persistSimilar, ensureNodeForSignal, enrichSignal,
                PhaseFails
  <2>4. \/ UNCHANGED spoilt \/ spoilt' = [spoilt EXCEPT !.failed = @ \union {s}]
        \/ spoilt' = [spoilt EXCEPT !.recount = @ \/ Others(w, {"counted"})]
        \/ spoilt' = [spoilt EXCEPT !.risk = IF b THEN @ \union {s} ELSE @]
    BY <1>3 DEF CreateCluster, LinkSignal, recount, embedSignal, persistSimilar, ensureNodeForSignal, enrichSignal,
                PhaseFails
  <2>5. s \in Signals
    BY <1>0, <1>3, Phases DEF CreateCluster, LinkSignal, recount, embedSignal, persistSimilar, ensureNodeForSignal,
                              enrichSignal, PhaseFails, WorkersFit, Fits, Clustering, Embedding, Graphing
  <2>6. spoilt'.draft = spoilt.draft
    <3> HIDE DEF b, s
    <3> QED  BY <1>0, <2>4, <2>5, Spoilt DEF GraphTypeOK
  <2> QED  BY <1>1, <2>1, <2>2, <2>3, <2>6
<1>4. ASSUME NEW w \in Crew, NEW peer \in Signals, LinkPeer(w, peer)
      PROVE  DraftsFit'
  <2>1. Turned(w, crew[w].at, crew[w].key, crew[w].read, crew[w].todo \ {peer})
    BY <1>0, <1>4, Moves
  <2>2. crew[w].at # "draft" /\ UNCHANGED <<suggested, spoilt>>
    BY <1>4 DEF LinkPeer
  <2> QED  BY <1>1, <2>1, <2>2 DEF Turned
<1>5. ASSUME NEW w \in Crew, NEW k \in Keys, createSuggestion(w, k)
      PROVE  DraftsFit'
  <2>1. Turned(w, crew[w].at, crew[w].key, crew[w].read, crew[w].todo \ {k})
    BY <1>0, <1>5, Moves
  <2>2. crew[w].at = "draft" /\ k \in crew[w].todo /\ suggested' = [suggested EXCEPT ![k] = @ + 1]
    BY <1>5 DEF createSuggestion
  <2>3. spoilt'.draft <=> spoilt.draft \/ Others(w, {"draft"})
    BY <1>0, <1>5, Redrafted DEF createSuggestion, GraphTypeOK
  <2> SUFFICES ASSUME ~spoilt.draft, ~Others(w, {"draft"})
               PROVE  /\ \A x \in Keys : suggested'[x] <= 1
                      /\ \A v \in Crew : crew'[v].at = "draft" => \A x \in crew'[v].todo \intersect Keys : suggested'[x] = 0
    BY <2>3 DEF DraftsFit
  <2>4. suggested[k] = 0
    BY <2>2 DEF DraftsFit
  <2>5. suggested'[k] = 1 /\ \A x \in Keys : x # k => suggested'[x] = suggested[x]
    BY <1>0, <2>2, <2>4 DEF GraphTypeOK
  <2>6. \A x \in Keys : suggested'[x] <= 1
    BY <2>5 DEF DraftsFit
  <2>7. ASSUME NEW v \in Crew, crew'[v].at = "draft", NEW x \in crew'[v].todo \intersect Keys
        PROVE  suggested'[x] = 0
    <3>1. v = w
      BY <2>1, <2>7 DEF Turned, Others
    <3>2. x \in crew[w].todo /\ x # k
      BY <2>1, <2>7, <3>1 DEF Turned
    <3> QED  BY <2>2, <2>5, <3>2 DEF DraftsFit
  <2> QED  BY <2>6, <2>7
<1>6. ASSUME UNCHANGED <<suggested, spoilt, crew>>
      PROVE  DraftsFit'
  BY <1>6 DEF DraftsFit
<1>7. \A s \in Signals : addCampaignMember(s) \/ removeCampaignMember(s) => UNCHANGED <<suggested, spoilt, crew>>
  BY DEF addCampaignMember, removeCampaignMember
<1>8. UNCHANGED intelVars => UNCHANGED <<suggested, spoilt, crew>>
  BY DEF intelVars
<1> QED  BY <1>2, <1>3, <1>4, <1>5, <1>6, <1>7, <1>8, Actions

-----------------------------------------------------------------------------
EnrichmentInv == GraphInv /\ PeersMeet /\ AlikeMeet /\ EdgesOrdered /\ CountsFit /\ RisksFit /\ DraftsFit

\* At first nothing is under way, and at most one signal is in a cluster of its own.
LEMMA InitEnrichment == IntelInit => EnrichmentInv
<1> SUFFICES ASSUME IntelInit
             PROVE  EnrichmentInv
  OBVIOUS
<1>1. PICK old \in {{}} \union {{s} : s \in {t \in Signals : KeyOf[t] # NoKey}} :
          /\ clusters = [k \in {KeyOf[s] : s \in old} |-> 1]
          /\ clusterOf = [s \in Signals |-> IF s \in old THEN KeyOf[s] ELSE NoKey]
          /\ nodes = [s \in Signals |-> IF s \in old THEN [count |-> 1, risk |-> Min(Scores)] ELSE NoNode]
          /\ processed = [s \in Signals |-> IF s \in old THEN {Min(Scores)} ELSE {}]
          /\ embedded = old
  BY DEF IntelInit
<1>2. /\ similar = {} /\ edges = {} /\ suggested = [k \in Keys |-> 0] /\ crew = [w \in Crew |-> Resting]
      /\ spoilt = [recount |-> FALSE, risk |-> {}, failed |-> {}, draft |-> FALSE]
  BY DEF IntelInit
<1>3. /\ old \subseteq Signals /\ \A s \in old : KeyOf[s] \in Keys
      /\ \A s, t \in old : s = t
  BY DEF Keys
<1>4. Min(Scores) \in Scores /\ Min(Scores) \in Nat
  BY IntelAssumption, MinExists
<1>5. Resting \in Workers /\ Resting.at = "none"
  BY StagesKnown DEF Workers, Resting
<1>6. GraphTypeOK
  <2>1. \A s \in Signals : [count |-> 1, risk |-> Min(Scores)] \in [count: Nat, risk: Nat]
    BY <1>4
  <2>2. NoNode \in [count: Nat, risk: Nat]
    BY DEF NoNode
  <2>3. nodes \in [Signals -> [count: Nat, risk: Nat]]
    BY <1>1, <2>1, <2>2
  <2>4. spoilt \in Spoils
    BY <1>2 DEF Spoils
  <2>5. DOMAIN clusters = {KeyOf[s] : s \in old} /\ clusters = [k \in DOMAIN clusters |-> clusters[k]]
    BY <1>1
  <2>6. DOMAIN clusters \subseteq Keys
    BY <1>3, <2>5
  <2>7. clusterOf \in [Signals -> Keys \union {NoKey}] /\ processed \in [Signals -> SUBSET Nat]
    BY <1>1, <1>3, <1>4
  <2>8. suggested \in [Keys -> Nat] /\ crew \in [Crew -> Workers]
    BY <1>2, <1>5
  <2> QED  BY <1>1, <1>3, <2>3, <2>4, <2>5, <2>6, <2>7, <2>8 DEF GraphTypeOK
<1>7. \A w \in Crew : crew[w].at = "none"
  BY <1>2, <1>5
<1>8. WorkersFit
  BY <1>7, Phases DEF WorkersFit, Fits
<1>9. \A s \in Signals : nodes[s] # NoNode => s \in old
  BY <1>1
<1>10. ClustersFit
  <2>1. DOMAIN clusters = {KeyOf[s] : s \in old} /\ NoKey \notin Keys
    BY <1>1 DEF Keys
  <2> QED  BY <1>1, <1>3, <1>9, <2>1 DEF ClustersFit
<1>11. PeersMeet /\ AlikeMeet /\ EdgesOrdered
  <2>1. \A s \in Signals : Through(s) => s \in old
    BY <1>9 DEF Through
  <2>2. PeersMeet
    BY <1>3, <2>1 DEF PeersMeet, Meet
  <2>3. AlikeMeet
    BY <1>1, <1>3 DEF AlikeMeet
  <2> QED  BY <1>2, <2>2, <2>3 DEF EdgesOrdered
<1>12. CountsFit
  <2>1. ASSUME NEW k \in DOMAIN clusters
        PROVE  clusters[k] = Cardinality(Linked(k))
    <3>1. PICK s \in old : k = KeyOf[s]
      BY <1>1, <2>1
    <3>2. Linked(k) = {s}
      BY <1>1, <1>3, <3>1 DEF Linked, Keys
    <3>3. Cardinality({s}) = 1
      BY FS_Singleton
    <3> QED  BY <1>1, <2>1, <3>2, <3>3
  <2> QED  BY <1>7, <2>1 DEF CountsFit
<1>13. RisksFit
  <2>1. \A s \in old : [count |-> 1, risk |-> Min(Scores)].risk = Min(Scores)
    OBVIOUS
  <2>2. [count |-> 1, risk |-> Min(Scores)] # NoNode
    BY DEF NoNode
  <2>3. \A s \in Signals : /\ s \in old => nodes[s] # NoNode /\ nodes[s].risk = Min(Scores) /\ processed[s] = {Min(Scores)}
                           /\ s \notin old => nodes[s] = NoNode /\ processed[s] = {}
    BY <1>1, <2>2
  <2> QED  BY <1>4, <2>3 DEF RisksFit, Highest
<1>14. DraftsFit
  BY <1>2, <1>7 DEF DraftsFit
<1> QED  BY <1>6, <1>8, <1>10, <1>11, <1>12, <1>13, <1>14 DEF EnrichmentInv, GraphInv

\* Each action keeps the invariant.
LEMMA EnrichmentStep == EnrichmentInv /\ [IntelNext]_intelVars => EnrichmentInv'
<1> SUFFICES ASSUME EnrichmentInv, [IntelNext]_intelVars
             PROVE  EnrichmentInv'
  OBVIOUS
<1>1. GraphInv'
  BY GraphTypes, GraphFits DEF EnrichmentInv, GraphInv
<1>2. PeersMeet'
  <2>1. ASSUME NEW type \in EdgeTypes
        PROVE  Meet(type)'
    BY PeersStep DEF EnrichmentInv, PeersMeet
  <2> QED  BY <2>1 DEF PeersMeet, EdgeTypes
<1>3. AlikeMeet' /\ EdgesOrdered' /\ CountsFit' /\ RisksFit' /\ DraftsFit'
  BY AlikeStep, EdgesStep, CountsStep, RisksStep, SuggestionsStep DEF EnrichmentInv
<1> QED  BY <1>1, <1>2, <1>3 DEF EnrichmentInv

\* A search whose limit no search reaches finds what is one or two edges away.
LEMMA SearchReaches ==
    ASSUME MAX_NODES > Cardinality(Signals) + 1, NEW s \in Signals
    PROVE  collectNeighbourhood(s) = {s} \union Hop({s}) \union Hop({s} \union Hop({s}))
<1> DEFINE one == {s} \union Hop({s})
<1>1. one \subseteq Signals \union {Campaign}
  BY DEF Hop
<1>2. /\ IsFiniteSet(Signals \union {Campaign})
      /\ Cardinality(Signals \union {Campaign}) = Cardinality(Signals) + 1
  BY IntelAssumption, FS_AddElement
<1>3. IsFiniteSet(one) /\ Cardinality(one) <= Cardinality(Signals) + 1
  BY <1>1, <1>2, FS_Subset
<1>4. Cardinality(one) \in Nat /\ Cardinality(Signals) \in Nat /\ MAX_NODES \in Nat
  BY <1>3, IntelAssumption, FS_CardinalityType
<1>5. Cardinality(one) < MAX_NODES
  <2> HIDE DEF one
  <2> QED  BY <1>3, <1>4
<1> QED  BY <1>5 DEF collectNeighbourhood

\* Being one or two edges away is mutual.
LEMMA SearchMutual ==
    ASSUME NEW s \in Signals, NEW t \in Signals,
           t \in {s} \union Hop({s}) \union Hop({s} \union Hop({s}))
    PROVE  s \in {t} \union Hop({t}) \union Hop({t} \union Hop({t}))
<1>1. CASE t = s
  BY <1>1
<1>2. ASSUME NEW x \in Signals \union {Campaign}, NEW y \in Signals \union {Campaign}, x \in Hop({y})
      PROVE  y \in Hop({x})
  BY <1>2 DEF Hop
<1>3. CASE t \in Hop({s})
  BY <1>2, <1>3
<1>4. CASE t \in Hop({s} \union Hop({s}))
  <2>1. PICK e \in edges : t \in {e[1], e[2]} /\ {e[1], e[2]} \intersect ({s} \union Hop({s})) # {}
    BY <1>4 DEF Hop
  <2>2. PICK x \in {s} \union Hop({s}) : x \in {e[1], e[2]}
    BY <2>1
  <2>3. x \in Signals \union {Campaign} /\ x \in Hop({t})
    BY <2>1, <2>2 DEF Hop
  <2>4. CASE x = s
    BY <2>3, <2>4
  <2>5. CASE x \in Hop({s})
    <3>1. s \in Hop({x})
      BY <1>2, <2>3, <2>5
    <3>2. s \in Hop({t} \union Hop({t}))
      BY <2>3, <3>1 DEF Hop
    <3> QED  BY <3>2
  <2> QED  BY <2>2, <2>4, <2>5
<1> QED  BY <1>1, <1>3, <1>4

\* Two signals that are through have no request left that could owe them an edge.
LEMMA PeersAreConnected == EnrichmentInv => PeersConnected
<1> SUFFICES ASSUME EnrichmentInv
             PROVE  PeersConnected
  OBVIOUS
<1>0. GraphTypeOK /\ ClustersFit /\ PeersMeet /\ AlikeMeet
  BY DEF EnrichmentInv, GraphInv
<1>1. ASSUME NEW s \in Signals, NEW t \in Signals, s < t, Done(s), Done(t)
      PROVE  /\ clusterOf[s] # NoKey /\ clusterOf[s] = clusterOf[t] => <<s, t, "CO_OCCURRENCE_CLUSTER">> \in edges
             /\ <<s, t>> \in similar => <<s, t, "SIMILAR_TEXT">> \in edges
             /\ {s, t} \subseteq embedded /\ <<s, t>> \in Alike => <<s, t>> \in similar
  <2>1. s # t /\ Ordered(s, t) = <<s, t>>
    BY <1>1, IntelAssumption DEF Ordered
  <2>2. Through(s) /\ Through(t) /\ ~Compared(s) /\ ~Compared(t)
        /\ \A type : ~Linking(s, t, type) /\ ~Linking(t, s, type)
    BY <1>1 DEF Done, Through, Compared, Linking
  <2>3. \A type \in EdgeTypes : Owed(s, t, type) => <<s, t, type>> \in edges
    <3>1. \A type : upsertEdge(s, t, type) = {<<s, t, type>>}
      BY <2>1 DEF upsertEdge
    <3> QED  BY <1>0, <2>1, <2>2, <3>1 DEF PeersMeet, Meet, Joined
  <2>4. clusterOf[s] = KeyOf[s] /\ clusterOf[t] = KeyOf[t]
    BY <1>0, <1>1 DEF ClustersFit, Done
  <2>5. {s, t} \subseteq embedded /\ <<s, t>> \in Alike => <<s, t>> \in similar
    BY <1>0, <1>1, <2>1, <2>2 DEF AlikeMeet, Done
  <2> QED  BY <2>1, <2>3, <2>4, <2>5 DEF Owed, EdgeTypes
<1>2. ASSUME NEW s \in Signals, NEW t \in Signals, MAX_NODES > Cardinality(Signals) + 1
      PROVE  t \in collectNeighbourhood(s) <=> s \in collectNeighbourhood(t)
  BY <1>2, SearchReaches, SearchMutual
<1> QED  BY <1>1, <1>2 DEF EnrichmentInv, EdgesOrdered, PeersConnected

\* At rest no count is about to be written.
LEMMA CountsAreRight == EnrichmentInv => CountsRight
<1> SUFFICES ASSUME EnrichmentInv, \A w \in Crew : crew[w] = Resting
             PROVE  /\ \A k \in DOMAIN clusters :
                          spoilt.recount \/ Linked(k) \intersect spoilt.failed # {} \/ clusters[k] = Cardinality(Linked(k))
                             \/ (Linked(k) = {} /\ spoilt.failed # {})
                    /\ \A s \in Signals : nodes[s] # NoNode => s \in spoilt.risk \/ nodes[s].risk = Max(processed[s])
                    /\ \A k \in Keys : suggested[k] <= 1 \/ spoilt.draft
  BY DEF CountsRight
<1>1. \A k : ~Counting(k)
  BY DEF Counting, Resting
<1>2. ASSUME NEW s \in Signals, nodes[s] # NoNode, s \notin spoilt.risk
      PROVE  nodes[s].risk = Max(processed[s])
  <2>1. processed[s] \subseteq Nat /\ Highest(nodes[s].risk, processed[s])
    BY <1>2 DEF EnrichmentInv, GraphInv, GraphTypeOK, RisksFit
  <2> QED  BY <2>1, MaxIsHighest
<1> QED  BY <1>1, <1>2 DEF EnrichmentInv, CountsFit, DraftsFit

\* What clusterSignal, processSignal and the rule suggestions leave behind is sound in
\* every reachable state: peers are joined whichever came first and in whatever order
\* their steps fell, edges have one direction, a search is mutual, and counts, risks and
\* drafts are right but for the overlaps and failures on record.
THEOREM GraphIsSound == IntelSpec => []GraphSound
<1>1. EnrichmentInv => GraphSound
  BY PeersAreConnected, CountsAreRight DEF GraphSound
<1> QED  BY <1>1, InitEnrichment, EnrichmentStep, PTL DEF IntelSpec

\* The requests that have yet to write the node of a signal.
Ahead == Clustering \union Embedding \union {"node", "createNode", "updateNode"}
Counters(s) == {w \in Crew : crew[w].signal = s /\ crew[w].at \in Ahead}

\* A node counts one request at most for each that ran, and one from before; what was
\* found similar is a pair of signals.
RunsCounted ==
    /\ runs \in 0..RunBound /\ mishaps \in 0..MishapBound
    /\ similar \subseteq Signals \X Signals
    /\ \A s \in Signals : nodes[s].count + Cardinality(Counters(s)) <= runs + 1

\* The requests of a signal are finitely many.
LEMMA FewCounters ==
    ASSUME NEW S \in SUBSET Crew, NEW T \in SUBSET Crew, NEW w \in Crew
    PROVE  /\ Cardinality(S) \in Nat /\ Cardinality(T) \in Nat
           /\ S \subseteq T => Cardinality(S) <= Cardinality(T)
           /\ S \subseteq T \union {w} => Cardinality(S) <= Cardinality(T) + 1
           /\ S \subseteq T \ {w} /\ w \in T => Cardinality(S) + 1 <= Cardinality(T)
<1>1. IsFiniteSet(S) /\ IsFiniteSet(T)
  BY IntelAssumption, FS_Subset
<1>2. Cardinality(S) \in Nat /\ Cardinality(T) \in Nat
  BY <1>1, FS_CardinalityType
<1>3. ASSUME S \subseteq T PROVE Cardinality(S) <= Cardinality(T)
  BY <1>1, <1>3, FS_Subset
<1>4. ASSUME S \subseteq T \union {w} PROVE Cardinality(S) <= Cardinality(T) + 1
  <2>1. /\ IsFiniteSet(T \union {w})
        /\ Cardinality(T \union {w}) = IF w \in T THEN Cardinality(T) ELSE Cardinality(T) + 1
    BY <1>1, FS_AddElement
  <2>2. Cardinality(S) <= Cardinality(T \union {w})
    BY <1>4, <2>1, FS_Subset
  <2> QED  BY <1>2, <2>1, <2>2
<1>5. ASSUME S \subseteq T \ {w}, w \in T PROVE Cardinality(S) + 1 <= Cardinality(T)
  <2>1. IsFiniteSet(T \ {w}) /\ Cardinality(T \ {w}) = Cardinality(T) - 1
    BY <1>1, <1>5, FS_RemoveElement
  <2>2. Cardinality(S) <= Cardinality(T \ {w})
    BY <1>5, <2>1, FS_Subset
  <2> QED  BY <1>2, <2>1, <2>2
<1> QED  BY <1>2, <1>3, <1>4, <1>5

\* No request yet.
LEMMA InitRuns == IntelInit => RunsCounted
<1> SUFFICES ASSUME IntelInit PROVE RunsCounted
  OBVIOUS
<1>1. runs = 0 /\ mishaps = 0 /\ similar = {} /\ RunBound \in Nat /\ MishapBound \in Nat
  BY IntelAssumption DEF IntelInit
<1>2. \A s \in Signals : Counters(s) = {}
  <2>1. \A w \in Crew : crew[w].at = "none"
    BY DEF IntelInit, Resting
  <2> QED  BY <2>1 DEF Counters, Ahead, Clustering, Embedding
<1>3. \A s \in Signals : nodes[s].count \in {0, 1}
  BY DEF IntelInit, NoNode
<1>4. Cardinality({}) = 0
  BY FS_EmptySet
<1> QED  BY <1>1, <1>2, <1>3, <1>4 DEF RunsCounted

\* A request that moves on is no more ahead of its node than it was.
LEMMA CountersKept ==
    ASSUME GraphTypeOK, RunsCounted, NEW w \in Crew, \A v \in Crew : v # w => crew'[v] = crew[v],
           crew'[w].at \in Ahead => crew[w].at \in Ahead /\ crew'[w].signal = crew[w].signal,
           nodes' = nodes, runs' = runs \/ runs' = runs + 1
    PROVE  \A s \in Signals : nodes'[s].count + Cardinality(Counters(s)') <= runs' + 1
<1> SUFFICES ASSUME NEW s \in Signals
             PROVE  nodes'[s].count + Cardinality(Counters(s)') <= runs' + 1
  OBVIOUS
<1>1. Counters(s)' \subseteq Counters(s) /\ Counters(s) \subseteq Crew
  BY DEF Counters
<1>2. /\ Cardinality(Counters(s)') \in Nat /\ Cardinality(Counters(s)) \in Nat
      /\ Cardinality(Counters(s)') <= Cardinality(Counters(s))
  BY <1>1, FewCounters
<1>3. nodes[s].count \in Nat /\ runs \in Nat /\ nodes[s].count + Cardinality(Counters(s)) <= runs + 1
  BY DEF GraphTypeOK, RunsCounted
<1> QED  BY <1>2, <1>3

\* Each action keeps the counts.
LEMMA RunsStep == GraphTypeOK /\ WorkersFit /\ RunsCounted /\ [IntelNext]_intelVars => RunsCounted'
<1> SUFFICES ASSUME GraphTypeOK, WorkersFit, RunsCounted, [IntelNext]_intelVars
             PROVE  RunsCounted'
  OBVIOUS
<1> DEFINE Counted == \A s \in Signals : nodes[s].count + Cardinality(Counters(s)) <= runs + 1
<1>0. /\ runs \in Nat /\ mishaps \in Nat /\ RunBound \in Nat /\ MishapBound \in Nat
      /\ runs <= RunBound /\ mishaps <= MishapBound
  BY IntelAssumption DEF RunsCounted
<1>1. Ahead = {"find", "create", "link", "count", "counted", "embed", "similar", "node", "createNode", "updateNode"}
  BY DEF Ahead, Clustering, Embedding
<1>2. ASSUME NEW w \in Crew, FindCluster(w) \/ CreateCluster(w) \/ LinkSignal(w) \/ CountSignals(w) \/ recount(w)
      PROVE  Counted' /\ UNCHANGED <<runs, mishaps, similar>>
  <2>1. /\ crew[w].at \in Ahead /\ crew'[w].signal = crew[w].signal
        /\ \A v \in Crew : v # w => crew'[v] = crew[v]
    BY <1>1, <1>2, Moves DEF Turned, FindCluster, CreateCluster, LinkSignal, CountSignals, recount
  <2>2. UNCHANGED <<nodes, runs, mishaps, similar>>
    BY <1>2 DEF FindCluster, CreateCluster, LinkSignal, CountSignals, recount
  <2> QED  BY <2>1, <2>2, CountersKept
<1>3. ASSUME NEW w \in Crew, embedSignal(w) \/ persistSimilar(w) \/ ReadNode(w)
      PROVE  Counted' /\ UNCHANGED <<runs, mishaps>> /\ similar' \subseteq Signals \X Signals
  <2>1. /\ crew[w].at \in Ahead /\ crew'[w].signal = crew[w].signal
        /\ \A v \in Crew : v # w => crew'[v] = crew[v]
    BY <1>1, <1>3, Moves DEF Turned, embedSignal, persistSimilar, ReadNode
  <2>2. UNCHANGED <<nodes, runs, mishaps>>
    BY <1>3 DEF embedSignal, persistSimilar, ReadNode
  <2>3. Alike \subseteq Signals \X Signals
    BY IntelAssumption
  <2>4. similar' \subseteq similar \union Alike
    BY <1>3 DEF embedSignal, persistSimilar, ReadNode
  <2>5. similar' \subseteq Signals \X Signals
    BY <2>3, <2>4 DEF RunsCounted
  <2> QED  BY <2>1, <2>2, <2>5, CountersKept
<1>4. ASSUME NEW w \in Crew, ensureNodeForSignal(w)
      PROVE  Counted' /\ UNCHANGED <<runs, mishaps, similar>>
  <2>1. /\ crew[w].at \in Ahead /\ crew'[w].at \notin Ahead /\ crew[w].signal \in Signals
        /\ \A v \in Crew : v # w => crew'[v] = crew[v]
    BY <1>1, <1>4, Moves DEF Turned, ensureNodeForSignal, WorkersFit, Fits
  <2>2. UNCHANGED <<runs, mishaps, similar>>
    BY <1>4 DEF ensureNodeForSignal
  <2>3. CASE UNCHANGED nodes
    BY <2>1, <2>2, <2>3, CountersKept
  <2>4. CASE ~ UNCHANGED nodes
    <3> DEFINE me == crew[w].signal
    <3>1. /\ nodes'[me].count = nodes[me].count + 1
          /\ \A t \in Signals : t # me => nodes'[t] = nodes[t]
      <4>1. nodes' = [nodes EXCEPT ![me] = [count |-> @.count + 1, risk |-> Max({crew[w].read, crew[w].score})]]
        BY <1>4, <2>4 DEF ensureNodeForSignal
      <4> QED  BY <2>1, <4>1, CountedNode DEF GraphTypeOK
    <3> SUFFICES ASSUME NEW s \in Signals
                 PROVE  nodes'[s].count + Cardinality(Counters(s)') <= runs + 1
      BY <2>2
    <3>2. nodes[s].count \in Nat /\ nodes[s].count + Cardinality(Counters(s)) <= runs + 1
      BY DEF GraphTypeOK, RunsCounted
    <3>3. Counters(s) \subseteq Crew /\ Counters(s)' \subseteq Counters(s) \ {w}
      BY <2>1 DEF Counters
    <3>4. s = me => w \in Counters(s)
      BY <2>1 DEF Counters
    <3>5. /\ Cardinality(Counters(s)') \in Nat /\ Cardinality(Counters(s)) \in Nat
          /\ Cardinality(Counters(s)') <= Cardinality(Counters(s))
          /\ s = me => Cardinality(Counters(s)') + 1 <= Cardinality(Counters(s))
      BY <3>3, <3>4, FewCounters
    <3>6. s = me => nodes'[s].count = nodes[s].count + 1
      BY <3>1
    <3>7. s # me => nodes'[s].count = nodes[s].count
      BY <3>1
    <3> HIDE DEF me
    <3> QED  BY <1>0, <3>2, <3>5, <3>6, <3>7
  <2> QED  BY <2>3, <2>4
<1>5. ASSUME NEW w \in Crew, ReadPeers(w) \/ PeersDone(w)
      PROVE  Counted' /\ UNCHANGED <<runs, mishaps, similar>>
  <2>1. crew'[w].at \notin Ahead /\ \A v \in Crew : v # w => crew'[v] = crew[v]
    BY <1>1, <1>5, Moves DEF Turned, ReadPeers, PeersDone
  <2>2. UNCHANGED <<nodes, runs, mishaps, similar>>
    BY <1>5 DEF ReadPeers, PeersDone
  <2> QED  BY <2>1, <2>2, CountersKept
<1>6. ASSUME NEW w \in Crew, NEW peer \in Signals, LinkPeer(w, peer)
      PROVE  Counted' /\ UNCHANGED <<runs, mishaps, similar>>
  <2>1. /\ crew'[w].at = crew[w].at /\ crew'[w].signal = crew[w].signal
        /\ \A v \in Crew : v # w => crew'[v] = crew[v]
    BY <1>6, Moves DEF Turned
  <2>2. UNCHANGED <<nodes, runs, mishaps, similar>>
    BY <1>6 DEF LinkPeer
  <2> QED  BY <2>1, <2>2, CountersKept
<1>7. ASSUME NEW w \in Crew, NEW k \in Keys, createSuggestion(w, k)
      PROVE  Counted' /\ UNCHANGED <<runs, mishaps, similar>>
  <2>1. /\ crew'[w].at = crew[w].at /\ crew'[w].signal = crew[w].signal
        /\ \A v \in Crew : v # w => crew'[v] = crew[v]
    BY <1>7, Moves DEF Turned
  <2>2. UNCHANGED <<nodes, runs, mishaps, similar>>
    BY <1>7 DEF createSuggestion
  <2> QED  BY <2>1, <2>2, CountersKept
<1>8. ASSUME NEW w \in Crew, enrichSignal(w) \/ SuggestionsDone(w)
      PROVE  Counted' /\ UNCHANGED <<runs, mishaps, similar>>
  <2>1. crew'[w] = Resting /\ \A v \in Crew : v # w => crew'[v] = crew[v]
    BY <1>8, Turns
  <2>2. crew'[w].at \notin Ahead
    BY <1>1, <2>1 DEF Resting
  <2>3. UNCHANGED <<nodes, runs, mishaps, similar>>
    BY <1>8 DEF enrichSignal, SuggestionsDone
  <2> QED  BY <2>1, <2>2, <2>3, CountersKept
<1>9. ASSUME NEW w \in Crew, generateSuggestions(w)
      PROVE  Counted' /\ runs' = runs + 1 /\ runs < RunBound /\ UNCHANGED <<mishaps, similar>>
  <2>1. crew'[w].at \notin Ahead /\ \A v \in Crew : v # w => crew'[v] = crew[v]
    BY <1>1, <1>9, Turns
  <2>2. UNCHANGED <<nodes, mishaps, similar>> /\ runs' = runs + 1 /\ runs < RunBound
    BY <1>9 DEF generateSuggestions
  <2> QED  BY <2>1, <2>2, CountersKept
<1>10. ASSUME NEW w \in Crew, NEW s \in Signals, NEW score \in Scores, NEW text \in BOOLEAN, Hand(w, s, score, text)
       PROVE  Counted' /\ runs' = runs + 1 /\ runs < RunBound /\ UNCHANGED <<mishaps, similar>>
  <2>1. \A v \in Crew : v # w => crew'[v] = crew[v]
    BY <1>10, Turns
  <2>2. UNCHANGED <<nodes, mishaps, similar>> /\ runs' = runs + 1 /\ runs < RunBound
    BY <1>10 DEF Hand
  <2>3. ASSUME NEW t \in Signals
        PROVE  nodes'[t].count + Cardinality(Counters(t)') <= runs' + 1
    <3>1. nodes[t].count \in Nat /\ nodes[t].count + Cardinality(Counters(t)) <= runs + 1
      BY DEF GraphTypeOK, RunsCounted
    <3>2. Counters(t) \subseteq Crew /\ Counters(t)' \subseteq Crew /\ Counters(t)' \subseteq Counters(t) \union {w}
      BY <2>1 DEF Counters
    <3>3. /\ Cardinality(Counters(t)') \in Nat /\ Cardinality(Counters(t)) \in Nat
          /\ Cardinality(Counters(t)') <= Cardinality(Counters(t)) + 1
      BY <3>2, FewCounters
    <3> QED  BY <1>0, <2>2, <3>1, <3>3
  <2> QED  BY <2>2, <2>3
<1>11. ASSUME NEW w \in Crew, PhaseFails(w)
       PROVE  Counted' /\ mishaps' = mishaps + 1 /\ mishaps < MishapBound /\ UNCHANGED <<runs, similar>>
  <2>1. /\ crew'[w].signal = crew[w].signal /\ \A v \in Crew : v # w => crew'[v] = crew[v]
        /\ crew'[w].at = IF crew[w].at \in Clustering THEN "embed"
                         ELSE IF crew[w].at \in Embedding THEN "node" ELSE "osint"
    BY <1>11, Moves DEF Turned
  <2>2. crew'[w].at \in Ahead => crew[w].at \in Ahead
    BY <1>1, <2>1 DEF Clustering, Embedding
  <2>3. UNCHANGED <<nodes, runs, similar>> /\ mishaps' = mishaps + 1 /\ mishaps < MishapBound
    BY <1>11 DEF PhaseFails
  <2> QED  BY <2>1, <2>2, <2>3, CountersKept
<1>12. CASE UNCHANGED <<crew, nodes, runs, mishaps, similar>>
  BY <1>12 DEF RunsCounted, Counters
<1>13. ASSUME NEW s \in Signals, addCampaignMember(s) \/ removeCampaignMember(s)
       PROVE  UNCHANGED <<crew, nodes, runs, mishaps, similar>>
  BY <1>13 DEF addCampaignMember, removeCampaignMember
<1>14. Counted' /\ runs' \in 0..RunBound /\ mishaps' \in 0..MishapBound /\ similar' \subseteq Signals \X Signals
       => RunsCounted'
  BY DEF RunsCounted
<1>15. /\ runs \in 0..RunBound /\ mishaps \in 0..MishapBound /\ similar \subseteq Signals \X Signals
       /\ runs < RunBound => runs + 1 \in 0..RunBound
       /\ mishaps < MishapBound => mishaps + 1 \in 0..MishapBound
  BY <1>0 DEF RunsCounted
<1> HIDE DEF Counted
<1>16. CASE UNCHANGED intelVars
  BY <1>12, <1>16 DEF intelVars
<1>17. CASE IntelNext
  BY <1>2, <1>3, <1>4, <1>5, <1>6, <1>7, <1>8, <1>9, <1>10, <1>11, <1>12, <1>13, <1>14, <1>15, <1>17 DEF IntelNext
<1> QED  BY <1>16, <1>17

-----------------------------------------------------------------------------
(* The components side by side, as MCIntelligence runs them. *)

\* The components share nothing: the one that moves keeps its types and the others
\* stay where they are (MCIntelligence's part).
THEOREM IntelligenceKeepsTypes == Spec => []TypeOK
<1> DEFINE I == RegistryIInv /\ RequestsInv /\ FeedInv /\ EnrichmentInv /\ RunsCounted
<1>1. Init => I
  BY InitRegistry, RequestsStart, InitFeeds, InitEnrichment, InitRuns DEF Init, RegistryIInv
<1>2. [Next]_Vars => /\ [RegistryNext]_registryVars /\ [UserNext \/ KeyNext]_requestVars
                     /\ [FeedsNext]_feedVars /\ [IntelNext]_intelVars
  BY DEF Next, Vars
<1>3. RegistryIInv /\ [RegistryNext]_registryVars => RegistryIInv'
  BY RegistryStep, RefusalsStep, AppealsStep, QueueStep, DraftsStep DEF RegistryIInv
<1>4. EnrichmentInv => GraphTypeOK /\ WorkersFit
  BY DEF EnrichmentInv, GraphInv
<1>5. I /\ [Next]_Vars => I'
  BY <1>2, <1>3, <1>4, RequestsStep, FeedStep, EnrichmentStep, RunsStep
<1>6. GraphTypeOK /\ RunsCounted => IntelTypeOK
  <2> SUFFICES ASSUME GraphTypeOK, RunsCounted PROVE IntelTypeOK
    OBVIOUS
  <2>1. ASSUME NEW s \in Signals
        PROVE  nodes[s].count \in 0..RunBound + 1
    <3>1. Counters(s) \subseteq Crew
      BY DEF Counters
    <3>2. Cardinality(Counters(s)) \in Nat
      BY <3>1, IntelAssumption, FS_Subset, FS_CardinalityType
    <3>3. /\ nodes[s].count \in Nat /\ nodes[s].count + Cardinality(Counters(s)) <= runs + 1
          /\ runs \in 0..RunBound /\ RunBound \in Nat
      BY IntelAssumption DEF GraphTypeOK, RunsCounted
    <3> QED  BY <3>2, <3>3
  <2> QED  BY <2>1 DEF GraphTypeOK, RunsCounted, IntelTypeOK
<1>7. I => TypeOK
  BY <1>4, <1>6, RequestsTyped DEF TypeOK, RegistryIInv, RegistryInv, FeedInv
<1> HIDE DEF I
<1> QED  BY <1>1, <1>5, <1>7, PTL DEF Spec
=============================================================================
