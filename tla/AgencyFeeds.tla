----------------------------- MODULE AgencyFeeds -----------------------------
(***************************************************************************)
(* An agency polls its feed of published registry entries.  consumeFeed    *)
(* takes the time first, then reads the entries updated after the caller's *)
(* cursor and not after that time, oldest first, one page.  An entry's     *)
(* updatedAt is set when the update is sent and seen when it commits.  The *)
(* agency goes on from untilCursor, or from its last item when there is    *)
(* more.                                                                   *)
(***************************************************************************)
EXTENDS Naturals, FiniteSets

CONSTANTS
    Entries,      \* registry entries in the feed's categories and types
    PageSize,     \* limit, after the clamp to 1..MAX_FEED_ITEMS
    TimeBound,    \* clock ticks
    UpdateBound   \* updates of entries

ASSUME FeedAssumption ==
    /\ IsFiniteSet(Entries)
    /\ PageSize \in Nat \ {0} /\ TimeBound \in Nat /\ UpdateBound \in Nat

VARIABLES
    clock,
    entry,        \* registry_entries: published, updatedAt
    update,       \* an update sent and not committed: published, updatedAt
    updates,      \* number of updates
    feed,         \* agency_feeds: status, lastDeliveredAt
    poll,         \* a consume under way; items: the updatedAt of the entries of its page;
                  \* cut: entries its page ended before, with its last updatedAt
    cursor,       \* the cursor the agency will send
    seen,         \* the agency's copy: the updatedAt of each entry
    missedBy      \* history: entries the agency cannot have seen, by cause

feedVars == <<clock, entry, update, updates, feed, poll, cursor, seen, missedBy>>

NoUpdate == [published |-> FALSE, updatedAt |-> 0]
NoPoll == [at |-> "none", now |-> 0, items |-> [e \in {} |-> 0], hasMore |-> FALSE, cut |-> {}]

FeedsInit ==
    /\ clock = 1
    /\ entry = [e \in Entries |-> [published |-> FALSE, updatedAt |-> 0]]
    /\ update = [e \in Entries |-> NoUpdate]
    /\ updates = 0
    /\ feed = [status |-> "ACTIVE", lastDeliveredAt |-> 0]
    /\ poll = NoPoll
    /\ cursor = 0
    /\ seen = [e \in Entries |-> 0]
    /\ missedBy = [late |-> {}, tied |-> {}]

Clock ==
    /\ clock < TimeBound
    /\ clock' = clock + 1
    /\ UNCHANGED <<entry, update, updates, feed, poll, cursor, seen, missedBy>>

\* publish, unpublish or another update of an entry: stamped, then committed.
SendUpdate(e, published) ==
    /\ update[e] = NoUpdate
    /\ updates < UpdateBound
    /\ updates' = updates + 1
    /\ update' = [update EXCEPT ![e] = [published |-> published, updatedAt |-> clock]]
    /\ UNCHANGED <<clock, entry, feed, poll, cursor, seen, missedBy>>

\* An update is late when a page that should have held it was already read.
Read(time) == time <= cursor \/ (poll.at = "queried" /\ time <= poll.now)
CommitUpdate(e) ==
    /\ update[e] # NoUpdate
    /\ entry' = [entry EXCEPT ![e] = update[e]]
    /\ update' = [update EXCEPT ![e] = NoUpdate]
    /\ missedBy' = [late |-> IF Read(update[e].updatedAt) THEN missedBy.late \union {e} ELSE missedBy.late \ {e},
                    tied |-> missedBy.tied \ {e}]
    /\ UNCHANGED <<clock, updates, feed, poll, cursor, seen>>

revokeFeed ==
    /\ feed.status = "ACTIVE"
    /\ feed' = [feed EXCEPT !.status = "REVOKED"]
    /\ UNCHANGED <<clock, entry, update, updates, poll, cursor, seen, missedBy>>

----------------------------------------------------------------------------
\* The feed is the key's tenant's and ACTIVE; the time is taken.
BeginConsume ==
    /\ poll = NoPoll
    /\ feed.status = "ACTIVE"
    /\ poll' = [NoPoll EXCEPT !.at = "begun", !.now = clock]
    /\ UNCHANGED <<clock, entry, update, updates, feed, cursor, seen, missedBy>>

Matching == {e \in Entries : entry[e].published /\ entry[e].updatedAt > cursor /\ entry[e].updatedAt <= poll.now}
Page(rows, newestFirst) ==
    {S \in SUBSET rows :
        /\ Cardinality(S) = IF Cardinality(rows) < PageSize THEN Cardinality(rows) ELSE PageSize
        /\ \A e \in S, f \in rows \ S : IF newestFirst THEN entry[e].updatedAt >= entry[f].updatedAt
                                                       ELSE entry[e].updatedAt <= entry[f].updatedAt}
Query(newestFirst) ==
    /\ poll.at = "begun"
    /\ \E page \in Page(Matching, newestFirst) :
          poll' = [poll EXCEPT !.at = "queried", !.hasMore = page # Matching,
                               !.items = [e \in page |-> entry[e].updatedAt],
                               !.cut = {f \in Matching \ page :
                                          \E e \in page : entry[e].updatedAt = entry[f].updatedAt}]
    /\ UNCHANGED <<clock, entry, update, updates, feed, cursor, seen, missedBy>>

\* Mutant: the page holds the newest entries.
QueryNewestFirst == Query(TRUE)

QueryEntries == Query(FALSE)

\* The delivery row and lastDeliveredAt; then the answer.
Answer ==
    /\ poll.at = "queried"
    /\ feed' = [feed EXCEPT !.lastDeliveredAt = poll.now]
    /\ seen' = [e \in Entries |-> IF e \in DOMAIN poll.items /\ poll.items[e] > seen[e]
                                  THEN poll.items[e] ELSE seen[e]]
    /\ IF poll.hasMore
       THEN \E last \in DOMAIN poll.items :
               /\ \A e \in DOMAIN poll.items : poll.items[e] <= poll.items[last]
               /\ cursor' = poll.items[last]
       ELSE cursor' = poll.now
    /\ missedBy' = [missedBy EXCEPT !.tied = @ \union poll.cut]
    /\ poll' = NoPoll
    /\ UNCHANGED <<clock, entry, update, updates>>

\* The consume fails, or its answer is lost: the agency asks again.
LoseAnswer ==
    /\ poll # NoPoll
    /\ poll' = NoPoll
    /\ UNCHANGED <<clock, entry, update, updates, feed, cursor, seen, missedBy>>

FeedsNext ==
    \/ Clock
    \/ \E e \in Entries : (\E p \in BOOLEAN : SendUpdate(e, p)) \/ CommitUpdate(e)
    \/ revokeFeed
    \/ BeginConsume \/ QueryEntries \/ Answer \/ LoseAnswer

FeedsSpec == FeedsInit /\ [][FeedsNext]_feedVars

Versions == [published : BOOLEAN, updatedAt : Nat]

FeedsTypeOK ==
    /\ clock \in Nat /\ cursor \in 0..clock
    /\ entry \in [Entries -> Versions] /\ update \in [Entries -> Versions]
    /\ \A e \in Entries : entry[e].updatedAt <= clock /\ update[e].updatedAt <= clock
    /\ poll.at \in {"none", "begun", "queried"} /\ poll.now \in 0..clock
    /\ seen \in [Entries -> Nat]
    /\ missedBy \in [late : SUBSET Entries, tied : SUBSET Entries]

\* The agency has every published entry up to its cursor, in its latest version,
\* whatever overlaps and however the pages fall, but for two: an update stamped
\* before a page was read and committed after it, and an entry with the
\* updatedAt of the last one of a page.
FeedComplete ==
    \A e \in Entries :
        entry[e].published /\ entry[e].updatedAt <= cursor =>
            seen[e] = entry[e].updatedAt \/ e \in missedBy.late \union missedBy.tied

=============================================================================
