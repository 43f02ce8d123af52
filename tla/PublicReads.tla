----------------------------- MODULE PublicReads -----------------------------
(***************************************************************************)
(* What the public is shown: RegistryService.search and                    *)
(* PublicAlertService.listPublic answer from a cache that every server     *)
(* process (node) keeps in memory, and fall back on the database.  A       *)
(* change of the item's status invalidates the cache of the node that made *)
(* it and broadcasts the invalidation through Redis.  An alert past its    *)
(* expiresAt is hidden by the query alone: nobody changes or invalidates   *)
(* anything then.  One item, one cached query that would list it; the      *)
(* other keys only cause evictions.                                        *)
(*                                                                         *)
(* Time is counted in ticks that are longer than one database query: a     *)
(* fill does not span a tick.  Redis pub/sub (external) may lose a         *)
(* message, or fail to take one.                                           *)
(***************************************************************************)
EXTENDS Naturals, FiniteSets

CONSTANTS
    Nodes,          \* server processes
    Hosts,
    HostOf,         \* the HOSTNAME a node tags its messages with
    Writers,        \* concurrent status changes
    TTL,            \* SEARCH_CACHE_TTL_MS, ALERTS_CACHE_TTL_MS, in ticks
    ExpiryBound,    \* bound on the ticks an alert is created to last
    ChangeBound,    \* bound on the status changes
    Miss, NoFill, NoWriter, NoExpiry

ASSUME ReadsAssumption ==
    /\ HostOf \in [Nodes -> Hosts]
    /\ TTL \in Nat /\ ExpiryBound \in Nat /\ ChangeBound \in Nat
    /\ NoExpiry \notin 0..ExpiryBound

\* A cached answer, a query's answer, a status change in progress.
Entries == [lists: BOOLEAN, left: 0..TTL]
Fills == [lists: BOOLEAN]
WriterRecords ==
    [at: {"checked", "written", "logged"}, node: Nodes,
     to: {"DRAFT", "PUBLISHED", "WITHDRAWN", "EXPIRED", "APPROVED_PUBLIC_SAFE"}]

ASSUME NoneAssumption == Miss \notin Entries /\ NoFill \notin Fills /\ NoWriter \notin WriterRecords

VARIABLES
    item,       \* [kind, status]: a registry entry past review, or a public alert
    expiresIn,  \* ticks until expiresAt, 0 once it has passed, or NoExpiry: none is set
    store,      \* per node, the cached answer: does it list the item, and ticks left
    fill,       \* per node, a query that missed and has read the database
    writer,     \* status changes in progress
    bus,        \* messages on their way: [from: host, to: node]
    changes,
    age,        \* history: ticks since what the public should see last changed
    excused     \* history: nodes that may be stale by a lost message, a failure or a race

readsVars == <<item, expiresIn, store, fill, writer, bus, changes, age, excused>>

\* listPublic drops an alert past its expiresAt even while its status is PUBLISHED.
Lapsed == item.status = "PUBLISHED" /\ expiresIn = 0

Visible == item.status = "PUBLISHED" /\ ~Lapsed

ALERT_TRANSITIONS ==
    [DRAFT |-> {"PUBLISHED", "WITHDRAWN"}, PUBLISHED |-> {"EXPIRED", "WITHDRAWN"},
     EXPIRED |-> {}, WITHDRAWN |-> {}]

RegistryMoves ==
    [APPROVED_PUBLIC_SAFE |-> {"PUBLISHED"}, PUBLISHED |-> {"APPROVED_PUBLIC_SAFE"}]

Moves == IF item.kind = "alert" THEN ALERT_TRANSITIONS ELSE RegistryMoves

ReadsInit ==
    /\ item \in {[kind |-> "registry", status |-> "APPROVED_PUBLIC_SAFE"],
                 [kind |-> "alert", status |-> "DRAFT"]}
    /\ expiresIn \in IF item.kind = "alert" THEN 0..ExpiryBound \union {NoExpiry} ELSE {NoExpiry}
    /\ store = [n \in Nodes |-> Miss]
    /\ fill = [n \in Nodes |-> NoFill]
    /\ writer = [w \in Writers |-> NoWriter]
    /\ bus = {}
    /\ changes = 0
    /\ age = 0
    /\ excused = {}

----------------------------------------------------------------------------
(* The readers.                                                            *)

\* get() finds nothing or something expired, and the rows are read.
ReadRows(n) ==
    /\ store[n] = Miss
    /\ fill[n] = NoFill
    /\ fill' = [fill EXCEPT ![n] = [lists |-> Visible]]
    /\ UNCHANGED <<item, expiresIn, store, writer, bus, changes, age, excused>>

search(n) == item.kind = "registry" /\ ReadRows(n)

listPublic(n) == item.kind = "alert" /\ ReadRows(n)

\* Mutant: an entry is kept beyond its time to live.
setForLonger(n) ==
    /\ fill[n] # NoFill
    /\ store' = [store EXCEPT ![n] = [lists |-> fill[n].lists, left |-> TTL + 1]]
    /\ fill' = [fill EXCEPT ![n] = NoFill]
    /\ excused' = IF fill[n].lists = Visible THEN excused \ {n} ELSE excused \union {n}
    /\ UNCHANGED <<item, expiresIn, writer, bus, changes, age>>

\* cache.set; the answer may be older than an invalidation that came meanwhile.
set(n) ==
    /\ fill[n] # NoFill
    /\ store' = [store EXCEPT ![n] = [lists |-> fill[n].lists, left |-> TTL]]
    /\ fill' = [fill EXCEPT ![n] = NoFill]
    /\ excused' = IF fill[n].lists = Visible THEN excused \ {n} ELSE excused \union {n}
    /\ UNCHANGED <<item, expiresIn, writer, bus, changes, age>>

\* The set of another key at maxEntries evicts the oldest entry; clear().
Evict(n) ==
    /\ store[n] # Miss
    /\ store' = [store EXCEPT ![n] = Miss]
    /\ UNCHANGED <<item, expiresIn, fill, writer, bus, changes, age, excused>>

----------------------------------------------------------------------------
(* The status changes: requireStatus or canTransition, the update, the     *)
(* append to the Evidence Vault, the invalidation.                         *)

CheckStatus(w, n, to) ==
    /\ writer[w] = NoWriter
    /\ changes < ChangeBound
    /\ to \in Moves[item.status]
    /\ writer' = [writer EXCEPT ![w] = [at |-> "checked", node |-> n, to |-> to]]
    /\ changes' = changes + 1
    /\ UNCHANGED <<item, expiresIn, store, fill, bus, age, excused>>

UpdateStatus(w) ==
    /\ writer[w] # NoWriter
    /\ writer[w].at = "checked"
    /\ item' = [item EXCEPT !.status = writer[w].to]
    /\ expiresIn' = IF writer[w].to = "EXPIRED" THEN 0 ELSE expiresIn
    /\ writer' = [writer EXCEPT ![w].at = "written"]
    /\ age' = IF Visible' = Visible THEN age ELSE 0
    /\ UNCHANGED <<store, fill, bus, changes, excused>>

\* The append fails, or the process dies: the caller gets an error, the row is
\* changed and nothing is invalidated.
FailWriter(w) ==
    /\ writer[w] # NoWriter
    /\ writer' = [writer EXCEPT ![w] = NoWriter]
    /\ excused' = IF writer[w].at = "checked" THEN excused ELSE Nodes
    /\ UNCHANGED <<item, expiresIn, store, fill, bus, changes, age>>

AppendEvent(w) ==
    /\ writer[w] # NoWriter
    /\ writer[w].at = "written"
    /\ writer' = [writer EXCEPT ![w].at = "logged"]
    /\ UNCHANGED <<item, expiresIn, store, fill, bus, changes, age, excused>>

\* Mutant: the invalidation stays on the node that made the change.
deletePrefixLocally(w) ==
    LET n == writer[w].node IN
    /\ writer[w] # NoWriter
    /\ writer[w].at = "logged"
    /\ store' = [store EXCEPT ![n] = Miss]
    /\ writer' = [writer EXCEPT ![w] = NoWriter]
    /\ UNCHANGED <<item, expiresIn, fill, bus, changes, age, excused>>

\* deletePrefix: the local sweep, then publish() to the others; the promise of the
\* publish is not awaited, and its failure only logged.
deletePrefix(w) ==
    LET n == writer[w].node IN
    /\ writer[w] # NoWriter
    /\ writer[w].at = "logged"
    /\ store' = [store EXCEPT ![n] = Miss]
    /\ bus' = bus \union [from: {HostOf[n]}, to: Nodes]
    /\ writer' = [writer EXCEPT ![w] = NoWriter]
    /\ UNCHANGED <<item, expiresIn, fill, changes, age, excused>>

\* A node ignores what carries its own HOSTNAME.
onMessage(m) ==
    /\ m \in bus
    /\ bus' = bus \ {m}
    /\ store' = IF m.from = HostOf[m.to] THEN store ELSE [store EXCEPT ![m.to] = Miss]
    /\ UNCHANGED <<item, expiresIn, fill, writer, changes, age, excused>>

LoseMessage(m) ==
    /\ m \in bus
    /\ bus' = bus \ {m}
    /\ excused' = excused \union {m.to}
    /\ UNCHANGED <<item, expiresIn, store, fill, writer, changes, age>>

----------------------------------------------------------------------------
(* Time.                                                                   *)

\* get() answers null once expiresAt < now: at expiresAt itself it still answers.
Expired ==
    [n \in Nodes |-> IF store[n] = Miss \/ store[n].left = 0 THEN Miss
                     ELSE [store[n] EXCEPT !.left = @ - 1]]

Tick ==
    /\ \A n \in Nodes : fill[n] = NoFill
    /\ UNCHANGED <<item, fill, writer, bus, changes, excused>>
    /\ store' = Expired
    /\ expiresIn' = IF expiresIn \in 1..ExpiryBound THEN expiresIn - 1 ELSE expiresIn
    /\ age' = IF Visible' # Visible THEN 0 ELSE IF age > TTL THEN age ELSE age + 1

ReadsNext ==
    \/ \E n \in Nodes : search(n) \/ listPublic(n) \/ set(n) \/ Evict(n)
    \/ \E w \in Writers :
          \/ \E n \in Nodes : \E to \in Moves[item.status] : CheckStatus(w, n, to)
          \/ UpdateStatus(w) \/ AppendEvent(w) \/ deletePrefix(w) \/ FailWriter(w)
    \/ \E m \in bus : onMessage(m) \/ LoseMessage(m)
    \/ Tick

ReadsSpec == ReadsInit /\ [][ReadsNext]_readsVars

----------------------------------------------------------------------------
ReadsTypeOK ==
    /\ item \in [kind: {"registry"}, status: DOMAIN RegistryMoves]
                \union [kind: {"alert"}, status: DOMAIN ALERT_TRANSITIONS]
    /\ expiresIn \in 0..ExpiryBound \union {NoExpiry}
    /\ item.kind = "registry" => expiresIn = NoExpiry
    /\ store \in [Nodes -> Entries \union {Miss}]
    /\ fill \in [Nodes -> Fills \union {NoFill}]
    /\ writer \in [Writers -> WriterRecords \union {NoWriter}]
    /\ \A w \in Writers : writer[w] # NoWriter => writer[w].to \in DOMAIN Moves
    /\ bus \subseteq [from: Hosts, to: Nodes]
    /\ changes \in 0..ChangeBound
    /\ age \in 0..(TTL + 1)
    /\ excused \subseteq Nodes

Stale(n) == store[n] # Miss /\ store[n].lists # Visible

\* No node shows what was withdrawn or has expired, or hides what is published and has
\* not, for longer than the time to live of its cache entry, whatever messages are lost
\* and whatever handlers die before their invalidation (cache.service.ts get, set).
StalenessBounded == \A n \in Nodes : Stale(n) => age <= TTL

\* Where no message was lost, no handler died after its write and no fill crossed
\* a change, a stale answer only lasts while the change is still being made or its
\* message is still under way (cache.service.ts deletePrefix, registry publish), but
\* for one: an answer stored before an alert's expiresAt still lists it after that
\* (public-alert.service.ts listPublic), and one stored later does not.
StaleOnlyInTransit ==
    \A n \in Nodes : Stale(n) /\ n \notin excused =>
        \/ \E w \in Writers : writer[w] # NoWriter /\ writer[w].at # "checked"
        \/ \E m \in bus : m.to = n /\ m.from # HostOf[n]
        \/ Lapsed /\ store[n].lists /\ store[n].left < TTL

\* What the public reads is at most one time to live behind the status and the expiry
\* of an entry or alert, and behind at all only where the invalidation has not got
\* through or an alert ran out while its answer was cached (cache.service.ts,
\* cache-invalidation-bus.ts, public-alert.service.ts).
ReadsFresh == StalenessBounded /\ StaleOnlyInTransit
=============================================================================
