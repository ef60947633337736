---------------------------- MODULE BrowserStore ----------------------------
(***************************************************************************)
(* IndexedDBContentAddressedStore: the store of the browser.  Several tabs *)
(* share one IndexedDB database; in each tab several asynchronous calls    *)
(* share one connection.  A transaction of IndexedDB is atomic and the     *)
(* transactions that write the same object stores run one after another,   *)
(* so each is one step here; between two transactions of one call, and     *)
(* between the commit and the moment the caller learns of it, anything may *)
(* happen.  WebKit may lose the connection at any time: the call is then   *)
(* repeated on a new connection, whether or not its transaction committed. *)
(***************************************************************************)
EXTENDS StoreOps

CONSTANTS
    Tabs,           \* the tabs that have the store open
    Callers,        \* the asynchronous calls in progress
    TabOf,          \* the tab each caller runs in
    Hashes, HashOf, \* content hashes, and the content of each entry
    CreatedAt,      \* createdAt of each entry
    Batches, Removals, \* the sets of entries that calls put and remove
    Received,       \* the receipt that a server has given the entries
    MinSized,       \* items the smallest bloom filter is sized for (code: 6)
    MaxRetries,     \* length of RECONNECT_RETRY_DELAYS_MS (code: 3)
    MaxFaults,      \* bound: connections lost and opens refused
    MaxCalls,       \* bound: calls in a behaviour
    MaxGen          \* bound: databases created under the name

ASSUME BsAssumption ==
    /\ IsFiniteSet(Tabs) /\ IsFiniteSet(Hashes)
    /\ TabOf \in [Callers -> Tabs] /\ HashOf \in [Ids -> Hashes]
    /\ CreatedAt \in [Ids -> Nat] /\ Received \in Receipts \ {NoReceipt}
    /\ Batches \subseteq SUBSET Ids /\ Removals \subseteq SUBSET Ids
    /\ {MinSized, MaxRetries, MaxFaults, MaxCalls} \subseteq Nat
    /\ MaxGen \in Nat \ {0}

VARIABLES
    db,      \* the database (its object stores and counters)
    gen,     \* how many databases have had the name so far
    conn,    \* conn[t]: none, opening, checked or backfill (db set, promise
             \* pending, totals known or not), open
    call,    \* call[c]: the call of c, see Call below
    acked,   \* entries whose putEntries has returned and that nobody removed
    heads,   \* the heads that callers have read
    cut,     \* history: a connection went away while its backfill was due
    faults, calls  \* counters for the bounds

bsVars == <<db, gen, conn, call, acked, heads, cut, faults, calls>>

Absent == -1      \* a byte total that an older version did not keep

\* The cached summary by the ids it covers; total and sized fix its shape
NoBloom == [dirty |-> TRUE, ids |-> {}, total |-> 0, sized |-> 0]

\* A new database: what onupgradeneeded leaves behind when there was none
EmptyDb == [version |-> 0, order |-> [i \in Ids |-> 0],
            receipt |-> [i \in Ids |-> NoReceipt], counter |-> 0,
            refs |-> [h \in Hashes |-> 0], cbytes |-> Absent, mbytes |-> Absent,
            bloom |-> NoBloom, epoch |-> 0]

Present(d) == {i \in Ids : d.order[i] > 0}

NoCall == [op |-> "none", arg |-> {}, pc |-> "idle", handle |-> "none",
           tries |-> 0, done |-> {}]
Idle(c) == call[c].pc = "idle"

-----------------------------------------------------------------------------
(* Transactions, as functions from the database before to the one after    *)

\* `?? 0`
OrZero(n) == IF n = Absent THEN 0 ELSE n
MaxZero(n) == IF n < 0 THEN 0 ELSE n

\* getMetadataPayloadBytes over a set of entries: a receipt makes the record
\* longer.  Contents have length one.
MetadataBytes(d, S) ==
    Cardinality(S) + Cardinality({i \in S : d.receipt[i] # NoReceipt})
ContentBytes(d) == Cardinality({h \in Hashes : d.refs[h] > 0})

\* Fault: the entry's own document decides, not the reference count
ReleasedAtOnce(refs, S) ==
    [h \in Hashes |-> IF \E i \in S : HashOf[i] = h THEN 0 ELSE refs[h]]

\* Reference counts after entries of S were removed
Released(refs, S) ==
    [h \in Hashes |->
        MaxZero(refs[h] - Cardinality({i \in S : HashOf[i] = h}))]

\* incrementalBloomUpdate: bits of new ids are added until the filter holds
\* twice what it was sized for; then it is left to be rebuilt
BloomAdd(b, new) ==
    IF b.dirty \/ b.total + Cardinality(new) > 2 * b.sized THEN NoBloom
    ELSE [b EXCEPT !.ids = @ \cup new, !.total = @ + Cardinality(new)]

\* createIdBloomSummaryBrowser: bitCount is at least 64
BloomOf(S) ==
    [dirty |-> FALSE, ids |-> S, total |-> Cardinality(S),
     sized |-> IF Cardinality(S) < MinSized THEN MinSized ELSE Cardinality(S)]

\* putEntries
TxPut(d, S, receipts, rank) ==
    LET new == S \ Present(d)
        refs == [h \in Hashes |-> d.refs[h] + Cardinality({i \in new : HashOf[i] = h})]
        after == [d EXCEPT
          !.order = [i \in Ids |-> IF i \in new THEN d.counter + rank[i] ELSE d.order[i]],
          !.receipt = [i \in Ids |-> IF i \in new THEN receipts[i] ELSE d.receipt[i]],
          !.counter = @ + Cardinality(new),
          !.refs = refs]
    IN  IF new = {} THEN d
        ELSE [after EXCEPT
          !.cbytes = OrZero(d.cbytes) + ContentBytes(after) - ContentBytes(d),
          !.mbytes = OrZero(d.mbytes) + MetadataBytes(after, new),
          !.bloom = BloomAdd(d.bloom, new)]

\* The receipts that are not skipped
Moved(d, receipts) ==
    {i \in Present(d) : receipts[i] # NoReceipt /\ receipts[i] # d.receipt[i]}

\* Fault: the witnessed entries stay where they were
TxReceiptsInPlace(d, receipts, rank) ==
    [d EXCEPT !.receipt = [i \in Ids |-> IF i \in Moved(d, receipts)
                                         THEN receipts[i] ELSE d.receipt[i]]]

\* applyWitnessReceipts: the byte totals are not adjusted
TxReceipts(d, receipts, rank) ==
    LET moved == Moved(d, receipts)
    IN  [d EXCEPT
          !.order = [i \in Ids |-> IF i \in moved THEN d.counter + rank[i] ELSE d.order[i]],
          !.receipt = [i \in Ids |-> IF i \in moved THEN receipts[i] ELSE d.receipt[i]],
          !.counter = @ + Cardinality(moved)]

\* purgeDocHistory and deleteEntriesWhere: both return without a write when
\* no entry matches
TxRemove(d, S) ==
    LET gone == S \cap Present(d)
        after == [d EXCEPT
          !.order = [i \in Ids |-> IF i \in gone THEN 0 ELSE d.order[i]],
          !.receipt = [i \in Ids |-> IF i \in gone THEN NoReceipt ELSE d.receipt[i]],
          !.refs = Released(d.refs, gone),
          !.bloom = NoBloom]
    IN  IF gone = {} THEN d
        ELSE [after EXCEPT
          !.cbytes = MaxZero(OrZero(d.cbytes) + ContentBytes(after) - ContentBytes(d)),
          !.mbytes = MaxZero(OrZero(d.mbytes) - MetadataBytes(d, gone))]

\* Position of i among S by createdAt, then id
LegacyOrder(S, i) ==
    Cardinality({j \in S : \/ CreatedAt[j] < CreatedAt[i]
                           \/ CreatedAt[j] = CreatedAt[i] /\ j <= i})

\* onupgradeneeded: a database of version 1, or a new one, is numbered by
\* creation date
TxUpgrade(d) ==
    IF d.version = 2 THEN d
    ELSE [d EXCEPT
          !.version = 2,
          !.order = [i \in Ids |-> IF i \in Present(d) THEN LegacyOrder(Present(d), i) ELSE 0],
          !.counter = Cardinality(Present(d))]

\* backfillStoredBytesIfNeeded, second transaction
TxBackfill(d) ==
    [d EXCEPT !.cbytes = ContentBytes(d), !.mbytes = MetadataBytes(d, Present(d))]

-----------------------------------------------------------------------------
(* Connections                                                             *)

\* The calls of tab t after its connection went away: `how` is closed when
\* close() was called (running transactions still complete) and lost when
\* the database server is gone
Dropped(t, how) ==
    [c \in Callers |->
        IF TabOf[c] = t /\ call[c].handle = "live"
        THEN [call[c] EXCEPT !.handle = how] ELSE call[c]]

\* Calls waiting for the openPromise of tab t
Awaiting(c, t) == TabOf[c] = t /\ call[c].pc \in {"open", "reopen", "ids"}

\* this.db is set
HasDb(t) == conn[t] \in {"checked", "backfill", "open"}

\* ensureOpen without connection or promise: indexedDB.open
BeginOpen(t) ==
    /\ conn[t] = "none" /\ \E c \in Callers : Awaiting(c, t)
    /\ conn' = [conn EXCEPT ![t] = "opening"]
    /\ UNCHANGED <<db, gen, call, acked, heads, cut, faults, calls>>

\* onupgradeneeded and onsuccess: db is set and the byte totals are looked up
Opened(t) ==
    /\ conn[t] = "opening"
    /\ db' = TxUpgrade(db)
    /\ conn' = [conn EXCEPT ![t] =
                  IF Absent \in {db.cbytes, db.mbytes} THEN "backfill" ELSE "checked"]
    /\ UNCHANGED <<gen, call, acked, heads, cut, faults, calls>>

\* The backfill ends and the promise is resolved
Backfilled(t) ==
    /\ conn[t] \in {"checked", "backfill"}
    /\ db' = IF conn[t] = "backfill" THEN TxBackfill(db) ELSE db
    /\ conn' = [conn EXCEPT ![t] = "open"]
    /\ UNCHANGED <<gen, call, acked, heads, cut, faults, calls>>

\* The promise is fulfilled.  A call that comes later finds db set and does
\* not wait, not even for the backfill (see Start).
GotConnection(c) ==
    /\ call[c].pc = "open" /\ conn[TabOf[c]] = "open"
    /\ call' = [call EXCEPT ![c].pc = "run", ![c].handle = "live"]
    /\ UNCHANGED <<db, gen, conn, acked, heads, cut, faults, calls>>

\* runWithReconnect: the connection is back, the operation starts over
Reopened(c) ==
    /\ call[c].pc = "reopen" /\ HasDb(TabOf[c])
    /\ call' = [call EXCEPT ![c].pc = "run", ![c].handle = "live"]
    /\ UNCHANGED <<db, gen, conn, acked, heads, cut, faults, calls>>

\* The openPromise of t is settled without a connection.  rejected: a failed
\* try for an operation, but while a call reopens the connection nothing
\* catches the error.  null: db was reset while the backfill ran, and the
\* operation fails on it with an error that is not retried.
Settled(pc, how) ==
    CASE how = "rejected" /\ pc \in {"open", "ids"} -> "error"
      [] how = "rejected" /\ pc = "reopen" -> "failed"
      [] how = "null" /\ pc \in {"open", "ids"} -> "failed"
      [] how = "null" /\ pc = "reopen" -> "open"
      [] OTHER -> pc

Unsettled(cs, t, how) ==
    [c \in Callers |-> IF Awaiting(c, t) THEN [cs[c] EXCEPT !.pc = Settled(@, how)]
                       ELSE cs[c]]

\* How a promise may end whose connection is reset: before the backfill is
\* done it may also be too late for it
Endings(t) == {"pending"} \cup IF conn[t] \in {"checked", "backfill"} THEN {"rejected", "null"} ELSE {}

\* resetConnection: the tab forgets its connection.  An open request under
\* way still sets db when it succeeds.
Reset(t) ==
    /\ conn' = IF conn[t] = "opening" THEN conn ELSE [conn EXCEPT ![t] = "none"]
    /\ cut' = (cut \/ conn[t] = "backfill")

\* request.onerror
OpenFails(t) ==
    /\ conn[t] = "opening" /\ faults < MaxFaults
    /\ conn' = [conn EXCEPT ![t] = "none"]
    /\ call' = Unsettled(call, t, "rejected")
    /\ faults' = faults + 1
    /\ UNCHANGED <<db, gen, acked, heads, cut, calls>>

\* onclose, or a transaction that fails because the server is gone
ConnectionLost(t) ==
    /\ HasDb(t) /\ faults < MaxFaults
    /\ Reset(t)
    /\ \E end \in Endings(t) : call' = Unsettled(Dropped(t, "lost"), t, end)
    /\ faults' = faults + 1
    /\ UNCHANGED <<db, gen, acked, heads, calls>>

\* onversionchange: another tab deletes the database
VersionChange(t) ==
    /\ HasDb(t)
    /\ \E c \in Callers : call[c].pc = "clearing"
    /\ Reset(t)
    /\ \E end \in Endings(t) : call' = Unsettled(Dropped(t, "closed"), t, end)
    /\ UNCHANGED <<db, gen, acked, heads, faults, calls>>

-----------------------------------------------------------------------------
(* Calls                                                                   *)

Ops == {"put", "pull", "receipts", "remove", "head", "bloom"}
ArgsOf(op) ==
    CASE op \in {"put", "pull", "receipts"} -> Batches
      [] op = "remove" -> Removals
      [] OTHER -> {{}}

\* A call begins; it works on a connection of the tab, see runWithReconnect
Start(c, op, arg) ==
    /\ Idle(c) /\ calls < MaxCalls
    /\ call' = [call EXCEPT ![c] =
                  [NoCall EXCEPT !.op = op, !.arg = arg,
                                 !.pc = IF HasDb(TabOf[c]) THEN "run" ELSE "open",
                                 !.handle = IF HasDb(TabOf[c]) THEN "live" ELSE "none"]]
    /\ calls' = calls + 1
    /\ UNCHANGED <<db, gen, conn, acked, heads, cut, faults>>

Running(c, op) == call[c].op = op /\ call[c].pc = "run" /\ call[c].handle = "live"

\* The transaction of c commits; the caller does not know yet
Committed(c, done) == [call EXCEPT ![c].pc = "committed", ![c].done = done]

\* putEntries of the user's own entries and of pulled ones, which carry the
\* receipt of the server
Put(c, op) ==
    /\ Running(c, op)
    /\ \E rank \in Ranking(call[c].arg \ Present(db)) :
          db' = TxPut(db, call[c].arg,
                      [i \in Ids |-> IF op = "pull" THEN Received ELSE NoReceipt], rank)
    /\ call' = Committed(c, call[c].arg)
    /\ UNCHANGED <<gen, conn, acked, heads, cut, faults, calls>>

Receive(c) ==
    /\ Running(c, "receipts")
    /\ LET receipts == [i \in Ids |-> IF i \in call[c].arg THEN Received ELSE NoReceipt]
       IN  \E rank \in Ranking(Moved(db, receipts)) : db' = TxReceipts(db, receipts, rank)
    /\ call' = Committed(c, {})
    /\ UNCHANGED <<gen, conn, acked, heads, cut, faults, calls>>

\* What a removal takes from the promises to other callers
Forget(calls_, S) == [c \in Callers |-> [calls_[c] EXCEPT !.done = @ \ S]]

\* purgeDocHistory, deleteEntriesForAttachment, deleteEntriesById
RemoveEntries(c) ==
    /\ Running(c, "remove")
    /\ db' = TxRemove(db, call[c].arg)
    /\ call' = Forget(Committed(c, {}), call[c].arg)
    /\ acked' = acked \ call[c].arg
    /\ UNCHANGED <<gen, conn, heads, cut, faults, calls>>

\* getStoreHead: the epoch is created on first use
KeepEpoch(d, e) == [d EXCEPT !.epoch = e]

ReadHead(c) ==
    /\ Running(c, "head")
    /\ LET fresh == 1 + Cardinality({h.epoch : h \in heads})
           e == IF db.epoch = 0 THEN fresh ELSE db.epoch
       IN  /\ db' = IF db.epoch = 0 THEN KeepEpoch(db, e) ELSE db
           /\ heads' = heads \cup {[epoch |-> e, gen |-> gen]}
    /\ call' = Committed(c, {})
    /\ UNCHANGED <<gen, conn, acked, cut, faults, calls>>

\* getIdBloomSummary: a clean cache is the answer; otherwise the ids are read
\* in a second transaction and the summary is stored in a third
ReadBloom(c) ==
    /\ Running(c, "bloom")
    /\ call' = IF db.bloom.dirty
               THEN [call EXCEPT ![c].pc = "ids"]
               ELSE Committed(c, {})
    /\ UNCHANGED <<db, gen, conn, acked, heads, cut, faults, calls>>

\* getAllIds opens the connection again if need be
ReadIds(c) ==
    /\ call[c].pc = "ids" /\ HasDb(TabOf[c])
    /\ call' = [call EXCEPT ![c].pc = "write", ![c].arg = Present(db)]
    /\ UNCHANGED <<db, gen, conn, acked, heads, cut, faults, calls>>

\* The summary of the ids read before goes into the cache
WriteBloom(c) ==
    /\ call[c].pc = "write" /\ call[c].handle = "live"
    /\ db' = [db EXCEPT !.bloom = BloomOf(call[c].arg)]
    /\ call' = Committed(c, {})
    /\ UNCHANGED <<gen, conn, acked, heads, cut, faults, calls>>

\* clearAllLocalData: the tab's connection is closed and deletion requested
Clear(c) ==
    /\ Idle(c) /\ calls < MaxCalls /\ gen < MaxGen
    /\ LET t == TabOf[c]
       IN  /\ Reset(t)
           /\ \E end \in Endings(t) :
                 call' = [Unsettled(Dropped(t, "closed"), t, end)
                            EXCEPT ![c] = [NoCall EXCEPT !.op = "clear", !.pc = "clearing"]]
    /\ calls' = calls + 1
    /\ UNCHANGED <<db, gen, acked, heads, faults>>

\* deleteDatabase runs once every connection is closed
Delete(c) ==
    /\ call[c].pc = "clearing"
    /\ \A t \in Tabs : conn[t] \in {"none", "opening"}
    /\ db' = EmptyDb
    /\ gen' = gen + 1
    /\ call' = [Forget(call, Ids) EXCEPT ![c] = NoCall]
    /\ acked' = {}
    /\ UNCHANGED <<conn, heads, cut, faults, calls>>

\* Fault: an error behind the last request is taken for success
ReturnUnconfirmed(c) ==
    /\ call[c].pc \in {"committed", "run"}
    /\ acked' = IF call[c].op = "put" THEN acked \cup call[c].arg ELSE acked
    /\ call' = [call EXCEPT ![c] = NoCall]
    /\ UNCHANGED <<db, gen, conn, heads, cut, faults, calls>>

\* oncomplete: the promise of the caller is fulfilled
Return(c) ==
    /\ call[c].pc = "committed" /\ call[c].handle # "lost"
    /\ acked' = acked \cup call[c].done
    /\ call' = [call EXCEPT ![c] = NoCall]
    /\ UNCHANGED <<db, gen, conn, heads, cut, faults, calls>>

\* A connection error reaches runWithReconnect: a lost completion, or a
\* transaction on a connection that is gone
Broken(c) ==
    \/ call[c].pc = "committed" /\ call[c].handle = "lost"
    \/ call[c].pc \in {"run", "write"} /\ call[c].handle \in {"closed", "lost"}
    \/ call[c].pc = "error"

\* The connection of the tab is reset, also one that another call has just
\* opened, and the call waits for a new one
Retry(c) ==
    /\ Broken(c) /\ call[c].tries < MaxRetries
    /\ LET t == TabOf[c]
       IN  /\ Reset(t)
           /\ \E end \in Endings(t) :
                 call' = [Unsettled(Dropped(t, "closed"), t, end) EXCEPT
                            ![c].pc = "reopen", ![c].handle = "none",
                            ![c].tries = @ + 1, ![c].done = {}]
    /\ UNCHANGED <<db, gen, acked, heads, faults, calls>>

\* The last error goes to the caller
GiveUp(c) ==
    /\ call[c].pc = "failed" \/ (Broken(c) /\ call[c].tries >= MaxRetries)
    /\ call' = [call EXCEPT ![c] = NoCall]
    /\ UNCHANGED <<db, gen, conn, acked, heads, cut, faults, calls>>

-----------------------------------------------------------------------------
\* A database of version 1: its entries have no receiptOrder (any number marks
\* them as present), and there are no byte totals
LegacyDb(S) ==
    [EmptyDb EXCEPT !.version = 1,
                    !.order = [i \in Ids |-> IF i \in S THEN 1 ELSE 0],
                    !.refs = [h \in Hashes |-> Cardinality({i \in S : HashOf[i] = h})]]

\* A database in use: its head and its bloom summary have been read
UsedDb(S) ==
    TxBackfill([LegacyDb(S) EXCEPT
        !.version = 2, !.epoch = 1, !.bloom = BloomOf(S), !.counter = Cardinality(S),
        !.order = [i \in Ids |-> IF i \in S THEN LegacyOrder(S, i) ELSE 0]])

BsInit ==
    /\ \/ db = EmptyDb /\ heads = {}
       \/ \E S \in Batches : db = LegacyDb(S) /\ heads = {}
       \/ \E S \in Batches : db = UsedDb(S) /\ heads = {[epoch |-> 1, gen |-> 1]}
    /\ gen = 1
    /\ conn = [t \in Tabs |-> "none"]
    /\ call = [c \in Callers |-> NoCall]
    /\ acked = {} /\ cut = FALSE
    /\ faults = 0 /\ calls = 0

Connections ==
    \/ \E t \in Tabs :
         \/ BeginOpen(t) \/ Opened(t) \/ Backfilled(t)
         \/ OpenFails(t) \/ ConnectionLost(t) \/ VersionChange(t)
    \/ \E c \in Callers : GotConnection(c) \/ Reopened(c)

Calls ==
    \E c \in Callers :
        \/ \E op \in Ops : \E arg \in ArgsOf(op) : Start(c, op, arg)
        \/ \E op \in {"put", "pull"} : Put(c, op)
        \/ Receive(c) \/ RemoveEntries(c) \/ ReadHead(c)
        \/ ReadBloom(c) \/ ReadIds(c) \/ WriteBloom(c)
        \/ Clear(c) \/ Delete(c)
        \/ Return(c) \/ Retry(c) \/ GiveUp(c)

BsNext == Connections \/ Calls

BsSpec == BsInit /\ [][BsNext]_bsVars

-----------------------------------------------------------------------------
(* Properties                                                              *)

\* A content is kept exactly as long as some entry refers to it: putEntries
\* and the removals keep refCount, whatever is repeated after a lost
\* connection.
RefCountsExact ==
    \A h \in Hashes : db.refs[h] = Cardinality({i \in Present(db) : HashOf[i] = h})

\* What putEntries has reported as stored is there until a purge, a deletion
\* or a clear takes it away.
AckedIsStored == acked \subseteq Present(db)

\* Two heads name the same epoch exactly if they are of the same database: a
\* cleared store is recognised, an unchanged one never forces a full scan.
HeadsNameLineage ==
    \A g, h \in heads : g.epoch = h.epoch <=> g.gen = h.gen

\* getStoredBytes counts the contents that the database holds, however often
\* a put is repeated, except while a backfill is due or was interrupted.
ContentBytesExact ==
    db.cbytes # Absent /\ ~cut /\ (\A t \in Tabs : conn[t] # "backfill")
        => db.cbytes = ContentBytes(db)

\* What was reported lasts: acknowledged entries, and the epoch of the head.
ReportsHold == AckedIsStored /\ HeadsNameLineage

\* The counters that are kept beside the contents are those of the contents.
ContentAccounted == RefCountsExact /\ ContentBytesExact

\* The database as the abstract store sees it.  A database of version 1 is
\* numbered already: the upgrade will number it the same way.
View ==
    [order |-> IF db.version = 1
               THEN [i \in Ids |-> IF i \in Present(db) THEN LegacyOrder(Present(db), i) ELSE 0]
               ELSE db.order,
     receipt |-> db.receipt,
     next |-> 1 + IF db.version = 1 THEN Cardinality(Present(db)) ELSE db.counter,
     epoch |-> gen]

Abstract == INSTANCE AbstractStore WITH store <- View

\* Tabs, lost connections, repetitions and upgrades are invisible: the store
\* changes only as by one of the operations of the abstract store.
ImplementsStore == Abstract!AbsSpec
=============================================================================
