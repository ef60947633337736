# MindooDB in TLA+

MindooDB is an end-to-end encrypted, offline-first document database. A tenant's
databases live as append-only, content-addressed stores on every client and on
zero or more sync servers; clients pull and push entries between stores, replay
them into Automerge documents and keep indexes over the documents. This
directory holds a TLA+ model of the parts of that system whose correctness
depends on the order of events, the TLC runs that check it on small instances,
and TLAPS proofs of what matters most.

Paths below are relative to the repository's root; `core/` stands for
`src/core/`, `node/` for `src/node/`, `network/` for
`src/appendonlystores/network/`. `PROJECT.json` maps every definition to the
lines it models and lists components, runs, hazards, findings and theorems.

1. [The system](#1-the-system)
2. [The modules](#2-the-modules)
3. [What the runs check](#3-what-the-runs-check)
4. [What is proved](#4-what-is-proved)
5. [What is not proved, and what is not modelled](#5-what-is-not-proved-and-what-is-not-modelled)
6. [Plan](#6-plan)

## 1. The system

| Part | State it keeps | Operations | Hard behaviour | What makes it correct |
|---|---|---|---|---|
| Content-addressed stores (`core/appendonlystores`, `node/appendonlystores`, `browser/appendonlystores`) | entries with metadata, `receiptOrder` numbering, store epoch, content by hash | put, receipts, scan, head, Bloom summary, delete, purge, clear | concurrent writers and tabs; crash between two file writes; a lost connection; renumbering after a reset | a scan sees every entry once per position; a restart finds what was acknowledged; contents are counted exactly |
| Sync engine (`core/BaseMindooDB.ts`) | saved scan cursors per store pair, local variables of each session | heads, skip, resume, scan with prefetch, filter, parallel transfer, receipts, save cursor | sessions, writers and purges interleave at every `await`; aborts, failed batches, lost replies, restarts | a saved cursor never skips an entry; every sync ends; repeated syncs converge |
| Client network store and transport (`network/ClientNetworkContentAddressedStore.ts`, `HttpTransport.ts`, `RequestScheduler.ts`) | tokens, authentications in flight, capabilities; slots, waiters, pauses | authenticate, renew, borrow an identity; run, retry, pause, cancel | authentications shared by stores; slot hand-over against aborts and pauses | requests are sent under the right identity; no slot is lost; every request ends |
| Sync server (`node/server`, `network/ServerNetworkContentAddressedStore.ts`, `core/appendonlystores/network/AuthenticationService.ts`) | tenants and their instances, key bag, configuration, challenges, subscriptions, purge denylist | register, remove, authenticate, push, pull, subscribe, purge, configure, sync with an upstream | checks read before and used after many awaits; tenants loaded twice; crash between purge and save | a challenge is used once; the revoked stay out; what was acknowledged lasts; purged documents stay purged |
| Document replay and index, client cache (`core/BaseMindooDB.ts`, `core/cache`) | documents in memory, index with change sequence, processed cursor, dirty sets, checkpoint | `syncStoreChanges`, document writes, loads, reconciliations, changefeeds, flush, restore | entries in any order; authors and keys that come and go; a flush beside a running database | every processed entry is in its document, its cache record and the feed |
| Document DAG and history (`core/DocumentDagAnalysis.ts`, `core/appendonlystores/MaterializationPlanner.ts`, `core/BaseMindooDB.ts`) | revision feed cursor and cache | plans, slices, lanes, conflicts, revisions | several heads and snapshots, skewed clocks, late entries | every way to read the past agrees with the graph |
| Attachments (`core/BaseMindooDB.ts`) | chunks, references, ledger of pending uploads | add, stream, append, remove, read a range, sweep | failure or crash in mid-upload | reads are exact; no chunk is forgotten |
| Document copy (`core/copy`) | the target document | copy in each mode, cancel, repeat | a source that goes on changing | a finished copy stands without its source |
| Tenant directory and access control (`core/BaseMindooTenantDirectory.ts`, `core/accesscontrol`) | caches of grants, groups, distributions; chain of directory states | administrators' edits, passes, resets; evaluation, quarantine | overlapping passes; entries in another order than they were written | caches equal the documents; the chain equals a replay |
| Key bag and user keys (`core/keys`, `core/userkeys`, `core/BaseMindooTenant.ts`) | key versions, key changes; one merged document per user | add, rotate, distribute, reconcile; enrol, approve, revoke | merges of several devices' writes | keys are held by right; views follow the bag; housekeeping settles |
| Views and summaries (`core/indexing`) | category tree and counts, summary buffer, their cursors | update from changefeed, bind, flush, restore, navigate | overlapping, stopped and failing updates | the tree equals the one built from nothing |
| Full-text index, queries, expressions, dense sync, set-up, cryptography, platform adapters | | | | not modelled, see section 5 |

The parts meet in the stores: documents are written as store entries, sync moves
entries between stores, a pull ends with `syncStoreChanges`, views and summaries
follow the changefeed, the directory and the access decisions are documents of a
database themselves. `PROJECT.json` lists the hazards this creates, each at its
line, with the properties that cover it.

## 2. The modules

A module models a component; an `MC` module gives several of them values and
combines those that one run checks side by side. In a behaviour of such a run
only one component moves, chosen by `Init`; the components do not interact there.

| Module | Models | Used by |
|---|---|---|
| `AbstractStore` | what the interface `ContentAddressedStore` promises: one step per operation | `BrowserStoreProofs` |
| `StoreOps` | the operations of a store as operators on a store record | the next two, `AbstractStore` |
| `StoreSync` | one client database syncing with servers, every other writer, failures and restarts | `MCStoreSync`, `MCTransport` |
| `BrowserStore` | the IndexedDB store, its tabs and connections | `MCReplica` |
| `OnDiskStore` | the file-backed store: files, index, numbering, crashes, restarts, purges | `MCFiles` |
| `Attachments`, `DocCopy` | uploads and range reads; copies of a document | `MCFiles` |
| `HttpTransport`, `ClientStore` | the scheduler and retries; tokens and identities of network stores | `MCTransport` |
| `SyncServer` | the server process | `MCSyncServer` |
| `DocReplay` | one open database between its store and its readers | `MCDocReplay` |
| `DocDag`, `DocHistory` | the graph of entries; reads of the past, conflicts, revision feed | `MCReplica` |
| `Directory`, `AccessControl` | caches of the tenant directory; directory states over time, decisions | `MCDirectory` |
| `KeyBag`, `UserKeys` | document keys on one device; the user key on several | `MCKeys` |
| `ChangeFeed`, `VirtualView`, `ViewNavigator`, `SummaryStore` | a changefeed as its consumers see it, and three of them | `MCViews` |
| `StoreOpsProofs`, `SyncProofs` (sync engine, request gate and network stores), `BrowserStoreProofs`, `SyncServerProofs`, `OnDiskStoreProofs`, `KeyProofs` (key bag and user keys), `DocReplayProofs`, `SummaryProofs` | the theorems | |

JavaScript runs one handler at a time, so throughout a step is the code between
two `await`s, and between two of them every other handler, process or device may
move. Where IndexedDB is used a step is a transaction, where files are used a
step is a write and rename. Contents, hashes, names and signatures are members
of small sets; cryptography is ideal. `hist`, `lost`, `cut`, `skew` and the
variables marked *ghost* record what happened and guard no action, unless said
below.

### Stores and sync

`StoreOps`: `order[i]` is the `receiptOrder` of entry `i`, 0 while the store does
not hold it; `receipt[i]` its witness receipt; `next` the counter
`nextReceiptOrder`; `epoch` the lineage of `getStoreHead`. Entry ids are numbers
because the scan compares them when two receipt orders are equal. `putEntries`
skips what is stored and numbers the rest consecutively, in the order of the
batch, which is a parameter (`rank`), because batches are sets.

`StoreSync`: a session is a record of the local variables of one
`syncEntriesFromStoreImpl`.

| Code | Model |
|---|---|
| reading the saved cursor, then both heads (`Promise.all`) | `Start`, `FetchSourceHead`, `FetchTargetHead` |
| skip, resume, epoch change | `SkipSync`, `ResumeScan`, `FullScan` |
| `getStoreBloomSummary` of the target | `FetchBloom`: any superset of the target's ids |
| page loop: prefetched or fresh page, clamp to the scan bound | `NextPage`, `Prefetch`, `Clamp` |
| `filterMissingIds` | `FilterMissing` |
| worker loop: slice, `getEntries`, `putEntries`, `applyWitnessReceipts` | `TakeBatch`, `GetBatch`, `ReceiveBatch`, `PutBatch`, `ApplyReceipts` |
| a batch fails or is abandoned; the sync throws or is cancelled | `DropBatch`, `FailBatch`, `ThrowError`, `FailSync`, `CancelSync` |
| end of page, end of scan, `persistScanCursor` | `EndPage`, `EndScan` |
| `syncStoreChanges` at the end of a pull | `ProcessPulled` |
| metadata checkpoint, restart of the client | `Checkpoint`, `Restart` |

`handlePutEntries` is two steps, because it reads its denylists, the clock and
the set of known ids first and stores the batch many awaits later. Another
client is an entry that appears at a server (`CreateEntry`); administrators purge
documents, withhold and restore keys; stores are cleared. Whether a server
rejects an entry of an untrusted author is a free choice at each push; a
server-side handler that goes on after its client gave up is covered as a lost
reply only.

`BrowserStore`: each call of a tab is a record `call[c]` with the transaction it
is about to run; connections are opened, checked, upgraded from version 1,
backfilled, lost (WebKit), closed by `onversionchange` and deleted by another
tab. A call whose connection went away is repeated, whether or not its
transaction committed, as `runWithReconnect` does. `BrowserStoreProofs` maps the
database to the record of `AbstractStore`.

`OnDiskStore`: `files`, `content`, `snapshot`, `segments` and `epochFile` survive
a crash; `index`, `next` and `tasks` are the process's memory. `initialize` is
`Start` to `ClearReplayed`, `putEntriesLocked` and `applyWitnessReceiptsLocked` are
`PutContent` to `UpdateIndex` under the write chain, `purgeDocHistory` runs outside
it, compaction is `ListSegments` to `ClearSegment`; `PeerSync` is a peer that reads
head and scan to the end. Listing the segments and serialising the index are one
step, and a migration numbers the files in id order. `upset` is a history variable: it
records the events after which the store promises less (`Upsets`, see Windows).

### The server and its clients

`SyncServer`: `req[c]` is the suspended handler of a request; `files` is what
survives, `mem` and `inst` what a restart loses. Every request that finds no
instance of its tenant loads one of its own, and the last to finish is the one
requests are given from then on (`Loading`); an instance may also be dropped from
the cache. Handlers go on with the instance they hold. The index of an instance is
read from the disk at its first use, and a purge removes what it lists, in
memory and on the disk. `Registration` shares the
server's key bag between tenants; `Authentication` is challenge, verification and
token; `Pushing` checks the gate, then the denylist, then stores and announces;
`Purging` is `executePendingPurges`; `Configuring` edits the administrators;
`ServerSyncStart`, `ServerSyncScan` and `ServerSyncPut` are a round with an
upstream. `hist.split`, `hist.left`, `hist.overlap`, `hist.excused` and
`hist.failed` mark the windows of section 3.

`HttpTransport`: a request goes `Begin`, `Enter` (the scheduler's slot or its
queue), `Send`, and ends or retries; `ReleaseSlot` hands the slot to the head of
the queue; a 429 pauses all. Time counts in ticks.

`ClientStore`: an operation finds a token, joins an authentication in flight or
starts one, is repeated once when its token is refused, and may run under the
identity that `setSyncAuthOverride` borrows. `lent`, `astray` and the `fresh` of a call
are ghosts.

### Documents

`DocReplay`: `db` is the open `BaseMindooDB`; `sync`, `op`, `flush`, `recon`, `heal`
and `feed` are the handlers that may be suspended. A document's content is the
set of entries that Automerge was given.

| Code | Model |
|---|---|
| `syncStoreChanges`: the new entries, then document by document | `SyncStart`, `ApplyNewEntries`, `ApplyFinish`, `SyncDone` |
| a document not in memory: index it from the batch, or scan the store first | `IndexFromMetadata`, or `ScanMetadata` and `IndexScanned` |
| a document without its key: purge what is materialized, then hide it | `SyncWithoutKey` (hidden already), or `SyncPurge` and `SyncHide` |
| `reconcileKeyBagChanges` and `reconcileKeyVisibility` | `ReconcileStart`, `ReconcileKeyVisibility`, `ReconcileHide`, `ReconcileEnd` |
| `reconcileAuthorTrust` | `HealStart`, `HealDocument` |
| `loadDocumentInternal`; the writes of a document | `LoadStart`, `LoadFinish`; `CreateDocument` ... `ApplyKnownChange`, `WritePut`, `WriteFinish` |
| flush of the cache | `FlushStart`, `FlushRecord`, `FlushCheckpoint`, `ClearDirty` |
| start of the process, `initialize` | `Restart`, then a sync, then `Initialized` |

The key of a document may come or go between any two of these. `hasDecryptionKey`
only reads the key bag in memory, so its answer and the branch it decides are one
step; where the code awaits a scan or a purge after it, the write of the index is
a step of its own, made on an answer that may be old by then. Events of the key
bag that arrive during a pass of the reconciliation lead to another (`recon.again`); a
database that is being opened gets none, and `Initialized` compares the
fingerprint of the checkpoint with the key bag instead.

`DocDag` holds the pure functions over the graph of entries, written as recursive
functions and checked against reachability in the graph; `DocHistory` writes
histories entry by entry and reads them.

`Attachments`: byte `i` of an attachment is the number `i`, so what a reader should
get is known. `DocCopy` copies entries in batches while the source changes.

`VirtualView` keeps of each category what the code counts step by step: documents
and categories below it, a total, and the divisor of the average computed last.
`ViewNavigator` moves a stack of positions through its tree;
`SummaryStore` persists buckets one by one and its meta record last. Its history
`skew` says what the code may have lost: in memory, on the disk, in the view.

### Keys and directory

`Directory`: passes of `updateUnifiedCache` are not serialised; each takes a
snapshot of the feed, then awaits documents one by one. `AccessControl` keeps the
chain of directory states. `KeyBag` is the bag, its change feed and the
reconciliation of open databases; `UserKeys` is one merged document, in which
every write replaces a top-level field and the last writer wins. Its ghosts say who
may hold what: `made` and `entitled`, `cut` (whom a rotation was to cut off) and
`window` (two things that went wrong, see Windows). A reconcile is two steps,
all that precedes the removal of revoked wraps and that removal: what is merged in
the awaits between its reading of the user keys and `replaceUserKeys`, and
overwritten there, is outside the model.

## 3. What the runs check

Each run asks one component, or a few side by side, for what the rest of the
system takes for granted.

| Run | Instance | Shows |
|---|---|---|
| `sync` | 3 entries, pages of 2, batches of 1, 2 workers, 1 fault; five scenarios: a push with rejected entries, stores cleared and purged during a push, a pull and a push at once, two pulls at once, pulls while a key comes and goes | `IndInv`, the inductive invariant of section 4; `CursorComplete`: an entry the source holds at or before a saved cursor of the current epochs was stored or rejected by the target, or its key was withheld; `ReceiptsAgree`: stores that show a receipt of an entry show the same one |
| `transport` | 3 requests for 1 slot, 2 attempts, Retry-After of 0 and 3 ticks against a cap of 2, 2 faults, 1 cancellation; 2 stores and 3 callers in six token scenarios; a sync loop of 2 entries with 1 fault | `SlotsConserved`, `PauseHolds`, `CancelledSendsLittle`, `RequestsEnd`; `TokenSound`: an operation is sent under its own identity and a renewed token is used, outside two windows of section 3; `SyncsEnd`: every sync ends and repeated syncs bring every entry across |
| `files` | up to 2 attachments of 5 chunks, chunk size 2, faults; up to 3 revisions copied twice in batches of 2; a store of 3 entries with 2 calls at a time, 2 stops, 2 crashes, in six scenarios | `ReadsExact`, `NoForgottenChunks`, `UploadsSettle`; `CopyStandsAlone`; `AcknowledgedIsDurable`, `DiskAgrees`, `FeedHonest` |
| `docs` | 2 documents, up to 3 entries in a behaviour, 1 document in memory, lazy restore; ten scenarios | `CacheComplete`, `RecordComplete`, `FeedComplete`; `VisibleIffKey`: when nothing is under way, a document of the store is visible exactly when its key is there, outside the window `lost.keys` of section 3 |
| `server` | 2 clients, 3 tenants, 2 keys, 2 administrators, 3 entries, 2 purge requests, an upstream, restarts; eight scenarios | `ChallengeOnce`, `AccessSound`, `AcksKept`, `PurgesLast` |
| `directory` | 2 device keys, 2 grant and 2 group documents, 6 scenarios; 2 signers, 2 rules, 5 scenarios | `DirectoryCurrent`; `ChainIsReplay`, `AcceptedIsClosed` |
| `keys` | 3 devices, one of them locked, 7 scenarios; 2 keys, 2 databases and one of a past date, 3 scenarios | `KeysHeldByRight`, `SettledIsEnrolled`, `WritesBounded`; `KeyViewsCurrent` |
| `views` | 2 documents and the setup document, 2 contents, 3 changes; 2 flushes with 1 fault, 1 flush with 2, or a configuration set; a navigator over every tree of 2 documents | `ViewCurrent`: the tree, its counts and its totals are those of the documents shown, but for two counts of section 3; `SummaryCurrent`: the summary has what its cursor has passed and the view shows what it has applied, outside the windows of section 3; `NavigationAgrees` |
| `replica` | 2 tabs, 3 calls at a time, 3 entries, 1 lost connection, 2 databases under one name, old versions; histories of up to 4 entries of which 2 snapshots, clocks of 3 values, entries missing or late, 6 scopes | `ReportsHold`, `ContentAccounted`; `ImplementsStore`: every transaction of IndexedDB is a step of `AbstractStore` or a stutter; `HistoryAgrees`, `ConflictsReported`, `RevisionsExact` |

Every property has a mutant in `PROJECT.json`: a plausible slip in a mapped
definition under which the property fails.

The two ordinary documents of `views` may change places (`SYMMETRY`): they rank
alike, and a tree under a navigator has only one of them, next to the setup
document, which ranks behind it, so that either end of a level may be hidden.

Three runs exhibit disagreements between the code and what the repository says of
it; each is a finding:

| Run | What the code does |
|---|---|
| `unprocessed` (`PulledIsProcessed`) | a pull aborted before local processing leaves entries in the store that no later pull processes |
| `purge_restart` (`HeadCoversCursors`) | purging the newest entry and restarting lowers `maxReceiptOrder` within one epoch; a peer ahead of it skips what comes next |
| `deleted_distribution` (`DeletedIsDropped`) | a deleted document arrives as a tombstone without data, so that the test of its type fails before its deletion is looked at: a deleted distribution stays in the directory's caches |

### Windows

The models reach further states a reader of the docs would not expect. A
property that would fail there names the window, by a constant, by the scenarios
of its run or by a history variable, so that what it claims is what the code
keeps:

| Where | What happens |
|---|---|
| sync, after a lost reply | the client counts the entry as pushed and never gets its receipt |
| sync, two pushes of one entry | the second is answered with a receipt that is stored nowhere; a second witness stamps the entry again |
| sync, a push that read the denylist before a purge (`hist.excused` in `SyncServer`) | it stores an entry of the purged document |
| server, a store that fails in a purge (`hist.failed`) | it is logged and the request marked as processed; nothing retries it |
| server, two registrations with the key bag in hand (`hist.overlap`) | the later save drops the key of the earlier |
| server, two loads of one tenant, or an instance dropped, while a handler holds an older one (`hist.split`) | a write through it is not seen by the instance that requests are given |
| server, a purge after such a write (`hist.left`) | it erases what the index of its instance lists; the other entries of the document stay on the disk, and the request is marked as processed |
| server, a crash while the purge registry is written | the denylist and the processed requests are lost |
| disk, a migration or two segments of one millisecond (`migration`, `tick` in `upset`) | old segments, or segments replayed in another order, undo what the index said |
| disk, a crash between a receipt's file and its segment (`torn`) | names and count of the entries are right, so the restart believes the log: the index shows the old number and receipt, and the numbers of the files are given out again |
| disk, a purge beside a receipts call (`race`) | the receipts call writes the file of a purged entry again; or the snapshot that the purge took before is renamed over the newer one of the receipts call, whose segments are gone |
| disk, a put beside the purge of its document | its file is deleted while the put is about to return |
| disk, a purge interrupted after its metadata files | repeated, it finds nothing, and the payloads stay |
| browser, a connection closed during the backfill (`cut`) | the byte total may miss what was counted |
| transport, an identity borrowed while the store holds an authentication, in flight or over (`lent`) | the other user's token is handed over |
| transport, a store that joined another's authentication (`fresh`) | the finished promise is kept: after a loss of the tokens its operations get that token again, and are refused |
| docs, `RestoreToL2 = FALSE`; a write that awaits its put; a crash between the records of a flush (`lost.docs`, `lost.stale`) | an older cache record is served as current; entries applied meanwhile are missing from memory until the next load |
| docs, a record written from an apply while a load that read more is suspended | the load ends with less than the record it is compared with |
| docs, a load that is suspended while its key is withdrawn and returned (`lost.docs`) | it stores what it read before, without what was applied meanwhile |
| docs, a load that reads entries no sync has processed yet (`lost.early`) | the sync finds nothing new in the document and gives it no new `changeSeq` |
| docs, an author trusted while the key is away (`lost.unread`) | the document is healed without a new `changeSeq`; its consumer is not told |
| docs, `RestoreToL2 = FALSE`: a record newer than the checkpoint (`lost.early`) | it is restored, sync finds nothing new, the document stays out of the index |
| docs, a checkpoint written before a reconciliation that is due (`lost.keys`) | it keeps an index that does not match its keys; if the keys are those again at the next start, nothing is reconciled |
| docs, a consumer's cursor saved past a document whose key flips back (`lost.passed`, `lost.unread`) | after a restart the document is at a position the consumer has gone past, and is not read |
| docs, a key that goes or comes and is reconciled while a sync awaits a scan or a purge, or the new document, after it looked for the key (`lost.keys`) | the sync publishes a document whose key is gone, or hides one whose key is there, and nothing looks again |
| docs, a key that changes while the database is opened, after its fingerprint was compared or back to it (`lost.keys`) | the change reaches no open database, and the document keeps the visibility of the other key bag |
| docs, a document loaded into memory without the new entries while the sync indexes or hides it (`lost.docs`) | the cursor passes the entries, and memory does not have them |
| history, a snapshot that does not verify | the entries it covered are left out of the plan made with it |
| directory, a grant that must be loaded while it is revoked (`cold`) | an older pass puts the revoked key back |
| directory, a deleted group | its tombstone has no data either: the group that another device deleted stays in force until the caches are built anew |
| access, entries pushed together | they share a receipt time and are judged in the order of their ids |
| keys, a minter revoked before its document arrived; a caller that joins a reconciliation | the user key of a revoked device is adopted; the caller's own change is visited by the next run only |
| keys, an approval that met other generations than it took (`window.mixed`) | wraps are written by epoch number: after a concurrent rotation and a stale write of the whole field, a wrap opens to another generation's key |
| keys, a device that has not heard of a revocation (`window.unheard`) | it wraps a new generation for the revoked device, whatever rotated it; housekeeping drops the wrap later |
| attachments, `Overlap`, `Slow` | two appends continue from the same chunk; the sweep takes the chunks of a running upload |
| views, a category that was removed (`view.shed`) | it stays in the category counts of those above it |
| views, an average after a removal | the total is divided by the count that still has the document |
| summary, a flush that overlaps an update (`skew.disk`) | a bucket that turns dirty meanwhile is written empty, or its mark is cleared unwritten; the meta record has a later cursor than the buckets |
| summary, the first flush cut off after a bucket (`skew.disk`) | the next session restores nothing without a meta record and never rewrites that bucket; after a later flush the entry of a document deleted meanwhile comes back for good |
| summary, a flush cut off after a bucket, with a configuration or backfill the disk's meta record does not know (`skew.disk`) | if the old configuration returns, entries of the other count as its |
| summary, the configuration changes while a backfill runs (`skew.mem`) | the backfill goes on from where it is, and entries before that keep the old configuration |
| summary, a stopped update after a flush that was cut off (`skew.view`) | restored entries are ahead of the cursor; the view applies their `changeSeq` and never shows documents below it that are read later |

### Bounds

Two or three entries give several pages, and several batches per page, so that a
cursor can lie between, before and behind entries and a re-anchored entry can
pass it. One fault leaves every kind of partial state a call can leave; where a
retry follows (requests, uploads, disk) there are two. Two callers are enough
for any two handlers to overlap, and three for one to wait behind an overlap of
two (requests, token stores, calls on IndexedDB). One slot, one cached document
and one kept challenge put the limits within reach. Full and partial chunks
meet where appends start; four entries make the smallest graph with a merge below a
snapshot. Scenarios (`Budgets`, `Limits`, `Scopes`, `Installations`) split what
one state space cannot hold together, and each of them combines the actors of
one hazard. Bounds that stand in guards are `MaxEpoch`, `MaxFaults`, `MaxCalls`,
`MaxGen`, `MaxRetries`, `MaxOrder`, `MaxStops`, `MaxCrashes`, `MaxChallenges`,
`MaxInst`, `MaxTickets`, `MaxAtts`, `MaxEntries`, `MaxJobs`, `MaxSeq` and the
fields of the scenarios. `MaxTime` bounds clocks.

Deadlock is not checked in runs with scenarios: once a scenario is used up,
nothing more need happen. In `sync` it is checked.

### Fairness

`RequestsEnd` assumes that a request that can begin, enter the gate, be sent or be
woken does so, that a sent request settles (it has a timeout), and that time
goes on. `SyncsEnd` assumes weak fairness of each session's own steps, for the
same reasons (promises settle, the event loop runs every ready continuation),
and that the application calls the sync again whenever it is idle, which adds
nothing to the steps of a session. `UploadsSettle` assumes that the application calls
`reclaimIncompleteAttachmentUploads` again and again (nothing in the
core does), and that a sweep goes on once started. Callers, other clients, other tabs and faults are never assumed to do
anything.

## 4. What is proved

The theorems hold for every value of the constants: any number of entries,
stores, tabs, requests, clients and tenants, any budget of faults. They rest only
on the `ASSUME`s of the modules, which TLC evaluates in every run: sets that the
code iterates are finite, sizes and limits are numbers, the client is not a
witness, an entry has one document and author, and a budget is a record of
allowances. Two theorems about the on-disk
store have a hypothesis of their own, given below. `tlapm` checks every leaf.

| Theorem | States |
|---|---|
| `StoreOpsProofs!ScanIsComplete` | a page of `scanEntriesSince` has every entry after the cursor it starts from and up to the one it returns |
| `SyncProofs!TypeCorrect`, `Invariant`, `SyncNeverSkips` | `[]TypeOK`, `[]IndInv`, `[]CursorComplete` |
| `SyncProofs!GateInvariant`, `SlotsAreConserved`, `CancelledSendsAtMostOnce`, `PauseIsKept` | `[]HtInv`, `[]SlotsConserved`, `[]CancelledSendsLittle`, and the action property `PauseHolds` |
| `SyncProofs!TokensAreSound` | `[]TokenSound` |
| `BrowserStoreProofs!BrowserInvariant`, `ReportsLast`, `ContentIsAccounted` | `[]BsInv`, `[]ReportsHold`, `[]ContentAccounted` |
| `BrowserStoreProofs!BrowserStoreRefines` | `BsSpec => ImplementsStore`: the IndexedDB store implements `AbstractStore` |
| `SyncServerProofs!ServerInvariant`, `ChallengesYieldOnce`, `AccessIsSound`, `AcksAreKept`, `PurgesDoLast` | `[]SvInv`, and the four properties of the run `server` |
| `OnDiskStoreProofs!DiskTypes`, `AcknowledgedStays`, `PayloadsAreKept` | `[](TypeInv /\ upset \subseteq Upsets)`, `[]AcknowledgedIsDurable`, `[]PayloadsStay` |
| `OnDiskStoreProofs!FeedIsHonest` | `[]FeedHonest` |
| `KeyProofs!KeyBagInvariant`, `ViewsFollowBag` | `[](TypeOK /\ KbInv)`, `[]KeyViewsCurrent` |
| `KeyProofs!UserKeysInvariant`, `KeysAreHeldByRight` | `[]UkInv`, `[]KeysHeldByRight` |
| `DocReplayProofs!ReplayTypes`, `ReplayCacheComplete`, `ReplayRecordComplete`, `ReplayVisibleIffKey`, `ReplayFeedComplete` | `[]TypeOK`, and the four properties of the run `docs`, for the lazy and the eager restore |
| `SummaryProofs!SummaryInvariant`, `SummaryIsCurrent` | `[]SummaryInv`, `[]SummaryCurrent` |

None of the properties is inductive; each proof finds what a suspended handler
knows.

**Sync engine.** `CursorComplete` says nothing of the sessions that will save the
next cursor. `IndInv` adds what a session knows at each point. As long as both
stores are in the lineage whose heads the session holds (`Live`), its cursor is
covered; its page and its prefetched page contain every entry between their two
cursors that is not done; every id handed to the workers is done, out of the
scan's reach, or still under way, unless a batch failed. A reset takes the session
out of `Live` for ever, since epochs only grow, and the record it may still save
is not current. `...Kept` lemmas say which parts survive a write to the source or
the target, `...OK` lemmas how each step of the session re-establishes them, and
there is one `...Inv` lemma per action. They rest on the facts of
`StoreOpsProofs`: `putEntries` and `applyWitnessReceipts` only move entries behind
every position in use, and `ScanIsComplete`.

**Request gate.** `SlotsConserved` counts the owners of slots, which is only kept
if the queue is right: `QueueOK` says that it holds exactly the requests that
wait, each once. Then handing a slot over exchanges one owner for another, and
a waiter that is cancelled leaves without one. `CreditOK` bounds what a cancelled
request can still send by where it is and whether it listens; with `AttemptsOK`
it makes `CancelledSendsLittle` inductive. `PauseOK` (the pause lasts at least as
long as the server asked for) gives `PauseHolds`: a request is sent only when the
pause is over.

**Network stores.** `TokenSound` speaks of tokens at the moment they are used; `CsInv` of
everything they can come from. `CachesOK`: what a user's stores share is issued and
of that user, and an authentication in flight is held by the store that began it,
so that its end finds the promise it must clear. `WaitOK`: a caller waits for exactly what
its store holds. `OwnOK`: a store that is not in `lent` holds nothing of another
user, which covers the token that an authentication has yet to yield. `FreshOK`: from
the renewal on, neither its store nor its user holds a token that the server
dropped, whichever other store renews, joins or changes identity meanwhile. The three
ways an operation finds a token, an authentication or neither have a lemma each
(`AskHasToken`, `AskJoins`, `AskBegins`) over any caches, since a renewal asks with the caches it
has just cleared. When the ghosts were made exact TLC confirmed both windows:
even a finished promise hands over the other user's token.

**IndexedDB store.** `RefsExact` ties the reference count of every content to the
number of its entries; from that follows that a transaction which adds or drops
contents changes the byte total by their size. `ConnOK` says when the total may
be unknown: only to tabs about to compute it. `ReportsOK` speaks of calls that
have committed and not yet returned, `HeadsOK` of the epochs that heads have
named, since a database deleted by another tab starts a new lineage.

**Refinement.** `View` reads the abstract store from the database: an entry that
version 1 stored without number has the one the upgrade will give it. Opening,
losing and checking connections, the upgrade itself, the backfill and every read
stutter; each committed transaction is `AbsPut`, `AbsReceipts`, `AbsRemove`,
`AbsPurge` or `AbsClear`, and deletion of the database by another tab is
`AbsClear`. The proof has one step per action and uses `BsInv` in each. What is
proved of `StoreOps` is thereby what a caller of this store may rely on.

**Sync server.** `SvInv` has a part for each property and one for each kind of
suspended handler:

- `ChallengePart`: a handler between verification and token holds a challenge
  that is marked used, has yielded nothing and is held by no other.
- `GrantPart`: the instance that requests are given knows the grants on the disk,
  so a push that arrived without one is stopped at the gate.
- `AdminPart`: the configuration in force, and every one about to be written, has
  an administrator.
- `BagPart`: a handler alone with the key bag has what the file has.
- `HearPart`, `ServedPart`: who missed an event has one pending; what was
  acknowledged is on the disk and in the index of the instance handed out next,
  or was asked to be purged.
- `IndexPart`: as long as no write went to another instance, the index of the
  instance in use lists every entry on the disk.
- `RegistryPart`, `PurgePart`, `PushPart`: the file of the registry covers the
  processed requests; of the request in progress, the documents done are on the
  denylist, and erased unless a named window explains what is left (`Erased`); a push
  that arrived after that is refused before it stores. Only together do they show
  that a processed document stays gone: `PurgePart` alone does not survive a push
  that is about to store, and that a purge erases anything rests on `IndexPart`.

Its lemmas come per action: type, then each part that the action can disturb, in
the order of the handlers.

**On-disk store.** That an acknowledged entry survives is a statement about calls
that stopped half-way and about the next start. `DurInv` has five parts:

- `OneWriter`: one put or receipts call at a time, the write chain.
- `PutPart`: of the batch of a put, every entry is to do, in work or stored, and
  nothing is to do any more when the segment is written. So the call returns with all
  of them stored.
- `IncomingPart`: an entry with a file has its payload, and is in the index unless
  the writer is between the two. A crash in between leaves a file that the next
  start finds.
- `RebuiltIndex`: an index that was just loaded names exactly the entries with
  files. This holds whatever snapshot and log say, because
  `validatePersistedIndexCoverage` compares the names and otherwise rebuilds; so
  the proof needs nothing about the contents of either.
- `AckedPart`: file, payload and index entry of what was acknowledged, and no purge
  under way that is about it or still has its hash to delete.

`AcknowledgedStays` and `PayloadsAreKept` assume `PurgedStayOut`: documents that are
purged are not put, and no entry that is put shares its payload with one of theirs.
The scenarios of `files` keep to it, and without it both are false:
`purgeDocHistory` takes no part in the write chain, so it deletes the file of an entry
whose put is about to return, and looks for other users of a payload before a put
that writes no new payload has its metadata there. The server keeps to it by its
denylist, up to the window `hist.excused` of section 3, and random IVs make payloads
of two documents differ, unless a tenant chose deterministic ones for attachments.
Entries the store began with may share payloads with purged ones.

`FeedIsHonest` has no hypothesis: what it excludes is `upset`, and TLC confirmed of each
event that the property is false without it (of `race`, that `DiskAgrees` is). It needs
what `DurInv` could do without, the contents of snapshot and log. `FeedInv` says, while
`upset` is empty:

- `Running`: of a store that is up, the index is what the files say, except for the
  entry the writer has in work, whose file has a number beyond the index and beyond the
  peer's cursor; and the writer's records are what it has changed.
- `DiskFollows`: snapshot and log, replayed, say of each entry what the files say,
  except for what the writer has yet to log. Replaying is settled by the last segment
  written about an entry, because their times increase (`InOrder`). A new entry that is
  not logged is unknown to the disk, so a crash leaves names that do not match
  and the next start rebuilds; receipts that are not logged are the event `torn`.
- the same of a compaction that has yet to write its snapshot, which is right by the
  time it is written because the writer is alone (`Alone`), and of the segments it has
  not deleted yet, which may all be replayed onto the new snapshot.
- `Booting`: a start ends with an index that equals the files, whether it believed
  snapshot and log or rebuilt.
- `PeerHas`, `PeerKept`, `EpochKept`: the peer has what lies at or before its cursor, and
  some file has at least the cursor's number. The counter recomputed at the next start is
  therefore beyond the cursor; a purge is what breaks this, and is the finding of
  section 3.

**Key bag.** `KeyViewsCurrent` speaks of moments when the feed is consumed; `KbInv` says
what is owed at all others. For each key an open database shows its documents as the
bag says (`Agrees`), or an event of the key lies beyond what is consumed
(`Unconsumed`), or the reconciliation under way will visit the key in that database
(`Due`). Consuming an event turns `Unconsumed` into `Due` for all databases, since the
cursor moves before any is visited; visiting turns `Due` into `Agrees`; a change of
the bag turns `Agrees` into `Unconsumed`. The cached default key has the same shape
(`CachedPart`): it is empty, newest, or its event is pending. That part is needed for
the views, because `hasDecryptionKey` believes the cache: a database visited between
the removal of the default key and its event shows it once more. A database
that is being opened is in nobody's list, so it must agree outright or be counted
in `missed`. `FollowedPart` ties distributions to the bag. It holds for any number
of keys, databases and changes, whatever other tenants write to the feed.

**User keys.** The document is merged field by field and read by operations that write
later, so `WrapsOpenTheirKey` and `NoUninvitedHolder` of the replicas are not
inductive: a rotation, an approval or the removal of revoked wraps puts back generations it took
long ago. `UkInv` therefore says `Honest` (each wrap is of its own generation's key
and of a device that may have it) of the replicas and the server's copy
(`ReplicaPart`) and of every list of generations that a suspended
reconciliation or operation holds (`TakenPart`); the pair of a device is one it may
own (`PairPart`). Who may is a matter of two things: being entitled, and no cut of
a rotation (`CutHolds`). A rotation under way records its cut when it makes the new key, before
the generation exists, and what its device knows of revocations only
grows until it writes (`RotationPart`, `HeardPart`). A reconcile is a pipeline of operators on
one record; `Sound` is what each hands to the next, with one lemma per operator
(`EnsureLocalSound` ... `EnrolSound`), and `Reachable` names the wraps that may be new in
it. The proof showed that the founder of a key is entitled by its own wrap, and
TLC the two windows of `window`; the scenario with a rotation, a revocation and an
approval was added to the run for them. The lemmas on `Min` and `Max` rest on the
well-founded order of the natural numbers.

**Document replay.** One cursor vouches for copies in five places: memory, the records,
the checkpoint, the local variables of suspended handlers and what the consumer
has read. `CopiesInv` says of each document not in `lost` what each place must
contain:

- `CachePart`, `RecordPart`: memory, and a record the index declares current, hold
  every entry the cursor has passed (`Seen`), or its author is pending or about to be healed
  (`Noted`).
- `CoverPart`: what memory has beyond such a record, the cursor has passed.
- `SyncPart`, `OpPart`: the same of the result an apply, a load or a write is
  about to store, unless the handler was overtaken (`touched`).
- `SeqPart`, `HomePart`: changeSeqs lie below `next`, and entries are kept with their document.
- `MetaInv`: the saved checkpoint, its cursor and its pending authors keep the
  same promise to the records, because a restart makes them the database. That
  part is why `CacheComplete` alone is not inductive even with the handlers' parts:
  an eviction or a flush changes records that an older checkpoint vouches for.

`VisInv` adds when a document is visible: exactly when its key is there, or
another look at the key is still to come (`Awaited`): the pass under way has not
visited it or is about to hide it, another pass will follow, or the database is being
opened with another key bag than that of its checkpoint (`Rekeying`). `ReconInv` says
what a suspended pass may be about to do, so that a document it hides has no key or will be looked
at again, and `MetaVis` the same of the checkpoint and its fingerprint. A sync that
writes the index on an old answer either leaves `Awaited` to repair it or meets
`lost.keys`. `FeedInv` adds the consumer. The changeSeqs of two documents
differ (`SeqInv`), so that a position of the cursor is that of one document; of a
document it has caught up with, the consumer has read what was passed (`ReadPart`),
and what memory has beyond that was passed later (`ReadCover`), since a handler that
finds nothing new gives no new changeSeq. The parts are stated twice, for the
consumer that runs (`"live"`) and for the cursor it saved (`"saved"`), which comes
back with the checkpoint after a restart (`MetaFeed`). Each action has one lemma
about its effect, which names the few documents it disturbs; lemmas `...Keeps`,
`...Visible` and `...Feed` derive the three invariants from it. While the parts were being
proved TLC showed six of the windows of section 3, which `lost` now names.

**Summary.** `Complete` is said of three things, with the same words: the entries in
memory and their cursor (`MemPart`), what a flush has collected (`OutPart`) and the
disk (`DiskPart`), which is complete up to its own meta record, if nothing tore it.
A bucket of a later flush may be on the disk before its meta record: it is complete up to
a cursor at least as high. `Ordered` says what a run has in front of it: every
change after its cursor is in `todo`, or is `New`, later than all that the summary,
the run and the view know of. Hence a document that changes during the run is
extracted early, under the number it had, and met again under the new one. `NoneAhead`
(every change up to the highest entry is read) is what lets the view skip to that entry;
it holds when a run has ended, and is lost when a run is stopped with restored entries
ahead of its cursor. The attempt at the proof showed that the former bounds (one
flush or one fault) hid the four later windows of the summary in section 3.

## 5. What is not proved, and what is not modelled

Only model-checked:

- **Liveness and `ENABLED`.** `RequestsEnd`, `SyncsEnd`, `UploadsSettle`: the proof
  system has no rules for fairness that the installed provers support.
- **Induction over data.** The library's induction rules and its rule for recursive
  functions take an operator as parameter, which the installed provers cannot
  instantiate. The least-number principle can be had from the well-founded order of
  the naturals (`LeastExists` in `KeyProofs`), but not that a recursive definition
  has a value. So
  the plans, slices, lanes and merges of `DocDag` and `DocHistory`, the chains of
  `Attachments` and `DocCopy`, the state chain of `AccessControl`, the tree of
  `VirtualView` and the moves of `ViewNavigator` are checked against reference
  definitions over bounded inputs.
- **Not attempted yet**: `ReceiptsAgree` (it relates the receipts in transit of all
  sessions, and holds for one push at a time only), `DiskAgrees` of
  `OnDiskStore` (where documents were purged; `FeedIsHonest` covers its agreement of
  index and files where none was), `SettledIsEnrolled` and `WritesBounded` of `UserKeys`
  (they speak of a fixed point of the reconcile and count writes), and the property
  of `Directory`.

Not modelled: the full-text index (its consumption of the changefeed is that of the
summary), queries and expressions (pure evaluation), dense sync and the sync path
for stores without cursor scan (a second way to the same transfer, without saved
cursors), tenant set-up, device discovery, rate limits and configuration (straight
checks around the handlers), cryptography, encodings and compression, and
platform adapters. Within modelled parts: several processes on one directory,
the on-disk store without its index, `clearAllLocalData` on disk, several
upstreams of one server, a merge of user keys while a reconcile wraps them, reader lists and column formats of views, dependent
documents of `copyDocuments`. The notes of the components say more.

## 6. Plan

1. `OnDiskStore`: `DiskAgrees`. It needs `FeedInv` for two writers of the log at a time,
   since a purge compacts beside a put.
2. `OnDiskStore` as an implementation of `AbstractStore` between crashes.
