------------------------------ MODULE StoreSync ------------------------------
(***************************************************************************)
(* Synchronisation of one client database with its sync servers:           *)
(* pullChangesFrom and pushChangesTo of BaseMindooDB, both of which run    *)
(* syncEntriesFromStore from a source to a target store.                   *)
(*                                                                         *)
(* A sync session scans the source page by page in receiptOrder, asks the  *)
(* target which ids it lacks (a Bloom summary first, then hasEntries),     *)
(* transfers those in batches by a few parallel workers, copies the        *)
(* witness receipts a server returns back onto the source, and at the end  *)
(* saves the scan cursor with the epochs of both stores.  The next session *)
(* of the pair resumes at that cursor, or skips when the source head does  *)
(* not exceed it.  Every await of the code is a step boundary here; other  *)
(* sessions, other writers, purges, resets, aborts, failures and a restart *)
(* of the client happen in between.                                        *)
(***************************************************************************)
EXTENDS StoreOps

CONSTANTS
    Stores,         \* the client's store and the servers' stores
    Client,         \* the store of the client database
    Sessions,       \* pull and push calls the client may have in flight
    Src, Tgt,       \* source and target store of each session
    PageSize,       \* SyncOptions.pageSize
    BatchSize,      \* SyncOptions.transferBatchSize
    MaxConcurrent,  \* SyncOptions.maxConcurrentBatches
    Legacy,         \* entries a server does not stamp (no entryVersion)
    Untrusted,      \* entries whose author a server may not (yet) trust
    Revocable,      \* entries under a key the client may lose and regain
    Purgeable,      \* documents that may be purged
    MaxEpoch,       \* bound: a store is reset at most MaxEpoch - 1 times
    MaxFaults       \* bound: failures, aborts and restarts in a behaviour

ASSUME StoresAssumption ==
    Client \in Stores /\ Witnesses \subseteq Stores \ {Client}
ASSUME SessionsAssumption == Src \in [Sessions -> Stores] /\ Tgt \in [Sessions -> Stores]
ASSUME SizesAssumption ==
    PageSize \in Nat \ {0} /\ BatchSize \in Nat \ {0} /\ MaxConcurrent \in Nat \ {0}
ASSUME EntriesAssumption ==
    Legacy \subseteq Ids /\ Untrusted \subseteq Ids /\ Revocable \subseteq Ids
    /\ Purgeable \subseteq Docs
ASSUME BoundsAssumption == MaxEpoch \in Nat /\ MaxFaults \in Nat

VARIABLES
    stores,     \* every store (StoreOps)
    cursors,    \* syncScanCursors: the saved cursor of each (source, target) pair
    saved,      \* the cursors in the client's last metadata checkpoint
    ss,         \* the local variables of each sync session
    processed,  \* entries the client has brought into its index
    denied,     \* documents each server has purged and refuses from then on
    revoked,    \* entries the servers currently withhold from the client
    faults,     \* failures so far
    created,    \* history: entries written so far
    settled,    \* history: entries each store has stored or rejected in its epoch
    withheld    \* history: entries that were revoked at some time

vars == <<stores, cursors, saved, ss, processed, denied, revoked, faults,
          created, settled, withheld>>
environment == <<denied, revoked, created, withheld>>

-----------------------------------------------------------------------------
(* Types and initial state                                                 *)

Pairs == {<<Src[x], Tgt[x]>> : x \in Sessions}
Pair(x) == <<Src[x], Tgt[x]>>

\* A saved cursor; no real epoch is 0
Record == [srcEpoch : Nat, tgtEpoch : Nat, cursor : Cursor]
NoRecord == [srcEpoch |-> 0, tgtEpoch |-> 0, cursor |-> StartCursor]

HeadSet == [epoch : Nat, max : Nat]
NoHead == [epoch |-> 0, max |-> 0]

NoScan == [entries |-> {}, nextCursor |-> StartCursor, hasMore |-> FALSE]

\* The part of a scanned page inside the scan bound, where the cursor goes
\* once the page is done, and whether the scan ends there
Page == [ids : SUBSET Ids, end : Cursor, final : BOOLEAN]
NoPage == [ids |-> {}, end |-> StartCursor, final |-> FALSE]

\* A transfer batch: its ids, the entries that getEntries returned (at the
\* server: those it is about to store), and the receipts that came with these
\* entries or that the server's reply will carry
Batch == [ids : SUBSET Ids, phase : {"get", "put", "store", "ack"}, got : SUBSET Ids,
          receipts : [Ids -> Receipts]]
NoReceipts == [i \in Ids |-> NoReceipt]

Session ==
    [pc : {"idle", "heads", "resume", "bloom", "scan", "filter", "transfer", "process"},
     held : Record,           \* the saved cursor read when the session began
     sh : HeadSet, th : HeadSet, \* source and target head
     shRead : BOOLEAN, thRead : BOOLEAN,
     cursor : Cursor,         \* everything up to here has been transferred
     bloom : SUBSET Ids,      \* ids the target's Bloom summary may contain
     page : Page, ahead : Scan,
     todo : SUBSET Ids, work : SUBSET Batch,
     sent : SUBSET Ids,       \* transferredThisSync
     moved : BOOLEAN,         \* transferred > 0, of interest to a pull
     failed : BOOLEAN,        \* firstError
     aborted : BOOLEAN]       \* signal.aborted

Idle == [pc |-> "idle", held |-> NoRecord, sh |-> NoHead, th |-> NoHead,
         shRead |-> FALSE, thRead |-> FALSE, cursor |-> StartCursor, bloom |-> {},
         page |-> NoPage, ahead |-> NoScan, todo |-> {}, work |-> {}, sent |-> {},
         moved |-> FALSE, failed |-> FALSE, aborted |-> FALSE]

TypeOK ==
    /\ stores \in [Stores -> Store]
    /\ cursors \in [Pairs -> Record]
    /\ saved \in [Pairs -> Record]
    /\ ss \in [Sessions -> Session]
    /\ processed \subseteq Ids
    /\ denied \in [Stores -> SUBSET Docs]
    /\ revoked \subseteq Ids
    /\ faults \in Nat
    /\ created \subseteq Ids
    /\ settled \in [Stores -> SUBSET Ids]
    /\ withheld \subseteq Ids

Init ==
    /\ stores = [s \in Stores |-> EmptyStore(1)]
    /\ cursors = [p \in Pairs |-> NoRecord]
    /\ saved = cursors
    /\ ss = [x \in Sessions |-> Idle]
    /\ processed = {}
    /\ denied = [s \in Stores |-> {}]
    /\ revoked = {}
    /\ faults = 0
    /\ created = {}
    /\ settled = [s \in Stores |-> {}]
    /\ withheld = {}

-----------------------------------------------------------------------------
(* The rest of the world                                                   *)

\* The receipt store t gives, at time now, to entry i that arrives with r
Stamp(t, i, r, now) ==
    IF t \in Witnesses /\ i \notin Legacy THEN [by |-> t, at |-> now] ELSE r

\* handlePutEntries throws for the whole batch: it has an entry of a purged
\* document or of a key the client has lost
Refuses(t, S) ==
    t \in Witnesses /\ \E i \in S : DocOf[i] \in denied[t] \/ i \in revoked

\* A new entry: the client's own write, or the write of some other client
\* that a server accepts and stamps.  The client indexes its own writes.
CreateEntry(s, i) ==
    /\ i \notin created
    /\ DocOf[i] \notin denied[s]
    /\ \E now \in Times :
         stores' = [stores EXCEPT ![s] =
                      PutEntries(@, {i}, [j \in Ids |-> Stamp(s, j, NoReceipt, now)],
                                 [j \in {i} |-> 1])]
    /\ created' = created \cup {i}
    /\ settled' = [settled EXCEPT ![s] = @ \cup {i}]
    /\ processed' = IF s = Client THEN processed \cup {i} ELSE processed
    /\ UNCHANGED <<cursors, saved, ss, denied, revoked, faults, withheld>>

\* purgeDocHistory.  A server first puts the document on its denylist.
PurgeDoc(s, d) ==
    /\ \E i \in Stored(stores[s]) : DocOf[i] = d
    /\ stores' = [stores EXCEPT ![s] = PurgeDocHistory(@, d)]
    /\ denied' = IF s \in Witnesses THEN [denied EXCEPT ![s] = @ \cup {d}] ELSE denied
    /\ UNCHANGED <<cursors, saved, ss, processed, revoked, faults, created,
                   settled, withheld>>

\* clearAllLocalData
ClearStore(s) ==
    /\ stores[s].epoch < MaxEpoch
    /\ stores[s].next > 1
    /\ stores' = [stores EXCEPT ![s] = ClearAllLocalData(@)]
    /\ settled' = [settled EXCEPT ![s] = {}]
    /\ processed' = IF s = Client THEN {} ELSE processed
    /\ UNCHANGED <<cursors, saved, ss, faults, environment>>

\* The client loses, and may regain, the key of an entry
Revoke(i) ==
    /\ i \in Revocable \ withheld
    /\ revoked' = revoked \cup {i}
    /\ withheld' = withheld \cup {i}
    /\ UNCHANGED <<stores, cursors, saved, ss, processed, denied, faults, created, settled>>

Grant(i) ==
    /\ i \in revoked
    /\ revoked' = revoked \ {i}
    /\ UNCHANGED <<stores, cursors, saved, ss, processed, denied, faults, created,
                   settled, withheld>>

\* What the source serves to the client: a server withholds revoked entries,
\* from pages (handleScanEntriesSince) as from payloads (handleGetEntries)
Served(s, S) == IF s \in Witnesses THEN S \ revoked ELSE S

-----------------------------------------------------------------------------
(* A sync session                                                          *)

StoresUnchanged == UNCHANGED <<stores, settled>>
OthersUnchanged == UNCHANGED <<saved, faults, environment>>

\* The session ends; with c it leaves the saved cursors as persistScanCursor
\* does: nothing is saved without both heads or at the start of the scan.
PersistScanCursor(x, c) ==
    cursors' = IF c # StartCursor /\ ss[x].sh # NoHead /\ ss[x].th # NoHead
               THEN [cursors EXCEPT ![Pair(x)] =
                       [srcEpoch |-> ss[x].sh.epoch, tgtEpoch |-> ss[x].th.epoch,
                        cursor |-> c]]
               ELSE cursors
EndSession(x) == ss' = [ss EXCEPT ![x] = Idle]

\* pullChangesFrom or pushChangesTo is called; the persisted record is read
\* before the heads are awaited.
Start(x, force) ==
    /\ ss[x].pc = "idle"
    /\ ss' = [ss EXCEPT ![x] = [Idle EXCEPT !.pc = "heads",
                 !.held = IF force THEN NoRecord ELSE cursors[Pair(x)]]]
    /\ UNCHANGED <<cursors, processed>> /\ StoresUnchanged /\ OthersUnchanged

\* getStoreHeadSafe for either side; a failed request yields no head
FetchSourceHead(x) ==
    /\ ss[x].pc = "heads" /\ ~ss[x].shRead
    /\ \E h \in {StoreHead(stores[Src[x]])} \cup (IF faults < MaxFaults THEN {NoHead} ELSE {}) :
         /\ ss' = [ss EXCEPT ![x].sh = h, ![x].shRead = TRUE]
         /\ faults' = IF h = NoHead THEN faults + 1 ELSE faults
    /\ UNCHANGED <<cursors, processed, saved, environment>> /\ StoresUnchanged

FetchTargetHead(x) ==
    /\ ss[x].pc = "heads" /\ ~ss[x].thRead
    /\ \E h \in {StoreHead(stores[Tgt[x]])} \cup (IF faults < MaxFaults THEN {NoHead} ELSE {}) :
         /\ ss' = [ss EXCEPT ![x].th = h, ![x].thRead = TRUE]
         /\ faults' = IF h = NoHead THEN faults + 1 ELSE faults
    /\ UNCHANGED <<cursors, processed, saved, environment>> /\ StoresUnchanged

HeadsRead(x) == ss[x].pc = "heads" /\ ss[x].shRead /\ ss[x].thRead
HoldsCursor(x) == ss[x].held # NoRecord /\ ss[x].sh # NoHead /\ ss[x].th # NoHead
SameLineage(x) == /\ ss[x].held.srcEpoch = ss[x].sh.epoch
                  /\ ss[x].held.tgtEpoch = ss[x].th.epoch
NothingNew(x) == ss[x].sh.max <= ss[x].held.cursor.order

\* The source head is covered by the saved cursor: the sync is over
SkipSync(x) ==
    /\ HeadsRead(x) /\ HoldsCursor(x) /\ SameLineage(x) /\ NothingNew(x)
    /\ EndSession(x)
    /\ UNCHANGED <<cursors, processed>> /\ StoresUnchanged /\ OthersUnchanged

\* The scan resumes at the saved cursor
ResumeScan(x) ==
    /\ HeadsRead(x) /\ HoldsCursor(x) /\ SameLineage(x) /\ ~NothingNew(x)
    /\ ss' = [ss EXCEPT ![x].pc = "bloom", ![x].cursor = ss[x].held.cursor]
    /\ UNCHANGED <<cursors, processed>> /\ StoresUnchanged /\ OthersUnchanged

\* A full scan: no usable record, or one of another lineage, which is deleted
FullScan(x) ==
    /\ HeadsRead(x) /\ ~(HoldsCursor(x) /\ SameLineage(x))
    /\ ss' = [ss EXCEPT ![x].pc = "bloom", ![x].cursor = StartCursor]
    /\ cursors' = IF HoldsCursor(x) THEN [cursors EXCEPT ![Pair(x)] = NoRecord] ELSE cursors
    /\ UNCHANGED processed /\ StoresUnchanged /\ OthersUnchanged

\* getStoreBloomSummary of the target, once per session: no false negatives,
\* any false positives; a missing summary is one that may contain every id.
FetchBloom(x) ==
    /\ ss[x].pc = "bloom"
    /\ \E B \in SUBSET Ids :
         /\ Stored(stores[Tgt[x]]) \subseteq B
         /\ ss' = [ss EXCEPT ![x].pc = "scan", ![x].bloom = B]
    /\ UNCHANGED <<cursors, processed>> /\ StoresUnchanged /\ OthersUnchanged

\* scanEntriesSince as the client sees it: the server drops withheld entries
\* from the page it has read, the cursor advances over them.
ServedScan(s, c) ==
    LET p == ScanEntriesSince(stores[s], c, PageSize)
    IN  [entries |-> {e \in p.entries : e.id \in Served(s, Ids)},
         nextCursor |-> p.nextCursor, hasMore |-> p.hasMore]

\* Fault: the cursor passes the entries that are left for the next sync
ClampUnbounded(q, p) ==
    LET in == {e \in p.entries : q.sh = NoHead \/ e.order <= q.sh.max}
    IN  [ids |-> {e.id : e \in in}, end |-> p.nextCursor,
         final |-> in # p.entries \/ ~p.hasMore]

\* The clamped page: entries beyond the source head read at the start are
\* left for the next sync, and end the scan.
Clamp(q, p) ==
    LET in == {e \in p.entries : q.sh = NoHead \/ e.order <= q.sh.max}
        bounded == in # p.entries
    IN  [ids |-> {e.id : e \in in},
         end |-> IF bounded THEN LastOf(in, q.cursor)
                            ELSE p.nextCursor,
         final |-> bounded \/ ~p.hasMore]

\* The next page of the scan: the prefetched one, if its request was served
NextPage(x) ==
    /\ ss[x].pc = "scan" /\ ~ss[x].aborted
    /\ LET p == IF ss[x].ahead # NoScan THEN ss[x].ahead
                ELSE ServedScan(Src[x], ss[x].cursor)
       IN  ss' = [ss EXCEPT ![x].pc = "filter", ![x].page = Clamp(ss[x], p),
                            ![x].ahead = NoScan]
    /\ UNCHANGED <<cursors, processed>> /\ StoresUnchanged /\ OthersUnchanged

\* The request for the following page is served while this one is in work
Prefetch(x) ==
    /\ ss[x].pc \in {"filter", "transfer"} /\ ~ss[x].page.final
    /\ ss[x].ahead = NoScan
    /\ ss' = [ss EXCEPT ![x].ahead = ServedScan(Src[x], ss[x].page.end)]
    /\ UNCHANGED <<cursors, processed>> /\ StoresUnchanged /\ OthersUnchanged

\* Fault: a hit in the Bloom summary is taken for an entry the target has
BloomMissing(x) == (ss[x].page.ids \ ss[x].sent) \ ss[x].bloom

\* filterMissingIds: ids the Bloom summary excludes are missing, the others
\* are asked for with hasEntries.
MissingIds(x) ==
    LET ids == ss[x].page.ids \ ss[x].sent
    IN  ids \ HasEntries(stores[Tgt[x]], ids \cap ss[x].bloom)

FilterMissing(x) ==
    /\ ss[x].pc = "filter" /\ ~ss[x].aborted
    /\ ss' = [ss EXCEPT ![x].pc = "transfer", ![x].todo = MissingIds(x),
                        ![x].sent = @ \cup MissingIds(x)]
    /\ UNCHANGED <<cursors, processed>> /\ StoresUnchanged /\ OthersUnchanged

\* A worker takes the next slice of the missing ids
TakeBatch(x) ==
    /\ ss[x].pc = "transfer" /\ ~ss[x].aborted /\ ~ss[x].failed
    /\ Cardinality(ss[x].work) < MaxConcurrent
    /\ \E B \in SUBSET ss[x].todo :
         /\ B # {}
         /\ Cardinality(B) = BatchSize \/ (Cardinality(B) < BatchSize /\ B = ss[x].todo)
         /\ ss' = [ss EXCEPT ![x].todo = @ \ B,
                     ![x].work = @ \cup {[ids |-> B, phase |-> "get",
                                          got |-> {}, receipts |-> NoReceipts]}]
    /\ UNCHANGED <<cursors, processed>> /\ StoresUnchanged /\ OthersUnchanged

Replace(x, b, c) == (ss[x].work \ {b}) \cup {c}

\* sourceStore.getEntries returns those of the ids it still has and serves
GetBatch(x, b) ==
    /\ b.phase = "get"
    /\ LET S == Served(Src[x], HasEntries(stores[Src[x]], b.ids))
       IN  ss' = [ss EXCEPT ![x].work = Replace(x, b,
                    [b EXCEPT !.phase = "put", !.got = S,
                              !.receipts = stores[Src[x]].receipt])]
    /\ UNCHANGED <<cursors, processed>> /\ StoresUnchanged /\ OthersUnchanged

\* targetStore.putEntries at a server, first half of handlePutEntries: the
\* denylists and the clock are read, entries the store has by now will be
\* acknowledged with their stored receipt, entries of authors it does not
\* trust may be rejected, the others are validated and stamped.
ReceiveBatch(x, b) ==
    LET t == Tgt[x]
        new == NewIn(stores[t], b.got)
    IN  /\ b.phase = "put" /\ t \in Witnesses
        /\ ~Refuses(t, b.got)
        /\ \E rej \in SUBSET (new \cap Untrusted), now \in Times :
             LET ack(i) == CASE i \in new \ rej -> Stamp(t, i, b.receipts[i], now)
                             [] i \in b.got \ new -> stores[t].receipt[i]
                             [] OTHER -> NoReceipt
             IN  /\ ss' = [ss EXCEPT ![x].work = Replace(x, b,
                             [b EXCEPT !.phase = "store", !.got = new \ rej,
                                       !.receipts = [i \in Ids |-> ack(i)]])]
                 /\ settled' = [settled EXCEPT ![t] = @ \cup rej]
        /\ UNCHANGED <<stores, cursors, processed>> /\ OthersUnchanged

\* Fault: the clock is read again for the copy that is stored
PutBatchRestamps(x, b) ==
    LET t == Tgt[x]
    IN  /\ b.phase = IF t \in Witnesses THEN "store" ELSE "put"
        /\ \E rank \in Ranking(NewIn(stores[t], b.got)), now \in Times :
             stores' = [stores EXCEPT ![t] =
                PutEntries(@, b.got, [i \in Ids |-> Stamp(t, i, b.receipts[i], now)], rank)]
        /\ settled' = [settled EXCEPT ![t] = @ \cup b.got]
        /\ ss' = [ss EXCEPT ![x].work = Replace(x, b, [b EXCEPT !.phase = "ack"])]
        /\ UNCHANGED <<cursors, processed>> /\ OthersUnchanged

\* The entries are stored: the second half of handlePutEntries, which replies
\* with the receipts prepared before, or putEntries of a local store, which
\* takes the entries as they are and returns none.  The worker gets the reply
\* of a server, or loses it.
PutBatch(x, b) ==
    LET t == Tgt[x]
        remote == t \in Witnesses
    IN  /\ b.phase = IF remote THEN "store" ELSE "put"
        /\ \E rank \in Ranking(NewIn(stores[t], b.got)) :
             stores' = [stores EXCEPT ![t] = PutEntries(@, b.got, b.receipts, rank)]
        /\ settled' = [settled EXCEPT ![t] = @ \cup b.got]
        /\ \/ /\ ss' = [ss EXCEPT
                    ![x].work = Replace(x, b, [b EXCEPT !.phase = "ack",
                                  !.receipts = IF remote THEN @ ELSE NoReceipts]),
                    ![x].moved = @ \/ b.got # {}]
              /\ UNCHANGED faults
           \/ /\ faults < MaxFaults /\ remote
              /\ faults' = faults + 1
              /\ ss' = [ss EXCEPT ![x].work = @ \ {b}, ![x].failed = TRUE]
        /\ UNCHANGED <<cursors, processed, saved, environment>>

\* sourceStore.applyWitnessReceipts with the receipts of the reply
ApplyReceipts(x, b) ==
    /\ b.phase = "ack"
    /\ \E rank \in Ranking(ReanchoredBy(stores[Src[x]], b.receipts)) :
         stores' = [stores EXCEPT ![Src[x]] = ApplyWitnessReceipts(@, b.receipts, rank)]
    /\ ss' = [ss EXCEPT ![x].work = @ \ {b}]
    /\ UNCHANGED <<cursors, processed, settled>> /\ OthersUnchanged

\* A batch is given up: the signal was seen after getEntries, or the server
\* refused the whole batch.
DropBatch(x, b) ==
    /\ b.phase = "put"
    /\ ss[x].aborted \/ Refuses(Tgt[x], b.got)
    /\ ss' = [ss EXCEPT ![x].work = @ \ {b}, ![x].failed = TRUE]
    /\ UNCHANGED <<cursors, processed>> /\ StoresUnchanged /\ OthersUnchanged

\* A request fails before it changed anything
FailBatch(x, b) ==
    /\ b.phase \in {"get", "put", "store"} /\ faults < MaxFaults
    /\ faults' = faults + 1
    /\ ss' = [ss EXCEPT ![x].work = @ \ {b}, ![x].failed = TRUE]
    /\ UNCHANGED <<cursors, processed, saved, environment>> /\ StoresUnchanged

PageDone(x) == /\ ss[x].pc = "transfer" /\ ss[x].todo = {} /\ ss[x].work = {}
               /\ ~ss[x].failed /\ ~ss[x].aborted

\* Fault: the cursor does not advance with the page
EndPageStuck(x) ==
    /\ PageDone(x) /\ ~ss[x].page.final
    /\ ss' = [ss EXCEPT ![x].pc = "scan", ![x].page = NoPage, ![x].ahead = NoScan]
    /\ UNCHANGED <<cursors, processed>> /\ StoresUnchanged /\ OthersUnchanged

\* The page is done and there are more
EndPage(x) ==
    /\ PageDone(x) /\ ~ss[x].page.final
    /\ ss' = [ss EXCEPT ![x].pc = "scan", ![x].cursor = ss[x].page.end,
                        ![x].page = NoPage]
    /\ UNCHANGED <<cursors, processed>> /\ StoresUnchanged /\ OthersUnchanged

\* The scan is done.  A pull that transferred something processes it.
EndScan(x) ==
    /\ PageDone(x) /\ ss[x].page.final
    /\ PersistScanCursor(x, ss[x].page.end)
    /\ IF Tgt[x] = Client /\ ss[x].moved
       THEN ss' = [ss EXCEPT ![x] = [Idle EXCEPT !.pc = "process"]]
       ELSE EndSession(x)
    /\ UNCHANGED processed /\ StoresUnchanged /\ OthersUnchanged

\* syncStoreChanges after a pull, unless the signal is seen first
ProcessPulled(x) ==
    /\ ss[x].pc = "process"
    /\ processed' = IF ss[x].aborted THEN processed
                    ELSE processed \cup Stored(stores[Client])
    /\ EndSession(x)
    /\ UNCHANGED cursors /\ StoresUnchanged /\ OthersUnchanged

\* The session sees the abort signal, between pages or once its workers have
\* stopped: the cursor of the last complete page is saved.
CancelSync(x) ==
    /\ ss[x].aborted /\ ss[x].work = {}
    /\ ss[x].pc \in {"scan", "filter", "transfer"}
    /\ PersistScanCursor(x, ss[x].cursor)
    /\ EndSession(x)
    /\ UNCHANGED processed /\ StoresUnchanged /\ OthersUnchanged

\* A batch failed: once the other workers have stopped the sync throws
ThrowError(x) ==
    /\ ss[x].failed /\ ss[x].work = {} /\ ~ss[x].aborted
    /\ EndSession(x)
    /\ UNCHANGED <<cursors, processed>> /\ StoresUnchanged /\ OthersUnchanged

\* A request outside the transfer fails: the sync throws
FailSync(x) ==
    /\ ss[x].pc \in {"bloom", "scan", "filter"} /\ faults < MaxFaults
    /\ faults' = faults + 1
    /\ EndSession(x)
    /\ UNCHANGED <<cursors, processed, saved, environment>> /\ StoresUnchanged

\* The caller aborts
Abort(x) ==
    /\ ss[x].pc # "idle" /\ ~ss[x].aborted /\ faults < MaxFaults
    /\ faults' = faults + 1
    /\ ss' = [ss EXCEPT ![x].aborted = TRUE]
    /\ UNCHANGED <<cursors, processed, saved, environment>> /\ StoresUnchanged

\* The metadata checkpoint is written
Checkpoint ==
    /\ saved # cursors
    /\ saved' = cursors
    /\ UNCHANGED <<stores, cursors, ss, processed, faults, settled, environment>>

\* The client process ends and is started again: sessions are gone, cursors
\* are those of the checkpoint, initialize runs syncStoreChanges.
Restart ==
    /\ faults < MaxFaults
    /\ faults' = faults + 1
    /\ ss' = [x \in Sessions |-> Idle]
    /\ cursors' = saved
    /\ processed' = Stored(stores[Client])
    /\ UNCHANGED <<stores, saved, settled, environment>>

-----------------------------------------------------------------------------
BatchStep(x) ==
    \E b \in ss[x].work :
        \/ GetBatch(x, b) \/ ReceiveBatch(x, b) \/ PutBatch(x, b)
        \/ ApplyReceipts(x, b)
        \/ DropBatch(x, b) \/ FailBatch(x, b)

SyncStep(x) ==
    \/ FetchSourceHead(x) \/ FetchTargetHead(x)
    \/ SkipSync(x) \/ ResumeScan(x) \/ FullScan(x) \/ FetchBloom(x)
    \/ NextPage(x) \/ Prefetch(x) \/ FilterMissing(x)
    \/ TakeBatch(x) \/ BatchStep(x)
    \/ EndPage(x) \/ EndScan(x) \/ ProcessPulled(x)
    \/ CancelSync(x) \/ ThrowError(x) \/ FailSync(x)

World ==
    \/ \E s \in Stores, i \in Ids : CreateEntry(s, i)
    \/ \E s \in Stores, d \in Purgeable : PurgeDoc(s, d)
    \/ \E s \in Stores : ClearStore(s)
    \/ \E i \in Ids : Revoke(i) \/ Grant(i)

Next ==
    \/ World
    \/ \E x \in Sessions, force \in BOOLEAN : Start(x, force)
    \/ \E x \in Sessions : SyncStep(x) \/ Abort(x)
    \/ Checkpoint \/ Restart

Spec == Init /\ [][Next]_vars

\* The session's own steps are taken: promises settle, workers go on.  The
\* caller, the other clients and the faults owe nothing.
FairSpec == Spec /\ \A x \in Sessions : WF_vars(SyncStep(x))

-----------------------------------------------------------------------------
(* Correctness                                                             *)

\* The record was saved in the lineage both stores are in now
Current(p, r) == /\ r.srcEpoch = stores[p[1]].epoch
                 /\ r.tgtEpoch = stores[p[2]].epoch

\* The target has had its chance at every source entry up to cursor c: it
\* stored or rejected the entry, or the key was withheld from the client.
Done(t) == settled[t] \cup withheld
CoveredIn(s, done, c) ==
    \A i \in Stored(s) : Precedes(c, Position(s, i)) \/ i \in done
Covered(p, c) == CoveredIn(stores[p[1]], Done(p[2]), c)

RecordOK(p, r) == Current(p, r) => Covered(p, r.cursor)

(* A saved cursor never skips an entry: whatever sessions, writers, purges,
   resets, aborts, failures and restarts did before, every entry the source
   holds at or before a cursor that the next sync would resume from has been
   offered to the target.  This is what makes the resumed scan and the skip in
   syncEntriesFromStoreImpl correct. *)
CursorComplete == \A p \in Pairs : RecordOK(p, cursors[p]) /\ RecordOK(p, saved[p])

(* Every sync ends: the scan bound and the page cursor keep the scan from
   chasing the entries its own receipts re-anchor. *)
SyncTerminates == \A x \in Sessions : ss[x].pc # "idle" ~> ss[x].pc = "idle"

\* As FairSpec, for an application that keeps calling pull and push
SyncLoopSpec == FairSpec /\ \A x \in Sessions : WF_vars(Start(x, FALSE))

(* Once writes, resets and faults cease, every entry of the source reaches the
   target or has been rejected by it or withheld from the client: no sequence
   of aborts, failures, restarts and resumed cursors leaves an entry behind. *)
SyncConverges ==
    <>[](\A x \in Sessions : Stored(stores[Src[x]]) \subseteq settled[Tgt[x]] \cup withheld)

\* The next sync of the pair would be skipped: nothing new at the source
UpToDate(p) == /\ cursors[p] # NoRecord /\ Current(p, cursors[p])
               /\ stores[p[1]].next - 1 <= cursors[p].cursor.order

(* A receipt on the client's copy of an entry is the one that the server which
   gave it has on its own copy, as long as that server has not been reset:
   pulls carry it with the entry, pushes bring it back with the reply, and a
   repeated push is acknowledged with the stored receipt.  And as
   docs/accesscontrol.md says, the receipt propagates back to the author: once
   the client counts an entry as pushed, no push is under way and no reply of
   handlePutEntries was lost, it holds a receipt if the server's copy has one. *)
ReceiptsAgree ==
    \A w \in Witnesses : \A i \in Stored(stores[Client]) \cap Stored(stores[w]) :
        LET r == stores[Client].receipt[i]
        IN  /\ r # NoReceipt /\ r.by = w /\ stores[w].epoch = 1 => stores[w].receipt[i] = r
            /\ faults = 0 /\ (\A x \in Sessions : ss[x].pc = "idle")
               /\ <<Client, w>> \in Pairs /\ UpToDate(<<Client, w>>)
                 => (stores[w].receipt[i] # NoReceipt => r # NoReceipt)

(* pullChangesFrom is documented to sync the local store so that the new
   entries are processed.  Once no pull is under way and the next one would
   have nothing to do, every entry of the client's store is in its index. *)
PulledIsProcessed ==
    (\A x \in Sessions : Tgt[x] = Client => ss[x].pc = "idle" /\ UpToDate(Pair(x)))
      => Stored(stores[Client]) \subseteq processed

(* The invariant that carries CursorComplete through a session.  Its parts
   speak of a source store s, a target store t, the entries done at the target
   and a session q, so that they do not mention the variables. *)

HistoryOK == /\ \A s \in Stores : Stored(stores[s]) \subseteq settled[s]
             /\ revoked \subseteq withheld

\* A record is not of a lineage still to come, and if it is of the present
\* one its cursor is covered and not beyond the counter
RecordIn(s, t, done, r) ==
    /\ r.srcEpoch <= s.epoch /\ r.tgtEpoch <= t.epoch
    /\ r.srcEpoch = s.epoch /\ r.tgtEpoch = t.epoch
         => CoveredIn(s, done, r.cursor) /\ r.cursor.order < s.next
HeadIn(s, h) == /\ h.epoch <= s.epoch
                /\ h.epoch = s.epoch => h.max < s.next

\* The session could still save its cursor, and the record would be current
Live(q, s, t) == q.sh.epoch = s.epoch /\ q.th.epoch = t.epoch

\* Entry i needs no (further) transfer by the session: it is done, or not in
\* the part of the source that the scan covers
Finished(q, s, done, i) == i \in done \/ i \notin Stored(s) \/ s.order[i] > q.sh.max

\* Positions after c and up to d
Between(s, i, c, d) == /\ i \in Stored(s)
                       /\ Precedes(c, Position(s, i)) /\ ~Precedes(d, Position(s, i))

\* Scan a, started at c, has every entry up to its nextCursor
ScanIn(s, done, c, a) ==
    /\ a.nextCursor.order < s.next
    /\ \A e \in a.entries : ~Precedes(a.nextCursor, e)
    /\ \A i \in Ids : Between(s, i, c, a.nextCursor) => i \in done \/ Position(s, i) \in a.entries

\* The page has every entry up to its end
PageIn(q, s, done) ==
    /\ q.page.end.order < s.next
    /\ \A i \in Ids : Between(s, i, q.cursor, q.page.end)
                        => i \in done \/ (i \in q.page.ids /\ s.order[i] <= q.sh.max)

\* An id handed to the workers waits or is under way
UnderWay(q, i) == \/ i \in q.todo
                  \/ \E b \in q.work : \/ b.phase = "get" /\ i \in b.ids
                                       \/ b.phase \in {"put", "store"} /\ i \in b.got

ScanningIn(q, s, done) ==
    /\ CoveredIn(s, done, q.cursor) /\ q.cursor.order < s.next
    /\ ~q.failed => \A i \in q.sent : Finished(q, s, done, i) \/ UnderWay(q, i)
    /\ q.pc = "scan" /\ q.ahead # NoScan => ScanIn(s, done, q.cursor, q.ahead)
    /\ q.pc \in {"filter", "transfer"} =>
         /\ PageIn(q, s, done)
         /\ q.ahead # NoScan => ScanIn(s, done, q.page.end, q.ahead)
    /\ q.pc = "transfer" => \A i \in q.page.ids : i \in q.sent \/ Finished(q, s, done, i)

SessionIn(q, s, t, done) ==
    /\ RecordIn(s, t, done, q.held)
    /\ HeadIn(s, q.sh) /\ HeadIn(t, q.th)
    /\ q.pc # "transfer" => q.todo = {} /\ q.work = {}
    /\ q.pc \in {"heads", "bloom"} => q.sent = {} /\ q.ahead = NoScan
    /\ q.pc \in {"bloom", "scan", "filter", "transfer"} /\ Live(q, s, t)
         => ScanningIn(q, s, done)

RecordInv(p, r) == RecordIn(stores[p[1]], stores[p[2]], Done(p[2]), r)
SessionInv(x) == SessionIn(ss[x], stores[Src[x]], stores[Tgt[x]], Done(Tgt[x]))

SyncInv ==
    /\ \A s \in Stores : Numbered(stores[s])
    /\ HistoryOK
    /\ \A p \in Pairs : RecordInv(p, cursors[p]) /\ RecordInv(p, saved[p])
    /\ \A x \in Sessions : SessionInv(x)

(* What a session holds at every await is consistent with both stores, whoever
   else has changed them meanwhile: the heads and scanned pages of an earlier
   moment, the batches under way and the cursors saved leave no source entry of
   the present lineages behind.  The inductive invariant of SyncProofs. *)
IndInv == TypeOK /\ SyncInv
=============================================================================
