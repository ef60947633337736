----------------------------- MODULE OnDiskStore -----------------------------
(***************************************************************************)
(* BasicOnDiskContentAddressedStore: the store of a Node.js server or      *)
(* client.  One metadata file per entry, one content file per hash, a      *)
(* snapshot of the metadata index and a log of metadata segments on disk;  *)
(* the index and the receiptOrder counter in memory.                       *)
(*                                                                         *)
(* Every file is written to a temporary file and renamed, so a write is    *)
(* one step; an operation is a sequence of such steps with awaits between  *)
(* them.  putEntries and applyWitnessReceipts exclude each other; a purge  *)
(* runs beside them.  The process may stop or crash at any step, and a     *)
(* peer reads the scan feed at any time.                                   *)
(***************************************************************************)
EXTENDS Integers, Sequences, FiniteSets, Functions

CONSTANTS
    Ids,            \* entry ids, numbers because the scan compares them
    DocOf, HashOf,  \* the document and the content hash of each entry
    Stamps,         \* witness receipts
    NoReceipt,      \* an entry without a receipt
    Absent,         \* no metadata file, no index entry
    Unlogged,       \* an entry that a segment says nothing about
    Tasks,          \* calls that may be under way together
    Installations,  \* what the store may hold at first: its entries, and whether
                    \* these are from before there were receiptOrders (legacy)
    Incoming,       \* entries that may be put
    Purgeable,      \* documents that may be purged
    MinFiles,       \* metadataSegmentCompactionMinFiles
    SameTick,       \* whether two segments may get the same millisecond
    MaxOrder,       \* bound: receiptOrders given out in a lineage
    MaxStops,       \* bound: orderly stops of the process
    MaxCrashes      \* bound: crashes

ASSUME IdsAssumption == Ids \subseteq Nat \ {0} /\ IsFiniteSet(Ids)
ASSUME EntriesAssumption ==
    /\ DOMAIN DocOf = Ids /\ DOMAIN HashOf = Ids
    /\ Installations \subseteq [entries : SUBSET Ids, legacy : BOOLEAN]
    /\ Incoming \subseteq Ids /\ Purgeable \subseteq Range(DocOf)
ASSUME AbsentAssumption == Absent \notin [order : Nat, receipt : Stamps \cup {NoReceipt}]
ASSUME UnloggedAssumption ==
    Unlogged \notin [order : Nat, receipt : Stamps \cup {NoReceipt}] \cup {Absent}
ASSUME BoundsAssumption ==
    /\ MinFiles \in Nat \ {0} /\ SameTick \in BOOLEAN
    /\ MaxOrder \in Nat /\ MaxStops \in Nat /\ MaxCrashes \in Nat

VARIABLES
    files,     \* entries/: the metadata file of each entry
    content,   \* content/: the hashes that have a payload file
    snapshot,  \* metadata-index.json
    segments,  \* metadata-segments/ in the order they were written
    epochFile, \* store-epoch.json, 0 while there is none
    phase,     \* what the process does: down, one of the steps of initialize, up
    index,     \* entries and orderedMetadata
    next,      \* nextReceiptOrder
    tasks,     \* the local variables of each call under way
    epoch,     \* storeEpoch
    epochs,    \* the epochs made so far
    stops, crashes,
    peer,      \* a peer's saved cursor and what it has received
    acked,     \* history: entries whose putEntries has returned
    erased,    \* history: documents whose purge has returned
    upset      \* history: what has happened after which the store promises less

disk == <<files, content, snapshot, segments, epochFile>>
memory == <<phase, index, next, epoch, epochs>>
vars == <<disk, memory, tasks, stops, crashes, peer, acked, erased, upset>>

-----------------------------------------------------------------------------
Receipts == Stamps \cup {NoReceipt}

\* Metadata of an entry; a legacy file has no receiptOrder, which reads as 0
Meta == [order : Nat, receipt : Receipts]
Index == [Ids -> Meta \cup {Absent}]
NoIndex == [i \in Ids |-> Absent]
In(idx) == {i \in Ids : idx[i] # Absent}

\* A segment: upserts and deletes of some entries, and the time in its name
Records == [Ids -> Meta \cup {Absent, Unlogged}]
NoRecords == [i \in Ids |-> Unlogged]
Segment == [time : Nat, records : Records]

Hashes == Range(HashOf)
Docs == Range(DocOf)

\* A call: put and receipts work through todo one entry at a time, cur is the
\* metadata just written; a purge works through todo and then through hashes.
Task == [kind : {"none", "put", "receipts", "purge"},
         step : {"next", "meta", "index", "hashes", "append", "list", "persist", "clear"},
         batch : SUBSET Ids, todo : SUBSET Ids, id : Ids \cup {0}, meta : Meta \cup {Absent},
         stamp : Receipts, doc : Docs \cup {Absent}, hashes : SUBSET Hashes,
         records : Records, snap : Index, covered : SUBSET Segment]
NoTask == [kind |-> "none", step |-> "next", batch |-> {}, todo |-> {}, id |-> 0, meta |-> Absent,
           stamp |-> NoReceipt, doc |-> Absent, hashes |-> {}, records |-> NoRecords,
           snap |-> NoIndex, covered |-> {}]

Cursor == [order : Nat, id : Nat]
StartCursor == [order |-> 0, id |-> 0]
Precedes(c, d) == c.order < d.order \/ (c.order = d.order /\ c.id < d.id)
Position(idx, i) == [order |-> idx[i].order, id |-> i]

Phases == {"down", "migrate", "migrated", "epoch", "load", "persist", "clear", "up"}

\* A migration; a purge that found entries; a purge under way beside a receipts
\* call; a crash between a receipt's file and its segment; a segment with the
\* millisecond of the one before
Upsets == {"migration", "purge", "race", "torn", "tick"}

StateOK ==
    /\ files \in Index /\ snapshot \in Index /\ index \in Index
    /\ content \subseteq Hashes
    /\ segments \in Seq(Segment)
    /\ epochFile \in Nat /\ epoch \in Nat /\ epochs \in Nat
    /\ phase \in Phases
    /\ next \in Nat \ {0}
    /\ tasks \in [Tasks -> Task]
    /\ stops \in Nat /\ crashes \in Nat
    /\ peer \in [epoch : Nat, cursor : Cursor, seen : [Ids -> Receipts \cup {Absent}]]
    /\ acked \subseteq Ids /\ erased \subseteq Docs

TypeOK == StateOK /\ upset \subseteq Upsets

\* What the store had when it was stopped, put in the order of the ids
FirstMeta(had, i) ==
    [order |-> IF had.legacy THEN 0 ELSE Cardinality({j \in had.entries : j <= i}),
     receipt |-> NoReceipt]

\* A stopped store, its entries logged in one segment
InitWith(had) ==
    /\ files = [i \in Ids |-> IF i \in had.entries THEN FirstMeta(had, i) ELSE Absent]
    /\ content = {HashOf[i] : i \in had.entries}
    /\ snapshot = NoIndex
    /\ segments = IF had.entries = {} THEN <<>>
                  ELSE <<[time |-> 0, records |-> [i \in Ids |->
                            IF i \in had.entries THEN FirstMeta(had, i) ELSE Unlogged]]>>
    /\ epochFile = 0
    /\ phase = "down" /\ index = NoIndex /\ next = 1 /\ epoch = 0 /\ epochs = 0
    /\ tasks = [t \in Tasks |-> NoTask]
    /\ stops = 0 /\ crashes = 0
    /\ peer = [epoch |-> 0, cursor |-> StartCursor, seen |-> [i \in Ids |-> Absent]]
    /\ acked = had.entries /\ erased = {} /\ upset = {}

Init == \E had \in Installations : InitWith(had)

-----------------------------------------------------------------------------
(* Start, stop, crash                                                      *)

\* The highest receiptOrder in an index
MaxIn(idx) == CHOOSE m \in {0} \cup {idx[i].order : i \in In(idx)} :
                \A i \in In(idx) : idx[i].order <= m

\* recomputeNextReceiptOrder
NextAfter(idx) == MaxIn(idx) + 1

\* ensurePersistedReceiptOrder: some file has no receiptOrder
NeedsMigration == \E i \in In(files) : files[i].order = 0

\* The index after replaying segments over idx in order p, where the last
\* record of an entry counts
LastRecord(p, i) ==
    LET at == {k \in DOMAIN p : p[k].records[i] # Unlogged}
    IN  IF at = {} THEN 0 ELSE CHOOSE k \in at : \A l \in at : l <= k
Replay(idx, p) ==
    [i \in Ids |-> IF LastRecord(p, i) = 0 THEN idx[i] ELSE p[LastRecord(p, i)].records[i]]

\* The orders in which the file names may sort: by time; a random suffix
\* decides between names of the same millisecond
Sorted(s) ==
    {p \in {[k \in DOMAIN s |-> s[f[k]]] : f \in Bijection(DOMAIN s, DOMAIN s)} :
        \A k, l \in DOMAIN p : k < l => p[k].time <= p[l].time}

rest == <<tasks, stops, crashes, peer, acked, erased>>

Start ==
    /\ phase = "down"
    /\ phase' = IF NeedsMigration THEN "migrate" ELSE "epoch"
    /\ UNCHANGED <<disk, index, next, epoch, epochs, rest>>

\* One file of the migration; next counts the files that are done
MigrateFile(i) ==
    /\ phase = "migrate" /\ i \in In(files)
    /\ Cardinality({j \in In(files) : j < i}) = next - 1
    /\ files' = [files EXCEPT ![i].order = next]
    /\ next' = next + 1
    /\ UNCHANGED <<content, snapshot, segments, epochFile, phase, index, epoch, epochs, rest>>

\* Fault: the snapshot is taken for the index of the migrated files
MigratedStale ==
    /\ phase = "migrate" /\ next = Cardinality(In(files)) + 1
    /\ epochs' = epochs + 1 /\ epoch' = epochs' /\ epochFile' = epochs'
    /\ index' = snapshot
    /\ phase' = "migrated"
    /\ UNCHANGED <<files, content, snapshot, segments, next, rest>>

\* The migration is done: a new epoch, an index built from the files
Migrated ==
    /\ phase = "migrate" /\ next = Cardinality(In(files)) + 1
    /\ epochs' = epochs + 1 /\ epoch' = epochs' /\ epochFile' = epochs'
    /\ index' = files
    /\ phase' = "migrated"
    /\ UNCHANGED <<files, content, snapshot, segments, next, rest>>

\* loadOrCreateStoreEpoch without migration
LoadEpoch ==
    /\ phase = "epoch"
    /\ IF epochFile # 0
       THEN /\ epoch' = epochFile
            /\ UNCHANGED <<epochs, epochFile>>
       ELSE /\ epochs' = epochs + 1 /\ epoch' = epochs' /\ epochFile' = epochs'
    /\ phase' = "load"
    /\ UNCHANGED <<files, content, snapshot, segments, index, next, rest>>

\* Fault: snapshot and segments are not compared with the files
LoadIndexUnchecked ==
    /\ phase = "load"
    /\ \E p \in Sorted(segments) : index' = Replay(snapshot, p)
    /\ phase' = "up" /\ next' = NextAfter(index')
    /\ UNCHANGED <<disk, epoch, epochs, rest>>

\* Snapshot and segments are read; if they do not name exactly the entries
\* that have files, the index is built from the files and saved.
LoadIndex ==
    /\ phase = "load"
    /\ \E p \in Sorted(segments) :
         LET idx == Replay(snapshot, p)
             covers == In(idx) = In(files)
         IN  /\ index' = IF covers THEN idx ELSE files
             /\ phase' = IF covers THEN "up" ELSE "persist"
             /\ next' = NextAfter(index')
    /\ UNCHANGED <<disk, epoch, epochs, rest>>

\* persistMetadataIndex; after a migration initialize then clears the segments
\* it has replayed, which are none
PersistRebuilt ==
    /\ phase \in {"persist", "migrated"}
    /\ snapshot' = index
    /\ phase' = IF phase = "persist" THEN "clear" ELSE "up"
    /\ UNCHANGED <<files, content, segments, epochFile, index, next, epoch, epochs, rest>>

\* clearMetadataSegments, one file at a time
ClearReplayed ==
    /\ phase = "clear"
    /\ IF segments = <<>>
       THEN phase' = "up" /\ UNCHANGED segments
       ELSE segments' = Tail(segments) /\ UNCHANGED phase
    /\ UNCHANGED <<files, content, snapshot, epochFile, index, next, epoch, epochs, rest>>

Idle == \A t \in Tasks : tasks[t].kind = "none"

\* The process ends and its memory is gone
Down == /\ phase' = "down" /\ index' = NoIndex /\ next' = 1
        /\ tasks' = [t \in Tasks |-> NoTask]
        /\ UNCHANGED <<disk, epoch, epochs, peer, acked, erased>>

Stop == /\ phase = "up" /\ Idle /\ stops < MaxStops
        /\ stops' = stops + 1 /\ UNCHANGED crashes
        /\ Down

Crash == /\ phase # "down" /\ crashes < MaxCrashes
         /\ crashes' = crashes + 1 /\ UNCHANGED stops
         /\ Down

-----------------------------------------------------------------------------
(* Calls                                                                   *)

Quiet == UNCHANGED <<phase, epoch, epochs, epochFile, stops, crashes, peer>>
Update(t, r) == tasks' = [tasks EXCEPT ![t] = r]

\* runExclusiveReceiptOrderWrite: no other put or receipts call is under way
WriteChainFree == phase = "up" /\ \A t \in Tasks : tasks[t].kind \notin {"put", "receipts"}

PutEntries(t, B) ==
    /\ WriteChainFree /\ tasks[t].kind = "none"
    /\ next + Cardinality(B) <= MaxOrder + 1
    /\ Update(t, [NoTask EXCEPT !.kind = "put", !.batch = B, !.todo = B])
    /\ UNCHANGED <<files, content, snapshot, segments, index, next, acked, erased>> /\ Quiet

ApplyWitnessReceipts(t, B, r) ==
    /\ WriteChainFree /\ tasks[t].kind = "none"
    /\ next + Cardinality(B) <= MaxOrder + 1
    /\ Update(t, [NoTask EXCEPT !.kind = "receipts", !.batch = B, !.todo = B, !.stamp = r])
    /\ UNCHANGED <<files, content, snapshot, segments, index, next, acked, erased>> /\ Quiet

\* The next entry of a put: skipped if it has a file, otherwise its payload is
\* written unless some entry with the same content has been here before
PutContent(t, i) ==
    /\ tasks[t].kind = "put" /\ tasks[t].step = "next" /\ i \in tasks[t].todo
    /\ IF files[i] # Absent
       THEN /\ Update(t, [tasks[t] EXCEPT !.todo = @ \ {i}])
            /\ UNCHANGED content
       ELSE /\ Update(t, [tasks[t] EXCEPT !.todo = @ \ {i}, !.id = i, !.step = "meta"])
            /\ content' = content \cup {HashOf[i]}
    /\ UNCHANGED <<files, snapshot, segments, index, next, acked, erased>> /\ Quiet

\* The next receipt: skipped if the entry is unknown or has this receipt
ReadReceipt(t, i) ==
    /\ tasks[t].kind = "receipts" /\ tasks[t].step = "next" /\ i \in tasks[t].todo
    /\ Update(t, IF index[i] = Absent \/ index[i].receipt = tasks[t].stamp
                 THEN [tasks[t] EXCEPT !.todo = @ \ {i}]
                 ELSE [tasks[t] EXCEPT !.todo = @ \ {i}, !.id = i, !.step = "meta"])
    /\ UNCHANGED <<files, content, snapshot, segments, index, next, acked, erased>> /\ Quiet

\* Fault: a receipt is written in place
WriteMetaInPlace(t) ==
    /\ tasks[t].step = "meta"
    /\ LET meta == [order |-> IF index[tasks[t].id] = Absent THEN next ELSE index[tasks[t].id].order,
                    receipt |-> tasks[t].stamp]
       IN  /\ files' = [files EXCEPT ![tasks[t].id] = meta]
           /\ Update(t, [tasks[t] EXCEPT !.meta = meta, !.step = "index"])
    /\ next' = next + 1
    /\ UNCHANGED <<content, snapshot, segments, index, acked, erased>> /\ Quiet

\* The metadata file is written with the next receiptOrder
WriteMeta(t) ==
    /\ tasks[t].step = "meta"
    /\ LET meta == [order |-> next, receipt |-> tasks[t].stamp]
       IN  /\ files' = [files EXCEPT ![tasks[t].id] = meta]
           /\ Update(t, [tasks[t] EXCEPT !.meta = meta, !.step = "index"])
    /\ next' = next + 1
    /\ UNCHANGED <<content, snapshot, segments, index, acked, erased>> /\ Quiet

\* purgeDocHistory: nothing to do if the index has no entry of the document.
\* TenantManager executes one purge after the other (purgeInFlight).
PurgeDocHistory(t, d) ==
    LET S == {i \in In(index) : DocOf[i] = d}
    IN  /\ phase = "up" /\ tasks[t].kind = "none"
        /\ \A u \in Tasks : tasks[u].kind # "purge"
        /\ IF S = {}
           THEN erased' = erased \cup {d} /\ UNCHANGED <<tasks, acked>>
           ELSE /\ Update(t, [NoTask EXCEPT !.kind = "purge", !.batch = S, !.todo = S, !.doc = d,
                                            !.hashes = {HashOf[i] : i \in S}])
                /\ acked' = {i \in acked : DocOf[i] # d}
                /\ UNCHANGED erased
        /\ UNCHANGED <<files, content, snapshot, segments, index, next>> /\ Quiet

\* The next metadata file of a purge is deleted
PurgeFile(t, i) ==
    /\ tasks[t].kind = "purge" /\ tasks[t].step = "next" /\ i \in tasks[t].todo
    /\ files' = [files EXCEPT ![i] = Absent]
    /\ Update(t, [tasks[t] EXCEPT !.todo = @ \ {i}, !.id = i, !.meta = Absent, !.step = "index"])
    /\ UNCHANGED <<content, snapshot, segments, index, next, acked, erased>> /\ Quiet

\* applyMetadataUpsert or applyMetadataDelete
UpdateIndex(t) ==
    /\ tasks[t].step = "index"
    /\ index' = [index EXCEPT ![tasks[t].id] = tasks[t].meta]
    /\ Update(t, [tasks[t] EXCEPT !.step = "next",
                                    !.records[tasks[t].id] = tasks[t].meta])
    /\ UNCHANGED <<files, content, snapshot, segments, next, acked, erased>> /\ Quiet

\* A purge has deleted its metadata files: payloads that no entry of the index
\* refers to will be deleted
OrphanedHashes(t) ==
    /\ tasks[t].kind = "purge" /\ tasks[t].step = "next" /\ tasks[t].todo = {}
    /\ Update(t, [tasks[t] EXCEPT !.step = "hashes", !.hashes = @ \ {HashOf[i] : i \in In(index)}])
    /\ UNCHANGED <<files, content, snapshot, segments, index, next, acked, erased>> /\ Quiet

PurgeContent(t, h) ==
    /\ tasks[t].step = "hashes" /\ h \in tasks[t].hashes
    /\ content' = content \ {h}
    /\ Update(t, [tasks[t] EXCEPT !.hashes = @ \ {h}])
    /\ UNCHANGED <<files, snapshot, segments, index, next, acked, erased>> /\ Quiet

\* The call returns
Finish(t) ==
    /\ Update(t, NoTask)
    /\ acked' = IF tasks[t].kind = "put" THEN acked \cup tasks[t].batch ELSE acked
    /\ erased' = IF tasks[t].kind = "purge" THEN erased \cup {tasks[t].doc} ELSE erased

\* Nothing was written
NoMutation(t) ==
    /\ tasks[t].kind \in {"put", "receipts"} /\ tasks[t].step = "next" /\ tasks[t].todo = {}
    /\ tasks[t].records = NoRecords
    /\ Finish(t)
    /\ UNCHANGED <<files, content, snapshot, segments, index, next>> /\ Quiet

LastTime == IF segments = <<>> THEN 0 ELSE segments[Len(segments)].time

\* appendMetadataSegment
AppendSegment(t) ==
    /\ \/ /\ tasks[t].kind \in {"put", "receipts"} /\ tasks[t].step = "next"
          /\ tasks[t].todo = {} /\ tasks[t].records # NoRecords
       \/ tasks[t].step = "hashes" /\ tasks[t].hashes = {}
    /\ \E now \in {LastTime + 1} \cup (IF SameTick THEN {LastTime} ELSE {}) :
         segments' = Append(segments, [time |-> now, records |-> tasks[t].records])
    /\ Update(t, [tasks[t] EXCEPT !.step = "list"])
    /\ UNCHANGED <<files, content, snapshot, index, next, acked, erased>> /\ Quiet

\* maybeCompactMetadataSegments: below the threshold the call returns, above
\* it the index is serialised
ListSegments(t) ==
    /\ tasks[t].step = "list"
    /\ IF Len(segments) < MinFiles
       THEN Finish(t)
       ELSE /\ Update(t, [tasks[t] EXCEPT !.step = "persist", !.snap = index,
                                          !.covered = Range(segments)])
            /\ UNCHANGED <<acked, erased>>
    /\ UNCHANGED <<files, content, snapshot, segments, index, next>> /\ Quiet

PersistSnapshot(t) ==
    /\ tasks[t].step = "persist"
    /\ snapshot' = tasks[t].snap
    /\ Update(t, [tasks[t] EXCEPT !.step = "clear"])
    /\ UNCHANGED <<files, content, segments, index, next, acked, erased>> /\ Quiet

\* One covered segment file after the other is deleted
ClearSegment(t) ==
    /\ tasks[t].step = "clear"
    /\ LET left == {k \in DOMAIN segments : segments[k] \in tasks[t].covered}
       IN  IF left = {}
           THEN Finish(t) /\ UNCHANGED segments
           ELSE LET k == CHOOSE k \in left : \A l \in left : k <= l
                IN  /\ segments' = [l \in 1 .. Len(segments) - 1 |->
                                      IF l < k THEN segments[l] ELSE segments[l + 1]]
                    /\ UNCHANGED <<tasks, acked, erased>>
    /\ UNCHANGED <<files, content, snapshot, index, next>> /\ Quiet

\* A sync session of a peer that reads the feed to its end: a saved cursor of
\* this epoch is resumed, or the sync is skipped if the head is not beyond it
PeerSync ==
    LET resume == peer.epoch = epoch
        from == IF resume THEN peer.cursor ELSE StartCursor
        new == {i \in In(index) : Precedes(from, Position(index, i))}
    IN  /\ phase = "up" /\ new # {}
        /\ resume => next - 1 > peer.cursor.order
        /\ peer' = [epoch |-> epoch,
                    cursor |-> CHOOSE c \in {Position(index, i) : i \in new} :
                                 \A i \in new : ~Precedes(c, Position(index, i)),
                    seen |-> [i \in Ids |-> IF i \in new THEN index[i].receipt ELSE peer.seen[i]]]
        /\ UNCHANGED <<disk, memory, tasks, stops, crashes, acked, erased>>

-----------------------------------------------------------------------------
TaskStep(t) ==
    \/ \E i \in Ids : PutContent(t, i) \/ ReadReceipt(t, i) \/ PurgeFile(t, i)
    \/ \E h \in Hashes : PurgeContent(t, h)
    \/ WriteMeta(t) \/ UpdateIndex(t) \/ OrphanedHashes(t)
    \/ NoMutation(t) \/ AppendSegment(t) \/ ListSegments(t)
    \/ PersistSnapshot(t) \/ ClearSegment(t)

Call(t) ==
    \/ \E B \in SUBSET Incoming : B # {} /\ PutEntries(t, B)
    \/ \E B \in SUBSET Ids, r \in Stamps : B # {} /\ ApplyWitnessReceipts(t, B, r)
    \/ \E d \in Purgeable : PurgeDocHistory(t, d)

Next ==
    \/ Start \/ LoadEpoch \/ LoadIndex \/ PersistRebuilt \/ ClearReplayed
    \/ \E i \in Ids : MigrateFile(i)
    \/ Migrated
    \/ \E t \in Tasks : Call(t) \/ TaskStep(t)
    \/ Stop \/ Crash \/ PeerSync

\* A receipt of this call is in a file and not yet in a segment
Unsaved(t) ==
    /\ tasks[t].kind = "receipts"
    /\ \/ tasks[t].step = "index"
       \/ tasks[t].step \in {"next", "meta"} /\ tasks[t].records # NoRecords

\* The history variable upset
Upsetting(e) ==
    \/ e = "migration" /\ phase' = "migrate"
    \/ e = "purge" /\ \E t \in Tasks : tasks'[t].kind = "purge"
    \/ e = "race" /\ \E t, u \in Tasks : tasks'[t].kind = "purge" /\ tasks'[u].kind = "receipts"
    \/ e = "torn" /\ phase' = "down" /\ \E t \in Tasks : Unsaved(t)
    \/ e = "tick" /\ segments # <<>> /\ \E t \in Tasks : AppendSegment(t)
               /\ segments'[Len(segments')].time = LastTime
Noted == upset' = upset \cup {e \in Upsets : Upsetting(e)}

Spec == Init /\ [][Next /\ Noted]_vars

-----------------------------------------------------------------------------
(* Correctness                                                             *)

(* An entry is discoverable only after its payload is on disk: every metadata
   file has its content file, at every step of every call and after a crash at
   any of them (commit order of putEntriesLocked). *)
ContentPresent == \A i \in In(files) : HashOf[i] \in content

(* An entry whose putEntries has returned survives every crash and restart
   until its document is purged, and the store serves it once it is up. *)
AcknowledgedIsDurable ==
    \A i \in acked : /\ files[i] # Absent
                     /\ phase = "up" => index[i] # Absent

(* The entry files are the truth and the index follows: whenever no call is
   under way the index of a running store says what the files say, whatever
   the snapshot and the segments went through (initialize,
   validatePersistedIndexCoverage, compaction). *)
IndexFollowsFiles == phase = "up" /\ Idle => index = files

(* Entries become visible in the order of their numbers: a peer that resumes
   at its cursor has received every entry before it, with the receipt the
   entry has now.  This is what runExclusiveReceiptOrderWrite is for. *)
PeerComplete ==
    phase = "up" /\ peer.epoch = epoch =>
        \A i \in In(index) : \/ Precedes(peer.cursor, Position(index, i))
                             \/ peer.seen[i] = index[i].receipt

(* StoreHead says that maxReceiptOrder never decreases, not on a purge either:
   within an epoch the head never falls below a cursor a peer has saved. *)
HeadCoversCursors == phase = "up" /\ peer.epoch = epoch => peer.cursor.order < next

(* Once a purge has returned, no metadata and no payload of the document is on
   disk (purgeDocHistory).  Holds for documents that are not put again. *)
PurgeErases ==
    \A i \in Ids : DocOf[i] \in erased =>
        /\ files[i] = Absent
        /\ HashOf[i] \in content => \E j \in Ids : HashOf[j] = HashOf[i] /\ DocOf[j] \notin erased

(* The part of PurgeErases that purgeDocHistory keeps: it holds while no crash
   has interrupted a purge, whatever puts of other documents, compactions and
   restarts happen around it. *)
UninterruptedPurgeErases == crashes = 0 => PurgeErases

(* What the files of a store promise to whoever opens it: payloads are there,
   a purge that was not interrupted has erased its document, and the index
   says what the files say.  The first two end when a receipts call races a
   purge, which is outside the write chain; the index also follows old
   segments after a migration, after a receipts call that is cut off before it
   writes its segment, and when two segments get the same millisecond. *)
DiskAgrees ==
    /\ "race" \notin upset => ContentPresent /\ UninterruptedPurgeErases
    /\ upset \cap {"migration", "race", "torn", "tick"} = {} => IndexFollowsFiles

(* What the scan feed of a store promises to a peer, and that it reads the
   entries as the files have them, as long as nothing upset the numbering: no
   purge either, after which receiptOrders may be given out again. *)
FeedHonest == upset = {} => PeerComplete /\ HeadCoversCursors /\ IndexFollowsFiles
=============================================================================
