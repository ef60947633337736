--------------------------- MODULE DocReplayProofs ---------------------------
(***************************************************************************)
(* Proofs about DocReplay: for any documents, entries, budgets and size of *)
(* the cache, and for the lazy and the eager restore, what the cursor has  *)
(* passed is in every copy that counts as current, or is remembered.       *)
(***************************************************************************)
EXTENDS DocReplay, TLAPS

-----------------------------------------------------------------------------
(* Types                                                                   *)

Database ==
  [cursor : Nat, index : [Docs -> IndexEntry], next : Nat \ {0},
   cache : [Docs -> Content \cup {None}], dirty : SUBSET Docs, meta : BOOLEAN,
   pending : SUBSET (Authors \X Docs), fp : (SUBSET Docs) \cup {None}, notes : BOOLEAN,
   ready : BOOLEAN]
Record == [seq : Nat, has : SUBSET Entries, del : BOOLEAN]
Disk == [doc : [Docs -> Record \cup {None}], meta : Meta \cup {None}]
SyncJob == [pc : {"idle", "docs", "apply", "index", "hide"}, todo : SUBSET Docs,
            batch : SUBSET Entries, next : Nat, doc : Docs \cup {None}, result : Content \cup {None}]
OpJob == [pc : {"idle", "load", "write", "stored"}, doc : Docs \cup {None},
          entry : Entries \cup {None}, result : Content \cup {None}, base : SUBSET Entries,
          read : SUBSET Entries, dirty : BOOLEAN, touched : BOOLEAN]
Recon == [pc : {"idle", "run"}, todo : SUBSET Docs, scan : Nat, doc : Docs \cup {None},
          changed : BOOLEAN, fp : SUBSET Docs, again : BOOLEAN, fresh : BOOLEAN]
Consumer == [cursor : Nat, seen : [Docs -> SUBSET Entries], awake : BOOLEAN]
Saved == [cursor : Nat, seen : [Docs -> SUBSET Entries]]
History == [docs : SUBSET Docs, stale : SUBSET Docs, early : SUBSET Docs, feed : BOOLEAN,
            heal : SUBSET Docs, skipped : SUBSET Docs, passed : SUBSET Docs,
            unread : SUBSET Docs, rekeyed : BOOLEAN, keys : BOOLEAN]
States == {"visible", "inaccessible"}

(* The type invariant of what the theorems speak of. *)
TypeOK ==
  /\ store \in Seq(Entries)
  /\ db \in Database /\ l2 \in Disk
  /\ keys \subseteq Docs
  /\ sync \in SyncJob /\ op \in OpJob
  /\ sync.pc \in {"apply", "index", "hide"} => sync.doc \in Docs
  /\ sync.pc \in {"apply", "index"} => sync.result \in Content
  /\ op.pc /= "idle" => op.doc \in Docs /\ op.result \in Content
  /\ op.pc \in {"write", "stored"} => op.entry \in Entries
  /\ recon \in Recon /\ heal \subseteq Docs
  /\ feed \in Consumer /\ saved \in Saved /\ lost \in History

-----------------------------------------------------------------------------
(* The operators on the open database and the records                      *)

(* updateIndex gives the document the next changeSeq, or leaves all as it is. *)
Indexed(r, s, d, del, state, force) ==
  /\ r \in Database
  /\ r.cursor = s.cursor /\ r.cache = s.cache /\ r.pending = s.pending
  /\ r.fp = s.fp /\ r.ready = s.ready
  /\ \A x \in Docs : x /= d => r.index[x] = s.index[x]
  /\ \/ /\ r = s /\ s.index[d].state = state /\ s.index[d].del = del /\ ~force
     \/ /\ r.index[d] = [seq |-> s.next, del |-> del, state |-> state]
        /\ r.next = s.next + 1 /\ r.notes

LEMMA UpdateIndexFacts ==
  ASSUME NEW s \in Database, NEW d \in Docs, NEW del \in BOOLEAN, NEW state \in States,
         NEW force \in BOOLEAN
  PROVE  Indexed(UpdateIndex(s, d, del, state, force), s, d, del, state, force)
<1> DEFINE same == s.index[d].del = del /\ s.index[d].state = state
           t == [s EXCEPT !.index[d] = [seq |-> s.next, del |-> del, state |-> state],
                          !.next = @ + 1, !.notes = TRUE]
<1>1. UpdateIndex(s, d, del, state, force) = IF same /\ ~force THEN s ELSE t
  BY DEF UpdateIndex
<1>2. [seq |-> s.next, del |-> del, state |-> state] \in IndexEntry
  BY DEF Database, IndexEntry, States
<1>3. t \in Database
  <2>1. s.index \in [Docs -> IndexEntry] /\ s.next \in Nat \ {0}
    BY DEF Database
  <2>2. [s.index EXCEPT ![d] = [seq |-> s.next, del |-> del, state |-> state]]
          \in [Docs -> IndexEntry]
    BY <1>2, <2>1
  <2>3. s.next + 1 \in Nat \ {0}
    BY <2>1
  <2> QED
    BY <2>1, <2>2, <2>3 DEF Database
<1>4. /\ t.cursor = s.cursor /\ t.cache = s.cache /\ t.pending = s.pending
      /\ t.fp = s.fp /\ t.ready = s.ready /\ t.dirty = s.dirty
      /\ \A x \in Docs : x /= d => t.index[x] = s.index[x]
      /\ t.index[d] = [seq |-> s.next, del |-> del, state |-> state]
      /\ t.next = s.next + 1 /\ t.notes
  BY DEF Database
<1> HIDE DEF t
<1> QED
  BY <1>1, <1>3, <1>4 DEF Indexed

(* storeCachedDocument changes the cache only. *)
LEMMA StoreCachedFacts ==
  ASSUME NEW s \in Database, NEW d \in Docs, NEW c \in Content, NEW out \in SUBSET Docs,
         d \notin out
  PROVE  LET r == StoreCachedDocument(s, d, c, out)
         IN /\ r \in Database
            /\ r.cursor = s.cursor /\ r.pending = s.pending /\ r.index = s.index
            /\ r.next = s.next /\ r.fp = s.fp /\ r.ready = s.ready /\ r.notes = s.notes
            /\ r.cache[d] = c
            /\ \A x \in Docs : x /= d => r.cache[x] \in {s.cache[x], None}
BY DEF StoreCachedDocument, Database

(* purgeMaterializedDocument, in memory. *)
LEMMA PurgeFacts ==
  ASSUME NEW s \in Database, NEW d \in Docs
  PROVE  LET r == PurgeMaterialized(s, d)
         IN /\ r \in Database
            /\ r.cursor = s.cursor /\ r.pending = s.pending /\ r.index = s.index
            /\ r.next = s.next /\ r.fp = s.fp /\ r.ready = s.ready /\ r.notes = s.notes
            /\ r.cache[d] = None
            /\ \A x \in Docs : x /= d => r.cache[x] = s.cache[x]
BY DEF PurgeMaterialized, Database

LEMMA RecordPendingFacts ==
  ASSUME NEW s \in Database, NEW P \in SUBSET (Authors \X Docs)
  PROVE  LET r == RecordPending(s, P)
         IN /\ r \in Database
            /\ r.cursor = s.cursor /\ r.cache = s.cache /\ r.index = s.index
            /\ r.next = s.next /\ r.fp = s.fp /\ r.ready = s.ready /\ r.notes = s.notes
            /\ r.pending = s.pending \cup P
BY DEF RecordPending, Database

LEMMA MarkDirtyFacts ==
  ASSUME NEW s \in Database, NEW d \in Docs
  PROVE  LET r == MarkDocDirty(s, d)
         IN /\ r \in Database
            /\ r.cursor = s.cursor /\ r.cache = s.cache /\ r.pending = s.pending
            /\ r.index = s.index /\ r.next = s.next /\ r.fp = s.fp /\ r.ready = s.ready
            /\ r.notes = s.notes
BY DEF MarkDocDirty, Database

LEMMA PurgeRecordFacts ==
  ASSUME NEW r \in Disk, NEW d \in Docs
  PROVE  LET q == PurgeRecord(r, d)
         IN /\ q \in Disk /\ q.meta = r.meta /\ q.doc[d] = None
            /\ \A x \in Docs : x /= d => q.doc[x] = r.doc[x]
BY DEF PurgeRecord, Disk

(* A record that is written has the content in memory and the changeSeq of *)
(* the index.                                                              *)
RecordOf(s, d) == [seq |-> s.index[d].seq, has |-> s.cache[d].has, del |-> s.cache[d].del]

LEMMA RecordOfType ==
  ASSUME NEW s \in Database, NEW d \in Docs, s.cache[d] /= None
  PROVE  RecordOf(s, d) \in Record
BY DEF RecordOf, Record, Database, Content, IndexEntry

LEMMA FlushDocFacts ==
  ASSUME NEW r \in Disk, NEW s \in Database, NEW d \in Docs, s.cache[d] /= None
  PROVE  LET q == FlushDoc(r, s, d)
         IN /\ q \in Disk /\ q.meta = r.meta /\ q.doc[d] = RecordOf(s, d)
            /\ \A x \in Docs : x /= d => q.doc[x] = r.doc[x]
<1>1. FlushDoc(r, s, d) = [r EXCEPT !.doc[d] = RecordOf(s, d)]
  BY DEF FlushDoc, RecordOf
<1>2. RecordOf(s, d) \in Record
  BY RecordOfType
<1> QED
  BY <1>1, <1>2 DEF Disk

LEMMA FlushVictimsFacts ==
  ASSUME NEW r \in Disk, NEW s \in Database, NEW out \in SUBSET Cached(s)
  PROVE  LET q == FlushVictims(r, s, out)
         IN /\ q \in Disk /\ q.meta = r.meta
            /\ \A x \in Docs : \/ q.doc[x] = r.doc[x]
                               \/ x \in out /\ q.doc[x] = RecordOf(s, x)
<1> DEFINE f == [d \in Docs |-> IF d \in out \cap s.dirty THEN FlushDoc(r, s, d).doc[d]
                                ELSE r.doc[d]]
<1>1. FlushVictims(r, s, out) = [r EXCEPT !.doc = f]
  BY DEF FlushVictims
<1>2. \A d \in Docs : d \in out => s.cache[d] /= None
  BY DEF Cached
<1>3. \A d \in Docs : d \in out => FlushDoc(r, s, d).doc[d] = RecordOf(s, d)
                                   /\ RecordOf(s, d) \in Record
  BY <1>2, FlushDocFacts, RecordOfType
<1>4. f \in [Docs -> Record \cup {None}]
  BY <1>3 DEF Disk
<1>5. \A x \in Docs : f[x] = r.doc[x] \/ (x \in out /\ f[x] = RecordOf(s, x))
  BY <1>3
<1> HIDE DEF f
<1> QED
  BY <1>1, <1>4, <1>5 DEF Disk

(* Who leaves the cache for d was in it. *)
LEMMA VictimsFacts ==
  ASSUME NEW s, NEW d, NEW out \in Victims(s, d)
  PROVE  out \in SUBSET Cached(s) /\ out \in SUBSET Docs /\ d \notin out
BY DEF Victims, Cached

-----------------------------------------------------------------------------
(* Small facts                                                             *)

LEMMA IsDeletedIs == \A E : IsDeleted(E) \in BOOLEAN
BY DEF IsDeleted

LEMMA OfIs ==
  ASSUME NEW d \in Docs
  PROVE  Of(d) \subseteq Entries /\ \A e \in Of(d) : DocOf[e] = d
BY DEF Of

LEMMA TrustedIs == \A E : Trusted(E) \subseteq E
BY DEF Trusted

LEMMA UnknownAre ==
  ASSUME NEW E \in SUBSET Entries, NEW d \in Docs
  PROVE  /\ UnknownAuthors(E, d) \in SUBSET (Authors \X Docs)
         /\ \A e \in E : e \in Trusted(E) \/ <<AuthorOf[e], d>> \in UnknownAuthors(E, d)
BY DEF UnknownAuthors, Authors, Trusted

LEMMA StoredIs ==
  ASSUME store \in Seq(Entries)
  PROVE  Stored \subseteq Entries /\ StoreDocs \subseteq Docs
<1>1. Stored \subseteq Entries
  BY DEF Stored
<1> QED
  BY <1>1, ConstantsAssumption DEF StoreDocs, Entries

LEMMA EmitFacts ==
  ASSUME feed \in Consumer, NEW s \in Database, Emit(s)
  PROVE  /\ db' \in Database /\ db' = [s EXCEPT !.notes = FALSE]
         /\ db'.cursor = s.cursor /\ db'.cache = s.cache /\ db'.pending = s.pending
         /\ db'.index = s.index /\ db'.next = s.next /\ db'.fp = s.fp
         /\ db'.ready = s.ready /\ ~db'.notes
         /\ feed' \in Consumer /\ feed'.cursor = feed.cursor /\ feed'.seen = feed.seen
         /\ feed'.awake = (feed.awake \/ s.notes)
BY DEF Emit, Database, Consumer

LEMMA TouchFacts ==
  ASSUME op \in OpJob, NEW d, NEW unread, Touch(d, unread)
  PROVE  /\ op' \in OpJob
         /\ op'.pc = op.pc /\ op'.doc = op.doc /\ op'.entry = op.entry
         /\ op'.result = op.result /\ op'.read = op.read
         /\ op.touched => op'.touched
         /\ op.doc = d /\ unread => op'.touched
BY DEF Touch, OpJob

(* The parts of TypeOK that an action leaves alone. *)
LEMMA OpTypeKept ==
  ASSUME TypeOK, op' \in OpJob, op'.pc = op.pc, op'.doc = op.doc, op'.entry = op.entry,
         op'.result = op.result
  PROVE  /\ op'.pc /= "idle" => op'.doc \in Docs /\ op'.result \in Content
         /\ op'.pc \in {"write", "stored"} => op'.entry \in Entries
BY DEF TypeOK

LEMMA IdleTypes ==
  /\ NoSync \in SyncJob /\ NoSync.pc = "idle"
  /\ NoOp \in OpJob /\ NoOp.pc = "idle"
  /\ NoRecon \in Recon
BY DEF NoSync, NoOp, NoRecon, SyncJob, OpJob, Recon

LEMMA ClosedIs ==
  /\ Closed \in Database
  /\ Closed.cursor = 0 /\ Closed.next = 1 /\ Closed.pending = {} /\ ~Closed.ready
  /\ \A d \in Docs : Closed.cache[d] = None /\ Closed.index[d] = Absent
<1> DEFINE index == [d \in Docs |-> Absent]
           cache == [d \in Docs |-> None]
<1>1. index \in [Docs -> IndexEntry]
  BY DEF Absent, IndexEntry
<1>2. cache \in [Docs -> Content \cup {None}]
  OBVIOUS
<1>3. Closed = [cursor |-> 0, index |-> index, next |-> 1,
                cache |-> cache, dirty |-> {}, meta |-> FALSE,
                pending |-> {}, fp |-> None, notes |-> FALSE, ready |-> FALSE]
  BY DEF Closed
<1>4. \A d \in Docs : cache[d] = None /\ index[d] = Absent
  OBVIOUS
<1> HIDE DEF index, cache
<1>5. Closed \in Database
  <2>1. {} \in SUBSET (Authors \X Docs) /\ None \in (SUBSET Docs) \cup {None}
    OBVIOUS
  <2> QED
    BY <1>1, <1>2, <1>3, <2>1 DEF Database
<1> QED
  BY <1>3, <1>4, <1>5

LEMMA ProcessedFacts ==
  ASSUME sync \in SyncJob, NEW d
  PROVE  /\ Processed(d) \in SyncJob /\ Processed(d).pc = "docs"
         /\ Processed(d).todo = sync.todo \ {d} /\ Processed(d).batch = sync.batch
         /\ Processed(d).next = sync.next /\ Processed(d).doc = None
BY DEF Processed, SyncJob

-----------------------------------------------------------------------------
(* The types are kept                                                      *)

LEMMA InitType == Init => TypeOK
<1> SUFFICES ASSUME Init
             PROVE  TypeOK
  OBVIOUS
<1>1. [d \in Docs |-> Absent] \in [Docs -> IndexEntry]
  BY DEF Absent, IndexEntry
<1>2. db \in Database
  BY ClosedIs DEF Init, Database
<1>3. l2 \in Disk
  BY DEF Init, Disk
<1>4. feed \in Consumer /\ saved \in Saved
  BY DEF Init, Consumer, Saved
<1>5. lost \in History
  BY DEF Init, History
<1> QED
  BY <1>2, <1>3, <1>4, <1>5, IdleTypes DEF Init, TypeOK

LEMMA ReceiveType == ASSUME TypeOK, NEW e \in Entries, Receive(e) PROVE TypeOK'
BY DEF TypeOK, Receive, jobs, outside

LEMMA SyncStartType == ASSUME TypeOK, SyncStart PROVE TypeOK'
<1> DEFINE batch == {store[i] : i \in (db.cursor + 1)..Len(store)}
<1>1. store \in Seq(Entries) /\ db \in Database /\ feed \in Consumer
  BY DEF TypeOK
<1>2. db.cursor \in Nat
  BY <1>1 DEF Database
<1>3. batch \in SUBSET Entries
  BY <1>1, <1>2
<1>4. {DocOf[e] : e \in batch} \in SUBSET Docs
  BY <1>3, ConstantsAssumption DEF Entries
<1>5. Len(store) \in Nat
  BY <1>1
<1>6. sync' = [NoSync EXCEPT !.pc = "docs", !.batch = batch, !.next = Len(store),
                             !.todo = {DocOf[e] : e \in batch}]
  BY DEF SyncStart
<1> HIDE DEF batch
<1>7. sync' \in SyncJob /\ sync'.pc = "docs"
  BY <1>3, <1>4, <1>5, <1>6 DEF NoSync, SyncJob
<1>8. db' \in Database /\ feed' \in Consumer
  BY <1>1, EmitFacts DEF SyncStart
<1> QED
  BY <1>7, <1>8 DEF TypeOK, SyncStart

LEMMA ApplyNewEntriesType ==
  ASSUME TypeOK, NEW d \in Docs, ApplyNewEntries(d) PROVE TypeOK'
<1> DEFINE new == sync.batch \cap Of(d)
           r == [has |-> db.cache[d].has \cup Trusted(new), del |-> IsDeleted(Stored \cap Of(d))]
<1>1. db \in Database /\ sync \in SyncJob /\ op \in OpJob /\ lost \in History
  BY DEF TypeOK
<1>2. new \in SUBSET Entries
  BY <1>1 DEF SyncJob
<1>3. db.cache[d] \in Content
  BY <1>1 DEF ApplyNewEntries, Database
<1>4. r \in Content
  BY <1>2, <1>3, IsDeletedIs, TrustedIs DEF Content
<1>5. db' \in Database
  BY <1>1, <1>2, UnknownAre, RecordPendingFacts DEF ApplyNewEntries
<1>6. sync' = Processed(d) \/ sync' = [sync EXCEPT !.pc = "apply", !.doc = d, !.result = r]
  BY DEF ApplyNewEntries
<1> HIDE DEF r
<1>7. /\ sync' \in SyncJob
      /\ sync'.pc \in {"apply", "index", "hide"} => sync'.doc \in Docs /\ sync'.result \in Content
  <2>1. CASE sync' = Processed(d)
    BY <1>1, <2>1, ProcessedFacts
  <2>2. CASE sync' = [sync EXCEPT !.pc = "apply", !.doc = d, !.result = r]
    BY <1>1, <1>4, <2>2 DEF SyncJob
  <2> QED
    BY <1>6, <2>1, <2>2
<1>8. lost' \in History
  BY <1>1 DEF ApplyNewEntries, History
<1>9. op' \in OpJob /\ op'.pc = op.pc /\ op'.doc = op.doc /\ op'.entry = op.entry
      /\ op'.result = op.result
  BY <1>1, TouchFacts DEF ApplyNewEntries
<1> QED
  BY <1>5, <1>7, <1>8, <1>9, OpTypeKept DEF TypeOK, ApplyNewEntries, outside

LEMMA ApplyFinishType == ASSUME TypeOK, ApplyFinish PROVE TypeOK'
<1> DEFINE d == sync.doc
<1>1. db \in Database /\ l2 \in Disk /\ sync \in SyncJob /\ op \in OpJob /\ lost \in History
      /\ d \in Docs /\ sync.result \in Content
  BY DEF TypeOK, ApplyFinish
<1>2. PICK out \in Victims(db, d) :
        /\ db' = UpdateIndex(MarkDocDirty(StoreCachedDocument(db, d, sync.result, out), d),
                             d, sync.result.del, "visible", TRUE)
        /\ l2' = FlushVictims(l2, db, out)
  BY DEF ApplyFinish
<1>3. out \in SUBSET Cached(db) /\ out \in SUBSET Docs /\ d \notin out
  BY VictimsFacts
<1>4. StoreCachedDocument(db, d, sync.result, out) \in Database
  BY <1>1, <1>3, StoreCachedFacts
<1>5. MarkDocDirty(StoreCachedDocument(db, d, sync.result, out), d) \in Database
  BY <1>1, <1>4, MarkDirtyFacts
<1>6. db' \in Database
  <2>1. sync.result.del \in BOOLEAN /\ "visible" \in States /\ TRUE \in BOOLEAN
    BY <1>1 DEF Content, States
  <2>2. Indexed(db', MarkDocDirty(StoreCachedDocument(db, d, sync.result, out), d), d,
                sync.result.del, "visible", TRUE)
    BY <1>1, <1>2, <1>5, <2>1, UpdateIndexFacts
  <2> QED
    BY <2>2 DEF Indexed
<1>7. l2' \in Disk
  BY <1>1, <1>2, <1>3, FlushVictimsFacts
<1>8. sync' \in SyncJob /\ sync'.pc = "docs"
  BY <1>1, ProcessedFacts DEF ApplyFinish
<1>9. op' \in OpJob /\ op'.pc = op.pc /\ op'.doc = op.doc /\ op'.entry = op.entry
      /\ op'.result = op.result
  BY <1>1, TouchFacts DEF ApplyFinish
<1>10. lost' \in History
  <2>1. Unhidden(d) \in BOOLEAN
    BY <1>1 DEF Unhidden, History
  <2> QED
    BY <1>1, <2>1 DEF ApplyFinish, History
<1> QED
  BY <1>6, <1>7, <1>8, <1>9, <1>10, OpTypeKept DEF TypeOK, ApplyFinish, outside

LEMMA IndexFromMetadataType ==
  ASSUME TypeOK, NEW d \in Docs, IndexFromMetadata(d) PROVE TypeOK'
<1>1. db \in Database /\ sync \in SyncJob /\ op \in OpJob
  BY DEF TypeOK
<1>2. db' \in Database
  <2>1. PICK all : db' = UpdateIndex(db, d, IsDeleted(all), "visible", TRUE)
    BY DEF IndexFromMetadata
  <2>2. IsDeleted(all) \in BOOLEAN /\ "visible" \in States
    BY IsDeletedIs DEF States
  <2>3. Indexed(db', db, d, IsDeleted(all), "visible", TRUE)
    BY <1>1, <2>1, <2>2, UpdateIndexFacts
  <2> QED
    BY <2>3 DEF Indexed
<1>3. sync' \in SyncJob /\ sync'.pc = "docs"
  BY <1>1, ProcessedFacts DEF IndexFromMetadata
<1>4. op' \in OpJob /\ op'.pc = op.pc /\ op'.doc = op.doc /\ op'.entry = op.entry
      /\ op'.result = op.result
  BY <1>1, TouchFacts DEF IndexFromMetadata
<1> QED
  BY <1>2, <1>3, <1>4, OpTypeKept DEF TypeOK, IndexFromMetadata, outside

LEMMA ScanMetadataType ==
  ASSUME TypeOK, NEW d \in Docs, ScanMetadata(d) PROVE TypeOK'
<1> DEFINE r == [has |-> {}, del |-> IsDeleted(Stored \cap Of(d))]
<1>1. r \in Content
  BY IsDeletedIs DEF Content
<1>2. sync' = [sync EXCEPT !.pc = "index", !.doc = d, !.result = r]
  BY DEF ScanMetadata
<1> HIDE DEF r
<1>3. sync' \in SyncJob /\ sync'.pc = "index" /\ sync'.doc \in Docs /\ sync'.result \in Content
  BY <1>1, <1>2 DEF TypeOK, SyncJob
<1> QED
  BY <1>3 DEF TypeOK, ScanMetadata, outside

(* What a handler that publishes or hides a document may remember as lost. *)
LEMMA HiddenOrShownAre ==
  ASSUME lost \in History, NEW d
  PROVE  Unhidden(d) \in BOOLEAN /\ Unshown(d) \in BOOLEAN
BY DEF Unhidden, Unshown, History

LEMMA IndexScannedType == ASSUME TypeOK, IndexScanned PROVE TypeOK'
<1> DEFINE d == sync.doc
<1>1. /\ db \in Database /\ sync \in SyncJob /\ op \in OpJob /\ lost \in History
      /\ d \in Docs /\ sync.result \in Content
  BY DEF TypeOK, IndexScanned
<1>2. sync.result.del \in BOOLEAN /\ "visible" \in States /\ TRUE \in BOOLEAN
  BY <1>1 DEF Content, States
<1>3. db' \in Database
  <2>1. db' = UpdateIndex(db, d, sync.result.del, "visible", TRUE)
    BY DEF IndexScanned
  <2>2. Indexed(db', db, d, sync.result.del, "visible", TRUE)
    BY <1>1, <1>2, <2>1, UpdateIndexFacts
  <2> QED
    BY <2>2 DEF Indexed
<1>4. sync' \in SyncJob /\ sync'.pc = "docs"
  BY <1>1, ProcessedFacts DEF IndexScanned
<1>5. op' \in OpJob /\ op'.pc = op.pc /\ op'.doc = op.doc /\ op'.entry = op.entry
      /\ op'.result = op.result
  BY <1>1, TouchFacts DEF IndexScanned
<1>6. lost' \in History
  BY <1>1, HiddenOrShownAre DEF IndexScanned, History
<1> QED
  BY <1>3, <1>4, <1>5, <1>6, OpTypeKept DEF TypeOK, IndexScanned, outside

(* A document is hidden: if it was not hidden already, it gets a new       *)
(* changeSeq.                                                              *)
HiddenNow(r, s, d) ==
  /\ r \in Database
  /\ r.cursor = s.cursor /\ r.pending = s.pending /\ r.fp = s.fp
  /\ r.ready = s.ready /\ r.cache = s.cache
  /\ \A x \in Docs : x /= d => r.index[x] = s.index[x]
  /\ \/ r.index = s.index /\ r.next = s.next /\ r.notes = s.notes
        /\ s.index[d].state = "inaccessible"
     \/ /\ r.index[d] = [seq |-> s.next, del |-> TRUE, state |-> "inaccessible"]
        /\ r.next = s.next + 1 /\ r.notes

LEMMA HideFacts ==
  ASSUME NEW s \in Database, NEW d \in Docs
  PROVE  HiddenNow(Hide(s, d), s, d)
<1> DEFINE u == UpdateIndex(s, d, TRUE, "inaccessible", FALSE)
<1>1. Hide(s, d) = u
  BY DEF Hide
<1>2. "inaccessible" \in States
  BY DEF States
<1>3. Indexed(u, s, d, TRUE, "inaccessible", FALSE)
  BY <1>2, UpdateIndexFacts
<1> HIDE DEF u
<1> QED
  BY <1>1, <1>3 DEF HiddenNow, Indexed

LEMMA SyncWithoutKeyFacts ==
  ASSUME TypeOK, NEW d \in Docs, SyncWithoutKey(d)
  PROVE  /\ db' \in Database
         /\ db'.cursor = db.cursor /\ db'.pending = db.pending /\ db'.index = db.index
         /\ db'.next = db.next /\ db'.fp = db.fp /\ db'.ready = db.ready
         /\ db'.notes = db.notes /\ db'.cache[d] = None
         /\ \A x \in Docs : x /= d => db'.cache[x] = db.cache[x]
         /\ l2' \in Disk /\ l2'.meta = l2.meta /\ l2'.doc[d] \in {l2.doc[d], None}
         /\ \A x \in Docs : x /= d => l2'.doc[x] = l2.doc[x]
<1>1. db \in Database /\ l2 \in Disk /\ db' = [db EXCEPT !.cache[d] = None]
  BY DEF TypeOK, SyncWithoutKey
<1>2. l2' = PurgeRecord(l2, d) \/ l2' = l2
  BY DEF SyncWithoutKey
<1>3. /\ db' \in Database
      /\ db'.cursor = db.cursor /\ db'.pending = db.pending /\ db'.index = db.index
      /\ db'.next = db.next /\ db'.fp = db.fp /\ db'.ready = db.ready
      /\ db'.notes = db.notes /\ db'.cache[d] = None
      /\ \A x \in Docs : x /= d => db'.cache[x] = db.cache[x]
  BY <1>1 DEF Database
<1> QED
  BY <1>1, <1>2, <1>3, PurgeRecordFacts

LEMMA SyncWithoutKeyType ==
  ASSUME TypeOK, NEW d \in Docs, SyncWithoutKey(d) PROVE TypeOK'
<1>1. sync \in SyncJob /\ op \in OpJob
  BY DEF TypeOK
<1>2. sync' \in SyncJob /\ sync'.pc = "docs"
  BY <1>1, ProcessedFacts DEF SyncWithoutKey
<1>3. op' \in OpJob /\ op'.pc = op.pc /\ op'.doc = op.doc /\ op'.entry = op.entry
      /\ op'.result = op.result
  BY <1>1, TouchFacts DEF SyncWithoutKey
<1> QED
  BY <1>2, <1>3, SyncWithoutKeyFacts, OpTypeKept DEF TypeOK, SyncWithoutKey, outside

LEMMA SyncPurgeType == ASSUME TypeOK, NEW d \in Docs, SyncPurge(d) PROVE TypeOK'
<1>1. db' \in Database /\ l2' \in Disk
  BY PurgeFacts, PurgeRecordFacts DEF TypeOK, SyncPurge
<1>2. sync' \in SyncJob /\ sync'.pc = "hide" /\ sync'.doc \in Docs
  BY DEF TypeOK, SyncPurge, SyncJob
<1> QED
  BY <1>1, <1>2 DEF TypeOK, SyncPurge, outside

LEMMA SyncHideFacts ==
  ASSUME TypeOK, SyncHide
  PROVE  sync.doc \in Docs /\ HiddenNow(db', db, sync.doc)
<1> DEFINE d == sync.doc
           h == Hide(db, d)
<1>1. db \in Database /\ d \in Docs
  BY DEF TypeOK, SyncHide
<1>2. HiddenNow(h, db, d)
  BY <1>1, HideFacts
<1>3. db' = [h EXCEPT !.meta = TRUE]
  BY DEF SyncHide
<1> HIDE DEF h
<1>4. /\ db' \in Database /\ db'.cursor = h.cursor /\ db'.pending = h.pending /\ db'.fp = h.fp
      /\ db'.ready = h.ready /\ db'.cache = h.cache /\ db'.index = h.index
      /\ db'.next = h.next /\ db'.notes = h.notes
  BY <1>2, <1>3 DEF HiddenNow, Database
<1> QED
  BY <1>1, <1>2, <1>4 DEF HiddenNow

LEMMA SyncHideType == ASSUME TypeOK, SyncHide PROVE TypeOK'
<1>1. sync \in SyncJob /\ op \in OpJob /\ lost \in History /\ sync.doc \in Docs
  BY DEF TypeOK, SyncHide
<1>2. db' \in Database
  BY SyncHideFacts DEF HiddenNow
<1>3. sync' \in SyncJob /\ sync'.pc = "docs"
  BY <1>1, ProcessedFacts DEF SyncHide
<1>4. op' \in OpJob /\ op'.pc = op.pc /\ op'.doc = op.doc /\ op'.entry = op.entry
      /\ op'.result = op.result
  BY <1>1, TouchFacts DEF SyncHide
<1>5. lost' \in History
  BY <1>1, HiddenOrShownAre DEF SyncHide, History
<1> QED
  BY <1>2, <1>3, <1>4, <1>5, OpTypeKept DEF TypeOK, SyncHide, outside

LEMMA SyncDoneType == ASSUME TypeOK, SyncDone PROVE TypeOK'
<1> DEFINE s == [db EXCEPT !.cursor = sync.next, !.meta = TRUE]
<1>1. db \in Database /\ sync \in SyncJob /\ feed \in Consumer
  BY DEF TypeOK
<1>2. s \in Database
  BY <1>1 DEF Database, SyncJob
<1>3. db' \in Database /\ feed' \in Consumer
  BY <1>1, <1>2, EmitFacts DEF SyncDone
<1> QED
  BY <1>3, IdleTypes DEF TypeOK, SyncDone

(* What a load returns, from all the entries or from the record. *)
LEMMA FullLoadFacts ==
  ASSUME TypeOK, NEW d \in Docs
  PROVE  LET load == FullLoad(d)
         IN /\ load.result \in Content /\ load.read \in SUBSET Entries /\ load.dirty \in BOOLEAN
            /\ load.read = Stored \cap Of(d)
            /\ load.result.has = Trusted(Stored \cap Of(d))
            /\ load.pending = UnknownAuthors(Stored \cap Of(d), d)
            /\ load.pending \in SUBSET (Authors \X Docs)
<1>1. Stored \cap Of(d) \in SUBSET Entries
  BY StoredIs DEF TypeOK
<1> QED
  BY <1>1, TrustedIs, IsDeletedIs, UnknownAre DEF FullLoad, Content

LEMMA TryLoadFacts ==
  ASSUME TypeOK, NEW d \in Docs, l2.doc[d] /= None
  PROVE  LET load == TryLoadFromL2(d)
             rec == l2.doc[d]
             missing == (Stored \cap Of(d)) \ rec.has
         IN /\ load.result \in Content /\ load.read \in SUBSET Entries /\ load.dirty \in BOOLEAN
            /\ load.pending \in SUBSET (Authors \X Docs)
            /\ \/ /\ rec.seq >= db.index[d].seq
                  /\ load.result.has = rec.has /\ load.read = rec.has /\ load.pending = {}
               \/ /\ rec.seq < db.index[d].seq
                  /\ load.result.has = rec.has \cup Trusted(missing)
                  /\ load.read = rec.has \cup missing
                  /\ load.pending = UnknownAuthors(missing, d)
<1> DEFINE rec == l2.doc[d]
           missing == (Stored \cap Of(d)) \ rec.has
           old == [has |-> rec.has, del |-> rec.del]
           new == [has |-> rec.has \cup Trusted(missing), del |-> IsDeleted(Stored \cap Of(d))]
<1>1. rec \in Record /\ db.index[d].seq \in Nat
  BY DEF TypeOK, Disk, Database, IndexEntry
<1>2. rec.has \in SUBSET Entries /\ rec.del \in BOOLEAN /\ rec.seq \in Nat
  BY <1>1 DEF Record
<1>3. missing \in SUBSET Entries
  BY StoredIs DEF TypeOK
<1>4. Trusted(missing) \in SUBSET Entries
  BY <1>3, TrustedIs
<1>5. old \in Content /\ new \in Content
  BY <1>2, <1>4, IsDeletedIs DEF Content
<1>6. UnknownAuthors(missing, d) \in SUBSET (Authors \X Docs)
  BY <1>3, UnknownAre
<1>7. TryLoadFromL2(d) =
        IF rec.seq >= db.index[d].seq
        THEN [result |-> old, dirty |-> rec.seq > db.index[d].seq, read |-> rec.has, pending |-> {}]
        ELSE [result |-> IF Trusted(missing) = {} THEN old ELSE new,
              dirty |-> Trusted(missing) /= {}, read |-> rec.has \cup missing,
              pending |-> UnknownAuthors(missing, d)]
  BY DEF TryLoadFromL2
<1>8. (rec.seq > db.index[d].seq) \in BOOLEAN /\ (rec.seq >= db.index[d].seq \/ rec.seq < db.index[d].seq)
  BY <1>1, <1>2, SMT
<1>9. old.has = rec.has /\ new.has = rec.has \cup Trusted(missing)
  OBVIOUS
<1>10. Trusted(missing) = {} => rec.has = rec.has \cup Trusted(missing)
  OBVIOUS
<1> HIDE DEF old, new, missing, rec
<1>11. CASE rec.seq >= db.index[d].seq
  BY <1>2, <1>5, <1>7, <1>8, <1>9, <1>11 DEF rec
<1>12. CASE ~(rec.seq >= db.index[d].seq)
  <2>1. TryLoadFromL2(d) =
          [result |-> IF Trusted(missing) = {} THEN old ELSE new,
              dirty |-> Trusted(missing) /= {}, read |-> rec.has \cup missing,
              pending |-> UnknownAuthors(missing, d)]
    BY <1>7, <1>12
  <2>2. TryLoadFromL2(d).result \in Content
        /\ TryLoadFromL2(d).result.has = rec.has \cup Trusted(missing)
    BY <2>1, <1>5, <1>9, <1>10
  <2>3. TryLoadFromL2(d).read = rec.has \cup missing /\ TryLoadFromL2(d).dirty \in BOOLEAN
        /\ TryLoadFromL2(d).pending = UnknownAuthors(missing, d)
    BY <2>1
  <2>4. rec.seq < db.index[d].seq
    BY <1>8, <1>12
  <2> QED
    BY <2>2, <2>3, <2>4, <1>2, <1>3, <1>6 DEF rec, missing
<1> QED
  BY <1>11, <1>12

LEMMA LoadStartType == ASSUME TypeOK, NEW d \in Docs, LoadStart(d) PROVE TypeOK'
<1> DEFINE usable == l2.doc[d] /= None /\ db.index[d].state /= "none"
<1>1. PICK load : /\ load = IF usable THEN TryLoadFromL2(d) ELSE FullLoad(d)
                  /\ op' = [NoOp EXCEPT !.pc = "load", !.doc = d, !.result = load.result,
                                        !.read = load.read, !.dirty = load.dirty]
                  /\ db' = RecordPending(db, load.pending)
                  /\ lost' = [lost EXCEPT
                       !.early = IF Ahead \cap Of(d) = {} THEN @ ELSE @ \cup {d},
                       !.skipped = IF load.pending = {} THEN @ ELSE @ \cup {d}]
  BY DEF LoadStart
<1>2. /\ load.result \in Content /\ load.read \in SUBSET Entries /\ load.dirty \in BOOLEAN
      /\ load.pending \in SUBSET (Authors \X Docs)
  BY <1>1, FullLoadFacts, TryLoadFacts
<1>3. db \in Database /\ l2 \in Disk /\ lost \in History
  BY DEF TypeOK
<1>4. db' \in Database
  BY <1>1, <1>2, <1>3, RecordPendingFacts
<1>5. op' \in OpJob /\ op'.pc = "load" /\ op'.doc = d /\ op'.result = load.result
  BY <1>1, <1>2 DEF NoOp, OpJob
<1>6. l2' \in Disk
  BY <1>3, PurgeRecordFacts DEF LoadStart
<1>7. lost' \in History
  BY <1>1, <1>3 DEF History
<1> QED
  BY <1>2, <1>4, <1>5, <1>6, <1>7 DEF TypeOK, LoadStart, outside

LEMMA LoseFacts ==
  ASSUME lost \in History, NEW d \in Docs, Lose(d)
  PROVE  /\ lost' \in History
         /\ lost'.docs = IF op.touched \/ RecordBehind(d) THEN lost.docs \cup {d} ELSE lost.docs
         /\ lost'.keys = IF op.pc = "stored" THEN Unhidden(d) ELSE lost.keys
         /\ lost'.stale = lost.stale /\ lost'.early = lost.early /\ lost'.feed = lost.feed
         /\ lost'.heal = lost.heal /\ lost'.skipped = lost.skipped
         /\ lost'.passed = lost.passed /\ lost'.unread = lost.unread
         /\ lost'.rekeyed = lost.rekeyed
<1>1. Unhidden(d) \in BOOLEAN
  BY DEF Unhidden, History
<1> QED
  BY <1>1 DEF Lose, History

LEMMA LoadFinishType == ASSUME TypeOK, LoadFinish PROVE TypeOK'
<1> DEFINE d == op.doc
<1>1. db \in Database /\ l2 \in Disk /\ op \in OpJob /\ lost \in History
      /\ d \in Docs /\ op.result \in Content
  BY DEF TypeOK, LoadFinish
<1>2. PICK out \in Victims(db, d) :
        LET s == StoreCachedDocument(db, d, op.result, out)
        IN /\ db' = IF op.dirty THEN MarkDocDirty(s, d) ELSE s
           /\ l2' = FlushVictims(l2, db, out)
  BY DEF LoadFinish
<1>3. out \in SUBSET Cached(db) /\ out \in SUBSET Docs /\ d \notin out
  BY VictimsFacts
<1>4. StoreCachedDocument(db, d, op.result, out) \in Database
  BY <1>1, <1>3, StoreCachedFacts
<1>5. db' \in Database
  BY <1>1, <1>2, <1>4, MarkDirtyFacts
<1>6. l2' \in Disk
  BY <1>1, <1>2, <1>3, FlushVictimsFacts
<1>7. lost' \in History
  BY <1>1, LoseFacts DEF LoadFinish
<1> QED
  BY <1>5, <1>6, <1>7, IdleTypes DEF TypeOK, LoadFinish, outside

LEMMA ReadRefusedType == ASSUME TypeOK, NEW d \in Docs, ReadRefused(d) PROVE TypeOK'
<1>1. db' \in Database /\ l2' \in Disk
  BY PurgeFacts, PurgeRecordFacts DEF TypeOK, ReadRefused
<1> QED
  BY <1>1 DEF TypeOK, ReadRefused, jobs, outside

(* A write starts from nothing, or from the document in memory. *)
WriteBegins(e, has, base, del) ==
  /\ BeginWrite(e, has, base, del)
  /\ has \in SUBSET Entries /\ base \in SUBSET Entries /\ del \in BOOLEAN
  /\ \/ /\ has = {} /\ DocOf[e] \notin StoreDocs
        /\ db.cache[DocOf[e]] = None /\ db.index[DocOf[e]].state = "none"
     \/ /\ Kind[e] /= "create" /\ db.cache[DocOf[e]] /= None
        /\ has = db.cache[DocOf[e]].has

BeginsWrite(e) == \E has, base, del : WriteBegins(e, has, base, del)

LEMMA WritesBegin ==
  ASSUME TypeOK, NEW e \in Entries,
         CreateDocument(e) \/ ChangeDoc(e) \/ ApplyPatch(e) \/ DeleteDoc(e) \/ UndeleteDoc(e)
  PROVE  BeginsWrite(e)
<1> DEFINE d == DocOf[e]
           c == db.cache[d]
<1>1. d \in Docs
  BY ConstantsAssumption DEF Entries
<1>2. c /= None => c.has \in SUBSET Entries
  BY <1>1 DEF TypeOK, Database, Content
<1>3. CASE CreateDocument(e)
  <2>1. WriteBegins(e, {}, {}, FALSE)
    BY <1>3 DEF CreateDocument, WriteBegins
  <2> QED
    BY <2>1 DEF BeginsWrite
<1>4. CASE ChangeDoc(e)
  <2>1. WriteBegins(e, c.has, c.has, FALSE)
    BY <1>2, <1>4 DEF ChangeDoc, WriteBegins, Readable
  <2> QED
    BY <2>1 DEF BeginsWrite
<1>5. CASE ApplyPatch(e)
  <2>1. PICK base \in SUBSET c.has : BeginWrite(e, c.has, base, FALSE)
    BY <1>5 DEF ApplyPatch
  <2>2. WriteBegins(e, c.has, base, FALSE)
    BY <1>2, <1>5, <2>1 DEF ApplyPatch, WriteBegins, Readable
  <2> QED
    BY <2>2 DEF BeginsWrite
<1>6. CASE DeleteDoc(e)
  <2>1. WriteBegins(e, c.has, c.has, TRUE)
    BY <1>2, <1>6 DEF DeleteDoc, WriteBegins, Readable
  <2> QED
    BY <2>1 DEF BeginsWrite
<1>7. CASE UndeleteDoc(e)
  <2>1. WriteBegins(e, c.has, c.has, FALSE)
    BY <1>2, <1>7 DEF UndeleteDoc, WriteBegins
  <2> QED
    BY <2>1 DEF BeginsWrite
<1> QED
  BY <1>3, <1>4, <1>5, <1>6, <1>7

LEMMA BeginWriteFacts ==
  ASSUME TypeOK, NEW e \in Entries, NEW has, NEW base, NEW del, WriteBegins(e, has, base, del)
  PROVE  /\ op' \in OpJob /\ op'.pc = "write" /\ op'.doc = DocOf[e] /\ op'.entry = e
         /\ op'.result \in Content /\ op'.result.has = has \cup {e}
         /\ op'.read = has \cup {e} /\ ~op'.touched
         /\ op.pc = "idle" /\ DocOf[e] \in Docs
<1>1. op' = [NoOp EXCEPT !.pc = "write", !.doc = DocOf[e], !.entry = e, !.base = base,
                         !.read = has \cup {e}, !.result = [has |-> has \cup {e}, del |-> del]]
      /\ op.pc = "idle"
  BY DEF WriteBegins, BeginWrite
<1>2. has \cup {e} \in SUBSET Entries /\ base \in SUBSET Entries /\ del \in BOOLEAN
  BY DEF WriteBegins
<1>3. [has |-> has \cup {e}, del |-> del] \in Content
  BY <1>2 DEF Content
<1>4. DocOf[e] \in Docs
  BY ConstantsAssumption DEF Entries
<1> QED
  BY <1>1, <1>2, <1>3, <1>4 DEF NoOp, OpJob

LEMMA BeginWriteType == ASSUME TypeOK, NEW e \in Entries, BeginsWrite(e) PROVE TypeOK'
<1>1. PICK has, base, del : WriteBegins(e, has, base, del)
  BY DEF BeginsWrite
<1>2. /\ op' \in OpJob /\ op'.pc = "write" /\ op'.doc \in Docs /\ op'.entry = e
      /\ op'.result \in Content
  BY <1>1, BeginWriteFacts
<1>3. UNCHANGED <<store, db, l2, keys, sync, recon, heal, feed, saved, lost>>
  BY <1>1 DEF WriteBegins, BeginWrite, outside
<1> QED
  BY <1>2, <1>3 DEF TypeOK

LEMMA ApplyKnownFacts ==
  ASSUME TypeOK, NEW e \in Entries, ApplyKnownChange(e)
  PROVE  LET d == DocOf[e]
         IN /\ d \in Docs /\ e \in Stored /\ e \in Of(d) /\ db.cache[d] /= None
            /\ db' \in Database
            /\ db'.cursor = db.cursor /\ db'.pending = db.pending /\ db'.index = db.index
            /\ db'.next = db.next /\ db'.fp = db.fp /\ db'.ready = db.ready
            /\ db'.notes = db.notes
            /\ db'.cache[d] \in Content /\ db'.cache[d].has = db.cache[d].has \cup {e}
            /\ \A x \in Docs : x /= d => db'.cache[x] = db.cache[x]
<1> DEFINE d == DocOf[e]
           c == [db.cache[d] EXCEPT !.has = @ \cup {e}]
           s == [db EXCEPT !.cache[d].has = @ \cup {e}]
<1>1. d \in Docs /\ e \in Of(d) /\ e \in Stored /\ db.cache[d] /= None
  BY ConstantsAssumption DEF Entries, Of, ApplyKnownChange, Readable
<1>2. db \in Database
  BY DEF TypeOK
<1>3. db.cache[d] \in Content
  BY <1>1, <1>2 DEF Database
<1>4. c \in Content /\ c.has = db.cache[d].has \cup {e}
  BY <1>3 DEF Content
<1>5. db.cache \in [Docs -> Content \cup {None}]
  BY <1>2 DEF Database
<1>6. s = [db EXCEPT !.cache = [@ EXCEPT ![d] = c]]
  OBVIOUS
<1> HIDE DEF c
<1>7. [db.cache EXCEPT ![d] = c] \in [Docs -> Content \cup {None}]
  BY <1>4, <1>5
<1>8. /\ s \in Database /\ s.cache = [db.cache EXCEPT ![d] = c]
      /\ s.cursor = db.cursor /\ s.pending = db.pending /\ s.index = db.index
      /\ s.next = db.next /\ s.fp = db.fp /\ s.ready = db.ready /\ s.notes = db.notes
  BY <1>2, <1>6, <1>7 DEF Database
<1>9. db' = MarkDocDirty(s, d)
  BY DEF ApplyKnownChange
<1> HIDE DEF s
<1>10. /\ db' \in Database /\ db'.cache = [db.cache EXCEPT ![d] = c]
       /\ db'.cursor = db.cursor /\ db'.pending = db.pending /\ db'.index = db.index
       /\ db'.next = db.next /\ db'.fp = db.fp /\ db'.ready = db.ready
       /\ db'.notes = db.notes
  BY <1>1, <1>8, <1>9, MarkDirtyFacts
<1>11. db'.cache[d] = c /\ \A x \in Docs : x /= d => db'.cache[x] = db.cache[x]
  BY <1>1, <1>5, <1>10
<1> QED
  BY <1>1, <1>4, <1>10, <1>11

LEMMA ApplyKnownType == ASSUME TypeOK, NEW e \in Entries, ApplyKnownChange(e) PROVE TypeOK'
<1>1. DocOf[e] \in Docs
  BY ApplyKnownFacts
<1>2. lost' \in History
  BY <1>1 DEF TypeOK, ApplyKnownChange, History
<1> QED
  BY <1>2, ApplyKnownFacts DEF TypeOK, ApplyKnownChange, jobs, outside

LEMMA WriteRefusedType == ASSUME TypeOK, WriteRefused PROVE TypeOK'
BY IdleTypes DEF TypeOK, WriteRefused, outside

LEMMA WritePutType == ASSUME TypeOK, WritePut PROVE TypeOK'
<1>1. op' \in OpJob /\ op'.pc = "stored" /\ op'.doc = op.doc /\ op'.entry = op.entry
      /\ op'.result = op.result
  BY DEF WritePut, TypeOK, OpJob
<1>2. op.entry \in Entries
  BY DEF WritePut, TypeOK
<1>3. store' \in Seq(Entries)
  BY <1>2 DEF WritePut, TypeOK
<1> QED
  BY <1>1, <1>2, <1>3 DEF TypeOK, WritePut, outside

LEMMA WriteFinishFacts ==
  ASSUME TypeOK, WriteFinish
  PROVE  \E out \in SUBSET Cached(db), force \in BOOLEAN, s \in Database :
           /\ op.doc \notin out /\ out \in SUBSET Docs
           /\ force = (Kind[op.entry] /= "create")
           /\ s = StoreCachedDocument(db, op.doc, op.result, out)
           /\ op.result.del \in BOOLEAN
           /\ db' = MarkDocDirty(UpdateIndex(s, op.doc, op.result.del, "visible", force), op.doc)
           /\ l2' = FlushVictims(l2, db, out)
<1>1. db \in Database /\ op.doc \in Docs /\ op.result \in Content
  BY DEF TypeOK, WriteFinish
<1>2. PICK out \in Victims(db, op.doc) :
          /\ db' = MarkDocDirty(UpdateIndex(StoreCachedDocument(db, op.doc, op.result, out),
                       op.doc, op.result.del, "visible", Kind[op.entry] /= "create"), op.doc)
          /\ l2' = FlushVictims(l2, db, out)
  BY DEF WriteFinish
<1>3. out \in SUBSET Cached(db) /\ out \in SUBSET Docs /\ op.doc \notin out
  BY VictimsFacts
<1>4. StoreCachedDocument(db, op.doc, op.result, out) \in Database
  BY <1>1, <1>3, StoreCachedFacts
<1>5. op.result.del \in BOOLEAN /\ (Kind[op.entry] /= "create") \in BOOLEAN
  BY <1>1 DEF Content
<1> QED
  BY <1>2, <1>3, <1>4, <1>5

LEMMA WriteFinishType == ASSUME TypeOK, WriteFinish PROVE TypeOK'
<1>1. db \in Database /\ l2 \in Disk /\ op.doc \in Docs /\ lost \in History
  BY DEF TypeOK, WriteFinish
<1>2. PICK out \in SUBSET Cached(db), force \in BOOLEAN, s \in Database :
           /\ op.result.del \in BOOLEAN
           /\ db' = MarkDocDirty(UpdateIndex(s, op.doc, op.result.del, "visible", force), op.doc)
           /\ l2' = FlushVictims(l2, db, out)
  BY WriteFinishFacts
<1>3. "visible" \in States
  BY DEF States
<1>4. Indexed(UpdateIndex(s, op.doc, op.result.del, "visible", force), s, op.doc,
              op.result.del, "visible", force)
  BY <1>1, <1>2, <1>3, UpdateIndexFacts
<1>5. UpdateIndex(s, op.doc, op.result.del, "visible", force) \in Database
  BY <1>4 DEF Indexed
<1>6. db' \in Database
  BY <1>1, <1>2, <1>5, MarkDirtyFacts
<1>7. l2' \in Disk
  BY <1>1, <1>2, FlushVictimsFacts
<1>8. lost' \in History
  BY <1>1, LoseFacts DEF WriteFinish
<1> QED
  BY <1>6, <1>7, <1>8, IdleTypes DEF TypeOK, WriteFinish, outside

LEMMA FlushStartType == ASSUME TypeOK, FlushStart PROVE TypeOK'
BY DEF TypeOK, FlushStart

LEMMA FlushRecordType == ASSUME TypeOK, NEW d \in Docs, FlushRecord(d) PROVE TypeOK'
<1>1. l2' \in Disk
  BY FlushDocFacts DEF TypeOK, FlushRecord
<1> QED
  BY <1>1 DEF TypeOK, FlushRecord, outside

LEMMA CheckpointFacts ==
  ASSUME NEW s \in Database
  PROVE  /\ Checkpoint(s) \in Meta
         /\ Checkpoint(s).cursor = s.cursor /\ Checkpoint(s).index = s.index
         /\ Checkpoint(s).next = s.next /\ Checkpoint(s).pending = s.pending
         /\ Checkpoint(s).fp = s.fp
BY DEF Checkpoint, Meta, Database

LEMMA FlushCheckpointFacts ==
  ASSUME TypeOK, FlushCheckpoint
  PROVE  /\ l2' \in Disk /\ l2'.meta = Checkpoint(db) /\ l2'.doc = l2.doc
         /\ lost' \in History
         /\ lost'.docs = lost.docs /\ lost'.stale = lost.stale /\ lost'.early = lost.early
         /\ lost'.feed = lost.feed /\ lost'.heal = heal /\ lost'.skipped = {}
         /\ lost'.passed = {} /\ lost'.unread = lost.unread /\ lost'.keys = lost.keys
         /\ lost'.rekeyed = (recon.pc = "run" \/ recon.again \/ db.fp /= keys)
<1>1. Checkpoint(db) \in Meta
  BY CheckpointFacts DEF TypeOK
<1>2. (recon.pc = "run" \/ recon.again \/ db.fp /= keys) \in BOOLEAN
  BY DEF TypeOK, Recon
<1> QED
  BY <1>1, <1>2 DEF TypeOK, FlushCheckpoint, Disk, History

LEMMA FlushCheckpointType == ASSUME TypeOK, FlushCheckpoint PROVE TypeOK'
BY FlushCheckpointFacts DEF TypeOK, FlushCheckpoint, outside

LEMMA ClearDirtyType == ASSUME TypeOK, ClearDirty PROVE TypeOK'
<1>1. db' \in Database
  BY DEF TypeOK, ClearDirty, Database
<1> QED
  BY <1>1 DEF TypeOK, ClearDirty, outside

LEMMA KeyBagChangedType == ASSUME TypeOK, NEW d \in Docs, KeyBagChanged(d) PROVE TypeOK'
<1>1. keys' \subseteq Docs
  BY DEF TypeOK, KeyBagChanged
<1>2. recon' \in Recon
  BY DEF TypeOK, KeyBagChanged, Recon, Database
<1>3. lost' \in History
  <2>1. (~db.ready /\ (recon.fresh \/ recon.pc = "run" \/ db.fp = keys')) \in BOOLEAN
    OBVIOUS
  <2> QED
    BY <2>1 DEF TypeOK, KeyBagChanged, History
<1> QED
  BY <1>1, <1>2, <1>3 DEF TypeOK, KeyBagChanged

LEMMA PassType ==
  ASSUME TypeOK
  PROVE  /\ Pass \in Recon /\ Pass.pc = "run" /\ Pass.todo = StoreDocs
         /\ Pass.scan = Len(store) /\ Pass.doc = recon.doc /\ Pass.fp = keys
         /\ Pass.again = recon.again /\ Pass.fresh = recon.fresh
<1>1. StoreDocs \subseteq Docs /\ Len(store) \in Nat /\ keys \subseteq Docs
  BY StoredIs DEF TypeOK
<1> QED
  BY <1>1 DEF TypeOK, Pass, Recon

LEMMA ReconcileStartType == ASSUME TypeOK, ReconcileStart PROVE TypeOK'
<1>1. recon' \in Recon
  BY PassType DEF ReconcileStart, Recon
<1> QED
  BY <1>1 DEF TypeOK, ReconcileStart, outside

(* reconcileKeyVisibility, one document: with its key it is visible, and   *)
(* without it its copies go.                                               *)
LEMMA ReconcileFacts ==
  ASSUME TypeOK, NEW d \in Docs, ReconcileKeyVisibility(d)
  PROVE  /\ db' \in Database
         /\ db'.cursor = db.cursor /\ db'.pending = db.pending /\ db'.ready = db.ready
         /\ db'.fp = db.fp
         /\ \A x \in Docs : x /= d => db'.cache[x] = db.cache[x] /\ db'.index[x] = db.index[x]
         /\ db'.cache[d] \in {db.cache[d], None}
         /\ d \in keys => db'.index[d].state = "visible"
         /\ d \notin keys => db'.index = db.index
         /\ \/ db'.index = db.index /\ db'.next = db.next /\ db'.notes = db.notes
            \/ db'.index[d].seq = db.next /\ db'.next = db.next + 1 /\ db'.notes
<1> DEFINE visible == db.index[d].state = "visible"
           scanned == {store[i] : i \in 1..recon.scan} \cap Of(d)
           u == UpdateIndex(db, d, IsDeleted(scanned), "visible", FALSE)
<1>1. db' = IF d \notin keys THEN PurgeMaterialized(db, d) ELSE IF visible THEN db ELSE u
  BY DEF ReconcileKeyVisibility
<1>2. db \in Database
  BY DEF TypeOK
<1>3. CASE d \notin keys
  <2>1. db' = PurgeMaterialized(db, d)
    BY <1>1, <1>3
  <2> QED
    BY <1>2, <1>3, <2>1, PurgeFacts
<1>4. CASE d \in keys /\ visible
  <2>1. db' = db
    BY <1>1, <1>4
  <2> QED
    BY <1>2, <1>4, <2>1
<1>5. CASE d \in keys /\ ~visible
  <2>1. IsDeleted(scanned) \in BOOLEAN /\ "visible" \in States /\ FALSE \in BOOLEAN
    BY IsDeletedIs DEF States
  <2>2. Indexed(u, db, d, IsDeleted(scanned), "visible", FALSE)
    BY <1>2, <2>1, UpdateIndexFacts
  <2>3. db' = u
    BY <1>1, <1>5
  <2> HIDE DEF u, scanned
  <2>4. db'.index[d] = [seq |-> db.next, del |-> IsDeleted(scanned), state |-> "visible"]
        /\ db'.next = db.next + 1 /\ db'.notes
    BY <1>5, <2>2, <2>3 DEF Indexed
  <2> QED
    BY <1>5, <2>2, <2>3, <2>4 DEF Indexed
<1> QED
  BY <1>3, <1>4, <1>5

LEMMA ReconcileType ==
  ASSUME TypeOK, NEW d \in Docs, ReconcileKeyVisibility(d) PROVE TypeOK'
<1>1. l2' \in Disk
  BY PurgeRecordFacts DEF TypeOK, ReconcileKeyVisibility
<1>2. recon' \in Recon
  BY DEF TypeOK, ReconcileKeyVisibility, Recon
<1> QED
  BY <1>1, <1>2, ReconcileFacts DEF TypeOK, ReconcileKeyVisibility, outside

LEMMA ReconcileHideFacts ==
  ASSUME TypeOK, ReconcileHide
  PROVE  recon.doc \in Docs /\ HiddenNow(db', db, recon.doc)
<1>1. recon.doc \in Docs
  BY DEF TypeOK, Recon, ReconcileHide
<1> QED
  BY <1>1, HideFacts DEF TypeOK, ReconcileHide

LEMMA ReconcileHideType == ASSUME TypeOK, ReconcileHide PROVE TypeOK'
<1>1. db' \in Database
  BY ReconcileHideFacts DEF HiddenNow
<1>2. recon' \in Recon
  BY DEF TypeOK, ReconcileHide, Recon
<1> QED
  BY <1>1, <1>2 DEF TypeOK, ReconcileHide, outside

LEMMA ReconcileEndFacts ==
  ASSUME TypeOK, ReconcileEnd
  PROVE  /\ db' \in Database /\ recon' \in Recon
         /\ db'.cursor = db.cursor /\ db'.pending = db.pending /\ db'.index = db.index
         /\ db'.next = db.next /\ db'.cache = db.cache /\ db'.notes = db.notes /\ db'.ready
         /\ db'.fp = IF db.ready THEN keys ELSE recon.fp
         /\ recon'.pc = "idle" /\ recon'.todo = {} /\ recon'.doc = None
         /\ recon'.again = recon.again
<1> DEFINE fp == IF db.ready THEN keys ELSE recon.fp
           flag == db.meta \/ recon.changed \/ db.fp /= fp
<1>1. db \in Database /\ recon \in Recon /\ keys \subseteq Docs
  BY DEF TypeOK
<1>2. fp \in SUBSET Docs /\ flag \in BOOLEAN
  BY <1>1 DEF Recon
<1>3. db' = [db EXCEPT !.fp = fp, !.meta = flag, !.ready = TRUE]
      /\ recon' = [NoRecon EXCEPT !.again = recon.again]
  BY DEF ReconcileEnd
<1>4. fp = IF db.ready THEN keys ELSE recon.fp
  OBVIOUS
<1> HIDE DEF fp, flag
<1> QED
  BY <1>1, <1>2, <1>3, <1>4 DEF Database, Recon, NoRecon

LEMMA ReconcileEndType == ASSUME TypeOK, ReconcileEnd PROVE TypeOK'
BY ReconcileEndFacts DEF TypeOK, ReconcileEnd, outside

LEMMA AuthorTrustedType == ASSUME TypeOK, NEW a \in Unknown, AuthorTrusted(a) PROVE TypeOK'
BY DEF TypeOK, AuthorTrusted, jobs, outside

LEMMA HealStartFacts ==
  ASSUME TypeOK, HealStart
  PROVE  LET ready == {p \in db.pending : p[1] \in trusted}
         IN /\ db' \in Database
            /\ db'.cursor = db.cursor /\ db'.cache = db.cache /\ db'.index = db.index
            /\ db'.next = db.next /\ db'.fp = db.fp /\ db'.ready = db.ready
            /\ db'.notes = db.notes /\ db'.pending = db.pending \ ready
            /\ heal = {} /\ heal' = {p[2] : p \in ready} /\ heal' \subseteq Docs
<1> DEFINE ready == {p \in db.pending : p[1] \in trusted}
<1>1. db \in Database /\ db.pending \in SUBSET (Authors \X Docs)
  BY DEF TypeOK, Database
<1>2. \A p \in ready : p[2] \in Docs
  BY <1>1
<1>3. heal = {} /\ heal' = {p[2] : p \in ready} /\ db' = [db EXCEPT !.pending = @ \ ready]
  BY DEF HealStart
<1>4. db.pending \ ready \in SUBSET (Authors \X Docs)
  BY <1>1
<1> HIDE DEF ready
<1>5. /\ db' \in Database
      /\ db'.cursor = db.cursor /\ db'.cache = db.cache /\ db'.index = db.index
      /\ db'.next = db.next /\ db'.fp = db.fp /\ db'.ready = db.ready
      /\ db'.notes = db.notes /\ db'.pending = db.pending \ ready
  BY <1>1, <1>3, <1>4 DEF Database
<1>6. heal' \subseteq Docs
  BY <1>2, <1>3
<1> QED
  BY <1>3, <1>5, <1>6 DEF ready

LEMMA HealStartType == ASSUME TypeOK, HealStart PROVE TypeOK'
BY HealStartFacts DEF TypeOK, HealStart, outside

(* reconcileAuthorTrust, one document: the copies go, and with the key the *)
(* document gets a new changeSeq.                                          *)
LEMMA HealFacts ==
  ASSUME TypeOK, NEW d \in Docs, HealDocument(d)
  PROVE  /\ db' \in Database
         /\ db'.cursor = db.cursor /\ db'.pending = db.pending /\ db'.ready = db.ready
         /\ db'.fp = db.fp
         /\ \A x \in Docs : x /= d => db'.cache[x] = db.cache[x] /\ db'.index[x] = db.index[x]
         /\ db'.cache[d] = None
         /\ \/ d \notin keys /\ db'.index = db.index /\ db'.next = db.next /\ db'.notes = db.notes
            \/ /\ d \in keys /\ db'.index[d].seq = db.next /\ db'.index[d].state = "visible"
               /\ db'.next = db.next + 1 /\ db'.notes
<1> DEFINE s == PurgeMaterialized(db, d)
           u == UpdateIndex(s, d, IsDeleted(Stored \cap Of(d)), "visible", TRUE)
           t == IF d \in keys THEN u ELSE s
<1>1. db' = IF heal = {d} THEN [t EXCEPT !.meta = TRUE] ELSE t
  BY DEF HealDocument
<1>2. db \in Database
  BY DEF TypeOK
<1>3. /\ s \in Database
      /\ s.cursor = db.cursor /\ s.pending = db.pending /\ s.index = db.index
      /\ s.next = db.next /\ s.fp = db.fp /\ s.ready = db.ready /\ s.notes = db.notes
      /\ s.cache[d] = None
      /\ \A x \in Docs : x /= d => s.cache[x] = db.cache[x]
  BY <1>2, PurgeFacts
<1> HIDE DEF s
<1>4. IsDeleted(Stored \cap Of(d)) \in BOOLEAN /\ "visible" \in States /\ TRUE \in BOOLEAN
  BY IsDeletedIs DEF States
<1>5. Indexed(u, s, d, IsDeleted(Stored \cap Of(d)), "visible", TRUE)
  BY <1>3, <1>4, UpdateIndexFacts
<1> HIDE DEF u
<1>6. /\ t \in Database
      /\ t.cursor = db.cursor /\ t.pending = db.pending /\ t.ready = db.ready /\ t.fp = db.fp
      /\ \A x \in Docs : x /= d => t.cache[x] = db.cache[x] /\ t.index[x] = db.index[x]
      /\ t.cache[d] = None
      /\ \/ d \notin keys /\ t.index = db.index /\ t.next = db.next /\ t.notes = db.notes
         \/ /\ d \in keys /\ t.index[d].seq = db.next /\ t.index[d].state = "visible"
            /\ t.next = db.next + 1 /\ t.notes
  <2>1. CASE d \in keys
    BY <1>3, <1>5, <2>1 DEF Indexed
  <2>2. CASE d \notin keys
    BY <1>3, <2>2
  <2> QED
    BY <2>1, <2>2
<1> HIDE DEF t
<1>7. CASE heal = {d}
  <2>1. /\ db' \in Database /\ db'.cursor = t.cursor /\ db'.pending = t.pending
        /\ db'.ready = t.ready /\ db'.fp = t.fp /\ db'.cache = t.cache /\ db'.index = t.index
        /\ db'.next = t.next /\ db'.notes = t.notes
    BY <1>1, <1>6, <1>7 DEF Database
  <2> QED
    BY <1>6, <2>1
<1>8. CASE heal /= {d}
  BY <1>1, <1>6, <1>8
<1> QED
  BY <1>7, <1>8

LEMMA HealDocumentType == ASSUME TypeOK, NEW d \in Docs, HealDocument(d) PROVE TypeOK'
<1>1. l2' \in Disk
  BY PurgeRecordFacts DEF TypeOK, HealDocument
<1>2. op' \in OpJob /\ op'.pc = op.pc /\ op'.doc = op.doc /\ op'.entry = op.entry
      /\ op'.result = op.result
  BY TouchFacts DEF TypeOK, HealDocument
<1>3. lost' \in History
  BY DEF TypeOK, HealDocument, History
<1>4. heal' \subseteq Docs
  BY DEF TypeOK, HealDocument
<1> QED
  BY <1>1, <1>2, <1>3, <1>4, HealFacts, OpTypeKept DEF TypeOK, HealDocument, outside

(* A consumer reads what is in memory, or that the document is hidden. *)
LEMMA FeedReadFacts ==
  ASSUME TypeOK, NEW d \in Docs, FeedRead(d)
  PROVE  /\ feed' \in Consumer /\ feed'.awake = feed.awake
         /\ feed'.cursor = db.index[d].seq
         /\ \A x \in Docs : x /= d => feed'.seen[x] = feed.seen[x]
         /\ db.index[d].state = "visible" /\ ~db.index[d].del =>
              db.cache[d] /= None /\ feed'.seen[d] = db.cache[d].has
<1> DEFINE stub == db.index[d].del \/ db.index[d].state /= "visible"
           c == IF stub THEN {} ELSE db.cache[d].has
<1>1. feed \in Consumer /\ db \in Database
  BY DEF TypeOK
<1>2. stub \/ db.cache[d] /= None
  BY DEF FeedRead
<1>3. c \in SUBSET Entries
  BY <1>1, <1>2 DEF Database, Content
<1>4. feed' = [feed EXCEPT !.cursor = db.index[d].seq, !.seen[d] = c]
  BY DEF FeedRead
<1>5. db.index[d].seq \in Nat
  BY <1>1 DEF Database, IndexEntry
<1>6. ~stub => c = db.cache[d].has
  OBVIOUS
<1>7. db.index[d].state = "visible" /\ ~db.index[d].del => ~stub
  OBVIOUS
<1> HIDE DEF c, stub
<1>8. /\ feed' \in Consumer /\ feed'.awake = feed.awake /\ feed'.cursor = db.index[d].seq
      /\ feed'.seen = [feed.seen EXCEPT ![d] = c]
  BY <1>1, <1>3, <1>4, <1>5 DEF Consumer
<1>9. feed'.seen[d] = c /\ \A x \in Docs : x /= d => feed'.seen[x] = feed.seen[x]
  BY <1>1, <1>8 DEF Consumer
<1> QED
  BY <1>2, <1>6, <1>7, <1>8, <1>9

LEMMA FeedReadType == ASSUME TypeOK, NEW d \in Docs, FeedRead(d) PROVE TypeOK'
<1>1. lost' \in History
  BY DEF TypeOK, FeedRead, PassedOver, History
<1> QED
  BY <1>1, FeedReadFacts DEF TypeOK, FeedRead, jobs

LEMMA FeedEndType == ASSUME TypeOK, FeedEnd PROVE TypeOK'
BY DEF TypeOK, FeedEnd, jobs, Consumer

LEMMA NotifyTimerType == ASSUME TypeOK, NotifyTimer PROVE TypeOK'
BY EmitFacts DEF TypeOK, NotifyTimer, jobs

LEMMA FeedSaveType == ASSUME TypeOK, FeedSave PROVE TypeOK'
BY DEF TypeOK, FeedSave, jobs, Consumer, Saved

LEMMA InitializedFacts ==
  ASSUME TypeOK, Initialized
  PROVE  /\ db' \in Database /\ recon' \in Recon
         /\ db'.cursor = db.cursor /\ db'.pending = db.pending /\ db'.index = db.index
         /\ db'.next = db.next /\ db'.cache = db.cache /\ db'.notes = db.notes
         /\ \/ /\ recon.fresh \/ db.fp = keys
               /\ db'.ready /\ db'.fp = keys /\ recon' = NoRecon
            \/ db' = db /\ recon' = Pass /\ db.fp /= keys
<1>1. db \in Database /\ keys \subseteq Docs
  BY DEF TypeOK
<1>2. CASE recon.fresh \/ db.fp = keys
  <2>1. db' = [db EXCEPT !.fp = keys, !.meta = db.meta \/ db.fp /= keys, !.ready = TRUE]
        /\ recon' = NoRecon
    BY <1>2 DEF Initialized, Opened
  <2> QED
    BY <1>1, <1>2, <2>1, IdleTypes DEF Database
<1>3. CASE ~(recon.fresh \/ db.fp = keys)
  BY <1>1, <1>3, PassType DEF Initialized
<1> QED
  BY <1>2, <1>3

LEMMA InitializedType == ASSUME TypeOK, Initialized PROVE TypeOK'
BY InitializedFacts DEF TypeOK, Initialized, outside

-----------------------------------------------------------------------------
(* The process stops, and opens the database again                         *)

(* What is restored: nothing without a checkpoint, and with it the index   *)
(* and, eagerly, the records T.                                            *)
Reopened(T) ==
  /\ T \in SUBSET Records
  /\ db' \in Database /\ l2' \in Disk /\ lost' \in History
  /\ l2'.meta = l2.meta
  /\ \A x \in Docs : l2'.doc[x] \in {l2.doc[x], None}
  /\ ~db'.ready
  /\ IF l2.meta = None
     THEN /\ db'.cursor = 0 /\ db'.next = 1 /\ db'.pending = {}
          /\ \A x \in Docs : db'.cache[x] = None /\ db'.index[x] = Absent
     ELSE /\ db'.cursor = l2.meta.cursor /\ db'.index = l2.meta.index
          /\ db'.next = l2.meta.next /\ db'.pending = l2.meta.pending /\ db'.fp = l2.meta.fp
          /\ \A x \in Docs : db'.cache[x] = IF x \in T \cap keys
                                THEN [has |-> l2.doc[x].has, del |-> l2.doc[x].del] ELSE None
  /\ lost' = LoseAtRestart(l2.meta, T)

LEMMA RestartFacts == ASSUME TypeOK, Restart PROVE \E T : Reopened(T)
<1>1. PICK T \in IF RestoreToL2 \/ l2.meta = None THEN {{}} ELSE Restorable :
        /\ db' = IF l2.meta = None THEN Closed ELSE RestoreFromCache(l2.meta, T)
        /\ l2' = [l2 EXCEPT !.doc = [d \in Docs |-> IF d \in T \ keys THEN None ELSE @[d]]]
        /\ lost' = LoseAtRestart(l2.meta, T)
  BY DEF Restart
<1>2. T \in SUBSET Records /\ Records \subseteq Docs
  BY DEF Restorable, Records
<1>3. l2 \in Disk /\ keys \subseteq Docs /\ lost \in History
  BY DEF TypeOK
<1>4. /\ l2' \in Disk /\ l2'.meta = l2.meta
      /\ \A x \in Docs : l2'.doc[x] \in {l2.doc[x], None}
  <2> DEFINE doc == [d \in Docs |-> IF d \in T \ keys THEN None ELSE l2.doc[d]]
  <2>1. doc \in [Docs -> Record \cup {None}]
    BY <1>3 DEF Disk
  <2>2. \A x \in Docs : doc[x] \in {l2.doc[x], None}
    OBVIOUS
  <2>3. l2' = [l2 EXCEPT !.doc = doc]
    BY <1>1
  <2> HIDE DEF doc
  <2> QED
    BY <1>3, <2>1, <2>2, <2>3 DEF Disk
<1>5. lost' \in History
  <2> DEFINE m == l2.meta
  <2>1. lost'.docs \in SUBSET Docs /\ lost'.stale \in SUBSET Docs /\ lost'.early \in SUBSET Docs
        /\ lost'.heal \in SUBSET Docs /\ lost'.skipped \in SUBSET Docs
        /\ lost'.passed \in SUBSET Docs /\ lost'.unread \in SUBSET Docs
    BY <1>1, <1>2, <1>3 DEF LoseAtRestart, History
  <2>2. lost'.feed \in BOOLEAN /\ lost'.rekeyed \in BOOLEAN /\ lost'.keys \in BOOLEAN
    BY <1>1, <1>3 DEF LoseAtRestart, History
  <2>3. lost' = [docs |-> lost'.docs, stale |-> lost'.stale, early |-> lost'.early,
                 passed |-> lost'.passed, unread |-> lost'.unread, feed |-> lost'.feed,
                 heal |-> lost'.heal, skipped |-> lost'.skipped, rekeyed |-> lost'.rekeyed,
                 keys |-> lost'.keys]
    BY <1>1 DEF LoseAtRestart
  <2> QED
    BY <2>1, <2>2, <2>3 DEF History
<1>6. CASE l2.meta = None
  <2>1. db' = Closed
    BY <1>1, <1>6
  <2> QED
    BY <1>1, <1>2, <1>4, <1>5, <1>6, <2>1, ClosedIs DEF Reopened
<1>7. CASE l2.meta /= None
  <2> DEFINE m == l2.meta
             cache == [d \in Docs |-> IF d \in T \cap keys
                                      THEN [has |-> l2.doc[d].has, del |-> l2.doc[d].del]
                                      ELSE None]
  <2>1. m \in Meta
    BY <1>3, <1>7 DEF Disk
  <2>2. m.cursor \in Nat /\ m.index \in [Docs -> IndexEntry] /\ m.next \in Nat \ {0}
        /\ m.pending \in SUBSET (Authors \X Docs) /\ m.fp \in (SUBSET Docs) \cup {None}
    BY <2>1 DEF Meta
  <2>3. \A d \in T : l2.doc[d].has \in SUBSET Entries /\ l2.doc[d].del \in BOOLEAN
    BY <1>2, <1>3 DEF Disk, Records, Record
  <2>4. \A d \in T : [has |-> l2.doc[d].has, del |-> l2.doc[d].del] \in Content
    BY <2>3 DEF Content
  <2>5. cache \in [Docs -> Content \cup {None}]
    BY <2>4
  <2>6. \A x \in Docs : cache[x] = IF x \in T \cap keys
                          THEN [has |-> l2.doc[x].has, del |-> l2.doc[x].del] ELSE None
    OBVIOUS
  <2>7. db' = [Closed EXCEPT !.cursor = m.cursor, !.index = m.index, !.next = m.next,
                 !.pending = m.pending, !.fp = m.fp, !.cache = cache]
    BY <1>1, <1>7 DEF RestoreFromCache
  <2> HIDE DEF cache
  <2>8. /\ db' \in Database /\ db'.cursor = m.cursor /\ db'.index = m.index
        /\ db'.next = m.next /\ db'.pending = m.pending /\ db'.fp = m.fp /\ ~db'.ready
        /\ db'.cache = cache
    BY <2>2, <2>5, <2>7, ClosedIs DEF Database
  <2> QED
    BY <1>1, <1>2, <1>4, <1>5, <1>7, <2>6, <2>8 DEF Reopened
<1> QED
  BY <1>6, <1>7

LEMMA RestartType == ASSUME TypeOK, Restart PROVE TypeOK'
<1>1. PICK T : Reopened(T)
  BY RestartFacts
<1>2. feed' \in Consumer
  BY DEF TypeOK, Restart, Saved, Consumer
<1>3. recon' \in Recon
  <2>1. recon' = [NoRecon EXCEPT !.fresh = (l2.meta = None)]
    BY DEF Restart
  <2> QED
    BY <2>1, IdleTypes DEF Recon
<1> QED
  BY <1>1, <1>2, <1>3, IdleTypes DEF TypeOK, Restart, Reopened

LEMMA TypeKept == ASSUME TypeOK, [Next]_vars PROVE TypeOK'
<1>1. CASE UNCHANGED vars
  BY <1>1 DEF TypeOK, vars
<1>2. CASE SyncStep
  BY <1>2, SyncStartType, ApplyFinishType, SyncDoneType, ApplyNewEntriesType,
     IndexFromMetadataType, ScanMetadataType, IndexScannedType, SyncWithoutKeyType,
     SyncPurgeType, SyncHideType DEF SyncStep
<1>3. CASE LoadStep
  BY <1>3, LoadFinishType, LoadStartType DEF LoadStep
<1>4. CASE WriteStep
  BY <1>4, WritePutType, WriteFinishType DEF WriteStep
<1>5. CASE ReconcileStep
  BY <1>5, HealStartType, HealDocumentType, ReconcileStartType, ReconcileType,
     ReconcileHideType, ReconcileEndType DEF ReconcileStep
<1>6. CASE FeedStep
  BY <1>6, FeedEndType, NotifyTimerType, FeedReadType DEF FeedStep
<1>7. CASE FlushStep
  BY <1>7, FlushCheckpointType, ClearDirtyType, FlushRecordType DEF FlushStep
<1>8. CASE Initialized \/ FlushStart \/ FeedSave \/ Restart \/ WriteRefused
  BY <1>8, InitializedType, FlushStartType, FeedSaveType, RestartType, WriteRefusedType
<1>9. ASSUME NEW e \in Entries, Receive(e) \/ ApplyKnownChange(e)
      PROVE  TypeOK'
  BY <1>9, ReceiveType, ApplyKnownType
<1>10. ASSUME NEW e \in Entries,
              CreateDocument(e) \/ ChangeDoc(e) \/ ApplyPatch(e) \/ DeleteDoc(e) \/ UndeleteDoc(e)
       PROVE  TypeOK'
  BY <1>10, WritesBegin, BeginWriteType
<1>11. ASSUME NEW d \in Docs, ReadRefused(d) \/ KeyBagChanged(d)
       PROVE  TypeOK'
  BY <1>11, ReadRefusedType, KeyBagChangedType
<1>12. ASSUME NEW a \in Unknown, AuthorTrusted(a)
       PROVE  TypeOK'
  BY <1>12, AuthorTrustedType
<1> QED
  BY <1>1, <1>2, <1>3, <1>4, <1>5, <1>6, <1>7, <1>8, <1>9, <1>10, <1>11, <1>12 DEF Next

(* Every step keeps the open database, the records, the checkpoint, the    *)
(* suspended handlers and the consumers in their types.                    *)
THEOREM ReplayTypes == Spec => []TypeOK
<1>1. Init => TypeOK
  BY InitType
<1>2. TypeOK /\ [Next]_vars => TypeOK'
  BY TypeKept
<1> QED
  BY <1>1, <1>2, PTL DEF Spec
-----------------------------------------------------------------------------
(* What has been processed is held, noted, or counted as lost              *)

(* the documents of which a window of the code may have lost an entry      *)
Out == lost.docs \cup lost.stale

(* the entries of d among the first n of the store, and those that the     *)
(* cursor, or the sync in flight, has passed                               *)
Upto(n, d) == {e \in Of(d) : \E i \in 1..n : store[i] = e}
Seen(d) == Upto(db.cursor, d)
             \cup {e \in Of(d) \cap sync.batch : sync.pc /= "idle" /\ d \notin sync.todo}

(* An entry a copy may lack: its author is pending, or is being healed.    *)
Noted(e, d) == <<AuthorOf[e], d>> \in db.pending \/ (d \in heal /\ AuthorOf[e] \in trusted)
Holds(has, E, d) == \A e \in E : e \in has \/ Noted(e, d)

(* The index declares the record current. *)
Current(d) == /\ l2.doc[d] /= None /\ db.index[d].state = "visible"
              /\ l2.doc[d].seq >= db.index[d].seq

CachePart(d) == d \notin Out /\ db.cache[d] /= None => Holds(db.cache[d].has, Seen(d), d)
RecordPart(d) == d \notin Out /\ Current(d) => Holds(l2.doc[d].has, Seen(d), d)

(* What is only in memory has been passed: the record will not miss it.    *)
CoverPart(d) == d \notin Out /\ Current(d) /\ db.cache[d] /= None =>
                  db.cache[d].has \subseteq l2.doc[d].has \cup Seen(d)

(* The suspended handlers hold what they are about to put into memory.     *)
SyncPart(d) == d \notin Out /\ sync.pc = "apply" /\ sync.doc = d =>
                 Holds(sync.result.has, Seen(d) \cup (sync.batch \cap Of(d)), d)
OpPart(d) == d \notin Out /\ op.pc /= "idle" /\ op.doc = d /\ ~op.touched =>
               Holds(op.result.has, Seen(d) \cup op.read, d)

SeqPart(d) == /\ db.index[d].seq < db.next
              /\ d \notin lost.docs /\ l2.doc[d] /= None => l2.doc[d].seq <= db.index[d].seq

(* Only documents of the store have copies, and a document that is being   *)
(* created has none.                                                       *)
HomePart(d) ==
  /\ db.cache[d] /= None \/ l2.doc[d] /= None => d \in StoreDocs
  /\ sync.pc = "apply" /\ sync.doc = d => d \in StoreDocs
  /\ op.pc = "load" /\ op.doc = d => d \in StoreDocs
  /\ op.pc \in {"write", "stored"} /\ op.doc = d /\ Kind[op.entry] = "create" =>
       db.cache[d] = None /\ l2.doc[d] = None /\ ~(sync.pc = "apply" /\ sync.doc = d)

DocInv(d) == /\ CachePart(d) /\ RecordPart(d) /\ CoverPart(d) /\ SyncPart(d) /\ OpPart(d)
             /\ SeqPart(d) /\ HomePart(d)

(* The same of the checkpoint: what a restart would start from.            *)
MetaOut == lost.docs \cup lost.stale \cup lost.heal \cup lost.skipped
MetaHolds(has, d) ==
  \A e \in Upto(l2.meta.cursor, d) : e \in has \/ <<AuthorOf[e], d>> \in l2.meta.pending
MetaCurrent(d) ==
  /\ l2.doc[d] /= None /\ l2.doc[d].seq >= l2.meta.index[d].seq
  /\ l2.doc[d].seq = l2.meta.index[d].seq => l2.meta.index[d].state = "visible"
MetaIndex(d) ==
  /\ l2.meta.index[d].seq <= db.index[d].seq /\ l2.meta.index[d].seq < l2.meta.next
  /\ l2.meta.index[d].seq = db.index[d].seq => l2.meta.index[d] = db.index[d]
MetaCopies(d) ==
  d \notin MetaOut =>
    /\ db.cache[d] /= None => MetaHolds(db.cache[d].has, d)
    /\ MetaCurrent(d) => MetaHolds(l2.doc[d].has, d)
    /\ sync.pc = "apply" /\ sync.doc = d => MetaHolds(sync.result.has, d)
    /\ op.pc /= "idle" /\ op.doc = d /\ ~op.touched => MetaHolds(op.result.has, d)
MetaInv(d) == l2.meta /= None => MetaIndex(d) /\ MetaCopies(d)

(* The sync in flight is about the entries that follow the cursor.         *)
LogInv ==
  /\ db.cursor <= Len(store)
  /\ sync.pc /= "idle" => /\ db.cursor <= sync.next /\ sync.next <= Len(store)
                          /\ sync.batch = {store[i] : i \in (db.cursor + 1)..sync.next}
  /\ l2.meta /= None => l2.meta.cursor <= Len(store) /\ l2.meta.next <= db.next

OpInv ==
  /\ op.pc \in {"write", "stored"} => DocOf[op.entry] = op.doc
  /\ op.pc = "stored" => op.entry \in Stored
  /\ op.pc /= "idle" => op.read \ op.result.has \subseteq Stored \cap Of(op.doc)

CopiesInv == /\ TypeOK /\ LogInv /\ OpInv
             /\ \A d \in Docs : DocInv(d) /\ MetaInv(d)

-----------------------------------------------------------------------------
(* Steps that leave a document alone                                       *)

StoreGrows ==
  /\ Len(store) <= Len(store')
  /\ \A i \in 1..Len(store) : store'[i] = store[i]
  /\ Stored \subseteq Stored' /\ StoreDocs \subseteq StoreDocs'

LostGrows(d) ==
  /\ d \in lost.docs => d \in lost'.docs
  /\ d \in lost.stale => d \in lost'.stale
  /\ d \in lost.early => d \in lost'.early
  /\ d \in lost.heal => d \in lost'.heal
  /\ d \in lost.skipped => d \in lost'.skipped
  /\ d \in lost.passed => d \in lost'.passed
  /\ d \in lost.unread => d \in lost'.unread

(* The document may leave the memory, its record may be written or purged, *)
(* the index may count it up, what a load or write has read may be stale.  *)
Untouched(d) ==
  /\ db'.cache[d] \in {db.cache[d], None}
  /\ \/ db'.index[d] = db.index[d]
     \/ db'.index[d].seq = db.next /\ db.next < db'.next
  /\ \/ l2'.doc[d] \in {l2.doc[d], None}
     \/ db.cache[d] /= None /\ l2'.doc[d] = RecordOf(db, d) /\ db'.index[d] = db.index[d]
  /\ sync'.pc = "apply" /\ sync'.doc = d =>
       /\ sync.pc = "apply" /\ sync.doc = d
       /\ sync'.result = sync.result /\ sync'.batch = sync.batch
  /\ op'.pc /= "idle" /\ op'.doc = d =>
       /\ op.pc /= "idle" /\ op.doc = d /\ (op'.pc = "load" <=> op.pc = "load")
       /\ op'.result = op.result /\ op'.read = op.read /\ op'.entry = op.entry
       /\ op.touched => op'.touched
  /\ LostGrows(d)

(* ... and nothing else about it changes. *)
Calm(d) == /\ Untouched(d)
           /\ Seen(d)' = Seen(d) /\ \A e \in Entries : Noted(e, d) => Noted(e, d)'

LEMMA NatFacts ==
  ASSUME TypeOK
  PROVE  /\ db.cursor \in Nat /\ db.next \in Nat /\ Len(store) \in Nat
         /\ \A d \in Docs : db.index[d].seq \in Nat
         /\ \A d \in Docs : l2.doc[d] /= None => l2.doc[d].seq \in Nat
         /\ l2.meta /= None => /\ l2.meta.cursor \in Nat /\ l2.meta.next \in Nat
                               /\ \A d \in Docs : l2.meta.index[d].seq \in Nat
         /\ sync.next \in Nat
<1>1. db \in Database /\ l2 \in Disk /\ store \in Seq(Entries) /\ sync \in SyncJob
  BY DEF TypeOK
<1>2. db.cursor \in Nat /\ db.next \in Nat /\ \A d \in Docs : db.index[d].seq \in Nat
  BY <1>1 DEF Database, IndexEntry
<1>3. \A d \in Docs : l2.doc[d] /= None => l2.doc[d].seq \in Nat
  BY <1>1 DEF Disk, Record
<1>4. l2.meta /= None => /\ l2.meta.cursor \in Nat /\ l2.meta.next \in Nat
                         /\ \A d \in Docs : l2.meta.index[d].seq \in Nat
  BY <1>1 DEF Disk, Meta, IndexEntry
<1> QED
  BY <1>1, <1>2, <1>3, <1>4 DEF SyncJob

LEMMA SeenIsStored ==
  ASSUME TypeOK, LogInv, NEW d \in Docs
  PROVE  /\ Seen(d) \subseteq Stored \cap Of(d) /\ Seen(d) \subseteq Entries
         /\ sync.pc /= "idle" => sync.batch \subseteq Stored
         /\ l2.meta /= None => Upto(l2.meta.cursor, d) \subseteq Stored \cap Of(d)
<1>1. store \in Seq(Entries) /\ db.cursor \in Nat /\ sync.next \in Nat /\ Len(store) \in Nat
  BY NatFacts DEF TypeOK
<1>2. \A i \in 1..Len(store) : store[i] \in Stored
  BY <1>1 DEF Stored
<1>3. \A n \in Nat : n <= Len(store) => Upto(n, d) \subseteq Stored \cap Of(d)
  BY <1>1, <1>2 DEF Upto
<1>4. sync.pc /= "idle" => sync.batch \subseteq Stored
  BY <1>1, <1>2 DEF LogInv
<1>5. Seen(d) \subseteq Stored \cap Of(d)
  BY <1>1, <1>3, <1>4 DEF Seen, LogInv
<1>6. l2.meta /= None => Upto(l2.meta.cursor, d) \subseteq Stored \cap Of(d)
  BY <1>3, NatFacts DEF LogInv
<1> QED
  BY <1>4, <1>5, <1>6, OfIs

(* A document of which no entry is stored has not been passed.             *)
LEMMA NewIsUnseen ==
  ASSUME TypeOK, LogInv, NEW d \in Docs, d \notin StoreDocs
  PROVE  Seen(d) = {} /\ (l2.meta /= None => Upto(l2.meta.cursor, d) = {})
<1>1. Stored \cap Of(d) = {}
  BY DEF StoreDocs, Of
<1> QED
  BY <1>1, SeenIsStored

LEMMA UntouchedKeeps ==
  ASSUME TypeOK, TypeOK', NEW d \in Docs, DocInv(d), Untouched(d), StoreGrows, LogInv,
         db.next <= db'.next
  PROVE  SeqPart(d)' /\ HomePart(d)'
<1> USE DEF Untouched
<1>4. db.index[d].seq \in Nat /\ db.next \in Nat /\ db'.index[d].seq \in Nat /\ db'.next \in Nat
  BY NatFacts DEF TypeOK, Database, IndexEntry
<1>5. l2.doc[d] /= None => l2.doc[d].seq \in Nat
  BY NatFacts
<1>6. SeqPart(d)'
  <2>1. db.index[d].seq < db.next
        /\ (d \notin lost.docs /\ l2.doc[d] /= None => l2.doc[d].seq <= db.index[d].seq)
    BY DEF DocInv, SeqPart
  <2>2. d \notin lost'.docs => d \notin lost.docs
    BY DEF LostGrows
  <2>3. l2'.doc[d] = RecordOf(db, d) => l2'.doc[d].seq = db.index[d].seq
    BY DEF RecordOf
  <2>4. db'.index[d].seq < db'.next
    BY <1>4, <2>1
  <2>5. ASSUME d \notin lost'.docs, l2'.doc[d] /= None
        PROVE  l2'.doc[d].seq <= db'.index[d].seq
    BY <1>4, <1>5, <2>1, <2>2, <2>3, <2>5
  <2> QED
    BY <2>4, <2>5 DEF SeqPart
<1>7. HomePart(d)'
  <2>1. StoreDocs \subseteq StoreDocs'
    BY DEF StoreGrows
  <2>2. op'.pc \in {"write", "stored"} /\ op'.doc = d => op.pc \in {"write", "stored"}
    BY DEF TypeOK, OpJob
  <2> QED
    BY <2>1, <2>2 DEF HomePart, DocInv
<1> QED
  BY <1>6, <1>7

LEMMA CalmKeepsDoc ==
  ASSUME TypeOK, TypeOK', NEW d \in Docs, DocInv(d), Calm(d), StoreGrows, LogInv,
         db.next <= db'.next
  PROVE  DocInv(d)'
<1> USE DEF Calm, Untouched
<1>1. d \notin Out' => d \notin Out
  BY DEF Out, LostGrows
<1>2. Seen(d) \subseteq Entries /\ Seen(d)' = Seen(d)
  BY SeenIsStored
<1>3. \A has, E : E \in SUBSET Entries /\ Holds(has, E, d) =>
                    \A e \in E : e \in has \/ Noted(e, d)'
  BY DEF Holds
<1>4. db.index[d].seq \in Nat /\ db.next \in Nat /\ db'.index[d].seq \in Nat /\ db'.next \in Nat
  BY NatFacts DEF TypeOK, Database, IndexEntry
<1>5. l2.doc[d] /= None => l2.doc[d].seq \in Nat
  BY NatFacts
<1>6. SeqPart(d)' /\ HomePart(d)'
  BY UntouchedKeeps
<1>7. ASSUME d \notin Out', Current(d)'
      PROVE  /\ db'.index[d] = db.index[d]
             /\ \/ l2'.doc[d] = l2.doc[d] /\ Current(d)
                \/ db.cache[d] /= None /\ l2'.doc[d].has = db.cache[d].has
  <2>1. d \notin lost.docs
    BY <1>1, <1>7 DEF Out
  <2>2. CASE db'.index[d] = db.index[d]
    BY <1>7, <2>2 DEF Current, RecordOf
  <2>3. CASE db'.index[d].seq = db.next /\ l2'.doc[d] \in {l2.doc[d], None}
    BY <1>4, <1>5, <1>7, <2>1, <2>3 DEF Current, DocInv, SeqPart
  <2> QED
    BY <2>2, <2>3
<1>8. CachePart(d)'
  BY <1>1, <1>2, <1>3 DEF CachePart, DocInv, Holds
<1>9. RecordPart(d)'
  BY <1>1, <1>2, <1>3, <1>7 DEF RecordPart, CachePart, DocInv, Holds
<1>10. CoverPart(d)'
  BY <1>1, <1>2, <1>7 DEF CoverPart, DocInv
<1>11. SyncPart(d)'
  <2>1. sync.batch \in SUBSET Entries
    BY DEF TypeOK, SyncJob
  <2> QED
    BY <1>1, <1>2, <1>3, <2>1 DEF SyncPart, DocInv, Holds
<1>12. OpPart(d)'
  <2>1. op.read \in SUBSET Entries
    BY DEF TypeOK, OpJob
  <2> QED
    BY <1>1, <1>2, <1>3, <2>1 DEF OpPart, DocInv, Holds
<1> QED
  BY <1>6, <1>8, <1>9, <1>10, <1>11, <1>12 DEF DocInv

(* The checkpoint is about entries that stay where they are.               *)
LEMMA UptoKept ==
  ASSUME TypeOK, StoreGrows, NEW n \in Nat, n <= Len(store), NEW d
  PROVE  {e \in Of(d) : \E i \in 1..n : store'[i] = e} = {e \in Of(d) : \E i \in 1..n : store[i] = e}
<1>1. Len(store) \in Nat
  BY NatFacts
<1>2. \A i \in 1..n : store'[i] = store[i]
  BY <1>1 DEF StoreGrows
<1> QED
  BY <1>2

LEMMA MetaHoldsKept ==
  ASSUME TypeOK, LogInv, StoreGrows, l2.meta /= None, l2'.meta = l2.meta, NEW d
  PROVE  /\ Upto(l2.meta.cursor, d)' = Upto(l2.meta.cursor, d)
         /\ \A e \in Upto(l2.meta.cursor, d)' : e \in Upto(l2.meta.cursor, d)
<1>1. l2.meta.cursor \in Nat /\ l2.meta.cursor <= Len(store)
  BY NatFacts DEF LogInv
<1> QED
  BY <1>1, UptoKept DEF Upto

LEMMA MetaStep ==
  ASSUME TypeOK, TypeOK', NEW d \in Docs, MetaInv(d), DocInv(d), LostGrows(d), StoreGrows,
         LogInv, l2.meta /= None, l2'.meta = l2.meta,
         db'.index[d] = db.index[d] \/ db'.index[d].seq = db.next
  PROVE  /\ MetaIndex(d)' /\ MetaIndex(d) /\ MetaCopies(d)
         /\ d \notin MetaOut' => d \notin MetaOut
         /\ \A has : MetaHolds(has, d) =>
              \A e \in Upto(l2.meta.cursor, d)' : e \in has \/ <<AuthorOf[e], d>> \in l2.meta.pending
<1> DEFINE m == l2.meta
<1>1. m = l2'.meta /\ MetaIndex(d) /\ MetaCopies(d)
  BY DEF MetaInv
<1>2. \A has : MetaHolds(has, d) => \A e \in Upto(m.cursor, d)' : e \in has \/ <<AuthorOf[e], d>> \in m.pending
  BY MetaHoldsKept DEF MetaHolds
<1>3. d \notin MetaOut' => d \notin MetaOut
  BY DEF MetaOut, LostGrows
<1>4. db.index[d].seq \in Nat /\ db.next \in Nat /\ db'.index[d].seq \in Nat
      /\ m.index[d].seq \in Nat /\ m.next \in Nat
  BY NatFacts DEF TypeOK, Database, IndexEntry
<1>5. db.index[d].seq < db.next /\ m.next <= db.next
  BY DEF DocInv, SeqPart, LogInv
<1>6. MetaIndex(d)'
  <2>1. CASE db'.index[d] = db.index[d]
    BY <1>1, <2>1 DEF MetaIndex
  <2>2. CASE db'.index[d].seq = db.next
    BY <1>1, <1>4, <1>5, <2>2 DEF MetaIndex
  <2> QED
    BY <2>1, <2>2
<1> QED
  BY <1>1, <1>2, <1>3, <1>6

LEMMA UntouchedKeepsMeta ==
  ASSUME TypeOK, TypeOK', NEW d \in Docs, MetaInv(d), DocInv(d), Untouched(d), StoreGrows,
         LogInv, l2'.meta = l2.meta
  PROVE  MetaInv(d)'
<1> USE DEF Untouched
<1> SUFFICES ASSUME l2.meta /= None
             PROVE  MetaInv(d)'
  BY DEF MetaInv
<1> DEFINE m == l2.meta
<1>1. m = l2'.meta /\ MetaIndex(d) /\ MetaCopies(d) /\ MetaIndex(d)'
  BY MetaStep
<1>2. \A has : MetaHolds(has, d) => \A e \in Upto(m.cursor, d)' : e \in has \/ <<AuthorOf[e], d>> \in m.pending
  BY MetaStep
<1>3. d \notin MetaOut' => d \notin MetaOut
  BY MetaStep
<1>7. ASSUME MetaCurrent(d)'
      PROVE  \/ l2'.doc[d] = l2.doc[d] /\ MetaCurrent(d)
             \/ db.cache[d] /= None /\ l2'.doc[d].has = db.cache[d].has
  BY <1>1, <1>7 DEF MetaCurrent, RecordOf
<1>8. MetaCopies(d)'
  <2> SUFFICES ASSUME d \notin MetaOut'
               PROVE  /\ db'.cache[d] /= None => MetaHolds(db.cache[d].has, d)'
                      /\ MetaCurrent(d)' => MetaHolds(l2.doc[d].has, d)'
                      /\ sync'.pc = "apply" /\ sync'.doc = d => MetaHolds(sync.result.has, d)'
                      /\ op'.pc /= "idle" /\ op'.doc = d /\ ~op'.touched
                           => MetaHolds(op.result.has, d)'
    BY DEF MetaCopies
  <2>1. MetaCopies(d) /\ d \notin MetaOut
    BY <1>1, <1>3
  <2>2. db'.cache[d] /= None => MetaHolds(db.cache[d].has, d)'
    BY <1>1, <1>2, <2>1 DEF MetaCopies, MetaHolds
  <2>3. MetaCurrent(d)' => MetaHolds(l2.doc[d].has, d)'
    BY <1>1, <1>2, <1>7, <2>1 DEF MetaCopies, MetaHolds
  <2>4. sync'.pc = "apply" /\ sync'.doc = d => MetaHolds(sync.result.has, d)'
    BY <1>1, <1>2, <2>1 DEF MetaCopies, MetaHolds
  <2>5. op'.pc /= "idle" /\ op'.doc = d /\ ~op'.touched => MetaHolds(op.result.has, d)'
    BY <1>1, <1>2, <2>1 DEF MetaCopies, MetaHolds
  <2> QED
    BY <2>2, <2>3, <2>4, <2>5
<1> QED
  BY <1>1, <1>8 DEF MetaInv

LEMMA StoreSame == ASSUME TypeOK, store' = store PROVE StoreGrows
BY NatFacts DEF StoreGrows, Stored, StoreDocs

LEMMA StoreAppended ==
  ASSUME TypeOK, NEW e \in Entries, store' = Append(store, e)
  PROVE  StoreGrows /\ Stored' = Stored \cup {e} /\ Len(store') = Len(store) + 1
<1>1. store \in Seq(Entries)
  BY DEF TypeOK
<1>2. /\ Len(store') = Len(store) + 1 /\ Len(store) \in Nat
      /\ \A i \in 1..Len(store) : store'[i] = store[i]
      /\ store'[Len(store) + 1] = e
  BY <1>1
<1>3. DOMAIN store = 1..Len(store) /\ DOMAIN store' = 1..Len(store')
  BY <1>1
<1>4. Stored' = Stored \cup {e}
  BY <1>2, <1>3 DEF Stored
<1> QED
  BY <1>2, <1>4 DEF StoreGrows, StoreDocs

(* A suspended load or write that keeps its entries keeps what is known of them. *)
LEMMA OpInvKept ==
  ASSUME TypeOK, OpInv, StoreGrows,
         op'.pc /= "idle" => /\ op'.pc = op.pc /\ op'.doc = op.doc /\ op'.entry = op.entry
                             /\ op'.result = op.result /\ op'.read = op.read
  PROVE  OpInv'
BY DEF OpInv, StoreGrows, TypeOK, OpJob

(* The cursor, the sync in flight and the checkpoint are not touched.      *)
LEMMA LogInvKept ==
  ASSUME TypeOK, LogInv, StoreGrows, db'.cursor = db.cursor, db.next <= db'.next,
         db'.next \in Nat, Len(store') \in Nat,
         sync'.pc /= "idle" => sync.pc /= "idle" /\ sync'.batch = sync.batch /\ sync'.next = sync.next,
         l2'.meta = l2.meta
  PROVE  LogInv'
<1>1. db.cursor \in Nat /\ db.next \in Nat /\ Len(store) \in Nat /\ sync.next \in Nat
      /\ (l2.meta /= None => l2.meta.cursor \in Nat /\ l2.meta.next \in Nat)
  BY NatFacts
<1>2. db'.cursor <= Len(store')
  BY <1>1 DEF LogInv, StoreGrows
<1>3. sync'.pc /= "idle" =>
        /\ db'.cursor <= sync'.next /\ sync'.next <= Len(store')
        /\ sync'.batch = {store'[i] : i \in (db'.cursor + 1)..sync'.next}
  <2> SUFFICES ASSUME sync'.pc /= "idle"
               PROVE  /\ db'.cursor <= sync'.next /\ sync'.next <= Len(store')
                      /\ sync'.batch = {store'[i] : i \in (db'.cursor + 1)..sync'.next}
    OBVIOUS
  <2>1. /\ db.cursor <= sync.next /\ sync.next <= Len(store)
        /\ sync.batch = {store[i] : i \in (db.cursor + 1)..sync.next}
    BY DEF LogInv
  <2>2. \A i \in (db.cursor + 1)..sync.next : store'[i] = store[i]
    BY <1>1, <2>1 DEF StoreGrows
  <2>3. {store'[i] : i \in (db.cursor + 1)..sync.next} = {store[i] : i \in (db.cursor + 1)..sync.next}
    BY <2>2
  <2>4. Len(store) <= Len(store') /\ Len(store) \in Nat /\ sync.next \in Nat
    BY <1>1 DEF StoreGrows
  <2>5. sync.next <= Len(store')
    BY <2>1, <2>4
  <2> QED
    BY <2>1, <2>3, <2>5
<1>4. l2'.meta /= None => l2'.meta.cursor <= Len(store') /\ l2'.meta.next <= db'.next
  BY <1>1 DEF LogInv, StoreGrows
<1> QED
  BY <1>2, <1>3, <1>4 DEF LogInv

LEMMA FrameKept ==
  ASSUME TypeOK, LogInv, StoreGrows, NEW d \in Docs,
         db'.cursor = db.cursor, db.pending \subseteq db'.pending, trusted \subseteq trusted',
         d \in heal => d \in heal',
         sync'.pc /= "idle" <=> sync.pc /= "idle", sync'.batch = sync.batch,
         d \in sync'.todo <=> d \in sync.todo
  PROVE  Seen(d)' = Seen(d) /\ \A e \in Entries : Noted(e, d) => Noted(e, d)'
<1>1. db.cursor \in Nat /\ db.cursor <= Len(store)
  BY NatFacts DEF LogInv
<1>2. {e \in Of(d) : \E i \in 1..db.cursor : store'[i] = e}
        = {e \in Of(d) : \E i \in 1..db.cursor : store[i] = e}
  BY <1>1, UptoKept
<1>3. Seen(d)' = Seen(d)
  BY <1>2 DEF Seen, Upto
<1> QED
  BY <1>3 DEF Noted

(* A step that leaves every document but those of D alone.                 *)
CalmBut(D) ==
  /\ StoreGrows /\ db.next <= db'.next /\ l2'.meta = l2.meta
  /\ LogInv' /\ OpInv'
  /\ \A d \in Docs \ D : Calm(d)

LEMMA CalmButKeeps ==
  ASSUME CopiesInv, TypeOK', NEW D, CalmBut(D),
         \A d \in Docs \cap D : DocInv(d)' /\ MetaInv(d)'
  PROVE  CopiesInv'
<1>1. TypeOK /\ LogInv /\ \A d \in Docs : DocInv(d) /\ MetaInv(d)
  BY DEF CopiesInv
<1>2. ASSUME NEW d \in Docs
      PROVE  DocInv(d)' /\ MetaInv(d)'
  <2>1. CASE d \in D
    BY <2>1
  <2>2. CASE d \notin D
    <3>1. Calm(d) /\ StoreGrows /\ db.next <= db'.next /\ l2'.meta = l2.meta
      BY <2>2 DEF CalmBut
    <3> QED
      BY <1>1, <3>1, CalmKeepsDoc, UntouchedKeepsMeta DEF Calm
  <2> QED
    BY <2>1, <2>2
<1> QED
  BY <1>2 DEF CopiesInv, CalmBut

-----------------------------------------------------------------------------
(* Steps that leave every document alone                                   *)

LEMMA ReceiveCalm == ASSUME CopiesInv, TypeOK', NEW e \in Entries, Receive(e) PROVE CalmBut({})
<1>1. StoreGrows
  BY StoreAppended DEF CopiesInv, Receive
<1>2. LogInv'
  BY <1>1, LogInvKept, NatFacts DEF CopiesInv, Receive, jobs, TypeOK
<1>3. OpInv'
  BY <1>1, OpInvKept DEF CopiesInv, Receive, jobs
<1>4. ASSUME NEW d \in Docs PROVE Calm(d)
  <2>1. Seen(d)' = Seen(d) /\ \A x \in Entries : Noted(x, d) => Noted(x, d)'
    BY <1>1, FrameKept DEF CopiesInv, Receive, jobs
  <2> QED
    BY <2>1 DEF Calm, Untouched, Receive, jobs, LostGrows
<1>5. db.next <= db'.next
  BY NatFacts DEF CopiesInv, Receive
<1> QED
  BY <1>1, <1>2, <1>3, <1>4, <1>5 DEF CalmBut, Receive

(* The sync takes the entries after the cursor, and every document of them *)
(* is still to be visited.                                                 *)
LEMMA SyncStartCalm == ASSUME CopiesInv, TypeOK', SyncStart PROVE CalmBut({})
<1> DEFINE batch == {store[i] : i \in (db.cursor + 1)..Len(store)}
<1>1. TypeOK /\ LogInv /\ OpInv /\ db \in Database /\ db.cursor \in Nat /\ Len(store) \in Nat
      /\ db.next \in Nat
  BY NatFacts DEF CopiesInv, TypeOK
<1>2. /\ sync'.pc = "docs" /\ sync'.batch = batch /\ sync'.next = Len(store)
      /\ sync'.todo = {DocOf[e] : e \in batch} /\ sync.pc = "idle"
  BY DEF SyncStart, NoSync
<1> HIDE DEF batch
<1>3. /\ db'.cursor = db.cursor /\ db'.cache = db.cache /\ db'.pending = db.pending
      /\ db'.index = db.index /\ db'.next = db.next
  BY <1>1, EmitFacts DEF SyncStart, TypeOK
<1>4. StoreGrows
  BY <1>1, StoreSame DEF SyncStart
<1>5. LogInv'
  BY <1>1, <1>2, <1>3 DEF LogInv, SyncStart, batch
<1>6. OpInv'
  BY <1>1, <1>4, OpInvKept DEF SyncStart
<1>7. ASSUME NEW d \in Docs PROVE Calm(d)
  <2>1. Seen(d)' = Seen(d)
    <3>1. \A e \in Of(d) \cap batch : d \in sync'.todo
      BY <1>2 DEF Of
    <3> QED
      BY <1>2, <1>3, <3>1 DEF Seen, Upto, SyncStart
  <2>2. \A e \in Entries : Noted(e, d) => Noted(e, d)'
    BY <1>3 DEF Noted, SyncStart
  <2> QED
    BY <1>2, <1>3, <2>1, <2>2 DEF Calm, Untouched, SyncStart, LostGrows
<1> QED
  BY <1>1, <1>3, <1>4, <1>5, <1>6, <1>7 DEF CalmBut, SyncStart

(* The cursor moves past the batch when every document has been visited.   *)
LEMMA SyncDoneCalm == ASSUME CopiesInv, TypeOK', SyncDone PROVE CalmBut({})
<1> DEFINE s == [db EXCEPT !.cursor = sync.next, !.meta = TRUE]
<1>1. TypeOK /\ LogInv /\ OpInv /\ db \in Database /\ db.cursor \in Nat /\ Len(store) \in Nat
      /\ db.next \in Nat /\ sync.next \in Nat /\ feed \in Consumer
  BY NatFacts DEF CopiesInv, TypeOK
<1>2. /\ s \in Database /\ s.cursor = sync.next /\ s.cache = db.cache /\ s.pending = db.pending
      /\ s.index = db.index /\ s.next = db.next
  BY <1>1 DEF Database
<1>3. Emit(s)
  BY DEF SyncDone
<1> HIDE DEF s
<1>4. /\ db'.cursor = sync.next /\ db'.cache = db.cache /\ db'.pending = db.pending
      /\ db'.index = db.index /\ db'.next = db.next
  BY <1>1, <1>2, <1>3, EmitFacts
<1>5. /\ db.cursor <= sync.next /\ sync.next <= Len(store)
      /\ sync.batch = {store[i] : i \in (db.cursor + 1)..sync.next}
  BY <1>1 DEF LogInv, SyncDone
<1>6. StoreGrows
  BY <1>1, StoreSame DEF SyncDone
<1>7. LogInv'
  BY <1>1, <1>4, <1>5, IdleTypes DEF LogInv, SyncDone
<1>8. OpInv'
  BY <1>1, <1>6, OpInvKept DEF SyncDone
<1>9. ASSUME NEW d \in Docs PROVE Calm(d)
  <2>1. Upto(sync.next, d) = Upto(db.cursor, d) \cup (Of(d) \cap sync.batch)
    <3>1. 1..sync.next = (1..db.cursor) \cup ((db.cursor + 1)..sync.next)
      BY <1>1, <1>5
    <3> QED
      BY <1>5, <3>1 DEF Upto
  <2>2. Seen(d)' = Seen(d)
    BY <1>4, <2>1, IdleTypes DEF Seen, Upto, SyncDone
  <2>3. \A e \in Entries : Noted(e, d) => Noted(e, d)'
    BY <1>4 DEF Noted, SyncDone
  <2> QED
    BY <1>4, <2>2, <2>3, IdleTypes DEF Calm, Untouched, SyncDone, LostGrows
<1> QED
  BY <1>1, <1>4, <1>6, <1>7, <1>8, <1>9 DEF CalmBut, SyncDone
(* Steps that change neither the store nor the sync in flight.             *)
LEMMA LogSame ==
  ASSUME CopiesInv, TypeOK', store' = store, sync' = sync, db'.cursor = db.cursor,
         db.next <= db'.next, l2'.meta = l2.meta,
         op'.pc /= "idle" => /\ op'.pc = op.pc /\ op'.doc = op.doc /\ op'.entry = op.entry
                             /\ op'.result = op.result /\ op'.read = op.read
  PROVE  StoreGrows /\ LogInv' /\ OpInv'
<1>1. TypeOK /\ LogInv /\ OpInv
  BY DEF CopiesInv
<1>2. StoreGrows /\ Len(store') \in Nat /\ db'.next \in Nat
  BY <1>1, StoreSame, NatFacts DEF TypeOK, Database
<1>3. LogInv'
  BY <1>1, <1>2, LogInvKept
<1>4. OpInv'
  BY <1>1, <1>2, OpInvKept
<1> QED
  BY <1>2, <1>3, <1>4

LEMMA FrameSame ==
  ASSUME CopiesInv, store' = store, sync' = sync, db'.cursor = db.cursor,
         db.pending \subseteq db'.pending, trusted \subseteq trusted', NEW d \in Docs,
         d \in heal => d \in heal'
  PROVE  Seen(d)' = Seen(d) /\ \A e \in Entries : Noted(e, d) => Noted(e, d)'
BY StoreSame, FrameKept DEF CopiesInv

(* Nothing that is spoken of here changes but the copies of one document,  *)
(* which go, are written, or are counted up by the index.                  *)
LEMMA DatabaseSame ==
  ASSUME CopiesInv, TypeOK', store' = store, sync' = sync, op' = op, trusted \subseteq trusted',
         heal' = heal, \A d \in Docs : LostGrows(d),
         l2'.meta = l2.meta, db'.cursor = db.cursor, db.pending \subseteq db'.pending,
         db.next <= db'.next, NEW D,
         \A d \in Docs \ D : /\ db'.cache[d] \in {db.cache[d], None}
                       /\ \/ db'.index[d] = db.index[d]
                          \/ db'.index[d].seq = db.next /\ db.next < db'.next
                       /\ \/ l2'.doc[d] \in {l2.doc[d], None}
                          \/ /\ db.cache[d] /= None /\ l2'.doc[d] = RecordOf(db, d)
                             /\ db'.index[d] = db.index[d]
  PROVE  CalmBut(D)
<1>1. StoreGrows /\ LogInv' /\ OpInv'
  BY LogSame
<1>2. ASSUME NEW d \in Docs \ D PROVE Calm(d)
  <2>1. Seen(d)' = Seen(d) /\ \A e \in Entries : Noted(e, d) => Noted(e, d)'
    BY FrameSame
  <2> QED
    BY <2>1 DEF Calm, Untouched
<1> QED
  BY <1>1, <1>2 DEF CalmBut

LEMMA LostSame == ASSUME lost' = lost PROVE \A d \in Docs : LostGrows(d)
BY DEF LostGrows

LEMMA NothingCalm ==
  ASSUME CopiesInv, TypeOK', UNCHANGED <<store, db, l2, sync, op, heal, lost>>,
         trusted \subseteq trusted'
  PROVE  CalmBut({})
<1>1. db.next <= db'.next
  BY NatFacts DEF CopiesInv
<1> QED
  BY <1>1, LostSame, DatabaseSame

LEMMA ReadRefusedCalm ==
  ASSUME CopiesInv, TypeOK', NEW d \in Docs, ReadRefused(d) PROVE CalmBut({})
<1>1. db \in Database /\ l2 \in Disk /\ db.next \in Nat
  BY NatFacts DEF CopiesInv, TypeOK
<1>2. /\ db'.cursor = db.cursor /\ db'.pending = db.pending /\ db'.index = db.index
      /\ db'.next = db.next /\ \A x \in Docs : db'.cache[x] \in {db.cache[x], None}
  BY <1>1, PurgeFacts DEF ReadRefused
<1>3. l2'.meta = l2.meta /\ \A x \in Docs : l2'.doc[x] \in {l2.doc[x], None}
  BY <1>1, PurgeRecordFacts DEF ReadRefused
<1> QED
  BY <1>1, <1>2, <1>3, LostSame, DatabaseSame DEF ReadRefused, jobs

LEMMA FlushRecordCalm ==
  ASSUME CopiesInv, TypeOK', NEW d \in Docs, FlushRecord(d) PROVE CalmBut({})
<1>1. db \in Database /\ l2 \in Disk /\ db.next \in Nat
  BY NatFacts DEF CopiesInv, TypeOK
<1>2. /\ l2'.meta = l2.meta
      /\ \A x \in Docs : \/ l2'.doc[x] = l2.doc[x]
                         \/ db.cache[x] /= None /\ l2'.doc[x] = RecordOf(db, x)
  <2>1. CASE db.cache[d] = None
    BY <2>1 DEF FlushRecord
  <2>2. CASE db.cache[d] /= None
    <3>1. l2' = FlushDoc(l2, db, d)
      BY <2>2 DEF FlushRecord
    <3> QED
      BY <1>1, <2>2, <3>1, FlushDocFacts
  <2> QED
    BY <2>1, <2>2
<1> QED
  BY <1>1, <1>2, LostSame, DatabaseSame DEF FlushRecord

LEMMA ClearDirtyCalm == ASSUME CopiesInv, TypeOK', ClearDirty PROVE CalmBut({})
<1>1. db \in Database /\ db.next \in Nat
  BY NatFacts DEF CopiesInv, TypeOK
<1>2. /\ db'.cursor = db.cursor /\ db'.pending = db.pending /\ db'.index = db.index
      /\ db'.next = db.next /\ db'.cache = db.cache
  BY <1>1 DEF ClearDirty, Database
<1> QED
  BY <1>1, <1>2, LostSame, DatabaseSame DEF ClearDirty

LEMMA KeyBagChangedCalm ==
  ASSUME CopiesInv, TypeOK', NEW d \in Docs, KeyBagChanged(d) PROVE CalmBut({})
<1>1. db.next <= db'.next
  BY NatFacts DEF CopiesInv, KeyBagChanged
<1>2. \A x \in Docs : LostGrows(x)
  BY DEF KeyBagChanged, LostGrows, CopiesInv, TypeOK, History
<1> QED
  BY <1>1, <1>2, DatabaseSame DEF KeyBagChanged

LEMMA ReconcileStartCalm == ASSUME CopiesInv, TypeOK', ReconcileStart PROVE CalmBut({})
BY NothingCalm DEF ReconcileStart, outside

LEMMA ReconcileCalm ==
  ASSUME CopiesInv, TypeOK', NEW d \in Docs, ReconcileKeyVisibility(d) PROVE CalmBut({})
<1>1. TypeOK /\ db \in Database /\ l2 \in Disk /\ db.next \in Nat
  BY NatFacts DEF CopiesInv, TypeOK
<1>2. l2'.meta = l2.meta /\ \A x \in Docs : l2'.doc[x] \in {l2.doc[x], None}
  BY <1>1, PurgeRecordFacts DEF ReconcileKeyVisibility
<1>3. /\ db'.cursor = db.cursor /\ db'.pending = db.pending /\ db.next <= db'.next
      /\ \A x \in Docs : db'.cache[x] \in {db.cache[x], None}
      /\ \A x \in Docs : \/ db'.index[x] = db.index[x]
                         \/ db'.index[x].seq = db.next /\ db.next < db'.next
  BY <1>1, ReconcileFacts
<1> QED
  BY <1>2, <1>3, LostSame, DatabaseSame DEF ReconcileKeyVisibility

LEMMA ReconcileHideCalm == ASSUME CopiesInv, TypeOK', ReconcileHide PROVE CalmBut({})
<1> DEFINE d == recon.doc
<1>1. TypeOK /\ db \in Database /\ db.next \in Nat
  BY NatFacts DEF CopiesInv, TypeOK
<1>2. d \in Docs /\ HiddenNow(db', db, d)
  BY <1>1, ReconcileHideFacts
<1>3. /\ db'.cursor = db.cursor /\ db'.pending = db.pending /\ db.next <= db'.next
      /\ db'.cache = db.cache
      /\ \A x \in Docs : \/ db'.index[x] = db.index[x]
                         \/ db'.index[x].seq = db.next /\ db.next < db'.next
  BY <1>1, <1>2 DEF HiddenNow
<1> QED
  BY <1>3, LostSame, DatabaseSame DEF ReconcileHide

LEMMA ReconcileEndCalm == ASSUME CopiesInv, TypeOK', ReconcileEnd PROVE CalmBut({})
<1>1. TypeOK /\ db.next \in Nat
  BY NatFacts DEF CopiesInv
<1>2. /\ db'.cursor = db.cursor /\ db'.pending = db.pending /\ db'.index = db.index
      /\ db'.next = db.next /\ db'.cache = db.cache
  BY <1>1, ReconcileEndFacts
<1> QED
  BY <1>1, <1>2, LostSame, DatabaseSame DEF ReconcileEnd

LEMMA NotifyTimerCalm == ASSUME CopiesInv, TypeOK', NotifyTimer PROVE CalmBut({})
<1>1. TypeOK /\ db \in Database /\ db.next \in Nat /\ feed \in Consumer
  BY NatFacts DEF CopiesInv, TypeOK
<1>2. /\ db'.cursor = db.cursor /\ db'.pending = db.pending /\ db'.index = db.index
      /\ db'.next = db.next /\ db'.cache = db.cache
  BY <1>1, EmitFacts DEF NotifyTimer
<1> QED
  BY <1>1, <1>2, LostSame, DatabaseSame DEF NotifyTimer, jobs

LEMMA InitializedCalm == ASSUME CopiesInv, TypeOK', Initialized PROVE CalmBut({})
<1>1. TypeOK /\ db.next \in Nat
  BY NatFacts DEF CopiesInv
<1>2. /\ db'.cursor = db.cursor /\ db'.pending = db.pending /\ db'.index = db.index
      /\ db'.next = db.next /\ db'.cache = db.cache
  BY <1>1, InitializedFacts
<1> QED
  BY <1>1, <1>2, LostSame, DatabaseSame DEF Initialized

(* Reading the feed changes what a restart of the consumer may miss, and   *)
(* nothing of the database.                                                *)
LEMMA FeedReadCalm == ASSUME CopiesInv, TypeOK', NEW d \in Docs, FeedRead(d) PROVE CalmBut({})
<1>1. db.next <= db'.next
  BY NatFacts DEF CopiesInv, FeedRead
<1>2. \A x \in Docs : LostGrows(x)
  BY DEF FeedRead, LostGrows, CopiesInv, TypeOK, History
<1> QED
  BY <1>1, <1>2, DatabaseSame DEF FeedRead, jobs
(* The pending pairs of trusted authors become documents to re-materialize. *)
LEMMA HealStartCalm == ASSUME CopiesInv, TypeOK', HealStart PROVE CalmBut({})
<1> DEFINE ready == {p \in db.pending : p[1] \in trusted}
<1>1. TypeOK /\ db \in Database /\ db.next \in Nat
  BY NatFacts DEF CopiesInv, TypeOK
<1>2. /\ db'.cursor = db.cursor /\ db'.cache = db.cache /\ db'.index = db.index
      /\ db'.next = db.next /\ db'.pending = db.pending \ ready
      /\ heal = {} /\ heal' = {p[2] : p \in ready}
  BY <1>1, HealStartFacts
<1>3. StoreGrows /\ LogInv' /\ OpInv'
  BY <1>1, <1>2, LogSame DEF HealStart
<1>4. ASSUME NEW d \in Docs PROVE Calm(d)
  <2>1. Seen(d)' = Seen(d)
    BY <1>2 DEF Seen, Upto, HealStart
  <2>2. ASSUME NEW e \in Entries, Noted(e, d) PROVE Noted(e, d)'
    <3>1. <<AuthorOf[e], d>> \in db.pending
      BY <1>2, <2>2 DEF Noted
    <3>2. CASE <<AuthorOf[e], d>> \in ready
      <4>1. AuthorOf[e] \in trusted /\ d \in heal'
        BY <1>2, <3>2
      <4> QED
        BY <4>1 DEF Noted, HealStart
    <3>3. CASE <<AuthorOf[e], d>> \notin ready
      BY <1>2, <3>1, <3>3 DEF Noted
    <3> QED
      BY <3>2, <3>3
  <2> QED
    BY <1>2, <2>1, <2>2 DEF Calm, Untouched, HealStart, LostGrows
<1> QED
  BY <1>1, <1>2, <1>3, <1>4 DEF CalmBut, HealStart

LEMMA WriteRefusedCalm == ASSUME CopiesInv, TypeOK', WriteRefused PROVE CalmBut({})
<1>1. db.next <= db'.next
  BY NatFacts DEF CopiesInv, WriteRefused
<1>2. StoreGrows /\ LogInv' /\ OpInv'
  BY <1>1, IdleTypes, LogSame DEF WriteRefused
<1>3. ASSUME NEW d \in Docs PROVE Calm(d)
  <2>1. Seen(d)' = Seen(d) /\ \A e \in Entries : Noted(e, d) => Noted(e, d)'
    BY FrameSame DEF WriteRefused
  <2> QED
    BY <2>1, IdleTypes DEF Calm, Untouched, WriteRefused, LostGrows
<1> QED
  BY <1>1, <1>2, <1>3 DEF CalmBut, WriteRefused

(* The entry of a write is stored: no cursor has passed it.                *)
LEMMA WritePutCalm == ASSUME CopiesInv, TypeOK', WritePut PROVE CalmBut({})
<1>1. TypeOK /\ LogInv /\ OpInv /\ op.entry \in Entries /\ op \in OpJob
  BY DEF CopiesInv, TypeOK, WritePut
<1>2. StoreGrows /\ Stored' = Stored \cup {op.entry} /\ Len(store') \in Nat
  BY <1>1, StoreAppended DEF WritePut, TypeOK
<1>3. db.next <= db'.next /\ db'.next \in Nat
  BY <1>1, NatFacts DEF WritePut
<1>4. LogInv'
  BY <1>1, <1>2, <1>3, LogInvKept DEF WritePut
<1>5. /\ op'.pc = "stored" /\ op'.doc = op.doc /\ op'.entry = op.entry
      /\ op'.result = op.result /\ op'.read = op.read /\ op'.touched = op.touched
  BY <1>1 DEF WritePut, OpJob
<1>6. OpInv'
  BY <1>1, <1>2, <1>5 DEF OpInv, WritePut
<1>7. ASSUME NEW d \in Docs PROVE Calm(d)
  <2>1. Seen(d)' = Seen(d) /\ \A e \in Entries : Noted(e, d) => Noted(e, d)'
    BY <1>1, <1>2, FrameKept DEF WritePut
  <2> QED
    BY <1>5, <2>1 DEF Calm, Untouched, WritePut, LostGrows
<1> QED
  BY <1>2, <1>3, <1>4, <1>6, <1>7 DEF CalmBut, WritePut

-----------------------------------------------------------------------------
(* The sync in flight                                                      *)

LEMMA ProcessedSeen ==
  ASSUME TypeOK, LogInv, store' = store, db'.cursor = db.cursor, sync.pc /= "idle",
         NEW d \in Docs, sync' = Processed(d)
  PROVE  /\ Seen(d)' = Seen(d) \cup (sync.batch \cap Of(d))
         /\ \A x \in Docs : x /= d => Seen(x)' = Seen(x)
<1>1. /\ sync'.pc /= "idle" /\ sync'.todo = sync.todo \ {d} /\ sync'.batch = sync.batch
  BY ProcessedFacts DEF TypeOK
<1> QED
  BY <1>1 DEF Seen, Upto

LEMMA ProcessedLog ==
  ASSUME CopiesInv, TypeOK', store' = store, db'.cursor = db.cursor, db.next <= db'.next,
         l2'.meta = l2.meta, sync.pc /= "idle",
         sync'.batch = sync.batch, sync'.next = sync.next,
         op'.pc /= "idle" => /\ op'.pc = op.pc /\ op'.doc = op.doc /\ op'.entry = op.entry
                             /\ op'.result = op.result /\ op'.read = op.read
  PROVE  StoreGrows /\ LogInv' /\ OpInv'
<1>1. TypeOK /\ LogInv /\ OpInv
  BY DEF CopiesInv
<1>2. StoreGrows /\ Len(store') \in Nat /\ db'.next \in Nat
  BY <1>1, StoreSame, NatFacts DEF TypeOK, Database
<1>3. LogInv'
  BY <1>1, <1>2, LogInvKept
<1>4. OpInv'
  BY <1>1, <1>2, OpInvKept
<1> QED
  BY <1>2, <1>3, <1>4

(* The sync is about to write the index of a document it has still to tick *)
(* off: nothing changes but copies that go.                                *)
LEMMA VisitCalm ==
  ASSUME CopiesInv, TypeOK', store' = store, op' = op, trusted' = trusted, heal' = heal,
         lost' = lost, sync.pc /= "idle", sync'.pc \in {"index", "hide"},
         sync'.batch = sync.batch, sync'.next = sync.next, sync'.todo = sync.todo,
         l2'.meta = l2.meta, db'.cursor = db.cursor, db'.pending = db.pending,
         db'.index = db.index, db'.next = db.next,
         \A x \in Docs : db'.cache[x] \in {db.cache[x], None},
         \A x \in Docs : l2'.doc[x] \in {l2.doc[x], None}
  PROVE  CalmBut({})
<1>1. TypeOK /\ LogInv /\ db.next <= db'.next
  BY NatFacts DEF CopiesInv
<1>2. StoreGrows /\ LogInv' /\ OpInv'
  BY <1>1, ProcessedLog
<1>3. ASSUME NEW d \in Docs PROVE Calm(d)
  <2>1. Seen(d)' = Seen(d) /\ \A e \in Entries : Noted(e, d) => Noted(e, d)'
    BY <1>1, <1>2, FrameKept
  <2> QED
    BY <2>1, LostSame DEF Calm, Untouched
<1> QED
  BY <1>1, <1>2, <1>3 DEF CalmBut

LEMMA ScanMetadataCalm ==
  ASSUME CopiesInv, TypeOK', NEW d \in Docs, ScanMetadata(d) PROVE CalmBut({})
<1>1. /\ sync.pc = "docs" /\ sync'.pc = "index" /\ sync'.batch = sync.batch
      /\ sync'.next = sync.next /\ sync'.todo = sync.todo
  BY DEF ScanMetadata, Due, CopiesInv, TypeOK, SyncJob
<1> QED
  BY <1>1, VisitCalm DEF ScanMetadata

LEMMA SyncPurgeEffect ==
  ASSUME TypeOK, NEW d \in Docs, SyncPurge(d)
  PROVE  /\ sync.pc = "docs" /\ sync'.pc = "hide" /\ sync'.doc = d /\ sync'.batch = sync.batch
         /\ sync'.next = sync.next /\ sync'.todo = sync.todo
         /\ db'.cursor = db.cursor /\ db'.pending = db.pending /\ db'.index = db.index
         /\ db'.next = db.next /\ db'.fp = db.fp /\ db'.ready = db.ready /\ db'.notes = db.notes
         /\ \A x \in Docs : db'.cache[x] \in {db.cache[x], None}
         /\ l2'.meta = l2.meta /\ \A x \in Docs : l2'.doc[x] \in {l2.doc[x], None}
<1>1. db \in Database /\ l2 \in Disk /\ sync \in SyncJob
  BY DEF TypeOK
<1>2. sync.pc = "docs" /\ sync' = [sync EXCEPT !.pc = "hide", !.doc = d]
      /\ db' = PurgeMaterialized(db, d) /\ l2' = PurgeRecord(l2, d)
  BY DEF SyncPurge, WithoutKey, Due
<1>3. /\ db'.cursor = db.cursor /\ db'.pending = db.pending /\ db'.index = db.index
      /\ db'.next = db.next /\ db'.fp = db.fp /\ db'.ready = db.ready /\ db'.notes = db.notes
      /\ \A x \in Docs : db'.cache[x] \in {db.cache[x], None}
  BY <1>1, <1>2, PurgeFacts
<1>4. l2'.meta = l2.meta /\ \A x \in Docs : l2'.doc[x] \in {l2.doc[x], None}
  BY <1>1, <1>2, PurgeRecordFacts
<1> QED
  BY <1>1, <1>2, <1>3, <1>4 DEF SyncJob

LEMMA SyncPurgeCalm ==
  ASSUME CopiesInv, TypeOK', NEW d \in Docs, SyncPurge(d) PROVE CalmBut({})
<1>1. TypeOK
  BY DEF CopiesInv
<1> QED
  BY <1>1, SyncPurgeEffect, VisitCalm DEF SyncPurge

(* A document in memory takes the new entries of trusted authors; those of *)
(* the others are remembered as pending.                                   *)
LEMMA ApplyNewEntriesEffect ==
  ASSUME CopiesInv, TypeOK', NEW d \in Docs, ApplyNewEntries(d)
  PROVE  LET new == sync.batch \cap Of(d)
         IN /\ CalmBut({d})
            /\ sync.pc = "docs" /\ sync'.batch = sync.batch
            /\ db.cache[d] /= None /\ db'.cache = db.cache /\ db'.index = db.index
            /\ l2' = l2 /\ db'.next = db.next
            /\ LostGrows(d)
            /\ \A e \in Entries : Noted(e, d) => Noted(e, d)'
            /\ \A e \in new : e \in db.cache[d].has \cup Trusted(new) \/ Noted(e, d)'
            /\ op'.pc = op.pc /\ op'.doc = op.doc /\ op'.result = op.result
            /\ op'.read = op.read /\ op'.entry = op.entry /\ (op.touched => op'.touched)
            /\ \/ /\ sync' = Processed(d) /\ Trusted(new) \subseteq db.cache[d].has
                  /\ Seen(d)' = Seen(d) \cup new
                  /\ op.doc = d /\ ~op'.touched => new \subseteq op.read
               \/ /\ sync'.pc = "apply" /\ sync'.doc = d
                  /\ sync'.result.has = db.cache[d].has \cup Trusted(new)
                  /\ Seen(d)' = Seen(d)
<1> DEFINE new == sync.batch \cap Of(d)
           r == [has |-> db.cache[d].has \cup Trusted(new), del |-> IsDeleted(Stored \cap Of(d))]
<1>1. TypeOK /\ LogInv /\ db \in Database /\ sync \in SyncJob /\ op \in OpJob
      /\ lost \in History /\ db.next \in Nat
  BY NatFacts DEF CopiesInv, TypeOK
<1>2. new \in SUBSET Entries
  BY <1>1 DEF SyncJob
<1>3. /\ db' = RecordPending(db, UnknownAuthors(new, d))
      /\ sync' = IF r.has = db.cache[d].has THEN Processed(d)
                 ELSE [sync EXCEPT !.pc = "apply", !.doc = d, !.result = r]
      /\ Touch(d, r.has = db.cache[d].has /\ ~(new \subseteq op.read))
      /\ sync.pc = "docs" /\ db.cache[d] /= None /\ d \in sync.todo
      /\ l2' = l2 /\ store' = store /\ heal' = heal /\ trusted' = trusted
  BY DEF ApplyNewEntries, Due
<1>4. r.has = db.cache[d].has \cup Trusted(new)
  OBVIOUS
<1> HIDE DEF r
<1>5. UnknownAuthors(new, d) \in SUBSET (Authors \X Docs)
      /\ \A e \in new : e \in Trusted(new) \/ <<AuthorOf[e], d>> \in UnknownAuthors(new, d)
  BY <1>2, UnknownAre
<1> HIDE DEF new
<1>6. /\ db'.cursor = db.cursor /\ db'.cache = db.cache /\ db'.index = db.index
      /\ db'.next = db.next /\ db'.pending = db.pending \cup UnknownAuthors(new, d)
  BY <1>1, <1>3, <1>5, RecordPendingFacts
<1>7. /\ op'.pc = op.pc /\ op'.doc = op.doc /\ op'.result = op.result
      /\ op'.read = op.read /\ op'.entry = op.entry /\ (op.touched => op'.touched)
      /\ op.doc = d /\ (r.has = db.cache[d].has /\ ~(new \subseteq op.read)) => op'.touched
  BY <1>1, <1>3, TouchFacts
<1>8. \A x \in Docs : LostGrows(x)
  BY <1>1 DEF ApplyNewEntries, LostGrows, History
<1>9. \A x \in Docs, e \in Entries : Noted(e, x) => Noted(e, x)'
  BY <1>3, <1>6 DEF Noted
<1>10. \A e \in new : e \in db.cache[d].has \cup Trusted(new) \/ Noted(e, d)'
  BY <1>5, <1>6 DEF Noted
<1>11. \/ /\ sync' = Processed(d) /\ r.has = db.cache[d].has
          /\ Seen(d)' = Seen(d) \cup new
       \/ /\ sync'.pc = "apply" /\ sync'.doc = d /\ sync'.result = r /\ Seen(d)' = Seen(d)
  <2>1. CASE r.has = db.cache[d].has
    <3>1. sync' = Processed(d)
      BY <1>3, <2>1
    <3> QED
      BY <1>1, <1>3, <1>6, <2>1, <3>1, ProcessedSeen DEF new
  <2>2. CASE r.has /= db.cache[d].has
    <3>1. sync' = [sync EXCEPT !.pc = "apply", !.doc = d, !.result = r]
      BY <1>3, <2>2
    <3>2. sync'.pc = "apply" /\ sync'.doc = d /\ sync'.result = r
          /\ sync'.todo = sync.todo /\ sync'.batch = sync.batch
      BY <1>1, <3>1 DEF SyncJob
    <3>3. Seen(d)' = Seen(d)
      BY <1>3, <1>6, <3>2 DEF Seen, Upto
    <3> QED
      BY <3>2, <3>3
  <2> QED
    BY <2>1, <2>2
<1>12. sync'.batch = sync.batch /\ sync'.next = sync.next /\ sync'.pc /= "idle"
       /\ \A x \in Docs \ {d} : /\ ~(sync'.pc = "apply" /\ sync'.doc = x)
                                /\ x \in sync'.todo <=> x \in sync.todo
  <2>1. CASE r.has = db.cache[d].has
    BY <1>1, <1>3, <2>1, ProcessedFacts
  <2>2. CASE r.has /= db.cache[d].has
    <3>1. sync' = [sync EXCEPT !.pc = "apply", !.doc = d, !.result = r]
      BY <1>3, <2>2
    <3> QED
      BY <1>1, <3>1 DEF SyncJob
  <2> QED
    BY <2>1, <2>2
<1>13. StoreGrows /\ LogInv' /\ OpInv'
  BY <1>1, <1>3, <1>6, <1>7, <1>12, ProcessedLog
<1>14. \A x \in Docs \ {d} : Calm(x)
  <2> SUFFICES ASSUME NEW x \in Docs \ {d} PROVE Calm(x)
    OBVIOUS
  <2>1. Seen(x)' = Seen(x)
    BY <1>1, <1>3, <1>6, <1>12, <1>13, FrameKept
  <2> QED
    BY <1>3, <1>6, <1>7, <1>8, <1>9, <1>12, <2>1 DEF Calm, Untouched
<1>15. CalmBut({d})
  BY <1>1, <1>3, <1>6, <1>13, <1>14 DEF CalmBut
<1> QED
  BY <1>3, <1>4, <1>6, <1>7, <1>8, <1>9, <1>10, <1>11, <1>12, <1>15 DEF new

LEMMA ApplyNewEntriesKeeps ==
  ASSUME CopiesInv, TypeOK', NEW d \in Docs, ApplyNewEntries(d) PROVE CopiesInv'
<1> DEFINE new == sync.batch \cap Of(d)
<1>1. /\ CalmBut({d})
      /\ sync.pc = "docs" /\ sync'.batch = sync.batch
      /\ db.cache[d] /= None /\ db'.cache = db.cache /\ db'.index = db.index
      /\ l2' = l2 /\ db'.next = db.next
      /\ LostGrows(d)
      /\ \A e \in Entries : Noted(e, d) => Noted(e, d)'
      /\ \A e \in new : e \in db.cache[d].has \cup Trusted(new) \/ Noted(e, d)'
      /\ op'.pc = op.pc /\ op'.doc = op.doc /\ op'.result = op.result
      /\ op'.read = op.read /\ op'.entry = op.entry /\ (op.touched => op'.touched)
      /\ \/ /\ sync' = Processed(d) /\ Trusted(new) \subseteq db.cache[d].has
            /\ Seen(d)' = Seen(d) \cup new
            /\ op.doc = d /\ ~op'.touched => new \subseteq op.read
         \/ /\ sync'.pc = "apply" /\ sync'.doc = d
            /\ sync'.result.has = db.cache[d].has \cup Trusted(new)
            /\ Seen(d)' = Seen(d)
  BY ApplyNewEntriesEffect
<1>2. TypeOK /\ LogInv /\ DocInv(d) /\ MetaInv(d) /\ sync \in SyncJob
  BY DEF CopiesInv, TypeOK
<1>3. new \subseteq Entries /\ Seen(d) \subseteq Entries /\ op.read \subseteq Entries
  BY <1>2, SeenIsStored DEF TypeOK, SyncJob, OpJob
<1> HIDE DEF new
<1>4. StoreGrows /\ db.next <= db'.next /\ l2'.meta = l2.meta
  BY <1>1 DEF CalmBut
<1>5. d \notin Out' => d \notin Out
  BY <1>1 DEF Out, LostGrows
<1>6. \A has, E : E \in SUBSET Entries /\ Holds(has, E, d) =>
                    \A e \in E : e \in has \/ Noted(e, d)'
  BY <1>1 DEF Holds
<1>7. Current(d)' <=> Current(d)
  BY <1>1 DEF Current
<1>8. CASE /\ sync' = Processed(d) /\ Trusted(new) \subseteq db.cache[d].has
           /\ Seen(d)' = Seen(d) \cup new
           /\ op.doc = d /\ ~op'.touched => new \subseteq op.read
  <2>1. sync'.pc = "docs"
    BY <1>2, <1>8, ProcessedFacts
  <2>2. Untouched(d)
    BY <1>1, <2>1 DEF Untouched
  <2>3. \A e \in new : e \in db.cache[d].has \/ Noted(e, d)'
    BY <1>1, <1>8
  <2>4. CachePart(d)'
    BY <1>1, <1>2, <1>3, <1>5, <1>6, <1>8, <2>3 DEF CachePart, DocInv, Holds
  <2>5. RecordPart(d)'
    <3>1. d \notin Out /\ Current(d) => db.cache[d].has \subseteq l2.doc[d].has \cup Seen(d)
      BY <1>1, <1>2 DEF DocInv, CoverPart
    <3> QED
      BY <1>1, <1>2, <1>3, <1>5, <1>6, <1>7, <1>8, <2>3, <3>1 DEF RecordPart, DocInv, Holds
  <2>6. CoverPart(d)'
    BY <1>1, <1>2, <1>5, <1>7, <1>8 DEF CoverPart, DocInv
  <2>7. SyncPart(d)'
    BY <2>1 DEF SyncPart
  <2>8. OpPart(d)'
    BY <1>1, <1>2, <1>3, <1>5, <1>6, <1>8 DEF OpPart, DocInv, Holds
  <2>9. SeqPart(d)' /\ HomePart(d)'
    BY <1>2, <1>4, <2>2, UntouchedKeeps
  <2>10. MetaInv(d)'
    BY <1>2, <1>4, <2>2, UntouchedKeepsMeta
  <2>11. DocInv(d)'
    BY <2>4, <2>5, <2>6, <2>7, <2>8, <2>9 DEF DocInv
  <2> QED
    BY <1>1, <2>10, <2>11, CalmButKeeps
<1>9. CASE /\ sync'.pc = "apply" /\ sync'.doc = d
           /\ sync'.result.has = db.cache[d].has \cup Trusted(new)
           /\ Seen(d)' = Seen(d)
  <2>1. CachePart(d)' /\ RecordPart(d)' /\ CoverPart(d)'
    BY <1>1, <1>2, <1>3, <1>5, <1>6, <1>7, <1>9 DEF CachePart, RecordPart, CoverPart, DocInv, Holds
  <2>2. SyncPart(d)'
    <3> SUFFICES ASSUME d \notin Out'
                 PROVE  \A e \in Seen(d) \cup new : e \in sync'.result.has \/ Noted(e, d)'
      BY <1>1, <1>9 DEF SyncPart, Holds, new
    <3>1. Holds(db.cache[d].has, Seen(d), d)
      BY <1>1, <1>2, <1>5 DEF DocInv, CachePart
    <3> QED
      BY <1>1, <1>3, <1>6, <1>9, <3>1
  <2>3. OpPart(d)'
    BY <1>1, <1>2, <1>3, <1>5, <1>6, <1>9 DEF OpPart, DocInv, Holds
  <2>4. SeqPart(d)'
    BY <1>1, <1>2 DEF SeqPart, DocInv, LostGrows
  <2>5. HomePart(d)'
    <3>1. StoreDocs \subseteq StoreDocs'
      BY <1>4 DEF StoreGrows
    <3> QED
      BY <1>1, <1>2, <3>1 DEF HomePart, DocInv
  <2>6. MetaInv(d)'
    <3> SUFFICES ASSUME l2.meta /= None PROVE MetaInv(d)'
      BY <1>1 DEF MetaInv
    <3>1. /\ MetaIndex(d)' /\ MetaCopies(d)
          /\ d \notin MetaOut' => d \notin MetaOut
          /\ \A has : MetaHolds(has, d) =>
               \A e \in Upto(l2.meta.cursor, d)' : e \in has \/ <<AuthorOf[e], d>> \in l2.meta.pending
      BY <1>1, <1>2, <1>4, MetaStep
    <3>2. MetaCurrent(d)' <=> MetaCurrent(d)
      BY <1>1 DEF MetaCurrent
    <3>3. MetaCopies(d)'
      BY <1>1, <1>9, <3>1, <3>2 DEF MetaCopies, MetaHolds
    <3> QED
      BY <3>1, <3>3 DEF MetaInv
  <2>7. DocInv(d)'
    BY <2>1, <2>2, <2>3, <2>4, <2>5 DEF DocInv
  <2> QED
    BY <1>1, <2>6, <2>7, CalmButKeeps
<1> QED
  BY <1>1, <1>8, <1>9
(* A document that is stored pushes others out, and those are flushed.     *)
LEMMA VictimCopies ==
  ASSUME TypeOK, NEW d \in Docs, NEW out \in SUBSET Cached(db), d \notin out,
         l2' = FlushVictims(l2, db, out)
  PROVE  /\ l2'.meta = l2.meta /\ l2'.doc[d] = l2.doc[d]
         /\ \A x \in Docs : \/ l2'.doc[x] = l2.doc[x]
                            \/ db.cache[x] /= None /\ l2'.doc[x] = RecordOf(db, x)
<1>1. \A x \in out : x \in Docs /\ db.cache[x] /= None
  BY DEF Cached
<1>2. /\ l2'.meta = l2.meta
      /\ \A x \in Docs : l2'.doc[x] = l2.doc[x] \/ (x \in out /\ l2'.doc[x] = RecordOf(db, x))
  BY FlushVictimsFacts DEF TypeOK
<1> QED
  BY <1>1, <1>2

(* A document the index has counted up has no current record.              *)
LEMMA BumpedIsOld ==
  ASSUME TypeOK, TypeOK', NEW d \in Docs, DocInv(d), LostGrows(d),
         db'.index[d].seq = db.next, l2'.doc[d] \in {l2.doc[d], None}
  PROVE  d \notin Out' => ~Current(d)'
<1>1. db.index[d].seq \in Nat /\ db.next \in Nat /\ (l2.doc[d] /= None => l2.doc[d].seq \in Nat)
  BY NatFacts
<1>2. d \notin Out' => d \notin lost.docs
  BY DEF Out, LostGrows
<1> QED
  BY <1>1, <1>2 DEF DocInv, SeqPart, Current

LEMMA ApplyFinishEffect ==
  ASSUME CopiesInv, TypeOK', ApplyFinish, NEW d \in Docs, d = sync.doc
  PROVE  LET new == sync.batch \cap Of(d)
         IN /\ CalmBut({d}) /\ LostGrows(d)
            /\ sync.pc = "apply" /\ sync.result \in Content /\ sync' = Processed(d)
            /\ Seen(d)' = Seen(d) \cup new
            /\ db'.cache[d] = sync.result /\ l2'.doc[d] = l2.doc[d]
            /\ db'.index[d] = [seq |-> db.next, del |-> sync.result.del, state |-> "visible"]
            /\ \A x \in Docs : x /= d => db'.index[x] = db.index[x]
            /\ db'.next = db.next + 1 /\ db'.notes /\ db'.ready = db.ready /\ db'.fp = db.fp
            /\ \A e \in Entries : Noted(e, d) => Noted(e, d)'
            /\ op'.pc = op.pc /\ op'.doc = op.doc /\ op'.result = op.result
            /\ op'.read = op.read /\ op'.entry = op.entry /\ (op.touched => op'.touched)
            /\ op.doc = d /\ ~op'.touched => new \subseteq op.read
<1> DEFINE new == sync.batch \cap Of(d)
<1>1. TypeOK /\ LogInv /\ db \in Database /\ l2 \in Disk /\ sync \in SyncJob /\ op \in OpJob
      /\ lost \in History /\ db.next \in Nat /\ sync.pc = "apply" /\ sync.result \in Content
  BY NatFacts DEF CopiesInv, TypeOK, ApplyFinish
<1>2. PICK out \in Victims(db, d) :
        /\ db' = UpdateIndex(MarkDocDirty(StoreCachedDocument(db, d, sync.result, out), d),
                             d, sync.result.del, "visible", TRUE)
        /\ l2' = FlushVictims(l2, db, out)
  BY DEF ApplyFinish
<1>3. out \in SUBSET Cached(db) /\ out \in SUBSET Docs /\ d \notin out
  BY VictimsFacts
<1>4. PICK s : s = MarkDocDirty(StoreCachedDocument(db, d, sync.result, out), d)
  OBVIOUS
<1>5. /\ s \in Database /\ s.cursor = db.cursor /\ s.pending = db.pending /\ s.index = db.index
      /\ s.next = db.next /\ s.fp = db.fp /\ s.ready = db.ready
      /\ s.cache[d] = sync.result /\ \A x \in Docs : x /= d => s.cache[x] \in {db.cache[x], None}
  <2>1. PICK r : r = StoreCachedDocument(db, d, sync.result, out)
    OBVIOUS
  <2>2. /\ r \in Database /\ r.cursor = db.cursor /\ r.pending = db.pending
        /\ r.index = db.index /\ r.next = db.next /\ r.fp = db.fp /\ r.ready = db.ready
        /\ r.cache[d] = sync.result /\ \A x \in Docs : x /= d => r.cache[x] \in {db.cache[x], None}
    BY <1>1, <1>3, <2>1, StoreCachedFacts
  <2>3. s = MarkDocDirty(r, d)
    BY <1>4, <2>1
  <2>4. /\ s \in Database /\ s.cursor = r.cursor /\ s.pending = r.pending
        /\ s.index = r.index /\ s.next = r.next /\ s.fp = r.fp /\ s.ready = r.ready
        /\ s.cache = r.cache
    BY <2>2, <2>3, MarkDirtyFacts
  <2> QED
    BY <2>2, <2>4
<1>6. Indexed(db', s, d, sync.result.del, "visible", TRUE)
  <2>1. sync.result.del \in BOOLEAN /\ "visible" \in States /\ TRUE \in BOOLEAN
    BY <1>1 DEF Content, States
  <2> QED
    BY <1>2, <1>4, <1>5, <2>1, UpdateIndexFacts
<1>7. /\ db'.cursor = db.cursor /\ db'.pending = db.pending /\ db'.cache = s.cache
      /\ db'.ready = db.ready /\ db'.fp = db.fp
      /\ \A x \in Docs : x /= d => db'.index[x] = db.index[x]
      /\ db'.index[d] = [seq |-> db.next, del |-> sync.result.del, state |-> "visible"]
      /\ db'.next = db.next + 1 /\ db'.notes
  BY <1>5, <1>6 DEF Indexed
<1>8. /\ l2'.meta = l2.meta /\ l2'.doc[d] = l2.doc[d]
      /\ \A x \in Docs : \/ l2'.doc[x] = l2.doc[x]
                         \/ db.cache[x] /= None /\ l2'.doc[x] = RecordOf(db, x)
  BY <1>1, <1>2, <1>3, VictimCopies
<1>9. /\ sync' = Processed(d) /\ Touch(d, ~(new \subseteq op.read))
      /\ store' = store /\ heal' = heal /\ trusted' = trusted
  BY DEF ApplyFinish
<1> HIDE DEF new
<1>10. /\ op'.pc = op.pc /\ op'.doc = op.doc /\ op'.result = op.result
       /\ op'.read = op.read /\ op'.entry = op.entry /\ (op.touched => op'.touched)
       /\ op.doc = d /\ ~(new \subseteq op.read) => op'.touched
  BY <1>1, <1>9, TouchFacts
<1>11. \A x \in Docs : LostGrows(x)
  BY <1>1 DEF ApplyFinish, LostGrows, History
<1>12. \A x \in Docs, e \in Entries : Noted(e, x) => Noted(e, x)'
  BY <1>7, <1>9 DEF Noted
<1>13. Seen(d)' = Seen(d) \cup new /\ \A x \in Docs : x /= d => Seen(x)' = Seen(x)
  BY <1>1, <1>7, <1>9, ProcessedSeen DEF new
<1>14. sync'.pc = "docs" /\ sync'.batch = sync.batch /\ sync'.next = sync.next
  BY <1>1, <1>9, ProcessedFacts
<1>15. StoreGrows /\ LogInv' /\ OpInv'
  BY <1>1, <1>7, <1>8, <1>9, <1>10, <1>14, ProcessedLog
<1>16. \A x \in Docs \ {d} : Calm(x)
  BY <1>5, <1>7, <1>8, <1>10, <1>11, <1>12, <1>13, <1>14 DEF Calm, Untouched
<1>17. CalmBut({d})
  BY <1>1, <1>7, <1>8, <1>15, <1>16 DEF CalmBut
<1> QED
  BY <1>1, <1>5, <1>7, <1>8, <1>9, <1>10, <1>11, <1>12, <1>13, <1>17 DEF new

LEMMA ApplyFinishKeeps == ASSUME CopiesInv, TypeOK', ApplyFinish PROVE CopiesInv'
<1> SUFFICES ASSUME NEW d \in Docs, d = sync.doc
             PROVE  CopiesInv'
  BY DEF CopiesInv, TypeOK, ApplyFinish
<1> DEFINE new == sync.batch \cap Of(d)
<1>1. /\ CalmBut({d}) /\ LostGrows(d)
      /\ sync.pc = "apply" /\ sync.result \in Content /\ sync' = Processed(d)
      /\ Seen(d)' = Seen(d) \cup new
      /\ db'.cache[d] = sync.result /\ l2'.doc[d] = l2.doc[d]
      /\ db'.index[d] = [seq |-> db.next, del |-> sync.result.del, state |-> "visible"]
      /\ db'.next = db.next + 1
      /\ \A e \in Entries : Noted(e, d) => Noted(e, d)'
      /\ op'.pc = op.pc /\ op'.doc = op.doc /\ op'.result = op.result
      /\ op'.read = op.read /\ op'.entry = op.entry /\ (op.touched => op'.touched)
      /\ op.doc = d /\ ~op'.touched => new \subseteq op.read
  BY ApplyFinishEffect
<1>2. TypeOK /\ LogInv /\ DocInv(d) /\ MetaInv(d) /\ sync \in SyncJob /\ db.next \in Nat
  BY NatFacts DEF CopiesInv, TypeOK
<1>3. new \subseteq Entries /\ Seen(d) \subseteq Entries /\ op.read \subseteq Entries
  BY <1>2, SeenIsStored DEF TypeOK, SyncJob, OpJob
<1>4. StoreGrows /\ l2'.meta = l2.meta
  BY <1>1 DEF CalmBut
<1>5. d \notin Out' => d \notin Out
  BY <1>1 DEF Out, LostGrows
<1>6. \A has, E : E \in SUBSET Entries /\ Holds(has, E, d) =>
                    \A e \in E : e \in has \/ Noted(e, d)'
  BY <1>1 DEF Holds
<1>7. d \notin Out' => ~Current(d)'
  BY <1>1, <1>2, BumpedIsOld
<1>8. sync'.pc = "docs"
  BY <1>1, <1>2, ProcessedFacts
<1>9. CachePart(d)'
  <2> SUFFICES ASSUME d \notin Out'
               PROVE  \A e \in Seen(d) \cup new : e \in sync.result.has \/ Noted(e, d)'
    BY <1>1 DEF CachePart, Holds
  <2>1. Holds(sync.result.has, Seen(d) \cup new, d)
    BY <1>1, <1>2, <1>5 DEF DocInv, SyncPart
  <2> QED
    BY <1>3, <1>6, <2>1
<1> HIDE DEF new
<1>10. RecordPart(d)' /\ CoverPart(d)' /\ SyncPart(d)'
  BY <1>7, <1>8 DEF RecordPart, CoverPart, SyncPart
<1>11. OpPart(d)'
  BY <1>1, <1>2, <1>3, <1>5, <1>6 DEF OpPart, DocInv, Holds
<1>12. SeqPart(d)'
  <2>1. db.index[d].seq \in Nat /\ (l2.doc[d] /= None => l2.doc[d].seq \in Nat)
    BY <1>2, NatFacts
  <2> QED
    BY <1>1, <1>2, <2>1 DEF SeqPart, DocInv, LostGrows
<1>13. HomePart(d)'
  <2>1. StoreDocs \subseteq StoreDocs'
    BY <1>4 DEF StoreGrows
  <2> QED
    BY <1>1, <1>2, <1>8, <2>1 DEF HomePart, DocInv
<1>14. MetaInv(d)'
  <2> SUFFICES ASSUME l2.meta /= None PROVE MetaInv(d)'
    BY <1>4 DEF MetaInv
  <2>1. /\ MetaIndex(d)' /\ MetaCopies(d)
        /\ d \notin MetaOut' => d \notin MetaOut
        /\ \A has : MetaHolds(has, d) =>
             \A e \in Upto(l2.meta.cursor, d)' : e \in has \/ <<AuthorOf[e], d>> \in l2.meta.pending
    BY <1>1, <1>2, <1>4, MetaStep
  <2>2. MetaCurrent(d)' <=> MetaCurrent(d)
    BY <1>1, <1>4 DEF MetaCurrent
  <2>3. MetaCopies(d)'
    BY <1>1, <1>4, <1>8, <2>1, <2>2 DEF MetaCopies, MetaHolds
  <2> QED
    BY <2>1, <2>3 DEF MetaInv
<1>15. DocInv(d)'
  BY <1>9, <1>10, <1>11, <1>12, <1>13 DEF DocInv
<1> QED
  BY <1>1, <1>14, <1>15, CalmButKeeps

(* A document that is no longer in memory, or complete there, and has no   *)
(* current record.                                                         *)
LEMMA GoneKeeps ==
  ASSUME CopiesInv, TypeOK', NEW d \in Docs, CalmBut({d}), Untouched(d),
         db'.cache[d] = None \/ CachePart(d)', d \notin Out' => ~Current(d)',
         d \notin Out' => ~(sync'.pc = "apply" /\ sync'.doc = d), OpPart(d)'
  PROVE  CopiesInv'
<1>1. TypeOK /\ LogInv /\ DocInv(d) /\ MetaInv(d)
  BY DEF CopiesInv
<1>2. StoreGrows /\ db.next <= db'.next /\ l2'.meta = l2.meta
  BY DEF CalmBut
<1>3. CachePart(d)' /\ RecordPart(d)' /\ CoverPart(d)' /\ SyncPart(d)'
  BY DEF CachePart, RecordPart, CoverPart, SyncPart
<1>4. SeqPart(d)' /\ HomePart(d)'
  BY <1>1, <1>2, UntouchedKeeps
<1>5. MetaInv(d)'
  BY <1>1, <1>2, UntouchedKeepsMeta
<1>6. DocInv(d)'
  BY <1>3, <1>4 DEF DocInv
<1> QED
  BY <1>5, <1>6, CalmButKeeps

(* What a load or write has read covers what the sync has passed since.    *)
LEMMA OpReadCovers ==
  ASSUME CopiesInv, NEW d \in Docs, LostGrows(d),
         \A e \in Entries : Noted(e, d) => Noted(e, d)',
         Seen(d)' \subseteq Seen(d) \cup (sync.batch \cap Of(d)),
         op'.pc /= "idle" => op.pc /= "idle",
         op'.doc = op.doc, op'.result = op.result, op'.read = op.read, op.touched => op'.touched,
         op.doc = d /\ ~op'.touched => sync.batch \cap Of(d) \subseteq op.read
  PROVE  OpPart(d)'
<1>1. d \notin Out' => d \notin Out
  BY DEF Out, LostGrows
<1>2. TypeOK /\ LogInv /\ OpPart(d)
  BY DEF CopiesInv, DocInv
<1>3. Seen(d) \subseteq Entries /\ op.read \subseteq Entries
  BY <1>2, SeenIsStored DEF TypeOK, OpJob
<1> SUFFICES ASSUME d \notin Out', op'.pc /= "idle", op'.doc = d, ~op'.touched
             PROVE  \A e \in Seen(d)' \cup op.read : e \in op.result.has \/ Noted(e, d)'
  BY DEF OpPart, Holds
<1>4. \A e \in Seen(d) \cup op.read : e \in op.result.has \/ Noted(e, d)
  BY <1>1, <1>2 DEF OpPart, Holds
<1> QED
  BY <1>3, <1>4

LEMMA IndexFromMetadataEffect ==
  ASSUME CopiesInv, TypeOK', NEW d \in Docs, IndexFromMetadata(d)
  PROVE  /\ CalmBut({d}) /\ Untouched(d) /\ d \in keys
         /\ db'.cache = db.cache /\ db.cache[d] = None /\ l2' = l2
         /\ db'.index[d].seq = db.next /\ db'.index[d].state = "visible"
         /\ \A x \in Docs : x /= d => db'.index[x] = db.index[x]
         /\ db'.next = db.next + 1 /\ db'.notes /\ db'.ready = db.ready /\ db'.fp = db.fp
         /\ sync' = Processed(d) /\ sync'.pc = "docs"
         /\ Seen(d)' = Seen(d) \cup (sync.batch \cap Of(d))
         /\ \A e \in Entries : Noted(e, d) => Noted(e, d)'
         /\ op'.pc = op.pc /\ op'.doc = op.doc /\ op'.result = op.result
         /\ op'.read = op.read /\ (op.touched => op'.touched)
         /\ op.doc = d /\ ~op'.touched => sync.batch \cap Of(d) \subseteq op.read
<1>1. TypeOK /\ LogInv /\ db \in Database /\ sync \in SyncJob /\ op \in OpJob
      /\ lost \in History /\ db.next \in Nat
  BY NatFacts DEF CopiesInv, TypeOK
<1>2. PICK all : db' = UpdateIndex(db, d, IsDeleted(all), "visible", TRUE)
  BY DEF IndexFromMetadata
<1>3. Indexed(db', db, d, IsDeleted(all), "visible", TRUE)
  <2>1. IsDeleted(all) \in BOOLEAN /\ "visible" \in States /\ TRUE \in BOOLEAN
    BY IsDeletedIs DEF States
  <2> QED
    BY <1>1, <1>2, <2>1, UpdateIndexFacts
<1>4. /\ db'.cursor = db.cursor /\ db'.pending = db.pending /\ db'.cache = db.cache
      /\ db'.ready = db.ready /\ db'.fp = db.fp
      /\ \A x \in Docs : x /= d => db'.index[x] = db.index[x]
      /\ db'.index[d] = [seq |-> db.next, del |-> IsDeleted(all), state |-> "visible"]
      /\ db'.next = db.next + 1 /\ db'.notes
  BY <1>3 DEF Indexed
<1>5. /\ sync' = Processed(d) /\ Touch(d, ~(sync.batch \cap Of(d) \subseteq op.read))
      /\ store' = store /\ heal' = heal /\ trusted' = trusted /\ l2' = l2 /\ lost' = lost
      /\ sync.pc = "docs" /\ db.cache[d] = None /\ d \in keys
  BY DEF IndexFromMetadata, Due
<1>6. /\ op'.pc = op.pc /\ op'.doc = op.doc /\ op'.result = op.result
      /\ op'.read = op.read /\ op'.entry = op.entry /\ (op.touched => op'.touched)
      /\ op.doc = d /\ ~(sync.batch \cap Of(d) \subseteq op.read) => op'.touched
  BY <1>1, <1>5, TouchFacts
<1>7. \A x \in Docs : LostGrows(x)
  BY <1>5, LostSame
<1>8. \A x \in Docs, e \in Entries : Noted(e, x) => Noted(e, x)'
  BY <1>4, <1>5 DEF Noted
<1>9. Seen(d)' = Seen(d) \cup (sync.batch \cap Of(d)) /\ \A x \in Docs : x /= d => Seen(x)' = Seen(x)
  BY <1>1, <1>4, <1>5, ProcessedSeen
<1>10. sync'.pc = "docs" /\ sync'.batch = sync.batch /\ sync'.next = sync.next
  BY <1>1, <1>5, ProcessedFacts
<1>11. StoreGrows /\ LogInv' /\ OpInv'
  BY <1>1, <1>4, <1>5, <1>6, <1>10, ProcessedLog
<1>12. \A x \in Docs : Untouched(x)
  BY <1>1, <1>4, <1>5, <1>6, <1>7, <1>10 DEF Untouched
<1>13. CalmBut({d})
  BY <1>1, <1>4, <1>5, <1>8, <1>9, <1>11, <1>12 DEF CalmBut, Calm
<1> QED
  BY <1>4, <1>5, <1>6, <1>8, <1>9, <1>10, <1>12, <1>13

LEMMA IndexFromMetadataKeeps ==
  ASSUME CopiesInv, TypeOK', NEW d \in Docs, IndexFromMetadata(d) PROVE CopiesInv'
<1>1. /\ CalmBut({d}) /\ Untouched(d)
      /\ db'.cache[d] = None /\ l2' = l2 /\ db'.index[d].seq = db.next
      /\ sync'.pc = "docs"
      /\ Seen(d)' = Seen(d) \cup (sync.batch \cap Of(d))
      /\ \A e \in Entries : Noted(e, d) => Noted(e, d)'
      /\ op'.pc = op.pc /\ op'.doc = op.doc /\ op'.result = op.result
      /\ op'.read = op.read /\ (op.touched => op'.touched)
      /\ op.doc = d /\ ~op'.touched => sync.batch \cap Of(d) \subseteq op.read
  BY IndexFromMetadataEffect
<1>2. TypeOK /\ DocInv(d) /\ LostGrows(d)
  BY <1>1 DEF CopiesInv, Untouched
<1>3. d \notin Out' => ~Current(d)'
  BY <1>1, <1>2, BumpedIsOld
<1>4. OpPart(d)'
  BY <1>1, <1>2, OpReadCovers
<1> QED
  BY <1>1, <1>3, <1>4, GoneKeeps

(* The sync writes the index of a document, visible or hidden, that it has *)
(* scanned or purged before.                                               *)
Visits(d) == sync.doc = d /\ (IndexScanned \/ SyncHide)

LEMMA VisitDatabase ==
  ASSUME TypeOK, NEW d \in Docs, Visits(d)
  PROVE  /\ db'.cursor = db.cursor /\ db'.pending = db.pending /\ db'.cache = db.cache
         /\ db'.ready = db.ready /\ db'.fp = db.fp
         /\ \A x \in Docs : x /= d => db'.index[x] = db.index[x]
         /\ \/ /\ SyncHide /\ db.index[d].state = "inaccessible"
               /\ db'.index = db.index /\ db'.next = db.next /\ db'.notes = db.notes
            \/ db'.index[d].seq = db.next /\ db'.next = db.next + 1 /\ db'.notes
         /\ IndexScanned => db'.index[d].seq = db.next /\ db'.index[d].state = "visible"
         /\ SyncHide => db'.index[d].state = "inaccessible"
         /\ ~(IndexScanned /\ SyncHide)
<1>1. db \in Database
  BY DEF TypeOK
<1>2. ~(IndexScanned /\ SyncHide)
  BY DEF IndexScanned, SyncHide
<1>3. CASE IndexScanned
  <2>1. sync.result.del \in BOOLEAN /\ "visible" \in States /\ TRUE \in BOOLEAN
    BY <1>3 DEF TypeOK, IndexScanned, Content, States
  <2>2. db' = UpdateIndex(db, d, sync.result.del, "visible", TRUE)
    BY <1>3 DEF IndexScanned, Visits
  <2>3. Indexed(db', db, d, sync.result.del, "visible", TRUE)
    BY <1>1, <2>1, <2>2, UpdateIndexFacts
  <2> QED
    BY <1>2, <1>3, <2>3 DEF Indexed
<1>4. CASE SyncHide
  <2>1. HiddenNow(db', db, d)
    BY <1>4, SyncHideFacts DEF Visits
  <2> QED
    BY <1>2, <1>4, <2>1 DEF HiddenNow
<1> QED
  BY <1>3, <1>4 DEF Visits

LEMMA VisitHistory ==
  ASSUME TypeOK, NEW d \in Docs, Visits(d)
  PROVE  /\ lost'.docs = IF Overlooks(d) THEN lost.docs \cup {d} ELSE lost.docs
         /\ lost'.stale = lost.stale /\ lost'.early = lost.early /\ lost'.feed = lost.feed
         /\ lost'.heal = lost.heal /\ lost'.skipped = lost.skipped
         /\ lost'.passed = lost.passed /\ lost'.unread = lost.unread
         /\ lost'.rekeyed = lost.rekeyed
         /\ IndexScanned => lost'.keys = Unhidden(d)
         /\ SyncHide => lost'.keys = Unshown(d)
<1>1. lost \in History
  BY DEF TypeOK
<1>2. CASE IndexScanned
  <2>1. lost' = [lost EXCEPT !.docs = IF Overlooks(d) THEN @ \cup {d} ELSE @,
                             !.keys = Unhidden(d)] /\ ~SyncHide
    BY <1>2 DEF Visits, IndexScanned, SyncHide
  <2> QED
    BY <1>1, <2>1 DEF History
<1>3. CASE SyncHide
  <2>1. lost' = [lost EXCEPT !.docs = IF Overlooks(d) THEN @ \cup {d} ELSE @,
                             !.keys = Unshown(d)] /\ ~IndexScanned
    BY <1>3 DEF Visits, IndexScanned, SyncHide
  <2> QED
    BY <1>1, <2>1 DEF History
<1> QED
  BY <1>2, <1>3 DEF Visits

LEMMA VisitEffect ==
  ASSUME CopiesInv, TypeOK', NEW d \in Docs, Visits(d)
  PROVE  /\ CalmBut({d}) /\ Untouched(d) /\ l2' = l2
         /\ sync' = Processed(d) /\ sync'.pc = "docs"
         /\ Seen(d)' = Seen(d) \cup (sync.batch \cap Of(d))
         /\ \A e \in Entries : Noted(e, d) => Noted(e, d)'
         /\ op'.pc = op.pc /\ op'.doc = op.doc /\ op'.result = op.result
         /\ op'.read = op.read /\ (op.touched => op'.touched)
         /\ op.doc = d /\ ~op'.touched => sync.batch \cap Of(d) \subseteq op.read
         /\ CachePart(d)'
<1>1. TypeOK /\ LogInv /\ DocInv(d) /\ db \in Database /\ sync \in SyncJob /\ op \in OpJob
      /\ lost \in History /\ db.next \in Nat
  BY NatFacts DEF CopiesInv, TypeOK
<1>2. /\ sync' = Processed(d) /\ Touch(d, ~(sync.batch \cap Of(d) \subseteq op.read))
      /\ store' = store /\ heal' = heal /\ trusted' = trusted /\ l2' = l2
      /\ sync.pc \in {"index", "hide"}
  BY DEF Visits, IndexScanned, SyncHide
<1>3. /\ db'.cursor = db.cursor /\ db'.pending = db.pending /\ db'.cache = db.cache
      /\ \A x \in Docs : x /= d => db'.index[x] = db.index[x]
      /\ \/ db'.index = db.index /\ db'.next = db.next
         \/ db'.index[d].seq = db.next /\ db'.next = db.next + 1
  BY <1>1, VisitDatabase
<1>4. /\ op'.pc = op.pc /\ op'.doc = op.doc /\ op'.result = op.result
      /\ op'.read = op.read /\ op'.entry = op.entry /\ (op.touched => op'.touched)
      /\ op.doc = d /\ ~(sync.batch \cap Of(d) \subseteq op.read) => op'.touched
  BY <1>1, <1>2, TouchFacts
<1>5. \A x \in Docs : LostGrows(x)
  BY <1>1, VisitHistory DEF LostGrows
<1>6. \A x \in Docs, e \in Entries : Noted(e, x) => Noted(e, x)'
  BY <1>2, <1>3 DEF Noted
<1>7. Seen(d)' = Seen(d) \cup (sync.batch \cap Of(d)) /\ \A x \in Docs : x /= d => Seen(x)' = Seen(x)
  BY <1>1, <1>2, <1>3, ProcessedSeen
<1>8. sync'.pc = "docs" /\ sync'.batch = sync.batch /\ sync'.next = sync.next
  BY <1>1, <1>2, ProcessedFacts
<1>9. db.next <= db'.next
  BY <1>1, <1>3
<1>10. StoreGrows /\ LogInv' /\ OpInv'
  BY <1>1, <1>2, <1>3, <1>4, <1>8, <1>9, ProcessedLog
<1>11. \A x \in Docs : Untouched(x)
  BY <1>1, <1>2, <1>3, <1>4, <1>5, <1>8 DEF Untouched
<1>12. CalmBut({d})
  BY <1>2, <1>6, <1>7, <1>9, <1>10, <1>11 DEF CalmBut, Calm
<1>13. CachePart(d)'
  <2> SUFFICES ASSUME d \notin Out', db.cache[d] /= None
               PROVE  Holds(db.cache[d].has, Seen(d), d)'
    BY <1>3 DEF CachePart
  <2>1. d \notin Out
    BY <1>5 DEF Out, LostGrows
  <2>2. \A e \in Seen(d) : e \in db.cache[d].has \/ Noted(e, d)
    BY <1>1, <2>1 DEF DocInv, CachePart, Holds
  <2>3. ~Overlooks(d)
    BY <1>1, VisitHistory DEF Out
  <2>4. \A e \in sync.batch \cap Of(d) : e \in db.cache[d].has \/ Noted(e, d)
    BY <2>3 DEF Overlooks, Noted
  <2>5. Seen(d)' \subseteq Entries
    BY <1>7, <1>1, SeenIsStored DEF SyncJob
  <2> QED
    BY <1>3, <1>6, <1>7, <2>2, <2>4, <2>5 DEF Holds
<1> QED
  BY <1>2, <1>4, <1>6, <1>7, <1>8, <1>11, <1>12, <1>13

LEMMA VisitKeeps ==
  ASSUME CopiesInv, TypeOK', NEW d \in Docs, Visits(d) PROVE CopiesInv'
<1>1. /\ CalmBut({d}) /\ Untouched(d) /\ l2' = l2 /\ CachePart(d)'
      /\ sync'.pc = "docs"
      /\ Seen(d)' = Seen(d) \cup (sync.batch \cap Of(d))
      /\ \A e \in Entries : Noted(e, d) => Noted(e, d)'
      /\ op'.pc = op.pc /\ op'.doc = op.doc /\ op'.result = op.result
      /\ op'.read = op.read /\ (op.touched => op'.touched)
      /\ op.doc = d /\ ~op'.touched => sync.batch \cap Of(d) \subseteq op.read
  BY VisitEffect
<1>2. TypeOK /\ DocInv(d) /\ LostGrows(d)
  BY <1>1 DEF CopiesInv, Untouched
<1>3. d \notin Out' => ~Current(d)'
  <2>1. CASE IndexScanned
    <3>1. db'.index[d].seq = db.next
      BY <1>2, <2>1, VisitDatabase
    <3> QED
      BY <1>1, <1>2, <3>1, BumpedIsOld
  <2>2. CASE SyncHide
    <3>1. db'.index[d].state = "inaccessible"
      BY <1>2, <2>2, VisitDatabase
    <3> QED
      BY <3>1 DEF Current
  <2> QED
    BY <2>1, <2>2 DEF Visits
<1>4. OpPart(d)'
  BY <1>1, <1>2, OpReadCovers
<1> QED
  BY <1>1, <1>3, <1>4, GoneKeeps

LEMMA VisitsAre ==
  ASSUME TypeOK, IndexScanned \/ SyncHide
  PROVE  sync.doc \in Docs /\ Visits(sync.doc)
BY DEF TypeOK, IndexScanned, SyncHide, Visits

(* Without its key a hidden document leaves the memory and the records.    *)
LEMMA SyncWithoutKeyEffect ==
  ASSUME CopiesInv, TypeOK', NEW d \in Docs, SyncWithoutKey(d)
  PROVE  /\ CalmBut({d}) /\ Untouched(d) /\ d \notin keys
         /\ db'.cache[d] = None /\ db'.index[d].state /= "visible"
         /\ db'.ready = db.ready /\ db'.fp = db.fp
         /\ \A x \in Docs : x /= d => db'.cache[x] = db.cache[x]
         /\ db'.index = db.index /\ db'.next = db.next /\ db'.notes = db.notes
         /\ sync' = Processed(d) /\ sync'.pc = "docs"
         /\ Seen(d)' = Seen(d) \cup (sync.batch \cap Of(d))
         /\ \A e \in Entries : Noted(e, d) => Noted(e, d)'
         /\ op'.pc = op.pc /\ op'.doc = op.doc /\ op'.result = op.result
         /\ op'.read = op.read /\ (op.touched => op'.touched)
         /\ op.doc = d /\ ~op'.touched => sync.batch \cap Of(d) \subseteq op.read
<1>1. TypeOK /\ LogInv /\ db \in Database /\ l2 \in Disk /\ sync \in SyncJob /\ op \in OpJob
      /\ lost \in History /\ db.next \in Nat
  BY NatFacts DEF CopiesInv, TypeOK
<1>2. /\ sync' = Processed(d) /\ Touch(d, ~(sync.batch \cap Of(d) \subseteq op.read))
      /\ store' = store /\ heal' = heal /\ trusted' = trusted /\ lost' = lost
      /\ sync.pc = "docs" /\ d \notin keys /\ db.index[d].state /= "visible"
  BY DEF SyncWithoutKey, WithoutKey, Due
<1>3. /\ db'.cursor = db.cursor /\ db'.pending = db.pending /\ db'.ready = db.ready
      /\ db'.fp = db.fp /\ db'.cache[d] = None /\ db'.index[d].state /= "visible"
      /\ \A x \in Docs : x /= d => db'.cache[x] = db.cache[x]
      /\ db'.index = db.index /\ db'.next = db.next /\ db'.notes = db.notes
  BY <1>1, <1>2, SyncWithoutKeyFacts
<1>4. l2'.meta = l2.meta /\ \A x \in Docs : l2'.doc[x] \in {l2.doc[x], None}
  BY <1>1, SyncWithoutKeyFacts
<1>5. /\ op'.pc = op.pc /\ op'.doc = op.doc /\ op'.result = op.result
      /\ op'.read = op.read /\ op'.entry = op.entry /\ (op.touched => op'.touched)
      /\ op.doc = d /\ ~(sync.batch \cap Of(d) \subseteq op.read) => op'.touched
  BY <1>1, <1>2, TouchFacts
<1>6. \A x \in Docs : LostGrows(x)
  BY <1>2, LostSame
<1>7. \A x \in Docs, e \in Entries : Noted(e, x) => Noted(e, x)'
  BY <1>2, <1>3 DEF Noted
<1>8. Seen(d)' = Seen(d) \cup (sync.batch \cap Of(d)) /\ \A x \in Docs : x /= d => Seen(x)' = Seen(x)
  BY <1>1, <1>2, <1>3, ProcessedSeen
<1>9. sync'.pc = "docs" /\ sync'.batch = sync.batch /\ sync'.next = sync.next
  BY <1>1, <1>2, ProcessedFacts
<1>10. db.next <= db'.next
  BY <1>1, <1>3
<1>11. StoreGrows /\ LogInv' /\ OpInv'
  BY <1>1, <1>2, <1>3, <1>4, <1>5, <1>9, <1>10, ProcessedLog
<1>12. \A x \in Docs : Untouched(x)
  BY <1>1, <1>3, <1>4, <1>5, <1>6, <1>9 DEF Untouched
<1>13. CalmBut({d})
  BY <1>4, <1>7, <1>8, <1>10, <1>11, <1>12 DEF CalmBut, Calm
<1> QED
  BY <1>2, <1>3, <1>5, <1>7, <1>8, <1>9, <1>12, <1>13

LEMMA SyncWithoutKeyKeeps ==
  ASSUME CopiesInv, TypeOK', NEW d \in Docs, SyncWithoutKey(d) PROVE CopiesInv'
<1>1. /\ CalmBut({d}) /\ Untouched(d)
      /\ db'.cache[d] = None /\ db'.index[d].state /= "visible" /\ sync'.pc = "docs"
      /\ Seen(d)' = Seen(d) \cup (sync.batch \cap Of(d))
      /\ \A e \in Entries : Noted(e, d) => Noted(e, d)'
      /\ op'.pc = op.pc /\ op'.doc = op.doc /\ op'.result = op.result
      /\ op'.read = op.read /\ (op.touched => op'.touched)
      /\ op.doc = d /\ ~op'.touched => sync.batch \cap Of(d) \subseteq op.read
  BY SyncWithoutKeyEffect
<1>2. LostGrows(d) /\ ~Current(d)'
  BY <1>1 DEF Untouched, Current
<1>3. OpPart(d)'
  BY <1>1, <1>2, OpReadCovers
<1> QED
  BY <1>1, <1>2, <1>3, GoneKeeps
-----------------------------------------------------------------------------
(* A document is re-materialized                                           *)

LEMMA HealDocumentEffect ==
  ASSUME CopiesInv, TypeOK', NEW d \in Docs, HealDocument(d)
  PROVE  /\ CalmBut({d}) /\ Untouched(d)
         /\ db'.cache[d] = None /\ l2'.doc[d] = None
         /\ db'.ready = db.ready /\ db'.fp = db.fp /\ Seen(d)' = Seen(d)
         /\ \A x \in Docs : x /= d => db'.index[x] = db.index[x] /\ db'.cache[x] = db.cache[x]
         /\ \/ d \notin keys /\ db'.index = db.index /\ db'.next = db.next /\ db'.notes = db.notes
            \/ /\ d \in keys /\ db'.index[d].seq = db.next /\ db'.index[d].state = "visible"
               /\ db'.next = db.next + 1 /\ db'.notes
         /\ d \notin Out' => ~(sync'.pc = "apply" /\ sync'.doc = d)
         /\ OpPart(d)'
<1>1. TypeOK /\ LogInv /\ OpInv /\ DocInv(d) /\ db \in Database /\ l2 \in Disk /\ op \in OpJob
      /\ lost \in History /\ db.next \in Nat
  BY NatFacts DEF CopiesInv, TypeOK
<1>2. /\ Touch(d, ~(Trusted(Stored \cap Of(d)) \subseteq op.result.has))
      /\ heal' = heal \ {d} /\ lost' = [lost EXCEPT
            !.docs = IF sync.pc = "apply" /\ sync.doc = d THEN @ \cup {d} ELSE @,
            !.unread = IF d \in keys THEN @ ELSE @ \cup {d}]
      /\ store' = store /\ trusted' = trusted /\ sync' = sync
  BY DEF HealDocument
<1>3. /\ db'.cursor = db.cursor /\ db'.pending = db.pending /\ db'.ready = db.ready
      /\ db'.fp = db.fp /\ db'.cache[d] = None
      /\ \A x \in Docs : x /= d => db'.cache[x] = db.cache[x] /\ db'.index[x] = db.index[x]
      /\ \/ d \notin keys /\ db'.index = db.index /\ db'.next = db.next /\ db'.notes = db.notes
         \/ /\ d \in keys /\ db'.index[d].seq = db.next /\ db'.index[d].state = "visible"
            /\ db'.next = db.next + 1 /\ db'.notes
  BY <1>1, HealFacts
<1>4. /\ l2'.meta = l2.meta /\ l2'.doc[d] = None
      /\ \A x \in Docs : l2'.doc[x] \in {l2.doc[x], None}
  BY <1>1, PurgeRecordFacts DEF HealDocument
<1>5. /\ op'.pc = op.pc /\ op'.doc = op.doc /\ op'.result = op.result
      /\ op'.read = op.read /\ op'.entry = op.entry /\ (op.touched => op'.touched)
      /\ op.doc = d /\ ~(Trusted(Stored \cap Of(d)) \subseteq op.result.has) => op'.touched
  BY <1>1, <1>2, TouchFacts
<1>6. /\ \A x \in Docs : LostGrows(x)
      /\ sync.pc = "apply" /\ sync.doc = d => d \in lost'.docs
  BY <1>1, <1>2 DEF LostGrows, History
<1>7. db.next <= db'.next
  BY <1>1, <1>3
<1>8. StoreGrows /\ LogInv' /\ OpInv'
  BY <1>1, <1>2, <1>3, <1>4, <1>5, <1>7, LogSame
<1>9. \A x \in Docs : Seen(x)' = Seen(x)
  BY <1>2, <1>3 DEF Seen, Upto
<1>10. \A x \in Docs : Untouched(x)
  BY <1>1, <1>2, <1>3, <1>4, <1>5, <1>6 DEF Untouched
<1>11. \A x \in Docs \ {d} : \A e \in Entries : Noted(e, x) => Noted(e, x)'
  BY <1>2, <1>3 DEF Noted
<1>12. CalmBut({d})
  BY <1>4, <1>7, <1>8, <1>9, <1>10, <1>11 DEF CalmBut, Calm
<1>13. OpPart(d)'
  <2> SUFFICES ASSUME d \notin Out', op.pc /= "idle", op.doc = d, ~op'.touched
               PROVE  \A e \in Seen(d) \cup op.read : e \in op.result.has \/ Noted(e, d)'
    BY <1>5, <1>9 DEF OpPart, Holds
  <2>1. d \notin Out /\ ~op.touched
    BY <1>5, <1>6 DEF Out, LostGrows
  <2>2. \A e \in Seen(d) \cup op.read : e \in op.result.has \/ Noted(e, d)
    BY <1>1, <2>1 DEF DocInv, OpPart, Holds
  <2>3. Trusted(Stored \cap Of(d)) \subseteq op.result.has
    BY <1>5
  <2>4. \A e \in Seen(d) \cup op.read : e \in op.result.has \/ e \in Stored \cap Of(d)
    BY <1>1, SeenIsStored DEF OpInv
  <2>5. \A e \in Stored \cap Of(d) : AuthorOf[e] \in trusted => e \in op.result.has
    BY <2>3 DEF Trusted
  <2> QED
    BY <1>3, <2>2, <2>4, <2>5 DEF Noted
<1> QED
  BY <1>2, <1>3, <1>4, <1>6, <1>9, <1>10, <1>12, <1>13 DEF Out

LEMMA HealDocumentKeeps ==
  ASSUME CopiesInv, TypeOK', NEW d \in Docs, HealDocument(d) PROVE CopiesInv'
<1>1. /\ CalmBut({d}) /\ Untouched(d) /\ db'.cache[d] = None /\ l2'.doc[d] = None
      /\ d \notin Out' => ~(sync'.pc = "apply" /\ sync'.doc = d)
      /\ OpPart(d)'
  BY HealDocumentEffect
<1>2. ~Current(d)'
  BY <1>1 DEF Current
<1> QED
  BY <1>1, <1>2, GoneKeeps

-----------------------------------------------------------------------------
(* Loads                                                                   *)

(* What a load starts from: all the entries of the store, or the record.   *)
LEMMA LoadStartEffect ==
  ASSUME CopiesInv, TypeOK', NEW d \in Docs, LoadStart(d)
  PROVE  /\ CalmBut({d})
         /\ db'.cache = db.cache /\ db.cache[d] = None /\ db'.index = db.index
         /\ db'.next = db.next /\ db'.notes = db.notes /\ db'.ready = db.ready /\ db'.fp = db.fp
         /\ d \in StoreDocs /\ d \in keys /\ sync' = sync
         /\ l2'.doc[d] \in {l2.doc[d], None}
         /\ LostGrows(d) /\ Seen(d)' = Seen(d)
         /\ \A e \in Entries : Noted(e, d) => Noted(e, d)'
         /\ op'.pc = "load" /\ op'.doc = d /\ op'.result \in Content
         /\ \/ /\ op'.read \subseteq op'.result.has
               /\ l2.doc[d] /= None /\ op'.result.has = l2.doc[d].has /\ Current(d)
            \/ /\ \A e \in Stored \cap Of(d) : e \in op'.result.has \/ Noted(e, d)'
               /\ \A e \in op'.read : e \in op'.result.has \/ e \in Stored \cap Of(d)
               /\ d \notin lost'.skipped => Stored \cap Of(d) \subseteq op'.result.has
               /\ \/ op'.result.has \subseteq Stored \cap Of(d)
                  \/ /\ l2.doc[d] /= None
                     /\ op'.result.has \subseteq l2.doc[d].has \cup (Stored \cap Of(d))
         /\ d \notin lost'.early => Ahead \cap Of(d) = {}
<1> DEFINE usable == l2.doc[d] /= None /\ db.index[d].state /= "none"
           all == Stored \cap Of(d)
<1>1. TypeOK /\ LogInv /\ OpInv /\ DocInv(d) /\ db \in Database /\ l2 \in Disk
      /\ lost \in History /\ db.next \in Nat /\ db.index[d].seq \in Nat
  BY NatFacts DEF CopiesInv, TypeOK
<1>2. PICK load : /\ load = IF usable THEN TryLoadFromL2(d) ELSE FullLoad(d)
                  /\ op' = [NoOp EXCEPT !.pc = "load", !.doc = d, !.result = load.result,
                                        !.read = load.read, !.dirty = load.dirty]
                  /\ db' = RecordPending(db, load.pending)
                  /\ lost' = [lost EXCEPT
                       !.early = IF Ahead \cap Of(d) = {} THEN @ ELSE @ \cup {d},
                       !.skipped = IF load.pending = {} THEN @ ELSE @ \cup {d}]
                  /\ l2' = IF usable THEN l2 ELSE PurgeRecord(l2, d)
  BY DEF LoadStart
<1>3. /\ load.result \in Content /\ load.read \in SUBSET Entries /\ load.dirty \in BOOLEAN
      /\ load.pending \in SUBSET (Authors \X Docs)
  BY <1>1, <1>2, FullLoadFacts, TryLoadFacts
<1>4. /\ db'.cursor = db.cursor /\ db'.cache = db.cache /\ db'.index = db.index
      /\ db'.next = db.next /\ db'.pending = db.pending \cup load.pending
      /\ db'.notes = db.notes /\ db'.ready = db.ready /\ db'.fp = db.fp
  BY <1>1, <1>2, <1>3, RecordPendingFacts
<1>5. /\ store' = store /\ sync' = sync /\ heal' = heal /\ trusted' = trusted
      /\ db.cache[d] = None /\ d \in StoreDocs /\ d \in keys
      /\ op.pc = "idle" /\ db.index[d].state /= "inaccessible"
  BY DEF LoadStart
<1>6. /\ l2'.meta = l2.meta /\ \A x \in Docs : l2'.doc[x] \in {l2.doc[x], None}
  BY <1>1, <1>2, PurgeRecordFacts
<1>7. /\ op'.pc = "load" /\ op'.doc = d /\ op'.result = load.result /\ op'.read = load.read
  BY <1>2 DEF NoOp
<1>8. /\ \A x \in Docs : LostGrows(x)
      /\ load.pending /= {} => d \in lost'.skipped
      /\ Ahead \cap Of(d) /= {} => d \in lost'.early
  BY <1>1, <1>2 DEF LostGrows, History
<1>9. StoreGrows
  BY <1>1, <1>5, StoreSame
<1>10. LogInv'
  BY <1>1, <1>4, <1>5, <1>6, <1>9, LogInvKept DEF TypeOK
<1>11. \A x \in Docs : Seen(x)' = Seen(x) /\ \A e \in Entries : Noted(e, x) => Noted(e, x)'
  BY <1>4, <1>5, FrameSame
<1>12. all \in SUBSET Entries
  BY <1>1, StoredIs DEF TypeOK
<1>13. \/ /\ load.read = load.result.has
          /\ l2.doc[d] /= None /\ load.result.has = l2.doc[d].has /\ Current(d)
       \/ \E missing \in SUBSET all :
            /\ load.pending = UnknownAuthors(missing, d)
            /\ \/ /\ missing = all /\ load.read = all /\ load.result.has = Trusted(all)
               \/ /\ l2.doc[d] /= None /\ missing = all \ l2.doc[d].has
                  /\ load.read = l2.doc[d].has \cup missing
                  /\ load.result.has = l2.doc[d].has \cup Trusted(missing)
  <2>1. CASE usable
    <3>1. db.index[d].state = "visible"
      BY <1>1, <1>5, <2>1 DEF Database, IndexEntry
    <3>2. load = TryLoadFromL2(d)
      BY <1>2, <2>1
    <3>3. \/ /\ l2.doc[d].seq >= db.index[d].seq
             /\ load.result.has = l2.doc[d].has /\ load.read = l2.doc[d].has
          \/ /\ load.result.has = l2.doc[d].has \cup Trusted(all \ l2.doc[d].has)
             /\ load.read = l2.doc[d].has \cup (all \ l2.doc[d].has)
             /\ load.pending = UnknownAuthors(all \ l2.doc[d].has, d)
      BY <1>1, <2>1, <3>2, TryLoadFacts
    <3> QED
      BY <2>1, <3>1, <3>3 DEF Current
  <2>2. CASE ~usable
    <3>1. load = FullLoad(d)
      BY <1>2, <2>2
    <3> QED
      BY <1>1, <3>1, FullLoadFacts
  <2> QED
    BY <2>1, <2>2
<1> HIDE DEF all, usable
<1>14. ASSUME NEW missing \in SUBSET all, load.pending = UnknownAuthors(missing, d)
       PROVE  /\ \A e \in missing : e \in Trusted(missing) \/ Noted(e, d)'
              /\ d \notin lost'.skipped => missing \subseteq Trusted(missing)
              /\ Trusted(missing) \subseteq missing
  <2>1. missing \in SUBSET Entries
    BY <1>12
  <2>2. \A e \in missing : e \in Trusted(missing) \/ <<AuthorOf[e], d>> \in load.pending
    BY <1>14, <2>1, UnknownAre
  <2> QED
    BY <1>4, <1>8, <2>2, TrustedIs DEF Noted
<1>15. \/ /\ op'.read \subseteq op'.result.has
          /\ l2.doc[d] /= None /\ op'.result.has = l2.doc[d].has /\ Current(d)
       \/ /\ \A e \in all : e \in op'.result.has \/ Noted(e, d)'
          /\ \A e \in op'.read : e \in op'.result.has \/ e \in all
          /\ d \notin lost'.skipped => all \subseteq op'.result.has
          /\ \/ op'.result.has \subseteq all
             \/ l2.doc[d] /= None /\ op'.result.has \subseteq l2.doc[d].has \cup all
  <2>1. CASE /\ load.read = load.result.has
             /\ l2.doc[d] /= None /\ load.result.has = l2.doc[d].has /\ Current(d)
    BY <1>7, <2>1
  <2>2. ASSUME NEW missing \in SUBSET all, load.pending = UnknownAuthors(missing, d),
               missing = all, load.read = all, load.result.has = Trusted(all)
        PROVE  /\ \A e \in all : e \in op'.result.has \/ Noted(e, d)'
               /\ \A e \in op'.read : e \in op'.result.has \/ e \in all
               /\ d \notin lost'.skipped => all \subseteq op'.result.has
               /\ op'.result.has \subseteq all
    BY <1>7, <1>14, <2>2
  <2>3. ASSUME NEW missing \in SUBSET all, load.pending = UnknownAuthors(missing, d),
               l2.doc[d] /= None, missing = all \ l2.doc[d].has,
               load.read = l2.doc[d].has \cup missing,
               load.result.has = l2.doc[d].has \cup Trusted(missing)
        PROVE  /\ \A e \in all : e \in op'.result.has \/ Noted(e, d)'
               /\ \A e \in op'.read : e \in op'.result.has \/ e \in all
               /\ d \notin lost'.skipped => all \subseteq op'.result.has
               /\ op'.result.has \subseteq l2.doc[d].has \cup all
    BY <1>7, <1>14, <2>3
  <2> QED
    BY <1>13, <2>1, <2>2, <2>3
<1>16. OpInv'
  <2>1. op'.read \ op'.result.has \subseteq Stored \cap Of(d)
    BY <1>15 DEF all
  <2> QED
    BY <1>7, <1>9, <2>1 DEF OpInv, StoreGrows
<1>17. \A x \in Docs \ {d} : Calm(x)
  BY <1>4, <1>5, <1>6, <1>7, <1>8, <1>11 DEF Calm, Untouched
<1>18. CalmBut({d})
  BY <1>1, <1>4, <1>6, <1>9, <1>10, <1>16, <1>17 DEF CalmBut
<1> QED
  BY <1>3, <1>4, <1>5, <1>6, <1>7, <1>8, <1>11, <1>15, <1>18 DEF all

LEMMA LoadStartKeeps == ASSUME CopiesInv, TypeOK', NEW d \in Docs, LoadStart(d) PROVE CopiesInv'
<1>1. /\ CalmBut({d})
      /\ db'.cache = db.cache /\ db.cache[d] = None /\ db'.index = db.index
      /\ db'.next = db.next /\ d \in StoreDocs /\ sync' = sync
      /\ l2'.doc[d] \in {l2.doc[d], None}
      /\ LostGrows(d) /\ Seen(d)' = Seen(d)
      /\ \A e \in Entries : Noted(e, d) => Noted(e, d)'
      /\ op'.pc = "load" /\ op'.doc = d
      /\ \/ /\ op'.read \subseteq op'.result.has
            /\ l2.doc[d] /= None /\ op'.result.has = l2.doc[d].has /\ Current(d)
         \/ /\ \A e \in Stored \cap Of(d) : e \in op'.result.has \/ Noted(e, d)'
            /\ \A e \in op'.read : e \in op'.result.has \/ e \in Stored \cap Of(d)
            /\ d \notin lost'.skipped => Stored \cap Of(d) \subseteq op'.result.has
  BY LoadStartEffect
<1>2. TypeOK /\ LogInv /\ DocInv(d) /\ MetaInv(d)
  BY DEF CopiesInv
<1>3. Seen(d) \subseteq Entries /\ Seen(d) \subseteq Stored \cap Of(d)
  BY <1>2, SeenIsStored
<1>4. StoreGrows /\ l2'.meta = l2.meta
  BY <1>1 DEF CalmBut
<1>5. d \notin Out' => d \notin Out
  BY <1>1 DEF Out, LostGrows
<1>6. \A has, E : E \in SUBSET Entries /\ Holds(has, E, d) =>
                    \A e \in E : e \in has \/ Noted(e, d)'
  BY <1>1 DEF Holds
<1>7. CachePart(d)' /\ CoverPart(d)'
  BY <1>1 DEF CachePart, CoverPart
<1>8. Current(d)' => Current(d) /\ l2'.doc[d] = l2.doc[d]
  BY <1>1 DEF Current
<1>9. RecordPart(d)'
  BY <1>1, <1>2, <1>3, <1>5, <1>6, <1>8 DEF RecordPart, DocInv, Holds
<1>10. SyncPart(d)'
  <2>1. sync.batch \cap Of(d) \subseteq Entries
    BY OfIs
  <2> QED
    BY <1>1, <1>2, <1>3, <1>5, <1>6, <2>1 DEF SyncPart, DocInv, Holds
<1>11. OpPart(d)'
  <2> SUFFICES ASSUME d \notin Out'
               PROVE  \A e \in Seen(d) \cup op'.read : e \in op'.result.has \/ Noted(e, d)'
    BY <1>1 DEF OpPart, Holds
  <2>1. CASE /\ op'.read \subseteq op'.result.has
             /\ l2.doc[d] /= None /\ op'.result.has = l2.doc[d].has /\ Current(d)
    <3>1. Holds(l2.doc[d].has, Seen(d), d)
      BY <1>2, <1>5, <2>1 DEF DocInv, RecordPart
    <3> QED
      BY <1>3, <1>6, <2>1, <3>1
  <2>2. CASE /\ \A e \in Stored \cap Of(d) : e \in op'.result.has \/ Noted(e, d)'
             /\ \A e \in op'.read : e \in op'.result.has \/ e \in Stored \cap Of(d)
    BY <1>3, <2>2
  <2> QED
    BY <1>1, <2>1, <2>2
<1>12. SeqPart(d)'
  BY <1>1, <1>2 DEF SeqPart, DocInv, LostGrows
<1>13. HomePart(d)'
  <2>1. StoreDocs \subseteq StoreDocs'
    BY <1>4 DEF StoreGrows
  <2> QED
    BY <1>1, <1>2, <2>1 DEF HomePart, DocInv
<1>14. MetaInv(d)'
  <2> SUFFICES ASSUME l2.meta /= None PROVE MetaInv(d)'
    BY <1>4 DEF MetaInv
  <2>1. /\ MetaIndex(d)' /\ MetaIndex(d) /\ MetaCopies(d)
        /\ d \notin MetaOut' => d \notin MetaOut
        /\ \A has : MetaHolds(has, d) =>
             \A e \in Upto(l2.meta.cursor, d)' : e \in has \/ <<AuthorOf[e], d>> \in l2.meta.pending
    BY <1>1, <1>2, <1>4, MetaStep
  <2>2. MetaCurrent(d)' => MetaCurrent(d) /\ l2'.doc[d] = l2.doc[d]
    BY <1>1, <1>4 DEF MetaCurrent
  <2>3. Upto(l2.meta.cursor, d)' \subseteq Stored \cap Of(d)
    BY <1>2, <1>4, SeenIsStored, MetaHoldsKept
  <2>4. d \notin MetaOut' => MetaHolds(op.result.has, d)'
    <3> SUFFICES ASSUME d \notin MetaOut'
                 PROVE  \A e \in Upto(l2.meta.cursor, d)' :
                          e \in op'.result.has \/ <<AuthorOf[e], d>> \in l2.meta.pending
      BY <1>4 DEF MetaHolds
    <3>1. CASE l2.doc[d] /= None /\ op'.result.has = l2.doc[d].has /\ Current(d)
      <4>1. l2.doc[d].seq \in Nat /\ db.index[d].seq \in Nat /\ l2.meta.index[d].seq \in Nat
        BY <1>2, <3>1, NatFacts
      <4>2. MetaCurrent(d)
        BY <2>1, <3>1, <4>1 DEF MetaCurrent, MetaIndex, Current
      <4> QED
        BY <2>1, <3>1, <4>2 DEF MetaCopies
    <3>2. CASE d \notin lost'.skipped => Stored \cap Of(d) \subseteq op'.result.has
      BY <2>3, <3>2 DEF MetaOut
    <3> QED
      BY <1>1, <3>1, <3>2
  <2>5. MetaCopies(d)'
    <3>1. db'.cache[d] = None
      BY <1>1
    <3>2. d \notin MetaOut' /\ MetaCurrent(d)' => MetaHolds(l2.doc[d].has, d)'
      BY <1>4, <2>1, <2>2 DEF MetaCopies, MetaHolds
    <3>3. d \notin MetaOut' /\ sync'.pc = "apply" /\ sync'.doc = d => MetaHolds(sync.result.has, d)'
      BY <1>1, <1>4, <2>1 DEF MetaCopies, MetaHolds
    <3> QED
      BY <2>4, <3>1, <3>2, <3>3 DEF MetaCopies
  <2> QED
    BY <2>1, <2>5 DEF MetaInv
<1>15. DocInv(d)'
  BY <1>7, <1>9, <1>10, <1>11, <1>12, <1>13 DEF DocInv
<1> QED
  BY <1>1, <1>14, <1>15, CalmButKeeps

LEMMA LoadFinishEffect ==
  ASSUME CopiesInv, TypeOK', LoadFinish, NEW d \in Docs, d = op.doc
  PROVE  /\ CalmBut({d}) /\ LostGrows(d)
         /\ op.pc = "load" /\ op.result \in Content /\ op'.pc = "idle" /\ sync' = sync
         /\ db'.cache[d] = op.result /\ l2'.doc[d] = l2.doc[d]
         /\ db'.index = db.index /\ db'.next = db.next
         /\ db'.notes = db.notes /\ db'.ready = db.ready /\ db'.fp = db.fp
         /\ Seen(d)' = Seen(d) /\ \A e \in Entries : Noted(e, d) => Noted(e, d)'
         /\ d \notin lost'.docs => ~op.touched /\ ~RecordBehind(d)
<1>1. TypeOK /\ LogInv /\ db \in Database /\ l2 \in Disk /\ op \in OpJob
      /\ lost \in History /\ db.next \in Nat /\ op.pc = "load" /\ op.result \in Content
  BY NatFacts DEF CopiesInv, TypeOK, LoadFinish
<1>2. PICK out, s :
          /\ out \in Victims(db, d)
          /\ s = StoreCachedDocument(db, d, op.result, out)
          /\ db' = IF op.dirty THEN MarkDocDirty(s, d) ELSE s
          /\ l2' = FlushVictims(l2, db, out)
  BY DEF LoadFinish
<1>3. out \in SUBSET Cached(db) /\ out \in SUBSET Docs /\ d \notin out
  BY <1>2, VictimsFacts
<1>4. /\ s \in Database /\ s.cursor = db.cursor /\ s.pending = db.pending /\ s.index = db.index
      /\ s.next = db.next /\ s.fp = db.fp /\ s.ready = db.ready /\ s.notes = db.notes
      /\ s.cache[d] = op.result /\ \A x \in Docs : x /= d => s.cache[x] \in {db.cache[x], None}
  BY <1>1, <1>2, <1>3, StoreCachedFacts
<1>5. /\ db'.cursor = db.cursor /\ db'.pending = db.pending /\ db'.index = db.index
      /\ db'.next = db.next /\ db'.fp = db.fp /\ db'.ready = db.ready /\ db'.notes = db.notes
      /\ db'.cache = s.cache
  <2>1. CASE op.dirty
    <3>1. db' = MarkDocDirty(s, d)
      BY <1>2, <2>1
    <3> QED
      BY <1>4, <3>1, MarkDirtyFacts
  <2>2. CASE ~op.dirty
    BY <1>2, <1>4, <2>2
  <2> QED
    BY <2>1, <2>2
<1>6. /\ l2'.meta = l2.meta /\ l2'.doc[d] = l2.doc[d]
      /\ \A x \in Docs : \/ l2'.doc[x] = l2.doc[x]
                         \/ db.cache[x] /= None /\ l2'.doc[x] = RecordOf(db, x)
  BY <1>1, <1>2, <1>3, VictimCopies
<1>7. op'.pc = "idle" /\ store' = store /\ sync' = sync /\ heal' = heal /\ trusted' = trusted
      /\ Lose(d)
  BY IdleTypes DEF LoadFinish
<1>8. /\ \A x \in Docs : LostGrows(x)
      /\ d \notin lost'.docs => ~op.touched /\ ~RecordBehind(d)
  BY <1>1, <1>7, LoseFacts DEF LostGrows
<1>9. StoreGrows /\ LogInv' /\ OpInv'
  BY <1>1, <1>5, <1>6, <1>7, LogSame
<1>10. \A x \in Docs : Seen(x)' = Seen(x) /\ \A e \in Entries : Noted(e, x) => Noted(e, x)'
  BY <1>5, <1>7, FrameSame
<1>11. \A x \in Docs \ {d} : Calm(x)
  BY <1>4, <1>5, <1>6, <1>7, <1>8, <1>10 DEF Calm, Untouched
<1>12. CalmBut({d})
  BY <1>1, <1>5, <1>6, <1>9, <1>11 DEF CalmBut
<1> QED
  BY <1>1, <1>4, <1>5, <1>6, <1>7, <1>8, <1>10, <1>12

LEMMA LoadFinishKeeps == ASSUME CopiesInv, TypeOK', LoadFinish PROVE CopiesInv'
<1> SUFFICES ASSUME NEW d \in Docs, d = op.doc
             PROVE  CopiesInv'
  BY DEF CopiesInv, TypeOK, LoadFinish
<1>1. /\ CalmBut({d}) /\ LostGrows(d)
      /\ op.pc = "load" /\ op.result \in Content /\ op'.pc = "idle" /\ sync' = sync
      /\ db'.cache[d] = op.result /\ l2'.doc[d] = l2.doc[d]
      /\ db'.index = db.index /\ db'.next = db.next
      /\ Seen(d)' = Seen(d) /\ \A e \in Entries : Noted(e, d) => Noted(e, d)'
      /\ d \notin lost'.docs => ~op.touched /\ ~RecordBehind(d)
  BY LoadFinishEffect
<1>2. TypeOK /\ LogInv /\ DocInv(d) /\ MetaInv(d)
  BY DEF CopiesInv
<1>3. Seen(d) \subseteq Entries /\ sync.batch \cap Of(d) \subseteq Entries
  BY <1>2, SeenIsStored, OfIs
<1>4. StoreGrows /\ l2'.meta = l2.meta
  BY <1>1 DEF CalmBut
<1>5. d \notin Out' => d \notin Out /\ d \notin lost'.docs
  BY <1>1 DEF Out, LostGrows
<1>6. \A has, E : E \in SUBSET Entries /\ Holds(has, E, d) =>
                    \A e \in E : e \in has \/ Noted(e, d)'
  BY <1>1 DEF Holds
<1>7. Current(d)' <=> Current(d)
  BY <1>1 DEF Current
<1>8. CachePart(d)'
  <2> SUFFICES ASSUME d \notin Out'
               PROVE  \A e \in Seen(d) : e \in op.result.has \/ Noted(e, d)'
    BY <1>1 DEF CachePart, Holds
  <2>1. Holds(op.result.has, Seen(d) \cup op.read, d)
    BY <1>1, <1>2, <1>5 DEF DocInv, OpPart
  <2>2. Holds(op.result.has, Seen(d), d)
    BY <2>1 DEF Holds
  <2> QED
    BY <1>3, <1>6, <2>2
<1>9. RecordPart(d)' /\ SyncPart(d)'
  BY <1>1, <1>2, <1>3, <1>5, <1>6, <1>7 DEF RecordPart, SyncPart, DocInv, Holds
<1>10. CoverPart(d)'
  BY <1>1, <1>5, <1>7 DEF CoverPart, RecordBehind, Current
<1>11. OpPart(d)' /\ SeqPart(d)'
  BY <1>1, <1>2 DEF OpPart, SeqPart, DocInv, LostGrows
<1>12. HomePart(d)'
  <2>1. StoreDocs \subseteq StoreDocs'
    BY <1>4 DEF StoreGrows
  <2> QED
    BY <1>1, <1>2, <2>1 DEF HomePart, DocInv
<1>13. MetaInv(d)'
  <2> SUFFICES ASSUME l2.meta /= None PROVE MetaInv(d)'
    BY <1>4 DEF MetaInv
  <2>1. /\ MetaIndex(d)' /\ MetaCopies(d)
        /\ d \notin MetaOut' => d \notin MetaOut
        /\ \A has : MetaHolds(has, d) =>
             \A e \in Upto(l2.meta.cursor, d)' : e \in has \/ <<AuthorOf[e], d>> \in l2.meta.pending
    BY <1>1, <1>2, <1>4, MetaStep
  <2>2. MetaCurrent(d)' <=> MetaCurrent(d)
    BY <1>1, <1>4 DEF MetaCurrent
  <2>3. d \notin MetaOut' => ~op.touched
    BY <1>1 DEF MetaOut
  <2>4. MetaCopies(d)'
    BY <1>1, <1>4, <2>1, <2>2, <2>3 DEF MetaCopies, MetaHolds
  <2> QED
    BY <2>1, <2>4 DEF MetaInv
<1>14. DocInv(d)'
  BY <1>8, <1>9, <1>10, <1>11, <1>12 DEF DocInv
<1> QED
  BY <1>1, <1>13, <1>14, CalmButKeeps
-----------------------------------------------------------------------------
(* Writes                                                                  *)

LEMMA BeginWriteEffect ==
  ASSUME CopiesInv, TypeOK', NEW e \in Entries, NEW has, NEW base, NEW del,
         WriteBegins(e, has, base, del), NEW d \in Docs, d = DocOf[e]
  PROVE  /\ CalmBut({d}) /\ LostGrows(d)
         /\ UNCHANGED <<store, db, l2, sync, lost, keys, recon>>
         /\ op.pc = "idle" /\ op'.pc = "write" /\ op'.doc = d /\ op'.entry = e
         /\ op'.result.has = has \cup {e} /\ op'.read = has \cup {e}
         /\ Seen(d)' = Seen(d) /\ \A x \in Entries : Noted(x, d) => Noted(x, d)'
<1>1. TypeOK /\ LogInv /\ db.next \in Nat
  BY NatFacts DEF CopiesInv
<1>2. /\ op' \in OpJob /\ op'.pc = "write" /\ op'.doc = d /\ op'.entry = e
      /\ op'.result.has = has \cup {e} /\ op'.read = has \cup {e} /\ op.pc = "idle"
  BY <1>1, BeginWriteFacts
<1>3. UNCHANGED <<store, db, l2, sync, lost, heal, trusted, keys, recon>>
  BY DEF WriteBegins, BeginWrite
<1>4. StoreGrows
  BY <1>1, <1>3, StoreSame
<1>5. LogInv'
  BY <1>1, <1>3, <1>4, LogInvKept DEF TypeOK
<1>6. OpInv'
  BY <1>2 DEF OpInv
<1>7. \A x \in Docs : LostGrows(x)
  BY <1>3, LostSame
<1>8. \A x \in Docs : Seen(x)' = Seen(x) /\ \A y \in Entries : Noted(y, x) => Noted(y, x)'
  BY <1>3, FrameSame
<1>9. \A x \in Docs \ {d} : Calm(x)
  BY <1>2, <1>3, <1>7, <1>8 DEF Calm, Untouched
<1>10. CalmBut({d})
  BY <1>1, <1>3, <1>4, <1>5, <1>6, <1>9 DEF CalmBut
<1> QED
  BY <1>2, <1>3, <1>7, <1>8, <1>10

LEMMA BeginWriteKeeps ==
  ASSUME CopiesInv, TypeOK', NEW e \in Entries, BeginsWrite(e) PROVE CopiesInv'
<1>1. PICK has, base, del : WriteBegins(e, has, base, del)
  BY DEF BeginsWrite
<1>2. PICK d \in Docs : d = DocOf[e]
  BY ConstantsAssumption DEF Entries
<1>3. /\ CalmBut({d}) /\ LostGrows(d)
      /\ UNCHANGED <<store, db, l2, sync, lost, keys, recon>>
      /\ op'.pc = "write" /\ op'.doc = d /\ op'.entry = e
      /\ op'.result.has = has \cup {e} /\ op'.read = has \cup {e}
      /\ Seen(d)' = Seen(d) /\ \A x \in Entries : Noted(x, d) => Noted(x, d)'
  BY <1>1, <1>2, BeginWriteEffect
<1>4. TypeOK /\ LogInv /\ DocInv(d) /\ MetaInv(d)
  BY DEF CopiesInv
<1>5. Seen(d) \subseteq Entries /\ sync.batch \cap Of(d) \subseteq Entries
  BY <1>4, SeenIsStored, OfIs
<1>6. StoreGrows /\ l2'.meta = l2.meta
  BY <1>3 DEF CalmBut
<1>7. d \notin Out' <=> d \notin Out
  BY <1>3 DEF Out
<1>8. \A h, E : E \in SUBSET Entries /\ Holds(h, E, d) =>
                  \A x \in E : x \in h \/ Noted(x, d)'
  BY <1>3 DEF Holds
<1>9. \/ has = {} /\ d \notin StoreDocs /\ db.cache[d] = None
      \/ Kind[e] /= "create" /\ db.cache[d] /= None /\ has = db.cache[d].has
  BY <1>1, <1>2 DEF WriteBegins
<1>10. Current(d)' <=> Current(d)
  BY <1>3 DEF Current
<1>11. CachePart(d)' /\ RecordPart(d)' /\ CoverPart(d)' /\ SyncPart(d)' /\ SeqPart(d)'
  BY <1>3, <1>4, <1>5, <1>7, <1>8, <1>10
     DEF CachePart, RecordPart, CoverPart, SyncPart, SeqPart, DocInv, Holds
<1>12. OpPart(d)'
  <2> SUFFICES ASSUME d \notin Out
               PROVE  \A x \in Seen(d) \cup (has \cup {e}) : x \in has \cup {e} \/ Noted(x, d)'
    BY <1>3, <1>7 DEF OpPart, Holds
  <2>1. CASE has = {} /\ d \notin StoreDocs
    <3>1. Seen(d) = {}
      BY <1>4, <2>1, NewIsUnseen
    <3> QED
      BY <3>1
  <2>2. CASE db.cache[d] /= None /\ has = db.cache[d].has
    <3>1. Holds(has, Seen(d), d)
      BY <1>4, <2>2 DEF DocInv, CachePart
    <3> QED
      BY <1>5, <1>8, <3>1
  <2> QED
    BY <1>9, <2>1, <2>2
<1>13. HomePart(d)'
  <2>1. StoreDocs' = StoreDocs
    BY <1>3 DEF StoreDocs, Stored
  <2>2. Kind[e] = "create" => /\ db.cache[d] = None /\ l2.doc[d] = None
                              /\ ~(sync.pc = "apply" /\ sync.doc = d)
    BY <1>4, <1>9 DEF DocInv, HomePart
  <2> QED
    BY <1>3, <1>4, <2>1, <2>2 DEF HomePart, DocInv
<1>14. MetaInv(d)'
  <2> SUFFICES ASSUME l2.meta /= None PROVE MetaInv(d)'
    BY <1>6 DEF MetaInv
  <2>1. /\ MetaIndex(d)' /\ MetaCopies(d)
        /\ d \notin MetaOut' => d \notin MetaOut
        /\ \A h : MetaHolds(h, d) =>
             \A x \in Upto(l2.meta.cursor, d)' : x \in h \/ <<AuthorOf[x], d>> \in l2.meta.pending
    BY <1>3, <1>4, <1>6, MetaStep
  <2>2. MetaCurrent(d)' <=> MetaCurrent(d)
    BY <1>3 DEF MetaCurrent
  <2>3. d \notin MetaOut' => MetaHolds(op.result.has, d)'
    <3>1. CASE has = {} /\ d \notin StoreDocs
      <4>1. Upto(l2.meta.cursor, d)' = {}
        BY <1>4, <1>6, <3>1, NewIsUnseen, MetaHoldsKept
      <4> QED
        BY <4>1 DEF MetaHolds
    <3>2. CASE db.cache[d] /= None /\ has = db.cache[d].has
      BY <1>3, <1>6, <2>1, <3>2 DEF MetaCopies, MetaHolds
    <3> QED
      BY <1>9, <3>1, <3>2
  <2>4. MetaCopies(d)'
    BY <1>3, <1>6, <2>1, <2>2, <2>3 DEF MetaCopies, MetaHolds
  <2> QED
    BY <2>1, <2>4 DEF MetaInv
<1>15. DocInv(d)'
  BY <1>11, <1>12, <1>13 DEF DocInv
<1> QED
  BY <1>3, <1>14, <1>15, CalmButKeeps

(* The document in memory takes a change of the store.                     *)
LEMMA ApplyKnownEffect ==
  ASSUME CopiesInv, TypeOK', NEW e \in Entries, ApplyKnownChange(e),
         NEW d \in Docs, d = DocOf[e]
  PROVE  /\ CalmBut({d}) /\ LostGrows(d)
         /\ e \in Stored /\ e \in Of(d) /\ db.cache[d] /= None /\ sync' = sync /\ op' = op
         /\ op.pc = "idle" /\ l2' = l2
         /\ db'.cache[d].has = db.cache[d].has \cup {e}
         /\ db'.index = db.index /\ db'.next = db.next
         /\ db'.notes = db.notes /\ db'.ready = db.ready /\ db'.fp = db.fp
         /\ Seen(d)' = Seen(d) /\ \A x \in Entries : Noted(x, d) => Noted(x, d)'
         /\ d \notin lost'.docs => e \in Seen(d)
<1>1. TypeOK /\ LogInv /\ db.next \in Nat /\ db.cursor \in Nat /\ Len(store) \in Nat
      /\ store \in Seq(Entries) /\ lost \in History
  BY NatFacts DEF CopiesInv, TypeOK
<1>2. /\ e \in Stored /\ e \in Of(d) /\ db.cache[d] /= None
      /\ db'.cursor = db.cursor /\ db'.pending = db.pending /\ db'.index = db.index
      /\ db'.next = db.next /\ db'.fp = db.fp /\ db'.ready = db.ready /\ db'.notes = db.notes
      /\ db'.cache[d] \in Content /\ db'.cache[d].has = db.cache[d].has \cup {e}
      /\ \A x \in Docs : x /= d => db'.cache[x] = db.cache[x]
  BY <1>1, ApplyKnownFacts
<1>3. UNCHANGED <<store, l2, sync, op, heal, trusted>> /\ op.pc = "idle"
  BY DEF ApplyKnownChange, jobs
<1>5. /\ \A x \in Docs : LostGrows(x)
      /\ e \in Ahead => d \in lost'.docs
  BY <1>1 DEF ApplyKnownChange, LostGrows, History
<1>6. e \notin Ahead => e \in Seen(d)
  <2>1. PICK i \in 1..Len(store) : store[i] = e
    BY <1>1, <1>2 DEF Stored
  <2>2. e \notin Ahead => i \in 1..db.cursor
    BY <1>1, <2>1 DEF Ahead
  <2> QED
    BY <1>2, <2>1, <2>2 DEF Seen, Upto
<1>7. StoreGrows /\ LogInv' /\ OpInv'
  BY <1>1, <1>2, <1>3, LogSame
<1>8. \A x \in Docs : Seen(x)' = Seen(x) /\ \A y \in Entries : Noted(y, x) => Noted(y, x)'
  BY <1>2, <1>3, FrameSame
<1>9. \A x \in Docs \ {d} : Calm(x)
  BY <1>2, <1>3, <1>5, <1>8 DEF Calm, Untouched
<1>10. CalmBut({d})
  BY <1>1, <1>2, <1>3, <1>7, <1>9 DEF CalmBut
<1> QED
  BY <1>2, <1>3, <1>5, <1>6, <1>8, <1>10

LEMMA ApplyKnownKeeps ==
  ASSUME CopiesInv, TypeOK', NEW e \in Entries, ApplyKnownChange(e) PROVE CopiesInv'
<1>1. PICK d \in Docs : d = DocOf[e]
  BY ConstantsAssumption DEF Entries
<1>2. /\ CalmBut({d}) /\ LostGrows(d)
      /\ e \in Stored /\ e \in Of(d) /\ db.cache[d] /= None /\ sync' = sync /\ op' = op
      /\ op.pc = "idle" /\ l2' = l2
      /\ db'.cache[d].has = db.cache[d].has \cup {e}
      /\ db'.index = db.index /\ db'.next = db.next
      /\ Seen(d)' = Seen(d) /\ \A x \in Entries : Noted(x, d) => Noted(x, d)'
      /\ d \notin lost'.docs => e \in Seen(d)
  BY <1>1, ApplyKnownEffect
<1>3. TypeOK /\ LogInv /\ DocInv(d) /\ MetaInv(d)
  BY DEF CopiesInv
<1>4. Seen(d) \subseteq Entries /\ sync.batch \cap Of(d) \subseteq Entries
  BY <1>3, SeenIsStored, OfIs
<1>5. StoreGrows /\ l2'.meta = l2.meta
  BY <1>2 DEF CalmBut
<1>6. d \notin Out' => d \notin Out /\ d \notin lost'.docs
  BY <1>2 DEF Out, LostGrows
<1>7. \A h, E : E \in SUBSET Entries /\ Holds(h, E, d) =>
                  \A x \in E : x \in h \/ Noted(x, d)'
  BY <1>2 DEF Holds
<1>8. Current(d)' <=> Current(d)
  BY <1>2 DEF Current
<1>9. CachePart(d)'
  BY <1>2, <1>3, <1>4, <1>6, <1>7 DEF CachePart, DocInv, Holds
<1>10. RecordPart(d)' /\ SyncPart(d)'
  BY <1>2, <1>3, <1>4, <1>6, <1>7, <1>8 DEF RecordPart, SyncPart, DocInv, Holds
<1>11. CoverPart(d)'
  BY <1>2, <1>3, <1>6, <1>8 DEF CoverPart, DocInv
<1>12. OpPart(d)' /\ SeqPart(d)'
  BY <1>2, <1>3 DEF OpPart, SeqPart, DocInv, LostGrows
<1>13. HomePart(d)'
  <2>1. StoreDocs \subseteq StoreDocs'
    BY <1>5 DEF StoreGrows
  <2> QED
    BY <1>2, <1>3, <2>1 DEF HomePart, DocInv
<1>14. MetaInv(d)'
  <2> SUFFICES ASSUME l2.meta /= None PROVE MetaInv(d)'
    BY <1>5 DEF MetaInv
  <2>1. /\ MetaIndex(d)' /\ MetaCopies(d)
        /\ d \notin MetaOut' => d \notin MetaOut
        /\ \A h : MetaHolds(h, d) =>
             \A x \in Upto(l2.meta.cursor, d)' : x \in h \/ <<AuthorOf[x], d>> \in l2.meta.pending
    BY <1>2, <1>3, <1>5, MetaStep
  <2>2. MetaCurrent(d)' <=> MetaCurrent(d)
    BY <1>2 DEF MetaCurrent
  <2>3. MetaCopies(d)'
    BY <1>2, <1>5, <2>1, <2>2 DEF MetaCopies, MetaHolds
  <2> QED
    BY <2>1, <2>3 DEF MetaInv
<1>15. DocInv(d)'
  BY <1>9, <1>10, <1>11, <1>12, <1>13 DEF DocInv
<1> QED
  BY <1>2, <1>14, <1>15, CalmButKeeps

(* The document that was read, with the change, is put into memory; the    *)
(* index counts it up, unless it was created and the sync has been there.  *)
LEMMA WriteFinishEffect ==
  ASSUME CopiesInv, TypeOK', WriteFinish, NEW d \in Docs, d = op.doc
  PROVE  /\ CalmBut({d}) /\ LostGrows(d)
         /\ op.pc = "stored" /\ op.result \in Content /\ op'.pc = "idle" /\ sync' = sync
         /\ db'.cache[d] = op.result /\ l2'.doc[d] = l2.doc[d]
         /\ \A x \in Docs : x /= d => db'.index[x] = db.index[x]
         /\ \/ /\ db'.index[d] = db.index[d] /\ db'.next = db.next /\ db'.notes = db.notes
               /\ Kind[op.entry] = "create" /\ db.index[d].state = "visible"
            \/ /\ db'.index[d].seq = db.next /\ db'.index[d].state = "visible"
               /\ db'.next = db.next + 1 /\ db'.notes
         /\ db'.ready = db.ready /\ db'.fp = db.fp
         /\ Seen(d)' = Seen(d) /\ \A e \in Entries : Noted(e, d) => Noted(e, d)'
         /\ d \notin lost'.docs => ~op.touched
<1>1. TypeOK /\ LogInv /\ db \in Database /\ l2 \in Disk /\ op \in OpJob
      /\ lost \in History /\ db.next \in Nat /\ op.pc = "stored" /\ op.result \in Content
  BY NatFacts DEF CopiesInv, TypeOK, WriteFinish
<1>2. PICK out \in SUBSET Cached(db), force \in BOOLEAN, s \in Database :
           /\ d \notin out /\ out \in SUBSET Docs
           /\ force = (Kind[op.entry] /= "create")
           /\ s = StoreCachedDocument(db, d, op.result, out)
           /\ op.result.del \in BOOLEAN
           /\ db' = MarkDocDirty(UpdateIndex(s, d, op.result.del, "visible", force), d)
           /\ l2' = FlushVictims(l2, db, out)
  BY <1>1, WriteFinishFacts
<1>3. /\ s.cursor = db.cursor /\ s.pending = db.pending /\ s.index = db.index
      /\ s.next = db.next /\ s.fp = db.fp /\ s.ready = db.ready /\ s.notes = db.notes
      /\ s.cache[d] = op.result /\ \A x \in Docs : x /= d => s.cache[x] \in {db.cache[x], None}
  BY <1>1, <1>2, StoreCachedFacts
<1>4. PICK u : u = UpdateIndex(s, d, op.result.del, "visible", force)
  OBVIOUS
<1>5. Indexed(u, s, d, op.result.del, "visible", force)
  <2>1. "visible" \in States
    BY DEF States
  <2> QED
    BY <1>2, <1>4, <2>1, UpdateIndexFacts
<1>6. /\ db'.cursor = u.cursor /\ db'.cache = u.cache /\ db'.pending = u.pending
      /\ db'.index = u.index /\ db'.next = u.next /\ db'.fp = u.fp /\ db'.ready = u.ready
      /\ db'.notes = u.notes
  <2>1. u \in Database
    BY <1>5 DEF Indexed
  <2>2. db' = MarkDocDirty(u, d)
    BY <1>2, <1>4
  <2> QED
    BY <2>1, <2>2, MarkDirtyFacts
<1>7. /\ db'.cursor = db.cursor /\ db'.cache = s.cache /\ db'.pending = db.pending
      /\ db'.fp = db.fp /\ db'.ready = db.ready
      /\ \A x \in Docs : x /= d => db'.index[x] = db.index[x]
  BY <1>3, <1>5, <1>6 DEF Indexed
<1>8. \/ /\ db'.index[d] = db.index[d] /\ db'.next = db.next /\ db'.notes = db.notes
         /\ ~force /\ db.index[d].state = "visible"
      \/ /\ db'.index[d] = [seq |-> db.next, del |-> op.result.del, state |-> "visible"]
         /\ db'.next = db.next + 1 /\ db'.notes
  BY <1>3, <1>5, <1>6 DEF Indexed
<1>9. db'.index[d] = [seq |-> db.next, del |-> op.result.del, state |-> "visible"]
        => db'.index[d].seq = db.next /\ db'.index[d].state = "visible"
  OBVIOUS
<1>10. /\ l2'.meta = l2.meta /\ l2'.doc[d] = l2.doc[d]
       /\ \A x \in Docs : \/ l2'.doc[x] = l2.doc[x]
                          \/ db.cache[x] /= None /\ l2'.doc[x] = RecordOf(db, x)
  BY <1>1, <1>2, VictimCopies
<1>11. op'.pc = "idle" /\ store' = store /\ sync' = sync /\ heal' = heal /\ trusted' = trusted
       /\ Lose(d)
  BY IdleTypes DEF WriteFinish
<1>12. /\ \A x \in Docs : LostGrows(x)
       /\ d \notin lost'.docs => ~op.touched
  BY <1>1, <1>11, LoseFacts DEF LostGrows
<1>13. db.next <= db'.next
  BY <1>1, <1>8
<1>14. StoreGrows /\ LogInv' /\ OpInv'
  BY <1>1, <1>7, <1>10, <1>11, <1>13, LogSame
<1>15. \A x \in Docs : Seen(x)' = Seen(x) /\ \A e \in Entries : Noted(e, x) => Noted(e, x)'
  BY <1>7, <1>11, FrameSame
<1>16. \A x \in Docs \ {d} : Calm(x)
  BY <1>3, <1>7, <1>10, <1>11, <1>12, <1>15 DEF Calm, Untouched
<1>17. CalmBut({d})
  BY <1>10, <1>13, <1>14, <1>16 DEF CalmBut
<1>18. \/ /\ db'.index[d] = db.index[d] /\ db'.next = db.next /\ db'.notes = db.notes
          /\ Kind[op.entry] = "create" /\ db.index[d].state = "visible"
       \/ /\ db'.index[d].seq = db.next /\ db'.index[d].state = "visible"
          /\ db'.next = db.next + 1 /\ db'.notes
  BY <1>2, <1>8, <1>9
<1>19. db'.cache[d] = op.result
  BY <1>3, <1>7
<1> QED
  BY <1>1, <1>7, <1>10, <1>11, <1>12, <1>15, <1>17, <1>18, <1>19

LEMMA WriteFinishKeeps == ASSUME CopiesInv, TypeOK', WriteFinish PROVE CopiesInv'
<1> SUFFICES ASSUME NEW d \in Docs, d = op.doc
             PROVE  CopiesInv'
  BY DEF CopiesInv, TypeOK, WriteFinish
<1>1. /\ CalmBut({d}) /\ LostGrows(d)
      /\ op.pc = "stored" /\ op.result \in Content /\ op'.pc = "idle" /\ sync' = sync
      /\ db'.cache[d] = op.result /\ l2'.doc[d] = l2.doc[d]
      /\ \/ /\ db'.index[d] = db.index[d] /\ db'.next = db.next
            /\ Kind[op.entry] = "create" /\ db.index[d].state = "visible"
         \/ /\ db'.index[d].seq = db.next /\ db'.next = db.next + 1
      /\ Seen(d)' = Seen(d) /\ \A e \in Entries : Noted(e, d) => Noted(e, d)'
      /\ d \notin lost'.docs => ~op.touched
  BY WriteFinishEffect
<1>2. TypeOK /\ LogInv /\ OpInv /\ DocInv(d) /\ MetaInv(d) /\ db.next \in Nat
      /\ db.index[d].seq \in Nat /\ (l2.doc[d] /= None => l2.doc[d].seq \in Nat)
  BY NatFacts DEF CopiesInv
<1>3. Seen(d) \subseteq Entries /\ sync.batch \cap Of(d) \subseteq Entries
  BY <1>2, SeenIsStored, OfIs
<1>4. StoreGrows /\ l2'.meta = l2.meta
  BY <1>1 DEF CalmBut
<1>5. d \notin Out' => d \notin Out /\ d \notin lost'.docs
  BY <1>1 DEF Out, LostGrows
<1>6. \A has, E : E \in SUBSET Entries /\ Holds(has, E, d) =>
                    \A e \in E : e \in has \/ Noted(e, d)'
  BY <1>1 DEF Holds
<1>7. d \notin Out' => ~Current(d)'
  <2>1. CASE Kind[op.entry] = "create"
    <3>1. l2.doc[d] = None
      BY <1>1, <1>2, <2>1 DEF DocInv, HomePart
    <3> QED
      BY <1>1, <3>1 DEF Current
  <2>2. CASE db'.index[d].seq = db.next
    BY <1>1, <1>2, <2>2, BumpedIsOld
  <2> QED
    BY <1>1, <2>1, <2>2
<1>8. CachePart(d)'
  <2> SUFFICES ASSUME d \notin Out'
               PROVE  \A e \in Seen(d) : e \in op.result.has \/ Noted(e, d)'
    BY <1>1 DEF CachePart, Holds
  <2>1. Holds(op.result.has, Seen(d) \cup op.read, d)
    BY <1>1, <1>2, <1>5 DEF DocInv, OpPart
  <2>2. Holds(op.result.has, Seen(d), d)
    BY <2>1 DEF Holds
  <2> QED
    BY <1>3, <1>6, <2>2
<1>9. RecordPart(d)' /\ CoverPart(d)'
  BY <1>7 DEF RecordPart, CoverPart
<1>10. SyncPart(d)'
  BY <1>1, <1>2, <1>3, <1>5, <1>6 DEF SyncPart, DocInv, Holds
<1>11. OpPart(d)' /\ SeqPart(d)'
  BY <1>1, <1>2 DEF OpPart, SeqPart, DocInv, LostGrows
<1>12. HomePart(d)'
  <2>1. StoreDocs \subseteq StoreDocs'
    BY <1>4 DEF StoreGrows
  <2>2. d \in StoreDocs
    BY <1>1, <1>2 DEF OpInv, StoreDocs
  <2> QED
    BY <1>1, <1>2, <2>1, <2>2 DEF HomePart, DocInv
<1>13. MetaInv(d)'
  <2> SUFFICES ASSUME l2.meta /= None PROVE MetaInv(d)'
    BY <1>4 DEF MetaInv
  <2>1. /\ MetaIndex(d)' /\ MetaCopies(d)
        /\ d \notin MetaOut' => d \notin MetaOut
        /\ \A has : MetaHolds(has, d) =>
             \A e \in Upto(l2.meta.cursor, d)' : e \in has \/ <<AuthorOf[e], d>> \in l2.meta.pending
    BY <1>1, <1>2, <1>4, MetaStep
  <2>2. MetaCurrent(d)' <=> MetaCurrent(d)
    BY <1>1, <1>4 DEF MetaCurrent
  <2>3. d \notin MetaOut' => ~op.touched
    BY <1>1 DEF MetaOut
  <2>4. MetaCopies(d)'
    BY <1>1, <1>4, <2>1, <2>2, <2>3 DEF MetaCopies, MetaHolds
  <2> QED
    BY <2>1, <2>4 DEF MetaInv
<1>14. DocInv(d)'
  BY <1>8, <1>9, <1>10, <1>11, <1>12 DEF DocInv
<1> QED
  BY <1>1, <1>13, <1>14, CalmButKeeps
-----------------------------------------------------------------------------
(* The checkpoint, and the restart from it                                 *)

LEMMA FlushCheckpointKeeps == ASSUME CopiesInv, TypeOK', FlushCheckpoint PROVE CopiesInv'
<1>1. TypeOK /\ LogInv /\ OpInv /\ db \in Database /\ db.next \in Nat
  BY NatFacts DEF CopiesInv, TypeOK
<1>2. /\ l2'.meta = Checkpoint(db) /\ l2'.doc = l2.doc
      /\ lost'.docs = lost.docs /\ lost'.stale = lost.stale
      /\ lost'.heal = heal /\ lost'.skipped = {}
  BY <1>1, FlushCheckpointFacts
<1>3. /\ l2'.meta.cursor = db.cursor /\ l2'.meta.index = db.index
      /\ l2'.meta.next = db.next /\ l2'.meta.pending = db.pending
  BY <1>1, <1>2, CheckpointFacts
<1>4. UNCHANGED <<store, db, sync, op, heal, trusted>>
  BY DEF FlushCheckpoint
<1>5. LogInv'
  BY <1>1, <1>3, <1>4 DEF LogInv
<1>6. OpInv'
  BY <1>1, <1>4 DEF OpInv, Stored
<1>7. ASSUME NEW d \in Docs
      PROVE  DocInv(d)' /\ MetaInv(d)'
  <2>1. DocInv(d)
    BY DEF CopiesInv
  <2>2. Out' = Out /\ Seen(d)' = Seen(d) /\ StoreDocs' = StoreDocs /\ (Current(d)' <=> Current(d))
    BY <1>2, <1>4 DEF Out, Seen, Upto, StoreDocs, Stored, Current
  <2>3. \A has, E : Holds(has, E, d) => \A e \in E : e \in has \/ Noted(e, d)'
    BY <1>4 DEF Holds, Noted
  <2>31. CachePart(d)' /\ RecordPart(d)' /\ CoverPart(d)'
    BY <1>2, <1>4, <2>1, <2>2, <2>3 DEF DocInv, CachePart, RecordPart, CoverPart, Holds
  <2>32. SyncPart(d)' /\ OpPart(d)'
    BY <1>2, <1>4, <2>1, <2>2, <2>3 DEF DocInv, SyncPart, OpPart, Holds
  <2>4. CachePart(d)' /\ RecordPart(d)' /\ CoverPart(d)' /\ SyncPart(d)' /\ OpPart(d)'
    BY <2>31, <2>32
  <2>5. SeqPart(d)' /\ HomePart(d)'
    BY <1>2, <1>4, <2>1, <2>2 DEF DocInv, SeqPart, HomePart
  <2>6. MetaIndex(d)'
    <3>1. db.index[d].seq \in Nat
      BY <1>1, NatFacts
    <3> QED
      BY <1>3, <1>4, <2>1, <3>1 DEF MetaIndex, DocInv, SeqPart
  <2>7. ASSUME d \notin MetaOut'
        PROVE  \A has, E : Holds(has, E, d) /\ Seen(d) \subseteq E => MetaHolds(has, d)'
    <3>1. d \notin heal
      BY <1>2, <2>7 DEF MetaOut
    <3>2. Upto(l2.meta.cursor, d)' \subseteq Seen(d)
      BY <1>3, <1>4 DEF Seen, Upto
    <3> QED
      BY <1>3, <3>1, <3>2 DEF MetaHolds, Holds, Noted
  <2>8. ASSUME d \notin MetaOut', MetaCurrent(d)'
        PROVE  Current(d)
    <3>1. d \notin lost.docs /\ l2.doc[d] /= None
      BY <1>2, <2>8 DEF MetaOut, MetaCurrent
    <3>2. l2.doc[d].seq <= db.index[d].seq /\ l2.doc[d].seq \in Nat /\ db.index[d].seq \in Nat
      BY <1>1, <2>1, <3>1, NatFacts DEF DocInv, SeqPart
    <3> QED
      BY <1>2, <1>3, <2>8, <3>1, <3>2 DEF MetaCurrent, Current
  <2>9. d \notin MetaOut' => d \notin Out
    BY <1>2 DEF MetaOut, Out
  <2>10. MetaCopies(d)'
    <3> SUFFICES ASSUME d \notin MetaOut'
                 PROVE  /\ db'.cache[d] /= None => MetaHolds(db.cache[d].has, d)'
                        /\ MetaCurrent(d)' => MetaHolds(l2.doc[d].has, d)'
                        /\ sync'.pc = "apply" /\ sync'.doc = d => MetaHolds(sync.result.has, d)'
                        /\ op'.pc /= "idle" /\ op'.doc = d /\ ~op'.touched
                             => MetaHolds(op.result.has, d)'
      BY DEF MetaCopies
    <3>1. \A has, E : Holds(has, E, d) /\ Seen(d) \subseteq E =>
             \A e \in Upto(l2.meta.cursor, d)' : e \in has \/ <<AuthorOf[e], d>> \in l2'.meta.pending
      BY <2>7 DEF MetaHolds
    <3>2. db'.cache[d] /= None => MetaHolds(db.cache[d].has, d)'
      BY <1>4, <2>1, <2>9, <3>1 DEF DocInv, CachePart, MetaHolds
    <3>3. MetaCurrent(d)' => MetaHolds(l2.doc[d].has, d)'
      BY <1>2, <2>1, <2>8, <2>9, <3>1 DEF DocInv, RecordPart, MetaHolds
    <3>4. sync'.pc = "apply" /\ sync'.doc = d => MetaHolds(sync.result.has, d)'
      BY <1>4, <2>1, <2>9, <3>1 DEF DocInv, SyncPart, MetaHolds
    <3>5. op'.pc /= "idle" /\ op'.doc = d /\ ~op'.touched => MetaHolds(op.result.has, d)'
      BY <1>4, <2>1, <2>9, <3>1 DEF DocInv, OpPart, MetaHolds
    <3> QED
      BY <3>2, <3>3, <3>4, <3>5
  <2> QED
    BY <2>4, <2>5, <2>6, <2>10 DEF DocInv, MetaInv
<1> QED
  BY <1>5, <1>6, <1>7 DEF CopiesInv

(* After a restart nothing is in flight, and what is in memory was read    *)
(* from a record that the checkpoint declares current.                     *)
LEMMA RestartKeeps == ASSUME CopiesInv, TypeOK', Restart PROVE CopiesInv'
<1>1. PICK T : Reopened(T)
  BY RestartFacts DEF CopiesInv
<1>2. TypeOK /\ LogInv /\ OpInv /\ lost \in History
  BY DEF CopiesInv, TypeOK
<1>3. /\ sync'.pc = "idle" /\ op'.pc = "idle" /\ heal' = {} /\ store' = store
  BY IdleTypes DEF Restart
<1>4. OpInv'
  BY <1>3 DEF OpInv
<1>5. /\ T \in SUBSET Records /\ l2'.meta = l2.meta
      /\ \A x \in Docs : l2'.doc[x] \in {l2.doc[x], None}
      /\ lost' = LoseAtRestart(l2.meta, T)
  BY <1>1 DEF Reopened
<1>6. StoreDocs' = StoreDocs
  BY <1>3 DEF StoreDocs, Stored
<1>7. \A d \in Docs : Seen(d)' = Upto(db.cursor, d)'
  BY <1>3 DEF Seen
<1>8. CASE l2.meta = None
  <2>1. /\ db'.cursor = 0 /\ db'.next = 1
        /\ \A x \in Docs : db'.cache[x] = None /\ db'.index[x] = Absent
    BY <1>1, <1>8 DEF Reopened
  <2>2. LogInv'
    BY <1>2, <1>3, <1>5, <1>8, <2>1, NatFacts DEF LogInv
  <2>3. ASSUME NEW d \in Docs
        PROVE  DocInv(d)'
    <3>1. db'.index[d].seq = 0 /\ db'.index[d].state = "none" /\ db'.cache[d] = None
      BY <2>1 DEF Absent
    <3>2. CachePart(d)' /\ RecordPart(d)' /\ CoverPart(d)' /\ SyncPart(d)' /\ OpPart(d)'
      BY <1>3, <3>1 DEF CachePart, RecordPart, CoverPart, SyncPart, OpPart, Current
    <3>3. l2.doc[d] /= None => l2.doc[d].seq \in Nat
      BY <1>2, NatFacts
    <3>4. l2.doc[d] /= None /\ l2.doc[d].seq > 0 => d \in lost'.docs
      BY <1>5, <1>8 DEF LoseAtRestart, Records
    <3>5. SeqPart(d)'
      BY <1>5, <2>1, <3>1, <3>3, <3>4 DEF SeqPart
    <3>6. DocInv(d)
      BY DEF CopiesInv
    <3>7. HomePart(d)'
      BY <1>3, <1>5, <1>6, <3>1, <3>6 DEF DocInv, HomePart
    <3> QED
      BY <3>2, <3>5, <3>7 DEF DocInv
  <2>4. \A d \in Docs : MetaInv(d)'
    BY <1>5, <1>8 DEF MetaInv
  <2> QED
    BY <1>4, <2>2, <2>3, <2>4 DEF CopiesInv
<1>9. CASE l2.meta /= None
  <2> DEFINE m == l2.meta
  <2>1. /\ db'.cursor = m.cursor /\ db'.index = m.index
        /\ db'.next = m.next /\ db'.pending = m.pending
        /\ \A x \in Docs : db'.cache[x] = IF x \in T \cap keys
                THEN [has |-> l2.doc[x].has, del |-> l2.doc[x].del] ELSE None
    BY <1>1, <1>9 DEF Reopened
  <2>2. m.cursor \in Nat /\ m.next \in Nat /\ m.cursor <= Len(store)
    BY <1>2, <1>9, NatFacts DEF LogInv
  <2>3. LogInv'
    BY <1>3, <1>5, <2>1, <2>2 DEF LogInv
  <2>4. ASSUME NEW d \in Docs
        PROVE  DocInv(d)' /\ MetaInv(d)'
    <3>1. DocInv(d) /\ MetaIndex(d) /\ MetaCopies(d)
      BY <1>9 DEF CopiesInv, MetaInv
    <3>2. m.index[d].seq \in Nat /\ (l2.doc[d] /= None => l2.doc[d].seq \in Nat)
      BY <1>2, <1>9, NatFacts
    <3>3. /\ d \notin lost'.docs => d \notin MetaOut
          /\ d \notin lost'.docs /\ l2.doc[d] /= None => ~(l2.doc[d].seq > m.index[d].seq)
          /\ d \in T \cap keys /\ d \notin lost'.stale =>
               ~(l2.doc[d].seq < m.index[d].seq) /\ m.index[d].state = "visible"
      BY <1>5, <1>9 DEF LoseAtRestart, Records, MetaOut
    <3>4. d \in T => l2.doc[d] /= None
      BY <1>5 DEF Records
    <3>5. db'.cache[d] /= None =>
            d \in T \cap keys /\ l2.doc[d] /= None /\ db'.cache[d].has = l2.doc[d].has
      <4>1. db'.cache[d] = IF d \in T \cap keys
                           THEN [has |-> l2.doc[d].has, del |-> l2.doc[d].del] ELSE None
        BY <2>1
      <4> QED
        BY <3>4, <4>1
    <3>6. ASSUME d \notin Out', db'.cache[d] /= None PROVE MetaCurrent(d)
      BY <3>2, <3>3, <3>5, <3>6 DEF MetaCurrent, Out
    <3>7. ASSUME Current(d)' PROVE MetaCurrent(d) /\ l2'.doc[d] = l2.doc[d]
      BY <1>5, <2>1, <3>7 DEF Current, MetaCurrent
    <3>8. Upto(db.cursor, d)' = Upto(m.cursor, d)
      BY <1>3, <2>1 DEF Upto
    <3>9. ASSUME d \notin Out', MetaCurrent(d)
          PROVE  \A e \in Seen(d)' : e \in l2.doc[d].has \/ Noted(e, d)'
      <4>1. MetaHolds(l2.doc[d].has, d)
        BY <3>1, <3>3, <3>9 DEF MetaCopies, Out
      <4> QED
        BY <1>7, <2>1, <3>8, <4>1 DEF MetaHolds, Noted
    <3>10. CachePart(d)'
      BY <3>5, <3>6, <3>9 DEF CachePart, Holds
    <3>11. RecordPart(d)'
      BY <3>7, <3>9 DEF RecordPart, Holds
    <3>12. CoverPart(d)'
      BY <3>5, <3>7 DEF CoverPart
    <3>13. SyncPart(d)' /\ OpPart(d)'
      BY <1>3 DEF SyncPart, OpPart
    <3>14. SeqPart(d)'
      BY <1>5, <2>1, <3>1, <3>2, <3>3 DEF SeqPart, MetaIndex
    <3>15. HomePart(d)'
      BY <1>3, <1>5, <1>6, <3>1, <3>5 DEF DocInv, HomePart
    <3>16. MetaIndex(d)'
      BY <1>5, <2>1, <3>1, <3>2 DEF MetaIndex
    <3>17. d \notin MetaOut' => d \notin MetaOut /\ d \notin Out'
      BY <1>5, <3>3 DEF MetaOut, Out
    <3>18. Upto(l2.meta.cursor, d)' = Upto(l2.meta.cursor, d)
      BY <1>3, <1>5 DEF Upto
    <3>19. MetaCurrent(d)' => MetaCurrent(d) /\ l2'.doc[d] = l2.doc[d]
      BY <1>5 DEF MetaCurrent
    <3>20. MetaCopies(d)'
      <4> SUFFICES ASSUME d \notin MetaOut'
                   PROVE  /\ db'.cache[d] /= None => MetaHolds(db.cache[d].has, d)'
                          /\ MetaCurrent(d)' => MetaHolds(l2.doc[d].has, d)'
        BY <1>3 DEF MetaCopies
      <4>1. MetaCurrent(d) => \A e \in Upto(l2.meta.cursor, d)' :
                                e \in l2.doc[d].has \/ <<AuthorOf[e], d>> \in l2'.meta.pending
        BY <1>5, <3>1, <3>17, <3>18 DEF MetaCopies, MetaHolds
      <4>2. db'.cache[d] /= None => MetaHolds(db.cache[d].has, d)'
        BY <3>5, <3>6, <3>17, <4>1 DEF MetaHolds
      <4>3. MetaCurrent(d)' => MetaHolds(l2.doc[d].has, d)'
        BY <3>19, <4>1 DEF MetaHolds
      <4> QED
        BY <4>2, <4>3
    <3> QED
      BY <3>10, <3>11, <3>12, <3>13, <3>14, <3>15, <3>16, <3>20 DEF DocInv, MetaInv
  <2> QED
    BY <1>4, <2>3, <2>4 DEF CopiesInv
<1> QED
  BY <1>8, <1>9

-----------------------------------------------------------------------------
(* The inductive invariant, and what it says of the copies                 *)

LEMMA InitCopies == Init => CopiesInv
<1> SUFFICES ASSUME Init
             PROVE  CopiesInv
  OBVIOUS
<1>1. TypeOK
  BY InitType
<1>2. /\ store = <<>> /\ db.cursor = 0 /\ db.next = 1 /\ sync.pc = "idle" /\ op.pc = "idle"
      /\ l2.meta = None
      /\ \A d \in Docs : db.cache[d] = None /\ db.index[d] = Absent /\ l2.doc[d] = None
  BY ClosedIs, IdleTypes DEF Init, Database
<1>3. LogInv /\ OpInv
  BY <1>2 DEF LogInv, OpInv
<1>4. ASSUME NEW d \in Docs
      PROVE  DocInv(d) /\ MetaInv(d)
  <2>1. db.index[d].seq = 0
    BY <1>2 DEF Absent
  <2> QED
    BY <1>2, <2>1 DEF DocInv, MetaInv, CachePart, RecordPart, CoverPart, SyncPart, OpPart,
       SeqPart, HomePart, Current
<1> QED
  BY <1>1, <1>3, <1>4 DEF CopiesInv

LEMMA CalmKeeps == ASSUME CopiesInv, TypeOK', CalmBut({}) PROVE CopiesInv'
BY CalmButKeeps

LEMMA CopiesKept == ASSUME CopiesInv, [Next]_vars PROVE CopiesInv'
<1>1. TypeOK'
  BY TypeKept DEF CopiesInv
<1>2. CASE UNCHANGED vars
  BY <1>1, <1>2, NothingCalm, CalmKeeps DEF vars
<1>3. CASE SyncStep
  BY <1>1, <1>3, SyncStartCalm, SyncDoneCalm, CalmKeeps, ApplyFinishKeeps,
     ApplyNewEntriesKeeps, IndexFromMetadataKeeps, ScanMetadataCalm, SyncPurgeCalm,
     SyncWithoutKeyKeeps, VisitsAre, VisitKeeps DEF SyncStep, CopiesInv
<1>4. CASE LoadStep
  BY <1>1, <1>4, LoadFinishKeeps, LoadStartKeeps DEF LoadStep
<1>5. CASE WriteStep
  BY <1>1, <1>5, WritePutCalm, CalmKeeps, WriteFinishKeeps DEF WriteStep
<1>6. CASE ReconcileStep
  BY <1>1, <1>6, HealStartCalm, ReconcileStartCalm, ReconcileCalm, ReconcileHideCalm,
     ReconcileEndCalm, CalmKeeps, HealDocumentKeeps DEF ReconcileStep
<1>7. CASE FeedStep
  <2>1. CASE FeedEnd
    BY <1>1, <2>1, NothingCalm, CalmKeeps DEF FeedEnd, jobs
  <2> QED
    BY <1>1, <1>7, <2>1, NotifyTimerCalm, FeedReadCalm, CalmKeeps DEF FeedStep
<1>8. CASE FlushStep
  BY <1>1, <1>8, FlushCheckpointKeeps, ClearDirtyCalm, FlushRecordCalm, CalmKeeps DEF FlushStep
<1>9. CASE Initialized \/ Restart \/ WriteRefused
  BY <1>1, <1>9, InitializedCalm, WriteRefusedCalm, CalmKeeps, RestartKeeps
<1>10. CASE FlushStart
  BY <1>1, <1>10, NothingCalm, CalmKeeps DEF FlushStart
<1>11. CASE FeedSave
  BY <1>1, <1>11, NothingCalm, CalmKeeps DEF FeedSave, jobs
<1>12. ASSUME NEW e \in Entries, Receive(e) \/ ApplyKnownChange(e)
       PROVE  CopiesInv'
  BY <1>1, <1>12, ReceiveCalm, CalmKeeps, ApplyKnownKeeps
<1>13. ASSUME NEW e \in Entries,
              CreateDocument(e) \/ ChangeDoc(e) \/ ApplyPatch(e) \/ DeleteDoc(e) \/ UndeleteDoc(e)
       PROVE  CopiesInv'
  <2>1. BeginsWrite(e)
    BY <1>13, WritesBegin DEF CopiesInv
  <2> QED
    BY <1>1, <2>1, BeginWriteKeeps
<1>14. ASSUME NEW d \in Docs, ReadRefused(d) \/ KeyBagChanged(d)
       PROVE  CopiesInv'
  BY <1>1, <1>14, ReadRefusedCalm, KeyBagChangedCalm, CalmKeeps
<1>15. ASSUME NEW a \in Unknown, AuthorTrusted(a)
       PROVE  CopiesInv'
  BY <1>1, <1>15, NothingCalm, CalmKeeps DEF AuthorTrusted, jobs
<1> QED
  BY <1>2, <1>3, <1>4, <1>5, <1>6, <1>7, <1>8, <1>9, <1>10, <1>11, <1>12, <1>13, <1>14, <1>15
     DEF Next

LEMMA CopiesAlways == Spec => []CopiesInv
<1>1. Init => CopiesInv
  BY InitCopies
<1>2. CopiesInv /\ [Next]_vars => CopiesInv'
  BY CopiesKept
<1> QED
  BY <1>1, <1>2, PTL DEF Spec

(* An owed entry has been passed and is not noted.                         *)
LEMMA OwedIsHeld ==
  ASSUME CopiesInv, NEW d \in Docs \ heal, NEW has, Holds(has, Seen(d), d)
  PROVE  Owed(d) \subseteq has
BY DEF Owed, Holds, Seen, Upto, Noted

LEMMA CopiesAreComplete == CopiesInv => CacheComplete /\ RecordComplete
<1> SUFFICES ASSUME CopiesInv
             PROVE  CacheComplete /\ RecordComplete
  OBVIOUS
<1>1. \A d \in Docs : DocInv(d)
  BY DEF CopiesInv
<1>2. CacheComplete
  BY <1>1, OwedIsHeld DEF CacheComplete, DocInv, CachePart, Out
<1>3. RecordComplete
  BY <1>1, OwedIsHeld DEF RecordComplete, Records, DocInv, RecordPart, Out, Current
<1> QED
  BY <1>2, <1>3

(* A document in memory has every entry of a trusted author that the       *)
(* cursor has passed, or its author is pending or being healed.            *)
THEOREM ReplayCacheComplete == Spec => []CacheComplete
BY CopiesAlways, CopiesAreComplete, PTL

(* A record that the index declares current has them too.                  *)
THEOREM ReplayRecordComplete == Spec => []RecordComplete
BY CopiesAlways, CopiesAreComplete, PTL

-----------------------------------------------------------------------------
(* A document is visible if and only if its key is there                   *)

Vis(d) == db.index[d].state = "visible"

(* The documents of which the index must know: an entry was passed, or a   *)
(* copy is in memory or about to be.                                       *)
Known(d) == Seen(d) /= {} \/ db.cache[d] /= None \/ (op.pc = "load" /\ op.doc = d)

(* A pass will look at the key, or has seen it gone and is about to hide   *)
(* the document.                                                           *)
Awaited(d) == ToReconcile(d) \/ (recon.doc = d /\ d \notin keys)

VisPart(d) == ~lost.keys /\ d \notin lost.early /\ Known(d) => (Vis(d) <=> d \in keys) \/ Awaited(d)

(* Of the pass in flight: what it is about to hide has no key, or another  *)
(* pass will follow.                                                       *)
ReconInv ==
  /\ recon.pc = "idle" => recon.todo = {} /\ recon.doc = None
  /\ recon.again => db.ready
  /\ recon.doc /= None => recon.doc \notin keys \/ recon.again \/ lost.keys

(* The same of the checkpoint and the keys it was written with.            *)
MetaVis(d) ==
  l2.meta /= None /\ ~lost.keys /\ ~lost.rekeyed /\ d \notin lost.early
    /\ Upto(l2.meta.cursor, d) /= {} =>
      (l2.meta.index[d].state = "visible" <=> d \in l2.meta.fp)

VisInv == CopiesInv /\ ReconInv /\ \A d \in Docs : VisPart(d) /\ MetaVis(d)

(* A step that leaves the keys, the reconciliation and the index of all    *)
(* documents but those of D alone.                                         *)
VisFrame(D) ==
  /\ CalmBut(D) /\ keys' = keys /\ recon' = recon
  /\ db'.ready = db.ready /\ db'.fp = db.fp
  /\ (lost.keys => lost'.keys) /\ lost'.rekeyed = lost.rekeyed
  /\ \A x \in Docs : LostGrows(x)
  /\ \A x \in Docs \ D : db'.index[x] = db.index[x]

(* A document with nothing new is known only if it was.                    *)
LEMMA CalmKnown ==
  ASSUME NEW d \in Docs, Calm(d)
  PROVE  Known(d)' => Known(d)
BY DEF Calm, Untouched, Known

(* What the checkpoint says is about entries that stay where they are.     *)
LEMMA MetaVisKept ==
  ASSUME CopiesInv, StoreGrows, l2'.meta = l2.meta, NEW d \in Docs, MetaVis(d), LostGrows(d),
         lost.keys => lost'.keys, lost'.rekeyed = lost.rekeyed
  PROVE  MetaVis(d)'
<1>1. l2.meta /= None => Upto(l2.meta.cursor, d)' = Upto(l2.meta.cursor, d)
  BY MetaHoldsKept DEF CopiesInv
<1> HIDE DEF Upto
<1> QED
  BY <1>1 DEF MetaVis, LostGrows

LEMMA VisFrameKeeps ==
  ASSUME VisInv, CopiesInv', NEW D, VisFrame(D), \A d \in Docs \cap D : VisPart(d)'
  PROVE  VisInv'
<1>1. ASSUME NEW d \in Docs \ D PROVE VisPart(d)'
  <2>1. Calm(d) /\ VisPart(d)
    BY DEF VisFrame, CalmBut, VisInv
  <2>2. Known(d)' => Known(d)
    BY <2>1, CalmKnown
  <2>3. LostGrows(d) /\ db'.index[d] = db.index[d]
    BY DEF VisFrame
  <2> HIDE DEF Known
  <2> QED
    BY <2>1, <2>2, <2>3 DEF VisPart, Vis, Awaited, ToReconcile, Rekeying, VisFrame, LostGrows
<1>2. ASSUME NEW d \in Docs PROVE MetaVis(d)'
  BY MetaVisKept DEF VisFrame, CalmBut, VisInv
<1>3. ReconInv'
  BY DEF VisInv, VisFrame, ReconInv
<1> QED
  BY <1>1, <1>2, <1>3 DEF VisInv

LEMMA VisStill ==
  ASSUME VisInv, CopiesInv', CalmBut({}), UNCHANGED <<keys, recon, lost>>,
         db'.index = db.index, db'.ready = db.ready, db'.fp = db.fp
  PROVE  VisInv'
BY VisFrameKeeps, LostSame DEF VisFrame

LEMMA ReceiveVisible == ASSUME VisInv, CopiesInv', NEW e \in Entries, Receive(e) PROVE VisInv'
BY ReceiveCalm, VisStill DEF VisInv, CopiesInv, Receive, jobs, outside

LEMMA SyncStartVisible == ASSUME VisInv, CopiesInv', SyncStart PROVE VisInv'
<1>1. feed \in Consumer /\ db \in Database
  BY DEF VisInv, CopiesInv, TypeOK
<1>2. db'.index = db.index /\ db'.ready = db.ready /\ db'.fp = db.fp
  BY <1>1, EmitFacts DEF SyncStart
<1> QED
  BY <1>2, SyncStartCalm, VisStill DEF VisInv, CopiesInv, SyncStart

LEMMA SyncDoneVisible == ASSUME VisInv, CopiesInv', SyncDone PROVE VisInv'
<1>1. feed \in Consumer /\ db \in Database /\ sync \in SyncJob
  BY DEF VisInv, CopiesInv, TypeOK
<1> DEFINE s == [db EXCEPT !.cursor = sync.next, !.meta = TRUE]
<1>2. s \in Database /\ s.index = db.index /\ s.ready = db.ready /\ s.fp = db.fp
  BY <1>1 DEF Database, SyncJob
<1>3. Emit(s)
  BY DEF SyncDone
<1> HIDE DEF s
<1>4. db'.index = db.index /\ db'.ready = db.ready /\ db'.fp = db.fp
  BY <1>1, <1>2, <1>3, EmitFacts
<1> QED
  BY <1>4, SyncDoneCalm, VisStill DEF VisInv, CopiesInv, SyncDone

LEMMA NotifyTimerVisible == ASSUME VisInv, CopiesInv', NotifyTimer PROVE VisInv'
<1>1. feed \in Consumer /\ db \in Database
  BY DEF VisInv, CopiesInv, TypeOK
<1>2. db'.index = db.index /\ db'.ready = db.ready /\ db'.fp = db.fp
  BY <1>1, EmitFacts DEF NotifyTimer
<1>3. CopiesInv /\ TypeOK' /\ UNCHANGED <<keys, recon, lost>>
  BY DEF VisInv, CopiesInv, NotifyTimer, jobs
<1> QED
  BY <1>2, <1>3, NotifyTimerCalm, VisStill

LEMMA ReadRefusedVisible ==
  ASSUME VisInv, CopiesInv', NEW d \in Docs, ReadRefused(d) PROVE VisInv'
<1>1. db'.index = db.index /\ db'.ready = db.ready /\ db'.fp = db.fp
  BY PurgeFacts DEF VisInv, CopiesInv, TypeOK, ReadRefused
<1> QED
  BY <1>1, ReadRefusedCalm, VisStill DEF VisInv, CopiesInv, ReadRefused, jobs

LEMMA FlushRecordVisible ==
  ASSUME VisInv, CopiesInv', NEW d \in Docs, FlushRecord(d) PROVE VisInv'
BY FlushRecordCalm, VisStill DEF VisInv, CopiesInv, FlushRecord

LEMMA ClearDirtyVisible == ASSUME VisInv, CopiesInv', ClearDirty PROVE VisInv'
<1>1. db'.index = db.index /\ db'.ready = db.ready /\ db'.fp = db.fp
  BY DEF VisInv, CopiesInv, TypeOK, Database, ClearDirty
<1> QED
  BY <1>1, ClearDirtyCalm, VisStill DEF VisInv, CopiesInv, ClearDirty

LEMMA HealStartVisible == ASSUME VisInv, CopiesInv', HealStart PROVE VisInv'
<1>1. db'.index = db.index /\ db'.ready = db.ready /\ db'.fp = db.fp
  BY HealStartFacts DEF VisInv, CopiesInv
<1> QED
  BY <1>1, HealStartCalm, VisStill DEF VisInv, CopiesInv, HealStart

LEMMA WriteRefusedVisible == ASSUME VisInv, CopiesInv', WriteRefused PROVE VisInv'
BY WriteRefusedCalm, VisStill DEF VisInv, CopiesInv, WriteRefused

LEMMA WritePutVisible == ASSUME VisInv, CopiesInv', WritePut PROVE VisInv'
BY WritePutCalm, VisStill DEF VisInv, CopiesInv, WritePut

(* Reading the feed, starting a flush, saving: none of it is spoken of.    *)
LEMMA NothingVisible ==
  ASSUME VisInv, CopiesInv', UNCHANGED <<store, db, l2, sync, op, heal, lost, keys, recon>>,
         trusted \subseteq trusted'
  PROVE  VisInv'
BY NothingCalm, VisStill DEF VisInv, CopiesInv

LEMMA FeedReadVisible == ASSUME VisInv, CopiesInv', NEW d \in Docs, FeedRead(d) PROVE VisInv'
<1>1. UNCHANGED <<db, keys, recon>> /\ (lost.keys => lost'.keys) /\ lost'.rekeyed = lost.rekeyed
      /\ \A x \in Docs : LostGrows(x)
  BY DEF VisInv, CopiesInv, TypeOK, History, FeedRead, LostGrows, jobs
<1> QED
  BY <1>1, FeedReadCalm, VisFrameKeeps DEF VisFrame, VisInv, CopiesInv

(* A document of the store with no entry ahead of the cursor was passed.   *)
LEMMA PassedUnlessAhead ==
  ASSUME TypeOK, NEW d \in Docs, d \in StoreDocs, Ahead \cap Of(d) = {}
  PROVE  /\ Stored \cap Of(d) \subseteq Seen(d) /\ Seen(d) /= {}
<1>1. db.cursor \in Nat /\ Len(store) \in Nat /\ DOMAIN store = 1..Len(store)
  BY NatFacts DEF TypeOK
<1>2. ASSUME NEW e \in Stored \cap Of(d) PROVE e \in Seen(d)
  <2>1. PICK i \in DOMAIN store : store[i] = e
    BY DEF Stored
  <2>2. i \in 1..db.cursor
    BY <1>1, <2>1 DEF Ahead
  <2> QED
    BY <2>1, <2>2 DEF Seen, Upto
<1>3. PICK e \in Stored : DocOf[e] = d
  BY DEF StoreDocs
<1>4. e \in Of(d)
  BY <1>3, StoredIs DEF Of, TypeOK
<1> QED
  BY <1>2, <1>3, <1>4

LEMMA ApplyNewEntriesVisible ==
  ASSUME VisInv, CopiesInv', NEW d \in Docs, ApplyNewEntries(d) PROVE VisInv'
<1>1. CopiesInv /\ TypeOK' /\ VisPart(d)
  BY DEF VisInv, CopiesInv
<1>2. /\ CalmBut({d}) /\ LostGrows(d) /\ db.cache[d] /= None /\ db'.index = db.index
  BY <1>1, ApplyNewEntriesEffect
<1>3. UNCHANGED <<keys, recon>> /\ lost'.keys = lost.keys /\ lost'.rekeyed = lost.rekeyed
  BY <1>1 DEF CopiesInv, TypeOK, History, ApplyNewEntries
<1>4. db'.ready = db.ready /\ db'.fp = db.fp
  <2>1. UnknownAuthors(sync.batch \cap Of(d), d) \in SUBSET (Authors \X Docs)
    BY <1>1, UnknownAre DEF CopiesInv, TypeOK, SyncJob
  <2>2. db \in Database
    BY <1>1 DEF CopiesInv, TypeOK
  <2>3. db' = RecordPending(db, UnknownAuthors(sync.batch \cap Of(d), d))
    BY DEF ApplyNewEntries
  <2> QED
    BY <2>1, <2>2, <2>3, RecordPendingFacts
<1>5. Known(d)
  BY <1>2 DEF Known
<1>6. VisPart(d)'
  BY <1>1, <1>2, <1>3, <1>4, <1>5 DEF VisPart, Vis, Awaited, ToReconcile, Rekeying,
     LostGrows
<1>7. \A x \in Docs : LostGrows(x)
  BY <1>2 DEF CalmBut, Calm, Untouched
<1> QED
  BY <1>2, <1>3, <1>4, <1>6, <1>7, VisFrameKeeps DEF VisFrame

(* A handler that puts a document into memory publishes it; when its key   *)
(* has gone and was reconciled meanwhile, that is remembered.              *)
LEMMA ApplyFinishVisible == ASSUME VisInv, CopiesInv', ApplyFinish PROVE VisInv'
<1>1. CopiesInv /\ TypeOK /\ TypeOK'
  BY DEF VisInv, CopiesInv
<1>2. PICK d : d = sync.doc
  OBVIOUS
<1>3. d \in Docs
  BY <1>1, <1>2 DEF TypeOK, ApplyFinish
<1>4. /\ CalmBut({d}) /\ LostGrows(d) /\ Vis(d)'
      /\ \A x \in Docs : x /= d => db'.index[x] = db.index[x]
      /\ db'.ready = db.ready /\ db'.fp = db.fp
  BY <1>1, <1>2, <1>3, ApplyFinishEffect DEF Vis
<1>5. UNCHANGED <<keys, recon>> /\ lost'.keys = Unhidden(d) /\ lost'.rekeyed = lost.rekeyed
  BY <1>1, <1>2 DEF TypeOK, History, ApplyFinish
<1>6. VisPart(d)'
  BY <1>4, <1>5 DEF VisPart, Unhidden, Awaited, ToReconcile, Rekeying
<1>7. \A x \in Docs : LostGrows(x)
  BY <1>4 DEF CalmBut, Calm, Untouched
<1> QED
  BY <1>4, <1>5, <1>6, <1>7, VisFrameKeeps DEF VisFrame, Unhidden

LEMMA IndexFromMetadataVisible ==
  ASSUME VisInv, CopiesInv', NEW d \in Docs, IndexFromMetadata(d) PROVE VisInv'
<1>1. CopiesInv /\ TypeOK'
  BY DEF VisInv, CopiesInv
<1>2. /\ CalmBut({d}) /\ Untouched(d) /\ d \in keys /\ Vis(d)'
      /\ \A x \in Docs : x /= d => db'.index[x] = db.index[x]
      /\ db'.ready = db.ready /\ db'.fp = db.fp
  BY <1>1, IndexFromMetadataEffect DEF Vis
<1>3. UNCHANGED <<keys, recon, lost>>
  BY DEF IndexFromMetadata
<1> QED
  BY <1>2, <1>3, LostSame, VisFrameKeeps DEF VisFrame, VisPart

LEMMA ScanMetadataVisible ==
  ASSUME VisInv, CopiesInv', NEW d \in Docs, ScanMetadata(d) PROVE VisInv'
BY ScanMetadataCalm, VisStill DEF VisInv, CopiesInv, ScanMetadata

LEMMA SyncPurgeVisible ==
  ASSUME VisInv, CopiesInv', NEW d \in Docs, SyncPurge(d) PROVE VisInv'
<1>1. CopiesInv /\ TypeOK /\ TypeOK' /\ UNCHANGED <<keys, recon, lost>>
  BY DEF VisInv, CopiesInv, SyncPurge
<1>2. db'.index = db.index /\ db'.ready = db.ready /\ db'.fp = db.fp
  BY <1>1, SyncPurgeEffect
<1> QED
  BY <1>1, <1>2, SyncPurgeCalm, VisStill

(* The sync publishes what it has scanned, or hides what it has purged;    *)
(* when the key has changed and was reconciled meanwhile, that is          *)
(* remembered.                                                             *)
LEMMA VisitVisible ==
  ASSUME VisInv, CopiesInv', NEW d \in Docs, Visits(d) PROVE VisInv'
<1>1. CopiesInv /\ TypeOK /\ TypeOK'
  BY DEF VisInv, CopiesInv
<1>2. CalmBut({d}) /\ Untouched(d)
  BY <1>1, VisitEffect
<1>3. /\ \A x \in Docs : x /= d => db'.index[x] = db.index[x]
      /\ db'.ready = db.ready /\ db'.fp = db.fp
      /\ IndexScanned => Vis(d)'
      /\ SyncHide => ~Vis(d)'
  BY <1>1, VisitDatabase DEF Vis
<1>4. /\ lost'.rekeyed = lost.rekeyed
      /\ IndexScanned => lost'.keys = Unhidden(d)
      /\ SyncHide => lost'.keys = Unshown(d)
  BY <1>1, VisitHistory
<1>5. UNCHANGED <<keys, recon>> /\ (IndexScanned \/ SyncHide)
  BY DEF Visits, IndexScanned, SyncHide
<1>6. VisPart(d)'
  <2>1. CASE IndexScanned
    BY <1>3, <1>4, <1>5, <2>1 DEF VisPart, Unhidden, Awaited, ToReconcile, Rekeying
  <2>2. CASE SyncHide
    BY <1>3, <1>4, <1>5, <2>2 DEF VisPart, Unshown, Awaited, ToReconcile, Rekeying
  <2> QED
    BY <1>5, <2>1, <2>2
<1>7. \A x \in Docs : LostGrows(x)
  BY <1>2 DEF CalmBut, Calm, Untouched
<1>8. lost.keys => lost'.keys
  BY <1>4, <1>5 DEF Unhidden, Unshown
<1> QED
  BY <1>2, <1>3, <1>4, <1>5, <1>6, <1>7, <1>8, VisFrameKeeps DEF VisFrame

LEMMA SyncWithoutKeyVisible ==
  ASSUME VisInv, CopiesInv', NEW d \in Docs, SyncWithoutKey(d) PROVE VisInv'
<1>1. CopiesInv /\ TypeOK'
  BY DEF VisInv, CopiesInv
<1>2. /\ CalmBut({d}) /\ Untouched(d) /\ d \notin keys /\ ~Vis(d)'
      /\ db'.index = db.index /\ db'.ready = db.ready /\ db'.fp = db.fp
  BY <1>1, SyncWithoutKeyEffect DEF Vis
<1>3. UNCHANGED <<keys, recon, lost>>
  BY DEF SyncWithoutKey
<1> QED
  BY <1>2, <1>3, LostSame, VisFrameKeeps DEF VisFrame, VisPart

LEMMA HealDocumentVisible ==
  ASSUME VisInv, CopiesInv', NEW d \in Docs, HealDocument(d) PROVE VisInv'
<1>1. CopiesInv /\ TypeOK /\ TypeOK' /\ VisPart(d)
  BY DEF VisInv, CopiesInv
<1>2. /\ CalmBut({d}) /\ Untouched(d) /\ db'.cache[d] = None
      /\ Seen(d)' = Seen(d)
      /\ db'.index = db.index \/ (d \in keys /\ Vis(d)')
      /\ \A x \in Docs : x /= d => db'.index[x] = db.index[x]
      /\ db'.ready = db.ready /\ db'.fp = db.fp
  BY <1>1, HealDocumentEffect DEF Vis
<1>3. UNCHANGED <<keys, recon>> /\ lost'.keys = lost.keys /\ lost'.rekeyed = lost.rekeyed
  BY <1>1 DEF TypeOK, History, HealDocument
<1>4. LostGrows(d) /\ \A x \in Docs : LostGrows(x)
  BY <1>2 DEF CalmBut, Calm, Untouched
<1>5. Known(d)' => Known(d)
  BY <1>2 DEF Untouched, Known
<1>6. VisPart(d)'
  BY <1>1, <1>2, <1>3, <1>4, <1>5 DEF VisPart, Vis, Awaited, ToReconcile, Rekeying,
     LostGrows
<1> QED
  BY <1>2, <1>3, <1>4, <1>6, VisFrameKeeps DEF VisFrame

(* A load starts from entries that were passed, or is remembered.          *)
LEMMA LoadStartVisible ==
  ASSUME VisInv, CopiesInv', NEW d \in Docs, LoadStart(d) PROVE VisInv'
<1>1. CopiesInv /\ TypeOK /\ TypeOK' /\ VisPart(d)
  BY DEF VisInv, CopiesInv
<1>2. /\ CalmBut({d}) /\ LostGrows(d) /\ db'.index = db.index /\ d \in StoreDocs
      /\ db'.ready = db.ready /\ db'.fp = db.fp
      /\ d \notin lost'.early => Ahead \cap Of(d) = {}
  BY <1>1, LoadStartEffect
<1>3. UNCHANGED <<keys, recon>> /\ lost'.keys = lost.keys /\ lost'.rekeyed = lost.rekeyed
  BY <1>1 DEF TypeOK, History, LoadStart
<1>4. d \notin lost'.early => Known(d)
  BY <1>1, <1>2, PassedUnlessAhead DEF Known
<1>5. VisPart(d)'
  BY <1>1, <1>2, <1>3, <1>4 DEF VisPart, Vis, Awaited, ToReconcile, Rekeying,
     LostGrows
<1>6. \A x \in Docs : LostGrows(x)
  BY <1>2 DEF CalmBut, Calm, Untouched
<1> QED
  BY <1>2, <1>3, <1>5, <1>6, VisFrameKeeps DEF VisFrame

LEMMA LoadFinishVisible == ASSUME VisInv, CopiesInv', LoadFinish PROVE VisInv'
<1>1. CopiesInv /\ TypeOK /\ TypeOK' /\ \A x \in Docs : VisPart(x)
  BY DEF VisInv, CopiesInv
<1>2. PICK d : d = op.doc
  OBVIOUS
<1>3. d \in Docs
  BY <1>1, <1>2 DEF TypeOK, LoadFinish
<1>4. /\ CalmBut({d}) /\ LostGrows(d) /\ db'.index = db.index /\ op.pc = "load"
      /\ db'.ready = db.ready /\ db'.fp = db.fp
  BY <1>1, <1>2, <1>3, LoadFinishEffect
<1>5. UNCHANGED <<keys, recon>> /\ lost'.keys = lost.keys /\ lost'.rekeyed = lost.rekeyed
  BY <1>1, <1>3, <1>2, LoseFacts DEF TypeOK, LoadFinish
<1>6. Known(d)
  BY <1>2, <1>4 DEF Known
<1>7. VisPart(d)'
  BY <1>1, <1>3, <1>4, <1>5, <1>6 DEF VisPart, Vis, Awaited, ToReconcile, Rekeying,
     LostGrows
<1>8. \A x \in Docs : LostGrows(x)
  BY <1>4 DEF CalmBut, Calm, Untouched
<1> QED
  BY <1>4, <1>5, <1>7, <1>8, VisFrameKeeps DEF VisFrame

LEMMA BeginWriteVisible ==
  ASSUME VisInv, CopiesInv', NEW e \in Entries, BeginsWrite(e) PROVE VisInv'
<1>1. CopiesInv /\ TypeOK /\ TypeOK'
  BY DEF VisInv, CopiesInv
<1>2. PICK has, base, del : WriteBegins(e, has, base, del)
  BY DEF BeginsWrite
<1>3. PICK d : d = DocOf[e]
  OBVIOUS
<1>4. d \in Docs
  BY <1>1, <1>2, <1>3, BeginWriteFacts
<1>5. VisPart(d)
  BY <1>4 DEF VisInv
<1>6. /\ CalmBut({d}) /\ UNCHANGED <<db, lost, keys, recon>>
      /\ op'.pc = "write" /\ Seen(d)' = Seen(d)
  BY <1>1, <1>2, <1>3, <1>4, BeginWriteEffect
<1>7. VisPart(d)'
  BY <1>5, <1>6 DEF VisPart, Vis, Awaited, ToReconcile, Rekeying, Known
<1> QED
  BY <1>6, <1>7, LostSame, VisFrameKeeps DEF VisFrame

LEMMA ApplyKnownVisible ==
  ASSUME VisInv, CopiesInv', NEW e \in Entries, ApplyKnownChange(e) PROVE VisInv'
<1>1. CopiesInv /\ TypeOK /\ TypeOK'
  BY DEF VisInv, CopiesInv
<1>2. PICK d : d = DocOf[e]
  OBVIOUS
<1>3. d \in Docs
  BY <1>1, <1>2, ApplyKnownFacts
<1>4. /\ CalmBut({d}) /\ LostGrows(d) /\ db'.index = db.index /\ db.cache[d] /= None
      /\ db'.ready = db.ready /\ db'.fp = db.fp
  BY <1>1, <1>2, <1>3, ApplyKnownEffect
<1>5. UNCHANGED <<keys, recon>> /\ lost'.keys = lost.keys /\ lost'.rekeyed = lost.rekeyed
  BY <1>1 DEF TypeOK, History, ApplyKnownChange, jobs
<1>6. Known(d) /\ VisPart(d)
  BY <1>3, <1>4 DEF Known, VisInv
<1>7. VisPart(d)'
  BY <1>4, <1>5, <1>6 DEF VisPart, Vis, Awaited, ToReconcile, Rekeying,
     LostGrows
<1>8. \A x \in Docs : LostGrows(x)
  BY <1>4 DEF CalmBut, Calm, Untouched
<1> QED
  BY <1>4, <1>5, <1>7, <1>8, VisFrameKeeps DEF VisFrame

LEMMA WriteFinishVisible == ASSUME VisInv, CopiesInv', WriteFinish PROVE VisInv'
<1>1. CopiesInv /\ TypeOK /\ TypeOK'
  BY DEF VisInv, CopiesInv
<1>2. PICK d : d = op.doc
  OBVIOUS
<1>3. d \in Docs
  BY <1>1, <1>2 DEF TypeOK, WriteFinish
<1>4. /\ CalmBut({d}) /\ LostGrows(d) /\ Vis(d)' /\ op.pc = "stored"
      /\ \A x \in Docs : x /= d => db'.index[x] = db.index[x]
      /\ db'.ready = db.ready /\ db'.fp = db.fp
  BY <1>1, <1>2, <1>3, WriteFinishEffect DEF Vis
<1>5. UNCHANGED <<keys, recon>> /\ lost'.keys = Unhidden(d) /\ lost'.rekeyed = lost.rekeyed
  BY <1>1, <1>2, <1>3, <1>4, LoseFacts DEF TypeOK, WriteFinish
<1>6. VisPart(d)'
  BY <1>4, <1>5 DEF VisPart, Unhidden, Awaited, ToReconcile, Rekeying
<1>7. \A x \in Docs : LostGrows(x)
  BY <1>4 DEF CalmBut, Calm, Untouched
<1> QED
  BY <1>4, <1>5, <1>6, <1>7, VisFrameKeeps DEF VisFrame, Unhidden

(* Only documents of the store are known, and those will be reconciled.    *)
LEMMA KnownIsStored ==
  ASSUME CopiesInv, NEW d \in Docs, Known(d)
  PROVE  d \in StoreDocs
<1>1. HomePart(d) /\ Seen(d) \subseteq Stored \cap Of(d)
  BY SeenIsStored DEF CopiesInv, DocInv
<1>2. \A e \in Stored \cap Of(d) : d \in StoreDocs
  BY DEF StoreDocs, Of
<1> QED
  BY <1>1, <1>2 DEF Known, HomePart

(* The keys change: a pass will follow, or the change is remembered.       *)
LEMMA KeyBagChangedVisible ==
  ASSUME VisInv, CopiesInv', NEW c \in Docs, KeyBagChanged(c) PROVE VisInv'
<1>1. CopiesInv /\ TypeOK /\ TypeOK' /\ ReconInv
  BY DEF VisInv, CopiesInv
<1>2. CalmBut({})
  BY <1>1, KeyBagChangedCalm
<1>3. /\ recon'.pc = recon.pc /\ recon'.todo = recon.todo /\ recon'.doc = recon.doc
      /\ recon'.fresh = recon.fresh /\ recon'.again = db.ready /\ db' = db
  BY <1>1 DEF KeyBagChanged, TypeOK, Recon
<1>4. /\ lost'.keys = (lost.keys \/ (~db.ready /\ (recon.fresh \/ recon.pc = "run"
                                                     \/ db.fp = keys')))
      /\ lost'.rekeyed = lost.rekeyed
      /\ \A x \in Docs : LostGrows(x)
  BY <1>1 DEF KeyBagChanged, TypeOK, History, LostGrows
<1>5. recon.pc \in {"idle", "run"}
  BY <1>1 DEF TypeOK, Recon
<1>6. ASSUME NEW d \in Docs PROVE VisPart(d)'
  <2>1. ~lost'.keys => ToReconcile(d)'
    BY <1>3, <1>4, <1>5 DEF ToReconcile, Rekeying
  <2> QED
    BY <2>1 DEF VisPart, Awaited
<1>7. ASSUME NEW d \in Docs PROVE MetaVis(d)'
  BY <1>1, <1>2, <1>4, MetaVisKept DEF VisInv, CalmBut
<1>8. ReconInv'
  BY <1>1, <1>3, <1>4, <1>5 DEF ReconInv
<1> QED
  BY <1>6, <1>7, <1>8 DEF VisInv

(* A pass or the hiding of a document leaves what the checkpoint says.     *)
LEMMA PassKeeps ==
  ASSUME VisInv, CopiesInv', CalmBut({}), lost' = lost, ReconInv',
         \A d \in Docs : VisPart(d) /\ (Known(d)' => Known(d)) => VisPart(d)'
  PROVE  VisInv'
<1>1. ASSUME NEW d \in Docs PROVE VisPart(d)'
  <2>1. (Known(d)' => Known(d)) /\ VisPart(d)
    BY CalmKnown DEF CalmBut, VisInv
  <2> QED
    BY <2>1
<1>2. ASSUME NEW d \in Docs PROVE MetaVis(d)'
  <2>1. MetaVis(d) /\ LostGrows(d) /\ CopiesInv
    BY LostSame DEF VisInv
  <2> QED
    BY <2>1, MetaVisKept DEF CalmBut
<1> QED
  BY <1>1, <1>2 DEF VisInv

LEMMA ReconcileStartVisible == ASSUME VisInv, CopiesInv', ReconcileStart PROVE VisInv'
<1>1. CopiesInv /\ TypeOK /\ TypeOK' /\ ReconInv
  BY DEF VisInv, CopiesInv
<1>2. /\ CalmBut({}) /\ UNCHANGED <<db, keys, lost>>
  BY <1>1, ReconcileStartCalm DEF ReconcileStart, outside
<1>3. recon'.pc = "run" /\ recon'.todo = StoreDocs /\ recon'.doc = None /\ ~recon'.again
  BY <1>1, PassType DEF ReconcileStart, ReconInv, Recon
<1>4. ReconInv'
  BY <1>3 DEF ReconInv
<1>5. ASSUME NEW d \in Docs, Known(d)' => Known(d) PROVE VisPart(d)'
  <2>1. Known(d)' => d \in recon'.todo
    BY <1>1, <1>3, <1>5, KnownIsStored
  <2> QED
    BY <2>1 DEF VisPart, Awaited, ToReconcile
<1> QED
  BY <1>2, <1>4, <1>5, PassKeeps

LEMMA ReconcileVisible ==
  ASSUME VisInv, CopiesInv', NEW c \in Docs, ReconcileKeyVisibility(c) PROVE VisInv'
<1>1. CopiesInv /\ TypeOK /\ TypeOK' /\ ReconInv
  BY DEF VisInv, CopiesInv
<1>2. /\ CalmBut({}) /\ (c \in keys => Vis(c)') /\ (c \notin keys => (Vis(c)' <=> Vis(c)))
      /\ \A x \in Docs : x /= c => (Vis(x)' <=> Vis(x))
      /\ db'.ready = db.ready /\ db'.fp = db.fp
  BY <1>1, ReconcileCalm, ReconcileFacts DEF Vis
<1>3. /\ keys' = keys /\ lost' = lost /\ recon.doc = None /\ c \in recon.todo
      /\ recon'.pc = recon.pc /\ recon'.again = recon.again /\ recon'.fresh = recon.fresh
      /\ recon'.todo = recon.todo \ {c}
      /\ recon'.doc = IF c \notin keys /\ Vis(c) THEN c ELSE None
  BY <1>1 DEF ReconcileKeyVisibility, TypeOK, Recon, Vis
<1>4. ReconInv'
  BY <1>1, <1>2, <1>3 DEF ReconInv
<1>5. ASSUME NEW d \in Docs, VisPart(d), Known(d)' => Known(d) PROVE VisPart(d)'
  <2>1. CASE d = c
    BY <2>1, <1>2, <1>3 DEF VisPart, Awaited
  <2>2. CASE d /= c
    <3>1. d /= None
      BY ConstantsAssumption
    <3>2. Awaited(d) => Awaited(d)'
      BY <1>2, <1>3, <2>2, <3>1 DEF Awaited, ToReconcile, Rekeying
    <3> QED
      BY <1>2, <1>3, <1>5, <2>2, <3>2 DEF VisPart
  <2> QED
    BY <2>1, <2>2
<1> QED
  BY <1>2, <1>3, <1>4, <1>5, PassKeeps

LEMMA ReconcileHideVisible == ASSUME VisInv, CopiesInv', ReconcileHide PROVE VisInv'
<1>1. CopiesInv /\ TypeOK /\ TypeOK' /\ ReconInv
  BY DEF VisInv, CopiesInv
<1>0. PICK c : c = recon.doc
  OBVIOUS
<1>2. /\ CalmBut({}) /\ c \in Docs /\ HiddenNow(db', db, c)
  BY <1>0, <1>1, ReconcileHideCalm, ReconcileHideFacts
<1>3. /\ ~Vis(c)' /\ \A x \in Docs : x /= c => (Vis(x)' <=> Vis(x))
      /\ db'.ready = db.ready /\ db'.fp = db.fp
  BY <1>2 DEF HiddenNow, Vis
<1>4. /\ keys' = keys /\ lost' = lost /\ c /= None
      /\ recon'.pc = recon.pc /\ recon'.again = recon.again /\ recon'.fresh = recon.fresh
      /\ recon'.todo = recon.todo /\ recon'.doc = None
  BY <1>0, <1>1 DEF ReconcileHide, TypeOK, Recon
<1>5. ReconInv'
  BY <1>0, <1>1, <1>3, <1>4 DEF ReconInv
<1>6. ASSUME NEW d \in Docs, VisPart(d), Known(d)' => Known(d) PROVE VisPart(d)'
  <2>1. CASE d = c
    <3>1. ~lost.keys => c \notin keys \/ recon.again
      BY <1>0, <1>1, <1>4 DEF ReconInv
    <3> QED
      BY <1>3, <1>4, <2>1, <3>1 DEF VisPart, Awaited, ToReconcile
  <2>2. CASE d /= c
    <3>1. Awaited(d) => Awaited(d)'
      BY <1>0, <1>3, <1>4, <2>2 DEF Awaited, ToReconcile, Rekeying
    <3> QED
      BY <1>3, <1>4, <1>6, <2>2, <3>1 DEF VisPart
  <2> QED
    BY <2>1, <2>2
<1> QED
  BY <1>2, <1>4, <1>5, <1>6, PassKeeps

LEMMA ReconcileEndVisible == ASSUME VisInv, CopiesInv', ReconcileEnd PROVE VisInv'
<1>1. CopiesInv /\ TypeOK /\ TypeOK' /\ ReconInv
  BY DEF VisInv, CopiesInv
<1>2. /\ CalmBut({}) /\ keys' = keys /\ lost' = lost /\ db'.index = db.index /\ db'.ready
      /\ recon'.pc = "idle" /\ recon'.todo = {} /\ recon'.doc = None
      /\ recon'.again = recon.again
      /\ recon.pc = "run" /\ recon.todo = {} /\ recon.doc = None
  BY <1>1, ReconcileEndCalm, ReconcileEndFacts DEF ReconcileEnd
<1>3. ReconInv'
  BY <1>2 DEF ReconInv
<1>4. ASSUME NEW d \in Docs, VisPart(d), Known(d)' => Known(d) PROVE VisPart(d)'
  <2>1. Awaited(d) => Awaited(d)'
    BY <1>2 DEF Awaited, ToReconcile, Rekeying
  <2> QED
    BY <1>2, <1>4, <2>1 DEF VisPart, Vis
<1> QED
  BY <1>2, <1>3, <1>4, PassKeeps

(* With the keys of the checkpoint everything is visible as it should be;  *)
(* with other keys every document is reconciled.                           *)
LEMMA InitializedVisible == ASSUME VisInv, CopiesInv', Initialized PROVE VisInv'
<1>1. CopiesInv /\ TypeOK /\ TypeOK' /\ ReconInv
  BY DEF VisInv, CopiesInv
<1>2. CalmBut({}) /\ keys' = keys /\ lost' = lost /\ db'.index = db.index
  BY <1>1, InitializedCalm, InitializedFacts DEF Initialized, outside
<1>3. ~db.ready /\ recon.pc = "idle" /\ recon.todo = {} /\ recon.doc = None /\ ~recon.again
  BY <1>1 DEF Initialized, AtEnd, ReconInv
<1>4. CASE /\ recon.fresh \/ db.fp = keys
           /\ db'.ready /\ recon' = NoRecon
  <2>1. ReconInv'
    BY <1>4 DEF ReconInv, NoRecon
  <2>2. ASSUME NEW d \in Docs, VisPart(d), Known(d)' => Known(d) PROVE VisPart(d)'
    <3>1. d /= None
      BY ConstantsAssumption
    <3>2. ~Awaited(d)
      BY <1>3, <1>4, <3>1 DEF Awaited, ToReconcile, Rekeying
    <3> QED
      BY <1>2, <2>2, <3>2 DEF VisPart, Vis
  <2> QED
    BY <1>2, <2>1, <2>2, PassKeeps
<1>5. CASE db' = db /\ recon' = Pass
  <2>1. recon'.pc = "run" /\ recon'.todo = StoreDocs /\ recon'.doc = None /\ ~recon'.again
    BY <1>1, <1>3, <1>5, PassType
  <2>2. ReconInv'
    BY <2>1 DEF ReconInv
  <2>3. ASSUME NEW d \in Docs, Known(d)' => Known(d) PROVE VisPart(d)'
    <3>1. Known(d)' => d \in recon'.todo
      BY <1>1, <2>1, <2>3, KnownIsStored
    <3> QED
      BY <3>1 DEF VisPart, Awaited, ToReconcile
  <2> QED
    BY <1>2, <2>2, <2>3, PassKeeps
<1> QED
  BY <1>1, <1>4, <1>5, InitializedFacts

(* A checkpoint written while no keys are to be reconciled has the         *)
(* fingerprint its index agrees with.                                      *)
LEMMA FlushCheckpointVisible == ASSUME VisInv, CopiesInv', FlushCheckpoint PROVE VisInv'
<1>1. CopiesInv /\ TypeOK
  BY DEF VisInv, CopiesInv
<1>2. /\ l2'.meta = Checkpoint(db) /\ lost'.keys = lost.keys /\ lost'.early = lost.early
      /\ recon.pc \in {"idle", "run"}
      /\ lost'.rekeyed = (recon.pc = "run" \/ recon.again \/ db.fp /= keys)
  BY <1>1, FlushCheckpointFacts DEF TypeOK, Recon
<1>3. UNCHANGED <<store, db, keys, sync, op, recon>>
  BY DEF FlushCheckpoint
<1>4. /\ Checkpoint(db).cursor = db.cursor /\ Checkpoint(db).index = db.index
      /\ Checkpoint(db).fp = db.fp
  BY <1>1, CheckpointFacts DEF TypeOK
<1>5. ASSUME NEW d \in Docs PROVE VisPart(d)'
  <2>1. VisPart(d) /\ (Known(d)' <=> Known(d))
    BY <1>3 DEF VisInv, Known, Seen, Upto
  <2> QED
    BY <1>2, <1>3, <2>1 DEF VisPart, Vis, Awaited, ToReconcile, Rekeying
<1>6. ASSUME NEW d \in Docs PROVE MetaVis(d)'
  <2>1. l2'.meta.cursor = db.cursor /\ l2'.meta.index = db.index /\ l2'.meta.fp = db.fp
    BY <1>2, <1>4
  <2>2. Upto(l2.meta.cursor, d)' = Upto(db.cursor, d)
    BY <1>3, <2>1 DEF Upto
  <2>3. Upto(db.cursor, d) /= {} => Known(d)
    BY DEF Known, Seen
  <2>4. VisPart(d) /\ ReconInv /\ d /= None
    BY ConstantsAssumption DEF VisInv
  <2> HIDE DEF Upto
  <2>5. ~lost'.keys /\ ~lost'.rekeyed /\ d \notin lost'.early /\ Upto(db.cursor, d) /= {}
          => (Vis(d) <=> d \in db.fp)
    BY <1>2, <2>3, <2>4 DEF VisPart, Awaited, ToReconcile, Rekeying, ReconInv
  <2> QED
    BY <2>1, <2>2, <2>5 DEF MetaVis, Vis
<1>7. ReconInv'
  BY <1>2, <1>3 DEF VisInv, ReconInv
<1> QED
  BY <1>5, <1>6, <1>7 DEF VisInv

(* A restored index agrees with the keys of the checkpoint; when those are *)
(* no longer the keys of the key bag, they will be reconciled.             *)
LEMMA RestartVisible == ASSUME VisInv, CopiesInv', Restart PROVE VisInv'
<1>1. CopiesInv /\ TypeOK
  BY DEF VisInv, CopiesInv
<1>2. PICK T : Reopened(T)
  BY <1>1, RestartFacts
<1>3. /\ store' = store /\ keys' = keys /\ sync'.pc = "idle" /\ op'.pc = "idle"
      /\ ~db'.ready /\ l2'.meta = l2.meta
      /\ recon' = [NoRecon EXCEPT !.fresh = (l2.meta = None)]
  BY <1>2, IdleTypes DEF Restart, Reopened
<1>7. /\ recon'.pc = "idle" /\ recon'.todo = {} /\ recon'.doc = None /\ ~recon'.again
      /\ recon'.fresh = (l2.meta = None)
  BY <1>3 DEF NoRecon
<1>8. ReconInv'
  BY <1>7 DEF ReconInv
<1>4. ASSUME NEW d \in Docs PROVE Seen(d)' = Upto(db'.cursor, d)
  BY <1>3 DEF Seen, Upto
<1>5. CASE l2.meta = None
  <2>1. ASSUME NEW d \in Docs PROVE VisPart(d)'
    <3>1. db'.cursor = 0 /\ db'.cache[d] = None
      BY <1>2, <1>5 DEF Reopened
    <3>2. Seen(d)' = {}
      BY <1>4, <3>1 DEF Upto
    <3> QED
      BY <1>3, <3>1, <3>2 DEF VisPart, Known
  <2> QED
    BY <1>3, <1>5, <1>8, <2>1 DEF VisInv, MetaVis
<1>6. CASE l2.meta /= None
  <2>1. /\ db'.cursor = l2.meta.cursor /\ db'.index = l2.meta.index /\ db'.fp = l2.meta.fp
        /\ \A x \in Docs : db'.cache[x] /= None => x \in T \cap keys
    BY <1>2, <1>6 DEF Reopened
  <2>2. /\ lost.keys => lost'.keys
        /\ lost.rekeyed /\ l2.meta.fp = keys => lost'.keys
        /\ lost'.rekeyed = lost.rekeyed
        /\ \A x \in Docs : x \in lost.early => x \in lost'.early
        /\ \A x \in T \cap keys : x \in Docs /\ l2.meta.index[x].state /= "visible" => x \in lost'.early
    BY <1>2 DEF Reopened, LoseAtRestart, Records
  <2>3. ASSUME NEW d \in Docs PROVE VisPart(d)'
    <3>1. SUFFICES ASSUME ~lost'.keys, d \notin lost'.early, Known(d)', l2.meta.fp = keys
                   PROVE  (Vis(d) <=> d \in keys)'
      BY <1>3, <1>6, <1>7, <2>1 DEF VisPart, Awaited, ToReconcile, Rekeying
    <3>2. CASE db'.cache[d] /= None
      BY <1>3, <2>1, <2>2, <3>1, <3>2 DEF Vis
    <3>3. CASE Seen(d)' /= {}
      <4>1. Upto(l2.meta.cursor, d) /= {}
        BY <1>4, <2>1, <3>3
      <4>2. MetaVis(d)
        BY DEF VisInv
      <4> HIDE DEF Upto
      <4> QED
        BY <1>3, <1>6, <2>1, <2>2, <3>1, <4>1, <4>2 DEF MetaVis, Vis
    <3> QED
      BY <1>3, <3>1, <3>2, <3>3 DEF Known
  <2>4. ASSUME NEW d \in Docs PROVE MetaVis(d)'
    <3>1. Upto(l2.meta.cursor, d)' = Upto(l2.meta.cursor, d) /\ MetaVis(d)
      BY <1>3 DEF Upto, VisInv
    <3> HIDE DEF Upto
    <3> QED
      BY <1>3, <2>2, <3>1 DEF MetaVis
  <2> QED
    BY <1>8, <2>3, <2>4 DEF VisInv
<1> QED
  BY <1>5, <1>6

LEMMA InitVisible == Init => VisInv
<1> SUFFICES ASSUME Init PROVE VisInv
  OBVIOUS
<1>1. CopiesInv
  BY InitCopies
<1>2. ASSUME NEW d \in Docs PROVE ~Known(d)
  <2>1. store = <<>> /\ db.cache[d] = None /\ op.pc = "idle"
    BY ClosedIs, IdleTypes DEF Init, Database
  <2>2. d \notin StoreDocs
    BY <2>1 DEF StoreDocs, Stored
  <2> QED
    BY <1>1, <2>2, KnownIsStored
<1>3. l2.meta = None
  BY DEF Init
<1>4. ReconInv
  BY DEF Init, NoRecon, ReconInv
<1> QED
  BY <1>1, <1>2, <1>3, <1>4 DEF VisInv, VisPart, MetaVis

LEMMA VisibleKept == ASSUME VisInv, CopiesInv', [Next]_vars PROVE VisInv'
<1>1. CASE SyncStep
  BY <1>1, SyncStartVisible, SyncDoneVisible, ApplyFinishVisible, ApplyNewEntriesVisible,
     IndexFromMetadataVisible, ScanMetadataVisible, SyncPurgeVisible, SyncWithoutKeyVisible,
     VisitsAre, VisitVisible DEF SyncStep, VisInv, CopiesInv
<1>2. CASE LoadStep
  BY <1>2, LoadStartVisible, LoadFinishVisible DEF LoadStep
<1>3. CASE WriteStep
  BY <1>3, WritePutVisible, WriteFinishVisible DEF WriteStep
<1>4. CASE ReconcileStep
  BY <1>4, HealStartVisible, HealDocumentVisible, ReconcileStartVisible, ReconcileVisible,
     ReconcileHideVisible, ReconcileEndVisible DEF ReconcileStep
<1>5. CASE FeedStep
  <2>1. CASE FeedEnd
    BY <2>1, NothingVisible DEF FeedEnd, jobs
  <2> QED
    BY <1>5, <2>1, NotifyTimerVisible, FeedReadVisible DEF FeedStep
<1>6. CASE FlushStep
  BY <1>6, FlushCheckpointVisible, ClearDirtyVisible, FlushRecordVisible DEF FlushStep
<1>7. CASE FlushStart \/ FeedSave
  BY <1>7, NothingVisible DEF FlushStart, FeedSave, jobs
<1>8. CASE Initialized \/ Restart \/ WriteRefused
  BY <1>8, InitializedVisible, RestartVisible, WriteRefusedVisible
<1>9. ASSUME NEW e \in Entries,
             Receive(e) \/ CreateDocument(e) \/ ChangeDoc(e) \/ ApplyPatch(e)
               \/ DeleteDoc(e) \/ UndeleteDoc(e) \/ ApplyKnownChange(e)
      PROVE  VisInv'
  <2>1. TypeOK
    BY DEF VisInv, CopiesInv
  <2> QED
    BY <1>9, <2>1, ReceiveVisible, WritesBegin, BeginWriteVisible, ApplyKnownVisible
<1>10. ASSUME NEW d \in Docs, ReadRefused(d) \/ KeyBagChanged(d) PROVE VisInv'
  BY <1>10, ReadRefusedVisible, KeyBagChangedVisible
<1>11. ASSUME NEW a \in Unknown, AuthorTrusted(a) PROVE VisInv'
  BY <1>11, NothingVisible DEF AuthorTrusted, jobs
<1>12. CASE UNCHANGED vars
  BY <1>12, NothingVisible DEF vars, jobs, outside
<1> QED
  BY <1>1, <1>2, <1>3, <1>4, <1>5, <1>6, <1>7, <1>8, <1>9, <1>10, <1>11, <1>12 DEF Next

LEMMA VisibleAlways == Spec => []VisInv
<1>1. Init => VisInv
  BY InitVisible
<1>2. CopiesInv /\ CopiesInv' /\ VisInv /\ [Next]_vars => VisInv'
  BY VisibleKept
<1> QED
  BY <1>1, <1>2, CopiesAlways, PTL DEF Spec

LEMMA VisibleIsKeyed == VisInv => VisibleIffKey
<1> SUFFICES ASSUME VisInv, Quiet, ~lost.keys, db.cursor = Len(store),
                    NEW d \in StoreDocs, d \notin lost.early
             PROVE  (db.index[d].state = "visible") = (d \in keys)
  BY DEF VisibleIffKey
<1>1. TypeOK /\ d \in Docs
  BY StoredIs DEF VisInv, CopiesInv, TypeOK
<1>2. Ahead = {}
  BY <1>1, NatFacts DEF Ahead
<1>3. Known(d)
  BY <1>1, <1>2, PassedUnlessAhead DEF Known
<1>4. VisPart(d) /\ ReconInv /\ d /= None
  BY <1>1, ConstantsAssumption DEF VisInv
<1>5. ~Awaited(d)
  BY <1>4 DEF Awaited, ToReconcile, Rekeying, Quiet, ReconInv
<1> QED
  BY <1>3, <1>4, <1>5 DEF VisPart, Vis

(* When nothing is in flight and every entry is processed, a document of   *)
(* the store is visible exactly when its key is in the key bag.            *)
THEOREM ReplayVisibleIffKey == Spec => []VisibleIffKey
BY VisibleAlways, VisibleIsKeyed, PTL

-----------------------------------------------------------------------------
(* What the consumer of the changefeed has seen                            *)

(* The consumer, and what is left of it after a restart.                   *)
Consumers == {"live", "saved"}
At(c) == IF c = "live" THEN feed.cursor ELSE saved.cursor
ReadBy(c, d) == IF c = "live" THEN feed.seen[d] ELSE saved.seen[d]

(* the documents of which the consumer may not be told something *)
FeedOut == Out \cup lost.early \cup lost.unread

(* It has read the last change of the document that the index counted.     *)
Caught(c, d) == Vis(d) /\ ~db.index[d].del /\ db.index[d].seq <= At(c)

ReadPart(c, d) == d \notin FeedOut /\ Caught(c, d) => Holds(ReadBy(c, d), Seen(d), d)

(* What is in memory only has been passed, or read.                        *)
ReadCover(c, d) == d \notin FeedOut /\ Caught(c, d) /\ db.cache[d] /= None =>
                     db.cache[d].has \subseteq ReadBy(c, d) \cup Seen(d)

(* A document that is being created has not been read.                     *)
NewPart(c, d) == op.pc \in {"write", "stored"} /\ op.doc = d /\ Kind[op.entry] = "create" =>
                   ~Caught(c, d)

FeedPart(c, d) == ~lost.feed => At(c) < db.next /\ ReadPart(c, d) /\ ReadCover(c, d) /\ NewPart(c, d)

(* The same of the checkpoint's index, which a restart will restore.       *)
MetaCaught(c, d) ==
  /\ l2.meta /= None /\ ~lost.feed /\ At(c) < l2.meta.next
  /\ d \notin FeedOut \cup MetaOut \cup lost.passed
  /\ l2.meta.index[d].state = "visible" /\ ~l2.meta.index[d].del
  /\ l2.meta.index[d].seq <= At(c)
MetaFeed(c, d) == MetaCaught(c, d) => MetaHolds(ReadBy(c, d), d)

(* A load that did not read ahead of the cursor holds what was passed.     *)
LoadCover(d) == op.pc = "load" /\ op.doc = d /\ d \notin lost.early =>
                  op.result.has \subseteq Seen(d)

(* Every copy is made of the entries of its document.                      *)
Own(d) == Stored \cap Of(d)
OwnPart(d) ==
  /\ db.cache[d] /= None => db.cache[d].has \subseteq Own(d)
  /\ l2.doc[d] /= None => l2.doc[d].has \subseteq Own(d)
  /\ sync.pc = "apply" /\ sync.doc = d => sync.result.has \subseteq Own(d)
  /\ op.pc \in {"load", "stored"} /\ op.doc = d => op.result.has \subseteq Own(d)
  /\ op.pc = "write" /\ op.doc = d => op.result.has \subseteq Own(d) \cup {op.entry}

(* A changeSeq is given to one document, also in the checkpoint; one that  *)
(* the checkpoint knows has the document as the checkpoint has it.         *)
Distinct(index) ==
  \A a, b \in Docs : index[a].seq = index[b].seq /\ index[a].seq > 0 => a = b
SeqInv ==
  /\ Distinct(db.index)
  /\ l2.meta /= None =>
       /\ Distinct(l2.meta.index)
       /\ \A d \in Docs : db.index[d].seq < l2.meta.next => db.index[d] = l2.meta.index[d]

FeedInv ==
  /\ CopiesInv /\ SeqInv /\ NoMissedWakeup
  /\ \A d \in Docs : OwnPart(d) /\ LoadCover(d)
  /\ \A d \in Docs : \A c \in Consumers : FeedPart(c, d) /\ MetaFeed(c, d)

(* At most one document gets a changeSeq in a step, the next one, and the  *)
(* consumer will be notified.                                              *)
IndexStep ==
  \/ db'.index = db.index
  \/ /\ db.next < db'.next /\ db'.notes
     /\ \E d \in Docs : /\ db'.index[d].seq = db.next
                        /\ \A x \in Docs : x /= d => db'.index[x] = db.index[x]

(* The consumer stays where it is; a notification is not taken back.       *)
FeedSame == /\ saved' = saved /\ feed'.cursor = feed.cursor /\ feed'.seen = feed.seen
            /\ lost'.feed = lost.feed
Woken == /\ feed.awake => feed'.awake
         /\ db.notes => db'.notes \/ feed'.awake

LEMMA SeqKept ==
  ASSUME CopiesInv, CopiesInv', SeqInv, IndexStep, l2'.meta = l2.meta
  PROVE  SeqInv'
<1>1. \A d \in Docs : db.index[d].seq \in Nat /\ db.index[d].seq < db.next
  BY NatFacts DEF CopiesInv, DocInv, SeqPart
<1>2. db.next \in Nat /\ (l2.meta /= None => l2.meta.next \in Nat /\ l2.meta.next <= db.next)
  BY NatFacts DEF CopiesInv, LogInv
<1>3. Distinct(db.index)'
  <2>1. CASE db'.index = db.index
    BY <2>1 DEF SeqInv, Distinct
  <2>2. CASE db'.index /= db.index
    <3>1. PICK d \in Docs : /\ db'.index[d].seq = db.next
                            /\ \A x \in Docs : x /= d => db'.index[x] = db.index[x]
      BY <2>2 DEF IndexStep
    <3>2. ASSUME NEW a \in Docs, NEW b \in Docs, db'.index[a].seq = db'.index[b].seq,
                 db'.index[a].seq > 0
          PROVE  a = b
      <4>1. CASE a = d \/ b = d
        BY <1>1, <1>2, <3>1, <3>2, <4>1
      <4>2. CASE a /= d /\ b /= d
        BY <3>1, <3>2, <4>2 DEF SeqInv, Distinct
      <4> QED
        BY <4>1, <4>2
    <3> QED
      BY <3>2 DEF Distinct
  <2> QED
    BY <2>1, <2>2
<1>4. ASSUME l2.meta /= None, NEW d \in Docs, db'.index[d].seq < l2.meta.next
      PROVE  db'.index[d] = l2.meta.index[d]
  <2>1. db'.index[d] = db.index[d] \/ db'.index[d].seq = db.next
    BY DEF IndexStep
  <2> QED
    BY <1>1, <1>2, <1>4, <2>1 DEF SeqInv
<1> QED
  BY <1>3, <1>4 DEF SeqInv, Distinct

LEMMA WakeupKept ==
  ASSUME NoMissedWakeup, IndexStep, FeedSame, Woken
  PROVE  NoMissedWakeup'
BY DEF NoMissedWakeup, Behind, IndexStep, FeedSame, Woken

(* A step that leaves the copies of a document alone makes none of other   *)
(* entries.                                                                *)
LEMMA OwnKept ==
  ASSUME CopiesInv, CopiesInv', NEW d \in Docs, OwnPart(d), Untouched(d), StoreGrows
  PROVE  OwnPart(d)'
<1>1. Own(d) \subseteq Own(d)'
  BY DEF Own, StoreGrows, Of
<1>2. db'.cache[d] /= None => db'.cache[d].has \subseteq Own(d)'
  BY <1>1 DEF OwnPart, Untouched
<1>3. l2'.doc[d] /= None => l2'.doc[d].has \subseteq Own(d)'
  BY <1>1 DEF OwnPart, Untouched, RecordOf
<1>4. sync'.pc = "apply" /\ sync'.doc = d => sync'.result.has \subseteq Own(d)'
  BY <1>1 DEF OwnPart, Untouched
<1>5. op'.pc \in {"load", "stored", "write"} /\ op'.doc = d =>
        /\ op.pc \in {"load", "stored", "write"} /\ op.doc = d /\ (op'.pc = "load" <=> op.pc = "load")
        /\ op'.result = op.result /\ op'.entry = op.entry
  BY DEF Untouched, CopiesInv, TypeOK, OpJob
<1>6. op'.pc = "stored" /\ op'.doc = d => op'.entry \in Own(d)'
  BY DEF CopiesInv, OpInv, Own, Of, TypeOK
<1>7. op.pc = "stored" /\ op.doc = d /\ op'.pc /= "idle" /\ op'.doc = d =>
         op.result.has \subseteq Own(d)
  BY DEF OwnPart
<1> HIDE DEF Own
<1> QED
  BY <1>1, <1>2, <1>3, <1>4, <1>5, <1>6, <1>7 DEF OwnPart

LEMMA LoadCoverKept ==
  ASSUME NEW d \in Docs, LoadCover(d), Untouched(d), Seen(d) \subseteq Seen(d)'
  PROVE  LoadCover(d)'
BY DEF LoadCover, Untouched, LostGrows

LEMMA FeedPartKept ==
  ASSUME CopiesInv, CopiesInv', NEW d \in Docs, NEW c \in Consumers, FeedPart(c, d), Calm(d),
         At(c)' = At(c), ReadBy(c, d)' = ReadBy(c, d), lost'.feed = lost.feed,
         At(c) \in Nat, db.next <= db'.next
  PROVE  FeedPart(c, d)'
<1> SUFFICES ASSUME ~lost'.feed PROVE FeedPart(c, d)'
  BY DEF FeedPart
<1>1. At(c) < db.next /\ ReadPart(c, d) /\ ReadCover(c, d) /\ NewPart(c, d)
  BY DEF FeedPart
<1>2. db.next \in Nat /\ db'.next \in Nat
  BY DEF CopiesInv, TypeOK, Database
<1>3. At(c)' < db'.next
  BY <1>1, <1>2
<1>4. Caught(c, d)' => Caught(c, d) /\ db'.index[d] = db.index[d]
  BY <1>1, <1>2 DEF Caught, Vis, Calm, Untouched
<1>5. Seen(d)' = Seen(d) /\ (\A e \in Entries : Noted(e, d) => Noted(e, d)') /\ LostGrows(d)
  BY DEF Calm, Untouched
<1>6. Seen(d) \subseteq Entries
  BY SeenIsStored DEF CopiesInv
<1>7. d \notin FeedOut' => d \notin FeedOut
  BY <1>5 DEF FeedOut, Out, LostGrows
<1> HIDE DEF Caught, Seen, Noted, FeedOut, At, ReadBy
<1>8. ReadPart(c, d)'
  BY <1>1, <1>4, <1>5, <1>6, <1>7 DEF ReadPart, Holds
<1>9. ReadCover(c, d)'
  BY <1>1, <1>4, <1>5, <1>7 DEF ReadCover, Calm, Untouched
<1>10. NewPart(c, d)'
  <2>1. op.pc \in {"idle", "load", "write", "stored"}
    BY DEF CopiesInv, TypeOK, OpJob
  <2> QED
    BY <1>1, <1>4, <2>1 DEF NewPart, Calm, Untouched
<1> QED
  BY <1>3, <1>8, <1>9, <1>10 DEF FeedPart

LEMMA MetaFeedKept ==
  ASSUME CopiesInv, CopiesInv', StoreGrows, l2'.meta = l2.meta, NEW d \in Docs,
         NEW c \in Consumers, MetaFeed(c, d), LostGrows(d), lost.feed => lost'.feed,
         At(c)' = At(c), ReadBy(c, d)' = ReadBy(c, d)
  PROVE  MetaFeed(c, d)'
<1>1. l2.meta /= None => \A e \in Upto(l2.meta.cursor, d)' : e \in Upto(l2.meta.cursor, d)
  BY MetaHoldsKept DEF CopiesInv
<1>2. d \notin (FeedOut \cup MetaOut \cup lost.passed)' => d \notin FeedOut \cup MetaOut \cup lost.passed
  BY DEF FeedOut, MetaOut, Out, LostGrows
<1>3. l2.meta /= None /\ MetaHolds(ReadBy(c, d), d) => MetaHolds(ReadBy(c, d), d)'
  BY <1>1 DEF MetaHolds
<1>4. MetaCaught(c, d)' => MetaCaught(c, d) /\ l2.meta /= None
  BY <1>2 DEF MetaCaught
<1>5. MetaCaught(c, d) => MetaHolds(ReadBy(c, d), d)
  BY DEF MetaFeed
<1>6. MetaCaught(c, d)' => MetaHolds(ReadBy(c, d), d)'
  BY <1>3, <1>4, <1>5
<1> QED
  BY <1>6 DEF MetaFeed

(* A step that leaves the consumer and all documents but those of D alone. *)
FeedFrame(D) == /\ CalmBut(D) /\ IndexStep /\ FeedSame
                /\ \A x \in Docs : LostGrows(x)

LEMMA FeedFrameKeeps ==
  ASSUME FeedInv, CopiesInv', NEW D, FeedFrame(D), Woken \/ NoMissedWakeup',
         \A d \in Docs \cap D : /\ OwnPart(d)' /\ LoadCover(d)'
                                /\ \A c \in Consumers : FeedPart(c, d)'
  PROVE  FeedInv'
<1>1. CopiesInv /\ SeqInv /\ NoMissedWakeup
  BY DEF FeedInv
<1>2. /\ StoreGrows /\ l2'.meta = l2.meta /\ db.next <= db'.next
      /\ \A d \in Docs \ D : Calm(d)
  BY DEF FeedFrame, CalmBut
<1>3. IndexStep /\ FeedSame /\ \A d \in Docs : LostGrows(d)
  BY DEF FeedFrame
<1>4. SeqInv' /\ NoMissedWakeup'
  BY <1>1, <1>2, <1>3, SeqKept, WakeupKept
<1>5. feed \in Consumer /\ saved \in Saved
  BY <1>1 DEF CopiesInv, TypeOK
<1>6. ASSUME NEW c \in Consumers, NEW d \in Docs
      PROVE  At(c)' = At(c) /\ ReadBy(c, d)' = ReadBy(c, d) /\ At(c) \in Nat
  BY <1>3, <1>5 DEF FeedSame, At, ReadBy, Consumer, Saved
<1>7. ASSUME NEW d \in Docs PROVE OwnPart(d)' /\ LoadCover(d)'
  <2>1. CASE d \notin D
    <3>1. Untouched(d) /\ Seen(d)' = Seen(d) /\ OwnPart(d) /\ LoadCover(d)
      BY <1>2, <2>1 DEF Calm, FeedInv
    <3> QED
      BY <1>1, <1>2, <3>1, OwnKept, LoadCoverKept
  <2> QED
    BY <2>1
<1>8. ASSUME NEW d \in Docs, NEW c \in Consumers PROVE FeedPart(c, d)' /\ MetaFeed(c, d)'
  <2>1. FeedPart(c, d) /\ MetaFeed(c, d)
    BY DEF FeedInv
  <2>2. lost'.feed = lost.feed
    BY <1>3 DEF FeedSame
  <2>3. MetaFeed(c, d)'
    BY <1>1, <1>2, <1>3, <1>6, <2>1, <2>2, MetaFeedKept
  <2>4. FeedPart(c, d)'
    BY <1>1, <1>2, <1>6, <2>1, <2>2, FeedPartKept
  <2> QED
    BY <2>3, <2>4
<1> QED
  BY <1>1, <1>4, <1>7, <1>8 DEF FeedInv

LEMMA FeedStill ==
  ASSUME FeedInv, CopiesInv', CalmBut({}), UNCHANGED <<feed, saved, lost>>, IndexStep,
         db.notes => db'.notes
  PROVE  FeedInv'
BY FeedFrameKeeps, LostSame DEF FeedFrame, FeedSame, Woken

LEMMA ReceiveFeed == ASSUME FeedInv, CopiesInv', NEW e \in Entries, Receive(e) PROVE FeedInv'
BY ReceiveCalm, FeedStill DEF FeedInv, CopiesInv, Receive, jobs, outside, IndexStep

(* A notification that is pending wakes the consumer.                      *)
LEMMA EmitFeed ==
  ASSUME FeedInv, CopiesInv', CalmBut({}), NEW s \in Database, Emit(s), s.index = db.index,
         s.notes = db.notes, UNCHANGED <<saved, lost>>
  PROVE  FeedInv'
<1>1. feed \in Consumer
  BY DEF FeedInv, CopiesInv, TypeOK
<1>2. IndexStep /\ FeedSame /\ Woken
  BY <1>1, EmitFacts DEF IndexStep, FeedSame, Woken
<1> QED
  BY <1>2, FeedFrameKeeps, LostSame DEF FeedFrame

LEMMA SyncStartFeed == ASSUME FeedInv, CopiesInv', SyncStart PROVE FeedInv'
BY SyncStartCalm, EmitFeed DEF FeedInv, CopiesInv, TypeOK, SyncStart

LEMMA SyncDoneFeed == ASSUME FeedInv, CopiesInv', SyncDone PROVE FeedInv'
<1> DEFINE s == [db EXCEPT !.cursor = sync.next, !.meta = TRUE]
<1>1. s \in Database /\ s.index = db.index /\ s.notes = db.notes
  BY DEF FeedInv, CopiesInv, TypeOK, Database, SyncJob
<1>2. Emit(s)
  BY DEF SyncDone
<1> HIDE DEF s
<1> QED
  BY <1>1, <1>2, SyncDoneCalm, EmitFeed DEF FeedInv, CopiesInv, SyncDone

LEMMA NotifyTimerFeed == ASSUME FeedInv, CopiesInv', NotifyTimer PROVE FeedInv'
BY NotifyTimerCalm, EmitFeed DEF FeedInv, CopiesInv, TypeOK, NotifyTimer

LEMMA ReadRefusedFeed ==
  ASSUME FeedInv, CopiesInv', NEW d \in Docs, ReadRefused(d) PROVE FeedInv'
<1>1. db'.index = db.index /\ db'.notes = db.notes
  BY PurgeFacts DEF FeedInv, CopiesInv, TypeOK, ReadRefused
<1> QED
  BY <1>1, ReadRefusedCalm, FeedStill DEF FeedInv, CopiesInv, ReadRefused, outside, IndexStep

LEMMA FlushRecordFeed ==
  ASSUME FeedInv, CopiesInv', NEW d \in Docs, FlushRecord(d) PROVE FeedInv'
BY FlushRecordCalm, FeedStill DEF FeedInv, CopiesInv, FlushRecord, outside, IndexStep

LEMMA ClearDirtyFeed == ASSUME FeedInv, CopiesInv', ClearDirty PROVE FeedInv'
<1>1. db'.index = db.index /\ db'.notes = db.notes
  BY DEF FeedInv, CopiesInv, TypeOK, Database, ClearDirty
<1> QED
  BY <1>1, ClearDirtyCalm, FeedStill DEF FeedInv, CopiesInv, ClearDirty, outside, IndexStep

LEMMA KeyBagChangedFeed ==
  ASSUME FeedInv, CopiesInv', NEW d \in Docs, KeyBagChanged(d) PROVE FeedInv'
<1>1. CopiesInv /\ CopiesInv' /\ lost \in History
  BY DEF FeedInv, CopiesInv, TypeOK
<1>2. /\ lost'.feed = lost.feed /\ db' = db /\ feed' = feed /\ saved' = saved
      /\ \A x \in Docs : LostGrows(x)
  BY <1>1 DEF KeyBagChanged, History, LostGrows
<1>3. IndexStep /\ FeedSame /\ Woken /\ CalmBut({})
  BY <1>1, <1>2, KeyBagChangedCalm DEF IndexStep, FeedSame, Woken, CopiesInv
<1> QED
  BY <1>2, <1>3, FeedFrameKeeps DEF FeedFrame

LEMMA ReconcileFeed ==
  ASSUME FeedInv, CopiesInv', NEW d \in Docs, ReconcileKeyVisibility(d) PROVE FeedInv'
<1>1. CopiesInv /\ TypeOK /\ TypeOK'
  BY DEF FeedInv, CopiesInv
<1>2. CalmBut({})
  BY <1>1, ReconcileCalm
<1>3. db.next \in Nat
  BY <1>1, NatFacts
<1>4. IndexStep /\ (db.notes => db'.notes)
  BY <1>1, <1>3, ReconcileFacts DEF IndexStep
<1> QED
  BY <1>2, <1>4, FeedStill DEF ReconcileKeyVisibility, outside

LEMMA HiddenIndex ==
  ASSUME TypeOK, NEW d \in Docs, HiddenNow(db', db, d)
  PROVE  IndexStep /\ (db.notes => db'.notes)
<1>1. db.next \in Nat
  BY DEF TypeOK, Database
<1> QED
  BY <1>1 DEF HiddenNow, IndexStep

LEMMA ReconcileHideFeed == ASSUME FeedInv, CopiesInv', ReconcileHide PROVE FeedInv'
<1>1. CopiesInv /\ TypeOK /\ TypeOK'
  BY DEF FeedInv, CopiesInv
<1>2. CalmBut({}) /\ IndexStep /\ (db.notes => db'.notes)
  BY <1>1, ReconcileHideCalm, ReconcileHideFacts, HiddenIndex
<1> QED
  BY <1>2, FeedStill DEF ReconcileHide, outside

LEMMA ReconcileEndFeed == ASSUME FeedInv, CopiesInv', ReconcileEnd PROVE FeedInv'
<1>1. CopiesInv /\ TypeOK /\ TypeOK'
  BY DEF FeedInv, CopiesInv
<1>2. CalmBut({}) /\ IndexStep /\ (db.notes => db'.notes)
  BY <1>1, ReconcileEndCalm, ReconcileEndFacts DEF IndexStep
<1> QED
  BY <1>2, FeedStill DEF ReconcileEnd, outside

LEMMA InitializedFeed == ASSUME FeedInv, CopiesInv', Initialized PROVE FeedInv'
<1>1. db'.index = db.index /\ db'.notes = db.notes
  BY InitializedFacts DEF FeedInv, CopiesInv
<1> QED
  BY <1>1, InitializedCalm, FeedStill DEF FeedInv, CopiesInv, Initialized, outside, IndexStep

(* What a sync does to a document before an await. *)
LEMMA ScanMetadataFeed ==
  ASSUME FeedInv, CopiesInv', NEW d \in Docs, ScanMetadata(d) PROVE FeedInv'
BY ScanMetadataCalm, FeedStill DEF FeedInv, CopiesInv, ScanMetadata, outside, IndexStep

LEMMA SyncPurgeFeed ==
  ASSUME FeedInv, CopiesInv', NEW d \in Docs, SyncPurge(d) PROVE FeedInv'
<1>1. db'.index = db.index /\ db'.notes = db.notes
  BY SyncPurgeEffect DEF FeedInv, CopiesInv
<1> QED
  BY <1>1, SyncPurgeCalm, FeedStill DEF FeedInv, CopiesInv, SyncPurge, outside, IndexStep

LEMMA HealStartFeed == ASSUME FeedInv, CopiesInv', HealStart PROVE FeedInv'
<1>1. db'.index = db.index /\ db'.notes = db.notes
  BY HealStartFacts DEF FeedInv, CopiesInv
<1> QED
  BY <1>1, HealStartCalm, FeedStill DEF FeedInv, CopiesInv, HealStart, outside, IndexStep

LEMMA WriteRefusedFeed == ASSUME FeedInv, CopiesInv', WriteRefused PROVE FeedInv'
BY WriteRefusedCalm, FeedStill DEF FeedInv, CopiesInv, WriteRefused, outside, IndexStep

LEMMA WritePutFeed == ASSUME FeedInv, CopiesInv', WritePut PROVE FeedInv'
BY WritePutCalm, FeedStill DEF FeedInv, CopiesInv, WritePut, outside, IndexStep

LEMMA NothingFeed ==
  ASSUME FeedInv, CopiesInv', UNCHANGED <<store, db, l2, sync, op, heal, lost, feed, saved>>,
         trusted \subseteq trusted'
  PROVE  FeedInv'
BY NothingCalm, FeedStill DEF FeedInv, CopiesInv, IndexStep

LEMMA ReconcileStartFeed == ASSUME FeedInv, CopiesInv', ReconcileStart PROVE FeedInv'
BY NothingFeed DEF ReconcileStart, outside

(* The consumer goes to sleep when nothing is behind its cursor.           *)
LEMMA FeedEndFeed == ASSUME FeedInv, CopiesInv', FeedEnd PROVE FeedInv'
<1>1. UNCHANGED <<store, db, l2, sync, op, heal, lost, saved, trusted>>
      /\ feed' = [feed EXCEPT !.awake = FALSE] /\ feed \in Consumer
  BY DEF FeedEnd, jobs, FeedInv, CopiesInv, TypeOK
<1>2. CalmBut({})
  BY <1>1, NothingCalm DEF FeedInv, CopiesInv
<1>3. FeedSame /\ IndexStep
  BY <1>1 DEF FeedSame, IndexStep, Consumer
<1>4. NoMissedWakeup'
  BY <1>1 DEF NoMissedWakeup, Behind, FeedEnd, Consumer
<1> QED
  BY <1>1, <1>2, <1>3, <1>4, LostSame, FeedFrameKeeps DEF FeedFrame

(* The parts of the invariant that do not speak of a consumer.             *)
LEMMA ReadingKeeps ==
  ASSUME FeedInv, CopiesInv', UNCHANGED <<store, db, l2, sync, op, heal, trusted>>, CalmBut({}),
         \A d \in Docs : \A c \in Consumers : FeedPart(c, d)' /\ MetaFeed(c, d)',
         NoMissedWakeup'
  PROVE  FeedInv'
<1>1. CopiesInv /\ SeqInv /\ IndexStep /\ StoreGrows /\ l2'.meta = l2.meta
  BY DEF FeedInv, IndexStep, CalmBut
<1>2. SeqInv'
  BY <1>1, SeqKept
<1>3. ASSUME NEW d \in Docs PROVE OwnPart(d)' /\ LoadCover(d)'
  <2>1. Untouched(d) /\ Seen(d)' = Seen(d) /\ OwnPart(d) /\ LoadCover(d)
    BY DEF CalmBut, Calm, FeedInv
  <2> QED
    BY <1>1, <2>1, OwnKept, LoadCoverKept
<1> QED
  BY <1>2, <1>3 DEF FeedInv

(* The consumer persists its cursor and what it has read.                  *)
LEMMA FeedSaveFeed == ASSUME FeedInv, CopiesInv', FeedSave PROVE FeedInv'
<1>1. UNCHANGED <<store, db, l2, sync, op, heal, lost, feed, trusted>>
      /\ saved' = [cursor |-> feed.cursor, seen |-> feed.seen]
  BY DEF FeedSave, jobs
<1>2. CalmBut({})
  BY <1>1, NothingCalm DEF FeedInv, CopiesInv
<1>3. NoMissedWakeup'
  BY <1>1 DEF NoMissedWakeup, Behind, FeedInv
<1>4. ASSUME NEW d \in Docs, NEW c \in Consumers PROVE FeedPart(c, d)' /\ MetaFeed(c, d)'
  <2>1. At(c)' = At("live") /\ ReadBy(c, d)' = ReadBy("live", d) /\ Seen(d)' = Seen(d)
    BY <1>1 DEF At, ReadBy, Seen, Upto
  <2>2. FeedPart("live", d) /\ MetaFeed("live", d)
    BY DEF FeedInv, Consumers
  <2>3. \A has : Holds(has, Seen(d), d) => Holds(has, Seen(d), d)'
    BY <1>1 DEF Holds, Noted, Seen, Upto
  <2>4. \A has : MetaHolds(has, d) => MetaHolds(has, d)'
    BY <1>1 DEF MetaHolds, Upto
  <2>5. FeedPart(c, d)'
    <3> HIDE DEF At, ReadBy, Seen
    <3> QED
      BY <1>1, <2>1, <2>2, <2>3 DEF FeedPart, ReadPart, ReadCover, NewPart, Caught, Vis, FeedOut, Out,
         Holds, Noted
  <2>6. MetaFeed(c, d)'
    <3> HIDE DEF At, ReadBy
    <3> QED
      BY <1>1, <2>1, <2>2, <2>4 DEF MetaFeed, MetaCaught, FeedOut, MetaOut, Out, MetaHolds, Upto
  <2> QED
    BY <2>5, <2>6
<1> QED
  BY <1>1, <1>2, <1>3, <1>4, ReadingKeeps

(* The consumer reads the document whose changeSeq is the next after its   *)
(* cursor.  What the checkpoint has at a position it passes is remembered. *)
LEMMA FeedReadEffect ==
  ASSUME FeedInv, CopiesInv', NEW d \in Docs, FeedRead(d)
  PROVE  /\ UNCHANGED <<store, deps, db, l2, sync, op, heal, trusted, saved>>
         /\ CalmBut({}) /\ \A x \in Docs : LostGrows(x)
         /\ lost'.feed = lost.feed /\ lost'.early = lost.early /\ lost'.unread = lost.unread
         /\ lost'.docs = lost.docs /\ lost'.stale = lost.stale
         /\ lost'.heal = lost.heal /\ lost'.skipped = lost.skipped
         /\ lost'.passed = lost.passed \cup (PassedOver(db.index[d].seq) \ {d})
         /\ feed'.awake
         /\ feed.cursor < db.index[d].seq /\ At("live")' = db.index[d].seq
         /\ \A x \in Docs : x /= d => ReadBy("live", x)' = ReadBy("live", x)
         /\ \A x \in Docs : x /= d /\ db.index[x].seq <= db.index[d].seq
                              => db.index[x].seq <= feed.cursor
         /\ Vis(d) /\ ~db.index[d].del =>
              db.cache[d] /= None /\ ReadBy("live", d)' = db.cache[d].has
<1>1. CopiesInv /\ TypeOK /\ TypeOK' /\ SeqInv
  BY DEF FeedInv, CopiesInv
<1>2. UNCHANGED <<store, deps, db, l2, sync, op, heal, trusted, saved>> /\ feed.awake
      /\ Behind(d) /\ \A x \in Docs : Behind(x) => db.index[d].seq <= db.index[x].seq
  BY DEF FeedRead, jobs
<1>3. /\ lost'.feed = lost.feed /\ lost'.early = lost.early /\ lost'.unread = lost.unread
      /\ lost'.docs = lost.docs /\ lost'.stale = lost.stale
      /\ lost'.heal = lost.heal /\ lost'.skipped = lost.skipped
      /\ lost'.passed = lost.passed \cup (PassedOver(db.index[d].seq) \ {d})
  BY <1>1 DEF TypeOK, History, FeedRead
<1>4. \A x \in Docs : LostGrows(x)
  BY <1>3 DEF LostGrows
<1>5. CalmBut({})
  BY <1>1, FeedReadCalm
<1>6. /\ feed'.awake = feed.awake /\ feed'.cursor = db.index[d].seq
      /\ \A x \in Docs : x /= d => feed'.seen[x] = feed.seen[x]
      /\ db.index[d].state = "visible" /\ ~db.index[d].del =>
           db.cache[d] /= None /\ feed'.seen[d] = db.cache[d].has
  BY <1>1, FeedReadFacts
<1>7. feed.cursor \in Nat /\ \A x \in Docs : db.index[x].seq \in Nat
  BY <1>1, NatFacts DEF TypeOK, Consumer
<1>8. feed.cursor < db.index[d].seq
  BY <1>2, <1>7 DEF Behind
<1>9. ASSUME NEW x \in Docs, x /= d, db.index[x].seq <= db.index[d].seq
      PROVE  db.index[x].seq <= feed.cursor
  <2>1. SUFFICES ASSUME Behind(x) PROVE FALSE
    BY <1>7 DEF Behind
  <2>2. db.index[x].seq = db.index[d].seq /\ db.index[x].seq > 0
    BY <1>2, <1>7, <1>8, <1>9, <2>1
  <2> QED
    BY <1>1, <1>9, <2>2 DEF SeqInv, Distinct
<1> QED
  BY <1>2, <1>3, <1>4, <1>5, <1>6, <1>8, <1>9 DEF At, ReadBy, Vis

LEMMA FeedReadLive ==
  ASSUME FeedInv, CopiesInv', NEW d \in Docs, FeedRead(d), NEW x \in Docs
  PROVE  FeedPart("live", x)'
<1>1. CopiesInv /\ TypeOK /\ DocInv(x) /\ FeedPart("live", x)
  BY DEF FeedInv, CopiesInv, Consumers
<1>2. SUFFICES ASSUME ~lost'.feed PROVE FeedPart("live", x)'
  BY DEF FeedPart
<1>3. /\ UNCHANGED <<store, db, sync, op, heal, trusted>>
      /\ lost'.feed = lost.feed /\ lost'.early = lost.early /\ lost'.unread = lost.unread
      /\ lost'.docs = lost.docs /\ lost'.stale = lost.stale
      /\ At("live")' = db.index[d].seq
      /\ x /= d => ReadBy("live", x)' = ReadBy("live", x)
      /\ x /= d /\ db.index[x].seq <= db.index[d].seq => db.index[x].seq <= feed.cursor
      /\ Vis(d) /\ ~db.index[d].del =>
           db.cache[d] /= None /\ ReadBy("live", d)' = db.cache[d].has
  BY FeedReadEffect
<1>4. At("live")' < db'.next
  BY <1>1, <1>3 DEF CopiesInv, DocInv, SeqPart
<1>5. Seen(x)' = Seen(x) /\ \A has : Holds(has, Seen(x), x) => Holds(has, Seen(x), x)'
  BY <1>3 DEF Seen, Upto, Holds, Noted
<1>6. FeedOut' = FeedOut
  BY <1>3 DEF FeedOut, Out
<1>7. CASE x /= d
  <2>1. Caught("live", x)' => Caught("live", x)
    BY <1>3, <1>7 DEF Caught, Vis, At
  <2>2. ReadPart("live", x) /\ ReadCover("live", x) /\ NewPart("live", x)
    BY <1>1, <1>2, <1>3 DEF FeedPart
  <2> HIDE DEF At, ReadBy, Seen, Caught, FeedOut
  <2>3. ReadPart("live", x)'
    BY <1>3, <1>5, <1>6, <1>7, <2>1, <2>2 DEF ReadPart, Holds, Noted
  <2>4. ReadCover("live", x)'
    BY <1>3, <1>5, <1>6, <1>7, <2>1, <2>2 DEF ReadCover
  <2>5. NewPart("live", x)'
    BY <1>3, <2>1, <2>2 DEF NewPart
  <2> QED
    BY <1>4, <2>3, <2>4, <2>5 DEF FeedPart
<1>8. CASE x = d
  <2>1. Caught("live", x)' => db.cache[x] /= None /\ ReadBy("live", x)' = db.cache[x].has
    BY <1>3, <1>8 DEF Caught, Vis
  <2>2. x \notin FeedOut /\ db.cache[x] /= None => Holds(db.cache[x].has, Seen(x), x)
    BY <1>1 DEF DocInv, CachePart, FeedOut
  <2> HIDE DEF At, ReadBy, Seen, Caught, FeedOut
  <2>3. ReadPart("live", x)'
    BY <1>3, <1>5, <1>6, <2>1, <2>2 DEF ReadPart, Holds, Noted
  <2>4. ReadCover("live", x)'
    BY <1>3, <2>1 DEF ReadCover
  <2>5. NewPart("live", x)'
    BY <1>1, <1>3, <2>1 DEF NewPart, DocInv, HomePart
  <2> QED
    BY <1>4, <2>3, <2>4, <2>5 DEF FeedPart
<1> QED
  BY <1>7, <1>8

LEMMA FeedReadMeta ==
  ASSUME FeedInv, CopiesInv', NEW d \in Docs, FeedRead(d), NEW x \in Docs
  PROVE  MetaFeed("live", x)'
<1>1. CopiesInv /\ TypeOK /\ MetaInv(x) /\ MetaFeed("live", x) /\ SeqInv
  BY DEF FeedInv, CopiesInv, Consumers
<1>2. SUFFICES ASSUME MetaCaught("live", x)' PROVE MetaHolds(ReadBy("live", x), x)'
  BY DEF MetaFeed
<1>3. /\ UNCHANGED <<store, db, l2, sync, op, heal, trusted>>
      /\ lost'.feed = lost.feed /\ lost'.early = lost.early /\ lost'.unread = lost.unread
      /\ lost'.docs = lost.docs /\ lost'.stale = lost.stale
      /\ lost'.heal = lost.heal /\ lost'.skipped = lost.skipped
      /\ lost'.passed = lost.passed \cup (PassedOver(db.index[d].seq) \ {d})
      /\ feed.cursor < db.index[d].seq
      /\ At("live")' = db.index[d].seq
      /\ x /= d => ReadBy("live", x)' = ReadBy("live", x)
      /\ Vis(d) /\ ~db.index[d].del =>
           db.cache[d] /= None /\ ReadBy("live", d)' = db.cache[d].has
  BY FeedReadEffect
<1>4. /\ l2.meta /= None /\ ~lost.feed /\ db.index[d].seq < l2.meta.next
      /\ x \notin FeedOut \cup MetaOut \cup lost'.passed
      /\ l2.meta.index[x].state = "visible" /\ ~l2.meta.index[x].del
      /\ l2.meta.index[x].seq <= db.index[d].seq
  <2> HIDE DEF At
  <2> QED
    BY <1>2, <1>3 DEF MetaCaught, FeedOut, MetaOut, Out
<1>5. feed.cursor \in Nat /\ db.index[d].seq \in Nat /\ l2.meta.index[x].seq \in Nat
      /\ l2.meta.next \in Nat
  BY <1>1, <1>4, NatFacts DEF TypeOK, Consumer
<1>6. CASE x /= d
  <2>1. x \notin PassedOver(db.index[d].seq) /\ x \notin lost.passed
    BY <1>3, <1>4, <1>6
  <2>2. l2.meta.index[x].seq <= feed.cursor
    BY <1>4, <1>5, <2>1 DEF PassedOver
  <2>3. MetaCaught("live", x)
    BY <1>3, <1>4, <1>5, <2>1, <2>2 DEF MetaCaught, At
  <2>4. MetaHolds(ReadBy("live", x), x)
    BY <1>1, <2>3 DEF MetaFeed
  <2> HIDE DEF ReadBy
  <2> QED
    BY <1>3, <1>6, <2>4 DEF MetaHolds, Upto
<1>7. CASE x = d
  <2>1. db.index[d] = l2.meta.index[d]
    BY <1>1, <1>4 DEF SeqInv
  <2>2. db.cache[d] /= None /\ ReadBy("live", d)' = db.cache[d].has
    BY <1>3, <1>4, <1>7, <2>1 DEF Vis
  <2>3. MetaHolds(db.cache[d].has, d)
    BY <1>1, <1>4, <1>7, <2>2 DEF MetaInv, MetaCopies
  <2> HIDE DEF ReadBy
  <2> QED
    BY <1>3, <1>7, <2>2, <2>3 DEF MetaHolds, Upto
<1> QED
  BY <1>6, <1>7

LEMMA FeedReadFeed == ASSUME FeedInv, CopiesInv', NEW d \in Docs, FeedRead(d) PROVE FeedInv'
<1>1. /\ UNCHANGED <<store, db, l2, sync, op, heal, trusted, saved>>
      /\ CalmBut({}) /\ \A x \in Docs : LostGrows(x)
      /\ lost'.feed = lost.feed /\ feed'.awake
  BY FeedReadEffect
<1>2. ASSUME NEW x \in Docs PROVE FeedPart("saved", x)' /\ MetaFeed("saved", x)'
  <2>1. At("saved")' = At("saved") /\ ReadBy("saved", x)' = ReadBy("saved", x)
        /\ At("saved") \in Nat
    BY <1>1 DEF At, ReadBy, FeedInv, CopiesInv, TypeOK, Saved
  <2>2. /\ FeedPart("saved", x) /\ MetaFeed("saved", x) /\ CopiesInv /\ "saved" \in Consumers
        /\ Calm(x) /\ StoreGrows /\ LostGrows(x) /\ db.next <= db'.next /\ l2'.meta = l2.meta
    BY <1>1 DEF FeedInv, Consumers, CalmBut
  <2>3. FeedPart("saved", x)'
    BY <1>1, <2>1, <2>2, FeedPartKept
  <2>4. MetaFeed("saved", x)'
    BY <1>1, <2>1, <2>2, MetaFeedKept
  <2> QED
    BY <2>3, <2>4
<1>3. ASSUME NEW x \in Docs, NEW c \in Consumers PROVE FeedPart(c, x)' /\ MetaFeed(c, x)'
  <2>1. CASE c = "live"
    BY <2>1, FeedReadLive, FeedReadMeta
  <2>2. CASE c = "saved"
    BY <2>2, <1>2
  <2> QED
    BY <2>1, <2>2 DEF Consumers
<1>4. NoMissedWakeup'
  BY <1>1 DEF NoMissedWakeup
<1> QED
  BY <1>1, <1>3, <1>4, ReadingKeeps

-----------------------------------------------------------------------------
(* Steps on one document                                                   *)

LEMMA ReaderSame ==
  ASSUME TypeOK, FeedSame, NEW c \in Consumers, NEW d \in Docs
  PROVE  At(c)' = At(c) /\ ReadBy(c, d)' = ReadBy(c, d) /\ At(c) \in Nat
BY DEF TypeOK, FeedSame, At, ReadBy, Consumer, Saved

(* A change the index counts has not been read, and what is hidden or      *)
(* deleted need not be.                                                    *)
LEMMA UnreadPart ==
  ASSUME FeedInv, TypeOK', FeedSame, NEW d \in Docs, NEW c \in Consumers,
         db.next <= db'.next, db'.index[d].seq = db.next \/ ~Vis(d)'
  PROVE  FeedPart(c, d)'
<1> SUFFICES ASSUME ~lost'.feed PROVE FeedPart(c, d)'
  BY DEF FeedPart
<1>1. TypeOK /\ FeedPart(c, d) /\ lost'.feed = lost.feed
  BY DEF FeedInv, CopiesInv, FeedSame
<1>2. At(c)' = At(c) /\ At(c) \in Nat /\ At(c) < db.next
  BY <1>1, ReaderSame DEF FeedPart
<1>3. db.next \in Nat /\ db'.next \in Nat
  BY <1>1 DEF TypeOK, Database
<1> HIDE DEF At
<1>4. ~Caught(c, d)' /\ At(c)' < db'.next
  BY <1>2, <1>3 DEF Caught
<1> QED
  BY <1>4 DEF FeedPart, ReadPart, ReadCover, NewPart

(* With the index and the cursors as they were, what has been read covers  *)
(* what is passed now if it covers what is new.                            *)
LEMMA ReadOnPart ==
  ASSUME FeedInv, CopiesInv', FeedSame, NEW d \in Docs, NEW c \in Consumers,
         db.next <= db'.next, db'.index[d] = db.index[d], LostGrows(d),
         Seen(d) \subseteq Seen(d)', \A e \in Entries : Noted(e, d) => Noted(e, d)',
         \A has : Caught(c, d) /\ ~lost.feed /\ d \notin FeedOut
                    /\ db.cache[d].has \subseteq has \cup Seen(d)
                    /\ Holds(has, Seen(d), d)
                  => Holds(has, Seen(d), d)',
         db.cache[d] /= None,
         db'.cache[d] = db.cache[d],
         op'.pc = op.pc, op'.doc = op.doc, op'.entry = op.entry
  PROVE  FeedPart(c, d)'
<1> SUFFICES ASSUME ~lost'.feed PROVE FeedPart(c, d)'
  BY DEF FeedPart
<1>1. TypeOK /\ FeedPart(c, d) /\ ~lost.feed
  BY DEF FeedInv, CopiesInv, FeedSame
<1>2. At(c)' = At(c) /\ ReadBy(c, d)' = ReadBy(c, d) /\ At(c) \in Nat
  BY <1>1, ReaderSame
<1>3. At(c) < db.next /\ ReadPart(c, d) /\ ReadCover(c, d) /\ NewPart(c, d)
  BY <1>1 DEF FeedPart
<1>4. db.next \in Nat /\ db'.next \in Nat
  BY <1>1 DEF CopiesInv, TypeOK, Database
<1>5. d \notin FeedOut' => d \notin FeedOut
  BY DEF FeedOut, Out, LostGrows
<1> HIDE DEF At, ReadBy, FeedOut, Seen
<1>6. Caught(c, d)' = Caught(c, d)
  BY <1>2 DEF Caught, Vis
<1>7. ReadPart(c, d)'
  <2> HIDE DEF Caught, Noted
  <2>1. SUFFICES ASSUME d \notin FeedOut', Caught(c, d)'
                 PROVE  Holds(ReadBy(c, d), Seen(d), d)'
    BY DEF ReadPart
  <2>2. Holds(ReadBy(c, d), Seen(d), d) /\ db.cache[d].has \subseteq ReadBy(c, d) \cup Seen(d)
    BY <1>3, <1>5, <1>6, <2>1 DEF ReadPart, ReadCover
  <2>3. \A has : has = ReadBy(c, d) => Holds(has, Seen(d), d)'
    BY <1>1, <1>5, <1>6, <2>1, <2>2
  <2> QED
    BY <1>2, <2>3 DEF Holds
<1>8. ReadCover(c, d)'
  BY <1>2, <1>3, <1>5, <1>6 DEF ReadCover
<1>9. NewPart(c, d)'
  BY <1>3, <1>6 DEF NewPart
<1> QED
  BY <1>2, <1>3, <1>4, <1>7, <1>8, <1>9 DEF FeedPart

LEMMA ApplyNewEntriesFeed ==
  ASSUME FeedInv, CopiesInv', NEW d \in Docs, ApplyNewEntries(d) PROVE FeedInv'
<1>1. CopiesInv /\ TypeOK /\ TypeOK' /\ LogInv /\ OwnPart(d) /\ LoadCover(d)
  BY DEF FeedInv, CopiesInv
<1> DEFINE new == sync.batch \cap Of(d)
<1>2. /\ CalmBut({d}) /\ LostGrows(d) /\ sync.pc = "docs"
      /\ db.cache[d] /= None /\ db'.cache = db.cache /\ db'.index = db.index
      /\ l2' = l2 /\ db'.next = db.next
      /\ \A e \in Entries : Noted(e, d) => Noted(e, d)'
      /\ \A e \in new : e \in db.cache[d].has \cup Trusted(new) \/ Noted(e, d)'
      /\ op'.pc = op.pc /\ op'.doc = op.doc /\ op'.result = op.result /\ op'.entry = op.entry
      /\ \/ /\ sync' = Processed(d) /\ Trusted(new) \subseteq db.cache[d].has
            /\ Seen(d)' = Seen(d) \cup new
         \/ /\ sync'.pc = "apply" /\ sync'.doc = d
            /\ sync'.result.has = db.cache[d].has \cup Trusted(new)
            /\ Seen(d)' = Seen(d)
  BY <1>1, ApplyNewEntriesEffect
<1>3. UNCHANGED <<feed, saved>> /\ lost'.feed = lost.feed /\ store' = store
  BY <1>1 DEF ApplyNewEntries, outside, TypeOK, History
<1>4. db'.notes = db.notes
  <2>1. UnknownAuthors(new, d) \in SUBSET (Authors \X Docs)
    BY <1>1, UnknownAre DEF TypeOK, SyncJob
  <2> QED
    BY <1>1, <2>1, RecordPendingFacts DEF ApplyNewEntries, TypeOK
<1>5. FeedSame /\ Woken /\ IndexStep
  BY <1>2, <1>3, <1>4 DEF FeedSame, Woken, IndexStep
<1>6. \A x \in Docs : LostGrows(x)
  BY <1>2 DEF CalmBut, Calm, Untouched
<1>7. new \subseteq Own(d) /\ Own(d)' = Own(d) /\ Trusted(new) \subseteq new
  BY <1>1, <1>2, <1>3, SeenIsStored, TrustedIs DEF Own, Stored, Of
<1>8. Seen(d) \subseteq Seen(d)' /\ Seen(d) \subseteq Entries /\ new \subseteq Entries
  BY <1>1, <1>2, SeenIsStored, OfIs
<1> HIDE DEF new, Own, Seen
<1>9. OwnPart(d)'
  <2>1. Processed(d).pc = "docs"
    BY <1>1, ProcessedFacts DEF TypeOK
  <2>2. sync'.pc = "apply" /\ sync'.doc = d => sync'.result.has \subseteq Own(d)'
    BY <1>1, <1>2, <1>7, <2>1 DEF OwnPart
  <2> QED
    BY <1>1, <1>2, <1>7, <2>2 DEF OwnPart
<1>10. LoadCover(d)'
  BY <1>1, <1>2, <1>8 DEF LoadCover, LostGrows
<1>11. ASSUME NEW c \in Consumers PROVE FeedPart(c, d)'
  <2>1. ASSUME NEW has, db.cache[d].has \subseteq has \cup Seen(d), Holds(has, Seen(d), d)
        PROVE  Holds(has, Seen(d), d)'
    <3>1. SUFFICES ASSUME NEW e \in Seen(d)' PROVE e \in has \/ Noted(e, d)'
      BY DEF Holds
    <3>2. CASE e \in Seen(d)
      BY <1>2, <1>8, <2>1, <3>2 DEF Holds
    <3>3. CASE e \notin Seen(d)
      <4>1. e \in new /\ Trusted(new) \subseteq db.cache[d].has
        BY <1>2, <3>1, <3>3
      <4> QED
        BY <1>2, <2>1, <3>3, <4>1
    <3> QED
      BY <3>2, <3>3
  <2>2. db.next <= db'.next
    BY <1>2 DEF CalmBut
  <2> QED
    BY <1>2, <1>5, <1>8, <2>1, <2>2, ReadOnPart
<1> QED
  BY <1>2, <1>5, <1>6, <1>9, <1>10, <1>11, FeedFrameKeeps DEF FeedFrame

LEMMA ApplyFinishFeed == ASSUME FeedInv, CopiesInv', ApplyFinish PROVE FeedInv'
<1>1. CopiesInv /\ TypeOK /\ TypeOK'
  BY DEF FeedInv, CopiesInv
<1>2. PICK d : d = sync.doc
  OBVIOUS
<1>3. d \in Docs
  BY <1>1, <1>2 DEF TypeOK, ApplyFinish
<1>4. /\ CalmBut({d}) /\ LostGrows(d)
      /\ sync.pc = "apply" /\ sync.result \in Content /\ sync' = Processed(d)
      /\ Seen(d)' = Seen(d) \cup (sync.batch \cap Of(d))
      /\ db'.cache[d] = sync.result /\ l2'.doc[d] = l2.doc[d]
      /\ db'.index[d].seq = db.next
      /\ \A x \in Docs : x /= d => db'.index[x] = db.index[x]
      /\ db'.next = db.next + 1 /\ db'.notes
      /\ op'.pc = op.pc /\ op'.doc = op.doc /\ op'.result = op.result /\ op'.entry = op.entry
  BY <1>1, <1>2, <1>3, ApplyFinishEffect
<1>5. UNCHANGED <<feed, saved>> /\ lost'.feed = lost.feed /\ store' = store
  BY <1>1 DEF ApplyFinish, outside, TypeOK, History
<1>6. db.next \in Nat
  BY <1>1, NatFacts
<1>7. FeedSame /\ Woken /\ IndexStep
  BY <1>3, <1>4, <1>5, <1>6 DEF FeedSame, Woken, IndexStep
<1>8. \A x \in Docs : LostGrows(x)
  BY <1>4 DEF CalmBut, Calm, Untouched
<1>9. OwnPart(d)'
  <2>1. Own(d)' = Own(d) /\ OwnPart(d) /\ Processed(d).pc = "docs"
    BY <1>1, <1>3, <1>5, ProcessedFacts DEF Own, Stored, Of, FeedInv, TypeOK
  <2> HIDE DEF Own
  <2> QED
    BY <1>2, <1>4, <2>1 DEF OwnPart
<1>10. LoadCover(d)'
  <2>1. LoadCover(d) /\ Seen(d) \subseteq Seen(d)'
    BY <1>3, <1>4 DEF FeedInv
  <2> QED
    BY <1>4, <2>1 DEF LoadCover, LostGrows
<1>11. ASSUME NEW c \in Consumers PROVE FeedPart(c, d)'
  BY <1>1, <1>3, <1>4, <1>6, <1>7, UnreadPart
<1> QED
  BY <1>4, <1>7, <1>8, <1>9, <1>10, <1>11, FeedFrameKeeps DEF FeedFrame

(* Steps after which the copies of the document are at most what they were. *)
LEMMA UntouchedFeed ==
  ASSUME FeedInv, CopiesInv', NEW d \in Docs, CalmBut({d}), Untouched(d),
         Seen(d) \subseteq Seen(d)', UNCHANGED <<feed, saved>>, lost'.feed = lost.feed,
         IndexStep, db.notes => db'.notes,
         \A c \in Consumers : FeedPart(c, d)'
  PROVE  FeedInv'
<1>1. CopiesInv /\ OwnPart(d) /\ LoadCover(d)
  BY DEF FeedInv
<1>2. FeedSame /\ Woken
  BY DEF FeedSame, Woken
<1>3. \A x \in Docs : LostGrows(x)
  BY DEF CalmBut, Calm, Untouched
<1>4. OwnPart(d)' /\ LoadCover(d)'
  BY <1>1, OwnKept, LoadCoverKept DEF CalmBut
<1> QED
  BY <1>2, <1>3, <1>4, FeedFrameKeeps DEF FeedFrame

LEMMA IndexFromMetadataFeed ==
  ASSUME FeedInv, CopiesInv', NEW d \in Docs, IndexFromMetadata(d) PROVE FeedInv'
<1>1. CopiesInv /\ TypeOK /\ TypeOK' /\ db.next \in Nat
  BY NatFacts DEF FeedInv, CopiesInv
<1>2. /\ CalmBut({d}) /\ Untouched(d)
      /\ db'.index[d].seq = db.next
      /\ \A x \in Docs : x /= d => db'.index[x] = db.index[x]
      /\ db'.next = db.next + 1 /\ db'.notes
      /\ Seen(d)' = Seen(d) \cup (sync.batch \cap Of(d))
  BY <1>1, IndexFromMetadataEffect
<1>3. UNCHANGED <<feed, saved, lost>>
  BY DEF IndexFromMetadata, outside
<1>4. IndexStep /\ FeedSame
  BY <1>1, <1>2, <1>3 DEF IndexStep, FeedSame
<1>5. ASSUME NEW c \in Consumers PROVE FeedPart(c, d)'
  BY <1>1, <1>2, <1>4, UnreadPart
<1> QED
  BY <1>2, <1>3, <1>4, <1>5, UntouchedFeed

LEMMA SyncWithoutKeyFeed ==
  ASSUME FeedInv, CopiesInv', NEW d \in Docs, SyncWithoutKey(d) PROVE FeedInv'
<1>1. CopiesInv /\ TypeOK /\ TypeOK' /\ db.next \in Nat
  BY NatFacts DEF FeedInv, CopiesInv
<1>2. /\ CalmBut({d}) /\ Untouched(d) /\ ~Vis(d)'
      /\ db'.index = db.index /\ db'.next = db.next /\ db'.notes = db.notes
      /\ Seen(d)' = Seen(d) \cup (sync.batch \cap Of(d))
  BY <1>1, SyncWithoutKeyEffect DEF Vis
<1>3. UNCHANGED <<feed, saved, lost>>
  BY DEF SyncWithoutKey, outside
<1>4. IndexStep /\ FeedSame /\ (db.notes => db'.notes) /\ db.next <= db'.next
  BY <1>1, <1>2, <1>3 DEF IndexStep, FeedSame
<1>5. ASSUME NEW c \in Consumers PROVE FeedPart(c, d)'
  BY <1>1, <1>2, <1>4, UnreadPart
<1> QED
  BY <1>2, <1>3, <1>4, <1>5, UntouchedFeed

(* The end of a visit: the document is counted up or hidden. *)
LEMMA VisitFeed ==
  ASSUME FeedInv, CopiesInv', NEW d \in Docs, Visits(d) PROVE FeedInv'
<1>1. CopiesInv /\ TypeOK /\ TypeOK' /\ db.next \in Nat
  BY NatFacts DEF FeedInv, CopiesInv
<1>2. /\ CalmBut({d}) /\ Untouched(d)
      /\ Seen(d)' = Seen(d) \cup (sync.batch \cap Of(d))
  BY <1>1, VisitEffect
<1>3. /\ \A x \in Docs : x /= d => db'.index[x] = db.index[x]
      /\ \/ db'.index = db.index /\ db'.next = db.next /\ db'.notes = db.notes
         \/ db'.index[d].seq = db.next /\ db'.next = db.next + 1 /\ db'.notes
      /\ IndexScanned => db'.index[d].seq = db.next
      /\ SyncHide => ~Vis(d)'
  BY <1>1, VisitDatabase DEF Vis
<1>4. UNCHANGED <<feed, saved>> /\ lost'.feed = lost.feed
  BY <1>1, VisitHistory DEF Visits, IndexScanned, SyncHide, outside
<1>5. IndexStep /\ FeedSame /\ (db.notes => db'.notes) /\ db.next <= db'.next
  BY <1>1, <1>3, <1>4 DEF IndexStep, FeedSame
<1>6. db'.index[d].seq = db.next \/ ~Vis(d)'
  BY <1>3 DEF Visits
<1>7. ASSUME NEW c \in Consumers PROVE FeedPart(c, d)'
  BY <1>1, <1>5, <1>6, UnreadPart
<1>8. Seen(d) \subseteq Seen(d)'
  BY <1>2
<1> QED
  BY <1>2, <1>4, <1>5, <1>7, <1>8, UntouchedFeed

(* A document that is re-materialized is counted up, or its key is away    *)
(* and the consumer may miss the author.                                   *)
LEMMA HealDocumentFeed ==
  ASSUME FeedInv, CopiesInv', NEW d \in Docs, HealDocument(d) PROVE FeedInv'
<1>1. CopiesInv /\ TypeOK /\ TypeOK' /\ db.next \in Nat
  BY NatFacts DEF FeedInv, CopiesInv
<1>2. /\ CalmBut({d}) /\ Untouched(d)
      /\ Seen(d)' = Seen(d)
      /\ db'.cache[d] = None
      /\ \A x \in Docs : x /= d => db'.index[x] = db.index[x]
      /\ \/ d \notin keys /\ db'.index = db.index /\ db'.next = db.next /\ db'.notes = db.notes
         \/ db'.index[d].seq = db.next /\ db'.next = db.next + 1 /\ db'.notes
  BY <1>1, HealDocumentEffect
<1>3. UNCHANGED <<feed, saved>> /\ lost'.feed = lost.feed
      /\ (d \notin keys => d \in lost'.unread)
  BY <1>1 DEF HealDocument, outside, TypeOK, History
<1>4. IndexStep /\ FeedSame /\ (db.notes => db'.notes) /\ db.next <= db'.next
  BY <1>1, <1>2, <1>3 DEF IndexStep, FeedSame
<1>5. ASSUME NEW c \in Consumers PROVE FeedPart(c, d)'
  <2>1. CASE db'.index[d].seq = db.next
    BY <1>1, <1>4, <2>1, UnreadPart
  <2>2. CASE db'.index[d].seq /= db.next
    <3>1. d \in FeedOut' /\ db'.index = db.index /\ db'.next = db.next
      BY <1>2, <1>3, <2>2 DEF FeedOut
    <3>2. At(c)' = At(c) /\ FeedPart(c, d) /\ lost'.feed = lost.feed
      BY <1>1, <1>3, <1>4, ReaderSame DEF FeedInv
    <3> HIDE DEF At, FeedOut
    <3>3. Caught(c, d)' = Caught(c, d)
      BY <3>1, <3>2 DEF Caught, Vis
    <3>4. op.pc \in {"idle", "load", "write", "stored"}
      BY <1>1 DEF TypeOK, OpJob
    <3>5. NewPart(c, d) => NewPart(c, d)'
      BY <1>2, <3>3, <3>4 DEF NewPart, Untouched
    <3>6. ~lost'.feed => At(c)' < db'.next /\ NewPart(c, d)'
      BY <3>1, <3>2, <3>5 DEF FeedPart
    <3> QED
      BY <3>1, <3>6 DEF FeedPart, ReadPart, ReadCover
  <2> QED
    BY <2>1, <2>2
<1>6. Seen(d) \subseteq Seen(d)'
  BY <1>2
<1> QED
  BY <1>2, <1>3, <1>4, <1>5, <1>6, UntouchedFeed

(* A load starts from entries of its document; when none of them is ahead  *)
(* of the cursor, all of them were passed.                                 *)
LEMMA LoadStartFeed ==
  ASSUME FeedInv, CopiesInv', NEW d \in Docs, LoadStart(d) PROVE FeedInv'
<1>1. CopiesInv /\ TypeOK /\ TypeOK' /\ OwnPart(d)
  BY DEF FeedInv, CopiesInv
<1>2. /\ CalmBut({d}) /\ LostGrows(d) /\ Seen(d)' = Seen(d)
      /\ db'.cache = db.cache /\ db.cache[d] = None /\ db'.index = db.index
      /\ db'.next = db.next /\ db'.notes = db.notes
      /\ d \in StoreDocs /\ sync' = sync /\ l2'.doc[d] \in {l2.doc[d], None}
      /\ \A e \in Entries : Noted(e, d) => Noted(e, d)'
      /\ op'.pc = "load" /\ op'.doc = d /\ op'.result \in Content
      /\ \/ l2.doc[d] /= None /\ op'.result.has = l2.doc[d].has
         \/ op'.result.has \subseteq Stored \cap Of(d)
         \/ l2.doc[d] /= None /\ op'.result.has \subseteq l2.doc[d].has \cup (Stored \cap Of(d))
      /\ d \notin lost'.early => Ahead \cap Of(d) = {}
  BY <1>1, LoadStartEffect
<1>3. UNCHANGED <<store, feed, saved>> /\ lost'.feed = lost.feed
  BY <1>1 DEF LoadStart, outside, TypeOK, History
<1>4. FeedSame /\ Woken /\ IndexStep /\ \A x \in Docs : LostGrows(x)
  BY <1>2, <1>3 DEF FeedSame, Woken, IndexStep, CalmBut, Calm, Untouched
<1>5. op'.result.has \subseteq Own(d) /\ Own(d)' = Own(d)
  BY <1>1, <1>2, <1>3 DEF OwnPart, Own, Stored, Of
<1>6. OwnPart(d)'
  <2> HIDE DEF Own
  <2> QED
    BY <1>1, <1>2, <1>5 DEF OwnPart
<1>7. LoadCover(d)'
  <2>1. d \notin lost'.early => Own(d) \subseteq Seen(d)
    BY <1>1, <1>2, PassedUnlessAhead DEF Own
  <2> HIDE DEF Own, Seen
  <2> QED
    BY <1>2, <1>5, <2>1 DEF LoadCover
<1>8. ASSUME NEW c \in Consumers PROVE FeedPart(c, d)'
  <2> SUFFICES ASSUME ~lost'.feed PROVE FeedPart(c, d)'
    BY DEF FeedPart
  <2>1. /\ At(c)' = At(c) /\ ReadBy(c, d)' = ReadBy(c, d)
        /\ At(c) < db.next /\ ReadPart(c, d)
    BY <1>1, <1>3, <1>4, ReaderSame DEF FeedInv, FeedPart
  <2>2. Caught(c, d)' = Caught(c, d)
    BY <1>2, <2>1 DEF Caught, Vis
  <2>3. d \notin FeedOut' => d \notin FeedOut
    BY <1>2 DEF FeedOut, Out, LostGrows
  <2>4. Seen(d) \subseteq Entries
    BY <1>1, SeenIsStored DEF CopiesInv
  <2> HIDE DEF At, ReadBy, Caught, FeedOut, Seen, Noted
  <2>5. ReadPart(c, d)'
    BY <1>2, <2>1, <2>2, <2>3, <2>4 DEF ReadPart, Holds
  <2> QED
    BY <1>2, <2>1, <2>5 DEF FeedPart, ReadCover, NewPart
<1> QED
  BY <1>2, <1>4, <1>6, <1>7, <1>8, FeedFrameKeeps DEF FeedFrame

LEMMA LoadFinishFeed == ASSUME FeedInv, CopiesInv', LoadFinish PROVE FeedInv'
<1>1. CopiesInv /\ TypeOK /\ TypeOK'
  BY DEF FeedInv, CopiesInv
<1>2. PICK d : d = op.doc
  OBVIOUS
<1>3. d \in Docs
  BY <1>1, <1>2 DEF TypeOK, LoadFinish
<1>4. /\ CalmBut({d}) /\ LostGrows(d)
      /\ op.pc = "load" /\ op'.pc = "idle" /\ sync' = sync
      /\ db'.cache[d] = op.result /\ l2'.doc[d] = l2.doc[d]
      /\ db'.index = db.index /\ db'.next = db.next /\ db'.notes = db.notes
      /\ Seen(d)' = Seen(d) /\ \A e \in Entries : Noted(e, d) => Noted(e, d)'
  BY <1>1, <1>2, <1>3, LoadFinishEffect
<1>5. UNCHANGED <<store, feed, saved>> /\ lost'.feed = lost.feed /\ lost'.early = lost.early
  BY <1>1, <1>2, <1>3, LoseFacts DEF LoadFinish, outside, TypeOK
<1>6. FeedSame /\ Woken /\ IndexStep /\ \A x \in Docs : LostGrows(x)
  BY <1>4, <1>5 DEF FeedSame, Woken, IndexStep, CalmBut, Calm, Untouched
<1>7. OwnPart(d)'
  <2>1. Own(d)' = Own(d) /\ OwnPart(d)
    BY <1>3, <1>5 DEF Own, Stored, Of, FeedInv
  <2> HIDE DEF Own
  <2> QED
    BY <1>2, <1>4, <2>1 DEF OwnPart
<1>8. LoadCover(d)'
  BY <1>4 DEF LoadCover
<1>9. ASSUME NEW c \in Consumers PROVE FeedPart(c, d)'
  <2> SUFFICES ASSUME ~lost'.feed PROVE FeedPart(c, d)'
    BY DEF FeedPart
  <2>1. /\ At(c)' = At(c) /\ ReadBy(c, d)' = ReadBy(c, d)
        /\ At(c) < db.next /\ ReadPart(c, d)
    BY <1>1, <1>3, <1>5, <1>6, ReaderSame DEF FeedInv, FeedPart
  <2>2. Caught(c, d)' = Caught(c, d)
    BY <1>4, <2>1 DEF Caught, Vis
  <2>3. d \notin FeedOut' => d \notin FeedOut /\ d \notin lost.early
    BY <1>4, <1>5 DEF FeedOut, Out, LostGrows
  <2>4. Seen(d) \subseteq Entries /\ LoadCover(d)
    BY <1>1, <1>3, SeenIsStored DEF CopiesInv, FeedInv
  <2> HIDE DEF At, ReadBy, Caught, FeedOut, Seen, Noted
  <2>5. ReadPart(c, d)'
    BY <1>4, <2>1, <2>2, <2>3, <2>4 DEF ReadPart, Holds
  <2>6. ReadCover(c, d)'
    BY <1>2, <1>4, <2>1, <2>2, <2>3, <2>4 DEF ReadCover, LoadCover
  <2> QED
    BY <1>4, <2>1, <2>5, <2>6 DEF FeedPart, NewPart
<1> QED
  BY <1>4, <1>6, <1>7, <1>8, <1>9, FeedFrameKeeps DEF FeedFrame

(* A document that is being created was not visible: nobody has read it.   *)
LEMMA BeginWriteFeed ==
  ASSUME FeedInv, CopiesInv', NEW e \in Entries, BeginsWrite(e) PROVE FeedInv'
<1>1. CopiesInv /\ TypeOK /\ TypeOK'
  BY DEF FeedInv, CopiesInv
<1>2. PICK has, base, del : WriteBegins(e, has, base, del)
  BY DEF BeginsWrite
<1>3. PICK d : d = DocOf[e]
  OBVIOUS
<1>4. d \in Docs
  BY <1>1, <1>2, <1>3, BeginWriteFacts
<1>5. /\ CalmBut({d}) /\ UNCHANGED <<store, db, l2, sync, lost>>
      /\ op'.pc = "write" /\ op'.doc = d /\ op'.entry = e /\ op'.result.has = has \cup {e}
      /\ Seen(d)' = Seen(d) /\ \A x \in Entries : Noted(x, d) => Noted(x, d)'
  BY <1>1, <1>2, <1>3, <1>4, BeginWriteEffect
<1>6. UNCHANGED <<feed, saved>>
  BY <1>2 DEF WriteBegins, BeginWrite, outside
<1>7. FeedSame /\ Woken /\ IndexStep /\ \A x \in Docs : LostGrows(x)
  BY <1>5, <1>6, LostSame DEF FeedSame, Woken, IndexStep
<1>8. \/ has = {} /\ ~Vis(d)
      \/ Kind[e] /= "create" /\ db.cache[d] /= None /\ has = db.cache[d].has
  BY <1>2, <1>3 DEF WriteBegins, Vis
<1>9. OwnPart(d)'
  <2>1. Own(d)' = Own(d) /\ OwnPart(d)
    BY <1>4, <1>5 DEF Own, Stored, Of, FeedInv
  <2> HIDE DEF Own
  <2> QED
    BY <1>5, <1>8, <2>1 DEF OwnPart
<1>10. LoadCover(d)'
  BY <1>5 DEF LoadCover
<1>11. ASSUME NEW c \in Consumers PROVE FeedPart(c, d)'
  <2> SUFFICES ASSUME ~lost'.feed PROVE FeedPart(c, d)'
    BY DEF FeedPart
  <2>1. /\ At(c)' = At(c) /\ ReadBy(c, d)' = ReadBy(c, d)
        /\ At(c) < db.next /\ ReadPart(c, d) /\ ReadCover(c, d)
    BY <1>1, <1>4, <1>5, <1>7, ReaderSame DEF FeedInv, FeedPart
  <2>2. Caught(c, d)' = Caught(c, d)
    BY <1>5, <2>1 DEF Caught, Vis
  <2>3. FeedOut' = FeedOut
    BY <1>5 DEF FeedOut, Out
  <2>4. Seen(d) \subseteq Entries
    BY <1>1, <1>4, SeenIsStored DEF CopiesInv
  <2>5. NewPart(c, d)'
    BY <1>5, <1>8, <2>2 DEF NewPart, Caught
  <2> HIDE DEF At, ReadBy, Caught, FeedOut, Seen, Noted
  <2>6. ReadPart(c, d)' /\ ReadCover(c, d)'
    BY <1>5, <2>1, <2>2, <2>3, <2>4 DEF ReadPart, ReadCover, Holds
  <2> QED
    BY <1>5, <2>1, <2>5, <2>6 DEF FeedPart
<1> QED
  BY <1>5, <1>7, <1>9, <1>10, <1>11, FeedFrameKeeps DEF FeedFrame

LEMMA ApplyKnownFeed ==
  ASSUME FeedInv, CopiesInv', NEW e \in Entries, ApplyKnownChange(e) PROVE FeedInv'
<1>1. CopiesInv /\ TypeOK /\ TypeOK'
  BY DEF FeedInv, CopiesInv
<1>2. PICK d : d = DocOf[e]
  OBVIOUS
<1>3. d \in Docs
  BY <1>1, <1>2, ApplyKnownFacts
<1>4. /\ CalmBut({d}) /\ LostGrows(d)
      /\ e \in Stored /\ e \in Of(d) /\ db.cache[d] /= None /\ sync' = sync /\ op' = op
      /\ op.pc = "idle" /\ l2' = l2 /\ db'.cache[d].has = db.cache[d].has \cup {e}
      /\ db'.index = db.index /\ db'.next = db.next /\ db'.notes = db.notes
      /\ Seen(d)' = Seen(d) /\ \A x \in Entries : Noted(x, d) => Noted(x, d)'
      /\ d \notin lost'.docs => e \in Seen(d)
  BY <1>1, <1>2, <1>3, ApplyKnownEffect
<1>5. UNCHANGED <<store, feed, saved>> /\ lost'.feed = lost.feed
  BY <1>1 DEF ApplyKnownChange, outside, TypeOK, History
<1>6. FeedSame /\ Woken /\ IndexStep /\ \A x \in Docs : LostGrows(x)
  BY <1>4, <1>5 DEF FeedSame, Woken, IndexStep, CalmBut, Calm, Untouched
<1>7. OwnPart(d)' /\ LoadCover(d)'
  <2>1. Own(d)' = Own(d) /\ OwnPart(d) /\ e \in Own(d)
    BY <1>3, <1>4, <1>5 DEF Own, Stored, Of, FeedInv
  <2> HIDE DEF Own
  <2> QED
    BY <1>4, <2>1 DEF OwnPart, LoadCover
<1>8. ASSUME NEW c \in Consumers PROVE FeedPart(c, d)'
  <2> SUFFICES ASSUME ~lost'.feed PROVE FeedPart(c, d)'
    BY DEF FeedPart
  <2>1. /\ At(c)' = At(c) /\ ReadBy(c, d)' = ReadBy(c, d)
        /\ At(c) < db.next /\ ReadPart(c, d) /\ ReadCover(c, d)
    BY <1>1, <1>3, <1>5, <1>6, ReaderSame DEF FeedInv, FeedPart
  <2>2. Caught(c, d)' = Caught(c, d)
    BY <1>4, <2>1 DEF Caught, Vis
  <2>3. d \notin FeedOut' => d \notin FeedOut /\ d \notin lost'.docs
    BY <1>4 DEF FeedOut, Out, LostGrows
  <2>4. Seen(d) \subseteq Entries
    BY <1>1, <1>3, SeenIsStored DEF CopiesInv
  <2> HIDE DEF At, ReadBy, Caught, FeedOut, Seen, Noted
  <2>5. ReadPart(c, d)' /\ ReadCover(c, d)'
    BY <1>4, <2>1, <2>2, <2>3, <2>4 DEF ReadPart, ReadCover, Holds
  <2> QED
    BY <1>4, <2>1, <2>5 DEF FeedPart, NewPart
<1> QED
  BY <1>4, <1>6, <1>7, <1>8, FeedFrameKeeps DEF FeedFrame

(* A write is counted up, or it created a document that nobody has read.   *)
LEMMA WriteFinishFeed == ASSUME FeedInv, CopiesInv', WriteFinish PROVE FeedInv'
<1>1. CopiesInv /\ TypeOK /\ TypeOK' /\ db.next \in Nat
  BY NatFacts DEF FeedInv, CopiesInv
<1>2. PICK d : d = op.doc
  OBVIOUS
<1>3. d \in Docs
  BY <1>1, <1>2 DEF TypeOK, WriteFinish
<1>4. /\ CalmBut({d}) /\ LostGrows(d)
      /\ op.pc = "stored" /\ op'.pc = "idle" /\ sync' = sync
      /\ db'.cache[d] = op.result /\ l2'.doc[d] = l2.doc[d]
      /\ \A x \in Docs : x /= d => db'.index[x] = db.index[x]
      /\ \/ /\ db'.index[d] = db.index[d] /\ db'.next = db.next /\ db'.notes = db.notes
            /\ Kind[op.entry] = "create"
         \/ db'.index[d].seq = db.next /\ db'.next = db.next + 1 /\ db'.notes
      /\ Seen(d)' = Seen(d)
  BY <1>1, <1>2, <1>3, WriteFinishEffect
<1>5. UNCHANGED <<store, feed, saved>> /\ lost'.feed = lost.feed
  BY <1>1, <1>2, <1>3, LoseFacts DEF WriteFinish, outside, TypeOK
<1>6. db'.index[d] = db.index[d] => db'.index = db.index
  BY <1>1, <1>3, <1>4 DEF TypeOK, Database
<1>7. FeedSame /\ Woken /\ IndexStep /\ \A x \in Docs : LostGrows(x)
  BY <1>1, <1>3, <1>4, <1>5, <1>6 DEF FeedSame, Woken, IndexStep, CalmBut, Calm, Untouched
<1>8. OwnPart(d)' /\ LoadCover(d)'
  <2>1. Own(d)' = Own(d) /\ OwnPart(d)
    BY <1>3, <1>5 DEF Own, Stored, Of, FeedInv
  <2> HIDE DEF Own
  <2> QED
    BY <1>2, <1>4, <2>1 DEF OwnPart, LoadCover
<1>9. ASSUME NEW c \in Consumers PROVE FeedPart(c, d)'
  <2>1. CASE db'.index[d].seq = db.next
    BY <1>1, <1>3, <1>4, <1>7, <2>1, UnreadPart
  <2>2. CASE db'.index[d].seq /= db.next
    <3>1. db'.index[d] = db.index[d] /\ db'.next = db.next /\ Kind[op.entry] = "create"
      BY <1>4, <2>2
    <3>2. At(c)' = At(c) /\ FeedPart(c, d)
      BY <1>1, <1>3, <1>7, ReaderSame DEF FeedInv
    <3>3. ~lost'.feed => ~Caught(c, d)' /\ At(c)' < db'.next
      <4> HIDE DEF At
      <4> QED
        BY <1>2, <1>4, <1>5, <3>1, <3>2 DEF FeedPart, NewPart, Caught, Vis
    <3> QED
      BY <3>3 DEF FeedPart, ReadPart, ReadCover, NewPart
  <2> QED
    BY <2>1, <2>2
<1> QED
  BY <1>4, <1>7, <1>8, <1>9, FeedFrameKeeps DEF FeedFrame

-----------------------------------------------------------------------------
(* The checkpoint and the restart, for the consumer                        *)

(* What the consumer has read is, at the time of the checkpoint, what the  *)
(* checkpoint passes; and nothing has moved on since.                      *)
LEMMA FlushCheckpointFeed == ASSUME FeedInv, CopiesInv', FlushCheckpoint PROVE FeedInv'
<1>1. CopiesInv /\ TypeOK /\ SeqInv
  BY DEF FeedInv, CopiesInv
<1>2. /\ l2'.meta = Checkpoint(db) /\ l2'.doc = l2.doc
      /\ lost'.docs = lost.docs /\ lost'.stale = lost.stale /\ lost'.early = lost.early
      /\ lost'.feed = lost.feed /\ lost'.heal = heal /\ lost'.unread = lost.unread
  BY <1>1, FlushCheckpointFacts
<1>3. UNCHANGED <<store, db, sync, op, heal, trusted, feed, saved>>
  BY DEF FlushCheckpoint, outside
<1>4. /\ l2'.meta.cursor = db.cursor /\ l2'.meta.index = db.index
      /\ l2'.meta.next = db.next /\ l2'.meta.pending = db.pending
  BY <1>1, <1>2, CheckpointFacts DEF TypeOK
<1>5. SeqInv' /\ NoMissedWakeup'
  BY <1>1, <1>3, <1>4 DEF SeqInv, Distinct, NoMissedWakeup, Behind, FeedInv
<1>6. ASSUME NEW d \in Docs PROVE OwnPart(d)' /\ LoadCover(d)'
  <2>1. Own(d)' = Own(d) /\ Seen(d)' = Seen(d) /\ OwnPart(d) /\ LoadCover(d)
    BY <1>3 DEF Own, Stored, Of, Seen, Upto, FeedInv
  <2> HIDE DEF Own, Seen
  <2> QED
    BY <1>2, <1>3, <2>1 DEF OwnPart, LoadCover
<1>7. ASSUME NEW d \in Docs, NEW c \in Consumers PROVE FeedPart(c, d)' /\ MetaFeed(c, d)'
  <2>1. FeedPart(c, d) /\ At(c)' = At(c) /\ ReadBy(c, d)' = ReadBy(c, d)
    BY <1>3 DEF FeedInv, At, ReadBy
  <2>2. FeedOut' = FeedOut /\ (d \notin MetaOut' => d \notin heal)
    BY <1>2 DEF FeedOut, MetaOut, Out
  <2>3. Seen(d)' = Seen(d) /\ \A e : Noted(e, d)' <=> Noted(e, d)
    BY <1>3 DEF Seen, Upto, Noted
  <2>4. Caught(c, d)' = Caught(c, d)
    BY <1>3, <2>1 DEF Caught, Vis
  <2>5. FeedPart(c, d)'
    <3> HIDE DEF At, ReadBy, FeedOut, Seen, Noted, Caught
    <3> QED
      BY <1>2, <1>3, <2>1, <2>2, <2>3, <2>4 DEF FeedPart, ReadPart, ReadCover, NewPart, Holds
  <2>6. MetaFeed(c, d)'
    <3>1. SUFFICES ASSUME MetaCaught(c, d)' PROVE MetaHolds(ReadBy(c, d), d)'
      BY DEF MetaFeed
    <3>2. Caught(c, d) /\ ~lost.feed /\ d \notin FeedOut /\ d \notin heal
      <4> HIDE DEF At, FeedOut, MetaOut
      <4> QED
        BY <1>2, <1>4, <2>1, <2>2, <3>1 DEF MetaCaught, Caught, Vis
    <3>3. Holds(ReadBy(c, d), Seen(d), d)
      BY <2>1, <3>2 DEF FeedPart, ReadPart
    <3>4. ASSUME NEW e \in Upto(db.cursor, d)
          PROVE  e \in ReadBy(c, d) \/ <<AuthorOf[e], d>> \in db.pending
      BY <3>2, <3>3 DEF Holds, Noted, Seen
    <3>5. Upto(l2.meta.cursor, d)' = Upto(db.cursor, d)
      BY <1>3, <1>4 DEF Upto
    <3> HIDE DEF Upto, ReadBy
    <3> QED
      BY <1>4, <2>1, <3>4, <3>5 DEF MetaHolds
  <2> QED
    BY <2>5, <2>6
<1> QED
  BY <1>5, <1>6, <1>7 DEF FeedInv

(* After a restart the consumer goes on from where it was saved, and what  *)
(* may be missing there is remembered.                                     *)
LEMMA RestartFeed == ASSUME FeedInv, CopiesInv', Restart PROVE FeedInv'
<1>1. CopiesInv /\ TypeOK /\ TypeOK' /\ SeqInv
  BY DEF FeedInv, CopiesInv
<1>2. PICK T : Reopened(T)
  BY <1>1, RestartFacts
<1>3. /\ store' = store /\ saved' = saved /\ trusted' = trusted /\ heal' = {}
      /\ sync'.pc = "idle" /\ op'.pc = "idle"
      /\ l2'.meta = l2.meta /\ \A x \in Docs : l2'.doc[x] \in {l2.doc[x], None}
      /\ feed' = [cursor |-> saved.cursor, seen |-> saved.seen, awake |-> TRUE]
  BY <1>2, IdleTypes DEF Restart, Reopened
<1>4. ASSUME NEW d \in Docs PROVE Seen(d)' = Upto(db'.cursor, d)
  BY <1>3 DEF Seen, Upto
<1>5. NoMissedWakeup'
  BY <1>3 DEF NoMissedWakeup
<1>6. ASSUME NEW d \in Docs, db'.cache[d] /= None
      PROVE  l2.doc[d] /= None /\ db'.cache[d].has = l2.doc[d].has
  <2>1. l2.meta /= None
    BY <1>2, <1>6 DEF Reopened
  <2>2. db'.cache[d] = IF d \in T \cap keys
                       THEN [has |-> l2.doc[d].has, del |-> l2.doc[d].del] ELSE None
    BY <1>2, <2>1 DEF Reopened
  <2>3. d \in T /\ db'.cache[d] = [has |-> l2.doc[d].has, del |-> l2.doc[d].del]
    BY <1>6, <2>2
  <2>4. d \in Records
    BY <1>2, <2>3 DEF Reopened
  <2> QED
    BY <2>3, <2>4 DEF Records
<1>7. ASSUME NEW d \in Docs PROVE OwnPart(d)' /\ LoadCover(d)'
  <2>1. Own(d)' = Own(d) /\ OwnPart(d)
    BY <1>3 DEF Own, Stored, Of, FeedInv
  <2> HIDE DEF Own
  <2> QED
    BY <1>3, <1>6, <2>1 DEF OwnPart, LoadCover
<1>8. ASSUME NEW c \in Consumers, NEW d \in Docs
      PROVE  At(c)' = At("saved") /\ ReadBy(c, d)' = ReadBy("saved", d) /\ At("saved") \in Nat
  BY <1>1, <1>3 DEF At, ReadBy, TypeOK, Saved
<1>9. lost' = LoseAtRestart(l2.meta, T)
  BY <1>2 DEF Reopened
<1>10. CASE l2.meta = None
  <2>1. /\ db'.cursor = 0 /\ db'.next = 1
        /\ \A x \in Docs : db'.cache[x] = None /\ db'.index[x] = Absent
    BY <1>2, <1>10 DEF Reopened
  <2>2. SeqInv'
    BY <1>3, <1>10, <2>1 DEF SeqInv, Distinct, Absent
  <2>3. lost'.feed \/ saved.cursor < 1
    <3>1. saved.cursor >= 1 => lost'.feed
      BY <1>9, <1>10 DEF LoseAtRestart
    <3>2. saved.cursor \in Nat
      BY <1>1 DEF TypeOK, Saved
    <3> QED
      BY <3>1, <3>2
  <2>4. ASSUME NEW d \in Docs, NEW c \in Consumers PROVE FeedPart(c, d)' /\ MetaFeed(c, d)'
    <3>1. ~Caught(c, d)' /\ ~MetaCaught(c, d)'
      BY <1>3, <1>10, <2>1 DEF Caught, Vis, Absent, MetaCaught
    <3>2. lost'.feed \/ At(c)' < db'.next
      BY <1>8, <2>1, <2>3 DEF At
    <3> QED
      BY <3>1, <3>2 DEF FeedPart, ReadPart, ReadCover, NewPart, MetaFeed
  <2> QED
    BY <1>5, <1>7, <2>2, <2>4 DEF FeedInv
<1>11. CASE l2.meta /= None
  <2>1. /\ db'.cursor = l2.meta.cursor /\ db'.index = l2.meta.index
        /\ db'.next = l2.meta.next /\ db'.pending = l2.meta.pending
        /\ \A x \in Docs : db'.cache[x] /= None => x \in T \cap keys
    BY <1>2, <1>11 DEF Reopened
  <2>2. SeqInv'
    <3>1. Distinct(l2.meta.index)
      BY <1>1, <1>11 DEF SeqInv
    <3>2. Distinct(db.index)' /\ Distinct(l2.meta.index)'
      BY <1>3, <2>1, <3>1 DEF Distinct
    <3> QED
      BY <1>3, <2>1, <3>2 DEF SeqInv
  <2>3. /\ lost.feed \/ saved.cursor >= l2.meta.next => lost'.feed
        /\ lost.docs \cup lost.stale \cup lost.heal \cup lost.skipped \subseteq lost'.docs
        /\ lost.early \subseteq lost'.early
        /\ lost.unread \cup lost.passed \subseteq lost'.unread
        /\ lost'.heal = lost.heal /\ lost'.passed = lost.passed
        /\ \A d \in T \cap keys : ~(l2.doc[d].has \subseteq {store[i] : i \in 1..l2.meta.cursor})
                                    => d \in lost'.early
    BY <1>1, <1>9, <1>11 DEF LoseAtRestart, TypeOK, History
  <2>4. l2.meta.next \in Nat
    BY <1>1, <1>11, NatFacts
  <2>5. ASSUME NEW d \in Docs, d \notin FeedOut' PROVE d \notin FeedOut \cup MetaOut \cup lost.passed
    BY <2>3, <2>5 DEF FeedOut, MetaOut, Out
  <2>6. ASSUME NEW d \in Docs, NEW c \in Consumers, ~lost'.feed
        PROVE  ~lost.feed /\ At(c)' < db'.next /\ At("saved") < l2.meta.next
    <3>1. At("saved") = saved.cursor
      BY DEF At
    <3> QED
      BY <1>8, <2>1, <2>3, <2>4, <2>6, <3>1
  <2>7. ASSUME NEW d \in Docs, NEW c \in Consumers, ~lost'.feed, d \notin FeedOut', Caught(c, d)'
        PROVE  MetaHolds(ReadBy("saved", d), d)
    <3>1. MetaCaught("saved", d)
      <4> HIDE DEF At, FeedOut, MetaOut
      <4> QED
        BY <1>8, <1>11, <2>1, <2>5, <2>6, <2>7 DEF MetaCaught, Caught, Vis
    <3> QED
      BY <3>1 DEF FeedInv, MetaFeed, Consumers
  <2>8. ASSUME NEW d \in Docs, NEW c \in Consumers PROVE FeedPart(c, d)'
    <3>1. SUFFICES ASSUME ~lost'.feed PROVE FeedPart(c, d)'
      BY DEF FeedPart
    <3>2. Seen(d)' = Upto(l2.meta.cursor, d)
      BY <1>4, <2>1
    <3>3. ReadPart(c, d)'
      <4>1. SUFFICES ASSUME d \notin FeedOut', Caught(c, d)' PROVE Holds(ReadBy(c, d), Seen(d), d)'
        BY DEF ReadPart
      <4>2. MetaHolds(ReadBy("saved", d), d)
        BY <2>7, <3>1, <4>1
      <4> HIDE DEF ReadBy, Seen, Upto
      <4> QED
        BY <1>8, <2>1, <3>2, <4>2 DEF Holds, Noted, MetaHolds
    <3>4. ReadCover(c, d)'
      <4>1. SUFFICES ASSUME d \notin FeedOut', db'.cache[d] /= None
                     PROVE  db'.cache[d].has \subseteq Seen(d)'
        <5> HIDE DEF ReadBy, Seen, FeedOut, Caught
        <5> QED
          BY DEF ReadCover
      <4>2. d \in T \cap keys /\ d \notin lost'.early
        BY <2>1, <4>1 DEF FeedOut
      <4>3. l2.doc[d].has \subseteq {store[i] : i \in 1..l2.meta.cursor}
        BY <2>3, <4>2
      <4>4. db'.cache[d].has = l2.doc[d].has /\ db'.cache[d].has \subseteq Of(d)
        BY <1>6, <4>1 DEF FeedInv, OwnPart, Own
      <4> QED
        BY <3>2, <4>3, <4>4 DEF Upto
    <3> QED
      BY <1>3, <2>6, <3>1, <3>3, <3>4 DEF FeedPart, NewPart
  <2>9. ASSUME NEW d \in Docs, NEW c \in Consumers PROVE MetaFeed(c, d)'
    <3>1. SUFFICES ASSUME MetaCaught(c, d)' PROVE MetaHolds(ReadBy(c, d), d)'
      BY DEF MetaFeed
    <3>2. ~lost'.feed /\ d \notin FeedOut'
      BY <3>1 DEF MetaCaught
    <3>3. MetaCaught("saved", d)
      <4> HIDE DEF At, FeedOut, MetaOut
      <4> QED
        BY <1>3, <1>8, <2>5, <2>6, <3>1, <3>2 DEF MetaCaught
    <3>4. MetaHolds(ReadBy("saved", d), d)
      BY <3>3 DEF FeedInv, MetaFeed, Consumers
    <3> HIDE DEF ReadBy
    <3> QED
      BY <1>3, <1>8, <3>4 DEF MetaHolds, Upto
  <2> QED
    BY <1>5, <1>7, <2>2, <2>8, <2>9 DEF FeedInv
<1> QED
  BY <1>10, <1>11

LEMMA InitFeed == Init => FeedInv
<1> SUFFICES ASSUME Init PROVE FeedInv
  OBVIOUS
<1>1. CopiesInv
  BY InitCopies
<1>2. /\ \A d \in Docs : db.cache[d] = None /\ db.index[d] = Absent
      /\ db.next = 1 /\ l2.meta = None /\ \A d \in Docs : l2.doc[d] = None
      /\ sync.pc = "idle" /\ op.pc = "idle"
  BY ClosedIs, IdleTypes DEF Init, Database
<1>3. feed.cursor = 0 /\ saved.cursor = 0
  BY DEF Init
<1>4. SeqInv /\ NoMissedWakeup
  BY <1>2, <1>3 DEF SeqInv, Distinct, Absent, NoMissedWakeup, Behind
<1>5. ASSUME NEW d \in Docs PROVE OwnPart(d) /\ LoadCover(d)
  BY <1>2 DEF OwnPart, LoadCover
<1>6. ASSUME NEW d \in Docs, NEW c \in Consumers PROVE FeedPart(c, d) /\ MetaFeed(c, d)
  BY <1>2, <1>3 DEF FeedPart, ReadPart, ReadCover, NewPart, Caught, Vis, Absent, At, MetaFeed, MetaCaught
<1> QED
  BY <1>1, <1>4, <1>5, <1>6 DEF FeedInv

LEMMA FeedKept == ASSUME FeedInv, CopiesInv', [Next]_vars PROVE FeedInv'
<1>1. CASE SyncStep
  <2>1. CASE IndexScanned \/ SyncHide
    BY <2>1, VisitsAre, VisitFeed DEF FeedInv, CopiesInv
  <2> QED
    BY <1>1, <2>1, SyncStartFeed, SyncDoneFeed, ApplyFinishFeed, ApplyNewEntriesFeed,
       IndexFromMetadataFeed, ScanMetadataFeed, SyncWithoutKeyFeed, SyncPurgeFeed DEF SyncStep
<1>2. CASE LoadStep
  BY <1>2, LoadStartFeed, LoadFinishFeed DEF LoadStep
<1>3. CASE WriteStep
  BY <1>3, WritePutFeed, WriteFinishFeed DEF WriteStep
<1>4. CASE ReconcileStep
  BY <1>4, HealStartFeed, HealDocumentFeed, ReconcileStartFeed, ReconcileFeed,
     ReconcileHideFeed, ReconcileEndFeed DEF ReconcileStep
<1>5. CASE FeedStep
  BY <1>5, FeedEndFeed, NotifyTimerFeed, FeedReadFeed DEF FeedStep
<1>6. CASE FlushStep
  BY <1>6, FlushCheckpointFeed, ClearDirtyFeed, FlushRecordFeed DEF FlushStep
<1>7. CASE FlushStart \/ FeedSave
  <2>1. CASE FlushStart
    BY <2>1, NothingFeed DEF FlushStart
  <2> QED
    BY <1>7, <2>1, FeedSaveFeed
<1>8. CASE Initialized \/ Restart \/ WriteRefused
  BY <1>8, InitializedFeed, RestartFeed, WriteRefusedFeed
<1>9. ASSUME NEW e \in Entries,
             Receive(e) \/ CreateDocument(e) \/ ChangeDoc(e) \/ ApplyPatch(e)
               \/ DeleteDoc(e) \/ UndeleteDoc(e) \/ ApplyKnownChange(e)
      PROVE  FeedInv'
  <2>1. TypeOK
    BY DEF FeedInv, CopiesInv
  <2> QED
    BY <1>9, <2>1, ReceiveFeed, WritesBegin, BeginWriteFeed, ApplyKnownFeed
<1>10. ASSUME NEW d \in Docs, ReadRefused(d) \/ KeyBagChanged(d) PROVE FeedInv'
  BY <1>10, ReadRefusedFeed, KeyBagChangedFeed
<1>11. ASSUME NEW a \in Unknown, AuthorTrusted(a) PROVE FeedInv'
  BY <1>11, NothingFeed DEF AuthorTrusted, jobs, outside
<1>12. CASE UNCHANGED vars
  BY <1>12, NothingFeed DEF vars, jobs, outside
<1> QED
  BY <1>1, <1>2, <1>3, <1>4, <1>5, <1>6, <1>7, <1>8, <1>9, <1>10, <1>11, <1>12 DEF Next

LEMMA FeedAlways == Spec => []FeedInv
<1>1. Init => FeedInv
  BY InitFeed
<1>2. CopiesInv /\ CopiesInv' /\ FeedInv /\ [Next]_vars => FeedInv'
  BY FeedKept
<1> QED
  BY <1>1, <1>2, CopiesAlways, PTL DEF Spec

LEMMA FeedIsComplete == FeedInv => FeedComplete
<1> SUFFICES ASSUME FeedInv PROVE FeedComplete
  OBVIOUS
<1>1. CopiesInv /\ TypeOK /\ NoMissedWakeup
  BY DEF FeedInv, CopiesInv
<1>2. ASSUME Quiet, ~lost.feed, \A x \in Docs : ~Behind(x),
             NEW d \in Docs \ (lost.docs \cup lost.stale \cup lost.early \cup lost.unread),
             db.index[d].state = "visible", ~db.index[d].del
      PROVE  Owed(d) \subseteq feed.seen[d]
  <2>1. d \notin FeedOut /\ d \in Docs \ heal
    BY <1>2 DEF FeedOut, Out, Quiet
  <2>2. Caught("live", d)
    BY <1>1, <1>2, NatFacts DEF Caught, Vis, Behind, At, TypeOK, Consumer
  <2>3. FeedPart("live", d)
    BY DEF FeedInv, Consumers
  <2>4. Holds(feed.seen[d], Seen(d), d)
    BY <1>2, <2>1, <2>2, <2>3 DEF FeedPart, ReadPart, ReadBy
  <2> QED
    BY <1>1, <2>1, <2>4, OwedIsHeld
<1> QED
  BY <1>1, <1>2 DEF FeedComplete

(* A consumer that has read to the end of the changefeed has seen every    *)
(* entry it is owed, and a change of the index is never left without a     *)
(* wake-up.                                                                *)
THEOREM ReplayFeedComplete == Spec => []FeedComplete
BY FeedAlways, FeedIsComplete, PTL

=============================================================================
