------------------------------- MODULE DocReplay -------------------------------
(***************************************************************************)
(* How one open database (BaseMindooDB) turns the entries of its local     *)
(* store into documents, and keeps four derived copies of them current:    *)
(* the changefeed index, the in-memory documents (L1), the records of the  *)
(* persisted cache (L2), and the consumers of the changefeed.              *)
(*                                                                         *)
(* The store is the log of the entries in receipt order.  A document's     *)
(* content is the set of the replay entries that Automerge was given.      *)
(* JavaScript runs handlers one at a time, so a step is the code between   *)
(* two awaits; `sync`, `op`, `flush`, `recon` and `heal` are the handlers  *)
(* that are suspended in an await.  A look-up in the key bag reads memory  *)
(* only, and is one step with the branch it decides.                       *)
(***************************************************************************)
EXTENDS Naturals, Sequences, FiniteSets

CONSTANTS
  Docs,          \* document ids
  Remote,        \* entries that arrive from other replicas
  Local,         \* entries this replica may write
  DocOf,         \* [Remote \cup Local -> Docs]
  AuthorOf,      \* [Remote \cup Local -> signing key]
  Kind,          \* [Remote \cup Local -> {"create", "change", "delete", "undelete"}]
  RemoteDeps,    \* [Remote -> SUBSET Remote]: all causal ancestors
  Unknown,       \* authors the directory does not trust at first
  Secret,        \* documents whose key may be revoked and granted again
  None,          \* absent document, record or checkpoint
  MaxCached,     \* maxCachedDocs
  RestoreToL2,   \* restoreToL2: lazy restore (TRUE) or eager restore (FALSE)
  Budgets        \* bounds: what may happen in a behaviour, one record is picked

(* Every entry belongs to a document. *)
ASSUME ConstantsAssumption ==
  /\ DocOf \in [Remote \cup Local -> Docs]
  /\ Secret \subseteq Docs /\ None \notin Docs

VARIABLES
  store,      \* Seq(Entries): the local store in receipt order
  deps,       \* [Local -> SUBSET Entries]: ancestors of the entries written here
  db,         \* the fields of the open BaseMindooDB
  l2,         \* the persisted cache: [doc, meta]
  trusted,    \* signing keys the directory trusts
  keys,       \* documents whose decryption key is in the key bag
  sync,       \* syncStoreChanges in flight
  op,         \* a load or a write in flight
  flush,      \* CacheManager.flush in flight
  recon,      \* reconcileKeyVisibility in flight, and what it waits for (NoRecon)
  heal,       \* documents reconcileAuthorTrust has still to re-materialize
  feed,       \* a consumer of the changefeed: [cursor, seen, awake]
  saved,      \* the consumer's persisted cursor and state
  budget,     \* what may still happen: [entries, restart, flush, key, save, grant]
  lost        \* history: what a window of the code may have lost (see below)

vars == <<store, deps, db, l2, trusted, keys, sync, op, flush, recon, heal, feed,
          saved, budget, lost>>
jobs == <<sync, op, flush, recon, heal>>
outside == <<feed, saved, budget>>

Entries == Remote \cup Local
Authors == {AuthorOf[e] : e \in Entries}
Content == [has : SUBSET Entries, del : BOOLEAN]
IndexEntry == [seq : Nat, del : BOOLEAN, state : {"none", "visible", "inaccessible"}]
Absent == [seq |-> 0, del |-> FALSE, state |-> "none"]
Meta == [cursor : Nat, index : [Docs -> IndexEntry], next : Nat \ {0},
         pending : SUBSET (Authors \X Docs), fp : (SUBSET Docs) \cup {None}]

Stored == {store[i] : i \in DOMAIN store}
Of(d) == {e \in Entries : DocOf[e] = d}
StoreDocs == {DocOf[e] : e \in Stored}
Ancestors(e) == IF e \in Remote THEN RemoteDeps[e] ELSE deps[e]
Trusted(E) == {e \in E : AuthorOf[e] \in trusted}
UnknownAuthors(E, d) == {<<AuthorOf[e], d>> : e \in E \ Trusted(E)}

(***************************************************************************)
(* computeIsDeletedFromMetadata: of the delete and undelete entries that   *)
(* no later one supersedes, the latest decides.  Entries are created in    *)
(* store order here, so the latest is the one stored last.                 *)
(***************************************************************************)
Position(e) == CHOOSE i \in DOMAIN store : store[i] = e
IsDeleted(E) ==
  LET terminal == {e \in E : Kind[e] \in {"delete", "undelete"}}
      surviving == {e \in terminal : \A o \in terminal : e \notin Ancestors(o)}
  IN \E e \in surviving : /\ Kind[e] = "delete"
                          /\ \A o \in surviving : Position(o) <= Position(e)

(* Mutant: a forced bump is dropped. *)
UpdateIndexUnforced(s, d, del, state, force) ==
  IF s.index[d].del = del /\ s.index[d].state = state THEN s
  ELSE [s EXCEPT !.index[d] = [seq |-> s.next, del |-> del, state |-> state],
                 !.next = @ + 1, !.notes = TRUE]

--------------------------------------------------------------------------------
(* updateIndex: a new changeSeq, unless nothing changed and none is forced. *)
UpdateIndex(s, d, del, state, force) ==
  LET same == s.index[d].del = del /\ s.index[d].state = state
  IN IF same /\ ~force THEN s
     ELSE [s EXCEPT !.index[d] = [seq |-> s.next, del |-> del, state |-> state],
                    !.next = @ + 1, !.notes = TRUE]

MarkDocDirty(s, d) == [s EXCEPT !.dirty = @ \cup {d}, !.meta = TRUE]

(* Mutant: entries of unknown authors are skipped and forgotten. *)
RecordPendingNever(s, P) == s

(* recordPendingUntrustedAuthor, for a set of <<author, document>> pairs. *)
RecordPending(s, P) ==
  IF P \subseteq s.pending THEN s
  ELSE [s EXCEPT !.pending = @ \cup P, !.meta = TRUE]

(* purgeMaterializedDocument, the part in memory and the part in L2. *)
PurgeMaterialized(s, d) == [s EXCEPT !.cache[d] = None, !.dirty = @ \ {d}]
PurgeRecord(r, d) == [r EXCEPT !.doc[d] = None]

Cached(s) == {d \in Docs : s.cache[d] /= None}

(* Mutant: the record takes the next free changeSeq. *)
FlushDocAhead(r, s, d) ==
  [r EXCEPT !.doc[d] = [seq |-> s.next, has |-> s.cache[d].has, del |-> s.cache[d].del]]

(* flushDirtyDocToCache: the record carries the changeSeq of the index. *)
FlushDoc(r, s, d) ==
  [r EXCEPT !.doc[d] = [seq |-> s.index[d].seq, has |-> s.cache[d].has,
                        del |-> s.cache[d].del]]

(***************************************************************************)
(* storeCachedDocument: the document replaces the cached one; documents    *)
(* over maxCachedDocs leave, the dirty ones through a flush.               *)
(***************************************************************************)
Victims(s, d) ==
  LET others == Cached(s) \ {d}
      excess == IF Cardinality(others) + 1 > MaxCached
                THEN Cardinality(others) + 1 - MaxCached ELSE 0
  IN {out \in SUBSET others : Cardinality(out) = excess}

FlushVictims(r, s, out) ==
  [r EXCEPT !.doc = [d \in Docs |->
      IF d \in out \cap s.dirty THEN FlushDoc(r, s, d).doc[d] ELSE r.doc[d]]]

StoreCachedDocument(s, d, c, out) ==
  [s EXCEPT !.cache = [x \in Docs |-> IF x = d THEN c
                                      ELSE IF x \in out THEN None ELSE s.cache[x]],
            !.dirty = @ \ out]

(* exportMetadataCheckpoint *)
Checkpoint(s) == [cursor |-> s.cursor, index |-> s.index, next |-> s.next,
                  pending |-> s.pending, fp |-> s.fp]

Closed == [cursor |-> 0, index |-> [d \in Docs |-> Absent], next |-> 1,
           cache |-> [d \in Docs |-> None], dirty |-> {}, meta |-> FALSE,
           pending |-> {}, fp |-> None, notes |-> FALSE, ready |-> FALSE]

NoSync == [pc |-> "idle", todo |-> {}, batch |-> {}, next |-> 0, doc |-> None,
           result |-> None]
NoOp == [pc |-> "idle", doc |-> None, entry |-> None, result |-> None, base |-> {},
         read |-> {}, dirty |-> FALSE, touched |-> FALSE]
NoFlush == [pc |-> "idle", done |-> {}, heal |-> {}]

(***************************************************************************)
(* Of a pass over the store: the documents to visit, the entries scanned,  *)
(* the document that was purged and is about to be hidden, whether the     *)
(* index changed, and at open the fingerprint taken first.  `again`: the   *)
(* key bag has events for this database that no pass has consumed; `fresh`:*)
(* the database is opened without a checkpoint.                            *)
(***************************************************************************)
NoRecon == [pc |-> "idle", todo |-> {}, scan |-> 0, doc |-> None, changed |-> FALSE,
            fp |-> {}, again |-> FALSE, fresh |-> FALSE]

Init ==
  /\ store = <<>>
  /\ deps = [e \in Local |-> {}]
  /\ db = [Closed EXCEPT !.ready = TRUE, !.fp = Docs]
  /\ l2 = [doc |-> [d \in Docs |-> None], meta |-> None]
  /\ trusted = Authors \ Unknown
  /\ keys = Docs
  /\ sync = NoSync /\ op = NoOp /\ flush = NoFlush /\ recon = NoRecon /\ heal = {}
  /\ feed = [cursor |-> 0, seen |-> [d \in Docs |-> {}], awake |-> FALSE]
  /\ saved = [cursor |-> 0, seen |-> [d \in Docs |-> {}]]
  /\ budget \in Budgets
  /\ lost = [docs |-> {}, stale |-> {}, early |-> {}, feed |-> FALSE, heal |-> {}, skipped |-> {},
             passed |-> {}, unread |-> {}, rekeyed |-> FALSE, keys |-> FALSE]

(* Another job changes the document that a suspended load or write has read. *)
Touch(d, unread) ==
  op' = IF op.doc = d /\ unread THEN [op EXCEPT !.touched = TRUE] ELSE op

(* emitPendingChangeEvent: the listener wakes the consumer. *)
Emit(s) == /\ feed' = [feed EXCEPT !.awake = @ \/ s.notes]
           /\ db' = [s EXCEPT !.notes = FALSE]

--------------------------------------------------------------------------------
(* Store synchronization (module StoreSync) appends an entry of a peer. *)
Receive(e) ==
  /\ e \in (Remote \cap budget.entries) \ Stored
  /\ store' = Append(store, e)
  /\ UNCHANGED <<deps, db, l2, trusted, keys, jobs, outside, lost>>

(***************************************************************************)
(* syncStoreChanges: one run at a time, notifications held meanwhile.      *)
(* getNewEntryMetadataForSync scans the entries after the cursor.          *)
(***************************************************************************)
SyncStart ==
  /\ sync.pc = "idle" /\ (db.ready \/ recon.pc = "idle")
  /\ db.cursor < Len(store)
  /\ LET batch == {store[i] : i \in (db.cursor + 1)..Len(store)}
     IN sync' = [NoSync EXCEPT !.pc = "docs", !.batch = batch, !.next = Len(store),
                               !.todo = {DocOf[e] : e \in batch}]
  /\ Emit(db)
  /\ UNCHANGED <<store, deps, l2, trusted, keys, op, flush, recon, heal, saved, budget, lost>>

(* processDocument visits the documents by their first new entry. *)
Due(d) ==
  /\ sync.pc = "docs" /\ d \in sync.todo
  /\ \A o \in sync.todo : \E e \in sync.batch \cap Of(d) :
       \A x \in sync.batch \cap Of(o) : Position(e) <= Position(x)

Processed(d) == [sync EXCEPT !.pc = "docs", !.todo = @ \ {d}, !.doc = None, !.result = None]

(* applyNewEntriesToCachedDocument, up to its last await. *)
ApplyNewEntries(d) ==
  LET new == sync.batch \cap Of(d)
      c   == db.cache[d]
      r   == [has |-> c.has \cup Trusted(new), del |-> IsDeleted(Stored \cap Of(d))]
  IN /\ Due(d) /\ c /= None
     /\ Trusted(new) /= {} => d \in keys
     /\ sync' = IF r.has = c.has THEN Processed(d)
                ELSE [sync EXCEPT !.pc = "apply", !.doc = d, !.result = r]
     /\ db' = RecordPending(db, UnknownAuthors(new, d))
     /\ lost' = [lost EXCEPT !.skipped = IF Trusted(new) = new THEN @ ELSE @ \cup {d}]
     /\ Touch(d, r.has = c.has /\ ~(new \subseteq op.read))
     /\ UNCHANGED <<store, deps, l2, trusted, keys, flush, recon, heal, outside>>

(* At open: the keys are not those of the checkpoint, and the pass is due. *)
Rekeying == ~db.ready /\ ~recon.fresh /\ recon.pc = "idle" /\ db.fp /= keys

(* The document's key will be looked up again. *)
ToReconcile(d) == d \in recon.todo \/ recon.again \/ Rekeying

(* A handler publishes a document whose key went and was reconciled since the
   handler looked it up; or hides one whose key came and was. *)
Unhidden(d) == lost.keys \/ (d \notin keys /\ ~ToReconcile(d) /\ recon.doc /= d)
Unshown(d) == lost.keys \/ (d \in keys /\ ~ToReconcile(d))

(* A sync is done with a document which another handler has put into memory
   without the new entries. *)
Overlooks(d) == db.cache[d] /= None /\ \E e \in sync.batch \cap Of(d) :
                  e \notin db.cache[d].has /\ <<AuthorOf[e], d>> \notin db.pending

(* ... and from there: the new document is cached and the index bumped. *)
ApplyFinish ==
  LET d == sync.doc
  IN /\ sync.pc = "apply"
     /\ \E out \in Victims(db, d) :
          /\ db' = UpdateIndex(MarkDocDirty(StoreCachedDocument(db, d, sync.result, out), d),
                               d, sync.result.del, "visible", TRUE)
          /\ l2' = FlushVictims(l2, db, out)
     /\ sync' = Processed(d)
     /\ Touch(d, ~(sync.batch \cap Of(d) \subseteq op.read))
     /\ lost' = [lost EXCEPT !.keys = Unhidden(d)]
     /\ UNCHANGED <<store, deps, trusted, keys, flush, recon, heal, outside>>

(* A document that is not in memory is indexed from metadata alone: the first
   sync of all has it in its batch. *)
IndexFromMetadata(d) ==
  LET new == sync.batch \cap Of(d)
  IN /\ Due(d) /\ db.cache[d] = None /\ d \in keys /\ db.cursor = 0
     /\ db' = UpdateIndex(db, d, IsDeleted(new), "visible", TRUE)
     /\ sync' = Processed(d)
     /\ Touch(d, ~(new \subseteq op.read))
     /\ UNCHANGED <<store, deps, l2, trusted, keys, flush, recon, heal, outside, lost>>

(* ... a later one scans the store for it, with its key found ... *)
ScanMetadata(d) ==
  /\ Due(d) /\ db.cache[d] = None /\ d \in keys /\ db.cursor > 0
  /\ sync' = [sync EXCEPT !.pc = "index", !.doc = d,
                          !.result = [has |-> {}, del |-> IsDeleted(Stored \cap Of(d))]]
  /\ UNCHANGED <<store, deps, db, l2, trusted, keys, op, flush, recon, heal, outside, lost>>

(* ... and writes the index when the scan is back. *)
IndexScanned ==
  LET d == sync.doc
  IN /\ sync.pc = "index"
     /\ db' = UpdateIndex(db, d, sync.result.del, "visible", TRUE)
     /\ sync' = Processed(d)
     /\ Touch(d, ~(sync.batch \cap Of(d) \subseteq op.read))
     /\ lost' = [lost EXCEPT !.docs = IF Overlooks(d) THEN @ \cup {d} ELSE @,
                             !.keys = Unhidden(d)]
     /\ UNCHANGED <<store, deps, l2, trusted, keys, flush, recon, heal, outside>>

(* The key is missing, or SymmetricKeyNotFoundError is caught. *)
WithoutKey(d) == /\ Due(d) /\ d \notin keys
                 /\ db.cache[d] /= None => Trusted(sync.batch \cap Of(d)) /= {}

(* A document that is hidden, or not in the index, is left so. *)
SyncWithoutKey(d) ==
  /\ WithoutKey(d) /\ db.index[d].state /= "visible"
  /\ db' = [db EXCEPT !.cache[d] = None]
  /\ l2' = IF db.cache[d] /= None THEN PurgeRecord(l2, d) ELSE l2
  /\ sync' = Processed(d)
  /\ Touch(d, ~(sync.batch \cap Of(d) \subseteq op.read))
  /\ UNCHANGED <<store, deps, trusted, keys, flush, recon, heal, outside, lost>>

(* A visible one is purged, and hidden when its record is deleted. *)
SyncPurge(d) ==
  /\ WithoutKey(d) /\ db.index[d].state = "visible"
  /\ db' = PurgeMaterialized(db, d)
  /\ l2' = PurgeRecord(l2, d)
  /\ sync' = [sync EXCEPT !.pc = "hide", !.doc = d]
  /\ UNCHANGED <<store, deps, trusted, keys, op, flush, recon, heal, outside, lost>>

Hide(s, d) == UpdateIndex(s, d, TRUE, "inaccessible", FALSE)

SyncHide ==
  LET d == sync.doc
  IN /\ sync.pc = "hide"
     /\ db' = [Hide(db, d) EXCEPT !.meta = TRUE]
     /\ sync' = Processed(d)
     /\ Touch(d, ~(sync.batch \cap Of(d) \subseteq op.read))
     /\ lost' = [lost EXCEPT !.docs = IF Overlooks(d) THEN @ \cup {d} ELSE @,
                             !.keys = Unshown(d)]
     /\ UNCHANGED <<store, deps, l2, trusted, keys, flush, recon, heal, outside>>

SyncDone ==
  /\ sync.pc = "docs" /\ sync.todo = {}
  /\ Emit([db EXCEPT !.cursor = sync.next, !.meta = TRUE])
  /\ sync' = NoSync
  /\ UNCHANGED <<store, deps, l2, trusted, keys, op, flush, recon, heal, saved, budget, lost>>

--------------------------------------------------------------------------------
(***************************************************************************)
(* loadDocumentInternal: from the L2 record when there is one, otherwise   *)
(* from all the entries of the store.                                      *)
(***************************************************************************)
FullLoad(d) ==
  LET all == Stored \cap Of(d)
  IN [result |-> [has |-> Trusted(all), del |-> IsDeleted(all)], dirty |-> TRUE,
      read |-> all, pending |-> UnknownAuthors(all, d)]

(* tryLoadFromL2: compares the record's changeSeq with the index. *)
TryLoadFromL2(d) ==
  LET rec == l2.doc[d]
      old == [has |-> rec.has, del |-> rec.del]
      missing == (Stored \cap Of(d)) \ rec.has
      seq == db.index[d].seq
  IN IF rec.seq >= seq
     THEN [result |-> old, dirty |-> rec.seq > seq, read |-> rec.has, pending |-> {}]
     ELSE [result |-> IF Trusted(missing) = {} THEN old
                      ELSE [has |-> rec.has \cup Trusted(missing),
                            del |-> IsDeleted(Stored \cap Of(d))],
           dirty |-> Trusted(missing) /= {}, read |-> rec.has \cup missing,
           pending |-> UnknownAuthors(missing, d)]

(* entries of the store that no sync has processed *)
Ahead == {store[i] : i \in (db.cursor + 1)..Len(store)}

LoadStart(d) ==
  LET usable == l2.doc[d] /= None /\ db.index[d].state /= "none"
      load == IF usable THEN TryLoadFromL2(d) ELSE FullLoad(d)
  IN /\ db.ready /\ op.pc = "idle" /\ d \in keys \cap StoreDocs
     /\ db.cache[d] = None /\ db.index[d].state /= "inaccessible"
     /\ op' = [NoOp EXCEPT !.pc = "load", !.doc = d, !.result = load.result,
                           !.read = load.read, !.dirty = load.dirty]
     /\ db' = RecordPending(db, load.pending)
     /\ l2' = IF usable THEN l2 ELSE PurgeRecord(l2, d)
     /\ lost' = [lost EXCEPT !.early = IF Ahead \cap Of(d) = {} THEN @ ELSE @ \cup {d},
                             !.skipped = IF load.pending = {} THEN @ ELSE @ \cup {d}]
     /\ UNCHANGED <<store, deps, trusted, keys, sync, flush, recon, heal, outside>>

(* While a load is suspended, the document is cached and its record written,
   with less than the load has read. *)
RecordBehind(d) == /\ op.pc = "load" /\ l2.doc[d] /= None
                   /\ l2.doc[d].seq >= db.index[d].seq
                   /\ ~(op.result.has \subseteq l2.doc[d].has)

(* A suspended handler stores a document that misses what a job applied. *)
Lose(d) == lost' = [lost EXCEPT !.docs = IF op.touched \/ RecordBehind(d) THEN @ \cup {d} ELSE @,
                                !.keys = IF op.pc = "stored" THEN Unhidden(d) ELSE @]

LoadFinish ==
  LET d == op.doc
  IN /\ op.pc = "load"
     /\ \E out \in Victims(db, d) :
          LET s == StoreCachedDocument(db, d, op.result, out)
          IN /\ db' = IF op.dirty THEN MarkDocDirty(s, d) ELSE s
             /\ l2' = FlushVictims(l2, db, out)
     /\ op' = NoOp
     /\ Lose(d)
     /\ UNCHANGED <<store, deps, trusted, keys, sync, flush, recon, heal, outside>>

(* A read of a document whose key is gone scrubs the copies. *)
ReadRefused(d) ==
  /\ db.ready /\ op.pc = "idle"
  /\ d \notin keys /\ db.index[d].state /= "inaccessible"
  /\ db.cache[d] /= None \/ l2.doc[d] /= None
  /\ db' = PurgeMaterialized(db, d)
  /\ l2' = PurgeRecord(l2, d)
  /\ UNCHANGED <<store, deps, trusted, keys, jobs, outside, lost>>

(***************************************************************************)
(* A write reads the document, builds the entry (awaits), stores it, and   *)
(* puts the document that was read, with the change, into L1.  `base` is   *)
(* what the change depends on: the patches may start from older heads.     *)
(***************************************************************************)
BeginWrite(e, has, base, del) ==
  /\ op.pc = "idle" /\ db.ready /\ DocOf[e] \in keys
  /\ e \in (Local \cap budget.entries) \ Stored
  /\ op' = [NoOp EXCEPT !.pc = "write", !.doc = DocOf[e], !.entry = e, !.base = base,
                        !.read = has \cup {e}, !.result = [has |-> has \cup {e}, del |-> del]]
  /\ UNCHANGED <<store, deps, db, l2, trusted, keys, sync, flush, recon, heal, outside, lost>>

(* createDocument: with an id that has neither entries nor a document *)
CreateDocument(e) ==
  LET d == DocOf[e]
  IN /\ Kind[e] = "create"
     /\ d \notin StoreDocs /\ db.cache[d] = None /\ db.index[d].state = "none"
     /\ BeginWrite(e, {}, {}, FALSE)

Readable(d) == db.cache[d] /= None /\ ~db.cache[d].del

(* changeDocInternal *)
ChangeDoc(e) ==
  LET c == db.cache[DocOf[e]]
  IN /\ Kind[e] = "change" /\ Readable(DocOf[e])
     /\ BeginWrite(e, c.has, c.has, FALSE)

(* applyTextPatch, applyRichTextPatch and applyJsonPatch: Automerge.changeAt
   on the heads the caller read, merged into the current document. *)
ApplyPatch(e) ==
  LET c == db.cache[DocOf[e]]
      old == {h \in SUBSET c.has : h /= {} /\ \A x \in h : Ancestors(x) \subseteq h}
  IN /\ Kind[e] = "change" /\ Readable(DocOf[e])
     /\ \E base \in old : BeginWrite(e, c.has, base, FALSE)

(* deleteDocInternal and undeleteDocInternal *)
DeleteDoc(e) ==
  LET c == db.cache[DocOf[e]]
  IN /\ Kind[e] = "delete" /\ Readable(DocOf[e])
     /\ BeginWrite(e, c.has, c.has, TRUE)

UndeleteDoc(e) ==
  LET c == db.cache[DocOf[e]]
  IN /\ Kind[e] = "undelete" /\ c /= None
     /\ c.del
     /\ BeginWrite(e, c.has, c.has, FALSE)

(***************************************************************************)
(* applyAutomergeChanges with changes the store already holds: the         *)
(* document in memory takes them, nothing is stored, the index stays.      *)
(***************************************************************************)
ApplyKnownChange(e) ==
  LET d == DocOf[e]
      c == db.cache[d]
  IN /\ op.pc = "idle" /\ db.ready /\ e \in Stored /\ Kind[e] = "change" /\ Readable(d)
     /\ e \notin c.has /\ Ancestors(e) \subseteq c.has
     /\ db' = MarkDocDirty([db EXCEPT !.cache[d].has = @ \cup {e}], d)
     /\ lost' = IF e \in Ahead THEN [lost EXCEPT !.early = @ \cup {d}, !.docs = @ \cup {d}]
                                ELSE lost
     /\ UNCHANGED <<store, deps, l2, trusted, keys, jobs, outside>>

(* assertWriteAllowed or putEntries throws. *)
WriteRefused ==
  /\ op.pc = "write"
  /\ op' = NoOp
  /\ UNCHANGED <<store, deps, db, l2, trusted, keys, sync, flush, recon, heal, outside, lost>>

WritePut ==
  /\ op.pc = "write"
  /\ store' = Append(store, op.entry)
  /\ deps' = [deps EXCEPT ![op.entry] = op.base]
  /\ op' = [op EXCEPT !.pc = "stored"]
  /\ UNCHANGED <<db, l2, trusted, keys, sync, flush, recon, heal, outside, lost>>

WriteFinish ==
  LET d == op.doc
  IN /\ op.pc = "stored"
     /\ \E out \in Victims(db, d) :
          /\ db' = MarkDocDirty(UpdateIndex(StoreCachedDocument(db, d, op.result, out), d,
                                            op.result.del, "visible", Kind[op.entry] /= "create"), d)
          /\ l2' = FlushVictims(l2, db, out)
     /\ op' = NoOp
     /\ Lose(d)
     /\ UNCHANGED <<store, deps, trusted, keys, sync, flush, recon, heal, outside>>

--------------------------------------------------------------------------------
(***************************************************************************)
(* CacheManager.flush: the dirty documents, then the checkpoint, then      *)
(* clearDirty.  A document dirtied again after its record was written is   *)
(* not visited a second time.                                              *)
(***************************************************************************)
FlushStart ==
  /\ flush.pc = "idle" /\ budget.flush > 0
  /\ db.dirty /= {} \/ db.meta
  /\ flush' = [NoFlush EXCEPT !.pc = "docs"]
  /\ budget' = [budget EXCEPT !.flush = @ - 1]
  /\ UNCHANGED <<store, deps, db, l2, trusted, keys, sync, op, recon, heal, feed, saved, lost>>

FlushRecord(d) ==
  /\ flush.pc = "docs" /\ d \in db.dirty \ flush.done
  /\ l2' = IF db.cache[d] = None THEN l2 ELSE FlushDoc(l2, db, d)
  /\ flush' = [flush EXCEPT !.done = @ \cup {d}]
  /\ UNCHANGED <<store, deps, db, trusted, keys, sync, op, recon, heal, outside, lost>>

FlushCheckpoint ==
  /\ flush.pc = "docs" /\ db.dirty \subseteq flush.done
  /\ l2' = [l2 EXCEPT !.meta = Checkpoint(db)]
  /\ flush' = [NoFlush EXCEPT !.pc = "clear"]
  /\ lost' = [lost EXCEPT !.heal = heal, !.skipped = {}, !.passed = {},
                          !.rekeyed = recon.pc = "run" \/ recon.again \/ db.fp /= keys]
  /\ UNCHANGED <<store, deps, db, trusted, keys, sync, op, recon, heal, outside>>

ClearDirty ==
  /\ flush.pc = "clear"
  /\ db' = [db EXCEPT !.dirty = {}, !.meta = FALSE]
  /\ flush' = NoFlush
  /\ UNCHANGED <<store, deps, l2, trusted, keys, sync, op, recon, heal, outside, lost>>

--------------------------------------------------------------------------------
(***************************************************************************)
(* The key bag gains or loses the key of a document.  The event reaches    *)
(* every open database, in this pass of reconcileKeyBagChanges or, when    *)
(* one is in flight, in the next.  A database that is being opened is not  *)
(* among them: it misses the change if it does not compare fingerprints    *)
(* afterwards, or finds them equal again.                                  *)
(***************************************************************************)
KeyBagChanged(d) ==
  /\ d \in Secret /\ budget.key > 0
  /\ keys' = IF d \in keys THEN keys \ {d} ELSE keys \cup {d}
  /\ recon' = [recon EXCEPT !.again = db.ready]
  /\ lost' = [lost EXCEPT !.keys = @ \/ (~db.ready /\ (\/ recon.fresh \/ recon.pc = "run"
                                                       \/ db.fp = keys'))]
  /\ budget' = [budget EXCEPT !.key = @ - 1]
  /\ UNCHANGED <<store, deps, db, l2, trusted, sync, op, flush, heal, feed, saved>>

Pass == [recon EXCEPT !.pc = "run", !.todo = StoreDocs, !.scan = Len(store),
                      !.changed = FALSE, !.fp = keys]

(* reconcileKeyVisibility scans the store, *)
ReconcileStart ==
  /\ recon.pc = "idle" /\ recon.again
  /\ recon' = [Pass EXCEPT !.again = FALSE]
  /\ UNCHANGED <<store, deps, db, l2, trusted, keys, sync, op, flush, heal, outside, lost>>

(* shows or purges each document, *)
ReconcileKeyVisibility(d) ==
  LET visible == db.index[d].state = "visible"
      scanned == {store[i] : i \in 1..recon.scan} \cap Of(d)
  IN /\ recon.doc = None /\ d \in recon.todo
     /\ recon' = [recon EXCEPT !.todo = @ \ {d}, !.doc = IF d \notin keys /\ visible THEN d ELSE @,
                               !.changed = @ \/ visible /= (d \in keys)]
     /\ db' = IF d \notin keys THEN PurgeMaterialized(db, d)
              ELSE IF visible THEN db
              ELSE UpdateIndex(db, d, IsDeleted(scanned), "visible", FALSE)
     /\ l2' = IF d \in keys THEN l2 ELSE PurgeRecord(l2, d)
     /\ UNCHANGED <<store, deps, trusted, keys, sync, op, flush, heal, outside, lost>>

(* hides the one it has purged, *)
ReconcileHide ==
  /\ recon.doc /= None
  /\ db' = Hide(db, recon.doc)
  /\ recon' = [recon EXCEPT !.doc = None]
  /\ UNCHANGED <<store, deps, l2, trusted, keys, sync, op, flush, heal, outside, lost>>

(* and marks the fingerprint; at open, the one taken before the pass. *)
ReconcileEnd ==
  LET fp == IF db.ready THEN keys ELSE recon.fp
  IN /\ recon.pc = "run" /\ recon.todo = {} /\ recon.doc = None
     /\ recon' = [NoRecon EXCEPT !.again = recon.again]
     /\ db' = [db EXCEPT !.fp = fp, !.meta = @ \/ recon.changed \/ db.fp /= fp, !.ready = TRUE]
     /\ UNCHANGED <<store, deps, l2, trusted, keys, sync, op, flush, heal, outside, lost>>

(* The directory grants an author. *)
AuthorTrusted(a) ==
  /\ a \in Unknown \ trusted /\ budget.grant
  /\ trusted' = trusted \cup {a}
  /\ UNCHANGED <<store, deps, db, l2, keys, jobs, outside, lost>>

(* reconcileAuthorTrust: the pending documents of authors now trusted. *)
HealStart ==
  LET ready == {p \in db.pending : p[1] \in trusted}
  IN /\ heal = {} /\ ready /= {}
     /\ heal' = {p[2] : p \in ready}
     /\ db' = [db EXCEPT !.pending = @ \ ready]
     /\ UNCHANGED <<store, deps, l2, trusted, keys, sync, op, flush, recon, outside, lost>>

HealDocument(d) ==
  LET s == PurgeMaterialized(db, d)
      t == IF d \in keys
           THEN UpdateIndex(s, d, IsDeleted(Stored \cap Of(d)), "visible", TRUE) ELSE s
  IN /\ d \in heal
     /\ heal' = heal \ {d}
     /\ db' = IF heal = {d} THEN [t EXCEPT !.meta = TRUE] ELSE t
     /\ l2' = PurgeRecord(l2, d)
     /\ Touch(d, ~(Trusted(Stored \cap Of(d)) \subseteq op.result.has))
     /\ lost' = [lost EXCEPT !.docs = IF sync.pc = "apply" /\ sync.doc = d THEN @ \cup {d} ELSE @,
                             !.unread = IF d \in keys THEN @ ELSE @ \cup {d}]
     /\ UNCHANGED <<store, deps, trusted, keys, sync, flush, recon, outside>>

--------------------------------------------------------------------------------
(* A consumer reads the changefeed (iterateChangesSince). *)
Behind(d) == db.index[d].seq > feed.cursor

(* documents that have moved on since the checkpoint, from a position the
   consumer passes *)
PassedOver(seq) ==
  {o \in Docs : /\ l2.meta /= None
                /\ feed.cursor < l2.meta.index[o].seq /\ l2.meta.index[o].seq <= seq}

FeedRead(d) ==
  LET entry == db.index[d]
      stub == entry.del \/ entry.state /= "visible"
  IN /\ feed.awake /\ db.ready /\ Behind(d)
     /\ \A o \in Docs : Behind(o) => entry.seq <= db.index[o].seq
     /\ stub \/ db.cache[d] /= None
     /\ feed' = [feed EXCEPT !.cursor = entry.seq,
                             !.seen[d] = IF stub THEN {} ELSE db.cache[d].has]
     /\ lost' = [lost EXCEPT !.passed = @ \cup (PassedOver(entry.seq) \ {d})]
     /\ UNCHANGED <<store, deps, db, l2, trusted, keys, jobs, saved, budget>>

FeedEnd ==
  /\ feed.awake /\ db.ready /\ \A d \in Docs : ~Behind(d)
  /\ feed' = [feed EXCEPT !.awake = FALSE]
  /\ UNCHANGED <<store, deps, db, l2, trusted, keys, jobs, saved, budget, lost>>

(* The 0 ms timer of scheduleChangeNotification, held during a sync. *)
NotifyTimer ==
  /\ db.notes /\ sync.pc = "idle"
  /\ Emit(db)
  /\ UNCHANGED <<store, deps, l2, trusted, keys, jobs, saved, budget, lost>>

(* The consumer persists its cursor (view and index caches). *)
FeedSave ==
  /\ budget.save > 0 /\ saved.cursor /= feed.cursor
  /\ saved' = [cursor |-> feed.cursor, seen |-> feed.seen]
  /\ budget' = [budget EXCEPT !.save = @ - 1]
  /\ UNCHANGED <<store, deps, db, l2, trusted, keys, jobs, feed, lost>>

--------------------------------------------------------------------------------
(***************************************************************************)
(* The process stops at any step and opens the database again:             *)
(* restoreFromCache, then (initialize) a sync and the reconciliations.     *)
(***************************************************************************)
Records == {d \in Docs : l2.doc[d] /= None}

(* the records an eager restore reads, up to cacheRestoreLimit *)
Restorable ==
  {T \in SUBSET Records : Cardinality(T) = IF Cardinality(Records) < MaxCached
                                           THEN Cardinality(Records) ELSE MaxCached}

RestoreFromCache(m, T) ==
  [Closed EXCEPT !.cursor = m.cursor, !.index = m.index, !.next = m.next,
                 !.pending = m.pending, !.fp = m.fp,
                 !.cache = [d \in Docs |-> IF d \in T \cap keys
                                           THEN [has |-> l2.doc[d].has, del |-> l2.doc[d].del]
                                           ELSE None]]

(***************************************************************************)
(* The windows `lost` remembers: a record newer than the checkpoint (the   *)
(* stop fell between the two writes), a record restored eagerly that is    *)
(* older than the checkpoint or newer than its cursor, an author recorded  *)
(* as pending after the checkpoint, a checkpoint written while authors     *)
(* were healed, a consumer whose cursor is ahead of the restored changeSeq *)
(* counter or of a position it has passed over, and a checkpoint written   *)
(* while keys were to be reconciled whose fingerprint is current again.    *)
(***************************************************************************)
LoseAtRestart(m, T) ==
  LET seq(d) == IF m = None THEN 0 ELSE m.index[d].seq
      next == IF m = None THEN 1 ELSE m.next
      hidden == {d \in T \cap keys : m.index[d].state /= "visible"}
      ahead == {d \in T \cap keys : ~(l2.doc[d].has \subseteq {store[i] : i \in 1..m.cursor})}
  IN [docs |-> lost.docs \cup lost.stale \cup lost.heal \cup lost.skipped
                         \cup {d \in Records : l2.doc[d].seq > seq(d)},
      stale |-> {d \in T \cap keys : l2.doc[d].seq < seq(d)} \cup hidden,
      early |-> lost.early \cup hidden \cup ahead,
      passed |-> lost.passed, unread |-> lost.unread \cup lost.passed,
      feed |-> lost.feed \/ saved.cursor >= next,
      heal |-> lost.heal, skipped |-> {}, rekeyed |-> lost.rekeyed,
      keys |-> lost.keys \/ (lost.rekeyed /\ m.fp = keys)]

Restart ==
  /\ budget.restart > 0
  /\ \E T \in IF RestoreToL2 \/ l2.meta = None THEN {{}} ELSE Restorable :
       /\ db' = IF l2.meta = None THEN Closed ELSE RestoreFromCache(l2.meta, T)
       /\ l2' = [l2 EXCEPT !.doc = [d \in Docs |-> IF d \in T \ keys THEN None ELSE @[d]]]
       /\ lost' = LoseAtRestart(l2.meta, T)
  /\ sync' = NoSync /\ op' = NoOp /\ flush' = NoFlush /\ heal' = {}
  /\ recon' = [NoRecon EXCEPT !.fresh = l2.meta = None]
  /\ feed' = [cursor |-> saved.cursor, seen |-> saved.seen, awake |-> TRUE]
  /\ budget' = [budget EXCEPT !.restart = @ - 1]
  /\ UNCHANGED <<store, deps, trusted, keys, saved>>

AtEnd == ~db.ready /\ recon.pc = "idle" /\ sync.pc = "idle" /\ db.cursor = Len(store)
Opened == [db EXCEPT !.fp = keys, !.meta = @ \/ db.fp /= keys, !.ready = TRUE]

(* Mutant: the key bag is taken to be the one of the checkpoint. *)
InitializedUnreconciled ==
  /\ AtEnd
  /\ db' = Opened /\ recon' = NoRecon
  /\ UNCHANGED <<store, deps, l2, trusted, keys, sync, op, flush, heal, outside, lost>>

(* initialize: keys are reconciled first, when the key bag is not the one of the
   checkpoint. *)
Initialized ==
  /\ AtEnd
  /\ IF recon.fresh \/ db.fp = keys THEN db' = Opened /\ recon' = NoRecon
                                    ELSE db' = db /\ recon' = Pass
  /\ UNCHANGED <<store, deps, l2, trusted, keys, sync, op, flush, heal, outside, lost>>

SyncStep == \/ SyncStart \/ ApplyFinish \/ IndexScanned \/ SyncHide \/ SyncDone
            \/ \E d \in Docs : \/ ApplyNewEntries(d) \/ IndexFromMetadata(d) \/ ScanMetadata(d)
                               \/ SyncWithoutKey(d) \/ SyncPurge(d)
LoadStep == LoadFinish \/ \E d \in Docs : LoadStart(d)
WriteStep == WritePut \/ WriteFinish
ReconcileStep == \/ HealStart \/ ReconcileStart \/ ReconcileHide \/ ReconcileEnd
                 \/ \E d \in Docs : HealDocument(d) \/ ReconcileKeyVisibility(d)
FeedStep == FeedEnd \/ NotifyTimer \/ \E d \in Docs : FeedRead(d)
FlushStep == FlushCheckpoint \/ ClearDirty \/ \E d \in Docs : FlushRecord(d)

Next ==
  \/ SyncStep \/ LoadStep \/ WriteStep \/ ReconcileStep \/ FeedStep \/ FlushStep
  \/ Initialized \/ FlushStart \/ FeedSave \/ Restart \/ WriteRefused
  \/ \E e \in Entries : Receive(e) \/ CreateDocument(e) \/ ChangeDoc(e) \/ ApplyPatch(e)
                          \/ DeleteDoc(e) \/ UndeleteDoc(e) \/ ApplyKnownChange(e)
  \/ \E d \in Docs : ReadRefused(d) \/ KeyBagChanged(d)
  \/ \E a \in Unknown : AuthorTrusted(a)

Spec == Init /\ [][Next]_vars

--------------------------------------------------------------------------------
(* entries the cursor has passed and the database owes its readers *)
Owed(d) == {e \in Of(d) : /\ \E i \in 1..db.cursor : store[i] = e
                          /\ AuthorOf[e] \in trusted /\ <<AuthorOf[e], d>> \notin db.pending}

(***************************************************************************)
(* A document in memory has every entry of a trusted author that the       *)
(* cursor has passed, or the author is still recorded as pending, or its   *)
(* re-materialization is under way: the cursor never moves past an entry   *)
(* that nothing remembers.                                                 *)
(***************************************************************************)
CacheComplete ==
  \A d \in Docs \ (lost.docs \cup lost.stale \cup heal) :
    db.cache[d] /= None /\ d \in keys => Owed(d) \subseteq db.cache[d].has

(***************************************************************************)
(* The same of what a load would return from L2: a record that the index   *)
(* declares current is complete.                                           *)
(***************************************************************************)
RecordComplete ==
  \A d \in Records \ (lost.docs \cup lost.stale \cup heal) :
    /\ db.index[d].state = "visible" /\ d \in keys
    /\ l2.doc[d].seq >= db.index[d].seq
    => Owed(d) \subseteq l2.doc[d].has

Quiet == /\ db.ready /\ sync.pc = "idle" /\ op.pc = "idle" /\ heal = {}
         /\ recon.pc = "idle" /\ ~recon.again

(* When nothing is in flight, every event of the key bag is consumed and
   every entry is processed, a document of the store is visible exactly when
   its key is there, unless the key changed and was reconciled while a handler
   was between its look at the key and its write of the index (lost.keys). *)
VisibleIffKey ==
  Quiet /\ ~lost.keys /\ db.cursor = Len(store) => \A d \in StoreDocs \ lost.early :
    (db.index[d].state = "visible") = (d \in keys)

(* A change of the index is never left without a wake-up of the consumer. *)
NoMissedWakeup == (\E d \in Docs : Behind(d)) => feed.awake \/ db.notes

(* A consumer that has read to the end of the feed has seen every entry, and
   it is woken up to do so. *)
FeedComplete ==
  /\ NoMissedWakeup
  /\ Quiet /\ ~lost.feed /\ (\A d \in Docs : ~Behind(d)) =>
       \A d \in Docs \ (lost.docs \cup lost.stale \cup lost.early \cup lost.unread) :
         db.index[d].state = "visible" /\ ~db.index[d].del => Owed(d) \subseteq feed.seen[d]
================================================================================
