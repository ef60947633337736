-------------------------- MODULE OnDiskStoreProofs --------------------------
(***************************************************************************)
(* What BasicOnDiskContentAddressedStore keeps through every interleaving  *)
(* of puts, receipts and purges, every crash and every restart: what its   *)
(* state looks like, and that an acknowledged entry keeps its metadata,    *)
(* its payload and its place in the index.                                 *)
(***************************************************************************)
EXTENDS OnDiskStore, FiniteSetTheorems, WellFoundedInduction, TLAPS

(* What a call under way may look like in the code it has reached.          *)
CallOK(r) ==
  /\ r.kind = "none" => r.step = "next"
  /\ r.step \in {"meta", "index"} => r.id \in Ids
  /\ r.step = "meta" => r.kind \in {"put", "receipts"}
  /\ r.step = "hashes" => r.kind = "purge"
  /\ r.step = "index" /\ r.kind # "purge" => r.meta # Absent
  /\ r.kind = "put" => r.batch \subseteq Incoming
  /\ r.kind = "purge" =>
       /\ r.doc \in Purgeable
       /\ \A i \in r.todo : DocOf[i] = r.doc
       /\ r.step = "index" => DocOf[r.id] = r.doc
       /\ r.hashes \subseteq {HashOf[i] : i \in {j \in Ids : DocOf[j] = r.doc}}

CallsOK == \A t \in Tasks : CallOK(tasks[t])

(* Calls run only while the store is up.                                    *)
CallsOnlyUp == phase # "up" => Idle

TypeInv == StateOK /\ CallsOK /\ CallsOnlyUp

-----------------------------------------------------------------------------
(* The feed                                                                *)

(* What snapshot and log say of an entry: the last segment that mentions it, *)
(* or the snapshot.                                                          *)
Silent(log, i) == \A k \in DOMAIN log : log[k].records[i] = Unlogged
LastSays(log, i, m) ==
  \E k \in DOMAIN log :
    log[k].records[i] = m /\ \A l \in DOMAIN log : k < l => log[l].records[i] = Unlogged
DiskHas(snap, log, i, m) ==
  (m # Absent /\ LastSays(log, i, m)) \/ (Silent(log, i) /\ snap[i] = m)

(* Segments have been written in the order of their names.                   *)
InOrder(log) == \A k, l \in DOMAIN log : k < l => log[k].time < log[l].time

(* A store that is not up: the disk says of every entry what its file says,  *)
(* or nothing yet.  An index rebuilt from the files is what replaces it.     *)
Numbered(idx, n) == \A i \in In(idx) : idx[i].order < n
Booting ==
  phase # "up" =>
    /\ phase \in {"down", "epoch", "load", "persist", "clear"}
    /\ \A i \in Ids : \/ DiskHas(snapshot, segments, i, files[i])
                      \/ DiskHas(snapshot, segments, i, Absent)
    /\ phase \in {"persist", "clear"} => index = files /\ Numbered(files, next)
    /\ phase = "clear" => snapshot = files

(* A store that is up, seen from the call r that writes: the index is what   *)
(* the files say except for the entry whose file has just been written, with *)
(* a number beyond all that the index has and beyond the peer's cursor; the  *)
(* disk says what the index says except for what the call has yet to log.    *)
Working(r) == r.step \in {"next", "meta", "index"}
FilesFollow(r, fs, idx, p) ==
  /\ r.kind = "put" /\ r.step \in {"meta", "index"} => idx[r.id] = Absent
  /\ \A i \in Ids : idx[i] = fs[i] \/ (r.step = "index" /\ r.id = i)
  /\ r.step = "index" =>
       /\ fs[r.id] = r.meta /\ Numbered(idx, r.meta.order)
       /\ p.epoch # 0 => p.cursor.order < r.meta.order
DiskFollows(r, idx, snap, log) ==
  /\ \A i \in Ids : Working(r) /\ r.records[i] # Unlogged =>
       /\ r.records[i] = idx[i] /\ idx[i] # Absent
       /\ r.kind = "put" => Silent(log, i) /\ snap[i] = Absent
  /\ \A i \in Ids : (Working(r) /\ r.records[i] # Unlogged) \/ DiskHas(snap, log, i, idx[i])
  /\ r.step = "persist" => r.snap = idx /\ Range(log) \subseteq r.covered
  /\ r.step = "clear" => snap = idx /\ Range(log) \subseteq r.covered
Follows(r, fs, idx, snap, log, p) ==
  /\ r.step \notin {"append", "hashes"}
  /\ FilesFollow(r, fs, idx, p) /\ DiskFollows(r, idx, snap, log)

Alone(t) == \A u \in Tasks : u # t => tasks[u].kind = "none"
Running ==
  phase = "up" =>
    /\ Numbered(files, next)
    /\ \/ Idle /\ Follows(NoTask, files, index, snapshot, segments, peer)
       \/ \E t \in Tasks : /\ tasks[t].kind \in {"put", "receipts"} /\ Alone(t)
                           /\ Follows(tasks[t], files, index, snapshot, segments, peer)

(* The peer's epoch is the store's, its cursor is not beyond every file, and *)
(* it has all that it has passed, of the files and of the index.             *)
PeerHas(p, idx) ==
  \A i \in In(idx) : Precedes(p.cursor, Position(idx, i)) \/ p.seen[i] = idx[i].receipt
EpochKept ==
  /\ peer.epoch \in {0, epochFile}
  /\ phase \in {"load", "persist", "clear", "up"} => epoch = epochFile /\ epoch # 0
PeerKept ==
  peer.epoch # 0 =>
    /\ \E i \in In(files) : peer.cursor.order <= files[i].order
    /\ PeerHas(peer, files)
    /\ phase = "up" => PeerHas(peer, index)

Calm == Booting /\ Running /\ InOrder(segments) /\ EpochKept /\ PeerKept
FeedInv == upset = {} => Calm

-----------------------------------------------------------------------------
(* Durability                                                              *)

(* The write chain: one call at a time puts entries or applies receipts.    *)
Writer(t) == tasks[t].kind \in {"put", "receipts"}
OneWriter == \A t, u \in Tasks : Writer(t) /\ Writer(u) => t = u

(* There is no index before it is loaded, and one that was rebuilt names    *)
(* the entries that have files.                                             *)
RebuiltIndex ==
  /\ phase \in {"down", "migrate", "epoch", "load"} => In(index) = {}
  /\ phase \in {"migrated", "persist", "clear"} => In(index) = In(files)

(* An acknowledged entry has its file, its payload and, while the store is  *)
(* up, its index entry, and no purge under way is about it or its payload.  *)
AckedPart ==
  \A i \in acked :
    /\ files[i] # Absent /\ HashOf[i] \in content
    /\ phase = "up" => index[i] # Absent
    /\ \A t \in Tasks : tasks[t].kind = "purge" =>
         /\ DocOf[i] # tasks[t].doc
         /\ tasks[t].step = "hashes" => HashOf[i] \notin tasks[t].hashes

(* An entry that may be put and has a file has its payload, and its index   *)
(* entry unless the writer is about to make it.                             *)
IncomingPart ==
  \A i \in Incoming :
    /\ files[i] # Absent => HashOf[i] \in content
    /\ index[i] # Absent => files[i] # Absent
    /\ phase = "up" /\ files[i] # Absent /\ index[i] = Absent
         => \E t \in Tasks : Writer(t) /\ tasks[t].step = "index" /\ tasks[t].id = i

(* Of a put under way, an entry is still to do, in work, or stored, and     *)
(* nothing is left to do once it writes its segment; what may be put and is *)
(* in work has its payload, and then its file.                              *)
InWork(t, i) ==
  /\ tasks[t].id = i
  /\ \/ tasks[t].step = "meta" /\ HashOf[i] \in content
     \/ tasks[t].step = "index" /\ files[i] # Absent
PutPart ==
  \A t \in Tasks :
    /\ tasks[t].kind = "put" => \A i \in tasks[t].batch :
         i \in tasks[t].todo \/ InWork(t, i) \/ (files[i] # Absent /\ index[i] # Absent)
    /\ tasks[t].kind = "put" /\ tasks[t].step \in {"list", "persist", "clear"} => tasks[t].todo = {}
    /\ Writer(t) /\ tasks[t].step = "meta" /\ tasks[t].id \in Incoming => HashOf[tasks[t].id] \in content
    /\ Writer(t) /\ tasks[t].step = "index" /\ tasks[t].id \in Incoming => files[tasks[t].id] # Absent

DurInv == OneWriter /\ RebuiltIndex /\ AckedPart /\ IncomingPart /\ PutPart

(* The documents that are purged are not put, and no entry that is put     *)
(* shares its payload with one of theirs: the server refuses pushes of      *)
(* documents on its denylist (SyncServer), and payloads are encrypted with  *)
(* a random IV unless a tenant chooses otherwise for attachments.  Without  *)
(* it the code does lose what it acknowledged: purgeDocHistory runs outside *)
(* the write chain and can delete the files of a put that is under way.     *)
(* Every scenario of MCFiles keeps to it.                                   *)
PurgedStayOut ==
  \A i \in Incoming, j \in Ids : HashOf[i] = HashOf[j] => DocOf[j] \notin Purgeable

-----------------------------------------------------------------------------
(* Operators                                                               *)

LEMMA NoIndexTyped == NoIndex \in Index
BY DEF NoIndex, Index

LEMMA NoRecordsTyped == NoRecords \in Records
BY DEF NoRecords, Records

(* Writing one entry of an index or of the records of a segment.            *)
LEMMA WithMeta ==
  ASSUME NEW idx \in Index, NEW i, NEW m \in Meta \cup {Absent}
  PROVE  /\ [idx EXCEPT ![i] = m] \in Index
         /\ \A j \in Ids : [idx EXCEPT ![i] = m][j] = IF j = i THEN m ELSE idx[j]
BY DEF Index

LEMMA WithRecord ==
  ASSUME NEW rs \in Records, NEW i, NEW m \in Meta \cup {Absent}
  PROVE  [rs EXCEPT ![i] = m] \in Records
BY DEF Records

(* The fields of a call.                                                    *)
LEMMA TaskFields ==
  ASSUME NEW r \in Task
  PROVE  /\ r.kind \in {"none", "put", "receipts", "purge"}
         /\ r.step \in {"next", "meta", "index", "hashes", "append", "list", "persist", "clear"}
         /\ r.batch \in SUBSET Ids /\ r.todo \in SUBSET Ids /\ r.id \in Ids \cup {0}
         /\ r.meta \in Meta \cup {Absent} /\ r.stamp \in Receipts /\ r.doc \in Docs \cup {Absent}
         /\ r.hashes \in SUBSET Hashes /\ r.records \in Records /\ r.snap \in Index
         /\ r.covered \in SUBSET Segment
BY DEF Task

LEMMA NoTaskOK == NoTask \in Task /\ CallOK(NoTask) /\ NoTask.kind = "none"
BY NoIndexTyped, NoRecordsTyped DEF NoTask, Task, CallOK, Receipts

(* One call gets a new record.                                              *)
LEMMA UpdateOne ==
  ASSUME TypeInv, NEW t \in Tasks, NEW r \in Task, Update(t, r)
  PROVE  /\ tasks' \in [Tasks -> Task] /\ tasks'[t] = r
         /\ \A u \in Tasks : u # t => tasks'[u] = tasks[u]
BY DEF TypeInv, StateOK, Update

LEMMA UpdateOK ==
  ASSUME TypeInv, NEW t \in Tasks, NEW r \in Task, CallOK(r), Update(t, r)
  PROVE  tasks' \in [Tasks -> Task] /\ CallsOK'
<1>1. \A u \in Tasks : CallOK(tasks'[u])
  BY UpdateOne DEF TypeInv, CallsOK
<1>2. CallsOK' <=> \A u \in Tasks : CallOK(tasks'[u])
  BY DEF CallsOK, CallOK
<1> QED BY <1>1, <1>2, UpdateOne

(* A finite set of numbers that is not empty has a greatest member.         *)
LEMMA GreatestExists ==
  ASSUME NEW S \in SUBSET Nat, IsFiniteSet(S), S # {}
  PROVE  \E m \in S : \A n \in S : n <= m
<1> DEFINE above(m) == {n \in S : m < n}
           sizes == {Cardinality(above(m)) : m \in S}
           less == OpToRel(<, Nat)
<1>1. \A m \in S : IsFiniteSet(above(m)) /\ Cardinality(above(m)) \in Nat
  <2> TAKE m \in S
  <2>1. above(m) \in SUBSET S
    OBVIOUS
  <2> QED BY <2>1, FS_Subset, FS_CardinalityType
<1>2. sizes \subseteq Nat /\ sizes # {}
  BY <1>1
<1>3. \E n \in sizes : \A k \in sizes : <<k, n>> \notin less
  <2> HIDE DEF sizes, less
  <2> QED BY <1>2, WFMin, NatLessThanWellFounded DEF less
<1>4. PICK m \in S : \A k \in sizes : ~(k < Cardinality(above(m)))
  <2>1. PICK n \in sizes : \A k \in sizes : <<k, n>> \notin less
    BY <1>3
  <2>2. \A k \in sizes : ~(k < n)
    BY <2>1, <1>2 DEF OpToRel
  <2>3. PICK m \in S : n = Cardinality(above(m))
    BY <2>1
  <2> QED BY <2>2, <2>3
<1>5. ASSUME NEW n \in S, m < n
      PROVE  FALSE
  <2>1. above(n) \subseteq above(m) /\ n \in above(m) /\ n \notin above(n)
    <3>1. S \subseteq Nat
      OBVIOUS
    <3>2. \A k \in S : n < k => m < k
      BY <1>5, <3>1
    <3>3. ~(n < n)
      BY <3>1
    <3> QED BY <1>5, <3>2, <3>3
  <2>2. Cardinality(above(n)) <= Cardinality(above(m)) /\ Cardinality(above(n)) # Cardinality(above(m))
    <3> HIDE DEF above
    <3> QED BY <2>1, <1>1, FS_Subset
  <2>3. ~(Cardinality(above(n)) < Cardinality(above(m)))
    BY <1>4
  <2> HIDE DEF above
  <2> QED BY <2>2, <2>3, <1>1
<1> QED BY <1>5

(* recomputeNextReceiptOrder gives a number beyond every receiptOrder.      *)
LEMMA NextAfterBeyond ==
  ASSUME NEW idx \in Index
  PROVE  NextAfter(idx) \in Nat \ {0} /\ \A i \in In(idx) : idx[i].order < NextAfter(idx)
<1> DEFINE S == {0} \cup {idx[i].order : i \in In(idx)}
<1>1. \A i \in In(idx) : i \in Ids /\ idx[i].order \in Nat
  BY DEF In, Index, Meta
<1>2. S \in SUBSET Nat /\ S # {}
  BY <1>1
<1>3. IsFiniteSet(S)
  <2> DEFINE f == [i \in In(idx) |-> idx[i].order]
  <2>1. IsFiniteSet(In(idx))
    BY IdsAssumption, FS_Subset DEF In
  <2>2. f \in Surjection(In(idx), {idx[i].order : i \in In(idx)})
    BY DEF Surjection
  <2>3. IsFiniteSet({idx[i].order : i \in In(idx)})
    BY <2>1, <2>2, FS_Surjection
  <2> QED BY <2>3, FS_Singleton, FS_Union
<1>4. PICK m \in S : \A n \in S : n <= m
  BY <1>2, <1>3, GreatestExists
<1>5. \A i \in In(idx) : idx[i].order <= m
  BY <1>4
<1>6. MaxIn(idx) \in S /\ \A i \in In(idx) : idx[i].order <= MaxIn(idx)
  BY <1>4, <1>5 DEF MaxIn
<1> QED BY <1>1, <1>2, <1>6 DEF NextAfter

(* Segments in the order of their names.                                    *)
LEMMA SortedTyped ==
  ASSUME NEW s \in Seq(Segment), NEW p \in Sorted(s)
  PROVE  DOMAIN p = 1 .. Len(s) /\ \A k \in DOMAIN p : p[k].records \in Records
<1>1. DOMAIN s = 1 .. Len(s) /\ \A k \in DOMAIN s : s[k].records \in Records
  <2>1. DOMAIN s = 1 .. Len(s) /\ \A k \in DOMAIN s : s[k] \in Segment
    OBVIOUS
  <2>2. \A g \in Segment : g.records \in Records
    BY DEF Segment
  <2> QED BY <2>1, <2>2
<1>2. PICK f \in Bijection(DOMAIN s, DOMAIN s) : p = [k \in DOMAIN s |-> s[f[k]]]
  BY DEF Sorted
<1>3. \A k \in DOMAIN s : f[k] \in DOMAIN s
  BY DEF Bijection, Injection, Surjection
<1> QED BY <1>1, <1>2, <1>3

(* The last record that says something of an entry.                         *)
LEMMA LastRecordOf ==
  ASSUME NEW n \in Nat, NEW p, DOMAIN p = 1 .. n, NEW i,
         LastRecord(p, i) # 0
  PROVE  LastRecord(p, i) \in DOMAIN p /\ p[LastRecord(p, i)].records[i] # Unlogged
<1> DEFINE at == {k \in DOMAIN p : p[k].records[i] # Unlogged}
<1>1. at # {}
  BY DEF LastRecord
<1>2. at \in SUBSET Nat /\ IsFiniteSet(at)
  <2>1. at \in SUBSET (1 .. n) /\ 1 .. n \subseteq Nat
    OBVIOUS
  <2>2. IsFiniteSet(1 .. n)
    BY FS_Interval
  <2> HIDE DEF at
  <2> QED BY <2>1, <2>2, FS_Subset
<1>3. \E k \in at : \A l \in at : l <= k
  <2> HIDE DEF at
  <2> QED BY <1>1, <1>2, GreatestExists
<1>4. LastRecord(p, i) = CHOOSE k \in at : \A l \in at : l <= k
  BY <1>1 DEF LastRecord
<1>5. LastRecord(p, i) \in at
  <2> HIDE DEF at
  <2> QED BY <1>3, <1>4
<1> QED BY <1>5

(* Replaying segments gives an index.                                       *)
LEMMA ReplayTyped ==
  ASSUME NEW idx \in Index, NEW s \in Seq(Segment), NEW p \in Sorted(s)
  PROVE  Replay(idx, p) \in Index
<1>1. DOMAIN p = 1 .. Len(s) /\ Len(s) \in Nat /\ \A k \in DOMAIN p : p[k].records \in Records
  BY SortedTyped
<1>2. ASSUME NEW i \in Ids
      PROVE  (IF LastRecord(p, i) = 0 THEN idx[i] ELSE p[LastRecord(p, i)].records[i]) \in Meta \cup {Absent}
  <2>1. CASE LastRecord(p, i) = 0
    BY <2>1 DEF Index
  <2>2. CASE LastRecord(p, i) # 0
    <3>1. LastRecord(p, i) \in DOMAIN p /\ p[LastRecord(p, i)].records[i] # Unlogged
      BY <1>1, <2>2, LastRecordOf
    <3>2. p[LastRecord(p, i)].records \in Records
      BY <1>1, <3>1
    <3> QED BY <2>2, <3>1, <3>2 DEF Records
  <2> QED BY <2>1, <2>2
<1> QED BY <1>2 DEF Replay, Index

(* The last position of some entries of an index.                           *)
LEMMA LastPosition ==
  ASSUME NEW idx \in Index, NEW new \in SUBSET In(idx), new # {}
  PROVE  \E c \in {Position(idx, i) : i \in new} : \A i \in new : ~Precedes(c, Position(idx, i))
<1>1. IsFiniteSet(new) /\ new \subseteq Ids
  BY IdsAssumption, FS_Subset DEF In
<1>2. \A i \in new : idx[i].order \in Nat /\ i \in Nat
  BY IdsAssumption DEF In, Index, Meta
<1> DEFINE orders == {idx[i].order : i \in new}
<1>3. orders \in SUBSET Nat /\ orders # {} /\ IsFiniteSet(orders)
  <2> DEFINE f == [i \in new |-> idx[i].order]
  <2>1. f \in Surjection(new, orders)
    BY DEF Surjection
  <2> QED BY <1>1, <1>2, <2>1, FS_Surjection
<1>4. PICK m \in orders : \A n \in orders : n <= m
  <2> HIDE DEF orders
  <2> QED BY <1>3, GreatestExists
<1> DEFINE top == {i \in new : idx[i].order = m}
<1>5. top \in SUBSET Nat /\ top # {} /\ IsFiniteSet(top)
  BY <1>1, <1>2, <1>4, FS_Subset
<1>6. PICK i \in top : \A j \in top : j <= i
  <2> HIDE DEF top
  <2> QED BY <1>5, GreatestExists
<1>7. ASSUME NEW j \in new
      PROVE  ~Precedes(Position(idx, i), Position(idx, j))
  <2>1. idx[j].order <= m /\ idx[i].order = m /\ idx[j].order \in Nat /\ m \in Nat
    BY <1>2, <1>4, <1>6
  <2>2. idx[j].order = m => j <= i
    BY <1>6
  <2>3. i \in Nat /\ j \in Nat
    BY <1>2, <1>6
  <2> QED BY <2>1, <2>2, <2>3 DEF Precedes, Position
<1> QED BY <1>6, <1>7

-----------------------------------------------------------------------------
(* The state is what it should look like                                   *)

LEMMA InitTyped == Init => TypeInv
<1> SUFFICES ASSUME NEW had \in Installations, InitWith(had)
             PROVE  TypeInv
  BY DEF Init
<1>1. had.entries \subseteq Ids /\ had.legacy \in BOOLEAN
  BY EntriesAssumption
<1>2. \A i \in Ids : FirstMeta(had, i) \in Meta
  <2> TAKE i \in Ids
  <2>1. IsFiniteSet({j \in had.entries : j <= i})
    BY <1>1, IdsAssumption, FS_Subset
  <2>2. Cardinality({j \in had.entries : j <= i}) \in Nat
    BY <2>1, FS_CardinalityType
  <2> HIDE DEF FirstMeta
  <2> QED BY <2>2 DEF FirstMeta, Meta, Receipts
<1>3. files \in Index /\ snapshot \in Index /\ index \in Index
  BY <1>2, NoIndexTyped DEF InitWith, Index
<1>4. segments \in Seq(Segment)
  <2> DEFINE g == [time |-> 0, records |-> [i \in Ids |->
                     IF i \in had.entries THEN FirstMeta(had, i) ELSE Unlogged]]
  <2>1. g \in Segment
    BY <1>2 DEF Segment, Records
  <2>2. segments = IF had.entries = {} THEN <<>> ELSE <<g>>
    BY DEF InitWith
  <2> HIDE DEF g
  <2> QED BY <2>1, <2>2
<1>5. content \subseteq Hashes /\ acked \subseteq Ids /\ erased \subseteq Docs
  BY <1>1, EntriesAssumption DEF InitWith, Hashes, Range
<1>6. tasks \in [Tasks -> Task] /\ CallsOK /\ Idle
  BY NoTaskOK DEF InitWith, CallsOK, Idle
<1>7. peer \in [epoch : Nat, cursor : Cursor, seen : [Ids -> Receipts \cup {Absent}]]
  BY DEF InitWith, StartCursor, Cursor
<1>8. /\ epochFile = 0 /\ phase = "down" /\ next = 1 /\ epoch = 0 /\ epochs = 0
      /\ stops = 0 /\ crashes = 0
  BY DEF InitWith
<1> QED BY <1>3, <1>4, <1>5, <1>6, <1>7, <1>8 DEF TypeInv, StateOK, CallsOnlyUp, Phases

(* A call that has begun runs in a store that is up.                        *)
LEMMA ActiveUp ==
  ASSUME TypeInv, NEW t \in Tasks, tasks[t].step # "next" \/ tasks[t].kind # "none"
  PROVE  phase = "up" /\ tasks[t].kind # "none"
BY DEF TypeInv, CallsOK, CallOK, CallsOnlyUp, Idle

(* A step of a call keeps the types if its new record and what it writes    *)
(* have theirs.                                                             *)
LEMMA CallTyped ==
  ASSUME TypeInv, NEW t \in Tasks, NEW r \in Task, CallOK(r), Update(t, r), phase = "up", Quiet,
         files' \in Index, snapshot' \in Index, index' \in Index, content' \subseteq Hashes,
         segments' \in Seq(Segment), next' \in Nat \ {0}, acked' \subseteq Ids, erased' \subseteq Docs
  PROVE  TypeInv'
<1>1. tasks' \in [Tasks -> Task] /\ CallsOK'
  BY UpdateOK
<1>2. StateOK'
  BY <1>1 DEF TypeInv, StateOK, Quiet
<1>3. CallsOnlyUp'
  BY DEF Quiet, CallsOnlyUp
<1> QED BY <1>1, <1>2, <1>3 DEF TypeInv

(* What the call of a task may have in its fields.                          *)
LEMMA CallKnown ==
  ASSUME TypeInv, NEW t \in Tasks
  PROVE  tasks[t] \in Task /\ CallOK(tasks[t])
BY DEF TypeInv, StateOK, CallsOK

(* Returning empties the record of the call.                                *)
LEMMA FinishTyped ==
  ASSUME TypeInv, NEW t \in Tasks, Finish(t)
  PROVE  Update(t, NoTask) /\ acked' \subseteq Ids /\ erased' \subseteq Docs
<1>1. tasks[t].batch \subseteq Ids
  BY CallKnown, TaskFields
<1>2. tasks[t].kind = "purge" => tasks[t].doc \in Docs
  BY CallKnown, EntriesAssumption DEF CallOK, Docs
<1> QED BY <1>1, <1>2 DEF Finish, TypeInv, StateOK

-----------------------------------------------------------------------------
(* The steps of initialize                                                  *)

LEMMA StartTyped ==
  ASSUME TypeInv, Start
  PROVE  TypeInv'
<1>1. StateOK'
  BY DEF Start, TypeInv, StateOK, Phases, disk, rest
<1>2. CallsOK' /\ CallsOnlyUp'
  BY DEF Start, TypeInv, CallsOK, CallsOnlyUp, Idle, rest
<1> QED BY <1>1, <1>2 DEF TypeInv

LEMMA MigrateFileTyped ==
  ASSUME TypeInv, NEW i \in Ids, MigrateFile(i)
  PROVE  TypeInv'
<1>1. files' \in Index
  <2>1. files[i] \in Meta /\ next \in Nat
    BY DEF MigrateFile, In, TypeInv, StateOK, Index
  <2>2. [files[i] EXCEPT !.order = next] \in Meta
    BY <2>1 DEF Meta
  <2>3. files' = [files EXCEPT ![i] = [files[i] EXCEPT !.order = next]]
    BY DEF MigrateFile
  <2> QED BY <2>2, <2>3, WithMeta DEF TypeInv, StateOK
<1>2. StateOK'
  BY <1>1 DEF MigrateFile, TypeInv, StateOK, Phases, rest
<1>3. CallsOK' /\ CallsOnlyUp'
  BY DEF MigrateFile, TypeInv, CallsOK, CallsOnlyUp, Idle, rest
<1> QED BY <1>2, <1>3 DEF TypeInv

LEMMA MigratedTyped ==
  ASSUME TypeInv, Migrated
  PROVE  TypeInv'
<1>1. StateOK'
  BY DEF Migrated, TypeInv, StateOK, Phases, rest
<1>2. CallsOK' /\ CallsOnlyUp'
  BY DEF Migrated, TypeInv, CallsOK, CallsOnlyUp, Idle, rest
<1> QED BY <1>1, <1>2 DEF TypeInv

LEMMA LoadEpochTyped ==
  ASSUME TypeInv, LoadEpoch
  PROVE  TypeInv'
<1>1. StateOK'
  BY DEF LoadEpoch, TypeInv, StateOK, Phases, rest
<1>2. CallsOK' /\ CallsOnlyUp'
  BY DEF LoadEpoch, TypeInv, CallsOK, CallsOnlyUp, Idle, rest
<1> QED BY <1>1, <1>2 DEF TypeInv

(* Loading: the index is what the segments replay to, or what the files say. *)
LEMMA LoadIndexIs ==
  ASSUME TypeInv, LoadIndex
  PROVE  /\ index' \in Index /\ In(index') = In(files)
         /\ phase = "load" /\ phase' \in {"up", "persist"} /\ next' = NextAfter(index')
<1>1. PICK p \in Sorted(segments) :
        LET idx == Replay(snapshot, p)
            covers == In(idx) = In(files)
        IN  /\ index' = IF covers THEN idx ELSE files
            /\ phase' = IF covers THEN "up" ELSE "persist"
            /\ next' = NextAfter(index')
  BY DEF LoadIndex
<1> DEFINE idx == Replay(snapshot, p)
<1>2. idx \in Index
  BY ReplayTyped DEF TypeInv, StateOK
<1>3. index' = IF In(idx) = In(files) THEN idx ELSE files
  BY <1>1
<1> HIDE DEF idx
<1>4. index' \in Index /\ In(index') = In(files)
  BY <1>2, <1>3 DEF TypeInv, StateOK
<1> QED BY <1>1, <1>4 DEF LoadIndex

LEMMA LoadIndexTyped ==
  ASSUME TypeInv, LoadIndex
  PROVE  TypeInv'
<1>1. index' \in Index /\ phase = "load" /\ phase' \in {"up", "persist"} /\ next' \in Nat \ {0}
  BY LoadIndexIs, NextAfterBeyond
<1>2. StateOK'
  BY <1>1 DEF LoadIndex, TypeInv, StateOK, Phases, disk, rest
<1>3. CallsOK' /\ CallsOnlyUp'
  BY <1>1 DEF LoadIndex, TypeInv, CallsOK, CallsOnlyUp, Idle, rest
<1> QED BY <1>2, <1>3 DEF TypeInv

LEMMA PersistRebuiltTyped ==
  ASSUME TypeInv, PersistRebuilt
  PROVE  TypeInv'
<1>1. StateOK'
  BY DEF PersistRebuilt, TypeInv, StateOK, Phases, rest
<1>2. CallsOK' /\ CallsOnlyUp'
  BY DEF PersistRebuilt, TypeInv, CallsOK, CallsOnlyUp, Idle, rest
<1> QED BY <1>1, <1>2 DEF TypeInv

LEMMA ClearReplayedTyped ==
  ASSUME TypeInv, ClearReplayed
  PROVE  TypeInv'
<1>1. segments' \in Seq(Segment)
  <2>1. segments \in Seq(Segment)
    BY DEF TypeInv, StateOK
  <2>2. CASE segments = <<>>
    BY <2>1, <2>2 DEF ClearReplayed
  <2>3. CASE segments # <<>>
    <3>1. Tail(segments) \in Seq(Segment)
      BY <2>1, <2>3
    <3> QED BY <2>3, <3>1 DEF ClearReplayed
  <2> QED BY <2>2, <2>3
<1>2. StateOK'
  BY <1>1 DEF ClearReplayed, TypeInv, StateOK, Phases, rest
<1>3. CallsOK' /\ CallsOnlyUp'
  BY DEF ClearReplayed, TypeInv, CallsOK, CallsOnlyUp, Idle, rest
<1> QED BY <1>2, <1>3 DEF TypeInv

LEMMA DownTyped ==
  ASSUME TypeInv, Down, stops' \in Nat, crashes' \in Nat
  PROVE  TypeInv'
<1>1. tasks' \in [Tasks -> Task] /\ \A t \in Tasks : tasks'[t] = NoTask
  BY NoTaskOK DEF Down
<1>2. StateOK'
  BY <1>1, NoIndexTyped DEF Down, TypeInv, StateOK, Phases, disk
<1>3. CallsOK' /\ CallsOnlyUp'
  BY <1>1, NoTaskOK DEF CallsOK, CallsOnlyUp, Idle, CallOK
<1> QED BY <1>2, <1>3 DEF TypeInv

-----------------------------------------------------------------------------
(* The steps of a call                                                      *)

LEMMA PutEntriesTyped ==
  ASSUME TypeInv, NEW t \in Tasks, NEW B \in SUBSET Incoming, PutEntries(t, B)
  PROVE  TypeInv'
<1> DEFINE r == [NoTask EXCEPT !.kind = "put", !.batch = B, !.todo = B]
<1>1. r \in Task /\ CallOK(r)
  BY NoTaskOK, EntriesAssumption DEF NoTask, Task, CallOK
<1>2. Update(t, r)
  BY DEF PutEntries
<1> HIDE DEF r
<1> QED BY <1>1, <1>2, CallTyped DEF PutEntries, WriteChainFree, TypeInv, StateOK

LEMMA ApplyWitnessReceiptsTyped ==
  ASSUME TypeInv, NEW t \in Tasks, NEW B \in SUBSET Ids, NEW stamp \in Stamps,
         ApplyWitnessReceipts(t, B, stamp)
  PROVE  TypeInv'
<1> DEFINE r == [NoTask EXCEPT !.kind = "receipts", !.batch = B, !.todo = B, !.stamp = stamp]
<1>1. r \in Task /\ CallOK(r)
  BY NoTaskOK DEF NoTask, Task, CallOK, Receipts
<1>2. Update(t, r)
  BY DEF ApplyWitnessReceipts
<1> HIDE DEF r
<1> QED BY <1>1, <1>2, CallTyped DEF ApplyWitnessReceipts, WriteChainFree, TypeInv, StateOK

(* The record of a call that takes the next entry, or passes it over.       *)
LEMMA NextEntry ==
  ASSUME NEW r \in Task, CallOK(r), r.step = "next", r.kind \in {"put", "receipts"}, NEW i \in Ids
  PROVE  LET skip == [r EXCEPT !.todo = @ \ {i}]
             take == [r EXCEPT !.todo = @ \ {i}, !.id = i, !.step = "meta"]
         IN  /\ skip \in Task /\ CallOK(skip) /\ take \in Task /\ CallOK(take)
             /\ skip.kind = r.kind /\ skip.step = "next" /\ skip.batch = r.batch /\ skip.todo = r.todo \ {i}
             /\ take.kind = r.kind /\ take.step = "meta" /\ take.batch = r.batch /\ take.todo = r.todo \ {i}
             /\ take.id = i
<1>1. /\ r.kind \in {"put", "receipts"} /\ r.todo \in SUBSET Ids
      /\ r.kind = "put" => r.batch \subseteq Incoming
  BY TaskFields DEF CallOK
<1> DEFINE skip == [r EXCEPT !.todo = @ \ {i}]
           take == [r EXCEPT !.todo = @ \ {i}, !.id = i, !.step = "meta"]
<1>2. /\ skip \in Task /\ skip.kind = r.kind /\ skip.step = "next" /\ skip.batch = r.batch
      /\ skip.todo = r.todo \ {i}
  BY <1>1 DEF Task
<1>3. /\ take \in Task /\ take.kind = r.kind /\ take.step = "meta" /\ take.batch = r.batch
      /\ take.todo = r.todo \ {i} /\ take.id = i
  BY <1>1 DEF Task
<1> HIDE DEF skip, take
<1>4. CallOK(skip) /\ CallOK(take)
  BY <1>1, <1>2, <1>3 DEF CallOK
<1> QED BY <1>2, <1>3, <1>4 DEF skip, take

(* The same, for the call of a task.                                        *)
LEMMA NextEntrySkip ==
  ASSUME TypeInv, NEW t \in Tasks, tasks[t].step = "next", tasks[t].kind \in {"put", "receipts"},
         NEW i \in Ids
  PROVE  LET r == [tasks[t] EXCEPT !.todo = @ \ {i}]
         IN  r \in Task /\ r.kind = tasks[t].kind /\ r.step = "next" /\ r.batch = tasks[t].batch
             /\ r.todo = tasks[t].todo \ {i}
<1> DEFINE old == tasks[t]
<1>1. old \in Task /\ old.step = "next" /\ old.todo \in SUBSET Ids
  BY CallKnown, TaskFields
<1> HIDE DEF old
<1> DEFINE r == [old EXCEPT !.todo = @ \ {i}]
<1>2. /\ r \in Task /\ r.kind = old.kind /\ r.step = "next" /\ r.batch = old.batch
      /\ r.todo = old.todo \ {i}
  BY <1>1 DEF Task
<1> QED BY <1>2 DEF old

LEMMA NextEntryTake ==
  ASSUME TypeInv, NEW t \in Tasks, tasks[t].step = "next", tasks[t].kind \in {"put", "receipts"},
         NEW i \in Ids
  PROVE  LET r == [tasks[t] EXCEPT !.todo = @ \ {i}, !.id = i, !.step = "meta"]
         IN  r \in Task /\ r.kind = tasks[t].kind /\ r.step = "meta" /\ r.batch = tasks[t].batch
             /\ r.todo = tasks[t].todo \ {i} /\ r.id = i
<1> DEFINE old == tasks[t]
<1>1. old \in Task /\ old.step = "next" /\ old.todo \in SUBSET Ids
  BY CallKnown, TaskFields
<1> HIDE DEF old
<1> DEFINE r == [old EXCEPT !.todo = @ \ {i}, !.id = i, !.step = "meta"]
<1>2. /\ r \in Task /\ r.kind = old.kind /\ r.step = "meta" /\ r.batch = old.batch
      /\ r.todo = old.todo \ {i} /\ r.id = i
  BY <1>1 DEF Task
<1> QED BY <1>2 DEF old

LEMMA PutContentTyped ==
  ASSUME TypeInv, NEW t \in Tasks, NEW i \in Ids, PutContent(t, i)
  PROVE  TypeInv'
<1> DEFINE old == tasks[t]
           skip == [old EXCEPT !.todo = @ \ {i}]
           take == [old EXCEPT !.todo = @ \ {i}, !.id = i, !.step = "meta"]
<1>1. skip \in Task /\ CallOK(skip) /\ take \in Task /\ CallOK(take)
  BY CallKnown, NextEntry DEF PutContent
<1>2. Update(t, skip) \/ Update(t, take)
  BY DEF PutContent
<1>3. content' \subseteq Hashes
  BY EntriesAssumption DEF PutContent, TypeInv, StateOK, Hashes, Range
<1>4. phase = "up"
  BY ActiveUp DEF PutContent
<1> HIDE DEF skip, take, old
<1> QED BY <1>1, <1>2, <1>3, <1>4, CallTyped DEF PutContent, TypeInv, StateOK

LEMMA ReadReceiptTyped ==
  ASSUME TypeInv, NEW t \in Tasks, NEW i \in Ids, ReadReceipt(t, i)
  PROVE  TypeInv'
<1> DEFINE old == tasks[t]
           skip == [old EXCEPT !.todo = @ \ {i}]
           take == [old EXCEPT !.todo = @ \ {i}, !.id = i, !.step = "meta"]
<1>1. skip \in Task /\ CallOK(skip) /\ take \in Task /\ CallOK(take)
  BY CallKnown, NextEntry DEF ReadReceipt
<1>2. Update(t, skip) \/ Update(t, take)
  BY DEF ReadReceipt
<1>3. phase = "up"
  BY ActiveUp DEF ReadReceipt
<1> HIDE DEF skip, take, old
<1> QED BY <1>1, <1>2, <1>3, CallTyped DEF ReadReceipt, TypeInv, StateOK

(* The metadata file that a put or a receipts call writes.                  *)
LEMMA WriteMetaIs ==
  ASSUME TypeInv, NEW t \in Tasks, WriteMeta(t)
  PROVE  LET m == [order |-> next, receipt |-> tasks[t].stamp]
             r == [tasks[t] EXCEPT !.meta = m, !.step = "index"]
         IN  /\ m \in Meta /\ m # Absent /\ tasks[t].id \in Ids
             /\ tasks[t].kind \in {"put", "receipts"} /\ tasks[t].step = "meta"
             /\ files' = [files EXCEPT ![tasks[t].id] = m]
             /\ r \in Task /\ CallOK(r) /\ Update(t, r)
             /\ r.kind = tasks[t].kind /\ r.step = "index" /\ r.batch = tasks[t].batch
             /\ r.todo = tasks[t].todo /\ r.id = tasks[t].id
<1> DEFINE old == tasks[t]
           m == [order |-> next, receipt |-> old.stamp]
           r == [old EXCEPT !.meta = m, !.step = "index"]
<1>1. old \in Task /\ CallOK(old) /\ old.stamp \in Receipts
  BY CallKnown, TaskFields
<1>2. m \in Meta
  BY <1>1 DEF Meta, TypeInv, StateOK
<1>3. m # Absent
  BY <1>2, AbsentAssumption DEF Meta, Receipts
<1>4. old.step = "meta" /\ old.kind \in {"put", "receipts"} /\ old.id \in Ids
  BY <1>1 DEF WriteMeta, CallOK
<1>5. Update(t, r) /\ files' = [files EXCEPT ![old.id] = m]
  BY DEF WriteMeta
<1> HIDE DEF m, old
<1>6. /\ r \in Task /\ r.kind = old.kind /\ r.step = "index" /\ r.batch = old.batch
      /\ r.todo = old.todo /\ r.id = old.id /\ r.meta = m
  BY <1>1, <1>2 DEF Task
<1> HIDE DEF r
<1>7. CallOK(r)
  BY <1>1, <1>3, <1>4, <1>6 DEF CallOK
<1> QED BY <1>2, <1>3, <1>4, <1>5, <1>6, <1>7 DEF m, r, old

LEMMA WriteMetaTyped ==
  ASSUME TypeInv, NEW t \in Tasks, WriteMeta(t)
  PROVE  TypeInv'
<1> DEFINE m == [order |-> next, receipt |-> tasks[t].stamp]
           r == [tasks[t] EXCEPT !.meta = m, !.step = "index"]
<1>1. m \in Meta /\ files' = [files EXCEPT ![tasks[t].id] = m] /\ r \in Task /\ CallOK(r) /\ Update(t, r)
  BY WriteMetaIs
<1> HIDE DEF m, r
<1>2. files' \in Index
  BY <1>1, WithMeta DEF TypeInv, StateOK
<1>3. phase = "up"
  BY ActiveUp DEF WriteMeta
<1>4. next' \in Nat \ {0}
  BY DEF WriteMeta, TypeInv, StateOK
<1> QED BY <1>1, <1>2, <1>3, <1>4, CallTyped DEF WriteMeta, TypeInv, StateOK

(* The call of a purge that has something to delete.                        *)
LEMMA PurgeStart ==
  ASSUME TypeInv, NEW d \in Purgeable
  PROVE  LET S == {i \in In(index) : DocOf[i] = d}
             r == [NoTask EXCEPT !.kind = "purge", !.batch = S, !.todo = S, !.doc = d,
                                 !.hashes = {HashOf[i] : i \in S}]
         IN  /\ r \in Task /\ CallOK(r)
             /\ r.kind = "purge" /\ r.step = "next" /\ r.doc = d
<1> DEFINE S == {i \in In(index) : DocOf[i] = d}
           H == {HashOf[i] : i \in S}
           r == [NoTask EXCEPT !.kind = "purge", !.batch = S, !.todo = S, !.doc = d, !.hashes = H]
<1>1. S \in SUBSET Ids /\ \A i \in S : DocOf[i] = d
  BY DEF In
<1>2. H \in SUBSET Hashes /\ H \subseteq {HashOf[i] : i \in {j \in Ids : DocOf[j] = d}}
  BY <1>1, EntriesAssumption DEF Hashes, Range
<1>3. d \in Docs
  BY EntriesAssumption DEF Docs
<1> HIDE DEF S, H
<1>4. /\ r \in Task /\ r.kind = "purge" /\ r.step = "next" /\ r.doc = d /\ r.todo = S /\ r.hashes = H
  BY <1>1, <1>2, <1>3, NoTaskOK DEF NoTask, Task
<1> HIDE DEF r
<1>5. CallOK(r)
  BY <1>1, <1>2, <1>4 DEF CallOK
<1> QED BY <1>4, <1>5 DEF r, H, S

LEMMA PurgeDocHistoryTyped ==
  ASSUME TypeInv, NEW t \in Tasks, NEW d \in Purgeable, PurgeDocHistory(t, d)
  PROVE  TypeInv'
<1> DEFINE S == {i \in In(index) : DocOf[i] = d}
           r == [NoTask EXCEPT !.kind = "purge", !.batch = S, !.todo = S, !.doc = d,
                               !.hashes = {HashOf[i] : i \in S}]
<1>1. r \in Task /\ CallOK(r)
  BY PurgeStart
<1>2. CASE S = {}
  <2>1. /\ UNCHANGED <<files, content, snapshot, segments, index, next, tasks, acked>> /\ Quiet
        /\ erased' = erased \cup {d}
    BY <1>2 DEF PurgeDocHistory
  <2>2. StateOK'
    BY <2>1, EntriesAssumption DEF Quiet, TypeInv, StateOK, Docs
  <2>3. CallsOK' /\ CallsOnlyUp'
    BY <2>1 DEF Quiet, TypeInv, CallsOK, CallsOnlyUp, Idle
  <2> QED BY <2>2, <2>3 DEF TypeInv
<1>3. CASE S # {}
  <2>1. Update(t, r) /\ acked' \subseteq acked /\ erased' = erased
    BY <1>3 DEF PurgeDocHistory
  <2> HIDE DEF r, S
  <2> QED BY <1>1, <2>1, CallTyped DEF PurgeDocHistory, TypeInv, StateOK
<1> QED BY <1>2, <1>3

(* The record of a purge that has deleted a metadata file.                  *)
LEMMA PurgeFileIs ==
  ASSUME TypeInv, NEW t \in Tasks, NEW i \in Ids, PurgeFile(t, i)
  PROVE  /\ DocOf[i] = tasks[t].doc /\ tasks[t].kind = "purge" /\ tasks[t].doc \in Purgeable
         /\ \E r \in Task : /\ CallOK(r) /\ Update(t, r)
                           /\ r.kind = "purge" /\ r.step = "index" /\ r.doc = tasks[t].doc
<1> DEFINE old == tasks[t]
           r == [old EXCEPT !.todo = @ \ {i}, !.id = i, !.meta = Absent, !.step = "index"]
<1>1. old \in Task /\ CallOK(old) /\ old.kind = "purge" /\ i \in old.todo /\ old.todo \in SUBSET Ids
  BY CallKnown, TaskFields DEF PurgeFile
<1>2. Update(t, r)
  BY DEF PurgeFile
<1> HIDE DEF old
<1>3. /\ r \in Task /\ r.kind = "purge" /\ r.step = "index" /\ r.doc = old.doc /\ r.id = i
      /\ r.todo = old.todo \ {i} /\ r.hashes = old.hashes
  BY <1>1 DEF Task
<1> HIDE DEF r
<1>4. CallOK(r) /\ DocOf[i] = old.doc /\ old.doc \in Purgeable
  BY <1>1, <1>3 DEF CallOK
<1> QED BY <1>1, <1>2, <1>3, <1>4 DEF old

LEMMA PurgeFileTyped ==
  ASSUME TypeInv, NEW t \in Tasks, NEW i \in Ids, PurgeFile(t, i)
  PROVE  TypeInv'
<1>1. PICK r \in Task : CallOK(r) /\ Update(t, r)
  BY PurgeFileIs
<1>2. files' \in Index
  BY WithMeta DEF PurgeFile, TypeInv, StateOK
<1>3. phase = "up"
  BY ActiveUp DEF PurgeFile
<1> QED BY <1>1, <1>2, <1>3, CallTyped DEF PurgeFile, TypeInv, StateOK

(* The index and the record of a call that has updated the index.           *)
LEMMA UpdateIndexIs ==
  ASSUME TypeInv, NEW t \in Tasks, UpdateIndex(t)
  PROVE  LET r == [tasks[t] EXCEPT !.step = "next", !.records[tasks[t].id] = tasks[t].meta]
         IN  /\ tasks[t].meta \in Meta \cup {Absent} /\ tasks[t].id \in Ids /\ tasks[t].kind # "none"
             /\ tasks[t].kind # "purge" => tasks[t].meta # Absent
             /\ tasks[t].kind = "purge" => DocOf[tasks[t].id] = tasks[t].doc
             /\ index' = [index EXCEPT ![tasks[t].id] = tasks[t].meta]
             /\ r \in Task /\ CallOK(r) /\ Update(t, r)
             /\ r.kind = tasks[t].kind /\ r.step = "next" /\ r.batch = tasks[t].batch
             /\ r.todo = tasks[t].todo /\ r.doc = tasks[t].doc
<1> DEFINE old == tasks[t]
           rs == [old.records EXCEPT ![old.id] = old.meta]
           r == [old EXCEPT !.step = "next", !.records[old.id] = old.meta]
<1>1. /\ old \in Task /\ CallOK(old) /\ old.step = "index" /\ old.records \in Records
      /\ old.meta \in Meta \cup {Absent}
  BY CallKnown, TaskFields DEF UpdateIndex
<1>2. Update(t, r) /\ index' = [index EXCEPT ![old.id] = old.meta]
  BY DEF UpdateIndex
<1> HIDE DEF old
<1>3. rs \in Records
  BY <1>1, WithRecord
<1>4. r = [old EXCEPT !.step = "next", !.records = rs]
  BY <1>1 DEF Task
<1> HIDE DEF r, rs
<1>5. /\ r \in Task /\ r.kind = old.kind /\ r.step = "next" /\ r.batch = old.batch
      /\ r.todo = old.todo /\ r.doc = old.doc /\ r.hashes = old.hashes
  BY <1>1, <1>3, <1>4 DEF Task
<1>6. /\ CallOK(r) /\ old.id \in Ids /\ old.kind # "none"
      /\ old.kind # "purge" => old.meta # Absent
      /\ old.kind = "purge" => DocOf[old.id] = old.doc
  BY <1>1, <1>5 DEF CallOK
<1> QED BY <1>1, <1>2, <1>5, <1>6 DEF r, old

LEMMA UpdateIndexTyped ==
  ASSUME TypeInv, NEW t \in Tasks, UpdateIndex(t)
  PROVE  TypeInv'
<1> DEFINE r == [tasks[t] EXCEPT !.step = "next", !.records[tasks[t].id] = tasks[t].meta]
<1>1. /\ r \in Task /\ CallOK(r) /\ Update(t, r) /\ tasks[t].meta \in Meta \cup {Absent}
      /\ index' = [index EXCEPT ![tasks[t].id] = tasks[t].meta]
  BY UpdateIndexIs
<1> HIDE DEF r
<1>2. index' \in Index
  BY <1>1, WithMeta DEF TypeInv, StateOK
<1>3. phase = "up"
  BY ActiveUp DEF UpdateIndex
<1> QED BY <1>1, <1>2, <1>3, CallTyped DEF UpdateIndex, TypeInv, StateOK

(* The record of a purge that knows the payloads to delete.                 *)
LEMMA OrphanedHashesIs ==
  ASSUME TypeInv, NEW t \in Tasks, OrphanedHashes(t)
  PROVE  LET H == tasks[t].hashes \ {HashOf[i] : i \in In(index)}
             r == [tasks[t] EXCEPT !.step = "hashes", !.hashes = @ \ {HashOf[i] : i \in In(index)}]
         IN  /\ r \in Task /\ CallOK(r) /\ Update(t, r)
             /\ r.kind = "purge" /\ r.step = "hashes" /\ r.doc = tasks[t].doc /\ r.hashes = H
             /\ tasks[t].kind = "purge"
<1> DEFINE old == tasks[t]
           H == old.hashes \ {HashOf[i] : i \in In(index)}
           r == [old EXCEPT !.step = "hashes", !.hashes = @ \ {HashOf[i] : i \in In(index)}]
<1>1. old \in Task /\ CallOK(old) /\ old.kind = "purge" /\ old.hashes \in SUBSET Hashes
  BY CallKnown, TaskFields DEF OrphanedHashes
<1>2. Update(t, r)
  BY DEF OrphanedHashes
<1>3. H \in SUBSET Hashes /\ H \subseteq old.hashes
  BY <1>1
<1> HIDE DEF old
<1>4. r = [old EXCEPT !.step = "hashes", !.hashes = H]
  BY <1>1 DEF Task
<1> HIDE DEF r, H
<1>5. /\ r \in Task /\ r.kind = "purge" /\ r.step = "hashes" /\ r.doc = old.doc /\ r.hashes = H
      /\ r.todo = old.todo
  BY <1>1, <1>3, <1>4 DEF Task
<1>6. CallOK(r)
  BY <1>1, <1>3, <1>5 DEF CallOK
<1> QED BY <1>1, <1>2, <1>5, <1>6 DEF r, H, old

LEMMA OrphanedHashesTyped ==
  ASSUME TypeInv, NEW t \in Tasks, OrphanedHashes(t)
  PROVE  TypeInv'
<1> DEFINE r == [tasks[t] EXCEPT !.step = "hashes", !.hashes = @ \ {HashOf[i] : i \in In(index)}]
<1>1. r \in Task /\ CallOK(r) /\ Update(t, r)
  BY OrphanedHashesIs
<1> HIDE DEF r
<1>2. phase = "up"
  BY ActiveUp DEF OrphanedHashes
<1> QED BY <1>1, <1>2, CallTyped DEF OrphanedHashes, TypeInv, StateOK

LEMMA PurgeContentIs ==
  ASSUME TypeInv, NEW t \in Tasks, NEW h, PurgeContent(t, h)
  PROVE  LET r == [tasks[t] EXCEPT !.hashes = @ \ {h}]
         IN  /\ r \in Task /\ CallOK(r) /\ Update(t, r)
             /\ r.kind = "purge" /\ r.step = "hashes" /\ r.doc = tasks[t].doc
             /\ r.hashes \subseteq tasks[t].hashes /\ tasks[t].kind = "purge"
<1> DEFINE old == tasks[t]
           r == [old EXCEPT !.hashes = @ \ {h}]
<1>1. old \in Task /\ CallOK(old) /\ old.step = "hashes" /\ old.hashes \in SUBSET Hashes
  BY CallKnown, TaskFields DEF PurgeContent
<1>2. Update(t, r)
  BY DEF PurgeContent
<1> HIDE DEF old
<1>3. /\ r \in Task /\ r.kind = old.kind /\ r.step = "hashes" /\ r.doc = old.doc
      /\ r.hashes = old.hashes \ {h} /\ r.todo = old.todo
  BY <1>1 DEF Task
<1> HIDE DEF r
<1>4. CallOK(r) /\ old.kind = "purge"
  BY <1>1, <1>3 DEF CallOK
<1> QED BY <1>1, <1>2, <1>3, <1>4 DEF r, old

LEMMA PurgeContentTyped ==
  ASSUME TypeInv, NEW t \in Tasks, NEW h, PurgeContent(t, h)
  PROVE  TypeInv'
<1> DEFINE r == [tasks[t] EXCEPT !.hashes = @ \ {h}]
<1>1. r \in Task /\ CallOK(r) /\ Update(t, r)
  BY PurgeContentIs
<1> HIDE DEF r
<1>2. phase = "up"
  BY ActiveUp DEF PurgeContent
<1> QED BY <1>1, <1>2, CallTyped DEF PurgeContent, TypeInv, StateOK

(* A call that moves on to the segment files.                               *)
LEMMA StepTo ==
  ASSUME NEW r \in Task, CallOK(r), r.kind # "none", NEW st \in {"list", "persist", "clear"}
  PROVE  LET n == [r EXCEPT !.step = st]
         IN  /\ n \in Task /\ CallOK(n) /\ n.kind = r.kind /\ n.step = st /\ n.doc = r.doc
             /\ n.batch = r.batch /\ n.todo = r.todo
<1> DEFINE n == [r EXCEPT !.step = st]
<1>1. /\ n \in Task /\ n.kind = r.kind /\ n.step = st /\ n.doc = r.doc
      /\ n.batch = r.batch /\ n.todo = r.todo /\ n.hashes = r.hashes
  BY DEF Task
<1> HIDE DEF n
<1>2. CallOK(n)
  BY <1>1 DEF CallOK
<1> QED BY <1>1, <1>2 DEF n

(* A call that begins to compact the segments.                              *)
LEMMA StartCompaction ==
  ASSUME NEW r \in Task, CallOK(r), r.kind # "none", NEW S \in Index, NEW C \in SUBSET Segment
  PROVE  LET n == [r EXCEPT !.step = "persist", !.snap = S, !.covered = C]
         IN  /\ n \in Task /\ CallOK(n) /\ n.kind = r.kind /\ n.step = "persist" /\ n.doc = r.doc
             /\ n.batch = r.batch /\ n.todo = r.todo
<1> DEFINE n == [r EXCEPT !.step = "persist", !.snap = S, !.covered = C]
<1>1. /\ n \in Task /\ n.kind = r.kind /\ n.step = "persist" /\ n.doc = r.doc
      /\ n.batch = r.batch /\ n.todo = r.todo /\ n.hashes = r.hashes
  BY DEF Task
<1> HIDE DEF n
<1>2. CallOK(n)
  BY <1>1 DEF CallOK
<1> QED BY <1>1, <1>2 DEF n

LEMMA NoMutationTyped ==
  ASSUME TypeInv, NEW t \in Tasks, NoMutation(t)
  PROVE  TypeInv'
<1>1. Update(t, NoTask) /\ acked' \subseteq Ids /\ erased' \subseteq Docs
  BY FinishTyped DEF NoMutation
<1>2. phase = "up"
  BY ActiveUp DEF NoMutation
<1> QED BY <1>1, <1>2, NoTaskOK, CallTyped DEF NoMutation, TypeInv, StateOK

LEMMA AppendSegmentTyped ==
  ASSUME TypeInv, NEW t \in Tasks, AppendSegment(t)
  PROVE  TypeInv'
<1>1. tasks[t] \in Task /\ CallOK(tasks[t]) /\ tasks[t].records \in Records
  BY CallKnown, TaskFields
<1>2. phase = "up" /\ tasks[t].kind # "none"
  BY ActiveUp DEF AppendSegment
<1>3. segments \in Seq(Segment)
  BY DEF TypeInv, StateOK
<1>4. LastTime \in Nat
  <2>1. CASE segments = <<>>
    BY <2>1 DEF LastTime
  <2>2. CASE segments # <<>>
    <3>1. segments[Len(segments)] \in Segment
      BY <1>3, <2>2
    <3>2. \A g \in Segment : g.time \in Nat
      BY DEF Segment
    <3> QED BY <2>2, <3>1, <3>2 DEF LastTime
  <2> QED BY <2>1, <2>2
<1>5. PICK now \in {LastTime + 1} \cup (IF SameTick THEN {LastTime} ELSE {}) :
         segments' = Append(segments, [time |-> now, records |-> tasks[t].records])
  BY DEF AppendSegment
<1>6. now \in Nat
  BY <1>4
<1>7. [time |-> now, records |-> tasks[t].records] \in Segment
  BY <1>1, <1>6 DEF Segment
<1>8. segments' \in Seq(Segment)
  BY <1>3, <1>5, <1>7
<1> DEFINE r == [tasks[t] EXCEPT !.step = "list"]
<1>9. r \in Task /\ CallOK(r)
  BY <1>1, <1>2, StepTo
<1>10. Update(t, r)
  BY DEF AppendSegment
<1> HIDE DEF r
<1> QED BY <1>2, <1>8, <1>9, <1>10, CallTyped DEF AppendSegment, TypeInv, StateOK

LEMMA ListSegmentsTyped ==
  ASSUME TypeInv, NEW t \in Tasks, ListSegments(t)
  PROVE  TypeInv'
<1>1. phase = "up" /\ tasks[t].kind # "none"
  BY ActiveUp DEF ListSegments
<1>2. CASE Finish(t)
  <2>1. Update(t, NoTask) /\ acked' \subseteq Ids /\ erased' \subseteq Docs
    BY <1>2, FinishTyped
  <2> QED BY <1>1, <2>1, NoTaskOK, CallTyped DEF ListSegments, TypeInv, StateOK
<1>3. CASE ~(Len(segments) < MinFiles)
  <2> DEFINE r == [tasks[t] EXCEPT !.step = "persist", !.snap = index, !.covered = Range(segments)]
  <2>1. segments \in Seq(Segment) /\ index \in Index
    BY DEF TypeInv, StateOK
  <2>2. Range(segments) \in SUBSET Segment
    BY <2>1 DEF Range
  <2>3. r \in Task /\ CallOK(r)
    BY <1>1, <2>1, <2>2, CallKnown, StartCompaction
  <2>4. Update(t, r) /\ acked' = acked /\ erased' = erased
    BY <1>3 DEF ListSegments
  <2> HIDE DEF r
  <2> QED BY <1>1, <2>3, <2>4, CallTyped DEF ListSegments, TypeInv, StateOK
<1> QED BY <1>2, <1>3 DEF ListSegments

LEMMA PersistSnapshotTyped ==
  ASSUME TypeInv, NEW t \in Tasks, PersistSnapshot(t)
  PROVE  TypeInv'
<1> DEFINE r == [tasks[t] EXCEPT !.step = "clear"]
<1>1. phase = "up" /\ tasks[t].kind # "none"
  BY ActiveUp DEF PersistSnapshot
<1>2. tasks[t] \in Task /\ CallOK(tasks[t]) /\ tasks[t].snap \in Index
  BY CallKnown, TaskFields
<1>3. r \in Task /\ CallOK(r)
  BY <1>1, <1>2, StepTo
<1>4. Update(t, r) /\ snapshot' = tasks[t].snap
  BY DEF PersistSnapshot
<1> HIDE DEF r
<1> QED BY <1>1, <1>2, <1>3, <1>4, CallTyped DEF PersistSnapshot, TypeInv, StateOK

(* What a step of the deletion of covered segments does.                    *)
LEMMA ClearSegmentIs ==
  ASSUME TypeInv, NEW t \in Tasks, ClearSegment(t)
  PROVE  \/ Finish(t) /\ segments' = segments
         \/ segments' \in Seq(Segment) /\ UNCHANGED <<tasks, acked, erased>>
<1> DEFINE left == {k \in DOMAIN segments : segments[k] \in tasks[t].covered}
<1>1. CASE left = {}
  BY <1>1 DEF ClearSegment
<1>2. CASE left # {}
  <2>1. segments \in Seq(Segment) /\ Len(segments) \in Nat /\ DOMAIN segments = 1 .. Len(segments)
    BY DEF TypeInv, StateOK
  <2>2. \E m : m \in 1 .. Len(segments)
    BY <1>2, <2>1
  <2> DEFINE k == CHOOSE m \in left : \A l \in left : m <= l
  <2>4. /\ segments' = [l \in 1 .. Len(segments) - 1 |->
                          IF l < k THEN segments[l] ELSE segments[l + 1]]
        /\ UNCHANGED <<tasks, acked, erased>>
    BY <1>2 DEF ClearSegment
  <2> HIDE DEF k, left
  <2>5. Len(segments) - 1 \in Nat
    BY <2>1, <2>2
  <2>6. \A l \in 1 .. Len(segments) - 1 : (IF l < k THEN segments[l] ELSE segments[l + 1]) \in Segment
    BY <2>1, <2>5
  <2> QED BY <2>4, <2>5, <2>6
<1> QED BY <1>1, <1>2

LEMMA ClearSegmentTyped ==
  ASSUME TypeInv, NEW t \in Tasks, ClearSegment(t)
  PROVE  TypeInv'
<1>1. phase = "up"
  BY ActiveUp DEF ClearSegment
<1>2. CASE Finish(t) /\ segments' = segments
  <2>1. Update(t, NoTask) /\ acked' \subseteq Ids /\ erased' \subseteq Docs
    BY <1>2, FinishTyped
  <2> QED BY <1>1, <1>2, <2>1, NoTaskOK, CallTyped DEF ClearSegment, TypeInv, StateOK
<1>3. CASE segments' \in Seq(Segment) /\ UNCHANGED <<tasks, acked, erased>>
  <2>1. StateOK'
    BY <1>3 DEF ClearSegment, Quiet, TypeInv, StateOK
  <2>2. CallsOK' /\ CallsOnlyUp'
    BY <1>3 DEF ClearSegment, Quiet, TypeInv, CallsOK, CallsOnlyUp, Idle
  <2> QED BY <2>1, <2>2 DEF TypeInv
<1> QED BY <1>2, <1>3, ClearSegmentIs

LEMMA PeerSyncTyped ==
  ASSUME TypeInv, PeerSync
  PROVE  TypeInv'
<1> DEFINE from == IF peer.epoch = epoch THEN peer.cursor ELSE StartCursor
           new == {i \in In(index) : Precedes(from, Position(index, i))}
           last == CHOOSE c \in {Position(index, i) : i \in new} :
                     \A i \in new : ~Precedes(c, Position(index, i))
           seen == [i \in Ids |-> IF i \in new THEN index[i].receipt ELSE peer.seen[i]]
<1>1. peer' = [epoch |-> epoch, cursor |-> last, seen |-> seen] /\ new # {}
  BY DEF PeerSync
<1>2. /\ index \in Index /\ epoch \in Nat
      /\ peer \in [epoch : Nat, cursor : Cursor, seen : [Ids -> Receipts \cup {Absent}]]
  BY DEF TypeInv, StateOK
<1>3. new \in SUBSET In(index)
  OBVIOUS
<1> HIDE DEF new
<1>4. last \in {Position(index, i) : i \in new}
  BY <1>1, <1>2, <1>3, LastPosition
<1> HIDE DEF last
<1>5. last \in Cursor
  BY <1>2, <1>3, <1>4, IdsAssumption DEF Position, Cursor, In, Index, Meta
<1>6. seen \in [Ids -> Receipts \cup {Absent}]
  BY <1>2, <1>3 DEF In, Index, Meta
<1> HIDE DEF seen
<1>7. StateOK'
  <2>1. peer' \in [epoch : Nat, cursor : Cursor, seen : [Ids -> Receipts \cup {Absent}]]
    BY <1>1, <1>2, <1>5, <1>6
  <2> QED BY <2>1 DEF PeerSync, TypeInv, StateOK, disk, memory
<1>8. CallsOK' /\ CallsOnlyUp'
  BY DEF PeerSync, TypeInv, CallsOK, CallsOnlyUp, Idle, memory
<1> QED BY <1>7, <1>8 DEF TypeInv

(* Every step keeps the types.                                              *)
LEMMA NextTyped ==
  ASSUME TypeInv, [Next]_vars
  PROVE  TypeInv'
<1>1. CASE UNCHANGED vars
  <2>1. StateOK'
    BY <1>1 DEF vars, disk, memory, TypeInv, StateOK
  <2>2. CallsOK' /\ CallsOnlyUp'
    BY <1>1 DEF vars, memory, TypeInv, CallsOK, CallsOnlyUp, Idle
  <2> QED BY <2>1, <2>2 DEF TypeInv
<1>2. CASE Start \/ LoadEpoch \/ LoadIndex \/ PersistRebuilt \/ ClearReplayed \/ Migrated \/ PeerSync
  BY <1>2, StartTyped, LoadEpochTyped, LoadIndexTyped, PersistRebuiltTyped, ClearReplayedTyped,
     MigratedTyped, PeerSyncTyped
<1>3. ASSUME NEW i \in Ids, MigrateFile(i) PROVE TypeInv'
  BY <1>3, MigrateFileTyped
<1>4. CASE Stop \/ Crash
  <2>1. Down /\ stops' \in Nat /\ crashes' \in Nat
    BY <1>4 DEF Stop, Crash, TypeInv, StateOK
  <2> QED BY <2>1, DownTyped
<1>5. ASSUME NEW t \in Tasks, Call(t) PROVE TypeInv'
  BY <1>5, PutEntriesTyped, ApplyWitnessReceiptsTyped, PurgeDocHistoryTyped DEF Call
<1>6. ASSUME NEW t \in Tasks, TaskStep(t) PROVE TypeInv'
  <2>1. ASSUME NEW i \in Ids, PutContent(t, i) \/ ReadReceipt(t, i) \/ PurgeFile(t, i) PROVE TypeInv'
    BY <2>1, PutContentTyped, ReadReceiptTyped, PurgeFileTyped
  <2>2. ASSUME NEW h \in Hashes, PurgeContent(t, h) PROVE TypeInv'
    BY <2>2, PurgeContentTyped
  <2>3. CASE WriteMeta(t) \/ UpdateIndex(t) \/ OrphanedHashes(t)
    BY <2>3, WriteMetaTyped, UpdateIndexTyped, OrphanedHashesTyped
  <2>4. CASE \/ NoMutation(t) \/ AppendSegment(t) \/ ListSegments(t)
             \/ PersistSnapshot(t) \/ ClearSegment(t)
    BY <2>4, NoMutationTyped, AppendSegmentTyped, ListSegmentsTyped, PersistSnapshotTyped, ClearSegmentTyped
  <2> QED BY <1>6, <2>1, <2>2, <2>3, <2>4 DEF TaskStep
<1> QED BY <1>1, <1>2, <1>3, <1>4, <1>5, <1>6 DEF Next

(* The store always looks as it should: files, snapshot and index hold      *)
(* metadata of known entries, the log is a sequence of segments, and a call *)
(* has what its next step needs and runs in a store that is up.             *)
THEOREM DiskTypes == Spec => [](TypeInv /\ upset \subseteq Upsets)
<1>1. Init => TypeInv /\ upset \subseteq Upsets
  BY InitTyped DEF Init, InitWith
<1>2. ASSUME TypeInv, upset \subseteq Upsets, [Next /\ Noted]_vars
      PROVE  TypeInv' /\ (upset \subseteq Upsets)'
  BY <1>2, NextTyped DEF Noted, vars
<1> QED BY <1>1, <1>2, PTL DEF Spec

-----------------------------------------------------------------------------
(* Acknowledged entries stay: start, stop and crash                        *)

LEMMA InitDurable == Init => DurInv
<1> SUFFICES ASSUME NEW had \in Installations, InitWith(had)
             PROVE  DurInv
  BY DEF Init
<1>1. had.entries \subseteq Ids
  BY EntriesAssumption
<1>2. \A i \in Ids : FirstMeta(had, i) # Absent
  <2>1. \A i \in Ids : TypeInv /\ (i \in had.entries => files[i] = FirstMeta(had, i))
    BY InitTyped DEF Init, InitWith
  <2>2. \A i \in Ids : Cardinality({j \in had.entries : j <= i}) \in Nat
    BY <1>1, IdsAssumption, FS_Subset, FS_CardinalityType
  <2>3. \A i \in Ids : FirstMeta(had, i) \in Meta
    BY <2>2 DEF FirstMeta, Meta, Receipts
  <2> QED BY <2>3, AbsentAssumption DEF Meta, Receipts
<1>3. /\ \A i \in Ids : files[i] = IF i \in had.entries THEN FirstMeta(had, i) ELSE Absent
      /\ content = {HashOf[i] : i \in had.entries} /\ acked = had.entries
      /\ phase = "down" /\ \A i \in Ids : index[i] = Absent
      /\ \A t \in Tasks : tasks[t] = NoTask
  BY DEF InitWith, NoIndex
<1>4. OneWriter /\ PutPart
  BY <1>3, NoTaskOK DEF OneWriter, PutPart, Writer
<1>5. RebuiltIndex
  BY <1>3 DEF RebuiltIndex, In
<1>6. AckedPart
  BY <1>1, <1>2, <1>3, NoTaskOK DEF AckedPart
<1>7. IncomingPart
  BY <1>3, EntriesAssumption DEF IncomingPart
<1> QED BY <1>4, <1>5, <1>6, <1>7 DEF DurInv

(* A step after which no call is under way, and that leaves the files where *)
(* they are, keeps everything if the index it makes names those files.      *)
LEMMA IdleKeeps ==
  ASSUME TypeInv, DurInv, Idle', acked' = acked, content' = content, In(files') = In(files),
         \/ phase' \in {"down", "migrate", "epoch", "load"} /\ In(index') = {}
         \/ phase' \in {"migrated", "persist", "clear", "up"} /\ In(index') = In(files')
  PROVE  DurInv'
<1>1. OneWriter' /\ PutPart'
  BY DEF OneWriter, PutPart, Writer, Idle
<1>2. phase' \in {"up", "persist", "clear", "migrated"} => In(index') = In(files')
  OBVIOUS
<1>3. RebuiltIndex'
  BY DEF RebuiltIndex
<1>4. \A i \in Ids : /\ files'[i] = Absent <=> files[i] = Absent
                     /\ index'[i] # Absent => files'[i] # Absent
                     /\ phase' = "up" /\ files'[i] # Absent => index'[i] # Absent
  BY <1>2 DEF In
<1>5. acked \subseteq Ids /\ Incoming \subseteq Ids
  BY EntriesAssumption DEF TypeInv, StateOK
<1>6. AckedPart'
  BY <1>4, <1>5 DEF DurInv, AckedPart, Idle
<1>7. IncomingPart'
  BY <1>4, <1>5 DEF DurInv, IncomingPart
<1> QED BY <1>1, <1>3, <1>6, <1>7 DEF DurInv

LEMMA BootDurable ==
  ASSUME TypeInv, DurInv,
         \/ Start \/ LoadEpoch \/ LoadIndex \/ PersistRebuilt \/ ClearReplayed \/ Migrated
         \/ \E i \in Ids : MigrateFile(i)
  PROVE  DurInv'
<1>1. Idle' /\ acked' = acked /\ content' = content
  <2>1. phase # "up" /\ UNCHANGED <<tasks, acked, content>>
    BY DEF Start, LoadEpoch, LoadIndex, PersistRebuilt, ClearReplayed, Migrated, MigrateFile, rest, disk
  <2> QED BY <2>1 DEF TypeInv, CallsOnlyUp, Idle
<1> DEFINE Known(ph, idx, fs) == \/ ph \in {"down", "migrate", "epoch", "load"} /\ In(idx) = {}
                                 \/ ph \in {"migrated", "persist", "clear", "up"} /\ In(idx) = In(fs)
<1>2. In(files') = In(files) /\ Known(phase', index', files')
  <2>1. CASE Start
    BY <2>1 DEF Start, disk, DurInv, RebuiltIndex
  <2>2. CASE LoadEpoch
    BY <2>2 DEF LoadEpoch, DurInv, RebuiltIndex
  <2>3. CASE LoadIndex
    BY <2>3, LoadIndexIs DEF LoadIndex, disk
  <2>4. CASE PersistRebuilt
    BY <2>4 DEF PersistRebuilt, DurInv, RebuiltIndex
  <2>5. CASE ClearReplayed
    BY <2>5 DEF ClearReplayed, DurInv, RebuiltIndex
  <2>6. CASE Migrated
    BY <2>6 DEF Migrated
  <2>7. ASSUME NEW i \in Ids, MigrateFile(i)
        PROVE  In(files') = In(files) /\ Known(phase', index', files')
    <3>1. phase' = "migrate" /\ phase = "migrate" /\ index' = index /\ files[i] # Absent
      BY <2>7 DEF MigrateFile, In
    <3>2. files[i] \in Meta /\ next \in Nat
      BY <3>1 DEF TypeInv, StateOK, Index
    <3>3. [files[i] EXCEPT !.order = next] \in Meta /\ [files[i] EXCEPT !.order = next] # Absent
      BY <3>2, AbsentAssumption DEF Meta, Receipts
    <3>4. files' = [files EXCEPT ![i] = [files[i] EXCEPT !.order = next]]
      BY <2>7 DEF MigrateFile
    <3>5. \A j \in Ids : files'[j] = Absent <=> files[j] = Absent
      BY <3>1, <3>3, <3>4 DEF TypeInv, StateOK, Index
    <3> QED BY <3>1, <3>5 DEF In, DurInv, RebuiltIndex
  <2> QED BY <2>1, <2>2, <2>3, <2>4, <2>5, <2>6, <2>7
<1> QED BY <1>1, <1>2, IdleKeeps

LEMMA DownDurable ==
  ASSUME TypeInv, DurInv, Down
  PROVE  DurInv'
<1>1. Idle' /\ acked' = acked /\ content' = content /\ files' = files /\ phase' = "down"
  BY NoTaskOK DEF Down, disk, Idle
<1>2. In(index') = {}
  BY DEF Down, NoIndex, In
<1> QED BY <1>1, <1>2, IdleKeeps

(* A peer reads; a call that finds nothing to purge returns.                *)
LEMMA ReadDurable ==
  ASSUME TypeInv, DurInv, UNCHANGED <<files, content, phase, index, tasks, acked>>
  PROVE  DurInv'
<1>1. OneWriter' /\ RebuiltIndex'
  BY DEF DurInv, OneWriter, RebuiltIndex, Writer, In
<1>2. AckedPart' /\ IncomingPart'
  BY DEF DurInv, AckedPart, IncomingPart, Writer
<1>3. PutPart'
  BY DEF DurInv, PutPart, Writer, InWork
<1> QED BY <1>1, <1>2, <1>3 DEF DurInv

-----------------------------------------------------------------------------
(* Acknowledged entries stay: puts and receipts                            *)

(* A writer starts when there is no other.                                  *)
LEMMA WriterStarts ==
  ASSUME TypeInv, DurInv, NEW t \in Tasks, WriteChainFree,
         NEW r \in Task, r.kind \in {"put", "receipts"}, r.step = "next", r.todo = r.batch,
         Update(t, r), UNCHANGED <<files, content, phase, index, acked>>
  PROVE  DurInv'
<1>1. tasks'[t] = r /\ \A u \in Tasks : u # t => tasks'[u] = tasks[u]
  BY UpdateOne
<1>2. phase = "up" /\ \A u \in Tasks : ~Writer(u)
  BY DEF WriteChainFree, Writer
<1>3. OneWriter'
  BY <1>1, <1>2 DEF OneWriter, Writer
<1>4. RebuiltIndex'
  BY <1>2 DEF RebuiltIndex
<1>5. AckedPart'
  BY <1>1 DEF DurInv, AckedPart
<1>6. IncomingPart'
  BY <1>2 DEF DurInv, IncomingPart
<1>7. PutPart'
  BY <1>1, <1>2 DEF DurInv, PutPart, InWork, Writer
<1> QED BY <1>3, <1>4, <1>5, <1>6, <1>7 DEF DurInv

LEMMA PutEntriesDurable ==
  ASSUME TypeInv, DurInv, NEW t \in Tasks, NEW B \in SUBSET Incoming, PutEntries(t, B)
  PROVE  DurInv'
<1> DEFINE r == [NoTask EXCEPT !.kind = "put", !.batch = B, !.todo = B]
<1>1. r \in Task /\ r.kind = "put" /\ r.step = "next" /\ r.todo = r.batch
  BY NoTaskOK, EntriesAssumption DEF NoTask, Task
<1>2. Update(t, r)
  BY DEF PutEntries
<1> HIDE DEF r
<1> QED BY <1>1, <1>2, WriterStarts DEF PutEntries, Quiet

LEMMA ApplyWitnessReceiptsDurable ==
  ASSUME TypeInv, DurInv, NEW t \in Tasks, NEW B \in SUBSET Ids, NEW stamp \in Stamps,
         ApplyWitnessReceipts(t, B, stamp)
  PROVE  DurInv'
<1> DEFINE r == [NoTask EXCEPT !.kind = "receipts", !.batch = B, !.todo = B, !.stamp = stamp]
<1>1. r \in Task /\ r.kind = "receipts" /\ r.step = "next" /\ r.todo = r.batch
  BY NoTaskOK DEF NoTask, Task, Receipts
<1>2. Update(t, r)
  BY DEF ApplyWitnessReceipts
<1> HIDE DEF r
<1> QED BY <1>1, <1>2, WriterStarts DEF ApplyWitnessReceipts, Quiet

(* A step of the writer: the others, and whoever purges, do not change.     *)
LEMMA WriterKeeps ==
  ASSUME TypeInv, DurInv, NEW t \in Tasks, Writer(t),
         NEW r \in Task, r.kind = tasks[t].kind, Update(t, r), phase' = phase
  PROVE  /\ tasks'[t] = r /\ \A u \in Tasks : u # t => tasks'[u] = tasks[u] /\ ~Writer(u)
         /\ phase = "up" /\ OneWriter' /\ RebuiltIndex'
<1>1. tasks'[t] = r /\ \A u \in Tasks : u # t => tasks'[u] = tasks[u]
  BY UpdateOne
<1>2. \A u \in Tasks : u # t => ~Writer(u)
  BY DEF DurInv, OneWriter
<1>3. phase = "up"
  BY ActiveUp DEF Writer
<1>4. OneWriter'
  BY <1>1, <1>2 DEF OneWriter, Writer
<1>5. RebuiltIndex'
  BY <1>3 DEF RebuiltIndex
<1> QED BY <1>1, <1>2, <1>3, <1>4, <1>5

(* putEntriesLocked: an entry that has a file is passed over.               *)
LEMMA PutSkipDurable ==
  ASSUME TypeInv, DurInv, NEW t \in Tasks, NEW i \in Ids, PutContent(t, i), files[i] # Absent
  PROVE  DurInv'
<1> DEFINE r == [tasks[t] EXCEPT !.todo = @ \ {i}]
<1>1. tasks[t].kind = "put" /\ tasks[t].step = "next" /\ i \in tasks[t].todo
  BY DEF PutContent
<1>2. r \in Task /\ r.kind = "put" /\ r.step = "next" /\ r.batch = tasks[t].batch
      /\ r.todo = tasks[t].todo \ {i}
  <2>1. tasks[t].step = "next" /\ tasks[t].kind \in {"put", "receipts"}
    BY <1>1
  <2> QED BY <1>1, <2>1, NextEntrySkip, ZenonT(30)
<1>3. Update(t, r) /\ UNCHANGED <<files, content, phase, index, acked>>
  BY DEF PutContent, Quiet
<1> HIDE DEF r
<1>4. /\ tasks'[t] = r /\ \A u \in Tasks : u # t => tasks'[u] = tasks[u] /\ ~Writer(u)
      /\ phase = "up" /\ OneWriter' /\ RebuiltIndex'
  BY <1>1, <1>2, <1>3, WriterKeeps DEF Writer
<1>5. AckedPart'
  BY <1>2, <1>3, <1>4 DEF DurInv, AckedPart
<1>6. \A u \in Tasks : ~(Writer(u) /\ tasks[u].step = "index")
  BY <1>1, <1>4
<1>7. IncomingPart'
  BY <1>3, <1>6 DEF DurInv, IncomingPart
<1>8. i \in tasks[t].batch => index[i] # Absent
  <2>1. tasks[t].batch \subseteq Incoming
    BY <1>1, CallKnown DEF CallOK
  <2> QED BY <1>4, <1>6, <2>1 DEF DurInv, IncomingPart
<1>9. PutPart'
  BY <1>1, <1>2, <1>3, <1>4, <1>8 DEF DurInv, PutPart, InWork, Writer
<1> QED BY <1>4, <1>5, <1>7, <1>9 DEF DurInv

(* putEntriesLocked: the payload is on disk before the metadata.            *)
LEMMA PutTakeDurable ==
  ASSUME TypeInv, DurInv, NEW t \in Tasks, NEW i \in Ids, PutContent(t, i), files[i] = Absent
  PROVE  DurInv'
<1> DEFINE r == [tasks[t] EXCEPT !.todo = @ \ {i}, !.id = i, !.step = "meta"]
<1>1. tasks[t].kind = "put" /\ tasks[t].step = "next" /\ i \in tasks[t].todo
  BY DEF PutContent
<1>2. r \in Task /\ r.kind = "put" /\ r.step = "meta" /\ r.batch = tasks[t].batch
      /\ r.todo = tasks[t].todo \ {i} /\ r.id = i
  <2>1. tasks[t].step = "next" /\ tasks[t].kind \in {"put", "receipts"}
    BY <1>1
  <2> QED BY <1>1, <2>1, NextEntryTake, ZenonT(30)
<1>3. Update(t, r) /\ UNCHANGED <<files, phase, index, acked>> /\ content' = content \cup {HashOf[i]}
  BY DEF PutContent, Quiet
<1> HIDE DEF r
<1>4. /\ tasks'[t] = r /\ \A u \in Tasks : u # t => tasks'[u] = tasks[u] /\ ~Writer(u)
      /\ phase = "up" /\ OneWriter' /\ RebuiltIndex'
  BY <1>1, <1>2, <1>3, WriterKeeps DEF Writer
<1>5. AckedPart'
  BY <1>2, <1>3, <1>4 DEF DurInv, AckedPart
<1>6. \A u \in Tasks : ~(Writer(u) /\ tasks[u].step = "index")
  BY <1>1, <1>4
<1>7. IncomingPart'
  BY <1>3, <1>6 DEF DurInv, IncomingPart
<1>8. PutPart'
  BY <1>1, <1>2, <1>3, <1>4 DEF DurInv, PutPart, InWork, Writer
<1> QED BY <1>4, <1>5, <1>7, <1>8 DEF DurInv

(* applyWitnessReceiptsLocked: only entries of the index are worked on.     *)
LEMMA ReadReceiptDurable ==
  ASSUME TypeInv, DurInv, NEW t \in Tasks, NEW i \in Ids, ReadReceipt(t, i)
  PROVE  DurInv'
<1> DEFINE skip == [tasks[t] EXCEPT !.todo = @ \ {i}]
           take == [tasks[t] EXCEPT !.todo = @ \ {i}, !.id = i, !.step = "meta"]
<1>1. tasks[t].kind = "receipts" /\ tasks[t].step = "next"
  BY DEF ReadReceipt
<1>2. /\ skip \in Task /\ skip.kind = "receipts" /\ skip.step = "next"
      /\ take \in Task /\ take.kind = "receipts" /\ take.step = "meta" /\ take.id = i
  <2>1. tasks[t].step = "next" /\ tasks[t].kind \in {"put", "receipts"}
    BY <1>1
  <2>2. skip \in Task /\ skip.kind = tasks[t].kind /\ skip.step = "next"
    BY <2>1, NextEntrySkip, ZenonT(30)
  <2>3. take \in Task /\ take.kind = tasks[t].kind /\ take.step = "meta" /\ take.id = i
    BY <2>1, NextEntryTake, ZenonT(30)
  <2> HIDE DEF skip, take
  <2> QED BY <1>1, <2>2, <2>3
<1>3. /\ Update(t, skip) \/ (Update(t, take) /\ index[i] # Absent)
      /\ UNCHANGED <<files, content, phase, index, acked>>
  BY DEF ReadReceipt, Quiet
<1> HIDE DEF skip, take
<1>4. PICK r \in Task : /\ r.kind = "receipts" /\ Update(t, r)
                        /\ \/ r.step = "next"
                           \/ r.step = "meta" /\ r.id = i /\ index[i] # Absent
  BY <1>2, <1>3
<1>5. /\ tasks'[t] = r /\ \A u \in Tasks : u # t => tasks'[u] = tasks[u] /\ ~Writer(u)
      /\ phase = "up" /\ OneWriter' /\ RebuiltIndex'
  BY <1>1, <1>3, <1>4, WriterKeeps DEF Writer
<1>6. AckedPart'
  BY <1>3, <1>4, <1>5 DEF DurInv, AckedPart
<1>7. \A u \in Tasks : ~(Writer(u) /\ tasks[u].step = "index")
  BY <1>1, <1>5
<1>8. IncomingPart'
  BY <1>3, <1>7 DEF DurInv, IncomingPart
<1>9. i \in Incoming /\ index[i] # Absent => HashOf[i] \in content
  BY DEF DurInv, IncomingPart
<1>10. PutPart'
  BY <1>3, <1>4, <1>5, <1>9 DEF DurInv, PutPart, InWork, Writer
<1> QED BY <1>5, <1>6, <1>8, <1>10 DEF DurInv

(* The metadata file is renamed into place: its payload is there.           *)
LEMMA WriteMetaDurable ==
  ASSUME TypeInv, DurInv, NEW t \in Tasks, WriteMeta(t)
  PROVE  DurInv'
<1> DEFINE m == [order |-> next, receipt |-> tasks[t].stamp]
           r == [tasks[t] EXCEPT !.meta = m, !.step = "index"]
           i == tasks[t].id
<1>1. /\ m \in Meta /\ m # Absent /\ i \in Ids /\ Writer(t) /\ tasks[t].step = "meta"
      /\ files' = [files EXCEPT ![i] = m] /\ r \in Task /\ Update(t, r)
      /\ r.kind = tasks[t].kind /\ r.step = "index" /\ r.batch = tasks[t].batch
      /\ r.todo = tasks[t].todo /\ r.id = i
  BY WriteMetaIs DEF Writer
<1>2. UNCHANGED <<content, phase, index, acked>>
  BY DEF WriteMeta, Quiet
<1> HIDE DEF m, r, i
<1>3. \A j \in Ids : files'[j] = IF j = i THEN m ELSE files[j]
  <2>1. files \in Index /\ m \in Meta \cup {Absent}
    BY <1>1 DEF TypeInv, StateOK
  <2> QED BY <1>1, <2>1, WithMeta
<1>4. /\ tasks'[t] = r /\ \A u \in Tasks : u # t => tasks'[u] = tasks[u] /\ ~Writer(u)
      /\ phase = "up" /\ OneWriter' /\ RebuiltIndex'
  BY <1>1, <1>2, WriterKeeps
<1>5. acked \subseteq Ids /\ Incoming \subseteq Ids
  BY EntriesAssumption DEF TypeInv, StateOK
<1>6. AckedPart'
  BY <1>1, <1>2, <1>3, <1>4, <1>5 DEF DurInv, AckedPart, Writer
<1>7. i \in Incoming => HashOf[i] \in content
  BY <1>1 DEF DurInv, PutPart, i
<1>8. IncomingPart'
  <2>1. \A j \in Incoming : /\ files'[j] # Absent => HashOf[j] \in content'
                            /\ index'[j] # Absent => files'[j] # Absent
    BY <1>1, <1>2, <1>3, <1>5, <1>7 DEF DurInv, IncomingPart
  <2>2. ASSUME NEW j \in Incoming, phase' = "up", files'[j] # Absent, index'[j] = Absent
        PROVE  \E u \in Tasks : Writer(u)' /\ tasks'[u].step = "index" /\ tasks'[u].id = j
    <3>1. \A u \in Tasks : ~(Writer(u) /\ tasks[u].step = "index")
      BY <1>1, <1>4
    <3>2. j = i
      BY <1>2, <1>3, <1>5, <2>2, <3>1 DEF DurInv, IncomingPart
    <3> QED BY <1>1, <1>4, <3>2 DEF Writer
  <2> QED BY <2>1, <2>2 DEF IncomingPart
<1>9. PutPart'
  <2>1. \A j \in Ids : files[j] # Absent => files'[j] # Absent
    BY <1>1, <1>3
  <2>2. files'[i] # Absent
    BY <1>1, <1>3
  <2>3. tasks[t].kind = "put" => \A j \in tasks[t].batch :
          j \in tasks[t].todo \/ j = i \/ (files'[j] # Absent /\ index[j] # Absent)
    <3>1. tasks[t].batch \subseteq Incoming \/ tasks[t].kind # "put"
      BY CallKnown DEF CallOK
    <3> QED BY <1>5, <2>1, <3>1 DEF DurInv, PutPart, InWork, i
  <2>4. \A u \in Tasks : u # t => tasks'[u].kind \notin {"put", "receipts"}
    BY <1>4 DEF Writer
  <2> QED BY <1>1, <1>2, <1>4, <2>2, <2>3, <2>4 DEF PutPart, InWork, Writer
<1> QED BY <1>4, <1>6, <1>8, <1>9 DEF DurInv

(* The index catches up with the file of an entry, or with its deletion.    *)
LEMMA UpdateIndexDurable ==
  ASSUME TypeInv, DurInv, PurgedStayOut, NEW t \in Tasks, UpdateIndex(t)
  PROVE  DurInv'
<1> DEFINE old == tasks[t]
           m == old.meta
           i == old.id
           r == [tasks[t] EXCEPT !.step = "next", !.records[tasks[t].id] = tasks[t].meta]
<1>1. /\ m \in Meta \cup {Absent} /\ i \in Ids /\ old.kind # "none" /\ old.step = "index"
      /\ old.kind # "purge" => m # Absent
      /\ old.kind = "purge" => DocOf[i] = old.doc
      /\ index' = [index EXCEPT ![i] = m]
      /\ r \in Task /\ Update(t, r)
      /\ r.kind = old.kind /\ r.step = "next" /\ r.batch = old.batch
      /\ r.todo = old.todo /\ r.doc = old.doc
  BY UpdateIndexIs DEF UpdateIndex
<1>2. UNCHANGED <<files, content, phase, acked>> /\ phase = "up"
  BY ActiveUp DEF UpdateIndex, Quiet
<1>3. old \in Task /\ CallOK(old)
  BY CallKnown
<1>4. old.kind = "purge" => DocOf[i] \in Purgeable
  BY <1>1, <1>3 DEF CallOK
<1>5. old.kind = "put" => old.batch \subseteq Incoming
  BY <1>3 DEF CallOK
<1>6. tasks'[t] = r /\ \A u \in Tasks : u # t => tasks'[u] = tasks[u]
  BY <1>1, UpdateOne
<1> HIDE DEF r
<1>7. \A j \in Ids : index'[j] = IF j = i THEN m ELSE index[j]
  <2>1. index \in Index
    BY DEF TypeInv, StateOK
  <2> HIDE DEF m, i
  <2>2. m \in Meta \cup {Absent} /\ index' = [index EXCEPT ![i] = m]
    BY <1>1
  <2> QED BY <2>1, <2>2 DEF Index
<1>8. acked \subseteq Ids /\ Incoming \subseteq Ids
  BY EntriesAssumption DEF TypeInv, StateOK
<1>9. old.kind # "purge" => Writer(t) /\ r.kind \in {"put", "receipts"}
  BY <1>1, <1>3, TaskFields DEF Writer
<1>10. \A j \in Incoming : DocOf[j] \notin Purgeable
  BY <1>8 DEF PurgedStayOut
<1>11. OneWriter'
  BY <1>1, <1>6 DEF DurInv, OneWriter, Writer
<1>12. RebuiltIndex'
  BY <1>2 DEF RebuiltIndex
<1>13. AckedPart'
  <2>1. ASSUME NEW j \in acked
        PROVE  index'[j] # Absent
    <3>1. CASE j = i
      <4>1. old.kind # "purge"
        BY <1>1, <3>1 DEF DurInv, AckedPart
      <4> QED BY <1>1, <1>7, <1>8, <3>1, <4>1
    <3>2. CASE j # i
      BY <1>2, <1>7, <1>8, <3>2 DEF DurInv, AckedPart
    <3> QED BY <3>1, <3>2
  <2>2. ASSUME NEW j \in acked, NEW u \in Tasks, tasks'[u].kind = "purge"
        PROVE  /\ DocOf[j] # tasks'[u].doc
               /\ tasks'[u].step = "hashes" => HashOf[j] \notin tasks'[u].hashes
    BY <1>1, <1>6, <2>2 DEF DurInv, AckedPart
  <2> QED BY <1>2, <2>1, <2>2 DEF DurInv, AckedPart
<1>14. i \in Incoming => old.kind # "purge" /\ Writer(t) /\ m # Absent /\ files[i] # Absent
  <2>1. i \in Incoming => old.kind # "purge" /\ Writer(t) /\ m # Absent
    BY <1>1, <1>4, <1>9, <1>10
  <2> QED BY <1>1, <2>1 DEF DurInv, PutPart
<1>15. IncomingPart'
  <2>1. ASSUME NEW j \in Incoming
        PROVE  /\ files[j] # Absent => HashOf[j] \in content
               /\ index'[j] # Absent => files[j] # Absent
    BY <1>7, <1>8, <1>14 DEF DurInv, IncomingPart
  <2>2. ASSUME NEW j \in Incoming, files[j] # Absent, index'[j] = Absent
        PROVE  \E u \in Tasks : Writer(u)' /\ tasks'[u].step = "index" /\ tasks'[u].id = j
    <3>1. j # i /\ index[j] = Absent
      BY <1>7, <1>8, <1>14, <2>2
    <3>2. PICK u \in Tasks : Writer(u) /\ tasks[u].step = "index" /\ tasks[u].id = j
      BY <1>2, <2>2, <3>1 DEF DurInv, IncomingPart
    <3>3. u # t
      BY <3>1, <3>2
    <3> QED BY <1>6, <3>2, <3>3 DEF Writer
  <2> QED BY <1>2, <2>1, <2>2 DEF IncomingPart
<1>16. PutPart'
  <2>1. ASSUME NEW u \in Tasks, tasks'[u].kind = "put", NEW j \in tasks'[u].batch
        PROVE  j \in tasks'[u].todo \/ InWork(u, j)' \/ (files[j] # Absent /\ index'[j] # Absent)
    <3>1. CASE u = t
      <4>1. old.kind = "put" /\ j \in old.batch /\ j \in Incoming
        BY <1>1, <1>5, <1>6, <2>1, <3>1
      <4>2. j \in old.todo \/ j = i \/ (files[j] # Absent /\ index[j] # Absent)
        BY <4>1 DEF DurInv, PutPart, InWork
      <4> QED BY <1>1, <1>6, <1>7, <1>8, <1>14, <3>1, <4>1, <4>2
    <3>2. CASE u # t
      <4>1. tasks'[u] = tasks[u]
        BY <1>6, <3>2
      <4>2. j \in Incoming
        BY <2>1, <4>1, CallKnown DEF CallOK
      <4>3. index[j] # Absent => index'[j] # Absent
        BY <1>7, <1>8, <1>14, <4>2
      <4> QED BY <1>2, <2>1, <4>1, <4>3 DEF DurInv, PutPart, InWork
    <3> QED BY <3>1, <3>2
  <2>2. ASSUME NEW u \in Tasks
        PROVE  /\ tasks'[u].kind = "put" /\ tasks'[u].step \in {"list", "persist", "clear"} => tasks'[u].todo = {}
               /\ Writer(u)' /\ tasks'[u].step = "meta" /\ tasks'[u].id \in Incoming => HashOf[tasks'[u].id] \in content
               /\ Writer(u)' /\ tasks'[u].step = "index" /\ tasks'[u].id \in Incoming => files[tasks'[u].id] # Absent
    BY <1>1, <1>6 DEF DurInv, PutPart, Writer
  <2> QED BY <1>2, <2>1, <2>2 DEF PutPart
<1> QED BY <1>11, <1>12, <1>13, <1>15, <1>16 DEF DurInv

(* A call that moves on to the segment files.                               *)
LEMMA SegmentStepDurable ==
  ASSUME TypeInv, DurInv, NEW t \in Tasks, NEW r \in Task, Update(t, r),
         tasks[t].kind # "none", tasks[t].step \notin {"meta", "index"},
         r.kind = tasks[t].kind, r.doc = tasks[t].doc, r.batch = tasks[t].batch, r.todo = tasks[t].todo,
         r.step \in {"list", "persist", "clear"}, r.kind = "put" => r.todo = {},
         UNCHANGED <<files, content, phase, index, acked>>
  PROVE  DurInv'
<1>1. tasks'[t] = r /\ \A u \in Tasks : u # t => tasks'[u] = tasks[u]
  BY UpdateOne
<1>2. phase = "up"
  BY ActiveUp
<1>3. OneWriter'
  BY <1>1 DEF DurInv, OneWriter, Writer
<1>4. RebuiltIndex'
  BY <1>2 DEF RebuiltIndex
<1>5. AckedPart'
  BY <1>1 DEF DurInv, AckedPart
<1>6. IncomingPart'
  <2>1. ASSUME NEW u \in Tasks, Writer(u), tasks[u].step = "index"
        PROVE  Writer(u)' /\ tasks'[u] = tasks[u]
    BY <1>1, <2>1 DEF Writer
  <2> QED BY <2>1 DEF DurInv, IncomingPart
<1>7. PutPart'
  <2>1. ASSUME NEW u \in Tasks, u # t
        PROVE  tasks'[u] = tasks[u] /\ (Writer(u)' <=> Writer(u)) /\ \A j : InWork(u, j)' <=> InWork(u, j)
    BY <1>1, <2>1 DEF Writer, InWork
  <2>2. \A j : ~InWork(t, j)
    BY DEF InWork
  <2> QED BY <1>1, <2>1, <2>2 DEF DurInv, PutPart
<1> QED BY <1>3, <1>4, <1>5, <1>6, <1>7 DEF DurInv

(* A call returns: what a put acknowledges is stored.                       *)
LEMMA FinishDurable ==
  ASSUME TypeInv, DurInv, PurgedStayOut, NEW t \in Tasks, Finish(t),
         tasks[t].kind # "none", tasks[t].step \notin {"meta", "index"},
         tasks[t].kind = "put" => tasks[t].todo = {},
         UNCHANGED <<files, content, phase, index>>
  PROVE  DurInv'
<1>1. tasks'[t] = NoTask /\ \A u \in Tasks : u # t => tasks'[u] = tasks[u]
  BY NoTaskOK, UpdateOne DEF Finish
<1>2. phase = "up"
  BY ActiveUp
<1>3. NoTask.kind = "none" /\ tasks'[t].kind = "none"
  BY <1>1, NoTaskOK
<1>4. OneWriter'
  BY <1>1, <1>3 DEF DurInv, OneWriter, Writer
<1>5. RebuiltIndex'
  BY <1>2 DEF RebuiltIndex
<1>6. AckedPart'
  <2>1. ASSUME NEW j \in acked', j \notin acked
        PROVE  /\ files[j] # Absent /\ index[j] # Absent /\ HashOf[j] \in content
               /\ j \in Incoming
    <3>1. tasks[t].kind = "put" /\ j \in tasks[t].batch
      BY <2>1 DEF Finish
    <3>2. j \in Incoming
      BY <3>1, CallKnown DEF CallOK
    <3>3. files[j] # Absent /\ index[j] # Absent
      BY <3>1 DEF DurInv, PutPart, InWork
    <3> QED BY <3>2, <3>3 DEF DurInv, IncomingPart
  <2>2. ASSUME NEW j \in Incoming, NEW u \in Tasks, tasks[u].kind = "purge"
        PROVE  DocOf[j] # tasks[u].doc /\ HashOf[j] \notin tasks[u].hashes
    <3>1. /\ tasks[u].doc \in Purgeable
          /\ tasks[u].hashes \subseteq {HashOf[i] : i \in {k \in Ids : DocOf[k] = tasks[u].doc}}
      BY <2>2, CallKnown DEF CallOK
    <3>2. j \in Ids
      BY EntriesAssumption
    <3> QED BY <3>1, <3>2 DEF PurgedStayOut
  <2>3. ASSUME NEW j \in acked'
        PROVE  /\ files[j] # Absent /\ HashOf[j] \in content /\ index[j] # Absent
               /\ \A u \in Tasks : tasks[u].kind = "purge" =>
                    /\ DocOf[j] # tasks[u].doc
                    /\ tasks[u].step = "hashes" => HashOf[j] \notin tasks[u].hashes
    <3>1. CASE j \in acked
      BY <1>2, <3>1 DEF DurInv, AckedPart
    <3>2. CASE j \notin acked
      BY <2>1, <2>2, <3>2
    <3> QED BY <3>1, <3>2
  <2>4. \A u \in Tasks : tasks'[u].kind = "purge" => tasks'[u] = tasks[u]
    BY <1>1, <1>3
  <2> QED BY <2>3, <2>4 DEF AckedPart
<1>7. IncomingPart'
  <2>1. ASSUME NEW u \in Tasks, Writer(u), tasks[u].step = "index"
        PROVE  Writer(u)' /\ tasks'[u] = tasks[u]
    BY <1>1, <2>1 DEF Writer
  <2> QED BY <2>1 DEF DurInv, IncomingPart
<1>8. PutPart'
  <2>1. ASSUME NEW u \in Tasks, u # t
        PROVE  tasks'[u] = tasks[u] /\ (Writer(u)' <=> Writer(u)) /\ \A j : InWork(u, j)' <=> InWork(u, j)
    BY <1>1, <2>1 DEF Writer, InWork
  <2>2. ~Writer(t)'
    BY <1>3 DEF Writer
  <2> QED BY <1>3, <2>1, <2>2 DEF DurInv, PutPart
<1> QED BY <1>4, <1>5, <1>6, <1>7, <1>8 DEF DurInv

LEMMA NoMutationDurable ==
  ASSUME TypeInv, DurInv, PurgedStayOut, NEW t \in Tasks, NoMutation(t)
  PROVE  DurInv'
<1>1. Finish(t) /\ tasks[t].kind # "none" /\ tasks[t].step = "next" /\ tasks[t].todo = {}
  BY DEF NoMutation
<1>2. UNCHANGED <<files, content, phase, index>>
  BY DEF NoMutation, Quiet
<1> QED BY <1>1, <1>2, FinishDurable

LEMMA AppendSegmentDurable ==
  ASSUME TypeInv, DurInv, NEW t \in Tasks, AppendSegment(t)
  PROVE  DurInv'
<1> DEFINE old == tasks[t]
           r == [tasks[t] EXCEPT !.step = "list"]
<1>1. old \in Task /\ CallOK(old) /\ old.kind # "none" /\ old.step \in {"next", "hashes"}
      /\ (old.kind = "put" => old.todo = {})
  BY CallKnown DEF AppendSegment, CallOK
<1>2. /\ r \in Task /\ r.kind = old.kind /\ r.step = "list" /\ r.doc = old.doc
      /\ r.batch = old.batch /\ r.todo = old.todo
  BY <1>1, StepTo
<1>3. Update(t, r) /\ UNCHANGED <<files, content, phase, index, acked>>
  BY DEF AppendSegment, Quiet
<1> HIDE DEF r
<1> QED BY <1>1, <1>2, <1>3, SegmentStepDurable

LEMMA ListSegmentsDurable ==
  ASSUME TypeInv, DurInv, PurgedStayOut, NEW t \in Tasks, ListSegments(t)
  PROVE  DurInv'
<1> DEFINE old == tasks[t]
<1>1. old \in Task /\ CallOK(old) /\ old.step = "list" /\ old.kind # "none"
  BY CallKnown, ActiveUp DEF ListSegments
<1>2. old.kind = "put" => old.todo = {}
  BY <1>1 DEF DurInv, PutPart
<1>3. UNCHANGED <<files, content, phase, index>>
  BY DEF ListSegments, Quiet
<1>4. CASE Finish(t)
  BY <1>1, <1>2, <1>3, <1>4, FinishDurable
<1>5. CASE ~(Len(segments) < MinFiles)
  <2> DEFINE C == Range(segments)
             r == [old EXCEPT !.step = "persist", !.snap = index, !.covered = C]
  <2>1. C \in SUBSET Segment /\ index \in Index
    <3>1. segments \in Seq(Segment) /\ index \in Index
      BY DEF TypeInv, StateOK
    <3> QED BY <3>1 DEF Range
  <2>2. Update(t, r) /\ acked' = acked
    BY <1>5 DEF ListSegments
  <2> HIDE DEF C, old
  <2>3. /\ r \in Task /\ r.kind = old.kind /\ r.step = "persist" /\ r.doc = old.doc
        /\ r.batch = old.batch /\ r.todo = old.todo
    BY <1>1, <2>1 DEF Task
  <2> HIDE DEF r
  <2> QED BY <1>1, <1>2, <1>3, <2>2, <2>3, SegmentStepDurable DEF old
<1> QED BY <1>4, <1>5 DEF ListSegments

LEMMA PersistSnapshotDurable ==
  ASSUME TypeInv, DurInv, NEW t \in Tasks, PersistSnapshot(t)
  PROVE  DurInv'
<1> DEFINE old == tasks[t]
           r == [tasks[t] EXCEPT !.step = "clear"]
<1>1. old \in Task /\ CallOK(old) /\ old.step = "persist" /\ old.kind # "none"
  BY CallKnown, ActiveUp DEF PersistSnapshot
<1>2. old.kind = "put" => old.todo = {}
  BY <1>1 DEF DurInv, PutPart
<1>3. /\ r \in Task /\ r.kind = old.kind /\ r.step = "clear" /\ r.doc = old.doc
      /\ r.batch = old.batch /\ r.todo = old.todo
  BY <1>1, StepTo
<1>4. Update(t, r) /\ UNCHANGED <<files, content, phase, index, acked>>
  BY DEF PersistSnapshot, Quiet
<1> HIDE DEF r
<1> QED BY <1>1, <1>2, <1>3, <1>4, SegmentStepDurable

LEMMA ClearSegmentDurable ==
  ASSUME TypeInv, DurInv, PurgedStayOut, NEW t \in Tasks, ClearSegment(t)
  PROVE  DurInv'
<1>1. tasks[t].step = "clear" /\ tasks[t].kind # "none"
  BY ActiveUp DEF ClearSegment
<1>2. tasks[t].kind = "put" => tasks[t].todo = {}
  BY <1>1 DEF DurInv, PutPart
<1>3. UNCHANGED <<files, content, phase, index>>
  BY DEF ClearSegment, Quiet
<1>4. CASE Finish(t)
  BY <1>1, <1>2, <1>3, <1>4, FinishDurable
<1>5. CASE UNCHANGED <<tasks, acked, erased>>
  BY <1>3, <1>5, ReadDurable
<1> QED BY <1>4, <1>5, ClearSegmentIs

-----------------------------------------------------------------------------
(* Acknowledged entries stay: purges                                       *)

(* A step of a purge: the writer does not change.                           *)
LEMMA PurgeKeeps ==
  ASSUME TypeInv, DurInv, NEW t \in Tasks, tasks[t].kind \notin {"put", "receipts"},
         NEW r \in Task, r.kind = "purge", Update(t, r), phase = "up", phase' = phase
  PROVE  /\ tasks'[t] = r /\ ~Writer(t) /\ ~Writer(t)' /\ OneWriter' /\ RebuiltIndex'
         /\ \A u \in Tasks : u # t => tasks'[u] = tasks[u] /\ (Writer(u)' <=> Writer(u))
<1>1. tasks'[t] = r /\ \A u \in Tasks : u # t => tasks'[u] = tasks[u]
  BY UpdateOne
<1>2. OneWriter'
  BY <1>1 DEF DurInv, OneWriter, Writer
<1>3. RebuiltIndex'
  BY DEF RebuiltIndex
<1> QED BY <1>1, <1>2, <1>3 DEF Writer

(* Those parts of the invariant that are about the writer stay if no file,  *)
(* payload or index entry of what may be put goes.                          *)
LEMMA PurgeWriterPart ==
  ASSUME TypeInv, DurInv, NEW t \in Tasks, ~Writer(t), ~Writer(t)', phase = "up",
         \A u \in Tasks : u # t => tasks'[u] = tasks[u] /\ (Writer(u)' <=> Writer(u)),
         \A i \in Incoming : /\ files'[i] = files[i] /\ index'[i] = index[i]
                             /\ HashOf[i] \in content => HashOf[i] \in content'
  PROVE  IncomingPart' /\ PutPart'
<1>1. IncomingPart'
  BY DEF DurInv, IncomingPart
<1>2. PutPart'
  <2>1. ASSUME NEW u \in Tasks, Writer(u)'
        PROVE  tasks'[u] = tasks[u] /\ Writer(u)
    BY <2>1
  <2>2. ASSUME NEW u \in Tasks, tasks'[u].kind = "put"
        PROVE  tasks'[u] = tasks[u] /\ tasks[u].batch \subseteq Incoming
    <3>1. tasks'[u] = tasks[u]
      BY <2>1, <2>2 DEF Writer
    <3> QED BY <2>2, <3>1, CallKnown DEF CallOK
  <2>3. ASSUME NEW u \in Tasks, tasks'[u] = tasks[u], NEW i \in Incoming, InWork(u, i)
        PROVE  InWork(u, i)'
    BY <2>3 DEF InWork
  <2> QED BY <2>1, <2>2, <2>3 DEF DurInv, PutPart
<1> QED BY <1>1, <1>2

LEMMA PurgeDocHistoryDurable ==
  ASSUME TypeInv, DurInv, NEW t \in Tasks, NEW d \in Purgeable, PurgeDocHistory(t, d)
  PROVE  DurInv'
<1> DEFINE S == {i \in In(index) : DocOf[i] = d}
           r == [NoTask EXCEPT !.kind = "purge", !.batch = S, !.todo = S, !.doc = d,
                               !.hashes = {HashOf[i] : i \in S}]
<1>1. UNCHANGED <<files, content, phase, index>> /\ phase = "up" /\ tasks[t].kind = "none"
  BY DEF PurgeDocHistory, Quiet
<1>2. CASE S = {}
  <2>1. UNCHANGED <<tasks, acked>>
    BY <1>2 DEF PurgeDocHistory
  <2> QED BY <1>1, <2>1, ReadDurable
<1>3. CASE S # {}
  <2>1. r \in Task /\ r.kind = "purge" /\ r.step = "next" /\ r.doc = d
    BY PurgeStart
  <2>2. Update(t, r) /\ acked' = {i \in acked : DocOf[i] # d}
    BY <1>3 DEF PurgeDocHistory
  <2> HIDE DEF r, S
  <2>3. /\ tasks'[t] = r /\ ~Writer(t) /\ ~Writer(t)' /\ OneWriter' /\ RebuiltIndex'
        /\ \A u \in Tasks : u # t => tasks'[u] = tasks[u] /\ (Writer(u)' <=> Writer(u))
    BY <1>1, <2>1, <2>2, PurgeKeeps
  <2>4. AckedPart'
    BY <1>1, <2>1, <2>2, <2>3 DEF DurInv, AckedPart
  <2>5. IncomingPart' /\ PutPart'
    BY <1>1, <2>3, PurgeWriterPart
  <2> QED BY <2>3, <2>4, <2>5 DEF DurInv
<1> QED BY <1>2, <1>3

LEMMA PurgeFileDurable ==
  ASSUME TypeInv, DurInv, PurgedStayOut, NEW t \in Tasks, NEW i \in Ids, PurgeFile(t, i)
  PROVE  DurInv'
<1>1. /\ DocOf[i] = tasks[t].doc /\ tasks[t].kind = "purge" /\ tasks[t].doc \in Purgeable
      /\ \E r \in Task : Update(t, r) /\ r.kind = "purge" /\ r.step = "index" /\ r.doc = tasks[t].doc
  BY PurgeFileIs
<1>0. PICK r \in Task : Update(t, r) /\ r.kind = "purge" /\ r.step = "index" /\ r.doc = tasks[t].doc
  BY <1>1
<1>2. UNCHANGED <<content, phase, index, acked>> /\ phase = "up"
  BY ActiveUp DEF PurgeFile, Quiet
<1>3. \A j \in Ids : j # i => files'[j] = files[j]
  BY DEF PurgeFile, TypeInv, StateOK, Index
<1>4. /\ tasks'[t] = r /\ ~Writer(t) /\ ~Writer(t)' /\ OneWriter' /\ RebuiltIndex'
      /\ \A u \in Tasks : u # t => tasks'[u] = tasks[u] /\ (Writer(u)' <=> Writer(u))
  BY <1>0, <1>1, <1>2, PurgeKeeps
<1>5. i \notin acked /\ i \notin Incoming
  BY <1>1 DEF DurInv, AckedPart, PurgedStayOut
<1>6. acked \subseteq Ids /\ Incoming \subseteq Ids
  BY EntriesAssumption DEF TypeInv, StateOK
<1>7. AckedPart'
  BY <1>0, <1>1, <1>2, <1>3, <1>4, <1>5, <1>6 DEF DurInv, AckedPart
<1>8. \A j \in Incoming : files'[j] = files[j] /\ index'[j] = index[j]
  BY <1>2, <1>3, <1>5, <1>6
<1>9. IncomingPart' /\ PutPart'
  BY <1>2, <1>4, <1>8, PurgeWriterPart
<1> QED BY <1>4, <1>7, <1>9 DEF DurInv

(* A payload is an orphan only if no entry of the index has it, and all     *)
(* acknowledged entries are in the index.                                   *)
LEMMA OrphanedHashesDurable ==
  ASSUME TypeInv, DurInv, NEW t \in Tasks, OrphanedHashes(t)
  PROVE  DurInv'
<1> DEFINE r == [tasks[t] EXCEPT !.step = "hashes", !.hashes = @ \ {HashOf[i] : i \in In(index)}]
<1>1. /\ r \in Task /\ Update(t, r) /\ r.kind = "purge" /\ r.doc = tasks[t].doc
      /\ r.hashes = tasks[t].hashes \ {HashOf[i] : i \in In(index)} /\ tasks[t].kind = "purge"
  BY OrphanedHashesIs
<1>2. UNCHANGED <<files, content, phase, index, acked>> /\ phase = "up"
  BY ActiveUp DEF OrphanedHashes, Quiet
<1> HIDE DEF r
<1>3. /\ tasks'[t] = r /\ ~Writer(t) /\ ~Writer(t)' /\ OneWriter' /\ RebuiltIndex'
      /\ \A u \in Tasks : u # t => tasks'[u] = tasks[u] /\ (Writer(u)' <=> Writer(u))
  BY <1>1, <1>2, PurgeKeeps
<1>4. acked \subseteq In(index)
  BY <1>2 DEF DurInv, AckedPart, In, TypeInv, StateOK
<1>5. \A j \in acked : HashOf[j] \notin r.hashes
  BY <1>1, <1>4
<1>6. AckedPart'
  BY <1>1, <1>2, <1>3, <1>5 DEF DurInv, AckedPart
<1>7. IncomingPart' /\ PutPart'
  BY <1>2, <1>3, PurgeWriterPart
<1> QED BY <1>3, <1>6, <1>7 DEF DurInv

LEMMA PurgeContentDurable ==
  ASSUME TypeInv, DurInv, PurgedStayOut, NEW t \in Tasks, NEW h, PurgeContent(t, h)
  PROVE  DurInv'
<1> DEFINE r == [tasks[t] EXCEPT !.hashes = @ \ {h}]
<1>1. /\ r \in Task /\ Update(t, r) /\ r.kind = "purge" /\ r.step = "hashes" /\ r.doc = tasks[t].doc
      /\ r.hashes \subseteq tasks[t].hashes /\ tasks[t].kind = "purge"
  BY PurgeContentIs
<1>2. /\ UNCHANGED <<files, phase, index, acked>> /\ phase = "up"
      /\ content' = content \ {h} /\ h \in tasks[t].hashes /\ tasks[t].step = "hashes"
  BY ActiveUp DEF PurgeContent, Quiet
<1> HIDE DEF r
<1>3. /\ tasks'[t] = r /\ ~Writer(t) /\ ~Writer(t)' /\ OneWriter' /\ RebuiltIndex'
      /\ \A u \in Tasks : u # t => tasks'[u] = tasks[u] /\ (Writer(u)' <=> Writer(u))
  BY <1>1, <1>2, PurgeKeeps
<1>4. \A j \in acked : HashOf[j] # h
  BY <1>1, <1>2 DEF DurInv, AckedPart
<1>5. AckedPart'
  BY <1>1, <1>2, <1>3, <1>4 DEF DurInv, AckedPart
<1>6. \A j \in Incoming : HashOf[j] # h
  <2>1. /\ tasks[t].doc \in Purgeable
        /\ h \in {HashOf[i] : i \in {k \in Ids : DocOf[k] = tasks[t].doc}}
    BY <1>1, <1>2, CallKnown DEF CallOK
  <2> QED BY <2>1 DEF PurgedStayOut
<1>7. IncomingPart' /\ PutPart'
  BY <1>2, <1>3, <1>6, PurgeWriterPart
<1> QED BY <1>3, <1>5, <1>7 DEF DurInv

-----------------------------------------------------------------------------
(* The theorem                                                              *)

LEMMA NextDurable ==
  ASSUME TypeInv, DurInv, PurgedStayOut, [Next]_vars
  PROVE  DurInv'
<1>1. CASE UNCHANGED vars \/ PeerSync
  BY <1>1, ReadDurable DEF PeerSync, vars, disk, memory
<1>2. CASE \/ Start \/ LoadEpoch \/ LoadIndex \/ PersistRebuilt \/ ClearReplayed \/ Migrated
           \/ \E i \in Ids : MigrateFile(i)
  BY <1>2, BootDurable
<1>3. CASE Stop \/ Crash
  BY <1>3, DownDurable DEF Stop, Crash
<1>4. ASSUME NEW t \in Tasks, Call(t) PROVE DurInv'
  BY <1>4, PutEntriesDurable, ApplyWitnessReceiptsDurable, PurgeDocHistoryDurable DEF Call
<1>5. ASSUME NEW t \in Tasks, TaskStep(t) PROVE DurInv'
  <2>1. ASSUME NEW i \in Ids, PutContent(t, i) \/ ReadReceipt(t, i) \/ PurgeFile(t, i) PROVE DurInv'
    BY <2>1, PutSkipDurable, PutTakeDurable, ReadReceiptDurable, PurgeFileDurable
  <2>2. ASSUME NEW h \in Hashes, PurgeContent(t, h) PROVE DurInv'
    BY <2>2, PurgeContentDurable
  <2>3. CASE WriteMeta(t) \/ UpdateIndex(t) \/ OrphanedHashes(t)
    BY <2>3, WriteMetaDurable, UpdateIndexDurable, OrphanedHashesDurable
  <2>4. CASE \/ NoMutation(t) \/ AppendSegment(t) \/ ListSegments(t)
             \/ PersistSnapshot(t) \/ ClearSegment(t)
    BY <2>4, NoMutationDurable, AppendSegmentDurable, ListSegmentsDurable, PersistSnapshotDurable,
       ClearSegmentDurable
  <2> QED BY <1>5, <2>1, <2>2, <2>3, <2>4 DEF TaskStep
<1> QED BY <1>1, <1>2, <1>3, <1>4, <1>5 DEF Next

LEMMA DurableInvariant ==
  ASSUME PurgedStayOut
  PROVE  Spec => [](TypeInv /\ DurInv)
<1>1. Init => TypeInv /\ DurInv
  BY InitTyped, InitDurable
<1>2. TypeInv /\ DurInv /\ [Next /\ Noted]_vars => (TypeInv /\ DurInv)'
  BY NextTyped, NextDurable
<1> QED BY <1>1, <1>2, PTL DEF Spec

(* An entry whose put has returned keeps its file, and is in the index      *)
(* whenever the store is up, through every interleaving of puts, receipts,  *)
(* purges and compactions, every crash and every restart, until its own     *)
(* document is purged.                                                      *)
THEOREM AcknowledgedStays ==
  ASSUME PurgedStayOut
  PROVE  Spec => []AcknowledgedIsDurable
<1>1. TypeInv /\ DurInv => AcknowledgedIsDurable
  BY DEF DurInv, AckedPart, AcknowledgedIsDurable
<1> QED BY <1>1, DurableInvariant, PTL

(* Its payload stays too, even when a purge of another document deletes     *)
(* payloads the two documents share; and what may be put has its payload    *)
(* from the moment it can be found, acknowledged or not.                    *)
PayloadsStay ==
  /\ \A i \in acked : HashOf[i] \in content
  /\ \A i \in Incoming \cap In(files) : HashOf[i] \in content

THEOREM PayloadsAreKept ==
  ASSUME PurgedStayOut
  PROVE  Spec => []PayloadsStay
<1>1. TypeInv /\ DurInv => PayloadsStay
  BY DEF DurInv, AckedPart, IncomingPart, PayloadsStay, In
<1> QED BY <1>1, DurableInvariant, PTL
-----------------------------------------------------------------------------
(* The feed: what snapshot and log say                                      *)

(* Segments and what they say, as far as their types go.                    *)
LEMMA LogTypes ==
  ASSUME NEW log \in Seq(Segment)
  PROVE  /\ Len(log) \in Nat /\ DOMAIN log = 1 .. Len(log)
         /\ \A k \in DOMAIN log : log[k].time \in Nat /\ log[k].records \in Records
<1>1. DOMAIN log = 1 .. Len(log) /\ \A k \in DOMAIN log : log[k] \in Segment
  OBVIOUS
<1>2. \A g \in Segment : g.time \in Nat /\ g.records \in Records
  BY DEF Segment
<1> QED BY <1>1, <1>2

LEMMA MetaLogged == \A m \in Meta \cup {Absent} : m # Unlogged
BY UnloggedAssumption DEF Meta, Receipts

(* A segment that says nothing of an entry leaves it as it was.             *)
LEMMA AppendQuiet ==
  ASSUME NEW log \in Seq(Segment), NEW g \in Segment, NEW snap, NEW i, NEW m,
         DiskHas(snap, log, i, m), g.records[i] = Unlogged
  PROVE  DiskHas(snap, Append(log, g), i, m)
<1> DEFINE new == Append(log, g)
<1>1. /\ Len(log) \in Nat /\ DOMAIN log = 1 .. Len(log) /\ DOMAIN new = 1 .. Len(log) + 1
      /\ new[Len(log) + 1] = g /\ \A k \in DOMAIN log : new[k] = log[k]
  OBVIOUS
<1> HIDE DEF new
<1>2. CASE Silent(log, i) /\ snap[i] = m
  <2>1. \A k \in DOMAIN new : k \in DOMAIN log \/ k = Len(log) + 1
    BY <1>1
  <2>2. Silent(new, i)
    BY <1>1, <1>2, <2>1 DEF Silent
  <2> QED BY <1>2, <2>2 DEF DiskHas, new
<1>3. CASE m # Absent /\ LastSays(log, i, m)
  <2>1. PICK k \in DOMAIN log :
          log[k].records[i] = m /\ \A l \in DOMAIN log : k < l => log[l].records[i] = Unlogged
    BY <1>3 DEF LastSays
  <2>2. k \in DOMAIN new /\ new[k].records[i] = m
    BY <1>1, <2>1
  <2>3. \A l \in DOMAIN new : k < l => new[l].records[i] = Unlogged
    <3> TAKE l \in DOMAIN new
    <3>1. l \in DOMAIN log \/ l = Len(log) + 1
      BY <1>1
    <3> QED BY <1>1, <2>1, <3>1
  <2>4. LastSays(new, i, m)
    BY <2>2, <2>3 DEF LastSays
  <2> QED BY <1>3, <2>4 DEF DiskHas, new
<1> QED BY <1>2, <1>3 DEF DiskHas

(* A segment that says something has the last word.                         *)
LEMMA AppendSays ==
  ASSUME NEW log \in Seq(Segment), NEW g \in Segment, NEW snap, NEW i,
         g.records[i] # Absent
  PROVE  DiskHas(snap, Append(log, g), i, g.records[i])
<1> DEFINE new == Append(log, g)
<1>1. /\ Len(log) \in Nat /\ DOMAIN new = 1 .. Len(log) + 1 /\ new[Len(log) + 1] = g
  OBVIOUS
<1> HIDE DEF new
<1>2. Len(log) + 1 \in DOMAIN new /\ \A l \in DOMAIN new : ~(Len(log) + 1 < l)
  BY <1>1
<1>3. LastSays(new, i, g.records[i])
  BY <1>1, <1>2 DEF LastSays
<1> QED BY <1>3 DEF DiskHas, new

(* A log without its first segment, over a snapshot that is right.          *)
LEMMA DropFirst ==
  ASSUME NEW log \in Seq(Segment), log # <<>>, NEW new,
         DOMAIN new = 1 .. Len(log) - 1, \A l \in DOMAIN new : new[l] = log[l + 1],
         NEW snap, NEW i, DiskHas(snap, log, i, snap[i])
  PROVE  DiskHas(snap, new, i, snap[i])
<1>1. /\ Len(log) \in Nat /\ Len(log) # 0 /\ DOMAIN log = 1 .. Len(log)
      /\ DOMAIN new = 1 .. Len(log) - 1 /\ \A l \in DOMAIN new : new[l] = log[l + 1]
  OBVIOUS
<1>2. \A l \in DOMAIN new : l + 1 \in DOMAIN log
  BY <1>1
<1>3. CASE Silent(log, i)
  BY <1>1, <1>2, <1>3 DEF Silent, DiskHas
<1>4. CASE snap[i] # Absent /\ LastSays(log, i, snap[i])
  <2>1. PICK k \in DOMAIN log : /\ log[k].records[i] = snap[i]
                                /\ \A l \in DOMAIN log : k < l => log[l].records[i] = Unlogged
    BY <1>4 DEF LastSays
  <2>2. CASE k = 1
    <3>1. \A l \in DOMAIN new : 1 < l + 1
      BY <1>1
    <3>2. Silent(new, i)
      BY <1>1, <1>2, <2>1, <2>2, <3>1 DEF Silent
    <3> QED BY <3>2 DEF DiskHas
  <2>3. CASE k # 1
    <3>1. k - 1 \in DOMAIN new /\ (k - 1) + 1 = k
      BY <1>1, <2>3
    <3>2. \A l \in DOMAIN new : k - 1 < l => k < l + 1
      BY <1>1
    <3>3. new[k - 1].records[i] = snap[i]
      BY <1>1, <2>1, <3>1
    <3>4. \A l \in DOMAIN new : k - 1 < l => new[l].records[i] = Unlogged
      BY <1>1, <1>2, <2>1, <3>2
    <3>5. LastSays(new, i, snap[i])
      BY <3>1, <3>3, <3>4 DEF LastSays
    <3> QED BY <1>4, <3>5 DEF DiskHas
  <2> QED BY <2>2, <2>3
<1> QED BY <1>3, <1>4 DEF DiskHas

LEMMA DropKeepsOrder ==
  ASSUME NEW log \in Seq(Segment), log # <<>>, NEW new,
         DOMAIN new = 1 .. Len(log) - 1, \A l \in DOMAIN new : new[l] = log[l + 1], InOrder(log)
  PROVE  InOrder(new)
<1>1. /\ Len(log) \in Nat /\ Len(log) # 0 /\ DOMAIN log = 1 .. Len(log)
      /\ DOMAIN new = 1 .. Len(log) - 1 /\ \A l \in DOMAIN new : new[l] = log[l + 1]
  OBVIOUS
<1>2. \A k, l \in DOMAIN new : k < l => k + 1 \in DOMAIN log /\ l + 1 \in DOMAIN log /\ k + 1 < l + 1
  BY <1>1
<1> QED BY <1>1, <1>2 DEF InOrder

(* Replay in the order of the names: with times that increase, the segment  *)
(* that was written last has the last word.                                 *)
LEMMA ReplayGives ==
  ASSUME NEW log \in Seq(Segment), InOrder(log), NEW p \in Sorted(log), NEW snap \in Index,
         NEW i \in Ids, NEW m \in Meta \cup {Absent}, DiskHas(snap, log, i, m)
  PROVE  Replay(snap, p)[i] = m
<1>1. /\ Len(log) \in Nat /\ DOMAIN log = 1 .. Len(log)
      /\ \A k \in DOMAIN log : log[k].time \in Nat /\ log[k].records \in Records
  BY LogTypes
<1>2. PICK f \in Bijection(DOMAIN log, DOMAIN log) : p = [k \in DOMAIN log |-> log[f[k]]]
  BY DEF Sorted
<1>3. /\ DOMAIN p = DOMAIN log /\ \A k \in DOMAIN log : f[k] \in DOMAIN log /\ p[k] = log[f[k]]
      /\ \A n \in DOMAIN log : \E k \in DOMAIN log : f[k] = n
  BY <1>2 DEF Bijection, Injection, Surjection
<1>4. \A k, l \in DOMAIN p : k < l => p[k].time <= p[l].time
  BY DEF Sorted
<1>5. Replay(snap, p)[i] = IF LastRecord(p, i) = 0 THEN snap[i] ELSE p[LastRecord(p, i)].records[i]
  BY DEF Replay
<1>6. LastRecord(p, i) # 0 => /\ LastRecord(p, i) \in DOMAIN p
                              /\ p[LastRecord(p, i)].records[i] # Unlogged
  BY <1>1, <1>3, LastRecordOf
<1>7. CASE Silent(log, i) /\ snap[i] = m
  <2>1. ASSUME NEW k \in DOMAIN log
        PROVE  p[k].records[i] = Unlogged
    <3>1. f[k] \in DOMAIN log /\ p[k] = log[f[k]]
      BY <1>3
    <3>2. log[f[k]].records[i] = Unlogged
      BY <1>7, <3>1 DEF Silent
    <3> QED BY <3>1, <3>2
  <2>2. LastRecord(p, i) = 0
    BY <1>3, <1>6, <2>1
  <2> QED BY <1>5, <1>7, <2>2
<1>8. CASE m # Absent /\ LastSays(log, i, m)
  <2>1. PICK n \in DOMAIN log :
          log[n].records[i] = m /\ \A l \in DOMAIN log : n < l => log[l].records[i] = Unlogged
    BY <1>8 DEF LastSays
  <2>2. PICK k \in DOMAIN log : f[k] = n
    BY <1>3
  <2>3. p[k].records[i] # Unlogged
    BY <1>3, <2>1, <2>2, MetaLogged
  <2> DEFINE at == {j \in DOMAIN p : p[j].records[i] # Unlogged}
             last == LastRecord(p, i)
  <2>4. last \in DOMAIN p /\ last # 0 /\ k <= last
    <3>1. at \in SUBSET Nat /\ IsFiniteSet(at) /\ k \in at /\ 0 \notin at
      <4>1. IsFiniteSet(1 .. Len(log)) /\ at \subseteq 1 .. Len(log) /\ k \in at
        BY <1>1, <1>3, <2>3, FS_Interval
      <4> HIDE DEF at
      <4>2. at \in SUBSET Nat /\ 0 \notin at
        BY <1>1, <4>1
      <4> QED BY <4>1, <4>2, FS_Subset
    <3>2. last = CHOOSE j \in at : \A l \in at : l <= j
      BY <3>1 DEF LastRecord
    <3>3. \E j \in at : \A l \in at : l <= j
      <4> HIDE DEF at
      <4> QED BY <3>1, GreatestExists
    <3>4. last \in at /\ \A l \in at : l <= last
      <4> HIDE DEF at, last
      <4> QED BY <3>2, <3>3
    <3> QED BY <3>1, <3>4
  <2>5. p[last].records[i] # Unlogged
    BY <1>6, <2>4
  <2> HIDE DEF at, last
  <2> DEFINE e == f[last]
  <2>6. e \in DOMAIN log /\ p[last] = log[e] /\ log[e].records[i] # Unlogged
    BY <1>3, <2>4, <2>5
  <2> HIDE DEF e
  <2>7. p[k].time <= p[last].time
    <3>1. k < last \/ k = last
      BY <1>1, <1>3, <2>4
    <3>2. CASE k < last
      BY <1>3, <1>4, <2>4, <3>2
    <3>3. CASE k = last
      <4>1. log[n].time \in Nat /\ p[last] = log[n]
        BY <1>1, <1>3, <2>2, <3>3
      <4>2. \A x \in Nat : x <= x
        OBVIOUS
      <4> QED BY <3>3, <4>1, <4>2
    <3> QED BY <3>1, <3>2, <3>3
  <2>8. log[n].time <= log[e].time
    BY <1>3, <2>2, <2>6, <2>7
  <2>9. ~(n < e) /\ ~(e < n)
    <3>1. ~(n < e)
      BY <2>1, <2>6
    <3>2. log[n].time \in Nat /\ log[e].time \in Nat
      BY <1>1, <2>6
    <3>3. e < n => log[e].time < log[n].time
      BY <2>6 DEF InOrder
    <3> QED BY <2>8, <3>1, <3>2, <3>3
  <2>10. e = n
    BY <1>1, <2>6, <2>9
  <2> QED BY <1>5, <2>1, <2>4, <2>6, <2>10 DEF last
<1> QED BY <1>7, <1>8 DEF DiskHas

-----------------------------------------------------------------------------
(* The feed: start, stop and crash                                          *)

(* A snapshot that is right, under a log that is right or says nothing.     *)
LEMMA SnapshotRight ==
  ASSUME NEW snap, NEW new, NEW log, NEW i, NEW m,
         DiskHas(snap, log, i, m) \/ DiskHas(snap, log, i, Absent), new[i] = m
  PROVE  DiskHas(new, log, i, m)
BY DEF DiskHas

(* Nothing under way, nothing waits to be logged.                           *)
LEMMA RestFollows ==
  ASSUME NEW fs, NEW idx, NEW snap, NEW log, NEW p,
         \A i \in Ids : idx[i] = fs[i] /\ DiskHas(snap, log, i, idx[i])
  PROVE  Follows(NoTask, fs, idx, snap, log, p)
<1>1. /\ NoTask.kind = "none" /\ NoTask.step = "next"
      /\ \A i \in Ids : NoTask.records[i] = Unlogged
  BY DEF NoTask, NoRecords
<1>2. FilesFollow(NoTask, fs, idx, p)
  BY <1>1 DEF FilesFollow
<1>3. DiskFollows(NoTask, idx, snap, log)
  BY <1>1 DEF DiskFollows
<1> QED BY <1>1, <1>2, <1>3 DEF Follows

LEMMA FirstMetaIs ==
  ASSUME NEW had \in Installations, NEW i \in Ids
  PROVE  FirstMeta(had, i) \in Meta /\ FirstMeta(had, i) # Absent /\ FirstMeta(had, i) # Unlogged
<1>1. IsFiniteSet({j \in had.entries : j <= i})
  BY EntriesAssumption, IdsAssumption, FS_Subset
<1>2. Cardinality({j \in had.entries : j <= i}) \in Nat
  BY <1>1, FS_CardinalityType
<1>3. FirstMeta(had, i) \in Meta
  BY <1>2 DEF FirstMeta, Meta, Receipts
<1> HIDE DEF FirstMeta
<1> QED BY <1>3, AbsentAssumption, MetaLogged DEF Meta, Receipts

LEMMA InitCalm == Init => Calm
<1> SUFFICES ASSUME NEW had \in Installations, InitWith(had)
             PROVE  Calm
  BY DEF Init
<1>1. phase = "down" /\ epochFile = 0 /\ peer.epoch = 0
  BY DEF InitWith
<1> DEFINE g == [time |-> 0, records |-> [i \in Ids |->
                   IF i \in had.entries THEN FirstMeta(had, i) ELSE Unlogged]]
<1>2. /\ segments = IF had.entries = {} THEN <<>> ELSE <<g>>
      /\ \A i \in Ids : /\ files[i] = IF i \in had.entries THEN FirstMeta(had, i) ELSE Absent
                        /\ g.records[i] = IF i \in had.entries THEN FirstMeta(had, i) ELSE Unlogged
                        /\ snapshot[i] = Absent
  BY DEF InitWith, NoIndex
<1> HIDE DEF g
<1>3. ASSUME NEW i \in Ids
      PROVE  DiskHas(snapshot, segments, i, files[i])
  <2>1. CASE had.entries = {}
    <3>1. segments = <<>> /\ files[i] = Absent
      BY <1>2, <2>1
    <3>2. Silent(segments, i)
      BY <3>1 DEF Silent
    <3> QED BY <1>2, <3>1, <3>2 DEF DiskHas
  <2>2. CASE had.entries # {}
    <3>1. segments = <<g>> /\ DOMAIN segments = {1} /\ segments[1] = g
      BY <1>2, <2>2
    <3>2. CASE i \in had.entries
      <4>1. g.records[i] = files[i] /\ files[i] # Absent
        BY <1>2, <3>2, FirstMetaIs
      <4>2. LastSays(segments, i, files[i])
        BY <3>1, <4>1 DEF LastSays
      <4> QED BY <4>1, <4>2 DEF DiskHas
    <3>3. CASE i \notin had.entries
      <4>1. Silent(segments, i)
        BY <1>2, <3>1, <3>3 DEF Silent
      <4> QED BY <1>2, <3>3, <4>1 DEF DiskHas
    <3> QED BY <3>2, <3>3
  <2> QED BY <2>1, <2>2
<1>4. Booting
  BY <1>1, <1>3 DEF Booting
<1>5. InOrder(segments)
  <2>1. \A k, l \in DOMAIN segments : k = 1 /\ l = 1
    BY <1>2
  <2> QED BY <2>1 DEF InOrder
<1> QED BY <1>1, <1>4, <1>5 DEF Calm, Running, EpochKept, PeerKept

LEMMA StartCalm ==
  ASSUME TypeInv, Calm, Start, phase' # "migrate"
  PROVE  Calm'
<1>1. phase = "down" /\ phase' = "epoch" /\ UNCHANGED <<files, snapshot, segments, epochFile, peer>>
  BY DEF Start, disk, rest
<1>2. Booting' /\ Running' /\ EpochKept'
  BY <1>1 DEF Calm, Booting, Running, EpochKept
<1>3. PeerKept' /\ InOrder(segments)'
  BY <1>1 DEF Calm, PeerKept
<1> QED BY <1>2, <1>3 DEF Calm

LEMMA LoadEpochCalm ==
  ASSUME TypeInv, Calm, LoadEpoch
  PROVE  Calm'
<1>1. /\ phase = "epoch" /\ phase' = "load" /\ UNCHANGED <<files, snapshot, segments, peer>>
      /\ epoch' = epochFile' /\ (epochFile # 0 => epochFile' = epochFile)
  BY DEF LoadEpoch, rest
<1>2. epochFile' # 0
  BY DEF LoadEpoch, TypeInv, StateOK
<1>3. Booting' /\ Running'
  BY <1>1 DEF Calm, Booting, Running
<1>4. EpochKept'
  BY <1>1, <1>2 DEF Calm, EpochKept
<1>5. PeerKept' /\ InOrder(segments)'
  BY <1>1 DEF Calm, PeerKept
<1> QED BY <1>3, <1>4, <1>5 DEF Calm

(* A store that comes up with the files for its index.                      *)
LEMMA UpCalm ==
  ASSUME TypeInv, Calm, phase \in {"load", "clear"}, phase' = "up",
         UNCHANGED <<files, snapshot, segments, epochFile, epoch, tasks, peer>>,
         index' = files, Numbered(files, next'),
         \A i \in Ids : DiskHas(snapshot, segments, i, files[i])
  PROVE  Calm'
<1>1. Booting' /\ InOrder(segments)' /\ EpochKept'
  BY DEF Calm, Booting, EpochKept
<1>2. Idle'
  BY DEF TypeInv, CallsOnlyUp, Idle
<1>3. Follows(NoTask, files', index', snapshot', segments', peer')
  BY RestFollows
<1>4. Running'
  BY <1>2, <1>3 DEF Running
<1>5. PeerKept'
  BY DEF Calm, PeerKept
<1> QED BY <1>1, <1>4, <1>5 DEF Calm

LEMMA LoadIndexCalm ==
  ASSUME TypeInv, Calm, LoadIndex
  PROVE  Calm'
<1>1. PICK p \in Sorted(segments) :
        LET idx == Replay(snapshot, p)
            covers == In(idx) = In(files)
        IN  /\ index' = IF covers THEN idx ELSE files
            /\ phase' = IF covers THEN "up" ELSE "persist"
            /\ next' = NextAfter(index')
  BY DEF LoadIndex
<1> DEFINE idx == Replay(snapshot, p)
<1>2. /\ phase = "load" /\ segments \in Seq(Segment) /\ snapshot \in Index /\ files \in Index
      /\ UNCHANGED <<files, snapshot, segments, epochFile, epoch, tasks, peer>>
  BY DEF LoadIndex, TypeInv, StateOK, disk, rest
<1>3. idx \in Index
  BY <1>2, ReplayTyped
<1>4. /\ index' = IF In(idx) = In(files) THEN idx ELSE files
      /\ phase' = IF In(idx) = In(files) THEN "up" ELSE "persist"
      /\ next' = NextAfter(index')
  BY <1>1
<1>5. CASE In(idx) = In(files)
  <2>1. ASSUME NEW i \in Ids
        PROVE  idx[i] = files[i] /\ DiskHas(snapshot, segments, i, files[i])
    <3>1. InOrder(segments) /\ files[i] \in Meta \cup {Absent}
      BY <1>2 DEF Calm, Index
    <3>2. CASE DiskHas(snapshot, segments, i, files[i])
      BY <1>2, <3>1, <3>2, ReplayGives
    <3>3. CASE DiskHas(snapshot, segments, i, Absent)
      <4>1. idx[i] = Absent
        BY <1>2, <3>1, <3>3, ReplayGives
      <4> HIDE DEF idx
      <4>2. files[i] = Absent
        BY <1>5, <4>1 DEF In
      <4> QED BY <3>3, <4>1, <4>2
    <3>4. DiskHas(snapshot, segments, i, files[i]) \/ DiskHas(snapshot, segments, i, Absent)
      BY <1>2 DEF Calm, Booting
    <3> QED BY <3>2, <3>3, <3>4
  <2> HIDE DEF idx
  <2>2. idx = files
    BY <1>2, <1>3, <2>1 DEF Index
  <2>3. index' = files /\ phase' = "up" /\ next' = NextAfter(files)
    BY <1>4, <1>5, <2>2
  <2>4. Numbered(files, next')
    BY <1>2, <2>3, NextAfterBeyond DEF Numbered
  <2> QED BY <1>2, <2>1, <2>3, <2>4, UpCalm
<1>6. CASE In(idx) # In(files)
  <2> HIDE DEF idx
  <2>1. index' = files /\ phase' = "persist" /\ next' = NextAfter(files)
    BY <1>4, <1>6
  <2>2. Numbered(files, next')
    BY <1>2, <2>1, NextAfterBeyond DEF Numbered
  <2>3. Booting' /\ Running' /\ EpochKept'
    BY <1>2, <2>1, <2>2 DEF Calm, Booting, Running, EpochKept
  <2>4. PeerKept' /\ InOrder(segments)'
    BY <1>2, <2>1 DEF Calm, PeerKept
  <2> QED BY <2>3, <2>4 DEF Calm
<1> QED BY <1>5, <1>6

LEMMA PersistRebuiltCalm ==
  ASSUME TypeInv, Calm, PersistRebuilt
  PROVE  Calm'
<1>1. /\ phase = "persist" /\ phase' = "clear" /\ snapshot' = files /\ index' = files
      /\ UNCHANGED <<files, segments, epochFile, epoch, next, peer>> /\ Numbered(files, next)
  BY DEF PersistRebuilt, Calm, Booting, rest
<1>2. \A i \in Ids : DiskHas(snapshot', segments, i, files[i])
  <2> TAKE i \in Ids
  <2>1. DiskHas(snapshot, segments, i, files[i]) \/ DiskHas(snapshot, segments, i, Absent)
    BY <1>1 DEF Calm, Booting
  <2>2. snapshot'[i] = files[i]
    BY <1>1
  <2> QED BY <2>1, <2>2, SnapshotRight
<1>3. Booting'
  BY <1>1, <1>2 DEF Booting
<1>4. Running' /\ EpochKept'
  BY <1>1 DEF Calm, Running, EpochKept
<1>5. PeerKept' /\ InOrder(segments)'
  BY <1>1 DEF Calm, PeerKept
<1> QED BY <1>3, <1>4, <1>5 DEF Calm

LEMMA ClearReplayedCalm ==
  ASSUME TypeInv, Calm, ClearReplayed
  PROVE  Calm'
<1>1. /\ phase = "clear" /\ snapshot = files /\ index = files /\ Numbered(files, next)
      /\ UNCHANGED <<files, snapshot, index, epochFile, epoch, next, tasks, peer>>
      /\ segments \in Seq(Segment)
  BY DEF ClearReplayed, Calm, Booting, rest, TypeInv, StateOK
<1>2. \A i \in Ids : DiskHas(snapshot, segments, i, snapshot[i])
  <2> TAKE i \in Ids
  <2>1. DiskHas(snapshot, segments, i, files[i]) \/ DiskHas(snapshot, segments, i, Absent)
    BY <1>1 DEF Calm, Booting
  <2> QED BY <1>1, <2>1, SnapshotRight
<1>3. CASE segments = <<>>
  <2>1. phase' = "up" /\ segments' = segments
    BY <1>3 DEF ClearReplayed
  <2> QED BY <1>1, <1>2, <2>1, UpCalm
<1>4. CASE segments # <<>>
  <2>1. /\ phase' = "clear" /\ DOMAIN segments' = 1 .. Len(segments) - 1
        /\ \A l \in DOMAIN segments' : segments'[l] = segments[l + 1]
    <3>1. segments' = Tail(segments) /\ phase' = phase
      BY <1>4 DEF ClearReplayed
    <3>2. Tail(segments) \in Seq(Segment) /\ Len(Tail(segments)) = Len(segments) - 1
      BY <1>1, <1>4
    <3>3. DOMAIN Tail(segments) = 1 .. Len(segments) - 1
      BY <3>2
    <3>4. \A l \in 1 .. Len(segments) - 1 : Tail(segments)[l] = segments[l + 1]
      BY <1>1, <1>4
    <3> QED BY <1>1, <3>1, <3>3, <3>4
  <2>2. \A i \in Ids : DiskHas(snapshot, segments', i, snapshot[i])
    <3> TAKE i \in Ids
    <3>1. DiskHas(snapshot, segments, i, snapshot[i])
      BY <1>2
    <3> QED BY <1>1, <1>4, <2>1, <3>1, DropFirst
  <2>3. InOrder(segments')
    BY <1>1, <1>4, <2>1, DropKeepsOrder DEF Calm
  <2>4. Booting'
    BY <1>1, <2>1, <2>2 DEF Booting
  <2>5. Running' /\ EpochKept' /\ PeerKept'
    BY <1>1, <2>1 DEF Calm, Running, EpochKept, PeerKept
  <2> QED BY <2>3, <2>4, <2>5 DEF Calm
<1> QED BY <1>3, <1>4

(* What the disk says of the files when a call is cut off: all they have,   *)
(* unless a put has an entry yet to log; then nothing.                      *)
LEMMA CutOff ==
  ASSUME NEW r \in Task, NEW fs, NEW idx, NEW snap, NEW log, NEW p, Follows(r, fs, idx, snap, log, p),
         ~(r.kind = "receipts" /\ (r.step = "index" \/ (r.step \in {"next", "meta"} /\ r.records # NoRecords))),
         r.kind \in {"put", "receipts"}, NEW i \in Ids
  PROVE  DiskHas(snap, log, i, fs[i]) \/ DiskHas(snap, log, i, Absent)
<1>1. FilesFollow(r, fs, idx, p) /\ DiskFollows(r, idx, snap, log)
  BY DEF Follows
<1>2. CASE Working(r) /\ r.records[i] # Unlogged
  <2>1. r.records # NoRecords
    BY <1>2 DEF NoRecords
  <2>2. r.kind # "receipts"
    BY <1>2, <2>1 DEF Working
  <2>3. CASE r.kind = "put"
    BY <1>1, <1>2, <2>3 DEF DiskFollows, DiskHas
  <2> QED BY <2>2, <2>3
<1>3. CASE ~(Working(r) /\ r.records[i] # Unlogged)
  <2>1. DiskHas(snap, log, i, idx[i])
    BY <1>1, <1>3 DEF DiskFollows
  <2>2. CASE idx[i] = fs[i]
    BY <2>1, <2>2
  <2>3. CASE r.step = "index" /\ r.id = i
    <3>1. r.kind # "receipts"
      BY <2>3
    <3>2. r.kind = "put" => idx[i] = Absent
      BY <1>1, <2>3 DEF FilesFollow
    <3> QED BY <2>1, <3>1, <3>2
  <2> QED BY <1>1, <2>2, <2>3 DEF FilesFollow
<1> QED BY <1>2, <1>3

(* The converse of RestFollows.                                             *)
LEMMA RestGives ==
  ASSUME NEW fs, NEW idx, NEW snap, NEW log, NEW p, Follows(NoTask, fs, idx, snap, log, p), NEW i \in Ids
  PROVE  idx[i] = fs[i] /\ DiskHas(snap, log, i, idx[i])
<1>1. /\ NoTask.kind = "none" /\ NoTask.step = "next"
      /\ \A j \in Ids : NoTask.records[j] = Unlogged
  BY DEF NoTask, NoRecords
<1>2. FilesFollow(NoTask, fs, idx, p) /\ DiskFollows(NoTask, idx, snap, log)
  BY DEF Follows
<1>3. idx[i] = fs[i]
  BY <1>1, <1>2 DEF FilesFollow
<1>4. DiskHas(snap, log, i, idx[i])
  BY <1>1, <1>2 DEF DiskFollows
<1> QED BY <1>3, <1>4

LEMMA DownCalm ==
  ASSUME TypeInv, Calm, Down, phase # "down", \A t \in Tasks : ~Unsaved(t)
  PROVE  Calm'
<1>1. phase' = "down" /\ UNCHANGED <<files, snapshot, segments, epochFile, peer>>
  BY DEF Down, disk
<1>2. ASSUME NEW i \in Ids
      PROVE  DiskHas(snapshot, segments, i, files[i]) \/ DiskHas(snapshot, segments, i, Absent)
  <2>1. CASE phase # "up"
    BY <2>1 DEF Calm, Booting
  <2>2. CASE phase = "up" /\ Follows(NoTask, files, index, snapshot, segments, peer)
    <3>1. index[i] = files[i] /\ DiskHas(snapshot, segments, i, index[i])
      BY <2>2, RestGives
    <3> QED BY <3>1
  <2>3. ASSUME NEW t \in Tasks, tasks[t].kind \in {"put", "receipts"},
               Follows(tasks[t], files, index, snapshot, segments, peer)
        PROVE  DiskHas(snapshot, segments, i, files[i]) \/ DiskHas(snapshot, segments, i, Absent)
    <3> DEFINE r == tasks[t]
    <3>1. r \in Task /\ r.kind \in {"put", "receipts"} /\ Follows(r, files, index, snapshot, segments, peer)
      BY <2>3, CallKnown
    <3>2. ~(r.kind = "receipts" /\ (r.step = "index" \/ (r.step \in {"next", "meta"} /\ r.records # NoRecords)))
      BY DEF Unsaved
    <3> HIDE DEF r
    <3> QED BY <3>1, <3>2, CutOff
  <2> QED BY <2>1, <2>2, <2>3 DEF Calm, Running
<1>3. Booting'
  BY <1>1, <1>2 DEF Booting
<1>4. Running' /\ EpochKept'
  BY <1>1 DEF Calm, Running, EpochKept
<1>5. PeerKept' /\ InOrder(segments)'
  BY <1>1 DEF Calm, PeerKept
<1> QED BY <1>3, <1>4, <1>5 DEF Calm

-----------------------------------------------------------------------------
(* The feed: puts and receipts                                              *)

LEMMA FeedTypes ==
  ASSUME TypeInv
  PROVE  /\ files \in Index /\ index \in Index /\ snapshot \in Index /\ segments \in Seq(Segment)
         /\ next \in Nat /\ peer.epoch \in Nat /\ peer.cursor.order \in Nat /\ peer.cursor.id \in Nat
         /\ \A i \in Ids : files[i] \in Meta \cup {Absent} /\ index[i] \in Meta \cup {Absent}
         /\ \A i \in In(files) : i \in Ids /\ files[i].order \in Nat
         /\ \A i \in In(index) : i \in Ids /\ index[i].order \in Nat
<1>1. /\ files \in Index /\ index \in Index /\ snapshot \in Index /\ segments \in Seq(Segment)
      /\ next \in Nat /\ peer.epoch \in Nat /\ peer.cursor \in Cursor
  BY DEF TypeInv, StateOK
<1>2. \A idx \in Index, i \in Ids : idx[i] \in Meta \cup {Absent}
  BY DEF Index
<1>3. \A idx \in Index : \A i \in In(idx) : i \in Ids /\ idx[i].order \in Nat
  BY <1>2 DEF In, Meta
<1>4. peer.cursor.order \in Nat /\ peer.cursor.id \in Nat
  BY <1>1 DEF Cursor
<1> QED BY <1>1, <1>2, <1>3, <1>4

(* The call under way is alone, a put or a receipts call.                   *)
LEMMA CallView ==
  ASSUME TypeInv, Calm, NEW t \in Tasks, tasks[t].kind # "none"
  PROVE  /\ phase = "up" /\ tasks[t].kind \in {"put", "receipts"} /\ Alone(t)
         /\ Follows(tasks[t], files, index, snapshot, segments, peer) /\ Numbered(files, next)
<1>1. phase = "up" /\ Running
  BY ActiveUp DEF Calm
<1>2. ~Idle
  BY DEF Idle
<1>3. PICK u \in Tasks : /\ tasks[u].kind \in {"put", "receipts"} /\ Alone(u)
                         /\ Follows(tasks[u], files, index, snapshot, segments, peer)
  BY <1>1, <1>2 DEF Running
<1>4. u = t
  BY <1>3 DEF Alone
<1> QED BY <1>1, <1>3, <1>4 DEF Running

LEMMA IdleView ==
  ASSUME TypeInv, Calm, WriteChainFree
  PROVE  Idle /\ Follows(NoTask, files, index, snapshot, segments, peer) /\ Numbered(files, next)
BY DEF WriteChainFree, Calm, Running

(* A step of a call keeps the promise if what it leaves follows.            *)
LEMMA CallCalm ==
  ASSUME TypeInv, Calm, NEW t \in Tasks, phase = "up", Alone(t), NEW r \in Task, Update(t, r), Quiet,
         \/ r.kind \in {"put", "receipts"} /\ Follows(r, files', index', snapshot', segments', peer)
         \/ r.kind = "none" /\ Follows(NoTask, files', index', snapshot', segments', peer),
         Numbered(files', next'), InOrder(segments'),
         peer.epoch # 0 => /\ \E i \in In(files') : peer.cursor.order <= files'[i].order
                           /\ PeerHas(peer, files') /\ PeerHas(peer, index')
  PROVE  Calm'
<1>1. tasks'[t] = r /\ (\A u \in Tasks : u # t => tasks'[u] = tasks[u])
  BY UpdateOne
<1>2. phase' = "up" /\ peer' = peer /\ epoch' = epoch /\ epochFile' = epochFile
  BY DEF Quiet
<1>3. \A u \in Tasks : u # t => tasks'[u].kind = "none"
  BY <1>1 DEF Alone
<1>4. CASE r.kind \in {"put", "receipts"} /\ Follows(r, files', index', snapshot', segments', peer)
  <2>1. Alone(t)'
    BY <1>3 DEF Alone
  <2>2. Follows(tasks'[t], files', index', snapshot', segments', peer')
    BY <1>1, <1>2, <1>4
  <2>3. Running'
    BY <1>1, <1>2, <1>4, <2>1, <2>2 DEF Running
  <2> QED BY <1>2, <2>3 DEF Calm, Booting, EpochKept, PeerKept
<1>5. CASE r.kind = "none" /\ Follows(NoTask, files', index', snapshot', segments', peer)
  <2>1. Idle'
    BY <1>1, <1>3, <1>5 DEF Idle
  <2>2. Follows(NoTask, files', index', snapshot', segments', peer')
    BY <1>2, <1>5
  <2>3. Running'
    BY <1>2, <2>1, <2>2 DEF Running
  <2> QED BY <1>2, <2>3 DEF Calm, Booting, EpochKept, PeerKept
<1> QED BY <1>4, <1>5

(* The same for a step that leaves files, index and numbers alone.          *)
LEMMA AsideCalm ==
  ASSUME TypeInv, Calm, NEW t \in Tasks, phase = "up", Alone(t), NEW r \in Task, Update(t, r), Quiet,
         UNCHANGED <<files, index, next>>,
         \/ r.kind \in {"put", "receipts"} /\ Follows(r, files, index, snapshot', segments', peer)
         \/ r.kind = "none" /\ Follows(NoTask, files, index, snapshot', segments', peer),
         Numbered(files, next), InOrder(segments')
  PROVE  Calm'
<1>1. \/ r.kind \in {"put", "receipts"} /\ Follows(r, files', index', snapshot', segments', peer)
      \/ r.kind = "none" /\ Follows(NoTask, files', index', snapshot', segments', peer)
  OBVIOUS
<1>2. Numbered(files', next')
  OBVIOUS
<1>3. peer.epoch # 0 => /\ \E i \in In(files') : peer.cursor.order <= files'[i].order
                        /\ PeerHas(peer, files') /\ PeerHas(peer, index')
  BY DEF Calm, PeerKept
<1> QED BY <1>1, <1>2, <1>3, CallCalm

(* A call begins with nothing in work, and goes on to the next entry.       *)
LEMMA BeginFollows ==
  ASSUME NEW fs, NEW idx, NEW snap, NEW log, NEW p, Follows(NoTask, fs, idx, snap, log, p),
         NEW r, r.step = "next", r.records = NoRecords
  PROVE  Follows(r, fs, idx, snap, log, p)
<1>1. \A i \in Ids : idx[i] = fs[i] /\ DiskHas(snap, log, i, idx[i]) /\ r.records[i] = Unlogged
  BY RestGives DEF NoRecords
<1>2. FilesFollow(r, fs, idx, p)
  BY <1>1 DEF FilesFollow
<1>3. DiskFollows(r, idx, snap, log)
  BY <1>1 DEF DiskFollows
<1> QED BY <1>2, <1>3 DEF Follows

LEMMA GoOnFollows ==
  ASSUME NEW fs, NEW idx, NEW snap, NEW log, NEW p, NEW old, Follows(old, fs, idx, snap, log, p),
         old.step = "next", NEW r, r.kind = old.kind, r.records = old.records,
         r.step = "next" \/ (r.step = "meta" /\ (r.kind = "put" => idx[r.id] = Absent))
  PROVE  Follows(r, fs, idx, snap, log, p)
<1>1. FilesFollow(old, fs, idx, p) /\ DiskFollows(old, idx, snap, log)
  BY DEF Follows
<1>2. FilesFollow(r, fs, idx, p)
  BY <1>1 DEF FilesFollow
<1>3. DiskFollows(r, idx, snap, log)
  BY <1>1 DEF DiskFollows, Working
<1> QED BY <1>2, <1>3 DEF Follows

(* A call that has logged what it did, or did nothing, leaves rest behind.  *)
LEMMA EndFollows ==
  ASSUME NEW fs, NEW idx, NEW snap, NEW log, NEW p, NEW r, Follows(r, fs, idx, snap, log, p),
         r.step # "index", ~Working(r) \/ r.records = NoRecords
  PROVE  Follows(NoTask, fs, idx, snap, log, p)
<1>1. FilesFollow(r, fs, idx, p) /\ DiskFollows(r, idx, snap, log)
  BY DEF Follows
<1>2. \A i \in Ids : ~(Working(r) /\ r.records[i] # Unlogged)
  BY DEF NoRecords
<1>3. \A i \in Ids : idx[i] = fs[i] /\ DiskHas(snap, log, i, idx[i])
  BY <1>1, <1>2 DEF FilesFollow, DiskFollows
<1> QED BY <1>3, RestFollows

LEMMA PutEntriesCalm ==
  ASSUME TypeInv, Calm, NEW t \in Tasks, NEW B \in SUBSET Incoming, PutEntries(t, B)
  PROVE  Calm'
<1> DEFINE r == [NoTask EXCEPT !.kind = "put", !.batch = B, !.todo = B]
<1>1. r \in Task /\ r.kind = "put" /\ r.step = "next" /\ r.records = NoRecords
  BY NoTaskOK, EntriesAssumption DEF NoTask, Task
<1>2. /\ Update(t, r) /\ WriteChainFree /\ Quiet
      /\ UNCHANGED <<files, index, next>> /\ snapshot' = snapshot /\ segments' = segments
  BY DEF PutEntries
<1> HIDE DEF r
<1>3. phase = "up" /\ Idle /\ Alone(t) /\ Numbered(files, next) /\ InOrder(segments)
  BY <1>2, IdleView DEF WriteChainFree, Idle, Alone, Calm
<1>4. Follows(r, files, index, snapshot, segments, peer)
  BY <1>1, <1>2, IdleView, BeginFollows
<1> QED BY <1>1, <1>2, <1>3, <1>4, AsideCalm

LEMMA ApplyWitnessReceiptsCalm ==
  ASSUME TypeInv, Calm, NEW t \in Tasks, NEW B \in SUBSET Ids, NEW stamp \in Stamps,
         ApplyWitnessReceipts(t, B, stamp)
  PROVE  Calm'
<1> DEFINE r == [NoTask EXCEPT !.kind = "receipts", !.batch = B, !.todo = B, !.stamp = stamp]
<1>1. r \in Task /\ r.kind = "receipts" /\ r.step = "next" /\ r.records = NoRecords
  BY NoTaskOK DEF NoTask, Task, Receipts
<1>2. /\ Update(t, r) /\ WriteChainFree /\ Quiet
      /\ UNCHANGED <<files, index, next>> /\ snapshot' = snapshot /\ segments' = segments
  BY DEF ApplyWitnessReceipts
<1> HIDE DEF r
<1>3. phase = "up" /\ Idle /\ Alone(t) /\ Numbered(files, next) /\ InOrder(segments)
  BY <1>2, IdleView DEF WriteChainFree, Idle, Alone, Calm
<1>4. Follows(r, files, index, snapshot, segments, peer)
  BY <1>1, <1>2, IdleView, BeginFollows
<1> QED BY <1>1, <1>2, <1>3, <1>4, AsideCalm

(* The next entry of a put or receipts call: passed over, or taken up.      *)
LEMMA PutContentCalm ==
  ASSUME TypeInv, Calm, NEW t \in Tasks, NEW i \in Ids, PutContent(t, i)
  PROVE  Calm'
<1> DEFINE old == tasks[t]
           skip == [old EXCEPT !.todo = @ \ {i}]
           take == [old EXCEPT !.todo = @ \ {i}, !.id = i, !.step = "meta"]
<1>1. /\ old \in Task /\ old.kind = "put" /\ old.step = "next"
      /\ phase = "up" /\ Alone(t) /\ Follows(old, files, index, snapshot, segments, peer)
      /\ Numbered(files, next) /\ InOrder(segments)
  BY CallKnown, CallView DEF PutContent, Calm
<1>2. /\ Update(t, skip) \/ (Update(t, take) /\ files[i] = Absent)
      /\ Quiet /\ UNCHANGED <<files, index, next>> /\ snapshot' = snapshot /\ segments' = segments
  BY DEF PutContent
<1> HIDE DEF old
<1>3. /\ skip \in Task /\ skip.kind = "put" /\ skip.step = "next" /\ skip.records = old.records
      /\ take \in Task /\ take.kind = "put" /\ take.step = "meta" /\ take.records = old.records
      /\ take.id = i
  BY <1>1 DEF Task
<1> HIDE DEF skip, take
<1>4. index[i] = files[i]
  BY <1>1 DEF Follows, FilesFollow
<1>5. PICK r \in Task : /\ r.kind = old.kind /\ r.records = old.records /\ Update(t, r)
                        /\ \/ r.step = "next"
                           \/ r.step = "meta" /\ (r.kind = "put" => index[r.id] = Absent)
  BY <1>1, <1>2, <1>3, <1>4
<1>6. Follows(r, files, index, snapshot, segments, peer)
  BY <1>1, <1>5, GoOnFollows
<1> QED BY <1>1, <1>2, <1>5, <1>6, AsideCalm

LEMMA ReadReceiptCalm ==
  ASSUME TypeInv, Calm, NEW t \in Tasks, NEW i \in Ids, ReadReceipt(t, i)
  PROVE  Calm'
<1> DEFINE old == tasks[t]
           skip == [old EXCEPT !.todo = @ \ {i}]
           take == [old EXCEPT !.todo = @ \ {i}, !.id = i, !.step = "meta"]
<1>1. /\ old \in Task /\ old.kind = "receipts" /\ old.step = "next"
      /\ phase = "up" /\ Alone(t) /\ Follows(old, files, index, snapshot, segments, peer)
      /\ Numbered(files, next) /\ InOrder(segments)
  BY CallKnown, CallView DEF ReadReceipt, Calm
<1>2. /\ Update(t, skip) \/ Update(t, take)
      /\ Quiet /\ UNCHANGED <<files, index, next>> /\ snapshot' = snapshot /\ segments' = segments
  BY DEF ReadReceipt
<1> HIDE DEF old
<1>3. /\ skip \in Task /\ skip.kind = "receipts" /\ skip.step = "next" /\ skip.records = old.records
      /\ take \in Task /\ take.kind = "receipts" /\ take.step = "meta" /\ take.records = old.records
  BY <1>1 DEF Task
<1> HIDE DEF skip, take
<1>4. PICK r \in Task : /\ r.kind = old.kind /\ r.records = old.records /\ Update(t, r)
                        /\ \/ r.step = "next"
                           \/ r.step = "meta" /\ (r.kind = "put" => index[r.id] = Absent)
  BY <1>1, <1>2, <1>3
<1>5. Follows(r, files, index, snapshot, segments, peer)
  BY <1>1, <1>4, GoOnFollows
<1> QED BY <1>1, <1>2, <1>4, <1>5, AsideCalm

(* The cursor of a peer is below the next number.                           *)
LEMMA CursorBelow ==
  ASSUME TypeInv, Calm, phase = "up", Numbered(files, next), peer.epoch # 0
  PROVE  peer.cursor.order < next
<1>1. PICK i \in In(files) : peer.cursor.order <= files[i].order
  BY DEF Calm, PeerKept
<1>2. files[i].order < next
  BY DEF Numbered
<1> QED BY <1>1, <1>2, FeedTypes

(* A file gets the next number, which the peer has yet to pass.             *)
LEMMA WriteMetaCalm ==
  ASSUME TypeInv, Calm, NEW t \in Tasks, WriteMeta(t)
  PROVE  Calm'
<1> DEFINE old == tasks[t]
           m == [order |-> next, receipt |-> old.stamp]
           r == [old EXCEPT !.meta = m, !.step = "index"]
<1>1. /\ old \in Task /\ old.kind \in {"put", "receipts"} /\ old.step = "meta" /\ old.id \in Ids
      /\ phase = "up" /\ Alone(t) /\ Follows(old, files, index, snapshot, segments, peer)
      /\ Numbered(files, next) /\ InOrder(segments)
  BY CallKnown, CallView DEF WriteMeta, Calm, CallOK
<1>2. m \in Meta /\ m # Absent /\ r \in Task /\ files' = [files EXCEPT ![old.id] = m]
  BY WriteMetaIs
<1>3. /\ Update(t, r) /\ next' = next + 1 /\ Quiet /\ index' = index
      /\ snapshot' = snapshot /\ segments' = segments
  BY DEF WriteMeta
<1>4. m.order = next
  OBVIOUS
<1> HIDE DEF m, old
<1>5. r.kind = old.kind /\ r.step = "index" /\ r.id = old.id /\ r.meta = m /\ r.records = old.records
  BY <1>1 DEF Task
<1> HIDE DEF r
<1> DEFINE e == old.id
<1>6. /\ e \in Ids /\ \A i \in Ids : files'[i] = IF i = e THEN m ELSE files[i]
      /\ \A i \in Ids : index[i] = files[i]
  <2>1. m \in Meta \cup {Absent} /\ files \in Index
    BY <1>2, FeedTypes
  <2>2. \A i \in Ids : files'[i] = IF i = e THEN m ELSE files[i]
    BY <1>2, <2>1, WithMeta
  <2>3. \A i \in Ids : index[i] = files[i]
    BY <1>1 DEF Follows, FilesFollow
  <2> QED BY <1>1, <2>2, <2>3
<1>7. FilesFollow(old, files, index, peer) /\ DiskFollows(old, index, snapshot, segments)
  BY <1>1 DEF Follows
<1>8. peer.epoch # 0 => peer.cursor.order < m.order
  BY <1>1, <1>4, CursorBelow
<1>9. Numbered(index, m.order)
  BY <1>1, <1>4, <1>6 DEF Numbered, In
<1>10. FilesFollow(r, files', index, peer)
  <2>1. r.kind = "put" => index[r.id] = Absent
    BY <1>1, <1>5, <1>7 DEF FilesFollow
  <2>2. \A i \in Ids : index[i] = files'[i] \/ (r.step = "index" /\ r.id = i)
    BY <1>5, <1>6
  <2>3. files'[r.id] = r.meta /\ Numbered(index, r.meta.order)
    BY <1>5, <1>6, <1>9
  <2>4. peer.epoch # 0 => peer.cursor.order < r.meta.order
    BY <1>5, <1>8
  <2> QED BY <2>1, <2>2, <2>3, <2>4 DEF FilesFollow
<1>11. DiskFollows(r, index, snapshot, segments)
  BY <1>1, <1>5, <1>7 DEF DiskFollows, Working
<1>12. Follows(r, files', index', snapshot', segments', peer)
  BY <1>3, <1>5, <1>10, <1>11 DEF Follows
<1>13. \A i \in In(files') : i \in Ids /\ (i = e \/ (i \in In(files) /\ files'[i] = files[i]))
  BY <1>6 DEF In
<1>14. Numbered(files', next')
  <2>1. ASSUME NEW i \in In(files')
        PROVE  files'[i].order < next'
    <3>1. CASE i = e
      BY <1>3, <1>4, <1>6, <3>1, FeedTypes
    <3>2. CASE i \in In(files) /\ files'[i] = files[i]
      <4>1. files[i].order < next /\ files[i].order \in Nat /\ next \in Nat
        BY <1>1, <3>2, FeedTypes DEF Numbered
      <4> QED BY <1>3, <3>2, <4>1
    <3> QED BY <1>13, <3>1, <3>2
  <2> QED BY <2>1 DEF Numbered
<1>15. ASSUME peer.epoch # 0
       PROVE  /\ \E i \in In(files') : peer.cursor.order <= files'[i].order
              /\ PeerHas(peer, files') /\ PeerHas(peer, index')
  <2>1. /\ PeerHas(peer, files) /\ PeerHas(peer, index)
        /\ \E i \in In(files) : peer.cursor.order <= files[i].order
    BY <1>1, <1>15 DEF Calm, PeerKept
  <2>2. e \in In(files') /\ files'[e] = m
    BY <1>2, <1>6 DEF In
  <2>3. peer.cursor.order <= files'[e].order
    BY <1>4, <1>8, <1>15, <2>2, FeedTypes
  <2>4. ASSUME NEW i \in In(files')
        PROVE  Precedes(peer.cursor, Position(files', i)) \/ peer.seen[i] = files'[i].receipt
    <3>1. CASE i = e
      BY <1>8, <1>15, <2>2, <3>1 DEF Precedes, Position
    <3>2. CASE i \in In(files) /\ files'[i] = files[i]
      <4>1. Position(files', i) = Position(files, i)
        BY <3>2 DEF Position
      <4> QED BY <2>1, <3>2, <4>1 DEF PeerHas
    <3> QED BY <1>13, <3>1, <3>2
  <2>5. PeerHas(peer, files')
    BY <2>4 DEF PeerHas
  <2> QED BY <1>3, <2>1, <2>2, <2>3, <2>5
<1>16. InOrder(segments')
  BY <1>1, <1>3
<1>17. \/ r.kind \in {"put", "receipts"} /\ Follows(r, files', index', snapshot', segments', peer)
       \/ r.kind = "none" /\ Follows(NoTask, files', index', snapshot', segments', peer)
  BY <1>1, <1>5, <1>12
<1> QED BY <1>1, <1>2, <1>3, <1>14, <1>15, <1>16, <1>17, CallCalm

(* The index takes up what the file says, to be logged when all is done.    *)
LEMMA UpdateIndexCalm ==
  ASSUME TypeInv, Calm, NEW t \in Tasks, UpdateIndex(t)
  PROVE  Calm'
<1> DEFINE old == tasks[t]
           r == [old EXCEPT !.step = "next", !.records[old.id] = old.meta]
<1>1. /\ old \in Task /\ old.kind \in {"put", "receipts"} /\ old.step = "index" /\ old.id \in Ids
      /\ old.meta \in Meta \cup {Absent} /\ old.meta # Absent
      /\ phase = "up" /\ Alone(t) /\ Follows(old, files, index, snapshot, segments, peer)
      /\ Numbered(files, next) /\ InOrder(segments) /\ old.records \in Records
  <2>1. old \in Task /\ CallOK(old) /\ old.step = "index" /\ old.kind # "none"
    BY CallKnown, ActiveUp DEF UpdateIndex
  <2>2. /\ phase = "up" /\ old.kind \in {"put", "receipts"} /\ Alone(t) /\ Numbered(files, next)
        /\ Follows(old, files, index, snapshot, segments, peer) /\ InOrder(segments)
    BY <2>1, CallView DEF Calm
  <2>3. old.meta \in Meta \cup {Absent} /\ old.records \in Records
    BY <2>1, TaskFields
  <2> QED BY <2>1, <2>2, <2>3 DEF CallOK
<1>2. /\ Update(t, r) /\ Quiet /\ index' = [index EXCEPT ![old.id] = old.meta]
      /\ UNCHANGED <<files, next>> /\ snapshot' = snapshot /\ segments' = segments
  BY DEF UpdateIndex
<1> HIDE DEF old
<1> DEFINE e == old.id
           m == old.meta
           recs == [old.records EXCEPT ![e] = m]
<1>3. /\ recs \in Records
      /\ \A i \in Ids : recs[i] = IF i = e THEN m ELSE old.records[i]
  BY <1>1, WithRecord DEF Records
<1>4. r \in Task /\ r.kind = old.kind /\ r.step = "next" /\ r.records = recs
  <2>1. r = [old EXCEPT !.step = "next", !.records = recs]
    BY <1>1 DEF Task
  <2> HIDE DEF recs, r
  <2> QED BY <1>1, <1>3, <2>1 DEF Task
<1> HIDE DEF r, recs
<1>5. index' \in Index /\ \A i \in Ids : index'[i] = IF i = e THEN m ELSE index[i]
  <2>1. m \in Meta \cup {Absent} /\ index \in Index
    BY <1>1, FeedTypes
  <2>2. index' = [index EXCEPT ![e] = m]
    BY <1>2
  <2> HIDE DEF e, m
  <2> QED BY <2>1, <2>2 DEF Index
<1>6. FilesFollow(old, files, index, peer) /\ DiskFollows(old, index, snapshot, segments)
  BY <1>1 DEF Follows
<1>7. files[e] = m /\ \A i \in Ids : i # e => index[i] = files[i]
  BY <1>1, <1>6 DEF FilesFollow
<1>8. \A i \in Ids : index'[i] = files[i]
  BY <1>5, <1>7
<1>9. FilesFollow(r, files, index', peer)
  BY <1>4, <1>8 DEF FilesFollow
<1>10. DiskFollows(r, index', snapshot, segments)
  <2>0. Working(r) /\ Working(old)
    BY <1>1, <1>4 DEF Working
  <2>1. old.kind = "put" => Silent(segments, e) /\ snapshot[e] = Absent
    <3>1. SUFFICES ASSUME old.kind = "put" PROVE Silent(segments, e) /\ snapshot[e] = Absent
      OBVIOUS
    <3>2. index[e] = Absent
      BY <1>1, <1>6, <3>1 DEF FilesFollow
    <3>3. old.records[e] = Unlogged
      BY <1>1, <1>6, <2>0, <3>2 DEF DiskFollows
    <3>4. DiskHas(snapshot, segments, e, Absent)
      BY <1>1, <1>6, <3>2, <3>3 DEF DiskFollows
    <3> QED BY <3>4 DEF DiskHas
  <2>2. ASSUME NEW i \in Ids
        PROVE  /\ r.records[i] # Unlogged =>
                    /\ r.records[i] = index'[i] /\ index'[i] # Absent
                    /\ r.kind = "put" => Silent(segments, i) /\ snapshot[i] = Absent
               /\ r.records[i] # Unlogged \/ DiskHas(snapshot, segments, i, index'[i])
    <3>1. CASE i = e
      BY <1>1, <1>3, <1>4, <1>5, <2>1, <3>1, MetaLogged
    <3>2. CASE i # e
      <4>1. r.records[i] = old.records[i] /\ index'[i] = index[i]
        BY <1>3, <1>4, <1>5, <3>2
      <4> QED BY <1>4, <1>6, <2>0, <4>1 DEF DiskFollows
    <3> QED BY <3>1, <3>2
  <2> QED BY <1>4, <2>0, <2>2 DEF DiskFollows
<1>11. Follows(r, files', index', snapshot', segments', peer)
  BY <1>2, <1>4, <1>9, <1>10 DEF Follows
<1>12. ASSUME peer.epoch # 0
       PROVE  /\ \E i \in In(files') : peer.cursor.order <= files'[i].order
              /\ PeerHas(peer, files') /\ PeerHas(peer, index')
  <2>1. PeerHas(peer, files) /\ \E i \in In(files) : peer.cursor.order <= files[i].order
    BY <1>12 DEF Calm, PeerKept
  <2>2. index' = files
    BY <1>5, <1>8, FeedTypes DEF Index
  <2> QED BY <1>2, <2>1, <2>2
<1>13. Numbered(files', next') /\ InOrder(segments')
  BY <1>1, <1>2
<1>14. \/ r.kind \in {"put", "receipts"} /\ Follows(r, files', index', snapshot', segments', peer)
       \/ r.kind = "none" /\ Follows(NoTask, files', index', snapshot', segments', peer)
  BY <1>1, <1>4, <1>11
<1> QED BY <1>1, <1>2, <1>4, <1>12, <1>13, <1>14, CallCalm

(* A call returns.                                                          *)
LEMMA ReturnCalm ==
  ASSUME TypeInv, Calm, NEW t \in Tasks, tasks[t].kind # "none", tasks[t].step # "index",
         ~Working(tasks[t]) \/ tasks[t].records = NoRecords,
         Finish(t), Quiet, UNCHANGED <<files, index, next, snapshot, segments>>
  PROVE  Calm'
<1>1. /\ phase = "up" /\ Alone(t) /\ Follows(tasks[t], files, index, snapshot, segments, peer)
      /\ Numbered(files, next) /\ InOrder(segments)
  BY CallView DEF Calm
<1>2. Follows(NoTask, files, index, snapshot, segments, peer)
  BY <1>1, EndFollows
<1>3. Update(t, NoTask) /\ NoTask \in Task /\ NoTask.kind = "none"
  BY NoTaskOK DEF Finish
<1> QED BY <1>1, <1>2, <1>3, AsideCalm

LEMMA NoMutationCalm ==
  ASSUME TypeInv, Calm, NEW t \in Tasks, NoMutation(t)
  PROVE  Calm'
BY ReturnCalm DEF NoMutation

(* appendMetadataSegment: what the call did is on the disk.                 *)
LEMMA AppendSegmentCalm ==
  ASSUME TypeInv, Calm, NEW t \in Tasks, AppendSegment(t),
         segments # <<>> => segments'[Len(segments')].time # LastTime
  PROVE  Calm'
<1> DEFINE old == tasks[t]
           r == [old EXCEPT !.step = "list"]
<1>1. /\ old \in Task /\ old.records \in Records /\ segments \in Seq(Segment)
      /\ Update(t, r) /\ Quiet /\ UNCHANGED <<files, index, next>> /\ snapshot' = snapshot
  BY CallKnown, TaskFields DEF AppendSegment, TypeInv, StateOK
<1>2. /\ old.kind \in {"put", "receipts"} /\ phase = "up" /\ Alone(t)
      /\ Follows(old, files, index, snapshot, segments, peer)
      /\ Numbered(files, next) /\ InOrder(segments)
  BY ActiveUp, CallView DEF AppendSegment, Calm
<1>3. old.step = "next"
  BY <1>2 DEF AppendSegment, Follows
<1>4. PICK now \in {LastTime + 1} \cup (IF SameTick THEN {LastTime} ELSE {}) :
         segments' = Append(segments, [time |-> now, records |-> old.records])
  BY DEF AppendSegment
<1> HIDE DEF old
<1>5. r \in Task /\ r.kind = old.kind /\ r.step = "list"
  BY <1>1 DEF Task
<1> HIDE DEF r
<1>6. /\ Len(segments) \in Nat /\ DOMAIN segments = 1 .. Len(segments)
      /\ \A k \in DOMAIN segments : segments[k].time \in Nat
  BY <1>1, LogTypes
<1>7. /\ DOMAIN segments' = 1 .. Len(segments) + 1 /\ Len(segments') = Len(segments) + 1
      /\ segments'[Len(segments) + 1].time = now
      /\ \A k \in DOMAIN segments : segments'[k] = segments[k]
  BY <1>1, <1>4
<1>8. ASSUME NEW k \in DOMAIN segments
      PROVE  segments[k].time < now /\ now \in Nat
  <2>1. segments # <<>> /\ Len(segments) \in DOMAIN segments /\ (k < Len(segments) \/ k = Len(segments))
    BY <1>6
  <2>2. LastTime = segments[Len(segments)].time /\ LastTime \in Nat
    BY <1>6, <2>1 DEF LastTime
  <2>3. now = LastTime + 1
    BY <1>4, <1>7, <2>1, <2>2
  <2>4. segments[k].time <= LastTime
    <3>1. CASE k = Len(segments)
      BY <2>2, <3>1
    <3>2. CASE k < Len(segments)
      <4>1. segments[k].time < segments[Len(segments)].time
        BY <1>2, <2>1, <3>2 DEF InOrder
      <4> QED BY <1>6, <2>2, <4>1
    <3> QED BY <2>1, <3>1, <3>2
  <2> QED BY <1>6, <2>2, <2>3, <2>4
<1>9. InOrder(segments')
  <2>1. ASSUME NEW k \in DOMAIN segments', NEW l \in DOMAIN segments', k < l
        PROVE  segments'[k].time < segments'[l].time
    <3>1. k \in DOMAIN segments /\ (l \in DOMAIN segments \/ l = Len(segments) + 1)
      BY <1>6, <1>7, <2>1
    <3>2. CASE l \in DOMAIN segments
      BY <1>2, <1>7, <2>1, <3>1, <3>2 DEF InOrder
    <3>3. CASE l = Len(segments) + 1
      BY <1>7, <1>8, <3>1, <3>3
    <3> QED BY <3>1, <3>2, <3>3
  <2> QED BY <2>1 DEF InOrder
<1>10. now \in Nat
  <2>1. CASE segments = <<>>
    BY <1>4, <2>1 DEF LastTime
  <2>2. CASE segments # <<>>
    <3>1. 1 \in DOMAIN segments
      BY <1>1, <1>6, <2>2
    <3> QED BY <1>8, <3>1
  <2> QED BY <2>1, <2>2
<1> DEFINE g == [time |-> now, records |-> old.records]
<1>11. g \in Segment /\ g.records = old.records /\ segments' = Append(segments, g)
  BY <1>1, <1>4, <1>10 DEF Segment
<1> HIDE DEF g
<1>12. FilesFollow(old, files, index, peer) /\ DiskFollows(old, index, snapshot, segments)
  BY <1>2 DEF Follows
<1>13. ASSUME NEW i \in Ids
       PROVE  DiskHas(snapshot, segments', i, index[i])
  <2>1. CASE old.records[i] = Unlogged
    <3>1. DiskHas(snapshot, segments, i, index[i])
      BY <1>12, <2>1 DEF DiskFollows
    <3> QED BY <1>1, <1>11, <2>1, <3>1, AppendQuiet
  <2>2. CASE old.records[i] # Unlogged
    <3>1. old.records[i] = index[i] /\ index[i] # Absent
      BY <1>3, <1>12, <2>2 DEF DiskFollows, Working
    <3> QED BY <1>1, <1>11, <3>1, AppendSays
  <2> QED BY <2>1, <2>2
<1>14. FilesFollow(r, files, index, peer)
  BY <1>3, <1>5, <1>12 DEF FilesFollow
<1>15. DiskFollows(r, index, snapshot, segments')
  BY <1>5, <1>13 DEF DiskFollows, Working
<1>16. Follows(r, files, index, snapshot', segments', peer)
  BY <1>1, <1>5, <1>14, <1>15 DEF Follows
<1> QED BY <1>1, <1>2, <1>5, <1>9, <1>16, AsideCalm

(* maybeCompactMetadataSegments: the index is serialised, or the call ends. *)
LEMMA ListSegmentsCalm ==
  ASSUME TypeInv, Calm, NEW t \in Tasks, ListSegments(t)
  PROVE  Calm'
<1> DEFINE old == tasks[t]
           r == [old EXCEPT !.step = "persist", !.snap = index, !.covered = Range(segments)]
<1>1. /\ old \in Task /\ old.step = "list" /\ old.kind # "none" /\ segments \in Seq(Segment)
      /\ index \in Index /\ Quiet /\ UNCHANGED <<files, index, next, snapshot, segments>>
  BY CallKnown, ActiveUp DEF ListSegments, TypeInv, StateOK
<1>2. /\ old.kind \in {"put", "receipts"} /\ phase = "up" /\ Alone(t)
      /\ Follows(old, files, index, snapshot, segments, peer)
      /\ Numbered(files, next) /\ InOrder(segments)
  BY <1>1, CallView DEF Calm
<1>3. CASE Finish(t)
  BY <1>1, <1>3, ReturnCalm DEF Working
<1>4. CASE ~(Len(segments) < MinFiles)
  <2>1. Update(t, r)
    BY <1>4 DEF ListSegments
  <2>2. Range(segments) \in SUBSET Segment
    BY <1>1 DEF Range
  <2> HIDE DEF old
  <2>3. /\ r \in Task /\ r.kind = old.kind /\ r.step = "persist" /\ r.snap = index
        /\ r.covered = Range(segments)
    BY <1>1, <2>2 DEF Task
  <2> HIDE DEF r
  <2>4. FilesFollow(r, files, index, peer)
    BY <1>1, <1>2, <2>3 DEF Follows, FilesFollow
  <2>5. DiskFollows(r, index, snapshot, segments)
    BY <1>1, <1>2, <2>3 DEF Follows, DiskFollows, Working
  <2>6. Follows(r, files, index, snapshot', segments', peer)
    BY <1>1, <2>3, <2>4, <2>5 DEF Follows
  <2> QED BY <1>1, <1>2, <2>1, <2>3, <2>6, AsideCalm
<1> QED BY <1>3, <1>4 DEF ListSegments

LEMMA PersistSnapshotCalm ==
  ASSUME TypeInv, Calm, NEW t \in Tasks, PersistSnapshot(t)
  PROVE  Calm'
<1> DEFINE old == tasks[t]
           r == [old EXCEPT !.step = "clear"]
<1>1. /\ old \in Task /\ old.step = "persist" /\ old.kind # "none"
      /\ Quiet /\ UNCHANGED <<files, index, next, segments>>
      /\ Update(t, r) /\ snapshot' = old.snap
  BY CallKnown, ActiveUp DEF PersistSnapshot
<1>2. /\ old.kind \in {"put", "receipts"} /\ phase = "up" /\ Alone(t)
      /\ Follows(old, files, index, snapshot, segments, peer)
      /\ Numbered(files, next) /\ InOrder(segments)
  BY <1>1, CallView DEF Calm
<1> HIDE DEF old
<1>3. r \in Task /\ r.kind = old.kind /\ r.step = "clear" /\ r.covered = old.covered
  BY <1>1 DEF Task
<1> HIDE DEF r
<1>4. FilesFollow(old, files, index, peer) /\ DiskFollows(old, index, snapshot, segments)
  BY <1>2 DEF Follows
<1>5. snapshot' = index /\ Range(segments) \subseteq r.covered
  BY <1>1, <1>3, <1>4 DEF DiskFollows
<1>6. \A i \in Ids : DiskHas(snapshot', segments, i, index[i])
  <2> TAKE i \in Ids
  <2>1. DiskHas(snapshot, segments, i, index[i])
    BY <1>1, <1>4 DEF DiskFollows, Working
  <2> QED BY <1>5, <2>1, SnapshotRight
<1>7. FilesFollow(r, files, index, peer)
  BY <1>1, <1>3, <1>4 DEF FilesFollow
<1>8. DiskFollows(r, index, snapshot', segments')
  BY <1>1, <1>3, <1>5, <1>6 DEF DiskFollows, Working
<1>9. Follows(r, files, index, snapshot', segments', peer)
  BY <1>1, <1>3, <1>7, <1>8 DEF Follows
<1>10. InOrder(segments')
  BY <1>1, <1>2
<1> QED BY <1>1, <1>2, <1>3, <1>9, <1>10, AsideCalm

(* The covered segments go from the first on, so that what is left of the   *)
(* log is right at every step.                                              *)
LEMMA ClearSegmentCalm ==
  ASSUME TypeInv, Calm, NEW t \in Tasks, ClearSegment(t)
  PROVE  Calm'
<1> DEFINE old == tasks[t]
           left == {k \in DOMAIN segments : segments[k] \in old.covered}
<1>1. /\ old \in Task /\ old.step = "clear" /\ old.kind # "none" /\ segments \in Seq(Segment)
      /\ Len(segments) \in Nat /\ DOMAIN segments = 1 .. Len(segments)
      /\ Quiet /\ UNCHANGED <<files, index, next, snapshot>>
  BY CallKnown, ActiveUp DEF ClearSegment, TypeInv, StateOK
<1>2. /\ old.kind \in {"put", "receipts"} /\ phase = "up" /\ Alone(t)
      /\ Follows(old, files, index, snapshot, segments, peer)
      /\ Numbered(files, next) /\ InOrder(segments)
  BY <1>1, CallView DEF Calm
<1>3. CASE left = {}
  <2>1. Finish(t) /\ segments' = segments
    BY <1>3 DEF ClearSegment
  <2> QED BY <1>1, <2>1, ReturnCalm DEF Working
<1>4. CASE left # {}
  <2> DEFINE k == CHOOSE k \in left : \A l \in left : k <= l
  <2>1. /\ segments' = [l \in 1 .. Len(segments) - 1 |->
                          IF l < k THEN segments[l] ELSE segments[l + 1]]
        /\ UNCHANGED <<tasks, acked, erased>>
    BY <1>4 DEF ClearSegment
  <2>2. left = 1 .. Len(segments)
    <3>1. Range(segments) \subseteq old.covered
      BY <1>1, <1>2 DEF Follows, DiskFollows
    <3> QED BY <1>1, <3>1 DEF Range
  <2> HIDE DEF left
  <2>3. Len(segments) # 0 /\ segments # <<>>
    BY <1>1, <1>4, <2>2
  <2>4. 1 \in left /\ \A l \in left : 1 <= l
    BY <1>1, <2>2, <2>3
  <2>5. k = 1
    <3>1. k \in left /\ \A l \in left : k <= l
      BY <2>4
    <3> HIDE DEF k
    <3>2. k \in Nat /\ k <= 1 /\ 1 <= k
      BY <1>1, <2>2, <2>4, <3>1
    <3> QED BY <3>2
  <2> HIDE DEF k
  <2>6. /\ DOMAIN segments' = 1 .. Len(segments) - 1
        /\ \A l \in DOMAIN segments' : segments'[l] = segments[l + 1]
    BY <1>1, <2>1, <2>5
  <2>7. InOrder(segments')
    BY <1>1, <1>2, <2>3, <2>6, DropKeepsOrder
  <2>8. snapshot = index /\ FilesFollow(old, files, index, peer) /\ DiskFollows(old, index, snapshot, segments)
    BY <1>1, <1>2 DEF Follows, DiskFollows
  <2>9. \A i \in Ids : DiskHas(snapshot, segments', i, index[i])
    <3> TAKE i \in Ids
    <3>1. DiskHas(snapshot, segments, i, snapshot[i])
      BY <1>1, <2>8 DEF DiskFollows, Working
    <3> QED BY <1>1, <2>3, <2>6, <2>8, <3>1, DropFirst
  <2>10. Range(segments') \subseteq old.covered
    <3>1. Range(segments) \subseteq old.covered
      BY <1>1, <2>8 DEF DiskFollows
    <3>2. \A l \in DOMAIN segments' : l + 1 \in DOMAIN segments
      BY <1>1, <2>6
    <3> QED BY <2>6, <3>1, <3>2 DEF Range
  <2>11. DiskFollows(old, index, snapshot, segments')
    BY <1>1, <2>8, <2>9, <2>10 DEF DiskFollows, Working
  <2>12. Follows(old, files, index, snapshot', segments', peer)
    BY <1>1, <2>8, <2>11 DEF Follows
  <2>13. Update(t, old)
    BY <2>1 DEF Update, TypeInv, StateOK
  <2> QED BY <1>1, <1>2, <2>7, <2>12, <2>13, AsideCalm
<1> QED BY <1>3, <1>4

-----------------------------------------------------------------------------
(* The feed: a peer reads                                                   *)

LEMMA PeerSyncCalm ==
  ASSUME TypeInv, Calm, PeerSync
  PROVE  Calm'
<1> DEFINE from == IF peer.epoch = epoch THEN peer.cursor ELSE StartCursor
           new == {i \in In(index) : Precedes(from, Position(index, i))}
           last == CHOOSE c \in {Position(index, i) : i \in new} :
                     \A i \in new : ~Precedes(c, Position(index, i))
           seen == [i \in Ids |-> IF i \in new THEN index[i].receipt ELSE peer.seen[i]]
<1>1. /\ peer' = [epoch |-> epoch, cursor |-> last, seen |-> seen] /\ new # {} /\ phase = "up"
      /\ UNCHANGED <<files, snapshot, segments, epochFile, phase, index, next, epoch, tasks>>
  BY DEF PeerSync, disk, memory
<1>2. new \in SUBSET In(index) /\ In(index) \subseteq Ids
  BY DEF In
<1>3. \A i \in In(index) : i \in new \/ ~Precedes(from, Position(index, i))
  OBVIOUS
<1> HIDE DEF new
<1>4. last \in {Position(index, i) : i \in new} /\ \A i \in new : ~Precedes(last, Position(index, i))
  BY <1>1, <1>2, LastPosition, FeedTypes
<1> HIDE DEF last
<1>5. PICK top \in new : last = Position(index, top)
  BY <1>4
<1>6. top \in In(index) /\ last.order = index[top].order /\ top \in Ids /\ index[top].order \in Nat
  BY <1>2, <1>5, FeedTypes DEF Position
<1>7. peer'.epoch = epoch /\ peer'.cursor = last /\ \A i \in Ids : peer'.seen[i] = seen[i]
  BY <1>1
<1>8. epoch = epochFile /\ epoch # 0 /\ peer.epoch \in {0, epochFile}
  BY <1>1 DEF Calm, EpochKept
<1>9. ASSUME NEW i \in In(index)
      PROVE  peer'.seen[i] = index[i].receipt
  <2>1. CASE i \in new
    BY <1>2, <1>7, <2>1
  <2>2. CASE i \notin new
    <3>1. ~Precedes(from, Position(index, i)) /\ i \in Ids /\ i \in Nat /\ i # 0 /\ index[i].order \in Nat
      BY <1>2, <1>3, <2>2, FeedTypes, IdsAssumption
    <3>2. peer.epoch = epoch
      <4>1. SUFFICES ASSUME peer.epoch # epoch PROVE FALSE
        OBVIOUS
      <4>2. from = StartCursor
        BY <4>1
      <4>3. Precedes(StartCursor, Position(index, i))
        BY <3>1 DEF Precedes, StartCursor, Position
      <4> QED BY <3>1, <4>2, <4>3
    <3>3. peer.epoch # 0 /\ from = peer.cursor
      BY <1>8, <3>2
    <3>4. peer.seen[i] = index[i].receipt
      BY <1>1, <3>1, <3>3 DEF Calm, PeerKept, PeerHas
    <3> QED BY <1>2, <1>7, <2>2, <3>4
  <2> QED BY <2>1, <2>2
<1> HIDE DEF seen, from
<1>10. PeerHas(peer', index')
  BY <1>1, <1>9 DEF PeerHas
<1>11. ASSUME NEW r \in Task, Follows(r, files, index, snapshot, segments, peer),
              r.step = "index" => r.meta # Absent
       PROVE  /\ Follows(r, files, index, snapshot, segments, peer')
              /\ PeerHas(peer', files) /\ \E i \in In(files) : peer'.cursor.order <= files[i].order
  <2>1. FilesFollow(r, files, index, peer)
    BY <1>11 DEF Follows
  <2>2. r.step = "index" => peer'.cursor.order < r.meta.order /\ files[r.id] = r.meta
    BY <1>6, <1>7, <2>1 DEF FilesFollow, Numbered
  <2>3. Follows(r, files, index, snapshot, segments, peer')
    BY <1>11, <2>1, <2>2 DEF Follows, FilesFollow
  <2>4. ASSUME NEW i \in In(files)
        PROVE  Precedes(peer'.cursor, Position(files, i)) \/ peer'.seen[i] = files[i].receipt
    <3>1. CASE index[i] = files[i]
      BY <1>9, <3>1, FeedTypes DEF In
    <3>2. CASE r.step = "index" /\ r.id = i
      BY <2>2, <3>2 DEF Precedes, Position
    <3> QED BY <2>1, <3>1, <3>2, FeedTypes DEF FilesFollow
  <2>5. \E i \in In(files) : peer'.cursor.order <= files[i].order
    <3>1. CASE index[top] = files[top]
      <4>1. top \in In(files) /\ files[top].order = peer'.cursor.order /\ files[top].order \in Nat
        BY <1>6, <1>7, <3>1 DEF In
      <4>2. peer'.cursor.order <= files[top].order
        BY <4>1
      <4> QED BY <4>1, <4>2
    <3>2. CASE index[top] # files[top]
      <4>1. r.step = "index" /\ r.id = top
        BY <1>6, <2>1, <3>2 DEF FilesFollow
      <4>2. files[top] = r.meta /\ peer'.cursor.order < files[top].order
        BY <2>2, <4>1
      <4>3. top \in In(files)
        BY <1>6, <1>11, <4>1, <4>2 DEF In
      <4>4. peer'.cursor.order <= files[top].order
        BY <1>6, <1>7, <4>2, <4>3, FeedTypes
      <4> QED BY <4>3, <4>4
    <3> QED BY <3>1, <3>2
  <2> QED BY <2>3, <2>4, <2>5 DEF PeerHas
<1>12. /\ NoTask \in Task /\ NoTask.step # "index"
       /\ \A t \in Tasks : tasks[t] \in Task /\
            (tasks[t].kind \in {"put", "receipts"} /\ tasks[t].step = "index" => tasks[t].meta # Absent)
  BY NoTaskOK, CallKnown DEF CallOK, NoTask
<1>13. Running' /\ PeerHas(peer', files) /\ \E i \in In(files) : peer'.cursor.order <= files[i].order
  <2>1. CASE Idle /\ Follows(NoTask, files, index, snapshot, segments, peer)
    <3>1. /\ Follows(NoTask, files, index, snapshot, segments, peer')
          /\ PeerHas(peer', files) /\ \E i \in In(files) : peer'.cursor.order <= files[i].order
      BY <1>11, <1>12, <2>1
    <3>2. Running'
      BY <1>1, <2>1, <3>1 DEF Calm, Running, Idle
    <3> QED BY <3>1, <3>2
  <2>2. ASSUME NEW t \in Tasks, tasks[t].kind \in {"put", "receipts"}, Alone(t),
               Follows(tasks[t], files, index, snapshot, segments, peer)
        PROVE  Running' /\ PeerHas(peer', files) /\ \E i \in In(files) : peer'.cursor.order <= files[i].order
    <3>1. /\ Follows(tasks[t], files, index, snapshot, segments, peer')
          /\ PeerHas(peer', files) /\ \E i \in In(files) : peer'.cursor.order <= files[i].order
      BY <1>11, <1>12, <2>2
    <3>2. Alone(t)'
      BY <1>1, <2>2 DEF Alone
    <3>3. Running'
      BY <1>1, <2>2, <3>1, <3>2 DEF Calm, Running
    <3> QED BY <3>1, <3>3
  <2> QED BY <1>1, <2>1, <2>2 DEF Calm, Running
<1>14. PeerKept'
  BY <1>1, <1>10, <1>13 DEF PeerKept
<1>15. Booting' /\ EpochKept' /\ InOrder(segments)'
  BY <1>1, <1>7, <1>8 DEF Calm, Booting, EpochKept
<1> QED BY <1>13, <1>14, <1>15 DEF Calm

-----------------------------------------------------------------------------
(* The feed: the theorem                                                    *)

(* Nothing upsetting happens in a step after which nothing has.             *)
LEMMA NothingUpset ==
  ASSUME Noted, upset' = {}
  PROVE  /\ upset = {} /\ phase' # "migrate" /\ \A t \in Tasks : tasks'[t].kind # "purge"
         /\ phase' = "down" => \A t \in Tasks : ~Unsaved(t)
         /\ segments # <<>> => \A t \in Tasks : AppendSegment(t) => segments'[Len(segments')].time # LastTime
<1>1. upset = {} /\ \A e \in {"migration", "purge", "race", "torn", "tick"} : ~Upsetting(e)
  BY DEF Noted, Upsets
<1>2. ~Upsetting("migration") /\ ~Upsetting("purge") /\ ~Upsetting("torn") /\ ~Upsetting("tick")
  BY <1>1
<1>3. phase' # "migrate"
  BY <1>2 DEF Upsetting
<1>4. \A t \in Tasks : tasks'[t].kind # "purge"
  BY <1>2 DEF Upsetting
<1>5. phase' = "down" => \A t \in Tasks : ~Unsaved(t)
  BY <1>2 DEF Upsetting
<1>6. segments # <<>> => \A t \in Tasks : AppendSegment(t) => segments'[Len(segments')].time # LastTime
  <2> SUFFICES ASSUME segments # <<>>, NEW t \in Tasks, AppendSegment(t)
               PROVE  segments'[Len(segments')].time # LastTime
    OBVIOUS
  <2>1. \E u \in Tasks : AppendSegment(u)
    OBVIOUS
  <2> HIDE DEF AppendSegment
  <2> QED BY <1>2, <2>1 DEF Upsetting
<1> QED BY <1>1, <1>3, <1>4, <1>5, <1>6

LEMMA NextCalm ==
  ASSUME TypeInv, Calm, Next, phase' # "migrate", \A t \in Tasks : tasks'[t].kind # "purge",
         phase' = "down" => \A t \in Tasks : ~Unsaved(t),
         segments # <<>> => \A t \in Tasks : AppendSegment(t) => segments'[Len(segments')].time # LastTime
  PROVE  Calm'
<1>1. CASE Start \/ LoadEpoch \/ LoadIndex \/ PersistRebuilt \/ ClearReplayed \/ PeerSync
  BY <1>1, StartCalm, LoadEpochCalm, LoadIndexCalm, PersistRebuiltCalm, ClearReplayedCalm, PeerSyncCalm
<1>2. CASE Migrated \/ \E i \in Ids : MigrateFile(i)
  BY <1>2 DEF Migrated, MigrateFile, Calm, Booting
<1>3. CASE Stop \/ Crash
  <2>1. Down /\ phase # "down" /\ phase' = "down"
    BY <1>3 DEF Stop, Crash, Down
  <2> QED BY <2>1, DownCalm
<1>4. ASSUME NEW t \in Tasks, Call(t) PROVE Calm'
  <2>1. ASSUME NEW d \in Purgeable, PurgeDocHistory(t, d) PROVE Calm'
    <3> DEFINE S == {i \in In(index) : DocOf[i] = d}
               r == [NoTask EXCEPT !.kind = "purge", !.batch = S, !.todo = S, !.doc = d,
                                   !.hashes = {HashOf[i] : i \in S}]
    <3>1. r \in Task /\ r.kind = "purge"
      BY PurgeStart
    <3>2. Update(t, r) \/ UNCHANGED tasks
      BY <2>1 DEF PurgeDocHistory
    <3>3. UNCHANGED <<files, snapshot, segments, index, next, phase, epoch, epochFile, peer>>
      BY <2>1 DEF PurgeDocHistory, Quiet
    <3> HIDE DEF r
    <3>4. ~Update(t, r)
      BY <3>1, UpdateOne
    <3>5. UNCHANGED tasks
      BY <3>2, <3>4
    <3>6. Running'
      BY <3>3, <3>5 DEF Calm, Running, Idle, Alone
    <3> QED BY <3>3, <3>6 DEF Calm, Booting, EpochKept, PeerKept
  <2> QED BY <1>4, <2>1, PutEntriesCalm, ApplyWitnessReceiptsCalm DEF Call
<1>5. ASSUME NEW t \in Tasks, TaskStep(t) PROVE Calm'
  <2>1. tasks[t].kind # "purge"
    BY CallView
  <2>2. ASSUME NEW i \in Ids, PutContent(t, i) \/ ReadReceipt(t, i) \/ PurgeFile(t, i) PROVE Calm'
    BY <2>1, <2>2, PutContentCalm, ReadReceiptCalm DEF PurgeFile
  <2>3. ASSUME NEW h \in Hashes, PurgeContent(t, h) PROVE Calm'
    BY <2>1, <2>3, CallKnown DEF PurgeContent, CallOK
  <2>4. CASE WriteMeta(t) \/ UpdateIndex(t) \/ OrphanedHashes(t)
    BY <2>1, <2>4, WriteMetaCalm, UpdateIndexCalm DEF OrphanedHashes
  <2>5. CASE AppendSegment(t)
    BY <2>5, AppendSegmentCalm
  <2>6. CASE NoMutation(t) \/ ListSegments(t) \/ PersistSnapshot(t) \/ ClearSegment(t)
    BY <2>6, NoMutationCalm, ListSegmentsCalm, PersistSnapshotCalm, ClearSegmentCalm
  <2> QED BY <1>5, <2>2, <2>3, <2>4, <2>5, <2>6 DEF TaskStep
<1> QED BY <1>1, <1>2, <1>3, <1>4, <1>5 DEF Next

(* As long as there has been no migration, no purge that found something,   *)
(* no crash between a receipt's file and its segment and no two segments of *)
(* one millisecond: a peer that resumes at its cursor misses nothing, the   *)
(* head stays beyond every cursor of the epoch, and the index of a store    *)
(* without calls says what the files say.  Puts, receipts, compactions,     *)
(* stops and all other crashes may come in any order.                       *)
THEOREM FeedIsHonest == Spec => []FeedHonest
<1>1. Init => TypeInv /\ FeedInv
  BY InitTyped, InitCalm DEF FeedInv
<1>2. TypeInv /\ FeedInv /\ [Next /\ Noted]_vars => (TypeInv /\ FeedInv)'
  <2> SUFFICES ASSUME TypeInv, FeedInv, [Next /\ Noted]_vars
               PROVE  TypeInv' /\ FeedInv'
    OBVIOUS
  <2>1. TypeInv'
    BY NextTyped
  <2>2. CASE Next /\ Noted
    <3>1. ASSUME upset' = {} PROVE Calm'
      <4>1. Calm
        BY <2>2, <3>1, NothingUpset DEF FeedInv
      <4>2. /\ phase' # "migrate" /\ \A t \in Tasks : tasks'[t].kind # "purge"
            /\ phase' = "down" => \A t \in Tasks : ~Unsaved(t)
        BY <2>2, <3>1, NothingUpset
      <4>3. segments # <<>> =>
              \A t \in Tasks : AppendSegment(t) => segments'[Len(segments')].time # LastTime
        BY <2>2, <3>1, NothingUpset
      <4> HIDE DEF AppendSegment, Unsaved
      <4> QED BY <2>2, <4>1, <4>2, <4>3, NextCalm
    <3> QED BY <2>1, <3>1 DEF FeedInv
  <2>3. CASE UNCHANGED vars
    <3>1. UNCHANGED <<files, snapshot, segments, epochFile, phase, index, next, tasks, epoch, peer, upset>>
      BY <2>3 DEF vars, disk, memory
    <3>2. ASSUME upset' = {} PROVE Calm'
      <4>1. Calm
        BY <3>1, <3>2 DEF FeedInv
      <4>2. Running'
        BY <3>1, <4>1 DEF Calm, Running, Idle, Alone
      <4>3. Booting' /\ EpochKept' /\ PeerKept' /\ InOrder(segments)'
        BY <3>1, <4>1 DEF Calm, Booting, EpochKept, PeerKept
      <4> QED BY <4>2, <4>3 DEF Calm
    <3> QED BY <2>1, <3>2 DEF FeedInv
  <2> QED BY <2>1, <2>2, <2>3
<1>3. TypeInv /\ FeedInv => FeedHonest
  <2> SUFFICES ASSUME TypeInv, Calm
               PROVE  PeerComplete /\ HeadCoversCursors /\ IndexFollowsFiles
    BY DEF FeedInv, FeedHonest
  <2>1. phase = "up" => epoch # 0
    BY DEF Calm, EpochKept
  <2>2. PeerComplete
    BY <2>1 DEF PeerComplete, Calm, PeerKept, PeerHas
  <2>3. HeadCoversCursors
    BY <2>1, CursorBelow DEF HeadCoversCursors, Calm, Running
  <2>4. IndexFollowsFiles
    <3> SUFFICES ASSUME phase = "up", Idle PROVE index = files
      BY DEF IndexFollowsFiles
    <3>1. Follows(NoTask, files, index, snapshot, segments, peer)
      BY DEF Calm, Running, Idle
    <3>2. \A i \in Ids : index[i] = files[i]
      BY <3>1, RestGives
    <3> QED BY <3>2, FeedTypes DEF Index
  <2> QED BY <2>2, <2>3, <2>4
<1> QED BY <1>1, <1>2, <1>3, PTL DEF Spec
=============================================================================
