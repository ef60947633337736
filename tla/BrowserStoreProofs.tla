------------------------- MODULE BrowserStoreProofs -------------------------
(***************************************************************************)
(* The browser store for every number of tabs, calls, entries and faults:  *)
(* what was reported lasts, the counters beside the contents are exact,    *)
(* and the store implements AbstractStore.                                 *)
(***************************************************************************)
EXTENDS BrowserStore, StoreOpsProofs

-----------------------------------------------------------------------------
(* The inductive invariant                                                 *)

Blooms == [dirty : BOOLEAN, ids : SUBSET Ids, total : Nat, sized : Nat]

Databases ==
    [version : 0 .. 2, order : [Ids -> Nat], receipt : [Ids -> Receipts], counter : Nat,
     refs : [Hashes -> Nat], cbytes : Nat \cup {Absent}, mbytes : Nat \cup {Absent},
     bloom : Blooms, epoch : Nat]

\* Where a call may stand
Places == {"idle", "open", "reopen", "run", "ids", "write", "committed", "clearing", "error",
           "failed"}

CallRecords ==
    [op : Ops \cup {"none", "clear"}, arg : SUBSET Ids, pc : Places,
     handle : {"none", "live", "closed", "lost"}, tries : Nat, done : SUBSET Ids]

BsType ==
    /\ db \in Databases /\ gen \in Nat \ {0}
    /\ conn \in [Tabs -> {"none", "opening", "checked", "backfill", "open"}]
    /\ call \in [Callers -> CallRecords]
    /\ acked \subseteq Ids /\ cut \in BOOLEAN

\* Each content is counted once for every entry that has it
RefsExact(d) ==
    \A h \in Hashes : d.refs[h] = Cardinality({i \in Present(d) : HashOf[i] = h})

Having(S, h) == {i \in S : HashOf[i] = h}

\* Before the upgrade nothing has been numbered
Unnumbered(d) ==
    /\ d.version # 2 => d.counter = 0
    /\ d.version = 0 => Present(d) = {} /\ d.receipt = [i \in Ids |-> NoReceipt]

\* A call works only on a connection that its tab has, and a database that
\* some tab has open is upgraded; its totals are unknown only to tabs that
\* are about to compute them
ConnOK ==
    /\ \A c \in Callers : call[c].handle = "live" => HasDb(TabOf[c])
    /\ \A t \in Tabs : HasDb(t) => db.version = 2
    /\ \A t \in Tabs : HasDb(t) /\ db.cbytes = Absent => conn[t] = "backfill"

\* What a committed call is about to report as stored is there
ReportsOK ==
    /\ acked \subseteq Present(db)
    /\ \A c \in Callers : call[c].done \subseteq Present(db)

\* Epochs are handed out as 1, 2, ..., one to each database that was asked
HeadsOK ==
    /\ heads \subseteq [epoch : Nat, gen : Nat]
    /\ \E k \in Nat : {h.epoch : h \in heads} = 1 .. k
    /\ \A h \in heads : h.gen <= gen
    /\ HeadsNameLineage
    /\ IF db.epoch = 0 THEN \A h \in heads : h.gen # gen
       ELSE [epoch |-> db.epoch, gen |-> gen] \in heads

BsInv ==
    /\ BsType /\ RefsExact(db) /\ Unnumbered(db) /\ ConnOK /\ ReportsOK /\ HeadsOK
    /\ ContentBytesExact

-----------------------------------------------------------------------------
(* Transactions                                                            *)

(* A set of contents is finite, and so is its size. *)
LEMMA ContentsFinite ==
    ASSUME NEW H \in SUBSET Hashes
    PROVE  IsFiniteSet(H) /\ Cardinality(H) \in Nat
BY FS_Subset, FS_CardinalityType, BsAssumption

(* The byte total of the contents is a number, and grows with the counts. *)
LEMMA ContentBytesMonotone ==
    ASSUME NEW d, NEW e, \A h \in Hashes : d.refs[h] > 0 => e.refs[h] > 0
    PROVE  /\ ContentBytes(d) \in Nat /\ ContentBytes(e) \in Nat
           /\ ContentBytes(d) <= ContentBytes(e)
<1> DEFINE D == {h \in Hashes : d.refs[h] > 0}
           F == {h \in Hashes : e.refs[h] > 0}
<1>1. IsFiniteSet(F) /\ D \in SUBSET F
  BY ContentsFinite
<1>2. Cardinality(D) <= Cardinality(F)
  BY <1>1, FS_Subset
<1> QED
  BY <1>2, ContentsFinite DEF ContentBytes

(* The total of the metadata is a number. *)
LEMMA MetadataBytesType ==
    ASSUME NEW d, NEW S \in SUBSET Ids
    PROVE  MetadataBytes(d, S) \in Nat
<1>1. Cardinality({i \in S : d.receipt[i] # NoReceipt}) \in Nat
  BY SubsetFinite
<1> QED
  BY <1>1, SubsetFinite DEF MetadataBytes

(* Disjoint sets of entries add up, per content. *)
LEMMA CountsAdd ==
    ASSUME NEW S \in SUBSET Ids, NEW T \in SUBSET Ids, S \cap T = {}, NEW h
    PROVE  /\ Cardinality(Having(S \cup T, h)) = Cardinality(Having(S, h)) + Cardinality(Having(T, h))
           /\ Cardinality(Having(S, h)) \in Nat /\ Cardinality(Having(T, h)) \in Nat
<1> DEFINE A == Having(S, h)
           B == Having(T, h)
<1>1. Having(S \cup T, h) = A \cup B /\ A \cap B = {}
  BY DEF Having
<1>2. IsFiniteSet(A) /\ IsFiniteSet(B) /\ Cardinality(A) \in Nat /\ Cardinality(B) \in Nat
  BY SubsetFinite DEF Having
<1>3. Cardinality(A \cup B) = Cardinality(A) + Cardinality(B) - Cardinality(A \cap B)
  BY <1>2, FS_Union
<1>4. Cardinality(A \cap B) = 0
  BY <1>1, FS_EmptySet
<1>5. Cardinality(A \cup B) = Cardinality(A) + Cardinality(B)
  <2> HIDE DEF A, B
  <2> QED
    BY <1>2, <1>3, <1>4
<1> QED
  BY <1>1, <1>2, <1>5

(* The cached summary keeps its shape. *)
LEMMA BloomType ==
    ASSUME NEW b \in Blooms, NEW S \in SUBSET Ids
    PROVE  BloomAdd(b, S) \in Blooms /\ BloomOf(S) \in Blooms /\ NoBloom \in Blooms
<1>1. Cardinality(S) \in Nat /\ MinSized \in Nat
  BY SubsetFinite, BsAssumption
<1>2. NoBloom \in Blooms
  BY DEF NoBloom, Blooms
<1>3. BloomOf(S) \in Blooms
  BY <1>1 DEF BloomOf, Blooms
<1>4. [b EXCEPT !.ids = @ \cup S, !.total = @ + Cardinality(S)] \in Blooms
  <2>1. b.ids \cup S \in SUBSET Ids /\ b.total + Cardinality(S) \in Nat
    BY <1>1 DEF Blooms
  <2>2. [b EXCEPT !.ids = b.ids \cup S, !.total = b.total + Cardinality(S)] \in Blooms
    BY <2>1 DEF Blooms
  <2> QED
    BY <2>2
<1> QED
  BY <1>2, <1>3, <1>4 DEF BloomAdd

\* The entries of a batch that putEntries does not skip
Fresh(d, S) == S \ Present(d)

(* putEntries stores the batch, keeps the counts exact and adjusts the total  *)
(* of the contents by what it added.                                          *)
LEMMA TxPutKeeps ==
    ASSUME NEW d \in Databases, RefsExact(d), NEW S \in SUBSET Ids,
           NEW receipts \in [Ids -> Receipts], NEW rank \in Ranking(Fresh(d, S)),
           NEW e, e = TxPut(d, S, receipts, rank)
    PROVE  /\ e \in Databases /\ RefsExact(e) /\ Present(e) = Present(d) \cup S
           /\ e.version = d.version /\ e.epoch = d.epoch
           /\ e = d \/ e.cbytes = OrZero(d.cbytes) + ContentBytes(e) - ContentBytes(d)
           /\ e = d \/ e.cbytes \in Nat
<1> DEFINE new == S \ Present(d)
<1>1. CASE new = {}
  <2>1. e = d
    BY <1>1 DEF TxPut
  <2> QED
    BY <1>1, <2>1 DEF Present
<1>2. CASE new # {}
  <2> DEFINE refs == [h \in Hashes |-> d.refs[h] + Cardinality({i \in new : HashOf[i] = h})]
             after == [d EXCEPT
                !.order = [i \in Ids |-> IF i \in new THEN d.counter + rank[i] ELSE d.order[i]],
                !.receipt = [i \in Ids |-> IF i \in new THEN receipts[i] ELSE d.receipt[i]],
                !.counter = @ + Cardinality(new),
                !.refs = refs]
  <2>1. new \in SUBSET Ids /\ \A i \in new : rank[i] \in Nat \ {0}
    <3>1. rank \in Ranking(new)
      BY DEF Fresh
    <3> QED
      BY <3>1, RankingRange, SubsetFinite
  <2>2. e = [after EXCEPT
               !.cbytes = OrZero(d.cbytes) + ContentBytes(after) - ContentBytes(d),
               !.mbytes = OrZero(d.mbytes) + MetadataBytes(after, new),
               !.bloom = BloomAdd(d.bloom, new)]
    BY <1>2 DEF TxPut
  <2>3. refs \in [Hashes -> Nat] /\ \A h \in Hashes : refs[h] >= d.refs[h] /\ d.refs[h] \in Nat
    <3>1. \A h \in Hashes : Cardinality({i \in new : HashOf[i] = h}) \in Nat
      BY <2>1, SubsetFinite
    <3> QED
      BY <3>1 DEF Databases
  <2> HIDE DEF refs
  <2>4. after.refs = refs
    BY DEF Databases
  <2> HIDE DEF new
  <2>5. /\ after \in Databases
        /\ after.order = [i \in Ids |-> IF i \in new THEN d.counter + rank[i] ELSE d.order[i]]
        /\ after.version = d.version /\ after.epoch = d.epoch
    <3>1. Cardinality(new) \in Nat /\ d.counter + Cardinality(new) \in Nat
      BY <2>1, SubsetFinite DEF Databases
    <3>2. [i \in Ids |-> IF i \in new THEN d.counter + rank[i] ELSE d.order[i]] \in [Ids -> Nat]
      BY <2>1 DEF Databases
    <3>3. [i \in Ids |-> IF i \in new THEN receipts[i] ELSE d.receipt[i]] \in [Ids -> Receipts]
      BY DEF Databases
    <3> QED
      BY <2>3, <3>1, <3>2, <3>3 DEF Databases
  <2> HIDE DEF after
  <2>6. ContentBytes(d) <= ContentBytes(after) /\ ContentBytes(d) \in Nat /\ ContentBytes(after) \in Nat
    BY <2>3, <2>4, ContentBytesMonotone
  <2>7. OrZero(d.cbytes) \in Nat /\ OrZero(d.mbytes) \in Nat
    BY DEF OrZero, Databases
  <2>8. /\ OrZero(d.cbytes) + ContentBytes(after) - ContentBytes(d) \in Nat
        /\ OrZero(d.mbytes) + MetadataBytes(after, new) \in Nat
        /\ BloomAdd(d.bloom, new) \in Blooms
    BY <2>1, <2>6, <2>7, MetadataBytesType, BloomType DEF Databases
  <2>9. /\ e \in Databases /\ e.order = after.order /\ e.refs = refs
        /\ e.version = d.version /\ e.epoch = d.epoch
        /\ e.cbytes = OrZero(d.cbytes) + ContentBytes(after) - ContentBytes(d)
    BY <2>2, <2>4, <2>5, <2>8 DEF Databases
  <2>10. ContentBytes(e) = ContentBytes(after)
    BY <2>4, <2>9 DEF ContentBytes
  <2>11. Present(e) = Present(d) \cup new /\ Present(d) \cup new = Present(d) \cup S
    <3>1. \A i \in Ids : e.order[i] > 0 <=> (d.order[i] > 0 \/ i \in new)
      BY <2>1, <2>5, <2>9 DEF Databases
    <3> QED
      BY <2>1, <3>1 DEF Present, new
  <2>12. RefsExact(e)
    <3>1. Present(d) \in SUBSET Ids /\ Present(d) \cap new = {}
      BY DEF Present, new
    <3>2. \A h \in Hashes : Cardinality(Having(Present(d) \cup new, h))
            = Cardinality(Having(Present(d), h)) + Cardinality(Having(new, h))
      BY <2>1, <3>1, CountsAdd
    <3>3. \A h \in Hashes : e.refs[h] = d.refs[h] + Cardinality(Having(new, h))
      BY <2>9 DEF refs, Having
    <3> QED
      BY <2>11, <3>2, <3>3 DEF RefsExact, Having
  <2> QED
    BY <2>8, <2>9, <2>10, <2>11, <2>12
<1> QED
  BY <1>1, <1>2

(* applyWitnessReceipts moves stored entries and nothing else. *)
LEMMA TxReceiptsKeeps ==
    ASSUME NEW d \in Databases, RefsExact(d), NEW receipts \in [Ids -> Receipts],
           NEW rank \in Ranking(Moved(d, receipts)),
           NEW e, e = TxReceipts(d, receipts, rank)
    PROVE  /\ e \in Databases /\ RefsExact(e) /\ Present(e) = Present(d)
           /\ e.version = d.version /\ e.epoch = d.epoch
           /\ e.cbytes = d.cbytes /\ ContentBytes(e) = ContentBytes(d)
<1> DEFINE moved == Moved(d, receipts)
           order == [i \in Ids |-> IF i \in moved THEN d.counter + rank[i] ELSE d.order[i]]
           receipt == [i \in Ids |-> IF i \in moved THEN receipts[i] ELSE d.receipt[i]]
<1>1. moved \in SUBSET Ids /\ moved \subseteq Present(d)
  BY DEF Moved, Present
<1>2. \A i \in moved : rank[i] \in Nat \ {0}
  BY <1>1, RankingRange, SubsetFinite
<1>3. Cardinality(moved) \in Nat /\ d.counter + Cardinality(moved) \in Nat
  BY <1>1, SubsetFinite DEF Databases
<1>4. e = [d EXCEPT !.order = order, !.receipt = receipt, !.counter = d.counter + Cardinality(moved)]
  BY DEF TxReceipts
<1> HIDE DEF moved
<1>5. order \in [Ids -> Nat] /\ receipt \in [Ids -> Receipts]
  BY <1>2 DEF Databases
<1>6. \A i \in Ids : order[i] > 0 <=> d.order[i] > 0
  BY <1>1, <1>2 DEF Databases, Present
<1> HIDE DEF order, receipt
<1>7. /\ e \in Databases /\ e.order = order /\ e.refs = d.refs /\ e.cbytes = d.cbytes
      /\ e.version = d.version /\ e.epoch = d.epoch
  BY <1>3, <1>4, <1>5 DEF Databases
<1>8. Present(e) = Present(d) /\ ContentBytes(e) = ContentBytes(d)
  BY <1>6, <1>7 DEF Present, ContentBytes
<1> QED
  BY <1>7, <1>8 DEF RefsExact

(* A removal takes the entries away and keeps the counts exact. *)
LEMMA TxRemoveKeeps ==
    ASSUME NEW d \in Databases, RefsExact(d), NEW S, NEW e, e = TxRemove(d, S)
    PROVE  /\ e \in Databases /\ RefsExact(e) /\ Present(e) = Present(d) \ S
           /\ e.version = d.version /\ e.epoch = d.epoch
           /\ e = d \/ e.cbytes = MaxZero(OrZero(d.cbytes) + ContentBytes(e) - ContentBytes(d))
           /\ e = d \/ e.cbytes \in Nat
<1> DEFINE gone == S \cap Present(d)
<1>1. CASE gone = {}
  <2>1. e = d
    BY <1>1 DEF TxRemove
  <2> QED
    BY <1>1, <2>1 DEF Present
<1>2. CASE gone # {}
  <2> DEFINE order == [i \in Ids |-> IF i \in gone THEN 0 ELSE d.order[i]]
             receipt == [i \in Ids |-> IF i \in gone THEN NoReceipt ELSE d.receipt[i]]
             refs == Released(d.refs, gone)
             after == [d EXCEPT !.order = order, !.receipt = receipt, !.refs = refs,
                                !.bloom = NoBloom]
  <2>1. gone \in SUBSET Ids /\ gone \subseteq Present(d) /\ Present(d) \ gone = Present(d) \ S
    BY DEF Present
  <2>2. e = [after EXCEPT
               !.cbytes = MaxZero(OrZero(d.cbytes) + ContentBytes(after) - ContentBytes(d)),
               !.mbytes = MaxZero(OrZero(d.mbytes) - MetadataBytes(d, gone))]
    BY <1>2 DEF TxRemove
  <2>3. \A h \in Hashes :
          /\ d.refs[h] = Cardinality(Having(Present(d) \ gone, h)) + Cardinality(Having(gone, h))
          /\ Cardinality(Having(Present(d) \ gone, h)) \in Nat
          /\ Cardinality(Having(gone, h)) \in Nat
    <3>1. /\ Present(d) \ gone \in SUBSET Ids /\ (Present(d) \ gone) \cap gone = {}
          /\ (Present(d) \ gone) \cup gone = Present(d)
      BY <2>1 DEF Present
    <3>2. \A h \in Hashes : d.refs[h] = Cardinality(Having(Present(d), h))
      BY DEF RefsExact, Having
    <3> DEFINE kept == Present(d) \ gone
    <3> HIDE DEF gone, kept
    <3>3. \A h \in Hashes :
            /\ Cardinality(Having(kept \cup gone, h))
                 = Cardinality(Having(kept, h)) + Cardinality(Having(gone, h))
            /\ Cardinality(Having(kept, h)) \in Nat /\ Cardinality(Having(gone, h)) \in Nat
      BY <2>1, <3>1, CountsAdd DEF kept
    <3> QED
      BY <3>1, <3>2, <3>3 DEF kept
  <2>4. \A h \in Hashes : refs[h] = Cardinality(Having(Present(d) \ gone, h))
    <3>1. \A h \in Hashes : refs[h] = MaxZero(d.refs[h] - Cardinality(Having(gone, h)))
      BY DEF Released, Having
    <3>2. \A m, n \in Nat : MaxZero(m + n - n) = m
      BY DEF MaxZero
    <3> HIDE DEF gone, refs
    <3> TAKE h \in Hashes
    <3> DEFINE m == Cardinality(Having(Present(d) \ gone, h))
               n == Cardinality(Having(gone, h))
    <3>3. m \in Nat /\ n \in Nat /\ d.refs[h] = m + n /\ refs[h] = MaxZero(d.refs[h] - n)
      BY <2>3, <3>1
    <3> HIDE DEF m, n
    <3>4. refs[h] = m
      BY <3>2, <3>3
    <3> QED
      BY <3>4 DEF m
  <2>5. refs \in [Hashes -> Nat]
    <3>1. refs = [h \in Hashes |-> refs[h]]
      BY DEF Released
    <3> HIDE DEF refs
    <3> QED
      BY <2>3, <2>4, <3>1
  <2>6. order \in [Ids -> Nat] /\ receipt \in [Ids -> Receipts]
    BY DEF Databases, Receipts
  <2>7. \A i \in Ids : order[i] > 0 <=> (d.order[i] > 0 /\ i \notin gone)
    BY DEF Databases
  <2> HIDE DEF gone, refs, order, receipt
  <2>8. /\ after \in Databases /\ after.order = order /\ after.refs = refs
        /\ after.version = d.version /\ after.epoch = d.epoch
    BY <2>5, <2>6, BloomType DEF Databases, NoBloom, Blooms
  <2> HIDE DEF after
  <2>9. ContentBytes(d) \in Nat /\ ContentBytes(after) \in Nat
    BY ContentsFinite DEF ContentBytes
  <2>10. /\ MaxZero(OrZero(d.cbytes) + ContentBytes(after) - ContentBytes(d)) \in Nat
         /\ MaxZero(OrZero(d.mbytes) - MetadataBytes(d, gone)) \in Nat
    <3>1. OrZero(d.cbytes) \in Nat /\ OrZero(d.mbytes) \in Nat /\ MetadataBytes(d, gone) \in Nat
      BY <2>1, MetadataBytesType DEF OrZero, Databases
    <3> QED
      BY <2>9, <3>1 DEF MaxZero
  <2>11. /\ e \in Databases /\ e.order = order /\ e.refs = refs
         /\ e.version = d.version /\ e.epoch = d.epoch
         /\ e.cbytes = MaxZero(OrZero(d.cbytes) + ContentBytes(after) - ContentBytes(d))
    BY <2>2, <2>8, <2>10 DEF Databases
  <2>12. ContentBytes(e) = ContentBytes(after)
    BY <2>8, <2>11 DEF ContentBytes
  <2>13. Present(e) = Present(d) \ gone
    BY <2>7, <2>11 DEF Present
  <2>14. RefsExact(e)
    BY <2>4, <2>11, <2>13 DEF RefsExact, Having
  <2> QED
    BY <2>1, <2>10, <2>11, <2>12, <2>13, <2>14
<1> QED
  BY <1>1, <1>2

(* The position of an entry by creation date is one of 1 .. n. *)
LEMMA LegacyOrderRange ==
    ASSUME NEW S \in SUBSET Ids, NEW i \in S
    PROVE  LegacyOrder(S, i) \in 1 .. Cardinality(S)
<1> DEFINE T == {j \in S : \/ CreatedAt[j] < CreatedAt[i]
                           \/ CreatedAt[j] = CreatedAt[i] /\ j <= i}
<1>1. i \in T /\ T \in SUBSET S
  BY IdsAssumption
<1>2. IsFiniteSet(S) /\ IsFiniteSet(T) /\ Cardinality(T) \in Nat /\ Cardinality(S) \in Nat
  BY <1>1, SubsetFinite
<1>3. Cardinality(T) <= Cardinality(S) /\ Cardinality(T) # 0
  BY <1>1, <1>2, FS_Subset, FS_EmptySet
<1> QED
  BY <1>2, <1>3 DEF LegacyOrder

(* The upgrade numbers the entries and changes nothing else. *)
LEMMA TxUpgradeKeeps ==
    ASSUME NEW d \in Databases, RefsExact(d), NEW e, e = TxUpgrade(d)
    PROVE  /\ e \in Databases /\ RefsExact(e) /\ Present(e) = Present(d)
           /\ e.version = 2 /\ e.epoch = d.epoch
           /\ e.cbytes = d.cbytes /\ e.mbytes = d.mbytes /\ ContentBytes(e) = ContentBytes(d)
<1>1. CASE d.version = 2
  BY <1>1 DEF TxUpgrade
<1>2. CASE d.version # 2
  <2> DEFINE order == [i \in Ids |-> IF i \in Present(d) THEN LegacyOrder(Present(d), i) ELSE 0]
  <2>1. Present(d) \in SUBSET Ids /\ Cardinality(Present(d)) \in Nat
    BY SubsetFinite DEF Present
  <2>2. \A i \in Present(d) : LegacyOrder(Present(d), i) \in Nat \ {0}
    BY <2>1, LegacyOrderRange
  <2>3. order \in [Ids -> Nat] /\ \A i \in Ids : order[i] > 0 <=> i \in Present(d)
    BY <2>2
  <2>4. e = [d EXCEPT !.version = 2, !.order = order, !.counter = Cardinality(Present(d))]
    BY <1>2 DEF TxUpgrade
  <2> HIDE DEF order
  <2>5. /\ e \in Databases /\ e.order = order /\ e.refs = d.refs /\ e.epoch = d.epoch
        /\ e.version = 2 /\ e.cbytes = d.cbytes /\ e.mbytes = d.mbytes
    <3>1. 2 \in 0 .. 2 /\ Cardinality(Present(d)) \in Nat /\ order \in [Ids -> Nat]
      BY <2>1, <2>3
    <3> QED
      BY <2>4, <3>1 DEF Databases
  <2>6. Present(e) = Present(d) /\ ContentBytes(e) = ContentBytes(d)
    BY <2>1, <2>3, <2>5 DEF Present, ContentBytes
  <2> QED
    BY <2>5, <2>6 DEF RefsExact
<1> QED
  BY <1>1, <1>2

(* The backfill computes the totals. *)
LEMMA TxBackfillKeeps ==
    ASSUME NEW d \in Databases, RefsExact(d), NEW e, e = TxBackfill(d)
    PROVE  /\ e \in Databases /\ RefsExact(e) /\ Present(e) = Present(d)
           /\ e.version = d.version /\ e.epoch = d.epoch /\ e.order = d.order
           /\ e.receipt = d.receipt /\ e.counter = d.counter
           /\ e.cbytes = ContentBytes(e) /\ e.cbytes \in Nat
<1>1. ContentBytes(d) \in Nat /\ MetadataBytes(d, Present(d)) \in Nat
  BY ContentsFinite, MetadataBytesType DEF ContentBytes, Present
<1>2. /\ e \in Databases /\ e.order = d.order /\ e.refs = d.refs /\ e.cbytes = ContentBytes(d)
      /\ e.version = d.version /\ e.epoch = d.epoch /\ e.receipt = d.receipt /\ e.counter = d.counter
  BY <1>1 DEF TxBackfill, Databases
<1> QED
  BY <1>1, <1>2 DEF RefsExact, Present, ContentBytes

-----------------------------------------------------------------------------
(* Connections and calls                                                   *)

\* What a step may do to the calls when tab t loses its connection
CallsCutOff(t) ==
    /\ call' \in [Callers -> CallRecords]
    /\ \A c \in Callers :
         /\ call'[c].done \subseteq Present(db)
         /\ call'[c].handle = "live" => call[c].handle = "live" /\ TabOf[c] # t

(* A settled promise changes only where a call stands. *)
LEMMA SettledType ==
    ASSUME NEW pc \in Places, NEW how
    PROVE  Settled(pc, how) \in Places
BY DEF Settled, Places

(* No call of the tab works on a connection that is gone. *)
LEMMA DropKeeps ==
    ASSUME BsType, NEW t \in Tabs, NEW how \in {"closed", "lost"}, NEW end, NEW cs,
           cs = Unsettled(Dropped(t, how), t, end)
    PROVE  /\ cs \in [Callers -> CallRecords]
           /\ \A c \in Callers :
                /\ cs[c].done = call[c].done
                /\ cs[c].handle = "live" => call[c].handle = "live" /\ TabOf[c] # t
<1> DEFINE ds == Dropped(t, how)
<1>1. /\ ds \in [Callers -> CallRecords]
      /\ \A c \in Callers :
           /\ ds[c].done = call[c].done
           /\ ds[c].handle = "live" => call[c].handle = "live" /\ TabOf[c] # t
  BY DEF Dropped, BsType, CallRecords
<1>2. cs = [c \in Callers |-> IF Awaiting(c, t) THEN [ds[c] EXCEPT !.pc = Settled(ds[c].pc, end)]
                              ELSE ds[c]]
  BY DEF Unsettled
<1> HIDE DEF ds
<1>3. \A c \in Callers :
        /\ [ds[c] EXCEPT !.pc = Settled(ds[c].pc, end)] \in CallRecords
        /\ [ds[c] EXCEPT !.pc = Settled(ds[c].pc, end)].done = ds[c].done
        /\ [ds[c] EXCEPT !.pc = Settled(ds[c].pc, end)].handle = ds[c].handle
  <2> TAKE c \in Callers
  <2>1. ds[c] \in CallRecords /\ ds[c].pc \in Places
    BY <1>1 DEF CallRecords
  <2>2. Settled(ds[c].pc, end) \in Places
    BY <2>1, SettledType
  <2> QED
    BY <2>1, <2>2 DEF CallRecords
<1> QED
  BY <1>1, <1>2, <1>3

(* resetConnection keeps the invariant. *)
LEMMA ResetKeeps ==
    ASSUME BsInv, NEW t \in Tabs, Reset(t), UNCHANGED <<db, gen, acked, heads>>, CallsCutOff(t)
    PROVE  BsInv'
<1>1. /\ conn' \in [Tabs -> {"none", "opening", "checked", "backfill", "open"}] /\ cut' \in BOOLEAN
      /\ \A s \in Tabs : s # t => conn'[s] = conn[s]
      /\ conn'[t] \in {"none", "opening"}
  BY DEF Reset, BsInv, BsType
<1>2. BsType' /\ RefsExact(db)' /\ Unnumbered(db)'
  BY <1>1 DEF CallsCutOff, BsInv, BsType, RefsExact, Unnumbered, Present
<1>3. ConnOK'
  <2>1. \A s \in Tabs : HasDb(s)' => s # t /\ HasDb(s)
    BY <1>1 DEF HasDb
  <2>2. \A s \in Tabs : s # t /\ HasDb(s) => HasDb(s)'
    BY <1>1 DEF HasDb
  <2>3. \A c \in Callers : TabOf[c] \in Tabs
    BY BsAssumption
  <2> QED
    BY <1>1, <2>1, <2>2, <2>3 DEF CallsCutOff, BsInv, ConnOK
<1>4. ReportsOK' /\ HeadsOK'
  BY DEF CallsCutOff, BsInv, ReportsOK, HeadsOK, HeadsNameLineage, Present
<1>5. ContentBytesExact'
  <2> SUFFICES ASSUME db.cbytes # Absent, ~cut', \A s \in Tabs : conn'[s] # "backfill"
               PROVE  db.cbytes = ContentBytes(db)
    BY DEF ContentBytesExact, ContentBytes
  <2>1. ~cut /\ \A s \in Tabs : conn[s] # "backfill"
    BY <1>1 DEF Reset, BsInv, BsType
  <2> QED
    BY <2>1 DEF BsInv, ContentBytesExact
<1> QED
  BY <1>2, <1>3, <1>4, <1>5 DEF BsInv

(* Steps of calls that leave the database and the connections alone. *)
LEMMA CallKeeps ==
    ASSUME BsInv, UNCHANGED <<db, gen, conn, heads, cut>>,
           acked' \subseteq Present(db), call' \in [Callers -> CallRecords],
           \A c \in Callers : /\ call'[c].done \subseteq Present(db)
                              /\ call'[c].handle = "live" => HasDb(TabOf[c])
    PROVE  BsInv'
<1>1. BsType' /\ RefsExact(db)' /\ Unnumbered(db)'
  BY DEF BsInv, BsType, RefsExact, Unnumbered, Present
<1>2. ConnOK'
  BY DEF BsInv, ConnOK, HasDb
<1>3. ReportsOK' /\ HeadsOK'
  BY DEF BsInv, ReportsOK, HeadsOK, HeadsNameLineage, Present
<1>4. ContentBytesExact'
  BY DEF BsInv, ContentBytesExact, ContentBytes
<1> QED
  BY <1>1, <1>2, <1>3, <1>4 DEF BsInv

(* A transaction of a running call keeps the invariant if it keeps the        *)
(* counts and moves the byte total with the contents.                         *)
LEMMA TxKeeps ==
    ASSUME BsInv, NEW b \in Callers, call[b].handle = "live",
           UNCHANGED <<gen, conn, heads, cut>>,
           db' \in Databases, RefsExact(db'), db'.version = db.version, db'.epoch = db.epoch,
           db' = db \/ db'.cbytes \in Nat \/ db'.cbytes = db.cbytes,
           db.cbytes # Absent /\ db.cbytes = ContentBytes(db) => db'.cbytes = ContentBytes(db'),
           acked' \subseteq Present(db'), call' \in [Callers -> CallRecords],
           \A c \in Callers : /\ call'[c].done \subseteq Present(db')
                              /\ call'[c].handle = call[c].handle
    PROVE  BsInv'
<1>1. db.version = 2
  BY BsAssumption DEF BsInv, ConnOK
<1>2. BsType' /\ RefsExact(db)' /\ Unnumbered(db)'
  BY <1>1, SubsetFinite DEF BsInv, BsType, RefsExact, Unnumbered, Present
<1>3. db'.cbytes = Absent => db.cbytes = Absent
  BY DEF Absent
<1>4. ConnOK'
  BY <1>3 DEF BsInv, ConnOK, HasDb
<1>5. ReportsOK' /\ HeadsOK'
  BY DEF BsInv, ReportsOK, HeadsOK, HeadsNameLineage, Present
<1>6. ContentBytesExact'
  <2> SUFFICES ASSUME ~cut, \A s \in Tabs : conn[s] # "backfill"
               PROVE  db'.cbytes = ContentBytes(db')
    BY DEF ContentBytesExact, ContentBytes
  <2>1. db.cbytes # Absent
    BY BsAssumption DEF BsInv, ConnOK
  <2> QED
    BY <2>1 DEF BsInv, ContentBytesExact
<1> QED
  BY <1>2, <1>4, <1>5, <1>6 DEF BsInv

-----------------------------------------------------------------------------
(* The steps of a connection                                               *)

(* indexedDB.open, its failure, and the end of the backfill or of a wait. *)
LEMMA OpeningKeeps ==
    ASSUME BsInv, NEW t \in Tabs, BeginOpen(t) \/ OpenFails(t)
    PROVE  BsInv'
<1>1. /\ conn' \in [Tabs -> {"none", "opening", "checked", "backfill", "open"}]
      /\ ~HasDb(t) /\ ~HasDb(t)' /\ \A s \in Tabs : s # t => conn'[s] = conn[s]
  BY DEF BeginOpen, OpenFails, BsInv, BsType, HasDb
<1>2. UNCHANGED <<db, gen, acked, heads, cut>>
  BY DEF BeginOpen, OpenFails
<1>3. /\ call' \in [Callers -> CallRecords]
      /\ \A c \in Callers : call'[c].done = call[c].done /\ call'[c].handle = call[c].handle
  <2>1. CASE call' = call
    BY <2>1 DEF BsInv, BsType
  <2>2. CASE call' = Unsettled(call, t, "rejected")
    <3>1. \A c \in Callers :
            /\ [call[c] EXCEPT !.pc = Settled(call[c].pc, "rejected")] \in CallRecords
            /\ [call[c] EXCEPT !.pc = Settled(call[c].pc, "rejected")].done = call[c].done
            /\ [call[c] EXCEPT !.pc = Settled(call[c].pc, "rejected")].handle = call[c].handle
      <4> TAKE c \in Callers
      <4>1. call[c] \in CallRecords /\ call[c].pc \in Places
        BY DEF BsInv, BsType, CallRecords
      <4>2. Settled(call[c].pc, "rejected") \in Places
        BY <4>1, SettledType
      <4> QED
        BY <4>1, <4>2 DEF CallRecords
    <3>2. call' = [c \in Callers |-> IF Awaiting(c, t)
                     THEN [call[c] EXCEPT !.pc = Settled(call[c].pc, "rejected")] ELSE call[c]]
      BY <2>2 DEF Unsettled
    <3> QED
      BY <3>1, <3>2 DEF BsInv, BsType
  <2> QED
    BY <2>1, <2>2 DEF BeginOpen, OpenFails
<1>4. BsType' /\ RefsExact(db)' /\ Unnumbered(db)'
  BY <1>1, <1>2, <1>3 DEF BsInv, BsType, RefsExact, Unnumbered, Present
<1>5. ConnOK'
  <2>1. \A s \in Tabs : HasDb(s)' <=> HasDb(s)
    BY <1>1 DEF HasDb
  <2>2. \A c \in Callers : TabOf[c] \in Tabs
    BY BsAssumption
  <2> QED
    BY <1>1, <1>2, <1>3, <2>1, <2>2 DEF BsInv, ConnOK
<1>6. ReportsOK' /\ HeadsOK'
  BY <1>2, <1>3 DEF BsInv, ReportsOK, HeadsOK, HeadsNameLineage, Present
<1>7. ContentBytesExact'
  <2> SUFFICES ASSUME db.cbytes # Absent, ~cut, \A s \in Tabs : conn'[s] # "backfill"
               PROVE  db.cbytes = ContentBytes(db)
    BY <1>2 DEF ContentBytesExact, ContentBytes
  <2>1. \A s \in Tabs : conn[s] # "backfill"
    BY <1>1 DEF HasDb
  <2> QED
    BY <2>1 DEF BsInv, ContentBytesExact
<1> QED
  BY <1>4, <1>5, <1>6, <1>7 DEF BsInv

(* onupgradeneeded and onsuccess. *)
LEMMA OpenedKeeps ==
    ASSUME BsInv, NEW t \in Tabs, Opened(t)
    PROVE  BsInv'
<1>1. /\ db \in Databases /\ RefsExact(db) /\ db' = TxUpgrade(db)
      /\ UNCHANGED <<gen, call, acked, heads, cut>>
  BY DEF Opened, BsInv, BsType
<1>2. /\ db' \in Databases /\ RefsExact(db') /\ Present(db') = Present(db)
      /\ db'.version = 2 /\ db'.epoch = db.epoch
      /\ db'.cbytes = db.cbytes /\ ContentBytes(db') = ContentBytes(db)
  BY <1>1, TxUpgradeKeeps
<1>3. /\ conn' \in [Tabs -> {"none", "opening", "checked", "backfill", "open"}]
      /\ \A s \in Tabs : s # t => conn'[s] = conn[s]
      /\ conn'[t] \in {"checked", "backfill"}
      /\ db.cbytes = Absent => conn'[t] = "backfill"
      /\ conn[t] = "opening"
  BY DEF Opened, BsInv, BsType
<1>4. BsType' /\ RefsExact(db)' /\ Unnumbered(db)'
  <2>1. RefsExact(db)'
    BY <1>2 DEF RefsExact, Present
  <2>2. BsType' /\ Unnumbered(db)'
    BY <1>1, <1>2, <1>3 DEF BsInv, BsType, Unnumbered
  <2> QED
    BY <2>1, <2>2
<1>5. ConnOK'
  <2>1. \A s \in Tabs : HasDb(s) => HasDb(s)' /\ s # t
    BY <1>3 DEF HasDb
  <2>2. \A s \in Tabs : HasDb(s)' => HasDb(s) \/ s = t
    BY <1>3 DEF HasDb
  <2>3. \A c \in Callers : TabOf[c] \in Tabs
    BY BsAssumption
  <2>4. \A c \in Callers : call'[c].handle = "live" => HasDb(TabOf[c])'
    BY <1>1, <2>1, <2>3 DEF BsInv, ConnOK
  <2>5. \A s \in Tabs : HasDb(s)' /\ db'.cbytes = Absent => conn'[s] = "backfill"
    BY <1>2, <1>3, <2>2 DEF BsInv, ConnOK
  <2> QED
    BY <1>2, <2>4, <2>5 DEF ConnOK
<1>6. ReportsOK' /\ HeadsOK'
  <2>1. ReportsOK'
    BY <1>1, <1>2 DEF BsInv, ReportsOK, Present
  <2>2. HeadsOK'
    BY <1>1, <1>2 DEF BsInv, HeadsOK, HeadsNameLineage
  <2> QED
    BY <2>1, <2>2
<1>7. ContentBytesExact'
  <2> SUFFICES ASSUME db.cbytes # Absent, ~cut, \A s \in Tabs : conn'[s] # "backfill"
               PROVE  db.cbytes = ContentBytes(db)
    BY <1>1, <1>2 DEF ContentBytesExact, ContentBytes
  <2>1. \A s \in Tabs : conn[s] # "backfill"
    BY <1>3
  <2> QED
    BY <2>1 DEF BsInv, ContentBytesExact
<1> QED
  BY <1>4, <1>5, <1>6, <1>7 DEF BsInv

(* backfillStoredBytesIfNeeded ends and the promise is resolved. *)
LEMMA BackfilledKeeps ==
    ASSUME BsInv, NEW t \in Tabs, Backfilled(t)
    PROVE  BsInv'
<1>1. /\ db \in Databases /\ RefsExact(db) /\ db.version = 2
      /\ UNCHANGED <<gen, call, acked, heads, cut>>
  BY DEF Backfilled, BsInv, BsType, ConnOK, HasDb
<1>2. /\ db' \in Databases /\ RefsExact(db') /\ Present(db') = Present(db)
      /\ db'.version = 2 /\ db'.epoch = db.epoch /\ ContentBytes(db') = ContentBytes(db)
      /\ db' = db \/ (db'.cbytes = ContentBytes(db) /\ db'.cbytes \in Nat)
      /\ conn[t] = "backfill" => db'.cbytes = ContentBytes(db) /\ db'.cbytes \in Nat
  <2>1. CASE conn[t] = "backfill"
    <3>1. db' = TxBackfill(db)
      BY <2>1 DEF Backfilled
    <3>2. ContentBytes(db') = ContentBytes(db)
      BY <3>1 DEF TxBackfill, ContentBytes, Databases, BsInv, BsType
    <3> QED
      BY <1>1, <3>1, <3>2, TxBackfillKeeps
  <2>2. CASE conn[t] # "backfill"
    BY <1>1, <2>2 DEF Backfilled
  <2> QED
    BY <2>1, <2>2
<1>3. /\ conn' \in [Tabs -> {"none", "opening", "checked", "backfill", "open"}]
      /\ \A s \in Tabs : s # t => conn'[s] = conn[s]
      /\ conn'[t] = "open" /\ conn[t] \in {"checked", "backfill"}
  BY DEF Backfilled, BsInv, BsType
<1>4. BsType' /\ RefsExact(db)' /\ Unnumbered(db)'
  <2>1. RefsExact(db)'
    BY <1>2 DEF RefsExact, Present
  <2>2. BsType' /\ Unnumbered(db)'
    BY <1>1, <1>2, <1>3 DEF BsInv, BsType, Unnumbered
  <2> QED
    BY <2>1, <2>2
<1>5. ConnOK'
  <2>1. \A s \in Tabs : HasDb(s)' <=> HasDb(s)
    BY <1>3 DEF HasDb
  <2>2. \A c \in Callers : TabOf[c] \in Tabs
    BY BsAssumption
  <2>3. db'.cbytes = Absent => db.cbytes = Absent /\ conn[t] # "backfill"
    BY <1>2 DEF Absent
  <2>4. HasDb(t)
    BY <1>3 DEF HasDb
  <2> QED
    BY <1>1, <1>2, <1>3, <2>1, <2>2, <2>3, <2>4 DEF BsInv, ConnOK
<1>6. ReportsOK' /\ HeadsOK'
  <2>1. ReportsOK'
    BY <1>1, <1>2 DEF BsInv, ReportsOK, Present
  <2>2. HeadsOK'
    BY <1>1, <1>2 DEF BsInv, HeadsOK, HeadsNameLineage
  <2> QED
    BY <2>1, <2>2
<1>7. ContentBytesExact'
  <2> SUFFICES ASSUME db'.cbytes # Absent, ~cut, \A s \in Tabs : conn'[s] # "backfill"
               PROVE  db'.cbytes = ContentBytes(db')
    BY <1>1 DEF ContentBytesExact, ContentBytes
  <2>1. CASE conn[t] = "backfill"
    BY <1>2, <2>1
  <2>2. CASE conn[t] # "backfill"
    <3>1. \A s \in Tabs : conn[s] # "backfill"
      BY <1>3, <2>2
    <3> QED
      BY <1>2, <3>1 DEF BsInv, ContentBytesExact
  <2> QED
    BY <2>1, <2>2
<1> QED
  BY <1>4, <1>5, <1>6, <1>7 DEF BsInv

-----------------------------------------------------------------------------
(* The steps of a call                                                     *)

(* putEntries, of own or pulled entries. *)
LEMMA PutKeeps ==
    ASSUME BsInv, NEW c \in Callers, NEW op \in {"put", "pull"}, Put(c, op)
    PROVE  BsInv'
<1> DEFINE receipts == [i \in Ids |-> IF op = "pull" THEN Received ELSE NoReceipt]
<1>1. /\ db \in Databases /\ RefsExact(db) /\ call[c] \in CallRecords
      /\ call[c].arg \in SUBSET Ids /\ call[c].handle = "live"
  BY DEF Put, Running, BsInv, BsType, CallRecords
<1>2. receipts \in [Ids -> Receipts]
  BY BsAssumption DEF Receipts
<1>3. PICK rank \in Ranking(call[c].arg \ Present(db)) :
        db' = TxPut(db, call[c].arg, receipts, rank)
  BY DEF Put
<1> HIDE DEF receipts
<1>4. /\ db' \in Databases /\ RefsExact(db') /\ Present(db') = Present(db) \cup call[c].arg
      /\ db'.version = db.version /\ db'.epoch = db.epoch
      /\ db' = db \/ db'.cbytes = OrZero(db.cbytes) + ContentBytes(db') - ContentBytes(db)
      /\ db' = db \/ db'.cbytes \in Nat
  <2> DEFINE S == call[c].arg
             d == db
             e == db'
  <2>1. /\ d \in Databases /\ RefsExact(d) /\ S \in SUBSET Ids /\ rank \in Ranking(Fresh(d, S))
        /\ e = TxPut(d, S, receipts, rank)
    BY <1>1, <1>3 DEF Fresh
  <2> HIDE DEF S, d, e
  <2>2. /\ e \in Databases /\ RefsExact(e) /\ Present(e) = Present(d) \cup S
        /\ e.version = d.version /\ e.epoch = d.epoch
        /\ e = d \/ e.cbytes = OrZero(d.cbytes) + ContentBytes(e) - ContentBytes(d)
        /\ e = d \/ e.cbytes \in Nat
    BY <1>2, <2>1, TxPutKeeps
  <2> QED
    BY <2>2 DEF S, d, e
<1>5. db.cbytes # Absent /\ db.cbytes = ContentBytes(db) => db'.cbytes = ContentBytes(db')
  <2>1. ContentBytes(db) \in Nat /\ ContentBytes(db') \in Nat
    BY ContentsFinite DEF ContentBytes
  <2> QED
    BY <1>4, <2>1 DEF OrZero
<1>6. /\ call' \in [Callers -> CallRecords]
      /\ \A b \in Callers : call'[b].handle = call[b].handle /\ call'[b].done \subseteq Present(db')
  BY <1>1, <1>4 DEF Put, Committed, BsInv, BsType, CallRecords, Places, ReportsOK
<1>7. acked' \subseteq Present(db') /\ UNCHANGED <<gen, conn, heads, cut>>
  BY <1>4 DEF Put, BsInv, ReportsOK
<1> QED
  BY <1>1, <1>4, <1>5, <1>6, <1>7, TxKeeps

(* applyWitnessReceipts. *)
LEMMA ReceiveKeeps ==
    ASSUME BsInv, NEW c \in Callers, Receive(c)
    PROVE  BsInv'
<1> DEFINE receipts == [i \in Ids |-> IF i \in call[c].arg THEN Received ELSE NoReceipt]
<1>1. db \in Databases /\ RefsExact(db) /\ call[c] \in CallRecords /\ call[c].handle = "live"
  BY DEF Receive, Running, BsInv, BsType
<1>2. receipts \in [Ids -> Receipts]
  BY BsAssumption DEF Receipts
<1>3. PICK rank \in Ranking(Moved(db, receipts)) : db' = TxReceipts(db, receipts, rank)
  BY DEF Receive
<1> HIDE DEF receipts
<1>4. /\ db' \in Databases /\ RefsExact(db') /\ Present(db') = Present(db)
      /\ db'.version = db.version /\ db'.epoch = db.epoch
      /\ db'.cbytes = db.cbytes /\ ContentBytes(db') = ContentBytes(db)
  BY <1>1, <1>2, <1>3, TxReceiptsKeeps
<1>5. /\ call' \in [Callers -> CallRecords]
      /\ \A b \in Callers : call'[b].handle = call[b].handle /\ call'[b].done \subseteq Present(db')
  BY <1>1, <1>4 DEF Receive, Committed, BsInv, BsType, CallRecords, Places, ReportsOK
<1>6. acked' \subseteq Present(db') /\ UNCHANGED <<gen, conn, heads, cut>>
  BY <1>4 DEF Receive, BsInv, ReportsOK
<1> QED
  BY <1>1, <1>4, <1>5, <1>6, TxKeeps

(* purgeDocHistory and the deletions. *)
LEMMA RemoveKeeps ==
    ASSUME BsInv, NEW c \in Callers, RemoveEntries(c)
    PROVE  BsInv'
<1> DEFINE S == call[c].arg
<1>1. /\ db \in Databases /\ RefsExact(db) /\ call[c] \in CallRecords
      /\ S \in SUBSET Ids /\ call[c].handle = "live"
  BY DEF RemoveEntries, Running, BsInv, BsType, CallRecords
<1>2. db' = TxRemove(db, S)
  BY DEF RemoveEntries
<1>3. /\ db' \in Databases /\ RefsExact(db') /\ Present(db') = Present(db) \ S
      /\ db'.version = db.version /\ db'.epoch = db.epoch
      /\ db' = db \/ db'.cbytes = MaxZero(OrZero(db.cbytes) + ContentBytes(db') - ContentBytes(db))
      /\ db' = db \/ db'.cbytes \in Nat
  BY <1>1, <1>2, TxRemoveKeeps
<1>4. db.cbytes # Absent /\ db.cbytes = ContentBytes(db) => db'.cbytes = ContentBytes(db')
  <2>1. ContentBytes(db) \in Nat /\ ContentBytes(db') \in Nat
    BY ContentsFinite DEF ContentBytes
  <2> QED
    BY <1>3, <2>1 DEF OrZero, MaxZero
<1>5. /\ call' \in [Callers -> CallRecords]
      /\ \A b \in Callers : call'[b].handle = call[b].handle /\ call'[b].done \subseteq Present(db')
  <2> DEFINE cs == Committed(c, {})
  <2>1. /\ cs \in [Callers -> CallRecords]
        /\ \A b \in Callers : cs[b].handle = call[b].handle /\ cs[b].done \subseteq Present(db)
    BY <1>1 DEF Committed, BsInv, BsType, CallRecords, Places, ReportsOK
  <2>2. call' = [b \in Callers |-> [cs[b] EXCEPT !.done = cs[b].done \ S]]
    BY DEF RemoveEntries, Forget
  <2> HIDE DEF cs, S
  <2>3. /\ call' \in [Callers -> CallRecords]
        /\ \A b \in Callers : call'[b].handle = cs[b].handle /\ call'[b].done = cs[b].done \ S
    BY <2>1, <2>2 DEF CallRecords
  <2> QED
    BY <1>3, <2>1, <2>3
<1>6. acked' \subseteq Present(db') /\ UNCHANGED <<gen, conn, heads, cut>>
  BY <1>3 DEF RemoveEntries, BsInv, ReportsOK
<1> QED
  BY <1>1, <1>3, <1>4, <1>5, <1>6, TxKeeps

(* getIdBloomSummary stores the summary. *)
LEMMA WriteBloomKeeps ==
    ASSUME BsInv, NEW c \in Callers, WriteBloom(c)
    PROVE  BsInv'
<1>1. /\ db \in Databases /\ call[c] \in CallRecords /\ call[c].handle = "live"
      /\ BloomOf(call[c].arg) \in Blooms
  BY BloomType DEF WriteBloom, BsInv, BsType, CallRecords, Databases
<1>2. /\ db' \in Databases /\ db'.order = db.order /\ db'.refs = db.refs
      /\ db'.version = db.version /\ db'.epoch = db.epoch /\ db'.cbytes = db.cbytes
  BY <1>1 DEF WriteBloom, Databases
<1>3. RefsExact(db') /\ Present(db') = Present(db) /\ ContentBytes(db') = ContentBytes(db)
  BY <1>2 DEF BsInv, RefsExact, Present, ContentBytes
<1>4. /\ call' \in [Callers -> CallRecords]
      /\ \A b \in Callers : call'[b].handle = call[b].handle /\ call'[b].done \subseteq Present(db')
  BY <1>1, <1>3 DEF WriteBloom, Committed, BsInv, BsType, CallRecords, Places, ReportsOK
<1>5. acked' \subseteq Present(db') /\ UNCHANGED <<gen, conn, heads, cut>>
  BY <1>3 DEF WriteBloom, BsInv, ReportsOK
<1> QED
  BY <1>1, <1>2, <1>3, <1>4, <1>5, TxKeeps

(* getStoreHead: the head names an epoch that no other database has. *)
LEMMA ReadHeadKeeps ==
    ASSUME BsInv, NEW c \in Callers, ReadHead(c)
    PROVE  BsInv'
<1> DEFINE fresh == 1 + Cardinality({h.epoch : h \in heads})
           e == IF db.epoch = 0 THEN fresh ELSE db.epoch
           head == [epoch |-> e, gen |-> gen]
<1>1. /\ db \in Databases /\ db.epoch \in Nat /\ gen \in Nat /\ call[c] \in CallRecords
      /\ call[c].handle = "live" /\ HeadsOK
  BY DEF ReadHead, Running, BsInv, BsType, Databases
<1>2. PICK k \in Nat : {h.epoch : h \in heads} = 1 .. k
  BY <1>1 DEF HeadsOK
<1>3. fresh = k + 1
  <2> DEFINE E == {h.epoch : h \in heads}
  <2>1. Cardinality(1 .. k) = k
    BY FS_Interval
  <2>2. E = 1 .. k /\ fresh = 1 + Cardinality(E)
    BY <1>2
  <2> HIDE DEF E, fresh
  <2>3. Cardinality(E) = k
    BY <2>1, <2>2
  <2> QED
    BY <2>2, <2>3
<1>4. \A h \in heads : h.epoch \in 1 .. k /\ h.epoch \in Nat /\ h.gen \in Nat
                       /\ h = [epoch |-> h.epoch, gen |-> h.gen]
  BY <1>1, <1>2 DEF HeadsOK
<1>5. heads' = heads \cup {head} /\ db' = (IF db.epoch = 0 THEN KeepEpoch(db, e) ELSE db)
  BY DEF ReadHead
<1>6. e \in Nat \ {0}
  BY <1>1, <1>3
<1> HIDE DEF fresh
<1>7. db'.epoch = e /\ db' \in Databases /\ db'.order = db.order /\ db'.refs = db.refs
      /\ db'.version = db.version /\ db'.cbytes = db.cbytes /\ db'.counter = db.counter
      /\ db'.receipt = db.receipt
  BY <1>1, <1>5, <1>6 DEF KeepEpoch, Databases
<1>8. UNCHANGED <<gen, conn, acked, cut>>
  BY DEF ReadHead
<1>9. HeadsOK'
  <2>1. heads' \subseteq [epoch : Nat, gen : Nat]
    BY <1>1, <1>5, <1>6 DEF HeadsOK
  <2>2. \E m \in Nat : {h.epoch : h \in heads'} = 1 .. m
    <3>1. {h.epoch : h \in heads'} = (1 .. k) \cup {e}
      <4>1. head \in heads' /\ head.epoch = e /\ \A h \in heads' : h \in heads \/ h = head
        BY <1>5
      <4>2. \A x \in 1 .. k : \E h \in heads : x = h.epoch
        BY <1>2
      <4>3. \A x \in {h.epoch : h \in heads'} : x \in (1 .. k) \cup {e}
        BY <1>4, <4>1
      <4>4. \A x \in (1 .. k) \cup {e} : x \in {h.epoch : h \in heads'}
        <5>1. \A x \in 1 .. k : \E h \in heads' : x = h.epoch
          BY <1>5, <4>2
        <5>2. e \in {h.epoch : h \in heads'}
          BY <4>1
        <5> HIDE DEF e, head
        <5> QED
          BY <5>1, <5>2
      <4> QED
        BY <4>3, <4>4
    <3>2. CASE db.epoch = 0
      <4>1. (1 .. k) \cup {e} = 1 .. (k + 1)
        BY <1>3, <3>2
      <4> QED
        BY <3>1, <4>1
    <3>3. CASE db.epoch # 0
      <4>1. [epoch |-> db.epoch, gen |-> gen] \in heads
        BY <1>1, <3>3 DEF HeadsOK
      <4>2. e \in 1 .. k
        BY <1>4, <3>3, <4>1
      <4>3. (1 .. k) \cup {e} = 1 .. k
        BY <4>2
      <4> QED
        BY <3>1, <4>3
    <3> QED
      BY <3>2, <3>3
  <2>3. \A h \in heads' : h.gen <= gen'
    BY <1>1, <1>5, <1>8 DEF HeadsOK
  <2>4. HeadsNameLineage'
    <3>1. CASE db.epoch = 0
      <4>1. \A h \in heads : h.gen # gen /\ h.epoch # e
        BY <1>1, <1>3, <1>4, <3>1 DEF HeadsOK
      <4> QED
        BY <1>1, <1>5, <4>1 DEF HeadsOK, HeadsNameLineage
    <3>2. CASE db.epoch # 0
      <4>1. heads' = heads
        BY <1>1, <1>5, <3>2 DEF HeadsOK
      <4> QED
        BY <1>1, <4>1 DEF HeadsOK, HeadsNameLineage
    <3> QED
      BY <3>1, <3>2
  <2>5. [epoch |-> db'.epoch, gen |-> gen'] \in heads' /\ db'.epoch # 0
    BY <1>5, <1>6, <1>7, <1>8
  <2> QED
    BY <2>1, <2>2, <2>3, <2>4, <2>5 DEF HeadsOK
<1>10. Present(db') = Present(db) /\ ContentBytes(db') = ContentBytes(db)
  BY <1>7 DEF Present, ContentBytes
<1>11. /\ call' \in [Callers -> CallRecords]
       /\ \A b \in Callers : call'[b].handle = call[b].handle /\ call'[b].done \subseteq Present(db)
  BY <1>1 DEF ReadHead, Committed, BsInv, BsType, CallRecords, Places, ReportsOK
<1>12. BsType' /\ RefsExact(db)' /\ Unnumbered(db)'
  <2>1. RefsExact(db)'
    BY <1>7, <1>10 DEF BsInv, RefsExact, Present
  <2>2. Unnumbered(db)'
    BY <1>7, <1>10 DEF BsInv, Unnumbered, Present
  <2>3. BsType'
    BY <1>7, <1>8, <1>11 DEF BsInv, BsType
  <2> QED
    BY <2>1, <2>2, <2>3
<1>13. ConnOK'
  BY <1>7, <1>8, <1>11 DEF BsInv, ConnOK, HasDb
<1>14. ReportsOK'
  BY <1>8, <1>10, <1>11 DEF BsInv, ReportsOK, Present
<1>15. ContentBytesExact'
  BY <1>7, <1>8, <1>10 DEF BsInv, ContentBytesExact, ContentBytes
<1> QED
  BY <1>9, <1>12, <1>13, <1>14, <1>15 DEF BsInv

(* A new database is empty, and nobody has asked for its head. *)
LEMMA EmptyDbType ==
    /\ EmptyDb \in Databases /\ Present(EmptyDb) = {} /\ RefsExact(EmptyDb)
    /\ Unnumbered(EmptyDb) /\ EmptyDb.epoch = 0 /\ EmptyDb.cbytes = Absent
<1>1. EmptyDb \in Databases
  BY DEF EmptyDb, Databases, Receipts, NoBloom, Blooms
<1>2. Present(EmptyDb) = {}
  BY DEF EmptyDb, Present
<1>3. \A h \in Hashes : {i \in {} : HashOf[i] = h} = {}
  OBVIOUS
<1>4. RefsExact(EmptyDb)
  BY <1>2, <1>3, FS_EmptySet DEF RefsExact, EmptyDb
<1> QED
  BY <1>1, <1>2, <1>4 DEF EmptyDb, Unnumbered

(* deleteDatabase of clearAllLocalData. *)
LEMMA DeleteKeeps ==
    ASSUME BsInv, NEW c \in Callers, Delete(c)
    PROVE  BsInv'
<1>1. /\ \A t \in Tabs : ~HasDb(t) /\ ~HasDb(t)'
      /\ db' = EmptyDb /\ gen' = gen + 1 /\ acked' = {} /\ UNCHANGED <<conn, heads, cut>>
  BY DEF Delete, HasDb
<1>2. \A b \in Callers : call[b].handle # "live"
  BY <1>1, BsAssumption DEF BsInv, ConnOK
<1>3. /\ call' \in [Callers -> CallRecords]
      /\ \A b \in Callers : call'[b].handle # "live" /\ call'[b].done = {}
  <2> DEFINE cs == Forget(call, Ids)
  <2>1. cs \in [Callers -> CallRecords] /\ \A b \in Callers : cs[b].done = {} /\ cs[b].handle # "live"
    BY <1>2 DEF Forget, BsInv, BsType, CallRecords
  <2>2. NoCall \in CallRecords /\ NoCall.done = {} /\ NoCall.handle # "live"
    BY DEF NoCall, CallRecords, Places
  <2>3. call' = [cs EXCEPT ![c] = NoCall]
    BY DEF Delete
  <2> HIDE DEF cs
  <2> QED
    BY <2>1, <2>2, <2>3
<1>4. BsType' /\ RefsExact(db)' /\ Unnumbered(db)' /\ ReportsOK'
  <2>1. RefsExact(db)' /\ Unnumbered(db)' /\ ReportsOK'
    BY <1>1, <1>3, EmptyDbType DEF RefsExact, Unnumbered, ReportsOK, Present
  <2>2. BsType'
    BY <1>1, <1>3, EmptyDbType DEF BsInv, BsType
  <2> QED
    BY <2>1, <2>2
<1>5. ConnOK'
  BY <1>1, <1>3 DEF ConnOK
<1>6. HeadsOK'
  <2>1. \A h \in heads : h.gen \in Nat /\ h.gen <= gen /\ gen \in Nat
    BY DEF BsInv, BsType, HeadsOK
  <2>2. \A h \in heads : h.gen <= gen + 1 /\ h.gen # gen + 1
    BY <2>1
  <2> QED
    BY <1>1, <2>2, EmptyDbType DEF BsInv, HeadsOK, HeadsNameLineage
<1>7. ContentBytesExact'
  BY <1>1, EmptyDbType DEF ContentBytesExact
<1> QED
  BY <1>4, <1>5, <1>6, <1>7 DEF BsInv

-----------------------------------------------------------------------------
(* The invariant                                                           *)

(* A database of an earlier day is counted exactly. *)
LEMMA LegacyDbType ==
    ASSUME NEW S \in SUBSET Ids, NEW d, d = LegacyDb(S)
    PROVE  /\ d \in Databases /\ Present(d) = S /\ RefsExact(d) /\ Unnumbered(d)
           /\ d.version = 1 /\ d.epoch = 0 /\ d.cbytes = Absent /\ d.mbytes = Absent
           /\ d.receipt = [i \in Ids |-> NoReceipt]
<1> DEFINE order == [i \in Ids |-> IF i \in S THEN 1 ELSE 0]
           refs == [h \in Hashes |-> Cardinality(Having(S, h))]
<1>1. \A h \in Hashes : Cardinality(Having(S, h)) \in Nat
  BY SubsetFinite DEF Having
<1>2. order \in [Ids -> Nat] /\ refs \in [Hashes -> Nat]
  BY <1>1
<1>3. d = [EmptyDb EXCEPT !.version = 1, !.order = order, !.refs = refs]
  BY DEF LegacyDb, Having
<1>4. \A i \in Ids : order[i] > 0 <=> i \in S
  OBVIOUS
<1>5. \A h \in Hashes : refs[h] = Cardinality(Having(S, h))
  OBVIOUS
<1> HIDE DEF order, refs
<1>6. /\ d \in Databases /\ d.order = order /\ d.refs = refs /\ d.version = 1 /\ d.epoch = 0
      /\ d.cbytes = Absent /\ d.mbytes = Absent /\ d.counter = 0
      /\ d.receipt = [i \in Ids |-> NoReceipt]
  <2>1. /\ EmptyDb.epoch = 0 /\ EmptyDb.cbytes = Absent /\ EmptyDb.mbytes = Absent
        /\ EmptyDb.counter = 0 /\ EmptyDb.receipt = [i \in Ids |-> NoReceipt]
    BY DEF EmptyDb
  <2>2. EmptyDb \in Databases /\ 1 \in 0 .. 2
    BY EmptyDbType
  <2> QED
    BY <1>2, <1>3, <2>1, <2>2 DEF Databases
<1>7. Present(d) = S
  BY <1>4, <1>6 DEF Present
<1> QED
  BY <1>5, <1>6, <1>7 DEF RefsExact, Having, Unnumbered

(* So is a database that has been in use, and its total is known. *)
LEMMA UsedDbType ==
    ASSUME NEW S \in SUBSET Ids, NEW d, d = UsedDb(S)
    PROVE  /\ d \in Databases /\ Present(d) = S /\ RefsExact(d) /\ Unnumbered(d)
           /\ d.version = 2 /\ d.epoch = 1 /\ d.cbytes = ContentBytes(d) /\ d.cbytes \in Nat
           /\ d.order = [i \in Ids |-> IF i \in S THEN LegacyOrder(S, i) ELSE 0]
           /\ d.receipt = [i \in Ids |-> NoReceipt] /\ d.counter = Cardinality(S)
<1> DEFINE l == LegacyDb(S)
           order == [i \in Ids |-> IF i \in S THEN LegacyOrder(S, i) ELSE 0]
           b == [l EXCEPT !.version = 2, !.epoch = 1, !.bloom = BloomOf(S),
                          !.counter = Cardinality(S), !.order = order]
<1>1. l \in Databases /\ Present(l) = S /\ RefsExact(l) /\ l.receipt = [i \in Ids |-> NoReceipt]
  BY LegacyDbType
<1>2. \A i \in S : LegacyOrder(S, i) \in Nat \ {0}
  BY LegacyOrderRange, SubsetFinite
<1>3. order \in [Ids -> Nat] /\ \A i \in Ids : order[i] > 0 <=> i \in S
  BY <1>2
<1>4. Cardinality(S) \in Nat /\ BloomOf(S) \in Blooms
  <2>1. NoBloom \in Blooms
    BY DEF NoBloom, Blooms
  <2> QED
    BY <2>1, SubsetFinite, BloomType
<1>5. d = TxBackfill(b)
  BY DEF UsedDb
<1> HIDE DEF l, order
<1>6. /\ b \in Databases /\ b.order = order /\ b.version = 2 /\ b.epoch = 1 /\ b.refs = l.refs
      /\ b.counter = Cardinality(S) /\ b.receipt = l.receipt
  <2>1. 2 \in 0 .. 2 /\ 1 \in Nat
    OBVIOUS
  <2> QED
    BY <1>1, <1>3, <1>4, <2>1 DEF Databases
<1> HIDE DEF b
<1>7. Present(b) = S
  BY <1>3, <1>6 DEF Present
<1>8. RefsExact(b)
  BY <1>1, <1>6, <1>7 DEF RefsExact
<1>9. /\ d \in Databases /\ RefsExact(d) /\ Present(d) = S
      /\ d.version = 2 /\ d.epoch = 1 /\ d.order = order /\ d.receipt = l.receipt
      /\ d.counter = Cardinality(S) /\ d.cbytes = ContentBytes(d) /\ d.cbytes \in Nat
  BY <1>5, <1>6, <1>7, <1>8, TxBackfillKeeps
<1> QED
  BY <1>1, <1>9 DEF Unnumbered, order

(* Initially no tab has the store open. *)
LEMMA BsInitOK == BsInit => BsInv
<1> SUFFICES ASSUME BsInit PROVE BsInv
  OBVIOUS
<1>1. /\ db \in Databases /\ RefsExact(db) /\ Unnumbered(db)
      /\ db.cbytes = Absent \/ db.cbytes = ContentBytes(db)
      /\ \/ db.epoch = 0 /\ heads = {}
         \/ db.epoch = 1 /\ heads = {[epoch |-> 1, gen |-> 1]}
  <2>1. CASE db = EmptyDb /\ heads = {}
    BY <2>1, EmptyDbType
  <2>2. CASE \E S \in Batches : db = LegacyDb(S) /\ heads = {}
    BY <2>2, LegacyDbType, BsAssumption
  <2>3. CASE \E S \in Batches : db = UsedDb(S) /\ heads = {[epoch |-> 1, gen |-> 1]}
    BY <2>3, UsedDbType, BsAssumption
  <2> QED
    BY <2>1, <2>2, <2>3 DEF BsInit
<1>2. /\ gen = 1 /\ conn = [t \in Tabs |-> "none"] /\ call = [c \in Callers |-> NoCall]
      /\ acked = {} /\ cut = FALSE
  BY DEF BsInit
<1>3. BsType
  <2>1. NoCall \in CallRecords
    BY DEF NoCall, CallRecords, Places
  <2>2. cut \in BOOLEAN
    BY <1>2, Zenon
  <2>3. gen \in Nat \ {0} /\ conn \in [Tabs -> {"none", "opening", "checked", "backfill", "open"}]
    BY <1>2
  <2>4. call \in [Callers -> CallRecords] /\ acked \subseteq Ids
    BY <1>2, <2>1
  <2> QED
    BY <1>1, <2>2, <2>3, <2>4 DEF BsType
<1>4. ConnOK /\ ReportsOK
  BY <1>2, BsAssumption DEF ConnOK, ReportsOK, HasDb, NoCall
<1>5. HeadsOK
  <2>1. CASE db.epoch = 0 /\ heads = {}
    <3>1. {h.epoch : h \in heads} = 1 .. 0
      BY <2>1
    <3> QED
      BY <2>1, <3>1 DEF HeadsOK, HeadsNameLineage
  <2>2. CASE db.epoch = 1 /\ heads = {[epoch |-> 1, gen |-> 1]}
    <3>1. {h.epoch : h \in heads} = 1 .. 1
      BY <2>2
    <3> QED
      BY <1>2, <2>2, <3>1 DEF HeadsOK, HeadsNameLineage
  <2> QED
    BY <1>1, <2>1, <2>2
<1>6. ContentBytesExact
  BY <1>1 DEF ContentBytesExact
<1> QED
  BY <1>1, <1>3, <1>4, <1>5, <1>6 DEF BsInv

(* The steps of a call that only move it on. *)
LEMMA CallStepKeeps ==
    ASSUME BsInv, NEW c \in Callers,
           \/ GotConnection(c) \/ Reopened(c) \/ ReadBloom(c) \/ ReadIds(c)
           \/ Return(c) \/ GiveUp(c)
           \/ \E op \in Ops : \E arg \in ArgsOf(op) : Start(c, op, arg)
    PROVE  BsInv'
<1>1. /\ call \in [Callers -> CallRecords] /\ TabOf[c] \in Tabs
      /\ acked \subseteq Present(db) /\ \A b \in Callers : call[b].done \subseteq Present(db)
      /\ \A b \in Callers : call[b].handle = "live" => HasDb(TabOf[b])
  BY BsAssumption DEF BsInv, BsType, ConnOK, ReportsOK
<1>2. NoCall \in CallRecords /\ NoCall.done = {} /\ NoCall.handle = "none"
  BY DEF NoCall, CallRecords, Places
<1>3. UNCHANGED <<db, gen, conn, heads, cut>>
  BY DEF GotConnection, Reopened, ReadBloom, ReadIds, Return, GiveUp, Start
<1>4. acked' \subseteq Present(db)
  BY <1>1 DEF GotConnection, Reopened, ReadBloom, ReadIds, Return, GiveUp, Start
<1>5. \E r \in CallRecords : /\ call' = [call EXCEPT ![c] = r]
                             /\ r.done = {} \/ r.done = call[c].done
                             /\ r.handle = "live" => HasDb(TabOf[c])
  <2>1. CASE GotConnection(c) \/ Reopened(c)
    <3>1. HasDb(TabOf[c])
      BY <2>1 DEF GotConnection, Reopened, HasDb
    <3> DEFINE r == [call[c] EXCEPT !.pc = "run", !.handle = "live"]
    <3>2. call' = [call EXCEPT ![c] = r]
      BY <2>1 DEF GotConnection, Reopened
    <3>3. r \in CallRecords /\ r.done = call[c].done
      BY <1>1 DEF CallRecords, Places
    <3> QED
      BY <3>1, <3>2, <3>3
  <2>2. CASE ReadBloom(c)
    <3> DEFINE r == [call[c] EXCEPT !.pc = "ids"]
               q == [call[c] EXCEPT !.pc = "committed", !.done = {}]
    <3>1. call' = [call EXCEPT ![c] = r] \/ call' = [call EXCEPT ![c] = q]
      BY <2>2 DEF ReadBloom, Committed
    <3>2. /\ r \in CallRecords /\ r.done = call[c].done /\ r.handle = call[c].handle
          /\ q \in CallRecords /\ q.done = {} /\ q.handle = call[c].handle
      BY <1>1 DEF CallRecords, Places
    <3> QED
      BY <1>1, <3>1, <3>2
  <2>3. CASE ReadIds(c)
    <3> DEFINE r == [call[c] EXCEPT !.pc = "write", !.arg = Present(db)]
    <3>1. call' = [call EXCEPT ![c] = r]
      BY <2>3 DEF ReadIds
    <3>2. r \in CallRecords /\ r.done = call[c].done /\ r.handle = call[c].handle
      BY <1>1 DEF CallRecords, Places, Present
    <3> QED
      BY <1>1, <3>1, <3>2
  <2>4. CASE Return(c) \/ GiveUp(c)
    BY <1>2, <2>4 DEF Return, GiveUp
  <2>5. ASSUME NEW op \in Ops, NEW arg \in ArgsOf(op), Start(c, op, arg)
        PROVE  \E r \in CallRecords : /\ call' = [call EXCEPT ![c] = r]
                                      /\ r.done = {} \/ r.done = call[c].done
                                      /\ r.handle = "live" => HasDb(TabOf[c])
    <3> DEFINE r == [NoCall EXCEPT !.op = op, !.arg = arg,
                                   !.pc = IF HasDb(TabOf[c]) THEN "run" ELSE "open",
                                   !.handle = IF HasDb(TabOf[c]) THEN "live" ELSE "none"]
    <3>1. arg \in SUBSET Ids
      BY BsAssumption DEF ArgsOf, Ops
    <3>2. r \in CallRecords /\ r.done = {} /\ (r.handle = "live" => HasDb(TabOf[c]))
      BY <3>1 DEF NoCall, CallRecords, Places
    <3>3. call' = [call EXCEPT ![c] = r]
      BY <2>5 DEF Start
    <3> QED
      BY <3>2, <3>3
  <2> QED
    BY <2>1, <2>2, <2>3, <2>4, <2>5
<1>6. /\ call' \in [Callers -> CallRecords]
      /\ \A b \in Callers : /\ call'[b].done \subseteq Present(db)
                            /\ call'[b].handle = "live" => HasDb(TabOf[b])
  BY <1>1, <1>5
<1> QED
  BY <1>3, <1>4, <1>6, CallKeeps

(* The steps that cut a tab off: a lost connection, versionchange, the retry  *)
(* of a call, and clearAllLocalData.                                          *)
LEMMA CutOffKeeps ==
    ASSUME BsInv,
           \/ \E t \in Tabs : ConnectionLost(t) \/ VersionChange(t)
           \/ \E c \in Callers : Retry(c) \/ Clear(c)
    PROVE  BsInv'
<1>1. BsType /\ \A c \in Callers : call[c].done \subseteq Present(db) /\ TabOf[c] \in Tabs
  BY BsAssumption DEF BsInv, ReportsOK
<1>2. ASSUME NEW t \in Tabs, ConnectionLost(t) \/ VersionChange(t)
      PROVE  BsInv'
  <2>1. PICK how \in {"closed", "lost"}, end \in Endings(t) :
          call' = Unsettled(Dropped(t, how), t, end)
    BY <1>2 DEF ConnectionLost, VersionChange
  <2>2. CallsCutOff(t)
    BY <1>1, <2>1, DropKeeps DEF CallsCutOff
  <2> QED
    BY <1>2, <2>2, ResetKeeps DEF ConnectionLost, VersionChange
<1>3. ASSUME NEW c \in Callers, Retry(c) \/ Clear(c)
      PROVE  BsInv'
  <2> DEFINE t == TabOf[c]
  <2>1. t \in Tabs /\ Reset(t) /\ UNCHANGED <<db, gen, acked, heads>>
    BY <1>1, <1>3 DEF Retry, Clear
  <2>2. PICK end \in Endings(t) :
          LET cs == Unsettled(Dropped(t, "closed"), t, end)
          IN  \/ call' = [cs EXCEPT ![c].pc = "reopen", ![c].handle = "none",
                                    ![c].tries = @ + 1, ![c].done = {}]
              \/ call' = [cs EXCEPT ![c] = [NoCall EXCEPT !.op = "clear", !.pc = "clearing"]]
    BY <1>3 DEF Retry, Clear
  <2> DEFINE cs == Unsettled(Dropped(t, "closed"), t, end)
             q == [NoCall EXCEPT !.op = "clear", !.pc = "clearing"]
  <2>3. /\ cs \in [Callers -> CallRecords]
        /\ \A b \in Callers :
             /\ cs[b].done = call[b].done
             /\ cs[b].handle = "live" => call[b].handle = "live" /\ TabOf[b] # t
    BY <1>1, <2>1, DropKeeps
  <2>4. \/ call' = [cs EXCEPT ![c].pc = "reopen", ![c].handle = "none",
                              ![c].tries = @ + 1, ![c].done = {}]
        \/ call' = [cs EXCEPT ![c] = q]
    BY <2>2
  <2> HIDE DEF cs
  <2>5. q \in CallRecords /\ q.done = {} /\ q.handle = "none"
    BY DEF NoCall, CallRecords, Places
  <2>6. /\ call' \in [Callers -> CallRecords] /\ call'[c].done = {} /\ call'[c].handle = "none"
        /\ \A b \in Callers : b # c => call'[b] = cs[b]
    <3>1. CASE call' = [cs EXCEPT ![c] = q]
      <4> HIDE DEF q
      <4> QED
        BY <2>3, <2>5, <3>1
    <3>2. CASE call' = [cs EXCEPT ![c].pc = "reopen", ![c].handle = "none",
                                  ![c].tries = @ + 1, ![c].done = {}]
      <4>1. cs[c] \in CallRecords /\ "reopen" \in Places /\ {} \in SUBSET Ids
        BY <2>3 DEF Places
      <4>2. cs[c].tries + 1 \in Nat
        BY <4>1 DEF CallRecords
      <4> QED
        BY <2>3, <3>2, <4>1, <4>2 DEF CallRecords
    <3> QED
      BY <2>4, <3>1, <3>2
  <2> HIDE DEF q, t
  <2>7. CallsCutOff(t)
    BY <1>1, <2>3, <2>6 DEF CallsCutOff
  <2> QED
    BY <2>1, <2>7, ResetKeeps
<1> QED
  BY <1>2, <1>3

(* Every step keeps the invariant. *)
LEMMA BsStep == BsInv /\ [BsNext]_bsVars => BsInv'
<1> SUFFICES ASSUME BsInv, [BsNext]_bsVars PROVE BsInv'
  OBVIOUS
<1>1. CASE Connections
  <2>1. ASSUME NEW t \in Tabs, BeginOpen(t) \/ OpenFails(t) PROVE BsInv'
    BY <2>1, OpeningKeeps
  <2>2. ASSUME NEW t \in Tabs, Opened(t) PROVE BsInv'
    BY <2>2, OpenedKeeps
  <2>3. ASSUME NEW t \in Tabs, Backfilled(t) PROVE BsInv'
    BY <2>3, BackfilledKeeps
  <2>4. ASSUME NEW t \in Tabs, ConnectionLost(t) \/ VersionChange(t) PROVE BsInv'
    BY <2>4, CutOffKeeps
  <2>5. ASSUME NEW c \in Callers, GotConnection(c) \/ Reopened(c) PROVE BsInv'
    BY <2>5, CallStepKeeps
  <2> QED
    BY <1>1, <2>1, <2>2, <2>3, <2>4, <2>5 DEF Connections
<1>2. CASE Calls
  <2>1. ASSUME NEW c \in Callers, NEW op \in Ops, NEW arg \in ArgsOf(op), Start(c, op, arg)
        PROVE  BsInv'
    BY <2>1, CallStepKeeps
  <2>2. ASSUME NEW c \in Callers, ReadBloom(c) \/ ReadIds(c) \/ Return(c) \/ GiveUp(c)
        PROVE  BsInv'
    BY <2>2, CallStepKeeps
  <2>3. ASSUME NEW c \in Callers, NEW op \in {"put", "pull"}, Put(c, op) PROVE BsInv'
    BY <2>3, PutKeeps
  <2>4. ASSUME NEW c \in Callers, Receive(c) PROVE BsInv'
    BY <2>4, ReceiveKeeps
  <2>5. ASSUME NEW c \in Callers, RemoveEntries(c) PROVE BsInv'
    BY <2>5, RemoveKeeps
  <2>6. ASSUME NEW c \in Callers, ReadHead(c) PROVE BsInv'
    BY <2>6, ReadHeadKeeps
  <2>7. ASSUME NEW c \in Callers, WriteBloom(c) PROVE BsInv'
    BY <2>7, WriteBloomKeeps
  <2>8. ASSUME NEW c \in Callers, Clear(c) \/ Retry(c) PROVE BsInv'
    BY <2>8, CutOffKeeps
  <2>9. ASSUME NEW c \in Callers, Delete(c) PROVE BsInv'
    BY <2>9, DeleteKeeps
  <2> QED
    BY <1>2, <2>1, <2>2, <2>3, <2>4, <2>5, <2>6, <2>7, <2>8, <2>9 DEF Calls
<1>3. CASE UNCHANGED bsVars
  <2>1. UNCHANGED <<db, gen, conn, call, acked, heads, cut>>
    BY <1>3 DEF bsVars
  <2> QED
    BY <2>1, CallKeeps DEF BsInv, BsType, ConnOK, ReportsOK
<1> QED
  BY <1>1, <1>2, <1>3 DEF BsNext

(* The inductive invariant of the browser store. *)
THEOREM BrowserInvariant == BsSpec => []BsInv
BY BsInitOK, BsStep, PTL DEF BsSpec

(* What the store has reported lasts: an entry whose putEntries returned is   *)
(* there until it is removed, and two heads have the same epoch exactly when  *)
(* they are of the same database, whatever connections are lost and calls     *)
(* repeated.                                                                  *)
THEOREM ReportsLast == BsSpec => []ReportsHold
<1>1. BsInv => ReportsHold
  BY DEF BsInv, ReportsOK, HeadsOK, ReportsHold, AckedIsStored
<1> QED
  BY <1>1, BrowserInvariant, PTL

(* The reference counts are those of the entries, and the byte total is that  *)
(* of the contents, except around a backfill.                                 *)
THEOREM ContentIsAccounted == BsSpec => []ContentAccounted
<1>1. BsInv => ContentAccounted
  BY DEF BsInv, RefsExact, ContentAccounted, RefCountsExact
<1> QED
  BY <1>1, BrowserInvariant, PTL

-----------------------------------------------------------------------------
(***************************************************************************)
(* The refinement: each step of BrowserStore is a step of AbstractStore    *)
(* under the mapping View, or leaves View alone.                           *)
(***************************************************************************)

\* The mapping, as a function of the database and its generation
OrderOf(d) ==
    IF d.version = 1
    THEN [i \in Ids |-> IF i \in Present(d) THEN LegacyOrder(Present(d), i) ELSE 0]
    ELSE d.order
NextOf(d) == 1 + IF d.version = 1 THEN Cardinality(Present(d)) ELSE d.counter
ViewOf(d, g) == [order |-> OrderOf(d), receipt |-> d.receipt, next |-> NextOf(d), epoch |-> g]

(* The abstract store counts as this one does. *)
LEMMA SameCardinality == \A S : Abstract!Cardinality(S) = Cardinality(S)
BY DEF Cardinality, Abstract!Cardinality, IsFiniteSet, Abstract!IsFiniteSet

(* A numbering is the same in both. *)
LEMMA SameRanking == \A S : Abstract!Ranking(S) = Ranking(S)
BY SameCardinality
   DEF Ranking, Abstract!Ranking, Bijection, Abstract!Bijection, Injection, Abstract!Injection,
       Surjection, Abstract!Surjection, IsInjective, Abstract!IsInjective

(* View is ViewOf, before a step and after it. *)
LEMMA ViewIs == View = ViewOf(db, gen) /\ View' = ViewOf(db', gen')
BY DEF View, ViewOf, OrderOf, NextOf, Present, LegacyOrder

(* An upgraded database is seen as it is. *)
LEMMA ViewUpgraded ==
    ASSUME NEW d, d.version = 2, NEW g
    PROVE  ViewOf(d, g) = [order |-> d.order, receipt |-> d.receipt, next |-> 1 + d.counter, epoch |-> g]
BY DEF ViewOf, OrderOf, NextOf

-----------------------------------------------------------------------------
(* Initial states *)

(* The order by creation date numbers the entries from 1 to n. *)
LEMMA LegacyOrderRanks ==
    ASSUME NEW S \in SUBSET Ids
    PROVE  [i \in S |-> LegacyOrder(S, i)] \in Ranking(S)
<1> DEFINE T(i) == {j \in S : \/ CreatedAt[j] < CreatedAt[i]
                              \/ CreatedAt[j] = CreatedAt[i] /\ j <= i}
           n == Cardinality(S)
           f == [i \in S |-> LegacyOrder(S, i)]
<1>1. n \in Nat /\ IsFiniteSet(1 .. n) /\ Cardinality(1 .. n) = n
  BY SubsetFinite, FS_Interval
<1>2. f \in [S -> 1 .. n]
  BY LegacyOrderRange
<1>3. \A i \in S : CreatedAt[i] \in Nat /\ i \in Nat
  BY BsAssumption, IdsAssumption
<1>4. ASSUME NEW i \in S, NEW j \in S, f[i] = f[j],
             CreatedAt[i] < CreatedAt[j] \/ (CreatedAt[i] = CreatedAt[j] /\ i < j)
      PROVE  FALSE
  <2>1. IsFiniteSet(T(j)) /\ T(i) \in SUBSET T(j)
    <3>1. \A k \in T(i) : k \in T(j)
      BY <1>3, <1>4
    <3> QED
      BY <3>1, SubsetFinite
  <2>2. j \in T(j) /\ j \notin T(i)
    BY <1>3, <1>4
  <2>3. Cardinality(T(i)) = Cardinality(T(j))
    BY <1>4 DEF LegacyOrder
  <2>4. T(i) = T(j)
    BY <2>1, <2>3, FS_Subset
  <2> QED
    BY <2>2, <2>4
<1>5. \A i, j \in S : f[i] = f[j] => i = j
  BY <1>3, <1>4
<1>6. f \in Injection(S, 1 .. n)
  BY <1>2, <1>5 DEF Injection, IsInjective
<1> HIDE DEF f
<1>7. f \in Surjection(S, 1 .. n)
  BY <1>1, <1>6, FS_Injection
<1> QED
  BY <1>6, <1>7 DEF Ranking, Bijection, f

(* A store opened for the first time, or after an upgrade, is one that        *)
(* entries of earlier days were put into.                                     *)
LEMMA BsInitMaps == BsInit => Abstract!AbsInit
<1> DEFINE rankOf(S) == [i \in S |-> LegacyOrder(S, i)]
           put(S) == [order |-> [i \in Ids |-> IF i \in S THEN LegacyOrder(S, i) ELSE 0],
                      receipt |-> [i \in Ids |-> NoReceipt],
                      next |-> 1 + Cardinality(S), epoch |-> 1]
<1>1. ASSUME NEW S \in SUBSET Ids, View = put(S)
      PROVE  Abstract!AbsInit
  <2>1. rankOf(S) \in Abstract!Ranking(S)
    BY LegacyOrderRanks, SameRanking
  <2>2. Abstract!NewIn(Abstract!EmptyStore(1), S) = S
    BY DEF Abstract!NewIn, Abstract!EmptyStore, Abstract!Stored
  <2>3. \A i \in S : LegacyOrder(S, i) \in Nat
    BY LegacyOrderRange, SubsetFinite
  <2>4. Abstract!PutEntries(Abstract!EmptyStore(1), S, [i \in Ids |-> NoReceipt], rankOf(S)) = put(S)
    <3>1. [i \in Ids |-> IF i \in S THEN 1 + rankOf(S)[i] - 1 ELSE 0]
            = [i \in Ids |-> IF i \in S THEN LegacyOrder(S, i) ELSE 0]
      BY <2>3
    <3>2. [i \in Ids |-> IF i \in S THEN [j \in Ids |-> NoReceipt][i] ELSE NoReceipt]
            = [i \in Ids |-> NoReceipt]
      OBVIOUS
    <3> QED
      BY <2>2, <3>1, <3>2, SameCardinality DEF Abstract!PutEntries, Abstract!EmptyStore
  <2> HIDE DEF rankOf, put
  <2> QED
    BY <1>1, <2>1, <2>4 DEF Abstract!AbsInit
<1>2. ASSUME BsInit, db = EmptyDb PROVE View = put({})
  BY <1>2, FS_EmptySet DEF View, EmptyDb, BsInit
<1>3. ASSUME BsInit, NEW S \in Batches, db = LegacyDb(S) PROVE View = put(S)
  <2>1. S \in SUBSET Ids
    BY BsAssumption
  <2>2. /\ Present(db) = S /\ db.version = 1 /\ db.receipt = [i \in Ids |-> NoReceipt]
        /\ gen = 1
    BY <1>3, <2>1, LegacyDbType DEF BsInit
  <2> QED
    BY <2>2 DEF View
<1>4. ASSUME BsInit, NEW S \in Batches, db = UsedDb(S) PROVE View = put(S)
  <2>1. S \in SUBSET Ids
    BY BsAssumption
  <2>2. /\ db.order = [i \in Ids |-> IF i \in S THEN LegacyOrder(S, i) ELSE 0]
        /\ db.version = 2 /\ db.receipt = [i \in Ids |-> NoReceipt]
        /\ db.counter = Cardinality(S) /\ gen = 1
    BY <1>4, <2>1, UsedDbType DEF BsInit
  <2> QED
    BY <2>2 DEF View
<1> HIDE DEF put
<1>5. Batches \subseteq SUBSET Ids /\ {} \in SUBSET Ids
  BY BsAssumption
<1> SUFFICES ASSUME BsInit PROVE Abstract!AbsInit
  OBVIOUS
<1> QED
  BY <1>1, <1>2, <1>3, <1>4, <1>5 DEF BsInit

-----------------------------------------------------------------------------
(* Steps *)

(* The transaction of putEntries is one AbsPut, or nothing. *)
LEMMA PutMaps ==
    ASSUME BsInv, NEW c \in Callers, NEW op \in {"put", "pull"}, Put(c, op)
    PROVE  Abstract!AbsPut \/ UNCHANGED View
<1> DEFINE S == call[c].arg
           receipts == [i \in Ids |-> IF op = "pull" THEN Received ELSE NoReceipt]
           new == Fresh(db, S)
<1>1. /\ db \in Databases /\ db.version = 2 /\ S \in SUBSET Ids /\ UNCHANGED gen
      /\ gen \in Nat
  BY BsAssumption DEF Put, Running, BsInv, BsType, ConnOK, CallRecords
<1>2. PICK rank \in Ranking(new) : db' = TxPut(db, S, receipts, rank)
  BY DEF Put, Fresh
<1>3. CASE new = {}
  <2>1. db' = db
    BY <1>2, <1>3 DEF TxPut, Fresh
  <2> QED
    BY <1>1, <2>1, ViewIs
<1>4. CASE new # {}
  <2> DEFINE order == [i \in Ids |-> IF i \in new THEN db.counter + rank[i] ELSE db.order[i]]
             receipt == [i \in Ids |-> IF i \in new THEN receipts[i] ELSE db.receipt[i]]
  <2>1. /\ db'.order = order /\ db'.receipt = receipt /\ db'.version = 2
        /\ db'.counter = db.counter + Cardinality(new)
    BY <1>1, <1>2, <1>4 DEF TxPut, Fresh, Databases
  <2>2. /\ View = [order |-> db.order, receipt |-> db.receipt, next |-> 1 + db.counter, epoch |-> gen]
        /\ View' = [order |-> order, receipt |-> receipt,
                    next |-> 1 + (db.counter + Cardinality(new)), epoch |-> gen]
    BY <1>1, <2>1, ViewIs, ViewUpgraded
  <2>3. Abstract!Stored(View) = Present(db)
    BY <2>2 DEF Abstract!Stored, Present
  <2>4. new \in SUBSET (Ids \ Abstract!Stored(View)) /\ Abstract!NewIn(View, new) = new
    BY <1>1, <2>3 DEF Fresh, Abstract!NewIn
  <2>5. rank \in Abstract!Ranking(new) /\ \A i \in new : rank[i] \in Nat
    <3>1. new \in SUBSET Ids
      BY <1>1 DEF Fresh
    <3>2. \A i \in new : rank[i] \in 1 .. Cardinality(new)
      BY <1>2, <3>1, RankingRange
    <3> QED
      BY <1>2, <3>1, <3>2, SubsetFinite, SameRanking
  <2> DEFINE r == [i \in new |-> receipts[i]]
  <2>6. r \in [new -> Abstract!Receipts]
    BY BsAssumption, <1>1 DEF Abstract!Receipts, Receipts, Fresh
  <2>7. View' = Abstract!PutEntries(View, new, r, rank)
    <3>1. order = [i \in Ids |-> IF i \in new THEN 1 + db.counter + rank[i] - 1 ELSE db.order[i]]
      BY <1>1, <2>5 DEF Databases
    <3>2. receipt = [i \in Ids |-> IF i \in new THEN r[i] ELSE db.receipt[i]]
      OBVIOUS
    <3>3. 1 + (db.counter + Cardinality(new)) = 1 + db.counter + Cardinality(new)
      <4>1. Cardinality(new) \in Nat
        BY <1>1, SubsetFinite DEF Fresh
      <4> QED
        BY <1>1, <4>1 DEF Databases
    <3> HIDE DEF order, receipt, r, new
    <3> QED
      BY <2>2, <2>4, <3>1, <3>2, <3>3, SameCardinality DEF Abstract!PutEntries
  <2> HIDE DEF new, r
  <2> QED
    BY <2>4, <2>5, <2>6, <2>7 DEF Abstract!AbsPut
<1> QED
  BY <1>3, <1>4

(* The transaction of applyWitnessReceipts is one AbsReceipts. *)
LEMMA ReceiveMaps ==
    ASSUME BsInv, NEW c \in Callers, Receive(c)
    PROVE  Abstract!AbsReceipts
<1> DEFINE receipts == [i \in Ids |-> IF i \in call[c].arg THEN Received ELSE NoReceipt]
           moved == Moved(db, receipts)
<1>1. /\ db \in Databases /\ db.version = 2 /\ UNCHANGED gen /\ gen \in Nat
      /\ moved \in SUBSET Ids
  BY BsAssumption DEF Receive, Running, BsInv, BsType, ConnOK, Moved, Present
<1>2. PICK rank \in Ranking(moved) : db' = TxReceipts(db, receipts, rank)
  BY DEF Receive
<1> DEFINE order == [i \in Ids |-> IF i \in moved THEN db.counter + rank[i] ELSE db.order[i]]
           receipt == [i \in Ids |-> IF i \in moved THEN receipts[i] ELSE db.receipt[i]]
<1>3. /\ db'.order = order /\ db'.receipt = receipt /\ db'.version = 2
      /\ db'.counter = db.counter + Cardinality(moved)
  BY <1>1, <1>2 DEF TxReceipts, Databases
<1>4. /\ View = [order |-> db.order, receipt |-> db.receipt, next |-> 1 + db.counter, epoch |-> gen]
      /\ View' = [order |-> order, receipt |-> receipt,
                  next |-> 1 + (db.counter + Cardinality(moved)), epoch |-> gen]
  BY <1>1, <1>3, ViewIs, ViewUpgraded
<1>5. Abstract!Stored(View) = Present(db)
  BY <1>4 DEF Abstract!Stored, Present
<1> DEFINE r == [i \in Present(db) |-> receipts[i]]
<1>6. r \in [Abstract!Stored(View) -> Abstract!Receipts]
  BY <1>5, BsAssumption DEF Abstract!Receipts, Receipts, Present
<1>7. Abstract!ReanchoredBy(View, r) = moved
  BY <1>4, <1>5 DEF Abstract!ReanchoredBy, Moved, Present
<1>8. rank \in Abstract!Ranking(moved) /\ \A i \in moved : rank[i] \in Nat
  <2>1. \A i \in moved : rank[i] \in 1 .. Cardinality(moved)
    BY <1>1, <1>2, RankingRange
  <2> QED
    BY <1>1, <1>2, <2>1, SubsetFinite, SameRanking
<1>9. View' = Abstract!ApplyWitnessReceipts(View, r, rank)
  <2>1. order = [i \in Ids |-> IF i \in moved THEN 1 + db.counter + rank[i] - 1 ELSE db.order[i]]
    BY <1>1, <1>8 DEF Databases
  <2>2. receipt = [i \in Ids |-> IF i \in moved THEN r[i] ELSE db.receipt[i]]
    BY DEF Moved
  <2>3. 1 + (db.counter + Cardinality(moved)) = 1 + db.counter + Cardinality(moved)
    <3>1. Cardinality(moved) \in Nat
      BY <1>1, SubsetFinite
    <3> QED
      BY <1>1, <3>1 DEF Databases
  <2> HIDE DEF order, receipt, r, moved
  <2> QED
    BY <1>4, <1>7, <2>1, <2>2, <2>3, SameCardinality DEF Abstract!ApplyWitnessReceipts
<1> HIDE DEF moved, r
<1> QED
  BY <1>6, <1>7, <1>8, <1>9 DEF Abstract!AbsReceipts

(* The transaction of a removal is one AbsRemove. *)
LEMMA RemoveMaps ==
    ASSUME BsInv, NEW c \in Callers, RemoveEntries(c)
    PROVE  Abstract!AbsRemove
<1> DEFINE S == call[c].arg
           gone == S \cap Present(db)
           order == [i \in Ids |-> IF i \in gone THEN 0 ELSE db.order[i]]
           receipt == [i \in Ids |-> IF i \in gone THEN NoReceipt ELSE db.receipt[i]]
<1>1. /\ db \in Databases /\ db.version = 2 /\ UNCHANGED gen /\ db' = TxRemove(db, S)
  BY BsAssumption DEF RemoveEntries, Running, BsInv, BsType, ConnOK
<1>2. /\ db'.order = order /\ db'.receipt = receipt /\ db'.version = 2
      /\ db'.counter = db.counter
  <2>1. CASE gone = {}
    BY <1>1, <2>1 DEF TxRemove, Databases
  <2>2. CASE gone # {}
    BY <1>1, <2>2 DEF TxRemove, Databases
  <2> QED
    BY <2>1, <2>2
<1>3. /\ View = [order |-> db.order, receipt |-> db.receipt, next |-> 1 + db.counter, epoch |-> gen]
      /\ View' = [order |-> order, receipt |-> receipt, next |-> 1 + db.counter, epoch |-> gen]
  BY <1>1, <1>2, ViewIs, ViewUpgraded
<1>4. gone \in SUBSET Abstract!Stored(View)
  BY <1>3 DEF Abstract!Stored, Present
<1>5. View' = Abstract!RemoveEntries(View, gone)
  <2>1. /\ View.order = db.order /\ View.receipt = db.receipt
        /\ View.next = 1 + db.counter /\ View.epoch = gen
    <3> HIDE DEF order, receipt, gone
    <3> QED
      BY <1>3
  <2>2. /\ order = [i \in Ids |-> IF i \in gone THEN 0 ELSE View.order[i]]
        /\ receipt = [i \in Ids |-> IF i \in gone THEN NoReceipt ELSE View.receipt[i]]
    <3> HIDE DEF gone
    <3> QED
      BY <2>1
  <2>3. View' = [order |-> order, receipt |-> receipt, next |-> View.next, epoch |-> View.epoch]
    BY <1>3, <2>1
  <2> HIDE DEF order, receipt, gone
  <2> QED
    BY <2>2, <2>3 DEF Abstract!RemoveEntries
<1> HIDE DEF gone
<1> QED
  BY <1>4, <1>5 DEF Abstract!AbsRemove

(* deleteDatabase is AbsClear. *)
LEMMA DeleteMaps ==
    ASSUME BsInv, NEW c \in Callers, Delete(c)
    PROVE  Abstract!AbsClear
<1>1. db' = EmptyDb /\ gen' = gen + 1 /\ View.epoch = gen
  BY DEF Delete, View
<1>2. View' = [order |-> [i \in Ids |-> 0], receipt |-> [i \in Ids |-> NoReceipt],
               next |-> 1, epoch |-> gen + 1]
  BY <1>1, ViewIs DEF ViewOf, OrderOf, NextOf, EmptyDb
<1> QED
  BY <1>1, <1>2 DEF Abstract!AbsClear, Abstract!ClearAllLocalData, Abstract!EmptyStore

(* The upgrade numbers the entries as they were seen before. *)
LEMMA OpenedMaps ==
    ASSUME BsInv, NEW t \in Tabs, Opened(t)
    PROVE  UNCHANGED View
<1>1. db \in Databases /\ Unnumbered(db) /\ db' = TxUpgrade(db) /\ gen' = gen
  BY DEF Opened, BsInv, BsType
<1>2. CASE db.version = 2
  BY <1>1, <1>2, ViewIs DEF TxUpgrade
<1>3. CASE db.version = 1
  <2>1. /\ db'.version = 2 /\ db'.receipt = db.receipt
        /\ db'.order = [i \in Ids |-> IF i \in Present(db) THEN LegacyOrder(Present(db), i) ELSE 0]
        /\ db'.counter = Cardinality(Present(db))
    BY <1>1, <1>3 DEF TxUpgrade, Databases
  <2> QED
    BY <1>1, <1>3, <2>1, ViewIs DEF ViewOf, OrderOf, NextOf
<1>4. CASE db.version = 0
  <2>1. Present(db) = {} /\ db.counter = 0
    BY <1>1, <1>4 DEF Unnumbered
  <2>2. db.order = [i \in Ids |-> 0]
    BY <1>1, <2>1 DEF Present, Databases
  <2>3. db'.version = 2 /\ db'.receipt = db.receipt /\ db'.order = [i \in Ids |-> 0]
        /\ db'.counter = 0
    BY <1>1, <1>4, <2>1, FS_EmptySet DEF TxUpgrade, Databases
  <2> QED
    BY <1>1, <1>4, <2>1, <2>2, <2>3, ViewIs DEF ViewOf, OrderOf, NextOf
<1> QED
  BY <1>1, <1>2, <1>3, <1>4 DEF Databases

(* The other steps leave the store as callers see it. *)
LEMMA OthersMap ==
    ASSUME BsInv,
           \/ \E t \in Tabs : BeginOpen(t) \/ Backfilled(t) \/ OpenFails(t)
                              \/ ConnectionLost(t) \/ VersionChange(t)
           \/ \E c \in Callers :
                \/ GotConnection(c) \/ Reopened(c) \/ ReadHead(c) \/ ReadBloom(c) \/ ReadIds(c)
                \/ WriteBloom(c) \/ Clear(c) \/ Return(c) \/ Retry(c) \/ GiveUp(c)
                \/ \E op \in Ops : \E arg \in ArgsOf(op) : Start(c, op, arg)
           \/ UNCHANGED bsVars
    PROVE  UNCHANGED View
<1>1. db \in Databases
  BY DEF BsInv, BsType
<1>2. gen' = gen
  BY DEF BeginOpen, Backfilled, OpenFails, ConnectionLost, VersionChange, GotConnection, Reopened,
         ReadHead, ReadBloom, ReadIds, WriteBloom, Clear, Return, Retry, GiveUp, Start, bsVars
<1>3. \/ db' = db
      \/ db' = TxBackfill(db)
      \/ \E e : db' = KeepEpoch(db, e)
      \/ \E b : db' = [db EXCEPT !.bloom = b]
  BY DEF BeginOpen, Backfilled, OpenFails, ConnectionLost, VersionChange, GotConnection, Reopened,
         ReadHead, ReadBloom, ReadIds, WriteBloom, Clear, Return, Retry, GiveUp, Start, bsVars
<1>4. /\ db'.order = db.order /\ db'.receipt = db.receipt /\ db'.counter = db.counter
      /\ db'.version = db.version
  BY <1>1, <1>3 DEF TxBackfill, KeepEpoch, Databases
<1> QED
  BY <1>2, <1>4, ViewIs DEF ViewOf, OrderOf, NextOf, Present

(* Each step is a step of the abstract store, or none. *)
LEMMA BsStepMaps == BsInv /\ [BsNext]_bsVars => [Abstract!AbsNext]_View
<1> SUFFICES ASSUME BsInv, [BsNext]_bsVars PROVE Abstract!AbsNext \/ UNCHANGED View
  OBVIOUS
<1>1. ASSUME NEW c \in Callers, NEW op \in {"put", "pull"}, Put(c, op)
      PROVE  Abstract!AbsNext \/ UNCHANGED View
  BY <1>1, PutMaps DEF Abstract!AbsNext
<1>2. ASSUME NEW c \in Callers, Receive(c) PROVE Abstract!AbsNext
  BY <1>2, ReceiveMaps DEF Abstract!AbsNext
<1>3. ASSUME NEW c \in Callers, RemoveEntries(c) PROVE Abstract!AbsNext
  BY <1>3, RemoveMaps DEF Abstract!AbsNext
<1>4. ASSUME NEW c \in Callers, Delete(c) PROVE Abstract!AbsNext
  BY <1>4, DeleteMaps DEF Abstract!AbsNext
<1>5. ASSUME NEW t \in Tabs, Opened(t) PROVE UNCHANGED View
  BY <1>5, OpenedMaps
<1>6. CASE UNCHANGED bsVars
  BY <1>6, OthersMap
<1>7. CASE Connections
  BY <1>5, <1>7, OthersMap DEF Connections
<1>8. CASE Calls
  BY <1>1, <1>2, <1>3, <1>4, <1>8, OthersMap DEF Calls
<1> QED
  BY <1>6, <1>7, <1>8 DEF BsNext

(* IndexedDBContentAddressedStore keeps the promises of the store interface:  *)
(* tabs, lost connections, repeated calls and upgrades are invisible.         *)
THEOREM BrowserStoreRefines == BsSpec => ImplementsStore
<1>1. BsInit => Abstract!AbsInit
  BY BsInitMaps
<1>2. BsInv /\ [BsNext]_bsVars => [Abstract!AbsNext]_View
  BY BsStepMaps
<1> QED
  BY <1>1, <1>2, BrowserInvariant, PTL DEF BsSpec, ImplementsStore, Abstract!AbsSpec
=============================================================================
