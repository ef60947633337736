--------------------------- MODULE StoreOpsProofs ---------------------------
(***************************************************************************)
(* What the store operations of StoreOps guarantee, for every store: the   *)
(* writes keep the numbering of arrivals intact (Grows), and a page of the *)
(* scan has every entry up to its nextCursor (ScanIsComplete).             *)
(***************************************************************************)
EXTENDS StoreOps, FiniteSetTheorems, WellFoundedInduction, TLAPS

\* What any write other than a reset does to a store: an entry keeps its
\* receiptOrder, or disappears, or moves behind all that were given before
Grows(s, n) ==
    /\ n.epoch = s.epoch
    /\ n.next >= s.next
    /\ \A i \in Ids : /\ n.order[i] < n.next
                      /\ n.order[i] = s.order[i] \/ n.order[i] = 0 \/ n.order[i] >= s.next

(* Every set of entry ids is finite, and its size is a natural number. *)
LEMMA SubsetFinite ==
    ASSUME NEW S \in SUBSET Ids
    PROVE  IsFiniteSet(S) /\ Cardinality(S) \in Nat
BY FS_Subset, FS_CardinalityType, IdsAssumption

(* The numbers a batch hands out are 1 .. n for n entries. *)
LEMMA RankingRange ==
    ASSUME NEW S \in SUBSET Ids, NEW rank \in Ranking(S), NEW i \in S
    PROVE  rank[i] \in 1 .. Cardinality(S)
BY DEF Ranking, Bijection, Injection

(* putEntries adds exactly the new ids of the batch, behind all others. *)
LEMMA PutEntriesGrows ==
    ASSUME NEW s \in Store, Numbered(s), NEW S \in SUBSET Ids,
           NEW r \in [Ids -> Receipts], NEW rank \in Ranking(NewIn(s, S))
    PROVE  LET n == PutEntries(s, S, r, rank)
           IN  n \in Store /\ Grows(s, n) /\ Stored(n) = Stored(s) \cup S
<1> DEFINE new == NewIn(s, S)
           n == PutEntries(s, S, r, rank)
<1>1. new \in SUBSET Ids /\ new \cap Stored(s) = {} /\ S \subseteq new \cup Stored(s)
  BY DEF NewIn, Stored
<1>2. Cardinality(new) \in Nat
  BY <1>1, SubsetFinite
<1>3. \A i \in new : rank[i] \in 1 .. Cardinality(new)
  BY <1>1, RankingRange
<1>4. s.next \in Nat \ {0} /\ s.order \in [Ids -> Nat] /\ s.receipt \in [Ids -> Receipts]
      /\ s.epoch \in Nat \ {0}
  BY DEF Store
<1> HIDE DEF new
<1>5. /\ n.order = [i \in Ids |-> IF i \in new THEN s.next + rank[i] - 1 ELSE s.order[i]]
      /\ n.receipt = [i \in Ids |-> IF i \in new THEN r[i] ELSE s.receipt[i]]
      /\ n.next = s.next + Cardinality(new)
      /\ n.epoch = s.epoch
      /\ n = [order |-> n.order, receipt |-> n.receipt, next |-> n.next, epoch |-> n.epoch]
  BY DEF PutEntries, new
<1> HIDE DEF n
<1>6. n.order \in [Ids -> Nat] /\ n.receipt \in [Ids -> Receipts] /\ n.next \in Nat \ {0}
  BY <1>1, <1>2, <1>3, <1>4, <1>5
<1>7. n \in Store
  BY <1>4, <1>5, <1>6 DEF Store
<1>8. Grows(s, n)
  BY <1>1, <1>2, <1>3, <1>4, <1>5 DEF Grows, Numbered
<1>9. Stored(n) = Stored(s) \cup S
  BY <1>1, <1>2, <1>3, <1>4, <1>5 DEF Stored, NewIn, new
<1> QED BY <1>7, <1>8, <1>9 DEF n

(* putEntries of entries the store has changes nothing. *)
LEMMA PutStoredEntries ==
    ASSUME NEW s \in Store, NEW S, NewIn(s, S) = {}, NEW r, NEW rank
    PROVE  PutEntries(s, S, r, rank) = s
<1> DEFINE n == PutEntries(s, S, r, rank)
<1>1. /\ s.order \in [Ids -> Nat] /\ s.receipt \in [Ids -> Receipts] /\ s.next \in Nat
      /\ s = [order |-> s.order, receipt |-> s.receipt, next |-> s.next, epoch |-> s.epoch]
  BY DEF Store
<1>2. Cardinality({}) = 0
  BY FS_EmptySet
<1>3. /\ n.order = [i \in Ids |-> IF i \in {} THEN s.next + rank[i] - 1 ELSE s.order[i]]
      /\ n.receipt = [i \in Ids |-> IF i \in {} THEN r[i] ELSE s.receipt[i]]
      /\ n.next = s.next + Cardinality({})
      /\ n = [order |-> n.order, receipt |-> n.receipt, next |-> n.next, epoch |-> s.epoch]
  BY DEF PutEntries
<1> HIDE DEF n
<1>4. n.order = s.order /\ n.receipt = s.receipt /\ n.next = s.next
  BY <1>1, <1>2, <1>3
<1> QED BY <1>1, <1>3, <1>4 DEF n

(* applyWitnessReceipts moves the entries it touches behind all others. *)
LEMMA ApplyWitnessReceiptsGrows ==
    ASSUME NEW s \in Store, Numbered(s), NEW r \in [Ids -> Receipts],
           NEW rank \in Ranking(ReanchoredBy(s, r))
    PROVE  LET n == ApplyWitnessReceipts(s, r, rank)
           IN  n \in Store /\ Grows(s, n) /\ Stored(n) = Stored(s)
<1> DEFINE moved == ReanchoredBy(s, r)
           n == ApplyWitnessReceipts(s, r, rank)
<1>1. moved \in SUBSET Ids /\ moved \subseteq Stored(s)
  BY DEF ReanchoredBy, Stored
<1>2. Cardinality(moved) \in Nat
  BY <1>1, SubsetFinite
<1>3. \A i \in moved : rank[i] \in 1 .. Cardinality(moved)
  BY <1>1, RankingRange
<1>4. s.next \in Nat \ {0} /\ s.order \in [Ids -> Nat] /\ s.receipt \in [Ids -> Receipts]
      /\ s.epoch \in Nat \ {0}
  BY DEF Store
<1> HIDE DEF moved
<1>5. /\ n.order = [i \in Ids |-> IF i \in moved THEN s.next + rank[i] - 1 ELSE s.order[i]]
      /\ n.receipt = [i \in Ids |-> IF i \in moved THEN r[i] ELSE s.receipt[i]]
      /\ n.next = s.next + Cardinality(moved)
      /\ n.epoch = s.epoch
      /\ n = [order |-> n.order, receipt |-> n.receipt, next |-> n.next, epoch |-> n.epoch]
  BY DEF ApplyWitnessReceipts, moved
<1> HIDE DEF n
<1>6. n.order \in [Ids -> Nat] /\ n.receipt \in [Ids -> Receipts] /\ n.next \in Nat \ {0}
  BY <1>1, <1>2, <1>3, <1>4, <1>5
<1>7. n \in Store
  BY <1>4, <1>5, <1>6 DEF Store
<1>8. Grows(s, n)
  BY <1>1, <1>2, <1>3, <1>4, <1>5 DEF Grows, Numbered
<1>9. Stored(n) = Stored(s)
  BY <1>1, <1>2, <1>3, <1>4, <1>5 DEF Stored
<1> QED BY <1>7, <1>8, <1>9 DEF n

(* purgeDocHistory only removes entries; counter and epoch stay. *)
LEMMA PurgeDocHistoryGrows ==
    ASSUME NEW s \in Store, Numbered(s), NEW d
    PROVE  LET n == PurgeDocHistory(s, d)
           IN  n \in Store /\ Grows(s, n) /\ Stored(n) \subseteq Stored(s)
<1> DEFINE n == PurgeDocHistory(s, d)
<1>1. s.next \in Nat \ {0} /\ s.order \in [Ids -> Nat] /\ s.receipt \in [Ids -> Receipts]
      /\ s.epoch \in Nat \ {0}
  BY DEF Store
<1>2. /\ n.order = [i \in Ids |-> IF DocOf[i] = d THEN 0 ELSE s.order[i]]
      /\ n.receipt = [i \in Ids |-> IF DocOf[i] = d THEN NoReceipt ELSE s.receipt[i]]
      /\ n.next = s.next /\ n.epoch = s.epoch
      /\ n = [order |-> n.order, receipt |-> n.receipt, next |-> n.next, epoch |-> n.epoch]
  BY DEF PurgeDocHistory
<1> HIDE DEF n
<1>3. n.order \in [Ids -> Nat] /\ n.receipt \in [Ids -> Receipts]
  BY <1>1, <1>2 DEF Receipts
<1>4. n \in Store
  BY <1>1, <1>2, <1>3 DEF Store
<1>5. Grows(s, n)
  BY <1>1, <1>2 DEF Grows, Numbered
<1>6. Stored(n) \subseteq Stored(s)
  BY <1>1, <1>2 DEF Stored
<1> QED BY <1>4, <1>5, <1>6 DEF n

(* An empty store is a store, and it is numbered. *)
LEMMA EmptyStoreType ==
    ASSUME NEW e \in Nat \ {0}
    PROVE  EmptyStore(e) \in Store /\ Numbered(EmptyStore(e)) /\ Stored(EmptyStore(e)) = {}
BY DEF EmptyStore, Store, Receipts, Numbered, Stored

-----------------------------------------------------------------------------
(* Scanning *)

(* Precedes is a strict total order on cursors. *)
LEMMA PrecedesOrder ==
    /\ \A p, q, r \in Cursor : Precedes(p, q) /\ Precedes(q, r) => Precedes(p, r)
    /\ \A p \in Cursor : ~Precedes(p, p)
    /\ \A p, q \in Cursor : Precedes(p, q) \/ Precedes(q, p) \/ p = q
    /\ \A p, q, r \in Cursor : ~Precedes(p, q) /\ ~Precedes(q, r) => ~Precedes(p, r)
<1>1. \A p \in Cursor : p.order \in Nat /\ p.id \in Nat /\ p = [order |-> p.order, id |-> p.id]
  BY DEF Cursor
<1> QED BY <1>1 DEF Precedes

(* A finite set of cursors that is not empty has a last one. *)
LEMMA LastExists ==
    ASSUME NEW P \in SUBSET Cursor, IsFiniteSet(P), P # {}
    PROVE  \E p \in P : \A q \in P : ~Precedes(p, q)
<1> DEFINE later(p) == {q \in P : Precedes(p, q)}
           sizes == {Cardinality(later(p)) : p \in P}
           less == OpToRel(<, Nat)
<1>1. \A p \in P : IsFiniteSet(later(p)) /\ Cardinality(later(p)) \in Nat
  <2> TAKE p \in P
  <2>1. later(p) \in SUBSET P
    OBVIOUS
  <2> QED BY <2>1, FS_Subset, FS_CardinalityType
<1>2. sizes \subseteq Nat /\ sizes # {}
  BY <1>1
<1>3. \E n \in sizes : \A m \in sizes : <<m, n>> \notin less
  <2> HIDE DEF sizes, less
  <2> QED BY <1>2, WFMin, NatLessThanWellFounded DEF less
<1>4. PICK p \in P : \A m \in sizes : ~(m < Cardinality(later(p)))
  <2>1. PICK n \in sizes : \A m \in sizes : <<m, n>> \notin less
    BY <1>3
  <2>2. \A m \in sizes : ~(m < n)
    BY <2>1, <1>2 DEF OpToRel
  <2>3. PICK p \in P : n = Cardinality(later(p))
    BY <2>1
  <2> QED BY <2>2, <2>3
<1>5. ASSUME NEW q \in P, Precedes(p, q)
      PROVE  FALSE
  <2>1. later(q) \subseteq later(p) /\ q \in later(p) /\ q \notin later(q)
    BY <1>5, PrecedesOrder
  <2>2. Cardinality(later(q)) <= Cardinality(later(p)) /\ Cardinality(later(q)) # Cardinality(later(p))
    <3> HIDE DEF later
    <3> QED BY <2>1, <1>1, FS_Subset
  <2>3. ~(Cardinality(later(q)) < Cardinality(later(p)))
    BY <1>4
  <2> HIDE DEF later
  <2> QED BY <2>2, <2>3, <1>1
<1> QED BY <1>5

(* LastOf is the last position of a finite set, or the given cursor. *)
LEMMA LastOfFinite ==
    ASSUME NEW P \in SUBSET Cursor, IsFiniteSet(P), NEW c \in Cursor
    PROVE  /\ LastOf(P, c) \in Cursor
           /\ P = {} => LastOf(P, c) = c
           /\ P # {} => LastOf(P, c) \in P /\ \A e \in P : ~Precedes(LastOf(P, c), e)
<1>1. CASE P = {}
  BY <1>1 DEF LastOf
<1>2. CASE P # {}
  <2>1. \E p \in P : \A q \in P : ~Precedes(p, q)
    BY <1>2, LastExists
  <2> QED BY <1>2, <2>1 DEF LastOf
<1> QED BY <1>1, <1>2

(* Every page of the scan is complete up to its nextCursor: no entry of the
   store between the cursor and nextCursor is missing from the page. *)
THEOREM ScanIsComplete ==
    ASSUME NEW s \in Store, Numbered(s), NEW c \in Cursor, NEW limit \in Nat
    PROVE  LET p == ScanEntriesSince(s, c, limit)
           IN  /\ p \in Scan
               /\ c.order < s.next => p.nextCursor.order < s.next
               /\ \A e \in p.entries : ~Precedes(p.nextCursor, e)
               /\ \A i \in Stored(s) :
                    Precedes(c, Position(s, i)) /\ ~Precedes(p.nextCursor, Position(s, i))
                      => Position(s, i) \in p.entries
<1> DEFINE rest == PositionsAfter(s, c)
           entries == FirstOf(rest, limit)
           last == LastOf(entries, c)
<1>1. \A i \in Ids : Position(s, i) \in Cursor /\ Position(s, i) \in Positions
  BY IdsAssumption DEF Position, Cursor, Positions, Store
<1>2. rest \subseteq Cursor /\ rest \subseteq Positions /\ entries \subseteq rest
  BY <1>1 DEF PositionsAfter, FirstOf, Stored
<1>3. IsFiniteSet(rest)
  <2> DEFINE all == {Position(s, i) : i \in Stored(s)}
             f == [i \in Stored(s) |-> Position(s, i)]
  <2>1. IsFiniteSet(Stored(s))
    BY SubsetFinite DEF Stored
  <2>2. f \in Surjection(Stored(s), all)
    BY DEF Surjection
  <2>3. IsFiniteSet(all)
    BY <2>1, <2>2, FS_Surjection
  <2>4. rest \in SUBSET all
    BY DEF PositionsAfter
  <2> QED BY <2>3, <2>4, FS_Subset
<1>4. \A e \in rest : e.order < s.next
  BY DEF PositionsAfter, Position, Stored, Numbered
<1>5. IsFiniteSet(entries)
  BY <1>2, <1>3, FS_Subset
<1>6. /\ last \in Cursor
      /\ entries = {} => last = c
      /\ entries # {} => last \in entries /\ \A e \in entries : ~Precedes(last, e)
  <2> HIDE DEF entries
  <2> QED BY <1>2, <1>5, LastOfFinite
<1>7. /\ c.order < s.next => last.order < s.next
      /\ \A e \in entries : ~Precedes(last, e)
  <2> HIDE DEF entries, last, rest
  <2> QED BY <1>2, <1>4, <1>6
<1>8. ASSUME NEW p \in rest, ~Precedes(last, p)
      PROVE  p \in entries
  <2>1. entries # {} /\ last \in entries
    <3>1. Precedes(c, p)
      BY DEF PositionsAfter
    <3> QED BY <1>6, <1>8, <3>1
  <2> DEFINE upTo(q) == {r \in rest : ~Precedes(q, r)}
  <2>2. upTo(p) \subseteq upTo(last)
    <3> SUFFICES ASSUME NEW r \in rest, ~Precedes(p, r) PROVE ~Precedes(last, r)
      OBVIOUS
    <3> HIDE DEF rest, last, entries
    <3> QED BY <1>2, <1>6, <1>8, PrecedesOrder
  <2>3. IsFiniteSet(upTo(last)) /\ IsFiniteSet(upTo(p))
    BY <1>3, FS_Subset
  <2>4. Cardinality(upTo(last)) <= limit
    BY <2>1 DEF FirstOf
  <2>5. Cardinality(upTo(p)) <= limit
    <3>1. Cardinality(upTo(p)) <= Cardinality(upTo(last))
      <4> HIDE DEF upTo
      <4> QED BY <2>2, <2>3, FS_Subset
    <3>2. Cardinality(upTo(p)) \in Nat /\ Cardinality(upTo(last)) \in Nat
      BY <2>3, FS_CardinalityType
    <3> HIDE DEF upTo
    <3> QED BY <2>4, <3>1, <3>2
  <2> QED BY <1>8, <2>5 DEF FirstOf
<1>9. ScanEntriesSince(s, c, limit) = [entries |-> entries, nextCursor |-> last, hasMore |-> entries # rest]
  BY DEF ScanEntriesSince
<1>10. \A i \in Stored(s) : Precedes(c, Position(s, i)) => Position(s, i) \in rest
  BY DEF PositionsAfter
<1> HIDE DEF entries, last, rest
<1>11. [entries |-> entries, nextCursor |-> last, hasMore |-> entries # rest] \in Scan
  BY <1>2, <1>5, <1>6 DEF Scan
<1> QED BY <1>7, <1>8, <1>9, <1>10, <1>11
=============================================================================
