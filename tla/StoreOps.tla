------------------------------ MODULE StoreOps ------------------------------
(***************************************************************************)
(* The operations every ContentAddressedStore offers, as operators on a    *)
(* store record.  A store is an append-only set of entries; each entry     *)
(* carries the receiptOrder the store gave it on arrival and, once a sync  *)
(* server has accepted it, the witness receipt (receivedAt and             *)
(* receivedByPublicKey).                                                   *)
(*                                                                         *)
(*   order[i]    receiptOrder of entry i, 0 while the store has no entry i *)
(*   receipt[i]  witness receipt of entry i, NoReceipt while it has none   *)
(*   next        nextReceiptOrder: the number the next arrival gets        *)
(*   epoch       cursor lineage: changes when order numbers may be reused  *)
(*                                                                         *)
(* A scan cursor is a (receiptOrder, id) pair; the null cursor of the code *)
(* is StartCursor, which precedes every position.  Contents, document      *)
(* indexes and reference counts do not matter to the scan; module          *)
(* OnDiskStore has the contents.                                           *)
(***************************************************************************)
EXTENDS Integers, FiniteSets, Functions

CONSTANTS
    Ids,        \* entry ids; the scan order compares them, so they are numbers
    Docs,       \* document ids
    DocOf,      \* the document each entry belongs to
    Witnesses,  \* the sync servers that stamp what they accept
    Times,      \* what a server's clock may show
    NoReceipt   \* the receipt of an entry that no server has accepted yet

ASSUME IdsAssumption == Ids \subseteq Nat \ {0} /\ IsFiniteSet(Ids)
ASSUME DocOfAssumption == DocOf \in [Ids -> Docs]
ASSUME NoReceiptAssumption == NoReceipt \notin [by : Witnesses, at : Times]

\* receivedByPublicKey and receivedAt
Receipts == [by : Witnesses, at : Times] \cup {NoReceipt}

Store == [order : [Ids -> Nat], receipt : [Ids -> Receipts],
          next : Nat \ {0}, epoch : Nat \ {0}]
Cursor == [order : Nat, id : Nat]

\* A page of the scan: the positions of its entries, the cursor behind them
Positions == [order : Nat, id : Ids]
Scan == [entries : {E \in SUBSET Positions : IsFiniteSet(E)},
         nextCursor : Cursor, hasMore : BOOLEAN]

\* Every receiptOrder is below the counter, so a new arrival gets a position
\* behind every cursor of the lineage
Numbered(s) == \A i \in Ids : s.order[i] < s.next

EmptyStore(e) == [order |-> [i \in Ids |-> 0],
                  receipt |-> [i \in Ids |-> NoReceipt],
                  next |-> 1, epoch |-> e]
StartCursor == [order |-> 0, id |-> 0]

-----------------------------------------------------------------------------
(* Reading                                                                 *)

\* getAllIds
Stored(s) == {i \in Ids : s.order[i] > 0}

\* hasEntries: the given ids that the store holds
HasEntries(s, S) == S \cap Stored(s)

\* getStoreHead
StoreHead(s) == [epoch |-> s.epoch, max |-> s.next - 1]

\* Position of a stored entry in the (receiptOrder, id) scan order
Position(s, i) == [order |-> s.order[i], id |-> i]

\* The order of the scan: receiptOrder first, then id
Precedes(c, d) == c.order < d.order \/ (c.order = d.order /\ c.id < d.id)

\* The positions strictly after cursor c
PositionsAfter(s, c) ==
    {p \in {Position(s, i) : i \in Stored(s)} : Precedes(c, p)}

\* The first limit positions of P
FirstOf(P, limit) ==
    {p \in P : Cardinality({q \in P : ~Precedes(p, q)}) <= limit}

\* The last position of P, or c if there is none
LastOf(P, c) ==
    IF P = {} THEN c ELSE CHOOSE p \in P : \A q \in P : ~Precedes(p, q)

\* scanEntriesSince: a page of at most limit entries after c, with the
\* receiptOrder each entry had when the page was read
ScanEntriesSince(s, c, limit) ==
    LET rest == PositionsAfter(s, c)
        entries == FirstOf(rest, limit)
    IN  [entries |-> entries, nextCursor |-> LastOf(entries, c),
         hasMore |-> entries # rest]

-----------------------------------------------------------------------------
(* Writing                                                                 *)

\* A numbering of the entries of S in the order the batch lists them
Ranking(S) == Bijection(S, 1 .. Cardinality(S))

\* The ids of batch S that putEntries does not skip as already stored
NewIn(s, S) == S \ Stored(s)

\* putEntries: entries the store has are skipped, the others get consecutive
\* receiptOrders (rank gives their order in the batch) and keep the receipt
\* they arrive with, receipts[i].
PutEntries(s, S, receipts, rank) ==
    LET new == NewIn(s, S)
    IN  [order |-> [i \in Ids |-> IF i \in new THEN s.next + rank[i] - 1 ELSE s.order[i]],
         receipt |-> [i \in Ids |-> IF i \in new THEN receipts[i] ELSE s.receipt[i]],
         next |-> s.next + Cardinality(new),
         epoch |-> s.epoch]

\* The ids of a receipt batch that applyWitnessReceipts does not skip: no
\* receivedAt, not stored, or already witnessed with the same receipt.
ReanchoredBy(s, receipts) ==
    {i \in Stored(s) :
        receipts[i] # NoReceipt /\ receipts[i] # s.receipt[i]}

\* applyWitnessReceipts: the receipt is copied onto the stored entry, which
\* moves to a fresh receiptOrder so that scan cursors deliver it again.
ApplyWitnessReceipts(s, receipts, rank) ==
    LET moved == ReanchoredBy(s, receipts)
    IN  [order |-> [i \in Ids |-> IF i \in moved THEN s.next + rank[i] - 1 ELSE s.order[i]],
         receipt |-> [i \in Ids |-> IF i \in moved THEN receipts[i] ELSE s.receipt[i]],
         next |-> s.next + Cardinality(moved),
         epoch |-> s.epoch]

\* purgeDocHistory: every entry of the document goes, next and epoch stay
PurgeDocHistory(s, doc) ==
    [order |-> [i \in Ids |-> IF DocOf[i] = doc THEN 0 ELSE s.order[i]],
     receipt |-> [i \in Ids |-> IF DocOf[i] = doc THEN NoReceipt ELSE s.receipt[i]],
     next |-> s.next,
     epoch |-> s.epoch]

\* clearAllLocalData: numbering restarts at 1 under a fresh epoch
ClearAllLocalData(s) == EmptyStore(s.epoch + 1)
=============================================================================
