--------------------------- MODULE AbstractStore ---------------------------
(***************************************************************************)
(* What a ContentAddressedStore promises its callers: one store record     *)
(* that changes in one step per operation, whatever files, databases, tabs *)
(* or retries the implementation needs for it.  The sync engine of module  *)
(* StoreSync is written against these operations; a store that implements  *)
(* this specification can stand on either side of it.                      *)
(***************************************************************************)
EXTENDS StoreOps

VARIABLE store

\* A store opened for the first time: empty, or with entries of earlier days
AbsInit ==
    \E S \in SUBSET Ids : \E rank \in Ranking(S) :
        store = PutEntries(EmptyStore(1), S, [i \in Ids |-> NoReceipt], rank)

\* putEntries
AbsPut ==
    \E S \in SUBSET (Ids \ Stored(store)) : \E receipts \in [S -> Receipts], rank \in Ranking(S) :
        store' = PutEntries(store, S, receipts, rank)

\* applyWitnessReceipts
AbsReceipts ==
    \E receipts \in [Stored(store) -> Receipts] :
        \E rank \in Ranking(ReanchoredBy(store, receipts)) :
            store' = ApplyWitnessReceipts(store, receipts, rank)

\* deleteEntriesById and deleteEntriesForAttachment: numbering and epoch stay
RemoveEntries(s, S) ==
    [order |-> [i \in Ids |-> IF i \in S THEN 0 ELSE s.order[i]],
     receipt |-> [i \in Ids |-> IF i \in S THEN NoReceipt ELSE s.receipt[i]],
     next |-> s.next,
     epoch |-> s.epoch]

AbsRemove == \E S \in SUBSET Stored(store) : store' = RemoveEntries(store, S)

\* purgeDocHistory
AbsPurge == \E d \in Docs : store' = PurgeDocHistory(store, d)

\* clearAllLocalData
AbsClear == store' = ClearAllLocalData(store)

AbsNext == AbsPut \/ AbsReceipts \/ AbsRemove \/ AbsPurge \/ AbsClear

AbsSpec == AbsInit /\ [][AbsNext]_store
=============================================================================
