------------------------------ MODULE MCReplica ------------------------------
(***************************************************************************)
(* One client's replica: the calls of its tabs on the IndexedDB store, and *)
(* the reads of documents' pasts.  A behaviour has one of the two.         *)
(***************************************************************************)
EXTENDS BrowserStore, DocHistory, TLC

CONSTANTS c1, c2, c3

VARIABLE part   \* what this behaviour is about

--------------------------------------------------------------------------------
(* Two tabs, two calls in the first and one in the second; entries 1 and 2 *)
(* of one document, entry 3 of another with the content of entry 1.        *)
MCDocOf == [i \in Ids |-> IF i = 3 THEN "d2" ELSE "d1"]
MCTabOf == [c \in Callers |-> IF c = c3 THEN "t2" ELSE "t1"]
MCHashOf == [i \in Ids |-> IF i = 2 THEN "h2" ELSE "h1"]
MCCreatedAt == [i \in Ids |-> IF i = 1 THEN 5 ELSE 4]
MCBatches == {{1, 2}, {3}}
MCRemovals == {{1, 2}}
MCReceived == [by |-> "w", at |-> 1]

\* The two calls of the first tab may change places
MCSymmetry == Permutations({c1, c2})

--------------------------------------------------------------------------------
(* Documents of a few entries.  A scope is about one kind of reader: clocks *)
(* and deletion for the reads of the past, paths for the scan for conflicts, *)
(* receipts for the feed of revisions.                                      *)
MCKey == <<3, 5, 1, 4, 2, 6>>

Scope(entries, snapshots, kinds, stamps, puts) ==
  [entries |-> entries, snapshots |-> snapshots, kinds |-> kinds, stamps |-> stamps,
   puts |-> puts, valid |-> {TRUE}, trusted |-> {TRUE}, receipts |-> FALSE, reads |-> 0]

Past == Scope(3, 0, {"change", "delete", "undelete"}, 1..3, {{}})
Covered == Scope(3, 1, {"change", "delete", "undelete"}, 1..2, {{}})
Branches == Scope(4, 2, {"change"}, {1}, {{}})
Conflicts == Scope(4, 0, {"change"}, {1}, SUBSET Paths)
Feed == [Scope(3, 0, {"change"}, {1}, {{}}) EXCEPT !.receipts = TRUE, !.reads = 2]
Seeds == [Feed EXCEPT !.entries = 2, !.snapshots = 1, !.valid = BOOLEAN]
Scopes == {Past, Covered, Branches, Conflicts, Feed, Seeds}

--------------------------------------------------------------------------------
Init ==
  /\ HistoryInit
  /\ \/ part = "store" /\ BsInit /\ scope = Past
     \/ part = "history" /\ BsInit /\ db = EmptyDb /\ scope \in Scopes

\* What other replicas write commutes with the steps of a read
Next ==
  \/ part = "store" /\ BsNext /\ UNCHANGED <<histVars, part>>
  \/ /\ part = "history"
     /\ HistoryNext
     /\ feed = None \/ Len(made') = Len(made) \/ order'[Len(made')] > 0
     /\ UNCHANGED <<bsVars, part>>

Spec == Init /\ [][Next]_<<bsVars, histVars, part>>
=============================================================================
