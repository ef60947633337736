----------------------------- MODULE VirtualView -----------------------------
(***************************************************************************)
(* A categorized view of one database: the provider that reads the         *)
(* changefeed from its own cursor (MindooDBVirtualViewDataProvider), the   *)
(* tree with its incrementally kept counts and totals (VirtualView), the   *)
(* live binding, and the snapshot in the local cache.                      *)
(*                                                                         *)
(* update() may be called while another update is in flight: the calls     *)
(* share the cursor and the known ids, and each collects a change of its   *)
(* own.  A step is the code between two awaits.                            *)
(***************************************************************************)
EXTENDS ChangeFeed, Sequences, FiniteSets, FiniteSetsExt

CONSTANTS
  Live, Calls,   \* the update of the live binding, and the explicit ones
  CatPaths,      \* [Values -> SUBSET Seq(names)]: the category paths of a content
  Amount,        \* [Values -> Nat]: the value of the total column
  Passes,        \* SUBSET Values: the contents the filter lets through
  KeyOf,         \* [Values -> decryption key]
  None,          \* no entry, no snapshot, no update
  BatchSize,     \* applyBatchSize
  Budgets        \* bounds: [binds, calls, flushes, faults] of a behaviour, one is picked

VARIABLES
  provider,   \* [cursor, known]
  up,         \* [Updaters -> None or [todo, adds, rems, n]]
  view,       \* [shown, node]: entriesByDocId, and the tree with its counts;
              \* shed (history): categories that lost one below them
  live,       \* [bound, running, pending], and failed: the last update failed
  cache,      \* [dirty, flush, saved]
  budget,     \* bindings, explicit updates, flushes and faults that may still happen
  gap         \* history: a window of the code may have lost a change

viewVars == <<provider, up, view, live, cache, budget, gap>>

Updaters == Calls \cup {Live}
Entries == Values \cup {None}

(* A category is its path, the root is the empty one. *)
Above(p) == {SubSeq(p, 1, k) : k \in 0..Len(p)}
Categories(v) == UNION {Above(c) : c \in CatPaths[v]}
AllCategories == UNION {Categories(v) : v \in Values}
Weight == [v \in Values |-> [q \in AllCategories |->
             Cardinality({c \in CatPaths[v] : q \in Above(c)})]]
EntriesUnder(q, v) == IF v = None THEN 0 ELSE Weight[v][q]
CountUnder(q, val, D) == MapThenSumSet(LAMBDA d : EntriesUnder(q, val[d]), D)
TotalUnder(q, val, D) ==
  MapThenSumSet(LAMBDA d : IF val[d] = None THEN 0 ELSE EntriesUnder(q, val[d]) * Amount[val[d]], D)

(* A node counts the documents and the categories below it, sums the total *)
(* column, and has divided that sum by `per` for an average.               *)
NewNode == [docs |-> 0, sum |-> 0, cats |-> 0, per |-> 0]
StrictlyBelow(q, P) == {p \in P : p /= q /\ q \in Above(p)}

--------------------------------------------------------------------------------
(* The three phases of applyChanges: removals, additions, empty categories. *)
(* An entry that goes leaves the totals first and the counts then, so the   *)
(* averages are those of the count that still has it.                       *)
RemoveDocs(w, D) ==
  LET Lost(q) == CountUnder(q, w.shown, D)
      Left(q) == w.node[q].docs - Lost(q)
  IN [w EXCEPT
       !.shown = [d \in Docs |-> IF d \in D THEN None ELSE @[d]],
       !.node = [q \in DOMAIN @ |->
         [@[q] EXCEPT !.docs = Left(q),
                      !.sum = @ - TotalUnder(q, w.shown, D),
                      !.per = IF Lost(q) > 0 THEN Left(q) + 1 ELSE @]]]

(* addEntry: missing categories are created on the way down, and counted by *)
(* all above them.                                                          *)
AddDocs(w, adds) ==
  LET D == {d \in Docs : adds[d] /= None}
      new == UNION {Categories(adds[d]) : d \in D} \ DOMAIN w.node
      Old(q) == IF q \in DOMAIN w.node THEN w.node[q] ELSE NewNode
      More(q) == CountUnder(q, adds, D)
  IN [w EXCEPT
       !.shown = [d \in Docs |-> IF d \in D THEN adds[d] ELSE @[d]],
       !.node = [q \in DOMAIN @ \cup new |->
         [docs |-> Old(q).docs + More(q),
          sum |-> Old(q).sum + TotalUnder(q, adds, D),
          cats |-> Old(q).cats + Cardinality(StrictlyBelow(q, new)),
          per |-> IF More(q) > 0 THEN Old(q).docs + More(q) ELSE Old(q).per]]]

(* Mutant: only the category the document was in is removed, not its parents. *)
PruneLeaves(w, checked) ==
  [w EXCEPT !.node = [q \in {p \in DOMAIN w.node : p = <<>> \/ p \notin checked
                              \/ w.node[p].docs > 0} |-> w.node[q]]]

(* removeCategoryFromParent, from the categories that lost a document up.  *)
(* What the categories above count is left as it was.                      *)
Prune(w, checked) ==
  LET Empty(p) == \A d \in Docs : EntriesUnder(p, w.shown[d]) = 0
      out == {p \in DOMAIN w.node \ {<<>>} : Empty(p) /\ \E c \in checked : p \in Above(c)}
  IN [w EXCEPT !.node = [q \in DOMAIN @ \ out |-> @[q]],
               !.shed = (@ \cup {q \in DOMAIN w.node : StrictlyBelow(q, out) /= {}}) \ out]

(* applyChanges: an addition replaces the document's old entries. *)
ApplyChanges(w, rems, adds) ==
  LET D == {d \in rems \cup {x \in Docs : adds[x] /= None} : w.shown[d] /= None}
      checked == UNION {CatPaths[w.shown[d]] : d \in D}
  IN Prune(AddDocs(RemoveDocs(w, D), adds), checked)

--------------------------------------------------------------------------------
NoAdds == [d \in Docs |-> None]
NoChange == [todo |-> {}, adds |-> NoAdds, rems |-> {}, n |-> 0]
HasChanges(r) == r.rems /= {} \/ r.adds /= NoAdds
Touches(r, d) == d \in r.rems \/ r.adds[d] /= None
EmptyView == [shown |-> NoAdds, node |-> [q \in {<<>>} |-> NewNode], shed |-> {}]
NewProvider == [cursor |-> 0, known |-> {}]
Unbound == [bound |-> FALSE, running |-> FALSE, pending |-> FALSE, failed |-> FALSE]
NewCache == [dirty |-> FALSE, flush |-> None, saved |-> None]

ViewInit ==
  /\ provider = NewProvider
  /\ up = [u \in Updaters |-> None]
  /\ view = EmptyView
  /\ live = Unbound
  /\ cache = NewCache
  /\ budget \in Budgets
  /\ gap = FALSE

(* update: starts at the shared cursor. *)
Started(f) == [NoChange EXCEPT !.todo = ChangesSince(f, provider.cursor)]

(* applyPendingChanges, and what it does to the tree and its dirty flag. *)
Apply(r) ==
  /\ view' = ApplyChanges(view, r.rems, r.adds)
  /\ cache' = [cache EXCEPT !.dirty = @ \/ view' /= view]

(* runLiveUpdate: once more if a change was reported meanwhile. *)
LiveDone(failed) ==
  IF live.pending
  THEN /\ live' = [live EXCEPT !.pending = FALSE, !.failed = FALSE]
       /\ up' = [up EXCEPT ![Live] = Started(feed)]
  ELSE /\ live' = [live EXCEPT !.running = FALSE, !.failed = failed]
       /\ up' = [up EXCEPT ![Live] = None]

Done(u, failed) ==
  IF u = Live THEN LiveDone(failed) ELSE up' = [up EXCEPT ![u] = None] /\ live' = live

CallUpdate(u) ==
  /\ up[u] = None
  /\ ChangesSince(feed, provider.cursor) /= {}
  /\ budget.calls > 0
  /\ budget' = [budget EXCEPT !.calls = @ - 1]
  /\ up' = [up EXCEPT ![u] = Started(feed)]
  /\ UNCHANGED <<feed, provider, view, live, cache, gap>>

(* One document of the feed: a removal counts only for a known document. *)
Collect(r, d, v) ==
  IF v \in Passes
  THEN [r |-> [r EXCEPT !.adds[d] = v], known |-> provider.known \cup {d}]
  ELSE [r |-> IF d \in provider.known THEN [r EXCEPT !.rems = @ \cup {d}] ELSE r,
        known |-> provider.known \ {d}]

(* The loop of update: the change is applied at the end of a batch. *)
Deliver(u) ==
  /\ up[u] /= None
  /\ \E e \in up[u].todo :
       /\ IsNext(e, up[u].todo)
       /\ LET c == Collect(up[u], e.doc, feed[e.doc].val)
              r == [c.r EXCEPT !.todo = @ \ {e}, !.n = @ + 1]
          IN /\ provider' = [cursor |-> e.seq, known |-> c.known]
             /\ IF r.n >= BatchSize
                THEN /\ Apply(r)
                     /\ up' = [up EXCEPT ![u] = [NoChange EXCEPT !.todo = r.todo]]
                ELSE up' = [up EXCEPT ![u] = r] /\ UNCHANGED <<view, cache>>
       /\ gap' = (gap \/ \E o \in Updaters \ {u} : up[o] /= None /\ Touches(up[o], e.doc))
  /\ UNCHANGED <<feed, live, budget>>

(* The end of update. *)
Finish(u) ==
  /\ up[u] /= None
  /\ up[u].todo = {}
  /\ Apply(up[u])
  /\ Done(u, FALSE)
  /\ UNCHANGED <<feed, provider, budget, gap>>

(* signal.aborted or onProgress returned false, after a batch. *)
Stop(u) ==
  /\ u \in Calls
  /\ budget.faults > 0
  /\ up[u] /= None
  /\ up[u].n = 0
  /\ up' = [up EXCEPT ![u] = None]
  /\ budget' = [budget EXCEPT !.faults = @ - 1]
  /\ UNCHANGED <<feed, provider, view, live, cache, gap>>

(* The next document does not load: the change collected so far is lost. *)
LoadFails(u) ==
  /\ budget.faults > 0
  /\ up[u] /= None
  /\ up[u].todo /= {}
  /\ gap' = (gap \/ HasChanges(up[u]))
  /\ Done(u, TRUE)
  /\ budget' = [budget EXCEPT !.faults = @ - 1]
  /\ UNCHANGED <<feed, provider, view, cache>>

(* scheduleLiveUpdate *)
ScheduleLive(l, f) ==
  IF l.running THEN live' = [l EXCEPT !.pending = TRUE] /\ up' = up
  ELSE /\ live' = [l EXCEPT !.running = TRUE, !.pending = FALSE, !.failed = FALSE]
       /\ up' = [up EXCEPT ![Live] = Started(f)]

BindTo ==
  /\ ~live.bound
  /\ budget.binds > 0
  /\ budget' = [budget EXCEPT !.binds = @ - 1]
  /\ ScheduleLive([live EXCEPT !.bound = TRUE], feed)
  /\ UNCHANGED <<feed, provider, view, cache, gap>>

Unbind ==
  /\ live.bound
  /\ live' = [live EXCEPT !.bound = FALSE]
  /\ UNCHANGED <<feed, provider, up, view, cache, budget, gap>>

(* A change of the database, and the listener of the live binding. *)
Change(d, v) ==
  /\ Write(d, v)
  /\ IF live.bound THEN ScheduleLive(live, feed') ELSE UNCHANGED <<live, up>>
  /\ UNCHANGED <<provider, view, cache, budget, gap>>

(* purgeEntriesByDecryptionKeyId, for a key whose documents became unreadable. *)
PurgeKey(k) ==
  /\ \A d \in Docs : feed[d].val /= Gone => KeyOf[feed[d].val] /= k
  /\ LET D == {d \in Docs : view.shown[d] /= None /\ KeyOf[view.shown[d]] = k}
     IN D /= {} /\ Apply([NoChange EXCEPT !.rems = D])
  /\ UNCHANGED <<feed, provider, up, live, budget, gap>>

(* flushToCache: tree and provider state are serialized in one go. *)
Flush ==
  /\ cache.dirty
  /\ cache.flush = None
  /\ budget.flushes > 0
  /\ budget' = [budget EXCEPT !.flushes = @ - 1]
  /\ cache' = [cache EXCEPT !.flush =
       [view |-> view, provider |-> provider,
        gap |-> gap \/ \E u \in Updaters : up[u] /= None /\ HasChanges(up[u])]]
  /\ UNCHANGED <<feed, provider, up, view, live, gap>>

(* The put has returned, and CacheManager.flush calls clearDirty. *)
Flushed ==
  /\ cache.flush /= None
  /\ cache' = [dirty |-> FALSE, flush |-> None, saved |-> cache.flush]
  /\ UNCHANGED <<feed, provider, up, view, live, budget, gap>>

(* The page is closed; a new view restores the snapshot. *)
Reopen ==
  /\ budget.faults > 0
  /\ LET s == IF cache.saved /= None THEN cache.saved
              ELSE [view |-> EmptyView, provider |-> NewProvider, gap |-> FALSE]
     IN view' = s.view /\ provider' = s.provider /\ gap' = s.gap
  /\ up' = [u \in Updaters |-> None]
  /\ live' = Unbound
  /\ cache' = [cache EXCEPT !.dirty = FALSE, !.flush = None]
  /\ budget' = [budget EXCEPT !.faults = @ - 1]
  /\ UNCHANGED feed

ViewNext ==
  \/ \E d \in Docs, v \in Values \cup {Gone} : Change(d, v)
  \/ \E u \in Updaters : Deliver(u) \/ Finish(u) \/ Stop(u) \/ LoadFails(u)
  \/ \E u \in Calls : CallUpdate(u)
  \/ \E k \in {KeyOf[v] : v \in Values} : PurgeKey(k)
  \/ BindTo \/ Unbind
  \/ Flush \/ Flushed \/ Reopen

--------------------------------------------------------------------------------
Wanted(d) == IF feed[d].val \in Passes THEN feed[d].val ELSE None

(***************************************************************************)
(* The tree has exactly the categories its documents need, and what the    *)
(* nodes count step by step is what is below them.  Two of the values are  *)
(* not exact: a category that is removed stays in the counts of those      *)
(* above it, which are exact as long as none was (shed), and an average    *)
(* computed at a removal divides by one document more.                     *)
(***************************************************************************)
TreeExact ==
  /\ DOMAIN view.node = {<<>>} \cup
       UNION {Categories(view.shown[d]) : d \in {x \in Docs : view.shown[x] /= None}}
  /\ \A q \in DOMAIN view.node :
       LET n == view.node[q]
           below == Cardinality(StrictlyBelow(q, DOMAIN view.node))
       IN /\ n.docs = CountUnder(q, view.shown, Docs)
          /\ n.sum = TotalUnder(q, view.shown, Docs)
          /\ IF q \in view.shed THEN n.cats > below ELSE n.cats = below
          /\ n.per \in {n.docs, n.docs + 1}

Reflected(d) ==
  \/ view.shown[d] = Wanted(d)
  \/ \E u \in Updaters : /\ up[u] /= None
                         /\ Touches(up[u], d)
                         /\ up[u].adds[d] = Wanted(d)

(***************************************************************************)
(* A change the cursor has passed is in the tree, or in the change that an *)
(* update in flight is about to apply.                                     *)
(***************************************************************************)
CursorHonest ==
  gap \/ \A d \in Docs : feed[d].seq <= provider.cursor => Reflected(d)

(***************************************************************************)
(* No wakeup is lost: a bound view whose updates have all ended, none of   *)
(* them in an error, shows the latest content of every document.           *)
(***************************************************************************)
BoundIsCurrent ==
  live.bound /\ ~live.failed /\ ~gap /\ (\A u \in Updaters : up[u] = None) =>
    \A d \in Docs : view.shown[d] = Wanted(d)

(* What readers of a view see: the tree of what the feed has delivered.    *)
ViewCurrent == TreeExact /\ CursorHonest /\ BoundIsCurrent
=============================================================================
