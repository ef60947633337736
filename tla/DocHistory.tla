----------------------------- MODULE DocHistory -----------------------------
(***************************************************************************)
(* Reading the past of a document: its state at a time, at given heads and *)
(* entry by entry, the scan for conflicts, and the feed of revisions that  *)
(* the time-travel index of the directory follows.                         *)
(*                                                                         *)
(* The entries are written by replicas with clocks of their own.  The      *)
(* reader's store gets them in any order and may lack some.                *)
(***************************************************************************)
EXTENDS DocDag

CONSTANTS
  Paths,      \* the paths of the document
  Witnessed,  \* what the witness's clock shows
  Now         \* what the reader's clock shows

VARIABLES
  scope,    \* the bounds of this behaviour
  order,    \* [entry -> receiptOrder in the reader's store], 0 while it is absent
  seen,     \* [entry -> receivedAt], 0 while it is not witnessed
  next,     \* nextReceiptOrder
  feed,     \* None, or a read of the revision feed: [pc, fresh, resume, line, i, doc]
  cursor,   \* the consumer's RevisionCursor, as a receiptOrder
  cache,    \* revisionFeedDocCache: None or [doc, covered]
  revs      \* [entry -> the document of its last revision the consumer got]

storeVars == <<made, order, seen, next>>
feedVars == <<feed, cursor, cache, revs>>
histVars == <<scope, storeVars, feedVars>>

Have == {e \in Entries : order[e] > 0}
NewRevs == [e \in 1..Len(made) + 1 |-> IF e \in Entries THEN revs[e] ELSE None]

HistoryInit ==
  /\ made = <<>> /\ order = <<>> /\ seen = <<>> /\ next = 1
  /\ feed = None /\ cursor = 0 /\ cache = None /\ revs = <<>>

--------------------------------------------------------------------------------
(* An entry is written on the heads of a version that some replica has.  The
   reader's own entries are stored at once; where receipts do not matter, any
   entry is stored at once or never. *)
Antichain(H) == \A e, f \in H : e /= f => e \notin Ancestors(Entries, f)

Wrote(entry, here) ==
  /\ made' = Append(made, entry)
  /\ order' = Append(order, IF here THEN next ELSE 0)
  /\ next' = IF here THEN next + 1 ELSE next
  /\ seen' = Append(seen, 0)
  /\ revs' = NewRevs
  /\ UNCHANGED <<scope, feed, cursor, cache>>

(* createDocument, changeDoc, deleteDocument, undeleteDocument *)
Write ==
  /\ Cardinality(Replay(Entries)) < scope.entries
  /\ \E H \in SUBSET Replay(Entries), kind \in {"create"} \cup scope.kinds,
        t \in scope.stamps, puts \in scope.puts, valid \in scope.valid, here \in BOOLEAN :
       /\ kind = "create" <=> made = <<>>
       /\ H = {} <=> kind = "create"
       /\ Antichain(H)
       /\ valid \/ kind /= "create"
       /\ here /\ scope.receipts => H \subseteq Have
       /\ Wrote([kind |-> kind, at |-> t, deps |-> H, puts |-> puts, valid |-> valid], here)

(* maybeWriteSnapshotForDocument: of any version some replica has *)
WriteSnapshot ==
  /\ Cardinality(Snapshots(Entries)) < scope.snapshots
  /\ \E H \in SUBSET Replay(Entries) \ {{}}, t \in scope.stamps, here \in BOOLEAN,
        valid \in scope.trusted :
       /\ Antichain(H)
       /\ \A e \in Reach(Entries, H) : made[e].valid
       /\ here /\ scope.receipts => H \subseteq Have
       /\ Wrote([kind |-> "snapshot", at |-> t, deps |-> H, puts |-> {}, valid |-> valid], here)

(* An entry arrives by sync, with the receipt of the server it passed *)
Arrive(e) ==
  /\ scope.receipts
  /\ order[e] = 0
  /\ order' = [order EXCEPT ![e] = next] /\ next' = next + 1
  /\ \E t \in Witnessed : seen' = [seen EXCEPT ![e] = t]
  /\ UNCHANGED <<scope, made, feedVars>>

(* applyWitnessReceipts: the reader's own entry is witnessed, and moves to
   the end of the scan order. *)
Witness(e) ==
  /\ scope.receipts
  /\ order[e] > 0 /\ seen[e] = 0
  /\ order' = [order EXCEPT ![e] = next] /\ next' = next + 1
  /\ \E t \in Witnessed : seen' = [seen EXCEPT ![e] = t]
  /\ UNCHANGED <<scope, made, feedVars>>

--------------------------------------------------------------------------------
(* getDocumentAtTimestamp *)
AtTime(t) == Grounded({e \in Have : Stamp(e) <= t})
DocumentAt(t) ==
  IF AtTime(t) = {} THEN None
  ELSE [content |-> Materialized(LatestPlan(AtTime(t))), deleted |-> IsDeleted(AtTime(t))]

(* getAllDocumentIdsAtTimestamp *)
ListedAt(t) ==
  LET slice == {e \in Have : Stamp(e) <= t}
  IN /\ \E e \in slice : Kind(e) = "create"
     /\ (\E e \in slice : Kind(e) \in Lifecycle) => ~IsDeleted(AtTime(t))

(* listDocumentCreationDates: the oldest creation or snapshot *)
CreationDate(S) == Min({Stamp(e) : e \in {f \in S : Kind(f) \in {"create", "snapshot"}}})

(* iterateDocumentHistory *)
HistoryLine(S) == CausalOrder(Replay(S))
DocumentAfter(S, i) == Merged(Verified(ToSet(SubSeq(HistoryLine(S), 1, i))))
Yields(S, i) ==
  LET e == HistoryLine(S)[i]
  IN /\ made[e].valid
     /\ Kind(e) \in Lifecycle \cup {"create"} \/ DocumentAfter(S, i) /= DocumentAfter(S, i - 1)

(* getDocumentHistoryPage: deletion as of a position of the line *)
DeletedAt(S, i) == IsDeleted(ToSet(SubSeq(HistoryLine(S), 1, i)))

(* materializeDocumentBranchAtTimestamp *)
BranchAt(t, h) ==
  LET plan == HeadsPlan({e \in Have : Stamp(e) <= t}, {h})
  IN IF plan = None THEN None ELSE Materialized(plan)

(* materializeDocumentAtHeads, materializeDocumentBranchAtEntry *)
DocumentAtHeads(H) ==
  IF HeadsPlan(Have, H) = None THEN None ELSE Materialized(HeadsPlan(Have, H))

--------------------------------------------------------------------------------
(* Automerge: the writers of a path that no later writer saw; more than one is
   a conflict, and the one with the largest counter wins. *)
Counter(e) ==
  LET n[i \in Entries] == 1 + Cardinality(Reach(Entries, {i})) IN n[e]
WritersOf(C, p) ==
  LET all == {e \in C : p \in made[e].puts}
  IN {e \in all : \A f \in all \ {e} : e \notin Ancestors(Entries, f)}
InConflict(C) == {p \in Paths : Cardinality(WritersOf(C, p)) > 1}
Winner(C, p) ==
  IF WritersOf(C, p) = {} THEN None
  ELSE CHOOSE e \in WritersOf(C, p) : \A f \in WritersOf(C, p) \ {e} :
         Counter(e) > Counter(f) \/ (Counter(e) = Counter(f) /\ e > f)
Patched(C, D) == {p \in Paths : Winner(C, p) /= Winner(D, p)}

(* computeDocumentConflictAnalysisPlan *)
HasConcurrencyCandidates(S) ==
  \/ Cardinality(Heads(S)) > 1
  \/ \E e \in Replay(S) : Cardinality({f \in Replay(S) : e \in Deps(f)}) > 1
  \/ \E e \in Replay(S) : Cardinality(Deps(e) \cap Replay(S)) > 1

(* shouldEmitConflictObservation; a scan from the start has since = 0 *)
Emits(e, since) == since = 0 \/ order[e] > since

FirstPaths(P, n) ==
  LET line == SetToSortSeq(P, LAMBDA p, q : p < q)
  IN {line[i] : i \in 1..(IF n < Len(line) THEN n ELSE Len(line))}
Left(scan, max) == IF max > scan.count THEN max - scan.count ELSE 0
Report(scan, P) == [scan EXCEPT !.found = @ \cup P, !.count = @ + Cardinality(P)]

(* detectDocumentConflictsFromPlan: one change.  Before it is applied the
   conflicts of several heads that are not known yet, after it those it makes
   or ends. *)
ScanChange(scan, e, since, max) ==
  LET C == Merged(scan.loaded)
      early == IF Cardinality(Heads(C)) > 1
               THEN FirstPaths(InConflict(C) \ (scan.found \cup scan.active), Left(scan, max))
               ELSE {}
      D == Merged(scan.loaded \cup {e})
      made_ == Patched(C, D) \cap InConflict(D)
      ended == (Patched(C, D) \ InConflict(D)) \cap (scan.active \cup early)
      s == IF Emits(e, since) THEN Report(scan, early) ELSE scan
      t == IF Emits(e, since) THEN Report(s, made_) ELSE s
  IN IF scan.count >= max \/ ~made[e].valid THEN scan
     ELSE [t EXCEPT !.loaded = @ \cup {e},
                    !.active = ((@ \cup early) \ ended) \cup made_]

(* Mutant: what is in conflict at the heads is not looked for. *)
ScanHeadsOnce(scan, since, max) == scan

(* The end of the scan: what is in conflict at the heads. *)
ScanHeads(scan, since, max) ==
  LET newest == CHOOSE e \in Heads(Have) : \A f \in Heads(Have) : order[f] <= order[e]
      open == FirstPaths(InConflict(Merged(scan.loaded)) \ scan.found, Left(scan, max))
  IN IF Cardinality(Heads(Have)) > 1 /\ Emits(newest, since) THEN Report(scan, open) ELSE scan

(* analyzeDocumentConflicts: the paths reported for the document *)
ConflictScan(since, max) ==
  LET start == [loaded |-> {}, active |-> {}, found |-> {}, count |-> 0]
      line == Topological(Replay(Have))
  IN IF ~HasConcurrencyCandidates(Have) THEN {}
     ELSE ScanHeads(FoldLeft(LAMBDA s, e : ScanChange(s, e, since, max), start, line),
                    since, max).found

(* getDocumentConflictBaseValues: the writer of the value at the merge base *)
BaseValue(parents, p) ==
  LET base == MergeBase(Have, parents)
  IN IF base = None \/ DocumentAtHeads({base}) = None \/ DeletedAfter(Have, base) THEN None
     ELSE Winner(DocumentAtHeads({base}), p)

--------------------------------------------------------------------------------
(* entryTrustedTime: an entry that awaits its witness counts as of now *)
Provisional(e) == seen[e] = 0
TrustedTime(e) == IF Provisional(e) THEN Now ELSE seen[e]
TrustedBefore(e, f) ==
  \/ TrustedTime(e) < TrustedTime(f)
  \/ TrustedTime(e) = TrustedTime(f) /\ Key[e] < Key[f]
TrustedLine == SetToSortSeq(Replay(Have), LAMBDA e, f : TrustedBefore(e, f))

(* discoverRevisionEntries: the cursor stops before the first entry that
   awaits its witness. *)
ResumeAfter(fresh) ==
  Max({cursor} \cup {order[e] : e \in {f \in fresh :
    \A g \in fresh : order[g] <= order[f] => ~Provisional(g)}})

(* seedRevisionFold: from the cached document, or from the best snapshot whose
   roots are all in the prefix. *)
RootsWithin(s, prefix) == Deps(s) /= {} /\ Deps(s) \subseteq prefix

(* Mutant: any cached document will do. *)
SeedAnyCache(prefix) ==
  IF cache /= None THEN cache.doc \cup Verified(prefix \ cache.covered)
  ELSE Verified(prefix)

Seed(prefix) ==
  LET plan == LatestPlan(prefix \cup {s \in Snapshots(Have) : RootsWithin(s, prefix)})
  IN IF prefix = {} THEN {}
     ELSE IF cache /= None /\ cache.covered \subseteq prefix
     THEN cache.doc \cup Verified(prefix \ cache.covered)
     ELSE (IF plan.snapshot = None \/ ~made[plan.snapshot].valid THEN {}
           ELSE SnapshotContent(plan.snapshot)) \cup Verified(plan.apply)

(* iterateRevisionsInternal: discovery, then the fold in trusted-time order
   from the first new entry on. *)
Discover ==
  LET fresh == {e \in Replay(Have) : order[e] > cursor}
  IN /\ scope.reads > 0 /\ feed = None
     /\ fresh /= {}
     /\ scope' = [scope EXCEPT !.reads = @ - 1]
     /\ feed' = [pc |-> "found", fresh |-> fresh, resume |-> ResumeAfter(fresh),
                 line |-> <<>>, i |-> 0, doc |-> {}]
     /\ UNCHANGED <<storeVars, cursor, cache, revs>>

FoldStart ==
  LET line == TrustedLine
      first == CHOOSE i \in DOMAIN line : line[i] \in feed.fresh
                 /\ \A j \in 1..i - 1 : line[j] \notin feed.fresh
  IN /\ feed /= None /\ feed.pc = "found"
     /\ feed' = [feed EXCEPT !.pc = "fold", !.line = line, !.i = first,
                             !.doc = Seed({line[j] : j \in 1..first - 1})]
     /\ UNCHANGED <<scope, storeVars, cursor, cache, revs>>

(* foldDocRevisions: one revision; the consumer keeps its document and, as the
   time-travel index does, the cursor that comes with it. *)
Yield ==
  /\ feed /= None /\ feed.pc = "fold" /\ feed.i \in DOMAIN feed.line
  /\ LET e == feed.line[feed.i]
         doc == feed.doc \cup Verified({e})
     IN /\ feed' = [feed EXCEPT !.i = @ + 1, !.doc = doc]
        /\ revs' = IF made[e].valid THEN [revs EXCEPT ![e] = Merged(doc)] ELSE revs
        /\ cursor' = IF made[e].valid THEN feed.resume ELSE cursor
  /\ UNCHANGED <<scope, storeVars, cache>>

(* putRevisionFeedCache *)
FoldEnd ==
  /\ feed /= None /\ feed.pc = "fold" /\ feed.i \notin DOMAIN feed.line
  /\ cache' = [doc |-> feed.doc, covered |-> ToSet(feed.line)]
  /\ feed' = None
  /\ UNCHANGED <<scope, storeVars, cursor, revs>>

(* The cache is in memory and bounded *)
DropCache ==
  /\ cache /= None /\ feed = None
  /\ cache' = None
  /\ UNCHANGED <<scope, storeVars, feed, cursor, revs>>

HistoryNext ==
  \/ Write \/ WriteSnapshot
  \/ \E e \in Entries : Arrive(e) \/ Witness(e)
  \/ Discover \/ FoldStart \/ Yield \/ FoldEnd \/ DropCache

--------------------------------------------------------------------------------
Whole == Grounded(Have) = Have /\ \A e \in Replay(Have) : Deps(e) \subseteq Have
Stamps == {Stamp(e) : e \in Entries}
Trustworthy == \A e \in Entries : made[e].valid
Unread == ~scope.receipts   \* the reads below look at entries, not at receipts

(***************************************************************************)
(* Whichever snapshots the store has, the latest plan gives the document   *)
(* of a full replay, and the plan for given heads exactly what those heads *)
(* rest on: never a change that the version asked for does not have.       *)
(***************************************************************************)
PlansAgree ==
  Unread /\ Trustworthy /\ Whole =>
    /\ Materialized(LatestPlan(Have)) =
         Replay(Have) \cup UNION {SnapshotContent(s) :
                                  s \in {LatestPlan(Have).snapshot} \ {None}}
    /\ \A H \in SUBSET Replay(Have) \ {{}} : DocumentAtHeads(H) = Reach(Entries, H)

(***************************************************************************)
(* The state at a time is the merge of the complete chains up to it, also  *)
(* when clocks disagree or entries are missing: content and deletion are   *)
(* of the same entries, and a document is listed at a time iff it can be   *)
(* read there and is not deleted (a creation stamped later than a snapshot *)
(* of the document aside).  Of two snapshots the planner may prefer the    *)
(* older one, because it does not count what is covered but missing, and   *)
(* the entries that only the other one grounds are then not applied: the   *)
(* claim is for one.                                                       *)
(***************************************************************************)
SliceAgrees ==
  Unread /\ Trustworthy =>
    \A t \in Stamps :
      LET slice == {e \in Have : Stamp(e) <= t}
          doc == DocumentAt(t)
      IN /\ doc /= None /\ Cardinality(Snapshots(slice)) <= 1
              => Replay(AtTime(t)) \subseteq doc.content
         /\ \A e \in Replay(slice) : Reach(Entries, {e}) \subseteq slice => e \in AtTime(t)
         /\ Snapshots(slice) = {} /\ doc /= None =>
              /\ doc.content = Replay(AtTime(t))
              /\ doc.content = UNION {BranchAt(t, h) : h \in Heads(AtTime(t))}
              /\ CreationDate(AtTime(t)) \in {Stamp(e) : e \in doc.content}
         /\ (\E e \in slice : Kind(e) = "create") =>
              (ListedAt(t) <=> (doc /= None /\ ~doc.deleted))

(***************************************************************************)
(* The history of a document shows each of its entries once, after all it  *)
(* rests on, whatever their clocks say; the lanes of the graph are lines:  *)
(* two entries of one primary lane are never concurrent.  Every entry is   *)
(* in the branch of a head, and the last line of the history, the branch   *)
(* of a single head and the document agree on whether it is deleted.       *)
(***************************************************************************)
HistoryCausal ==
  Unread /\ Whole /\ Trustworthy =>
    LET line == HistoryLine(Have)
        lanes == Lanes(Have)
    IN /\ ToSet(line) = Replay(Have)
       /\ \A i \in DOMAIN line : Yields(Have, i) /\ Deps(line[i]) \subseteq ToSet(SubSeq(line, 1, i))
       /\ \A e, f \in Replay(Have) :
            lanes.primary[e] = lanes.primary[f] =>
              e \in Ancestors(Have, f) \/ f \in Ancestors(Have, e)
       /\ \A e \in Replay(Have) : lanes.primary[e] \in lanes.of[e] /\ BranchHeads(Have, e) /= {}
       /\ line /= <<>> => DeletedAt(Have, Len(line)) = IsDeleted(Have)
       /\ Cardinality(Heads(Have)) = 1 =>
            \A h \in Heads(Have) : Branch(Have, h).deleted = IsDeleted(Have)

(* Every way to read a document at some point of its past agrees.          *)
HistoryAgrees == PlansAgree /\ SliceAgrees /\ HistoryCausal

(***************************************************************************)
(* A full scan reports every path that is in conflict at the end, and a    *)
(* quick scan (one path) finds one if there is any.  The base offered for  *)
(* a merge of the heads is below all of them, no other common ancestor is  *)
(* above it, and the value shown for a path is one that every head saw.    *)
(***************************************************************************)
ConflictsReported ==
  Unread =>
    /\ InConflict(Merged(Verified(Replay(Have)))) \subseteq ConflictScan(0, 100)
    /\ InConflict(Merged(Verified(Replay(Have)))) /= {} => ConflictScan(0, 1) /= {}
    /\ Have /= {} /\ Whole =>
         LET base == MergeBase(Have, Heads(Have))
         IN /\ base /= None
            /\ \A h \in Heads(Have) : base \in Ancestors(Have, h)
            /\ \A a \in Have : (\A h \in Heads(Have) : a \in Ancestors(Have, h))
                                 => base \notin Ancestors(Have, a) \ {a}
            /\ \A p \in Paths : BaseValue(Heads(Have), p) /= None =>
                 \A h \in Heads(Have) : BaseValue(Heads(Have), p) \in DocumentAtHeads({h})

(***************************************************************************)
(* Once the consumer of the revision feed has caught up, its document for  *)
(* every witnessed entry is the merge of exactly the entries up to it in   *)
(* trusted time, although entries arrive late, are witnessed later and     *)
(* move, and reads start from caches, snapshots or nothing.                *)
(***************************************************************************)
CaughtUp == feed = None /\ \A e \in Replay(Have) : order[e] > cursor => Provisional(e)
RevisionsExact ==
  CaughtUp =>
    \A e \in Verified(Replay(Have)) : ~Provisional(e) =>
      revs[e] = Merged(Verified({f \in Replay(Have) : ~TrustedBefore(e, f)}))
=============================================================================
