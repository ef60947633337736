------------------------------- MODULE DocDag -------------------------------
(***************************************************************************)
(* The entries of one document as a graph, and what the analysis and the   *)
(* planners compute from their metadata: ancestors, heads, grounded        *)
(* slices, deletion, materialization plans, orders, lanes and merge bases. *)
(*                                                                         *)
(* made[e] is an entry: its kind, its createdAt stamp (the clock of its    *)
(* author, so a child may be stamped before its parent), its dependencies, *)
(* the paths it puts a value at, and whether its signature verifies.  A    *)
(* snapshot's dependencies are its snapshotHeadEntryIds.  The operators    *)
(* take the set S of entries that a store or a slice of it holds.          *)
(***************************************************************************)
EXTENDS Integers, FiniteSets, SequencesExt

CONSTANTS
  Key,    \* the order of the entry ids, which are hashes
  None

VARIABLE made

Entries == DOMAIN made
Kind(e) == made[e].kind
Deps(e) == made[e].deps
Stamp(e) == made[e].at

(* isReplayEntry; the other entries of a document's graph are snapshots *)
Replay(S) == {e \in S : Kind(e) /= "snapshot"}
Snapshots(S) == {e \in S : Kind(e) = "snapshot"}
Lifecycle == {"delete", "undelete"}

(* compareByCreatedAtThenId *)
Before(e, f) == Stamp(e) < Stamp(f) \/ (Stamp(e) = Stamp(f) /\ Key[e] < Key[f])
Latest(S) == CHOOSE e \in S : \A f \in S \ {e} : Before(f, e)

(* collectReplayAncestors: an entry with what it rests on, inside S *)
Ancestors(S, e) ==
  LET A[i \in Entries] == IF i \in Replay(S) THEN {i} \cup UNION {A[d] : d \in Deps(i)} ELSE {}
  IN A[e]
Reach(S, R) == UNION {Ancestors(S, r) : r \in R}

(* findActiveReplayHeads *)
Heads(S) == {e \in Replay(S) : \A f \in Replay(S) : e \notin Deps(f)}

(***************************************************************************)
(* What Automerge makes of a set of changes: a change whose dependencies   *)
(* are missing waits, and is not part of the document.                     *)
(***************************************************************************)
Merged(C) == {e \in C : Reach(Entries, {e}) \subseteq C}
Verified(C) == {e \in C : made[e].valid}

--------------------------------------------------------------------------------
(* pruneToGroundedEntries: what the snapshots of a slice vouch for, and the
   entries that rest on something outside. *)
Vouched(S) ==
  LET roots == UNION {Deps(s) : s \in Snapshots(S)}
  IN roots \cup UNION {Deps(e) \cup {e} : e \in Reach(S, roots)}

Grounded(S) ==
  LET U[e \in Entries] ==
        /\ e \notin Vouched(S)
        /\ \E d \in Deps(e) : IF d \in Replay(S) THEN U[d] ELSE d \notin Vouched(S)
  IN S \ {e \in Replay(S) : U[e]}

(* isDeletedFromHeads: of the delete and undelete entries below the heads,
   the latest that no other one rests on decides. *)
IsDeletedFromHeads(S, H) ==
  LET terminal == {e \in Reach(S, H) : Kind(e) \in Lifecycle}
      surviving == {e \in terminal : \A f \in terminal \ {e} : e \notin Ancestors(S, f)}
  IN surviving /= {} /\ Kind(Latest(surviving)) = "delete"

(* computeIsDeletedFromMetadata *)
IsDeleted(S) == IsDeletedFromHeads(S, Heads(S))

--------------------------------------------------------------------------------
(* The snapshot that covers most; of equals the latest, then the first.
   covers[s]: the entries that snapshot s covers. *)
BestSnapshot(covers) ==
  LET Better(s, t) ==
        \/ Cardinality(covers[s]) > Cardinality(covers[t])
        \/ /\ Cardinality(covers[s]) = Cardinality(covers[t])
           /\ Stamp(s) > Stamp(t) \/ (Stamp(s) = Stamp(t) /\ s < t)
      C == DOMAIN covers
  IN IF C = {} THEN None ELSE CHOOSE s \in C : \A t \in C \ {s} : Better(s, t)

PlanOf(snapshot, entries) == [snapshot |-> snapshot, apply |-> entries]

(* computeDocumentMaterializationPlan *)
LatestPlan(S) ==
  LET all == Reach(S, Heads(S))
      best == BestSnapshot([s \in Snapshots(S) |-> Reach(S, Deps(s)) \cap all])
  IN IF Replay(S) = {} THEN PlanOf(IF Snapshots(S) = {} THEN None ELSE Latest(Snapshots(S)), {})
     ELSE PlanOf(best, all \ (IF best = None THEN {} ELSE Reach(S, Deps(best))))

(* Mutant: a snapshot serves a branch if it shares a root with it. *)
HeadsPlanLoose(S, H) ==
  LET all == Reach(S, H \cap Replay(S))
      fit == {s \in Snapshots(S) : Deps(s) \cap all /= {}}
      covers == [s \in fit |-> Reach(S, Deps(s) \cap all)]
      best == BestSnapshot(covers)
  IN IF H \cap Replay(S) = {} THEN None
     ELSE PlanOf(best, all \ (IF best = None THEN {} ELSE covers[best]))

(* computeHeadsMaterializationPlan, chooseBestBranchSnapshot *)
HeadsPlan(S, H) ==
  LET all == Reach(S, H \cap Replay(S))
      fit == {s \in Snapshots(S) : Deps(s) /= {} /\ Deps(s) \subseteq all}
      covers == [s \in fit |-> Reach(S, Deps(s) \cap all)]
      best == BestSnapshot(covers)
  IN IF H \cap Replay(S) = {} THEN None
     ELSE PlanOf(best, all \ (IF best = None THEN {} ELSE covers[best]))

(* A snapshot entry decrypts to the document its author had. *)
SnapshotContent(s) == Reach(Entries, Deps(s))

(* materializeDocumentFromPlan: a snapshot that does not verify is left out,
   and the entries of the plan are applied to an empty document instead. *)
Materialized(plan) ==
  Merged((IF plan.snapshot = None \/ ~made[plan.snapshot].valid THEN {}
          ELSE SnapshotContent(plan.snapshot)) \cup Verified(plan.apply))

--------------------------------------------------------------------------------
(* Kahn's algorithm: the first of the entries whose dependencies are out. *)
Ordered(S, First(_, _)) ==
  LET out[n \in 0..Cardinality(S)] ==
        IF n = 0 THEN <<>>
        ELSE LET left == S \ ToSet(out[n - 1])
                 ready == {e \in left : Deps(e) \cap left = {}}
             IN Append(out[n - 1], CHOOSE e \in ready : \A f \in ready \ {e} : First(e, f))
  IN out[Cardinality(S)]

(* orderDagEntriesCausally, topologicalByDependencies *)
CausalOrder(S) == Ordered(S, Before)
ById(e, f) == Key[e] < Key[f]
Topological(S) == Ordered(S, ById)

(***************************************************************************)
(* buildHistoricalLanePlan: lanes are numbered as they are made, first one *)
(* per head.  From the latest stamp to the earliest an entry hands its     *)
(* lane to its first dependency, and joins those of the others.            *)
(***************************************************************************)
SortedDeps(S, e) == SetToSortSeq(Deps(e) \cap Replay(S), Before)

Joins(l, e, lane) ==
  [l EXCEPT !.of[e] = @ \cup {lane}, !.primary[e] = IF @ = None THEN lane ELSE @]
NewLane(l, e) == Joins([l EXCEPT !.count = @ + 1], e, l.count + 1)

HandDown(l, e, d, first) ==
  IF first THEN Joins(l, d, l.primary[e])
  ELSE LET k == IF l.primary[d] = None THEN NewLane(l, d) ELSE l
       IN Joins(k, e, k.primary[d])

Lanes(S) ==
  LET empty == [count |-> 0, of |-> [e \in Replay(S) |-> {}], primary |-> [e \in Replay(S) |-> None]]
      heads == FoldLeft(NewLane, empty, SetToSortSeq(Heads(S), Before))
      Visit(l, e) ==
        LET k == IF l.primary[e] = None THEN NewLane(l, e) ELSE l
            deps == SortedDeps(S, e)
        IN FoldLeft(LAMBDA x, i : HandDown(x, e, deps[i], i = 1), k, [i \in DOMAIN deps |-> i])
  IN FoldLeft(Visit, heads, Reverse(SetToSortSeq(Replay(S), Before)))

(* computeDocumentDagAnalysis, buildBranchSummary: the heads an entry belongs
   to, the state after it, and the branch of a head. *)
BranchHeads(S, e) ==
  {h \in Heads(S) : IF e \in Replay(S) THEN e \in Ancestors(S, h)
                    ELSE Deps(e) /= {} /\ Deps(e) \subseteq Ancestors(S, h)}
DeletedAfter(S, e) == IsDeletedFromHeads(S, IF e \in Replay(S) THEN {e} ELSE Deps(e))
Branch(S, h) ==
  [entries |-> SetToSortSeq(Ancestors(S, h), Before), snapshot |-> HeadsPlan(S, {h}).snapshot,
   deleted |-> DeletedAfter(S, h)]

(* computeConflictMergeBaseEntryId: of the common ancestors that are below no
   other one, the latest.  A dependency that S lacks counts as an ancestor. *)
Line(S, e) == {e} \cup UNION {Deps(a) \cup {a} : a \in Ancestors(S, e)}
StampIn(S, e) == IF e \in S THEN Stamp(e) ELSE 0
MergeBase(S, parents) ==
  LET common == {a \in Entries : \A p \in parents : a \in Line(S, p)}
      deepest == {a \in common : \A b \in common \ {a} : a \notin Line(S, b)}
      First(a, b) ==
        \/ StampIn(S, a) > StampIn(S, b)
        \/ StampIn(S, a) = StampIn(S, b) /\ Key[a] < Key[b]
  IN IF deepest = {} THEN None ELSE CHOOSE a \in deepest : \A b \in deepest \ {a} : First(a, b)
=============================================================================
