------------------------------- MODULE MCViews -------------------------------
(***************************************************************************)
(* The consumers of a changefeed, and the navigator of a view.  They share *)
(* nothing but the feed and the tree, which the reader of it does not      *)
(* change, so a behaviour has one of the three.                            *)
(***************************************************************************)
EXTENDS ViewNavigator, SummaryStore, TLC

CONSTANTS d1, d2, setup

VARIABLE part   \* the consumer of this behaviour

MCCatPaths == [v \in Values |-> IF v = "x" THEN {<<"a">>} ELSE {<<"a", "b">>, <<"c">>}]
MCAmount == [v \in Values |-> IF v = "x" THEN 2 ELSE 3]
MCKeyOf == [v \in Values |-> IF v = "x" THEN "k" ELSE "default"]
MCConfigOf == [v \in Values |-> IF v = "x" THEN "c1" ELSE "c2"]
MCRank == [n \in {"a", "b", "c"} \cup Docs |->
             CASE n \in {"c", d1, d2} -> 1 [] n \in {"b", setup} -> 2 [] OTHER -> 3]
MCSortValue == [v \in Values |-> IF v = "x" THEN 2 ELSE 1]
MCDescending == <<TRUE, FALSE>>
MCBudgets == {[binds |-> 1, calls |-> 1, flushes |-> 0, faults |-> 1],
              [binds |-> 0, calls |-> 2, flushes |-> 1, faults |-> 1],
              [binds |-> 2, calls |-> 0, flushes |-> 1, faults |-> 1]}
MCLimits == {[flushes |-> 2, faults |-> 1, sets |-> 0], [flushes |-> 1, faults |-> 2, sets |-> 0],
             [flushes |-> 0, faults |-> 0, sets |-> 1]}
MCBucketOf == [d \in Docs |-> d]

\* The two ordinary documents may change places: they rank alike, and a
\* navigator's tree has only one of them
MCSymmetry == Permutations({d1, d2})

Idle == budget = [binds |-> 1, calls |-> 1, flushes |-> 0, faults |-> 1]
Still == limit = [flushes |-> 0, faults |-> 0, sets |-> 1]

\* A navigator is given any tree of two documents, of which "setup" is the
\* later one where the sort values are equal
TreeOf(shown) == ApplyChanges(EmptyView, {}, shown)
AnyTree ==
  \E first \in {d1, d2} : \E shown \in [{first, setup} -> Entries] :
    view = TreeOf([d \in Docs |-> IF d \in DOMAIN shown THEN shown[d] ELSE None])

Init ==
  /\ FeedInit /\ SummaryInit
  /\ \/ part = "view" /\ ViewInit /\ nav = None /\ Still
     \/ part = "summary" /\ ViewInit /\ nav = None /\ Idle
     \/ /\ part = "navigator"
        /\ provider = NewProvider /\ up = [u \in Updaters |-> None] /\ cache = NewCache
        /\ live = Unbound /\ budget \in Budgets /\ gap = TRUE
        /\ AnyTree /\ NavigatorInit /\ Still /\ Idle

\* In the view's behaviours two of the documents change
Next ==
  \/ /\ part = "view"
     /\ ViewNext
     /\ feed'[setup] = feed[setup]
     /\ UNCHANGED <<summaryVars, nav, part>>
  \/ part = "summary" /\ SummaryNext /\ UNCHANGED <<viewVars, nav, part>>
  \/ part = "navigator" /\ NavigatorNext /\ UNCHANGED <<feed, viewVars, summaryVars, part>>
vars == <<feed, viewVars, summaryVars, nav, part>>
Spec == Init /\ [][Next]_vars
=============================================================================
