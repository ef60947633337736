---------------------------- MODULE ViewNavigator ----------------------------
(***************************************************************************)
(* VirtualViewNavigator: moving through the tree of a view with a stack of *)
(* positions.  The operators are the navigator's methods; a context `c`    *)
(* has the sorted children of every category and the navigator's options,  *)
(* and a stack is a sequence of [at, i]: the i-th child of category `at`,  *)
(* i = 0 before the first.  A move returns [ok, s], as the methods return  *)
(* whether they moved.                                                     *)
(***************************************************************************)
EXTENDS VirtualView, SequencesExt

CONSTANTS
  CategoriesFirst,   \* CategorizationStyle.CATEGORY_THEN_DOCUMENT
  Descending,        \* [level -> BOOLEAN]: sort order of the category columns
  Rank,              \* [category names \cup Docs -> Nat]: collation order
  SortValue          \* [Values -> Nat]: the sort column

VARIABLE nav   \* None, or a navigator: [cats, docs, open, hidden, s]

Category(p) == [path |-> p, doc |-> None]
IsCategory(e) == e.doc = None

(* compareCategories, compareDocuments *)
CategoryBefore(p, q) ==
  LET a == Rank[p[Len(p)]]  b == Rank[q[Len(q)]]
  IN IF Descending[Len(p)] THEN a > b ELSE a < b
DocumentBefore(w, d, e) ==
  LET a == SortValue[w.shown[d]]  b == SortValue[w.shown[e]]
  IN a < b \/ (a = b /\ Rank[d] < Rank[e])

(* ViewEntrySortKeyComparator.compare *)
EntryBefore(w, e, f) ==
  IF IsCategory(e) /= IsCategory(f) THEN IsCategory(e) = CategoriesFirst
  ELSE IF IsCategory(e) THEN CategoryBefore(e.path, f.path)
  ELSE DocumentBefore(w, e.doc, f.doc)

(* getChildEntries *)
Children(w, q) ==
  LET cats == {Category(p) : p \in {r \in DOMAIN w.node : Len(r) = Len(q) + 1 /\ q \in Above(r)}}
      docs == {[path |-> q, doc |-> d] :
               d \in {x \in Docs : w.shown[x] /= None /\ q \in CatPaths[w.shown[x]]}}
  IN SetToSortSeq(cats \cup docs, LAMBDA e, f : EntryBefore(w, e, f))

Context(w, n) ==
  [kids |-> [q \in DOMAIN w.node |-> Children(w, q)],
   cats |-> n.cats, docs |-> n.docs, open |-> n.open, hidden |-> n.hidden]

--------------------------------------------------------------------------------
Top(s) == s[Len(s)]
Readable(c, e) == e.doc \notin c.hidden
Listed(c, e) == Readable(c, e) /\ IF IsCategory(e) THEN c.cats ELSE c.docs

(* getCurrentEntryRaw, getCurrentEntry *)
Raw(c, s) == IF Top(s).i \in DOMAIN c.kids[Top(s).at] THEN c.kids[Top(s).at][Top(s).i] ELSE None
Current(c, s) ==
  LET e == Raw(c, s) IN IF e /= None /\ Listed(c, e) THEN e ELSE None

Moved(s) == [ok |-> TRUE, s |-> s]
Stays(s) == [ok |-> FALSE, s |-> s]

(* The children of `at` that the access check shows, and moves among them. *)
ReadableKids(c, at) == {i \in DOMAIN c.kids[at] : Readable(c, c.kids[at][i])}
At(s, i) == [s EXCEPT ![Len(s)].i = i]

(* gotoNextSibling, gotoPrevSibling *)
NextSibling(c, s) ==
  LET after == {i \in ReadableKids(c, Top(s).at) : i > Top(s).i}
  IN IF after = {} THEN Stays(s) ELSE Moved(At(s, Min(after)))
PrevSibling(c, s) ==
  LET before == {i \in ReadableKids(c, Top(s).at) : i < Top(s).i}
  IN IF before = {} THEN Stays(s) ELSE Moved(At(s, Max(before)))

(* gotoParent *)
GotoParent(s) == IF Len(s) > 1 THEN Moved(Front(s)) ELSE Stays(s)

(* isExpanded with something to show below *)
Opens(c, e) == IsCategory(e) /\ e.path \in c.open /\ ReadableKids(c, e.path) /= {}

(* gotoFirstChild, gotoLastChild *)
FirstChild(c, s, e) == Append(s, [at |-> e.path, i |-> Min(ReadableKids(c, e.path))])
LastChild(c, s, e) == Append(s, [at |-> e.path, i |-> Max(ReadableKids(c, e.path))])

(* Mutant: the search for a next sibling ends at the first parent. *)
NextAboveOnce(c, s) ==
  LET r == NextSibling(c, s)
  IN IF r.ok \/ Len(s) = 1 THEN r ELSE NextSibling(c, Front(s))

(* The loop at the end of gotoNext: up until there is a next sibling. *)
RECURSIVE NextAbove(_, _)
NextAbove(c, s) ==
  LET r == NextSibling(c, s)
  IN IF r.ok \/ Len(s) = 1 THEN r ELSE NextAbove(c, Front(s))

(* gotoNext: on to the next entry that the options list. *)
RECURSIVE GotoNext(_, _)
GotoNext(c, s) ==
  LET e == Raw(c, s)
      r == IF e /= None /\ Opens(c, e) THEN Moved(FirstChild(c, s, e)) ELSE NextAbove(c, s)
  IN IF ~r.ok \/ Current(c, r.s) /= None THEN r ELSE GotoNext(c, r.s)

(* gotoDeepestExpandedDescendant *)
RECURSIVE Deepest(_, _)
Deepest(c, s) ==
  LET e == Raw(c, s) IN IF Opens(c, e) THEN Deepest(c, LastChild(c, s, e)) ELSE s

(* gotoPrev *)
GotoPrev(c, s) ==
  LET r == PrevSibling(c, s)
  IN IF Current(c, s) = None THEN Stays(s)
     ELSE IF ~r.ok THEN GotoParent(s)
     ELSE IF Current(c, r.s) /= None THEN Moved(Deepest(c, r.s)) ELSE r

(* initializeTraversal, gotoFirst, gotoLast *)
Start == <<[at |-> <<>>, i |-> 0]>>
GotoFirst(c) ==
  LET r == NextSibling(c, Start)
  IN IF r.ok /\ Current(c, r.s) = None THEN GotoNext(c, r.s) ELSE r
GotoLast(c) ==
  IF ReadableKids(c, <<>>) = {} THEN Stays(Start)
  ELSE Moved(Deepest(c, At(Start, Max(ReadableKids(c, <<>>)))))

(* gotoPosArray: the sibling indexes from the root down. *)
RECURSIVE GotoPos(_, _, _)
GotoPos(c, s, pos) ==
  IF Head(pos) \notin ReadableKids(c, Top(s).at) THEN Stays(s)
  ELSE LET t == At(s, Head(pos))
       IN IF Len(pos) = 1 THEN Moved(t)
          ELSE IF ~IsCategory(Raw(c, t)) THEN Stays(t)
          ELSE GotoPos(c, Append(t, [at |-> Raw(c, t).path, i |-> 0]), Tail(pos))

(* getPosition: the sibling indexes of an entry and of its parents. *)
IndexOf(c, at, e) == CHOOSE i \in DOMAIN c.kids[at] : c.kids[at][i] = e
Position(c, e) ==
  LET n == Len(e.path)
      way == [k \in 1..n |-> IndexOf(c, SubSeq(e.path, 1, k - 1), Category(SubSeq(e.path, 1, k)))]
  IN IF IsCategory(e) THEN way ELSE Append(way, IndexOf(c, e.path, e))

--------------------------------------------------------------------------------
(* The constructor; a navigator that lists nothing is refused. *)
NavigatorInit ==
  /\ nav \in [cats : BOOLEAN, docs : BOOLEAN, open : {{}, DOMAIN view.node},
             hidden : SUBSET {d \in Docs : view.shown[d] /= None}, s : {Start}]
  /\ nav.cats \/ nav.docs

Move(r) == nav' = [nav EXCEPT !.s = r.s]
Here == Context(view, nav)

(* expand, collapse: the position stays, also in a category that closes. *)
Expand(p) == nav' = [nav EXCEPT !.open = @ \cup {p}]
Collapse(p) == nav' = [nav EXCEPT !.open = @ \ {p}]

All(c) == UNION {ToSet(c.kids[q]) : q \in DOMAIN c.kids}

NavigatorNext ==
  \/ Move(GotoFirst(Here))
  \/ Move(GotoLast(Here))
  \/ Move(GotoNext(Here, nav.s))
  \/ Move(GotoPrev(Here, nav.s))
  \/ Move(NextSibling(Here, nav.s))
  \/ Move(PrevSibling(Here, nav.s))
  \/ Move(GotoParent(nav.s))
  \/ \E e \in All(Here) : Move(GotoPos(Here, Start, Position(Here, e)))
  \/ \E p \in DOMAIN view.node \ {<<>>} : Expand(p) \/ Collapse(p)

--------------------------------------------------------------------------------
(* The entries in the order of the tree: what a reader sees from top to bottom. *)
RECURSIVE Listing(_, _)
Listing(c, q) ==
  FlattenSeq([i \in DOMAIN c.kids[q] |->
    LET e == c.kids[q][i]
    IN IF ~Readable(c, e) THEN <<>>
       ELSE (IF Listed(c, e) THEN <<e>> ELSE <<>>)
            \o (IF IsCategory(e) /\ e.path \in c.open THEN Listing(c, e.path) ELSE <<>>)])

(***************************************************************************)
(* After any moves, expansions and collapses: gotoFirst, and gotoNext from *)
(* a listed entry, lead through the listing without gap or repetition;     *)
(* gotoLast and gotoPrev lead back if categories and documents are both    *)
(* listed (else gotoPrev stops on the first entry that is not); and the    *)
(* position of an entry leads to it.                                       *)
(***************************************************************************)
NavigationAgrees ==
  nav /= None =>
    LET c == Here
        L == Listing(c, <<>>)
        e == Current(c, nav.s)
        Leads(r, i) == IF i \in DOMAIN L THEN r.ok /\ Current(c, r.s) = L[i] ELSE ~r.ok
    IN /\ Leads(GotoFirst(c), 1)
       /\ c.cats /\ c.docs => Leads(GotoLast(c), Len(L))
       /\ \A i \in DOMAIN L : L[i] = e =>
            /\ Leads(GotoNext(c, nav.s), i + 1)
            /\ c.cats /\ c.docs => Leads(GotoPrev(c, nav.s), i - 1)
       /\ \A f \in All(c) : Readable(c, f) =>
            LET r == GotoPos(c, Start, Position(c, f)) IN r.ok /\ Raw(c, r.s) = f
=============================================================================
