----------------------------- MODULE SyncProofs -----------------------------
(***************************************************************************)
(* Proofs about the client's side of a sync.                               *)
(*                                                                         *)
(* StoreSync: type correctness, and CursorComplete by way of the inductive *)
(* invariant TypeOK /\ SyncInv.  The argument has two halves.  What a write *)
(* to a store does to every record and session that looks at it is one     *)
(* lemma per part of SyncInv (the ...Kept lemmas): a write only appends    *)
(* behind all positions given out before (Grows), or it starts a new       *)
(* lineage.  What a step of a session does to the session itself is one    *)
(* lemma per step.                                                         *)
(*                                                                         *)
(* HttpTransport: the shared gate for every number of requests, slots,     *)
(* attempts and faults: slots are conserved, a pause holds, and a          *)
(* cancelled request sends at most what was in the gate.                   *)
(*                                                                         *)
(* ClientStore: the network stores for every number of stores and          *)
(* operations: tokens are issued, renewed and of the right identity.       *)
(***************************************************************************)
EXTENDS HttpTransport, ClientStore, StoreSync, StoreOpsProofs

(***************************************************************************)
(* The sync engine                                                         *)
(***************************************************************************)

\* What a step may do to a store: a write, or a reset to a later lineage
Moves(s, n) == Grows(s, n) \/ n.epoch > s.epoch

-----------------------------------------------------------------------------
(* What writes leave intact *)

(* A covered cursor stays covered: new positions are behind it. *)
LEMMA CoveredKept ==
    ASSUME NEW s \in Store, NEW n \in Store, Grows(s, n), NEW done, NEW done2,
           done \subseteq done2, NEW c \in Cursor, c.order < s.next,
           CoveredIn(s, done, c)
    PROVE  CoveredIn(n, done2, c) /\ c.order < n.next
<1>1. /\ s.next \in Nat /\ n.next \in Nat /\ c.order \in Nat
      /\ \A i \in Ids : s.order[i] \in Nat /\ n.order[i] \in Nat
  BY DEF Store, Cursor
<1>2. c.order < n.next
  BY <1>1 DEF Grows
<1>3. ASSUME NEW i \in Stored(n), i \notin done2
      PROVE  Precedes(c, Position(n, i))
  <2>1. CASE n.order[i] = s.order[i]
    BY <1>1, <1>3, <2>1 DEF CoveredIn, Stored, Precedes, Position
  <2>2. CASE n.order[i] >= s.next
    BY <1>1, <1>3, <2>2 DEF Stored, Precedes, Position
  <2> QED BY <2>1, <2>2, <1>1 DEF Grows, Stored
<1> QED BY <1>2, <1>3 DEF CoveredIn

(* A saved cursor stays sound, or stops being current. *)
LEMMA RecordKept ==
    ASSUME NEW s \in Store, NEW n \in Store, NEW t \in Store, NEW m \in Store,
           Moves(s, n), Moves(t, m), NEW done, NEW done2,
           m.epoch = t.epoch => done \subseteq done2,
           NEW r \in Record, RecordIn(s, t, done, r)
    PROVE  RecordIn(n, m, done2, r)
<1>1. /\ s.epoch \in Nat /\ n.epoch \in Nat /\ t.epoch \in Nat /\ m.epoch \in Nat
      /\ r.srcEpoch \in Nat /\ r.tgtEpoch \in Nat /\ r.cursor \in Cursor
  BY DEF Store, Record
<1>2. n.epoch >= s.epoch /\ m.epoch >= t.epoch
  BY <1>1 DEF Moves, Grows
<1>3. r.srcEpoch <= n.epoch /\ r.tgtEpoch <= m.epoch
  BY <1>1, <1>2 DEF RecordIn
<1>4. ASSUME r.srcEpoch = n.epoch, r.tgtEpoch = m.epoch
      PROVE  CoveredIn(n, done2, r.cursor) /\ r.cursor.order < n.next
  <2>1. s.epoch = n.epoch /\ t.epoch = m.epoch
    BY <1>1, <1>2, <1>4 DEF RecordIn
  <2>2. Grows(s, n)
    BY <2>1, <1>1 DEF Moves
  <2> QED BY <1>1, <1>4, <2>1, <2>2, CoveredKept DEF RecordIn
<1> QED BY <1>3, <1>4 DEF RecordIn

LEMMA HeadKept ==
    ASSUME NEW s \in Store, NEW n \in Store, Moves(s, n), NEW h \in HeadSet, HeadIn(s, h)
    PROVE  HeadIn(n, h)
BY DEF Store, HeadSet, HeadIn, Moves, Grows

(* An entry between two positions given out before is where it was. *)
LEMMA BetweenKept ==
    ASSUME NEW s \in Store, NEW n \in Store, Grows(s, n),
           NEW c \in Cursor, NEW d \in Cursor, d.order < s.next,
           NEW i \in Ids, Between(n, i, c, d)
    PROVE  Between(s, i, c, d) /\ n.order[i] = s.order[i] /\ Position(n, i) = Position(s, i)
<1>1. /\ s.next \in Nat /\ d.order \in Nat /\ s.order[i] \in Nat /\ n.order[i] \in Nat
  BY DEF Store, Cursor
<1>2. n.order[i] = s.order[i]
  BY <1>1 DEF Grows, Between, Stored, Precedes, Position
<1> QED BY <1>2 DEF Between, Stored, Position

(* A page read earlier still has all the entries it is responsible for. *)
LEMMA ScanKept ==
    ASSUME NEW s \in Store, NEW n \in Store, Grows(s, n), NEW done, NEW done2,
           done \subseteq done2, NEW c \in Cursor, NEW a \in Scan, ScanIn(s, done, c, a)
    PROVE  ScanIn(n, done2, c, a)
<1>1. s.next \in Nat /\ n.next \in Nat /\ a.nextCursor \in Cursor /\ a.nextCursor.order \in Nat
  BY DEF Store, Scan, Cursor
<1>2. a.nextCursor.order < n.next
  BY <1>1 DEF Grows, ScanIn
<1>3. ASSUME NEW i \in Ids, Between(n, i, c, a.nextCursor)
      PROVE  i \in done2 \/ Position(n, i) \in a.entries
  BY <1>1, <1>3, BetweenKept DEF ScanIn
<1> QED BY <1>2, <1>3 DEF ScanIn

LEMMA PageKept ==
    ASSUME NEW s \in Store, NEW n \in Store, Grows(s, n), NEW done, NEW done2,
           done \subseteq done2, NEW q \in Session, PageIn(q, s, done)
    PROVE  PageIn(q, n, done2)
<1>1. s.next \in Nat /\ n.next \in Nat /\ q.cursor \in Cursor
      /\ q.page.end \in Cursor /\ q.page.end.order \in Nat
  BY DEF Store, Session, Page, Cursor
<1>2. q.page.end.order < n.next
  BY <1>1 DEF Grows, PageIn
<1>3. ASSUME NEW i \in Ids, Between(n, i, q.cursor, q.page.end)
      PROVE  i \in done2 \/ (i \in q.page.ids /\ n.order[i] <= q.sh.max)
  BY <1>1, <1>3, BetweenKept DEF PageIn
<1> QED BY <1>2, <1>3 DEF PageIn

LEMMA FinishedKept ==
    ASSUME NEW s \in Store, NEW n \in Store, Grows(s, n), NEW done, NEW done2,
           done \subseteq done2, NEW q \in Session, q.sh.max < s.next,
           NEW i \in Ids, Finished(q, s, done, i)
    PROVE  Finished(q, n, done2, i)
<1>1. s.next \in Nat /\ q.sh.max \in Nat /\ s.order[i] \in Nat /\ n.order[i] \in Nat
  BY DEF Store, Session, HeadSet
<1> QED BY <1>1 DEF Finished, Grows, Stored

LEMMA ScanningKept ==
    ASSUME NEW s \in Store, NEW n \in Store, Grows(s, n), NEW done, NEW done2,
           done \subseteq done2, NEW q \in Session, q.sh.max < s.next,
           ScanningIn(q, s, done)
    PROVE  ScanningIn(q, n, done2)
<1>1. /\ q.cursor \in Cursor /\ q.ahead \in Scan /\ q.page.end \in Cursor
      /\ q.page.ids \subseteq Ids /\ q.sent \subseteq Ids
  BY DEF Session, Page
<1>2. CoveredIn(n, done2, q.cursor) /\ q.cursor.order < n.next
  BY <1>1, CoveredKept DEF ScanningIn
<1>3. ~q.failed => \A i \in q.sent : Finished(q, n, done2, i) \/ UnderWay(q, i)
  BY <1>1, FinishedKept DEF ScanningIn
<1>4. q.pc = "scan" /\ q.ahead # NoScan => ScanIn(n, done2, q.cursor, q.ahead)
  BY <1>1, ScanKept DEF ScanningIn
<1>5. q.pc \in {"filter", "transfer"} =>
         /\ PageIn(q, n, done2)
         /\ q.ahead # NoScan => ScanIn(n, done2, q.page.end, q.ahead)
  BY <1>1, ScanKept, PageKept DEF ScanningIn
<1>6. q.pc = "transfer" => \A i \in q.page.ids : i \in q.sent \/ Finished(q, n, done2, i)
  BY <1>1, FinishedKept DEF ScanningIn
<1> QED BY <1>2, <1>3, <1>4, <1>5, <1>6 DEF ScanningIn

(* Writes of others do not invalidate what a session has read and done. *)
LEMMA SessionKept ==
    ASSUME NEW s \in Store, NEW n \in Store, NEW t \in Store, NEW m \in Store,
           Moves(s, n), Moves(t, m), NEW done, NEW done2,
           m.epoch = t.epoch => done \subseteq done2,
           NEW q \in Session, SessionIn(q, s, t, done)
    PROVE  SessionIn(q, n, m, done2)
<1>1. /\ q.held \in Record /\ q.sh \in HeadSet /\ q.th \in HeadSet
      /\ q.sh.epoch \in Nat /\ q.th.epoch \in Nat
      /\ s.epoch \in Nat /\ n.epoch \in Nat /\ t.epoch \in Nat /\ m.epoch \in Nat
  BY DEF Session, HeadSet, Store
<1>2. RecordIn(n, m, done2, q.held)
  BY <1>1, RecordKept DEF SessionIn
<1>3. HeadIn(n, q.sh) /\ HeadIn(m, q.th)
  BY <1>1, HeadKept DEF SessionIn
<1>4. ASSUME Live(q, n, m)
      PROVE  Live(q, s, t) /\ Grows(s, n) /\ m.epoch = t.epoch /\ q.sh.max < s.next
  BY <1>1, <1>4 DEF Live, SessionIn, HeadIn, Moves, Grows
<1>5. ASSUME q.pc \in {"bloom", "scan", "filter", "transfer"}, Live(q, n, m)
      PROVE  ScanningIn(q, n, done2)
  BY <1>4, <1>5, ScanningKept DEF SessionIn
<1> QED BY <1>2, <1>3, <1>5 DEF SessionIn

-----------------------------------------------------------------------------
(* What the steps of a session leave intact in the session *)

(* A session that has ended, and one that only has to process, is sound. *)
LEMMA IdleOK ==
    ASSUME NEW s \in Store, NEW t \in Store, NEW done
    PROVE  /\ Idle \in Session /\ SessionIn(Idle, s, t, done)
           /\ [Idle EXCEPT !.pc = "process"] \in Session
           /\ SessionIn([Idle EXCEPT !.pc = "process"], s, t, done)
           /\ NoRecord \in Record /\ RecordIn(s, t, done, NoRecord)
<1>1. s.epoch \in Nat \ {0} /\ t.epoch \in Nat \ {0}
  BY DEF Store
<1>2. StartCursor \in Cursor /\ NoRecord \in Record /\ NoHead \in HeadSet /\ NoScan \in Scan /\ NoPage \in Page
  BY FS_EmptySet DEF StartCursor, Cursor, NoRecord, Record, NoHead, HeadSet, NoScan, Scan, NoPage, Page, Positions
<1>3. Idle \in Session /\ [Idle EXCEPT !.pc = "process"] \in Session
  BY <1>2 DEF Idle, Session
<1>4. RecordIn(s, t, done, NoRecord) /\ HeadIn(s, NoHead) /\ HeadIn(t, NoHead)
  BY <1>1 DEF RecordIn, NoRecord, HeadIn, NoHead
<1> QED BY <1>2, <1>3, <1>4 DEF SessionIn, Idle

(* Start: the record the session reads is sound. *)
LEMMA StartOK ==
    ASSUME NEW s \in Store, NEW t \in Store, NEW done,
           NEW r \in Record, RecordIn(s, t, done, r)
    PROVE  LET q == [Idle EXCEPT !.pc = "heads", !.held = r]
           IN  q \in Session /\ SessionIn(q, s, t, done)
<1> DEFINE q == [Idle EXCEPT !.pc = "heads", !.held = r]
<1>1. Idle \in Session /\ SessionIn(Idle, s, t, done)
  BY IdleOK
<1>2. q \in Session
  BY <1>1 DEF Session
<1>3. SessionIn(q, s, t, done)
  BY <1>1 DEF SessionIn, Idle
<1> QED BY <1>2, <1>3

LEMMA HeadReadOK ==
    ASSUME NEW s \in Store, NEW t \in Store
    PROVE  /\ StoreHead(s) \in HeadSet /\ HeadIn(s, StoreHead(s))
           /\ NoHead \in HeadSet /\ HeadIn(s, NoHead)
BY DEF Store, StoreHead, HeadSet, HeadIn, NoHead

LEMMA FetchSourceHeadOK ==
    ASSUME NEW s \in Store, NEW t \in Store, NEW done, NEW q \in Session,
           SessionIn(q, s, t, done), q.pc = "heads", NEW h \in HeadSet, HeadIn(s, h)
    PROVE  LET n == [q EXCEPT !.sh = h, !.shRead = TRUE]
           IN  n \in Session /\ SessionIn(n, s, t, done)
<1> DEFINE n == [q EXCEPT !.sh = h, !.shRead = TRUE]
<1>1. n \in Session
  BY DEF Session
<1>2. SessionIn(n, s, t, done)
  BY DEF SessionIn, Session
<1> QED BY <1>1, <1>2

LEMMA FetchTargetHeadOK ==
    ASSUME NEW s \in Store, NEW t \in Store, NEW done, NEW q \in Session,
           SessionIn(q, s, t, done), q.pc = "heads", NEW h \in HeadSet, HeadIn(t, h)
    PROVE  LET n == [q EXCEPT !.th = h, !.thRead = TRUE]
           IN  n \in Session /\ SessionIn(n, s, t, done)
<1> DEFINE n == [q EXCEPT !.th = h, !.thRead = TRUE]
<1>1. n \in Session
  BY DEF Session
<1>2. SessionIn(n, s, t, done)
  BY DEF SessionIn, Session
<1> QED BY <1>1, <1>2

(* The scan begins at a covered cursor: the held one, or the start. *)
LEMMA BeginScanOK ==
    ASSUME NEW s \in Store, NEW t \in Store, NEW done, NEW q \in Session,
           SessionIn(q, s, t, done), q.pc = "heads", NEW c \in Cursor,
           Live(q, s, t) => CoveredIn(s, done, c) /\ c.order < s.next
    PROVE  LET n == [q EXCEPT !.pc = "bloom", !.cursor = c]
           IN  n \in Session /\ SessionIn(n, s, t, done)
<1> DEFINE n == [q EXCEPT !.pc = "bloom", !.cursor = c]
<1>1. n \in Session
  BY DEF Session
<1>2. /\ n.pc = "bloom" /\ n.held = q.held /\ n.sh = q.sh /\ n.th = q.th /\ n.cursor = c
      /\ n.todo = {} /\ n.work = {} /\ n.sent = {} /\ n.ahead = NoScan
  BY DEF Session, SessionIn
<1> HIDE DEF n
<1>3. Live(n, s, t) => ScanningIn(n, s, done)
  BY <1>2 DEF Live, ScanningIn
<1>4. SessionIn(n, s, t, done)
  BY <1>2, <1>3 DEF SessionIn
<1> QED BY <1>1, <1>4 DEF n

(* Nothing is before the start cursor. *)
LEMMA StartCovered ==
    ASSUME NEW s \in Store, NEW done
    PROVE  StartCursor \in Cursor /\ CoveredIn(s, done, StartCursor) /\ StartCursor.order < s.next
BY DEF StartCursor, Cursor, CoveredIn, Precedes, Position, Stored, Store

LEMMA FetchBloomOK ==
    ASSUME NEW s \in Store, NEW t \in Store, NEW done, NEW q \in Session,
           SessionIn(q, s, t, done), q.pc = "bloom", NEW B \in SUBSET Ids
    PROVE  LET n == [q EXCEPT !.pc = "scan", !.bloom = B]
           IN  n \in Session /\ SessionIn(n, s, t, done)
<1> DEFINE n == [q EXCEPT !.pc = "scan", !.bloom = B]
<1>1. n \in Session
  BY DEF Session
<1>2. /\ n.pc = "scan" /\ n.held = q.held /\ n.sh = q.sh /\ n.th = q.th /\ n.cursor = q.cursor
      /\ n.todo = {} /\ n.work = {} /\ n.sent = {} /\ n.ahead = NoScan
  BY DEF Session, SessionIn
<1> HIDE DEF n
<1>3. Live(n, s, t) => ScanningIn(n, s, done)
  BY <1>2 DEF Live, ScanningIn, SessionIn
<1>4. SessionIn(n, s, t, done)
  BY <1>2, <1>3 DEF SessionIn
<1> QED BY <1>1, <1>4 DEF n

(* A page as the client sees it is complete but for what is done. *)
LEMMA ServedScanOK ==
    ASSUME NEW s \in Store, Numbered(s), NEW done, NEW c \in Cursor,
           NEW W \in SUBSET Ids, Ids \ W \subseteq done
    PROVE  LET p == ScanEntriesSince(s, c, PageSize)
               a == [entries |-> {e \in p.entries : e.id \in W},
                     nextCursor |-> p.nextCursor, hasMore |-> p.hasMore]
           IN  a \in Scan /\ (c.order < s.next => ScanIn(s, done, c, a))
<1> DEFINE p == ScanEntriesSince(s, c, PageSize)
           a == [entries |-> {e \in p.entries : e.id \in W},
                     nextCursor |-> p.nextCursor, hasMore |-> p.hasMore]
<1>1. /\ p \in Scan
      /\ c.order < s.next => p.nextCursor.order < s.next
      /\ \A e \in p.entries : ~Precedes(p.nextCursor, e)
      /\ \A i \in Stored(s) :
            Precedes(c, Position(s, i)) /\ ~Precedes(p.nextCursor, Position(s, i))
              => Position(s, i) \in p.entries
  BY ScanIsComplete, SizesAssumption
<1> HIDE DEF p
<1>2. /\ a.entries = {e \in p.entries : e.id \in W}
      /\ a.nextCursor = p.nextCursor /\ a.hasMore = p.hasMore
      /\ a = [entries |-> a.entries, nextCursor |-> a.nextCursor, hasMore |-> a.hasMore]
  OBVIOUS
<1> HIDE DEF a
<1>3. a.entries \in SUBSET p.entries
  BY <1>2
<1>4. IsFiniteSet(p.entries) /\ p.entries \subseteq Positions /\ p.nextCursor \in Cursor
      /\ p.hasMore \in BOOLEAN
  BY <1>1 DEF Scan
<1>5. IsFiniteSet(a.entries)
  BY <1>3, <1>4, FS_Subset
<1>6. a \in Scan
  BY <1>2, <1>3, <1>4, <1>5 DEF Scan
<1>7. ASSUME NEW i \in Ids, Between(s, i, c, a.nextCursor), i \notin done
      PROVE  Position(s, i) \in a.entries
  <2>1. Position(s, i) \in p.entries
    BY <1>1, <1>2, <1>7 DEF Between
  <2>2. Position(s, i).id = i /\ i \in W
    BY <1>7 DEF Position
  <2> QED BY <1>2, <2>1, <2>2
<1>8. c.order < s.next => ScanIn(s, done, c, a)
  BY <1>1, <1>2, <1>7 DEF ScanIn
<1> QED BY <1>6, <1>8 DEF p, a

(* The clamped page is complete up to its end and within the source head. *)
LEMMA ClampOK ==
    ASSUME NEW s \in Store, NEW done, NEW q \in Session, NEW p \in Scan
    PROVE  LET g == Clamp(q, p)
           IN  /\ g \in Page
               /\ q.sh # NoHead /\ ScanIn(s, done, q.cursor, p) /\ q.cursor.order < s.next =>
                    /\ g.end.order < s.next
                    /\ \A i \in Ids : Between(s, i, q.cursor, g.end)
                          => i \in done \/ (i \in g.ids /\ s.order[i] <= q.sh.max)
<1> DEFINE in == {e \in p.entries : q.sh = NoHead \/ e.order <= q.sh.max}
           g == Clamp(q, p)
           last == LastOf(in, q.cursor)
<1>1. /\ q.cursor \in Cursor /\ q.sh.max \in Nat /\ p.nextCursor \in Cursor
      /\ IsFiniteSet(p.entries) /\ p.entries \subseteq Positions /\ p.hasMore \in BOOLEAN
      /\ s.next \in Nat /\ \A i \in Ids : s.order[i] \in Nat
  BY DEF Session, HeadSet, Scan, Store
<1>2. Positions \subseteq Cursor /\ \A i \in Ids : Position(s, i) \in Cursor
  BY <1>1, IdsAssumption DEF Positions, Cursor, Position
<1>3. in \in SUBSET p.entries
  OBVIOUS
<1>4. IsFiniteSet(in) /\ in \in SUBSET Cursor
  BY <1>1, <1>2, <1>3, FS_Subset
<1>5. /\ last \in Cursor
      /\ in = {} => last = q.cursor
      /\ in # {} => last \in in /\ \A e \in in : ~Precedes(last, e)
  <2> HIDE DEF in
  <2> QED BY <1>1, <1>4, LastOfFinite
<1>6. /\ g.ids = {e.id : e \in in}
      /\ g.end = IF in # p.entries THEN last ELSE p.nextCursor
      /\ g.final \in BOOLEAN
      /\ g = [ids |-> g.ids, end |-> g.end, final |-> g.final]
  BY DEF Clamp
<1> HIDE DEF last, g
<1>7. \A e \in in : e \in Cursor /\ e.id \in Ids
  BY <1>1, <1>2 DEF Positions
<1>8. g \in Page
  <2>1. g.ids \in SUBSET Ids /\ g.end \in Cursor
    <3> HIDE DEF in
    <3> QED BY <1>1, <1>5, <1>6, <1>7
  <2> QED BY <1>6, <2>1 DEF Page
<1>9. ASSUME q.sh # NoHead, ScanIn(s, done, q.cursor, p), q.cursor.order < s.next
      PROVE  /\ g.end.order < s.next
             /\ \A i \in Ids : Between(s, i, q.cursor, g.end)
                   => i \in done \/ (i \in g.ids /\ s.order[i] <= q.sh.max)
  <2>1. \A e \in in : ~Precedes(p.nextCursor, e) /\ e.order < s.next /\ e.order <= q.sh.max
    <3> SUFFICES ASSUME NEW e \in in
                 PROVE  ~Precedes(p.nextCursor, e) /\ e.order < s.next /\ e.order <= q.sh.max
      OBVIOUS
    <3>1. ~Precedes(p.nextCursor, e) /\ p.nextCursor.order < s.next /\ e.order <= q.sh.max
      BY <1>9 DEF ScanIn
    <3>2. e.order \in Nat /\ p.nextCursor.order \in Nat
      BY <1>1, <1>7 DEF Cursor
    <3> QED BY <1>1, <3>1, <3>2 DEF Precedes
  <2>2. g.end.order < s.next
    BY <1>5, <1>6, <1>9, <2>1 DEF ScanIn
  <2>3. ASSUME NEW i \in Ids, Between(s, i, q.cursor, g.end), i \notin done
        PROVE  i \in g.ids /\ s.order[i] <= q.sh.max
    <3>1. ~Precedes(p.nextCursor, Position(s, i))
      <4>1. CASE in = p.entries
        BY <1>6, <2>3, <4>1 DEF Between
      <4>2. CASE in # p.entries /\ in = {}
        BY <1>5, <1>6, <2>3, <4>2 DEF Between
      <4>3. CASE in # p.entries /\ in # {}
        <5>1. last \in in /\ ~Precedes(last, Position(s, i)) /\ ~Precedes(p.nextCursor, last)
          BY <1>5, <1>6, <2>1, <2>3, <4>3 DEF Between
        <5> QED BY <1>1, <1>2, <1>5, <5>1, PrecedesOrder
      <4> QED BY <4>1, <4>2, <4>3
    <3>2. Position(s, i) \in p.entries
      BY <1>9, <2>3, <3>1 DEF ScanIn, Between
    <3>3. s.order[i] <= q.sh.max
      <4>1. CASE in = p.entries
        BY <2>1, <3>2, <4>1 DEF Position
      <4>2. CASE in # p.entries /\ in = {}
        BY <1>5, <1>6, <2>3, <4>2 DEF Between
      <4>3. CASE in # p.entries /\ in # {}
        <5>1. last \in in /\ ~Precedes(last, Position(s, i)) /\ last.order <= q.sh.max
          BY <1>5, <1>6, <2>1, <2>3, <4>3 DEF Between
        <5>2. last.order \in Nat /\ s.order[i] \in Nat
          BY <1>1, <1>5 DEF Cursor
        <5> QED BY <1>1, <5>1, <5>2 DEF Precedes, Position
      <4> QED BY <4>1, <4>2, <4>3
    <3>4. Position(s, i) \in in /\ Position(s, i).id = i
      BY <3>2, <3>3 DEF Position
    <3> QED BY <1>6, <3>3, <3>4
  <2> QED BY <2>2, <2>3
<1> QED BY <1>8, <1>9 DEF g

(* NextPage: the page taken into work is complete up to its end. *)
LEMMA NextPageOK ==
    ASSUME NEW s \in Store, NEW t \in Store, NEW done, NEW q \in Session,
           SessionIn(q, s, t, done), q.pc = "scan", NEW p \in Scan,
           Live(q, s, t) => ScanIn(s, done, q.cursor, p)
    PROVE  LET n == [q EXCEPT !.pc = "filter", !.page = Clamp(q, p), !.ahead = NoScan]
           IN  n \in Session /\ SessionIn(n, s, t, done)
<1> DEFINE n == [q EXCEPT !.pc = "filter", !.page = Clamp(q, p), !.ahead = NoScan]
<1>1. Clamp(q, p) \in Page /\ NoScan \in Scan
  BY ClampOK, FS_EmptySet DEF NoScan, Scan, StartCursor, Cursor
<1>2. n \in Session
  BY <1>1 DEF Session
<1>3. /\ n.pc = "filter" /\ n.held = q.held /\ n.sh = q.sh /\ n.th = q.th
      /\ n.cursor = q.cursor /\ n.page = Clamp(q, p) /\ n.ahead = NoScan
      /\ n.todo = {} /\ n.work = {} /\ n.sent = q.sent /\ n.failed = q.failed
      /\ q.todo = {} /\ q.work = {}
  BY DEF Session, SessionIn
<1> HIDE DEF n
<1>4. ASSUME Live(n, s, t)
      PROVE  ScanningIn(n, s, done)
  <2>1. Live(q, s, t) /\ ScanningIn(q, s, done) /\ ScanIn(s, done, q.cursor, p)
    BY <1>3, <1>4 DEF Live, SessionIn
  <2>2. q.sh # NoHead
    BY <2>1 DEF Live, NoHead, Store
  <2>3. PageIn(n, s, done)
    BY <1>3, <2>1, <2>2, ClampOK DEF PageIn, ScanningIn
  <2>4. \A i \in q.sent : (Finished(n, s, done, i) <=> Finished(q, s, done, i))
                          /\ (UnderWay(n, i) <=> UnderWay(q, i))
    BY <1>3 DEF Finished, UnderWay
  <2> QED BY <1>3, <2>1, <2>3, <2>4 DEF ScanningIn
<1>5. SessionIn(n, s, t, done)
  BY <1>3, <1>4 DEF SessionIn
<1> QED BY <1>2, <1>5 DEF n

(* Prefetch: the page ahead is complete from the end of this one. *)
LEMMA PrefetchOK ==
    ASSUME NEW s \in Store, NEW t \in Store, NEW done, NEW q \in Session,
           SessionIn(q, s, t, done), q.pc \in {"filter", "transfer"}, NEW p \in Scan,
           Live(q, s, t) => ScanIn(s, done, q.page.end, p)
    PROVE  LET n == [q EXCEPT !.ahead = p]
           IN  n \in Session /\ SessionIn(n, s, t, done)
<1> DEFINE n == [q EXCEPT !.ahead = p]
<1>1. n \in Session
  BY DEF Session
<1>2. /\ n.pc = q.pc /\ n.held = q.held /\ n.sh = q.sh /\ n.th = q.th
      /\ n.cursor = q.cursor /\ n.page = q.page /\ n.ahead = p
      /\ n.todo = q.todo /\ n.work = q.work /\ n.sent = q.sent /\ n.failed = q.failed
  BY DEF Session
<1> HIDE DEF n
<1>3. ASSUME Live(n, s, t)
      PROVE  ScanningIn(n, s, done)
  <2>1. Live(q, s, t) /\ ScanningIn(q, s, done) /\ ScanIn(s, done, q.page.end, p)
    BY <1>2, <1>3 DEF Live, SessionIn
  <2>2. PageIn(n, s, done) <=> PageIn(q, s, done)
    BY <1>2 DEF PageIn
  <2>3. \A i : (Finished(n, s, done, i) <=> Finished(q, s, done, i))
              /\ (UnderWay(n, i) <=> UnderWay(q, i))
    BY <1>2 DEF Finished, UnderWay
  <2> QED BY <1>2, <2>1, <2>2, <2>3 DEF ScanningIn
<1>4. SessionIn(n, s, t, done)
  BY <1>2, <1>3 DEF SessionIn
<1> QED BY <1>1, <1>4 DEF n

(* FilterMissing: what is not handed to the workers is at the target. *)
LEMMA FilterMissingOK ==
    ASSUME NEW s \in Store, NEW t \in Store, NEW done, NEW q \in Session,
           SessionIn(q, s, t, done), q.pc = "filter", NEW M \in SUBSET Ids,
           \A i \in q.page.ids : i \in q.sent \/ i \in M \/ i \in done
    PROVE  LET n == [q EXCEPT !.pc = "transfer", !.todo = M, !.sent = @ \cup M]
           IN  n \in Session /\ SessionIn(n, s, t, done)
<1> DEFINE n == [q EXCEPT !.pc = "transfer", !.todo = M, !.sent = @ \cup M]
<1>1. n \in Session
  BY DEF Session
<1>2. /\ n.pc = "transfer" /\ n.held = q.held /\ n.sh = q.sh /\ n.th = q.th
      /\ n.cursor = q.cursor /\ n.page = q.page /\ n.ahead = q.ahead
      /\ n.todo = M /\ n.work = {} /\ n.sent = q.sent \cup M /\ n.failed = q.failed
      /\ q.todo = {} /\ q.work = {}
  BY DEF Session, SessionIn
<1> HIDE DEF n
<1>3. ASSUME Live(n, s, t)
      PROVE  ScanningIn(n, s, done)
  <2>1. Live(q, s, t) /\ ScanningIn(q, s, done)
    BY <1>2, <1>3 DEF Live, SessionIn
  <2>2. PageIn(n, s, done) <=> PageIn(q, s, done)
    BY <1>2 DEF PageIn
  <2>3. /\ \A i : (Finished(n, s, done, i) <=> Finished(q, s, done, i)) /\ ~UnderWay(q, i)
        /\ \A i \in M : UnderWay(n, i)
        /\ \A i \in done : Finished(n, s, done, i)
    BY <1>2 DEF Finished, UnderWay
  <2> QED BY <1>2, <2>1, <2>2, <2>3 DEF ScanningIn
<1>4. SessionIn(n, s, t, done)
  BY <1>2, <1>3 DEF SessionIn
<1> QED BY <1>1, <1>4 DEF n

\* Entry i is among the ids T still to do or in a batch of W
Carried(T, W, i) ==
    \/ i \in T
    \/ \E b \in W : (b.phase = "get" /\ i \in b.ids) \/ (b.phase \in {"put", "store"} /\ i \in b.got)

(* Any step of the transfer that changes only todo, work, moved and failed is
   sound if nothing that still has to be transferred gets lost, unless the
   session has failed. *)
LEMMA WorkOK ==
    ASSUME NEW s \in Store, NEW t \in Store, NEW done, NEW q \in Session,
           SessionIn(q, s, t, done), q.pc = "transfer", NEW T \in SUBSET Ids,
           NEW W \in SUBSET Batch, NEW m \in BOOLEAN, NEW f \in BOOLEAN, q.failed => f,
           ~f => \A i \in q.sent : UnderWay(q, i)
                  => Finished(q, s, done, i) \/ Carried(T, W, i)
    PROVE  LET n == [q EXCEPT !.todo = T, !.work = W, !.moved = m, !.failed = f]
           IN  n \in Session /\ SessionIn(n, s, t, done)
<1> DEFINE n == [q EXCEPT !.todo = T, !.work = W, !.moved = m, !.failed = f]
<1>1. n \in Session
  BY DEF Session
<1>2. /\ n.pc = q.pc /\ n.held = q.held /\ n.sh = q.sh /\ n.th = q.th
      /\ n.cursor = q.cursor /\ n.page = q.page /\ n.ahead = q.ahead
      /\ n.todo = T /\ n.work = W /\ n.sent = q.sent /\ n.failed = f
  BY DEF Session
<1> HIDE DEF n
<1>3. ASSUME Live(n, s, t)
      PROVE  ScanningIn(n, s, done)
  <2>1. Live(q, s, t) /\ ScanningIn(q, s, done)
    BY <1>2, <1>3 DEF Live, SessionIn
  <2>2. PageIn(n, s, done) <=> PageIn(q, s, done)
    BY <1>2 DEF PageIn
  <2>3. \A i : Finished(n, s, done, i) <=> Finished(q, s, done, i)
    BY <1>2 DEF Finished
  <2>4. ~f => \A i \in q.sent : UnderWay(q, i) => Finished(n, s, done, i) \/ UnderWay(n, i)
    BY <1>2, <2>3 DEF UnderWay, Carried
  <2> QED BY <1>2, <2>1, <2>2, <2>3, <2>4 DEF ScanningIn
<1>4. SessionIn(n, s, t, done)
  BY <1>2, <1>3 DEF SessionIn
<1> QED BY <1>1, <1>4 DEF n

(* Writing the whole record is the same as writing some of its fields. *)
LEMMA WorkUpdate ==
    ASSUME NEW q \in Session, NEW T, NEW W, NEW m, NEW f
    PROVE  LET n == [q EXCEPT !.todo = T, !.work = W, !.moved = m, !.failed = f]
           IN  /\ T = q.todo /\ m = q.moved /\ f = q.failed => n = [q EXCEPT !.work = W]
               /\ T = q.todo /\ m = q.moved => n = [q EXCEPT !.work = W, !.failed = f]
               /\ T = q.todo /\ f = q.failed => n = [q EXCEPT !.work = W, !.moved = m]
               /\ m = q.moved /\ f = q.failed => n = [q EXCEPT !.todo = T, !.work = W]
BY DEF Session

LEMMA WorkOnlyOK ==
    ASSUME NEW s \in Store, NEW t \in Store, NEW done, NEW q \in Session,
           SessionIn(q, s, t, done), q.pc = "transfer", NEW W \in SUBSET Batch,
           NEW m \in BOOLEAN,
           \A i \in q.sent : UnderWay(q, i) => Finished(q, s, done, i) \/ Carried(q.todo, W, i)
    PROVE  LET n == [q EXCEPT !.work = W, !.moved = m]
           IN  n \in Session /\ SessionIn(n, s, t, done)
<1> DEFINE T == q.todo
           f == q.failed
           n == [q EXCEPT !.work = W, !.moved = m]
           k == [q EXCEPT !.todo = T, !.work = W, !.moved = m, !.failed = f]
<1>1. T \in SUBSET Ids /\ f \in BOOLEAN
  BY DEF Session
<1>2. k = n
  BY WorkUpdate
<1>3. (q.failed => f) /\ \A i \in q.sent : UnderWay(q, i) => Finished(q, s, done, i) \/ Carried(T, W, i)
  OBVIOUS
<1> HIDE DEF T, f
<1>4. k \in Session /\ SessionIn(k, s, t, done)
  BY <1>1, <1>3, WorkOK
<1> QED BY <1>2, <1>4

LEMMA BatchTakenOK ==
    ASSUME NEW s \in Store, NEW t \in Store, NEW done, NEW q \in Session,
           SessionIn(q, s, t, done), q.pc = "transfer", NEW T \in SUBSET Ids, NEW W \in SUBSET Batch,
           \A i \in q.sent : UnderWay(q, i) => Carried(T, W, i)
    PROVE  LET n == [q EXCEPT !.todo = T, !.work = W]
           IN  n \in Session /\ SessionIn(n, s, t, done)
<1> DEFINE m == q.moved
           f == q.failed
           n == [q EXCEPT !.todo = T, !.work = W]
           k == [q EXCEPT !.todo = T, !.work = W, !.moved = m, !.failed = f]
<1>1. m \in BOOLEAN /\ f \in BOOLEAN
  BY DEF Session
<1>2. k = n
  BY WorkUpdate
<1>3. (q.failed => f) /\ \A i \in q.sent : UnderWay(q, i) => Finished(q, s, done, i) \/ Carried(T, W, i)
  OBVIOUS
<1> HIDE DEF m, f
<1>4. k \in Session /\ SessionIn(k, s, t, done)
  BY <1>1, <1>3, WorkOK
<1> QED BY <1>2, <1>4

(* When a page is done, the cursor at its end is covered. *)
LEMMA PageCovered ==
    ASSUME NEW s \in Store, NEW t \in Store, NEW done, NEW q \in Session,
           SessionIn(q, s, t, done), q.pc = "transfer", Live(q, s, t),
           q.todo = {}, q.work = {}, ~q.failed
    PROVE  CoveredIn(s, done, q.page.end) /\ q.page.end.order < s.next
<1>1. ScanningIn(q, s, done) /\ PageIn(q, s, done)
  BY DEF SessionIn, ScanningIn
<1>2. \A i \in q.page.ids : Finished(q, s, done, i)
  BY <1>1 DEF ScanningIn, UnderWay
<1>3. q.sh.max \in Nat /\ \A i \in Ids : s.order[i] \in Nat
  BY DEF Session, HeadSet, Store
<1>4. ASSUME NEW i \in Stored(s), ~Precedes(q.page.end, Position(s, i))
      PROVE  i \in done
  <2>1. CASE ~Precedes(q.cursor, Position(s, i))
    BY <1>1, <2>1 DEF ScanningIn, CoveredIn
  <2>2. CASE Precedes(q.cursor, Position(s, i))
    <3>1. i \in done \/ (i \in q.page.ids /\ s.order[i] <= q.sh.max)
      BY <1>1, <1>4, <2>2 DEF PageIn, Between, Stored
    <3> QED BY <1>2, <1>3, <3>1 DEF Finished, Stored
  <2> QED BY <2>1, <2>2
<1> QED BY <1>1, <1>4 DEF CoveredIn, PageIn

LEMMA EndPageOK ==
    ASSUME NEW s \in Store, NEW t \in Store, NEW done, NEW q \in Session,
           SessionIn(q, s, t, done), q.pc = "transfer",
           q.todo = {}, q.work = {}, ~q.failed
    PROVE  LET n == [q EXCEPT !.pc = "scan", !.cursor = q.page.end, !.page = NoPage]
           IN  n \in Session /\ SessionIn(n, s, t, done)
<1> DEFINE n == [q EXCEPT !.pc = "scan", !.cursor = q.page.end, !.page = NoPage]
<1>1. NoPage \in Page /\ q.page.end \in Cursor
  BY DEF NoPage, Page, StartCursor, Cursor, Session
<1>2. n \in Session
  BY <1>1 DEF Session
<1>3. /\ n.pc = "scan" /\ n.held = q.held /\ n.sh = q.sh /\ n.th = q.th
      /\ n.cursor = q.page.end /\ n.ahead = q.ahead
      /\ n.todo = {} /\ n.work = {} /\ n.sent = q.sent /\ n.failed = q.failed
  BY DEF Session
<1> HIDE DEF n
<1>4. ASSUME Live(n, s, t)
      PROVE  ScanningIn(n, s, done)
  <2>1. Live(q, s, t) /\ ScanningIn(q, s, done)
    BY <1>3, <1>4 DEF Live, SessionIn
  <2>2. CoveredIn(s, done, q.page.end) /\ q.page.end.order < s.next
    BY <2>1, PageCovered
  <2>3. \A i : (Finished(n, s, done, i) <=> Finished(q, s, done, i)) /\ ~UnderWay(q, i)
    BY <1>3 DEF Finished, UnderWay
  <2> QED BY <1>3, <2>1, <2>2, <2>3 DEF ScanningIn
<1>5. SessionIn(n, s, t, done)
  BY <1>3, <1>4 DEF SessionIn
<1> QED BY <1>2, <1>5 DEF n

LEMMA AbortOK ==
    ASSUME NEW s \in Store, NEW t \in Store, NEW done, NEW q \in Session,
           SessionIn(q, s, t, done)
    PROVE  LET n == [q EXCEPT !.aborted = TRUE]
           IN  n \in Session /\ SessionIn(n, s, t, done)
<1> DEFINE n == [q EXCEPT !.aborted = TRUE]
<1>1. n \in Session
  BY DEF Session
<1>2. /\ n.pc = q.pc /\ n.held = q.held /\ n.sh = q.sh /\ n.th = q.th
      /\ n.cursor = q.cursor /\ n.page = q.page /\ n.ahead = q.ahead
      /\ n.todo = q.todo /\ n.work = q.work /\ n.sent = q.sent /\ n.failed = q.failed
  BY DEF Session
<1> HIDE DEF n
<1>3. /\ Live(n, s, t) <=> Live(q, s, t)
      /\ PageIn(n, s, done) <=> PageIn(q, s, done)
      /\ \A i : (Finished(n, s, done, i) <=> Finished(q, s, done, i))
               /\ (UnderWay(n, i) <=> UnderWay(q, i))
  BY <1>2 DEF Live, PageIn, Finished, UnderWay
<1>4. ScanningIn(q, s, done) => ScanningIn(n, s, done)
  BY <1>2, <1>3 DEF ScanningIn
<1>5. SessionIn(n, s, t, done)
  BY <1>2, <1>3, <1>4 DEF SessionIn
<1> QED BY <1>1, <1>5 DEF n

(* The record a session saves is sound if its cursor is covered. *)
LEMMA SaveOK ==
    ASSUME NEW s \in Store, NEW t \in Store, NEW done, NEW q \in Session,
           SessionIn(q, s, t, done), NEW c \in Cursor,
           Live(q, s, t) => CoveredIn(s, done, c) /\ c.order < s.next
    PROVE  LET r == [srcEpoch |-> q.sh.epoch, tgtEpoch |-> q.th.epoch, cursor |-> c]
           IN  r \in Record /\ RecordIn(s, t, done, r)
BY DEF Session, HeadSet, Record, SessionIn, HeadIn, RecordIn, Live

-----------------------------------------------------------------------------
(* The steps of the specification *)

LEMMA PairTypes ==
    /\ \A x \in Sessions : /\ Src[x] \in Stores /\ Tgt[x] \in Stores /\ Pair(x) \in Pairs
                           /\ Pair(x)[1] = Src[x] /\ Pair(x)[2] = Tgt[x]
    /\ \A p \in Pairs : p[1] \in Stores /\ p[2] \in Stores
BY SessionsAssumption DEF Pairs, Pair

(* A step of session x that does not write to a store: the session's new state
   and the cursor it saves must be sound, nothing else can go wrong. *)
LEMMA LocalStep ==
    ASSUME IndInv, NEW x \in Sessions, NEW q \in Session,
           SessionIn(q, stores[Src[x]], stores[Tgt[x]], Done(Tgt[x])),
           ss' = [ss EXCEPT ![x] = q],
           NEW r \in Record, RecordInv(Pair(x), r),
           cursors' = cursors \/ cursors' = [cursors EXCEPT ![Pair(x)] = r],
           processed' \subseteq Ids, faults' \in Nat,
           UNCHANGED <<stores, settled, saved, environment>>
    PROVE  IndInv'
<1>1. TypeOK'
  BY PairTypes DEF IndInv, TypeOK, environment
<1>2. \A y \in Stores : stores'[y] = stores[y] /\ Done(y)' = Done(y)
  BY DEF Done, environment
<1>3. \A p \in Pairs : RecordInv(p, cursors[p])' /\ RecordInv(p, saved[p])'
  <2> SUFFICES ASSUME NEW p \in Pairs
               PROVE  RecordInv(p, cursors[p])' /\ RecordInv(p, saved[p])'
    OBVIOUS
  <2>1. RecordInv(p, cursors[p]) /\ RecordInv(p, saved[p]) /\ p[1] \in Stores /\ p[2] \in Stores
    BY PairTypes DEF IndInv, SyncInv
  <2>2. cursors'[p] = cursors[p] \/ (p = Pair(x) /\ cursors'[p] = r)
    BY DEF IndInv, TypeOK
  <2> QED BY <1>2, <2>1, <2>2 DEF RecordInv
<1>4. \A y \in Sessions : SessionInv(y)'
  <2> SUFFICES ASSUME NEW y \in Sessions PROVE SessionInv(y)'
    OBVIOUS
  <2>1. SessionInv(y) /\ Src[y] \in Stores /\ Tgt[y] \in Stores
    BY PairTypes DEF IndInv, SyncInv
  <2>2. ss'[y] = IF y = x THEN q ELSE ss[y]
    BY DEF IndInv, TypeOK
  <2> QED BY <1>2, <2>1, <2>2 DEF SessionInv
<1>5. (\A y \in Stores : Numbered(stores[y]))' /\ HistoryOK'
  BY DEF IndInv, SyncInv, HistoryOK, environment
<1> QED BY <1>1, <1>3, <1>4, <1>5 DEF IndInv, SyncInv

\* What every step does to the stores and to the history about them: a write
\* settles what it stores, a reset starts a new history
StoresMove ==
    /\ stores' \in [Stores -> Store] /\ settled' \in [Stores -> SUBSET Ids]
    /\ \A y \in Stores :
         /\ Numbered(stores'[y]) /\ Moves(stores[y], stores'[y])
         /\ stores'[y].epoch = stores[y].epoch => settled[y] \subseteq settled'[y]
         /\ Stored(stores'[y]) \subseteq settled'[y]
    /\ withheld \subseteq withheld' /\ revoked' \subseteq withheld'

(* A step that writes to stores keeps every record and every session sound. *)
LEMMA WriteStep ==
    ASSUME IndInv, StoresMove
    PROVE  /\ \A y \in Stores : Numbered(stores[y])'
           /\ HistoryOK'
           /\ \A p \in Pairs, r \in Record : RecordInv(p, r) => RecordInv(p, r)'
           /\ \A x \in Sessions :
                SessionIn(ss[x], stores'[Src[x]], stores'[Tgt[x]], Done(Tgt[x])')
<1>1. \A y \in Stores : /\ stores[y] \in Store /\ stores'[y] \in Store
                        /\ stores'[y].epoch = stores[y].epoch => Done(y) \subseteq Done(y)'
  BY DEF IndInv, TypeOK, Done, StoresMove
<1>2. ASSUME NEW p \in Pairs, NEW r \in Record, RecordInv(p, r)
      PROVE  RecordInv(p, r)'
  <2>1. p[1] \in Stores /\ p[2] \in Stores
    BY PairTypes
  <2> QED BY <1>1, <1>2, <2>1, RecordKept DEF RecordInv, StoresMove
<1>3. ASSUME NEW x \in Sessions
      PROVE  SessionIn(ss[x], stores'[Src[x]], stores'[Tgt[x]], Done(Tgt[x])')
  <2>1. Src[x] \in Stores /\ Tgt[x] \in Stores
    BY PairTypes
  <2>2. ss[x] \in Session /\ SessionInv(x)
    BY DEF IndInv, TypeOK, SyncInv
  <2> QED BY <1>1, <2>1, <2>2, SessionKept DEF SessionInv, StoresMove
<1> QED BY <1>2, <1>3 DEF HistoryOK, StoresMove

(* The same, for a step that changes at most the session that writes. *)
LEMMA WriteStepInv ==
    ASSUME IndInv, StoresMove,
           withheld' \subseteq Ids, created' \subseteq Ids, processed' \subseteq Ids,
           denied' \in [Stores -> SUBSET Docs], faults' \in Nat,
           UNCHANGED <<cursors, saved>>,
           ss' \in [Sessions -> Session],
           \A x \in Sessions : ss'[x] = ss[x] \/
                SessionIn(ss'[x], stores'[Src[x]], stores'[Tgt[x]], Done(Tgt[x])')
    PROVE  IndInv'
<1>1. TypeOK'
  BY DEF IndInv, TypeOK, StoresMove
<1>2. /\ (\A y \in Stores : Numbered(stores[y]))'
      /\ HistoryOK'
      /\ \A p \in Pairs, r \in Record : RecordInv(p, r) => RecordInv(p, r)'
      /\ \A x \in Sessions : SessionIn(ss[x], stores'[Src[x]], stores'[Tgt[x]], Done(Tgt[x])')
  BY WriteStep
<1>3. \A p \in Pairs : RecordInv(p, cursors[p])' /\ RecordInv(p, saved[p])'
  <2> SUFFICES ASSUME NEW p \in Pairs
               PROVE  RecordInv(p, cursors[p])' /\ RecordInv(p, saved[p])'
    OBVIOUS
  <2>1. cursors[p] \in Record /\ saved[p] \in Record
        /\ RecordInv(p, cursors[p]) /\ RecordInv(p, saved[p])
    BY DEF IndInv, TypeOK, SyncInv
  <2> QED BY <1>2, <2>1 DEF RecordInv
<1>4. \A x \in Sessions : SessionInv(x)'
  BY <1>2 DEF SessionInv
<1> QED BY <1>1, <1>2, <1>3, <1>4 DEF IndInv, SyncInv

(* What the invariant says of one session and its two stores. *)
LEMMA Known ==
    ASSUME IndInv, NEW x \in Sessions
    PROVE  /\ Src[x] \in Stores /\ Tgt[x] \in Stores
           /\ ss[x] \in Session /\ stores[Src[x]] \in Store /\ stores[Tgt[x]] \in Store
           /\ Numbered(stores[Src[x]]) /\ Numbered(stores[Tgt[x]])
           /\ SessionIn(ss[x], stores[Src[x]], stores[Tgt[x]], Done(Tgt[x]))
           /\ cursors[Pair(x)] \in Record /\ RecordInv(Pair(x), cursors[Pair(x)])
           /\ \A r : RecordInv(Pair(x), r)
                       <=> RecordIn(stores[Src[x]], stores[Tgt[x]], Done(Tgt[x]), r)
           /\ Stored(stores[Tgt[x]]) \subseteq Done(Tgt[x]) /\ revoked \subseteq Done(Tgt[x])
           /\ processed \subseteq Ids /\ faults \in Nat
BY PairTypes DEF IndInv, TypeOK, SyncInv, SessionInv, RecordInv, HistoryOK, Done

(* LocalStep for the steps that leave the saved cursors alone. *)
LEMMA SessionStep ==
    ASSUME IndInv, NEW x \in Sessions, NEW q \in Session,
           SessionIn(q, stores[Src[x]], stores[Tgt[x]], Done(Tgt[x])),
           ss' = [ss EXCEPT ![x] = q],
           processed' = processed, faults' \in Nat,
           UNCHANGED <<cursors, stores, settled, saved, environment>>
    PROVE  IndInv'
<1>1. cursors[Pair(x)] \in Record /\ RecordInv(Pair(x), cursors[Pair(x)]) /\ processed' \subseteq Ids
  BY Known
<1> QED BY <1>1, LocalStep

LEMMA StartInv ==
    ASSUME IndInv, NEW x \in Sessions, NEW force \in BOOLEAN, Start(x, force)
    PROVE  IndInv'
<1> DEFINE r == IF force THEN NoRecord ELSE cursors[Pair(x)]
           q == [Idle EXCEPT !.pc = "heads", !.held = r]
<1>1. r \in Record /\ RecordIn(stores[Src[x]], stores[Tgt[x]], Done(Tgt[x]), r)
  BY Known, IdleOK
<1>2. q \in Session /\ SessionIn(q, stores[Src[x]], stores[Tgt[x]], Done(Tgt[x]))
  BY <1>1, Known, StartOK
<1>3. ss' = [ss EXCEPT ![x] = q]
  BY DEF Start
<1> HIDE DEF q
<1> QED BY <1>2, <1>3, Known, SessionStep DEF Start, StoresUnchanged, OthersUnchanged

LEMMA FetchSourceHeadInv ==
    ASSUME IndInv, NEW x \in Sessions, FetchSourceHead(x)
    PROVE  IndInv'
<1>1. PICK h \in {StoreHead(stores[Src[x]])} \cup {NoHead} :
         /\ ss' = [ss EXCEPT ![x].sh = h, ![x].shRead = TRUE]
         /\ faults' = IF h = NoHead THEN faults + 1 ELSE faults
  BY DEF FetchSourceHead
<1>2. h \in HeadSet /\ HeadIn(stores[Src[x]], h)
  BY <1>1, Known, HeadReadOK
<1> DEFINE q == [ss[x] EXCEPT !.sh = h, !.shRead = TRUE]
<1>3. q \in Session /\ SessionIn(q, stores[Src[x]], stores[Tgt[x]], Done(Tgt[x]))
  BY <1>2, Known, FetchSourceHeadOK DEF FetchSourceHead
<1>4. ss' = [ss EXCEPT ![x] = q]
  BY <1>1
<1>5. faults' \in Nat
  BY <1>1, Known
<1> HIDE DEF q
<1> QED BY <1>3, <1>4, <1>5, SessionStep DEF FetchSourceHead, StoresUnchanged

LEMMA FetchTargetHeadInv ==
    ASSUME IndInv, NEW x \in Sessions, FetchTargetHead(x)
    PROVE  IndInv'
<1>1. PICK h \in {StoreHead(stores[Tgt[x]])} \cup {NoHead} :
         /\ ss' = [ss EXCEPT ![x].th = h, ![x].thRead = TRUE]
         /\ faults' = IF h = NoHead THEN faults + 1 ELSE faults
  BY DEF FetchTargetHead
<1>2. h \in HeadSet /\ HeadIn(stores[Tgt[x]], h)
  BY <1>1, Known, HeadReadOK
<1> DEFINE q == [ss[x] EXCEPT !.th = h, !.thRead = TRUE]
<1>3. q \in Session /\ SessionIn(q, stores[Src[x]], stores[Tgt[x]], Done(Tgt[x]))
  BY <1>2, Known, FetchTargetHeadOK DEF FetchTargetHead
<1>4. ss' = [ss EXCEPT ![x] = q]
  BY <1>1
<1>5. faults' \in Nat
  BY <1>1, Known
<1> HIDE DEF q
<1> QED BY <1>3, <1>4, <1>5, SessionStep DEF FetchTargetHead, StoresUnchanged

(* A session that ends without saving its cursor. *)
LEMMA EndInv ==
    ASSUME IndInv, NEW x \in Sessions, EndSession(x), processed' \subseteq Ids, faults' \in Nat,
           UNCHANGED <<cursors, stores, settled, saved, environment>>
    PROVE  IndInv'
<1>1. Idle \in Session /\ SessionIn(Idle, stores[Src[x]], stores[Tgt[x]], Done(Tgt[x]))
  BY Known, IdleOK
<1>2. cursors[Pair(x)] \in Record /\ RecordInv(Pair(x), cursors[Pair(x)])
  BY Known
<1> QED BY <1>1, <1>2, LocalStep DEF EndSession

LEMMA ResumeScanInv ==
    ASSUME IndInv, NEW x \in Sessions, ResumeScan(x)
    PROVE  IndInv'
<1> DEFINE c == ss[x].held.cursor
           q == [ss[x] EXCEPT !.pc = "bloom", !.cursor = c]
<1>1. c \in Cursor
  BY Known DEF Session, Record
<1>2. Live(ss[x], stores[Src[x]], stores[Tgt[x]])
        => CoveredIn(stores[Src[x]], Done(Tgt[x]), c) /\ c.order < stores[Src[x]].next
  BY Known DEF ResumeScan, SameLineage, Live, SessionIn, RecordIn
<1>3. q \in Session /\ SessionIn(q, stores[Src[x]], stores[Tgt[x]], Done(Tgt[x]))
  BY <1>1, <1>2, Known, BeginScanOK DEF ResumeScan, HeadsRead
<1>4. ss' = [ss EXCEPT ![x] = q]
  BY DEF ResumeScan
<1> HIDE DEF q
<1> QED BY <1>3, <1>4, Known, SessionStep DEF ResumeScan, StoresUnchanged, OthersUnchanged

LEMMA FullScanInv ==
    ASSUME IndInv, NEW x \in Sessions, FullScan(x)
    PROVE  IndInv'
<1> DEFINE q == [ss[x] EXCEPT !.pc = "bloom", !.cursor = StartCursor]
<1>1. q \in Session /\ SessionIn(q, stores[Src[x]], stores[Tgt[x]], Done(Tgt[x]))
  BY Known, StartCovered, BeginScanOK DEF FullScan, HeadsRead
<1>2. ss' = [ss EXCEPT ![x] = q]
  BY DEF FullScan
<1>3. NoRecord \in Record /\ RecordInv(Pair(x), NoRecord)
  BY Known, IdleOK
<1>4. processed' \subseteq Ids /\ faults' \in Nat
  BY Known DEF FullScan, OthersUnchanged
<1>5. cursors' = cursors \/ cursors' = [cursors EXCEPT ![Pair(x)] = NoRecord]
  BY DEF FullScan
<1> HIDE DEF q
<1> QED BY <1>1, <1>2, <1>3, <1>4, <1>5, LocalStep DEF FullScan, StoresUnchanged, OthersUnchanged

LEMMA FetchBloomInv ==
    ASSUME IndInv, NEW x \in Sessions, FetchBloom(x)
    PROVE  IndInv'
<1>1. PICK B \in SUBSET Ids : ss' = [ss EXCEPT ![x].pc = "scan", ![x].bloom = B]
  BY DEF FetchBloom
<1> DEFINE q == [ss[x] EXCEPT !.pc = "scan", !.bloom = B]
<1>2. q \in Session /\ SessionIn(q, stores[Src[x]], stores[Tgt[x]], Done(Tgt[x]))
  BY Known, FetchBloomOK DEF FetchBloom
<1>3. ss' = [ss EXCEPT ![x] = q]
  BY <1>1
<1> HIDE DEF q
<1> QED BY <1>2, <1>3, Known, SessionStep DEF FetchBloom, StoresUnchanged, OthersUnchanged

(* scanEntriesSince for session x, started at c. *)
LEMMA ServedScanInv ==
    ASSUME IndInv, NEW x \in Sessions, NEW c \in Cursor
    PROVE  LET a == ServedScan(Src[x], c)
           IN  a \in Scan /\ (c.order < stores[Src[x]].next
                                => ScanIn(stores[Src[x]], Done(Tgt[x]), c, a))
<1>1. Served(Src[x], Ids) \in SUBSET Ids /\ Ids \ Served(Src[x], Ids) \subseteq Done(Tgt[x])
  BY Known DEF Served
<1> QED BY <1>1, Known, ServedScanOK DEF ServedScan

LEMMA NextPageInv ==
    ASSUME IndInv, NEW x \in Sessions, NextPage(x)
    PROVE  IndInv'
<1> DEFINE p == IF ss[x].ahead # NoScan THEN ss[x].ahead ELSE ServedScan(Src[x], ss[x].cursor)
           q == [ss[x] EXCEPT !.pc = "filter", !.page = Clamp(ss[x], p), !.ahead = NoScan]
<1>1. ss[x].cursor \in Cursor /\ ss[x].ahead \in Scan /\ ss[x].pc = "scan"
  BY Known DEF Session, NextPage
<1>2. p \in Scan
  BY <1>1, ServedScanInv
<1>3. ASSUME Live(ss[x], stores[Src[x]], stores[Tgt[x]])
      PROVE  ScanIn(stores[Src[x]], Done(Tgt[x]), ss[x].cursor, p)
  <2>1. ScanningIn(ss[x], stores[Src[x]], Done(Tgt[x]))
    BY <1>1, <1>3, Known DEF SessionIn
  <2> QED BY <1>1, <2>1, ServedScanInv DEF ScanningIn
<1>4. ss' = [ss EXCEPT ![x] = q]
  BY DEF NextPage
<1> HIDE DEF p
<1>5. q \in Session /\ SessionIn(q, stores[Src[x]], stores[Tgt[x]], Done(Tgt[x]))
  BY <1>1, <1>2, <1>3, Known, NextPageOK
<1> HIDE DEF q
<1> QED BY <1>4, <1>5, Known, SessionStep DEF NextPage, StoresUnchanged, OthersUnchanged

LEMMA PrefetchInv ==
    ASSUME IndInv, NEW x \in Sessions, Prefetch(x)
    PROVE  IndInv'
<1> DEFINE p == ServedScan(Src[x], ss[x].page.end)
           q == [ss[x] EXCEPT !.ahead = p]
<1>1. ss[x].page.end \in Cursor /\ ss[x].pc \in {"filter", "transfer"}
  BY Known DEF Session, Page, Prefetch
<1>2. p \in Scan
  BY <1>1, ServedScanInv
<1>3. ASSUME Live(ss[x], stores[Src[x]], stores[Tgt[x]])
      PROVE  ScanIn(stores[Src[x]], Done(Tgt[x]), ss[x].page.end, p)
  <2>1. PageIn(ss[x], stores[Src[x]], Done(Tgt[x]))
    BY <1>1, <1>3, Known DEF SessionIn, ScanningIn
  <2> QED BY <1>1, <2>1, ServedScanInv DEF PageIn
<1>4. ss' = [ss EXCEPT ![x] = q]
  BY DEF Prefetch
<1> HIDE DEF p
<1>5. q \in Session /\ SessionIn(q, stores[Src[x]], stores[Tgt[x]], Done(Tgt[x]))
  BY <1>1, <1>2, <1>3, Known, PrefetchOK
<1> HIDE DEF q
<1> QED BY <1>4, <1>5, Known, SessionStep DEF Prefetch, StoresUnchanged, OthersUnchanged

LEMMA FilterMissingInv ==
    ASSUME IndInv, NEW x \in Sessions, FilterMissing(x)
    PROVE  IndInv'
<1> DEFINE M == MissingIds(x)
           q == [ss[x] EXCEPT !.pc = "transfer", !.todo = M, !.sent = @ \cup M]
<1>1. M \in SUBSET Ids
  BY Known DEF MissingIds, Session, Page
<1>2. \A i \in ss[x].page.ids : i \in ss[x].sent \/ i \in M \/ i \in Done(Tgt[x])
  BY Known DEF MissingIds, HasEntries
<1>3. ss' = [ss EXCEPT ![x] = q]
  BY DEF FilterMissing
<1> HIDE DEF M
<1>4. q \in Session /\ SessionIn(q, stores[Src[x]], stores[Tgt[x]], Done(Tgt[x]))
  BY <1>1, <1>2, Known, FilterMissingOK DEF FilterMissing
<1> HIDE DEF q
<1> QED BY <1>3, <1>4, Known, SessionStep DEF FilterMissing, StoresUnchanged, OthersUnchanged

(* A session that has batches under way is transferring. *)
LEMMA Transferring ==
    ASSUME IndInv, NEW x \in Sessions, NEW b \in ss[x].work
    PROVE  ss[x].pc = "transfer" /\ b \in Batch
BY Known DEF SessionIn, Session

LEMMA TakeBatchInv ==
    ASSUME IndInv, NEW x \in Sessions, TakeBatch(x)
    PROVE  IndInv'
<1>1. PICK B \in SUBSET ss[x].todo :
         ss' = [ss EXCEPT ![x].todo = @ \ B,
                          ![x].work = @ \cup {[ids |-> B, phase |-> "get",
                                               got |-> {}, receipts |-> NoReceipts]}]
  BY DEF TakeBatch
<1> DEFINE c == [ids |-> B, phase |-> "get", got |-> {}, receipts |-> NoReceipts]
           T == ss[x].todo \ B
           W == ss[x].work \cup {c}
           n == [ss[x] EXCEPT !.todo = T, !.work = W]
<1>2. /\ ss[x].pc = "transfer" /\ ss[x].todo \subseteq Ids /\ ss[x].work \subseteq Batch
      /\ ss[x].moved \in BOOLEAN /\ ss[x].failed \in BOOLEAN
  BY Known DEF Session, TakeBatch
<1>3. c \in Batch
  BY <1>2 DEF Batch, NoReceipts, Receipts
<1>4. ASSUME NEW i, UnderWay(ss[x], i)
      PROVE  Carried(T, W, i)
  <2>1. CASE i \in B
    <3>1. c \in W /\ c.phase = "get" /\ c.ids = B
      OBVIOUS
    <3> HIDE DEF c, W, T
    <3> QED BY <2>1, <3>1 DEF Carried
  <2>2. CASE i \in ss[x].todo \ B
    BY <2>2 DEF Carried
  <2>3. CASE i \notin ss[x].todo
    <3>1. PICK b \in ss[x].work : (b.phase = "get" /\ i \in b.ids) \/ (b.phase \in {"put", "store"} /\ i \in b.got)
      BY <1>4, <2>3 DEF UnderWay
    <3>2. b \in W
      OBVIOUS
    <3> QED BY <3>1, <3>2 DEF Carried
  <2> QED BY <2>1, <2>2, <2>3
<1>5. ss' = [ss EXCEPT ![x] = n]
  BY <1>1
<1>6. T \in SUBSET Ids /\ W \in SUBSET Batch
  BY <1>2, <1>3
<1> HIDE DEF c, T, W
<1>7. n \in Session /\ SessionIn(n, stores[Src[x]], stores[Tgt[x]], Done(Tgt[x]))
  <2>1. /\ ss[x] \in Session /\ stores[Src[x]] \in Store /\ stores[Tgt[x]] \in Store
        /\ SessionIn(ss[x], stores[Src[x]], stores[Tgt[x]], Done(Tgt[x]))
    BY Known
  <2>2. \A i \in ss[x].sent : UnderWay(ss[x], i) => Carried(T, W, i)
    BY <1>4
  <2> QED
    BY <1>2, <1>6, <2>1, <2>2, BatchTakenOK
<1> HIDE DEF n
<1> QED BY <1>5, <1>7, Known, SessionStep DEF TakeBatch, StoresUnchanged, OthersUnchanged

LEMMA GetBatchInv ==
    ASSUME IndInv, NEW x \in Sessions, NEW b \in ss[x].work, GetBatch(x, b)
    PROVE  IndInv'
<1> DEFINE S == Served(Src[x], HasEntries(stores[Src[x]], b.ids))
           c == [b EXCEPT !.phase = "put", !.got = S, !.receipts = stores[Src[x]].receipt]
           W == Replace(x, b, c)
           n == [ss[x] EXCEPT !.work = W]
           q == [ss[x] EXCEPT !.work = W, !.moved = ss[x].moved]
<1>1. /\ ss[x].todo \subseteq Ids /\ ss[x].work \subseteq Batch
      /\ ss[x].moved \in BOOLEAN /\ ss[x].failed \in BOOLEAN
  BY Known DEF Session
<1>2. ss[x].pc = "transfer" /\ b \in Batch
  BY Transferring
<1>3. S \subseteq b.ids /\ \A i \in b.ids : i \in S \/ i \in Done(Tgt[x]) \/ i \notin Stored(stores[Src[x]])
  BY Known DEF Served, HasEntries
<1>4. stores[Src[x]].receipt \in [Ids -> Receipts]
  BY Known DEF Store
<1>5. ss' = [ss EXCEPT ![x] = n]
  BY DEF GetBatch
<1> HIDE DEF S
<1>6. c \in Batch /\ c.phase = "put" /\ c.got = S
  BY <1>2, <1>3, <1>4 DEF Batch
<1> HIDE DEF c
<1>7. W = (ss[x].work \ {b}) \cup {c} /\ W \subseteq Batch
  BY <1>1, <1>6 DEF Replace
<1> HIDE DEF W
<1>8. ASSUME NEW i, UnderWay(ss[x], i)
      PROVE  Finished(ss[x], stores[Src[x]], Done(Tgt[x]), i) \/ Carried(ss[x].todo, W, i)
  <2>1. CASE i \in ss[x].todo
    BY <2>1 DEF Carried
  <2>2. CASE \E d \in ss[x].work \ {b} : (d.phase = "get" /\ i \in d.ids)
                                          \/ (d.phase \in {"put", "store"} /\ i \in d.got)
    BY <1>7, <2>2 DEF Carried
  <2>3. CASE i \in b.ids
    BY <1>3, <1>6, <1>7, <2>3 DEF Finished, Carried
  <2> QED BY <1>8, <2>1, <2>2, <2>3 DEF UnderWay, GetBatch
<1>9. q \in Session /\ SessionIn(q, stores[Src[x]], stores[Tgt[x]], Done(Tgt[x]))
  BY <1>1, <1>2, <1>7, <1>8, Known, WorkOnlyOK
<1>10. n = q
  BY Known DEF Session
<1> HIDE DEF q, n
<1> QED BY <1>5, <1>9, <1>10, Known, SessionStep DEF GetBatch, StoresUnchanged, OthersUnchanged

(* A session that has failed may drop any batch. *)
LEMMA DroppedOK ==
    ASSUME NEW s \in Store, NEW t \in Store, NEW done, NEW q \in Session,
           SessionIn(q, s, t, done), q.pc = "transfer", NEW b
    PROVE  LET n == [q EXCEPT !.work = @ \ {b}, !.failed = TRUE]
           IN  n \in Session /\ SessionIn(n, s, t, done)
<1> DEFINE W == q.work \ {b}
           n == [q EXCEPT !.work = W, !.failed = TRUE]
           m == [q EXCEPT !.todo = q.todo, !.work = W, !.moved = q.moved, !.failed = TRUE]
<1>1. q.todo \subseteq Ids /\ W \subseteq Batch /\ q.moved \in BOOLEAN
  BY DEF Session
<1> HIDE DEF W
<1>2. m \in Session /\ SessionIn(m, s, t, done)
  BY <1>1, WorkOK
<1>3. m = n
  BY WorkUpdate
<1> QED BY <1>2, <1>3 DEF W

LEMMA DropBatchInv ==
    ASSUME IndInv, NEW x \in Sessions, NEW b \in ss[x].work,
           DropBatch(x, b) \/ FailBatch(x, b)
    PROVE  IndInv'
<1> DEFINE q == [ss[x] EXCEPT !.work = @ \ {b}, !.failed = TRUE]
<1>1. q \in Session /\ SessionIn(q, stores[Src[x]], stores[Tgt[x]], Done(Tgt[x]))
  BY Known, Transferring, DroppedOK
<1>2. ss' = [ss EXCEPT ![x] = q]
  BY DEF DropBatch, FailBatch
<1>3. faults' \in Nat
  BY Known DEF DropBatch, FailBatch, OthersUnchanged
<1> HIDE DEF q
<1> QED BY <1>1, <1>2, <1>3, SessionStep
        DEF DropBatch, FailBatch, StoresUnchanged, OthersUnchanged

(* A step that writes to one store moves the stores as StoresMove says. *)
LEMMA OneStore ==
    ASSUME IndInv, NEW s \in Stores, NEW n \in Store, Numbered(n), Moves(stores[s], n),
           NEW S \in SUBSET Ids, Stored(n) \subseteq S,
           n.epoch = stores[s].epoch => settled[s] \subseteq S,
           stores' = [stores EXCEPT ![s] = n], settled' = [settled EXCEPT ![s] = S],
           UNCHANGED <<withheld, revoked>>
    PROVE  StoresMove
<1>1. /\ stores \in [Stores -> Store] /\ settled \in [Stores -> SUBSET Ids]
      /\ \A y \in Stores : Numbered(stores[y]) /\ Stored(stores[y]) \subseteq settled[y]
      /\ revoked \subseteq withheld
  BY DEF IndInv, TypeOK, SyncInv, HistoryOK
<1>2. \A y \in Stores : Moves(stores[y], stores[y])
  BY <1>1 DEF Moves, Grows, Numbered, Store
<1>3. /\ stores'[s] = n /\ settled'[s] = S
      /\ \A y \in Stores \ {s} : stores'[y] = stores[y] /\ settled'[y] = settled[y]
  BY <1>1
<1>4. stores' \in [Stores -> Store] /\ settled' \in [Stores -> SUBSET Ids]
  BY <1>1
<1>5. ASSUME NEW y \in Stores
      PROVE  /\ Numbered(stores'[y]) /\ Moves(stores[y], stores'[y])
             /\ stores'[y].epoch = stores[y].epoch => settled[y] \subseteq settled'[y]
             /\ Stored(stores'[y]) \subseteq settled'[y]
  <2>1. CASE y = s
    BY <1>3, <2>1
  <2>2. CASE y # s
    BY <1>1, <1>2, <1>3, <2>2
  <2> QED BY <2>1, <2>2
<1> QED BY <1>1, <1>4, <1>5 DEF StoresMove

(* A store that grew is numbered. *)
LEMMA GrowsMoves ==
    ASSUME NEW s, NEW n, Grows(s, n)
    PROVE  Moves(s, n) /\ Numbered(n) /\ n.epoch = s.epoch
BY DEF Grows, Moves, Numbered

LEMMA StampType ==
    ASSUME NEW t \in Stores, NEW i \in Ids, NEW r \in Receipts, NEW now \in Times
    PROVE  Stamp(t, i, r, now) \in Receipts
BY DEF Stamp, Receipts

LEMMA CreateEntryInv ==
    ASSUME IndInv, NEW s \in Stores, NEW i \in Ids, CreateEntry(s, i)
    PROVE  IndInv'
<1>0. PICK now \in Times :
         stores' = [stores EXCEPT ![s] =
                      PutEntries(@, {i}, [j \in Ids |-> Stamp(s, j, NoReceipt, now)],
                                 [j \in {i} |-> 1])]
  BY DEF CreateEntry
<1> DEFINE r == [j \in Ids |-> Stamp(s, j, NoReceipt, now)]
           rank == [j \in {i} |-> 1]
           n == PutEntries(stores[s], {i}, r, rank)
           S == settled[s] \cup {i}
<1>1. stores[s] \in Store /\ Numbered(stores[s]) /\ settled[s] \subseteq Ids
      /\ Stored(stores[s]) \subseteq settled[s]
      /\ created \subseteq Ids /\ processed \subseteq Ids
  BY DEF IndInv, TypeOK, SyncInv, HistoryOK
<1>2. r \in [Ids -> Receipts]
  BY StampType DEF Receipts
<1>3. CASE i \notin Stored(stores[s])
  <2>1. NewIn(stores[s], {i}) = {i}
    BY <1>3 DEF NewIn
  <2>2. rank \in Ranking({i})
    <3>1. Cardinality({i}) = 1
      BY FS_Singleton
    <3> QED BY <3>1 DEF Ranking, Bijection, Injection, Surjection, IsInjective
  <2>3. n \in Store /\ Grows(stores[s], n) /\ Stored(n) = Stored(stores[s]) \cup {i}
    BY <1>1, <1>2, <2>1, <2>2, PutEntriesGrows
  <2>4. stores' = [stores EXCEPT ![s] = n] /\ settled' = [settled EXCEPT ![s] = S]
    BY <1>0 DEF CreateEntry
  <2>5. S \in SUBSET Ids /\ Stored(n) \subseteq S /\ settled[s] \subseteq S
    BY <1>1, <2>3
  <2> HIDE DEF n, S
  <2>6. StoresMove
    BY <2>3, <2>4, <2>5, GrowsMoves, OneStore DEF CreateEntry
  <2> QED BY <1>1, <2>6, WriteStepInv DEF CreateEntry, IndInv, TypeOK
<1>4. CASE i \in Stored(stores[s])
  <2>1. n = stores[s]
    BY <1>1, <1>4, PutStoredEntries DEF NewIn
  <2>2. Moves(stores[s], stores[s])
    BY <1>1 DEF Moves, Grows, Numbered, Store
  <2>3. stores' = [stores EXCEPT ![s] = n] /\ settled' = [settled EXCEPT ![s] = S]
    BY <1>0 DEF CreateEntry
  <2>4. S \in SUBSET Ids /\ Stored(n) \subseteq S /\ settled[s] \subseteq S
    BY <1>1, <2>1
  <2> HIDE DEF n, S
  <2>5. StoresMove
    BY <1>1, <2>1, <2>2, <2>3, <2>4, OneStore DEF CreateEntry
  <2> QED BY <1>1, <2>5, WriteStepInv DEF CreateEntry, IndInv, TypeOK
<1> QED BY <1>3, <1>4

LEMMA PurgeDocInv ==
    ASSUME IndInv, NEW s \in Stores, NEW d \in Purgeable, PurgeDoc(s, d)
    PROVE  IndInv'
<1> DEFINE n == PurgeDocHistory(stores[s], d)
<1>1. stores[s] \in Store /\ Numbered(stores[s]) /\ settled[s] \subseteq Ids
      /\ Stored(stores[s]) \subseteq settled[s] /\ settled \in [Stores -> SUBSET Ids]
  BY DEF IndInv, TypeOK, SyncInv, HistoryOK
<1>2. n \in Store /\ Grows(stores[s], n) /\ Stored(n) \subseteq Stored(stores[s])
  BY <1>1, PurgeDocHistoryGrows
<1>3. stores' = [stores EXCEPT ![s] = n] /\ settled' = [settled EXCEPT ![s] = settled[s]]
  BY <1>1 DEF PurgeDoc
<1> HIDE DEF n
<1>4. StoresMove
  BY <1>1, <1>2, <1>3, GrowsMoves, OneStore DEF PurgeDoc
<1>5. denied' \in [Stores -> SUBSET Docs]
  BY EntriesAssumption DEF PurgeDoc, IndInv, TypeOK
<1> QED BY <1>4, <1>5, WriteStepInv DEF PurgeDoc, IndInv, TypeOK

LEMMA ClearStoreInv ==
    ASSUME IndInv, NEW s \in Stores, ClearStore(s)
    PROVE  IndInv'
<1> DEFINE n == ClearAllLocalData(stores[s])
<1>1. stores[s].epoch \in Nat \ {0}
  BY DEF IndInv, TypeOK, Store
<1>2. n \in Store /\ Numbered(n) /\ Stored(n) = {} /\ n.epoch = stores[s].epoch + 1
  <2>1. n = EmptyStore(stores[s].epoch + 1) /\ stores[s].epoch + 1 \in Nat \ {0}
    BY <1>1 DEF ClearAllLocalData
  <2>2. EmptyStore(stores[s].epoch + 1).epoch = stores[s].epoch + 1
    BY DEF EmptyStore
  <2> HIDE DEF n
  <2> QED BY <2>1, <2>2, EmptyStoreType
<1>3. Moves(stores[s], n) /\ n.epoch # stores[s].epoch
  BY <1>1, <1>2 DEF Moves
<1>4. stores' = [stores EXCEPT ![s] = n] /\ settled' = [settled EXCEPT ![s] = {}]
  BY DEF ClearStore
<1> HIDE DEF n
<1>5. StoresMove
  BY <1>2, <1>3, <1>4, OneStore DEF ClearStore, environment
<1> QED BY <1>5, WriteStepInv DEF ClearStore, environment, IndInv, TypeOK

(* Losing a key marks the entry withheld for good, regaining it changes nothing. *)
LEMMA RevokeInv ==
    ASSUME IndInv, NEW i \in Ids, Revoke(i) \/ Grant(i)
    PROVE  IndInv'
<1>1. /\ stores \in [Stores -> Store] /\ settled \in [Stores -> SUBSET Ids]
      /\ \A y \in Stores : Numbered(stores[y]) /\ Stored(stores[y]) \subseteq settled[y]
      /\ revoked \subseteq withheld
  BY DEF IndInv, TypeOK, SyncInv, HistoryOK
<1>2. \A y \in Stores : Moves(stores[y], stores[y])
  BY <1>1 DEF Moves, Grows, Numbered, Store
<1>3. StoresMove
  BY <1>1, <1>2 DEF StoresMove, Revoke, Grant
<1> QED BY <1>3, WriteStepInv DEF Revoke, Grant, IndInv, TypeOK

(* A step of session x that writes to one store: it is sound if the session's
   new state is sound for the stores as they are then. *)
LEMMA SessionWrite ==
    ASSUME IndInv, NEW x \in Sessions, StoresMove, NEW q \in Session,
           SessionIn(q, stores'[Src[x]], stores'[Tgt[x]], Done(Tgt[x])'),
           ss' = [ss EXCEPT ![x] = q], faults' \in Nat,
           UNCHANGED <<cursors, processed, saved, environment>>
    PROVE  IndInv'
<1>1. ss' \in [Sessions -> Session] /\ ss'[x] = q /\ \A y \in Sessions \ {x} : ss'[y] = ss[y]
  BY DEF IndInv, TypeOK
<1>2. \A y \in Sessions : ss'[y] = ss[y] \/
         SessionIn(ss'[y], stores'[Src[y]], stores'[Tgt[y]], Done(Tgt[y])')
  BY <1>1
<1> QED BY <1>1, <1>2, WriteStepInv DEF environment, IndInv, TypeOK

LEMMA ApplyReceiptsInv ==
    ASSUME IndInv, NEW x \in Sessions, NEW b \in ss[x].work, ApplyReceipts(x, b)
    PROVE  IndInv'
<1> DEFINE s == Src[x]
           S == settled[s]
<1>1. PICK rank \in Ranking(ReanchoredBy(stores[s], b.receipts)) :
         stores' = [stores EXCEPT ![s] = ApplyWitnessReceipts(@, b.receipts, rank)]
  BY DEF ApplyReceipts
<1> DEFINE n == ApplyWitnessReceipts(stores[s], b.receipts, rank)
<1>2. ss[x].pc = "transfer" /\ b \in Batch
  BY Transferring
<1>3. b.receipts \in [Ids -> Receipts] /\ b.phase = "ack"
  BY <1>2 DEF Batch, ApplyReceipts
<1>4. s \in Stores /\ stores[s] \in Store /\ Numbered(stores[s])
      /\ settled \in [Stores -> SUBSET Ids] /\ Stored(stores[s]) \subseteq S
  BY Known DEF IndInv, TypeOK, SyncInv, HistoryOK
<1>5. n \in Store /\ Grows(stores[s], n) /\ Stored(n) = Stored(stores[s])
  BY <1>3, <1>4, ApplyWitnessReceiptsGrows
<1>6. stores' = [stores EXCEPT ![s] = n] /\ settled' = [settled EXCEPT ![s] = S] /\ S \in SUBSET Ids
      /\ settled[s] \subseteq S /\ Stored(n) \subseteq S
  BY <1>1, <1>4, <1>5 DEF ApplyReceipts
<1> HIDE DEF n, S
<1>7. StoresMove
  BY <1>4, <1>5, <1>6, GrowsMoves, OneStore DEF ApplyReceipts, OthersUnchanged, environment
<1>8. SessionIn(ss[x], stores'[Src[x]], stores'[Tgt[x]], Done(Tgt[x])')
  BY <1>7, WriteStep
<1> DEFINE W == ss[x].work \ {b}
           m == ss[x].moved
           q == [ss[x] EXCEPT !.work = W, !.moved = m]
<1>9. W \in SUBSET Batch /\ m \in BOOLEAN
  BY Known DEF Session
<1>10. \A i : UnderWay(ss[x], i) => Carried(ss[x].todo, W, i)
  BY <1>3 DEF UnderWay, Carried
<1>11. stores'[Src[x]] \in Store /\ stores'[Tgt[x]] \in Store
  BY <1>7, Known DEF StoresMove
<1>12. ss' = [ss EXCEPT ![x] = q]
  <2>1. [ss[x] EXCEPT !.work = W] = q
    BY Known DEF Session
  <2> QED BY <2>1 DEF ApplyReceipts
<1> HIDE DEF W, m
<1>13. q \in Session /\ SessionIn(q, stores'[Src[x]], stores'[Tgt[x]], Done(Tgt[x])')
  BY <1>2, <1>8, <1>9, <1>10, <1>11, Known, WorkOnlyOK
<1> HIDE DEF q
<1> QED BY <1>7, <1>12, <1>13, Known, SessionWrite DEF ApplyReceipts, OthersUnchanged

(* The server takes a batch in: what it does not prepare to store it has
   stored before or rejects now. *)
LEMMA ReceiveBatchInv ==
    ASSUME IndInv, NEW x \in Sessions, NEW b \in ss[x].work, ReceiveBatch(x, b)
    PROVE  IndInv'
<1> DEFINE t == Tgt[x]
           new == NewIn(stores[t], b.got)
           ack(rej, now) == [i \in Ids |-> CASE i \in new \ rej -> Stamp(t, i, b.receipts[i], now)
                                             [] i \in b.got \ new -> stores[t].receipt[i]
                                             [] OTHER -> NoReceipt]
<1>1. PICK rej \in SUBSET (new \cap Untrusted), now \in Times :
         /\ ss' = [ss EXCEPT ![x].work = Replace(x, b,
                     [b EXCEPT !.phase = "store", !.got = new \ rej, !.receipts = ack(rej, now)])]
         /\ settled' = [settled EXCEPT ![t] = @ \cup rej]
  BY DEF ReceiveBatch
<1> DEFINE r == ack(rej, now)
           S == settled[t] \cup rej
           c == [b EXCEPT !.phase = "store", !.got = new \ rej, !.receipts = r]
           W == Replace(x, b, c)
           m == ss[x].moved
           q == [ss[x] EXCEPT !.work = W, !.moved = m]
<1>2. ss[x].pc = "transfer" /\ b \in Batch /\ b.phase = "put"
  BY Transferring DEF ReceiveBatch
<1>3. b.got \subseteq Ids /\ b.receipts \in [Ids -> Receipts]
  BY <1>2 DEF Batch
<1>4. /\ t \in Stores /\ stores \in [Stores -> Store] /\ stores[t] \in Store
      /\ Numbered(stores[t]) /\ settled \in [Stores -> SUBSET Ids]
      /\ Stored(stores[t]) \subseteq settled[t]
  BY Known DEF IndInv, TypeOK, SyncInv, HistoryOK
<1>5. r \in [Ids -> Receipts]
  <2>1. \A i \in Ids : stores[t].receipt[i] \in Receipts /\ b.receipts[i] \in Receipts
    BY <1>3, <1>4 DEF Store
  <2>2. \A i \in Ids : Stamp(t, i, b.receipts[i], now) \in Receipts
    BY <1>4, <2>1, StampType
  <2>3. NoReceipt \in Receipts
    BY DEF Receipts
  <2> HIDE DEF new
  <2> QED BY <2>1, <2>2, <2>3
<1>6. StoresMove
  <2>1. S \in SUBSET Ids /\ settled[t] \subseteq S /\ Stored(stores[t]) \subseteq S
    BY <1>3, <1>4 DEF NewIn
  <2>2. stores' = [stores EXCEPT ![t] = stores[t]] /\ settled' = [settled EXCEPT ![t] = S]
    BY <1>1, <1>4 DEF ReceiveBatch
  <2>3. Moves(stores[t], stores[t])
    BY <1>4 DEF Moves, Grows, Numbered, Store
  <2> HIDE DEF S
  <2> QED BY <1>4, <2>1, <2>2, <2>3, OneStore DEF ReceiveBatch, OthersUnchanged, environment
<1>7. SessionIn(ss[x], stores'[Src[x]], stores'[Tgt[x]], Done(Tgt[x])')
  BY <1>6, WriteStep
<1>8. stores'[Src[x]] \in Store /\ stores'[Tgt[x]] \in Store
  BY <1>6, Known DEF StoresMove
<1>9. \A i \in b.got : i \in new \ rej \/ i \in Done(Tgt[x])'
  BY <1>1, <1>4 DEF NewIn, Done
<1>10. c \in Batch /\ c.phase = "store" /\ c.got = new \ rej
  <2>1. new \ rej \subseteq Ids
    BY <1>3 DEF NewIn
  <2> HIDE DEF r, new
  <2> QED BY <1>2, <1>5, <2>1 DEF Batch
<1>11. W = (ss[x].work \ {b}) \cup {c}
  BY DEF Replace
<1>12. ss' = [ss EXCEPT ![x] = q]
  <2>1. [ss[x] EXCEPT !.work = W] = q
    BY Known DEF Session
  <2> QED BY <1>1, <2>1
<1> HIDE DEF c, W, m, r
<1>13. W \in SUBSET Batch /\ m \in BOOLEAN
  BY <1>10, <1>11, Known DEF Session, m
<1>14. ASSUME NEW i, UnderWay(ss[x], i)
       PROVE  Finished(ss[x], stores'[Src[x]], Done(Tgt[x])', i) \/ Carried(ss[x].todo, W, i)
  <2>1. CASE i \in b.got
    BY <1>9, <1>10, <1>11, <2>1 DEF Finished, Carried
  <2>2. CASE i \in ss[x].todo
    BY <2>2 DEF Carried
  <2>3. CASE \E d \in ss[x].work \ {b} : (d.phase = "get" /\ i \in d.ids)
                                          \/ (d.phase \in {"put", "store"} /\ i \in d.got)
    BY <1>11, <2>3 DEF Carried
  <2> QED BY <1>2, <1>14, <2>1, <2>2, <2>3 DEF UnderWay
<1>15. q \in Session /\ SessionIn(q, stores'[Src[x]], stores'[Tgt[x]], Done(Tgt[x])')
  BY <1>2, <1>7, <1>8, <1>13, <1>14, Known, WorkOnlyOK
<1> HIDE DEF q
<1> QED BY <1>6, <1>12, <1>15, Known, SessionWrite DEF ReceiveBatch, OthersUnchanged

(* putEntries at the target: the batch is settled there, whether the reply
   arrives or not. *)
LEMMA PutBatchInv ==
    ASSUME IndInv, NEW x \in Sessions, NEW b \in ss[x].work, PutBatch(x, b)
    PROVE  IndInv'
<1> DEFINE t == Tgt[x]
           S == settled[t] \cup b.got
           r == IF t \in Witnesses THEN b.receipts ELSE NoReceipts
           c == [b EXCEPT !.phase = "ack", !.receipts = r]
           W == Replace(x, b, c)
           m == ss[x].moved \/ b.got # {}
<1>1. PICK rank \in Ranking(NewIn(stores[t], b.got)) :
         stores' = [stores EXCEPT ![t] = PutEntries(@, b.got, b.receipts, rank)]
  BY DEF PutBatch
<1> DEFINE put == PutEntries(stores[t], b.got, b.receipts, rank)
<1>2. ss[x].pc = "transfer" /\ b \in Batch /\ b.phase \in {"put", "store"}
  BY Transferring DEF PutBatch
<1>3. b.got \subseteq Ids /\ b.receipts \in [Ids -> Receipts]
  BY <1>2 DEF Batch
<1>4. /\ t \in Stores /\ stores[t] \in Store /\ Numbered(stores[t])
      /\ settled \in [Stores -> SUBSET Ids] /\ Stored(stores[t]) \subseteq settled[t]
  BY Known DEF IndInv, TypeOK, SyncInv, HistoryOK
<1>5. put \in Store /\ Grows(stores[t], put) /\ Stored(put) = Stored(stores[t]) \cup b.got
  BY <1>1, <1>3, <1>4, PutEntriesGrows
<1>6. stores' = [stores EXCEPT ![t] = put] /\ settled' = [settled EXCEPT ![t] = S]
  BY <1>1 DEF PutBatch
<1>7. S \in SUBSET Ids /\ settled[t] \subseteq S /\ Stored(put) \subseteq S
  BY <1>3, <1>4, <1>5
<1>8. StoresMove
  <2> HIDE DEF put, S
  <2> QED BY <1>4, <1>5, <1>6, <1>7, GrowsMoves, OneStore DEF PutBatch, environment
<1>9. SessionIn(ss[x], stores'[Src[x]], stores'[Tgt[x]], Done(Tgt[x])')
  BY <1>8, WriteStep
<1>10. stores'[Src[x]] \in Store /\ stores'[Tgt[x]] \in Store
  BY <1>8, Known DEF StoresMove
<1>11. b.got \subseteq Done(Tgt[x])'
  BY <1>4, <1>6 DEF Done
<1>12. r \in [Ids -> Receipts]
  BY <1>3 DEF NoReceipts, Receipts
<1>13. CASE ss' = [ss EXCEPT ![x].work = W, ![x].moved = m] /\ UNCHANGED faults
  <2> DEFINE q == [ss[x] EXCEPT !.work = W, !.moved = m]
  <2>1. c \in Batch /\ c.phase = "ack"
    <3> HIDE DEF r
    <3> QED BY <1>2, <1>12 DEF Batch
  <2>2. W = (ss[x].work \ {b}) \cup {c}
    BY DEF Replace
  <2> HIDE DEF c, W
  <2>3. W \in SUBSET Batch /\ m \in BOOLEAN
    BY <2>1, <2>2, Known DEF Session
  <2>4. ASSUME NEW i, UnderWay(ss[x], i)
        PROVE  Finished(ss[x], stores'[Src[x]], Done(Tgt[x])', i) \/ Carried(ss[x].todo, W, i)
    <3>1. CASE i \in b.got
      BY <1>11, <3>1 DEF Finished
    <3>2. CASE i \in ss[x].todo
      BY <3>2 DEF Carried
    <3>3. CASE \E d \in ss[x].work \ {b} : (d.phase = "get" /\ i \in d.ids)
                                            \/ (d.phase \in {"put", "store"} /\ i \in d.got)
      BY <2>2, <3>3 DEF Carried
    <3> QED BY <1>2, <2>4, <3>1, <3>2, <3>3 DEF UnderWay
  <2>5. ss' = [ss EXCEPT ![x] = q]
    BY <1>13
  <2> HIDE DEF m
  <2>6. q \in Session /\ SessionIn(q, stores'[Src[x]], stores'[Tgt[x]], Done(Tgt[x])')
    BY <1>2, <1>9, <1>10, <2>3, <2>4, Known, WorkOnlyOK
  <2>7. faults' \in Nat
    BY <1>13, Known
  <2> HIDE DEF q
  <2> QED BY <1>8, <2>5, <2>6, <2>7, SessionWrite DEF PutBatch
<1>14. CASE ss' = [ss EXCEPT ![x].work = @ \ {b}, ![x].failed = TRUE] /\ faults' = faults + 1
  <2> DEFINE q == [ss[x] EXCEPT !.work = @ \ {b}, !.failed = TRUE]
  <2>1. q \in Session /\ SessionIn(q, stores'[Src[x]], stores'[Tgt[x]], Done(Tgt[x])')
    BY <1>2, <1>9, <1>10, Known, DroppedOK
  <2>2. ss' = [ss EXCEPT ![x] = q]
    BY <1>14
  <2>3. faults' \in Nat
    BY <1>14, Known
  <2> HIDE DEF q
  <2> QED BY <1>8, <2>1, <2>2, <2>3, SessionWrite DEF PutBatch
<1>15. \/ ss' = [ss EXCEPT ![x].work = W, ![x].moved = m] /\ UNCHANGED faults
       \/ ss' = [ss EXCEPT ![x].work = @ \ {b}, ![x].failed = TRUE] /\ faults' = faults + 1
  BY DEF PutBatch
<1> QED BY <1>13, <1>14, <1>15

LEMMA EndPageInv ==
    ASSUME IndInv, NEW x \in Sessions, EndPage(x)
    PROVE  IndInv'
<1> DEFINE q == [ss[x] EXCEPT !.pc = "scan", !.cursor = ss[x].page.end, !.page = NoPage]
<1>1. q \in Session /\ SessionIn(q, stores[Src[x]], stores[Tgt[x]], Done(Tgt[x]))
  BY Known, EndPageOK DEF EndPage, PageDone
<1>2. ss' = [ss EXCEPT ![x] = q]
  BY DEF EndPage
<1> HIDE DEF q
<1> QED BY <1>1, <1>2, Known, SessionStep DEF EndPage, StoresUnchanged, OthersUnchanged

(* A session that ends and saves cursor c, or hands over to processing. *)
LEMMA SaveInv ==
    ASSUME IndInv, NEW x \in Sessions, NEW c \in Cursor, PersistScanCursor(x, c),
           Live(ss[x], stores[Src[x]], stores[Tgt[x]])
             => CoveredIn(stores[Src[x]], Done(Tgt[x]), c) /\ c.order < stores[Src[x]].next,
           EndSession(x) \/ ss' = [ss EXCEPT ![x] = [Idle EXCEPT !.pc = "process"]],
           UNCHANGED processed, StoresUnchanged, OthersUnchanged
    PROVE  IndInv'
<1> DEFINE r == [srcEpoch |-> ss[x].sh.epoch, tgtEpoch |-> ss[x].th.epoch, cursor |-> c]
           p == [Idle EXCEPT !.pc = "process"]
<1>1. r \in Record /\ RecordInv(Pair(x), r)
  BY Known, SaveOK
<1>2. cursors' = cursors \/ cursors' = [cursors EXCEPT ![Pair(x)] = r]
  BY DEF PersistScanCursor
<1>3. /\ Idle \in Session /\ SessionIn(Idle, stores[Src[x]], stores[Tgt[x]], Done(Tgt[x]))
      /\ p \in Session /\ SessionIn(p, stores[Src[x]], stores[Tgt[x]], Done(Tgt[x]))
  BY Known, IdleOK
<1>4. processed' \subseteq Ids /\ faults' \in Nat
      /\ UNCHANGED <<stores, settled, saved, environment>>
  BY Known DEF StoresUnchanged, OthersUnchanged
<1>5. PICK q \in {Idle, p} : ss' = [ss EXCEPT ![x] = q]
  BY DEF EndSession
<1> HIDE DEF r, p
<1> QED BY <1>1, <1>2, <1>3, <1>4, <1>5, LocalStep

LEMMA EndScanInv ==
    ASSUME IndInv, NEW x \in Sessions, EndScan(x)
    PROVE  IndInv'
<1>1. ss[x].page.end \in Cursor
  BY Known DEF Session, Page
<1>2. Live(ss[x], stores[Src[x]], stores[Tgt[x]])
        => CoveredIn(stores[Src[x]], Done(Tgt[x]), ss[x].page.end)
           /\ ss[x].page.end.order < stores[Src[x]].next
  BY Known, PageCovered DEF EndScan, PageDone
<1> QED BY <1>1, <1>2, SaveInv DEF EndScan

LEMMA CancelSyncInv ==
    ASSUME IndInv, NEW x \in Sessions, CancelSync(x)
    PROVE  IndInv'
<1>1. ss[x].cursor \in Cursor
  BY Known DEF Session
<1>2. Live(ss[x], stores[Src[x]], stores[Tgt[x]])
        => CoveredIn(stores[Src[x]], Done(Tgt[x]), ss[x].cursor)
           /\ ss[x].cursor.order < stores[Src[x]].next
  BY Known DEF CancelSync, SessionIn, ScanningIn
<1> QED BY <1>1, <1>2, SaveInv DEF CancelSync

LEMMA AbortInv ==
    ASSUME IndInv, NEW x \in Sessions, Abort(x)
    PROVE  IndInv'
<1> DEFINE q == [ss[x] EXCEPT !.aborted = TRUE]
<1>1. q \in Session /\ SessionIn(q, stores[Src[x]], stores[Tgt[x]], Done(Tgt[x]))
  BY Known, AbortOK
<1>2. ss' = [ss EXCEPT ![x] = q]
  BY DEF Abort
<1>3. faults' \in Nat
  BY Known DEF Abort
<1> HIDE DEF q
<1> QED BY <1>1, <1>2, <1>3, SessionStep DEF Abort, StoresUnchanged

(* The steps after which a session is over and its cursor not saved. *)
LEMMA OverInv ==
    ASSUME IndInv, NEW x \in Sessions,
           SkipSync(x) \/ ProcessPulled(x) \/ ThrowError(x) \/ FailSync(x)
    PROVE  IndInv'
<1>1. Stored(stores[Client]) \subseteq Ids
  BY DEF Stored
<1>2. EndSession(x) /\ UNCHANGED <<cursors, stores, settled, saved, environment>>
  BY DEF SkipSync, ProcessPulled, ThrowError, FailSync, StoresUnchanged, OthersUnchanged
<1>3. faults' \in Nat /\ processed' \subseteq Ids
  BY <1>1, Known DEF SkipSync, ProcessPulled, ThrowError, FailSync, OthersUnchanged
<1> QED BY <1>2, <1>3, EndInv

LEMMA CheckpointInv ==
    ASSUME IndInv, Checkpoint
    PROVE  IndInv'
<1>1. TypeOK'
  BY DEF IndInv, TypeOK, Checkpoint, environment
<1>2. \A y \in Stores : Done(y)' = Done(y)
  BY DEF Done, Checkpoint, environment
<1>3. \A p \in Pairs : RecordInv(p, cursors[p])' /\ RecordInv(p, saved[p])'
  <2> SUFFICES ASSUME NEW p \in Pairs
               PROVE  RecordInv(p, cursors[p])' /\ RecordInv(p, saved[p])'
    OBVIOUS
  <2>1. RecordInv(p, cursors[p]) /\ p[2] \in Stores
    BY PairTypes DEF IndInv, SyncInv
  <2> QED BY <1>2, <2>1 DEF RecordInv, Checkpoint
<1>4. \A x \in Sessions : SessionInv(x)'
  BY <1>2, PairTypes DEF SessionInv, IndInv, SyncInv, Checkpoint
<1>5. (\A y \in Stores : Numbered(stores[y]))' /\ HistoryOK'
  BY DEF IndInv, SyncInv, HistoryOK, Checkpoint, environment
<1> QED BY <1>1, <1>3, <1>4, <1>5 DEF IndInv, SyncInv

LEMMA RestartInv ==
    ASSUME IndInv, Restart
    PROVE  IndInv'
<1>1. TypeOK'
  <2>1. Idle \in Session /\ Stored(stores[Client]) \subseteq Ids
    BY IdleOK, StoresAssumption DEF Stored, IndInv, TypeOK
  <2> QED BY <2>1 DEF IndInv, TypeOK, Restart, environment
<1>2. \A y \in Stores : Done(y)' = Done(y)
  BY DEF Done, Restart, environment
<1>3. \A p \in Pairs : RecordInv(p, cursors[p])' /\ RecordInv(p, saved[p])'
  <2> SUFFICES ASSUME NEW p \in Pairs
               PROVE  RecordInv(p, cursors[p])' /\ RecordInv(p, saved[p])'
    OBVIOUS
  <2>1. RecordInv(p, saved[p]) /\ p[2] \in Stores
    BY PairTypes DEF IndInv, SyncInv
  <2> QED BY <1>2, <2>1 DEF RecordInv, Restart
<1>4. ASSUME NEW x \in Sessions
      PROVE  SessionInv(x)'
  <2>1. SessionIn(Idle, stores'[Src[x]], stores'[Tgt[x]], Done(Tgt[x])')
    BY IdleOK, Known DEF Restart
  <2>2. ss'[x] = Idle
    BY DEF Restart
  <2> QED BY <2>1, <2>2 DEF SessionInv
<1>5. (\A y \in Stores : Numbered(stores[y]))' /\ HistoryOK'
  BY DEF IndInv, SyncInv, HistoryOK, Restart, environment
<1> QED BY <1>1, <1>3, <1>4, <1>5 DEF IndInv, SyncInv

-----------------------------------------------------------------------------
(* The theorems *)

(* The initial state satisfies the invariant. *)
LEMMA InitInv == Init => IndInv
<1> SUFFICES ASSUME Init PROVE IndInv
  OBVIOUS
<1>1. EmptyStore(1) \in Store /\ Numbered(EmptyStore(1)) /\ Stored(EmptyStore(1)) = {}
  BY EmptyStoreType
<1>2. /\ Idle \in Session /\ NoRecord \in Record
      /\ \A done : /\ SessionIn(Idle, EmptyStore(1), EmptyStore(1), done)
                   /\ RecordIn(EmptyStore(1), EmptyStore(1), done, NoRecord)
  BY <1>1, IdleOK
<1>3. TypeOK
  BY <1>1, <1>2 DEF Init, TypeOK
<1>4. \A p \in Pairs : RecordInv(p, cursors[p]) /\ RecordInv(p, saved[p])
  BY <1>2, PairTypes DEF Init, RecordInv
<1>5. \A x \in Sessions : SessionInv(x)
  BY <1>2, PairTypes DEF Init, SessionInv
<1>6. (\A s \in Stores : Numbered(stores[s])) /\ HistoryOK
  BY <1>1 DEF Init, HistoryOK
<1> QED BY <1>3, <1>4, <1>5, <1>6 DEF IndInv, SyncInv

(* Every step preserves the invariant, one case per action. *)
LEMMA NextInv == IndInv /\ [Next]_vars => IndInv'
<1> SUFFICES ASSUME IndInv, [Next]_vars PROVE IndInv'
  OBVIOUS
<1>1. CASE World
  <2>1. ASSUME NEW s \in Stores, NEW i \in Ids, CreateEntry(s, i) PROVE IndInv'
    BY <2>1, CreateEntryInv
  <2>2. ASSUME NEW s \in Stores, NEW d \in Purgeable, PurgeDoc(s, d) PROVE IndInv'
    BY <2>2, PurgeDocInv
  <2>3. ASSUME NEW s \in Stores, ClearStore(s) PROVE IndInv'
    BY <2>3, ClearStoreInv
  <2>4. ASSUME NEW i \in Ids, Revoke(i) \/ Grant(i) PROVE IndInv'
    BY <2>4, RevokeInv
  <2> QED BY <1>1, <2>1, <2>2, <2>3, <2>4 DEF World
<1>2. ASSUME NEW x \in Sessions, NEW force \in BOOLEAN, Start(x, force) PROVE IndInv'
  BY <1>2, StartInv
<1>3. ASSUME NEW x \in Sessions, BatchStep(x) PROVE IndInv'
  <2>1. PICK b \in ss[x].work : \/ GetBatch(x, b) \/ ReceiveBatch(x, b) \/ PutBatch(x, b)
                                \/ ApplyReceipts(x, b) \/ DropBatch(x, b) \/ FailBatch(x, b)
    BY <1>3 DEF BatchStep
  <2> QED BY <2>1, GetBatchInv, ReceiveBatchInv, PutBatchInv, ApplyReceiptsInv, DropBatchInv
<1>4. ASSUME NEW x \in Sessions, SyncStep(x) PROVE IndInv'
  BY <1>3, <1>4, FetchSourceHeadInv, FetchTargetHeadInv, ResumeScanInv, FullScanInv,
     FetchBloomInv, NextPageInv, PrefetchInv, FilterMissingInv, TakeBatchInv,
     EndPageInv, EndScanInv, CancelSyncInv, OverInv DEF SyncStep
<1>5. ASSUME NEW x \in Sessions, Abort(x) PROVE IndInv'
  BY <1>5, AbortInv
<1>6. CASE Checkpoint
  BY <1>6, CheckpointInv
<1>7. CASE Restart
  BY <1>7, RestartInv
<1>8. CASE UNCHANGED vars
  BY <1>8 DEF vars, IndInv, TypeOK, SyncInv, HistoryOK, RecordInv, SessionInv, Done
<1> QED BY <1>1, <1>2, <1>4, <1>5, <1>6, <1>7, <1>8 DEF Next

(* IndInv holds in every reachable state of the sync engine, whatever the
   number of stores, entries and concurrent sessions. *)
THEOREM Invariant == Spec => []IndInv
BY InitInv, NextInv, PTL DEF Spec

(* Every variable of the sync engine keeps its type: in particular the cursor
   and the page of a scan, which are chosen from pages served earlier. *)
THEOREM TypeCorrect == Spec => []TypeOK
<1>1. IndInv => TypeOK
  BY DEF IndInv
<1> QED BY <1>1, Invariant, PTL

(* A saved scan cursor never skips an entry, for every number of stores,
   entries and concurrent sessions and all page, batch and worker sizes of
   syncEntriesFromStoreImpl. *)
THEOREM SyncNeverSkips == Spec => []CursorComplete
<1>1. IndInv => CursorComplete
  BY DEF IndInv, SyncInv, RecordInv, RecordIn, CursorComplete, RecordOK, Current, Covered
<1> QED BY <1>1, Invariant, PTL

-----------------------------------------------------------------------------
(***************************************************************************)
(* The request gate and the network stores                                 *)
(***************************************************************************)

InGate == {"waiting", "queued", "slot"}
Running == {"new", "asleep", "awake", "sent"} \cup InGate

HtType ==
  /\ active \in Nat /\ waiters \in Seq(Requests)
  /\ pause \in 0..MaxPause /\ held \in Nat
  /\ at \in [Requests -> Running \cup Ended]
  /\ attempt \in [Requests -> Nat] /\ credit \in [Requests -> Int]
  /\ aborted \subseteq Requests /\ heard \subseteq Requests

(* The queue holds exactly the requests that wait for a slot, each once. *)
QueueOK ==
  /\ \A i \in 1..Len(waiters) : at[waiters[i]] = "queued"
  /\ \A i, j \in 1..Len(waiters) : waiters[i] = waiters[j] => i = j
  /\ \A r \in Requests : at[r] = "queued" => \E i \in 1..Len(waiters) : waiters[i] = r

(* The gate is closed for as long as the server asked for. *)
PauseOK == held <= pause

(* A request that may fetch again has an attempt left. *)
AttemptsOK ==
  \A r \in Requests : /\ attempt[r] <= Attempts
                      /\ at[r] \in Running \ {"sent"} => attempt[r] < Attempts

(* Only a request that was in the gate when its sync was cancelled, and is    *)
(* still there, may send once more.                                           *)
CreditOK ==
  \A r \in Requests : /\ credit[r] >= 0
                      /\ r \in aborted /\ at[r] \in InGate => credit[r] >= 1

HtInv == HtType /\ QueueOK /\ SlotsConserved /\ PauseOK /\ AttemptsOK /\ CreditOK

-----------------------------------------------------------------------------
(* Operators *)

(* The smaller and the larger of two numbers. *)
LEMMA MinMax ==
  ASSUME NEW a \in Int, NEW b \in Int
  PROVE  /\ Min({a, b}) = IF a <= b THEN a ELSE b
         /\ Max({a, b}) = IF a >= b THEN a ELSE b
<1>1. \E x \in {a, b} : \A y \in {a, b} : x <= y
  OBVIOUS
<1>2. \E x \in {a, b} : \A y \in {a, b} : x >= y
  OBVIOUS
<1>3. Min({a, b}) \in {a, b} /\ \A y \in {a, b} : Min({a, b}) <= y
  BY <1>1 DEF Min
<1>4. Max({a, b}) \in {a, b} /\ \A y \in {a, b} : Max({a, b}) >= y
  BY <1>2 DEF Max
<1> QED
  BY <1>3, <1>4

(* A pause is at least a tick and at most the cap. *)
LEMMA PauseBounded ==
  ASSUME NEW d \in Nat
  PROVE  PauseLength(d) \in 1..MaxPause
<1>1. (IF d > 0 THEN d ELSE 1) \in Nat \ {0}
  OBVIOUS
<1> QED
  BY <1>1, MinMax, HtAssumption DEF PauseLength

(* The holders of slots are finitely many. *)
LEMMA OwnersFinite == IsFiniteSet(Owners) /\ Cardinality(Owners) \in Nat
BY FS_Subset, FS_CardinalityType, HtAssumption DEF Owners

(* A slot that is taken or given back changes the count by one. *)
LEMMA OwnersChange ==
  ASSUME NEW S, IsFiniteSet(S), NEW r
  PROVE  /\ r \notin S => Cardinality(S \cup {r}) = Cardinality(S) + 1
         /\ r \in S => Cardinality(S \ {r}) = Cardinality(S) - 1
BY FS_AddElement, FS_RemoveElement

-----------------------------------------------------------------------------
(* The gate *)

(* acquireSlot keeps the queue and the count: the request gets a free slot,   *)
(* or waits behind the others while all slots are taken.                      *)
LEMMA AcquireKeeps ==
  ASSUME HtType, QueueOK, SlotsConserved,
         NEW r \in Requests, at[r] = "waiting", AcquireSlot(r)
  PROVE  QueueOK' /\ SlotsConserved' /\ waiters' \in Seq(Requests) /\ active' \in Nat
<1>1. CASE waiters = <<>> /\ active < MaxSlots
  <2>1. active' = active + 1 /\ waiters' = <<>> /\ at' = [at EXCEPT ![r] = "slot"]
    BY <1>1 DEF AcquireSlot
  <2>2. Owners' = Owners \cup {r} /\ r \notin Owners
    BY <2>1 DEF Owners, HtType
  <2>3. Cardinality(Owners') = Cardinality(Owners) + 1
    BY <2>2, OwnersFinite, OwnersChange
  <2>4. SlotsConserved'
    BY <1>1, <2>1, <2>3, HtAssumption DEF SlotsConserved, HtType
  <2>5. QueueOK'
    BY <1>1, <2>1 DEF QueueOK, HtType
  <2>6. waiters' = waiters /\ active' \in Nat
    BY <1>1, <2>1 DEF HtType
  <2> QED
    BY <2>4, <2>5, <2>6 DEF HtType
<1>2. CASE ~(waiters = <<>> /\ active < MaxSlots)
  <2>1. /\ active' = active /\ waiters' = Append(waiters, r)
        /\ at' = [at EXCEPT ![r] = "queued"]
    BY <1>2 DEF AcquireSlot
  <2>2. Owners' = Owners
    BY <2>1 DEF Owners, HtType
  <2>3. active = MaxSlots
    BY <1>2, HtAssumption DEF SlotsConserved, HtType
  <2>4. SlotsConserved'
    BY <2>1, <2>2, <2>3 DEF SlotsConserved
  <2>5. /\ waiters' \in Seq(Requests) /\ Len(waiters') = Len(waiters) + 1
        /\ waiters'[Len(waiters) + 1] = r
        /\ \A i \in 1..Len(waiters) : waiters'[i] = waiters[i]
        /\ Len(waiters) \in Nat
    BY <2>1 DEF HtType
  <2>6. \A i \in 1..Len(waiters) : waiters[i] # r
    BY DEF QueueOK
  <2>7. QueueOK'
    <3>1. \A i \in 1..Len(waiters') : at'[waiters'[i]] = "queued"
      BY <2>1, <2>5, <2>6 DEF QueueOK, HtType
    <3>2. \A i, j \in 1..Len(waiters') : waiters'[i] = waiters'[j] => i = j
      BY <2>5, <2>6 DEF QueueOK
    <3>3. \A q \in Requests : at'[q] = "queued" => \E i \in 1..Len(waiters') : waiters'[i] = q
      <4> SUFFICES ASSUME NEW q \in Requests, at'[q] = "queued"
                   PROVE  \E i \in 1..Len(waiters') : waiters'[i] = q
        OBVIOUS
      <4>1. CASE q = r
        <5>1. Len(waiters) + 1 \in 1..Len(waiters') /\ waiters'[Len(waiters) + 1] = q
          BY <2>5, <4>1
        <5> QED
          BY <5>1
      <4>2. CASE q # r
        <5>1. at[q] = "queued"
          BY <2>1, <4>2 DEF HtType
        <5>2. PICK i \in 1..Len(waiters) : waiters[i] = q
          BY <5>1 DEF QueueOK
        <5>3. i \in 1..Len(waiters') /\ waiters'[i] = q
          BY <2>5, <5>2
        <5> QED
          BY <5>3
      <4> QED
        BY <4>1, <4>2
    <3> QED
      BY <3>1, <3>2, <3>3 DEF QueueOK
  <2> QED
    BY <2>1, <2>4, <2>5, <2>7 DEF HtType
<1> QED
  BY <1>1, <1>2

(* releaseSlot keeps them too: the head of the queue takes the slot over, or  *)
(* it becomes free.                                                           *)
LEMMA ReleaseKeeps ==
  ASSUME HtType, QueueOK, SlotsConserved,
         NEW r \in Requests, at[r] = "sent", ReleaseSlot,
         NEW to \in {"asleep"} \cup Ended, at' = Handover(to, r)
  PROVE  QueueOK' /\ SlotsConserved' /\ waiters' \in Seq(Requests) /\ active' \in Nat
<1>1. r \in Owners /\ to \notin {"slot", "sent", "queued"}
  BY DEF Owners, Ended
<1>2. CASE waiters = <<>>
  <2>1. active' = active - 1 /\ waiters' = <<>> /\ waiters' = waiters
    BY <1>2 DEF ReleaseSlot
  <2>2. at' = [q \in Requests |-> IF q = r THEN to ELSE at[q]]
    BY <1>2 DEF Handover
  <2>3. Owners' = Owners \ {r}
    BY <1>1, <2>2 DEF Owners, HtType
  <2>4. Cardinality(Owners') = Cardinality(Owners) - 1
    BY <1>1, <2>3, OwnersFinite, OwnersChange
  <2>5. Cardinality(Owners') \in Nat
    BY <2>3, OwnersFinite, FS_RemoveElement, FS_CardinalityType
  <2>6. SlotsConserved' /\ active' \in Nat
    BY <1>2, <2>1, <2>4, <2>5, HtAssumption DEF SlotsConserved, HtType
  <2>7. QueueOK'
    BY <1>1, <1>2, <2>1, <2>2 DEF QueueOK
  <2>8. waiters' = waiters
    BY <2>1
  <2> QED
    BY <2>6, <2>7, <2>8 DEF HtType
<1>3. CASE waiters # <<>>
  <2> DEFINE h == Head(waiters)
  <2>1. active' = active /\ waiters' = Tail(waiters)
    BY <1>3 DEF ReleaseSlot
  <2>2. /\ waiters' \in Seq(Requests) /\ Len(waiters') = Len(waiters) - 1 /\ Len(waiters) \in Nat \ {0}
        /\ \A i \in 1..Len(waiters') : waiters'[i] = waiters[i + 1]
        /\ h = waiters[1] /\ h \in Requests
    BY <1>3, <2>1 DEF HtType
  <2>3. at[h] = "queued" /\ h # r /\ h \notin Owners
    BY <2>2 DEF QueueOK, Owners
  <2>4. at' = [q \in Requests |-> IF q = r THEN to ELSE IF q = h THEN "slot" ELSE at[q]]
    <3>1. waiters' # waiters
      BY <2>2
    <3> QED
      BY <1>3, <3>1 DEF Handover
  <2> HIDE DEF h
  <2>5. Owners' = (Owners \ {r}) \cup {h} /\ h \notin Owners \ {r}
    BY <1>1, <2>2, <2>3, <2>4 DEF Owners, HtType
  <2>6. Cardinality(Owners') = Cardinality(Owners)
    <3> DEFINE O == Owners \ {r}
    <3>1. IsFiniteSet(O)
      BY OwnersFinite, FS_RemoveElement
    <3>2. Cardinality(O) = Cardinality(Owners) - 1
      BY <1>1, OwnersFinite, OwnersChange
    <3> HIDE DEF O
    <3>3. h \notin O /\ Owners' = O \cup {h}
      BY <2>5 DEF O
    <3>4. Cardinality(O \cup {h}) = Cardinality(O) + 1
      BY <3>1, <3>3, OwnersChange
    <3>5. Cardinality(Owners) \in Nat
      BY OwnersFinite, FS_CardinalityType
    <3> QED
      BY <3>2, <3>3, <3>4, <3>5
  <2>7. SlotsConserved' /\ active' \in Nat
    BY <1>3, <2>1, <2>6 DEF SlotsConserved, HtType
  <2>8. QueueOK'
    <3>1. \A i \in 1..Len(waiters') : i + 1 \in 1..Len(waiters) /\ waiters'[i] # h
      BY <2>2 DEF QueueOK
    <3>2. \A i \in 1..Len(waiters') : waiters'[i] \in Requests /\ at[waiters'[i]] = "queued"
      <4>1. \A j \in 1..Len(waiters) : waiters[j] \in Requests /\ at[waiters[j]] = "queued"
        BY DEF QueueOK, HtType
      <4>2. \A i \in 1..Len(waiters') : waiters'[i] = waiters[i + 1]
        BY <2>2
      <4> QED
        BY <3>1, <4>1, <4>2
    <3>3. \A i \in 1..Len(waiters') : at'[waiters'[i]] = "queued"
      BY <2>4, <3>1, <3>2
    <3>4. \A i, j \in 1..Len(waiters') : waiters'[i] = waiters'[j] => i = j
      <4> SUFFICES ASSUME NEW i \in 1..Len(waiters'), NEW j \in 1..Len(waiters'),
                          waiters'[i] = waiters'[j]
                   PROVE  i = j
        OBVIOUS
      <4>1. waiters[i + 1] = waiters[j + 1] /\ i + 1 \in 1..Len(waiters) /\ j + 1 \in 1..Len(waiters)
        BY <2>2, <3>1
      <4>2. i + 1 = j + 1
        BY <4>1 DEF QueueOK
      <4> QED
        BY <4>2
    <3>5. \A q \in Requests : at'[q] = "queued" => \E i \in 1..Len(waiters') : waiters'[i] = q
      <4> SUFFICES ASSUME NEW q \in Requests, at'[q] = "queued"
                   PROVE  \E i \in 1..Len(waiters') : waiters'[i] = q
        OBVIOUS
      <4>1. q # h /\ at[q] = "queued"
        BY <1>1, <2>4
      <4>2. PICK j \in 1..Len(waiters) : waiters[j] = q
        BY <4>1 DEF QueueOK
      <4>3. j # 1
        BY <2>2, <4>1, <4>2
      <4>4. j - 1 \in 1..Len(waiters') /\ waiters'[j - 1] = q
        BY <2>2, <4>2, <4>3
      <4> QED
        BY <4>4
    <3> QED
      BY <3>3, <3>4, <3>5 DEF QueueOK
  <2> QED
    BY <2>2, <2>7, <2>8
<1> QED
  BY <1>2, <1>3

(* A step of one request that neither takes nor gives back a slot, and does   *)
(* not touch the queue.                                                       *)
LEMMA MoveKeeps ==
  ASSUME HtType, QueueOK, SlotsConserved, NEW r \in Requests, NEW to,
         UNCHANGED <<active, waiters>>, at' = [at EXCEPT ![r] = to],
         at[r] # "queued", to # "queued",
         at[r] \in {"slot", "sent"} <=> to \in {"slot", "sent"}
  PROVE  QueueOK' /\ SlotsConserved'
<1>1. Owners' = Owners
  BY DEF Owners, HtType
<1>2. SlotsConserved'
  BY <1>1 DEF SlotsConserved
<1>3. \A i \in 1..Len(waiters) : waiters[i] \in Requests
  BY DEF HtType
<1>4. QueueOK'
  BY <1>3 DEF QueueOK, HtType
<1> QED
  BY <1>2, <1>4

-----------------------------------------------------------------------------
(* The steps *)

(* The step of a request that stays outside the gate's slots: HtInv holds     *)
(* after it if the parts the gate does not see do.                            *)
LEMMA InvFromParts ==
  ASSUME HtType', QueueOK', SlotsConserved', PauseOK', AttemptsOK', CreditOK'
  PROVE  HtInv'
BY DEF HtInv

(* The end of an attempt, whatever its outcome, keeps the invariant: the      *)
(* request gives its slot to the next one and goes to sleep or ends.          *)
LEMMA AnswerKeeps ==
  ASSUME HtInv, NEW r \in Requests, NEW to \in {"asleep"} \cup Ended, Answer(r, to),
         to = "asleep" => attempt[r] < Attempts /\ r \notin aborted,
         pause' \in 0..MaxPause, held' \in Nat, held' <= pause'
  PROVE  HtInv'
<1>1. HtType /\ QueueOK /\ SlotsConserved /\ AttemptsOK /\ CreditOK
  BY DEF HtInv
<1>2. at[r] = "sent" /\ ReleaseSlot /\ at' = Handover(to, r)
  BY DEF Answer
<1>3. QueueOK' /\ SlotsConserved' /\ waiters' \in Seq(Requests) /\ active' \in Nat
  BY <1>1, <1>2, ReleaseKeeps
<1>4. \A q \in Requests : q # r =>
        at'[q] = at[q] \/ (at[q] = "queued" /\ at'[q] = "slot")
  <2>1. waiters # <<>> => at[Head(waiters)] = "queued"
    BY <1>1 DEF HtType, QueueOK
  <2> QED
    BY <1>2, <2>1 DEF Handover
<1>5. at'[r] = to /\ at' \in [Requests -> Running \cup Ended]
  <2>1. "slot" \in Running /\ to \in Running \cup Ended
    BY DEF Running, InGate
  <2> QED
    BY <1>1, <1>2, <2>1 DEF Handover, HtType
<1>6. HtType'
  BY <1>1, <1>3, <1>5 DEF HtType, Answer
<1>7. AttemptsOK'
  BY <1>1, <1>4, <1>5 DEF AttemptsOK, Answer, Running, InGate, Ended, HtType
<1>8. CreditOK'
  BY <1>1, <1>4, <1>5 DEF CreditOK, Answer, InGate, Ended
<1> QED
  BY <1>3, <1>6, <1>7, <1>8 DEF HtInv, PauseOK

(* An attempt that is retried has another one left. *)
LEMMA AfterErrorSleeps ==
  ASSUME NEW r \in Requests, NEW retried \in BOOLEAN
  PROVE  /\ AfterError(r, retried) \in {"asleep"} \cup Ended
         /\ AfterError(r, retried) = "asleep" => attempt[r] < Attempts /\ r \notin aborted
BY DEF AfterError, Ended

(* Initially nothing is in the gate. *)
LEMMA HtInitOK == HtInit => HtInv
<1> SUFFICES ASSUME HtInit PROVE HtInv
  OBVIOUS
<1>1. HtType /\ QueueOK /\ PauseOK /\ AttemptsOK /\ CreditOK
  BY HtAssumption
     DEF HtInit, HtType, QueueOK, PauseOK, AttemptsOK, CreditOK, Running, InGate, Ended
<1>2. Owners = {}
  BY DEF HtInit, Owners
<1>3. SlotsConserved
  BY <1>2, FS_EmptySet, HtAssumption DEF HtInit, SlotsConserved
<1> QED
  BY <1>1, <1>3 DEF HtInv

(* Every step keeps the invariant. *)
LEMMA HtStep == HtInv /\ [HtNext]_htVars => HtInv'
<1> SUFFICES ASSUME HtInv, [HtNext]_htVars PROVE HtInv'
  OBVIOUS
<1> USE DEF HtInv
<1>1. CASE Tick
  <2>1. /\ Max({pause - 1, 0}) = IF pause - 1 >= 0 THEN pause - 1 ELSE 0
        /\ Max({held - 1, 0}) = IF held - 1 >= 0 THEN held - 1 ELSE 0
    <3>1. pause - 1 \in Int /\ held - 1 \in Int /\ 0 \in Int
      BY DEF HtType
    <3> QED
      BY <3>1, MinMax, Zenon
  <2>2. HtType' /\ PauseOK'
    <3>1. pause' = Max({pause - 1, 0}) /\ held' = Max({held - 1, 0})
      BY <1>1 DEF Tick
    <3>2. pause' \in 0..MaxPause /\ held' \in Nat /\ held' <= pause'
      BY <2>1, <3>1, HtAssumption DEF HtType, PauseOK
    <3> QED
      BY <1>1, <3>2 DEF Tick, HtType, PauseOK
  <2>3. QueueOK' /\ SlotsConserved' /\ AttemptsOK' /\ CreditOK'
    BY <1>1 DEF Tick, QueueOK, SlotsConserved, Owners, AttemptsOK, CreditOK
  <2> QED
    BY <2>2, <2>3
<1>2. ASSUME NEW r \in Requests, Begin(r) PROVE HtInv'
  <2>1. QueueOK' /\ SlotsConserved'
    BY <1>2, MoveKeeps DEF Begin
  <2>2. HtType' /\ PauseOK'
    BY <1>2 DEF Begin, HtType, PauseOK, Running, InGate, Ended
  <2>3. AttemptsOK' /\ CreditOK'
    BY <1>2 DEF Begin, AttemptsOK, CreditOK, HtType, Running, InGate, Ended
  <2> QED
    BY <2>1, <2>2, <2>3
<1>3. ASSUME NEW r \in Requests, Enter(r) PROVE HtInv'
  <2>1. QueueOK' /\ SlotsConserved' /\ waiters' \in Seq(Requests) /\ active' \in Nat
    BY <1>3, AcquireKeeps DEF Enter
  <2>2. at[r] = "waiting" /\ \E to \in {"slot", "queued"} : at' = [at EXCEPT ![r] = to]
    BY <1>3 DEF Enter, AcquireSlot
  <2>3. HtType' /\ PauseOK'
    BY <1>3, <2>1, <2>2 DEF Enter, HtType, PauseOK, Running, InGate
  <2>4. AttemptsOK' /\ CreditOK'
    BY <1>3, <2>2 DEF Enter, AttemptsOK, CreditOK, HtType, Running, InGate
  <2> QED
    BY <2>1, <2>3, <2>4
<1>4. ASSUME NEW r \in Requests, Send(r) PROVE HtInv'
  <2>1. QueueOK' /\ SlotsConserved'
    BY <1>4, MoveKeeps DEF Send, Sent
  <2>2. attempt[r] < Attempts /\ at[r] = "slot"
    BY <1>4 DEF Send, AttemptsOK, Running, InGate
  <2>3. HtType' /\ PauseOK'
    BY <1>4 DEF Send, Sent, HtType, PauseOK, Running
  <2>4. AttemptsOK'
    BY <1>4, <2>2, HtAssumption DEF Send, Sent, AttemptsOK, HtType, Running, InGate
  <2>5. CreditOK'
    BY <1>4, <2>2 DEF Send, Sent, CreditOK, HtType, InGate
  <2> QED
    BY <2>1, <2>3, <2>4, <2>5
<1>5. ASSUME NEW r \in Requests, Succeed(r) PROVE HtInv'
  <2>1. "ok" \in {"asleep"} \cup Ended
    BY DEF Ended
  <2> QED
    BY <1>5, <2>1, AnswerKeeps DEF Succeed, HtType, PauseOK
<1>6. ASSUME NEW r \in Requests, Refuse(r) \/ Fail(r) PROVE HtInv'
  <2>1. PICK retried \in BOOLEAN :
          Answer(r, AfterError(r, retried)) /\ UNCHANGED <<pause, held>>
    BY <1>6 DEF Refuse, Fail
  <2> QED
    BY <2>1, AfterErrorSleeps, AnswerKeeps DEF HtType, PauseOK
<1>7. ASSUME NEW r \in Requests, RateLimit(r) PROVE HtInv'
  <2>1. PICK d \in RetryAfter : pause' = PauseFor(d) /\ held' = Max({held, PauseLength(d)})
    BY <1>7 DEF RateLimit
  <2>2. PauseLength(d) \in 1..MaxPause /\ held \in Nat /\ pause \in 0..MaxPause /\ held <= pause
    BY PauseBounded, HtAssumption DEF HtType, PauseOK
  <2>3. /\ pause' = IF pause >= PauseLength(d) THEN pause ELSE PauseLength(d)
        /\ held' = IF held >= PauseLength(d) THEN held ELSE PauseLength(d)
    <3>1. PauseLength(d) \in Int /\ held \in Int /\ pause \in Int
      BY <2>2, HtAssumption
    <3>2. /\ Max({pause, PauseLength(d)}) = IF pause >= PauseLength(d) THEN pause ELSE PauseLength(d)
          /\ Max({held, PauseLength(d)}) = IF held >= PauseLength(d) THEN held ELSE PauseLength(d)
      BY <3>1, MinMax, Zenon
    <3> QED
      BY <2>1, <3>2 DEF PauseFor
  <2>4. pause' \in 0..MaxPause /\ held' \in Nat /\ held' <= pause'
    BY <2>2, <2>3, HtAssumption
  <2> QED
    BY <1>7, <2>4, AfterErrorSleeps, AnswerKeeps DEF RateLimit
<1>8. ASSUME NEW r \in Requests, AbortFetch(r) PROVE HtInv'
  <2>1. "cancelled" \in {"asleep"} \cup Ended
    BY DEF Ended
  <2> QED
    BY <1>8, <2>1, AnswerKeeps DEF AbortFetch, HtType, PauseOK
<1>9. ASSUME NEW r \in Requests, Wake(r) PROVE HtInv'
  <2>1. QueueOK' /\ SlotsConserved'
    BY <1>9, MoveKeeps DEF Wake
  <2>2. HtType' /\ PauseOK'
    BY <1>9 DEF Wake, HtType, PauseOK, Running
  <2>3. AttemptsOK' /\ CreditOK'
    BY <1>9 DEF Wake, AttemptsOK, CreditOK, HtType, Running, InGate
  <2> QED
    BY <2>1, <2>2, <2>3
<1>10. ASSUME NEW r \in Requests, Cancel(r) PROVE HtInv'
  <2>1. HtType' /\ PauseOK'
    BY <1>10 DEF Cancel, HtType, PauseOK
  <2>2. QueueOK' /\ SlotsConserved' /\ AttemptsOK'
    BY <1>10 DEF Cancel, QueueOK, SlotsConserved, Owners, AttemptsOK
  <2>3. CreditOK'
    BY <1>10 DEF Cancel, CreditOK, HtType, InGate
  <2> QED
    BY <2>1, <2>2, <2>3
<1>11. CASE UNCHANGED htVars
  BY <1>11 DEF htVars, HtType, QueueOK, SlotsConserved, Owners, PauseOK, AttemptsOK, CreditOK
<1> QED
  BY <1>1, <1>2, <1>3, <1>4, <1>5, <1>6, <1>7, <1>8, <1>9, <1>10, <1>11 DEF HtNext

-----------------------------------------------------------------------------
(* The theorems *)

(* The inductive invariant of the gate. *)
THEOREM GateInvariant == HtSpec => []HtInv
BY HtInitOK, HtStep, PTL DEF HtSpec

(* RequestScheduler counts a slot for exactly the requests that hold one, and *)
(* a request waits only while every slot is taken: no handover, retry,        *)
(* refusal or cancellation loses or duplicates a slot.                        *)
THEOREM SlotsAreConserved == HtSpec => []SlotsConserved
<1>1. HtInv => SlotsConserved
  BY DEF HtInv
<1> QED
  BY <1>1, GateInvariant, PTL

(* A request whose sync was cancelled sends at most the one fetch that was    *)
(* already in the gate.                                                       *)
THEOREM CancelledSendsAtMostOnce == HtSpec => []CancelledSendsLittle
<1>1. HtInv => CancelledSendsLittle
  BY DEF HtInv, CreditOK, CancelledSendsLittle
<1> QED
  BY <1>1, GateInvariant, PTL

(* No request begins an attempt while the server's pause lasts. *)
THEOREM PauseIsKept == HtSpec => PauseHolds
<1> DEFINE Quiet == \A r \in Requests : at[r] # "sent" /\ at'[r] = "sent" => held = 0
<1>1. HtInv /\ [HtNext]_htVars => [Quiet]_htVars
  <2> SUFFICES ASSUME HtInv, HtNext, NEW r \in Requests, at[r] # "sent", at'[r] = "sent"
               PROVE  held = 0
    OBVIOUS
  <2>1. CASE \E q \in Requests : Send(q)
    BY <2>1 DEF Send, HtInv, HtType, PauseOK
  <2>2. CASE Tick
    BY <2>2 DEF Tick
  <2>3. CASE \E q \in Requests : Begin(q) \/ Enter(q) \/ Wake(q) \/ Cancel(q)
    BY <2>3 DEF Begin, Enter, AcquireSlot, Wake, Cancel, HtInv, HtType
  <2>4. CASE \E q \in Requests, to \in {"asleep"} \cup Ended : Answer(q, to)
    BY <2>4 DEF Answer, Handover, Ended
  <2>5. ASSUME NEW q \in Requests, Succeed(q) \/ Refuse(q) \/ Fail(q) \/ RateLimit(q) \/ AbortFetch(q)
        PROVE  \E to \in {"asleep"} \cup Ended : Answer(q, to)
    <3>1. CASE Succeed(q)
      BY <3>1 DEF Succeed, Ended
    <3>2. CASE Refuse(q)
      BY <3>2, AfterErrorSleeps DEF Refuse
    <3>3. CASE Fail(q)
      BY <3>3, AfterErrorSleeps DEF Fail
    <3>4. CASE RateLimit(q)
      BY <3>4, AfterErrorSleeps DEF RateLimit
    <3>5. CASE AbortFetch(q)
      BY <3>5 DEF AbortFetch, Ended
    <3> QED
      BY <2>5, <3>1, <3>2, <3>3, <3>4, <3>5
  <2> QED
    BY <2>1, <2>2, <2>3, <2>4, <2>5 DEF HtNext
<1> QED
  BY <1>1, GateInvariant, PTL DEF HtSpec, PauseHolds

-----------------------------------------------------------------------------
(* The network stores *)

AuthStates == {"challenge", "signed", "ok", "fail"}
InFlight   == {"challenge", "signed"}
CallStates == {"free", "start", "caps", "capsWait", "ready", "call", "refresh",
               "done", "failed", "refused"}
Versions == {"none", "v1", "v5"}

Auth  == [store : Databases, user : Users, key : Users, at : AuthStates]
Local == [token : Nat, auth : Nat, caps : Versions, capsBy : Callers \cup {0}, as : Users]
Share == [token : Nat, auth : Nat]
Call  == [at : CallStates, store : Databases \cup {0}, kind : {"has", "scan", "head"},
          token : Nat, wait : Nat, on : Callers \cup {0}, again : BOOLEAN, inner : BOOLEAN,
          caps : Versions, fresh : BOOLEAN]
Placed(k) == k \in Call /\ (k.at = "free" \/ k.store \in Databases)

Token(a, t) == t # 0 => t \in DOMAIN a /\ a[t].at = "ok"
Going(a, i) == i \in DOMAIN a /\ a[i].at \in InFlight

CsType ==
  /\ local \in [Databases -> Local] /\ shared \in [Users -> Share]
  /\ auths \in Seq(Auth)
  /\ \A i \in dead : i # 0 /\ Token(auths, i)
  /\ calls \in [Callers -> Call] /\ \A c \in Callers : Placed(calls[c])
  /\ csBudget \in [n : Nat, expiries : Nat, stores : SUBSET Databases,
                   ops : SUBSET {"has", "scan", "head", "net", "lapse", "override"}]

(* What stores and users hold: issued tokens, and authentications of the      *)
(* user; the one in flight is with the store that began it.                   *)
CachesOK(l, sh, a) ==
  /\ \A s \in Databases : Token(a, l[s].token) /\ (l[s].auth # 0 => l[s].auth \in DOMAIN a)
  /\ \A u \in Users :
       /\ Token(a, sh[u].token)
       /\ sh[u].token # 0 => a[sh[u].token].user = u
       /\ sh[u].auth # 0 => Going(a, sh[u].auth) /\ a[sh[u].auth].user = u
  /\ \A i \in DOMAIN a : a[i].at \in InFlight => l[a[i].store].auth = i

(* A store that was never lent while it held an authentication holds only     *)
(* what belongs to its identity.                                              *)
OwnOK(l, a, ln) ==
  \A s \in Databases : s \notin ln =>
    /\ l[s].token # 0 => a[l[s].token].user = l[s].as
    /\ l[s].auth # 0 => a[l[s].auth].user = l[s].as

(* A caller waits for what its store holds.                                   *)
WaitOK(l, a, k) ==
  /\ Token(a, k.token)
  /\ k.wait # 0 => /\ k.at \in {"caps", "call", "refresh"}
                   /\ Going(a, k.wait) /\ l[k.store].auth = k.wait
  /\ k.at \in {"caps", "call"} => k.token # 0 \/ k.wait # 0

(* After a renewal, neither the store's token nor its user's is a dead one.   *)
Renewed(l, sh, d, s) == l[s].token \notin d /\ sh[l[s].as].token \notin d

FreshOK(l, sh, d, k) ==
  k.fresh => /\ Renewed(l, sh, d, k.store) /\ k.at \notin {"refused", "free"}
             /\ k.wait # 0 \/ k.at = "failed" \/ k.token \notin d

(* Without overrides, the one authentication in flight is the shared one.     *)
SharedOK(l, sh, a, ops) ==
  ~("override" \in ops) =>
    /\ \A s \in Databases : l[s].as = Device
    /\ \A i \in DOMAIN a : a[i].at \in InFlight => sh[Device].auth = i

CsInv ==
  /\ CsType
  /\ CachesOK(local, shared, auths)
  /\ OwnOK(local, auths, lent)
  /\ \A c \in Callers : WaitOK(local, auths, calls[c]) /\ FreshOK(local, shared, dead, calls[c])
  /\ SharedOK(local, shared, auths, csBudget.ops)
  /\ TokenFitsIdentity

-----------------------------------------------------------------------------
(* What is checked follows from the invariant. *)
LEMMA CsInvSound ==
  ASSUME CsInv
  PROVE  TokenSound
<1>1. SingleAuthentication
  BY DEF CsInv, SharedOK, SingleAuthentication, InFlight
<1>2. ExpiryIsTransparent
  BY DEF CsInv, FreshOK, ExpiryIsTransparent
<1>3. TokensIssued
  BY DEF CsInv, CachesOK, WaitOK, Token, Going, InFlight, TokensIssued
<1> QED
  BY <1>1, <1>2, <1>3 DEF CsInv, TokenSound

LEMMA CsInitInv ==
  ASSUME CsInit
  PROVE  CsInv
<1>1. /\ DOMAIN auths = {} /\ auths \in Seq(Auth) /\ dead = {}
  BY DEF CsInit
<1>2. CsType
  BY <1>1, CsAssumption DEF CsInit, CsType, Local, Share, Call, Placed, NoCall, Users, Versions,
                            CallStates
<1>3. /\ \A s \in Databases : /\ local[s].token = 0 /\ local[s].auth = 0
                              /\ local[s].as = Device
      /\ \A u \in Users : shared[u].token = 0 /\ shared[u].auth = 0
      /\ \A c \in Callers : /\ calls[c].token = 0 /\ calls[c].wait = 0 /\ ~calls[c].fresh
                            /\ calls[c].at = "free"
  BY DEF CsInit, NoCall
<1>4. CachesOK(local, shared, auths) /\ OwnOK(local, auths, lent)
      /\ SharedOK(local, shared, auths, csBudget.ops)
  BY <1>1, <1>3 DEF CachesOK, OwnOK, SharedOK, Token
<1>5. \A c \in Callers : WaitOK(local, auths, calls[c]) /\ FreshOK(local, shared, dead, calls[c])
  BY <1>1, <1>3 DEF WaitOK, FreshOK, Token
<1>6. TokenFitsIdentity
  BY DEF CsInit, TokenFitsIdentity
<1> QED
  BY <1>2, <1>4, <1>5, <1>6 DEF CsInv

-----------------------------------------------------------------------------
(* Steps *)

(* The invariant after a step. *)
CsInvNext ==
  /\ CsType'
  /\ CachesOK(local', shared', auths')
  /\ OwnOK(local', auths', lent')
  /\ \A c \in Callers : /\ WaitOK(local', auths', calls'[c])
                        /\ FreshOK(local', shared', dead', calls'[c])
  /\ SharedOK(local', shared', auths', csBudget'.ops)
  /\ astray' \subseteq lent'

LEMMA CsInvPrimed ==
  ASSUME CsInvNext
  PROVE  CsInv'
BY DEF CsInvNext, CsInv, CachesOK, OwnOK, WaitOK, FreshOK, Renewed, SharedOK, TokenFitsIdentity,
       Token, Going

(* Only budgets are spent. *)
LEMMA CsSpends ==
  ASSUME CsType, NEW x, CsSpend(x)
  PROVE  /\ csBudget'.ops = csBudget.ops /\ x \in csBudget.ops
         /\ csBudget' \in [n : Nat, expiries : Nat, stores : SUBSET Databases,
                   ops : SUBSET {"has", "scan", "head", "net", "lapse", "override"}]
BY DEF CsType, CsSpend

(* A step of one caller that leaves tokens and authentications alone. *)
LEMMA CallMoves ==
  ASSUME CsInv, NEW c \in Callers, NEW k, Placed(k),
         calls' = [calls EXCEPT ![c] = k],
         WaitOK(local, auths, k), FreshOK(local, shared, dead, k),
         UNCHANGED <<local, shared, auths, dead, astray, lent>>,
         csBudget'.ops = csBudget.ops,
         csBudget' \in [n : Nat, expiries : Nat, stores : SUBSET Databases,
                   ops : SUBSET {"has", "scan", "head", "net", "lapse", "override"}]
  PROVE  CsInvNext
<1>1. \A d \in Callers : calls'[d] = IF d = c THEN k ELSE calls[d]
  BY DEF CsInv, CsType
<1>2. CsType'
  BY <1>1 DEF CsInv, CsType, Placed
<1>3. \A d \in Callers : WaitOK(local', auths', calls'[d]) /\ FreshOK(local', shared', dead', calls'[d])
  BY <1>1 DEF CsInv
<1> QED
  BY <1>2, <1>3 DEF CsInv, CsInvNext, TokenFitsIdentity

LEMMA OperateKeeps ==
  ASSUME CsInv, NEW c \in Callers, NEW s \in csBudget.stores, NEW kind \in {"has", "scan", "head"},
         Operate(c, s, kind)
  PROVE  CsInvNext
<1> DEFINE k == [NoCall EXCEPT !.at = "start", !.store = s, !.kind = kind]
<1>1. s \in Databases
  BY DEF CsInv, CsType
<1>2. Placed(k) /\ k.token = 0 /\ k.wait = 0 /\ ~k.fresh /\ k.at = "start"
  BY <1>1 DEF NoCall, Placed, Call, CallStates, Versions
<1>3. WaitOK(local, auths, k) /\ FreshOK(local, shared, dead, k)
  BY <1>2 DEF WaitOK, FreshOK, Token
<1> HIDE DEF k
<1>4. calls' = [calls EXCEPT ![c] = k] /\ CsSpend(kind)
      /\ UNCHANGED <<local, shared, auths, dead, astray, lent>>
  BY DEF Operate, k
<1> QED
  BY <1>2, <1>3, <1>4, CallMoves, CsSpends DEF CsInv

(* The same when it waits for nothing, and its token and store stay. *)
LEMMA CallAdvances ==
  ASSUME CsInv, NEW c \in Callers, NEW k, Placed(k), calls' = [calls EXCEPT ![c] = k],
         calls[c].wait = 0, k.token = calls[c].token, k.wait = 0, k.store = calls[c].store,
         k.fresh = calls[c].fresh, calls[c].at # "failed",
         k.at \notin {"free", "caps", "call"}, ~(k.at = "refused" /\ k.fresh),
         UNCHANGED <<local, shared, auths, dead, astray, lent>>,
         csBudget'.ops = csBudget.ops,
         csBudget' \in [n : Nat, expiries : Nat, stores : SUBSET Databases,
                   ops : SUBSET {"has", "scan", "head", "net", "lapse", "override"}]
  PROVE  CsInvNext
<1>1. WaitOK(local, auths, calls[c]) /\ FreshOK(local, shared, dead, calls[c])
  BY DEF CsInv
<1>2. WaitOK(local, auths, k) /\ FreshOK(local, shared, dead, k)
  BY <1>1 DEF WaitOK, FreshOK, Renewed
<1> QED
  BY <1>2, CallMoves

LEMMA CallStep ==
  ASSUME CsInv, NEW c \in Callers, NEW x \in CallStates, x \notin {"free", "caps", "call"},
         calls[c].at \notin {"free", "failed"}, calls[c].wait = 0, x = "refused" => ~calls[c].fresh,
         calls' = [calls EXCEPT ![c].at = x],
         UNCHANGED <<local, shared, auths, dead, astray, lent>>,
         csBudget'.ops = csBudget.ops,
         csBudget' \in [n : Nat, expiries : Nat, stores : SUBSET Databases,
                   ops : SUBSET {"has", "scan", "head", "net", "lapse", "override"}]
  PROVE  CsInvNext
<1> DEFINE k == [calls[c] EXCEPT !.at = x]
<1>1. calls[c] \in Call /\ Placed(calls[c])
  BY DEF CsInv, CsType
<1>2. Placed(k) /\ k.token = calls[c].token /\ k.wait = calls[c].wait /\ k.fresh = calls[c].fresh
      /\ k.at = x /\ k.store = calls[c].store
  BY <1>1 DEF Placed, Call
<1>3. calls' = [calls EXCEPT ![c] = k]
  BY DEF k
<1> HIDE DEF k
<1> QED
  BY <1>2, <1>3, CallAdvances

(* Who is neither to be sent nor renewing waits for nothing. *)
LEMMA Unwaiting ==
  ASSUME CsInv, NEW c \in Callers, calls[c].at \notin {"caps", "call", "refresh"}
  PROVE  calls[c].wait = 0
BY DEF CsInv, WaitOK

LEMMA SucceededKeeps ==
  ASSUME CsInv, NEW c \in Callers, Succeeded(c)
  PROVE  CsInvNext
BY CallStep DEF CsInv, CsType, Succeeded, Answered, CallStates

LEMMA NetworkErrorKeeps ==
  ASSUME CsInv, NEW c \in Callers, NetworkError(c)
  PROVE  CsInvNext
<1>1. CsType
  BY DEF CsInv
<1>2. /\ csBudget'.ops = csBudget.ops
      /\ csBudget' \in [n : Nat, expiries : Nat, stores : SUBSET Databases,
                   ops : SUBSET {"has", "scan", "head", "net", "lapse", "override"}]
  BY <1>1, CsSpends DEF NetworkError
<1> QED
  BY <1>2, CallStep DEF NetworkError, Answered, CallStates

LEMMA RefreshedKeeps ==
  ASSUME CsInv, NEW c \in Callers, Refreshed(c)
  PROVE  CsInvNext
<1> PICK x \in {"ready", "start"} : x = IF calls[c].inner THEN "ready" ELSE "start"
  OBVIOUS
<1> QED
  BY CallStep DEF CsInv, CsType, Refreshed, CallStates

(* Refused again: the token is one that the server dropped meanwhile, or that *)
(* was handed over by an authentication that was over.                        *)
LEMMA RefusedAgain ==
  ASSUME CsInv, NEW c \in Callers, Answered(c), calls[c].token \in dead,
         calls' = [calls EXCEPT ![c].at = "refused"],
         UNCHANGED <<local, shared, auths, dead, astray, lent, csBudget>>
  PROVE  CsInvNext
<1>1. FreshOK(local, shared, dead, calls[c])
  BY DEF CsInv
<1>2. ~calls[c].fresh
  BY <1>1 DEF FreshOK, Answered
<1> QED
  BY <1>2, CallStep DEF CsInv, CsType, Answered, CallStates

LEMMA ReadyCall ==
  ASSUME NEW k, Placed(k), k.at \in {"start", "caps", "capsWait"}, NEW v \in Versions
  PROVE  /\ Placed(Ready(k, v)) /\ Ready(k, v).at \in {"ready", "failed"}
         /\ Ready(k, v).token = k.token /\ Ready(k, v).wait = k.wait
         /\ Ready(k, v).fresh = k.fresh /\ Ready(k, v).store = k.store
<1>1. k \in Call /\ k.store \in Databases
  BY DEF Placed
<1>2. CASE k.kind = "head" /\ v = "v1"
  BY <1>1, <1>2 DEF Ready, Placed, Call, CallStates
<1>3. CASE ~(k.kind = "head" /\ v = "v1")
  BY <1>1, <1>3 DEF Ready, Placed, Call, CallStates
<1> QED
  BY <1>2, <1>3

LEMMA CapsKnown ==
  ASSUME CsInv, NEW c \in Callers, calls[c].at = "start",
         calls' = [calls EXCEPT ![c] = Ready(calls[c], local[calls[c].store].caps)],
         UNCHANGED <<local, shared, auths, dead, astray, lent, csBudget>>
  PROVE  CsInvNext
<1>1. Placed(calls[c]) /\ local[calls[c].store].caps \in Versions
  BY DEF CsInv, CsType, Placed, Local
<1> PICK k : k = Ready(calls[c], local[calls[c].store].caps)
  OBVIOUS
<1>2. Placed(k) /\ k.at \in {"ready", "failed"} /\ k.token = calls[c].token /\ k.wait = calls[c].wait
      /\ k.fresh = calls[c].fresh /\ k.store = calls[c].store
  BY <1>1, ReadyCall
<1> QED
  BY <1>2, Unwaiting, CallAdvances DEF CsInv, CsType

LEMMA CapsJoined ==
  ASSUME CsInv, NEW c \in Callers, calls[c].at = "start", CapsInFlight(calls[c].store),
         calls' = [calls EXCEPT ![c].at = "capsWait", ![c].on = local[calls[c].store].capsBy],
         UNCHANGED <<local, shared, auths, dead, astray, lent, csBudget>>
  PROVE  CsInvNext
<1> DEFINE k == [calls[c] EXCEPT !.at = "capsWait", !.on = local[calls[c].store].capsBy]
<1>1. Placed(calls[c]) /\ calls[c] \in Call /\ local[calls[c].store].capsBy \in Callers \cup {0}
  BY DEF CsInv, CsType, Placed, Local
<1>2. Placed(k) /\ k.token = calls[c].token /\ k.wait = calls[c].wait /\ k.fresh = calls[c].fresh
      /\ k.at = "capsWait" /\ k.store = calls[c].store
  BY <1>1 DEF Placed, Call, CallStates
<1>3. calls' = [calls EXCEPT ![c] = k]
  BY <1>1 DEF k, CsInv, CsType
<1> HIDE DEF k
<1> QED
  BY <1>2, <1>3, Unwaiting, CallAdvances DEF CsInv, CsType

-----------------------------------------------------------------------------
(* Caches are cleared, or their capabilities change: tokens stay or go, and   *)
(* no authentication is touched.                                              *)

(* Every token of l2 and sh2 is one of l and sh, or none. *)
Cleared(l, sh, l2, sh2) ==
  /\ \A s \in Databases : /\ l2[s].token \in {0, l[s].token} /\ l2[s].auth = l[s].auth
                          /\ l2[s].as = l[s].as
  /\ \A u \in Users : sh2[u].token \in {0, sh[u].token} /\ sh2[u].auth = sh[u].auth

LEMMA ClearedKeeps ==
  ASSUME NEW l, NEW sh, NEW l2, NEW sh2, NEW a, NEW ln, NEW ops,
         Cleared(l, sh, l2, sh2),
         CachesOK(l, sh, a), OwnOK(l, a, ln), SharedOK(l, sh, a, ops),
         \A i \in DOMAIN a : a[i].store \in Databases
  PROVE  CachesOK(l2, sh2, a) /\ OwnOK(l2, a, ln) /\ SharedOK(l2, sh2, a, ops)
<1>1. CachesOK(l2, sh2, a)
  BY DEF Cleared, CachesOK, Token
<1>2. OwnOK(l2, a, ln)
  BY DEF Cleared, OwnOK
<1>3. SharedOK(l2, sh2, a, ops)
  BY DEF Cleared, SharedOK, Users
<1> QED
  BY <1>1, <1>2, <1>3

LEMMA ClearedCall ==
  ASSUME NEW l, NEW sh, NEW l2, NEW sh2, NEW a, NEW d, 0 \notin d,
         l \in [Databases -> Local], Cleared(l, sh, l2, sh2),
         NEW k, k.at = "free" \/ k.store \in Databases,
         WaitOK(l, a, k), FreshOK(l, sh, d, k)
  PROVE  WaitOK(l2, a, k) /\ FreshOK(l2, sh2, d, k)
<1>1. \A s \in Databases : l[s].as \in Users
  BY DEF Local
<1>2. WaitOK(l2, a, k)
  BY DEF Cleared, WaitOK
<1>3. FreshOK(l2, sh2, d, k)
  BY <1>1 DEF Cleared, FreshOK, Renewed
<1> QED
  BY <1>2, <1>3

(* The parts of the type that a step looks at. *)
LEMMA CsTypeFacts ==
  ASSUME CsInv
  PROVE  /\ 0 \notin dead /\ \A i \in dead : Token(auths, i)
         /\ \A i \in DOMAIN auths : auths[i] \in Auth /\ auths[i].store \in Databases
                                   /\ auths[i].user \in Users
         /\ \A c \in Callers : Placed(calls[c]) /\ calls[c] \in Call
         /\ \A s \in Databases : local[s] \in Local /\ local[s].as \in Users
<1>1. CsType
  BY DEF CsInv
<1>2. \A i \in DOMAIN auths : auths[i] \in Auth
  BY <1>1 DEF CsType
<1> QED
  BY <1>1, <1>2 DEF CsType, Auth, Local, Placed

(* A call that is not sent keeps what it has when its capabilities arrive.    *)
LEMMA CapsResultKeeps ==
  ASSUME CsInv, NEW c \in Callers, NEW v \in {"v1", "v5"}, CapsResult(c, v),
         csBudget'.ops = csBudget.ops,
         csBudget' \in [n : Nat, expiries : Nat, stores : SUBSET Databases,
                   ops : SUBSET {"has", "scan", "head", "net", "lapse", "override"}]
  PROVE  CsInvNext
<1> DEFINE s == calls[c].store
           Told(d) == d = c \/ (calls[d].at = "capsWait" /\ calls[d].on = c)
<1>1. /\ calls[c] \in Call /\ s \in Databases /\ local[s] \in Local /\ 0 \notin dead
      /\ \A i \in DOMAIN auths : auths[i].store \in Databases
      /\ \A d \in Callers : Placed(calls[d])
  BY CsTypeFacts DEF CapsResult, Placed
<1>2. \A t \in Databases : /\ local'[t].token = local[t].token /\ local'[t].auth = local[t].auth
                           /\ local'[t].as = local[t].as
                           /\ local'[t] \in Local
  BY <1>1 DEF CsInv, CsType, CapsResult, Local, Versions
<1>3. Cleared(local, shared, local', shared')
  BY <1>2 DEF Cleared, CapsResult
<1>4. \A d \in Callers : calls'[d] = IF Told(d) THEN Ready(calls[d], v) ELSE calls[d]
  BY DEF CapsResult
<1>5. \A d \in Callers : Told(d) => calls[d].at \in {"caps", "capsWait"}
  BY DEF CapsResult
<1>6. ASSUME NEW d \in Callers, Told(d)
      PROVE  /\ Placed(calls'[d]) /\ calls'[d].at \in {"ready", "failed"}
             /\ calls'[d].token = calls[d].token /\ calls'[d].wait = calls[d].wait
             /\ calls'[d].fresh = calls[d].fresh /\ calls'[d].store = calls[d].store
  BY <1>1, <1>4, <1>5, <1>6, ReadyCall DEF Versions
<1>7. ASSUME NEW d \in Callers
      PROVE  /\ Placed(calls'[d])
             /\ WaitOK(local, auths, calls'[d]) /\ FreshOK(local, shared, dead, calls'[d])
  <2>1. WaitOK(local, auths, calls[d]) /\ FreshOK(local, shared, dead, calls[d]) /\ Placed(calls[d])
    BY <1>1 DEF CsInv
  <2>2. CASE Told(d)
    <3> HIDE DEF Told
    <3>1. PICK k : k = calls'[d]
      OBVIOUS
    <3>2. calls[d].at \in {"caps", "capsWait"}
      BY <1>5, <2>2
    <3>3. calls[d].wait = 0
      BY <2>2, <3>2, Unwaiting DEF CapsResult, Told
    <3> QED
      BY <1>6, <2>1, <2>2, <3>1, <3>2, <3>3 DEF WaitOK, FreshOK, Renewed
  <2>3. CASE ~Told(d)
    BY <1>4, <2>1, <2>3
  <2> QED
    BY <2>2, <2>3
<1>8. CsType'
  <2>1. local' \in [Databases -> Local]
    BY <1>1, <1>2 DEF CapsResult, CsInv, CsType
  <2>2. calls' \in [Callers -> Call]
    BY <1>7 DEF CapsResult, Placed
  <2> QED
    BY <1>7, <2>1, <2>2 DEF CsInv, CsType, CapsResult, Placed
<1>9. \A d \in Callers : WaitOK(local', auths', calls'[d]) /\ FreshOK(local', shared', dead', calls'[d])
  <2>1. \A d \in Callers : calls'[d].at = "free" \/ calls'[d].store \in Databases
    BY <1>7 DEF Placed
  <2>2. UNCHANGED <<auths, dead>> /\ local \in [Databases -> Local]
    BY DEF CsInv, CsType, CapsResult
  <2>3. ASSUME NEW d \in Callers
        PROVE  WaitOK(local', auths, calls'[d]) /\ FreshOK(local', shared', dead, calls'[d])
    BY <1>1, <1>3, <1>7, <2>1, <2>2, ClearedCall
  <2> QED
    BY <2>2, <2>3
<1>10. /\ CachesOK(local', shared', auths') /\ OwnOK(local', auths', lent')
       /\ SharedOK(local', shared', auths', csBudget'.ops)
  BY <1>1, <1>3, ClearedKeeps DEF CsInv, CsType, CapsResult
<1> QED
  BY <1>8, <1>9, <1>10 DEF CsInv, CsInvNext, CapsResult, TokenFitsIdentity

LEMMA CapsFailedKeeps ==
  ASSUME CsInv, NEW c \in Callers, CapsFailed(c)
  PROVE  CsInvNext
<1> DEFINE s == calls[c].store
           k == [calls[c] EXCEPT !.at = "failed"]
<1>1. /\ calls[c] \in Call /\ s \in Databases /\ local[s] \in Local /\ 0 \notin dead
      /\ \A i \in DOMAIN auths : auths[i].store \in Databases
      /\ \A d \in Callers : Placed(calls[d])
  BY CsTypeFacts DEF CapsFailed, Placed
<1>2. \A t \in Databases : /\ local'[t].token = local[t].token /\ local'[t].auth = local[t].auth
                           /\ local'[t].as = local[t].as
                           /\ local'[t] \in Local
  BY <1>1 DEF CsInv, CsType, CapsFailed, Local
<1>3. Cleared(local, shared, local', shared')
  BY <1>2 DEF Cleared, CapsFailed
<1>4. /\ k \in Call /\ Placed(k) /\ k.at = "failed"
      /\ k.token = calls[c].token /\ k.wait = calls[c].wait
      /\ k.fresh = calls[c].fresh /\ k.store = calls[c].store
  BY <1>1 DEF Placed, Call, CallStates
<1>5. calls' = [calls EXCEPT ![c] = k]
  BY DEF CapsFailed
<1> HIDE DEF k
<1>6. \A d \in Callers : calls'[d] = IF d = c THEN k ELSE calls[d]
  BY <1>5 DEF CsInv, CsType
<1>7. \A d \in Callers : /\ Placed(calls'[d])
                         /\ WaitOK(local, auths, calls'[d]) /\ FreshOK(local, shared, dead, calls'[d])
  <2>1. WaitOK(local, auths, calls[c]) /\ FreshOK(local, shared, dead, calls[c])
    BY DEF CsInv
  <2>2. WaitOK(local, auths, k) /\ FreshOK(local, shared, dead, k)
    BY <1>4, <2>1, Unwaiting DEF CapsFailed, WaitOK, FreshOK, Renewed
  <2> QED
    BY <1>1, <1>4, <1>6, <2>2 DEF CsInv
<1>8. CsType'
  <2>1. local' \in [Databases -> Local]
    BY <1>1, <1>2 DEF CapsFailed, CsInv, CsType
  <2>2. calls' \in [Callers -> Call]
    BY <1>4, <1>5 DEF CsInv, CsType
  <2> QED
    BY <1>7, <2>1, <2>2 DEF CsInv, CsType, CapsFailed
<1>9. \A d \in Callers : WaitOK(local', auths', calls'[d]) /\ FreshOK(local', shared', dead', calls'[d])
  <2>1. \A d \in Callers : calls'[d].at = "free" \/ calls'[d].store \in Databases
    BY <1>7 DEF Placed
  <2>2. UNCHANGED <<auths, dead>> /\ local \in [Databases -> Local]
    BY DEF CsInv, CsType, CapsFailed
  <2>3. ASSUME NEW d \in Callers
        PROVE  WaitOK(local', auths, calls'[d]) /\ FreshOK(local', shared', dead, calls'[d])
    BY <1>1, <1>3, <1>7, <2>1, <2>2, ClearedCall
  <2> QED
    BY <2>2, <2>3
<1>10. /\ CachesOK(local', shared', auths') /\ OwnOK(local', auths', lent')
       /\ SharedOK(local', shared', auths', csBudget'.ops)
  BY <1>1, <1>3, ClearedKeeps DEF CsInv, CsType, CapsFailed
<1> QED
  BY <1>8, <1>9, <1>10 DEF CsInv, CsInvNext, CapsFailed, TokenFitsIdentity

LEMMA LapseKeeps ==
  ASSUME CsInv, Lapse
  PROVE  CsInvNext
<1>1. /\ 0 \notin dead /\ \A i \in DOMAIN auths : auths[i].store \in Databases
      /\ \A d \in Callers : Placed(calls[d])
  BY CsTypeFacts
<1>2. \A s \in Databases : /\ local'[s].token = 0 /\ local'[s].auth = local[s].auth
                           /\ local'[s].as = local[s].as /\ local'[s] \in Local
  BY DEF CsInv, CsType, Lapse, Local
<1>3. \A u \in Users : /\ shared'[u].token = 0 /\ shared'[u].auth = shared[u].auth
                       /\ shared'[u] \in Share
  BY DEF CsInv, CsType, Lapse, Share
<1>4. Cleared(local, shared, local', shared')
  BY <1>2, <1>3 DEF Cleared
<1>5. CsType /\ CsSpend("lapse")
  BY DEF CsInv, Lapse
<1>6. CsType'
  <2>1. local' \in [Databases -> Local] /\ shared' \in [Users -> Share]
    BY <1>2, <1>3 DEF Lapse
  <2> QED
    BY <1>5, <2>1, CsSpends DEF CsType, Lapse
<1>7. \A d \in Callers : WaitOK(local', auths', calls'[d]) /\ FreshOK(local', shared', dead', calls'[d])
  <2>1. \A d \in Callers : calls[d].at = "free" \/ calls[d].store \in Databases
    BY <1>1 DEF Placed
  <2>2. UNCHANGED <<auths, dead, calls>> /\ local \in [Databases -> Local]
    BY DEF CsInv, CsType, Lapse
  <2>3. ASSUME NEW d \in Callers
        PROVE  WaitOK(local', auths, calls[d]) /\ FreshOK(local', shared', dead, calls[d])
    BY <1>1, <1>4, <2>1, <2>2, ClearedCall DEF CsInv
  <2> QED
    BY <2>2, <2>3
<1>8. /\ CachesOK(local', shared', auths') /\ OwnOK(local', auths', lent')
      /\ SharedOK(local', shared', auths', csBudget'.ops)
  BY <1>1, <1>4, <1>5, CsSpends, ClearedKeeps DEF CsInv, CsType, Lapse
<1> QED
  BY <1>6, <1>7, <1>8 DEF CsInv, CsInvNext, Lapse, TokenFitsIdentity

-----------------------------------------------------------------------------
(* The environment *)

LEMMA ExpireKeeps ==
  ASSUME CsInv, Expire
  PROVE  CsInvNext
<1>1. \A c \in Callers : calls[c] \in Call /\ Placed(calls[c])
  BY CsTypeFacts
<1>2. ASSUME NEW c \in Callers
      PROVE  /\ calls'[c] \in Call /\ Placed(calls'[c]) /\ ~calls'[c].fresh
             /\ calls'[c].token = calls[c].token /\ calls'[c].wait = calls[c].wait
             /\ calls'[c].store = calls[c].store /\ calls'[c].at = calls[c].at
  <2>1. PICK k \in Call : k = calls[c]
    BY <1>1
  <2>2. PICK q : q = [k EXCEPT !.fresh = FALSE]
    OBVIOUS
  <2>3. /\ q \in Call /\ ~q.fresh /\ q.token = k.token /\ q.wait = k.wait
        /\ q.store = k.store /\ q.at = k.at
    BY <2>2 DEF Call
  <2>4. calls'[c] = q
    BY <2>1, <2>2 DEF Expire
  <2> QED
    BY <1>1, <2>1, <2>3, <2>4 DEF Placed
<1>3. \A i \in dead' : i # 0 /\ Token(auths, i)
  <2>1. auths \in Seq(Auth)
    BY DEF CsInv, CsType
  <2> QED
    BY <2>1 DEF Expire, Token
<1>4. CsType'
  <2>1. calls' \in [Callers -> Call] /\ \A c \in Callers : Placed(calls'[c])
    BY <1>2 DEF Expire
  <2>2. csBudget' \in [n : Nat, expiries : Nat, stores : SUBSET Databases,
                       ops : SUBSET {"has", "scan", "head", "net", "lapse", "override"}]
    <3>1. PICK e \in Nat : e = csBudget.expiries - 1
      BY DEF CsInv, CsType, Expire
    <3>2. csBudget' = [csBudget EXCEPT !.expiries = e]
      BY <3>1 DEF Expire
    <3> QED
      BY <3>2 DEF CsInv, CsType
  <2> QED
    BY <1>3, <2>1, <2>2 DEF CsInv, CsType, Expire, Token, Placed
<1>5. \A c \in Callers : WaitOK(local, auths, calls'[c]) /\ FreshOK(local, shared, dead', calls'[c])
  BY <1>2 DEF CsInv, WaitOK, FreshOK
<1>6. csBudget'.ops = csBudget.ops
  BY DEF CsInv, CsType, Expire
<1> QED
  BY <1>4, <1>5, <1>6 DEF CsInv, CsInvNext, Expire, TokenFitsIdentity

(* The store's caches and both users' are empty after it. *)
LEMMA OverrideKeeps ==
  ASSUME CsInv, NEW s \in csBudget.stores, NEW u \in Users, Override(s, u)
  PROVE  CsInvNext
<1> DEFINE old == local[s].as
<1>1. /\ s \in Databases /\ old \in Users /\ CsSpend("override") /\ CsType
      /\ local[s] \in Local
  BY CsTypeFacts DEF CsInv, CsType, Override
<1>2. \A t \in Databases : /\ local'[t] \in Local
                           /\ local'[t].auth = local[t].auth
                           /\ local'[t].token = IF t = s THEN 0 ELSE local[t].token
                           /\ local'[t].as = IF t = s THEN u ELSE local[t].as
  BY <1>1 DEF CsType, Override, ClearedLocal, Local, Versions
<1>3. \A v \in Users :
        /\ shared'[v] \in Share
        /\ shared'[v].token = IF v \in {u, old} THEN 0 ELSE shared[v].token
        /\ shared'[v].auth = IF v = old THEN 0 ELSE shared[v].auth
  BY <1>1 DEF CsType, Override, Share
<1>4. csBudget'.ops = csBudget.ops /\ "override" \in csBudget.ops
  BY <1>1, CsSpends
<1>5. CsType'
  <2>1. local' \in [Databases -> Local] /\ shared' \in [Users -> Share]
    BY <1>2, <1>3 DEF CsType, CsInv, Override, ClearedLocal
  <2> QED
    BY <1>1, <2>1, CsSpends DEF CsType, Override
<1>6. CachesOK(local', shared', auths)
  <2>1. \A i \in DOMAIN auths : auths[i].store \in Databases
    BY CsTypeFacts
  <2> QED
    BY <1>2, <1>3, <2>1 DEF CsInv, CachesOK, Token
<1>7. OwnOK(local', auths, lent')
  BY <1>2 DEF CsInv, OwnOK, Override
<1>8. ASSUME NEW c \in Callers
      PROVE  WaitOK(local', auths, calls[c]) /\ FreshOK(local', shared', dead, calls[c])
  <2>1. /\ Placed(calls[c]) /\ 0 \notin dead /\ \A t \in Databases : local[t].as \in Users
    BY CsTypeFacts
  <2>2. WaitOK(local, auths, calls[c]) /\ FreshOK(local, shared, dead, calls[c])
    BY DEF CsInv
  <2>3. WaitOK(local', auths, calls[c])
    BY <1>2, <2>1, <2>2 DEF WaitOK, Placed
  <2>4. FreshOK(local', shared', dead, calls[c])
    BY <1>2, <1>3, <2>1, <2>2 DEF FreshOK, Renewed, Placed
  <2> QED
    BY <2>3, <2>4
<1>9. astray' \subseteq lent'
  BY DEF CsInv, Override, TokenFitsIdentity
<1> QED
  BY <1>4, <1>5, <1>6, <1>7, <1>8, <1>9 DEF CsInvNext, Override, SharedOK

-----------------------------------------------------------------------------
(* Authentications *)

(* The authentication i changes, but not whose it is. *)
LEMMA AuthChanged ==
  ASSUME NEW a \in Seq(Auth), NEW i \in DOMAIN a, NEW r \in Auth,
         r.store = a[i].store, r.user = a[i].user
  PROVE  LET b == [a EXCEPT ![i] = r] IN
           /\ b \in Seq(Auth) /\ DOMAIN b = DOMAIN a /\ Len(b) = Len(a)
           /\ \A j \in DOMAIN a : b[j] = IF j = i THEN r ELSE a[j]
OBVIOUS

LEMMA ChallengeKeeps ==
  ASSUME CsInv, NEW i \in DOMAIN auths, Challenge(i)
  PROVE  CsInvNext
<1> DEFINE r == [auths[i] EXCEPT !.at = "signed", !.key = local[auths[i].store].as]
<1>1. /\ auths \in Seq(Auth) /\ auths[i] \in Auth /\ auths[i].at = "challenge"
      /\ local[auths[i].store].as \in Users
  BY CsTypeFacts DEF CsInv, CsType, Challenge
<1>2. r \in Auth /\ r.store = auths[i].store /\ r.user = auths[i].user /\ r.at = "signed"
  BY <1>1 DEF Auth, AuthStates
<1>3. auths' = [auths EXCEPT ![i] = r]
  BY <1>1 DEF Challenge
<1> HIDE DEF r
<1>4. /\ auths' \in Seq(Auth) /\ DOMAIN auths' = DOMAIN auths
      /\ \A j \in DOMAIN auths : auths'[j] = IF j = i THEN r ELSE auths[j]
  BY <1>1, <1>2, <1>3, AuthChanged
<1>5. \A j \in DOMAIN auths : /\ auths'[j].store = auths[j].store /\ auths'[j].user = auths[j].user
                              /\ auths'[j].at \in InFlight <=> auths[j].at \in InFlight
                              /\ auths'[j].at = "ok" <=> auths[j].at = "ok"
  BY <1>1, <1>2, <1>4 DEF InFlight
<1>6. \A t : /\ Token(auths, t) => Token(auths', t)
             /\ Going(auths, t) => Going(auths', t)
  BY <1>4, <1>5 DEF Token, Going
<1>7. CsType'
  <2>1. UNCHANGED <<local, shared, dead, calls, csBudget>> /\ CsType
    BY DEF CsInv, Challenge
  <2>2. \A j \in dead : j # 0 /\ Token(auths', j)
    BY <1>6, <2>1 DEF CsType
  <2>3. \A j \in dead' : j # 0 /\ Token(auths', j)
    BY <2>1, <2>2
  <2> QED
    BY <1>4, <2>1, <2>3 DEF CsType
<1>8. CachesOK(local, shared, auths')
  <2>1. CachesOK(local, shared, auths)
    BY DEF CsInv
  <2>2. \A u \in Users : /\ shared[u].token # 0 => shared[u].token \in DOMAIN auths
                         /\ shared[u].auth # 0 => shared[u].auth \in DOMAIN auths
    BY <2>1 DEF CachesOK, Token, Going
  <2> QED
    BY <1>4, <1>5, <1>6, <2>1, <2>2 DEF CachesOK
<1>9. OwnOK(local, auths', lent)
  <2>1. \A s \in Databases : /\ local[s].token # 0 => local[s].token \in DOMAIN auths
                             /\ local[s].auth # 0 => local[s].auth \in DOMAIN auths
    BY DEF CsInv, CachesOK, Token
  <2> QED
    BY <1>5, <2>1 DEF CsInv, OwnOK
<1>10. \A c \in Callers : WaitOK(local, auths', calls[c])
  BY <1>6 DEF CsInv, WaitOK
<1>11. SharedOK(local, shared, auths', csBudget.ops)
  BY <1>4, <1>5 DEF CsInv, SharedOK
<1> QED
  BY <1>7, <1>8, <1>9, <1>10, <1>11 DEF CsInv, CsInvNext, Challenge, TokenFitsIdentity

(* A call k of caller c that asks for a token, with the caches l and sh.      *)
Asks(c, k, l, sh) ==
  /\ CsType /\ c \in Callers
  /\ l \in [Databases -> Local] /\ sh \in [Users -> Share]
  /\ k \in Call /\ k.store \in Databases /\ k.at \in {"caps", "call", "refresh"}
  /\ k.wait = 0 /\ Token(auths, k.token)
  /\ k.fresh => Renewed(l, sh, dead, k.store)
  /\ CachesOK(l, sh, auths) /\ OwnOK(l, auths, lent) /\ SharedOK(l, sh, auths, csBudget.ops)
  /\ \A d \in Callers : d # c => /\ WaitOK(l, auths, calls[d])
                                 /\ FreshOK(l, sh, dead, calls[d])

(* What it then has: a token, an authentication to wait for, or a failure.    *)
HasAsked(c, s) ==
  /\ local' \in [Databases -> Local] /\ shared' \in [Users -> Share]
  /\ auths' \in Seq(Auth) /\ \A i \in dead : Token(auths', i)
  /\ calls' \in [Callers -> Call] /\ \A d \in Callers : Placed(calls'[d])
  /\ CachesOK(local', shared', auths') /\ OwnOK(local', auths', lent)
  /\ SharedOK(local', shared', auths', csBudget.ops)
  /\ \A d \in Callers : /\ WaitOK(local', auths', calls'[d])
                        /\ FreshOK(local', shared', dead, calls'[d])
  /\ \A d \in Callers : d # c => calls'[d] = calls[d]
  /\ calls'[c].store = s
  /\ calls'[c].at = "call" /\ calls'[c].wait = 0 /\ s \notin lent
       => auths'[calls'[c].token].user = local'[s].as

LEMMA AskFacts ==
  ASSUME NEW c, NEW k, NEW l, NEW sh, Asks(c, k, l, sh)
  PROVE  /\ \A s \in Databases : l[s] \in Local /\ l[s].as \in Users
         /\ \A i \in DOMAIN auths : auths[i] \in Auth /\ auths[i].store \in Databases
                                    /\ auths[i].user \in Users /\ i \in Nat /\ i # 0
         /\ 0 \notin dead
         /\ \A d \in Callers : Placed(calls[d])
<1>1. CsType
  BY DEF Asks
<1>2. \A i \in DOMAIN auths : auths[i] \in Auth /\ i \in Nat /\ i # 0
  BY <1>1 DEF CsType
<1> QED
  BY <1>1, <1>2 DEF Asks, CsType, Auth, Local

LEMMA AskHasToken ==
  ASSUME NEW c, NEW k, NEW l, NEW sh, Asks(c, k, l, sh), EnsureAuthenticated(c, k, l, sh),
         Found(k.store, l, sh).token # 0
  PROVE  HasAsked(c, k.store)
<1> DEFINE s == k.store
           q == [k EXCEPT !.token = Found(s, l, sh).token, !.wait = 0]
<1>1. PICK t : t = Found(s, l, sh).token
  OBVIOUS
<1>2. /\ t # 0 /\ t \in {l[s].token, sh[l[s].as].token}
      /\ l[s].token # 0 => t = l[s].token
      /\ l[s].token = 0 => t = sh[l[s].as].token
  BY <1>1 DEF Found
<1>3. /\ s \in Databases /\ l[s].as \in Users /\ l[s] \in Local /\ sh[l[s].as] \in Share
      /\ k \in Call /\ c \in Callers
  BY AskFacts DEF Asks
<1>4. t \in Nat
  BY <1>2, <1>3 DEF Local, Share
<1>5. /\ shared' = sh /\ auths' = auths
      /\ calls' = [calls EXCEPT ![c] = q]
      /\ local' = [l EXCEPT ![s].token = t, ![s].auth = l[s].auth]
  BY <1>1, <1>2, <1>3 DEF EnsureAuthenticated, Asks
<1>6. \A d \in Databases : /\ local'[d] \in Local
                           /\ local'[d].token = IF d = s THEN t ELSE l[d].token
                           /\ local'[d].auth = l[d].auth /\ local'[d].as = l[d].as
  BY <1>3, <1>4, <1>5 DEF Asks, Local
<1>7. /\ q \in Call /\ q.token = t /\ q.wait = 0 /\ q.at = k.at /\ q.store = s /\ q.fresh = k.fresh
  BY <1>1, <1>3, <1>4 DEF Call
<1> HIDE DEF q
<1>8. \A d \in Callers : calls'[d] = IF d = c THEN q ELSE calls[d]
  BY <1>5 DEF Asks, CsType
<1>9. Token(auths, t) /\ (s \notin lent => auths[t].user = l[s].as)
  BY <1>2, <1>3 DEF Asks, CachesOK, OwnOK
<1>10. CachesOK(local', sh, auths) /\ OwnOK(local', auths, lent)
       /\ SharedOK(local', sh, auths, csBudget.ops)
  <2>1. CachesOK(local', sh, auths)
    BY <1>6, <1>9, AskFacts DEF Asks, CachesOK
  <2>2. OwnOK(local', auths, lent)
    BY <1>6, <1>9 DEF Asks, OwnOK
  <2> QED
    BY <1>6, <2>1, <2>2 DEF Asks, SharedOK
<1>11. ASSUME NEW d \in Databases, Renewed(l, sh, dead, d)
       PROVE  Renewed(local', sh, dead, d)
  BY <1>2, <1>6, <1>11 DEF Renewed
<1>12. k.fresh => t \notin dead
  BY <1>2 DEF Asks, Renewed
<1>13. ASSUME NEW d \in Callers
       PROVE  WaitOK(local', auths, calls'[d]) /\ FreshOK(local', sh, dead, calls'[d])
  <2>1. CASE d = c
    <3>1. WaitOK(local', auths, q)
      BY <1>2, <1>7, <1>9 DEF WaitOK
    <3>2. FreshOK(local', sh, dead, q)
      BY <1>3, <1>7, <1>11, <1>12 DEF FreshOK, Asks
    <3> QED
      BY <1>8, <2>1, <3>1, <3>2
  <2>2. CASE d # c
    <3>1. WaitOK(l, auths, calls[d]) /\ FreshOK(l, sh, dead, calls[d]) /\ Placed(calls[d])
      BY <2>2, AskFacts DEF Asks
    <3>2. WaitOK(local', auths, calls[d])
      BY <1>6, <3>1 DEF WaitOK, Placed
    <3>3. FreshOK(local', sh, dead, calls[d])
      BY <1>11, <3>1 DEF FreshOK, Placed
    <3> QED
      BY <1>8, <2>2, <3>2, <3>3
  <2> QED
    BY <2>1, <2>2
<1>14. local' \in [Databases -> Local] /\ calls' \in [Callers -> Call]
       /\ \A d \in Callers : Placed(calls'[d])
  <2>1. local' \in [Databases -> Local]
    BY <1>5, <1>6 DEF Asks
  <2>2. calls' \in [Callers -> Call]
    BY <1>5, <1>7 DEF Asks, CsType
  <2> QED
    BY <1>3, <1>7, <1>8, <2>1, <2>2, AskFacts DEF Placed
<1>15. calls'[c].store = s /\ (s \notin lent => auths'[calls'[c].token].user = local'[s].as)
  <2>1. calls'[c] = q
    BY <1>3, <1>8
  <2> QED
    BY <1>3, <1>5, <1>6, <1>7, <1>9, <2>1
<1>16. \A i \in dead : Token(auths, i)
  BY DEF Asks, CsType
<1>17. auths \in Seq(Auth) /\ sh \in [Users -> Share] /\ UNCHANGED auths /\ shared' = sh
  BY <1>5 DEF Asks, CsType
<1> QED
  BY <1>8, <1>10, <1>13, <1>14, <1>15, <1>16, <1>17 DEF HasAsked

LEMMA AwaitedCall ==
  ASSUME NEW k, NEW i, k \in Call, i \in DOMAIN auths, auths[i].at \in AuthStates, i \in Nat
  PROVE  LET q == Awaited(k, i) IN
           /\ q \in Call /\ q.store = k.store
           /\ \/ auths[i].at = "ok" /\ q.at = k.at /\ q.token = i /\ q.wait = 0 /\ ~q.fresh
              \/ auths[i].at = "fail" /\ q.at = "failed" /\ q.token = k.token /\ q.wait = 0
                 /\ q.fresh = k.fresh
              \/ auths[i].at \in InFlight /\ q.at = k.at /\ q.token = k.token /\ q.wait = i
                 /\ q.fresh = k.fresh
<1>1. CASE auths[i].at = "ok"
  BY <1>1 DEF Awaited, Call
<1>2. CASE auths[i].at = "fail"
  BY <1>2 DEF Awaited, Call, CallStates
<1>3. CASE auths[i].at \in InFlight
  BY <1>3 DEF Awaited, Call, InFlight
<1> QED
  BY <1>1, <1>2, <1>3 DEF AuthStates, InFlight

LEMMA AskJoins ==
  ASSUME NEW c, NEW k, NEW l, NEW sh, Asks(c, k, l, sh), EnsureAuthenticated(c, k, l, sh),
         Found(k.store, l, sh).token = 0, Found(k.store, l, sh).auth # 0
  PROVE  HasAsked(c, k.store)
<1> DEFINE s == k.store
<1>1. PICK i : i = Found(s, l, sh).auth
  OBVIOUS
<1>2. /\ i # 0 /\ l[s].token = 0 /\ sh[l[s].as].token = 0
      /\ i \in {l[s].auth, sh[l[s].as].auth}
      /\ l[s].auth # 0 => i = l[s].auth
      /\ l[s].auth = 0 => i = sh[l[s].as].auth
  BY <1>1 DEF Found
<1>3. /\ s \in Databases /\ l[s].as \in Users /\ l[s] \in Local
      /\ k \in Call /\ c \in Callers
  BY AskFacts DEF Asks
<1>4. i \in DOMAIN auths /\ i \in Nat /\ auths[i].at \in AuthStates
  <2>1. i \in DOMAIN auths
    BY <1>2, <1>3 DEF Asks, CachesOK, Going
  <2> QED
    BY <2>1, AskFacts DEF Auth
<1>5. s \notin lent => auths[i].user = l[s].as
  BY <1>2, <1>3 DEF Asks, CachesOK, OwnOK
<1>6. PICK q : q = Awaited(k, i)
  OBVIOUS
<1>7. /\ q \in Call /\ q.store = s
      /\ \/ auths[i].at = "ok" /\ q.at = k.at /\ q.token = i /\ q.wait = 0 /\ ~q.fresh
         \/ auths[i].at = "fail" /\ q.at = "failed" /\ q.token = k.token /\ q.wait = 0
            /\ q.fresh = k.fresh
         \/ auths[i].at \in InFlight /\ q.at = k.at /\ q.token = k.token /\ q.wait = i
            /\ q.fresh = k.fresh
  BY <1>3, <1>4, <1>6, AwaitedCall
<1>8. /\ shared' = sh /\ auths' = auths
      /\ calls' = [calls EXCEPT ![c] = q]
      /\ local' = [l EXCEPT ![s].token = 0, ![s].auth = i]
  BY <1>1, <1>2, <1>3, <1>6 DEF EnsureAuthenticated, Asks
<1>9. \A d \in Databases : /\ local'[d] \in Local
                           /\ local'[d].token = l[d].token
                           /\ local'[d].auth = IF d = s THEN i ELSE l[d].auth
                           /\ local'[d].as = l[d].as
  BY <1>2, <1>3, <1>4, <1>8 DEF Asks, Local
<1>10. \A d \in Callers : calls'[d] = IF d = c THEN q ELSE calls[d]
  BY <1>8 DEF Asks, CsType
<1>11. CachesOK(local', sh, auths) /\ OwnOK(local', auths, lent)
       /\ SharedOK(local', sh, auths, csBudget.ops)
  <2>1. CachesOK(local', sh, auths)
    <3>1. \A j \in DOMAIN auths : auths[j].at \in InFlight => local'[auths[j].store].auth = j
      BY <1>2, <1>9, AskFacts DEF Asks, CachesOK
    <3> QED
      BY <1>4, <1>9, <3>1 DEF Asks, CachesOK
  <2>2. OwnOK(local', auths, lent)
    BY <1>5, <1>9 DEF Asks, OwnOK
  <2> QED
    BY <1>9, <2>1, <2>2 DEF Asks, SharedOK
<1>12. ASSUME NEW d \in Databases, Renewed(l, sh, dead, d)
       PROVE  Renewed(local', sh, dead, d)
  BY <1>9, <1>12 DEF Renewed
<1>13. ASSUME NEW d \in Callers
       PROVE  WaitOK(local', auths, calls'[d]) /\ FreshOK(local', sh, dead, calls'[d])
  <2>1. CASE d = c
    <3>1. WaitOK(local', auths, q)
      BY <1>2, <1>3, <1>4, <1>7, <1>9 DEF WaitOK, Asks, Token, Going
    <3>2. FreshOK(local', sh, dead, q)
      BY <1>2, <1>3, <1>7, <1>12 DEF FreshOK, Asks
    <3> QED
      BY <1>10, <2>1, <3>1, <3>2
  <2>2. CASE d # c
    <3>1. WaitOK(l, auths, calls[d]) /\ FreshOK(l, sh, dead, calls[d]) /\ Placed(calls[d])
      BY <2>2, AskFacts DEF Asks
    <3>2. WaitOK(local', auths, calls[d])
      BY <1>2, <1>9, <3>1 DEF WaitOK, Placed
    <3>3. FreshOK(local', sh, dead, calls[d])
      BY <1>12, <3>1 DEF FreshOK, Placed
    <3> QED
      BY <1>10, <2>2, <3>2, <3>3
  <2> QED
    BY <2>1, <2>2
<1>14. local' \in [Databases -> Local] /\ calls' \in [Callers -> Call]
       /\ \A d \in Callers : Placed(calls'[d])
  <2>1. local' \in [Databases -> Local]
    BY <1>8, <1>9 DEF Asks
  <2>2. calls' \in [Callers -> Call]
    BY <1>7, <1>8 DEF Asks, CsType
  <2> QED
    BY <1>3, <1>7, <1>10, <2>1, <2>2, AskFacts DEF Placed
<1>15. calls'[c].store = s /\ (calls'[c].at = "call" /\ calls'[c].wait = 0 /\ s \notin lent
         => auths'[calls'[c].token].user = local'[s].as)
  <2>1. calls'[c] = q /\ q.store = s
    BY <1>3, <1>7, <1>10
  <2>2. q.at = "call" /\ q.wait = 0 => q.token = i
    BY <1>2, <1>7
  <2> QED
    BY <1>3, <1>5, <1>8, <1>9, <2>1, <2>2
<1> QED
  BY <1>8, <1>10, <1>11, <1>13, <1>14, <1>15 DEF HasAsked, Asks, CsType

LEMMA AuthAppended ==
  ASSUME NEW a \in Seq(Auth), NEW r \in Auth
  PROVE  /\ Append(a, r) \in Seq(Auth)
         /\ DOMAIN Append(a, r) = DOMAIN a \cup {Len(a) + 1}
         /\ Len(a) + 1 \notin DOMAIN a /\ Len(a) + 1 \in Nat /\ Len(a) + 1 # 0
         /\ Append(a, r)[Len(a) + 1] = r
         /\ \A i \in DOMAIN a : Append(a, r)[i] = a[i]
OBVIOUS

(* Nobody had an authentication: a new one begins.                            *)
LEMMA AskBegins ==
  ASSUME NEW c, NEW k, NEW l, NEW sh, Asks(c, k, l, sh), EnsureAuthenticated(c, k, l, sh),
         Found(k.store, l, sh).token = 0, Found(k.store, l, sh).auth = 0
  PROVE  HasAsked(c, k.store)
<1> DEFINE s == k.store
           as == l[s].as
           r == [store |-> s, user |-> as, key |-> as, at |-> "challenge"]
<1>1. /\ s \in Databases /\ as \in Users /\ l[s] \in Local /\ sh[as] \in Share
      /\ k \in Call /\ c \in Callers /\ auths \in Seq(Auth)
  BY AskFacts DEF Asks, CsType
<1>2. /\ l[s].token = 0 /\ sh[as].token = 0 /\ l[s].auth = 0 /\ sh[as].auth = 0
  BY DEF Found
<1>3. PICK n : n = Len(auths) + 1
  OBVIOUS
<1>4. r \in Auth
  BY <1>1 DEF Auth, AuthStates
<1>5. /\ auths' = Append(auths, r)
      /\ shared' = [sh EXCEPT ![as].auth = n]
      /\ local' = [l EXCEPT ![s].token = 0, ![s].auth = n]
      /\ calls' = [calls EXCEPT ![c] = [k EXCEPT !.wait = n]]
  BY <1>1, <1>2, <1>3 DEF EnsureAuthenticated, Asks, Found
<1>6. /\ auths' \in Seq(Auth) /\ DOMAIN auths' = DOMAIN auths \cup {n}
      /\ n \notin DOMAIN auths /\ n \in Nat /\ n # 0
      /\ auths'[n].at \in InFlight /\ auths'[n].store = s /\ auths'[n].user = as
      /\ \A j \in DOMAIN auths : auths'[j] = auths[j]
  BY <1>1, <1>3, <1>4, <1>5, AuthAppended DEF InFlight
<1> HIDE DEF r
<1>7. \A t : /\ Token(auths, t) => Token(auths', t)
             /\ Going(auths, t) => Going(auths', t)
  BY <1>6 DEF Token, Going
<1>8. \A d \in Databases : /\ local'[d] \in Local
                           /\ local'[d].token = l[d].token
                           /\ local'[d].auth = IF d = s THEN n ELSE l[d].auth
                           /\ local'[d].as = l[d].as
  BY <1>1, <1>2, <1>5, <1>6 DEF Asks, Local
<1>9. \A u \in Users : /\ shared'[u] \in Share
                       /\ shared'[u].token = sh[u].token
                       /\ shared'[u].auth = IF u = as THEN n ELSE sh[u].auth
  BY <1>1, <1>5, <1>6 DEF Asks, Share
<1>10. PICK q : q = [k EXCEPT !.wait = n]
  OBVIOUS
<1>11. q \in Call /\ q.store = s /\ q.at = k.at /\ q.token = k.token /\ q.wait = n /\ q.fresh = k.fresh
  BY <1>1, <1>6, <1>10 DEF Call
<1>12. \A d \in Callers : calls'[d] = IF d = c THEN q ELSE calls[d]
  BY <1>5, <1>10 DEF Asks, CsType
<1>13. CachesOK(local', shared', auths')
  <2>1. CachesOK(l, sh, auths)
    BY DEF Asks
  <2>2. ASSUME NEW d \in Databases
        PROVE  Token(auths', local'[d].token) /\ (local'[d].auth # 0 => local'[d].auth \in DOMAIN auths')
    BY <1>6, <1>7, <1>8, <2>1 DEF CachesOK
  <2>3. ASSUME NEW u \in Users
        PROVE  /\ Token(auths', shared'[u].token)
               /\ shared'[u].token # 0 => auths'[shared'[u].token].user = u
               /\ shared'[u].auth # 0 => Going(auths', shared'[u].auth) /\ auths'[shared'[u].auth].user = u
    <3>1. sh[u].token # 0 => sh[u].token \in DOMAIN auths
      BY <2>1 DEF CachesOK, Token
    <3>2. u # as /\ sh[u].auth # 0 => sh[u].auth \in DOMAIN auths
      BY <2>1 DEF CachesOK, Going
    <3>3. Going(auths', n)
      BY <1>6 DEF Going
    <3> QED
      BY <1>6, <1>7, <1>9, <2>1, <3>1, <3>2, <3>3 DEF CachesOK
  <2>4. ASSUME NEW j \in DOMAIN auths', auths'[j].at \in InFlight
        PROVE  local'[auths'[j].store].auth = j
    BY <1>1, <1>2, <1>6, <1>8, <2>1, <2>4, AskFacts DEF CachesOK
  <2> QED
    BY <2>2, <2>3, <2>4 DEF CachesOK
<1>14. OwnOK(local', auths', lent)
  <2>1. \A d \in Databases : /\ l[d].token # 0 => l[d].token \in DOMAIN auths
                             /\ l[d].auth # 0 => l[d].auth \in DOMAIN auths
    BY DEF Asks, CachesOK, Token
  <2> QED
    BY <1>6, <1>8, <2>1 DEF Asks, OwnOK
<1>15. SharedOK(local', shared', auths', csBudget.ops)
  <2> SUFFICES ASSUME ~("override" \in csBudget.ops)
               PROVE  /\ \A d \in Databases : local'[d].as = Device
                      /\ \A j \in DOMAIN auths' : auths'[j].at \in InFlight => shared'[Device].auth = j
    BY DEF SharedOK
  <2>1. /\ \A d \in Databases : l[d].as = Device
        /\ \A j \in DOMAIN auths : auths[j].at \in InFlight => sh[Device].auth = j
    BY DEF Asks, SharedOK
  <2>2. as = Device
    BY <1>1, <2>1
  <2>3. \A j \in DOMAIN auths : j # 0
    BY AskFacts
  <2>4. \A j \in DOMAIN auths : auths[j].at \notin InFlight
    BY <1>2, <2>1, <2>2, <2>3
  <2> QED
    BY <1>1, <1>6, <1>8, <1>9, <2>1, <2>2, <2>4
<1>16. ASSUME NEW d \in Databases, Renewed(l, sh, dead, d)
       PROVE  Renewed(local', shared', dead, d)
  BY <1>8, <1>9, <1>16, AskFacts DEF Renewed
<1>17. ASSUME NEW d \in Callers
       PROVE  WaitOK(local', auths', calls'[d]) /\ FreshOK(local', shared', dead, calls'[d])
  <2>1. CASE d = c
    <3>1. WaitOK(local', auths', q)
      BY <1>1, <1>6, <1>7, <1>8, <1>11 DEF WaitOK, Asks, Going
    <3>2. FreshOK(local', shared', dead, q)
      BY <1>1, <1>6, <1>11, <1>16 DEF FreshOK, Asks
    <3> QED
      BY <1>12, <2>1, <3>1, <3>2
  <2>2. CASE d # c
    <3>1. WaitOK(l, auths, calls[d]) /\ FreshOK(l, sh, dead, calls[d]) /\ Placed(calls[d])
      BY <2>2, AskFacts DEF Asks
    <3>2. WaitOK(local', auths', calls[d])
      BY <1>2, <1>7, <1>8, <3>1 DEF WaitOK, Placed
    <3>3. FreshOK(local', shared', dead, calls[d])
      BY <1>16, <3>1 DEF FreshOK, Placed
    <3> QED
      BY <1>12, <2>2, <3>2, <3>3
  <2> QED
    BY <2>1, <2>2
<1>18. /\ local' \in [Databases -> Local] /\ shared' \in [Users -> Share]
       /\ calls' \in [Callers -> Call] /\ \A d \in Callers : Placed(calls'[d])
  <2>1. local' \in [Databases -> Local] /\ shared' \in [Users -> Share]
    BY <1>5, <1>8, <1>9 DEF Asks
  <2>2. calls' \in [Callers -> Call]
    BY <1>5, <1>10, <1>11 DEF Asks, CsType
  <2> QED
    BY <1>1, <1>11, <1>12, <2>1, <2>2, AskFacts DEF Placed
<1>19. calls'[c].store = s /\ calls'[c].wait # 0 /\ \A d \in Callers : d # c => calls'[d] = calls[d]
  BY <1>1, <1>6, <1>11, <1>12
<1>20. \A j \in dead : Token(auths', j)
  BY <1>7 DEF Asks, CsType
<1> QED
  BY <1>6, <1>13, <1>14, <1>15, <1>17, <1>18, <1>19, <1>20 DEF HasAsked

LEMMA AskServed ==
  ASSUME NEW c, NEW k, NEW l, NEW sh, Asks(c, k, l, sh), EnsureAuthenticated(c, k, l, sh)
  PROVE  HasAsked(c, k.store)
BY AskHasToken, AskJoins, AskBegins

(* The step of a caller that was served, whatever else its action says. *)
LEMMA ServedKeeps ==
  ASSUME CsInv, NEW c \in Callers, NEW s \in Databases, HasAsked(c, s),
         UNCHANGED <<dead, lent, csBudget>>,
         \A x \in astray' : x \in astray \/
            (\E d \in Callers : /\ x = calls'[d].store
                                /\ calls'[d].at = "call" /\ calls'[d].wait = 0
                                /\ calls[d].at # "call" \/ calls[d].wait # 0
                                /\ auths'[calls'[d].token].user # local'[calls'[d].store].as)
  PROVE  CsInvNext
<1>1. CsType'
  BY DEF CsInv, CsType, HasAsked, Placed
<1>2. astray' \subseteq lent'
  <2> SUFFICES ASSUME NEW x \in astray', x \notin astray
               PROVE  x \in lent
    BY DEF CsInv, TokenFitsIdentity
  <2>1. PICK d \in Callers : /\ x = calls'[d].store
                             /\ calls'[d].at = "call" /\ calls'[d].wait = 0
                             /\ calls[d].at # "call" \/ calls[d].wait # 0
                             /\ auths'[calls'[d].token].user # local'[calls'[d].store].as
    OBVIOUS
  <2>2. d = c
    BY <2>1 DEF HasAsked
  <2> QED
    BY <2>1, <2>2 DEF HasAsked
<1>3. \A d \in Callers : /\ WaitOK(local', auths', calls'[d])
                         /\ FreshOK(local', shared', dead', calls'[d])
  BY DEF HasAsked
<1> QED
  BY <1>1, <1>2, <1>3 DEF HasAsked, CsInvNext

LEMMA RequestKeeps ==
  ASSUME CsInv, NEW c \in Callers, Request(c)
  PROVE  CsInvNext
<1> DEFINE k == [calls[c] EXCEPT !.at = "call"]
<1>1. /\ calls[c] \in Call /\ calls[c].store \in Databases /\ calls[c].at = "ready"
      /\ WaitOK(local, auths, calls[c]) /\ FreshOK(local, shared, dead, calls[c])
  BY CsTypeFacts DEF CsInv, Request, Placed
<1>2. /\ k \in Call /\ k.store = calls[c].store /\ k.at = "call" /\ k.wait = calls[c].wait
      /\ k.token = calls[c].token /\ k.fresh = calls[c].fresh
  BY <1>1 DEF Call, CallStates
<1>3. EnsureAuthenticated(c, k, local, shared)
  BY DEF Request
<1> HIDE DEF k
<1>4. calls[c].wait = 0
  BY <1>1, Unwaiting
<1>5. Asks(c, k, local, shared)
  BY <1>1, <1>2, <1>4 DEF Asks, CsInv, CsType, WaitOK, FreshOK
<1>6. HasAsked(c, calls[c].store)
  BY <1>2, <1>3, <1>5, AskServed
<1>7. UNCHANGED <<dead, lent, csBudget>>
  BY DEF Request, Watch
<1>8. Watch
  BY DEF Request
<1> QED
  BY <1>1, <1>6, <1>7, <1>8, ServedKeeps DEF Watch

LEMMA CapsAsked ==
  ASSUME CsInv, NEW c \in Callers, calls[c].at = "start",
         EnsureAuthenticated(c, [calls[c] EXCEPT !.at = "caps"],
                             [local EXCEPT ![calls[c].store].capsBy = c], shared),
         UNCHANGED <<dead, astray, lent, csBudget>>
  PROVE  CsInvNext
<1> DEFINE s == calls[c].store
           k == [calls[c] EXCEPT !.at = "caps"]
           l == [local EXCEPT ![s].capsBy = c]
<1>1. /\ calls[c] \in Call /\ s \in Databases /\ 0 \notin dead
      /\ WaitOK(local, auths, calls[c]) /\ FreshOK(local, shared, dead, calls[c])
      /\ local \in [Databases -> Local] /\ shared \in [Users -> Share]
      /\ \A i \in DOMAIN auths : auths[i].store \in Databases
  BY CsTypeFacts DEF CsInv, CsType, Placed
<1>2. /\ k \in Call /\ k.store = s /\ k.at = "caps" /\ k.wait = calls[c].wait
      /\ k.token = calls[c].token /\ k.fresh = calls[c].fresh
  BY <1>1 DEF Call, CallStates
<1>3. l \in [Databases -> Local]
      /\ \A t \in Databases : /\ l[t].token = local[t].token /\ l[t].auth = local[t].auth
                              /\ l[t].as = local[t].as
  BY <1>1 DEF Local
<1> HIDE DEF k, l
<1>4. Cleared(local, shared, l, shared)
  BY <1>3 DEF Cleared
<1>5. calls[c].wait = 0
  BY Unwaiting
<1>6. k.fresh => Renewed(l, shared, dead, s)
  BY <1>1, <1>2, <1>3 DEF FreshOK, Renewed
<1>7. CachesOK(l, shared, auths) /\ OwnOK(l, auths, lent) /\ SharedOK(l, shared, auths, csBudget.ops)
  BY <1>1, <1>4, ClearedKeeps DEF CsInv
<1>8. ASSUME NEW d \in Callers
      PROVE  WaitOK(l, auths, calls[d]) /\ FreshOK(l, shared, dead, calls[d])
  <2>1. calls[d].at = "free" \/ calls[d].store \in Databases
    BY CsTypeFacts DEF Placed
  <2> QED
    BY <1>1, <1>4, <2>1, ClearedCall DEF CsInv
<1>9. Asks(c, k, l, shared)
  BY <1>1, <1>2, <1>3, <1>5, <1>6, <1>7, <1>8 DEF Asks, CsInv, WaitOK
<1>10. HasAsked(c, s)
  <2>1. EnsureAuthenticated(c, k, l, shared)
    BY DEF k, l
  <2> QED
    BY <1>2, <1>9, <2>1, AskServed
<1> QED
  BY <1>1, <1>10, ServedKeeps

LEMMA NeedCapsKeeps ==
  ASSUME CsInv, NEW c \in Callers, NeedCaps(c)
  PROVE  CsInvNext
BY CapsKnown, CapsJoined, CapsAsked DEF NeedCaps

(* A refused token: the store and its user forget theirs and ask for a new    *)
(* one.                                                                       *)
LEMMA Renews ==
  ASSUME CsInv, NEW c \in Callers, Answered(c), NEW b \in BOOLEAN, NEW g \in BOOLEAN,
         EnsureAuthenticated(c, [calls[c] EXCEPT !.at = "refresh", !.inner = b, !.again = g,
                                                 !.fresh = TRUE],
                             ClearedLocal(calls[c].store), ClearedShared(calls[c].store)),
         UNCHANGED <<dead, astray, lent, csBudget>>
  PROVE  CsInvNext
<1> DEFINE s == calls[c].store
           k == [calls[c] EXCEPT !.at = "refresh", !.inner = b, !.again = g, !.fresh = TRUE]
<1>1. /\ calls[c] \in Call /\ s \in Databases /\ 0 \notin dead /\ calls[c].wait = 0
      /\ WaitOK(local, auths, calls[c]) /\ local[s].as \in Users
      /\ local \in [Databases -> Local] /\ shared \in [Users -> Share]
      /\ \A i \in DOMAIN auths : auths[i].store \in Databases
  BY CsTypeFacts DEF CsInv, CsType, Placed, Answered
<1>2. /\ k \in Call /\ k.store = s /\ k.at = "refresh" /\ k.wait = 0 /\ k.token = calls[c].token
  BY <1>1 DEF Call, CallStates
<1> PICK l : l = ClearedLocal(s)
  OBVIOUS
<1> PICK sh : sh = ClearedShared(s)
  OBVIOUS
<1>3. /\ l \in [Databases -> Local] /\ l[s].token = 0
      /\ \A t \in Databases : /\ l[t].token \in {0, local[t].token} /\ l[t].auth = local[t].auth
                              /\ l[t].as = local[t].as
  <2>1. \A t \in Databases : /\ l[t] \in Local
                             /\ l[t].auth = local[t].auth /\ l[t].as = local[t].as
                             /\ l[t].token = IF t = s THEN 0 ELSE local[t].token
    <3>1. PICK r : r = [local[s] EXCEPT !.token = 0, !.caps = "none", !.capsBy = 0]
      OBVIOUS
    <3>2. r \in Local /\ r.auth = local[s].auth /\ r.as = local[s].as /\ r.token = 0
      BY <1>1, <3>1 DEF Local, Versions
    <3>3. l = [local EXCEPT ![s] = r]
      BY <1>1, <3>1 DEF ClearedLocal
    <3> QED
      BY <1>1, <3>2, <3>3
  <2>2. l \in [Databases -> Local]
    BY <1>1, <2>1 DEF ClearedLocal
  <2> QED
    BY <1>1, <2>1, <2>2
<1>4. /\ sh \in [Users -> Share] /\ sh[local[s].as].token = 0
      /\ \A u \in Users : sh[u].token \in {0, shared[u].token} /\ sh[u].auth = shared[u].auth
  BY <1>1 DEF Share, ClearedShared
<1>5. EnsureAuthenticated(c, k, l, sh)
  OBVIOUS
<1> HIDE DEF k
<1>6. Cleared(local, shared, l, sh)
  BY <1>3, <1>4 DEF Cleared
<1>7. Renewed(l, sh, dead, s)
  BY <1>1, <1>3, <1>4 DEF Renewed
<1>8. CachesOK(l, sh, auths) /\ OwnOK(l, auths, lent) /\ SharedOK(l, sh, auths, csBudget.ops)
  BY <1>1, <1>6, ClearedKeeps DEF CsInv
<1>9. ASSUME NEW d \in Callers
      PROVE  WaitOK(l, auths, calls[d]) /\ FreshOK(l, sh, dead, calls[d])
  <2>1. calls[d].at = "free" \/ calls[d].store \in Databases
    BY CsTypeFacts DEF Placed
  <2> QED
    BY <1>1, <1>6, <2>1, ClearedCall DEF CsInv
<1>10. Asks(c, k, l, sh)
  BY <1>1, <1>2, <1>3, <1>4, <1>7, <1>8, <1>9 DEF Asks, CsInv, WaitOK
<1>11. HasAsked(c, s)
  BY <1>2, <1>5, <1>10, AskServed
<1> QED
  BY <1>1, <1>11, ServedKeeps

LEMMA RefusedKeeps ==
  ASSUME CsInv, NEW c \in Callers, Refused(c)
  PROVE  CsInvNext
<1> DEFINE inner == Nested(calls[c]) /\ ~calls[c].inner
<1>1. calls[c] \in Call /\ Answered(c)
  BY CsTypeFacts DEF Refused
<1>2. CASE inner \/ ~calls[c].again
  <2>1. PICK b \in BOOLEAN : b = inner
    OBVIOUS
  <2>2. PICK g \in BOOLEAN : g = (calls[c].again \/ ~inner)
    OBVIOUS
  <2>3. EnsureAuthenticated(c, [calls[c] EXCEPT !.at = "refresh", !.inner = b, !.again = g,
                                                !.fresh = TRUE],
                            ClearedLocal(calls[c].store), ClearedShared(calls[c].store))
        /\ UNCHANGED <<dead, astray, lent, csBudget>>
    BY <1>2, <2>1, <2>2 DEF Refused
  <2> QED
    BY <1>1, <2>3, Renews
<1>3. CASE ~(inner \/ ~calls[c].again)
  BY <1>1, <1>3, RefusedAgain DEF Refused
<1> QED
  BY <1>2, <1>3

-----------------------------------------------------------------------------
(* The end of an authentication *)

(* What the end of authentication i leaves in the caches.                     *)
LEMMA EndedCaches ==
  ASSUME CsInv, NEW i \in DOMAIN auths, NEW ok \in BOOLEAN, auths[i].at \in InFlight,
         AuthEnd(i, ok)
  PROVE  /\ auths' \in Seq(Auth) /\ DOMAIN auths' = DOMAIN auths /\ i \in Nat /\ i # 0
         /\ auths'[i].at = IF ok THEN "ok" ELSE "fail"
         /\ \A j \in DOMAIN auths : /\ auths'[j].store = auths[j].store
                                    /\ auths'[j].user = auths[j].user
                                    /\ j # i => auths'[j] = auths[j]
         /\ local[auths[i].store].auth = i
         /\ local' \in [Databases -> Local]
         /\ \A s \in Databases :
              /\ local'[s].as = local[s].as
              /\ local'[s].token = IF ok /\ local[s].auth = i THEN i ELSE local[s].token
              /\ local[s].auth # i => local'[s].auth = local[s].auth
              /\ local[s].auth = i => local'[s].auth \in {0, i}
              /\ s = auths[i].store => local'[s].auth = 0
         /\ shared' \in [Users -> Share]
         /\ \A u \in Users :
              /\ shared'[u].token = IF ok /\ u = auths[i].user THEN i ELSE shared[u].token
              /\ shared'[u].auth \in {0, shared[u].auth}
              /\ shared'[u].auth # i
              /\ u # auths[i].user => shared'[u].auth = shared[u].auth
<1> DEFINE a == auths[i]
           v == IF ok THEN "ok" ELSE "fail"
<1>1. /\ auths \in Seq(Auth) /\ a \in Auth /\ a.store \in Databases /\ a.user \in Users
      /\ local \in [Databases -> Local] /\ shared \in [Users -> Share]
      /\ i \in Nat /\ i # 0
  BY CsTypeFacts DEF CsInv, CsType
<1>2. local[a.store].auth = i
  BY DEF CsInv, CachesOK
<1>3. \A u \in Users : shared[u].auth = i => u = a.user
  BY <1>1 DEF CsInv, CachesOK
<1>4. /\ auths' \in Seq(Auth) /\ DOMAIN auths' = DOMAIN auths /\ auths'[i].at = v
      /\ \A j \in DOMAIN auths : /\ auths'[j].store = auths[j].store
                                 /\ auths'[j].user = auths[j].user
                                 /\ j # i => auths'[j] = auths[j]
  <2>1. PICK r : r = [a EXCEPT !.at = v]
    OBVIOUS
  <2>2. r \in Auth /\ r.store = a.store /\ r.user = a.user /\ r.at = v
    BY <1>1, <2>1 DEF Auth, AuthStates
  <2>3. auths' = [auths EXCEPT ![i] = r]
    BY <2>1 DEF AuthEnd
  <2> QED
    BY <1>1, <2>2, <2>3, AuthChanged
<1>5. PICK left \in Nat : left = IF shared[a.user].auth = i THEN 0 ELSE shared[a.user].auth
  BY <1>1 DEF Share
<1>6. shared' = [shared EXCEPT ![a.user].auth = left, ![a.user].token = IF ok THEN i ELSE shared[a.user].token]
  BY <1>1, <1>2, <1>5 DEF AuthEnd
<1>7. /\ shared' \in [Users -> Share]
      /\ \A u \in Users :
           /\ shared'[u].token = IF ok /\ u = a.user THEN i ELSE shared[u].token
           /\ shared'[u].auth = IF u = a.user THEN left ELSE shared[u].auth
  <2>1. PICK t \in Nat : t = IF ok THEN i ELSE shared[a.user].token
    BY <1>1 DEF Share
  <2>2. shared' = [shared EXCEPT ![a.user].auth = left, ![a.user].token = t]
    BY <1>6, <2>1
  <2>3. \A u \in Users :
          /\ shared'[u] \in Share
          /\ shared'[u].token = IF u = a.user THEN t ELSE shared[u].token
          /\ shared'[u].auth = IF u = a.user THEN left ELSE shared[u].auth
    BY <1>1, <2>1, <2>2 DEF Share
  <2> QED
    BY <1>1, <2>1, <2>2, <2>3
<1>8. \A u \in Users : /\ shared'[u].auth \in {0, shared[u].auth}
                       /\ shared'[u].auth # i
                       /\ u # a.user => shared'[u].auth = shared[u].auth
  BY <1>1, <1>3, <1>5, <1>7
<1>9. left # i
  BY <1>1, <1>5
<1>10. PICK own : own = [local EXCEPT ![a.store].token = IF ok THEN i ELSE local[a.store].token,
                                      ![a.store].auth = 0]
  OBVIOUS
<1>11. \A s \in Databases :
         /\ own[s] \in Local /\ own[s].as = local[s].as
         /\ own[s].auth = IF s = a.store THEN 0 ELSE local[s].auth
         /\ own[s].token = IF s = a.store /\ ok THEN i ELSE local[s].token
  <2>1. PICK t \in Nat : t = IF ok THEN i ELSE local[a.store].token
    BY <1>1 DEF Local
  <2>2. own = [local EXCEPT ![a.store].token = t, ![a.store].auth = 0]
    BY <1>10, <2>1
  <2>3. \A s \in Databases :
          /\ own[s] \in Local /\ own[s].as = local[s].as
          /\ own[s].auth = IF s = a.store THEN 0 ELSE local[s].auth
          /\ own[s].token = IF s = a.store THEN t ELSE local[s].token
    BY <1>1, <2>1, <2>2 DEF Local
  <2> QED
    BY <1>1, <2>1, <2>3
<1>12. local' = [s \in Databases |->
                   IF s = a.store \/ local[s].auth # i THEN own[s]
                   ELSE [own[s] EXCEPT !.token = IF ok THEN i ELSE own[s].token, !.auth = i]]
  <2>1. local' = [s \in Databases |->
                   IF s = a.store \/ local[s].auth # i THEN own[s]
                   ELSE [own[s] EXCEPT !.token = IF ok THEN i ELSE @,
                                       !.auth = IF i = left THEN 0 ELSE i]]
    BY <1>1, <1>2, <1>5, <1>10 DEF AuthEnd
  <2> QED
    BY <1>9, <2>1
<1>13. ASSUME NEW s \in Databases
       PROVE  /\ local'[s] \in Local /\ local'[s].as = local[s].as
              /\ local'[s].token = IF ok /\ local[s].auth = i THEN i ELSE local[s].token
              /\ local[s].auth # i => local'[s].auth = local[s].auth
              /\ local[s].auth = i => local'[s].auth \in {0, i}
              /\ s = a.store => local'[s].auth = 0
  <2>1. CASE s = a.store \/ local[s].auth # i
    <3>1. local'[s] = own[s]
      BY <1>12, <2>1
    <3> QED
      BY <1>2, <1>11, <2>1, <3>1
  <2>2. CASE ~(s = a.store \/ local[s].auth # i)
    <3>1. PICK t \in Nat : t = IF ok THEN i ELSE own[s].token
      BY <1>1, <1>11 DEF Local
    <3>2. local'[s] = [own[s] EXCEPT !.token = t, !.auth = i]
      BY <1>12, <2>2, <3>1
    <3>3. local'[s] \in Local /\ local'[s].token = t /\ local'[s].auth = i /\ local'[s].as = own[s].as
      BY <1>1, <1>11, <3>1, <3>2 DEF Local
    <3> QED
      BY <1>11, <2>2, <3>1, <3>3
  <2> QED
    BY <2>1, <2>2
<1>14. local' \in [Databases -> Local]
  BY <1>12, <1>13
<1> QED
  BY <1>1, <1>2, <1>4, <1>7, <1>8, <1>13, <1>14

LEMMA AuthEndKeeps ==
  ASSUME CsInv, NEW i \in DOMAIN auths, NEW ok \in BOOLEAN, auths[i].at \in InFlight,
         AuthEnd(i, ok), csBudget'.ops = csBudget.ops,
         csBudget' \in [n : Nat, expiries : Nat, stores : SUBSET Databases,
                   ops : SUBSET {"has", "scan", "head", "net", "lapse", "override"}]
  PROVE  CsInvNext
<1> DEFINE s0 == auths[i].store
           u0 == auths[i].user
<1>1. /\ auths' \in Seq(Auth) /\ DOMAIN auths' = DOMAIN auths /\ i \in Nat /\ i # 0
      /\ auths'[i].at = IF ok THEN "ok" ELSE "fail"
      /\ \A j \in DOMAIN auths : /\ auths'[j].store = auths[j].store
                                 /\ auths'[j].user = auths[j].user
                                 /\ j # i => auths'[j] = auths[j]
      /\ local[s0].auth = i /\ local' \in [Databases -> Local] /\ shared' \in [Users -> Share]
  BY EndedCaches
<1>2. \A s \in Databases :
        /\ local'[s].as = local[s].as
        /\ local'[s].token = IF ok /\ local[s].auth = i THEN i ELSE local[s].token
        /\ local[s].auth # i => local'[s].auth = local[s].auth
        /\ local[s].auth = i => local'[s].auth \in {0, i}
  BY EndedCaches
<1>3. \A u \in Users :
        /\ shared'[u].token = IF ok /\ u = u0 THEN i ELSE shared[u].token
        /\ shared'[u].auth \in {0, shared[u].auth}
        /\ shared'[u].auth # i
  BY EndedCaches
<1>4. /\ 0 \notin dead /\ i \notin dead /\ s0 \in Databases /\ u0 \in Users
      /\ \A j \in DOMAIN auths : auths[j].store \in Databases
      /\ \A s \in Databases : local[s].as \in Users
      /\ \A c \in Callers : Placed(calls[c]) /\ calls[c] \in Call
  BY CsTypeFacts DEF Token, InFlight
<1>5. \A t : Token(auths, t) => Token(auths', t) /\ t # i
  BY <1>1 DEF Token, InFlight
<1>6. \A t : Going(auths, t) /\ t # i => Going(auths', t)
  BY <1>1 DEF Going
<1>7. ok => Token(auths', i)
  BY <1>1 DEF Token
<1>8. \A t : t \in DOMAIN auths /\ auths'[t].at \in InFlight => t # i /\ auths[t].at \in InFlight
  BY <1>1 DEF InFlight
<1>9. CachesOK(local', shared', auths')
  <2>1. CachesOK(local, shared, auths)
    BY DEF CsInv
  <2>2. ASSUME NEW s \in Databases
        PROVE  Token(auths', local'[s].token) /\ (local'[s].auth # 0 => local'[s].auth \in DOMAIN auths')
    BY <1>1, <1>2, <1>5, <1>7, <2>1 DEF CachesOK
  <2>3. ASSUME NEW u \in Users
        PROVE  /\ Token(auths', shared'[u].token)
               /\ shared'[u].token # 0 => auths'[shared'[u].token].user = u
               /\ shared'[u].auth # 0 => Going(auths', shared'[u].auth) /\ auths'[shared'[u].auth].user = u
    <3>1. /\ shared[u].token # 0 => shared[u].token \in DOMAIN auths
          /\ shared[u].auth # 0 => shared[u].auth \in DOMAIN auths
      BY <2>1 DEF CachesOK, Token, Going
    <3> QED
      BY <1>1, <1>3, <1>5, <1>6, <1>7, <2>1, <3>1 DEF CachesOK
  <2>4. ASSUME NEW j \in DOMAIN auths, auths'[j].at \in InFlight
        PROVE  local'[auths'[j].store].auth = j
    <3>1. j # i /\ auths[j].at \in InFlight /\ local[auths[j].store].auth = j
      BY <1>8, <2>1, <2>4 DEF CachesOK
    <3> QED
      BY <1>1, <1>2, <1>4, <3>1
  <2> QED
    BY <1>1, <2>2, <2>3, <2>4 DEF CachesOK
<1>10. OwnOK(local', auths', lent')
  <2>1. UNCHANGED lent
    BY DEF AuthEnd, Watch
  <2>2. ASSUME NEW s \in Databases, s \notin lent
        PROVE  /\ local'[s].token # 0 => auths'[local'[s].token].user = local'[s].as
               /\ local'[s].auth # 0 => auths'[local'[s].auth].user = local'[s].as
    <3>1. /\ local[s].token # 0 => local[s].token \in DOMAIN auths
          /\ local[s].auth # 0 => local[s].auth \in DOMAIN auths
      BY DEF CsInv, CachesOK, Token
    <3>2. /\ local[s].token # 0 => auths[local[s].token].user = local[s].as
          /\ local[s].auth # 0 => auths[local[s].auth].user = local[s].as
      BY <2>2 DEF CsInv, OwnOK
    <3> QED
      BY <1>1, <1>2, <3>1, <3>2
  <2> QED
    BY <2>1, <2>2 DEF OwnOK
<1>11. SharedOK(local', shared', auths', csBudget'.ops)
  <2>1. SharedOK(local, shared, auths, csBudget.ops)
    BY DEF CsInv
  <2> SUFFICES ASSUME ~("override" \in csBudget.ops)
               PROVE  /\ \A s \in Databases : local'[s].as = Device
                      /\ \A j \in DOMAIN auths : auths'[j].at \notin InFlight
    BY <1>1 DEF SharedOK
  <2>2. /\ \A s \in Databases : local[s].as = Device
        /\ \A j \in DOMAIN auths : auths[j].at \in InFlight => shared[Device].auth = j
    BY <2>1 DEF SharedOK
  <2> QED
    BY <1>2, <1>8, <2>2
<1>12. \A s \in Databases : Renewed(local, shared, dead, s) => Renewed(local', shared', dead, s)
  BY <1>2, <1>3, <1>4 DEF Renewed
<1>13. ASSUME NEW c \in Callers
       PROVE  /\ calls'[c] \in Call /\ Placed(calls'[c]) /\ calls'[c].store = calls[c].store
              /\ calls'[c].fresh = calls[c].fresh
              /\ calls[c].wait # i => calls'[c] = calls[c]
              /\ calls[c].wait = i /\ ok => /\ calls'[c].token = i /\ calls'[c].wait = 0
                                            /\ calls'[c].at = calls[c].at
              /\ calls[c].wait = i /\ ~ok => /\ calls'[c].at = "failed" /\ calls'[c].wait = 0
                                             /\ calls'[c].token = calls[c].token
  <2>1. calls'[c] = IF calls[c].wait # i THEN calls[c]
                    ELSE IF ok THEN [calls[c] EXCEPT !.token = i, !.wait = 0]
                    ELSE [calls[c] EXCEPT !.at = "failed", !.wait = 0]
    BY DEF AuthEnd
  <2>2. CASE calls[c].wait # i
    BY <1>4, <2>1, <2>2
  <2>3. CASE calls[c].wait = i /\ ok
    <3>1. calls'[c] = [calls[c] EXCEPT !.token = i, !.wait = 0]
      BY <2>1, <2>3
    <3>2. PICK k \in Call : k = calls[c] /\ (k.at = "free" \/ k.store \in Databases)
      BY <1>4 DEF Placed
    <3>3. PICK q : q = [k EXCEPT !.token = i, !.wait = 0]
      OBVIOUS
    <3>4. /\ q \in Call /\ q.store = k.store /\ q.fresh = k.fresh /\ q.at = k.at
          /\ q.token = i /\ q.wait = 0
      BY <1>1, <3>3 DEF Call
    <3>5. calls'[c] = q /\ Placed(q)
      BY <3>1, <3>2, <3>3, <3>4 DEF Placed
    <3> QED
      BY <2>3, <3>2, <3>4, <3>5
  <2>4. CASE calls[c].wait = i /\ ~ok
    <3>1. calls'[c] = [calls[c] EXCEPT !.at = "failed", !.wait = 0]
      BY <2>1, <2>4
    <3>2. calls[c].store \in Databases
      BY <1>1, <1>4, <2>4 DEF CsInv, WaitOK, Placed
    <3>3. PICK k \in Call : k = calls[c]
      BY <1>4
    <3>4. PICK q : q = [k EXCEPT !.at = "failed", !.wait = 0]
      OBVIOUS
    <3>5. /\ q \in Call /\ q.store = k.store /\ q.fresh = k.fresh /\ q.at = "failed"
          /\ q.token = k.token /\ q.wait = 0
      BY <3>4 DEF Call, CallStates
    <3>6. calls'[c] = q /\ Placed(q)
      BY <3>1, <3>2, <3>3, <3>4, <3>5 DEF Placed
    <3> QED
      BY <2>4, <3>3, <3>5, <3>6
  <2> QED
    BY <2>2, <2>3, <2>4
<1>14. ASSUME NEW c \in Callers
       PROVE  WaitOK(local', auths', calls'[c]) /\ FreshOK(local', shared', dead, calls'[c])
  <2>1. /\ WaitOK(local, auths, calls[c]) /\ FreshOK(local, shared, dead, calls[c])
        /\ calls[c].at = "free" \/ calls[c].store \in Databases
    BY <1>4 DEF CsInv, Placed
  <2>2. WaitOK(local', auths', calls'[c])
    <3>1. CASE calls[c].wait # i
      <4>1. calls'[c] = calls[c]
        BY <1>13, <3>1
      <4>2. calls[c].wait # 0 => local'[calls[c].store].auth = calls[c].wait
        BY <1>2, <2>1, <3>1 DEF WaitOK
      <4> QED
        BY <1>5, <1>6, <2>1, <3>1, <4>1, <4>2 DEF WaitOK
    <3>2. CASE calls[c].wait = i
      BY <1>1, <1>5, <1>7, <1>13, <2>1, <3>2 DEF WaitOK
    <3> QED
      BY <3>1, <3>2
  <2>3. FreshOK(local', shared', dead, calls'[c])
    <3> SUFFICES ASSUME calls[c].fresh
                 PROVE  /\ Renewed(local', shared', dead, calls[c].store)
                        /\ calls'[c].at \notin {"refused", "free"}
                        /\ calls'[c].wait # 0 \/ calls'[c].at = "failed" \/ calls'[c].token \notin dead
      BY <1>13 DEF FreshOK
    <3>1. /\ Renewed(local, shared, dead, calls[c].store) /\ calls[c].store \in Databases
          /\ calls[c].at \notin {"refused", "free"}
          /\ calls[c].wait # 0 \/ calls[c].at = "failed" \/ calls[c].token \notin dead
      BY <2>1 DEF FreshOK
    <3> QED
      BY <1>4, <1>12, <1>13, <3>1
  <2> QED
    BY <2>2, <2>3
<1>15. CsType'
  <2>1. calls' \in [Callers -> Call]
    BY <1>13 DEF AuthEnd
  <2>2. UNCHANGED dead
    BY DEF AuthEnd
  <2>3. \A j \in dead : j # 0 /\ Token(auths', j)
    BY <1>5 DEF CsInv, CsType
  <2>4. \A j \in dead' : j # 0 /\ Token(auths', j)
    BY <2>2, <2>3
  <2>5. \A c \in Callers : Placed(calls'[c])
    BY <1>13
  <2>6. /\ local' \in [Databases -> Local] /\ shared' \in [Users -> Share]
        /\ auths' \in Seq(Auth)
    BY <1>1
  <2> QED
    BY <2>1, <2>4, <2>5, <2>6 DEF CsType
<1>16. astray' \subseteq lent'
  <2>0. lent' = lent
    BY DEF AuthEnd, Watch
  <2> SUFFICES ASSUME NEW x \in astray', x \notin astray
               PROVE  x \in lent
    BY <2>0 DEF CsInv, TokenFitsIdentity
  <2>1. PICK d \in Callers : /\ x = calls'[d].store
                             /\ calls'[d].at = "call" /\ calls'[d].wait = 0
                             /\ calls[d].at # "call" \/ calls[d].wait # 0
                             /\ auths'[calls'[d].token].user # local'[calls'[d].store].as
    <3>1. Watch
      BY DEF AuthEnd
    <3> QED
      BY <3>1 DEF Watch
  <2>2. calls[d].wait = i /\ ok
    BY <1>13, <2>1
  <2>3. calls'[d].token = i /\ calls[d].store = x /\ x \in Databases /\ local[x].auth = i
    BY <1>1, <1>4, <1>13, <2>1, <2>2 DEF CsInv, WaitOK, Placed
  <2> QED
    BY <1>1, <1>2, <2>1, <2>3 DEF CsInv, OwnOK
<1> QED
  BY <1>9, <1>10, <1>11, <1>14, <1>15, <1>16 DEF CsInvNext, AuthEnd

LEMMA AuthenticateKeeps ==
  ASSUME CsInv, NEW i \in DOMAIN auths, Authenticate(i)
  PROVE  CsInvNext
<1>1. PICK ok \in BOOLEAN : ok = (auths[i].key = auths[i].user)
  OBVIOUS
<1> QED
  BY <1>1, AuthEndKeeps DEF Authenticate, InFlight, CsInv, CsType

LEMMA AuthNetworkErrorKeeps ==
  ASSUME CsInv, NEW i \in DOMAIN auths, AuthNetworkError(i)
  PROVE  CsInvNext
<1>1. CsType
  BY DEF CsInv
<1>2. /\ csBudget'.ops = csBudget.ops
      /\ csBudget' \in [n : Nat, expiries : Nat, stores : SUBSET Databases,
                   ops : SUBSET {"has", "scan", "head", "net", "lapse", "override"}]
  BY <1>1, CsSpends DEF AuthNetworkError
<1> QED
  BY <1>2, AuthEndKeeps DEF AuthNetworkError, InFlight

LEMMA CapsKeeps ==
  ASSUME CsInv, NEW c \in Callers, CapsAnswer(c) \/ CapsNetworkError(c)
  PROVE  CsInvNext
<1>1. CsType
  BY DEF CsInv
<1>2. CASE CapsAnswer(c)
  <2>1. PICK v \in {"v1", "v5"} : v = IF calls[c].token \in dead THEN "v1" ELSE "v5"
    OBVIOUS
  <2> QED
    BY <1>1, <1>2, <2>1, CapsResultKeeps DEF CapsAnswer, CsType
<1>3. CASE CapsNetworkError(c)
  <2>1. /\ csBudget'.ops = csBudget.ops
        /\ csBudget' \in [n : Nat, expiries : Nat, stores : SUBSET Databases,
                     ops : SUBSET {"has", "scan", "head", "net", "lapse", "override"}]
    BY <1>1, <1>3, CsSpends DEF CapsNetworkError
  <2> QED
    BY <1>3, <2>1, CapsResultKeeps DEF CapsNetworkError
<1> QED
  BY <1>2, <1>3

LEMMA CsStutter ==
  ASSUME CsInv, UNCHANGED csVars
  PROVE  CsInvNext
BY DEF CsInv, CsType, CsInvNext, csVars, TokenFitsIdentity, Placed, Token

LEMMA CsNextInv ==
  ASSUME CsInv, CsNext
  PROVE  CsInvNext
BY ChallengeKeeps, AuthenticateKeeps, AuthNetworkErrorKeeps, OperateKeeps, NeedCapsKeeps, CapsKeeps,
   CapsFailedKeeps, RequestKeeps, SucceededKeeps, RefusedKeeps, RefreshedKeeps, NetworkErrorKeeps,
   ExpireKeeps, LapseKeeps, OverrideKeeps
   DEF CsNext

(* Operations share authentications and tokens and still go out with an       *)
(* issued token of their store's identity, one authentication at a time; a    *)
(* loss of the tokens is not seen by a caller that does not meet a second.    *)
THEOREM TokensAreSound == CsSpec => []TokenSound
<1>1. CsInit => CsInv
  BY CsInitInv
<1>2. CsInv /\ [CsNext]_csVars => CsInv'
  BY CsNextInv, CsStutter, CsInvPrimed
<1>3. CsInv => TokenSound
  BY CsInvSound
<1> QED
  BY <1>1, <1>2, <1>3, PTL DEF CsSpec
=============================================================================
