--------------------------- MODULE SummaryProofs ---------------------------
(***************************************************************************)
(* The summary buffer says what the feed says, up to its cursor and after   *)
(* restarts, and so does a view over it.                                    *)
(***************************************************************************)
EXTENDS SummaryStore, WellFoundedInduction, TLAPS

-----------------------------------------------------------------------------
(* Types                                                                   *)

Times == 0 .. MaxSeq
Feeds == [Docs -> [seq : Times, val : Values \cup {Gone}]]
Summary == [entries : EntryMaps, cursor : Nat, config : Configs, explicit : BOOLEAN,
            seeded : BOOLEAN, restored : BOOLEAN, backfill : BOOLEAN, back : Nat,
            dirty : SUBSET Buckets, meta : BOOLEAN]
Changes == [doc : Docs, seq : Nat]
Runs == [phase : {"seed", "restore", "main", "back"}, todo : SUBSET Changes]
Disks == [bucket : [Buckets -> EntryMaps], meta : Meta \cup {Absent}]
Views == [phase : {"idle", "wait", "ready"}, applied : Nat, known : SUBSET Docs,
          shown : [Docs -> Values \cup {Absent}]]

SummaryTypeOK ==
  /\ feed \in Feeds
  /\ sum \in Summary
  /\ run = Absent \/ run \in Runs
  /\ out = Absent \/ out \in Flushes
  /\ disk \in Disks
  /\ sv \in Views
  /\ limit \in [flushes : Nat, faults : Nat, sets : Nat]
  /\ skew \in [mem : BOOLEAN, disk : BOOLEAN, view : BOOLEAN]

-----------------------------------------------------------------------------
(* Operators                                                               *)

LEMMA NothingSummarized == NoEntries \in EntryMaps /\ \A d \in Docs : NoEntries[d] = Absent
BY DEF NoEntries, EntryMaps

LEMMA NewSummaryTyped == NewSummary \in Summary
BY NothingSummarized DEF NewSummary, Summary, Configs

LEMMA NewViewTyped ==
  NewView \in Views
BY DEF NewView, NoEntries, Views

LEMMA BucketIn == \A d \in Docs : BucketOf[d] \in Buckets
BY DEF Buckets

LEMMA LessIsWellFounded == IsWellFoundedOn({ss \in Nat \X Nat : ss[1] < ss[2]}, Nat)
BY NatLessThanWellFounded, Zenon DEF OpToRel

(* A bounded set of numbers that is not empty has a greatest member.        *)
LEMMA GreatestIn ==
  ASSUME NEW S \in SUBSET Times, S # {}
  PROVE  \E n \in S : \A m \in S : m <= n
<1> DEFINE T == {n \in Nat : \A m \in S : m <= n}
           R == {ss \in Nat \X Nat : ss[1] < ss[2]}
<1>1. MaxSeq \in T
  BY FeedAssumption DEF Times
<1>2. IsWellFoundedOn(R, Nat)
  BY LessIsWellFounded
<1>3. \A x, y \in Nat : y < x => <<y, x>> \in R
  OBVIOUS
<1>4. T \in SUBSET Nat /\ T # {}
  BY <1>1
<1>5. PICK n \in T : \A k \in T : ~(<<k, n>> \in R)
  <2> HIDE DEF R, T
  <2> QED BY <1>2, <1>4, WFMin
<1>6. \A k \in T : ~(k < n)
  BY <1>3, <1>4, <1>5
<1>7. n \in Nat /\ S \subseteq Nat /\ \A m \in S : m <= n
  BY FeedAssumption, <1>5 DEF Times
<1>8. n \in S
  <2> SUFFICES ASSUME n \notin S
               PROVE  FALSE
    OBVIOUS
  <2>1. \A m \in S : m < n /\ m \in Nat
    BY <1>7
  <2>2. n # 0
    BY <2>1
  <2>3. n - 1 \in Nat /\ n - 1 < n
    BY <1>7, <2>2
  <2>4. \A m \in S : m <= n - 1
    BY <1>7, <2>1
  <2>5. n - 1 \in T
    BY <2>3, <2>4
  <2> HIDE DEF T
  <2> QED BY <1>6, <2>3, <2>5
<1> QED BY <1>7, <1>8

(* applyConfig changes nothing but the configuration, and then starts a     *)
(* backfill unless there is nothing yet.                                    *)
SameExtraction(s, t) == t.config = s.config /\ t.backfill = s.backfill /\ t.back = s.back
Reconfigured(s, t) ==
  /\ t.config # s.config
  /\ \/ s.entries # NoEntries \/ s.cursor > 0
     \/ t.backfill = s.backfill /\ t.back = s.back
  /\ \/ t.backfill = TRUE /\ t.back = 0
     \/ s.entries = NoEntries /\ s.cursor = 0 /\ t.backfill = s.backfill /\ t.back = s.back
SameBut(s, t) ==
  t.cursor = s.cursor /\ t.restored = s.restored /\ t.explicit = s.explicit /\ t.seeded = s.seeded

Refilled(s, c) == [s EXCEPT !.config = c, !.meta = TRUE, !.backfill = TRUE, !.back = 0]
Refilling(s, b) == [s EXCEPT !.backfill = TRUE, !.back = b]

LEMMA RefilledIs ==
  ASSUME NEW s \in Summary, NEW c \in Configs
  PROVE  Refilled(s, c) \in Summary
BY DEF Summary, Refilled

LEMMA RefillingIs ==
  ASSUME NEW s \in Summary, NEW b \in Nat
  PROVE  Refilling(s, b) \in Summary
BY DEF Summary, Refilling

LEMMA ApplyConfigIs ==
  ASSUME NEW s \in Summary, NEW c \in Configs, NEW t, t = ApplyConfig(s, c)
  PROVE  /\ t \in Summary /\ SameBut(s, t) /\ t.entries = s.entries /\ t.dirty = s.dirty
         /\ t.config = c
         /\ SameExtraction(s, t) \/ Reconfigured(s, t)
<1>1. CASE c = s.config
  BY <1>1 DEF ApplyConfig, SameBut, SameExtraction
<1>2. CASE c # s.config /\ (s.entries /= NoEntries \/ s.cursor > 0)
  <2>1. t = [s EXCEPT !.config = c, !.meta = TRUE, !.backfill = TRUE, !.back = 0]
    BY <1>2 DEF ApplyConfig
  <2>2. t \in Summary
    BY <2>1, RefilledIs DEF Refilled
  <2>3. SameBut(s, t) /\ t.entries = s.entries /\ t.dirty = s.dirty
    BY <2>1 DEF Summary, SameBut
  <2>4. t.config = c /\ t.backfill = TRUE /\ t.back = 0
    BY <2>1 DEF Summary
  <2> QED BY <1>2, <2>2, <2>3, <2>4 DEF Reconfigured
<1>3. CASE c # s.config /\ ~(s.entries /= NoEntries \/ s.cursor > 0)
  <2>1. t = [s EXCEPT !.config = c, !.meta = TRUE]
    BY <1>3 DEF ApplyConfig
  <2>2. t \in Summary /\ SameBut(s, t) /\ t.entries = s.entries /\ t.dirty = s.dirty
        /\ t.config = c /\ t.backfill = s.backfill /\ t.back = s.back
    BY <2>1 DEF Summary, SameBut
  <2>3. s.cursor = 0 /\ s.entries = NoEntries
    BY <1>3 DEF Summary
  <2> QED BY <1>3, <2>2, <2>3 DEF Reconfigured
<1> QED BY <1>1, <1>2, <1>3

(* What becomes of the entry of one document.                               *)
Touches(s, t, d) ==
  /\ \A x \in Docs : x # d => t.entries[x] = s.entries[x]
  /\ s.dirty \subseteq t.dirty
  /\ BucketOf[d] \in t.dirty \/ t.entries[d] = s.entries[d]

WithEntry(s, d, e) ==
  [s EXCEPT !.entries[d] = e, !.dirty = @ \cup {BucketOf[d]}, !.meta = TRUE]

LEMMA WithEntryIs ==
  ASSUME NEW s \in Summary, NEW d \in Docs, NEW e \in Entry \cup {Absent}, NEW t,
         t = WithEntry(s, d, e)
  PROVE  t \in Summary /\ SameBut(s, t) /\ SameExtraction(s, t) /\ Touches(s, t, d)
         /\ t.entries[d] = e
<1>1. PICK E : E = [s.entries EXCEPT ![d] = e]
  OBVIOUS
<1>2. PICK D : D = s.dirty \cup {BucketOf[d]}
  OBVIOUS
<1>3. t = [s EXCEPT !.entries = E, !.dirty = D, !.meta = TRUE]
  BY <1>1, <1>2 DEF WithEntry
<1>4. E \in EntryMaps /\ E[d] = e /\ \A x \in Docs : x # d => E[x] = s.entries[x]
  BY <1>1 DEF Summary, EntryMaps
<1>5. D \in SUBSET Buckets /\ s.dirty \subseteq D /\ BucketOf[d] \in D
  BY <1>2, BucketIn DEF Summary
<1>6. t \in Summary
  BY <1>3, <1>4, <1>5 DEF Summary
<1>7. SameBut(s, t) /\ SameExtraction(s, t)
  BY <1>3 DEF Summary, SameBut, SameExtraction
<1>8. t.entries = E /\ t.dirty = D
  BY <1>3 DEF Summary
<1> QED BY <1>4, <1>5, <1>6, <1>7, <1>8 DEF Touches

LEMMA DropIs ==
  ASSUME NEW s \in Summary, NEW d \in Docs, NEW t, t = Drop(s, d)
  PROVE  t \in Summary /\ SameBut(s, t) /\ SameExtraction(s, t) /\ Touches(s, t, d)
         /\ t.entries[d] = Absent
<1>1. CASE s.entries[d] = Absent
  BY <1>1 DEF Drop, SameBut, SameExtraction, Touches
<1>2. CASE s.entries[d] # Absent
  <2>1. t = WithEntry(s, d, Absent)
    BY <1>2 DEF Drop, WithEntry
  <2> QED BY <2>1, WithEntryIs
<1> QED BY <1>1, <1>2

LEMMA ApplyDocumentIs ==
  ASSUME NEW s \in Summary, NEW d \in Docs, NEW v \in Values \cup {Gone}, NEW n \in Nat,
         NEW t, t = ApplyDocument(s, d, v, n)
  PROVE  /\ t \in Summary /\ SameBut(s, t) /\ Touches(s, t, d)
         /\ d # Setup => SameExtraction(s, t)
         /\ SameExtraction(s, t) \/ Reconfigured(s, t)
         /\ d = Setup \/ v = Gone => t.entries[d] = Absent
         /\ d # Setup /\ v # Gone => t.entries[d] = [val |-> v, seq |-> n, config |-> t.config]
<1>1. CASE d = Setup
  <2> DEFINE c == IF v = Gone THEN Default ELSE ConfigOf[v]
  <2>1. PICK u : u = IF s.explicit THEN s ELSE ApplyConfig(s, c)
    OBVIOUS
  <2>2. c \in Configs
    BY DEF Configs
  <2>3. /\ u \in Summary /\ SameBut(s, u) /\ u.entries = s.entries /\ u.dirty = s.dirty
        /\ SameExtraction(s, u) \/ Reconfigured(s, u)
    <3>1. CASE s.explicit
      BY <2>1, <3>1 DEF SameBut, SameExtraction
    <3>2. CASE ~s.explicit
      <4> HIDE DEF c
      <4>1. u = ApplyConfig(s, c)
        BY <2>1, <3>2
      <4> QED BY <2>2, <4>1, ApplyConfigIs
    <3> QED BY <3>1, <3>2
  <2>4. t = Drop(u, d)
    BY <1>1, <2>1 DEF ApplyDocument
  <2>5. t \in Summary /\ SameBut(u, t) /\ SameExtraction(u, t) /\ Touches(u, t, d)
        /\ t.entries[d] = Absent
    BY <2>3, <2>4, DropIs
  <2>6. SameBut(s, t) /\ Touches(s, t, d)
    BY <2>3, <2>5 DEF SameBut, Touches
  <2>7. SameExtraction(s, t) \/ Reconfigured(s, t)
    BY <2>3, <2>5 DEF SameExtraction, Reconfigured
  <2> QED BY <1>1, <2>5, <2>6, <2>7
<1>2. CASE d # Setup /\ v = Gone
  <2>1. t = Drop(s, d)
    BY <1>2 DEF ApplyDocument
  <2> QED BY <1>2, <2>1, DropIs
<1>3. CASE d # Setup /\ v # Gone
  <2>1. PICK e : e = [val |-> v, seq |-> n, config |-> s.config]
    OBVIOUS
  <2>2. e \in Entry
    BY <1>3, <2>1 DEF Entry, Summary
  <2>3. t = WithEntry(s, d, e)
    BY <1>3, <2>1 DEF ApplyDocument, WithEntry
  <2>4. /\ t \in Summary /\ SameBut(s, t) /\ SameExtraction(s, t) /\ Touches(s, t, d)
        /\ t.entries[d] = e
    BY <2>2, <2>3, WithEntryIs
  <2> QED BY <1>3, <2>1, <2>4 DEF SameExtraction
<1> QED BY <1>1, <1>2, <1>3

(* What the persisted buckets say of each document.                         *)
OnDisk(dk) == [d \in Docs |-> dk.bucket[BucketOf[d]][d]]

LEMMA OnDiskTyped ==
  ASSUME NEW dk, dk.bucket \in [Buckets -> EntryMaps]
  PROVE  OnDisk(dk) \in EntryMaps
BY BucketIn DEF OnDisk, EntryMaps

(* A restore takes the entries and the cursor of the disk, and schedules a  *)
(* backfill if the configuration is another.                                *)
LEMMA RestoredIs ==
  ASSUME NEW s \in Summary, disk \in Disks,
         NEW t, t = Restored(s)
  PROVE  /\ t \in Summary /\ t.config = s.config /\ t.dirty = s.dirty
         /\ disk.meta = Absent => t = s
         /\ disk.meta # Absent =>
              /\ s.entries = NoEntries => t.entries = OnDisk(disk)
              /\ t.cursor = disk.meta.cursor
              /\ \/ disk.meta.config # s.config /\ t.backfill = TRUE /\ t.back = 0
                 \/ /\ disk.meta.config = s.config /\ disk.meta.backfill
                    /\ t.backfill = TRUE /\ t.back = disk.meta.back
                 \/ /\ disk.meta.config = s.config /\ ~disk.meta.backfill
                    /\ t.backfill = s.backfill /\ t.back = s.back
<1>1. CASE disk.meta = Absent
  BY <1>1 DEF Restored
<1>2. CASE disk.meta # Absent
  <2> disk.bucket \in [Buckets -> EntryMaps] /\ disk.meta \in Meta \cup {Absent}
    BY DEF Disks
  <2>1. PICK m \in Meta : m = disk.meta
    BY <1>2
  <2>2. PICK E : E = [d \in Docs |-> IF disk.bucket[BucketOf[d]][d] /= Absent
                                     THEN disk.bucket[BucketOf[d]][d] ELSE s.entries[d]]
    OBVIOUS
  <2>3. E \in EntryMaps /\ (s.entries = NoEntries => E = OnDisk(disk))
    <3>1. ASSUME s.entries = NoEntries
          PROVE  E = OnDisk(disk)
      <4>1. \A d \in Docs : E[d] = disk.bucket[BucketOf[d]][d]
        BY <2>2, <3>1, NothingSummarized
      <4> QED BY <2>2, <4>1 DEF OnDisk
    <3>2. \A d \in Docs : /\ disk.bucket[BucketOf[d]][d] \in Entry \cup {Absent}
                          /\ s.entries[d] \in Entry \cup {Absent}
      BY BucketIn DEF EntryMaps, Summary
    <3>3. E \in EntryMaps
      BY <2>2, <3>2 DEF EntryMaps
    <3> QED BY <3>1, <3>3
  <2>4. PICK r : r = [s EXCEPT !.cursor = m.cursor, !.entries = E]
    OBVIOUS
  <2>5. r \in Summary /\ r.entries = E /\ r.cursor = m.cursor /\ r.config = s.config
        /\ r.dirty = s.dirty /\ r.backfill = s.backfill /\ r.back = s.back
    BY <2>3, <2>4 DEF Summary, Meta
  <2>6. t = IF m.config /= s.config THEN [r EXCEPT !.backfill = TRUE, !.back = 0, !.meta = TRUE]
            ELSE IF m.backfill THEN [r EXCEPT !.backfill = TRUE, !.back = m.back]
            ELSE r
    BY <1>2, <2>1, <2>2, <2>4 DEF Restored
  <2>7. CASE m.config # s.config
    <3>1. t = [r EXCEPT !.backfill = TRUE, !.back = 0, !.meta = TRUE]
      BY <2>6, <2>7
    <3>2. t \in Summary
      <4>1. PICK u \in Summary : u = Refilling(r, 0)
        BY <2>5, RefillingIs
      <4>2. t = [u EXCEPT !.meta = TRUE]
        BY <3>1, <4>1 DEF Refilling
      <4> QED BY <4>2 DEF Summary
    <3>3. /\ t.config = r.config /\ t.dirty = r.dirty /\ t.entries = r.entries
          /\ t.cursor = r.cursor /\ t.backfill = TRUE /\ t.back = 0
      BY <2>5, <3>1 DEF Summary
    <3> QED BY <1>2, <2>1, <2>3, <2>5, <2>7, <3>2, <3>3
  <2>8. CASE m.config = s.config /\ m.backfill
    <3>1. t = [r EXCEPT !.backfill = TRUE, !.back = m.back] /\ m.back \in Nat
      BY <2>6, <2>8 DEF Meta
    <3>2. t \in Summary
      BY <2>5, <3>1, RefillingIs DEF Refilling
    <3>3. /\ t.config = r.config /\ t.dirty = r.dirty /\ t.entries = r.entries
          /\ t.cursor = r.cursor /\ t.backfill = TRUE /\ t.back = m.back
      BY <2>5, <3>1 DEF Summary
    <3> QED BY <1>2, <2>1, <2>3, <2>5, <2>8, <3>2, <3>3
  <2>9. CASE m.config = s.config /\ ~m.backfill
    BY <1>2, <2>1, <2>3, <2>5, <2>6, <2>9
  <2>10. m.backfill \in BOOLEAN
    BY DEF Meta
  <2> QED BY <2>7, <2>8, <2>9, <2>10
<1> QED BY <1>1, <1>2

-----------------------------------------------------------------------------
(* The inductive invariant                                                 *)
(*                                                                         *)
(* It is stated over a feed f, entries E and a record x with the fields    *)
(* cursor, config, backfill and back: the summary's, those a flush         *)
(* collected, or those of the disk.                                        *)

Others == Docs \ {Setup}

(* Each change has a changeSeq of its own, and the last is the highest.     *)
HasTop(f) == \E d \in Docs : \A e \in Docs : f[e].seq <= f[d].seq
FeedOK(f) ==
  /\ HasTop(f)
  /\ \A d \in Docs : f[d].seq = 0 => f[d].val = Gone
  /\ \A d, e \in Docs : f[d].seq = f[e].seq /\ f[d].seq # 0 => d = e

(* The feed has gone at least as far as n; an entry is of a change that was. *)
Past(f, n) == \E d \in Docs : n <= f[d].seq
Dated(f, E) == \A d \in Docs : E[d] # Absent => 1 <= E[d].seq /\ E[d].seq <= f[d].seq

(* The entries are what the latest changes make them: up to n, up to the    *)
(* cursor with the configuration, or up to the last change among them.      *)
Read(f, E, d) ==
  IF f[d].val = Gone THEN E[d] = Absent
  ELSE E[d] # Absent /\ E[d].val = f[d].val /\ E[d].seq = f[d].seq
ReadTo(f, E, n) == \A d \in Others : f[d].seq <= n => Read(f, E, d)
Configured(f, x, E, d) ==
  E[d] # Absent => E[d].config = x.config \/ (x.backfill /\ f[d].seq > x.back)
Complete(f, x, E) ==
  \A d \in Others : f[d].seq <= x.cursor => Read(f, E, d) /\ Configured(f, x, E, d)
NoneAhead(f, E) == \A x \in Docs : E[x] # Absent => ReadTo(f, E, E[x].seq)

(* A change that came after everything the summary and its run know of.     *)
New(d, f, s, todo, n) ==
  /\ s.cursor < f[d].seq /\ s.back < f[d].seq /\ n < f[d].seq
  /\ \A x \in Docs : s.entries[x] # Absent => s.entries[x].seq < f[d].seq
  /\ \A e \in todo : e.seq < f[d].seq
(* The run has every change after its cursor in front of it, or it is new.  *)
Ordered(f, s, todo, from, n) ==
  /\ \A e \in todo : from < e.seq
  /\ \A e, o \in todo : e.doc = o.doc \/ e.seq = o.seq => e = o
  /\ \A d \in Docs : from < f[d].seq =>
       [doc |-> d, seq |-> f[d].seq] \in todo \/ New(d, f, s, todo, n)

DatesPart ==
  /\ FeedOK(feed)
  /\ Past(feed, sum.cursor) /\ Past(feed, sum.back) /\ Past(feed, sv.applied)
  /\ Dated(feed, sum.entries) /\ Dated(feed, OnDisk(disk))
  /\ disk.meta # Absent => Past(feed, disk.meta.cursor) /\ Past(feed, disk.meta.back)
  /\ out # Absent => /\ Dated(feed, out.start.entries)
                     /\ Past(feed, out.start.cursor) /\ Past(feed, out.start.back)
  /\ run # Absent => \A e \in run.todo : 1 <= e.seq /\ e.seq <= feed[e.doc].seq

(* Before the restore there is nothing, and a run goes through its phases.  *)
Begun ==
  /\ sum.restored \/ (/\ sum.entries = NoEntries /\ sum.cursor = 0 /\ sum.back = 0
                      /\ ~sum.backfill /\ sum.dirty = {}
                      /\ sv.phase # "ready" /\ sv.applied = 0)
  /\ run # Absent => /\ run.phase \in {"main", "back"} => sum.restored
                     /\ run.phase \in {"seed", "restore"} => run.todo = {}
                     /\ sv.phase = "wait"
  /\ out # Absent /\ ~sum.restored => out.buckets = {} /\ out.done = {}

RunPart ==
  run # Absent =>
    /\ run.phase = "main" => Ordered(feed, sum, run.todo, sum.cursor, sv.applied)
    /\ run.phase = "back" /\ ~skew.mem =>
         /\ Ordered(feed, sum, run.todo, sum.back, sv.applied)
         /\ ReadTo(feed, sum.entries, sum.back) /\ NoneAhead(feed, sum.entries)

MemPart == sum.restored /\ ~skew.mem => Complete(feed, sum, sum.entries)

ViewPart ==
  ~skew.mem /\ ~skew.view =>
    /\ sv.phase = "ready" => NoneAhead(feed, sum.entries)
    /\ ReadTo(feed, sum.entries, sv.applied)
    /\ \A d \in Others : feed[d].seq <= sv.applied => sv.shown[d] = Shown(feed[d].val)

(* A flush writes what was complete when it started.                        *)
OutPart ==
  out # Absent =>
    /\ ~out.meta /\ out.buckets # {} =>
         /\ sum.restored
         /\ ~skew.mem => Complete(feed, out.start, out.start.entries)
         /\ disk.meta # Absent /\ ~skew.disk => disk.meta.cursor <= out.start.cursor
    /\ ~skew.disk => \A d \in Docs : BucketOf[d] \in out.done =>
                       OnDisk(disk)[d] = out.start.entries[d]

(* The disk is complete up to its own cursor; what is not dirty is on it.   *)
DiskPart ==
  ~skew.disk =>
    /\ ~Torn => IF disk.meta = Absent THEN OnDisk(disk) = NoEntries
                ELSE Complete(feed, disk.meta, OnDisk(disk))
    /\ sum.restored =>
         /\ \A d \in Docs : BucketOf[d] \notin sum.dirty => OnDisk(disk)[d] = sum.entries[d]
         /\ disk.meta # Absent => disk.meta.cursor <= sum.cursor

SummaryInv ==
  SummaryTypeOK /\ DatesPart /\ Begun /\ RunPart /\ MemPart /\ ViewPart /\ OutPart /\ DiskPart

-----------------------------------------------------------------------------
(* The feed                                                                *)

LEMMA TopIs ==
  ASSUME feed \in Feeds, HasTop(feed)
  PROVE  LatestSeq \in Times /\ \A d \in Docs : feed[d].seq <= LatestSeq
<1>1. PICK t \in Docs : \A e \in Docs : feed[e].seq <= feed[t].seq
  BY DEF HasTop
<1>2. feed[t].seq \in 0..MaxSeq
  BY DEF Feeds, Times
<1>3. \E n \in 0..MaxSeq : (\E d \in Docs : feed[d].seq = n) /\ \A d \in Docs : feed[d].seq <= n
  BY <1>1, <1>2
<1> QED BY <1>3 DEF LatestSeq, Times

(* A change puts its document at the end of the feed.                       *)
Later(f, g, d) ==
  /\ \A x \in Docs : x # d => g[x] = f[x]
  /\ \A x \in Docs : f[x].seq < g[d].seq

LEMMA LaterIs ==
  ASSUME NEW f \in Feeds, NEW g \in Feeds, NEW d \in Docs, Later(f, g, d), NEW x \in Docs
  PROVE  /\ f[x].seq \in Nat /\ g[x].seq \in Nat /\ g[x].seq <= g[d].seq
         /\ f[x].seq <= g[x].seq /\ f[x].seq < g[d].seq
<1>1. f[x].seq \in Nat /\ g[x].seq \in Nat /\ g[d].seq \in Nat
  BY FeedAssumption DEF Feeds, Times
<1>2. f[x].seq < g[d].seq
  BY DEF Later
<1>3. CASE x = d
  BY <1>1, <1>2, <1>3
<1>4. CASE x # d
  <2>1. g[x] = f[x]
    BY <1>4 DEF Later
  <2> QED BY <1>1, <1>2, <2>1
<1> QED BY <1>3, <1>4

LEMMA LaterFeed ==
  ASSUME NEW f \in Feeds, NEW g \in Feeds, NEW d \in Docs, Later(f, g, d), FeedOK(f)
  PROVE  FeedOK(g)
<1>1. \A x \in Docs : f[x].seq \in Nat /\ g[x].seq \in Nat
  BY LaterIs
<1>2. \A x \in Docs : g[x].seq <= g[d].seq
  BY LaterIs
<1>3. g[d].seq # 0
  BY <1>1, LaterIs
<1> QED BY <1>1, <1>2, <1>3 DEF Later, FeedOK, HasTop

LEMMA LaterPast ==
  ASSUME NEW f \in Feeds, NEW g \in Feeds, NEW d \in Docs, Later(f, g, d), NEW n \in Nat, Past(f, n)
  PROVE  Past(g, n) /\ n < g[d].seq
<1>1. \A x \in Docs : f[x].seq \in Nat /\ g[x].seq \in Nat
  BY FeedAssumption DEF Feeds, Times
<1>2. n < g[d].seq
  BY <1>1 DEF Past, Later
<1> QED BY <1>1, <1>2 DEF Past

LEMMA LaterDated ==
  ASSUME NEW f \in Feeds, NEW g \in Feeds, NEW d \in Docs, Later(f, g, d),
         NEW E \in EntryMaps, Dated(f, E)
  PROVE  Dated(g, E) /\ \A x \in Docs : E[x] # Absent => E[x].seq < g[d].seq
<1>1. \A x \in Docs : f[x].seq \in Nat /\ g[x].seq \in Nat /\ (E[x] # Absent => E[x].seq \in Nat)
  BY FeedAssumption DEF Feeds, Times, EntryMaps, Entry
<1>2. \A x \in Docs : f[x].seq <= g[x].seq /\ f[x].seq < g[d].seq
  BY LaterIs
<1>3. ASSUME NEW x \in Docs, E[x] # Absent
      PROVE  1 <= E[x].seq /\ E[x].seq <= g[x].seq /\ E[x].seq < g[d].seq
  BY <1>1, <1>2, <1>3 DEF Dated
<1> QED BY <1>3 DEF Dated

LEMMA LaterRead ==
  ASSUME NEW f \in Feeds, NEW g \in Feeds, NEW d \in Docs, Later(f, g, d), NEW E,
         NEW n \in Nat, Past(f, n)
  PROVE  /\ ReadTo(f, E, n) => ReadTo(g, E, n)
         /\ \A x \in Docs : g[x].seq <= n => f[x] = g[x]
<1>1. \A x \in Docs : f[x].seq \in Nat /\ g[x].seq \in Nat
  BY FeedAssumption DEF Feeds, Times
<1>2. n < g[d].seq
  BY LaterPast
<1>3. ASSUME NEW x \in Docs, g[x].seq <= n
      PROVE  f[x] = g[x]
  BY <1>1, <1>2, <1>3 DEF Later
<1> QED BY <1>3 DEF ReadTo, Read, Others

LEMMA LaterComplete ==
  ASSUME NEW f \in Feeds, NEW g \in Feeds, NEW d \in Docs, Later(f, g, d), NEW E, NEW x,
         x.cursor \in Nat, Past(f, x.cursor), Complete(f, x, E)
  PROVE  Complete(g, x, E)
<1>1. \A y \in Docs : g[y].seq <= x.cursor => f[y] = g[y]
  BY LaterRead
<1> QED BY <1>1 DEF Complete, Read, Configured, Others

LEMMA LaterNone ==
  ASSUME NEW f \in Feeds, NEW g \in Feeds, NEW d \in Docs, Later(f, g, d),
         NEW E \in EntryMaps, Dated(f, E), NoneAhead(f, E)
  PROVE  NoneAhead(g, E)
<1> SUFFICES ASSUME NEW x \in Docs, E[x] # Absent PROVE ReadTo(g, E, E[x].seq)
  BY DEF NoneAhead
<1>1. E[x].seq \in Nat /\ Past(f, E[x].seq)
  BY DEF Dated, Past, EntryMaps, Entry
<1>2. ReadTo(f, E, E[x].seq)
  BY DEF NoneAhead
<1> QED BY <1>1, <1>2, LaterRead

LEMMA LaterOrdered ==
  ASSUME NEW f \in Feeds, NEW g \in Feeds, NEW d \in Docs, Later(f, g, d),
         NEW s \in Summary, NEW todo \in SUBSET Changes, NEW from, NEW n \in Nat,
         Past(f, s.cursor), Past(f, s.back), Past(f, n), Dated(f, s.entries),
         \A e \in todo : e.seq <= f[e.doc].seq,
         Ordered(f, s, todo, from, n)
  PROVE  Ordered(g, s, todo, from, n)
<1>1. s.cursor \in Nat /\ s.back \in Nat /\ s.entries \in EntryMaps
  BY DEF Summary
<1>2. s.cursor < g[d].seq /\ s.back < g[d].seq /\ n < g[d].seq
  BY <1>1, LaterPast
<1>3. \A x \in Docs : s.entries[x] # Absent => s.entries[x].seq < g[d].seq
  BY <1>1, LaterDated
<1>4. \A e \in todo : e.seq < g[d].seq
  <2> TAKE e \in todo
  <2>1. e.doc \in Docs /\ e.seq \in Nat
    BY DEF Changes
  <2>2. f[e.doc].seq < g[d].seq /\ e.seq <= f[e.doc].seq
    BY <2>1 DEF Later
  <2>3. f[e.doc].seq \in Nat /\ g[d].seq \in Nat
    BY <2>1, FeedAssumption DEF Feeds, Times
  <2> QED BY <2>1, <2>2, <2>3
<1>5. New(d, g, s, todo, n)
  BY <1>2, <1>3, <1>4 DEF New
<1>6. ASSUME NEW x \in Docs, from < g[x].seq
      PROVE  [doc |-> x, seq |-> g[x].seq] \in todo \/ New(x, g, s, todo, n)
  <2>1. CASE x = d
    BY <1>5, <2>1
  <2>2. CASE x # d
    <3>1. g[x] = f[x]
      BY <2>2 DEF Later
    <3> QED BY <1>6, <3>1 DEF Ordered, New
  <2> QED BY <2>1, <2>2
<1> QED BY <1>6 DEF Ordered

-----------------------------------------------------------------------------
(* Types, action by action                                                 *)

LEMMA TypesInit == FeedInit /\ SummaryInit => SummaryTypeOK
<1> SUFFICES ASSUME FeedInit, SummaryInit PROVE SummaryTypeOK
  OBVIOUS
<1>1. feed \in Feeds
  BY FeedAssumption DEF FeedInit, Feeds, Times
<1>2. sum \in Summary /\ run = Absent /\ out = Absent
  BY NewSummaryTyped DEF SummaryInit
<1>3. disk \in Disks
  BY NothingSummarized DEF SummaryInit, Disks
<1>4. sv \in Views
  BY NewViewTyped DEF SummaryInit
<1>5. limit \in [flushes : Nat, faults : Nat, sets : Nat]
  BY SummaryAssumption DEF SummaryInit
<1>6. skew \in [mem : BOOLEAN, disk : BOOLEAN, view : BOOLEAN]
  BY DEF SummaryInit
<1> QED BY <1>1, <1>2, <1>3, <1>4, <1>5, <1>6 DEF SummaryTypeOK

LEMMA TypesWrite ==
  ASSUME SummaryTypeOK, NEW d \in Docs, NEW v \in Values \cup {Gone}, Write(d, v), HasTop(feed)
  PROVE  feed' \in Feeds
<1>1. LatestSeq \in Times
  BY TopIs DEF SummaryTypeOK
<1>2. LatestSeq + 1 \in Times
  BY <1>1, FeedAssumption DEF Write, Times
<1> HIDE DEF Times
<1> QED BY <1>2 DEF Write, SummaryTypeOK, Feeds

LEMMA TypesConfig ==
  ASSUME SummaryTypeOK, NEW c \in Explicit, SetConfig(c)
  PROVE  SummaryTypeOK'
<1>1. PICK s : s = [sum EXCEPT !.explicit = TRUE]
  OBVIOUS
<1>2. s \in Summary
  BY <1>1 DEF SummaryTypeOK, Summary
<1>3. sum' \in Summary
  BY <1>1, <1>2, ApplyConfigIs DEF SetConfig, Configs
<1>4. limit' \in [flushes : Nat, faults : Nat, sets : Nat]
  BY DEF SetConfig, SummaryTypeOK
<1>5. skew' \in [mem : BOOLEAN, disk : BOOLEAN, view : BOOLEAN]
  BY DEF SetConfig, SummaryTypeOK
<1> QED BY <1>3, <1>4, <1>5 DEF SetConfig, SummaryTypeOK

LEMMA TypesUpdate == SummaryTypeOK /\ Update => SummaryTypeOK'
<1> SUFFICES ASSUME SummaryTypeOK, Update PROVE SummaryTypeOK'
  OBVIOUS
<1>1. sv' \in Views
  BY DEF Update, SummaryTypeOK, Views
<1>2. run' = Absent \/ run' \in Runs
  BY DEF Update, SummaryTypeOK, Runs
<1> QED BY <1>1, <1>2 DEF Update, SummaryTypeOK

LEMMA TypesSeed == SummaryTypeOK /\ Seed => SummaryTypeOK'
<1> SUFFICES ASSUME SummaryTypeOK, Seed PROVE SummaryTypeOK'
  OBVIOUS
<1>1. PICK s : s = [sum EXCEPT !.seeded = TRUE]
  OBVIOUS
<1>2. s \in Summary
  BY <1>1 DEF SummaryTypeOK, Summary
<1>3. sum' = s \/ (feed[Setup].val # Gone /\ sum' = ApplyConfig(s, ConfigOf[feed[Setup].val]))
  BY <1>1 DEF Seed
<1>4. feed[Setup].val # Gone => ConfigOf[feed[Setup].val] \in Configs
  BY SummaryAssumption DEF SummaryTypeOK, Feeds, Configs
<1>5. sum' \in Summary
  BY <1>2, <1>3, <1>4, ApplyConfigIs
<1>6. run' = Absent \/ run' \in Runs
  BY DEF Seed, SummaryTypeOK, Runs
<1> QED BY <1>5, <1>6 DEF Seed, SummaryTypeOK

LEMMA ChangesTyped ==
  ASSUME feed \in Feeds, NEW n
  PROVE  ChangesSince(feed, n) \in SUBSET Changes
BY FeedAssumption DEF ChangesSince, Changes, Feeds, Times

LEMMA TypesRestore == SummaryTypeOK /\ Restore => SummaryTypeOK'
<1> SUFFICES ASSUME SummaryTypeOK, Restore PROVE SummaryTypeOK'
  OBVIOUS
<1>1. PICK s : s = IF sum.restored THEN sum ELSE Restored(sum)
  OBVIOUS
<1>2. s \in Summary
  BY <1>1, RestoredIs DEF SummaryTypeOK
<1>3. sum' = [s EXCEPT !.restored = TRUE]
  BY <1>1 DEF Restore
<1>4. sum' \in Summary
  BY <1>2, <1>3 DEF Summary
<1>5. run' = [phase |-> "main", todo |-> ChangesSince(feed, s.cursor)]
  BY <1>1 DEF Restore
<1>6. run' \in Runs
  BY <1>5, ChangesTyped DEF Runs, SummaryTypeOK
<1>7. skew' \in [mem : BOOLEAN, disk : BOOLEAN, view : BOOLEAN]
  BY DEF Restore, SummaryTypeOK
<1> QED BY <1>4, <1>6, <1>7 DEF Restore, SummaryTypeOK

(* One document of the feed: which, and what it makes of the summary.       *)
Step(e, t) ==
  /\ IsNext(e, run.todo)
  /\ e \in run.todo
  /\ run' = [run EXCEPT !.todo = @ \ {e}]
  /\ t = ApplyDocument(sum, e.doc, feed[e.doc].val, e.seq)
  /\ sum' = IF run.phase = "main" THEN [t EXCEPT !.cursor = e.seq] ELSE [t EXCEPT !.back = e.seq]
  /\ skew' = [skew EXCEPT !.mem = @ \/ (run.phase = "back" /\ t.config /= sum.config)]

LEMMA ProcessIs ==
  ASSUME SummaryTypeOK, Process
  PROVE  /\ run \in Runs
         /\ \E e, t : Step(e, t)
         /\ UNCHANGED <<feed, out, disk, sv, limit>>
BY DEF Process, Step, SummaryTypeOK

LEMMA StepIs ==
  ASSUME SummaryTypeOK, run \in Runs, NEW e, NEW t, Step(e, t)
  PROVE  /\ e \in Changes /\ t \in Summary /\ sum' \in Summary /\ run' \in Runs
         /\ run'.phase = run.phase /\ run'.todo = run.todo \ {e}
         /\ SameBut(sum, t) /\ Touches(sum, t, e.doc)
         /\ e.doc # Setup => SameExtraction(sum, t)
         /\ SameExtraction(sum, t) \/ Reconfigured(sum, t)
         /\ e.doc = Setup \/ feed[e.doc].val = Gone => t.entries[e.doc] = Absent
         /\ e.doc # Setup /\ feed[e.doc].val # Gone =>
              t.entries[e.doc] = [val |-> feed[e.doc].val, seq |-> e.seq, config |-> t.config]
         /\ sum'.entries = t.entries /\ sum'.dirty = t.dirty /\ sum'.config = t.config
         /\ sum'.backfill = t.backfill /\ sum'.restored = t.restored
         /\ run.phase = "main" => sum'.cursor = e.seq /\ sum'.back = t.back
         /\ run.phase # "main" => sum'.back = e.seq /\ sum'.cursor = t.cursor
         /\ skew' \in [mem : BOOLEAN, disk : BOOLEAN, view : BOOLEAN]
         /\ skew'.disk = skew.disk /\ skew'.view = skew.view
         /\ ~skew'.mem => ~skew.mem /\ (run.phase = "back" => t.config = sum.config)
<1>1. e \in Changes /\ e.doc \in Docs /\ e.seq \in Nat /\ feed[e.doc].val \in Values \cup {Gone}
  BY DEF Step, Runs, Changes, SummaryTypeOK, Feeds
<1>2. /\ t \in Summary
      /\ SameBut(sum, t) /\ Touches(sum, t, e.doc)
      /\ e.doc # Setup => SameExtraction(sum, t)
      /\ SameExtraction(sum, t) \/ Reconfigured(sum, t)
      /\ e.doc = Setup \/ feed[e.doc].val = Gone => t.entries[e.doc] = Absent
      /\ e.doc # Setup /\ feed[e.doc].val # Gone =>
           t.entries[e.doc] = [val |-> feed[e.doc].val, seq |-> e.seq, config |-> t.config]
  BY <1>1, ApplyDocumentIs DEF Step, SummaryTypeOK
<1>3. sum' \in Summary
  <2>1. sum' = [t EXCEPT !.cursor = e.seq] \/ sum' = [t EXCEPT !.back = e.seq]
    BY DEF Step
  <2>2. PICK n \in Nat : n = e.seq
    BY <1>1
  <2>3. [t EXCEPT !.cursor = n] \in Summary /\ [t EXCEPT !.back = n] \in Summary
    BY <1>2 DEF Summary
  <2> QED BY <2>1, <2>2, <2>3
<1>4. /\ sum'.entries = t.entries /\ sum'.dirty = t.dirty /\ sum'.config = t.config
      /\ sum'.backfill = t.backfill /\ sum'.restored = t.restored
  BY <1>2 DEF Step, Summary
<1>5. /\ run.phase = "main" => sum'.cursor = e.seq /\ sum'.back = t.back
      /\ run.phase # "main" => sum'.back = e.seq /\ sum'.cursor = t.cursor
  BY <1>2 DEF Step, Summary
<1>6. run' \in Runs /\ run'.phase = run.phase /\ run'.todo = run.todo \ {e}
  BY DEF Step, Runs
<1>7. /\ skew' \in [mem : BOOLEAN, disk : BOOLEAN, view : BOOLEAN]
      /\ skew'.disk = skew.disk /\ skew'.view = skew.view
      /\ ~skew'.mem => ~skew.mem /\ (run.phase = "back" => t.config = sum.config)
  BY DEF Step, SummaryTypeOK
<1> QED BY <1>1, <1>2, <1>3, <1>4, <1>5, <1>6, <1>7

(* Of StepIs, what the step sets in the summary. *)
LEMMA StepSets ==
  ASSUME SummaryTypeOK, run \in Runs, NEW e, NEW t, Step(e, t)
  PROVE  /\ sum'.entries = t.entries /\ sum'.dirty = t.dirty /\ sum'.config = t.config
         /\ sum'.backfill = t.backfill /\ sum'.restored = t.restored
         /\ run.phase = "main" => sum'.cursor = e.seq /\ sum'.back = t.back
         /\ run.phase # "main" => sum'.back = e.seq /\ sum'.cursor = t.cursor
<1>1. t \in Summary
  BY StepIs
<1> QED BY <1>1 DEF Step, Summary

LEMMA TypesProcess == SummaryTypeOK /\ Process => SummaryTypeOK'
<1> SUFFICES ASSUME SummaryTypeOK, Process PROVE SummaryTypeOK'
  OBVIOUS
<1>1. run \in Runs /\ UNCHANGED <<feed, out, disk, sv, limit>>
  BY ProcessIs
<1>2. PICK e, t : Step(e, t)
  BY ProcessIs
<1>3. sum' \in Summary /\ run' \in Runs /\ skew' \in [mem : BOOLEAN, disk : BOOLEAN, view : BOOLEAN]
  BY <1>1, <1>2, StepIs
<1> QED BY <1>1, <1>3 DEF SummaryTypeOK

LEMMA TypesEnds ==
  ASSUME SummaryTypeOK, FeedRead \/ BackfillDone \/ Interrupt \/ UpdateFails
  PROVE  SummaryTypeOK'
<1>1. sv' \in Views
  BY DEF FeedRead, BackfillDone, Interrupt, UpdateFails, End, SummaryTypeOK, Views
<1>2. run' = Absent \/ run' \in Runs
  BY ChangesTyped DEF FeedRead, BackfillDone, Interrupt, UpdateFails, End, SummaryTypeOK, Runs
<1>3. sum' \in Summary
  <2>1. sum' = sum \/ sum' = [sum EXCEPT !.backfill = FALSE, !.back = 0, !.meta = TRUE]
    BY DEF FeedRead, BackfillDone, Interrupt, UpdateFails
  <2>2. sum \in Summary
    BY DEF SummaryTypeOK
  <2>3. [sum EXCEPT !.backfill = FALSE, !.back = 0, !.meta = TRUE] \in Summary
    BY <2>2 DEF Summary
  <2> QED BY <2>1, <2>2, <2>3
<1>4. limit' \in [flushes : Nat, faults : Nat, sets : Nat]
  BY DEF FeedRead, BackfillDone, Interrupt, UpdateFails, SummaryTypeOK
<1>5. skew' \in [mem : BOOLEAN, disk : BOOLEAN, view : BOOLEAN]
  BY DEF FeedRead, BackfillDone, Interrupt, UpdateFails, SummaryTypeOK
<1> QED BY <1>1, <1>2, <1>3, <1>4, <1>5
        DEF FeedRead, BackfillDone, Interrupt, UpdateFails, SummaryTypeOK

LEMMA TypesRemove ==
  ASSUME SummaryTypeOK, NEW d \in Docs, RemoveDocument(d)
  PROVE  SummaryTypeOK'
<1>1. sum' \in Summary
  BY DropIs DEF RemoveDocument, SummaryTypeOK
<1> QED BY <1>1 DEF RemoveDocument, SummaryTypeOK

LEMMA ContentTyped == \A s \in Summary : Content(s) \in Contents /\ MetaRecord(s) \in Meta
BY DEF Content, Contents, Summary, MetaRecord, Meta

LEMMA TypesStartFlush == SummaryTypeOK /\ StartFlush => SummaryTypeOK'
<1> SUFFICES ASSUME SummaryTypeOK, StartFlush PROVE SummaryTypeOK'
  OBVIOUS
<1>1. out' \in Flushes
  <2>1. Content(sum) \in Contents /\ sum.dirty \in SUBSET Buckets
    BY ContentTyped DEF SummaryTypeOK, Summary
  <2> QED BY <2>1 DEF StartFlush, Flushes
<1>2. limit' \in [flushes : Nat, faults : Nat, sets : Nat]
  BY DEF StartFlush, SummaryTypeOK
<1> QED BY <1>1, <1>2 DEF StartFlush, SummaryTypeOK

(* PutBucket writes what was collected of one dirty bucket.                 *)
LEMMA PutBucketIs ==
  ASSUME SummaryTypeOK, PutBucket
  PROVE  \E b \in sum.dirty \ out.done :
           /\ out \in Flushes /\ out # Absent /\ b \in Buckets /\ ~out.meta /\ out.buckets # {}
           /\ disk' \in Disks /\ disk'.meta = disk.meta
           /\ \A d \in Docs : OnDisk(disk')[d] = IF BucketOf[d] # b THEN OnDisk(disk)[d]
                                                ELSE IF b \in out.buckets THEN out.start.entries[d]
                                                ELSE Absent
           /\ out' \in Flushes /\ out'.done = out.done \cup {b} /\ out'.start = out.start
           /\ out'.meta = out.meta /\ out'.buckets = out.buckets
           /\ skew' \in [mem : BOOLEAN, disk : BOOLEAN, view : BOOLEAN]
           /\ skew'.mem = skew.mem /\ skew'.view = skew.view
           /\ ~skew'.disk => ~skew.disk /\ b \in out.buckets
<1>1. PICK b \in sum.dirty \ out.done :
        /\ disk' = [disk EXCEPT !.bucket[b] = Payload(b)]
        /\ out' = [out EXCEPT !.done = @ \cup {b}]
        /\ skew' = [skew EXCEPT !.disk = @ \/ b \notin out.buckets]
  BY DEF PutBucket
<1>2. out \in Flushes /\ out # Absent /\ ~out.meta /\ out.buckets # {}
  BY DEF PutBucket, SummaryTypeOK
<1>3. b \in Buckets
  BY <1>1 DEF SummaryTypeOK, Summary
<1>4. PICK P : P = Payload(b)
  OBVIOUS
<1>5. /\ P \in EntryMaps
      /\ \A d \in Docs : BucketOf[d] = b =>
           P[d] = IF b \in out.buckets THEN out.start.entries[d] ELSE Absent
  BY <1>2, <1>4 DEF Payload, Flushes, Contents, EntryMaps
<1>6. /\ disk' \in Disks /\ disk'.meta = disk.meta
      /\ disk'.bucket[b] = P
      /\ \A c \in Buckets : c # b => disk'.bucket[c] = disk.bucket[c]
  BY <1>1, <1>3, <1>4, <1>5 DEF SummaryTypeOK, Disks
<1>7. \A d \in Docs : OnDisk(disk')[d] = IF BucketOf[d] # b THEN OnDisk(disk)[d]
                                        ELSE IF b \in out.buckets THEN out.start.entries[d]
                                        ELSE Absent
  BY <1>5, <1>6, BucketIn DEF OnDisk
<1>8. /\ out' \in Flushes /\ out'.done = out.done \cup {b} /\ out'.start = out.start
      /\ out'.meta = out.meta /\ out'.buckets = out.buckets
  BY <1>1, <1>2, <1>3 DEF Flushes
<1>9. /\ skew' \in [mem : BOOLEAN, disk : BOOLEAN, view : BOOLEAN]
      /\ skew'.mem = skew.mem /\ skew'.view = skew.view
      /\ ~skew'.disk => ~skew.disk /\ b \in out.buckets
  BY <1>1 DEF SummaryTypeOK
<1> QED BY <1>1, <1>2, <1>3, <1>6, <1>7, <1>8, <1>9

LEMMA TypesPutBucket == SummaryTypeOK /\ PutBucket => SummaryTypeOK'
<1> SUFFICES ASSUME SummaryTypeOK, PutBucket PROVE SummaryTypeOK'
  OBVIOUS
<1>1. disk' \in Disks /\ out' \in Flushes /\ skew' \in [mem : BOOLEAN, disk : BOOLEAN, view : BOOLEAN]
  BY PutBucketIs
<1> QED BY <1>1 DEF PutBucket, SummaryTypeOK

LEMMA TypesPutMeta == SummaryTypeOK /\ PutMeta => SummaryTypeOK'
<1> SUFFICES ASSUME SummaryTypeOK, PutMeta PROVE SummaryTypeOK'
  OBVIOUS
<1>1. disk' \in Disks
  BY ContentTyped DEF PutMeta, SummaryTypeOK, Disks
<1>2. out' \in Flushes
  BY DEF PutMeta, SummaryTypeOK, Flushes
<1>3. skew' \in [mem : BOOLEAN, disk : BOOLEAN, view : BOOLEAN]
  BY DEF PutMeta, SummaryTypeOK, Overlapped
<1> QED BY <1>1, <1>2, <1>3 DEF PutMeta, SummaryTypeOK

LEMMA TypesEndFlush == SummaryTypeOK /\ EndFlush => SummaryTypeOK'
<1> SUFFICES ASSUME SummaryTypeOK, EndFlush PROVE SummaryTypeOK'
  OBVIOUS
<1>1. sum' \in Summary
  BY DEF EndFlush, SummaryTypeOK, Summary
<1>2. skew' \in [mem : BOOLEAN, disk : BOOLEAN, view : BOOLEAN]
  BY DEF EndFlush, SummaryTypeOK, Overlapped
<1> QED BY <1>1, <1>2 DEF EndFlush, SummaryTypeOK

LEMMA TypesRestart == SummaryTypeOK /\ Restart => SummaryTypeOK'
<1> SUFFICES ASSUME SummaryTypeOK, Restart PROVE SummaryTypeOK'
  OBVIOUS
<1>1. skew' \in [mem : BOOLEAN, disk : BOOLEAN, view : BOOLEAN]
  BY DEF Restart, SummaryTypeOK, Torn
<1>2. limit' \in [flushes : Nat, faults : Nat, sets : Nat]
  BY DEF Restart, SummaryTypeOK
<1> QED BY <1>1, <1>2, NewSummaryTyped, NewViewTyped DEF Restart, SummaryTypeOK

(* The view goes on to the highest changeSeq it has seen; it shows what is   *)
(* new, and of the rest what the summary still has.                         *)
Present(d) == sum.entries[d] # Absent
Unseen(d) == Present(d) /\ sum.entries[d].seq > sv.applied

LEMMA ViewUpdateIs ==
  ASSUME SummaryTypeOK, ViewUpdate, sv.applied \in Times,
         \A d \in Docs : Present(d) => sum.entries[d].seq \in Times
  PROVE  /\ sv'.phase = "idle" /\ sv'.applied \in Times /\ sv.applied <= sv'.applied
         /\ \A d \in Docs : Unseen(d) => sum.entries[d].seq <= sv'.applied
         /\ sv'.applied = sv.applied \/ \E d \in Docs : Present(d) /\ sv'.applied = sum.entries[d].seq
         /\ \A d \in Docs : sv'.shown[d] = IF Unseen(d) THEN Shown(sum.entries[d].val)
                                          ELSE IF Present(d) THEN sv.shown[d] ELSE Absent
         /\ sv' \in Views
<1>1. PICK present : present = {d \in Docs : sum.entries[d] /= Absent}
  OBVIOUS
<1>2. PICK new : new = {d \in present : sum.entries[d].seq > sv.applied}
  OBVIOUS
<1>3. PICK passing : passing = {d \in new : sum.entries[d].val \in Matches}
  OBVIOUS
<1>4. PICK S : S = {sv.applied} \cup {sum.entries[d].seq : d \in new}
  OBVIOUS
<1>5. PICK top : top = CHOOSE n \in 0..MaxSeq : (\A m \in S : m <= n) /\ n \in S
  OBVIOUS
<1>6. sv' = [phase |-> "idle", applied |-> top,
             known |-> ((sv.known \cap present) \ new) \cup passing,
             shown |-> ShownAfter(new, present)]
  BY <1>1, <1>2, <1>3, <1>4, <1>5 DEF ViewUpdate
<1>7. present \subseteq Docs /\ new \subseteq present /\ passing \subseteq new
  BY <1>1, <1>2, <1>3
<1>8. \A d \in Docs : (d \in present <=> Present(d)) /\ (d \in new <=> Unseen(d))
  BY <1>1, <1>2 DEF Present, Unseen
<1>9. S \in SUBSET Times /\ S # {}
  BY <1>4, <1>7, <1>8
<1>10. top \in Times /\ (\A m \in S : m <= top) /\ top \in S
  <2>1. \E n \in 0..MaxSeq : (\A m \in S : m <= n) /\ n \in S
    BY <1>9, GreatestIn DEF Times
  <2> QED BY <1>5, <2>1 DEF Times
<1>11. sv'.phase = "idle" /\ sv'.applied = top /\ sv'.shown = ShownAfter(new, present)
  BY <1>6
<1>12. \A d \in Docs : sv'.shown[d] = IF Unseen(d) THEN Shown(sum.entries[d].val)
                                     ELSE IF Present(d) THEN sv.shown[d] ELSE Absent
  BY <1>8, <1>11 DEF ShownAfter
<1>13. top = sv.applied \/ \E d \in Docs : Present(d) /\ top = sum.entries[d].seq
  BY <1>4, <1>7, <1>8, <1>10
<1>14. sv' \in Views
  <2>1. \A d \in Docs : Shown(sum.entries[d].val) \in Values \cup {Absent}
    BY SummaryAssumption DEF Shown
  <2>2. ShownAfter(new, present) \in [Docs -> Values \cup {Absent}]
    BY <2>1 DEF ShownAfter, SummaryTypeOK, Views
  <2>3. ((sv.known \cap present) \ new) \cup passing \in SUBSET Docs
    BY <1>7
  <2>4. top \in Nat
    BY <1>10 DEF Times
  <2> QED BY <1>6, <2>2, <2>3, <2>4 DEF Views
<1>15. sv.applied <= top /\ \A d \in Docs : Unseen(d) => sum.entries[d].seq <= top
  BY <1>4, <1>8, <1>10
<1> QED BY <1>10, <1>11, <1>12, <1>13, <1>14, <1>15

-----------------------------------------------------------------------------
(* The feed moves on                                                       *)

LEMMA WriteIs ==
  ASSUME SummaryTypeOK, HasTop(feed), NEW d \in Docs, NEW v \in Values \cup {Gone}, Write(d, v)
  PROVE  feed' \in Feeds /\ Later(feed, feed', d)
<1>1. feed' \in Feeds
  BY TypesWrite
<1>2. LatestSeq \in Nat /\ \A x \in Docs : feed[x].seq <= LatestSeq
  BY TopIs, FeedAssumption DEF SummaryTypeOK, Times
<1>3. feed'[d] = [seq |-> LatestSeq + 1, val |-> v] /\ \A x \in Docs : x # d => feed'[x] = feed[x]
  BY DEF Write, SummaryTypeOK, Feeds
<1>4. feed'[d].seq = LatestSeq + 1
  BY <1>3
<1>5. ASSUME NEW x \in Docs
      PROVE  feed[x].seq < feed'[d].seq
  <2>1. feed[x].seq \in Nat
    BY FeedAssumption DEF SummaryTypeOK, Feeds, Times
  <2> QED BY <1>2, <1>4, <2>1
<1> QED BY <1>1, <1>3, <1>5 DEF Later

LEMMA DiskTyped ==
  ASSUME SummaryTypeOK
  PROVE  /\ OnDisk(disk) \in EntryMaps
         /\ disk.meta # Absent => disk.meta \in Meta /\ disk.meta.cursor \in Nat /\ disk.meta.back \in Nat
         /\ sum.entries \in EntryMaps /\ sum.cursor \in Nat /\ sum.back \in Nat /\ sv.applied \in Nat
         /\ out # Absent => /\ out.start.entries \in EntryMaps
                            /\ out.start.cursor \in Nat /\ out.start.back \in Nat
         /\ run # Absent => run.todo \in SUBSET Changes
BY OnDiskTyped DEF SummaryTypeOK, Disks, Meta, Summary, Views, Flushes, Contents, Runs

LEMMA StepWrite ==
  ASSUME SummaryInv, NEW d \in Docs, NEW v \in Values \cup {Gone}, Write(d, v), UNCHANGED summaryVars
  PROVE  SummaryInv'
<1>1. PICK g : g = feed'
  OBVIOUS
<1>2. feed \in Feeds /\ FeedOK(feed) /\ HasTop(feed)
  BY DEF SummaryInv, SummaryTypeOK, DatesPart, FeedOK
<1>3. g \in Feeds /\ Later(feed, g, d)
  BY <1>1, <1>2, WriteIs DEF SummaryInv
<1> sum' = sum /\ run' = run /\ out' = out /\ disk' = disk /\ sv' = sv /\ limit' = limit /\ skew' = skew
  BY DEF summaryVars
<1>4. SummaryTypeOK'
  BY <1>1, <1>3 DEF SummaryInv, SummaryTypeOK
<1> SummaryTypeOK
  BY DEF SummaryInv
<1>5. DatesPart'
  <2>1. FeedOK(g)
    BY <1>2, <1>3, LaterFeed
  <2>2. Past(g, sum.cursor) /\ Past(g, sum.back) /\ Past(g, sv.applied)
    BY <1>2, <1>3, LaterPast, DiskTyped DEF SummaryInv, DatesPart
  <2>3. Dated(g, sum.entries) /\ Dated(g, OnDisk(disk))
    BY <1>2, <1>3, LaterDated, DiskTyped DEF SummaryInv, DatesPart
  <2>4. disk.meta # Absent => Past(g, disk.meta.cursor) /\ Past(g, disk.meta.back)
    BY <1>2, <1>3, LaterPast, DiskTyped DEF SummaryInv, DatesPart
  <2>5. out # Absent => Dated(g, out.start.entries) /\ Past(g, out.start.cursor) /\ Past(g, out.start.back)
    BY <1>2, <1>3, LaterPast, LaterDated, DiskTyped DEF SummaryInv, DatesPart
  <2>6. ASSUME run # Absent, NEW e \in run.todo
        PROVE  1 <= e.seq /\ e.seq <= g[e.doc].seq
    <3>1. e.doc \in Docs /\ e.seq \in Nat
      BY <2>6, DiskTyped DEF Changes
    <3>2. 1 <= e.seq /\ e.seq <= feed[e.doc].seq
      BY <2>6 DEF SummaryInv, DatesPart
    <3>3. feed[e.doc].seq \in Nat /\ g[e.doc].seq \in Nat /\ feed[e.doc].seq <= g[e.doc].seq
      BY <1>2, <1>3, <3>1, LaterIs
    <3> QED BY <3>1, <3>2, <3>3
  <2> QED BY <1>1, <2>1, <2>2, <2>3, <2>4, <2>5, <2>6 DEF DatesPart
<1>6. Begun'
  BY DEF SummaryInv, Begun
<1>7. RunPart'
  <2>1. ASSUME run # Absent, NEW from, Ordered(feed, sum, run.todo, from, sv.applied)
        PROVE  Ordered(g, sum, run.todo, from, sv.applied)
    <3>1. \A e \in run.todo : e.seq <= feed[e.doc].seq
      BY <2>1 DEF SummaryInv, DatesPart
    <3>2. sum \in Summary /\ run.todo \in SUBSET Changes /\ sv.applied \in Nat
      BY <2>1, DiskTyped DEF SummaryTypeOK
    <3>3. Past(feed, sum.cursor) /\ Past(feed, sum.back) /\ Past(feed, sv.applied) /\ Dated(feed, sum.entries)
      BY DEF SummaryInv, DatesPart
    <3> QED BY <1>2, <1>3, <2>1, <3>1, <3>2, <3>3, LaterOrdered
  <2>2. ReadTo(feed, sum.entries, sum.back) => ReadTo(g, sum.entries, sum.back)
    BY <1>2, <1>3, LaterRead, DiskTyped DEF SummaryInv, DatesPart
  <2>3. NoneAhead(feed, sum.entries) => NoneAhead(g, sum.entries)
    BY <1>2, <1>3, LaterNone, DiskTyped DEF SummaryInv, DatesPart
  <2> QED BY <1>1, <2>1, <2>2, <2>3 DEF SummaryInv, RunPart
<1>8. MemPart'
  <2>1. Complete(feed, sum, sum.entries) => Complete(g, sum, sum.entries)
    BY <1>2, <1>3, LaterComplete, DiskTyped DEF SummaryInv, DatesPart
  <2> QED BY <1>1, <2>1 DEF SummaryInv, MemPart
<1>9. ViewPart'
  <2>1. NoneAhead(feed, sum.entries) => NoneAhead(g, sum.entries)
    BY <1>2, <1>3, LaterNone, DiskTyped DEF SummaryInv, DatesPart
  <2>2. /\ ReadTo(feed, sum.entries, sv.applied) => ReadTo(g, sum.entries, sv.applied)
        /\ \A x \in Docs : g[x].seq <= sv.applied => feed[x] = g[x]
    BY <1>2, <1>3, LaterRead, DiskTyped DEF SummaryInv, DatesPart
  <2> QED BY <1>1, <2>1, <2>2 DEF SummaryInv, ViewPart, Others
<1>10. OutPart'
  <2>1. out # Absent =>
          (Complete(feed, out.start, out.start.entries) => Complete(g, out.start, out.start.entries))
    BY <1>2, <1>3, LaterComplete, DiskTyped DEF SummaryInv, DatesPart
  <2> QED BY <1>1, <2>1 DEF SummaryInv, OutPart
<1>11. DiskPart'
  <2>1. disk.meta # Absent =>
          (Complete(feed, disk.meta, OnDisk(disk)) => Complete(g, disk.meta, OnDisk(disk)))
    BY <1>2, <1>3, LaterComplete, DiskTyped DEF SummaryInv, DatesPart
  <2>2. Torn' <=> Torn
    BY DEF Torn
  <2> QED BY <1>1, <2>1, <2>2 DEF SummaryInv, DiskPart
<1> QED BY <1>4, <1>5, <1>6, <1>7, <1>8, <1>9, <1>10, <1>11 DEF SummaryInv

-----------------------------------------------------------------------------
(* What a step of the summary leaves to the flush and the disk              *)

LEMMA KeepsOut ==
  ASSUME SummaryInv, UNCHANGED <<feed, out, disk>>, sum'.restored = sum.restored,
         skew'.disk = skew.disk, ~skew'.mem => ~skew.mem
  PROVE  OutPart'
BY DEF SummaryInv, OutPart

LEMMA KeepsDisk ==
  ASSUME SummaryInv, UNCHANGED <<feed, out, disk>>, sum'.restored = sum.restored,
         skew'.disk = skew.disk, ~skew'.mem => ~skew.mem,
         disk.meta # Absent /\ disk.meta.cursor <= sum.cursor => disk.meta.cursor <= sum'.cursor,
         \A d \in Docs : BucketOf[d] \notin sum'.dirty =>
           BucketOf[d] \notin sum.dirty /\ sum'.entries[d] = sum.entries[d]
  PROVE  DiskPart'
<1>1. Torn => Torn'
  BY DEF Torn
<1> QED BY <1>1 DEF SummaryInv, DiskPart

LEMMA KeepsDates ==
  ASSUME SummaryInv, UNCHANGED <<feed, out, disk>>,
         Dated(feed, sum'.entries), Past(feed, sum'.cursor), Past(feed, sum'.back), sv'.applied = sv.applied,
         run' # Absent => \A e \in run'.todo : 1 <= e.seq /\ e.seq <= feed[e.doc].seq
  PROVE  DatesPart'
BY DEF SummaryInv, DatesPart

LEMMA ZeroIsPast == SummaryTypeOK => Past(feed, 0)
BY SummaryAssumption, FeedAssumption DEF SummaryTypeOK, Feeds, Times, Past

LEMMA EntryDates ==
  ASSUME SummaryInv, NEW d \in Docs, sum.entries[d] # Absent
  PROVE  /\ feed[d].seq \in Nat /\ sum.entries[d].seq \in Nat /\ 1 <= sum.entries[d].seq
         /\ sum.entries[d].seq <= feed[d].seq /\ feed[d].seq > 0
<1>1. feed[d].seq \in Nat /\ sum.entries[d].seq \in Nat
  BY FeedAssumption DEF SummaryInv, SummaryTypeOK, Feeds, Times, Summary, EntryMaps, Entry
<1>2. 1 <= sum.entries[d].seq /\ sum.entries[d].seq <= feed[d].seq
  BY DEF SummaryInv, DatesPart, Dated
<1> QED BY <1>1, <1>2

-----------------------------------------------------------------------------
(* The configuration changes                                               *)

LEMMA StepConfigured ==
  ASSUME SummaryInv, SummaryTypeOK', UNCHANGED <<feed, out, disk, sv>>,
         skew'.disk = skew.disk, skew'.view = skew.view, ~skew'.mem => ~skew.mem,
         sum'.entries = sum.entries, sum'.cursor = sum.cursor, sum'.dirty = sum.dirty,
         sum'.restored = sum.restored,
         SameExtraction(sum, sum') \/ Reconfigured(sum, sum'),
         \/ run' = run
         \/ run # Absent /\ run'.phase = "restore" /\ run'.todo = {},
         run # Absent /\ run.phase = "back" /\ ~skew'.mem => SameExtraction(sum, sum')
  PROVE  SummaryInv'
<1>1. sum'.back = sum.back \/ sum'.back = 0
  BY DEF SameExtraction, Reconfigured
<1>2. DatesPart'
  BY <1>1, ZeroIsPast, KeepsDates DEF SummaryInv, DatesPart
<1>3. Begun'
  <2>1. ASSUME sum.entries = NoEntries, sum.cursor = 0
        PROVE  sum'.back = sum.back /\ sum'.backfill = sum.backfill
    BY <2>1 DEF SameExtraction, Reconfigured
  <2> QED BY <2>1 DEF SummaryInv, Begun
<1>4. RunPart'
  <2>1. ASSUME run' # Absent, run'.phase \in {"main", "back"}
        PROVE  run' = run
    BY <2>1
  <2>2. ASSUME run # Absent, run.phase = "main"
        PROVE  Ordered(feed, sum', run.todo, sum'.cursor, sv.applied)
    <3>1. Ordered(feed, sum, run.todo, sum.cursor, sv.applied)
      BY <2>2 DEF SummaryInv, RunPart
    <3>2. ASSUME NEW d \in Docs, sum.cursor < feed[d].seq, New(d, feed, sum, run.todo, sv.applied)
          PROVE  New(d, feed, sum', run.todo, sv.applied)
      <4>1. sum'.back < feed[d].seq
        <5>1. sum.cursor \in Nat /\ feed[d].seq \in Nat
          BY DiskTyped, FeedAssumption DEF SummaryInv, SummaryTypeOK, Feeds, Times
        <5> QED BY <1>1, <3>2, <5>1 DEF New
      <4> QED BY <3>2, <4>1 DEF New
    <3> QED BY <3>1, <3>2 DEF Ordered
  <2>3. ASSUME run # Absent, run.phase = "back", ~skew'.mem
        PROVE  Ordered(feed, sum', run.todo, sum'.back, sv.applied) /\ ReadTo(feed, sum'.entries, sum'.back)
               /\ NoneAhead(feed, sum'.entries)
    <3>1. sum'.back = sum.back
      BY <2>3 DEF SameExtraction
    <3> QED BY <2>3, <3>1 DEF SummaryInv, RunPart, Ordered, New
  <2> QED BY <2>1, <2>2, <2>3 DEF RunPart
<1>5. MemPart'
  <2> SUFFICES ASSUME sum.restored, ~skew'.mem, NEW d \in Others, feed[d].seq <= sum.cursor
               PROVE  Read(feed, sum.entries, d) /\ Configured(feed, sum', sum.entries, d)
    BY DEF MemPart, Complete
  <2>1. Read(feed, sum.entries, d) /\ Configured(feed, sum, sum.entries, d)
    BY DEF SummaryInv, MemPart, Complete
  <2>2. ASSUME Reconfigured(sum, sum'), sum.entries[d] # Absent
        PROVE  sum'.backfill /\ feed[d].seq > sum'.back
    <3>1. sum'.backfill = TRUE /\ sum'.back = 0
      BY <2>2, NothingSummarized DEF Reconfigured, Others
    <3> QED BY <2>2, <3>1, EntryDates DEF Others
  <2>3. CASE SameExtraction(sum, sum')
    BY <2>1, <2>3 DEF SameExtraction, Configured
  <2>4. CASE Reconfigured(sum, sum')
    BY <2>1, <2>2, <2>4 DEF Configured
  <2> QED BY <2>3, <2>4
<1>6. ViewPart'
  BY DEF SummaryInv, ViewPart
<1>7. OutPart'
  BY KeepsOut
<1>8. DiskPart'
  BY KeepsDisk
<1> QED BY <1>2, <1>3, <1>4, <1>5, <1>6, <1>7, <1>8 DEF SummaryInv

LEMMA StepConfig ==
  ASSUME SummaryInv, NEW c \in Explicit, SetConfig(c)
  PROVE  SummaryInv'
<1> SummaryTypeOK
  BY DEF SummaryInv
<1>1. PICK s : s = [sum EXCEPT !.explicit = TRUE]
  OBVIOUS
<1>2. s \in Summary
  BY <1>1 DEF SummaryTypeOK, Summary
<1>3. /\ s.entries = sum.entries /\ s.cursor = sum.cursor /\ s.dirty = sum.dirty
      /\ s.restored = sum.restored /\ SameExtraction(sum, s)
  BY <1>1 DEF SummaryTypeOK, Summary, SameExtraction
<1>4. c \in Configs /\ sum' = ApplyConfig(s, c)
  BY <1>1 DEF SetConfig, Configs
<1>5. /\ SameBut(s, sum') /\ sum'.entries = s.entries /\ sum'.dirty = s.dirty /\ sum'.config = c
      /\ SameExtraction(s, sum') \/ Reconfigured(s, sum')
  BY <1>2, <1>4, ApplyConfigIs
<1>6. SameExtraction(sum, sum') \/ Reconfigured(sum, sum')
  BY <1>3, <1>5 DEF SameExtraction, Reconfigured
<1>7. /\ skew'.disk = skew.disk /\ skew'.view = skew.view /\ (~skew'.mem => ~skew.mem)
      /\ run # Absent /\ run.phase = "back" /\ ~skew'.mem => c = sum.config
  BY DEF SetConfig, SummaryTypeOK
<1>8. run # Absent /\ run.phase = "back" /\ ~skew'.mem => SameExtraction(sum, sum')
  BY <1>5, <1>6, <1>7 DEF Reconfigured
<1>9. SummaryTypeOK' /\ UNCHANGED <<feed, run, out, disk, sv>>
  BY TypesConfig DEF SetConfig
<1> QED BY <1>3, <1>5, <1>6, <1>7, <1>8, <1>9, StepConfigured DEF SameBut

LEMMA StepSeed ==
  ASSUME SummaryInv, Seed
  PROVE  SummaryInv'
<1> SummaryTypeOK
  BY DEF SummaryInv
<1>1. PICK s : s = [sum EXCEPT !.seeded = TRUE]
  OBVIOUS
<1>2. s \in Summary
  BY <1>1 DEF SummaryTypeOK, Summary
<1>3. /\ s.entries = sum.entries /\ s.cursor = sum.cursor /\ s.dirty = sum.dirty
      /\ s.restored = sum.restored /\ SameExtraction(sum, s)
  BY <1>1 DEF SummaryTypeOK, Summary, SameExtraction
<1>4. sum' = s \/ (feed[Setup].val # Gone /\ sum' = ApplyConfig(s, ConfigOf[feed[Setup].val]))
  BY <1>1 DEF Seed
<1>5. feed[Setup].val # Gone => ConfigOf[feed[Setup].val] \in Configs
  BY SummaryAssumption DEF SummaryTypeOK, Feeds, Configs
<1>6. /\ SameBut(s, sum') /\ sum'.entries = s.entries /\ sum'.dirty = s.dirty
      /\ SameExtraction(s, sum') \/ Reconfigured(s, sum')
  <2>1. CASE sum' = s
    BY <2>1 DEF SameBut, SameExtraction
  <2>2. CASE feed[Setup].val # Gone /\ sum' = ApplyConfig(s, ConfigOf[feed[Setup].val])
    BY <1>2, <1>5, <2>2, ApplyConfigIs
  <2> QED BY <1>4, <2>1, <2>2
<1>7. SameExtraction(sum, sum') \/ Reconfigured(sum, sum')
  BY <1>3, <1>6 DEF SameExtraction, Reconfigured
<1>8. run # Absent /\ run.phase = "seed" /\ run'.phase = "restore" /\ run'.todo = {}
  BY DEF Seed, SummaryTypeOK, Runs, SummaryInv, Begun
<1>9. SummaryTypeOK' /\ UNCHANGED <<feed, out, disk, sv, skew>>
  BY TypesSeed DEF Seed
<1> QED BY <1>3, <1>6, <1>7, <1>8, <1>9, StepConfigured DEF SameBut

LEMMA StepUpdate ==
  ASSUME SummaryInv, Update
  PROVE  SummaryInv'
<1> SummaryTypeOK
  BY DEF SummaryInv
<1>1. SummaryTypeOK' /\ UNCHANGED <<feed, sum, out, disk, limit, skew>>
  BY TypesUpdate DEF Update
<1>2. sv'.phase = "wait" /\ sv'.applied = sv.applied /\ sv'.shown = sv.shown
  BY DEF Update, SummaryTypeOK, Views
<1>3. run = Absent /\ run' = [phase |-> "seed", todo |-> {}]
  BY DEF Update, SummaryInv, Begun
<1>4. run'.phase = "seed" /\ run'.todo = {}
  BY <1>3
<1>5. DatesPart'
  BY <1>1, <1>2, <1>4, KeepsDates DEF SummaryInv, DatesPart
<1>6. Begun'
  BY <1>1, <1>2, <1>4 DEF SummaryInv, Begun
<1>7. RunPart' /\ MemPart'
  BY <1>1, <1>4 DEF SummaryInv, RunPart, MemPart
<1>8. ViewPart'
  BY <1>1, <1>2 DEF SummaryInv, ViewPart
<1>9. OutPart' /\ DiskPart'
  BY <1>1, KeepsOut, KeepsDisk
<1> QED BY <1>1, <1>5, <1>6, <1>7, <1>8, <1>9 DEF SummaryInv

-----------------------------------------------------------------------------
(* The run                                                                 *)

(* The changes of a run as it starts.                                       *)
LEMMA ChangesOrdered ==
  ASSUME SummaryTypeOK, FeedOK(feed), NEW s, NEW from \in Nat, NEW n
  PROVE  /\ Ordered(feed, s, ChangesSince(feed, from), from, n)
         /\ \A e \in ChangesSince(feed, from) : 1 <= e.seq /\ e.seq <= feed[e.doc].seq
<1>1. PICK todo : todo = ChangesSince(feed, from)
  OBVIOUS
<1>2. \A d \in Docs : feed[d].seq \in Nat
  BY FeedAssumption DEF SummaryTypeOK, Feeds, Times
<1>3. \A d \in Docs : feed[d].seq > from => [doc |-> d, seq |-> feed[d].seq] \in todo
  BY <1>1 DEF ChangesSince
<1>4. ASSUME NEW e \in todo
      PROVE  e.doc \in Docs /\ e.seq = feed[e.doc].seq /\ from < e.seq /\ e = [doc |-> e.doc, seq |-> e.seq]
  <2>1. PICK d \in Docs : feed[d].seq > from /\ e = [doc |-> d, seq |-> feed[d].seq]
    BY <1>1 DEF ChangesSince
  <2>2. e.doc = d /\ e.seq = feed[d].seq
    BY <2>1
  <2> QED BY <1>2, <2>1, <2>2
<1>5. ASSUME NEW e \in todo, NEW o \in todo, e.doc = o.doc \/ e.seq = o.seq
      PROVE  e = o
  <2>1. e.doc = o.doc
    <3>1. feed[e.doc].seq # 0 /\ e.doc \in Docs /\ o.doc \in Docs
      BY <1>2, <1>4
    <3>2. feed[e.doc].seq = feed[o.doc].seq
      BY <1>4, <1>5
    <3> QED BY <3>1, <3>2 DEF FeedOK
  <2>2. e = [doc |-> e.doc, seq |-> feed[e.doc].seq] /\ o = [doc |-> o.doc, seq |-> feed[o.doc].seq]
    BY <1>4
  <2> QED BY <2>1, <2>2
<1>6. \A d \in Docs : from < feed[d].seq => [doc |-> d, seq |-> feed[d].seq] \in todo
  BY <1>2, <1>3
<1>7. ASSUME NEW e \in todo
      PROVE  from < e.seq /\ 1 <= e.seq /\ e.seq <= feed[e.doc].seq
  BY <1>2, <1>4
<1> QED BY <1>1, <1>5, <1>6, <1>7 DEF Ordered

(* Before its first change a document has no entry.                         *)
LEMMA ReadFromStart ==
  ASSUME SummaryTypeOK, FeedOK(feed), NEW E \in EntryMaps, Dated(feed, E)
  PROVE  /\ ReadTo(feed, E, 0)
         /\ \A d \in Docs : feed[d].seq <= 0 => E[d] = Absent /\ feed[d].val = Gone
<1>1. ASSUME NEW d \in Docs, feed[d].seq <= 0
      PROVE  E[d] = Absent /\ feed[d].val = Gone
  <2>1. feed[d].seq = 0
    BY <1>1, FeedAssumption DEF SummaryTypeOK, Feeds, Times
  <2>2. E[d] # Absent => E[d].seq \in Nat
    BY DEF EntryMaps, Entry
  <2> QED BY <2>1, <2>2 DEF FeedOK, Dated
<1> QED BY <1>1 DEF ReadTo, Read, Others

LEMMA StepRestore ==
  ASSUME SummaryInv, Restore
  PROVE  SummaryInv'
<1> SummaryTypeOK /\ FeedOK(feed)
  BY DEF SummaryInv, DatesPart
<1>1. PICK s : s = IF sum.restored THEN sum ELSE Restored(sum)
  OBVIOUS
<1>2. s \in Summary /\ disk \in Disks /\ sum \in Summary
  BY <1>1, RestoredIs DEF SummaryTypeOK
<1>3. sum' = [s EXCEPT !.restored = TRUE]
  BY <1>1 DEF Restore
<1>4. /\ sum'.entries = s.entries /\ sum'.cursor = s.cursor /\ sum'.dirty = s.dirty /\ sum'.restored
      /\ SameExtraction(s, sum')
  BY <1>2, <1>3 DEF Summary, SameExtraction
<1>5. run' = [phase |-> "main", todo |-> ChangesSince(feed, s.cursor)]
  BY <1>1 DEF Restore
<1>6. run'.phase = "main" /\ run'.todo = ChangesSince(feed, s.cursor) /\ s.cursor \in Nat
  BY <1>2, <1>5 DEF Summary
<1>7. SummaryTypeOK' /\ UNCHANGED <<feed, out, disk, sv, limit>>
  BY TypesRestore DEF Restore
<1>8. /\ skew'.disk = skew.disk /\ skew'.view = skew.view /\ (~skew'.mem => ~skew.mem)
      /\ ~sum.restored /\ ~skew'.mem => ~skew.disk
  BY DEF Restore, SummaryTypeOK
<1>9. sv.phase = "wait"
  BY DEF Restore, SummaryInv, Begun
<1>10. \A e \in run'.todo : 1 <= e.seq /\ e.seq <= feed[e.doc].seq
  BY <1>6, ChangesOrdered
<1>11. RunPart'
  <2>1. Ordered(feed, sum', ChangesSince(feed, s.cursor), s.cursor, sv.applied)
    BY <1>6, ChangesOrdered
  <2> QED BY <1>4, <1>6, <1>7, <2>1 DEF RunPart
<1>12. CASE sum.restored
  <2>1. s = sum
    BY <1>1, <1>12
  <2>2. DatesPart'
    BY <1>4, <1>7, <1>10, <2>1, KeepsDates DEF SummaryInv, DatesPart, SameExtraction
  <2>3. Begun'
    BY <1>4, <1>6, <1>7, <1>9 DEF SummaryInv, Begun
  <2>4. MemPart'
    BY <1>4, <1>7, <1>8, <1>12, <2>1 DEF SummaryInv, MemPart, SameExtraction, Complete, Configured
  <2>5. ViewPart'
    BY <1>4, <1>7, <1>8, <2>1 DEF SummaryInv, ViewPart
  <2>6. OutPart' /\ DiskPart'
    BY <1>4, <1>7, <1>8, <1>12, <2>1, KeepsOut, KeepsDisk
  <2> QED BY <1>7, <1>11, <2>2, <2>3, <2>4, <2>5, <2>6 DEF SummaryInv
<1>13. CASE ~sum.restored
  <2>1. /\ sum.entries = NoEntries /\ sum.cursor = 0 /\ sum.back = 0 /\ ~sum.backfill /\ sum.dirty = {}
        /\ sv.applied = 0
    BY <1>13 DEF SummaryInv, Begun
  <2>2. s = Restored(sum)
    BY <1>1, <1>13
  <2>3. /\ s.config = sum.config /\ s.dirty = {}
        /\ disk.meta = Absent => s = sum
        /\ disk.meta # Absent =>
             /\ s.entries = OnDisk(disk) /\ s.cursor = disk.meta.cursor
             /\ \/ disk.meta.config # s.config /\ s.backfill = TRUE /\ s.back = 0
                \/ /\ disk.meta.config = s.config /\ disk.meta.backfill
                   /\ s.backfill = TRUE /\ s.back = disk.meta.back
                \/ /\ disk.meta.config = s.config /\ ~disk.meta.backfill
                   /\ s.backfill = sum.backfill /\ s.back = sum.back
    <3>1. /\ s.config = sum.config /\ s.dirty = sum.dirty
          /\ disk.meta = Absent => s = sum
          /\ disk.meta # Absent =>
               /\ sum.entries = NoEntries => s.entries = OnDisk(disk)
               /\ s.cursor = disk.meta.cursor
               /\ \/ disk.meta.config # sum.config /\ s.backfill = TRUE /\ s.back = 0
                  \/ /\ disk.meta.config = sum.config /\ disk.meta.backfill
                     /\ s.backfill = TRUE /\ s.back = disk.meta.back
                  \/ /\ disk.meta.config = sum.config /\ ~disk.meta.backfill
                     /\ s.backfill = sum.backfill /\ s.back = sum.back
      BY <1>2, <2>2, RestoredIs
    <3> QED BY <2>1, <3>1
  <2>4. Dated(feed, s.entries) /\ Past(feed, s.cursor) /\ Past(feed, s.back)
    BY <2>1, <2>3, ZeroIsPast DEF SummaryInv, DatesPart
  <2>5. out # Absent => out.buckets = {} /\ out.done = {}
    BY <1>13 DEF SummaryInv, Begun
  <2>6. ~Torn
    BY <2>5 DEF Torn
  <2>7. DatesPart'
    BY <1>4, <1>7, <1>10, <2>4, KeepsDates DEF SameExtraction
  <2>8. Begun'
    BY <1>4, <1>6, <1>7, <1>9 DEF Begun
  <2>9. ASSUME ~skew.disk
        PROVE  /\ Complete(feed, sum', sum'.entries)
               /\ OnDisk(disk) = sum'.entries
    <3>1. CASE disk.meta = Absent
      <4>1. OnDisk(disk) = NoEntries
        BY <2>6, <2>9, <3>1 DEF SummaryInv, DiskPart
      <4>2. \A d \in Docs : feed[d].seq <= 0 => sum.entries[d] = Absent /\ feed[d].val = Gone
        BY <1>2, ReadFromStart DEF SummaryInv, DatesPart, Summary
      <4> QED BY <1>4, <2>1, <2>3, <3>1, <4>1, <4>2 DEF Complete, Read, Configured, Others
    <3>2. CASE disk.meta # Absent
      <4>1. Complete(feed, disk.meta, OnDisk(disk))
        BY <2>6, <2>9, <3>2 DEF SummaryInv, DiskPart
      <4>2. ASSUME NEW d \in Docs, s.entries[d] # Absent
            PROVE  feed[d].seq > 0
        <5>1. feed[d].seq \in Nat /\ s.entries[d].seq \in Nat
          BY <1>2, <4>2, FeedAssumption DEF SummaryTypeOK, Feeds, Times, Summary, EntryMaps, Entry
        <5> QED BY <2>4, <4>2, <5>1 DEF Dated
      <4>3. ASSUME NEW d \in Others, feed[d].seq <= s.cursor
            PROVE  Read(feed, s.entries, d) /\ Configured(feed, s, s.entries, d)
        <5>1. Read(feed, s.entries, d) /\ Configured(feed, disk.meta, s.entries, d)
          BY <2>3, <3>2, <4>1, <4>3 DEF Complete
        <5>2. CASE disk.meta.config # s.config /\ s.backfill = TRUE /\ s.back = 0
          BY <4>2, <5>1, <5>2 DEF Configured, Others
        <5>3. CASE /\ disk.meta.config = s.config /\ disk.meta.backfill
                   /\ s.backfill = TRUE /\ s.back = disk.meta.back
          BY <5>1, <5>3 DEF Configured
        <5>4. CASE disk.meta.config = s.config /\ ~disk.meta.backfill
          BY <5>1, <5>4 DEF Configured
        <5> QED BY <2>3, <3>2, <5>2, <5>3, <5>4
      <4>4. Complete(feed, s, s.entries)
        BY <4>3 DEF Complete
      <4> QED BY <1>4, <2>3, <3>2, <4>4 DEF Complete, Configured, SameExtraction
    <3> QED BY <3>1, <3>2
  <2>10. MemPart'
    BY <1>7, <1>8, <1>13, <2>9 DEF MemPart
  <2>11. ViewPart'
    <3>1. ReadTo(feed, s.entries, 0)
      BY <1>2, <2>4, ReadFromStart DEF Summary
    <3> QED BY <1>4, <1>7, <1>8, <1>9, <2>1, <3>1 DEF SummaryInv, ViewPart
  <2>12. OutPart'
    BY <1>7, <1>8, <2>5 DEF OutPart
  <2>13. DiskPart'
    <3>1. Torn => Torn'
      BY <1>7, <1>8 DEF Torn
    <3>2. disk.meta # Absent => disk.meta.cursor <= sum'.cursor
      BY <1>4, <1>6, <2>3
    <3> QED BY <1>4, <1>7, <1>8, <2>9, <3>1, <3>2 DEF SummaryInv, DiskPart
  <2> QED BY <1>7, <1>11, <2>7, <2>8, <2>10, <2>11, <2>12, <2>13 DEF SummaryInv
<1> QED BY <1>12, <1>13

(* The next document of a run: nothing else lies between, and if it has      *)
(* changed since the run began, the change is new.                          *)
LEMMA StepOrder ==
  ASSUME SummaryInv, run \in Runs, run # Absent, NEW e, NEW t, Step(e, t), NEW from \in Nat,
         Ordered(feed, sum, run.todo, from, sv.applied)
  PROVE  /\ from < e.seq
         /\ \A d \in Docs : from < feed[d].seq /\ feed[d].seq <= e.seq => d = e.doc /\ feed[d].seq = e.seq
         /\ feed[e.doc].seq = e.seq \/ New(e.doc, feed, sum, run.todo, sv.applied)
         /\ \A o \in run.todo \ {e} : e.seq < o.seq /\ o.doc # e.doc
<1>1. e \in run.todo /\ run.todo \subseteq Changes /\ \A o \in run.todo : e.seq <= o.seq
  BY DEF Step, IsNext, Runs
<1>2. e.doc \in Docs /\ e.seq \in Nat /\ from < e.seq
  BY <1>1 DEF Changes, Ordered
<1>3. e.seq <= feed[e.doc].seq /\ \A d \in Docs : feed[d].seq \in Nat
  BY <1>1, FeedAssumption DEF SummaryInv, DatesPart, SummaryTypeOK, Feeds, Times
<1>4. ASSUME NEW d \in Docs, from < feed[d].seq, feed[d].seq <= e.seq
      PROVE  d = e.doc /\ feed[d].seq = e.seq
  <2>1. ~New(d, feed, sum, run.todo, sv.applied)
    BY <1>1, <1>2, <1>3, <1>4 DEF New
  <2>2. PICK o : o = [doc |-> d, seq |-> feed[d].seq]
    OBVIOUS
  <2>3. o \in run.todo
    BY <1>4, <2>1, <2>2 DEF Ordered
  <2>4. e.seq <= o.seq /\ o.seq = feed[d].seq /\ o.doc = d
    BY <1>1, <2>2, <2>3
  <2>5. e.seq = o.seq
    BY <1>2, <1>3, <1>4, <2>4
  <2>6. e = o
    BY <1>1, <2>3, <2>5 DEF Ordered
  <2> QED BY <2>4, <2>5, <2>6
<1>5. feed[e.doc].seq = e.seq \/ New(e.doc, feed, sum, run.todo, sv.applied)
  <2> SUFFICES ASSUME ~New(e.doc, feed, sum, run.todo, sv.applied)
               PROVE  feed[e.doc].seq = e.seq
    OBVIOUS
  <2>1. from < feed[e.doc].seq
    BY <1>2, <1>3
  <2>2. PICK o : o = [doc |-> e.doc, seq |-> feed[e.doc].seq]
    OBVIOUS
  <2>3. o \in run.todo /\ o.doc = e.doc /\ o.seq = feed[e.doc].seq
    BY <1>2, <2>1, <2>2 DEF Ordered
  <2>4. e = o
    BY <1>1, <2>3 DEF Ordered
  <2> QED BY <2>3, <2>4
<1>6. ASSUME NEW o \in run.todo, o # e
      PROVE  e.seq < o.seq /\ o.doc # e.doc
  <2>1. o.seq \in Nat
    BY <1>1 DEF Changes
  <2>2. o.seq # e.seq /\ o.doc # e.doc
    BY <1>1, <1>6 DEF Ordered
  <2> QED BY <1>1, <1>2, <2>1, <2>2
<1> QED BY <1>2, <1>4, <1>5, <1>6

(* What the step makes of the entries.                                      *)
LEMMA StepEntries ==
  ASSUME SummaryInv, run \in Runs, run # Absent, NEW e, NEW t, Step(e, t)
  PROVE  /\ e.doc \in Docs /\ e.seq \in Nat /\ 1 <= e.seq /\ e.seq <= feed[e.doc].seq
         /\ \A d \in Docs : d # e.doc => t.entries[d] = sum.entries[d]
         /\ t.entries[e.doc] # Absent =>
              t.entries[e.doc].seq = e.seq /\ t.entries[e.doc].config = t.config
         /\ feed[e.doc].seq = e.seq /\ e.doc \in Others =>
              Read(feed, t.entries, e.doc) /\ Configured(feed, t, t.entries, e.doc)
         /\ Dated(feed, t.entries)
<1> SummaryTypeOK
  BY DEF SummaryInv
<1>1. e \in run.todo /\ e.doc \in Docs /\ e.seq \in Nat
  BY StepIs DEF Step, Changes
<1>2. 1 <= e.seq /\ e.seq <= feed[e.doc].seq
  BY <1>1 DEF SummaryInv, DatesPart
<1>3. \A d \in Docs : d # e.doc => t.entries[d] = sum.entries[d]
  <2>1. Touches(sum, t, e.doc)
    BY StepIs
  <2> QED BY <2>1 DEF Touches
<1>4. PICK x : x = [val |-> feed[e.doc].val, seq |-> e.seq, config |-> t.config]
  OBVIOUS
<1>5. /\ e.doc = Setup \/ feed[e.doc].val = Gone => t.entries[e.doc] = Absent
      /\ e.doc # Setup /\ feed[e.doc].val # Gone => t.entries[e.doc] = x
      /\ t \in Summary
  BY <1>4, StepIs
<1>6. x.val = feed[e.doc].val /\ x.seq = e.seq /\ x.config = t.config
  BY <1>4
<1>7. t.entries[e.doc] # Absent => t.entries[e.doc] = x
  BY <1>5
<1>8. feed[e.doc].val # Gone => x \in Entry
  BY <1>1, <1>4, <1>5 DEF Entry, SummaryTypeOK, Feeds, Summary
<1>9. ASSUME feed[e.doc].seq = e.seq, e.doc \in Others
      PROVE  Read(feed, t.entries, e.doc) /\ Configured(feed, t, t.entries, e.doc)
  <2>1. CASE feed[e.doc].val = Gone
    BY <1>5, <2>1 DEF Read, Configured
  <2>2. CASE feed[e.doc].val # Gone
    <3>1. t.entries[e.doc] = x /\ x # Absent
      BY <1>5, <1>8, <1>9, <2>2, AbsentAssumption DEF Others
    <3> QED BY <1>6, <1>9, <2>2, <3>1 DEF Read, Configured
  <2> QED BY <2>1, <2>2
<1>10. Dated(feed, t.entries)
  <2> SUFFICES ASSUME NEW d \in Docs, t.entries[d] # Absent
               PROVE  1 <= t.entries[d].seq /\ t.entries[d].seq <= feed[d].seq
    BY DEF Dated
  <2>1. CASE d = e.doc
    BY <1>2, <1>6, <1>7, <2>1
  <2>2. CASE d # e.doc
    BY <1>3, <2>2 DEF SummaryInv, DatesPart, Dated
  <2> QED BY <2>1, <2>2
<1> QED BY <1>1, <1>2, <1>3, <1>6, <1>7, <1>9, <1>10

(* The rest of the run is in front of it.                                   *)
LEMMA StepKeepsOrder ==
  ASSUME SummaryInv, run \in Runs, run # Absent, NEW e, NEW t, Step(e, t), NEW from \in Nat,
         Ordered(feed, sum, run.todo, from, sv.applied),
         NEW s, s.entries = t.entries, s.cursor = sum.cursor \/ s.cursor = e.seq,
         s.back = sum.back \/ s.back = 0 \/ s.back = e.seq
  PROVE  Ordered(feed, s, run.todo \ {e}, e.seq, sv.applied)
<1>1. /\ from < e.seq
      /\ \A o \in run.todo \ {e} : e.seq < o.seq /\ o.doc # e.doc
  BY StepOrder
<1>2. /\ e.doc \in Docs /\ e.seq \in Nat
      /\ \A d \in Docs : d # e.doc => t.entries[d] = sum.entries[d]
      /\ t.entries[e.doc] # Absent => t.entries[e.doc].seq = e.seq
  BY StepEntries
<1>3. ASSUME NEW d \in Docs, e.seq < feed[d].seq
      PROVE  \/ [doc |-> d, seq |-> feed[d].seq] \in run.todo \ {e}
             \/ New(d, feed, s, run.todo \ {e}, sv.applied)
  <2>1. feed[d].seq \in Nat
    BY FeedAssumption DEF SummaryInv, SummaryTypeOK, Feeds, Times
  <2>2. from < feed[d].seq
    BY <1>1, <1>2, <1>3, <2>1
  <2>3. CASE [doc |-> d, seq |-> feed[d].seq] \in run.todo
    <3>1. PICK o : o = [doc |-> d, seq |-> feed[d].seq]
      OBVIOUS
    <3>2. o \in run.todo /\ o.seq = feed[d].seq
      BY <2>3, <3>1
    <3>3. o # e
      BY <1>2, <1>3, <2>1, <3>2
    <3> QED BY <3>1, <3>2, <3>3
  <2>4. CASE New(d, feed, sum, run.todo, sv.applied)
    <3>1. s.cursor < feed[d].seq /\ s.back < feed[d].seq
      BY <1>2, <1>3, <2>1, <2>4 DEF New
    <3>2. ASSUME NEW x \in Docs, s.entries[x] # Absent
          PROVE  s.entries[x].seq < feed[d].seq
      BY <1>2, <1>3, <2>4, <3>2 DEF New
    <3> QED BY <2>4, <3>1, <3>2 DEF New
  <2> QED BY <2>2, <2>3, <2>4 DEF Ordered
<1>4. \A o, q \in run.todo : o.doc = q.doc \/ o.seq = q.seq => o = q
  BY DEF Ordered
<1> QED BY <1>1, <1>3, <1>4 DEF Ordered

(* EntryMaps up to n stay read, if the order says that a changed document     *)
(* comes after n.                                                           *)
LEMMA StepKeepsRead ==
  ASSUME SummaryInv, run \in Runs, run # Absent, NEW e, NEW t, Step(e, t), NEW n \in Nat,
         ReadTo(feed, sum.entries, n),
         feed[e.doc].seq = e.seq \/ n < feed[e.doc].seq
  PROVE  ReadTo(feed, t.entries, n)
<1> SUFFICES ASSUME NEW d \in Others, feed[d].seq <= n PROVE Read(feed, t.entries, d)
  BY DEF ReadTo
<1>1. CASE d = e.doc
  <2>1. feed[d].seq \in Nat
    BY FeedAssumption DEF SummaryInv, SummaryTypeOK, Feeds, Times, Others
  <2>2. feed[e.doc].seq = e.seq
    BY <1>1, <2>1
  <2> QED BY <1>1, <2>2, StepEntries
<1>2. CASE d # e.doc
  <2>1. t.entries[d] = sum.entries[d]
    BY <1>2, StepEntries DEF Others
  <2> QED BY <2>1 DEF ReadTo, Read
<1> QED BY <1>1, <1>2

LEMMA StepProcess ==
  ASSUME SummaryInv, Process
  PROVE  SummaryInv'
<1> SummaryTypeOK
  BY DEF SummaryInv
<1>1. run \in Runs /\ run # Absent /\ UNCHANGED <<feed, out, disk, sv, limit>>
  BY ProcessIs DEF Process
<1>2. PICK e, t : Step(e, t)
  BY ProcessIs
<1>3. /\ e.doc \in Docs /\ e.seq \in Nat /\ 1 <= e.seq /\ e.seq <= feed[e.doc].seq
      /\ \A d \in Docs : d # e.doc => t.entries[d] = sum.entries[d]
      /\ t.entries[e.doc] # Absent => t.entries[e.doc].seq = e.seq
      /\ feed[e.doc].seq = e.seq /\ e.doc \in Others =>
           Read(feed, t.entries, e.doc) /\ Configured(feed, t, t.entries, e.doc)
      /\ Dated(feed, t.entries)
  BY <1>1, <1>2, StepEntries
<1>4. /\ SameBut(sum, t) /\ Touches(sum, t, e.doc)
      /\ e.doc # Setup => SameExtraction(sum, t)
      /\ SameExtraction(sum, t) \/ Reconfigured(sum, t)
  BY <1>1, <1>2, StepIs
<1>5. /\ sum'.entries = t.entries /\ sum'.dirty = t.dirty /\ sum'.config = t.config
      /\ sum'.backfill = t.backfill /\ sum'.restored = sum.restored
      /\ run.phase = "main" => sum'.cursor = e.seq /\ sum'.back = t.back
      /\ run.phase # "main" => sum'.back = e.seq /\ sum'.cursor = sum.cursor
  <2>1. /\ sum'.entries = t.entries /\ sum'.dirty = t.dirty /\ sum'.config = t.config
        /\ sum'.backfill = t.backfill /\ sum'.restored = t.restored
        /\ run.phase = "main" => sum'.cursor = e.seq /\ sum'.back = t.back
        /\ run.phase # "main" => sum'.back = e.seq /\ sum'.cursor = t.cursor
    BY <1>1, <1>2, StepSets
  <2>2. t.restored = sum.restored /\ t.cursor = sum.cursor
    BY <1>4 DEF SameBut
  <2> QED BY <2>1, <2>2
<1>6. /\ run' \in Runs /\ run'.phase = run.phase /\ run'.todo = run.todo \ {e}
      /\ skew'.disk = skew.disk /\ skew'.view = skew.view
      /\ ~skew'.mem => ~skew.mem /\ (run.phase = "back" => t.config = sum.config)
  BY <1>1, <1>2, StepIs
<1>7. SummaryTypeOK' /\ sv.phase = "wait"
  BY <1>1, TypesProcess DEF SummaryInv, Begun
<1>8. \A d \in Docs : feed[d].seq \in Nat
  BY FeedAssumption DEF SummaryTypeOK, Feeds, Times
<1>9. sum.cursor \in Nat /\ sum.back \in Nat /\ sv.applied \in Nat
  BY DiskTyped
<1>10. t.back = sum.back \/ t.back = 0
  BY <1>4 DEF SameExtraction, Reconfigured
<1>11. run.phase \in {"main", "back"}
  <2>1. run.todo = {} \/ run.phase \in {"main", "back"}
    BY <1>1 DEF SummaryInv, Begun, Runs
  <2> QED BY <1>2, <2>1 DEF Step
<1>12. sum.restored
  BY <1>1, <1>11 DEF SummaryInv, Begun
<1>13. DatesPart'
  <2>1. Past(feed, e.seq)
    BY <1>3 DEF Past
  <2>2. Past(feed, sum'.cursor) /\ Past(feed, sum'.back)
    BY <1>5, <1>10, <2>1, ZeroIsPast DEF SummaryInv, DatesPart
  <2>3. \A o \in run'.todo : 1 <= o.seq /\ o.seq <= feed[o.doc].seq
    BY <1>1, <1>6 DEF SummaryInv, DatesPart
  <2> QED BY <1>1, <1>3, <1>5, <2>2, <2>3, KeepsDates
<1>14. Begun'
  BY <1>1, <1>5, <1>6, <1>7, <1>11, <1>12 DEF Begun
<1>15. OutPart'
  BY <1>1, <1>5, <1>6, KeepsOut
<1>16. DiskPart'
  <2>1. disk.meta # Absent /\ disk.meta.cursor <= sum.cursor => disk.meta.cursor <= sum'.cursor
    <3>1. CASE run.phase = "main"
      <4>1. sum.cursor < e.seq
        BY <1>1, <1>2, <1>9, <3>1, StepOrder DEF SummaryInv, RunPart
      <4> QED BY <1>3, <1>5, <1>9, <3>1, <4>1, DiskTyped
    <3>2. CASE run.phase # "main"
      BY <1>5, <3>2
    <3> QED BY <3>1, <3>2
  <2>2. \A d \in Docs : BucketOf[d] \notin sum'.dirty =>
          BucketOf[d] \notin sum.dirty /\ sum'.entries[d] = sum.entries[d]
    BY <1>4, <1>5 DEF Touches
  <2> QED BY <1>1, <1>5, <1>6, <2>1, <2>2, KeepsDisk
<1>17. CASE run.phase = "main"
  <2>1. Ordered(feed, sum, run.todo, sum.cursor, sv.applied)
    BY <1>1, <1>17 DEF SummaryInv, RunPart
  <2>2. /\ sum.cursor < e.seq
        /\ \A d \in Docs : sum.cursor < feed[d].seq /\ feed[d].seq <= e.seq =>
                           d = e.doc /\ feed[d].seq = e.seq
        /\ feed[e.doc].seq = e.seq \/ New(e.doc, feed, sum, run.todo, sv.applied)
    BY <1>1, <1>2, <1>9, <2>1, StepOrder
  <2>3. RunPart'
    <3>1. Ordered(feed, sum', run.todo \ {e}, e.seq, sv.applied)
      BY <1>1, <1>2, <1>5, <1>9, <1>10, <1>17, <2>1, StepKeepsOrder
    <3> QED BY <1>1, <1>5, <1>6, <1>17, <3>1 DEF RunPart
  <2>4. MemPart'
    <3> SUFFICES ASSUME ~skew'.mem, NEW d \in Others, feed[d].seq <= e.seq
                 PROVE  Read(feed, t.entries, d) /\ Configured(feed, t, t.entries, d)
      BY <1>1, <1>5, <1>17 DEF MemPart, Complete, Configured
    <3>1. CASE d = e.doc
      <4>1. feed[d].seq = e.seq
        BY <1>3, <1>8, <3>1
      <4> QED BY <1>3, <3>1, <4>1
    <3>2. CASE d # e.doc
      <4>1. d \in Docs /\ t.entries[d] = sum.entries[d] /\ feed[d].seq <= sum.cursor
        BY <1>3, <1>8, <1>9, <2>2, <3>2 DEF Others
      <4>2. Read(feed, sum.entries, d) /\ Configured(feed, sum, sum.entries, d)
        BY <1>6, <1>12, <4>1 DEF SummaryInv, MemPart, Complete
      <4>3. Read(feed, t.entries, d)
        BY <4>1, <4>2 DEF Read
      <4>4. CASE SameExtraction(sum, t)
        BY <4>1, <4>2, <4>3, <4>4 DEF Configured, SameExtraction
      <4>5. CASE Reconfigured(sum, t)
        <5>1. ASSUME sum.entries[d] # Absent
              PROVE  t.backfill = TRUE /\ t.back = 0 /\ feed[d].seq > 0
          BY <4>1, <4>5, <5>1, NothingSummarized, EntryDates DEF Reconfigured
        <5> QED BY <4>1, <4>3, <5>1 DEF Configured
      <4> QED BY <1>4, <4>4, <4>5
    <3> QED BY <3>1, <3>2
  <2>5. ViewPart'
    <3> SUFFICES ASSUME ~skew'.mem, ~skew.view
                 PROVE  ReadTo(feed, t.entries, sv.applied)
      BY <1>1, <1>5, <1>6, <1>7 DEF SummaryInv, ViewPart
    <3>1. feed[e.doc].seq = e.seq \/ sv.applied < feed[e.doc].seq
      BY <2>2 DEF New
    <3>2. ReadTo(feed, sum.entries, sv.applied)
      BY <1>6 DEF SummaryInv, ViewPart
    <3> QED BY <1>1, <1>2, <1>9, <3>1, <3>2, StepKeepsRead
  <2> QED BY <1>7, <1>13, <1>14, <1>15, <1>16, <2>3, <2>4, <2>5 DEF SummaryInv
<1>18. CASE run.phase = "back"
  <2> SUFFICES ASSUME ~skew'.mem
               PROVE  RunPart' /\ MemPart' /\ ViewPart'
    BY <1>6, <1>7, <1>13, <1>14, <1>15, <1>16, <1>18 DEF SummaryInv, RunPart, MemPart, ViewPart
  <2>1. /\ Ordered(feed, sum, run.todo, sum.back, sv.applied)
        /\ ReadTo(feed, sum.entries, sum.back) /\ NoneAhead(feed, sum.entries)
    BY <1>1, <1>6, <1>18 DEF SummaryInv, RunPart
  <2>2. /\ sum.back < e.seq
        /\ \A d \in Docs : sum.back < feed[d].seq /\ feed[d].seq <= e.seq =>
                           d = e.doc /\ feed[d].seq = e.seq
        /\ feed[e.doc].seq = e.seq \/ New(e.doc, feed, sum, run.todo, sv.applied)
    BY <1>1, <1>2, <1>9, <2>1, StepOrder
  <2>3. SameExtraction(sum, t)
    BY <1>4, <1>6, <1>18 DEF Reconfigured
  <2>4. ReadTo(feed, t.entries, e.seq)
    <3> SUFFICES ASSUME NEW d \in Others, feed[d].seq <= e.seq
                 PROVE  Read(feed, t.entries, d)
      BY DEF ReadTo
    <3>1. CASE d = e.doc
      <4>1. feed[d].seq = e.seq
        BY <1>3, <1>8, <3>1
      <4> QED BY <1>3, <3>1, <4>1
    <3>2. CASE d # e.doc
      <4>1. d \in Docs /\ t.entries[d] = sum.entries[d] /\ feed[d].seq <= sum.back
        BY <1>3, <1>8, <1>9, <2>2, <3>2 DEF Others
      <4> QED BY <2>1, <4>1 DEF ReadTo, Read
    <3> QED BY <3>1, <3>2
  <2>5. NoneAhead(feed, t.entries)
    <3> SUFFICES ASSUME NEW x \in Docs, t.entries[x] # Absent
                 PROVE  ReadTo(feed, t.entries, t.entries[x].seq)
      BY DEF NoneAhead
    <3>1. CASE x = e.doc
      BY <1>3, <2>4, <3>1
    <3>2. CASE x # e.doc
      <4>1. t.entries[x] = sum.entries[x]
        BY <1>3, <3>2
      <4>2. sum.entries[x].seq \in Nat /\ ReadTo(feed, sum.entries, sum.entries[x].seq)
        BY <2>1, <4>1, EntryDates DEF NoneAhead
      <4>3. feed[e.doc].seq = e.seq \/ sum.entries[x].seq < feed[e.doc].seq
        BY <2>2, <4>1 DEF New
      <4> QED BY <1>1, <1>2, <4>1, <4>2, <4>3, StepKeepsRead
    <3> QED BY <3>1, <3>2
  <2>6. RunPart'
    <3>1. Ordered(feed, sum', run.todo \ {e}, e.seq, sv.applied)
      BY <1>1, <1>2, <1>5, <1>9, <1>18, <2>1, StepKeepsOrder
    <3> QED BY <1>1, <1>5, <1>6, <1>18, <2>4, <2>5, <3>1 DEF RunPart
  <2>7. MemPart'
    <3> SUFFICES ASSUME NEW d \in Others, feed[d].seq <= sum.cursor
                 PROVE  /\ Read(feed, t.entries, d)
                        /\ t.entries[d] # Absent =>
                             t.entries[d].config = t.config \/ (t.backfill /\ feed[d].seq > e.seq)
      BY <1>1, <1>5, <1>18 DEF MemPart, Complete, Configured
    <3>1. CASE d = e.doc
      <4>1. feed[d].seq = e.seq
        BY <1>3, <1>8, <1>9, <2>2, <3>1 DEF New
      <4>2. Read(feed, t.entries, d) /\ Configured(feed, t, t.entries, d)
        BY <1>3, <3>1, <4>1
      <4>3. t.entries[d] # Absent => t.entries[d].config = t.config
        BY <1>1, <1>2, <3>1, StepEntries
      <4> QED BY <4>2, <4>3
    <3>2. CASE d # e.doc
      <4>1. d \in Docs /\ t.entries[d] = sum.entries[d]
        BY <1>3, <3>2 DEF Others
      <4>2. Read(feed, sum.entries, d) /\ Configured(feed, sum, sum.entries, d)
        BY <1>6, <1>12 DEF SummaryInv, MemPart, Complete
      <4>3. feed[d].seq > sum.back => feed[d].seq > e.seq
        BY <1>3, <1>8, <1>9, <2>2, <3>2, <4>1
      <4> QED BY <2>3, <4>1, <4>2, <4>3 DEF Configured, Read, SameExtraction
    <3> QED BY <3>1, <3>2
  <2>8. ViewPart'
    <3> SUFFICES ASSUME ~skew.view
                 PROVE  ReadTo(feed, t.entries, sv.applied)
      BY <1>1, <1>5, <1>6, <1>7 DEF SummaryInv, ViewPart
    <3>1. feed[e.doc].seq = e.seq \/ sv.applied < feed[e.doc].seq
      BY <2>2 DEF New
    <3>2. ReadTo(feed, sum.entries, sv.applied)
      BY <1>6 DEF SummaryInv, ViewPart
    <3> QED BY <1>1, <1>2, <1>9, <3>1, <3>2, StepKeepsRead
  <2> QED BY <2>6, <2>7, <2>8
<1> QED BY <1>11, <1>17, <1>18

(* When the feed is read, only new documents lie after the cursor.          *)
LEMMA FeedReadIs ==
  ASSUME SummaryInv, run # Absent, run.phase = "main", run.todo = {}, ~skew.mem
  PROVE  ReadTo(feed, sum.entries, sum.back) /\ NoneAhead(feed, sum.entries)
<1> SummaryTypeOK
  BY DEF SummaryInv
<1>1. sum.cursor \in Nat /\ sum.back \in Nat /\ \A d \in Docs : feed[d].seq \in Nat
  BY DiskTyped, FeedAssumption DEF SummaryTypeOK, Feeds, Times
<1>2. Complete(feed, sum, sum.entries)
  BY DEF SummaryInv, Begun, MemPart
<1>3. Ordered(feed, sum, run.todo, sum.cursor, sv.applied)
  BY DEF SummaryInv, RunPart
<1>4. ASSUME NEW d \in Docs, sum.cursor < feed[d].seq
      PROVE  New(d, feed, sum, run.todo, sv.applied)
  BY <1>3, <1>4 DEF Ordered
<1>5. ASSUME NEW n \in Nat, NEW d \in Others, feed[d].seq <= n,
             n = sum.back \/ \E x \in Docs : sum.entries[x] # Absent /\ n = sum.entries[x].seq
      PROVE  Read(feed, sum.entries, d)
  <2>1. ~New(d, feed, sum, run.todo, sv.applied)
    BY <1>1, <1>5 DEF New, Others
  <2>2. feed[d].seq <= sum.cursor
    BY <1>1, <1>4, <2>1 DEF Others
  <2> QED BY <1>2, <2>2 DEF Complete
<1>6. ReadTo(feed, sum.entries, sum.back)
  BY <1>1, <1>5 DEF ReadTo
<1>7. ASSUME NEW x \in Docs, sum.entries[x] # Absent
      PROVE  ReadTo(feed, sum.entries, sum.entries[x].seq)
  <2>1. sum.entries[x].seq \in Nat
    BY <1>7, EntryDates
  <2> QED BY <1>5, <1>7, <2>1 DEF ReadTo
<1> QED BY <1>6, <1>7 DEF NoneAhead

(* When the backfill is over, every entry has the configuration.            *)
LEMMA BackfillIs ==
  ASSUME SummaryInv, run # Absent, run.phase = "back", run.todo = {}, ~skew.mem,
         NEW d \in Others, feed[d].seq <= sum.cursor
  PROVE  /\ Read(feed, sum.entries, d)
         /\ sum.entries[d] # Absent => sum.entries[d].config = sum.config
<1>1. Read(feed, sum.entries, d) /\ Configured(feed, sum, sum.entries, d)
  BY DEF SummaryInv, Begun, MemPart, Complete
<1>2. ASSUME feed[d].seq > sum.back
      PROVE  FALSE
  <2>1. sum.cursor \in Nat /\ sum.back \in Nat /\ feed[d].seq \in Nat
    BY DiskTyped, FeedAssumption DEF SummaryInv, SummaryTypeOK, Feeds, Times, Others
  <2>2. Ordered(feed, sum, run.todo, sum.back, sv.applied)
    BY DEF SummaryInv, RunPart
  <2>3. New(d, feed, sum, run.todo, sv.applied)
    BY <1>2, <2>1, <2>2 DEF Ordered, Others
  <2> QED BY <2>1, <2>3 DEF New
<1> QED BY <1>1, <1>2 DEF Configured

(* A run that ends, or is given up: the view goes on if it may.             *)
LEMMA StepEnds ==
  ASSUME SummaryInv, SummaryTypeOK', UNCHANGED <<feed, sum, out, disk>>, run # Absent, run' = Absent,
         skew'.disk = skew.disk, skew'.mem = skew.mem, ~skew'.view => ~skew.view,
         sv'.applied = sv.applied, sv'.shown = sv.shown,
         sv'.phase = "ready" => sum.restored,
         sv'.phase = "ready" /\ ~skew.mem /\ ~skew'.view => NoneAhead(feed, sum.entries)
  PROVE  SummaryInv'
<1>1. DatesPart'
  BY KeepsDates DEF SummaryInv, DatesPart
<1>2. Begun'
  BY DEF SummaryInv, Begun
<1>3. RunPart' /\ MemPart'
  BY DEF SummaryInv, RunPart, MemPart
<1>4. ViewPart'
  BY DEF SummaryInv, ViewPart
<1>5. OutPart' /\ DiskPart'
  BY KeepsOut, KeepsDisk
<1> QED BY <1>1, <1>2, <1>3, <1>4, <1>5 DEF SummaryInv

LEMMA StepFeedRead ==
  ASSUME SummaryInv, FeedRead
  PROVE  SummaryInv'
<1> SummaryTypeOK
  BY DEF SummaryInv
<1>1. SummaryTypeOK' /\ UNCHANGED <<feed, sum, out, disk, limit, skew>>
  BY TypesEnds DEF FeedRead
<1>2. run # Absent /\ run.phase = "main" /\ run.todo = {} /\ sum.restored
  BY DEF FeedRead, SummaryInv, Begun
<1>3. ~skew.mem => ReadTo(feed, sum.entries, sum.back) /\ NoneAhead(feed, sum.entries)
  BY <1>2, FeedReadIs
<1>4. CASE sum.backfill
  <2>1. run' = [phase |-> "back", todo |-> ChangesSince(feed, sum.back)] /\ sv' = sv
    BY <1>4 DEF FeedRead
  <2>2. run'.phase = "back" /\ run'.todo = ChangesSince(feed, sum.back)
    BY <2>1
  <2>3. /\ Ordered(feed, sum, run'.todo, sum.back, sv.applied)
        /\ \A e \in run'.todo : 1 <= e.seq /\ e.seq <= feed[e.doc].seq
    BY <2>2, ChangesOrdered, DiskTyped DEF SummaryInv, DatesPart
  <2>4. DatesPart'
    BY <1>1, <2>1, <2>3, KeepsDates DEF SummaryInv, DatesPart
  <2>5. Begun'
    BY <1>1, <1>2, <2>1, <2>2 DEF SummaryInv, Begun
  <2>6. RunPart'
    BY <1>1, <1>3, <2>1, <2>2, <2>3 DEF RunPart
  <2>7. MemPart' /\ ViewPart'
    BY <1>1, <2>1 DEF SummaryInv, MemPart, ViewPart
  <2>8. OutPart' /\ DiskPart'
    BY <1>1, KeepsOut, KeepsDisk
  <2> QED BY <1>1, <2>4, <2>5, <2>6, <2>7, <2>8 DEF SummaryInv
<1>5. CASE ~sum.backfill
  <2>1. run' = Absent /\ sv' = [sv EXCEPT !.phase = "ready"]
    BY <1>5 DEF FeedRead, End
  <2>2. sv'.applied = sv.applied /\ sv'.shown = sv.shown
    BY <2>1 DEF SummaryTypeOK, Views
  <2> QED BY <1>1, <1>2, <1>3, <2>1, <2>2, StepEnds
<1> QED BY <1>4, <1>5

LEMMA StepBackfillDone ==
  ASSUME SummaryInv, BackfillDone
  PROVE  SummaryInv'
<1> SummaryTypeOK
  BY DEF SummaryInv
<1>1. SummaryTypeOK' /\ UNCHANGED <<feed, out, disk, limit, skew>>
  BY TypesEnds DEF BackfillDone
<1>2. run # Absent /\ run.phase = "back" /\ run.todo = {} /\ sum.restored
  BY DEF BackfillDone, SummaryInv, Begun
<1>3. /\ sum'.entries = sum.entries /\ sum'.cursor = sum.cursor /\ sum'.config = sum.config
      /\ sum'.dirty = sum.dirty /\ sum'.restored = sum.restored /\ sum'.backfill = FALSE /\ sum'.back = 0
  BY DEF BackfillDone, SummaryTypeOK, Summary
<1>4. run' = Absent /\ sv'.phase = "ready" /\ sv'.applied = sv.applied /\ sv'.shown = sv.shown
  BY DEF BackfillDone, End, SummaryTypeOK, Views
<1>5. DatesPart'
  BY <1>1, <1>3, <1>4, ZeroIsPast, KeepsDates DEF SummaryInv, DatesPart
<1>6. Begun'
  BY <1>1, <1>2, <1>3, <1>4 DEF SummaryInv, Begun
<1>7. RunPart'
  BY <1>4 DEF RunPart
<1>8. MemPart'
  BY <1>1, <1>2, <1>3, BackfillIs DEF MemPart, Complete, Configured
<1>9. ViewPart'
  BY <1>1, <1>2, <1>3, <1>4 DEF SummaryInv, RunPart, ViewPart
<1>10. OutPart' /\ DiskPart'
  BY <1>1, <1>3, KeepsOut, KeepsDisk
<1> QED BY <1>1, <1>5, <1>6, <1>7, <1>8, <1>9, <1>10 DEF SummaryInv

LEMMA StepInterrupt ==
  ASSUME SummaryInv, Interrupt
  PROVE  SummaryInv'
<1> SummaryTypeOK
  BY DEF SummaryInv
<1>1. SummaryTypeOK' /\ UNCHANGED <<feed, sum, out, disk>>
  BY TypesEnds DEF Interrupt
<1>2. run # Absent /\ run.phase \in {"main", "back"} /\ sum.restored
  BY DEF Interrupt, SummaryInv, Begun
<1>3. run' = Absent /\ sv'.applied = sv.applied /\ sv'.shown = sv.shown
  BY DEF Interrupt, End, SummaryTypeOK, Views
<1>4. /\ skew'.disk = skew.disk /\ skew'.mem = skew.mem /\ (~skew'.view => ~skew.view)
      /\ run.phase = "main" /\ ~skew'.view => ~Ahead
  BY DEF Interrupt, SummaryTypeOK
<1>5. ASSUME ~skew.mem, ~skew'.view
      PROVE  NoneAhead(feed, sum.entries)
  <2>1. CASE run.phase = "main"
    <3> SUFFICES ASSUME NEW x \in Docs, sum.entries[x] # Absent, NEW d \in Others,
                        feed[d].seq <= sum.entries[x].seq
                 PROVE  Read(feed, sum.entries, d)
      BY DEF NoneAhead, ReadTo
    <3>1. ~(sum.entries[x].seq > sum.cursor)
      BY <1>4, <1>5, <2>1 DEF Ahead
    <3>2. sum.entries[x].seq \in Nat /\ sum.cursor \in Nat /\ feed[d].seq \in Nat
      BY EntryDates, DiskTyped, FeedAssumption DEF SummaryTypeOK, Feeds, Times, Others
    <3>3. feed[d].seq <= sum.cursor
      BY <3>1, <3>2
    <3> QED BY <1>2, <1>5, <3>3 DEF SummaryInv, MemPart, Complete
  <2>2. CASE run.phase = "back"
    BY <1>2, <1>5, <2>2 DEF SummaryInv, RunPart
  <2> QED BY <1>2, <2>1, <2>2
<1> QED BY <1>1, <1>2, <1>3, <1>4, <1>5, StepEnds

LEMMA StepFails ==
  ASSUME SummaryInv, UpdateFails
  PROVE  SummaryInv'
<1> SummaryTypeOK
  BY DEF SummaryInv
<1>1. SummaryTypeOK' /\ UNCHANGED <<feed, sum, out, disk, skew>>
  BY TypesEnds DEF UpdateFails
<1>2. run # Absent /\ run' = Absent /\ sv'.phase = "idle" /\ sv'.applied = sv.applied /\ sv'.shown = sv.shown
  BY DEF UpdateFails, SummaryTypeOK, Views
<1> QED BY <1>1, <1>2, StepEnds

(* A document that is gone takes its entry with it.                         *)
LEMMA StepRemove ==
  ASSUME SummaryInv, NEW d \in Docs, RemoveDocument(d)
  PROVE  SummaryInv'
<1> SummaryTypeOK /\ sum \in Summary
  BY DEF SummaryInv, SummaryTypeOK
<1>1. SummaryTypeOK' /\ UNCHANGED <<feed, run, out, disk, sv, limit, skew>>
  BY TypesRemove DEF RemoveDocument
<1>2. feed[d].val = Gone /\ sum.entries[d] # Absent /\ sum' = Drop(sum, d)
  BY DEF RemoveDocument
<1>3. SameBut(sum, sum') /\ SameExtraction(sum, sum') /\ Touches(sum, sum', d) /\ sum'.entries[d] = Absent
  BY <1>2, DropIs
<1>4. /\ sum'.cursor = sum.cursor /\ sum'.restored = sum.restored /\ sum'.back = sum.back
      /\ sum'.config = sum.config /\ sum'.backfill = sum.backfill
      /\ \A x \in Docs : x # d => sum'.entries[x] = sum.entries[x]
  BY <1>3 DEF SameBut, SameExtraction, Touches
<1>5. sum.restored
  BY <1>2, NothingSummarized DEF SummaryInv, Begun
<1>6. \A x \in Docs : sum'.entries[x] = sum.entries[x] \/ (sum'.entries[x] = Absent /\ feed[x].val = Gone)
  BY <1>2, <1>3, <1>4
<1>7. \A x \in Docs : Read(feed, sum.entries, x) => Read(feed, sum'.entries, x)
  BY <1>6 DEF Read
<1>8. \A n : ReadTo(feed, sum.entries, n) => ReadTo(feed, sum'.entries, n)
  BY <1>7 DEF ReadTo, Others
<1>9. NoneAhead(feed, sum.entries) => NoneAhead(feed, sum'.entries)
  BY <1>6, <1>8 DEF NoneAhead
<1>10. DatesPart'
  <2>1. Dated(feed, sum'.entries)
    BY <1>6 DEF SummaryInv, DatesPart, Dated
  <2> QED BY <1>1, <1>4, <2>1, KeepsDates DEF SummaryInv, DatesPart
<1>11. Begun'
  BY <1>1, <1>4, <1>5 DEF SummaryInv, Begun
<1>12. RunPart'
  <2>1. ASSUME NEW todo, NEW from, NEW n, Ordered(feed, sum, todo, from, n)
        PROVE  Ordered(feed, sum', todo, from, n)
    BY <1>4, <1>6, <2>1 DEF Ordered, New
  <2> QED BY <1>1, <1>4, <1>8, <1>9, <2>1 DEF SummaryInv, RunPart
<1>13. MemPart'
  <2>1. \A x \in Docs : Configured(feed, sum, sum.entries, x) => Configured(feed, sum', sum'.entries, x)
    BY <1>4, <1>6 DEF Configured
  <2> QED BY <1>1, <1>4, <1>7, <2>1 DEF SummaryInv, MemPart, Complete, Others
<1>14. ViewPart'
  BY <1>1, <1>8, <1>9 DEF SummaryInv, ViewPart
<1>15. OutPart'
  BY <1>1, <1>4, KeepsOut
<1>16. DiskPart'
  <2>1. \A x \in Docs : BucketOf[x] \notin sum'.dirty =>
          BucketOf[x] \notin sum.dirty /\ sum'.entries[x] = sum.entries[x]
    BY <1>3 DEF Touches
  <2> QED BY <1>1, <1>4, <2>1, KeepsDisk
<1> QED BY <1>1, <1>10, <1>11, <1>12, <1>13, <1>14, <1>15, <1>16 DEF SummaryInv

-----------------------------------------------------------------------------
(* The flush                                                               *)

LEMMA StepStartFlush ==
  ASSUME SummaryInv, StartFlush
  PROVE  SummaryInv'
<1> SummaryTypeOK
  BY DEF SummaryInv
<1>1. SummaryTypeOK' /\ UNCHANGED <<feed, sum, run, disk, sv, skew>> /\ out = Absent
  BY TypesStartFlush DEF StartFlush
<1>2. PICK c : c = Content(sum)
  OBVIOUS
<1>3. out' = [buckets |-> sum.dirty, start |-> c, done |-> {}, meta |-> FALSE]
  BY <1>2 DEF StartFlush
<1>4. out'.buckets = sum.dirty /\ out'.start = c /\ out'.done = {} /\ out'.meta = FALSE
  BY <1>3
<1>5. /\ c.entries = sum.entries /\ c.cursor = sum.cursor /\ c.config = sum.config
      /\ c.backfill = sum.backfill /\ c.back = sum.back
  BY <1>2 DEF Content
<1>6. DatesPart'
  BY <1>1, <1>4, <1>5 DEF SummaryInv, DatesPart
<1>7. Begun'
  BY <1>1, <1>4 DEF SummaryInv, Begun
<1>8. RunPart' /\ MemPart' /\ ViewPart'
  BY <1>1 DEF SummaryInv, RunPart, MemPart, ViewPart
<1>9. OutPart'
  <2>1. ASSUME sum.restored, ~skew.mem
        PROVE  Complete(feed, c, c.entries)
    BY <1>5, <2>1 DEF SummaryInv, MemPart, Complete, Configured
  <2>2. sum.dirty # {} => sum.restored
    BY DEF SummaryInv, Begun
  <2>3. disk.meta # Absent /\ ~skew.disk /\ sum.restored => disk.meta.cursor <= c.cursor
    BY <1>5 DEF SummaryInv, DiskPart
  <2> QED BY <1>1, <1>4, <2>1, <2>2, <2>3 DEF OutPart
<1>10. DiskPart'
  <2>1. ~Torn
    BY <1>1 DEF Torn
  <2> QED BY <1>1, <2>1 DEF SummaryInv, DiskPart
<1> QED BY <1>1, <1>6, <1>7, <1>8, <1>9, <1>10 DEF SummaryInv

(* The state of extraction that a meta record speaks of.                    *)
LEMMA SameState ==
  ASSUME NEW m \in Meta, NEW s \in Contents,
         [m EXCEPT !.cursor = 0] = [MetaRecord(s) EXCEPT !.cursor = 0]
  PROVE  m.config = s.config /\ m.backfill = s.backfill /\ m.back = s.back
<1>1. PICK u : u = [m EXCEPT !.cursor = 0]
  OBVIOUS
<1>2. u.config = m.config /\ u.backfill = m.backfill /\ u.back = m.back
  BY <1>1 DEF Meta
<1>3. u = [[cursor |-> s.cursor, config |-> s.config, backfill |-> s.backfill, back |-> s.back]
             EXCEPT !.cursor = 0]
  BY <1>1 DEF MetaRecord
<1>4. u.config = s.config /\ u.backfill = s.backfill /\ u.back = s.back
  BY <1>3
<1> QED BY <1>2, <1>4

LEMMA StepPutBucket ==
  ASSUME SummaryInv, PutBucket
  PROVE  SummaryInv'
<1> SummaryTypeOK
  BY DEF SummaryInv
<1>1. SummaryTypeOK' /\ UNCHANGED <<feed, sum, run, sv, limit>>
  BY TypesPutBucket DEF PutBucket
<1>2. PICK b \in sum.dirty \ out.done :
           /\ out \in Flushes /\ out # Absent /\ b \in Buckets /\ ~out.meta /\ out.buckets # {}
           /\ disk' \in Disks /\ disk'.meta = disk.meta
           /\ \A d \in Docs : OnDisk(disk')[d] = IF BucketOf[d] # b THEN OnDisk(disk)[d]
                                                ELSE IF b \in out.buckets THEN out.start.entries[d]
                                                ELSE Absent
           /\ out' \in Flushes /\ out'.done = out.done \cup {b} /\ out'.start = out.start
           /\ out'.meta = out.meta /\ out'.buckets = out.buckets
           /\ skew' \in [mem : BOOLEAN, disk : BOOLEAN, view : BOOLEAN]
           /\ skew'.mem = skew.mem /\ skew'.view = skew.view
           /\ ~skew'.disk => ~skew.disk /\ b \in out.buckets
  BY PutBucketIs
<1>3. sum.restored
  BY <1>2 DEF SummaryInv, OutPart
<1>4. DatesPart'
  <2>1. Dated(feed, OnDisk(disk'))
    BY <1>2 DEF SummaryInv, DatesPart, Dated
  <2> QED BY <1>1, <1>2, <2>1 DEF SummaryInv, DatesPart
<1>5. Begun'
  BY <1>1, <1>3 DEF SummaryInv, Begun
<1>6. RunPart' /\ MemPart' /\ ViewPart'
  BY <1>1, <1>2 DEF SummaryInv, RunPart, MemPart, ViewPart
<1>7. OutPart'
  <2>1. ASSUME ~skew'.disk, NEW d \in Docs, BucketOf[d] \in out.done \cup {b}
        PROVE  OnDisk(disk')[d] = out.start.entries[d]
    BY <1>2, <2>1 DEF SummaryInv, OutPart
  <2> QED BY <1>1, <1>2, <1>3, <2>1 DEF SummaryInv, OutPart
<1>8. DiskPart'
  <2> SUFFICES ASSUME ~skew'.disk
               PROVE  /\ ~Torn' => IF disk.meta = Absent THEN OnDisk(disk') = NoEntries
                                   ELSE Complete(feed, disk.meta, OnDisk(disk'))
                      /\ \A d \in Docs : BucketOf[d] \notin sum.dirty => OnDisk(disk')[d] = sum.entries[d]
                      /\ disk.meta # Absent => disk.meta.cursor <= sum.cursor
    BY <1>1, <1>2 DEF DiskPart
  <2>1. ~skew.disk /\ b \in out.buckets
    BY <1>2
  <2>2. \A d \in Docs : BucketOf[d] \notin sum.dirty => OnDisk(disk')[d] = sum.entries[d]
    BY <1>2, <1>3, <2>1 DEF SummaryInv, DiskPart
  <2>3. disk.meta # Absent => disk.meta.cursor <= sum.cursor
    BY <1>3, <2>1 DEF SummaryInv, DiskPart
  <2>4. ASSUME ~Torn'
        PROVE  disk.meta # Absent /\ Complete(feed, disk.meta, OnDisk(disk'))
    <3>1. out' # Absent
      BY <1>2, AbsentAssumption
    <3>2. /\ disk.meta # Absent /\ ~skew.mem
          /\ [disk.meta EXCEPT !.cursor = 0] = [MetaRecord(out.start) EXCEPT !.cursor = 0]
      BY <1>2, <2>4, <3>1 DEF Torn
    <3>3. disk.meta \in Meta /\ out.start \in Contents
      BY <1>2, <3>2, DiskTyped DEF Flushes
    <3>4. /\ disk.meta.config = out.start.config /\ disk.meta.backfill = out.start.backfill
          /\ disk.meta.back = out.start.back
      BY <3>2, <3>3, SameState
    <3>5. Complete(feed, disk.meta, OnDisk(disk))
      <4>1. ~Torn
        BY <1>2, <3>2 DEF Torn
      <4> QED BY <2>1, <3>2, <4>1 DEF SummaryInv, DiskPart
    <3>6. Complete(feed, out.start, out.start.entries) /\ disk.meta.cursor <= out.start.cursor
      BY <1>2, <2>1, <3>2 DEF SummaryInv, OutPart
    <3>7. ASSUME NEW d \in Others, feed[d].seq <= disk.meta.cursor
          PROVE  Read(feed, OnDisk(disk'), d) /\ Configured(feed, disk.meta, OnDisk(disk'), d)
      <4>1. d \in Docs /\ feed[d].seq <= out.start.cursor
        <5>1. feed[d].seq \in Nat /\ disk.meta.cursor \in Nat /\ out.start.cursor \in Nat
          BY <1>2, <3>2, DiskTyped, FeedAssumption DEF SummaryTypeOK, Feeds, Times, Others
        <5> QED BY <3>6, <3>7, <5>1 DEF Others
      <4>2. Read(feed, OnDisk(disk), d) /\ Configured(feed, disk.meta, OnDisk(disk), d)
        BY <3>5, <3>7 DEF Complete
      <4>3. Read(feed, out.start.entries, d) /\ Configured(feed, out.start, out.start.entries, d)
        BY <3>6, <4>1 DEF Complete
      <4>4. OnDisk(disk')[d] = OnDisk(disk)[d] \/ OnDisk(disk')[d] = out.start.entries[d]
        BY <1>2, <2>1, <4>1
      <4>5. Configured(feed, disk.meta, out.start.entries, d)
        BY <3>4, <4>3 DEF Configured
      <4> QED BY <4>2, <4>3, <4>4, <4>5 DEF Read, Configured
    <3> QED BY <3>2, <3>7 DEF Complete
  <2> QED BY <2>2, <2>3, <2>4
<1> QED BY <1>1, <1>4, <1>5, <1>6, <1>7, <1>8 DEF SummaryInv

(* A flush that nothing overlapped has written what the summary still is.   *)
LEMMA NotOverlapped ==
  ASSUME SummaryInv, out # Absent, ~Overlapped
  PROVE  /\ sum.entries = out.start.entries
         /\ ~skew.disk /\ sum.restored => \A d \in Docs : OnDisk(disk)[d] = sum.entries[d]
<1>1. Content(sum) = out.start /\ sum.dirty \subseteq out.done
  BY DEF Overlapped
<1>2. sum.entries = out.start.entries
  BY <1>1 DEF Content
<1>3. ASSUME ~skew.disk, sum.restored, NEW d \in Docs
      PROVE  OnDisk(disk)[d] = sum.entries[d]
  <2>1. CASE BucketOf[d] \in sum.dirty
    BY <1>1, <1>2, <1>3, <2>1 DEF SummaryInv, OutPart
  <2>2. CASE BucketOf[d] \notin sum.dirty
    BY <1>3, <2>2 DEF SummaryInv, DiskPart
  <2> QED BY <2>1, <2>2
<1> QED BY <1>2, <1>3

LEMMA StepPutMeta ==
  ASSUME SummaryInv, PutMeta
  PROVE  SummaryInv'
<1> SummaryTypeOK /\ sum \in Summary
  BY DEF SummaryInv, SummaryTypeOK
<1>1. SummaryTypeOK' /\ UNCHANGED <<feed, sum, run, sv, limit>> /\ out # Absent
  BY TypesPutMeta DEF PutMeta
<1>2. PICK m : m = MetaRecord(sum)
  OBVIOUS
<1>3. m.cursor = sum.cursor /\ m.config = sum.config /\ m.backfill = sum.backfill /\ m.back = sum.back
  BY <1>2 DEF MetaRecord
<1>4. m # Absent
  BY <1>2, ContentTyped, AbsentAssumption
<1>5. disk'.meta = m /\ disk'.bucket = disk.bucket
  BY <1>2 DEF PutMeta, SummaryTypeOK, Disks
<1>6. OnDisk(disk') = OnDisk(disk)
  BY <1>5 DEF OnDisk
<1>7. out'.meta = TRUE /\ out'.done = out.done /\ out'.start = out.start /\ out'.buckets = out.buckets
  BY <1>1 DEF PutMeta, SummaryTypeOK, Flushes
<1>8. /\ skew'.mem = skew.mem /\ skew'.view = skew.view
      /\ ~skew'.disk => ~skew.disk /\ ~skew.mem /\ ~Overlapped
  BY DEF PutMeta, SummaryTypeOK
<1>9. DatesPart'
  BY <1>1, <1>3, <1>5, <1>6, <1>7 DEF SummaryInv, DatesPart
<1>10. Begun'
  BY <1>1, <1>7 DEF SummaryInv, Begun
<1>11. RunPart' /\ MemPart' /\ ViewPart'
  BY <1>1, <1>8 DEF SummaryInv, RunPart, MemPart, ViewPart
<1>12. OutPart'
  BY <1>1, <1>6, <1>7, <1>8 DEF SummaryInv, OutPart
<1>13. DiskPart'
  <2> SUFFICES ASSUME ~skew.disk, ~skew.mem, ~Overlapped
               PROVE  /\ Complete(feed, m, OnDisk(disk))
                      /\ sum.restored => \A d \in Docs : BucketOf[d] \notin sum.dirty =>
                                           OnDisk(disk)[d] = sum.entries[d]
    <3>1. sum.cursor <= sum.cursor
      BY DiskTyped
    <3> QED BY <1>1, <1>3, <1>4, <1>5, <1>6, <1>8, <3>1 DEF DiskPart
  <2>1. CASE sum.restored
    <3>1. \A d \in Docs : OnDisk(disk)[d] = sum.entries[d]
      BY <1>1, <2>1, NotOverlapped
    <3>2. Complete(feed, sum, sum.entries)
      BY <2>1 DEF SummaryInv, MemPart
    <3> QED BY <1>3, <3>1, <3>2 DEF Complete, Read, Configured, Others
  <2>2. CASE ~sum.restored
    <3>1. m.cursor = 0
      BY <1>3, <2>2 DEF SummaryInv, Begun
    <3>2. \A d \in Docs : feed[d].seq <= 0 => OnDisk(disk)[d] = Absent /\ feed[d].val = Gone
      BY ReadFromStart, DiskTyped DEF SummaryInv, DatesPart
    <3> QED BY <2>2, <3>1, <3>2 DEF Complete, Read, Configured, Others
  <2> QED BY <2>1, <2>2
<1> QED BY <1>1, <1>9, <1>10, <1>11, <1>12, <1>13 DEF SummaryInv

LEMMA StepEndFlush ==
  ASSUME SummaryInv, EndFlush
  PROVE  SummaryInv'
<1> SummaryTypeOK /\ sum \in Summary
  BY DEF SummaryInv, SummaryTypeOK
<1>1. SummaryTypeOK' /\ UNCHANGED <<feed, run, disk, sv, limit>> /\ out # Absent /\ out.meta /\ out' = Absent
  BY TypesEndFlush DEF EndFlush
<1>2. /\ sum'.entries = sum.entries /\ sum'.cursor = sum.cursor /\ sum'.config = sum.config
      /\ sum'.backfill = sum.backfill /\ sum'.back = sum.back /\ sum'.restored = sum.restored
      /\ sum'.dirty = {}
  BY DEF EndFlush, Summary
<1>3. /\ skew'.mem = skew.mem /\ skew'.view = skew.view
      /\ ~skew'.disk => ~skew.disk /\ ~Overlapped
  BY DEF EndFlush, SummaryTypeOK
<1>4. DatesPart'
  BY <1>1, <1>2 DEF SummaryInv, DatesPart
<1>5. Begun'
  BY <1>1, <1>2 DEF SummaryInv, Begun
<1>6. RunPart'
  <2>1. ASSUME NEW todo, NEW from, NEW n, Ordered(feed, sum, todo, from, n)
        PROVE  Ordered(feed, sum', todo, from, n)
    BY <1>2, <2>1 DEF Ordered, New
  <2> QED BY <1>1, <1>2, <1>3, <2>1 DEF SummaryInv, RunPart
<1>7. MemPart' /\ ViewPart'
  BY <1>1, <1>2, <1>3 DEF SummaryInv, MemPart, ViewPart, Complete, Configured
<1>8. OutPart'
  BY <1>1 DEF OutPart
<1>9. DiskPart'
  <2>1. ~Torn
    BY <1>1 DEF Torn
  <2>2. ~skew'.disk /\ sum.restored => \A d \in Docs : OnDisk(disk)[d] = sum.entries[d]
    BY <1>1, <1>3, NotOverlapped
  <2> QED BY <1>1, <1>2, <1>3, <2>1, <2>2 DEF SummaryInv, DiskPart
<1> QED BY <1>1, <1>4, <1>5, <1>6, <1>7, <1>8, <1>9 DEF SummaryInv

-----------------------------------------------------------------------------
(* A start from nothing                                                    *)

LEMMA NothingIsCurrent ==
  ASSUME feed \in Feeds, FeedOK(feed), NEW d \in Docs, feed[d].seq <= 0
  PROVE  feed[d].val = Gone /\ NewView.shown[d] = Shown(feed[d].val)
<1>1. feed[d].seq = 0
  BY FeedAssumption DEF Feeds, Times
<1>2. feed[d].val = Gone
  BY <1>1 DEF FeedOK
<1>3. Shown(Gone) = Absent
  BY FeedAssumption, SummaryAssumption DEF Shown
<1> QED BY <1>2, <1>3 DEF NewView, NoEntries

LEMMA StepRestart ==
  ASSUME SummaryInv, Restart
  PROVE  SummaryInv'
<1> SummaryTypeOK /\ feed \in Feeds /\ FeedOK(feed)
  BY DEF SummaryInv, SummaryTypeOK, DatesPart
<1>1. /\ SummaryTypeOK' /\ UNCHANGED <<feed, disk>>
      /\ run' = Absent /\ out' = Absent /\ sum' = NewSummary /\ sv' = NewView
  BY TypesRestart DEF Restart
<1>2. /\ sum'.entries = NoEntries /\ sum'.cursor = 0 /\ sum'.back = 0 /\ sum'.backfill = FALSE
      /\ sum'.restored = FALSE /\ sum'.dirty = {}
      /\ sv'.phase = "idle" /\ sv'.applied = 0
  BY <1>1 DEF NewSummary, NewView
<1>3. ~skew'.disk => ~skew.disk /\ ~Torn
  BY DEF Restart
<1>4. DatesPart'
  <2>1. Dated(feed, NoEntries)
    BY NothingSummarized DEF Dated
  <2> QED BY <1>1, <1>2, <2>1, ZeroIsPast DEF SummaryInv, DatesPart
<1>5. Begun' /\ RunPart' /\ MemPart' /\ OutPart'
  BY <1>1, <1>2 DEF Begun, RunPart, MemPart, OutPart
<1>6. ViewPart'
  <2>1. ReadTo(feed, NoEntries, 0)
    BY NothingSummarized, NothingIsCurrent DEF ReadTo, Read, Others
  <2>2. \A d \in Others : feed[d].seq <= 0 => sv'.shown[d] = Shown(feed[d].val)
    BY <1>1, NothingIsCurrent DEF Others
  <2> QED BY <1>1, <1>2, <2>1, <2>2 DEF ViewPart
<1>7. DiskPart'
  BY <1>1, <1>2, <1>3 DEF SummaryInv, DiskPart
<1> QED BY <1>1, <1>4, <1>5, <1>6, <1>7 DEF SummaryInv

LEMMA InvInit == FeedInit /\ SummaryInit => SummaryInv
<1> SUFFICES ASSUME FeedInit, SummaryInit PROVE SummaryInv
  OBVIOUS
<1> SummaryTypeOK /\ feed \in Feeds
  BY TypesInit DEF SummaryTypeOK
<1>1. \A d \in Docs : feed[d].seq = 0 /\ feed[d].val = Gone
  BY DEF FeedInit
<1>2. FeedOK(feed)
  BY <1>1, SummaryAssumption DEF FeedOK, HasTop
<1>3. /\ sum.entries = NoEntries /\ sum.cursor = 0 /\ sum.back = 0 /\ sum.backfill = FALSE
      /\ sum.restored = FALSE /\ sum.dirty = {}
      /\ sv.phase = "idle" /\ sv.applied = 0 /\ sv.shown = NewView.shown
  BY DEF SummaryInit, NewSummary, NewView
<1>4. run = Absent /\ out = Absent /\ disk.meta = Absent
  BY DEF SummaryInit
<1>5. OnDisk(disk) = NoEntries
  BY NothingSummarized, BucketIn DEF SummaryInit, OnDisk, NoEntries
<1>6. DatesPart
  <2>1. Dated(feed, NoEntries)
    BY NothingSummarized DEF Dated
  <2> QED BY <1>2, <1>3, <1>4, <1>5, <2>1, ZeroIsPast DEF DatesPart
<1>7. Begun /\ RunPart /\ MemPart /\ OutPart
  BY <1>3, <1>4 DEF Begun, RunPart, MemPart, OutPart
<1>8. ViewPart
  <2>1. ReadTo(feed, NoEntries, 0)
    BY NothingSummarized, <1>1 DEF ReadTo, Read, Others
  <2>2. \A d \in Others : feed[d].seq <= 0 => sv.shown[d] = Shown(feed[d].val)
    BY <1>2, <1>3, NothingIsCurrent DEF Others
  <2> QED BY <1>3, <2>1, <2>2 DEF ViewPart
<1>9. DiskPart
  BY <1>3, <1>4, <1>5 DEF DiskPart
<1> QED BY <1>6, <1>7, <1>8, <1>9 DEF SummaryInv

-----------------------------------------------------------------------------
(* The view                                                                *)

LEMMA StepView ==
  ASSUME SummaryInv, ViewUpdate
  PROVE  SummaryInv'
<1> SummaryTypeOK
  BY DEF SummaryInv
<1>1. UNCHANGED <<feed, sum, run, out, disk, limit, skew>> /\ sv.phase = "ready"
  BY DEF ViewUpdate
<1>2. run = Absent /\ sum.restored
  BY <1>1 DEF SummaryInv, Begun
<1>3. \A d \in Docs : feed[d].seq \in Times /\ feed[d].seq \in Nat
  BY FeedAssumption DEF SummaryTypeOK, Feeds, Times
<1>4. sv.applied \in Times
  <2>1. sv.applied \in Nat /\ Past(feed, sv.applied)
    BY DiskTyped DEF SummaryInv, DatesPart
  <2> QED BY <1>3, <2>1, FeedAssumption DEF Past, Times
<1>5. ASSUME NEW d \in Docs, Present(d)
      PROVE  /\ sum.entries[d].seq \in Times /\ sum.entries[d].seq \in Nat
             /\ sum.entries[d].seq <= feed[d].seq
  <2>1. sum.entries[d].seq \in Nat /\ sum.entries[d].seq <= feed[d].seq
    BY <1>5, EntryDates DEF Present
  <2> QED BY <1>3, <2>1, FeedAssumption DEF Times
<1>6. /\ sv'.phase = "idle" /\ sv'.applied \in Times /\ sv.applied <= sv'.applied
      /\ \A d \in Docs : Unseen(d) => sum.entries[d].seq <= sv'.applied
      /\ sv'.applied = sv.applied \/ \E d \in Docs : Present(d) /\ sv'.applied = sum.entries[d].seq
      /\ \A d \in Docs : sv'.shown[d] = IF Unseen(d) THEN Shown(sum.entries[d].val)
                                       ELSE IF Present(d) THEN sv.shown[d] ELSE Absent
      /\ sv' \in Views
  BY <1>4, <1>5, ViewUpdateIs
<1>7. SummaryTypeOK'
  BY <1>1, <1>6 DEF SummaryTypeOK
<1>8. DatesPart'
  <2>1. Past(feed, sv'.applied)
    BY <1>5, <1>6 DEF SummaryInv, DatesPart, Past
  <2> QED BY <1>1, <2>1 DEF SummaryInv, DatesPart
<1>9. Begun' /\ RunPart' /\ MemPart'
  BY <1>1, <1>2, <1>6 DEF SummaryInv, Begun, RunPart, MemPart
<1>10. ViewPart'
  <2> SUFFICES ASSUME ~skew.mem, ~skew.view
               PROVE  /\ ReadTo(feed, sum.entries, sv'.applied)
                      /\ \A d \in Others : feed[d].seq <= sv'.applied => sv'.shown[d] = Shown(feed[d].val)
    BY <1>1, <1>6 DEF ViewPart
  <2>1. /\ NoneAhead(feed, sum.entries) /\ ReadTo(feed, sum.entries, sv.applied)
        /\ \A d \in Others : feed[d].seq <= sv.applied => sv.shown[d] = Shown(feed[d].val)
    BY <1>1 DEF SummaryInv, ViewPart
  <2>2. ReadTo(feed, sum.entries, sv'.applied)
    BY <1>6, <2>1 DEF NoneAhead, Present
  <2>3. ASSUME NEW d \in Others, feed[d].seq <= sv'.applied
        PROVE  sv'.shown[d] = Shown(feed[d].val)
    <3>1. d \in Docs /\ Read(feed, sum.entries, d)
      BY <2>2, <2>3 DEF ReadTo, Others
    <3>2. CASE feed[d].val = Gone
      <4>1. ~Present(d) /\ ~Unseen(d)
        BY <3>1, <3>2 DEF Read, Present, Unseen
      <4>2. Shown(Gone) = Absent
        BY FeedAssumption, SummaryAssumption DEF Shown
      <4> QED BY <1>6, <3>1, <3>2, <4>1, <4>2
    <3>3. CASE feed[d].val # Gone
      <4>1. Present(d) /\ sum.entries[d].val = feed[d].val /\ sum.entries[d].seq = feed[d].seq
        BY <3>1, <3>3 DEF Read, Present
      <4>2. CASE Unseen(d)
        BY <1>6, <3>1, <4>1, <4>2
      <4>3. CASE ~Unseen(d)
        <5>1. feed[d].seq <= sv.applied
          BY <1>3, <1>4, <3>1, <4>1, <4>3 DEF Unseen, Times
        <5>2. sv'.shown[d] = sv.shown[d]
          BY <1>6, <3>1, <4>1, <4>3
        <5> QED BY <2>1, <5>1, <5>2
      <4> QED BY <4>2, <4>3
    <3> QED BY <3>2, <3>3
  <2> QED BY <2>2, <2>3
<1>11. OutPart' /\ DiskPart'
  BY <1>1, KeepsOut, KeepsDisk
<1> QED BY <1>7, <1>8, <1>9, <1>10, <1>11 DEF SummaryInv

-----------------------------------------------------------------------------

LEMMA InvStutters == SummaryInv /\ UNCHANGED <<feed, summaryVars>> => SummaryInv'
<1> SUFFICES ASSUME SummaryInv, UNCHANGED <<feed, summaryVars>> PROVE SummaryInv'
  OBVIOUS
<1> USE DEF SummaryInv
<1>1. UNCHANGED <<feed, sum, run, out, disk, sv, limit, skew>>
  BY DEF summaryVars
<1>2. SummaryTypeOK'
  BY <1>1 DEF SummaryTypeOK
<1>3. DatesPart'
  BY <1>1 DEF DatesPart
<1>4. Begun' /\ RunPart' /\ MemPart' /\ ViewPart'
  BY <1>1 DEF Begun, RunPart, MemPart, ViewPart
<1>5. OutPart' /\ DiskPart'
  BY <1>1, KeepsOut, KeepsDisk
<1> QED BY <1>2, <1>3, <1>4, <1>5

LEMMA InvSteps == SummaryInv /\ [SummaryNext]_<<feed, summaryVars>> => SummaryInv'
<1> SUFFICES ASSUME SummaryInv, SummaryNext PROVE SummaryInv'
  BY InvStutters
<1>1. CASE (\E d \in Docs, v \in Values \cup {Gone} : Write(d, v)) /\ UNCHANGED summaryVars
  BY <1>1, StepWrite
<1>2. CASE \E c \in Explicit : SetConfig(c)
  BY <1>2, StepConfig
<1>3. CASE Update \/ Seed \/ Restore \/ Process
  BY <1>3, StepUpdate, StepSeed, StepRestore, StepProcess
<1>4. CASE FeedRead \/ BackfillDone \/ Interrupt \/ UpdateFails
  BY <1>4, StepFeedRead, StepBackfillDone, StepInterrupt, StepFails
<1>5. CASE \E d \in Docs \ {Setup} : RemoveDocument(d)
  BY <1>5, StepRemove
<1>6. CASE StartFlush \/ PutBucket \/ PutMeta \/ EndFlush \/ Restart
  BY <1>6, StepStartFlush, StepPutBucket, StepPutMeta, StepEndFlush, StepRestart
<1>7. CASE ViewUpdate
  BY <1>7, StepView
<1> QED BY <1>1, <1>2, <1>3, <1>4, <1>5, <1>6, <1>7 DEF SummaryNext

(* The inductive invariant of DocumentSummaryStore (runUpdate, flushToCache, *)
(* restoreFromCache) and of the view over it.                               *)
THEOREM SummaryInvariant == SummarySpec => []SummaryInv
BY InvInit, InvSteps, PTL DEF SummarySpec

LEMMA InvIsCurrent == SummaryInv => SummaryCurrent
<1> SUFFICES ASSUME SummaryInv PROVE SummaryCurrent
  OBVIOUS
<1>1. SummaryComplete
  <2> SUFFICES ASSUME sum.restored, ~skew.mem, NEW d \in Others, feed[d].seq <= sum.cursor
               PROVE  Extracted(d)
    BY DEF SummaryComplete, Others
  <2>1. Read(feed, sum.entries, d) /\ Configured(feed, sum, sum.entries, d)
    BY DEF SummaryInv, MemPart, Complete
  <2> QED BY <2>1 DEF Extracted, Read, Configured
<1>2. SummaryViewCurrent
  BY DEF SummaryInv, ViewPart, SummaryViewCurrent, Others
<1> QED BY <1>1, <1>2 DEF SummaryCurrent

(* The summary has every change its cursor has passed, extracted with the   *)
(* current configuration or ahead of the backfill, and the view shows the   *)
(* latest content of what it has applied, through interrupted updates,      *)
(* flushes cut off and restarts (DocumentSummaryStore,                      *)
(* SummaryVirtualViewDataProvider).                                         *)
THEOREM SummaryIsCurrent == SummarySpec => []SummaryCurrent
BY SummaryInvariant, InvIsCurrent, PTL
=============================================================================
