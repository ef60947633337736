----------------------------- MODULE SummaryStore -----------------------------
(***************************************************************************)
(* The document summary buffer (DocumentSummaryStore), its persistence in  *)
(* buckets, and the provider of summary-backed views that reads it         *)
(* (SummaryVirtualViewDataProvider).                                       *)
(*                                                                         *)
(* An update restores the persisted state, reads the changefeed from its   *)
(* cursor, then re-extracts every document if the configuration changed.   *)
(* A flush writes the dirty buckets one by one and the meta record last.   *)
(***************************************************************************)
EXTENDS ChangeFeed, FiniteSets

CONSTANTS
  Setup,        \* the database setup document
  ConfigOf,     \* [Values -> summary configuration], for the setup document
  Default,      \* the configuration without one
  Explicit,     \* configurations that setConfig is called with
  BucketOf,     \* [Docs -> bucket]
  Matches,      \* SUBSET Values: the contents the view's filter lets through
  Absent,       \* no entry, no record, no run
  Limits        \* bounds: [flushes, faults, sets] of a behaviour, one is picked

Configs == {ConfigOf[v] : v \in Values} \cup {Default} \cup Explicit
Entry == [val : Values, seq : Nat, config : Configs]
Meta == [cursor : Nat, config : Configs, backfill : BOOLEAN, back : Nat]
EntryMaps == [Docs -> Entry \cup {Absent}]
Contents == [entries : EntryMaps, cursor : Nat, config : Configs, backfill : BOOLEAN, back : Nat]
Buckets == {BucketOf[d] : d \in Docs}
Flushes == [buckets : SUBSET Buckets, start : Contents, done : SUBSET Buckets, meta : BOOLEAN]

ASSUME SummaryAssumption ==
  /\ Setup \in Docs /\ DOMAIN BucketOf = Docs /\ Matches \subseteq Values
  /\ Limits \subseteq [flushes : Nat, faults : Nat, sets : Nat]
ASSUME AbsentAssumption == Absent \notin Values \cup Entry \cup Meta \cup Flushes

VARIABLES
  sum,     \* the fields of DocumentSummaryStore
  run,     \* runUpdate in flight: [phase, todo]
  out,     \* flushToCache in flight: [buckets, start, done, meta]
  disk,    \* the persisted cache: [bucket, meta]
  sv,      \* the summary-backed view: [phase, applied, known, shown]
  limit,   \* what may still happen
  skew     \* history: [mem, disk, view], what the code may have lost (see below)

summaryVars == <<sum, run, out, disk, sv, limit, skew>>

NoEntries == [d \in Docs |-> Absent]
NewSummary == [entries |-> NoEntries, cursor |-> 0, config |-> Default, explicit |-> FALSE,
               seeded |-> FALSE, restored |-> FALSE, backfill |-> FALSE, back |-> 0,
               dirty |-> {}, meta |-> FALSE]
NewView == [phase |-> "idle", applied |-> 0, known |-> {}, shown |-> NoEntries]

SummaryInit ==
  /\ sum = NewSummary
  /\ run = Absent
  /\ out = Absent
  /\ disk = [bucket |-> [b \in Buckets |-> NoEntries], meta |-> Absent]
  /\ sv = NewView
  /\ limit \in Limits
  /\ skew = [mem |-> FALSE, disk |-> FALSE, view |-> FALSE]

(* What a flush writes; a flush is clean if it does not change meanwhile. *)
Content(s) == [entries |-> s.entries, cursor |-> s.cursor, config |-> s.config,
               backfill |-> s.backfill, back |-> s.back]
MetaRecord(s) == [cursor |-> s.cursor, config |-> s.config, backfill |-> s.backfill,
                  back |-> s.back]


--------------------------------------------------------------------------------

(* applyConfig, scheduleBackfill *)
ApplyConfig(s, c) ==
  IF c = s.config THEN s
  ELSE IF s.entries /= NoEntries \/ s.cursor > 0
  THEN [s EXCEPT !.config = c, !.meta = TRUE, !.backfill = TRUE, !.back = 0]
  ELSE [s EXCEPT !.config = c, !.meta = TRUE]

(* removeDocument *)
Drop(s, d) ==
  IF s.entries[d] = Absent THEN s
  ELSE [s EXCEPT !.entries[d] = Absent, !.dirty = @ \cup {BucketOf[d]}, !.meta = TRUE]

(* applyDocument: the setup document configures, and is not summarized. *)
ApplyDocument(s, d, v, seq) ==
  IF d = Setup
  THEN Drop(IF s.explicit THEN s ELSE ApplyConfig(s, IF v = Gone THEN Default ELSE ConfigOf[v]), d)
  ELSE IF v = Gone THEN Drop(s, d)
  ELSE [s EXCEPT !.entries[d] = [val |-> v, seq |-> seq, config |-> s.config],
                 !.dirty = @ \cup {BucketOf[d]}, !.meta = TRUE]

(* setConfig; while a backfill runs, its cursor goes on from where it is. *)
SetConfig(c) ==
  /\ limit.sets > 0
  /\ limit' = [limit EXCEPT !.sets = @ - 1]
  /\ sum' = ApplyConfig([sum EXCEPT !.explicit = TRUE], c)
  /\ skew' = [skew EXCEPT !.mem = @ \/ (run /= Absent /\ run.phase = "back" /\ c /= sum.config)]
  /\ UNCHANGED <<feed, run, out, disk, sv>>

--------------------------------------------------------------------------------
(* update is single-flight: a call made meanwhile shares the run. *)
Update ==
  /\ sv.phase = "idle"
  /\ sv' = [sv EXCEPT !.phase = "wait"]
  /\ run' = IF run = Absent THEN [phase |-> "seed", todo |-> {}] ELSE run
  /\ UNCHANGED <<feed, sum, out, disk, limit, skew>>

(* seedConfigFromSetupDoc, once and before the restore. *)
Seed ==
  /\ run /= Absent
  /\ run.phase = "seed"
  /\ run' = [run EXCEPT !.phase = "restore"]
  /\ LET v == feed[Setup].val
         s == [sum EXCEPT !.seeded = TRUE]
     IN sum' = IF sum.seeded \/ sum.explicit \/ v = Gone THEN s ELSE ApplyConfig(s, ConfigOf[v])
  /\ UNCHANGED <<feed, out, disk, sv, limit, skew>>

(* Mutant: the restored entries count as extracted with this configuration. *)
RestoredTrusting(s) ==
  IF disk.meta = Absent THEN s
  ELSE [s EXCEPT !.entries = [d \in Docs |-> disk.bucket[BucketOf[d]][d]],
                 !.cursor = disk.meta.cursor]

(* restoreFromCache: another configuration keeps the entries for a backfill. *)
Restored(s) ==
  IF disk.meta = Absent THEN s
  ELSE LET m == disk.meta
           r == [s EXCEPT !.cursor = m.cursor, !.entries = [d \in Docs |->
                   IF disk.bucket[BucketOf[d]][d] /= Absent
                   THEN disk.bucket[BucketOf[d]][d] ELSE s.entries[d]]]
       IN IF m.config /= s.config THEN [r EXCEPT !.backfill = TRUE, !.back = 0, !.meta = TRUE]
          ELSE IF m.backfill THEN [r EXCEPT !.backfill = TRUE, !.back = m.back]
          ELSE r

Restore ==
  /\ run /= Absent
  /\ run.phase = "restore"
  /\ LET s == IF sum.restored THEN sum ELSE Restored(sum)
     IN /\ sum' = [s EXCEPT !.restored = TRUE]
        /\ run' = [phase |-> "main", todo |-> ChangesSince(feed, s.cursor)]
        /\ skew' = IF sum.restored THEN skew ELSE [skew EXCEPT !.mem = @ \/ skew.disk]
  /\ UNCHANGED <<feed, out, disk, sv, limit>>

(* One document of the feed, or of the backfill. *)
Process ==
  /\ run /= Absent
  /\ \E e \in run.todo :
       /\ IsNext(e, run.todo)
       /\ run' = [run EXCEPT !.todo = @ \ {e}]
       /\ LET s == ApplyDocument(sum, e.doc, feed[e.doc].val, e.seq)
          IN /\ sum' = IF run.phase = "main" THEN [s EXCEPT !.cursor = e.seq]
                       ELSE [s EXCEPT !.back = e.seq]
             /\ skew' = [skew EXCEPT !.mem = @ \/ (run.phase = "back" /\ s.config /= sum.config)]
  /\ UNCHANGED <<feed, out, disk, sv, limit>>

(* The run ends: callers that waited go on. *)
End == run' = Absent /\ sv' = [sv EXCEPT !.phase = "ready"]

FeedRead ==
  /\ run /= Absent
  /\ run.phase = "main"
  /\ run.todo = {}
  /\ IF sum.backfill
     THEN run' = [phase |-> "back", todo |-> ChangesSince(feed, sum.back)] /\ sv' = sv
     ELSE End
  /\ UNCHANGED <<feed, sum, out, disk, limit, skew>>

BackfillDone ==
  /\ run /= Absent
  /\ run.phase = "back"
  /\ run.todo = {}
  /\ sum' = [sum EXCEPT !.backfill = FALSE, !.back = 0, !.meta = TRUE]
  /\ End
  /\ UNCHANGED <<feed, out, disk, limit, skew>>

(* The summary has entries that its cursor has not reached.                *)
Ahead == \E d \in Docs : sum.entries[d] /= Absent /\ sum.entries[d].seq > sum.cursor

(* onProgress returns false after a batch; the view goes on all the same. *)
Interrupt ==
  /\ limit.faults > 0
  /\ limit' = [limit EXCEPT !.faults = @ - 1]
  /\ run /= Absent
  /\ run.phase \in {"main", "back"}
  /\ End
  /\ skew' = [skew EXCEPT !.view = @ \/ (run.phase = "main" /\ Ahead)]
  /\ UNCHANGED <<feed, sum, out, disk>>

(* A document does not load: the update is rejected, and the view's with it. *)
UpdateFails ==
  /\ limit.faults > 0
  /\ limit' = [limit EXCEPT !.faults = @ - 1]
  /\ run /= Absent
  /\ run.todo /= {}
  /\ run' = Absent
  /\ sv' = [sv EXCEPT !.phase = "idle"]
  /\ UNCHANGED <<feed, sum, out, disk, skew>>

(* purgeMaterializedDocument of the database. *)
RemoveDocument(d) ==
  /\ feed[d].val = Gone
  /\ sum.entries[d] /= Absent
  /\ sum' = Drop(sum, d)
  /\ UNCHANGED <<feed, run, out, disk, sv, limit, skew>>

--------------------------------------------------------------------------------
(* flushToCache: the entries of the dirty buckets are collected at once. *)
StartFlush ==
  /\ out = Absent
  /\ sum.dirty /= {} \/ sum.meta
  /\ limit.flushes > 0
  /\ limit' = [limit EXCEPT !.flushes = @ - 1]
  /\ out' = [buckets |-> sum.dirty, start |-> Content(sum), done |-> {}, meta |-> FALSE]
  /\ UNCHANGED <<feed, sum, run, disk, sv, skew>>

(***************************************************************************)
(* A bucket that turned dirty during the flush is in the set the loop goes *)
(* through, but was not collected: it is written empty.                    *)
(***************************************************************************)
Payload(b) ==
  [d \in Docs |-> IF b \in out.buckets /\ BucketOf[d] = b THEN out.start.entries[d] ELSE Absent]

PutBucket ==
  /\ out /= Absent
  /\ ~out.meta
  /\ out.buckets /= {}
  /\ \E b \in sum.dirty \ out.done :
       /\ out.buckets \ out.done /= {} => b \in out.buckets
       /\ disk' = [disk EXCEPT !.bucket[b] = Payload(b)]
       /\ out' = [out EXCEPT !.done = @ \cup {b}]
       /\ skew' = [skew EXCEPT !.disk = @ \/ b \notin out.buckets]
  /\ UNCHANGED <<feed, sum, run, sv, limit>>

(* The summary changed while it was flushed. *)
Overlapped == Content(sum) /= out.start \/ ~(sum.dirty \subseteq out.done)

(* The meta record has the cursor of the moment it is written. *)
PutMeta ==
  /\ out /= Absent
  /\ ~out.meta
  /\ out.buckets = {} \/ sum.dirty \subseteq out.done
  /\ disk' = [disk EXCEPT !.meta = MetaRecord(sum)]
  /\ out' = [out EXCEPT !.meta = TRUE]
  /\ skew' = [skew EXCEPT !.disk = @ \/ skew.mem \/ Overlapped]
  /\ UNCHANGED <<feed, sum, run, sv, limit>>

(* CacheManager.flush: clearDirty. *)
EndFlush ==
  /\ out /= Absent
  /\ out.meta
  /\ sum' = [sum EXCEPT !.dirty = {}, !.meta = FALSE]
  /\ out' = Absent
  /\ skew' = [skew EXCEPT !.disk = @ \/ Overlapped]
  /\ UNCHANGED <<feed, run, disk, sv, limit>>

(* A flush is cut off after a bucket and before the meta record, and there   *)
(* is no such record yet, or it speaks of another state of extraction:      *)
(* the next start leaves the bucket out, or takes its entries for others.   *)
Torn ==
  /\ out /= Absent
  /\ ~out.meta /\ out.done /= {}
  /\ \/ disk.meta = Absent \/ skew.mem
     \/ [disk.meta EXCEPT !.cursor = 0] /= [MetaRecord(out.start) EXCEPT !.cursor = 0]

(* The application ends, possibly in a flush, and starts again. *)
Restart ==
  /\ limit.faults > 0
  /\ limit' = [limit EXCEPT !.faults = @ - 1]
  /\ sum' = NewSummary
  /\ run' = Absent
  /\ out' = Absent
  /\ sv' = NewView
  /\ skew' = [mem |-> FALSE, disk |-> skew.disk \/ Torn, view |-> FALSE]
  /\ UNCHANGED <<feed, disk>>

--------------------------------------------------------------------------------
Shown(v) == IF v \in Matches THEN v ELSE Absent

(* The changes of a provider update, applied to the view. *)
ShownAfter(new, present) ==
  [d \in Docs |-> IF d \in new THEN Shown(sum.entries[d].val)
                  ELSE IF d \in present THEN sv.shown[d] ELSE Absent]

(***************************************************************************)
(* SummaryVirtualViewDataProvider.update, once the summary is updated: it  *)
(* looks at the entries with a higher changeSeq than it has applied, and   *)
(* at the known documents that are gone from the summary.                  *)
(***************************************************************************)
ViewUpdate ==
  /\ sv.phase = "ready"
  /\ LET e == sum.entries
         present == {d \in Docs : e[d] /= Absent}
         new == {d \in present : e[d].seq > sv.applied}
         passing == {d \in new : e[d].val \in Matches}
     IN sv' = [phase |-> "idle",
               applied |-> CHOOSE n \in 0..MaxSeq :
                             /\ \A m \in {sv.applied} \cup {e[d].seq : d \in new} : m <= n
                             /\ n \in {sv.applied} \cup {e[d].seq : d \in new},
               known |-> ((sv.known \cap present) \ new) \cup passing,
               shown |-> ShownAfter(new, present)]
  /\ UNCHANGED <<feed, sum, run, out, disk, limit, skew>>

SummaryNext ==
  \/ (\E d \in Docs, v \in Values \cup {Gone} : Write(d, v)) /\ UNCHANGED summaryVars
  \/ \E c \in Explicit : SetConfig(c)
  \/ Update \/ Seed \/ Restore \/ Process \/ FeedRead \/ BackfillDone
  \/ Interrupt \/ UpdateFails
  \/ \E d \in Docs \ {Setup} : RemoveDocument(d)
  \/ StartFlush \/ PutBucket \/ PutMeta \/ EndFlush \/ Restart
  \/ ViewUpdate

SummarySpec == FeedInit /\ SummaryInit /\ [][SummaryNext]_<<feed, summaryVars>>

--------------------------------------------------------------------------------
Extracted(d) ==
  IF feed[d].val = Gone THEN sum.entries[d] = Absent
  ELSE /\ sum.entries[d] /= Absent
       /\ sum.entries[d].val = feed[d].val
       /\ \/ sum.entries[d].config = sum.config
          \/ sum.backfill /\ feed[d].seq > sum.back

(***************************************************************************)
(* A change the cursor has passed is in the summary, extracted with the    *)
(* current configuration or still ahead of the backfill, also after a      *)
(* restart, unless a flush overlapped an update or a configuration change  *)
(* a backfill, or a flush was torn.                                        *)
(***************************************************************************)
SummaryComplete ==
  sum.restored /\ ~skew.mem =>
    \A d \in Docs \ {Setup} : feed[d].seq <= sum.cursor => Extracted(d)

(* A summary-backed view shows the latest content of what it has applied,   *)
(* unless it was updated from a stopped run while entries were ahead of    *)
(* the cursor (after a flush that was cut off).                            *)
SummaryViewCurrent ==
  sv.phase = "idle" /\ ~skew.mem /\ ~skew.view =>
    \A d \in Docs \ {Setup} :
      feed[d].seq <= sum.cursor /\ feed[d].seq <= sv.applied => sv.shown[d] = Shown(feed[d].val)

(* What readers of the summary see, directly or through a view.            *)
SummaryCurrent == SummaryComplete /\ SummaryViewCurrent
=============================================================================
