---------------------------- MODULE Attachments ----------------------------
(***************************************************************************)
(* The attachments of one document: changeDoc calls that add (whole or     *)
(* streamed), append to and remove attachments, the ledger of uploads in   *)
(* progress and the sweep that reclaims what a crash left behind, and the  *)
(* reads by byte range.                                                    *)
(*                                                                         *)
(* An attachment is a chain of chunks; its reference in the document names *)
(* the last chunk and the size.  Byte i of an attachment is the number i,  *)
(* so what a reader should get is known.  Chunk 0 stands for no chunk.     *)
(***************************************************************************)
EXTENDS Integers, FiniteSets, SequencesExt

CONSTANTS
  Callers,    \* changeDoc calls
  MaxAtts,    \* bound on the attachments made
  ChunkSize,  \* chunkSizeBytes
  Batch,      \* chunks that are written together (ATTACHMENT_WRITE_BATCH_BYTES)
  Overlap,    \* whether two calls may append to one attachment at a time
  Slow,       \* whether an upload may outlast minAgeMs of the sweep
  None

VARIABLES
  limit,    \* what the calls do in this behaviour, and its bounds: ops, the
            \* numbers of atts, chunks, changes and faults, and data, the
            \* bytes of one write
  chunk,    \* the chunks made so far: [att, prev, data, streamed]
  stored,   \* those in the attachment store
  ledger,   \* attachments with a pending_attachment_upload entry
  old,      \* the ones of these older than minAgeMs
  atts,     \* the number of attachments made
  change,   \* the changes of the document: [sees, adds, removes, puts]
  put,      \* those in the document store
  mem,      \* those of the cached document
  call,     \* [Callers -> state of the call]
  sweep,    \* None or the state of reclaimIncompleteAttachmentUploads
  faults

storeVars == <<limit, chunk, stored, ledger, old, atts>>
docVars == <<change, put, mem>>
attVars == <<storeVars, docVars, call, sweep, faults>>

Nothing == <<>>
NoChange == [pc |-> "idle", adds |-> Nothing, removes |-> {}, appends |-> Nothing, up |-> None,
         ap |-> None, new |-> 0, clean |-> {}, clear |-> {}]

AttInit ==
  /\ chunk = <<>> /\ stored = {} /\ ledger = {} /\ old = {} /\ atts = 0
  /\ change = <<>> /\ put = {} /\ mem = {}
  /\ call = [c \in Callers |-> NoChange] /\ sweep = None /\ faults = 0

Bytes(from, n) == [i \in 1..n |-> from + i]
With(f, a, v) == [x \in DOMAIN f \cup {a} |-> IF x = a THEN v ELSE f[x]]
Without(f, S) == [x \in DOMAIN f \ S |-> f[x]]
Fault == faults < limit.faults /\ faults' = faults + 1

--------------------------------------------------------------------------------
(* Automerge: the references of the document that a set of changes makes.  Of
   concurrent updates of one reference the later one wins. *)
Refs(V) ==
  LET added == UNION {DOMAIN change[v].adds : v \in V}
      gone == UNION {change[v].removes : v \in V}
      Writers(a) == {v \in V : a \in DOMAIN change[v].adds \cup DOMAIN change[v].puts}
      LastWriter(a) == CHOOSE v \in Writers(a) : \A w \in Writers(a) \ {v} :
                   v \notin change[w].sees /\ (w \in change[v].sees \/ w < v)
      RefIn(v, a) == IF a \in DOMAIN change[v].puts THEN change[v].puts[a] ELSE change[v].adds[a]
  IN [a \in added \ gone |-> RefIn(LastWriter(a), a)]

(* The pieces of a write, and their chunks: each names the one before it *)
Pieces(data) ==
  [i \in 1..((Len(data) + ChunkSize - 1) \div ChunkSize) |->
     SubSeq(data, (i - 1) * ChunkSize + 1,
            IF i * ChunkSize < Len(data) THEN i * ChunkSize ELSE Len(data))]

Chained(a, prev, data, streamed) ==
  [i \in DOMAIN Pieces(data) |->
     [att |-> a, prev |-> IF i = 1 THEN prev ELSE Len(chunk) + i - 1,
      data |-> Pieces(data)[i], streamed |-> streamed]]
NewIds(new) == Len(chunk) + 1..Len(chunk) + Len(new)
LastOf(new, prev) == IF new = <<>> THEN prev ELSE Len(chunk) + Len(new)

--------------------------------------------------------------------------------
(* changeDoc: the callback starts *)
Open(c) ==
  /\ call[c].pc = "idle" /\ c \in limit.callers /\ Len(change) < limit.changes
  /\ call' = [call EXCEPT ![c].pc = "open"]
  /\ UNCHANGED <<storeVars, docVars, sweep, faults>>

(* addAttachmentInternal: all chunks in one write, no ledger *)
AddWhole(c) ==
  /\ call[c].pc = "open" /\ "whole" \in limit.ops /\ atts < limit.atts
  /\ \E n \in 0..limit.data :
       LET new == Chained(atts + 1, 0, Bytes(0, n), FALSE)
       IN /\ Len(chunk) + Len(new) <= limit.chunks
          /\ chunk' = chunk \o new /\ stored' = stored \cup NewIds(new)
          /\ call' = [call EXCEPT ![c].adds =
                        With(@, atts + 1, [last |-> LastOf(new, 0), size |-> n])]
  /\ atts' = atts + 1
  /\ UNCHANGED <<limit, ledger, old, docVars, sweep, faults>>

(* Mutant: no ledger entry is written. *)
StreamStartUnlisted(c) ==
  /\ call[c].pc = "open" /\ "stream" \in limit.ops /\ atts < limit.atts
  /\ atts' = atts + 1
  /\ call' = [call EXCEPT ![c].pc = "stream",
                ![c].up = [att |-> atts + 1, last |-> 0, size |-> 0, left |-> <<>>, queue |-> {}]]
  /\ UNCHANGED <<limit, chunk, stored, ledger, old, docVars, sweep, faults>>

(* addAttachmentStreamInternal: the ledger comes first *)
StreamStart(c) ==
  /\ call[c].pc = "open" /\ "stream" \in limit.ops /\ atts < limit.atts
  /\ atts' = atts + 1
  /\ ledger' = ledger \cup {atts + 1}
  /\ call' = [call EXCEPT ![c].pc = "stream",
                ![c].up = [att |-> atts + 1, last |-> 0, size |-> 0, left |-> <<>>, queue |-> {}]]
  /\ UNCHANGED <<limit, chunk, stored, old, docVars, sweep, faults>>

(* A part of the stream arrives (writeFilledChunk, queueChunk,
   flushPendingEntries): full chunks are queued, the rest waits. *)
StreamFeed(c) ==
  /\ call[c].pc = "stream"
  /\ \E n \in 1..limit.data :
       LET up == call[c].up
           data == up.left \o Bytes(up.size + Len(up.left), n)
           full == (Len(data) \div ChunkSize) * ChunkSize
           new == Chained(up.att, up.last, SubSeq(data, 1, full), TRUE)
           queue == up.queue \cup NewIds(new)
           flush == Cardinality(queue) >= Batch
       IN /\ up.size + Len(data) <= limit.data
          /\ Len(chunk) + Len(new) <= limit.chunks
          /\ chunk' = chunk \o new
          /\ stored' = IF flush THEN stored \cup queue ELSE stored
          /\ call' = [call EXCEPT ![c].up =
                        [up EXCEPT !.last = LastOf(new, @), !.size = @ + full,
                                  !.left = SubSeq(data, full + 1, Len(data)),
                                  !.queue = IF flush THEN {} ELSE queue]]
  /\ UNCHANGED <<limit, ledger, old, atts, docVars, sweep, faults>>

(* The stream ends: the rest is a last, short chunk *)
StreamEnd(c) ==
  LET up == call[c].up
      new == Chained(up.att, up.last, up.left, TRUE)
  IN /\ call[c].pc = "stream"
     /\ Len(chunk) + Len(new) <= limit.chunks
     /\ chunk' = chunk \o new
     /\ stored' = stored \cup up.queue \cup NewIds(new)
     /\ call' = [call EXCEPT ![c].pc = "open", ![c].up = None,
                   ![c].adds = With(@, up.att, [last |-> LastOf(new, up.last),
                                                size |-> up.size + Len(up.left)])]
     /\ UNCHANGED <<limit, ledger, old, atts, docVars, sweep, faults>>

(* The stream or every attempt of a write fails: the upload is cleaned up, and
   the callback throws, or goes on without it. *)
StreamFail(c) ==
  /\ call[c].pc = "stream" /\ Fault
  /\ \E throws \in BOOLEAN :
       call' = [call EXCEPT ![c].pc = IF throws THEN "fail" ELSE "open", ![c].up = None,
                  ![c].clean = @ \cup {call[c].up.att}
                                  \cup (IF throws THEN DOMAIN call[c].adds ELSE {})]
  /\ UNCHANGED <<storeVars, docVars, sweep>>

(* appendToAttachment reads the last chunk, encrypts, and writes *)
SizeFor(c, a) ==
  LET ref == IF a \in DOMAIN call[c].adds THEN call[c].adds[a] ELSE Refs(mem)[a]
  IN ref.size + (IF a \in DOMAIN call[c].appends THEN call[c].appends[a].more ELSE 0)

AppendStart(c) ==
  /\ call[c].pc = "open" /\ "append" \in limit.ops
  /\ \E a \in DOMAIN Refs(mem) \cup DOMAIN call[c].adds, n \in 1..limit.data :
       /\ ~Overlap => \A d \in Callers \ {c} : a \notin DOMAIN call[d].appends
                        /\ (call[d].ap /= None => call[d].ap.att /= a)
       /\ call' = [call EXCEPT ![c].pc = "append",
            ![c].ap = [att |-> a, data |-> Bytes(SizeFor(c, a), n),
                       prev |-> IF a \in DOMAIN call[c].appends THEN call[c].appends[a].last
                                ELSE IF a \in DOMAIN Refs(mem) THEN Refs(mem)[a].last
                                ELSE call[c].adds[a].last]]
  /\ UNCHANGED <<storeVars, docVars, sweep, faults>>

AppendPut(c) ==
  LET ap == call[c].ap
      new == Chained(ap.att, ap.prev, ap.data, FALSE)
      before == IF ap.att \in DOMAIN call[c].appends THEN call[c].appends[ap.att].more ELSE 0
  IN /\ call[c].pc = "append"
     /\ Len(chunk) + Len(new) <= limit.chunks
     /\ chunk' = chunk \o new /\ stored' = stored \cup NewIds(new)
     /\ call' = [call EXCEPT ![c].pc = "open", ![c].ap = None,
                   ![c].appends = With(@, ap.att, [last |-> LastOf(new, ap.prev),
                                                   more |-> before + Len(ap.data)])]
     /\ UNCHANGED <<limit, ledger, old, atts, docVars, sweep, faults>>

(* removeAttachment: an addition of this call is cleaned up at once *)
RemoveAtt(c) ==
  /\ call[c].pc = "open" /\ "remove" \in limit.ops
  /\ \E a \in DOMAIN Refs(mem) \cup DOMAIN call[c].adds :
       call' = IF a \in DOMAIN call[c].adds
               THEN [call EXCEPT ![c].adds = Without(@, {a}), ![c].clean = @ \cup {a}]
               ELSE [call EXCEPT ![c].removes = @ \cup {a}]
  /\ UNCHANGED <<storeVars, docVars, sweep, faults>>

(* The callback throws, or the change is not allowed: additions are cleaned up *)
Abandon(c) ==
  /\ call[c].pc \in {"open", "persist"} /\ Fault
  /\ call' = [call EXCEPT ![c].pc = "fail", ![c].clean = @ \cup DOMAIN call[c].adds]
  /\ UNCHANGED <<storeVars, docVars, sweep>>

(* cleanupIncompleteAttachmentUpload: the chunks, then the ledger; a failure is
   logged and leaves the rest to the sweep. *)
DeleteChunks(a) == stored' = {k \in stored : chunk[k].att /= a}

CleanChunks(c, a) ==
  /\ a \in call[c].clean
  /\ \/ /\ DeleteChunks(a)
        /\ call' = [call EXCEPT ![c].clean = @ \ {a}, ![c].clear = @ \cup {a}]
        /\ UNCHANGED faults
     \/ /\ Fault
        /\ call' = [call EXCEPT ![c].clean = @ \ {a}]
        /\ UNCHANGED stored
  /\ UNCHANGED <<limit, chunk, ledger, old, atts, docVars, sweep>>

(* clearPendingAttachmentUploadLedger, after a cleanup or a commit *)
ClearLedger(c, a) ==
  /\ a \in call[c].clear
  /\ call' = [call EXCEPT ![c].clear = @ \ {a}]
  /\ \/ ledger' = ledger \ {a} /\ old' = old \ {a} /\ UNCHANGED faults
     \/ Fault /\ UNCHANGED <<limit, ledger, old>>
  /\ UNCHANGED <<limit, chunk, stored, atts, docVars, sweep>>

--------------------------------------------------------------------------------
(* The callback returned: removals, then appends, then additions are applied
   to the cached document of this moment. *)
Change(c) ==
  LET now == Without(Refs(mem), call[c].removes)
      puts == [a \in DOMAIN call[c].appends \cap DOMAIN now |->
                 [last |-> call[c].appends[a].last, size |-> now[a].size + call[c].appends[a].more]]
  IN /\ call[c].pc = "open" /\ call[c].clean = {} /\ Len(change) < limit.changes
     /\ change' = Append(change, [sees |-> mem, adds |-> call[c].adds,
                                  removes |-> call[c].removes \cap DOMAIN Refs(mem), puts |-> puts])
     /\ call' = [call EXCEPT ![c].pc = "persist", ![c].new = Len(change) + 1]
     /\ UNCHANGED <<storeVars, put, mem, sweep, faults>>

(* persistDocumentChange: the entry is stored and the call's document becomes
   the cached one; then the ledgers of the additions are cleared. *)
Persist(c) ==
  /\ call[c].pc = "persist"
  /\ put' = put \cup {call[c].new}
  /\ mem' = change[call[c].new].sees \cup {call[c].new}
  /\ call' = [call EXCEPT ![c].pc = "end", ![c].clear = @ \cup DOMAIN call[c].adds]
  /\ UNCHANGED <<storeVars, change, sweep, faults>>

Return(c) ==
  /\ call[c].pc \in {"end", "fail"} /\ call[c].clean = {} /\ call[c].clear = {}
  /\ call' = [call EXCEPT ![c] = NoChange]
  /\ UNCHANGED <<storeVars, docVars, sweep, faults>>

(* The cached document is evicted and loaded again *)
Reload ==
  /\ mem /= put
  /\ mem' = put
  /\ UNCHANGED <<storeVars, change, put, call, sweep, faults>>

(* The tab or process ends *)
AttCrash ==
  /\ Fault
  /\ \E c \in Callers : call[c].pc /= "idle"
  /\ call' = [c \in Callers |-> NoChange]
  /\ sweep' = None /\ mem' = put
  /\ UNCHANGED <<storeVars, change, put>>

--------------------------------------------------------------------------------
Hands(c) ==
  DOMAIN call[c].adds \cup call[c].clean
    \cup (IF call[c].up = None THEN {} ELSE {call[c].up.att})

(* A ledger gets older than minAgeMs *)
Age(a) ==
  /\ a \in ledger \ old
  /\ Slow \/ \A c \in Callers : a \notin Hands(c)
  /\ old' = old \cup {a}
  /\ UNCHANGED <<limit, chunk, stored, ledger, atts, docVars, call, sweep, faults>>

(* reclaimIncompleteAttachmentUploads *)
SweepStart ==
  /\ sweep = None /\ old /= {}
  /\ sweep' = [todo |-> old, att |-> 0, step |-> "next"]
  /\ UNCHANGED <<storeVars, docVars, call, faults>>

(* In the current document, or mentioned by some entry of its history *)
Committed(a) == a \in DOMAIN Refs(mem) \/ \E v \in put : a \in DOMAIN change[v].adds

SweepCheck(a) ==
  /\ sweep /= None /\ sweep.step = "next" /\ a \in sweep.todo
  /\ sweep' = [todo |-> sweep.todo \ {a}, att |-> a,
               step |-> IF Committed(a) THEN "clear" ELSE "delete"]
  /\ UNCHANGED <<storeVars, docVars, call, faults>>

SweepDelete ==
  /\ sweep /= None /\ sweep.step = "delete"
  /\ \/ DeleteChunks(sweep.att) /\ sweep' = [sweep EXCEPT !.step = "clear"] /\ UNCHANGED faults
     \/ Fault /\ sweep' = None /\ UNCHANGED stored
  /\ UNCHANGED <<limit, chunk, ledger, old, atts, docVars, call>>

(* Mutant: the sweep leaves the ledger of what it has reclaimed. *)
SweepClearNothing ==
  /\ sweep /= None /\ sweep.step = "clear"
  /\ sweep' = [sweep EXCEPT !.step = "next"]
  /\ UNCHANGED <<storeVars, docVars, call, faults>>

SweepClear ==
  /\ sweep /= None /\ sweep.step = "clear"
  /\ ledger' = ledger \ {sweep.att} /\ old' = old \ {sweep.att}
  /\ sweep' = [sweep EXCEPT !.step = "next"]
  /\ UNCHANGED <<limit, chunk, stored, atts, docVars, call, faults>>

SweepEnd ==
  /\ sweep /= None /\ sweep.step = "next" /\ sweep.todo = {}
  /\ sweep' = None
  /\ UNCHANGED <<storeVars, docVars, call, faults>>

AttNext ==
  \/ \E c \in Callers :
       \/ Open(c) \/ AddWhole(c) \/ StreamStart(c) \/ StreamFeed(c) \/ StreamEnd(c)
       \/ StreamFail(c) \/ AppendStart(c) \/ AppendPut(c) \/ RemoveAtt(c) \/ Abandon(c)
       \/ Change(c) \/ Persist(c) \/ Return(c)
       \/ \E a \in 1..MaxAtts : CleanChunks(c, a) \/ ClearLedger(c, a)
  \/ Reload \/ AttCrash
  \/ \E a \in 1..MaxAtts : Age(a) \/ SweepCheck(a)
  \/ SweepStart \/ SweepDelete \/ SweepClear \/ SweepEnd

(* The application calls the sweep again and again; one that runs goes on *)
AttFairness ==
  /\ WF_attVars(SweepStart) /\ WF_attVars(SweepDelete) /\ WF_attVars(SweepClear)
  /\ WF_attVars(SweepEnd) /\ \A a \in 1..MaxAtts : WF_attVars(SweepCheck(a))

--------------------------------------------------------------------------------
(* The chain of chunks that ends with a chunk, and its bytes *)
Chain(last) ==
  LET C[k \in 0..Len(chunk)] == IF k = 0 THEN <<>> ELSE Append(C[chunk[k].prev], k) IN C[last]
Content(ks) == FlattenSeq([i \in DOMAIN ks |-> chunk[ks[i]].data])

(* getAttachmentForRefInternal *)
WholeRead(ref) ==
  IF ToSet(Chain(ref.last)) \subseteq stored THEN Content(Chain(ref.last)) ELSE None

(* planAttachmentReadByWalkingMetadata: from the last chunk back to the first
   byte wanted; the chunks that overlap the range, or None. *)
Failed == <<0>>
PlannedFrom(ref, s, e) ==
  LET W[k \in 0..Len(chunk), end \in 0..ref.size] ==
        IF end <= s THEN <<>>
        ELSE IF k \notin stored \/ Len(chunk[k].data) > end THEN Failed
        ELSE LET start == end - Len(chunk[k].data)
                 rest == W[chunk[k].prev, start]
             IN IF rest = Failed THEN Failed
                ELSE IF start < e THEN Append(rest, k) ELSE rest
  IN W[ref.last, ref.size]

(* Mutant: every chunk but the last has the full size. *)
OffsetInFirstFixed(ref, s, ks) == s % ChunkSize

(* The bytes before the first planned chunk: the size less all from it on *)
OffsetInFirst(ref, s, ks) ==
  LET all == Chain(ref.last)
      from == CHOOSE i \in DOMAIN all : all[i] = ks[1]
  IN s - (ref.size - Len(Content(SubSeq(all, from, Len(all)))))

(* getAttachmentRangeForRefInternal, streamAttachmentForRefInternal *)
RangeRead(ref, s, e) ==
  LET ks == PlannedFrom(ref, s, e)
      off == OffsetInFirst(ref, s, ks)
  IN IF ks = Failed THEN None ELSE SubSeq(Content(ks), off + 1, Min({Len(Content(ks)), off + e - s}))

(***************************************************************************)
(* Every attachment that the stored entries reference can be read, whole   *)
(* and in any range, and gives exactly the bytes that were added and       *)
(* appended, in order: chunks of different sizes meet where appends        *)
(* started, calls fail and are cleaned up, crashes leave uploads that the  *)
(* sweep reclaims meanwhile.  (Appends of two calls to one attachment at a *)
(* time, and uploads slower than the sweep's age limit, are left out: see  *)
(* Overlap and Slow.)                                                      *)
(***************************************************************************)
ReadsExact ==
  \A a \in DOMAIN Refs(put) :
    LET ref == Refs(put)[a]
    IN /\ WholeRead(ref) = Bytes(0, ref.size)
       /\ \A e \in 1..ref.size : \A s \in 0..e - 1 : RangeRead(ref, s, e) = Bytes(s, e - s)

(***************************************************************************)
(* No chunk of a streamed upload is forgotten: it belongs to an attachment *)
(* that the history mentions, to a call that is still running, or to a     *)
(* ledger that the sweep will find.                                        *)
(***************************************************************************)
NoForgottenChunks ==
  \A k \in stored :
    LET a == chunk[k].att
    IN chunk[k].streamed =>
         \/ \E v \in put : a \in DOMAIN change[v].adds
         \/ \E c \in Callers : a \in Hands(c)
         \/ a \in ledger

(***************************************************************************)
(* An upload that a crash or a failed cleanup left is settled: its ledger  *)
(* is cleared in the end, with its chunks kept or deleted.                 *)
(***************************************************************************)
UploadsSettle == \A a \in 1..MaxAtts : (a \in old) ~> (a \notin ledger)
=============================================================================
