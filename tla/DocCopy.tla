------------------------------- MODULE DocCopy -------------------------------
(***************************************************************************)
(* Copying a document with its history and attachments into another        *)
(* database, or under a new id in the same one, in batches, while the      *)
(* source is being changed; copies that fail or are cancelled are run      *)
(* again, and a completed one lets the source be purged.                   *)
(*                                                                         *)
(* A revision of the source names its dependencies, its clock's stamp and  *)
(* the last chunk it gives to an attachment.  In one store the copy has    *)
(* chunks of its own under its own id, and its pointers must be moved from *)
(* the source's chunks to them.                                            *)
(***************************************************************************)
EXTENDS Integers, FiniteSets, SequencesExt

CONSTANTS
  Atts,        \* attachments of the source document
  MaxEntries,  \* bound on the revisions of the source
  MaxJobs,     \* bound on the copies started
  CopyBatch,   \* batchSize
  Branches,    \* whether replicas write concurrently and clocks disagree
  NoJob

VARIABLES
  ctx,        \* CopyContext and options: [store, tenant, doc, key, directory] say
              \* what source and target share; mode, preserve, admits
  src,        \* the revisions of the source: [deps, at, att, last]
  srcChunk,   \* its chunks: [att, prev]
  draft,      \* NoJob or the revision a user of the source is writing
  purged,     \* whether the source has been purged
  tgt,        \* the revisions in the target: [e, signer]
  tgtChunk,   \* the chunks in the target, by their number in the source
  ptr,        \* [Atts -> what the target document points to: [own, last]]
  flat,       \* NoJob or the flattened copy: [Atts -> last chunk copied]
  job,        \* NoJob or the copy that runs: [pc, plan, line, i, present]
  jobs

srcVars == <<src, srcChunk, draft, purged>>
tgtVars == <<tgt, tgtChunk, ptr, flat>>
copyVars == <<ctx, srcVars, tgtVars, job, jobs>>

CopyInit ==
  /\ src = <<>> /\ srcChunk = <<>> /\ draft = NoJob /\ purged = FALSE
  /\ tgt = {} /\ tgtChunk = {} /\ ptr = [a \in Atts |-> [own |-> FALSE, last |-> 0]] /\ flat = NoJob
  /\ job = NoJob /\ jobs = 0

--------------------------------------------------------------------------------
Below(e) ==
  LET A[i \in 1..Len(src)] == {i} \cup UNION {A[d] : d \in src[i].deps} IN A[e]

(* The last chunk that the merge of a set of revisions gives to an attachment,
   0 for none; of concurrent ones the later revision wins. *)
RefOf(V, a) ==
  LET writers == {e \in V : src[e].att = a}
      top == {e \in writers : \A f \in writers \ {e} : e \notin Below(f)}
  IN IF writers = {} THEN 0 ELSE src[CHOOSE e \in top : \A f \in top : f <= e].last

CopyChain(last) ==
  LET C[k \in 0..Len(srcChunk)] == IF k = 0 THEN {} ELSE {k} \cup C[srcChunk[k].prev] IN C[last]

(* A user of the source appends to an attachment: chunk first, then revision *)
SrcChunk ==
  /\ draft = NoJob /\ ~purged /\ Len(src) < MaxEntries
  /\ \E a \in Atts, deps \in SUBSET DOMAIN src, t \in 1..MaxEntries :
       /\ deps = {} <=> src = <<>>
       /\ \A e, f \in deps : e /= f => e \notin Below(f)
       /\ Branches \/ (t = Len(src) + 1 /\ (src /= <<>> => deps = {Len(src)}))
       /\ srcChunk' = Append(srcChunk, [att |-> a, prev |-> RefOf(UNION {Below(d) : d \in deps}, a)])
       /\ draft' = [deps |-> deps, at |-> t, att |-> a, last |-> Len(srcChunk) + 1]
  /\ UNCHANGED <<ctx, src, purged, tgtVars, job, jobs>>

SrcEntry ==
  /\ draft /= NoJob /\ ~purged
  /\ src' = Append(src, draft) /\ draft' = NoJob
  /\ UNCHANGED <<ctx, srcChunk, purged, tgtVars, job, jobs>>

--------------------------------------------------------------------------------
(* resolveCopyFeasibility *)
Allowed ==
  /\ ~ctx.directory
  /\ ~(ctx.store /\ ctx.doc)
  /\ ctx.preserve => ctx.mode = "history" /\ ctx.tenant /\ ctx.doc /\ ctx.key
Strategy ==
  IF ctx.mode = "flatten" THEN "flatten" ELSE IF ctx.preserve THEN "graft" ELSE "replay"
Signer == IF Strategy = "graft" THEN "author" ELSE "copier"

Step(pc) == [job EXCEPT !.pc = pc]
At(pc) == job /= NoJob /\ job.pc = pc
ByNumber(S) == SetToSortSeq(S, <)

(* prepareCopy, preflightCopyAdmission: the revisions are listed, and the
   rules of the target must admit their signer. *)
Prepare ==
  /\ job = NoJob /\ jobs < MaxJobs
  /\ src /= <<>> /\ ~purged
  /\ Allowed /\ (Strategy /= "flatten" => Signer \in ctx.admits)
  /\ job' = [pc |-> IF Strategy = "flatten" THEN "create" ELSE "listChunks",
             plan |-> ByNumber(DOMAIN src), line |-> <<>>, i |-> 0, present |-> {}]
  /\ jobs' = jobs + 1
  /\ UNCHANGED <<ctx, srcVars, tgtVars>>

(* copyDocumentAttachments: chunks before the revisions that name them *)
ListChunks ==
  /\ At("listChunks")
  /\ job' = [job EXCEPT !.pc = "chunks", !.line = ByNumber(DOMAIN srcChunk), !.i = 0,
                        !.present = tgtChunk]
  /\ UNCHANGED <<ctx, srcVars, tgtVars, jobs>>

Slice == {job.line[k] : k \in job.i + 1..(IF job.i + CopyBatch < Len(job.line)
                                          THEN job.i + CopyBatch ELSE Len(job.line))}

PutChunks ==
  /\ At("chunks") /\ job.i < Len(job.line)
  /\ tgtChunk' = tgtChunk \cup (Slice \ job.present)
  /\ job' = [job EXCEPT !.i = @ + CopyBatch]
  /\ UNCHANGED <<ctx, srcVars, tgt, ptr, flat, jobs>>

ListEntries ==
  /\ At("chunks") /\ job.i >= Len(job.line)
  /\ job' = [job EXCEPT !.pc = "entries", !.line = job.plan, !.i = 0,
                        !.present = {t.e : t \in tgt}]
  /\ UNCHANGED <<ctx, srcVars, tgtVars, jobs>>

(* graftEntry keeps the author's signature; replayEntry re-homes and re-signs *)
Transformed(S) == [e : S, signer : {Signer}]

(* copyDocumentHistory: revisions in causal order.
   A revision and an earlier move of the pointer are concurrent: either wins. *)
CopyEntries ==
  LET new == Slice \ job.present
      now == {t.e : t \in tgt} \cup new
  IN /\ At("entries") /\ job.i < Len(job.line)
     /\ tgt' = tgt \cup Transformed(new)
     /\ \E keeps \in SUBSET {a \in Atts : ptr[a].own} :
          ptr' = [a \in Atts |-> IF a \in keeps \/ \A e \in new : src[e].att /= a THEN ptr[a]
                                 ELSE [own |-> FALSE, last |-> RefOf(now, a)]]
     /\ job' = [job EXCEPT !.i = @ + CopyBatch]
     /\ UNCHANGED <<ctx, srcVars, tgtChunk, flat, jobs>>

(* latestAttachmentRefs: those of the revision with the latest stamp *)
Newest(plan) ==
  CHOOSE e \in ToSet(plan) : \A f \in ToSet(plan) \ {e} :
    src[f].at < src[e].at \/ (src[f].at = src[e].at /\ e < f)
LiveRefs == [a \in Atts |-> RefOf(Below(Newest(job.plan)), a)]

(* Mutant: the pointers stay. *)
FinalizeNothing ==
  /\ At("entries") /\ job.i >= Len(job.line)
  /\ job' = Step("done")
  /\ UNCHANGED <<ctx, srcVars, tgtVars, jobs>>

(* remapAttachmentPointers, in one store *)
Finalize ==
  /\ At("entries") /\ job.i >= Len(job.line)
  /\ ptr' = IF ~ctx.store THEN ptr
            ELSE [a \in Atts |-> IF LiveRefs[a] = 0 \/ ptr[a].last = 0 THEN ptr[a]
                                 ELSE [own |-> TRUE, last |-> LiveRefs[a]]]
  /\ job' = Step("done")
  /\ UNCHANGED <<ctx, srcVars, tgt, tgtChunk, flat, jobs>>

(* flattenDocument: the document is read and created again, then one change
   adds the attachments, or some of them when the signal is raised. *)
FlatCreate ==
  /\ At("create")
  /\ flat' = [a \in Atts |-> 0]
  /\ job' = [job EXCEPT !.pc = "change", !.plan = ByNumber(DOMAIN src)]
  /\ UNCHANGED <<ctx, srcVars, tgt, tgtChunk, ptr, jobs>>

FlatChange ==
  /\ At("change")
  /\ \E some \in SUBSET Atts :
       /\ flat' = [a \in Atts |-> IF a \in some THEN RefOf(ToSet(job.plan), a) ELSE 0]
       /\ \E pc \in {"cancelled"} \cup (IF some = Atts THEN {"done"} ELSE {}) : job' = Step(pc)
  /\ UNCHANGED <<ctx, srcVars, tgt, tgtChunk, ptr, jobs>>

(* The signal is looked at between batches *)
Cancel ==
  /\ job /= NoJob /\ job.pc \in {"chunks", "entries"} /\ job.i < Len(job.line)
  /\ job' = Step("cancelled")
  /\ UNCHANGED <<ctx, srcVars, tgtVars, jobs>>

(* An error or a crash; or the result is taken and the job is over *)
Over ==
  /\ job /= NoJob
  /\ job' = NoJob
  /\ UNCHANGED <<ctx, srcVars, tgtVars, jobs>>

(* buildDocHistoryPurgeRequest: only from a copy that completed *)
PurgeSource ==
  /\ At("done") /\ ~purged
  /\ purged' = TRUE /\ draft' = NoJob
  /\ UNCHANGED <<ctx, src, srcChunk, tgtVars, job, jobs>>

CopyNext ==
  \/ SrcChunk \/ SrcEntry
  \/ Prepare \/ ListChunks \/ PutChunks \/ ListEntries \/ CopyEntries \/ Finalize
  \/ FlatCreate \/ FlatChange \/ Cancel \/ Over \/ PurgeSource

--------------------------------------------------------------------------------
Copied == {t.e : t \in tgt}
InReach(p) ==
  p.last = 0 \/ (IF ctx.store /\ ~p.own THEN ~purged ELSE CopyChain(p.last) \subseteq tgtChunk)

(***************************************************************************)
(* However a copy ends, and whatever the source's users write meanwhile,   *)
(* the target holds whole pasts of revisions and every attachment it       *)
(* points to, and what keeps its author's signature is what that author    *)
(* signed, under a key of the target.                                      *)
(***************************************************************************)
TargetConsistent ==
  /\ \A e \in Copied : Below(e) \subseteq Copied
  /\ ~purged => \A a \in Atts : InReach(ptr[a])
  /\ \A t \in tgt : t.signer = "author" => ctx.tenant /\ ctx.doc /\ ctx.key

(***************************************************************************)
(* A completed copy is the document that was copied, and stands alone: all *)
(* its revisions, each attachment at the chunk the source gave it, on      *)
(* chunks of its own.  What was copied survives the purge of the source.   *)
(* However the copy ended, the target is consistent.                       *)
(* (Revisions are one line with clocks that agree: see Branches.)          *)
(***************************************************************************)
CopyStandsAlone ==
  /\ TargetConsistent
  /\ At("done") /\ Strategy /= "flatten" =>
       /\ ToSet(job.plan) \subseteq Copied
       /\ \A a \in Atts : ptr[a].last = RefOf(Copied, a)
                            /\ (ptr[a].last > 0 => CopyChain(ptr[a].last) \subseteq tgtChunk)
                            /\ (ctx.store /\ ptr[a].last > 0 => ptr[a].own)
  /\ At("done") /\ Strategy = "flatten" => \A a \in Atts : flat[a] = RefOf(ToSet(job.plan), a)
  /\ purged => flat /= NoJob \/ \A a \in Atts : InReach(ptr[a])
=============================================================================
