--------------------------- MODULE AccessControl ---------------------------
(***************************************************************************)
(* Access decisions of a MindooDB client and server: the directory as it   *)
(* was at a point in time (DirectoryTimeTravelIndex and the chain of       *)
(* DirectoryStateNodes built from the revision feed), the evaluation of    *)
(* policies and rules against it, and the quarantine of rejected entries.  *)
(*                                                                         *)
(* Entries of the directory database arrive in the order of the local      *)
(* store.  A witnessed entry has the time of its receipt; an entry without *)
(* a receipt counts as of "now" until its receipt arrives.  Calls of       *)
(* ensureTimeTravelCurrent are not serialised.                             *)
(***************************************************************************)
EXTENDS Naturals, FiniteSets, Sequences, FiniteSetsExt, SequencesExt

CONSTANTS
  Signers,      \* signing keys that a grant can list
  RuleDocs,     \* identifiers of rule documents
  UserRule,     \* the rule that targets the user; the others target everyone
  AcBudgets     \* bounds, one record per scenario: the directory entries there
                \* from the start, how many more arrive (entries) of which
                \* documents and witnesses, the calls and whether they overlap,
                \* the data entries (writes) and how many share a push (batch)

Callers == 1..2
AcDocs  == {"grant", "policy"} \cup RuleDocs
None    == <<"none">>
Null    == 0
Never   == 0
MaxTime == 9      \* trusted times of the model are below this bound

VARIABLES
  entries,   \* the store: sequence of [doc, op, tt, by]; tt = Never: no receipt
  time,      \* the clock that receipts are taken from
  changeSeq, \* the last change sequence number of the directory database
  index,     \* DirectoryTimeTravelIndex: [cursor, revs, chain]
  lastSeq,   \* lastTimeTravelChangeSeq (Null before the first call)
  call,      \* the calls of ensureTimeTravelCurrent
  writes,    \* the entries of one document of a database: each changes the one
             \* before it; [by, passes, rt, ct, rank]
  acBudget

acVars == <<entries, time, changeSeq, index, lastSeq, call, writes, acBudget>>

-----------------------------------------------------------------------------
(* Revisions: what a document says after the entries up to a trusted time. *)

Provisional(i) == entries[i].tt = Never

\* entryTrustedTime: an entry without a receipt counts as of now.
TrustedTime(i, now) == IF Provisional(i) THEN now ELSE entries[i].tt

\* Order of evaluation: trusted time, then entry id.
Before(i, j, now) ==
  \/ TrustedTime(i, now) < TrustedTime(j, now)
  \/ TrustedTime(i, now) = TrustedTime(j, now) /\ i < j

EntriesOf(d) == {i \in DOMAIN entries : entries[i].doc = d}

\* The fold over a document's entries up to and including entry i.  Keys are
\* added to and revoked from a grant; other documents are overwritten.
UpTo(d, i, now) == {j \in EntriesOf(d) : j = i \/ Before(j, i, now)}

LastIn(S, now) == CHOOSE i \in S : \A j \in S \ {i} : Before(j, i, now)

ActiveKeys(S, now) ==
  {k \in Signers :
     \E i \in S : /\ entries[i].op = <<"add", k>>
                  /\ ~ \E j \in S : Before(i, j, now) /\ entries[j].op = <<"revoke", k>>}

Contents(d, S, now) ==
  IF d = "grant" THEN ActiveKeys(S, now)
  ELSE LET W == {i \in S : entries[i].op /= <<"delete">>}
       IN  IF W = {} THEN None ELSE entries[LastIn(W, now)].op

\* computeIsDeletedFromMetadata
IsDeleted(S, now) == entries[LastIn(S, now)].op = <<"delete">>

Revision(d, i, now) ==
  LET S == UpTo(d, i, now)
  IN  [id |-> i, doc |-> d, data |-> Contents(d, S, now),
       deleted |-> IsDeleted(S, now), tt |-> TrustedTime(i, now),
       witnessed |-> ~Provisional(i)]

-----------------------------------------------------------------------------
(* The chain of directory states *)

\* A deleted default policy is ignored, a deleted rule is removed, a grant is
\* replaced by what it lists now.
ApplyPolicy(state, r) ==
  IF r.deleted \/ r.data = None THEN state ELSE [state EXCEPT !.policy = r.data]
ApplyRule(state, r)  == [state EXCEPT !.rules[r.doc] = IF r.deleted THEN None ELSE r.data]
ApplyGrantDoc(state, r) == [state EXCEPT !.grant = IF r.deleted THEN {} ELSE r.data]

\* projectDirectoryRevision
Project(state, r) ==
  CASE r.doc = "grant"  -> ApplyGrantDoc(state, r)
    [] r.doc = "policy" -> ApplyPolicy(state, r)
    [] OTHER            -> ApplyRule(state, r)

Genesis == [grant |-> {}, policy |-> None, rules |-> [d \in RuleDocs |-> None]]

\* rebuild: the stored revisions in the order of trusted time and id.
SortRevisions(revs) ==
  SetToSortSeq(revs, LAMBDA a, b : a.tt < b.tt \/ (a.tt = b.tt /\ a.id < b.id))

RECURSIVE Nodes(_, _, _)
Nodes(s, state, bound) ==
  IF s = <<>> THEN <<>>
  ELSE LET next == Project(state, Head(s))
           b    == IF Head(s).tt > bound THEN Head(s).tt ELSE bound
       IN  <<[upper |-> b, state |-> next]>> \o Nodes(Tail(s), next, b)

Chain(revs) == Nodes(SortRevisions(revs), Genesis, 0)

\* nodeCovering: walk back from the head while the bound lies after T.
StateAt(chain, T) ==
  LET covered == {i \in DOMAIN chain : chain[i].upper <= T}
  IN  IF covered = {} THEN Genesis ELSE chain[Max(covered)].state

HeadState(chain) == StateAt(chain, MaxTime)

-----------------------------------------------------------------------------
(* evaluateAccess *)

\* A rule is <<"rule", action, clause, target>>: with a clause on the contents
\* of the document ("with") it is decided by clients only.
Action(r)   == r[2]
HasClause(r) == r[3] = "with"
Targets(r)  == r[4]

\* identitySetForSigningKey: everyone, and the user when the key is granted at
\* the time of the decision.
Identity(state, k) ==
  {"everyone"} \cup (IF k \in state.grant THEN {"user"} ELSE {})

\* passes: the rules whose clauses hold for the document at hand.
EvaluateAccess(state, k, passes, isServer) ==
  LET cand == {d \in RuleDocs : /\ state.rules[d] /= None
                                /\ Targets(state.rules[d]) \in Identity(state, k)}
      tier2(d)   == HasClause(state.rules[d])
      decided    == {d \in cand : IF tier2(d) THEN ~isServer /\ d \in passes ELSE TRUE}
      deferred   == {d \in cand : isServer /\ tier2(d)}
      denied     == \E d \in decided : Action(state.rules[d]) = "deny"
      allowed    == \E d \in decided : Action(state.rules[d]) = "allow"
      baseDenied == state.policy = <<"policy", "deny">>
      deferAllow == \E d \in deferred : Action(state.rules[d]) = "allow"
  IN  CASE state.policy = None               -> TRUE
        [] state.policy = <<"policy", "off">> -> TRUE
        [] denied                            -> FALSE
        [] allowed                           -> TRUE
        [] OTHER                             -> ~baseDenied \/ deferAllow

-----------------------------------------------------------------------------
(* Materialization of a document under access control *)

AclEnforced(chain) == HeadState(chain).policy \notin {None, <<"policy", "off">>}

\* The order of evaluation: receipt time, or the author's time without one, then
\* the entry id.  Ids are hashes, except that the first entry, which has no
\* dependencies, sorts before the others.
EvalTime(w) == IF w.rt = Never THEN w.ct ELSE w.rt
EvalOrder(ws) ==
  SetToSortSeq(DOMAIN ws, LAMBDA i, j :
    \/ EvalTime(ws[i]) < EvalTime(ws[j])
    \/ EvalTime(ws[i]) = EvalTime(ws[j])
         /\ (i = 1 \/ (j /= 1 /\ ws[i].rank < ws[j].rank)))

\* Automerge holds a change back until the changes it depends on are there.
Applied(S) == {i \in S : 1..i \subseteq S}

\* The clauses that hold in the document are those its last change left.
ClausesOf(ws, S) == IF Applied(S) = {} THEN {} ELSE ws[Max(Applied(S))].passes

\* evaluateClientAccess and, on a server, evaluateAccessForSigningKey: the rules
\* of the time that is asked for.
ClientAccess(chain, T, k, clauses) == EvaluateAccess(StateAt(chain, T), k, clauses, FALSE)
ServerAccess(chain, T, k)          == EvaluateAccess(StateAt(chain, T), k, {}, TRUE)

\* getOrImportPublicKey: the author's key is granted at the time of the entry.
KeyTrustedAt(chain, T, k) == k \in StateAt(chain, T).grant

Verdict(chain, w, clauses) ==
  LET T == IF w.rt = Never THEN MaxTime ELSE w.rt
  IN  KeyTrustedAt(chain, T, w.by) /\ ClientAccess(chain, T, w.by, clauses)

\* Mutant: an entry that depends on a quarantined one is judged on its own.
JudgeNoCascade(chain, ws, acc, i) ==
  CASE acc.ok = {} /\ i /= 1 -> acc
    [] ~Verdict(chain, ws[i], ClausesOf(ws, acc.ok \cup {i})) ->
         [acc EXCEPT !.bad = @ \cup {i}]
    [] OTHER -> [acc EXCEPT !.ok = @ \cup {i}]

\* One entry: it shares the fate of a quarantined dependency, is skipped when
\* there is no document to change yet, and is judged otherwise.
Judge(chain, ws, acc, i) ==
  CASE i - 1 \in acc.bad -> [acc EXCEPT !.bad = @ \cup {i}]
    [] acc.ok = {} /\ i /= 1 -> acc
    [] ~Verdict(chain, ws[i], ClausesOf(ws, acc.ok \cup {i})) ->
         [acc EXCEPT !.bad = @ \cup {i}]
    [] OTHER -> [acc EXCEPT !.ok = @ \cup {i}]

\* maybeMaterializeWithAccessControl: the entries that make up the document.
Accepted(chain, ws) ==
  IF ~AclEnforced(chain) THEN DOMAIN ws
  ELSE FoldLeft(LAMBDA acc, i : Judge(chain, ws, acc, i),
                [ok |-> {}, bad |-> {}], EvalOrder(ws)).ok

-----------------------------------------------------------------------------
(* Entries *)

\* What the administrator writes: keys of a grant, the default policy, rules.
GrantOps   == {<<o, k>> : o \in {"add", "revoke"}, k \in Signers}
PolicyOps  == {<<"policy", p>> : p \in {"deny", "allow", "off"}}
RuleOps(d) == {<<"rule", a, c, IF d = UserRule THEN "user" ELSE "everyone">> :
                 a \in {"allow", "deny"}, c \in {"with", "plain"}}
DeleteRule == {<<"delete">>}

Ops(d) == CASE d = "grant"  -> GrantOps
            [] d = "policy" -> PolicyOps
            [] OTHER        -> RuleOps(d) \cup DeleteRule

AcInit ==
  /\ acBudget \in AcBudgets
  /\ entries = acBudget.first
  /\ time = 1 + Len(entries) /\ changeSeq = 1 + Len(entries)
  /\ index = [cursor |-> 0, revs |-> {}, chain |-> <<>>]
  /\ lastSeq = Null
  /\ call = [c \in Callers |-> [pc |-> "idle"]]
  /\ writes = <<>>

\* An entry is stored: with the receipt of a witness (synced), or without one
\* (written here).  Witness "late" stamps with an earlier time than the last
\* receipt, as a second witness does whose entries arrive later.
Store(d, op, w) ==
  /\ Len(entries) < Len(acBudget.first) + acBudget.entries /\ d \in acBudget.docs
  /\ acBudget.terse => op /= <<"policy", "allow">> /\ op /= <<"policy", "off">>
  /\ d = "grant" => op[2] \in acBudget.signers
  /\ w \in acBudget.witnesses
  /\ entries' = Append(entries,
       [doc |-> d, op |-> op,
        tt |-> CASE w = "here" -> Never [] w = "late" -> time - 2 [] OTHER -> time])
  /\ w = "late" => time > 2
  /\ time' = time + 1
  /\ changeSeq' = changeSeq + 1
  /\ UNCHANGED <<index, lastSeq, call, writes, acBudget>>

\* A receipt arrives for an entry of this client.  The document moves in the
\* changefeed when its last entry without a receipt gets one.
Receipt(i) ==
  /\ Provisional(i) /\ time < MaxTime - 1
  /\ entries' = [entries EXCEPT ![i].tt = time]
  /\ time' = time + 1
  /\ changeSeq' = IF \E j \in EntriesOf(entries[i].doc) : j /= i /\ Provisional(j)
                  THEN changeSeq ELSE changeSeq + 1
  /\ UNCHANGED <<index, lastSeq, call, writes, acBudget>>

-----------------------------------------------------------------------------
(* ensureTimeTravelCurrent *)

\* discoverRevisionEntries: the entries behind the cursor.  The cursor stops
\* before the first entry without a receipt.
Discovered(cursor) == {i \in DOMAIN entries : i > cursor}
ResumeCursor(cursor) ==
  LET open == {i \in Discovered(cursor) : Provisional(i)}
  IN  IF open = {} THEN Len(entries) ELSE Min(open) - 1

\* Callers are alike: the second one is used while the first is busy.
CallStart(c) ==
  /\ call[c].pc = "idle" /\ acBudget.calls > 0
  /\ \A o \in Callers : o < c => call[o].pc /= "idle"
  /\ acBudget' = [acBudget EXCEPT !.calls = @ - 1]
  /\ (\E o \in Callers \ {c} : call[o].pc /= "idle") => acBudget.overlap
  /\ IF lastSeq /= Null /\ lastSeq = changeSeq
     THEN UNCHANGED call
     ELSE call' = [call EXCEPT ![c] =
            [pc |-> "scan", latest |-> changeSeq]]
  /\ UNCHANGED <<entries, time, changeSeq, index, lastSeq, writes>>

CallScan(c) ==
  /\ call[c].pc = "scan"
  /\ call' = [call EXCEPT ![c] =
       [pc |-> "fold", latest |-> call[c].latest, now |-> time,
        new |-> Discovered(index.cursor), resume |-> ResumeCursor(index.cursor),
        changed |-> FALSE]]
  /\ UNCHANGED <<entries, time, changeSeq, index, lastSeq, writes, acBudget>>

\* Mutant: only the new entries of a document are emitted.
SuffixNewOnly(d, new, now) == EntriesOf(d) \cap new

\* foldDocRevisions re-reads all entries of a document with new ones and emits
\* its revisions from the first new one on, in the order of trusted time; each
\* replaces the stored revision of its entry (upsertRevision).
Suffix(d, new, now) ==
  LET first == {i \in EntriesOf(d) \cap new : ~ \E j \in EntriesOf(d) \cap new :
                  Before(j, i, now)}
  IN  {i \in EntriesOf(d) : \E f \in first : i = f \/ Before(f, i, now)}

UpsertRevision(revs, emitted) ==
  {r \in revs : \A e \in emitted : e.id /= r.id} \cup emitted

CallFold(c, d) ==
  /\ call[c].pc = "fold"
  /\ LET new     == {i \in call[c].new : entries[i].doc = d}
         emitted == {Revision(d, i, call[c].now) : i \in Suffix(d, new, call[c].now)}
     IN  /\ new /= {}
         /\ index' = [index EXCEPT !.cursor = call[c].resume,
                                   !.revs = UpsertRevision(@, emitted)]
         /\ call' = [call EXCEPT ![c].new = @ \ new,
                                 ![c].changed = @ \/ ~(emitted \subseteq index.revs)]
  /\ UNCHANGED <<entries, time, changeSeq, lastSeq, writes, acBudget>>

CallEnd(c) ==
  /\ call[c].pc = "fold" /\ call[c].new = {}
  /\ index' = IF call[c].changed THEN [index EXCEPT !.chain = Chain(index.revs)]
              ELSE index
  /\ lastSeq' = call[c].latest
  /\ call' = [call EXCEPT ![c] = [pc |-> "idle"]]
  /\ UNCHANGED <<entries, time, changeSeq, writes, acBudget>>

-----------------------------------------------------------------------------
(* Entries of the document *)

\* assertWriteAllowed: a client writes only what its own directory allows now.
WriteDocument(k, passes, rank) ==
  /\ Len(writes) < acBudget.writes
  /\ \A c \in Callers : call[c].pc = "idle"
  /\ AclEnforced(index.chain) =>
       ClientAccess(index.chain, MaxTime, k, passes)
  /\ \A i \in DOMAIN writes : writes[i].rank /= rank
  /\ acBudget.batch > 1 \/ rank = Len(writes) + 1   \* ids decide ties only
  /\ writes' = Append(writes, [by |-> k, passes |-> passes, rt |-> Never,
                              ct |-> time, rank |-> rank])
  /\ time' = time + 1
  /\ UNCHANGED <<entries, changeSeq, index, lastSeq, call, acBudget>>

\* A push stamps its entries with one time, which the server takes once.
PushWrites(n) ==
  LET open == {i \in DOMAIN writes : writes[i].rt = Never}
      sent == {i \in open : i < Min(open) + n}
  IN  /\ open /= {} /\ n <= acBudget.batch
      /\ Min(open) + n - 1 \in open
      /\ writes' = [i \in DOMAIN writes |->
                      IF i \in sent THEN [writes[i] EXCEPT !.rt = time] ELSE writes[i]]
      /\ time' = time + 1
      /\ UNCHANGED <<entries, changeSeq, index, lastSeq, call, acBudget>>

-----------------------------------------------------------------------------
(* Properties *)

Settled == (\A c \in Callers : call[c].pc = "idle") /\ lastSeq = changeSeq

\* The directory as of time T, from the entries themselves.
Reference(T) ==
  LET S(d) == {i \in EntriesOf(d) : ~Provisional(i) /\ entries[i].tt <= T}
  IN  [grant  |-> ActiveKeys(S("grant"), time),
       policy |-> Contents("policy", S("policy"), time),
       rules  |-> [d \in RuleDocs |->
                     IF S(d) = {} \/ IsDeleted(S(d), time) THEN None
                     ELSE Contents(d, S(d), time)]]

\* Whatever the order in which entries and receipts arrive and calls overlap, a
\* settled index gives, for every time before the entries that still wait for a
\* receipt, the state that the witnessed entries up to that time describe.
ChainIsReplay ==
  Settled =>
    \A T \in 1..time :
      (\A r \in index.revs : r.witnessed \/ r.tt > T) =>
         StateAt(index.chain, T) = Reference(T)

\* A server never refuses an operation that a client would accept, whatever the
\* document contains: clients and servers only differ where the server defers.
ServerNeverStricter ==
  \A i \in DOMAIN index.chain, k \in acBudget.signers, passes \in SUBSET RuleDocs :
    LET T == index.chain[i].upper
    IN  ClientAccess(index.chain, T, k, passes) => ServerAccess(index.chain, T, k)

\* The accepted entries of a document are those that the rules at their own time
\* allow, with everything they build on: a prefix that is causally closed, the
\* same on every replica that has the receipts; and no server has refused one.
AcceptedIsClosed ==
  /\ ServerNeverStricter
  /\ Settled /\ AclEnforced(index.chain) /\ (\A i \in DOMAIN writes : writes[i].rt /= Never) =>
       Accepted(index.chain, writes) =
         {i \in DOMAIN writes :
            \A j \in 1..i : Verdict(index.chain, writes[j], writes[j].passes)}
=============================================================================
