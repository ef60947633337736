----------------------------- MODULE Directory -----------------------------
(***************************************************************************)
(* The tenant directory of one client (BaseMindooTenantDirectory): the     *)
(* administrator's documents (grants of users, groups, key distributions,  *)
(* settings) as the directory database indexes them, the operations that   *)
(* write them, and the in-memory caches that updateUnifiedCache derives    *)
(* from the changefeed.  The passes of updateUnifiedCache are not          *)
(* serialised: every method starts its own, and each of them takes a       *)
(* snapshot of the feed and then awaits one document after the other.      *)
(*                                                                         *)
(* A document is known by the kind of its data; names, labels and          *)
(* encrypted display fields are left out.  Writes made on another device   *)
(* reach the index as the same administrator process: the lag between      *)
(* store and index is the subject of DocReplay.                            *)
(***************************************************************************)
EXTENDS Naturals, FiniteSets, Sequences, FiniteSetsExt, Functions

CONSTANTS
  Keys,        \* signing keys of the devices of one user
  GrantDocs,   \* identifiers of grantaccess documents
  GroupDocs,   \* identifiers of group documents (all of one group name)
  Members,     \* names that can be members of the group
  DefaultDist, \* the distribution of the tenant's default key
  AppDist,     \* the distribution of an application
  SyncSetup,   \* a sync setup policy
  User,        \* the user whose grants these are, a member name
  Budgets      \* bounds, one record per scenario: the administrator's operations
               \* (ops) and how many of them (writes), the validations (asks),
               \* and whether documents may have to be loaded from the store (cold)

ASSUME BudgetsAssumption ==
  \A b \in Budgets : b.writes \in Nat /\ b.asks \in Nat

Passers == {"adm", "ask"}
DistDocs == {DefaultDist, AppDist, SyncSetup}
DocIds  == GrantDocs \cup GroupDocs \cup DistDocs \cup {"settings"}
NoDoc   == "no document"
NoDist  == [none |-> TRUE]

VARIABLES
  seqs,      \* position of each document in the changefeed, 0 if absent
  deleted,   \* the documents whose last entry is a deletion
  data,      \* the contents of each document
  cursor,    \* unifiedCacheLastCursor, 0 for null
  grantKeys, \* grantDocIdToSigningKeys
  trusted,   \* trustedKeysCache
  lookups,   \* the keys of userLookupCache
  wipes,     \* the keys of wipeKeyToGrantDocId
  group,     \* groupsCache of the one group: [doc, members]
  dists,     \* keyDistributionCache, appDistributionCache, syncSetupPolicyCache
  heard,     \* keys of which open databases were told (reconcileAuthorTrust)
  pass,      \* the pass of updateUnifiedCache each process is in
  adm,       \* the administrator's operation
  ask,       \* the call of validatePublicSigningKey
  fresh,     \* DIRECTORY_SYNC_INTERVAL_MS has not passed since the last sync
  budget     \* what this scenario still allows

docVars   == <<seqs, deleted, data>>
cacheVars == <<cursor, grantKeys, trusted, lookups, wipes, group, dists, heard>>
dirVars   == <<docVars, cacheVars, pass, adm, ask, fresh, budget>>

-----------------------------------------------------------------------------
(* Documents *)

\* grantKeys.ts: a pair is in the active or in the revoked list of its grant;
\* a key of neither list has no pair.
BlankGrant == [active |-> {}, revoked |-> {}, wipe |-> {}]
BlankGroup == [members |-> {}]
BlankDist  == [push |-> {}, pull |-> {}]

Blank(d) == CASE d \in GrantDocs -> BlankGrant
              [] d \in GroupDocs -> BlankGroup
              [] d \in DistDocs  -> BlankDist
              [] OTHER           -> {}

\* mergeKeyPairs and applyKeyPairFields: an added pair replaces the pair of the
\* same signing key, its revocation included.
AddPairs(g, ks) == [g EXCEPT !.active = @ \cup ks, !.revoked = @ \ ks]

\* removeUserKeys: the pairs stay in the document, marked as revoked.
RevokePairs(g, ks) ==
  [g EXCEPT !.active = @ \ ks, !.revoked = @ \cup (ks \cap g.active)]

\* updateUserGrant: restored pairs lose their mark, and their wipe request.
RestorePairs(g, ks) ==
  LET back == ks \cap g.revoked
  IN  [active  |-> g.active \cup back,
       revoked |-> g.revoked \ back,
       wipe    |-> (g.wipe \cap (g.active \cup g.revoked)) \ ks]

RequestWipe(g, ks) == [g EXCEPT !.wipe = @ \cup ks]
CancelWipe(g, ks)  == [g EXCEPT !.wipe = @ \ ks]

\* What the administrator's operation does to one grant document.
Mutate(op, g, ks) ==
  CASE op = "add"     -> AddPairs(g, ks)
    [] op = "revoke"  -> RevokePairs(g, ks)
    [] op = "wipe"    -> RequestWipe(g, ks)
    [] op = "cancel"  -> CancelWipe(g, ks)
    [] op = "restore" -> RestorePairs(g, ks)

Live(ds)       == {d \in ds : seqs[d] > 0 /\ d \notin deleted}
NextSeq        == 1 + Max({seqs[d] : d \in DocIds})
GrantedKeys    == UNION {data[d].active : d \in Live(GrantDocs)}
LastOf(ds)     == CHOOSE d \in ds : \A e \in ds : seqs[e] <= seqs[d]

\* A change of a document appends an entry and moves it to the end of the feed.
Write(d, value) ==
  /\ seqs' = [seqs EXCEPT ![d] = NextSeq]
  /\ deleted' = deleted \ {d}
  /\ data' = [data EXCEPT ![d] = value]

Delete(d) ==
  /\ seqs' = [seqs EXCEPT ![d] = NextSeq]
  /\ deleted' = deleted \cup {d}
  /\ UNCHANGED data

-----------------------------------------------------------------------------
Idle      == [pc |-> "idle"]
NoPass    == [pc |-> "idle"]
Running(p) == pass[p].pc /= "idle"

DirInit ==
  /\ seqs = [d \in DocIds |-> 0]
  /\ deleted = {}
  /\ data = [d \in DocIds |-> Blank(d)]
  /\ cursor = 0
  /\ grantKeys = [d \in GrantDocs |-> {}]
  /\ trusted = {} /\ lookups = {} /\ wipes = {} /\ heard = {}
  /\ group = [doc |-> NoDoc, members |-> {}]
  /\ dists = [d \in DistDocs |-> NoDist]
  /\ pass = [p \in Passers |-> NoPass]
  /\ adm = Idle /\ ask = Idle
  /\ fresh = FALSE
  /\ budget \in Budgets

-----------------------------------------------------------------------------
(* updateUnifiedCache *)

\* The feed behind the cursor, as iterateChangesSince copies it.  A deleted
\* document is delivered as a tombstone without data.
Snapshot(c) == {[doc |-> d, seq |-> seqs[d], gone |-> d \in deleted] :
                  d \in {e \in DocIds : seqs[e] > c}}

\* A pass from the beginning clears the caches first, except those of
\* applications and sync setups.
PassStart(p) ==
  /\ pass[p].pc = "start"
  /\ pass' = [pass EXCEPT ![p] =
       [pc |-> "next", todo |-> Snapshot(cursor), prev |-> trusted,
        seen |-> <<>>, at |-> NoDoc]]
  /\ IF cursor = 0
     THEN /\ trusted' = {} /\ lookups' = {} /\ wipes' = {}
          /\ grantKeys' = [d \in GrantDocs |-> {}]
          /\ group' = [doc |-> NoDoc, members |-> {}]
          /\ dists' = [dists EXCEPT ![DefaultDist] = NoDist]
     ELSE UNCHANGED <<trusted, lookups, wipes, grantKeys, group, dists>>
  /\ UNCHANGED <<docVars, cursor, heard, adm, ask, fresh, budget>>

NextEntry(p) == CHOOSE e \in pass[p].todo : \A f \in pass[p].todo : e.seq <= f.seq

\* The document as the pass sees it: what the feed entry and the load gave.
Loaded(e) == [doc |-> e.doc, seq |-> e.seq,
              gone |-> e.gone \/ e.doc \in deleted,
              value |-> IF e.gone THEN Blank(e.doc) ELSE data[e.doc],
              empty |-> e.gone]

\* Applying one document to the caches; the cursor moves to its feed entry.
ApplyGrant(l) ==
  /\ grantKeys' = [grantKeys EXCEPT ![l.doc] = l.value.active]
  /\ lookups' = lookups \cup l.value.active
  /\ wipes' = wipes \cup l.value.wipe
  /\ UNCHANGED dists

ApplyDist(l) ==
  /\ dists' = [dists EXCEPT ![l.doc] = IF l.gone THEN NoDist ELSE l.value]
  /\ UNCHANGED <<grantKeys, lookups, wipes>>

ApplyDoc(p, l, rest) ==
  /\ CASE l.empty              -> UNCHANGED <<grantKeys, lookups, wipes, dists>>
       [] l.doc \in GrantDocs  -> ApplyGrant(l)
       [] l.doc \in DistDocs   -> ApplyDist(l)
       [] OTHER                -> UNCHANGED <<grantKeys, lookups, wipes, dists>>
  /\ cursor' = l.seq
  /\ pass' = [pass EXCEPT ![p].todo = rest, ![p].at = NoDoc, ![p].pc = "next",
                          ![p].seen = IF l.doc \in GroupDocs /\ ~l.empty
                                      THEN Append(@, l) ELSE @]

\* A resident document is applied at once.
PassDoc(p) ==
  /\ pass[p].pc = "next" /\ pass[p].todo /= {}
  /\ LET e == NextEntry(p) IN ApplyDoc(p, Loaded(e), pass[p].todo \ {e})
  /\ UNCHANGED <<docVars, trusted, group, heard, adm, ask, fresh, budget>>

\* A document outside the document cache is loaded first, and applied when the
\* load has come back.
PassLoad(p) ==
  /\ budget.cold
  /\ pass[p].pc = "next" /\ pass[p].todo /= {}
  /\ pass' = [pass EXCEPT ![p].pc = "loaded", ![p].at = Loaded(NextEntry(p))]
  /\ UNCHANGED <<docVars, cacheVars, adm, ask, fresh, budget>>

PassApply(p) ==
  /\ pass[p].pc = "loaded"
  /\ ApplyDoc(p, pass[p].at, {e \in pass[p].todo : e.seq /= pass[p].at.seq})
  /\ UNCHANGED <<docVars, trusted, group, heard, adm, ask, fresh, budget>>

\* The group documents that this pass saw are merged; one of them deleted
\* removes the group.
MergeGroups(seen) ==
  IF seen = <<>> THEN group
  ELSE IF \E l \in Range(seen) : l.gone THEN [doc |-> NoDoc, members |-> {}]
  ELSE [doc |-> seen[Len(seen)].doc,
        members |-> UNION {l.value.members : l \in Range(seen)}]

\* Mutant: the trusted keys only grow (revocations are never taken out).
PassEndKeepsTrust(p) ==
  /\ pass[p].pc = "next" /\ pass[p].todo = {}
  /\ trusted' = trusted \cup UNION Range(grantKeys)
  /\ heard' = (heard \cap trusted') \cup (trusted' \ pass[p].prev)
  /\ group' = MergeGroups(pass[p].seen)
  /\ pass' = [pass EXCEPT ![p] = [pc |-> "done"]]
  /\ UNCHANGED <<docVars, cursor, grantKeys, lookups, wipes, dists, adm, ask,
                 fresh, budget>>

\* The end of a pass: the trusted keys are the union over the grants, the open
\* databases hear of the new ones, the groups are merged.
PassEnd(p) ==
  /\ pass[p].pc = "next" /\ pass[p].todo = {}
  /\ trusted' = UNION Range(grantKeys)
  /\ heard' = (heard \cap trusted') \cup (trusted' \ pass[p].prev)
  /\ group' = MergeGroups(pass[p].seen)
  /\ pass' = [pass EXCEPT ![p] = [pc |-> "done"]]
  /\ UNCHANGED <<docVars, cursor, grantKeys, lookups, wipes, dists, adm, ask,
                 fresh, budget>>

-----------------------------------------------------------------------------
(* The administrator *)

Spend == budget' = [budget EXCEPT !.writes = @ - 1]
Needs(op) == adm.pc = "idle" /\ budget.writes > 0 /\ op \in budget.ops

\* Every operation on a grant first looks for the user's grant documents,
\* which runs a pass (findGrantAccessDocuments).
GrantOp(op, ks, then) ==
  /\ Needs(op) /\ Spend
  /\ adm' = [pc |-> "find", op |-> op, keys |-> ks, then |-> then]
  /\ pass' = [pass EXCEPT !["adm"].pc = "start"]
  /\ UNCHANGED <<docVars, cacheVars, ask, fresh>>

RegisterUser(k)   == GrantOp("register", {k}, "end")
RestoreUser(ks)   == GrantOp("restore", ks, "end")
CancelDeviceWipe(ks) == GrantOp("cancel", ks, "end")

\* revokeUser: a requested wipe is written to all grants before the keys are
\* revoked in any of them.
RevokeUser(ks, wipe) ==
  GrantOp(IF wipe THEN "wipe" ELSE "revoke", ks,
          IF wipe THEN "revoke" ELSE "end")

\* findGrantAccessDocuments returns every document of the user, also those
\* without an active key.  Only registerUser looks at the active ones: it ends
\* when the latest of them has the key, adds the key when there is one, and
\* writes a new grant otherwise.  The other operations fail without a grant.
GrantsFound ==
  /\ adm.pc = "find" /\ pass["adm"].pc = "done"
  /\ LET found  == Live(GrantDocs)
         active == {d \in found : data[d].active /= {}}
         stop   == adm' = Idle /\ UNCHANGED docVars
         edit(op) == /\ adm' = [pc |-> "edit", op |-> op, keys |-> adm.keys,
                                then |-> adm.then, todo |-> found]
                     /\ UNCHANGED docVars
     IN  CASE adm.op /= "register" ->
                IF found = {} THEN stop ELSE edit(adm.op)
           [] active /= {} ->
                IF adm.keys \subseteq data[LastOf(active)].active
                THEN stop ELSE edit("add")
           [] OTHER ->
                \/ \E d \in GrantDocs :
                     /\ seqs[d] = 0
                     /\ Write(d, AddPairs(BlankGrant, adm.keys))
                     /\ adm' = [pc |-> "distribute"]
                \/ /\ \A d \in GrantDocs : seqs[d] > 0
                   /\ stop
  /\ pass' = [pass EXCEPT !["adm"] = NoPass]
  /\ UNCHANGED <<cacheVars, ask, fresh, budget>>

\* autoDistributeKeysToUser: the default key's distribution names the new user
\* as a recipient, and no longer as one to withdraw the key from.  Without the
\* key or without a published user key nothing is written.
AutoDistribute ==
  /\ adm.pc = "distribute"
  /\ \/ /\ LET old == IF DefaultDist \in Live(DistDocs) THEN data[DefaultDist]
                      ELSE BlankDist
           IN  Write(DefaultDist, [push |-> old.push \cup {User},
                                   pull |-> old.pull \ {User}])
        /\ adm' = [pc |-> "refresh"]
        /\ pass' = [pass EXCEPT !["adm"].pc = "start"]
     \/ adm' = Idle /\ UNCHANGED <<docVars, pass>>
  /\ UNCHANGED <<cacheVars, ask, fresh, budget>>

\* editGrantArrays changes one document after the other ...
EditGrant(d) ==
  /\ adm.pc = "edit" /\ d \in adm.todo
  /\ Write(d, Mutate(adm.op, data[d], adm.keys))
  /\ adm' = [adm EXCEPT !.todo = @ \ {d}]
  /\ UNCHANGED <<cacheVars, pass, ask, fresh, budget>>

\* ... and then runs a pass; revokeUser goes on to the revocation.
EditEnd ==
  /\ adm.pc = "edit" /\ adm.todo = {}
  /\ adm' = IF adm.then = "end" THEN [pc |-> "refresh"]
            ELSE [pc |-> "find", op |-> adm.then, keys |-> adm.keys, then |-> "end"]
  /\ pass' = [pass EXCEPT !["adm"].pc = "start"]
  /\ UNCHANGED <<docVars, cacheVars, ask, fresh, budget>>

AdmRefreshed ==
  /\ adm.pc = "refresh" /\ pass["adm"].pc = "done"
  /\ adm' = Idle
  /\ pass' = [pass EXCEPT !["adm"] = NoPass]
  /\ UNCHANGED <<docVars, cacheVars, ask, fresh, budget>>

\* The administrator's client stops between two documents of an edit.
AdmCrash ==
  /\ adm.pc = "edit" /\ "crash" \in budget.ops
  /\ adm' = Idle
  /\ UNCHANGED <<docVars, cacheVars, pass, ask, fresh, budget>>

\* addUsersToGroup extends the cached group document, or begins a new one when
\* the cache (which it does not refresh) has none.
AddUsersToGroup(m) ==
  /\ Needs("group") /\ Spend
  /\ \/ /\ group.doc /= NoDoc /\ group.doc \notin deleted
        /\ Write(group.doc, [members |-> data[group.doc].members \cup {m}])
     \/ \E d \in GroupDocs :
          /\ group.doc = NoDoc /\ seqs[d] = 0
          /\ Write(d, [members |-> {m}])
  /\ group' = [doc |-> NoDoc, members |-> {}]
  /\ cursor' = 0
  /\ UNCHANGED <<grantKeys, trusted, lookups, wipes, dists, heard, pass, adm,
                 ask, fresh>>

\* removeUsersFromGroup and deleteGroup run a pass and then change the one
\* document the cache names.
GroupOp(op, m) ==
  /\ Needs("group") /\ Spend
  /\ adm' = [pc |-> "findgroup", op |-> op, member |-> m]
  /\ pass' = [pass EXCEPT !["adm"].pc = "start"]
  /\ UNCHANGED <<docVars, cacheVars, ask, fresh>>

GroupFound ==
  /\ adm.pc = "findgroup" /\ pass["adm"].pc = "done"
  /\ adm' = Idle
  /\ pass' = [pass EXCEPT !["adm"] = NoPass]
  /\ IF group.doc = NoDoc
     THEN UNCHANGED <<docVars, group, cursor>>
     ELSE /\ IF adm.op = "delete" THEN Delete(group.doc)
             ELSE Write(group.doc,
                        [members |-> data[group.doc].members \ {adm.member}])
          /\ group' = [doc |-> NoDoc, members |-> {}]
          /\ cursor' = 0
  /\ UNCHANGED <<grantKeys, trusted, lookups, wipes, dists, heard, ask, fresh,
                 budget>>

\* changeTenantSettings and changeDBSettings: the cache is rebuilt from the
\* beginning by the next pass.
ChangeSettings ==
  /\ Needs("settings") /\ Spend
  /\ Write("settings", {})
  /\ cursor' = 0
  /\ UNCHANGED <<grantKeys, trusted, lookups, wipes, group, dists, heard, pass,
                 adm, ask, fresh>>

\* Publishing writes the one document of the key, application or policy and runs
\* a pass.  No name may be on both lists, and every user who is to receive
\* something must have an active grant.
Publish(d, push, pull) ==
  /\ Spend
  /\ push \cap pull = {}
  /\ push \cap Members \subseteq {m \in {User} : GrantedKeys /= {}}
  /\ Write(d, [push |-> push, pull |-> pull])
  /\ adm' = [pc |-> "refresh"]
  /\ pass' = [pass EXCEPT !["adm"].pc = "start"]
  /\ UNCHANGED <<cacheVars, ask, fresh>>

\* Deleting what is not there is caught and ignored; the pass runs all the same.
Unpublish(d) ==
  /\ Spend
  /\ IF d \in Live(DistDocs) THEN Delete(d) ELSE UNCHANGED docVars
  /\ adm' = [pc |-> "refresh"]
  /\ pass' = [pass EXCEPT !["adm"].pc = "start"]
  /\ UNCHANGED <<cacheVars, ask, fresh>>

PublishKeyDistribution(push, pull) == Needs("dist") /\ Publish(DefaultDist, push, pull)
DeleteKeyDistribution == Needs("dist") /\ Unpublish(DefaultDist)

PublishAppDistribution(push, pull) == Needs("app") /\ Publish(AppDist, push, pull)
DeleteAppDistribution == Needs("app") /\ Unpublish(AppDist)

PublishSyncSetupPolicy(push, pull) == Needs("setup") /\ Publish(SyncSetup, push, pull)
DeleteSyncSetupPolicy == Needs("setup") /\ Unpublish(SyncSetup)

-----------------------------------------------------------------------------
(* validatePublicSigningKey *)

\* `began` remembers where the feed ended when the call was made.
AskStart(k, forced) ==
  /\ ask.pc = "idle" /\ budget.asks > 0
  /\ budget' = [budget EXCEPT !.asks = @ - 1]
  /\ ask' = [pc |-> IF forced \/ ~fresh THEN "sync" ELSE "look",
             key |-> k, forced |-> forced, began |-> NextSeq]
  /\ pass' = [pass EXCEPT !["ask"].pc = IF forced \/ ~fresh THEN "start" ELSE @]
  /\ UNCHANGED <<docVars, cacheVars, adm, fresh>>

\* A key the cache does not know is looked up once more after a sync.
AskLook ==
  /\ ask.pc = "look"
  /\ IF ask.key \in trusted
     THEN /\ ask' = [ask EXCEPT !.pc = "yes"]
          /\ UNCHANGED pass
     ELSE /\ ask' = [ask EXCEPT !.pc = "sync"]
          /\ pass' = [pass EXCEPT !["ask"].pc = "start"]
  /\ UNCHANGED <<docVars, cacheVars, adm, fresh, budget>>

AskSynced ==
  /\ ask.pc = "sync" /\ pass["ask"].pc = "done"
  /\ fresh' = TRUE
  /\ ask' = [ask EXCEPT !.pc = IF ask.key \in trusted THEN "yes" ELSE "no"]
  /\ pass' = [pass EXCEPT !["ask"] = NoPass]
  /\ UNCHANGED <<docVars, cacheVars, adm, budget>>

AskReturn ==
  /\ ask.pc \in {"yes", "no"}
  /\ ask' = Idle
  /\ UNCHANGED <<docVars, cacheVars, pass, adm, fresh, budget>>

IntervalPasses ==
  /\ fresh /\ fresh' = FALSE
  /\ UNCHANGED <<docVars, cacheVars, pass, adm, ask, budget>>

-----------------------------------------------------------------------------
(* Properties *)

Quiet == \A p \in Passers : ~Running(p)
AtEnd == Quiet /\ cursor = NextSeq - 1

\* An idle client whose cursor is at the end of the feed trusts exactly the keys
\* that the grant documents list as active: incremental passes, full rebuilds
\* and passes that overlap leave the same trusted keys.
TrustIsUnionOfGrants == AtEnd => trusted = GrantedKeys

\* A forced validation does not accept a key that every grant had revoked before
\* the call was made.
RevocationObserved ==
  ask.pc = "yes" /\ ask.forced /\ (\A d \in GrantDocs : seqs[d] < ask.began)
    => ask.key \in GrantedKeys

\* Open databases are told of every key that becomes trusted, so that entries
\* skipped for an unknown author are read again.  (A key that is revoked and
\* restored while a pass runs may not be told of a second time.)
NewKeysHeard ==
  Quiet /\ budget.ops \cap {"revoke", "wipe"} = {} => trusted \subseteq heard

\* A client that is up to date knows every device that is to be wiped.
WipesKnown ==
  AtEnd => \A d \in Live(GrantDocs) : data[d].wipe \subseteq wipes

\* Of a distribution that exists an up-to-date client has what the document
\* holds, and of one that never was it has nothing.  Of a deleted one it has
\* nothing or, still, what the document held last: the feed delivers the deletion
\* as a tombstone without data, whose type the branches that drop the entry do
\* not recognise, and only a rebuild clears the cache (of keys, not of
\* applications and sync setups).
DistributionsCurrent ==
  AtEnd => \A d \in DistDocs :
    /\ seqs[d] = 0 => dists[d] = NoDist
    /\ d \in Live(DistDocs) => dists[d] = data[d]
    /\ d \in deleted => dists[d] \in {NoDist, data[d]}

\* What the comments of updateUnifiedCache say: "A deleted distribution drops its
\* entry."  The code does not keep this.
DeletedIsDropped ==
  AtEnd => \A d \in DistDocs \cap deleted : dists[d] = NoDist

\* What a client may rely on: the directory cache says what the documents say,
\* and those who depend on it hear of what is new.
DirectoryCurrent ==
  TrustIsUnionOfGrants /\ RevocationObserved /\ NewKeysHeard /\ WipesKnown /\ DistributionsCurrent
=============================================================================
