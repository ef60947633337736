------------------------------- MODULE KeyBag -------------------------------
(* The document keys of one tenant on one device: the key bag and its change *)
(* feed (KeyBag.ts), the tenant's reconciliation of its open databases with  *)
(* the bag (BaseMindooTenant.reconcileKeyBagChanges), and the import and     *)
(* removal of keys that administrators distribute                            *)
(* (BaseMindooTenantDirectory.reconcileImportedKeysForCurrentUser).          *)
(* A key version is the number of its createdAt stamp; two versions of a key *)
(* never share a stamp here.                                                 *)
EXTENDS Integers, SequencesExt

CONSTANTS
  KeyIds,     \* the document keys of the tenant
  DefaultKey, \* the tenant's default key, one of KeyIds
  Foreign,    \* a key of another tenant in the same bag
  Dbs,        \* live databases
  OldDbs,     \* databases opened at a past date (time travel)
  KbBudgets   \* the scenarios, one of which Init chooses

(* A distribution of a key: its versions, whether it is pushed to the user    *)
(* or pulled back, and whether the user can open it.                          *)
Distributions == [man : {S \in SUBSET Nat : IsFiniteSet(S)}, push : BOOLEAN, pull : BOOLEAN,
                  opens : BOOLEAN]

(* What the environment may do in a scenario. *)
Ops == {"set", "delete", "foreign", "get", "await", "fail", "open", "distribute", "pass", "wipe"}
Budgets == [n : Nat, ops : SUBSET Ops, versions : SUBSET Nat, dists : SUBSET Distributions]

ASSUME KbAssumption ==
  /\ DefaultKey \in KeyIds /\ Foreign \notin KeyIds /\ IsFiniteSet(KeyIds)
  /\ Dbs \cap OldDbs = {}
  /\ KbBudgets \subseteq Budgets

VARIABLES
  bag,     \* the versions of every key
  feed,    \* keyChanges: the key of every event, in order of changeSeq
  cursor,  \* keyBagChangeCursor
  run,     \* the reconciliation in flight, keyBagReconcilePromise
  opened,  \* databaseCache, in insertion order
  opening, \* databaseOpenInFlight
  view,    \* the keys whose documents a database shows
  cached,  \* decryptedTenantKeyCache, 0 for none
  dist,    \* the key distributions for this user, and whether it can open them
  pass,    \* the distribution reconciliation in flight: the keys left
  followed,\* ghost: keys whose current distribution was applied last
  missed,  \* ghost: databases that were being opened while a key changed or a
           \* change was not yet reconciled, or left out by a failing reconciliation
  wiped,   \* wipeLocalTenant ran
  kbBudget \* what the environment may still do

kbVars == <<bag, feed, cursor, run, opened, opening, view, cached,
            dist, pass, followed, missed, wiped, kbBudget>>

NoRun  == [phase |-> "idle", latest |-> 0, saw |-> FALSE, done |-> {}, db |-> 0, ks |-> {}]
NoPass == [on |-> FALSE, ks |-> {}, await |-> FALSE]
NewRun == [NoRun EXCEPT !.phase = "events", !.latest = cursor]

KbSpend(kind) ==
  /\ kind \in kbBudget.ops /\ kbBudget.n > 0
  /\ kbBudget' = [kbBudget EXCEPT !.n = @ - 1]

OpenDbs == Range(opened)

(* What getAllKeyVersions puts first: the newest stamp. *)
Newest(versions) == IF versions = {} THEN 0 ELSE Max(versions)

(* Keys of which the bag holds a version. *)
Readable(b) == {k \in KeyIds : b[k] # {}}

(* hasDecryptionKey: the default key is looked up in the cache first, and     *)
(* "ks" with the default key among them fill the cache.                       *)
CanRead(ks) == {k \in ks : bag[k] # {} \/ (k = DefaultKey /\ cached # 0)}
CacheFilled(ks) == IF DefaultKey \in ks /\ cached = 0 THEN Newest(bag[DefaultKey]) ELSE cached

(* recordKeyChange: the event, and the listener's call of                     *)
(* reconcileKeyBagChanges, which starts a run or joins the one in flight.     *)
(* The listener is gone once the tenant was wiped.                            *)
Changed(ks) ==
  /\ feed' = feed \o ks
  /\ run' = IF ks # <<>> /\ ~wiped /\ run.phase = "idle" /\ \E i \in DOMAIN ks : ks[i] # Foreign
            THEN NewRun ELSE run
  /\ missed' = IF ks # <<>> THEN missed \cup opening ELSE missed

-----------------------------------------------------------------------------
(* The bag *)

(* set and decryptAndImportKey: bytes that are there already change nothing. *)
SetKey(k, v) ==
  /\ v \notin bag[k] /\ KbSpend("set")
  /\ bag' = [bag EXCEPT ![k] = @ \cup {v}] /\ Changed(<<k>>)
  /\ followed' = followed \ {k}
  /\ UNCHANGED <<cursor, opened, opening, view, cached, dist, pass, wiped>>

DeleteKey(k) ==
  /\ bag[k] # {} /\ KbSpend("delete")
  /\ bag' = [bag EXCEPT ![k] = {}] /\ Changed(<<k>>)
  /\ followed' = followed \ {k}
  /\ UNCHANGED <<cursor, opened, opening, view, cached, dist, pass, wiped>>

(* deleteKeyVersion, and removeDecryptionKeyVersionsByFingerprint. *)
DeleteKeyVersion(k, v) ==
  /\ v \in bag[k] /\ KbSpend("delete")
  /\ bag' = [bag EXCEPT ![k] = @ \ {v}] /\ Changed(<<k>>)
  /\ followed' = followed \ {k}
  /\ UNCHANGED <<cursor, opened, opening, view, cached, dist, pass, wiped>>

(* Another tenant's key changes in the shared bag. *)
ForeignChange ==
  /\ KbSpend("foreign") /\ Changed(<<Foreign>>)
  /\ UNCHANGED <<bag, cursor, opened, opening, view, cached, dist, pass,
                 followed, wiped>>

(* getSymmetricKey of the default key. *)
GetSymmetricKey ==
  /\ "get" \in kbBudget.ops
  /\ cached # CacheFilled(KeyIds) /\ cached' = CacheFilled(KeyIds)
  /\ UNCHANGED <<bag, feed, cursor, run, opened, opening, view, dist, pass,
                 followed, missed, wiped, kbBudget>>

-----------------------------------------------------------------------------
(* reconcileKeyBagChanges *)

(* A caller awaits it: the run in flight, or a new one. *)
AwaitReconcile ==
  /\ KbSpend("await")
  /\ run' = IF run.phase = "idle" THEN NewRun ELSE run
  /\ UNCHANGED <<bag, feed, cursor, opened, opening, view, cached, dist, pass, followed,
                 missed, wiped>>

(* One event; events of other tenants only move the cursor. *)
RunEvent ==
  LET k == feed[run.latest + 1] IN
  /\ run.phase = "events" /\ run.latest < Len(feed)
  /\ run' = [run EXCEPT !.latest = @ + 1, !.saw = @ \/ k # Foreign]
  /\ cached' = IF k = DefaultKey THEN 0 ELSE cached
  /\ UNCHANGED <<bag, feed, cursor, opened, opening, view, dist, pass, followed,
                 missed, wiped, kbBudget>>

RunEventsDoneForeign ==
  /\ run.phase = "events" /\ run.latest = Len(feed)
  /\ cursor' = run.latest
  /\ run' = [run EXCEPT !.phase =
               IF run.saw /\ feed[run.latest] # Foreign THEN "dbs" ELSE "end"]
  /\ UNCHANGED <<bag, feed, opened, opening, view, cached, dist, pass, followed,
                 missed, wiped, kbBudget>>

(* The cursor moves before the databases are reconciled. *)
RunEventsDone ==
  /\ run.phase = "events" /\ run.latest = Len(feed)
  /\ cursor' = run.latest
  /\ run' = [run EXCEPT !.phase = IF run.saw THEN "dbs" ELSE "end"]
  /\ UNCHANGED <<bag, feed, opened, opening, view, cached, dist, pass, followed,
                 missed, wiped, kbBudget>>

(* The next database of the cache, past-date ones skipped; a database that is *)
(* added meanwhile is still visited.                                          *)
Unvisited == {i \in DOMAIN opened : opened[i] \notin run.done \cup OldDbs}

RunNextDb ==
  /\ run.phase = "dbs" /\ run.ks = {} /\ Unvisited # {}
  /\ LET db == opened[Min(Unvisited)] IN
     /\ run' = [run EXCEPT !.db = db, !.ks = KeyIds, !.done = @ \cup {db}]
     /\ missed' = missed \ {db}
  /\ UNCHANGED <<bag, feed, cursor, opened, opening, view, cached, dist, pass,
                 followed, wiped, kbBudget>>

(* reconcileKeyVisibility: the documents of one key become visible or hidden. *)
RunDbKey(k) ==
  /\ run.phase = "dbs" /\ k \in run.ks
  /\ run' = [run EXCEPT !.ks = @ \ {k}]
  /\ view' = [view EXCEPT ![run.db] = (@ \ {k}) \cup CanRead({k})]
  /\ cached' = CacheFilled({k})
  /\ UNCHANGED <<bag, feed, cursor, opened, opening, dist, pass, followed,
                 missed, wiped, kbBudget>>

(* A scan of a database throws: those who await the run see the error, a     *)
(* distribution pass among them ends, the cursor stays.                       *)
RunFail ==
  /\ run.phase = "dbs" /\ run.ks # {} /\ KbSpend("fail")
  /\ run' = NoRun /\ pass' = IF pass.await THEN NoPass ELSE pass
  /\ missed' = missed \cup (OpenDbs \ (run.done \ {run.db}))
  /\ UNCHANGED <<bag, feed, cursor, opened, opening, view, cached, dist,
                 followed, wiped>>

RunEnd ==
  /\ run.phase = "end" \/ (run.phase = "dbs" /\ run.ks = {} /\ Unvisited = {})
  /\ run' = NoRun /\ pass' = [pass EXCEPT !.await = FALSE]
  /\ UNCHANGED <<bag, feed, cursor, opened, opening, view, cached, dist, followed,
                 missed, wiped, kbBudget>>

-----------------------------------------------------------------------------
(* Databases *)

(* openDB: the database takes the visibility from the bag while it is being   *)
(* initialised, and enters the cache afterwards.                              *)
OpenStart(db) ==
  /\ db \notin OpenDbs \cup opening /\ ~wiped /\ KbSpend("open")
  /\ opening' = opening \cup {db} /\ view' = [view EXCEPT ![db] = CanRead(KeyIds)]
  /\ cached' = CacheFilled(KeyIds)
  /\ missed' = IF cursor < Len(feed) THEN missed \cup {db} ELSE missed
  /\ UNCHANGED <<bag, feed, cursor, run, opened, dist, pass, followed, wiped>>

OpenEnd(db) ==
  /\ db \in opening
  /\ opening' = opening \ {db} /\ opened' = Append(opened, db)
  /\ UNCHANGED <<bag, feed, cursor, run, view, cached, dist, pass, followed,
                 missed, wiped, kbBudget>>

-----------------------------------------------------------------------------
(* Distributions *)

(* A new revision of a key's distribution arrives with the directory. *)
Distribute(k, d) ==
  /\ d # dist[k] /\ KbSpend("distribute")
  /\ dist' = [dist EXCEPT ![k] = d] /\ followed' = followed \ {k}
  /\ UNCHANGED <<bag, feed, cursor, run, opened, opening, view, cached, pass,
                 missed, wiped>>

PassStart ==
  /\ ~pass.on /\ ~wiped /\ KbSpend("pass") /\ pass' = [on |-> TRUE, ks |-> KeyIds, await |-> FALSE]
  /\ UNCHANGED <<bag, feed, cursor, run, opened, opening, view, cached, dist,
                 followed, missed, wiped>>

(* One distribution: a user in pullfrom loses the key whatever pushto says;   *)
(* one in pushto gets the versions that the bag does not hold, and the pass   *)
(* then awaits the reconciliation.                                            *)
Delivered(k) == IF dist[k].pull THEN {}
                ELSE IF dist[k].push /\ dist[k].opens THEN bag[k] \cup dist[k].man
                ELSE bag[k]

Times(k, n) == [i \in 1..n |-> k]

PassKey(k) ==
  LET new == Delivered(k)
      added == Cardinality(new \ bag[k])
      events == IF new = {} /\ bag[k] # {} THEN <<k>> ELSE Times(k, added)
  IN /\ pass.on /\ k \in pass.ks /\ ~pass.await
     /\ bag' = [bag EXCEPT ![k] = new] /\ Changed(events)
     /\ cached' = IF dist[k].pull \/ added > 0 THEN 0 ELSE cached
     /\ pass' = [pass EXCEPT !.ks = @ \ {k}, !.await = added > 0]
     /\ followed' = followed \cup {k}
     /\ UNCHANGED <<cursor, opened, opening, view, dist, wiped, kbBudget>>

PassEnd ==
  /\ pass.on /\ pass.ks = {} /\ ~pass.await /\ pass' = NoPass
  /\ UNCHANGED <<bag, feed, cursor, run, opened, opening, view, cached, dist,
                 followed, missed, wiped, kbBudget>>

(* checkAndApplyRemoteWipe of a device with nothing in flight: the stores,    *)
(* the caches, the subscription and the tenant's keys go.                     *)
WipeLocalTenant ==
  /\ ~wiped /\ ~pass.on /\ opening = {} /\ run.phase = "idle" /\ KbSpend("wipe")
  /\ wiped' = TRUE /\ opened' = <<>> /\ cached' = 0
  /\ bag' = [k \in KeyIds |-> {}]
  /\ feed' = feed \o SetToSeq(Readable(bag))
  /\ view' = [db \in Dbs \cup OldDbs |-> {}]
  /\ followed' = {}
  /\ UNCHANGED <<cursor, run, opening, dist, pass, missed>>

NoDist == [man |-> {}, push |-> FALSE, pull |-> FALSE, opens |-> FALSE]

KbInit ==
  /\ kbBudget \in KbBudgets
  /\ bag = [k \in KeyIds |-> IF k = DefaultKey THEN {1} ELSE {}]
  /\ feed = <<>> /\ cursor = 0 /\ run = NoRun
  /\ opened = <<>> /\ opening = {} /\ view = [db \in Dbs \cup OldDbs |-> {}]
  /\ cached = 0 /\ dist = [k \in KeyIds |-> NoDist] /\ pass = NoPass
  /\ followed = {} /\ missed = {} /\ wiped = FALSE

KbNext ==
  \/ \E k \in KeyIds : \/ \E v \in kbBudget.versions : SetKey(k, v) \/ DeleteKeyVersion(k, v)
                       \/ DeleteKey(k) \/ RunDbKey(k) \/ PassKey(k)
                       \/ \E d \in kbBudget.dists : Distribute(k, d)
  \/ \E db \in Dbs \cup OldDbs : OpenStart(db) \/ OpenEnd(db)
  \/ ForeignChange \/ GetSymmetricKey \/ AwaitReconcile
  \/ RunEvent \/ RunEventsDone \/ RunNextDb \/ RunFail \/ RunEnd
  \/ PassStart \/ PassEnd \/ WipeLocalTenant

KbSpec == KbInit /\ [][KbNext]_kbVars

-----------------------------------------------------------------------------
(* Properties *)

Caught == run.phase = "idle" /\ cursor = Len(feed) /\ ~wiped

(* The default key that getSymmetricKey hands out from its cache is the       *)
(* newest version of the bag once the feed is consumed: no document is        *)
(* encrypted with a removed or superseded key.                                *)
CachedKeyCurrent == Caught => cached \in {0, Newest(bag[DefaultKey])}

(* A key that an administrator pulled from the user is gone from the bag, and *)
(* one pushed to the user is there in every version, as long as nobody        *)
(* changed the key or its distribution after the pass that applied it; and a  *)
(* pulled key's documents are hidden once the feed is consumed.               *)
DistributionApplied ==
  \A k \in followed :
    /\ dist[k].pull => bag[k] = {}
    /\ dist[k].push /\ dist[k].opens /\ ~dist[k].pull => dist[k].man \subseteq bag[k]
    /\ dist[k].pull /\ Caught => \A db \in (OpenDbs \cap Dbs) \ missed : k \notin view[db]

(* When no reconciliation is in flight and the cursor is at the end of the    *)
(* feed, an open live database shows the documents of exactly the keys in the *)
(* bag, however changes, openings and other tenants' events were interleaved; *)
(* the cached default key and the distributed keys follow the bag as well.    *)
KeyViewsCurrent ==
  /\ CachedKeyCurrent /\ DistributionApplied
  /\ Caught => \A db \in (OpenDbs \cap Dbs) \ missed : view[db] = Readable(bag)
=============================================================================
