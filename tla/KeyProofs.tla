------------------------------ MODULE KeyProofs ------------------------------
(***************************************************************************)
(* Proofs about the two components that keep a person's keys.               *)
(* KeyBag: whatever changes, openings, passes and failing reconciliations   *)
(* come in whatever order, the databases show the documents of the keys in  *)
(* the bag once the change feed is consumed.                                *)
(* UserKeys: whatever the devices reconcile, rotate, approve and merge in   *)
(* whatever order, a generation of the person's key is open to those who    *)
(* may have it.                                                             *)
(***************************************************************************)
EXTENDS KeyBag, UserKeys, FiniteSetTheorems, WellFoundedInduction, TLAPS

-----------------------------------------------------------------------------
(* The key bag                                                             *)

AllDbs == Dbs \cup OldDbs

Runs == [phase : {"idle", "events", "dbs", "end"}, latest : Nat, saw : BOOLEAN,
         done : SUBSET AllDbs, db : AllDbs \cup {0}, ks : SUBSET KeyIds]

(* The type invariant.                                                      *)
TypeOK ==
  /\ bag \in [KeyIds -> SUBSET Nat]
  /\ feed \in Seq(KeyIds \cup {Foreign}) /\ cursor \in Nat
  /\ run \in Runs /\ pass \in [on : BOOLEAN, ks : SUBSET KeyIds, await : BOOLEAN]
  /\ opened \in Seq(AllDbs) /\ opening \subseteq AllDbs /\ missed \subseteq AllDbs
  /\ view \in [AllDbs -> SUBSET KeyIds]
  /\ dist \in [KeyIds -> Distributions] /\ followed \subseteq KeyIds
  /\ wiped \in BOOLEAN
  /\ kbBudget \in Budgets

(* How far the feed is consumed, and the keys with an event beyond that.    *)
Consumed == IF run.phase = "events" THEN run.latest ELSE cursor
Unconsumed(k) == \E i \in DOMAIN feed : i > Consumed /\ feed[i] = k

(* The cursor never runs ahead of the feed, a database enters the cache     *)
(* once it is open, and a reconciliation visits databases once it has read  *)
(* the events, and then works on one that is open.                          *)
RunPart ==
  /\ cursor <= Consumed /\ Consumed <= Len(feed)
  /\ run.phase = "events" => run.done = {} /\ run.ks = {}
  /\ opening \cap OpenDbs = {}
  /\ run.phase = "dbs" /\ run.ks # {} => run.db \in OpenDbs /\ run.db \in Dbs

(* The cached default key is the newest, or the change is still to be       *)
(* consumed: consuming it empties the cache.                                *)
CachedPart == cached \in {0, Newest(bag[DefaultKey])} \/ Unconsumed(DefaultKey)

(* What the reconciliation under way will still do for key k in db.         *)
Due(db, k) ==
  \/ run.phase = "events" /\ run.saw
  \/ run.phase = "dbs" /\ (db \notin run.done \/ (db = run.db /\ k \in run.ks))

(* A database that was not opened or left out at the wrong moment shows a   *)
(* key's documents as the bag says, until the key changes and from the time *)
(* the reconciliation has visited it; one that is being opened shows them   *)
(* as it found them.                                                        *)
Agrees(db, k) == k \in view[db] <=> bag[k] # {}
ViewPart ==
  /\ \A db \in (OpenDbs \cap Dbs) \ missed, k \in KeyIds :
       Agrees(db, k) \/ Unconsumed(k) \/ Due(db, k)
  /\ \A db \in (opening \cap Dbs) \ missed, k \in KeyIds : Agrees(db, k)

(* The distribution applied last to a key that nobody changed since.        *)
FollowedPart ==
  \A k \in followed :
    /\ dist[k].pull => bag[k] = {}
    /\ dist[k].push /\ dist[k].opens /\ ~dist[k].pull => dist[k].man \subseteq bag[k]

(* After a wipe of the tenant nothing is claimed of caches and views.       *)
CurrentPart == RunPart /\ CachedPart /\ ViewPart
KbInv == FollowedPart /\ (wiped \/ CurrentPart)

-----------------------------------------------------------------------------
(* Types                                                                   *)

LEMMA SpendTyped ==
  ASSUME TypeOK, NEW kind, KbSpend(kind)
  PROVE  kbBudget' \in Budgets
<1>1. kbBudget \in Budgets
  BY DEF TypeOK
<1> QED BY <1>1 DEF KbSpend, Budgets

(* SetToSeq lists a finite set. *)
LEMMA ListTyped ==
  ASSUME NEW S, IsFiniteSet(S)
  PROVE  SetToSeq(S) \in Seq(S)
<1>1. PICK f : f \in Bijection(1..Cardinality(S), S)
  BY FS_CardinalityType DEF ExistsBijection
<1>2. f \in [1..Cardinality(S) -> S] /\ IsInjective(f)
  BY <1>1 DEF Bijection, Injection, IsInjective, Surjection
<1>3. SetToSeq(S) \in [1..Cardinality(S) -> S]
  BY <1>2 DEF SetToSeq
<1> QED BY <1>3, FS_CardinalityType

(* An event is recorded and perhaps a reconciliation starts. *)
LEMMA ChangedTyped ==
  ASSUME TypeOK, NEW ks \in Seq(KeyIds \cup {Foreign}), Changed(ks)
  PROVE  /\ feed' \in Seq(KeyIds \cup {Foreign}) /\ run' \in Runs /\ missed' \subseteq AllDbs
<1>1. feed' \in Seq(KeyIds \cup {Foreign})
  BY DEF TypeOK, Changed
<1>2. NewRun \in Runs
  BY DEF TypeOK, NewRun, NoRun, Runs
<1>3. run' \in Runs
  BY <1>2 DEF TypeOK, Changed
<1>4. missed' \subseteq AllDbs
  BY DEF TypeOK, Changed
<1> QED BY <1>1, <1>3, <1>4

LEMMA InitTyped == KbInit => TypeOK
<1> SUFFICES ASSUME KbInit PROVE TypeOK
  OBVIOUS
<1>1. NoRun \in Runs
  BY DEF NoRun, Runs
<1>2. NoPass \in [on : BOOLEAN, ks : SUBSET KeyIds, await : BOOLEAN]
  BY DEF NoPass
<1>3. NoDist \in Distributions
  BY FS_EmptySet DEF NoDist, Distributions
<1>4. kbBudget \in Budgets
  BY KbAssumption DEF KbInit
<1>5. bag \in [KeyIds -> SUBSET Nat] /\ view \in [AllDbs -> SUBSET KeyIds] /\ feed = <<>>
      /\ opened = <<>> /\ dist \in [KeyIds -> Distributions]
  BY <1>3 DEF KbInit, AllDbs
<1>6. feed \in Seq(KeyIds \cup {Foreign}) /\ opened \in Seq(AllDbs)
  BY <1>5
<1> QED BY <1>1, <1>2, <1>4, <1>5, <1>6 DEF KbInit, TypeOK

LEMMA SetKeyTyped ==
  ASSUME TypeOK, NEW k \in KeyIds, NEW v \in kbBudget.versions, SetKey(k, v)
  PROVE  TypeOK'
<1>1. v \in Nat /\ <<k>> \in Seq(KeyIds \cup {Foreign})
  BY DEF TypeOK, Budgets
<1> QED BY <1>1, ChangedTyped, SpendTyped DEF TypeOK, SetKey

LEMMA DeleteKeyTyped ==
  ASSUME TypeOK, NEW k \in KeyIds, NEW v, DeleteKey(k) \/ DeleteKeyVersion(k, v)
  PROVE  TypeOK'
<1>1. <<k>> \in Seq(KeyIds \cup {Foreign})
  OBVIOUS
<1>2. CASE DeleteKey(k)
  BY <1>1, <1>2, ChangedTyped, SpendTyped DEF TypeOK, DeleteKey
<1>3. CASE DeleteKeyVersion(k, v)
  BY <1>1, <1>3, ChangedTyped, SpendTyped DEF TypeOK, DeleteKeyVersion
<1> QED BY <1>2, <1>3

LEMMA ForeignChangeTyped ==
  ASSUME TypeOK, ForeignChange
  PROVE  TypeOK'
<1>1. <<Foreign>> \in Seq(KeyIds \cup {Foreign})
  OBVIOUS
<1> QED BY <1>1, ChangedTyped, SpendTyped DEF TypeOK, ForeignChange

LEMMA DatabasesTyped ==
  ASSUME TypeOK, NEW db \in AllDbs, OpenStart(db) \/ OpenEnd(db)
  PROVE  TypeOK'
<1>1. CASE OpenStart(db)
  BY <1>1, SpendTyped DEF TypeOK, OpenStart, CanRead
<1>2. CASE OpenEnd(db)
  BY <1>2 DEF TypeOK, OpenEnd
<1> QED BY <1>1, <1>2

LEMMA RunTyped ==
  ASSUME TypeOK,
         AwaitReconcile \/ RunEvent \/ RunEventsDone \/ RunFail \/ RunEnd
  PROVE  TypeOK'
<1>1. CASE AwaitReconcile
  BY <1>1, SpendTyped DEF TypeOK, AwaitReconcile, NewRun, NoRun, Runs
<1>2. CASE RunEvent
  <2>1. run \in Runs /\ run.latest + 1 \in Nat
    BY DEF TypeOK, Runs
  <2>2. PICK n \in Nat, b \in BOOLEAN : run' = [run EXCEPT !.latest = n, !.saw = b]
    BY <1>2, <2>1, Zenon DEF RunEvent
  <2>3. run' \in Runs
    BY <2>1, <2>2 DEF Runs
  <2> QED BY <1>2, <2>3 DEF TypeOK, RunEvent
<1>3. CASE RunEventsDone
  BY <1>3 DEF TypeOK, RunEventsDone, Runs
<1>4. CASE RunFail
  <2>1. missed' \subseteq AllDbs
    BY <1>4 DEF TypeOK, RunFail, OpenDbs, Range
  <2> QED BY <1>4, <2>1, SpendTyped DEF TypeOK, RunFail, NoRun, NoPass, Runs
<1>5. CASE RunEnd
  BY <1>5 DEF TypeOK, RunEnd, NoRun, Runs
<1> QED BY <1>1, <1>2, <1>3, <1>4, <1>5

(* The database visited next is the first that is not visited. *)
LEMMA NextDb ==
  ASSUME TypeOK, RunNextDb
  PROVE  Min(Unvisited) \in Unvisited
<1> DEFINE less == OpToRel(<, Nat)
<1>1. Unvisited \subseteq Nat /\ Unvisited # {}
  BY DEF TypeOK, RunNextDb, Unvisited
<1>2. PICK x \in Unvisited : \A y \in Unvisited : <<y, x>> \notin less
  <2> HIDE DEF less
  <2> QED BY <1>1, WFMin, NatLessThanWellFounded DEF less
<1>3. \A y \in Unvisited : ~(y < x)
  BY <1>1, <1>2 DEF OpToRel
<1>4. \A y \in Unvisited : x <= y
  BY <1>1, <1>3
<1>5. Min(Unvisited) = CHOOSE m \in Unvisited : \A y \in Unvisited : m <= y
  BY DEF Min
<1> QED BY <1>4, <1>5

LEMMA RunNextDbTyped ==
  ASSUME TypeOK, RunNextDb
  PROVE  TypeOK'
<1>1. opened[Min(Unvisited)] \in AllDbs
  BY NextDb DEF TypeOK, Unvisited
<1> QED BY <1>1 DEF TypeOK, RunNextDb, Runs

LEMMA RunDbKeyTyped ==
  ASSUME TypeOK, NEW k \in KeyIds, RunDbKey(k)
  PROVE  TypeOK'
<1>1. CanRead({k}) \subseteq KeyIds
  BY DEF CanRead
<1>2. view' \in [AllDbs -> SUBSET KeyIds]
  BY <1>1 DEF TypeOK, RunDbKey
<1> QED BY <1>2 DEF TypeOK, RunDbKey, Runs

LEMMA DistributionsTyped ==
  ASSUME TypeOK, NEW k \in KeyIds, NEW d \in kbBudget.dists,
         Distribute(k, d)
  PROVE  TypeOK'
<1>1. d \in Distributions
  BY DEF TypeOK, Budgets
<1> QED BY <1>1, SpendTyped DEF TypeOK, Distribute

LEMMA PassTyped ==
  ASSUME TypeOK, PassStart \/ PassEnd
  PROVE  TypeOK'
<1>1. pass' \in [on : BOOLEAN, ks : SUBSET KeyIds, await : BOOLEAN]
  <2>1. CASE PassStart
    BY <2>1 DEF PassStart
  <2>2. CASE PassEnd
    BY <2>2 DEF PassEnd, NoPass
  <2> QED BY <2>1, <2>2
<1>2. kbBudget' \in Budgets
  BY SpendTyped DEF TypeOK, PassStart, PassEnd
<1> QED BY <1>1, <1>2 DEF TypeOK, PassStart, PassEnd

(* What a pass adds to the bag is finite, and its events are one for each   *)
(* version, or one for the removal.                                         *)
LEMMA DeliveredTyped ==
  ASSUME TypeOK, NEW k \in KeyIds
  PROVE  /\ Delivered(k) \subseteq Nat /\ IsFiniteSet(Delivered(k) \ bag[k])
         /\ Cardinality(Delivered(k) \ bag[k]) \in Nat
<1>1. Delivered(k) \subseteq Nat
  BY DEF TypeOK, Delivered, Distributions
<1>2. IsFiniteSet(Delivered(k) \ bag[k])
  <2>1. IsFiniteSet(dist[k].man)
    BY DEF TypeOK, Distributions
  <2>2. Delivered(k) \ bag[k] \subseteq dist[k].man
    BY DEF Delivered
  <2> QED BY <2>1, <2>2, FS_Subset
<1> QED BY <1>1, <1>2, FS_CardinalityType

LEMMA TimesTyped ==
  ASSUME NEW k \in KeyIds, NEW n \in Nat
  PROVE  Times(k, n) \in Seq(KeyIds \cup {Foreign}) /\ DOMAIN Times(k, n) = 1..n
BY DEF Times

PassEvents(k) ==
  IF Delivered(k) = {} /\ bag[k] # {} THEN <<k>>
  ELSE Times(k, Cardinality(Delivered(k) \ bag[k]))

LEMMA PassKeyEvents ==
  ASSUME TypeOK, NEW k \in KeyIds, PassKey(k)
  PROVE  /\ Changed(PassEvents(k)) /\ PassEvents(k) \in Seq(KeyIds \cup {Foreign})
         /\ bag' = [bag EXCEPT ![k] = Delivered(k)]
         /\ Delivered(k) # bag[k] => \E i \in DOMAIN PassEvents(k) : PassEvents(k)[i] = k
<1>1. Changed(PassEvents(k)) /\ bag' = [bag EXCEPT ![k] = Delivered(k)]
  BY DEF PassKey, PassEvents
<1>2. PassEvents(k) \in Seq(KeyIds \cup {Foreign})
  <2>1. Times(k, Cardinality(Delivered(k) \ bag[k])) \in Seq(KeyIds \cup {Foreign})
    BY DeliveredTyped, TimesTyped
  <2>2. <<k>> \in Seq(KeyIds \cup {Foreign})
    OBVIOUS
  <2> QED BY <2>1, <2>2 DEF PassEvents
<1>3. ASSUME Delivered(k) # bag[k]
      PROVE  \E i \in DOMAIN PassEvents(k) : PassEvents(k)[i] = k
  <2>1. CASE Delivered(k) = {} /\ bag[k] # {}
    BY <2>1 DEF PassEvents
  <2>2. CASE ~(Delivered(k) = {} /\ bag[k] # {})
    <3>1. Delivered(k) \ bag[k] # {}
      BY <1>3, <2>2 DEF Delivered
    <3>2. Cardinality(Delivered(k) \ bag[k]) # 0
      BY <3>1, DeliveredTyped, FS_EmptySet
    <3> DEFINE n == Cardinality(Delivered(k) \ bag[k])
    <3>3. n \in Nat
      BY DeliveredTyped
    <3>4. 1 \in 1..n
      BY <3>2, <3>3
    <3> QED BY <2>2, <3>4 DEF PassEvents, Times
  <2> QED BY <2>1, <2>2
<1> QED BY <1>1, <1>2, <1>3

LEMMA PassKeyTyped ==
  ASSUME TypeOK, NEW k \in KeyIds, PassKey(k)
  PROVE  TypeOK'
<1>1. feed' \in Seq(KeyIds \cup {Foreign}) /\ run' \in Runs /\ missed' \subseteq AllDbs
  BY PassKeyEvents, ChangedTyped
<1>2. bag' \in [KeyIds -> SUBSET Nat]
  <2>1. bag' = [bag EXCEPT ![k] = Delivered(k)] /\ Delivered(k) \in SUBSET Nat
    BY PassKeyEvents, DeliveredTyped
  <2> QED BY <2>1 DEF TypeOK
<1>3. pass' \in [on : BOOLEAN, ks : SUBSET KeyIds, await : BOOLEAN] /\ followed' \subseteq KeyIds
  <2> DEFINE n == Cardinality(Delivered(k) \ bag[k])
  <2>1. (n > 0) \in BOOLEAN
    BY SMT
  <2>2. PICK b \in BOOLEAN : pass' = [pass EXCEPT !.ks = @ \ {k}, !.await = b]
    BY <2>1, Zenon DEF PassKey
  <2> QED BY <2>2 DEF TypeOK, PassKey
<1> QED BY <1>1, <1>2, <1>3 DEF TypeOK, PassKey

LEMMA WipeTyped ==
  ASSUME TypeOK, WipeLocalTenant
  PROVE  TypeOK'
<1>1. Readable(bag) \subseteq KeyIds /\ IsFiniteSet(Readable(bag))
  BY KbAssumption, FS_Subset DEF Readable
<1>2. SetToSeq(Readable(bag)) \in Seq(KeyIds \cup {Foreign})
  BY <1>1, ListTyped
<1>3. feed' \in Seq(KeyIds \cup {Foreign})
  BY <1>2 DEF TypeOK, WipeLocalTenant
<1> QED BY <1>3, SpendTyped DEF TypeOK, WipeLocalTenant, AllDbs

LEMMA NextTyped ==
  ASSUME TypeOK, [KbNext]_kbVars
  PROVE  TypeOK'
<1>1. CASE \E k \in KeyIds, v \in kbBudget.versions : SetKey(k, v) \/ DeleteKeyVersion(k, v)
  BY <1>1, SetKeyTyped, DeleteKeyTyped
<1>2. CASE \E k \in KeyIds : DeleteKey(k) \/ RunDbKey(k) \/ PassKey(k)
  BY <1>2, DeleteKeyTyped, RunDbKeyTyped, PassKeyTyped
<1>3. CASE \E k \in KeyIds, d \in kbBudget.dists : Distribute(k, d)
  BY <1>3, DistributionsTyped
<1>4. CASE \E db \in AllDbs : OpenStart(db) \/ OpenEnd(db)
  BY <1>4, DatabasesTyped
<1>5. CASE ForeignChange \/ GetSymmetricKey
  BY <1>5, ForeignChangeTyped DEF TypeOK, GetSymmetricKey
<1>6. CASE AwaitReconcile \/ RunEvent \/ RunEventsDone \/ RunFail \/ RunEnd
  BY <1>6, RunTyped
<1>7. CASE RunNextDb
  BY <1>7, RunNextDbTyped
<1>8. CASE PassStart \/ PassEnd
  BY <1>8, PassTyped
<1>9. CASE WipeLocalTenant
  BY <1>9, WipeTyped
<1>10. CASE UNCHANGED kbVars
  BY <1>10 DEF kbVars, TypeOK
<1> QED
  BY <1>1, <1>2, <1>3, <1>4, <1>5, <1>6, <1>7, <1>8, <1>9, <1>10 DEF KbNext, AllDbs

-----------------------------------------------------------------------------
(* Caches and views                                                        *)

(* An event is pending once recorded, others stay so, and the               *)
(* reconciliation under way is the same or starts.                          *)
LEMMA ChangedFacts ==
  ASSUME TypeOK, RunPart, NEW ks \in Seq(KeyIds \cup {Foreign}), Changed(ks),
         UNCHANGED <<cursor, opened, opening>>
  PROVE  /\ RunPart'
         /\ \A k : Unconsumed(k) => Unconsumed(k)'
         /\ \A i \in DOMAIN ks : Unconsumed(ks[i])'
         /\ \A db, k : Due(db, k) => Due(db, k)'
         /\ missed \subseteq missed' /\ (ks # <<>> => opening \subseteq missed')
<1>1. /\ feed' = feed \o ks /\ Len(feed') = Len(feed) + Len(ks)
      /\ \A i \in DOMAIN feed : i \in DOMAIN feed' /\ feed'[i] = feed[i]
      /\ \A i \in DOMAIN ks : Len(feed) + i \in DOMAIN feed' /\ feed'[Len(feed) + i] = ks[i]
  BY DEF TypeOK, Changed
<1>2. run' = run \/ (run.phase = "idle" /\ run' = NewRun)
  BY DEF Changed
<1>3. Consumed' = Consumed /\ Consumed \in Nat
  <2>1. Consumed \in Nat
    BY DEF TypeOK, Runs, Consumed
  <2>2. Consumed' = Consumed
    BY <1>2 DEF Consumed, NewRun, NoRun
  <2> QED BY <2>1, <2>2
<1>4. RunPart'
  <2>1. Consumed <= Len(feed')
    BY <1>1, <1>3 DEF RunPart, TypeOK
  <2> QED BY <1>2, <1>3, <2>1 DEF RunPart, OpenDbs, NewRun, NoRun
<1>5. \A k : Unconsumed(k) => Unconsumed(k)'
  BY <1>1, <1>3 DEF Unconsumed
<1>6. ASSUME NEW i \in DOMAIN ks
      PROVE  Unconsumed(ks[i])'
  <2>1. Len(feed) + i > Consumed
    BY <1>3 DEF RunPart, TypeOK
  <2> QED BY <1>1, <1>3, <2>1 DEF Unconsumed
<1>7. \A db, k : Due(db, k) => Due(db, k)'
  BY <1>2 DEF Due
<1>8. missed \subseteq missed' /\ (ks # <<>> => opening \subseteq missed')
  BY DEF Changed
<1> QED BY <1>4, <1>5, <1>6, <1>7, <1>8

(* The bag changes, with an event for every key that does.                  *)
LEMMA BagChanged ==
  ASSUME TypeOK, CurrentPart, NEW ks \in Seq(KeyIds \cup {Foreign}), Changed(ks),
         UNCHANGED <<cursor, opened, opening, view>>, cached' \in {0, cached},
         \A k \in KeyIds : bag'[k] # bag[k] => \E i \in DOMAIN ks : ks[i] = k
  PROVE  CurrentPart'
<1> USE DEF CurrentPart
<1>1. \A k \in KeyIds : Unconsumed(k)' \/ bag'[k] = bag[k]
  BY ChangedFacts
<1>2. CachedPart'
  BY <1>1, ChangedFacts, KbAssumption DEF CachedPart
<1>3. ASSUME NEW db \in ((OpenDbs \cap Dbs) \ missed)', NEW k \in KeyIds
      PROVE  (Agrees(db, k) \/ Unconsumed(k) \/ Due(db, k))'
  <2>1. db \in (OpenDbs \cap Dbs) \ missed
    BY ChangedFacts DEF OpenDbs
  <2>2. Agrees(db, k) \/ Unconsumed(k) \/ Due(db, k)
    BY <2>1 DEF ViewPart
  <2> QED BY <1>1, <2>2, ChangedFacts DEF Agrees
<1>4. ASSUME NEW db \in ((opening \cap Dbs) \ missed)', NEW k \in KeyIds
      PROVE  Agrees(db, k)'
  <2>1. ks = <<>> /\ db \in (opening \cap Dbs) \ missed
    BY ChangedFacts
  <2>2. bag'[k] = bag[k]
    BY <2>1
  <2> QED BY <2>1, <2>2 DEF ViewPart, Agrees
<1> QED BY <1>2, <1>3, <1>4, ChangedFacts DEF ViewPart

LEMMA SetKeyCurrent ==
  ASSUME TypeOK, CurrentPart, NEW k \in KeyIds, NEW v, SetKey(k, v)
  PROVE  CurrentPart'
<1>1. <<k>> \in Seq(KeyIds \cup {Foreign}) /\ DOMAIN <<k>> = {1}
  OBVIOUS
<1>2. \A j \in KeyIds : bag'[j] # bag[j] => j = k
  BY DEF TypeOK, SetKey
<1> QED BY <1>1, <1>2, BagChanged DEF SetKey

LEMMA DeleteKeyCurrent ==
  ASSUME TypeOK, CurrentPart, NEW k \in KeyIds, NEW v, DeleteKey(k) \/ DeleteKeyVersion(k, v)
  PROVE  CurrentPart'
<1>1. <<k>> \in Seq(KeyIds \cup {Foreign}) /\ DOMAIN <<k>> = {1}
  OBVIOUS
<1>2. \A j \in KeyIds : bag'[j] # bag[j] => j = k
  BY DEF TypeOK, DeleteKey, DeleteKeyVersion
<1> QED BY <1>1, <1>2, BagChanged DEF DeleteKey, DeleteKeyVersion

LEMMA ForeignChangeCurrent ==
  ASSUME TypeOK, CurrentPart, ForeignChange
  PROVE  CurrentPart'
<1>1. <<Foreign>> \in Seq(KeyIds \cup {Foreign})
  OBVIOUS
<1> QED BY <1>1, BagChanged DEF ForeignChange

LEMMA PassKeyCurrent ==
  ASSUME TypeOK, CurrentPart, NEW k \in KeyIds, PassKey(k)
  PROVE  CurrentPart'
<1>1. \A j \in KeyIds : bag'[j] # bag[j] => \E i \in DOMAIN PassEvents(k) : PassEvents(k)[i] = j
  <2>1. \A j \in KeyIds : bag'[j] # bag[j] => j = k /\ Delivered(k) # bag[k]
    BY PassKeyEvents DEF TypeOK
  <2> QED BY <2>1, PassKeyEvents
<1>2. cached' \in {0, cached} /\ UNCHANGED <<cursor, opened, opening, view>>
  BY DEF PassKey
<1> QED BY <1>1, <1>2, PassKeyEvents, BagChanged

LEMMA CachedFilled ==
  ASSUME CachedPart, NEW ks, cached' = CacheFilled(ks), bag' = bag,
         Unconsumed(DefaultKey)' <=> Unconsumed(DefaultKey)
  PROVE  CachedPart'
BY DEF CachedPart, CacheFilled

LEMMA GetSymmetricKeyCurrent ==
  ASSUME TypeOK, CurrentPart, GetSymmetricKey
  PROVE  CurrentPart'
<1>1. UNCHANGED <<bag, feed, cursor, run, opened, opening, view, missed>> /\ cached' = CacheFilled(KeyIds)
  BY DEF GetSymmetricKey
<1>2. RunPart' /\ ViewPart' /\ (Unconsumed(DefaultKey)' <=> Unconsumed(DefaultKey))
  BY <1>1 DEF CurrentPart, RunPart, ViewPart, Agrees, Unconsumed, Due, Consumed, OpenDbs
<1> QED BY <1>1, <1>2, CachedFilled DEF CurrentPart

LEMMA AwaitReconcileCurrent ==
  ASSUME TypeOK, CurrentPart, AwaitReconcile
  PROVE  CurrentPart'
<1>1. UNCHANGED <<bag, feed, cursor, opened, opening, view, cached, missed>>
  BY DEF AwaitReconcile
<1>2. run' = run \/ (run.phase = "idle" /\ run' = NewRun)
  BY DEF AwaitReconcile
<1>3. Consumed' = Consumed
  BY <1>1, <1>2 DEF Consumed, NewRun, NoRun
<1>4. RunPart'
  BY <1>1, <1>2, <1>3 DEF CurrentPart, RunPart, OpenDbs, NewRun, NoRun
<1>5. \A k : Unconsumed(k)' <=> Unconsumed(k)
  BY <1>1, <1>3 DEF Unconsumed
<1>6. \A db, k : Due(db, k) => Due(db, k)'
  BY <1>2 DEF Due
<1> QED BY <1>1, <1>4, <1>5, <1>6 DEF CurrentPart, CachedPart, ViewPart, Agrees, OpenDbs

LEMMA RunEventCurrent ==
  ASSUME TypeOK, CurrentPart, RunEvent
  PROVE  CurrentPart'
<1> DEFINE key == feed[run.latest + 1]
<1>1. /\ run.phase = "events" /\ run.latest \in Nat /\ cursor \in Nat /\ Len(feed) \in Nat
      /\ run.latest < Len(feed) /\ cursor <= run.latest
  BY DEF RunEvent, TypeOK, Runs, CurrentPart, RunPart, Consumed
<1>2. /\ run'.phase = "events" /\ run'.latest = run.latest + 1
      /\ run'.done = run.done /\ run'.ks = run.ks
      /\ run.saw \/ key # Foreign => run'.saw
  BY DEF RunEvent, TypeOK, Runs
<1>3. UNCHANGED <<bag, feed, cursor, opened, opening, view, missed>>
      /\ cached' = IF key = DefaultKey THEN 0 ELSE cached
  BY DEF RunEvent
<1>4. Consumed = run.latest /\ Consumed' = run.latest + 1
  BY <1>1, <1>2 DEF Consumed
<1>5. \A k : Unconsumed(k) /\ k # key => Unconsumed(k)'
  <2> SUFFICES ASSUME NEW i \in DOMAIN feed, i > run.latest, feed[i] # key
               PROVE  i > run.latest + 1
    BY <1>3, <1>4 DEF Unconsumed
  <2>1. i \in Nat
    BY DEF TypeOK
  <2> QED BY <2>1, <1>1
<1>6. RunPart'
  <2>1. cursor <= run.latest + 1 /\ run.latest + 1 <= Len(feed)
    BY <1>1
  <2> QED BY <1>1, <1>2, <1>3, <1>4, <2>1 DEF CurrentPart, RunPart, OpenDbs
<1>7. CachedPart'
  BY <1>3, <1>5 DEF CurrentPart, CachedPart
<1>8. ASSUME NEW db \in (OpenDbs \cap Dbs) \ missed, NEW k \in KeyIds
      PROVE  (Agrees(db, k) \/ Unconsumed(k) \/ Due(db, k))'
  <2>1. Agrees(db, k) \/ Unconsumed(k) \/ Due(db, k)
    BY DEF CurrentPart, ViewPart
  <2>2. CASE Agrees(db, k)
    BY <1>3, <2>2 DEF Agrees
  <2>3. CASE Unconsumed(k) /\ k = key
    BY <1>2, <2>3, KbAssumption DEF Due
  <2>4. CASE Unconsumed(k) /\ k # key
    BY <1>5, <2>4
  <2>5. CASE Due(db, k)
    BY <1>1, <1>2, <2>5 DEF Due
  <2> QED BY <2>1, <2>2, <2>3, <2>4, <2>5
<1>9. ViewPart'
  BY <1>3, <1>8 DEF CurrentPart, ViewPart, OpenDbs, Agrees
<1> QED BY <1>6, <1>7, <1>9 DEF CurrentPart

(* The databases are visited if there was an event, otherwise nothing was   *)
(* due.                                                                     *)
LEMMA RunEventsDoneCurrent ==
  ASSUME TypeOK, CurrentPart, RunEventsDone
  PROVE  CurrentPart'
<1>1. /\ run.phase = "events" /\ run.done = {} /\ run.ks = {} /\ cursor' = run.latest
      /\ Consumed = run.latest /\ run.latest <= Len(feed)
  BY DEF RunEventsDone, CurrentPart, RunPart, Consumed
<1>2. /\ run'.phase = IF run.saw THEN "dbs" ELSE "end"
      /\ run'.done = {} /\ run'.ks = {}
  BY <1>1 DEF RunEventsDone, TypeOK, Runs
<1>3. UNCHANGED <<bag, feed, opened, opening, view, cached, missed>>
  BY DEF RunEventsDone
<1>4. Consumed' = Consumed /\ run.latest \in Nat
  BY <1>1, <1>2 DEF Consumed, TypeOK, Runs
<1>5. RunPart'
  BY <1>1, <1>2, <1>3, <1>4 DEF CurrentPart, RunPart, OpenDbs
<1>6. \A k : Unconsumed(k)' <=> Unconsumed(k)
  BY <1>3, <1>4 DEF Unconsumed
<1>7. \A db, k : Due(db, k) => Due(db, k)'
  BY <1>1, <1>2 DEF Due
<1> QED BY <1>3, <1>5, <1>6, <1>7 DEF CurrentPart, CachedPart, ViewPart, Agrees, OpenDbs

LEMMA RunNextDbCurrent ==
  ASSUME TypeOK, CurrentPart, RunNextDb
  PROVE  CurrentPart'
<1> DEFINE next == opened[Min(Unvisited)]
<1>1. next \in OpenDbs /\ next \in Dbs /\ next \notin run.done
  <2>1. Min(Unvisited) \in DOMAIN opened /\ next \notin run.done \cup OldDbs
    BY NextDb DEF Unvisited
  <2>2. next \in AllDbs
    BY <2>1 DEF TypeOK
  <2>3. next \in OpenDbs
    BY <2>1 DEF OpenDbs, Range
  <2> QED BY <2>1, <2>2, <2>3 DEF AllDbs
<1>2. /\ run.phase = "dbs" /\ run.ks = {} /\ run'.phase = "dbs"
      /\ run'.db = next /\ run'.ks = KeyIds /\ run'.done = run.done \cup {next}
  BY DEF RunNextDb, TypeOK, Runs
<1>3. UNCHANGED <<bag, feed, cursor, opened, opening, view, cached>> /\ missed' = missed \ {next}
  BY DEF RunNextDb
<1> HIDE DEF next
<1>4. Consumed' = Consumed
  BY <1>2, <1>3 DEF Consumed
<1>5. RunPart'
  BY <1>1, <1>2, <1>3, <1>4 DEF CurrentPart, RunPart, OpenDbs
<1>6. \A k : Unconsumed(k)' <=> Unconsumed(k)
  BY <1>3, <1>4 DEF Unconsumed
<1>7. \A db : \A k \in KeyIds : Due(db, k) \/ db = next => Due(db, k)'
  BY <1>1, <1>2 DEF Due
<1>8. next \notin opening
  BY <1>1 DEF CurrentPart, RunPart
<1>9. CachedPart'
  BY <1>3, <1>6 DEF CurrentPart, CachedPart
<1>10. ASSUME NEW db \in (OpenDbs \cap Dbs) \ missed', NEW k \in KeyIds
       PROVE  (Agrees(db, k) \/ Unconsumed(k) \/ Due(db, k))'
  <2>1. CASE db = next
    BY <1>7, <2>1
  <2>2. CASE db # next
    BY <1>3, <1>6, <1>7, <2>2 DEF CurrentPart, ViewPart, Agrees
  <2> QED BY <2>1, <2>2
<1>11. ViewPart'
  BY <1>3, <1>8, <1>10 DEF CurrentPart, ViewPart, OpenDbs, Agrees
<1> QED BY <1>5, <1>9, <1>11 DEF CurrentPart

(* The key is shown or hidden as the bag says, or the default key is still  *)
(* in the cache although it left the bag, and then its removal is pending.  *)
LEMMA RunDbKeyCurrent ==
  ASSUME TypeOK, CurrentPart, NEW k \in KeyIds, RunDbKey(k)
  PROVE  CurrentPart'
<1>1. /\ run.phase = "dbs" /\ k \in run.ks /\ run'.phase = "dbs"
      /\ run'.db = run.db /\ run'.ks = run.ks \ {k} /\ run'.done = run.done
  BY DEF RunDbKey, TypeOK, Runs
<1>2. UNCHANGED <<bag, feed, cursor, opened, opening, missed>> /\ cached' = CacheFilled({k})
  BY DEF RunDbKey
<1>3. run.db \in OpenDbs /\ run.db \in Dbs /\ run.db \notin opening
  BY <1>1 DEF CurrentPart, RunPart
<1>4. /\ \A db \in AllDbs \ {run.db} : view'[db] = view[db]
      /\ view'[run.db] = (view[run.db] \ {k}) \cup CanRead({k})
  BY <1>3 DEF RunDbKey, TypeOK, AllDbs
<1>5. Consumed' = Consumed
  BY <1>1, <1>2 DEF Consumed
<1>6. RunPart'
  BY <1>1, <1>2, <1>3, <1>5 DEF CurrentPart, RunPart, OpenDbs
<1>7. \A j : Unconsumed(j)' <=> Unconsumed(j)
  BY <1>2, <1>5 DEF Unconsumed
<1>8. CachedPart'
  BY <1>2, <1>7, CachedFilled DEF CurrentPart
<1>9. ASSUME NEW db \in (OpenDbs \cap Dbs) \ missed, NEW j \in KeyIds
      PROVE  (Agrees(db, j) \/ Unconsumed(j) \/ Due(db, j))'
  <2>1. Agrees(db, j) \/ Unconsumed(j) \/ Due(db, j)
    BY DEF CurrentPart, ViewPart
  <2>2. CASE db # run.db
    BY <1>1, <1>2, <1>4, <1>7, <2>1, <2>2 DEF Agrees, Due, AllDbs
  <2>3. CASE db = run.db /\ j # k
    <3>1. j \in view'[db] <=> j \in view[db]
      BY <1>4, <2>3 DEF CanRead
    <3> QED BY <1>1, <1>2, <1>7, <2>1, <2>3, <3>1 DEF Agrees, Due
  <2>4. CASE db = run.db /\ j = k
    <3>1. j \in view'[db] <=> bag[k] # {} \/ (k = DefaultKey /\ cached # 0)
      BY <1>4, <2>4 DEF CanRead
    <3>2. k = DefaultKey /\ bag[k] = {} /\ cached # 0 => Unconsumed(k)
      BY DEF CurrentPart, CachedPart, Newest
    <3> QED BY <1>2, <1>7, <2>4, <3>1, <3>2 DEF Agrees
  <2> QED BY <2>2, <2>3, <2>4
<1>10. ASSUME NEW db \in (opening \cap Dbs) \ missed, NEW j \in KeyIds
       PROVE  Agrees(db, j)'
  BY <1>2, <1>3, <1>4 DEF CurrentPart, ViewPart, Agrees, AllDbs
<1>11. ViewPart'
  BY <1>2, <1>9, <1>10 DEF ViewPart, OpenDbs
<1> QED BY <1>6, <1>8, <1>11 DEF CurrentPart

(* The databases that were not visited to the end are left out.             *)
LEMMA RunFailCurrent ==
  ASSUME TypeOK, CurrentPart, RunFail
  PROVE  CurrentPart'
<1>1. /\ run.phase = "dbs" /\ run' = NoRun /\ run'.phase = "idle"
      /\ UNCHANGED <<bag, feed, cursor, opened, opening, view, cached>>
      /\ missed' = missed \cup (OpenDbs \ (run.done \ {run.db}))
  BY DEF RunFail, NoRun
<1>2. Consumed' = Consumed
  BY <1>1 DEF Consumed
<1>3. RunPart'
  BY <1>1, <1>2 DEF CurrentPart, RunPart, OpenDbs
<1>4. \A k : Unconsumed(k)' <=> Unconsumed(k)
  BY <1>1, <1>2 DEF Unconsumed
<1>5. \A db \in OpenDbs \ missed', k \in KeyIds : ~Due(db, k)
  BY <1>1 DEF Due
<1> QED BY <1>1, <1>3, <1>4, <1>5 DEF CurrentPart, CachedPart, ViewPart, Agrees, OpenDbs

(* When a reconciliation ends every open database was visited.              *)
LEMMA RunEndCurrent ==
  ASSUME TypeOK, CurrentPart, RunEnd
  PROVE  CurrentPart'
<1>1. /\ run.phase \in {"end", "dbs"} /\ run' = NoRun /\ run'.phase = "idle"
      /\ UNCHANGED <<bag, feed, cursor, opened, opening, view, cached, missed>>
  BY DEF RunEnd, NoRun
<1>2. Consumed' = Consumed
  BY <1>1 DEF Consumed
<1>3. RunPart'
  BY <1>1, <1>2 DEF CurrentPart, RunPart, OpenDbs
<1>4. \A k : Unconsumed(k)' <=> Unconsumed(k)
  BY <1>1, <1>2 DEF Unconsumed
<1>5. ASSUME NEW db \in OpenDbs \cap Dbs, NEW k
      PROVE  ~Due(db, k)
  <2>1. CASE run.phase = "end"
    BY <2>1 DEF Due
  <2>2. CASE run.phase = "dbs"
    <3>1. run.ks = {} /\ Unvisited = {}
      BY <2>2 DEF RunEnd
    <3>2. db \in run.done
      BY <3>1, KbAssumption DEF Unvisited, OpenDbs, Range
    <3> QED BY <2>2, <3>1, <3>2 DEF Due
  <2> QED BY <1>1, <2>1, <2>2
<1> QED BY <1>1, <1>3, <1>4, <1>5 DEF CurrentPart, CachedPart, ViewPart, Agrees, OpenDbs

(* A database opened while every change is reconciled finds the bag's keys. *)
LEMMA OpenStartCurrent ==
  ASSUME TypeOK, CurrentPart, NEW db \in AllDbs, OpenStart(db)
  PROVE  CurrentPart'
<1>1. /\ UNCHANGED <<bag, feed, cursor, run, opened>> /\ db \notin OpenDbs \cup opening
      /\ opening' = opening \cup {db} /\ missed \subseteq missed'
      /\ cached' = CacheFilled(KeyIds)
      /\ view' = [view EXCEPT ![db] = CanRead(KeyIds)]
      /\ cursor < Len(feed) => db \in missed'
  BY DEF OpenStart
<1>2. Consumed' = Consumed
  BY <1>1 DEF Consumed
<1>3. RunPart'
  BY <1>1, <1>2 DEF CurrentPart, RunPart, OpenDbs
<1>4. \A k : Unconsumed(k)' <=> Unconsumed(k)
  BY <1>1, <1>2 DEF Unconsumed
<1>5. CachedPart'
  BY <1>1, <1>4, CachedFilled DEF CurrentPart
<1>6. \A other \in AllDbs \ {db} : view'[other] = view[other]
  BY <1>1 DEF TypeOK
<1>7. ASSUME NEW other \in ((OpenDbs \cap Dbs) \ missed)', NEW k \in KeyIds
      PROVE  (Agrees(other, k) \/ Unconsumed(k) \/ Due(other, k))'
  <2>1. other \in (OpenDbs \cap Dbs) \ missed /\ other # db
    BY <1>1 DEF OpenDbs
  <2> QED BY <1>1, <1>4, <1>6, <2>1 DEF CurrentPart, ViewPart, Agrees, Due, AllDbs
<1>8. ASSUME NEW other \in ((opening \cap Dbs) \ missed)', NEW k \in KeyIds
      PROVE  Agrees(other, k)'
  <2>1. CASE other # db
    BY <1>1, <1>6, <2>1 DEF CurrentPart, ViewPart, Agrees, AllDbs
  <2>2. CASE other = db
    <3>1. Consumed >= Len(feed)
      BY <1>1, <2>2 DEF CurrentPart, RunPart, TypeOK, Consumed, Runs
    <3>2. ~Unconsumed(DefaultKey)
      BY <3>1 DEF Unconsumed, TypeOK, Consumed, Runs
    <3>3. bag[DefaultKey] = {} => cached = 0
      BY <3>2 DEF CurrentPart, CachedPart, Newest
    <3>4. k \in view'[db] <=> bag[k] # {}
      BY <1>1, <3>3 DEF TypeOK, CanRead
    <3> QED BY <1>1, <2>2, <3>4 DEF Agrees
  <2> QED BY <2>1, <2>2
<1> QED BY <1>3, <1>5, <1>7, <1>8 DEF CurrentPart, ViewPart

LEMMA OpenEndCurrent ==
  ASSUME TypeOK, CurrentPart, NEW db \in AllDbs, OpenEnd(db)
  PROVE  CurrentPart'
<1>1. /\ UNCHANGED <<bag, feed, cursor, run, view, cached, missed>> /\ db \in opening
      /\ opening' = opening \ {db} /\ opened' = Append(opened, db)
  BY DEF OpenEnd
<1>2. OpenDbs' = OpenDbs \cup {db}
  <2>1. /\ opened \in Seq(AllDbs) /\ DOMAIN opened = 1..Len(opened) /\ Len(opened) \in Nat
        /\ DOMAIN opened' = 1..(Len(opened) + 1) /\ opened'[Len(opened) + 1] = db
        /\ \A i \in 1..Len(opened) : opened'[i] = opened[i]
    BY <1>1 DEF TypeOK
  <2>2. 1..(Len(opened) + 1) = 1..Len(opened) \cup {Len(opened) + 1}
    BY <2>1
  <2> QED BY <2>1, <2>2 DEF OpenDbs, Range
<1>3. Consumed' = Consumed
  BY <1>1 DEF Consumed
<1>4. RunPart'
  BY <1>1, <1>2, <1>3 DEF CurrentPart, RunPart
<1>5. \A k : Unconsumed(k)' <=> Unconsumed(k)
  BY <1>1, <1>3 DEF Unconsumed
<1> QED BY <1>1, <1>2, <1>4, <1>5 DEF CurrentPart, CachedPart, ViewPart, Agrees, Due

-----------------------------------------------------------------------------
(* The invariant                                                           *)

LEMMA FollowedKept ==
  ASSUME FollowedPart, followed' \subseteq followed,
         \A k \in followed' : bag'[k] = bag[k] /\ dist'[k] = dist[k]
  PROVE  FollowedPart'
BY DEF FollowedPart

LEMMA PassKeyFollowed ==
  ASSUME TypeOK, FollowedPart, NEW k \in KeyIds, PassKey(k)
  PROVE  FollowedPart'
<1>1. bag' = [bag EXCEPT ![k] = Delivered(k)] /\ followed' = followed \cup {k} /\ dist' = dist
  BY PassKeyEvents DEF PassKey
<1>2. \A j \in followed \ {k} : bag'[j] = bag[j]
  BY <1>1 DEF TypeOK
<1>3. bag'[k] = Delivered(k)
  BY <1>1 DEF TypeOK
<1>4. /\ dist[k].pull => Delivered(k) = {}
      /\ dist[k].push /\ dist[k].opens /\ ~dist[k].pull => dist[k].man \subseteq Delivered(k)
  BY DEF Delivered
<1> QED BY <1>1, <1>2, <1>3, <1>4 DEF FollowedPart

LEMMA NextFollowed ==
  ASSUME TypeOK, FollowedPart, [KbNext]_kbVars
  PROVE  FollowedPart'
<1>1. CASE \E k \in KeyIds, v \in kbBudget.versions : SetKey(k, v) \/ DeleteKeyVersion(k, v)
  BY <1>1, FollowedKept DEF SetKey, DeleteKeyVersion, TypeOK
<1>2. CASE \E k \in KeyIds : DeleteKey(k)
  BY <1>2, FollowedKept DEF DeleteKey, TypeOK
<1>3. CASE \E k \in KeyIds, d \in kbBudget.dists : Distribute(k, d)
  BY <1>3, FollowedKept DEF Distribute, TypeOK
<1>4. CASE \E k \in KeyIds : PassKey(k)
  BY <1>4, PassKeyFollowed
<1>5. CASE WipeLocalTenant
  BY <1>5 DEF WipeLocalTenant, FollowedPart
<1>6. CASE UNCHANGED <<bag, dist, followed>>
  BY <1>6, FollowedKept
<1>7. CASE \/ \E db \in AllDbs : OpenStart(db) \/ OpenEnd(db)
           \/ \E k \in KeyIds : RunDbKey(k)
           \/ ForeignChange \/ GetSymmetricKey \/ AwaitReconcile
           \/ RunEvent \/ RunEventsDone \/ RunNextDb \/ RunFail \/ RunEnd
           \/ PassStart \/ PassEnd
  BY <1>6, <1>7 DEF OpenStart, OpenEnd, RunDbKey, ForeignChange, GetSymmetricKey, AwaitReconcile,
     RunEvent, RunEventsDone, RunNextDb, RunFail, RunEnd, PassStart, PassEnd
<1> QED BY <1>1, <1>2, <1>3, <1>4, <1>5, <1>6, <1>7 DEF KbNext, AllDbs, kbVars

LEMMA NextCurrent ==
  ASSUME TypeOK, wiped \/ CurrentPart, [KbNext]_kbVars
  PROVE  (wiped \/ CurrentPart)'
<1>1. wiped => wiped'
  BY DEF KbNext, kbVars, SetKey, DeleteKey, DeleteKeyVersion, ForeignChange, GetSymmetricKey,
     AwaitReconcile, RunEvent, RunEventsDone, RunNextDb, RunDbKey, RunFail, RunEnd, OpenStart,
     OpenEnd, Distribute, PassStart, PassKey, PassEnd, WipeLocalTenant
<1> SUFFICES ASSUME CurrentPart PROVE wiped' \/ CurrentPart'
  BY <1>1
<1>2. CASE \E k \in KeyIds, v \in kbBudget.versions : SetKey(k, v) \/ DeleteKeyVersion(k, v)
  BY <1>2, SetKeyCurrent, DeleteKeyCurrent
<1>3. CASE \E k \in KeyIds : DeleteKey(k) \/ RunDbKey(k) \/ PassKey(k)
  BY <1>3, DeleteKeyCurrent, RunDbKeyCurrent, PassKeyCurrent
<1>4. CASE \E db \in AllDbs : OpenStart(db) \/ OpenEnd(db)
  BY <1>4, OpenStartCurrent, OpenEndCurrent
<1>5. CASE ForeignChange \/ GetSymmetricKey \/ AwaitReconcile
  BY <1>5, ForeignChangeCurrent, GetSymmetricKeyCurrent, AwaitReconcileCurrent
<1>6. CASE RunEvent \/ RunEventsDone \/ RunNextDb \/ RunFail \/ RunEnd
  BY <1>6, RunEventCurrent, RunEventsDoneCurrent, RunNextDbCurrent, RunFailCurrent, RunEndCurrent
<1>7. CASE WipeLocalTenant
  BY <1>7 DEF WipeLocalTenant
<1>8. CASE UNCHANGED <<bag, feed, cursor, run, opened, opening, view, cached, missed>>
  BY <1>8 DEF CurrentPart, RunPart, CachedPart, ViewPart, Agrees, Unconsumed, Due, Consumed, OpenDbs
<1>9. CASE PassStart \/ PassEnd \/ UNCHANGED kbVars
           \/ \E k \in KeyIds, d \in kbBudget.dists : Distribute(k, d)
  BY <1>8, <1>9 DEF PassStart, PassEnd, Distribute, kbVars
<1> QED BY <1>2, <1>3, <1>4, <1>5, <1>6, <1>7, <1>9 DEF KbNext, AllDbs

LEMMA InitHolds == KbInit => KbInv
<1> SUFFICES ASSUME KbInit PROVE KbInv
  OBVIOUS
<1>1. Consumed = 0 /\ Len(feed) = 0 /\ OpenDbs = {} /\ opening = {}
  BY DEF KbInit, Consumed, NoRun, OpenDbs, Range
<1> QED BY <1>1 DEF KbInit, KbInv, FollowedPart, CurrentPart, RunPart, CachedPart, ViewPart, NoRun

(* Every reachable state of the key bag, its feed, the reconciliation, the  *)
(* databases and the distribution pass satisfies the inductive invariant:   *)
(* for each key it says what a database shows or who will still correct it  *)
(* (reconcileKeyBagChanges).                                                *)
THEOREM KeyBagInvariant == KbSpec => [](TypeOK /\ KbInv)
<1>1. KbInit => TypeOK /\ KbInv
  BY InitTyped, InitHolds
<1>2. TypeOK /\ KbInv /\ [KbNext]_kbVars => (TypeOK /\ KbInv)'
  BY NextTyped, NextFollowed, NextCurrent DEF KbInv
<1> QED BY <1>1, <1>2, PTL DEF KbSpec

LEMMA ViewsCurrent ==
  ASSUME TypeOK, KbInv
  PROVE  KeyViewsCurrent
<1>1. ASSUME Caught PROVE CurrentPart /\ \A k : ~Unconsumed(k)
  <2>1. CurrentPart /\ Consumed = Len(feed) /\ Len(feed) \in Nat
    BY <1>1 DEF Caught, KbInv, Consumed, TypeOK
  <2> QED BY <2>1 DEF Unconsumed, TypeOK
<1>2. ASSUME Caught, NEW db \in (OpenDbs \cap Dbs) \ missed
      PROVE  view[db] = Readable(bag)
  <2>1. \A k \in KeyIds : ~Due(db, k)
    BY <1>2 DEF Due, Caught
  <2>2. \A k \in KeyIds : Agrees(db, k)
    BY <1>1, <1>2, <2>1 DEF CurrentPart, ViewPart
  <2>3. view[db] \subseteq KeyIds
    BY DEF TypeOK, AllDbs
  <2> QED BY <2>2, <2>3 DEF Agrees, Readable
<1>3. CachedKeyCurrent
  BY <1>1 DEF CachedKeyCurrent, CurrentPart, CachedPart
<1>4. DistributionApplied
  <2> SUFFICES ASSUME NEW k \in followed
               PROVE  /\ dist[k].pull => bag[k] = {}
                      /\ dist[k].push /\ dist[k].opens /\ ~dist[k].pull => dist[k].man \subseteq bag[k]
                      /\ dist[k].pull /\ Caught =>
                           \A db \in (OpenDbs \cap Dbs) \ missed : k \notin view[db]
    BY DEF DistributionApplied
  <2>1. /\ dist[k].pull => bag[k] = {}
        /\ dist[k].push /\ dist[k].opens /\ ~dist[k].pull => dist[k].man \subseteq bag[k]
    BY DEF KbInv, FollowedPart
  <2>2. bag[k] = {} => k \notin Readable(bag)
    BY DEF Readable
  <2> QED BY <1>2, <2>1, <2>2
<1> QED BY <1>2, <1>3, <1>4 DEF KeyViewsCurrent

(* Once the change feed is consumed and no reconciliation is in flight,     *)
(* every open database shows the documents of exactly the keys in the bag,  *)
(* the cached default key is the newest, and what administrators pushed or  *)
(* pulled is applied.                                                       *)
THEOREM ViewsFollowBag == KbSpec => []KeyViewsCurrent
BY KeyBagInvariant, ViewsCurrent, PTL

-----------------------------------------------------------------------------
(* The user's keys                                                         *)

Generation == [pub : Nat \ {0}, wraps : [Devices -> Nat]]
Generations == Seq(Generation)
Document == [keys : Generations, kst : Nat, rej : SUBSET Nat, rst : Nat,
             del : BOOLEAN, dst : Nat, cr : Nat]
Grants == [active : SUBSET Devices, legacy : SUBSET Devices, revoked : SUBSET Devices,
           wipe : SUBSET Devices, dist : Nat]
Pair == [pair : Nat, mem : Nat]
Running == [on : BOOLEAN, snap : Generations]
Operation == [kind : {"none", "approve", "decline", "undo", "rotate"}, dev : Nat,
              snap : Generations, rej : SUBSET Nat, live : Generations, att : BOOLEAN]

(* The type invariant of what the theorems speak of. *)
UkTypes ==
  /\ doc \in [Nodes -> Document] /\ hub \in Document
  /\ dir \in Grants /\ dirView \in [Devices -> Grants]
  /\ loc \in [Devices -> Pair]
  /\ rec \in [Devices -> Running] /\ op \in [Devices -> Operation]
  /\ made \in Seq(Devices) /\ nextKey = Len(made) + 1
  /\ entitled \subseteq Devices
  /\ cut \in Seq([key : Nat, devs : SUBSET Devices])
  /\ window \in [unheard : SUBSET (Nat \X Devices), mixed : BOOLEAN]

(* The cut of a rotation holds for device t, or it is accounted for. *)
CutHolds(k, t) ==
  \A i \in DOMAIN cut : cut[i].key = k /\ t \in cut[i].devs =>
    made[k] = t \/ <<k, t>> \in window.unheard

(* A device that may have a wrap of key k; one that may have the pair.     *)
MayHold(k, t) == t \in entitled /\ CutHolds(k, t)
MayOwn(k, t) == (t \in entitled \/ made[k] = t) /\ CutHolds(k, t)

(* Generations whose wraps are of their own key and of devices that may.   *)
Honest(keys) ==
  \A e \in DOMAIN keys :
    /\ keys[e].pub \in DOMAIN made
    /\ \A t \in Devices : keys[e].wraps[t] # 0 =>
         keys[e].wraps[t] = keys[e].pub /\ MayHold(keys[e].pub, t)

(* The document in every replica, and what suspended operations took of it. *)
ReplicaPart == Honest(hub.keys) /\ \A n \in Nodes : Honest(doc[n].keys)
TakenPart ==
  \A d \in Devices : Honest(rec[d].snap) /\ Honest(op[d].snap) /\ Honest(op[d].live)
PairPart ==
  \A d \in Devices : loc[d].pair # 0 => loc[d].pair \in DOMAIN made /\ MayOwn(loc[d].pair, d)

(* A rotation under way cuts off whom its device knows to be revoked.      *)
RotationPart ==
  \A d \in Devices : op[d].kind = "rotate" =>
    /\ op[d].dev \in DOMAIN made /\ op[d].snap # <<>>
    /\ \A i \in DOMAIN cut : cut[i].key = op[d].dev => cut[i].devs \subseteq dirView[d].revoked

(* A device's view of the directory is an earlier state of it.             *)
HeardPart ==
  /\ dir.active \cap dir.revoked = {} /\ dir.legacy \subseteq entitled
  /\ \A d \in Devices : /\ dirView[d].active \cap dirView[d].revoked = {}
                        /\ dirView[d].revoked \subseteq dir.revoked
                        /\ dirView[d].legacy \subseteq entitled
CutPart == \A i \in DOMAIN cut : cut[i].key \in DOMAIN made /\ cut[i].devs \subseteq dir.revoked

UkInv == /\ UkTypes /\ HeardPart /\ CutPart /\ RotationPart
         /\ ~window.mixed => ReplicaPart /\ TakenPart /\ PairPart

-----------------------------------------------------------------------------
(* Least and greatest numbers                                              *)

LEMMA NatWellFounded == IsWellFoundedOn({ss \in Nat \X Nat : ss[1] < ss[2]}, Nat)
BY NatLessThanWellFounded, Zenon DEF OpToRel

LEMMA LeastExists ==
  ASSUME NEW T \in SUBSET Nat, T # {}
  PROVE  \E x \in T : \A y \in T : x <= y
<1> DEFINE R == {ss \in Nat \X Nat : ss[1] < ss[2]}
<1>1. IsWellFoundedOn(R, Nat)
  BY NatWellFounded
<1>2. \A x, y \in Nat : y < x => <<y, x>> \in R
  OBVIOUS
<1> HIDE DEF R
<1>3. PICK x \in T : \A y \in T : ~(<<y, x>> \in R)
  BY <1>1, WFMin
<1>4. \A y \in T : ~(y < x)
  BY <1>2, <1>3
<1>5. \A y \in T : x <= y
  BY <1>4
<1> QED
  BY <1>5

LEMMA MinIn ==
  ASSUME NEW S \in SUBSET Nat, S # {}
  PROVE  Min(S) \in S
BY LeastExists DEF Min

LEMMA MaxIn ==
  ASSUME NEW n \in Nat, NEW S \in SUBSET (1..n), S # {}
  PROVE  Max(S) \in S
<1> DEFINE T == {n - x : x \in S}
<1>1. \A x \in S : x \in Int /\ x <= n
  OBVIOUS
<1>2. T \in SUBSET Nat
  BY <1>1
<1>3. T # {}
  OBVIOUS
<1>4. PICK t \in T : \A y \in T : t <= y
  BY <1>2, <1>3, LeastExists
<1>5. \E x \in S : \A y \in S : x >= y
  <2>1. PICK x \in S : t = n - x
    OBVIOUS
  <2>2. \A y \in S : n - x <= n - y
    BY <1>4, <2>1
  <2>3. \A y \in S : x >= y
    BY <1>1, <2>2
  <2> QED
    BY <2>3
<1> QED
  BY <1>5 DEF Max

LEMMA MaxOfThree ==
  ASSUME NEW a \in Nat, NEW b \in Nat, NEW c \in Nat
  PROVE  Max({a, b, c}) \in Nat
<1>1. \E x \in {a, b, c} : \A y \in {a, b, c} : x >= y
  OBVIOUS
<1>2. Max({a, b, c}) \in {a, b, c}
  BY <1>1 DEF Max
<1> QED
  BY <1>2

LEMMA MaxOfTwo ==
  ASSUME NEW a \in Nat, NEW b \in Nat
  PROVE  Max({a, b}) \in Nat
<1>1. \E x \in {a, b} : \A y \in {a, b} : x >= y
  OBVIOUS
<1>2. Max({a, b}) \in {a, b}
  BY <1>1 DEF Max
<1> QED
  BY <1>2

-----------------------------------------------------------------------------
(* The document                                                            *)

LEMMA NodesAre == Devices \subseteq Nodes /\ Nodes \subseteq Nat /\ Base \in Nat /\ Base > 0
BY UkAssumption DEF Devices, Nodes, Base

LEMMA StampType ==
  ASSUME NEW r \in Document, NEW n \in Nodes
  PROVE  Stamp(r, n) \in Nat
<1>1. r.kst \in Nat /\ r.rst \in Nat /\ r.dst \in Nat
  BY DEF Document
<1>2. PICK m \in Nat : m = Max({r.kst, r.rst, r.dst})
  BY <1>1, MaxOfThree
<1>3. PICK b \in Nat \ {0} : b = Base
  BY NodesAre
<1>4. m \div b \in Nat
  OBVIOUS
<1>5. (m \div b + 1) * b + n \in Nat
  BY <1>4, NodesAre
<1> QED
  BY <1>2, <1>3, <1>5 DEF Stamp

LEMMA NoDocType ==
  /\ NoDoc \in Document /\ NoDoc.keys = <<>> /\ NoWraps \in [Devices -> Nat]
  /\ \A t \in Devices : NoWraps[t] = 0
BY DEF NoDoc, NoWraps, Document, Generations, Generation

LEMMA WriteKeysType ==
  ASSUME NEW r \in Document, NEW n \in Nodes, NEW keys \in Generations
  PROVE  /\ WriteKeys(r, n, keys) \in Document
         /\ WriteKeys(r, n, keys).keys = keys
BY StampType DEF WriteKeys, Document

LEMMA WriteRejectedType ==
  ASSUME NEW r \in Document, NEW n \in Nodes, NEW rej \in SUBSET Nat
  PROVE  /\ WriteRejected(r, n, rej) \in Document
         /\ WriteRejected(r, n, rej).keys = r.keys
BY StampType DEF WriteRejected, Document

LEMMA UndeletedType ==
  ASSUME NEW r \in Document, NEW n \in Nodes, NEW del \in BOOLEAN
  PROVE  LET q == [r EXCEPT !.del = del, !.dst = Stamp(r, n)]
         IN q \in Document /\ q.keys = r.keys
BY StampType DEF Document

LEMMA MergeType ==
  ASSUME NEW a \in Document, NEW b \in Document
  PROVE  /\ Merge(a, b) \in Document
         /\ Merge(a, b).keys = a.keys \/ Merge(a, b).keys = b.keys
<1>1. Max({a.kst, b.kst}) \in Nat /\ Max({a.rst, b.rst}) \in Nat /\ Max({a.dst, b.dst}) \in Nat
  BY MaxOfTwo DEF Document
<1> QED
  BY <1>1 DEF Merge, Document

-----------------------------------------------------------------------------
(* Reconciling                                                             *)

Ends == {"", "locked", "mismatch", "unknown", "waiting"}
Step == [doc : Document, loc : Pair, new : BOOLEAN, mint : BOOLEAN, end : Ends]

(* A pair that device d has, or generates in the reconcile at hand.        *)
OwnKey(d, k, new) == (new /\ k = nextKey) \/ (k \in DOMAIN made /\ MayOwn(k, d))

(* The wraps a reconcile of device d may leave in the document: those that *)
(* were there, its own, and those of devices on the grant, where the grant *)
(* is from before the document or the document is new.                     *)
Granted(d, mint) == GrantDevices(d, ~mint) \cap dirView[d].active
Reachable(d, s, k, t) ==
  \/ k \in DOMAIN made /\ MayHold(k, t)
  \/ t = d /\ OwnKey(d, k, s.new)
  \/ t # d /\ t \in Granted(d, s.mint)
SoundWraps(d, s, g) ==
  \A t \in Devices : g.wraps[t] # 0 => g.wraps[t] = g.pub /\ Reachable(d, s, g.pub, t)
SoundKeys(d, s) ==
  \A e \in DOMAIN s.doc.keys :
    /\ s.doc.keys[e].pub \in DOMAIN made \/ OwnKey(d, s.doc.keys[e].pub, s.new)
    /\ SoundWraps(d, s, s.doc.keys[e])
SoundPair(d, s) == s.loc.pair # 0 => OwnKey(d, s.loc.pair, s.new)
Sound(d, s) == s \in Step /\ (~window.mixed => SoundKeys(d, s) /\ SoundPair(d, s))

LEMMA GenerationsAre ==
  ASSUME NEW keys \in Generations, NEW e \in DOMAIN keys
  PROVE  /\ keys[e] \in Generation /\ keys[e].pub \in Nat \ {0}
         /\ keys[e].wraps \in [Devices -> Nat] /\ \A t \in Devices : keys[e].wraps[t] \in Nat
<1>1. keys[e] \in Generation
  BY DEF Generations
<1> QED
  BY <1>1 DEF Generation

LEMMA CurIs ==
  ASSUME NEW keys \in Generations, keys # <<>>
  PROVE  /\ Cur(keys) \in DOMAIN keys /\ CurPub(keys) = keys[Cur(keys)].pub
         /\ CurPub(keys) \in Nat \ {0}
<1>1. Cur(keys) \in DOMAIN keys
  BY DEF Cur, Generations
<1> QED
  BY <1>1, GenerationsAre DEF Cur, CurPub

LEMMA StepIs ==
  ASSUME NEW s \in Step
  PROVE  /\ s.doc \in Document /\ s.loc \in Pair /\ s.new \in BOOLEAN /\ s.mint \in BOOLEAN
         /\ s.end \in Ends /\ s.doc.keys \in Generations /\ s.loc.pair \in Nat /\ s.loc.mem \in Nat
BY DEF Step, Document, Pair

(* A generation with one more wrap, or with other wraps.                   *)
LEMMA MapKeysType ==
  ASSUME NEW keys \in Generations, NEW f, DOMAIN f = DOMAIN keys,
         \A e \in DOMAIN keys : f[e] \in Generation
  PROVE  [e \in DOMAIN keys |-> f[e]] \in Generations
<1>1. PICK n \in Nat : DOMAIN keys = 1..n
  BY DEF Generations
<1> QED
  BY <1>1 DEF Generations

LEMMA UpdateKeyType ==
  ASSUME NEW keys \in Generations, NEW e \in DOMAIN keys, NEW g \in Generation
  PROVE  LET r == [keys EXCEPT ![e] = g]
         IN /\ r \in Generations /\ DOMAIN r = DOMAIN keys /\ Len(r) = Len(keys)
            /\ r[e] = g /\ \A x \in DOMAIN keys : x # e => r[x] = keys[x]
BY DEF Generations

(* The bytes a device has open its own pair.                               *)
LEMMA OwnWrapIs ==
  ASSUME NEW d \in Devices, NEW r \in Document, NEW k
  PROVE  \/ OwnWrap(d, r, k) = 0
         \/ \E e \in DOMAIN r.keys : /\ r.keys[e].pub = k /\ r.keys[e].wraps[d] # 0
                                     /\ OwnWrap(d, r, k) = r.keys[e].wraps[d]
<1> DEFINE es == {e \in DOMAIN r.keys : r.keys[e].pub = k /\ r.keys[e].wraps[d] # 0}
<1>1. PICK n \in Nat : DOMAIN r.keys = 1..n
  BY DEF Document, Generations
<1>2. es \in SUBSET (1..n)
  BY <1>1
<1>3. es # {} => Max(es) \in es
  BY <1>2, MaxIn
<1>4. OwnWrap(d, r, k) = 0 \/ (es # {} /\ OwnWrap(d, r, k) = r.keys[Max(es)].wraps[d])
  BY DEF OwnWrap
<1> QED
  BY <1>3, <1>4

LEMMA LocalBytesAre ==
  ASSUME NEW d \in Devices, NEW l \in Pair, NEW r \in Document
  PROVE  /\ LocalBytes(d, l, r) \in Nat
         /\ l.pair # 0 => \/ LocalBytes(d, l, r) \in {0, l.pair}
                          \/ \E e \in DOMAIN r.keys :
                               /\ r.keys[e].pub = l.pair /\ r.keys[e].wraps[d] # 0
                               /\ LocalBytes(d, l, r) = r.keys[e].wraps[d]
<1>1. l.pair \in Nat /\ l.mem \in Nat /\ r.keys \in Generations
  BY DEF Pair, Document
<1>2. OwnWrap(d, r, l.pair) \in Nat
  BY <1>1, OwnWrapIs, GenerationsAre
<1> QED
  BY <1>1, <1>2, OwnWrapIs DEF LocalBytes

LEMMA SoundBytes ==
  ASSUME NEW d \in Devices, NEW s, Sound(d, s)
  PROVE  /\ LocalBytes(d, s.loc, s.doc) \in Nat
         /\ ~window.mixed /\ s.loc.pair # 0 => LocalBytes(d, s.loc, s.doc) \in {0, s.loc.pair}
<1>1. s \in Step
  BY DEF Sound
<1> QED
  BY <1>1, StepIs, LocalBytesAre DEF Sound, SoundKeys, SoundWraps

LEMMA EpochBytesAre ==
  ASSUME NEW d \in Devices, NEW s, Sound(d, s), NEW e \in DOMAIN s.doc.keys
  PROVE  LET b == EpochBytes(d, s.loc, s.doc, s.doc.keys, e)
         IN /\ b \in Nat
            /\ ~window.mixed => b \in {0, s.doc.keys[e].pub}
<1>1. s \in Step /\ s.doc.keys[e].wraps[d] \in Nat
  BY StepIs, GenerationsAre DEF Sound
<1> QED
  BY <1>1, SoundBytes DEF EpochBytes, Sound, SoundKeys, SoundWraps

(* Ending a reconcile keeps it sound.                                      *)
Ended(s, end) == [s EXCEPT !.end = end]
LEMMA EndSound ==
  ASSUME NEW d, NEW s, Sound(d, s)
  PROVE  \A end \in Ends : LET r == Ended(s, end)
         IN /\ Sound(d, r) /\ r.doc = s.doc /\ r.loc = s.loc /\ r.new = s.new /\ r.mint = s.mint
            /\ r.end = end
BY DEF Sound, Step, SoundKeys, SoundPair, SoundWraps, Reachable, Ended


(* A step that has more than another: it reaches what the other reaches.   *)
More(s, r) == /\ s.new => r.new
              /\ s.mint => r.mint

LEMMA ReachesMore ==
  ASSUME NEW d, NEW s \in Step, NEW r \in Step, More(s, r)
  PROVE  /\ \A k, t : Reachable(d, s, k, t) => Reachable(d, r, k, t)
         /\ \A k : OwnKey(d, k, s.new) => OwnKey(d, k, r.new)
<1>1. Granted(d, s.mint) \subseteq Granted(d, r.mint)
  BY StepIs DEF More, Granted, GrantDevices
<1> QED
  BY <1>1 DEF More, Reachable, OwnKey

(* What can change in a sound step.                                        *)
LEMMA ChangedSound ==
  ASSUME NEW d, NEW s, Sound(d, s), NEW r \in Step, More(s, r),
         \/ r.doc.keys = s.doc.keys
         \/ ~window.mixed => SoundKeys(d, r),
         \/ r.loc = s.loc
         \/ ~window.mixed => SoundPair(d, r)
  PROVE  Sound(d, r)
<1>1. s \in Step
  BY DEF Sound
<1>2. /\ \A k, t : Reachable(d, s, k, t) => Reachable(d, r, k, t)
      /\ \A k : OwnKey(d, k, s.new) => OwnKey(d, k, r.new)
  BY <1>1, ReachesMore
<1>3. ~window.mixed => SoundKeys(d, r)
  BY <1>2 DEF Sound, SoundKeys, SoundWraps
<1>4. ~window.mixed => SoundPair(d, r)
  BY <1>2 DEF Sound, SoundPair
<1> QED
  BY <1>3, <1>4 DEF Sound

LEMMA EnsureLocalSound ==
  ASSUME UkTypes, NEW d \in Devices, NEW s, Sound(d, s)
  PROVE  LET r == EnsureLocal(d, s)
         IN /\ Sound(d, r) /\ r.doc = s.doc /\ r.mint = s.mint
            /\ r.end = s.end => r.loc.pair # 0
<1> DEFINE p == [pair |-> nextKey, mem |-> nextKey]
           n == [s EXCEPT !.loc = p, !.new = TRUE]
<1>1. s \in Step /\ nextKey \in Nat \ {0}
  BY DEF Sound, UkTypes
<1>2. CASE s.loc.pair = 0
  <2>1. EnsureLocal(d, s) = n
    BY <1>2 DEF EnsureLocal
  <2>2. /\ n \in Step /\ n.loc = p /\ n.new /\ n.doc = s.doc /\ n.mint = s.mint /\ n.end = s.end
        /\ p.pair = nextKey
    BY <1>1 DEF Step, Pair
  <2>3. SoundPair(d, n) /\ More(s, n)
    BY <2>2 DEF SoundPair, OwnKey, More
  <2> HIDE DEF n, p
  <2>4. Sound(d, n)
    BY <2>2, <2>3, ChangedSound
  <2> QED
    BY <1>1, <2>1, <2>2, <2>4
<1>3. CASE s.loc.pair # 0
  <2>1. EnsureLocal(d, s) = s \/ EnsureLocal(d, s) = Ended(s, "locked")
    BY <1>3 DEF EnsureLocal, Ended
  <2>2. LET r == Ended(s, "locked") IN Sound(d, r) /\ r.doc = s.doc /\ r.loc = s.loc
                                                /\ r.mint = s.mint
    BY EndSound DEF Ends
  <2> QED
    BY <1>3, <2>1, <2>2
<1> QED
  BY <1>2, <1>3

(* Who is on the grant, and the device itself.                             *)
LEMMA GrantIs ==
  ASSUME NEW d \in Devices, NEW legacyOnly \in BOOLEAN
  PROVE  \A t \in GrantDevices(d, legacyOnly) :
           \/ t = d
           \/ \A mint \in BOOLEAN : legacyOnly \/ mint => t \in Granted(d, mint)
BY DEF GrantDevices, Granted

LEMMA WrapActiveSound ==
  ASSUME UkTypes, NEW d \in Devices, NEW s, Sound(d, s), NEW legacyOnly \in BOOLEAN,
         legacyOnly \/ s.mint, s.doc.keys # <<>>
  PROVE  LET r == WrapActive(d, s, legacyOnly)
         IN /\ Sound(d, r) /\ r.doc.keys # <<>> /\ r.loc = s.loc /\ r.new = s.new
            /\ r.mint = s.mint
<1> DEFINE b == LocalBytes(d, s.loc, s.doc)
           keys == s.doc.keys
           c == Cur(keys)
           devs == {t \in GrantDevices(d, legacyOnly) : keys[c].wraps[t] = 0}
           w == [t \in Devices |-> IF t \in devs THEN b ELSE keys[c].wraps[t]]
           g == [keys[c] EXCEPT !.wraps = w]
           next == [keys EXCEPT ![c] = g]
           r == [s EXCEPT !.doc = WriteKeys(s.doc, d, next)]
<1>1. s \in Step /\ s.doc \in Document /\ keys \in Generations
  BY StepIs DEF Sound
<1>2. c \in DOMAIN keys /\ CurPub(keys) = keys[c].pub /\ keys[c].pub \in Nat \ {0}
      /\ keys[c] \in Generation /\ \A t \in Devices : keys[c].wraps[t] \in Nat
  BY <1>1, CurIs, GenerationsAre
<1>3. CASE b = 0
  <2>1. WrapActive(d, s, legacyOnly) = Ended(s, "mismatch")
    BY <1>3 DEF WrapActive, Ended
  <2>2. LET q == Ended(s, "mismatch")
        IN Sound(d, q) /\ q.doc = s.doc /\ q.loc = s.loc /\ q.new = s.new /\ q.mint = s.mint
    <3>1. "mismatch" \in Ends
      BY DEF Ends
    <3> QED
      BY <3>1, EndSound
  <2> QED
    BY <2>1, <2>2
<1>4. CASE b # 0 /\ (CurPub(keys) # s.loc.pair \/ devs = {})
  <2>1. WrapActive(d, s, legacyOnly) = s
    BY <1>4 DEF WrapActive
  <2> QED
    BY <2>1
<1>5. CASE b # 0 /\ CurPub(keys) = s.loc.pair /\ devs # {}
  <2>1. WrapActive(d, s, legacyOnly)
          = [s EXCEPT !.doc = WriteKeys(s.doc, d,
               [keys EXCEPT ![c].wraps = [t \in Devices |-> IF t \in devs THEN b ELSE @[t]]])]
    BY <1>5 DEF WrapActive
  <2>2. [keys EXCEPT ![c].wraps = [t \in Devices |-> IF t \in devs THEN b ELSE @[t]]] = next
    BY <1>1, <1>2
  <2>3. b \in Nat /\ (~window.mixed => b = s.loc.pair)
    BY <1>2, <1>5, SoundBytes
  <2>4. g \in Generation /\ g.pub = keys[c].pub
        /\ \A t \in Devices : g.wraps[t] = IF t \in devs THEN b ELSE keys[c].wraps[t]
    BY <1>2, <2>3 DEF Generation
  <2> HIDE DEF g
  <2>5. /\ next \in Generations /\ DOMAIN next = DOMAIN keys /\ Len(next) = Len(keys)
        /\ next[c] = g /\ \A x \in DOMAIN keys : x # c => next[x] = keys[x]
    BY <1>1, <1>2, <2>4, UpdateKeyType
  <2> HIDE DEF next
  <2>6. WriteKeys(s.doc, d, next) \in Document /\ WriteKeys(s.doc, d, next).keys = next
    BY <1>1, <2>5, WriteKeysType, NodesAre
  <2>7. r \in Step /\ r.doc.keys = next /\ r.loc = s.loc /\ r.new = s.new /\ r.mint = s.mint
    BY <1>1, <2>6 DEF Step
  <2> HIDE DEF r
  <2>8. More(s, r) /\ \A k, t : Reachable(d, s, k, t) => Reachable(d, r, k, t)
    BY <1>1, <2>7, ReachesMore DEF More
  <2>9. ASSUME ~window.mixed PROVE SoundKeys(d, r)
    <3>1. SoundKeys(d, s) /\ SoundPair(d, s)
      BY <2>9 DEF Sound
    <3>2. OwnKey(d, keys[c].pub, r.new)
      BY <1>2, <1>5, <2>7, <3>1 DEF SoundPair
    <3>3. \A t \in devs : Reachable(d, r, keys[c].pub, t)
      BY <1>1, <2>7, <3>2, GrantIs, StepIs DEF Reachable
    <3>4. SoundWraps(d, r, g)
      BY <1>2, <1>5, <2>3, <2>4, <2>8, <2>9, <3>1, <3>3 DEF SoundKeys, SoundWraps
    <3>5. \A x \in DOMAIN keys : x # c => SoundWraps(d, r, next[x])
      BY <2>5, <2>8, <3>1 DEF SoundKeys, SoundWraps
    <3> QED
      BY <2>4, <2>5, <2>7, <3>1, <3>4, <3>5 DEF SoundKeys
  <2>10. Sound(d, r)
    BY <2>7, <2>8, <2>9, ChangedSound
  <2>11. next # <<>>
    BY <1>1, <1>2, <2>5
  <2> QED
    BY <2>1, <2>2, <2>7, <2>10, <2>11 DEF r
<1> QED
  BY <1>3, <1>4, <1>5

LEMMA OwnWrapsSound ==
  ASSUME UkTypes, NEW d \in Devices, NEW s, Sound(d, s), s.doc.keys # <<>>
  PROVE  LET r == OwnWraps(d, s)
         IN /\ Sound(d, r) /\ r.doc.keys # <<>> /\ r.loc = s.loc /\ r.new = s.new
            /\ r.mint = s.mint
<1> DEFINE keys == s.doc.keys
           bytes(e) == EpochBytes(d, s.loc, s.doc, keys, e)
           todo == {e \in DOMAIN keys : keys[e].pub = s.loc.pair /\ keys[e].wraps[d] = 0}
           f == [e \in DOMAIN keys |->
                   IF e \in todo THEN [keys[e] EXCEPT !.wraps[d] = bytes(e)] ELSE keys[e]]
           r == [s EXCEPT !.doc = WriteKeys(s.doc, d, f)]
<1>1. s \in Step /\ s.doc \in Document /\ keys \in Generations
  BY StepIs DEF Sound
<1>2. \A e \in DOMAIN keys :
        /\ keys[e] \in Generation /\ keys[e].wraps \in [Devices -> Nat] /\ bytes(e) \in Nat
        /\ ~window.mixed => bytes(e) \in {0, keys[e].pub}
  BY <1>1, EpochBytesAre, GenerationsAre
<1>3. CASE CurPub(keys) # s.loc.pair \/ \E e \in todo : bytes(e) = 0
  <2>1. OwnWraps(d, s) = Ended(s, "mismatch")
    BY <1>3 DEF OwnWraps, Ended
  <2>2. LET q == Ended(s, "mismatch")
        IN Sound(d, q) /\ q.doc = s.doc /\ q.loc = s.loc /\ q.new = s.new /\ q.mint = s.mint
    <3>1. "mismatch" \in Ends
      BY DEF Ends
    <3> QED
      BY <3>1, EndSound
  <2> QED
    BY <2>1, <2>2
<1>4. CASE CurPub(keys) = s.loc.pair /\ (\A e \in todo : bytes(e) # 0) /\ todo = {}
  <2>1. OwnWraps(d, s) = s
    BY <1>4 DEF OwnWraps
  <2> QED
    BY <2>1
<1>5. CASE CurPub(keys) = s.loc.pair /\ (\A e \in todo : bytes(e) # 0) /\ todo # {}
  <2>1. OwnWraps(d, s) = r
    BY <1>5 DEF OwnWraps
  <2>2. \A e \in DOMAIN keys :
          /\ f[e] \in Generation /\ f[e].pub = keys[e].pub
          /\ \A t \in Devices :
               f[e].wraps[t] = IF e \in todo /\ t = d THEN bytes(e) ELSE keys[e].wraps[t]
    <3> HIDE DEF bytes
    <3> QED
      BY <1>2 DEF Generation
  <2> HIDE DEF bytes
  <2>3. f \in Generations /\ DOMAIN f = DOMAIN keys
    BY <1>1, <2>2, MapKeysType
  <2>4. DOMAIN keys # {}
    BY <1>5
  <2>5. f # <<>>
    BY <2>3, <2>4
  <2> HIDE DEF f
  <2>6. WriteKeys(s.doc, d, f) \in Document /\ WriteKeys(s.doc, d, f).keys = f
    BY <1>1, <2>3, WriteKeysType, NodesAre
  <2>7. r \in Step /\ r.doc.keys = f /\ r.loc = s.loc /\ r.new = s.new /\ r.mint = s.mint
    BY <1>1, <2>6 DEF Step
  <2> HIDE DEF r
  <2>8. More(s, r) /\ \A k, t : Reachable(d, s, k, t) => Reachable(d, r, k, t)
    BY <1>1, <2>7, ReachesMore DEF More
  <2>9. ASSUME ~window.mixed PROVE SoundKeys(d, r)
    <3>1. SoundKeys(d, s) /\ SoundPair(d, s)
      BY <2>9 DEF Sound
    <3>2. \A e \in todo : OwnKey(d, keys[e].pub, r.new) /\ bytes(e) = keys[e].pub
      BY <1>2, <1>5, <2>7, <2>9, <3>1, GenerationsAre, <1>1 DEF SoundPair
    <3>3. \A e \in DOMAIN keys : SoundWraps(d, r, f[e])
      <4> SUFFICES ASSUME NEW e \in DOMAIN keys, NEW t \in Devices, f[e].wraps[t] # 0
                   PROVE  f[e].wraps[t] = f[e].pub /\ Reachable(d, r, f[e].pub, t)
        BY DEF SoundWraps
      <4>1. CASE e \in todo /\ t = d
        BY <2>2, <3>2, <4>1 DEF Reachable
      <4>2. CASE ~(e \in todo /\ t = d)
        <5>1. f[e].wraps[t] = keys[e].wraps[t] /\ f[e].pub = keys[e].pub
          BY <2>2, <4>2
        <5> QED
          BY <5>1, <2>8, <3>1 DEF SoundKeys, SoundWraps
      <4> QED
        BY <4>1, <4>2
    <3> QED
      BY <2>2, <2>3, <2>7, <3>1, <3>3 DEF SoundKeys
  <2>10. Sound(d, r)
    BY <2>7, <2>8, <2>9, ChangedSound
  <2> QED
    BY <2>1, <2>5, <2>7, <2>10
<1> QED
  BY <1>3, <1>4, <1>5

(* A document that is written anew for the device's own pair.              *)
LEMMA AdoptSound ==
  ASSUME UkTypes, NEW d \in Devices, NEW s, Sound(d, s), s.doc.keys # <<>>, s.loc.pair # 0
  PROVE  LET r == Adopt(d, s) IN Sound(d, r) /\ r.doc.keys # <<>>
<1> DEFINE c == Cur(s.doc.keys)
           g == [pub |-> s.loc.pair, wraps |-> NoWraps]
           keys == [s.doc.keys EXCEPT ![c] = g]
           n == [s EXCEPT !.doc = WriteKeys(s.doc, d, keys), !.mint = TRUE]
           w == WrapActive(d, n, FALSE)
<1>1. s \in Step /\ s.doc \in Document /\ s.doc.keys \in Generations /\ s.loc.pair \in Nat \ {0}
  BY StepIs DEF Sound
<1>2. g \in Generation /\ g.pub = s.loc.pair /\ \A t \in Devices : g.wraps[t] = 0
  BY <1>1, NoDocType DEF Generation
<1>3. c \in DOMAIN s.doc.keys
  BY <1>1, CurIs
<1> HIDE DEF g
<1>4. /\ keys \in Generations /\ DOMAIN keys = DOMAIN s.doc.keys
      /\ keys[c] = g /\ \A x \in DOMAIN s.doc.keys : x # c => keys[x] = s.doc.keys[x]
  BY <1>1, <1>2, <1>3, UpdateKeyType
<1>5. keys # <<>>
  BY <1>3, <1>4
<1> HIDE DEF keys
<1>6. WriteKeys(s.doc, d, keys) \in Document /\ WriteKeys(s.doc, d, keys).keys = keys
  BY <1>1, <1>4, WriteKeysType, NodesAre
<1>7. n \in Step /\ n.doc.keys = keys /\ n.loc = s.loc /\ n.new = s.new /\ n.mint
  BY <1>1, <1>6 DEF Step
<1> HIDE DEF n
<1>8. More(s, n) /\ \A k, t : Reachable(d, s, k, t) => Reachable(d, n, k, t)
  BY <1>1, <1>7, ReachesMore DEF More
<1>9. ASSUME ~window.mixed PROVE SoundKeys(d, n)
  <2>1. SoundKeys(d, s) /\ SoundPair(d, s)
    BY <1>9 DEF Sound
  <2>2. SoundWraps(d, n, g) /\ OwnKey(d, g.pub, n.new)
    BY <1>1, <1>2, <1>7, <2>1 DEF SoundWraps, SoundPair
  <2> QED
    BY <1>4, <1>7, <1>8, <2>1, <2>2 DEF SoundKeys, SoundWraps
<1>10. Sound(d, n)
  BY <1>7, <1>8, <1>9, ChangedSound
<1>11. Sound(d, w) /\ w.doc.keys # <<>>
  BY <1>5, <1>7, <1>10, WrapActiveSound
<1> HIDE DEF w
<1>12. Adopt(d, s) = IF w.end # "" THEN w ELSE OwnWraps(d, w)
  BY DEF Adopt, w, n, keys, g
<1> QED
  BY <1>11, <1>12, OwnWrapsSound

LEMMA OneGeneration ==
  ASSUME NEW g \in Generation
  PROVE  <<g>> \in Generations /\ <<g>> # <<>> /\ DOMAIN <<g>> = {1} /\ <<g>>[1] = g
<1>1. <<g>> \in Seq(Generation) /\ Len(<<g>>) = 1 /\ <<g>>[1] = g
  OBVIOUS
<1>2. DOMAIN <<g>> = 1..1
  BY <1>1
<1>3. <<g>> # <<>>
  BY <1>1
<1> QED
  BY <1>1, <1>2, <1>3 DEF Generations

LEMMA UnknownSound ==
  ASSUME NEW d, NEW s, Sound(d, s)
  PROVE  Sound(d, Ended(s, "unknown")) /\ Ended(s, "unknown").end = "unknown"
<1>1. "unknown" \in Ends
  BY DEF Ends
<1> QED
  BY <1>1, EndSound

(* The first writer of a document.                                         *)
LEMMA EnsureOwnSound ==
  ASSUME UkTypes, NEW d \in Devices, NEW self, NEW s, Sound(d, s), s.end = ""
  PROVE  LET r == EnsureOwn(d, self, s) IN Sound(d, r) /\ (r.end = "" => r.doc.keys # <<>>)
<1> DEFINE p == EnsureLocal(d, s)
           g == [pub |-> p.loc.pair, wraps |-> NoWraps]
           minted == IF Exists(s.doc) THEN [s.doc EXCEPT !.del = FALSE, !.dst = Stamp(s.doc, d)]
                     ELSE [NoDoc EXCEPT !.keys = <<g>>, !.kst = Stamp(NoDoc, d), !.cr = d]
           n == [p EXCEPT !.doc = minted, !.mint = TRUE]
           w == WrapActive(d, n, FALSE)
<1>1. Sound(d, p) /\ p.doc = s.doc /\ p.mint = s.mint /\ (p.end = "" => p.loc.pair # 0)
  BY EnsureLocalSound
<1>2. EnsureOwn(d, self, s) =
        IF ~MayMint(d, self) \/ p.end # "" THEN Ended(s, "unknown")
        ELSE IF d \notin dirView[d].active THEN Ended(p, "unknown")
        ELSE IF Exists(s.doc) /\ ~s.doc.del THEN p
        ELSE OwnWraps(d, Ended(w, ""))
  BY DEF EnsureOwn, Ended
<1> HIDE DEF p
<1>3. "unknown" \in Ends /\ "" \in Ends
  BY DEF Ends
<1>4. /\ Sound(d, Ended(s, "unknown")) /\ Ended(s, "unknown").end = "unknown"
      /\ Sound(d, Ended(p, "unknown")) /\ Ended(p, "unknown").end = "unknown"
  BY <1>1, UnknownSound
<1>5. ASSUME p.end = ""
      PROVE  Sound(d, w) /\ w.doc.keys # <<>>
  <2>1. p \in Step /\ s.doc \in Document /\ p.loc.pair \in Nat \ {0} /\ d \in Nodes /\ d \in Nat
        /\ s \in Step
    BY <1>1, <1>5, StepIs, NodesAre DEF Sound
  <2>2. g \in Generation /\ g.pub = p.loc.pair /\ \A t \in Devices : g.wraps[t] = 0
    BY <2>1, NoDocType DEF Generation
  <2> HIDE DEF g
  <2>3. <<g>> \in Generations /\ <<g>> # <<>> /\ DOMAIN <<g>> = {1} /\ <<g>>[1] = g
    BY <2>2, OneGeneration
  <2>4. Stamp(NoDoc, d) \in Nat
    BY <2>1, NoDocType, StampType
  <2>5. [NoDoc EXCEPT !.keys = <<g>>, !.kst = Stamp(NoDoc, d), !.cr = d] \in Document
        /\ [NoDoc EXCEPT !.keys = <<g>>, !.kst = Stamp(NoDoc, d), !.cr = d].keys = <<g>>
    BY <2>1, <2>3, <2>4, NoDocType DEF Document
  <2>6. minted \in Document /\ minted.keys = (IF Exists(s.doc) THEN s.doc.keys ELSE <<g>>)
    BY <2>1, <2>5, UndeletedType
  <2>7. minted.keys # <<>>
    BY <2>3, <2>6 DEF Exists
  <2> HIDE DEF minted
  <2>8. n \in Step /\ n.doc = minted /\ n.loc = p.loc /\ n.new = p.new /\ n.mint
    BY <2>1, <2>6 DEF Step
  <2> HIDE DEF n
  <2>9. More(p, n) /\ \A k, t : Reachable(d, p, k, t) => Reachable(d, n, k, t)
    BY <2>1, <2>8, ReachesMore DEF More
  <2>10. ASSUME ~window.mixed PROVE SoundKeys(d, n)
    <3>1. SoundKeys(d, p) /\ SoundPair(d, p)
      BY <1>1, <2>10 DEF Sound
    <3>2. SoundWraps(d, n, g) /\ OwnKey(d, g.pub, n.new)
      BY <2>1, <2>2, <2>8, <3>1 DEF SoundWraps, SoundPair
    <3>3. CASE Exists(s.doc)
      <4>1. n.doc.keys = p.doc.keys
        BY <1>1, <2>6, <2>8, <3>3
      <4>2. \A e \in DOMAIN p.doc.keys : SoundWraps(d, n, p.doc.keys[e])
        BY <2>9, <3>1 DEF SoundKeys, SoundWraps
      <4> QED
        BY <4>1, <4>2, <2>9, <3>1, <2>1, <2>8, ReachesMore DEF SoundKeys
    <3>4. CASE ~Exists(s.doc)
      <4>1. n.doc.keys = <<g>>
        BY <2>6, <2>8, <3>4
      <4> QED
        <5> SUFFICES ASSUME NEW e \in DOMAIN n.doc.keys
                     PROVE  /\ n.doc.keys[e].pub \in DOMAIN made \/ OwnKey(d, n.doc.keys[e].pub, n.new)
                            /\ SoundWraps(d, n, n.doc.keys[e])
          BY DEF SoundKeys
        <5>1. n.doc.keys[e] = g
          BY <4>1, <2>3
        <5> QED
          BY <5>1, <3>2
    <3> QED
      BY <3>3, <3>4
  <2>11. Sound(d, n)
    BY <1>1, <2>8, <2>9, <2>10, ChangedSound
  <2> QED
    BY <2>7, <2>8, <2>11, WrapActiveSound
<1> HIDE DEF w
<1>6. ASSUME p.end = ""
      PROVE  Sound(d, Ended(w, "")) /\ Ended(w, "").doc.keys # <<>>
  BY <1>3, <1>5, <1>6, EndSound
<1>7. ASSUME p.end = ""
      PROVE  Sound(d, OwnWraps(d, Ended(w, ""))) /\ OwnWraps(d, Ended(w, "")).doc.keys # <<>>
  BY <1>6, <1>7, OwnWrapsSound
<1> QED
  BY <1>1, <1>2, <1>4, <1>7 DEF Exists

(* The sealing of a pending document.                                      *)
LEMMA SealSound ==
  ASSUME UkTypes, NEW d \in Devices, NEW s, Sound(d, s), s.end = "", s.doc.keys # <<>>
  PROVE  LET r == Seal(d, s) IN Sound(d, r) /\ r.doc.keys # <<>>
<1> DEFINE p == EnsureLocal(d, s)
           own == OwnWraps(d, p)
<1>1. Sound(d, p) /\ p.doc = s.doc /\ (p.end = "" => p.loc.pair # 0)
  BY EnsureLocalSound
<1>2. Seal(d, s) = IF ~Pending(s.doc.keys) THEN s
                   ELSE IF p.end # "" THEN p
                   ELSE IF p.loc.pair = CurPub(s.doc.keys) THEN WrapActive(d, own, TRUE)
                   ELSE Adopt(d, p)
  BY DEF Seal
<1> HIDE DEF p
<1>3. Sound(d, own) /\ own.doc.keys # <<>>
  BY <1>1, OwnWrapsSound
<1> HIDE DEF own
<1>4. Sound(d, WrapActive(d, own, TRUE)) /\ WrapActive(d, own, TRUE).doc.keys # <<>>
  BY <1>3, WrapActiveSound
<1>5. p.end = "" => Sound(d, Adopt(d, p)) /\ Adopt(d, p).doc.keys # <<>>
  BY <1>1, AdoptSound
<1> QED
  BY <1>1, <1>2, <1>4, <1>5

(* The newest wrap of the device becomes its pair.                         *)
LEMMA ImportSound ==
  ASSUME NEW d \in Devices, NEW s, Sound(d, s)
  PROVE  LET r == Import(d, s)
         IN Sound(d, r) /\ r.doc = s.doc
<1> DEFINE keys == s.doc.keys
           es == {e \in DOMAIN keys : keys[e].wraps[d] # 0}
           m == Max(es)
           l == [pair |-> keys[m].pub, mem |-> keys[m].wraps[d]]
           r == [s EXCEPT !.loc = l]
<1>1. s \in Step /\ keys \in Generations
  BY StepIs DEF Sound
<1>2. CASE es = {}
  BY <1>2 DEF Import
<1>3. CASE es # {}
  <2>1. Import(d, s) = r
    BY <1>3 DEF Import
  <2>2. PICK n \in Nat : DOMAIN keys = 1..n
    BY <1>1 DEF Generations
  <2>3. es \in SUBSET (1..n)
    BY <2>2
  <2>4. m \in es
    BY <1>3, <2>3, MaxIn
  <2> HIDE DEF m
  <2>5. l \in Pair /\ l.pair = keys[m].pub
    BY <1>1, <2>4, GenerationsAre DEF Pair
  <2> HIDE DEF l
  <2>6. r \in Step /\ r.loc = l /\ r.doc = s.doc /\ r.new = s.new /\ r.mint = s.mint
    BY <1>1, <2>5 DEF Step
  <2> HIDE DEF r
  <2>7. ASSUME ~window.mixed PROVE SoundPair(d, r)
    <3>1. SoundKeys(d, s)
      BY <2>7 DEF Sound
    <3>2. Reachable(d, s, keys[m].pub, d)
      BY <2>4, <3>1 DEF SoundKeys, SoundWraps
    <3>3. OwnKey(d, keys[m].pub, s.new)
      BY <3>2 DEF Reachable, OwnKey, MayHold, MayOwn
    <3> QED
      BY <2>5, <2>6, <3>3 DEF SoundPair
  <2>8. Sound(d, r)
    BY <2>6, <2>7, ChangedSound DEF More
  <2> QED
    BY <2>1, <2>6, <2>8
<1> QED
  BY <1>2, <1>3

LEMMA EnrolSound ==
  ASSUME UkTypes, NEW d \in Devices, NEW s, Sound(d, s), s.doc.keys # <<>>
  PROVE  LET r == Enrol(d, s) IN Sound(d, r) /\ r.doc.keys # <<>>
<1> DEFINE i == IF s.loc.pair # CurPub(s.doc.keys) THEN Import(d, s) ELSE s
           hasOwn == d \in Wrapped(i.doc.keys)
           o == IF ~hasOwn THEN OwnWraps(d, i) ELSE i
<1>1. Sound(d, i) /\ i.doc.keys # <<>>
  BY ImportSound
<1>2. Enrol(d, s) = IF i.loc.pair = 0 THEN i
          ELSE IF \A e \in DOMAIN i.doc.keys : i.doc.keys[e].pub # i.loc.pair
               THEN Ended(i, IF hasOwn THEN "mismatch" ELSE "waiting")
          ELSE IF i.loc.pair # CurPub(i.doc.keys) THEN i
          ELSE IF o.end # "" THEN o
          ELSE WrapActive(d, o, TRUE)
  BY DEF Enrol, Ended
<1> HIDE DEF i
<1>3. Sound(d, o) /\ o.doc.keys # <<>>
  BY <1>1, OwnWrapsSound
<1> HIDE DEF o, hasOwn
<1>4. Sound(d, WrapActive(d, o, TRUE)) /\ WrapActive(d, o, TRUE).doc.keys # <<>>
  BY <1>3, WrapActiveSound
<1>5. "mismatch" \in Ends /\ "waiting" \in Ends
  BY DEF Ends
<1>6. \A end \in Ends : Sound(d, Ended(i, end)) /\ Ended(i, end).doc.keys # <<>>
  BY <1>1, EndSound
<1> QED
  BY <1>1, <1>2, <1>3, <1>4, <1>5, <1>6

(* What a device has before it reconciles is sound.                        *)
LEMMA StartSound ==
  ASSUME UkInv, NEW d \in Devices
  PROVE  Sound(d, [doc |-> doc[d], loc |-> loc[d], new |-> FALSE, mint |-> FALSE, end |-> ""])
<1> DEFINE s == [doc |-> doc[d], loc |-> loc[d], new |-> FALSE, mint |-> FALSE, end |-> ""]
<1>1. s \in Step /\ s.doc = doc[d] /\ s.loc = loc[d]
  BY NodesAre DEF UkInv, UkTypes, Step, Ends
<1> HIDE DEF s
<1>2. ASSUME ~window.mixed PROVE SoundKeys(d, s) /\ SoundPair(d, s)
  <2>1. Honest(doc[d].keys) /\ (loc[d].pair # 0 => loc[d].pair \in DOMAIN made /\ MayOwn(loc[d].pair, d))
    BY <1>2, NodesAre DEF UkInv, ReplicaPart, PairPart
  <2>2. SoundKeys(d, s)
    BY <1>1, <2>1 DEF SoundKeys, SoundWraps, Honest, Reachable
  <2>3. SoundPair(d, s)
    BY <1>1, <2>1 DEF SoundPair, OwnKey
  <2> QED
    BY <2>2, <2>3
<1>3. Sound(d, s)
  BY <1>1, <1>2 DEF Sound
<1> QED
  BY <1>3 DEF s

LEMMA ReconciledSound ==
  ASSUME UkInv, NEW d \in Devices, NEW self
  PROVE  Sound(d, Reconciled(d, self))
<1> DEFINE s0 == [doc |-> doc[d], loc |-> loc[d], new |-> FALSE, mint |-> FALSE, end |-> ""]
           s1 == IF Resolvable(doc[d], dirView[d]) THEN s0 ELSE EnsureOwn(d, self, s0)
           s2 == IF s1.end = "" THEN Seal(d, s1) ELSE s1
<1>1. Sound(d, s0) /\ UkTypes /\ s0.end = "" /\ s0.doc = doc[d]
  BY StartSound DEF UkInv
<1>2. Reconciled(d, self) = IF s2.end = "" THEN Enrol(d, s2) ELSE s2
  BY DEF Reconciled
<1>3. Resolvable(doc[d], dirView[d]) => doc[d].keys # <<>>
  BY DEF Resolvable, Exists
<1> HIDE DEF s0
<1>4. Sound(d, s1) /\ (s1.end = "" => s1.doc.keys # <<>>)
  BY <1>1, <1>3, EnsureOwnSound
<1> HIDE DEF s1
<1>5. Sound(d, s2) /\ (s2.end = "" => s2.doc.keys # <<>>)
  BY <1>1, <1>4, SealSound
<1> HIDE DEF s2
<1> QED
  BY <1>1, <1>2, <1>5, EnrolSound

-----------------------------------------------------------------------------
(* One step                                                                *)

(* The parts of the invariant after the step, for given generations.       *)
CutHoldsNext(k, t) ==
  \A i \in DOMAIN cut' : cut'[i].key = k /\ t \in cut'[i].devs =>
    made'[k] = t \/ <<k, t>> \in window'.unheard
MayHoldNext(k, t) == t \in entitled' /\ CutHoldsNext(k, t)
MayOwnNext(k, t) == (t \in entitled' \/ made'[k] = t) /\ CutHoldsNext(k, t)
HonestNext(keys) ==
  \A e \in DOMAIN keys :
    /\ keys[e].pub \in DOMAIN made'
    /\ \A t \in Devices : keys[e].wraps[t] # 0 =>
         keys[e].wraps[t] = keys[e].pub /\ MayHoldNext(keys[e].pub, t)

(* What was recorded stays recorded, and no cut of an old key is added.    *)
Grown ==
  /\ \A k \in DOMAIN made : k \in DOMAIN made' /\ made'[k] = made[k]
  /\ entitled \subseteq entitled' /\ window.unheard \subseteq window'.unheard
  /\ window.mixed => window'.mixed
  /\ \A i \in DOMAIN cut' : cut'[i].key \in DOMAIN made => \E j \in DOMAIN cut : cut[j] = cut'[i]

LEMMA HoldsOn ==
  ASSUME Grown, NEW k \in DOMAIN made, NEW t
  PROVE  /\ CutHolds(k, t) => CutHoldsNext(k, t)
         /\ MayHold(k, t) => MayHoldNext(k, t)
         /\ MayOwn(k, t) => MayOwnNext(k, t)
<1>1. ASSUME CutHolds(k, t) PROVE CutHoldsNext(k, t)
  <2> SUFFICES ASSUME NEW i \in DOMAIN cut', cut'[i].key = k, t \in cut'[i].devs
               PROVE  made'[k] = t \/ <<k, t>> \in window'.unheard
    BY DEF CutHoldsNext
  <2>1. PICK j \in DOMAIN cut : cut[j] = cut'[i]
    BY DEF Grown
  <2>2. made[k] = t \/ <<k, t>> \in window.unheard
    BY <1>1, <2>1 DEF CutHolds
  <2> QED
    BY <2>2 DEF Grown
<1> QED
  BY <1>1 DEF MayHold, MayOwn, MayHoldNext, MayOwnNext, Grown

LEMMA HonestOn ==
  ASSUME Grown, NEW keys, Honest(keys)
  PROVE  HonestNext(keys)
<1> SUFFICES ASSUME NEW e \in DOMAIN keys
             PROVE  /\ keys[e].pub \in DOMAIN made'
                    /\ \A t \in Devices : keys[e].wraps[t] # 0 =>
                         keys[e].wraps[t] = keys[e].pub /\ MayHoldNext(keys[e].pub, t)
  BY DEF HonestNext
<1>1. keys[e].pub \in DOMAIN made
  BY DEF Honest
<1> QED
  BY <1>1, HoldsOn DEF Honest, Grown

(* The step leaves generations honest; pairs; rotations under way.         *)
Fine(keys, old) == keys = old \/ HonestNext(keys)
FinePair(d) ==
  \/ loc'[d].pair = loc[d].pair \/ loc'[d].pair = 0
  \/ loc'[d].pair \in DOMAIN made' /\ MayOwnNext(loc'[d].pair, d)
FineRotation(d) ==
  op'[d].kind = "rotate" =>
    /\ op[d].kind = "rotate" /\ op'[d].dev = op[d].dev /\ op'[d].snap = op[d].snap
    /\ dirView[d].revoked \subseteq dirView'[d].revoked
FineStep ==
  /\ Fine(hub'.keys, hub.keys)
  /\ \A n \in Nodes : Fine(doc'[n].keys, doc[n].keys)
  /\ \A d \in Devices : /\ Fine(rec'[d].snap, rec[d].snap)
                        /\ Fine(op'[d].snap, op[d].snap) /\ Fine(op'[d].live, op[d].live)
                        /\ FinePair(d)

LEMMA StepInv ==
  ASSUME UkInv, Grown, UkTypes', HeardPart', CutPart', RotationPart',
         ~window'.mixed => FineStep
  PROVE  UkInv'
<1>1. ASSUME ~window'.mixed PROVE ReplicaPart' /\ TakenPart' /\ PairPart'
  <2>1. FineStep /\ ReplicaPart /\ TakenPart /\ PairPart
    BY <1>1 DEF UkInv, Grown
  <2>2. \A keys, old : Honest(old) /\ Fine(keys, old) => HonestNext(keys)
    BY HonestOn DEF Fine
  <2>3. HonestNext(hub'.keys) /\ \A n \in Nodes : HonestNext(doc'[n].keys)
    BY <2>1, <2>2 DEF FineStep, ReplicaPart
  <2>4. \A d \in Devices : /\ HonestNext(rec'[d].snap) /\ HonestNext(op'[d].snap)
                           /\ HonestNext(op'[d].live)
    BY <2>1, <2>2 DEF FineStep, TakenPart
  <2>5. \A d \in Devices : loc'[d].pair # 0 =>
          loc'[d].pair \in DOMAIN made' /\ MayOwnNext(loc'[d].pair, d)
    <3> SUFFICES ASSUME NEW d \in Devices, loc'[d].pair # 0, loc'[d].pair = loc[d].pair
                 PROVE  loc'[d].pair \in DOMAIN made' /\ MayOwnNext(loc'[d].pair, d)
      BY <2>1 DEF FineStep, FinePair
    <3>1. loc[d].pair \in DOMAIN made /\ MayOwn(loc[d].pair, d)
      BY <2>1 DEF PairPart
    <3> QED
      BY <3>1, HoldsOn DEF Grown
  <2>6. ReplicaPart'
    BY <2>3 DEF ReplicaPart, Honest, HonestNext, MayHold, MayHoldNext, CutHolds, CutHoldsNext
  <2>7. TakenPart'
    BY <2>4 DEF TakenPart, Honest, HonestNext, MayHold, MayHoldNext, CutHolds, CutHoldsNext
  <2>8. PairPart'
    BY <2>5 DEF PairPart, MayOwn, MayOwnNext, CutHolds, CutHoldsNext
  <2> QED
    BY <2>6, <2>7, <2>8
<1> QED
  BY <1>1 DEF UkInv

LEMMA RotationsOn ==
  ASSUME RotationPart, Grown, \A d \in Devices : FineRotation(d)
  PROVE  RotationPart'
<1> SUFFICES ASSUME NEW d \in Devices, op'[d].kind = "rotate"
             PROVE  /\ op'[d].dev \in DOMAIN made' /\ op'[d].snap # <<>>
                    /\ \A i \in DOMAIN cut' : cut'[i].key = op'[d].dev =>
                         cut'[i].devs \subseteq dirView'[d].revoked
  BY DEF RotationPart
<1>1. /\ op[d].kind = "rotate" /\ op'[d].dev = op[d].dev /\ op'[d].snap = op[d].snap
      /\ dirView[d].revoked \subseteq dirView'[d].revoked
  BY DEF FineRotation
<1>2. /\ op[d].dev \in DOMAIN made /\ op[d].snap # <<>>
      /\ \A i \in DOMAIN cut : cut[i].key = op[d].dev => cut[i].devs \subseteq dirView[d].revoked
  BY <1>1 DEF RotationPart
<1>3. \A i \in DOMAIN cut' : cut'[i].key = op'[d].dev => cut'[i].devs \subseteq dirView'[d].revoked
  <2> SUFFICES ASSUME NEW i \in DOMAIN cut', cut'[i].key = op'[d].dev
               PROVE  cut'[i].devs \subseteq dirView'[d].revoked
    OBVIOUS
  <2>1. PICK j \in DOMAIN cut : cut[j] = cut'[i]
    BY <1>1, <1>2 DEF Grown
  <2> QED
    BY <1>1, <1>2, <2>1
<1> QED
  BY <1>1, <1>2, <1>3 DEF Grown

(* What most steps leave alone.                                            *)
Recorded == <<made, entitled, cut, window>>

LEMMA NothingRecorded ==
  ASSUME UNCHANGED Recorded
  PROVE  Grown
BY DEF Grown, Recorded

(* A new pair is recorded.                                                 *)
LEMMA NewKeyRecorded ==
  ASSUME UkTypes, NEW d \in Devices, NEW isNew \in BOOLEAN, RecordNewKey(d, isNew)
  PROVE  /\ made' \in Seq(Devices) /\ nextKey' = Len(made') + 1 /\ nextKey \notin DOMAIN made
         /\ \A k \in DOMAIN made : k \in DOMAIN made' /\ made'[k] = made[k]
         /\ isNew => nextKey \in DOMAIN made' /\ made'[nextKey] = d
<1>1. made \in Seq(Devices) /\ nextKey = Len(made) + 1
  BY DEF UkTypes
<1>2. CASE ~isNew
  BY <1>1, <1>2 DEF RecordNewKey
<1>3. CASE isNew
  <2>1. made' = Append(made, d) /\ nextKey' = nextKey + 1
    BY <1>3 DEF RecordNewKey
  <2>2. made' \in Seq(Devices) /\ Len(made') = Len(made) + 1
    BY <1>1, <2>1
  <2>3. DOMAIN made' = 1..(Len(made) + 1) /\ DOMAIN made = 1..Len(made)
    BY <1>1, <2>2
  <2>4. \A k \in DOMAIN made : made'[k] = made[k]
    BY <1>1, <2>1
  <2>5. made'[nextKey] = d
    BY <1>1, <2>1
  <2> QED
    BY <1>1, <2>1, <2>2, <2>3, <2>4, <2>5
<1> QED
  BY <1>2, <1>3

(* Wraps written for a device the writer takes to be active.               *)
LEMMA NotedCut ==
  ASSUME UkInv, Grown, ~window.mixed, NEW d \in Devices, NEW keys, NEW e \in DOMAIN keys,
         NEW t \in Devices, t \in dirView[d].active, keys[e].wraps[t] # 0, UNCHANGED cut,
         Unheard(d, keys) \subseteq window'.unheard
  PROVE  CutHoldsNext(keys[e].pub, t)
<1> DEFINE k == keys[e].pub
<1>1. <<k, t>> \in Holders(keys)
  BY DEF Holders
<1>2. CASE <<k, t>> \in Holders(doc[d].keys)
  <2>1. PICK x \in DOMAIN doc[d].keys : doc[d].keys[x].pub = k /\ doc[d].keys[x].wraps[t] # 0
    BY <1>2 DEF Holders
  <2>2. Honest(doc[d].keys)
    BY NodesAre DEF UkInv, ReplicaPart
  <2>3. k \in DOMAIN made /\ CutHolds(k, t)
    BY <2>1, <2>2 DEF Honest, MayHold
  <2> QED
    BY <2>3, HoldsOn
<1>3. CASE <<k, t>> \notin Holders(doc[d].keys)
  <2> SUFFICES ASSUME NEW i \in DOMAIN cut, t \in cut[i].devs
               PROVE  <<k, t>> \in window'.unheard
    BY DEF CutHoldsNext
  <2>1. t \in dir.revoked /\ t \notin dirView[d].revoked
    BY DEF UkInv, CutPart, HeardPart
  <2>2. <<k, t>>[2] = t
    OBVIOUS
  <2>3. <<k, t>> \in Unheard(d, keys)
    BY <1>1, <1>3, <2>1, <2>2 DEF Unheard
  <2> QED
    BY <2>3
<1> QED
  BY <1>2, <1>3

LEMMA UnheardType ==
  ASSUME NEW d \in Devices, NEW keys \in Generations
  PROVE  Unheard(d, keys) \subseteq Nat \X Devices
<1>1. \A e \in DOMAIN keys : keys[e].pub \in Nat
  BY GenerationsAre
<1>2. Holders(keys) \subseteq Nat \X Devices
  BY <1>1 DEF Holders
<1> QED
  BY <1>2 DEF Unheard

(* The view and the cuts do not go back.                                   *)
LEMMA ViewsOn ==
  ASSUME UkTypes, HeardPart, CutPart, Grown, UNCHANGED dir, UNCHANGED dirView
  PROVE  HeardPart'
BY DEF HeardPart, Grown

LEMMA CutsOn ==
  ASSUME CutPart, Grown, dir.revoked \subseteq dir'.revoked, UNCHANGED cut
  PROVE  CutPart'
BY DEF CutPart, Grown

-----------------------------------------------------------------------------
(* The actions                                                             *)

LEMMA EmptyIs ==
  /\ <<>> \in Generations /\ NoRec \in Running /\ NoRec.snap = <<>>
  /\ NoOp \in Operation /\ NoOp.kind = "none" /\ NoOp.snap = <<>> /\ NoOp.live = <<>>
BY DEF Generations, NoRec, Running, NoOp, Operation

LEMMA EmptyHonest == HonestNext(<<>>)
BY DEF HonestNext

LEMMA TypesAre ==
  ASSUME UkTypes
  PROVE  /\ \A n \in Nodes : doc[n] \in Document /\ doc[n].keys \in Generations
         /\ hub \in Document /\ hub.keys \in Generations
         /\ dir \in Grants /\ \A d \in Devices : dirView[d] \in Grants
         /\ \A d \in Devices : /\ loc[d] \in Pair /\ loc[d].pair \in Nat /\ loc[d].mem \in Nat
                               /\ rec[d] \in Running /\ rec[d].snap \in Generations
                               /\ op[d] \in Operation /\ op[d].snap \in Generations
                               /\ op[d].live \in Generations /\ op[d].dev \in Nat
                               /\ op[d].rej \in SUBSET Nat
         /\ \A n \in Nodes : doc[n].rej \in SUBSET Nat
BY DEF UkTypes, Document, Pair, Running, Operation

(* A step that changes one replica of the document, and only that.         *)
LEMMA OneReplica ==
  ASSUME UkInv, NEW n \in Nodes, NEW r \in Document, doc' = [doc EXCEPT ![n] = r],
         ~window.mixed => Fine(r.keys, doc[n].keys),
         UNCHANGED <<hub, dir, dirView, loc, nextKey, made, entitled, cut, window>>,
         rec' \in [Devices -> Running], op' \in [Devices -> Operation],
         \A d \in Devices : FineRotation(d),
         ~window.mixed => \A d \in Devices :
           /\ Fine(rec'[d].snap, rec[d].snap)
           /\ Fine(op'[d].snap, op[d].snap) /\ Fine(op'[d].live, op[d].live)
  PROVE  UkInv'
<1>1. UkTypes /\ Grown
  BY NothingRecorded DEF UkInv, Recorded
<1>2. UkTypes'
  BY <1>1 DEF UkTypes
<1>3. HeardPart' /\ CutPart' /\ RotationPart'
  BY <1>1, ViewsOn, CutsOn, RotationsOn DEF UkInv
<1>4. \A m \in Nodes : doc'[m] = IF m = n THEN r ELSE doc[m]
  BY <1>1 DEF UkTypes
<1>5. ~window'.mixed => FineStep
  BY <1>4 DEF FineStep, Fine, FinePair
<1> QED
  BY <1>1, <1>2, <1>3, <1>5, StepInv

LEMMA ReconcileDropInv ==
  ASSUME UkInv, NEW d \in Devices, ReconcileDrop(d)
  PROVE  UkInv'
<1> DEFINE snap == rec[d].snap
           keys == DropRevoked(snap, dirView[d].revoked)
           w == WriteKeys(doc[d], d, keys)
           r == IF keys # snap /\ ~doc[d].del THEN w ELSE doc[d]
<1>1. UkTypes /\ d \in Nodes /\ doc[d] \in Document /\ snap \in Generations
  BY NodesAre, TypesAre DEF UkInv
<1>2. \A e \in DOMAIN snap : LET g == [snap[e] EXCEPT !.wraps =
                                [t \in Devices |-> IF t \in dirView[d].revoked THEN 0 ELSE @[t]]]
        IN /\ g \in Generation /\ g.pub = snap[e].pub
           /\ \A t \in Devices : g.wraps[t] # 0 => g.wraps[t] = snap[e].wraps[t]
  <2> SUFFICES ASSUME NEW e \in DOMAIN snap
               PROVE  LET g == [snap[e] EXCEPT !.wraps =
                                [t \in Devices |-> IF t \in dirView[d].revoked THEN 0 ELSE @[t]]]
                      IN /\ g \in Generation /\ g.pub = snap[e].pub
                         /\ \A t \in Devices : g.wraps[t] # 0 => g.wraps[t] = snap[e].wraps[t]
    OBVIOUS
  <2>1. snap[e] \in Generation /\ \A t \in Devices : snap[e].wraps[t] \in Nat
    BY <1>1, GenerationsAre
  <2> QED
    BY <2>1 DEF Generation
<1>3. keys \in Generations /\ DOMAIN keys = DOMAIN snap
  BY <1>1, <1>2, MapKeysType DEF DropRevoked
<1>4. \A e \in DOMAIN snap : /\ keys[e].pub = snap[e].pub
                             /\ \A t \in Devices : keys[e].wraps[t] # 0 => keys[e].wraps[t] = snap[e].wraps[t]
  BY <1>2 DEF DropRevoked
<1> HIDE DEF keys
<1>5. w \in Document /\ w.keys = keys
  BY <1>1, <1>3, WriteKeysType
<1>6. ASSUME ~window.mixed PROVE HonestNext(keys)
  <2>1. Grown /\ Honest(snap)
    BY <1>6, NothingRecorded DEF UkInv, TakenPart, ReconcileDrop, Recorded
  <2>2. HonestNext(snap)
    BY <2>1, HonestOn
  <2> QED
    BY <1>3, <1>4, <2>2 DEF HonestNext
<1>7. doc' = [doc EXCEPT ![d] = r] /\ rec' = [rec EXCEPT ![d] = NoRec]
      /\ UNCHANGED <<hub, dir, dirView, loc, op, nextKey, made, entitled, cut, window>>
  BY <1>1 DEF ReconcileDrop, keys, UkTypes
<1> HIDE DEF w
<1>8. r \in Document /\ (~window.mixed => Fine(r.keys, doc[d].keys))
  BY <1>1, <1>5, <1>6 DEF Fine
<1> HIDE DEF r
<1>9. rec' \in [Devices -> Running] /\ op' \in [Devices -> Operation]
      /\ \A x \in Devices : rec'[x] = IF x = d THEN NoRec ELSE rec[x]
  BY <1>1, <1>7, EmptyIs DEF UkTypes
<1>10. \A x \in Devices : FineRotation(x)
  BY <1>7 DEF FineRotation
<1>11. \A x \in Devices : /\ Fine(rec'[x].snap, rec[x].snap)
                          /\ Fine(op'[x].snap, op[x].snap) /\ Fine(op'[x].live, op[x].live)
  BY <1>7, <1>9, EmptyIs, EmptyHonest DEF Fine
<1> QED
  BY <1>1, <1>7, <1>8, <1>9, <1>10, <1>11, OneReplica

LEMMA DeclineFinishInv ==
  ASSUME UkInv, NEW d \in Devices, DeclineFinish(d)
  PROVE  UkInv'
<1> DEFINE rej == IF op[d].kind = "decline" THEN op[d].rej \cup {op[d].dev}
                  ELSE op[d].rej \ {op[d].dev}
           w == WriteRejected(doc[d], d, rej)
           r == IF doc[d].del THEN doc[d] ELSE w
<1>1. UkTypes /\ d \in Nodes /\ doc[d] \in Document /\ rej \in SUBSET Nat
  BY NodesAre, TypesAre DEF UkInv
<1> HIDE DEF rej
<1>2. w \in Document /\ w.keys = doc[d].keys
  BY <1>1, WriteRejectedType
<1>3. doc' = [doc EXCEPT ![d] = r] /\ op' = [op EXCEPT ![d] = NoOp]
      /\ UNCHANGED <<hub, dir, dirView, loc, rec, nextKey, made, entitled, cut, window>>
  BY <1>1 DEF DeclineFinish, rej, UkTypes
<1> HIDE DEF w
<1>4. r \in Document /\ Fine(r.keys, doc[d].keys)
  BY <1>1, <1>2 DEF Fine
<1> HIDE DEF r
<1>5. rec' \in [Devices -> Running] /\ op' \in [Devices -> Operation]
      /\ \A x \in Devices : op'[x] = IF x = d THEN NoOp ELSE op[x]
  BY <1>1, <1>3, EmptyIs DEF UkTypes
<1>6. \A x \in Devices : FineRotation(x)
  BY <1>3, <1>5, EmptyIs DEF FineRotation
<1>7. \A x \in Devices : /\ Fine(rec'[x].snap, rec[x].snap)
                         /\ Fine(op'[x].snap, op[x].snap) /\ Fine(op'[x].live, op[x].live)
  BY <1>3, <1>5, EmptyIs, EmptyHonest DEF Fine
<1> QED
  BY <1>1, <1>3, <1>4, <1>5, <1>6, <1>7, OneReplica

LEMMA DeletePublishedInv ==
  ASSUME UkInv, DeletePublished
  PROVE  UkInv'
<1> DEFINE r == [doc[0] EXCEPT !.del = TRUE, !.dst = Stamp(doc[0], 0)]
<1>1. UkTypes /\ 0 \in Nodes /\ doc[0] \in Document
  BY TypesAre, UkAssumption DEF UkInv, Nodes
<1>2. r \in Document /\ r.keys = doc[0].keys
  BY <1>1, UndeletedType
<1>3. doc' = [doc EXCEPT ![0] = r]
      /\ UNCHANGED <<hub, dir, dirView, loc, rec, op, nextKey, made, entitled, cut, window>>
  BY <1>1 DEF DeletePublished, UkTypes
<1> HIDE DEF r
<1>4. Fine(r.keys, doc[0].keys) /\ \A x \in Devices : FineRotation(x)
  BY <1>2, <1>3 DEF Fine, FineRotation
<1>5. rec' \in [Devices -> Running] /\ op' \in [Devices -> Operation]
  BY <1>1, <1>3 DEF UkTypes
<1>6. \A x \in Devices : /\ Fine(rec'[x].snap, rec[x].snap)
                         /\ Fine(op'[x].snap, op[x].snap) /\ Fine(op'[x].live, op[x].live)
  BY <1>3 DEF Fine
<1> QED
  BY <1>1, <1>2, <1>3, <1>4, <1>5, <1>6, OneReplica

LEMMA DetachedIs ==
  ASSUME UkTypes, NEW n \in Nodes
  PROVE  /\ Detached(n) \in [Devices -> Operation]
         /\ \A d \in Devices :
              /\ Detached(n)[d].kind = op[d].kind /\ Detached(n)[d].dev = op[d].dev
              /\ Detached(n)[d].snap = op[d].snap
              /\ Detached(n)[d].live = op[d].live \/ Detached(n)[d].live = doc[d].keys
<1>1. op \in [Devices -> Operation]
  BY DEF UkTypes
<1>2. CASE n \in Devices /\ op[n].kind # "none" /\ op[n].att
  <2> DEFINE o == [op[n] EXCEPT !.att = FALSE, !.live = doc[n].keys]
  <2>1. o \in Operation /\ o.kind = op[n].kind /\ o.dev = op[n].dev /\ o.snap = op[n].snap
        /\ o.live = doc[n].keys
    BY <1>1, <1>2, TypesAre DEF Operation
  <2>2. Detached(n) = [op EXCEPT ![n] = o]
    BY <1>1, <1>2 DEF Detached
  <2> HIDE DEF o
  <2> QED
    BY <1>1, <1>2, <2>1, <2>2
<1>3. CASE ~(n \in Devices /\ op[n].kind # "none" /\ op[n].att)
  BY <1>1, <1>3 DEF Detached
<1> QED
  BY <1>2, <1>3

LEMMA PullInv ==
  ASSUME UkInv, NEW n \in Nodes, Pull(n)
  PROVE  UkInv'
<1> DEFINE r == Merge(doc[n], hub)
<1>1. UkTypes /\ Grown /\ doc[n] \in Document /\ hub \in Document
  BY TypesAre, NothingRecorded DEF UkInv, Pull, Recorded
<1>2. r \in Document /\ (r.keys = doc[n].keys \/ r.keys = hub.keys)
  BY <1>1, MergeType
<1>3. doc' = [doc EXCEPT ![n] = r] /\ (op' = op \/ op' = Detached(n))
      /\ UNCHANGED <<hub, dir, dirView, loc, rec, nextKey, made, entitled, cut, window>>
  BY DEF Pull
<1> HIDE DEF r
<1>4. ~window.mixed => Fine(r.keys, doc[n].keys)
  BY <1>1, <1>2, HonestOn DEF UkInv, ReplicaPart, Fine
<1>5. rec' \in [Devices -> Running] /\ op' \in [Devices -> Operation]
      /\ \A d \in Devices : /\ op'[d].kind = op[d].kind /\ op'[d].dev = op[d].dev
                            /\ op'[d].snap = op[d].snap
                            /\ op'[d].live = op[d].live \/ op'[d].live = doc[d].keys
  <2>1. rec' \in [Devices -> Running]
    BY <1>1, <1>3 DEF UkTypes
  <2>2. CASE op' = op
    BY <1>1, <2>1, <2>2 DEF UkTypes
  <2>3. CASE op' = Detached(n)
    <3>1. /\ Detached(n) \in [Devices -> Operation]
          /\ \A d \in Devices :
               /\ Detached(n)[d].kind = op[d].kind /\ Detached(n)[d].dev = op[d].dev
               /\ Detached(n)[d].snap = op[d].snap
               /\ Detached(n)[d].live = op[d].live \/ Detached(n)[d].live = doc[d].keys
      BY <1>1, DetachedIs
    <3> QED
      BY <2>1, <2>3, <3>1
  <2> QED
    BY <1>3, <2>2, <2>3
<1>6. \A x \in Devices : FineRotation(x)
  BY <1>3, <1>5 DEF FineRotation
<1>7. ~window.mixed => \A d \in Devices : HonestNext(doc[d].keys)
  BY <1>1, HonestOn, NodesAre DEF UkInv, ReplicaPart
<1>8. ~window.mixed => \A x \in Devices :
        /\ Fine(rec'[x].snap, rec[x].snap)
        /\ Fine(op'[x].snap, op[x].snap) /\ Fine(op'[x].live, op[x].live)
  BY <1>3, <1>5, <1>7 DEF Fine
<1> QED
  BY <1>1, <1>2, <1>3, <1>4, <1>5, <1>6, <1>8, OneReplica

LEMMA PushInv ==
  ASSUME UkInv, NEW n \in Nodes, Push(n)
  PROVE  UkInv'
<1> DEFINE r == Merge(hub, doc[n])
<1>1. UkTypes /\ Grown /\ doc[n] \in Document /\ hub \in Document
  BY TypesAre, NothingRecorded DEF UkInv, Push, Recorded
<1>2. r \in Document /\ (r.keys = doc[n].keys \/ r.keys = hub.keys)
  BY <1>1, MergeType
<1>3. hub' = r /\ UNCHANGED <<doc, dir, dirView, loc, rec, op, nextKey, made, entitled, cut, window>>
  BY DEF Push
<1> HIDE DEF r
<1>4. ~window.mixed => Fine(hub'.keys, hub.keys)
  BY <1>1, <1>2, <1>3, HonestOn DEF UkInv, ReplicaPart, Fine
<1>5. UkTypes'
  BY <1>1, <1>2, <1>3 DEF UkTypes
<1>6. HeardPart' /\ CutPart' /\ RotationPart'
  <2>1. \A x \in Devices : FineRotation(x)
    BY <1>3 DEF FineRotation
  <2> QED
    BY <1>1, <1>3, <2>1, ViewsOn, CutsOn, RotationsOn DEF UkInv
<1>7. ~window'.mixed => FineStep
  BY <1>3, <1>4 DEF FineStep, Fine, FinePair
<1> QED
  BY <1>1, <1>5, <1>6, <1>7, StepInv

(* A step that leaves every replica and everything taken from one alone.   *)
LEMMA NoReplica ==
  ASSUME UkInv, Grown, UNCHANGED <<doc, hub, rec>>, window'.mixed = window.mixed,
         UkTypes', HeardPart', CutPart', RotationPart',
         ~window.mixed => \A d \in Devices :
           /\ Fine(op'[d].snap, op[d].snap) /\ Fine(op'[d].live, op[d].live)
           /\ FinePair(d)
  PROVE  UkInv'
<1>1. ~window'.mixed => FineStep
  BY DEF FineStep, Fine
<1> QED
  BY <1>1, StepInv

LEMMA DirectoryInv ==
  ASSUME UkInv, dir' \in Grants, dirView' \in [Devices -> Grants], HeardPart',
         dir.revoked \subseteq dir'.revoked,
         \A d \in Devices : dirView[d].revoked \subseteq dirView'[d].revoked,
         UNCHANGED <<doc, hub, loc, rec, op, nextKey, made, entitled, cut, window>>
  PROVE  UkInv'
<1>1. UkTypes /\ Grown
  BY NothingRecorded DEF UkInv, Recorded
<1>2. UkTypes'
  BY <1>1 DEF UkTypes
<1>3. \A d \in Devices : FineRotation(d)
  BY DEF FineRotation
<1>4. CutPart' /\ RotationPart'
  BY <1>1, <1>3, CutsOn, RotationsOn DEF UkInv
<1>5. \A d \in Devices : /\ Fine(op'[d].snap, op[d].snap) /\ Fine(op'[d].live, op[d].live)
                         /\ FinePair(d)
  BY DEF Fine, FinePair
<1> QED
  BY <1>1, <1>2, <1>4, <1>5, NoReplica

LEMMA PullDirectoryInv ==
  ASSUME UkInv, NEW d \in Devices, PullDirectory(d)
  PROVE  UkInv'
<1>1. UkTypes /\ HeardPart
  BY DEF UkInv
<1>2. dirView' = [dirView EXCEPT ![d] = dir]
      /\ UNCHANGED <<dir, doc, hub, loc, rec, op, nextKey, made, entitled, cut, window>>
  BY DEF PullDirectory
<1>3. \A x \in Devices : dirView'[x] = IF x = d THEN dir ELSE dirView[x]
  BY <1>1, <1>2 DEF UkTypes
<1>4. dir' \in Grants /\ dirView' \in [Devices -> Grants]
  BY <1>1, <1>2 DEF UkTypes
<1>5. HeardPart'
  BY <1>1, <1>2, <1>3 DEF HeardPart
<1>6. \A x \in Devices : dirView[x].revoked \subseteq dirView'[x].revoked
  BY <1>1, <1>3 DEF HeardPart
<1> QED
  BY <1>2, <1>4, <1>5, <1>6, DirectoryInv

LEMMA RevokeInv ==
  ASSUME UkInv, NEW t \in Devices, Revoke(t)
  PROVE  UkInv'
<1>1. UkTypes /\ HeardPart /\ dir \in Grants
  BY TypesAre DEF UkInv
<1>2. dir' = [dir EXCEPT !.active = @ \ {t}, !.revoked = @ \cup {t}]
      /\ UNCHANGED <<dirView, doc, hub, loc, rec, op, nextKey, made, entitled, cut, window>>
  BY DEF Revoke
<1>3. /\ dir' \in Grants /\ dir'.active = dir.active \ {t} /\ dir'.revoked = dir.revoked \cup {t}
      /\ dir'.legacy = dir.legacy
  BY <1>1, <1>2 DEF Grants
<1>4. dirView' \in [Devices -> Grants] /\ HeardPart'
  BY <1>1, <1>2, <1>3 DEF HeardPart, UkTypes
<1> QED
  BY <1>2, <1>3, <1>4, DirectoryInv

LEMMA PublishDefaultInv ==
  ASSUME UkInv, PublishDefault
  PROVE  UkInv'
<1>1. UkTypes /\ HeardPart /\ dir \in Grants /\ 0 \in Nodes /\ doc[0].keys \in Generations
  BY TypesAre, UkAssumption DEF UkInv, Nodes
<1>2. dir' = [dir EXCEPT !.dist = CurPub(doc[0].keys)] /\ doc[0].keys # <<>>
      /\ UNCHANGED <<dirView, doc, hub, loc, rec, op, nextKey, made, entitled, cut, window>>
  BY DEF PublishDefault, Resolvable, Exists
<1>3. CurPub(doc[0].keys) \in Nat
  BY <1>1, <1>2, CurIs
<1>4. /\ dir' \in Grants /\ dir'.active = dir.active /\ dir'.revoked = dir.revoked
      /\ dir'.legacy = dir.legacy
  BY <1>1, <1>2, <1>3 DEF Grants
<1>5. dirView' \in [Devices -> Grants] /\ HeardPart'
  BY <1>1, <1>2, <1>4 DEF HeardPart, UkTypes
<1> QED
  BY <1>2, <1>4, <1>5, DirectoryInv

LEMMA RestartInv ==
  ASSUME UkInv, NEW d \in Devices, Restart(d)
  PROVE  UkInv'
<1>1. UkTypes /\ Grown /\ loc[d] \in Pair
  BY TypesAre, NothingRecorded DEF UkInv, Restart, Recorded
<1>2. PICK seed \in {0, loc[d].pair} \cup {k \in DOMAIN made : made[k] = d} :
        loc' = [loc EXCEPT ![d].mem = seed]
  BY DEF Restart
<1>3. seed \in Nat
  BY <1>1, <1>2 DEF UkTypes, Pair
<1>4. rec' = [rec EXCEPT ![d] = NoRec] /\ op' = [op EXCEPT ![d] = NoOp]
      /\ UNCHANGED <<doc, hub, dir, dirView, nextKey, made, entitled, cut, window>>
  BY DEF Restart
<1>5. loc' \in [Devices -> Pair] /\ \A x \in Devices : loc'[x].pair = loc[x].pair
  BY <1>1, <1>2, <1>3 DEF UkTypes, Pair
<1>6. /\ rec' \in [Devices -> Running] /\ op' \in [Devices -> Operation]
      /\ \A x \in Devices : /\ rec'[x] = IF x = d THEN NoRec ELSE rec[x]
                            /\ op'[x] = IF x = d THEN NoOp ELSE op[x]
  BY <1>1, <1>4, EmptyIs DEF UkTypes
<1>7. UkTypes'
  BY <1>1, <1>4, <1>5, <1>6 DEF UkTypes
<1>8. HeardPart' /\ CutPart' /\ RotationPart'
  <2>1. \A x \in Devices : FineRotation(x)
    BY <1>4, <1>6, EmptyIs DEF FineRotation
  <2> QED
    BY <1>1, <1>4, <2>1, ViewsOn, CutsOn, RotationsOn DEF UkInv
<1>9. FineStep
  BY <1>4, <1>5, <1>6, EmptyIs, EmptyHonest DEF FineStep, Fine, FinePair
<1> QED
  BY <1>1, <1>7, <1>8, <1>9, StepInv

LEMMA OpStartInv ==
  ASSUME UkInv, NEW d \in Devices, NEW kind \in {"approve", "decline", "undo"},
         NEW t \in Devices, OpStart(d, kind, t)
  PROVE  UkInv'
<1> DEFINE o == [NoOp EXCEPT !.kind = kind, !.dev = t, !.snap = doc[d].keys, !.rej = doc[d].rej]
<1>1. UkTypes /\ Grown /\ d \in Nodes /\ doc[d].keys \in Generations /\ doc[d].rej \in SUBSET Nat
  BY TypesAre, NothingRecorded, NodesAre DEF UkInv, OpStart, Recorded
<1>2. op' = [op EXCEPT ![d] = o]
      /\ UNCHANGED <<doc, hub, dir, dirView, loc, rec, nextKey, made, entitled, cut, window>>
  BY DEF OpStart
<1>3. o \in Operation /\ o.kind = kind /\ o.snap = doc[d].keys /\ o.live = <<>>
  <2>1. NoOp \in Operation /\ t \in Nat
    BY EmptyIs, NodesAre
  <2> QED
    BY <1>1, <2>1, EmptyIs DEF Operation
<1> HIDE DEF o
<1>4. op' \in [Devices -> Operation] /\ \A x \in Devices : op'[x] = IF x = d THEN o ELSE op[x]
  BY <1>1, <1>2, <1>3 DEF UkTypes
<1>5. UkTypes'
  BY <1>1, <1>2, <1>4 DEF UkTypes
<1>6. HeardPart' /\ CutPart' /\ RotationPart'
  <2>1. \A x \in Devices : FineRotation(x)
    BY <1>2, <1>3, <1>4 DEF FineRotation
  <2> QED
    BY <1>1, <1>2, <2>1, ViewsOn, CutsOn, RotationsOn DEF UkInv
<1>7. ASSUME ~window.mixed
      PROVE  \A x \in Devices : /\ Fine(op'[x].snap, op[x].snap) /\ Fine(op'[x].live, op[x].live)
                                /\ FinePair(x)
  <2>1. HonestNext(doc[d].keys)
    BY <1>1, <1>7, HonestOn DEF UkInv, ReplicaPart
  <2> QED
    BY <1>2, <1>3, <1>4, <2>1, EmptyHonest DEF Fine, FinePair
<1> QED
  BY <1>1, <1>2, <1>5, <1>6, <1>7, NoReplica

LEMMA EnsurePairInv ==
  ASSUME UkInv, NEW d \in Devices, EnsurePair(d)
  PROVE  UkInv'
<1> DEFINE p == [pair |-> nextKey, mem |-> nextKey]
<1>1. UkTypes /\ RecordNewKey(d, TRUE) /\ nextKey \in Nat
      /\ loc' = [loc EXCEPT ![d] = p]
      /\ UNCHANGED <<doc, hub, dir, dirView, rec, op, entitled, cut, window>>
  <2>1. UkTypes /\ made \in Seq(Devices) /\ nextKey = Len(made) + 1
    BY DEF UkInv, UkTypes
  <2>2. nextKey \in Nat
    BY <2>1
  <2> QED
    BY <2>1, <2>2 DEF EnsurePair
<1>2. /\ made' \in Seq(Devices) /\ nextKey' = Len(made') + 1 /\ nextKey \notin DOMAIN made
      /\ \A k \in DOMAIN made : k \in DOMAIN made' /\ made'[k] = made[k]
      /\ nextKey \in DOMAIN made' /\ made'[nextKey] = d
  BY <1>1, NewKeyRecorded
<1>3. Grown
  BY <1>1, <1>2 DEF Grown
<1>4. p \in Pair /\ p.pair = nextKey
  BY <1>1 DEF Pair
<1> HIDE DEF p
<1>5. loc' \in [Devices -> Pair] /\ \A x \in Devices : loc'[x] = IF x = d THEN p ELSE loc[x]
  BY <1>1, <1>4 DEF UkTypes
<1>6. UkTypes'
  BY <1>1, <1>2, <1>5 DEF UkTypes
<1>7. HeardPart' /\ CutPart' /\ RotationPart'
  <2>1. \A x \in Devices : FineRotation(x)
    BY <1>1 DEF FineRotation
  <2> QED
    BY <1>1, <1>3, <2>1, ViewsOn, CutsOn, RotationsOn DEF UkInv
<1>8. MayOwnNext(nextKey, d)
  BY <1>2 DEF MayOwnNext, CutHoldsNext
<1>9. \A x \in Devices : /\ Fine(op'[x].snap, op[x].snap) /\ Fine(op'[x].live, op[x].live)
                         /\ FinePair(x)
  BY <1>1, <1>2, <1>4, <1>5, <1>8 DEF Fine, FinePair
<1> QED
  BY <1>1, <1>3, <1>6, <1>7, <1>9, NoReplica

LEMMA RotateStartInv ==
  ASSUME UkInv, NEW d \in Devices, RotateStart(d)
  PROVE  UkInv'
<1> DEFINE p == [pair |-> nextKey, mem |-> nextKey]
           c == [key |-> nextKey, devs |-> dirView[d].revoked]
           o == [NoOp EXCEPT !.kind = "rotate", !.dev = nextKey, !.snap = doc[d].keys]
<1>1. UkTypes /\ nextKey \in Nat /\ d \in Nodes /\ doc[d].keys \in Generations
  <2>1. UkTypes /\ made \in Seq(Devices) /\ nextKey = Len(made) + 1
    BY DEF UkInv, UkTypes
  <2>2. nextKey \in Nat
    BY <2>1
  <2> QED
    BY <2>1, <2>2, NodesAre, TypesAre
<1>2. /\ RecordNewKey(d, TRUE) /\ loc' = [loc EXCEPT ![d] = p] /\ op' = [op EXCEPT ![d] = o]
      /\ cut' = Append(cut, c) /\ doc[d].keys # <<>>
      /\ UNCHANGED <<doc, hub, dir, dirView, rec, entitled, window>>
  BY DEF RotateStart, Resolvable, Exists
<1>3. /\ made' \in Seq(Devices) /\ nextKey' = Len(made') + 1 /\ nextKey \notin DOMAIN made
      /\ \A k \in DOMAIN made : k \in DOMAIN made' /\ made'[k] = made[k]
      /\ nextKey \in DOMAIN made' /\ made'[nextKey] = d
  BY <1>1, <1>2, NewKeyRecorded
<1>4. p \in Pair /\ p.pair = nextKey
  BY <1>1 DEF Pair
<1>5. o \in Operation /\ o.kind = "rotate" /\ o.dev = nextKey /\ o.snap = doc[d].keys /\ o.live = <<>>
  BY <1>1, EmptyIs DEF Operation
<1>6. c \in [key : Nat, devs : SUBSET Devices] /\ c.key = nextKey /\ c.devs = dirView[d].revoked
  BY <1>1, TypesAre DEF Grants
<1> HIDE DEF p, o, c
<1>7. /\ cut' \in Seq([key : Nat, devs : SUBSET Devices])
      /\ \A i \in DOMAIN cut' : (i \in DOMAIN cut /\ cut'[i] = cut[i]) \/ cut'[i] = c
  BY <1>1, <1>2, <1>6 DEF UkTypes
<1>8. Grown
  BY <1>2, <1>3, <1>6, <1>7 DEF Grown
<1>9. /\ loc' \in [Devices -> Pair] /\ op' \in [Devices -> Operation]
      /\ \A x \in Devices : /\ loc'[x] = IF x = d THEN p ELSE loc[x]
                            /\ op'[x] = IF x = d THEN o ELSE op[x]
  BY <1>1, <1>2, <1>4, <1>5 DEF UkTypes
<1>10. UkTypes'
  BY <1>1, <1>2, <1>3, <1>7, <1>9 DEF UkTypes
<1>11. HeardPart'
  BY <1>1, <1>2, <1>8, ViewsOn DEF UkInv
<1>12. CutPart'
  BY <1>2, <1>3, <1>6, <1>7 DEF UkInv, CutPart, HeardPart
<1>13. RotationPart'
  <2> SUFFICES ASSUME NEW x \in Devices, op'[x].kind = "rotate"
               PROVE  /\ op'[x].dev \in DOMAIN made' /\ op'[x].snap # <<>>
                      /\ \A i \in DOMAIN cut' : cut'[i].key = op'[x].dev =>
                           cut'[i].devs \subseteq dirView'[x].revoked
    BY DEF RotationPart
  <2>1. CASE x = d
    <3>1. \A i \in DOMAIN cut' : cut'[i].key = nextKey => cut'[i] = c
      BY <1>3, <1>7 DEF UkInv, CutPart
    <3> QED
      BY <1>2, <1>3, <1>5, <1>6, <1>9, <2>1, <3>1
  <2>2. CASE x # d
    <3>1. /\ op[x].dev \in DOMAIN made /\ op[x].snap # <<>>
          /\ \A i \in DOMAIN cut : cut[i].key = op[x].dev => cut[i].devs \subseteq dirView[x].revoked
      BY <1>9, <2>2 DEF UkInv, RotationPart
    <3>2. \A i \in DOMAIN cut' : cut'[i].key = op[x].dev => i \in DOMAIN cut /\ cut'[i] = cut[i]
      BY <1>3, <1>6, <1>7, <3>1
    <3> QED
      BY <1>2, <1>3, <1>9, <2>2, <3>1, <3>2
  <2> QED
    BY <2>1, <2>2
<1>14. MayOwnNext(nextKey, d)
  BY <1>3 DEF MayOwnNext, CutHoldsNext
<1>15. ASSUME ~window.mixed
       PROVE  \A x \in Devices : /\ Fine(op'[x].snap, op[x].snap) /\ Fine(op'[x].live, op[x].live)
                                 /\ FinePair(x)
  <2>1. HonestNext(doc[d].keys)
    BY <1>1, <1>8, <1>15, HonestOn DEF UkInv, ReplicaPart
  <2> QED
    BY <1>3, <1>4, <1>5, <1>9, <1>14, <2>1, EmptyHonest DEF Fine, FinePair
<1> QED
  BY <1>2, <1>8, <1>10, <1>11, <1>12, <1>13, <1>15, NoReplica

(* The generation that a rotation appends.                                 *)
LEMMA RotatedKeysAre ==
  ASSUME UkInv, NEW d \in Devices, op[d].kind = "rotate"
  PROVE  LET keys == RotatedKeys(d)  snap == op[d].snap
         IN /\ keys \in Generations
            /\ \A e \in DOMAIN keys :
                 \/ e \in DOMAIN snap /\ keys[e] = snap[e]
                 \/ /\ keys[e].pub = op[d].dev
                    /\ \A t \in Devices : keys[e].wraps[t] # 0 =>
                         /\ keys[e].wraps[t] = op[d].dev /\ t \in dirView[d].active
                         /\ snap[Cur(snap)].wraps[t] # 0
<1> DEFINE snap == op[d].snap
           k == op[d].dev
           w == [t \in Devices |-> IF t \in dirView[d].active /\ snap[Cur(snap)].wraps[t] # 0 THEN k ELSE 0]
           g == [pub |-> k, wraps |-> w]
<1>1. UkTypes /\ snap \in Generations /\ k \in DOMAIN made /\ snap # <<>> /\ k \in Nat
  BY TypesAre DEF UkInv, RotationPart
<1>2. k # 0
  BY <1>1 DEF UkTypes
<1>3. g \in Generation /\ g.pub = k
      /\ \A t \in Devices : g.wraps[t] =
           IF t \in dirView[d].active /\ snap[Cur(snap)].wraps[t] # 0 THEN k ELSE 0
  BY <1>1, <1>2 DEF Generation
<1>4. RotatedKeys(d) = Append(snap, g)
  BY DEF RotatedKeys
<1> HIDE DEF g
<1>5. /\ Append(snap, g) \in Generations
      /\ \A e \in DOMAIN Append(snap, g) :
           (e \in DOMAIN snap /\ Append(snap, g)[e] = snap[e]) \/ Append(snap, g)[e] = g
  BY <1>1, <1>3 DEF Generations
<1> QED
  BY <1>3, <1>4, <1>5

LEMMA RotateFinishInv ==
  ASSUME UkInv, NEW d \in Devices, RotateFinish(d)
  PROVE  UkInv'
<1> DEFINE keys == RotatedKeys(d)
           snap == op[d].snap
           w == WriteKeys(doc[d], d, keys)
<1>1. UkTypes /\ d \in Nodes /\ doc[d] \in Document /\ snap \in Generations /\ op[d].kind = "rotate"
  BY NodesAre, TypesAre DEF UkInv, RotateFinish
<1>2. /\ keys \in Generations
      /\ \A e \in DOMAIN keys :
           \/ e \in DOMAIN snap /\ keys[e] = snap[e]
           \/ /\ keys[e].pub = op[d].dev
              /\ \A t \in Devices : keys[e].wraps[t] # 0 =>
                   /\ keys[e].wraps[t] = op[d].dev /\ t \in dirView[d].active
                   /\ snap[Cur(snap)].wraps[t] # 0
  BY <1>1, RotatedKeysAre
<1>3. /\ op' = [op EXCEPT ![d] = NoOp]
      /\ doc' = [doc EXCEPT ![d] = IF doc[d].del THEN doc[d] ELSE w]
      /\ IF doc[d].del THEN UNCHANGED window ELSE Note(d, keys)
      /\ UNCHANGED <<hub, dir, dirView, loc, rec, nextKey, made, entitled, cut>>
  BY <1>1 DEF RotateFinish, UkTypes
<1> HIDE DEF keys
<1>4. w \in Document /\ w.keys = keys
  BY <1>1, <1>2, WriteKeysType
<1> HIDE DEF w
<1>5. Unheard(d, keys) \subseteq Nat \X Devices
  BY <1>2, UnheardType
<1>6. /\ window' \in [unheard : SUBSET (Nat \X Devices), mixed : BOOLEAN]
      /\ window'.mixed = window.mixed /\ window.unheard \subseteq window'.unheard
  <2>1. window \in [unheard : SUBSET (Nat \X Devices), mixed : BOOLEAN]
    BY <1>1 DEF UkTypes
  <2>2. CASE doc[d].del
    BY <1>3, <2>1, <2>2
  <2>3. CASE ~doc[d].del
    <3>1. Note(d, keys)
      BY <1>3, <2>3
    <3> QED
      BY <1>5, <2>1, <3>1 DEF Note
  <2> QED
    BY <2>2, <2>3
<1>7. Grown
  BY <1>3, <1>6 DEF Grown
<1>8. /\ op' \in [Devices -> Operation]
      /\ \A x \in Devices : op'[x] = IF x = d THEN NoOp ELSE op[x]
  BY <1>1, <1>3, EmptyIs DEF UkTypes
<1>9. /\ doc' \in [Nodes -> Document]
      /\ \A n \in Nodes : doc'[n] = IF n = d /\ ~doc[d].del THEN w ELSE doc[n]
  BY <1>1, <1>3, <1>4 DEF UkTypes
<1>10. UkTypes'
  BY <1>1, <1>3, <1>6, <1>8, <1>9 DEF UkTypes
<1>11. HeardPart' /\ CutPart' /\ RotationPart'
  <2>1. \A x \in Devices : FineRotation(x)
    BY <1>3, <1>8, EmptyIs DEF FineRotation
  <2> QED
    BY <1>1, <1>3, <1>7, <2>1, ViewsOn, CutsOn, RotationsOn DEF UkInv
<1>12. ASSUME ~window.mixed PROVE HonestNext(keys)
  <2>1. Honest(snap) /\ HonestNext(snap)
    BY <1>7, <1>12, HonestOn DEF UkInv, TakenPart
  <2>2. /\ op[d].dev \in DOMAIN made /\ snap # <<>>
        /\ \A i \in DOMAIN cut : cut[i].key = op[d].dev => cut[i].devs \subseteq dirView[d].revoked
        /\ dirView[d].active \cap dirView[d].revoked = {}
    BY <1>1 DEF UkInv, RotationPart, HeardPart
  <2>3. Cur(snap) \in DOMAIN snap
    BY <1>1, <2>2, CurIs
  <2> SUFFICES ASSUME NEW e \in DOMAIN keys
               PROVE  /\ keys[e].pub \in DOMAIN made'
                      /\ \A t \in Devices : keys[e].wraps[t] # 0 =>
                           keys[e].wraps[t] = keys[e].pub /\ MayHoldNext(keys[e].pub, t)
    BY DEF HonestNext
  <2>4. CASE e \in DOMAIN snap /\ keys[e] = snap[e]
    BY <2>1, <2>4 DEF HonestNext
  <2>5. CASE /\ keys[e].pub = op[d].dev
             /\ \A t \in Devices : keys[e].wraps[t] # 0 =>
                  /\ keys[e].wraps[t] = op[d].dev /\ t \in dirView[d].active
                  /\ snap[Cur(snap)].wraps[t] # 0
    <3> SUFFICES ASSUME NEW t \in Devices, keys[e].wraps[t] # 0
                 PROVE  keys[e].wraps[t] = keys[e].pub /\ MayHoldNext(keys[e].pub, t)
      BY <1>3, <2>2, <2>5
    <3>1. t \in entitled
      BY <2>1, <2>3, <2>5 DEF Honest, MayHold
    <3>2. CutHolds(op[d].dev, t)
      BY <2>2, <2>5 DEF CutHolds
    <3> QED
      BY <1>7, <2>2, <2>5, <3>1, <3>2, HoldsOn DEF MayHold
  <2> QED
    BY <1>2, <2>4, <2>5
<1>13. ~window'.mixed => FineStep
  <2> SUFFICES ASSUME ~window'.mixed PROVE FineStep
    OBVIOUS
  <2>1. HonestNext(keys)
    BY <1>6, <1>12
  <2> QED
    BY <1>3, <1>4, <1>8, <1>9, <2>1, EmptyIs, EmptyHonest DEF FineStep, Fine, FinePair
<1> QED
  BY <1>7, <1>10, <1>11, <1>13, StepInv

LEMMA GrantType ==
  ASSUME UkTypes, NEW d \in Devices, NEW legacyOnly \in BOOLEAN
  PROVE  GrantDevices(d, legacyOnly) \subseteq Devices
BY TypesAre DEF GrantDevices, Grants

LEMMA ReconcileStartInv ==
  ASSUME UkInv, NEW d \in Devices, NEW self, ReconcileStart(d, self)
  PROVE  UkInv'
<1>1. PICK s : s = Reconciled(d, self)
  OBVIOUS
<1>2. Sound(d, s) /\ s \in Step /\ UkTypes /\ d \in Nodes
  BY <1>1, ReconciledSound, NodesAre DEF Sound, UkInv
<1>3. /\ s.doc \in Document /\ s.loc \in Pair /\ s.new \in BOOLEAN /\ s.mint \in BOOLEAN
      /\ s.doc.keys \in Generations /\ nextKey \in Nat
  <2>1. made \in Seq(Devices) /\ nextKey = Len(made) + 1
    BY <1>2 DEF UkTypes
  <2> QED
    BY <1>2, <2>1, StepIs
<1>4. /\ doc' = [doc EXCEPT ![d] = s.doc] /\ loc' = [loc EXCEPT ![d] = s.loc]
      /\ \/ rec' = [rec EXCEPT ![d] = [on |-> TRUE, snap |-> s.doc.keys]]
         \/ rec' = [rec EXCEPT ![d] = NoRec]
      /\ RecordNewKey(d, s.new) /\ Note(d, s.doc.keys)
      /\ UNCHANGED <<hub, dir, dirView, op, cut>>
      /\ entitled' = entitled \cup (IF s.mint THEN GrantDevices(d, FALSE) ELSE {})
                              \cup (IF Founder(d, s.doc.keys) THEN {d} ELSE {})
  BY <1>1 DEF ReconcileStart
<1>5. /\ made' \in Seq(Devices) /\ nextKey' = Len(made') + 1 /\ nextKey \notin DOMAIN made
      /\ \A k \in DOMAIN made : k \in DOMAIN made' /\ made'[k] = made[k]
      /\ s.new => nextKey \in DOMAIN made' /\ made'[nextKey] = d
  BY <1>2, <1>3, <1>4, NewKeyRecorded
<1>6. /\ window' \in [unheard : SUBSET (Nat \X Devices), mixed : BOOLEAN]
      /\ window'.mixed = window.mixed /\ window.unheard \subseteq window'.unheard
      /\ Unheard(d, s.doc.keys) \subseteq window'.unheard
  BY <1>2, <1>3, <1>4, UnheardType DEF Note, UkTypes
<1>7. entitled \subseteq entitled' /\ entitled' \subseteq Devices
  BY <1>2, <1>4, GrantType DEF UkTypes
<1>8. Grown
  BY <1>4, <1>5, <1>6, <1>7 DEF Grown
<1>9. /\ doc' \in [Nodes -> Document] /\ loc' \in [Devices -> Pair]
      /\ \A n \in Nodes : doc'[n] = IF n = d THEN s.doc ELSE doc[n]
      /\ \A x \in Devices : loc'[x] = IF x = d THEN s.loc ELSE loc[x]
  BY <1>2, <1>3, <1>4 DEF UkTypes
<1>10. PICK q \in Running : rec' = [rec EXCEPT ![d] = q] /\ (q.snap = s.doc.keys \/ q.snap = <<>>)
  <2> DEFINE q == [on |-> TRUE, snap |-> s.doc.keys]
  <2>1. q \in Running /\ q.snap = s.doc.keys
    BY <1>3 DEF Running
  <2> HIDE DEF q
  <2> QED
    BY <1>4, <2>1, EmptyIs DEF q
<1>11. /\ rec' \in [Devices -> Running]
       /\ \A x \in Devices : rec'[x] = IF x = d THEN q ELSE rec[x]
  BY <1>2, <1>10 DEF UkTypes
<1>12. UkTypes'
  BY <1>2, <1>4, <1>5, <1>6, <1>7, <1>9, <1>11 DEF UkTypes
<1>13. HeardPart' /\ CutPart' /\ RotationPart'
  <2>1. \A x \in Devices : FineRotation(x)
    BY <1>4 DEF FineRotation
  <2> QED
    BY <1>2, <1>4, <1>8, <2>1, ViewsOn, CutsOn, RotationsOn DEF UkInv
<1>14. \A k : OwnKey(d, k, s.new) => k \in DOMAIN made' /\ MayOwnNext(k, d)
  <2> SUFFICES ASSUME NEW k, OwnKey(d, k, s.new)
               PROVE  k \in DOMAIN made' /\ MayOwnNext(k, d)
    OBVIOUS
  <2>1. CASE s.new /\ k = nextKey
    BY <1>5, <2>1 DEF MayOwnNext, CutHoldsNext
  <2>2. CASE k \in DOMAIN made /\ MayOwn(k, d)
    BY <1>5, <1>8, <2>2, HoldsOn
  <2> QED
    BY <2>1, <2>2 DEF OwnKey
<1>15. ASSUME ~window.mixed PROVE HonestNext(s.doc.keys)
  <2>1. SoundKeys(d, s)
    BY <1>2, <1>15 DEF Sound
  <2> SUFFICES ASSUME NEW e \in DOMAIN s.doc.keys
               PROVE  /\ s.doc.keys[e].pub \in DOMAIN made'
                      /\ \A t \in Devices : s.doc.keys[e].wraps[t] # 0 =>
                           /\ s.doc.keys[e].wraps[t] = s.doc.keys[e].pub
                           /\ MayHoldNext(s.doc.keys[e].pub, t)
    BY DEF HonestNext
  <2>2. PICK k : k = s.doc.keys[e].pub
    OBVIOUS
  <2>3. k \in DOMAIN made'
    BY <1>5, <1>14, <2>1, <2>2 DEF SoundKeys
  <2> SUFFICES ASSUME NEW t \in Devices, s.doc.keys[e].wraps[t] # 0
               PROVE  s.doc.keys[e].wraps[t] = k /\ MayHoldNext(k, t)
    BY <2>2, <2>3
  <2>4. s.doc.keys[e].wraps[t] = k /\ Reachable(d, s, k, t)
    BY <2>1, <2>2 DEF SoundKeys, SoundWraps
  <2>5. CASE k \in DOMAIN made /\ MayHold(k, t)
    BY <1>8, <2>4, <2>5, HoldsOn
  <2>6. CASE t = d /\ OwnKey(d, k, s.new)
    <3>1. MayOwnNext(k, d)
      BY <1>14, <2>6
    <3>2. made'[k] = d => Founder(d, s.doc.keys)
      BY <2>2, <2>6 DEF Founder
    <3>3. d \in entitled'
      BY <1>4, <3>1, <3>2 DEF MayOwnNext
    <3> QED
      BY <2>4, <2>6, <3>1, <3>3 DEF MayOwnNext, MayHoldNext
  <2>7. CASE t # d /\ t \in Granted(d, s.mint)
    <3>1. t \in dirView[d].active /\ t \in GrantDevices(d, ~s.mint)
      BY <2>7 DEF Granted
    <3>2. t \in entitled'
      <4>1. CASE s.mint
        <5>1. t \in GrantDevices(d, FALSE)
          BY <1>3, <3>1, <4>1
        <5> QED
          BY <1>4, <4>1, <5>1
      <4>2. CASE ~s.mint
        <5>1. t \in dirView[d].legacy
          BY <2>7, <3>1, <4>2 DEF GrantDevices
        <5> QED
          BY <1>7, <5>1 DEF UkInv, HeardPart
      <4> QED
        BY <1>3, <4>1, <4>2
    <3>3. CutHoldsNext(k, t)
      BY <1>4, <1>6, <1>8, <1>15, <2>2, <3>1, NotedCut
    <3> QED
      BY <2>4, <3>2, <3>3 DEF MayHoldNext
  <2> QED
    BY <2>4, <2>5, <2>6, <2>7 DEF Reachable
<1>16. ASSUME ~window.mixed
       PROVE  s.loc.pair # 0 => s.loc.pair \in DOMAIN made' /\ MayOwnNext(s.loc.pair, d)
  BY <1>2, <1>14, <1>16 DEF Sound, SoundPair
<1>17. ~window'.mixed => FineStep
  <2> SUFFICES ASSUME ~window'.mixed PROVE FineStep
    OBVIOUS
  <2>1. HonestNext(s.doc.keys) /\ HonestNext(q.snap)
    BY <1>6, <1>10, <1>15, EmptyHonest
  <2>2. \A x \in Devices : FinePair(x)
    BY <1>6, <1>9, <1>16 DEF FinePair
  <2> QED
    BY <1>4, <1>9, <1>11, <2>1, <2>2 DEF FineStep, Fine
<1> QED
  BY <1>8, <1>12, <1>13, <1>17, StepInv

(* What an approval writes: the private halves of "snap" that device n can   *)
(* open, where they belong.                                                *)
Opened(n, snap, e) == EpochBytes(n, loc[n], doc[n], snap, e)
Approved(keys, n, snap, live, t) ==
  /\ keys \in Generations /\ DOMAIN keys = DOMAIN live
  /\ \A e \in DOMAIN live :
       /\ keys[e].pub = live[e].pub
       /\ \A u \in Devices :
            \/ keys[e].wraps[u] = live[e].wraps[u]
            \/ /\ u = t /\ e \in DOMAIN snap
               /\ Opened(n, snap, e) # 0 /\ keys[e].wraps[u] = Opened(n, snap, e)

LEMMA ApproveKeysAre ==
  ASSUME UkInv, NEW n \in Devices, NEW snap \in Generations, NEW live \in Generations,
         NEW t \in Devices
  PROVE  Approved(ApproveKeys(n, snap, live, t), n, snap, live, t)
<1> DEFINE b(e) == EpochBytes(n, loc[n], doc[n], snap, e)
           keys == ApproveKeys(n, snap, live, t)
<1>1. UkTypes /\ loc[n] \in Pair /\ doc[n] \in Document
  BY TypesAre, NodesAre DEF UkInv
<1>2. \A e \in DOMAIN snap : b(e) \in Nat
  BY <1>1, LocalBytesAre, GenerationsAre DEF EpochBytes
<1>3. keys = [e \in DOMAIN live |-> IF e \in DOMAIN snap /\ b(e) # 0
                                    THEN AddWrap(live, e, t, b(e))[e] ELSE live[e]]
  BY DEF ApproveKeys
<1> HIDE DEF b, keys
<1>4. \A e \in DOMAIN live, k \in Nat :
        LET g == AddWrap(live, e, t, k)[e]
        IN /\ g \in Generation /\ g.pub = live[e].pub
           /\ \A u \in Devices : g.wraps[u] = live[e].wraps[u] \/ (u = t /\ g.wraps[u] = k)
  <2> SUFFICES ASSUME NEW e \in DOMAIN live, NEW k \in Nat
               PROVE  LET g == AddWrap(live, e, t, k)[e]
                      IN /\ g \in Generation /\ g.pub = live[e].pub
                         /\ \A u \in Devices : g.wraps[u] = live[e].wraps[u] \/ (u = t /\ g.wraps[u] = k)
    OBVIOUS
  <2>1. live[e] \in Generation /\ live[e].wraps \in [Devices -> Nat]
    BY GenerationsAre
  <2> DEFINE h == [live[e] EXCEPT !.wraps[t] = k]
  <2>2. AddWrap(live, e, t, k)[e] = live[e] \/ AddWrap(live, e, t, k)[e] = h
    BY DEF AddWrap, Generations
  <2>3. h \in Generation /\ h.pub = live[e].pub
        /\ \A u \in Devices : h.wraps[u] = live[e].wraps[u] \/ (u = t /\ h.wraps[u] = k)
    BY <2>1 DEF Generation
  <2> HIDE DEF h
  <2> QED
    BY <2>1, <2>2, <2>3
<1>5. \A e \in DOMAIN live :
        /\ keys[e] \in Generation /\ keys[e].pub = live[e].pub
        /\ \A u \in Devices :
             \/ keys[e].wraps[u] = live[e].wraps[u]
             \/ u = t /\ e \in DOMAIN snap /\ b(e) # 0 /\ keys[e].wraps[u] = b(e)
  BY <1>2, <1>3, <1>4, GenerationsAre
<1>6. DOMAIN keys = DOMAIN live /\ keys \in Generations
  <2>1. keys = [e \in DOMAIN live |-> keys[e]]
    BY <1>3
  <2>2. DOMAIN keys = DOMAIN live
    BY <1>3
  <2> QED
    BY <1>5, <2>1, <2>2, MapKeysType
<1> QED
  BY <1>5, <1>6 DEF b, keys, Approved, Opened

LEMMA HonestBytes ==
  ASSUME UkInv, ~window.mixed, NEW n \in Devices, NEW snap, Honest(snap), NEW e \in DOMAIN snap
  PROVE  EpochBytes(n, loc[n], doc[n], snap, e) \in {0, snap[e].pub}
<1>1. UkTypes /\ loc[n] \in Pair /\ doc[n] \in Document /\ Honest(doc[n].keys)
  BY TypesAre, NodesAre DEF UkInv, ReplicaPart
<1>2. loc[n].pair # 0 => LocalBytes(n, loc[n], doc[n]) \in {0, loc[n].pair}
  BY <1>1, LocalBytesAre DEF Honest
<1> QED
  BY <1>2 DEF EpochBytes, Honest

LEMMA ApproveFinishInv ==
  ASSUME UkInv, NEW d \in Devices, ApproveFinish(d)
  PROVE  UkInv'
<1> DEFINE snap == op[d].snap
           t == op[d].dev
           live == IF op[d].att THEN doc[d].keys ELSE op[d].live
           keys == ApproveKeys(d, snap, live, t)
           b(e) == EpochBytes(d, loc[d], doc[d], snap, e)
           r1 == IF keys # live THEN WriteKeys(doc[d], d, keys) ELSE doc[d]
           r2 == WriteRejected(r1, d, op[d].rej \ {t})
<1>1. UkTypes /\ d \in Nodes /\ doc[d] \in Document /\ snap \in Generations /\ live \in Generations
      /\ op[d].rej \ {t} \in SUBSET Nat
  BY NodesAre, TypesAre DEF UkInv
<1>2. op' = [op EXCEPT ![d] = NoOp]
      /\ UNCHANGED <<hub, dir, dirView, loc, rec, nextKey, made, cut>>
  BY DEF ApproveFinish
<1>3. /\ op' \in [Devices -> Operation]
      /\ \A x \in Devices : op'[x] = IF x = d THEN NoOp ELSE op[x]
  BY <1>1, <1>2, EmptyIs DEF UkTypes
<1>4. \A x \in Devices : FineRotation(x)
  BY <1>2, <1>3, EmptyIs DEF FineRotation
<1>5. CASE UNCHANGED <<doc, entitled, window>>
  <2>1. Grown
    BY <1>2, <1>5, NothingRecorded DEF Recorded
  <2>2. UkTypes'
    BY <1>1, <1>2, <1>3, <1>5 DEF UkTypes
  <2>3. HeardPart' /\ CutPart' /\ RotationPart'
    BY <1>1, <1>2, <1>4, <2>1, ViewsOn, CutsOn, RotationsOn DEF UkInv
  <2>4. FineStep
    BY <1>2, <1>3, <1>5, EmptyIs, EmptyHonest DEF FineStep, Fine, FinePair
  <2> QED
    BY <2>1, <2>2, <2>3, <2>4, StepInv
<1>6. CASE /\ t \in dirView[d].active
           /\ doc' = [doc EXCEPT ![d] = IF t \in op[d].rej THEN r2 ELSE r1]
           /\ entitled' = entitled \cup {t}
           /\ window' = [unheard |-> window.unheard \cup Unheard(d, keys),
                         mixed |-> window.mixed \/ Mixed(d, live)]
  <2>1. t \in Devices
    BY <1>1, <1>6, TypesAre DEF Grants
  <2>2. /\ keys \in Generations /\ DOMAIN keys = DOMAIN live
        /\ \A e \in DOMAIN live :
             /\ keys[e].pub = live[e].pub
             /\ \A u \in Devices :
                  \/ keys[e].wraps[u] = live[e].wraps[u]
                  \/ u = t /\ e \in DOMAIN snap /\ b(e) # 0 /\ keys[e].wraps[u] = b(e)
    <3>1. Approved(keys, d, snap, live, t)
      BY <1>1, <2>1, ApproveKeysAre
    <3> QED
      BY <3>1 DEF Approved, Opened
  <2>3. Mixed(d, live) <=> \E e \in DOMAIN snap :
          b(e) # 0 /\ (e \in DOMAIN live => live[e].pub # snap[e].pub)
    BY DEF Mixed
  <2> HIDE DEF keys
  <2>4. Unheard(d, keys) \subseteq Nat \X Devices
    BY <2>2, UnheardType
  <2>5. Mixed(d, live) \in BOOLEAN
    BY DEF Mixed
  <2>6. /\ window' \in [unheard : SUBSET (Nat \X Devices), mixed : BOOLEAN]
        /\ window.mixed => window'.mixed
        /\ ~window'.mixed => ~window.mixed /\ ~Mixed(d, live)
        /\ window.unheard \subseteq window'.unheard
        /\ Unheard(d, keys) \subseteq window'.unheard
    <3>1. window \in [unheard : SUBSET (Nat \X Devices), mixed : BOOLEAN]
      BY <1>1 DEF UkTypes
    <3>2. window'.mixed = (window.mixed \/ Mixed(d, live))
          /\ window'.unheard = window.unheard \cup Unheard(d, keys)
      BY <1>6
    <3> QED
      BY <1>6, <2>4, <2>5, <3>1, <3>2
  <2>7. Grown
    BY <1>2, <1>6, <2>6 DEF Grown
  <2>8. WriteKeys(doc[d], d, keys) \in Document /\ WriteKeys(doc[d], d, keys).keys = keys
    BY <1>1, <2>2, WriteKeysType
  <2>9. r1 \in Document /\ (r1.keys = keys \/ r1.keys = doc[d].keys)
    BY <1>1, <2>8
  <2> HIDE DEF r1
  <2>10. r2 \in Document /\ r2.keys = r1.keys
    BY <1>1, <2>9, WriteRejectedType
  <2> HIDE DEF r2
  <2>11. PICK r \in Document : doc' = [doc EXCEPT ![d] = r] /\ (r.keys = keys \/ r.keys = doc[d].keys)
    BY <1>6, <2>9, <2>10
  <2>12. /\ doc' \in [Nodes -> Document]
         /\ \A n \in Nodes : doc'[n] = IF n = d THEN r ELSE doc[n]
    BY <1>1, <2>11 DEF UkTypes
  <2>13. UkTypes'
    BY <1>1, <1>2, <1>3, <1>6, <2>1, <2>6, <2>12 DEF UkTypes
  <2>14. HeardPart' /\ CutPart' /\ RotationPart'
    BY <1>1, <1>2, <1>4, <2>7, ViewsOn, CutsOn, RotationsOn DEF UkInv
  <2>15. ASSUME ~window'.mixed PROVE HonestNext(keys)
    <3>1. ~window.mixed /\ ~Mixed(d, live)
      BY <2>6, <2>15
    <3>2. Honest(snap) /\ Honest(live)
      BY <1>1, <3>1 DEF UkInv, ReplicaPart, TakenPart
    <3>3. HonestNext(live)
      BY <2>7, <3>2, HonestOn
    <3> SUFFICES ASSUME NEW e \in DOMAIN keys
                 PROVE  /\ keys[e].pub \in DOMAIN made'
                        /\ \A u \in Devices : keys[e].wraps[u] # 0 =>
                             keys[e].wraps[u] = keys[e].pub /\ MayHoldNext(keys[e].pub, u)
      BY DEF HonestNext
    <3>4. keys[e].pub = live[e].pub /\ live[e].pub \in DOMAIN made'
      BY <2>2, <3>3 DEF HonestNext
    <3> SUFFICES ASSUME NEW u \in Devices, keys[e].wraps[u] # 0
                 PROVE  keys[e].wraps[u] = keys[e].pub /\ MayHoldNext(keys[e].pub, u)
      BY <3>4
    <3>5. CASE keys[e].wraps[u] = live[e].wraps[u]
      BY <2>2, <3>3, <3>4, <3>5 DEF HonestNext
    <3>6. CASE u = t /\ e \in DOMAIN snap /\ b(e) # 0 /\ keys[e].wraps[u] = b(e)
      <4>1. b(e) = snap[e].pub
        BY <3>1, <3>2, <3>6, HonestBytes
      <4>2. live[e].pub = snap[e].pub
        BY <2>2, <2>3, <3>1, <3>6
      <4>3. CutHoldsNext(keys[e].pub, u)
        BY <1>2, <1>6, <2>6, <2>7, <3>1, <3>6, NotedCut
      <4> QED
        BY <1>6, <3>4, <3>6, <4>1, <4>2, <4>3 DEF MayHoldNext
    <3> QED
      BY <2>2, <3>5, <3>6
  <2>16. ~window'.mixed => FineStep
    <3> SUFFICES ASSUME ~window'.mixed PROVE FineStep
      OBVIOUS
    <3>1. HonestNext(keys)
      BY <2>15
    <3> QED
      BY <1>2, <1>3, <2>11, <2>12, <3>1, EmptyIs, EmptyHonest DEF FineStep, Fine, FinePair
  <2> QED
    BY <2>7, <2>13, <2>14, <2>16, StepInv
<1>7. \/ UNCHANGED <<doc, entitled, window>>
      \/ /\ t \in dirView[d].active
         /\ doc' = [doc EXCEPT ![d] = IF t \in op[d].rej THEN r2 ELSE r1]
         /\ entitled' = entitled \cup {t}
         /\ window' = [unheard |-> window.unheard \cup Unheard(d, keys),
                       mixed |-> window.mixed \/ Mixed(d, live)]
  BY DEF ApproveFinish
<1> QED
  BY <1>5, <1>6, <1>7

(* The document that a join request meets, or makes.                       *)
LEMMA JoinInv ==
  ASSUME UkInv, NEW n \in Nodes, NEW t \in Devices, Join(n, t)
  PROVE  UkInv'
<1> DEFINE v == IF n = 0 THEN dir ELSE dirView[n]
           g == [pub |-> loc[t].pair, wraps |-> NoWraps]
           pending == [NoDoc EXCEPT !.keys = <<g>>, !.kst = Stamp(NoDoc, n), !.cr = 0]
           r0 == IF loc[t].pair = 0 THEN doc[n]
                 ELSE IF ~Exists(doc[n]) THEN pending
                 ELSE IF doc[n].del THEN [doc[n] EXCEPT !.del = FALSE, !.dst = Stamp(doc[n], n)]
                 ELSE doc[n]
           published == Resolvable(r0, [v EXCEPT !.active = @ \cup {t}])
           keys == ApproveKeys(n, r0.keys, r0.keys, t)
           wraps == n \in Devices /\ published /\ keys # r0.keys
           w == WriteKeys(r0, n, keys)
           r == IF wraps THEN w ELSE r0
<1>1. UkTypes /\ doc[n] \in Document /\ dir \in Grants /\ n \in Nat /\ loc[t].pair \in Nat /\ t \in Nodes
  BY TypesAre, NodesAre DEF UkInv
<1>2. /\ doc' = [doc EXCEPT ![n] = r]
      /\ dir' = [dir EXCEPT !.active = @ \cup {t}, !.dist = IF published THEN CurPub(r0.keys) ELSE @]
      /\ dirView' = (IF n \in Devices THEN [dirView EXCEPT ![n] = dir'] ELSE dirView)
      /\ entitled' = (IF wraps THEN entitled \cup {t} ELSE entitled)
      /\ n \in Devices => dirView[n] = dir
      /\ t \notin dir.revoked
      /\ UNCHANGED <<hub, loc, fetched, rec, op, nextKey, made, cut, window>>
  BY DEF Join
<1>3. published => r0.keys # <<>>
  BY DEF Resolvable, Exists
<1> HIDE DEF published
<1>4. Grown
  BY <1>1, <1>2 DEF Grown
<1>5. /\ r0 \in Document /\ r0.keys \in Generations
      /\ ~window.mixed => Honest(r0.keys) /\ Fine(r0.keys, doc[n].keys)
  <2>1. ~window.mixed => Honest(doc[n].keys) /\ Fine(doc[n].keys, doc[n].keys)
    BY DEF UkInv, ReplicaPart, Fine
  <2>2. CASE r0 = doc[n]
    BY <1>1, <2>1, <2>2, TypesAre
  <2>3. CASE r0 = [doc[n] EXCEPT !.del = FALSE, !.dst = Stamp(doc[n], n)]
    <3> DEFINE u == [doc[n] EXCEPT !.del = FALSE, !.dst = Stamp(doc[n], n)]
    <3>1. u \in Document /\ u.keys = doc[n].keys
      BY <1>1, UndeletedType
    <3>2. r0 = u
      BY <2>3
    <3> HIDE DEF u, r0
    <3> QED
      BY <1>1, <2>1, <3>1, <3>2, TypesAre
  <2>4. CASE loc[t].pair # 0 /\ r0 = pending
    <3>1. g \in Generation /\ g.pub = loc[t].pair /\ \A u \in Devices : g.wraps[u] = 0
      BY <1>1, <2>4, NoDocType DEF Generation
    <3> HIDE DEF g
    <3>2. <<g>> \in Generations /\ <<g>> # <<>> /\ DOMAIN <<g>> = {1} /\ <<g>>[1] = g
      BY <3>1, OneGeneration
    <3>3. Stamp(NoDoc, n) \in Nat
      BY NoDocType, StampType
    <3>4. pending \in Document /\ pending.keys = <<g>>
      BY <3>2, <3>3, NoDocType DEF Document
    <3>5. ASSUME ~window.mixed PROVE Honest(<<g>>)
      <4>1. g.pub \in DOMAIN made
        BY <2>4, <3>1, <3>5 DEF UkInv, PairPart
      <4> SUFFICES ASSUME NEW e \in DOMAIN <<g>>
                   PROVE  /\ <<g>>[e].pub \in DOMAIN made
                          /\ \A u \in Devices : <<g>>[e].wraps[u] # 0 =>
                               <<g>>[e].wraps[u] = <<g>>[e].pub /\ MayHold(<<g>>[e].pub, u)
        BY DEF Honest
      <4>2. <<g>>[e] = g
        BY <3>2
      <4> QED
        BY <3>1, <4>1, <4>2
    <3> HIDE DEF pending
    <3>6. r0.keys = <<g>> /\ r0 \in Document
      BY <2>4, <3>4
    <3>7. ~window.mixed => Honest(r0.keys) /\ HonestNext(r0.keys)
      BY <1>4, <3>5, <3>6, HonestOn
    <3> QED
      BY <3>2, <3>6, <3>7 DEF Fine
  <2> QED
    BY <2>2, <2>3, <2>4
<1> HIDE DEF r0
<1>6. ASSUME wraps
      PROVE  w \in Document /\ (~window.mixed => HonestNext(w.keys))
  <2>1. Approved(keys, n, r0.keys, r0.keys, t)
    BY <1>5, <1>6, ApproveKeysAre
  <2>2. /\ keys \in Generations /\ DOMAIN keys = DOMAIN r0.keys
        /\ \A e \in DOMAIN r0.keys :
             /\ keys[e].pub = r0.keys[e].pub
             /\ \A u \in Devices :
                  \/ keys[e].wraps[u] = r0.keys[e].wraps[u]
                  \/ u = t /\ keys[e].wraps[u] = Opened(n, r0.keys, e)
    BY <2>1 DEF Approved
  <2>3. t \in entitled'
    BY <1>2, <1>6
  <2>4. n \in Devices
    BY <1>6
  <2> HIDE DEF keys, wraps
  <2>5. w \in Document /\ w.keys = keys
    BY <1>5, <2>2, WriteKeysType
  <2>6. ASSUME ~window.mixed PROVE HonestNext(keys)
    <3>1. Honest(r0.keys) /\ HonestNext(r0.keys)
      BY <1>4, <1>5, <2>6, HonestOn
    <3> SUFFICES ASSUME NEW e \in DOMAIN keys
                 PROVE  /\ keys[e].pub \in DOMAIN made'
                        /\ \A u \in Devices : keys[e].wraps[u] # 0 =>
                             keys[e].wraps[u] = keys[e].pub /\ MayHoldNext(keys[e].pub, u)
      BY DEF HonestNext
    <3>2. keys[e].pub = r0.keys[e].pub /\ r0.keys[e].pub \in DOMAIN made'
      BY <2>2, <3>1 DEF HonestNext
    <3> SUFFICES ASSUME NEW u \in Devices, keys[e].wraps[u] # 0
                 PROVE  keys[e].wraps[u] = keys[e].pub /\ MayHoldNext(keys[e].pub, u)
      BY <3>2
    <3>3. CASE keys[e].wraps[u] = r0.keys[e].wraps[u]
      BY <2>2, <3>1, <3>2, <3>3 DEF HonestNext
    <3>4. CASE u = t /\ keys[e].wraps[u] = Opened(n, r0.keys, e)
      <4>1. Opened(n, r0.keys, e) = keys[e].pub
        BY <2>2, <2>4, <2>6, <3>1, <3>2, <3>4, HonestBytes DEF Opened
      <4>2. CutHoldsNext(keys[e].pub, t)
        BY <1>2 DEF CutHoldsNext, UkInv, CutPart
      <4> QED
        BY <2>3, <3>4, <4>1, <4>2 DEF MayHoldNext
    <3> QED
      BY <2>2, <3>3, <3>4
  <2> QED
    BY <2>5, <2>6
<1> HIDE DEF w, keys
<1>7. r \in Document /\ (~window.mixed => Fine(r.keys, doc[n].keys))
  BY <1>5, <1>6 DEF Fine
<1> HIDE DEF r
<1>8. /\ doc' \in [Nodes -> Document]
      /\ \A m \in Nodes : doc'[m] = IF m = n THEN r ELSE doc[m]
  BY <1>1, <1>2, <1>7 DEF UkTypes
<1>9. /\ dir' \in Grants /\ dir'.active = dir.active \cup {t}
      /\ dir'.revoked = dir.revoked /\ dir'.legacy = dir.legacy
  <2>1. published => CurPub(r0.keys) \in Nat
    BY <1>3, <1>5, CurIs
  <2> QED
    BY <1>1, <1>2, <2>1 DEF Grants
<1>10. /\ dirView' \in [Devices -> Grants]
       /\ \A d \in Devices : dirView'[d] = dirView[d] \/ (dirView'[d] = dir' /\ dirView[d] = dir)
  BY <1>1, <1>2, <1>9 DEF UkTypes
<1>11. entitled \subseteq entitled' /\ entitled' \subseteq Devices
  BY <1>1, <1>2 DEF UkTypes
<1>12. UkTypes'
  BY <1>1, <1>2, <1>8, <1>9, <1>10, <1>11 DEF UkTypes
<1>13. HeardPart'
  BY <1>2, <1>9, <1>10, <1>11 DEF UkInv, HeardPart
<1>14. CutPart' /\ RotationPart'
  <2>1. \A d \in Devices : FineRotation(d)
    BY <1>2, <1>9, <1>10 DEF FineRotation
  <2> QED
    BY <1>2, <1>4, <1>9, <2>1, CutsOn, RotationsOn DEF UkInv
<1>15. ~window'.mixed => FineStep
  BY <1>2, <1>7, <1>8 DEF FineStep, Fine, FinePair
<1> QED
  BY <1>4, <1>12, <1>13, <1>14, <1>15, StepInv

-----------------------------------------------------------------------------
(* The theorems                                                            *)

LEMMA InitInv ==
  ASSUME UkInit
  PROVE  UkInv
<1>1. PICK b \in UkBudgets : ukBudget = [b EXCEPT !.start = b.n]
  BY DEF UkInit
<1>2. b \in Scenario
  BY <1>1, UkAssumption
<1>3. PICK E : E = ukBudget.enrolled
  OBVIOUS
<1>4. E \subseteq Devices /\ ukBudget.legacy \subseteq Devices /\ ukBudget.wipe \subseteq Devices
  BY <1>1, <1>2, <1>3 DEF Scenario, Devices
<1>5. /\ dir = [active |-> ukBudget.legacy \cup E, legacy |-> ukBudget.legacy, revoked |-> {},
                wipe |-> ukBudget.wipe, dist |-> IF E = {} THEN 0 ELSE 1]
      /\ dirView = [d \in Devices |-> dir]
      /\ hub = (IF E = {} THEN NoDoc ELSE EnrolledDoc(E))
      /\ doc = [n \in Nodes |-> IF n \in E \cup {0} THEN hub ELSE NoDoc]
      /\ loc = [d \in Devices |-> IF d \in E THEN [pair |-> 1, mem |-> 1] ELSE [pair |-> 0, mem |-> 0]]
      /\ entitled = ukBudget.legacy \cup E
      /\ made = (IF E = {} THEN <<>> ELSE <<Min(E)>>)
      /\ nextKey = Len(made) + 1 /\ cut = <<>> /\ window = [unheard |-> {}, mixed |-> FALSE]
      /\ rec = [d \in Devices |-> NoRec] /\ op = [d \in Devices |-> NoOp]
  BY <1>3 DEF UkInit
<1> DEFINE g == [pub |-> 1, wraps |-> [t \in Devices |-> IF t \in E THEN 1 ELSE 0]]
<1>6. g \in Generation /\ g.pub = 1 /\ \A t \in Devices : g.wraps[t] = IF t \in E THEN 1 ELSE 0
  BY DEF Generation
<1>7. EnrolledDoc(E) = [NoDoc EXCEPT !.keys = <<g>>, !.kst = Base]
  BY DEF EnrolledDoc
<1> HIDE DEF g
<1>8. <<g>> \in Generations /\ DOMAIN <<g>> = {1} /\ <<g>>[1] = g
  BY <1>6, OneGeneration
<1>9. EnrolledDoc(E) \in Document /\ EnrolledDoc(E).keys = <<g>>
  BY <1>7, <1>8, NoDocType, NodesAre DEF Document
<1>10. hub \in Document /\ (hub.keys = <<>> \/ (E # {} /\ hub.keys = <<g>>))
  BY <1>5, <1>9, NoDocType
<1>11. /\ doc \in [Nodes -> Document]
       /\ \A n \in Nodes : doc[n].keys = <<>> \/ (E # {} /\ doc[n].keys = <<g>>)
  BY <1>5, <1>10, NoDocType
<1>12. made \in Seq(Devices) /\ (E # {} => DOMAIN made = {1})
  <2>1. E # {} => Min(E) \in E
    BY <1>4, MinIn, NodesAre
  <2>2. E # {} => <<Min(E)>> \in Seq(Devices) /\ DOMAIN <<Min(E)>> = {1}
    BY <1>4, <2>1
  <2> QED
    BY <1>5, <2>2
<1>13. dir \in Grants /\ dirView \in [Devices -> Grants]
  BY <1>4, <1>5 DEF Grants
<1>14. /\ loc \in [Devices -> Pair]
       /\ \A d \in Devices : loc[d].pair # 0 => d \in E /\ loc[d].pair = 1
  BY <1>5 DEF Pair
<1>15. UkTypes
  <2>1. rec \in [Devices -> Running] /\ op \in [Devices -> Operation]
    BY <1>5, EmptyIs
  <2>2. cut \in Seq([key : Nat, devs : SUBSET Devices])
    BY <1>5
  <2>3. window \in [unheard : SUBSET (Nat \X Devices), mixed : BOOLEAN]
    BY <1>5
  <2>4. nextKey = Len(made) + 1 /\ entitled \subseteq Devices
    BY <1>4, <1>5
  <2> QED
    BY <1>10, <1>11, <1>12, <1>13, <1>14, <2>1, <2>2, <2>3, <2>4 DEF UkTypes
<1>16. HeardPart /\ CutPart /\ RotationPart
  BY <1>5, EmptyIs DEF HeardPart, CutPart, RotationPart
<1>17. \A k, t : CutHolds(k, t)
  BY <1>5 DEF CutHolds
<1>18. E # {} => Honest(<<g>>)
  BY <1>5, <1>6, <1>8, <1>12, <1>17 DEF Honest, MayHold
<1>19. Honest(<<>>)
  BY DEF Honest
<1>20. ReplicaPart /\ TakenPart /\ PairPart
  <2>1. ReplicaPart
    BY <1>10, <1>11, <1>18, <1>19 DEF ReplicaPart
  <2>2. TakenPart
    BY <1>5, <1>19, EmptyIs DEF TakenPart
  <2>3. PairPart
    BY <1>5, <1>12, <1>14, <1>17 DEF PairPart, MayOwn
  <2> QED
    BY <2>1, <2>2, <2>3
<1> QED
  BY <1>15, <1>16, <1>20 DEF UkInv

LEMMA UkStutter ==
  ASSUME UkInv, UNCHANGED ukVars
  PROVE  UkInv'
<1>1. Grown /\ UNCHANGED <<doc, hub, dir, dirView, loc, rec, op, nextKey, made, entitled, cut, window>>
  BY NothingRecorded DEF ukVars, Recorded
<1>2. UkTypes'
  BY <1>1 DEF UkInv, UkTypes
<1>3. HeardPart' /\ CutPart' /\ RotationPart'
  <2>1. \A d \in Devices : FineRotation(d)
    BY <1>1 DEF FineRotation
  <2> QED
    BY <1>1, <2>1, ViewsOn, CutsOn, RotationsOn DEF UkInv
<1>4. FineStep
  BY <1>1 DEF FineStep, Fine, FinePair
<1> QED
  BY <1>1, <1>2, <1>3, <1>4, StepInv

(* Every step keeps the invariant: the documents of every replica and those  *)
(* that suspended operations hold, the pairs and the rotations under way.  *)
THEOREM UserKeysInvariant == UkSpec => []UkInv
<1>1. UkInit => UkInv
  BY InitInv
<1>2. UkInv /\ [UkNext]_ukVars => UkInv'
  <2> SUFFICES ASSUME UkInv, [UkNext]_ukVars PROVE UkInv'
    OBVIOUS
  <2>1. ASSUME NEW d \in Devices, NEW self \in ukBudget.self, ReconcileStart(d, self) PROVE UkInv'
    BY <2>1, ReconcileStartInv
  <2>2. ASSUME NEW d \in Devices, \/ ReconcileDrop(d) \/ EnsurePair(d) \/ RotateStart(d)
                                  \/ ApproveFinish(d) \/ DeclineFinish(d) \/ RotateFinish(d)
                                  \/ Revoke(d) \/ PullDirectory(d) \/ Restart(d)
        PROVE  UkInv'
    BY <2>2, ReconcileDropInv, EnsurePairInv, RotateStartInv, ApproveFinishInv, DeclineFinishInv,
       RotateFinishInv, RevokeInv, PullDirectoryInv, RestartInv
  <2>3. ASSUME NEW d \in Devices, NEW t \in Devices \ {d},
               NEW k \in {"approve", "decline", "undo"}, OpStart(d, k, t)
        PROVE  UkInv'
    BY <2>3, OpStartInv
  <2>4. ASSUME NEW n \in Nodes, Push(n) \/ Pull(n) PROVE UkInv'
    BY <2>4, PushInv, PullInv
  <2>5. ASSUME NEW n \in Nodes, NEW t \in Devices, Join(n, t) PROVE UkInv'
    BY <2>5, JoinInv
  <2>6. CASE DeletePublished \/ PublishDefault
    BY <2>6, DeletePublishedInv, PublishDefaultInv
  <2>7. CASE UNCHANGED ukVars
    BY <2>7, UkStutter
  <2> QED
    BY <2>1, <2>2, <2>3, <2>4, <2>5, <2>6, <2>7 DEF UkNext
<1> QED
  BY <1>1, <1>2, PTL DEF UkSpec

(* As long as no approval met other generations than it took: a wrap opens   *)
(* to the key of its generation, it and the pair of a device belong to a      *)
(* device that is entitled to it, and a rotation has cut off whom it was to  *)
(* cut off, in every replica and whatever the devices do meanwhile.        *)
THEOREM KeysAreHeldByRight == UkSpec => []KeysHeldByRight
<1>1. UkInv => KeysHeldByRight
  <2> SUFFICES ASSUME UkInv, ~window.mixed
               PROVE  WrapsOpenTheirKey /\ NoUninvitedHolder /\ ForwardCutoff
    BY DEF KeysHeldByRight
  <2>1. \A r \in Docs : Honest(r.keys)
    BY DEF UkInv, ReplicaPart, Docs
  <2>2. \A r \in Docs : r.keys \in Generations
    BY TypesAre DEF UkInv, Docs
  <2>3. WrapsOpenTheirKey
    BY <2>1 DEF WrapsOpenTheirKey, Honest
  <2>4. NoUninvitedHolder
    BY <2>1 DEF NoUninvitedHolder, Honest, MayHold, MayOwn, UkInv, PairPart
  <2>5. ForwardCutoff
    <3> SUFFICES ASSUME NEW i \in DOMAIN cut, NEW r \in Docs, NEW e \in DOMAIN r.keys,
                        r.keys[e].pub = cut[i].key, NEW t \in cut[i].devs, r.keys[e].wraps[t] # 0
                 PROVE  made[cut[i].key] = t \/ <<cut[i].key, t>> \in window.unheard
      BY DEF ForwardCutoff
    <3>1. t \in Devices
      BY TypesAre DEF UkInv, CutPart, Grants
    <3> QED
      BY <2>1, <3>1 DEF Honest, MayHold, CutHolds
  <2> QED
    BY <2>3, <2>4, <2>5
<1> QED
  BY <1>1, UserKeysInvariant, PTL

=============================================================================
