------------------------------ MODULE UserKeys ------------------------------
(* The User-Key of one person, shared by the person's devices through one    *)
(* document of the "userdirectory" database (UserKeyManager.ts,              *)
(* UserKeyDocument.ts, resolveUserKeyDocument.ts), and the join requests     *)
(* that bring a device to it (BaseMindooTenant.approveJoinRequest).          *)
(* A key is a number; the private half and the public half of a pair are the *)
(* same number, and a wrap is the number it contains, 0 for no wrap.  Epochs *)
(* are the indices of "keys".  Node 0 is the administrator's replica.        *)
(* Every write replaces a whole top-level field, so concurrent writes merge  *)
(* by the last writer; a stamp is a Lamport clock and the writer's number.   *)
EXTENDS Integers, Sequences, FiniteSets, FiniteSetsExt, TLC

CONSTANTS
  NumDevices,  \* the devices of the person are 1..NumDevices
  Locked,      \* devices whose session cannot decrypt the stored pair
  UkBudgets    \* the scenarios, one of which Init chooses

(* What a scenario allows. *)
Scenario ==
  [n : Nat, start : Nat, settling : Nat, ops : SUBSET STRING, keys : Nat,
   joiners : SUBSET (0..NumDevices), joining : SUBSET (1..NumDevices),
   revocable : SUBSET (1..NumDevices), rotators : SUBSET (1..NumDevices),
   legacy : SUBSET (1..NumDevices), enrolled : SUBSET (1..NumDevices),
   wipe : SUBSET (1..NumDevices), self : SUBSET BOOLEAN]

ASSUME UkAssumption ==
  NumDevices \in Nat \ {0} /\ Locked \subseteq 1..NumDevices /\ UkBudgets \subseteq Scenario

VARIABLES
  doc,      \* the replica of the user-key document of every node
  hub,      \* the document as the sync server's store holds it
  dir,      \* what the grants and acl_keydistribution_default say
  dirView,  \* each device's replica of the directory
  loc,      \* user.userKeyPair and decryptedUserKeyBytes of every device
  fetched,  \* devices that fetched userdirectory in this session
  rec,      \* the reconcile in flight of every device, after its first part
  op,       \* the user's operation in flight on every device
  nextKey,  \* the number of the next generated pair
  made,     \* ghost: the device that generated each pair
  entitled, \* ghost: devices a person or a bootstrap gave the key to, and
            \* devices whose own key became the person's
  cut,      \* ghost: devices a rotation was to cut off, per key
  window,   \* ghost: wraps written for a revoked device by one that had not
            \* heard of it; an approval met other generations than it took
  ukBudget  \* what the environment may still do

ukVars == <<doc, hub, dir, dirView, loc, fetched, rec, op, nextKey, made,
            entitled, cut, window, ukBudget>>

Devices == 1..NumDevices
Nodes   == 0..NumDevices
NoWraps == [t \in Devices |-> 0]
NoDoc   == [keys |-> <<>>, kst |-> 0, rej |-> {}, rst |-> 0,
            del |-> FALSE, dst |-> 0, cr |-> 0]
NoRec   == [on |-> FALSE, snap |-> <<>>]
NoOp    == [kind |-> "none", dev |-> 0, snap |-> <<>>, rej |-> {},
            live |-> <<>>, att |-> TRUE]

-----------------------------------------------------------------------------
(* The document *)

Exists(r) == r.keys # <<>>
Cur(keys) == Len(keys)
CurPub(keys) == keys[Len(keys)].pub

(* No epoch holds a wrap. *)
Pending(keys) == \A e \in DOMAIN keys : keys[e].wraps = NoWraps
Wrapped(keys) == {t \in Devices : \E e \in DOMAIN keys : keys[e].wraps[t] # 0}

Base == NumDevices + 1
Stamp(r, n) == (Max({r.kst, r.rst, r.dst}) \div Base + 1) * Base + n

WriteKeys(r, n, keys) == [r EXCEPT !.keys = keys, !.kst = Stamp(r, n)]
WriteRejected(r, n, rej) == [r EXCEPT !.rej = rej, !.rst = Stamp(r, n)]

(* The merge of two replicas: each field from its last writer; the create    *)
(* entry a replica lists first is its own.                                   *)
Merge(a, b) ==
  IF ~Exists(a) THEN b
  ELSE IF ~Exists(b) THEN a
  ELSE [keys |-> IF a.kst >= b.kst THEN a.keys ELSE b.keys, kst |-> Max({a.kst, b.kst}),
        rej  |-> IF a.rst >= b.rst THEN a.rej  ELSE b.rej,  rst |-> Max({a.rst, b.rst}),
        del  |-> IF a.dst >= b.dst THEN a.del  ELSE b.del,  dst |-> Max({a.dst, b.dst}),
        cr   |-> a.cr]

(* The signer of the create entry must be the administrator or an active     *)
(* device of the person at the directory's head.                             *)
Resolvable(r, v) == Exists(r) /\ ~r.del /\ (r.cr = 0 \/ r.cr \in v.active)

-----------------------------------------------------------------------------
(* The private material a device can get at *)

(* The newest epoch of the public key "k" with a wrap for the device. *)
OwnWrap(d, r, k) ==
  LET es == {e \in DOMAIN r.keys : r.keys[e].pub = k /\ r.keys[e].wraps[d] # 0}
  IN IF es = {} \/ ~Resolvable(r, dirView[d]) THEN 0 ELSE r.keys[Max(es)].wraps[d]

(* Bytes in memory count only if they open the identity's public key. *)
LocalBytes(d, l, r) ==
  IF l.mem # 0 /\ (l.pair = 0 \/ l.mem = l.pair) THEN l.mem
  ELSE IF l.pair = 0 THEN 0
  ELSE IF d \notin Locked THEN l.pair
  ELSE OwnWrap(d, r, l.pair)

EpochBytes(d, l, r, keys, e) ==
  IF l.pair # 0 /\ keys[e].pub = l.pair /\ LocalBytes(d, l, r) # 0
  THEN LocalBytes(d, l, r)
  ELSE keys[e].wraps[d]

AddWrap(keys, e, t, k) ==
  IF keys[e].wraps[t] = 0 THEN [keys EXCEPT ![e].wraps[t] = k] ELSE keys

-----------------------------------------------------------------------------
(* Reconcile: each part maps the reconcile's state "s" to the next; "end" is *)
(* not empty once it returned or threw.                                      *)

EnsureLocal(d, s) ==
  IF s.loc.pair = 0
  THEN [s EXCEPT !.loc = [pair |-> nextKey, mem |-> nextKey], !.new = TRUE]
  ELSE IF LocalBytes(d, s.loc, s.doc) = 0 THEN [s EXCEPT !.end = "locked"]
  ELSE s

(* The devices of the grant that a wrap of the current epoch is written for. *)
GrantDevices(d, legacyOnly) ==
  {t \in dirView[d].active \ dirView[d].wipe :
     legacyOnly => t \in dirView[d].legacy} \cup ({d} \ dirView[d].active)

WrapActiveAgain(d, s, legacyOnly) ==
  LET b == LocalBytes(d, s.loc, s.doc)
      keys == s.doc.keys
      devs == GrantDevices(d, legacyOnly)
  IN IF b = 0 THEN [s EXCEPT !.end = "mismatch"]
     ELSE IF CurPub(keys) # s.loc.pair \/ devs = {} THEN s
     ELSE [s EXCEPT !.doc = WriteKeys(s.doc, d,
             [keys EXCEPT ![Cur(keys)].wraps =
                [t \in Devices |-> IF t \in devs THEN b ELSE @[t]]])]

WrapActive(d, s, legacyOnly) ==
  LET b == LocalBytes(d, s.loc, s.doc)
      keys == s.doc.keys
      devs == {t \in GrantDevices(d, legacyOnly) : keys[Cur(keys)].wraps[t] = 0}
  IN IF b = 0 THEN [s EXCEPT !.end = "mismatch"]
     ELSE IF CurPub(keys) # s.loc.pair \/ devs = {} THEN s
     ELSE [s EXCEPT !.doc = WriteKeys(s.doc, d,
             [keys EXCEPT ![Cur(keys)].wraps =
                [t \in Devices |-> IF t \in devs THEN b ELSE @[t]]])]

OwnWraps(d, s) ==
  LET keys == s.doc.keys
      todo == {e \in DOMAIN keys : keys[e].pub = s.loc.pair /\ keys[e].wraps[d] = 0}
      next == [e \in DOMAIN keys |->
                 IF e \in todo
                 THEN [keys[e] EXCEPT !.wraps[d] = EpochBytes(d, s.loc, s.doc, keys, e)]
                 ELSE keys[e]]
  IN IF CurPub(keys) # s.loc.pair
        \/ \E e \in todo : EpochBytes(d, s.loc, s.doc, keys, e) = 0
     THEN [s EXCEPT !.end = "mismatch"]
     ELSE IF todo = {} THEN s ELSE [s EXCEPT !.doc = WriteKeys(s.doc, d, next)]

(* No document resolves: mint one, unless "default" is already wrapped for    *)
(* the person or the userdirectory was not fetched.  A document that is there *)
(* but does not resolve is used as it is.                                     *)
MayMint(d, self) == (self \/ d \in fetched) /\ dirView[d].dist = 0

EnsureOwn(d, self, s) ==
  LET r == s.doc
      p == EnsureLocal(d, s)
      minted == IF Exists(r) THEN [r EXCEPT !.del = FALSE, !.dst = Stamp(r, d)]
                ELSE [NoDoc EXCEPT !.keys = <<[pub |-> p.loc.pair, wraps |-> NoWraps]>>,
                                   !.kst = Stamp(NoDoc, d), !.cr = d]
      w == WrapActive(d, [p EXCEPT !.doc = minted, !.mint = TRUE], FALSE)
  IN IF ~MayMint(d, self) \/ p.end # "" THEN [s EXCEPT !.end = "unknown"]
     ELSE IF d \notin dirView[d].active THEN [p EXCEPT !.end = "unknown"]
     ELSE IF Exists(r) /\ ~r.del THEN p
     ELSE OwnWraps(d, [w EXCEPT !.end = ""])

(* A pending document is sealed with the planted key if this device holds it; *)
(* otherwise the device's own pair replaces the current generation.           *)
Adopt(d, s) ==
  LET keys == [s.doc.keys EXCEPT ![Cur(s.doc.keys)] =
                 [pub |-> s.loc.pair, wraps |-> NoWraps]]
      w == WrapActive(d, [s EXCEPT !.doc = WriteKeys(s.doc, d, keys), !.mint = TRUE], FALSE)
  IN IF w.end # "" THEN w ELSE OwnWraps(d, w)

Seal(d, s) ==
  LET p == EnsureLocal(d, s)
      own == OwnWraps(d, p)
  IN IF ~Pending(s.doc.keys) THEN s
     ELSE IF p.end # "" THEN p
     ELSE IF p.loc.pair = CurPub(s.doc.keys) THEN WrapActive(d, own, TRUE)
     ELSE Adopt(d, p)

ImportFirst(d, s) ==
  LET keys == s.doc.keys
      es == {e \in DOMAIN keys : keys[e].wraps[d] # 0}
  IN IF es = {} THEN s
     ELSE [s EXCEPT !.loc = [pair |-> keys[Min(es)].pub, mem |-> keys[Min(es)].wraps[d]]]

(* The newest wrap for this device becomes the local pair. *)
Import(d, s) ==
  LET keys == s.doc.keys
      es == {e \in DOMAIN keys : keys[e].wraps[d] # 0}
  IN IF es = {} THEN s
     ELSE [s EXCEPT !.loc = [pair |-> keys[Max(es)].pub, mem |-> keys[Max(es)].wraps[d]]]

Enrol(d, s) ==
  LET i == IF s.loc.pair # CurPub(s.doc.keys) THEN Import(d, s) ELSE s
      keys == i.doc.keys
      hasOwn == d \in Wrapped(keys)
      o == IF ~hasOwn THEN OwnWraps(d, i) ELSE i
  IN IF i.loc.pair = 0 THEN i
     ELSE IF \A e \in DOMAIN keys : keys[e].pub # i.loc.pair
          THEN [i EXCEPT !.end = IF hasOwn THEN "mismatch" ELSE "waiting"]
     ELSE IF i.loc.pair # CurPub(keys) THEN i
     ELSE IF o.end # "" THEN o
     ELSE WrapActive(d, o, TRUE)

(* Everything before dropRevokedDeviceWraps, in one step.  The code awaits    *)
(* the fingerprints and wraps of the grant's devices between the document's   *)
(* payload and replaceUserKeys; what is merged in that time and overwritten   *)
(* by the write is outside the model.                                         *)
Reconciled(d, self) ==
  LET s0 == [doc |-> doc[d], loc |-> loc[d], new |-> FALSE, mint |-> FALSE, end |-> ""]
      s1 == IF Resolvable(doc[d], dirView[d]) THEN s0 ELSE EnsureOwn(d, self, s0)
      s2 == IF s1.end = "" THEN Seal(d, s1) ELSE s1
  IN IF s2.end = "" THEN Enrol(d, s2) ELSE s2

(* dropRevokedDeviceWraps computes the new field from the payload it got. *)
DropRevoked(keys, revoked) ==
  [e \in DOMAIN keys |->
     [keys[e] EXCEPT !.wraps = [t \in Devices |-> IF t \in revoked THEN 0 ELSE @[t]]]]

(* The device wrapped for itself a key that it made.                         *)
Founder(d, keys) ==
  \E e \in DOMAIN keys : keys[e].wraps[d] # 0 /\ made'[keys[e].pub] = d

(* Who has a wrap of which key, and the wraps of "keys" that are new in the   *)
(* replica of device d and belong to devices it does not know to be revoked. *)
Holders(keys) ==
  UNION {{<<keys[e].pub, t>> : t \in {t \in Devices : keys[e].wraps[t] # 0}} :
           e \in DOMAIN keys}
Unheard(d, keys) ==
  {p \in Holders(keys) \ Holders(doc[d].keys) : p[2] \in dir.revoked \ dirView[d].revoked}
Note(d, keys) == window' = [window EXCEPT !.unheard = @ \cup Unheard(d, keys)]

\* The number of a new pair, and the ghost that tells who made it.
RecordNewKey(d, isNew) ==
  /\ nextKey' = IF isNew THEN nextKey + 1 ELSE nextKey
  /\ made' = IF isNew THEN Append(made, d) ELSE made

-----------------------------------------------------------------------------
(* Actions *)

(* A step of the budget: "kind" must be allowed and one of its uses is left. *)
Spend(kind) ==
  /\ kind \in ukBudget.ops /\ ukBudget.n > 0
  /\ ukBudget' = [ukBudget EXCEPT !.n = @ - 1]

ReconcileStart(d, self) ==
  LET s == Reconciled(d, self)
      drops == s.end \in {"", "waiting"}
      changes == s.doc # doc[d] \/ s.loc # loc[d]
                 \/ (drops /\ DropRevoked(s.doc.keys, dirView[d].revoked) # s.doc.keys)
  IN /\ d \in dir.active \cup dir.revoked /\ ~rec[d].on /\ changes
     /\ s.new => nextKey < ukBudget.keys
     /\ doc' = [doc EXCEPT ![d] = s.doc]
     /\ loc' = [loc EXCEPT ![d] = s.loc]
     /\ rec' = [rec EXCEPT ![d] = IF drops THEN [on |-> TRUE, snap |-> s.doc.keys] ELSE NoRec]
     /\ RecordNewKey(d, s.new)
     /\ entitled' = entitled \cup (IF s.mint THEN GrantDevices(d, FALSE) ELSE {})
                             \cup (IF Founder(d, s.doc.keys) THEN {d} ELSE {})
     /\ Note(d, s.doc.keys)
     /\ UNCHANGED <<hub, dir, dirView, fetched, op, cut, ukBudget>>

ReconcileDrop(d) ==
  LET keys == DropRevoked(rec[d].snap, dirView[d].revoked) IN
  /\ rec[d].on
  /\ doc' = IF keys # rec[d].snap /\ ~doc[d].del
            THEN [doc EXCEPT ![d] = WriteKeys(@, d, keys)] ELSE doc
  /\ rec' = [rec EXCEPT ![d] = NoRec]
  /\ UNCHANGED <<hub, dir, dirView, loc, fetched, op, nextKey, made, entitled, cut, window, ukBudget>>

(* ensureLocalUserKeyPair, called by the host before a join request. *)
EnsurePair(d) ==
  /\ loc[d].pair = 0 /\ d \in ukBudget.joining \ dir.active /\ nextKey < ukBudget.keys
  /\ Spend("pair")
  /\ loc' = [loc EXCEPT ![d] = [pair |-> nextKey, mem |-> nextKey]]
  /\ RecordNewKey(d, TRUE)
  /\ UNCHANGED <<doc, hub, dir, dirView, fetched, rec, op, entitled, cut, window>>

DeviceStatus(d, t) ==
  IF t \in Wrapped(doc[d].keys) THEN "approved"
  ELSE IF t \in doc[d].rej THEN "declined" ELSE "pending"

(* The user's operations take the document first and write later. *)
OpStart(d, kind, t) ==
  /\ op[d].kind = "none" /\ Resolvable(doc[d], dirView[d]) /\ Spend(kind)
  /\ CASE kind = "approve" -> t \in dirView[d].active /\ DeviceStatus(d, t) # "approved"
       [] kind = "decline" -> t \in dirView[d].active /\ DeviceStatus(d, t) = "pending"
       [] kind = "undo"    -> t \in doc[d].rej
  /\ op' = [op EXCEPT ![d] = [NoOp EXCEPT !.kind = kind, !.dev = t,
                                !.snap = doc[d].keys, !.rej = doc[d].rej]]
  /\ UNCHANGED <<doc, hub, dir, dirView, loc, fetched, rec, nextKey, made, entitled, cut, window>>

(* rotateUserKey replaces the local pair before it writes the document. *)
RotateStart(d) ==
  /\ op[d].kind = "none" /\ Resolvable(doc[d], dirView[d]) /\ nextKey < ukBudget.keys
  /\ d \in ukBudget.rotators /\ Spend("rotate")
  /\ op' = [op EXCEPT ![d] = [NoOp EXCEPT !.kind = "rotate", !.dev = nextKey,
                                !.snap = doc[d].keys]]
  /\ loc' = [loc EXCEPT ![d] = [pair |-> nextKey, mem |-> nextKey]]
  /\ RecordNewKey(d, TRUE)
  /\ cut' = Append(cut, [key |-> nextKey, devs |-> dirView[d].revoked])
  /\ UNCHANGED <<doc, hub, dir, dirView, fetched, rec, entitled, window>>

(* The wraps of every epoch of "snap" that the device can open, added for     *)
(* device t to the generations "keys" of the document in hand.                *)
ApproveKeys(d, snap, keys, t) ==
  [e \in DOMAIN keys |->
     IF e \in DOMAIN snap /\ EpochBytes(d, loc[d], doc[d], snap, e) # 0
     THEN AddWrap(keys, e, t, EpochBytes(d, loc[d], doc[d], snap, e))[e]
     ELSE keys[e]]

(* A private half goes to a generation of the document in hand that is not    *)
(* the one it was taken from, or that is not there: the code would then write *)
(* a generation without a public key, which is not modelled further.         *)
Mixed(d, live) ==
  \E e \in DOMAIN op[d].snap :
    /\ EpochBytes(d, loc[d], doc[d], op[d].snap, e) # 0
    /\ e \in DOMAIN live => live[e].pub # op[d].snap[e].pub

ApproveFinish(d) ==
  LET live == IF op[d].att THEN doc[d].keys ELSE op[d].live
      keys == ApproveKeys(d, op[d].snap, live, op[d].dev)
      wrote == \E e \in DOMAIN op[d].snap : EpochBytes(d, loc[d], doc[d], op[d].snap, e) # 0
      r1 == IF keys # live THEN WriteKeys(doc[d], d, keys) ELSE doc[d]
  IN /\ op[d].kind = "approve"
     /\ IF op[d].dev \in dirView[d].active /\ wrote /\ ~doc[d].del
        THEN /\ doc' = [doc EXCEPT ![d] =
                          IF op[d].dev \in op[d].rej
                          THEN WriteRejected(r1, d, op[d].rej \ {op[d].dev}) ELSE r1]
             /\ entitled' = entitled \cup {op[d].dev}
             /\ window' = [unheard |-> window.unheard \cup Unheard(d, keys),
                           mixed |-> window.mixed \/ Mixed(d, live)]
        ELSE UNCHANGED <<doc, entitled, window>>
     /\ op' = [op EXCEPT ![d] = NoOp]
     /\ UNCHANGED <<hub, dir, dirView, loc, fetched, rec, nextKey, made, cut, ukBudget>>

DeclineFinish(d) ==
  /\ op[d].kind \in {"decline", "undo"} /\ op' = [op EXCEPT ![d] = NoOp]
  /\ doc' = IF doc[d].del THEN doc
            ELSE [doc EXCEPT ![d] = WriteRejected(@, d,
                    IF op[d].kind = "decline" THEN op[d].rej \cup {op[d].dev}
                    ELSE op[d].rej \ {op[d].dev})]
  /\ UNCHANGED <<hub, dir, dirView, loc, fetched, rec, nextKey, made, entitled, cut, window, ukBudget>>

RotatedKeysForAll(d) ==
  Append(op[d].snap, [pub |-> op[d].dev, wraps |-> [t \in Devices |->
    IF op[d].snap[Cur(op[d].snap)].wraps[t] # 0 THEN op[d].dev ELSE 0]])

(* The next generation is wrapped for the active devices that hold a wrap of  *)
(* the generation it replaces.                                                *)
RotatedKeys(d) ==
  Append(op[d].snap, [pub |-> op[d].dev, wraps |-> [t \in Devices |->
    IF t \in dirView[d].active /\ op[d].snap[Cur(op[d].snap)].wraps[t] # 0
    THEN op[d].dev ELSE 0]])

RotateFinish(d) ==
  /\ op[d].kind = "rotate" /\ op' = [op EXCEPT ![d] = NoOp]
  /\ doc' = IF doc[d].del THEN doc
            ELSE [doc EXCEPT ![d] = WriteKeys(@, d, RotatedKeys(d))]
  /\ IF doc[d].del THEN UNCHANGED window ELSE Note(d, RotatedKeys(d))
  /\ UNCHANGED <<hub, dir, dirView, loc, fetched, rec, nextKey, made, entitled, cut, ukBudget>>

(* approveJoinRequest on node n for device t: the grant, the pending document *)
(* if there is none, the distribution of "default" to the published key, and  *)
(* the wrap for the device if the approver is the same person.  A request     *)
(* without a key of a person without a document fails after the grant.        *)
Join(n, t) ==
  LET v == IF n = 0 THEN dir ELSE dirView[n]
      pending == [NoDoc EXCEPT !.keys = <<[pub |-> loc[t].pair, wraps |-> NoWraps]>>,
                               !.kst = Stamp(NoDoc, n), !.cr = 0]
      r0 == IF loc[t].pair = 0 THEN doc[n]
            ELSE IF ~Exists(doc[n]) THEN pending
            ELSE IF doc[n].del THEN [doc[n] EXCEPT !.del = FALSE, !.dst = Stamp(doc[n], n)]
            ELSE doc[n]
      published == Resolvable(r0, [v EXCEPT !.active = @ \cup {t}])
      keys == ApproveKeys(n, r0.keys, r0.keys, t)
      wraps == n \in Devices /\ published /\ keys # r0.keys
  IN /\ t # n /\ t \notin dir.active \cup dir.revoked /\ n \in ukBudget.joiners /\ t \in ukBudget.joining
     /\ n \in Devices => n \in dir.active /\ dirView[n] = dir
     /\ Spend("join")
     /\ doc' = [doc EXCEPT ![n] = IF wraps THEN WriteKeys(r0, n, keys) ELSE r0]
     /\ dir' = [dir EXCEPT !.active = @ \cup {t},
                           !.dist = IF published THEN CurPub(r0.keys) ELSE @]
     /\ dirView' = IF n \in Devices THEN [dirView EXCEPT ![n] = dir'] ELSE dirView
     /\ entitled' = IF wraps THEN entitled \cup {t} ELSE entitled
     /\ UNCHANGED <<hub, loc, fetched, rec, op, nextKey, made, cut, window>>

(* updateUserGrant with revokeSigningKeys. *)
Revoke(t) ==
  /\ t \in dir.active /\ t \in ukBudget.revocable /\ Spend("revoke")
  /\ dir' = [dir EXCEPT !.active = @ \ {t}, !.revoked = @ \cup {t}]
  /\ UNCHANGED <<doc, hub, dirView, loc, fetched, rec, op, nextKey, made, entitled, cut, window>>

(* The administrator publishes "default", wrapped to the published key that    *)
(* the administrator's replica shows.                                         *)
PublishDefault ==
  /\ Resolvable(doc[0], dir) /\ dir.active # {} /\ dir.dist # CurPub(doc[0].keys)
  /\ Spend("publish")
  /\ dir' = [dir EXCEPT !.dist = CurPub(doc[0].keys)]
  /\ UNCHANGED <<doc, hub, dirView, loc, fetched, rec, op, nextKey, made, entitled, cut, window>>

(* deletePublishedUserKeyFor, by the administrator. *)
DeletePublished ==
  /\ Resolvable(doc[0], dir) /\ Spend("delete")
  /\ doc' = [doc EXCEPT ![0] = [@ EXCEPT !.del = TRUE, !.dst = Stamp(doc[0], 0)]]
  /\ UNCHANGED <<hub, dir, dirView, loc, fetched, rec, op, nextKey, made, entitled, cut, window>>

(* The server answers the administrator and the active devices. *)
Online(n) == n = 0 \/ n \in dir.active

Push(n) ==
  /\ Online(n)
  /\ Merge(hub, doc[n]) # hub /\ hub' = Merge(hub, doc[n])
  /\ UNCHANGED <<doc, dir, dirView, loc, fetched, rec, op, nextKey, made, entitled, cut, window, ukBudget>>

(* A pull replaces the document in memory: the one an operation in flight     *)
(* holds stays as it was.                                                     *)
Detached(n) ==
  IF n \in Devices /\ op[n].kind # "none" /\ op[n].att
  THEN [op EXCEPT ![n].att = FALSE, ![n].live = doc[n].keys] ELSE op

Pull(n) ==
  /\ Online(n)
  /\ Merge(doc[n], hub) # doc[n] \/ (n \in Devices /\ n \notin fetched)
  /\ doc' = [doc EXCEPT ![n] = Merge(doc[n], hub)]
  /\ op' = IF doc' # doc THEN Detached(n) ELSE op
  /\ fetched' = IF n \in Devices THEN fetched \cup {n} ELSE fetched
  /\ UNCHANGED <<hub, dir, dirView, loc, rec, nextKey, made, entitled, cut, window, ukBudget>>

PullDirectory(d) ==
  /\ Online(d) /\ dirView[d] # dir /\ dirView' = [dirView EXCEPT ![d] = dir]
  /\ UNCHANGED <<doc, hub, dir, loc, fetched, rec, op, nextKey, made, entitled, cut, window, ukBudget>>

(* A new session: the operations in flight and the flags are gone, the host   *)
(* may seed private bytes it kept, of this pair or of an earlier one.         *)
Restart(d) ==
  /\ Spend("restart")
  /\ \E seed \in {0, loc[d].pair} \cup {k \in DOMAIN made : made[k] = d} :
       loc' = [loc EXCEPT ![d].mem = seed]
  /\ fetched' = fetched \ {d}
  /\ rec' = [rec EXCEPT ![d] = NoRec] /\ op' = [op EXCEPT ![d] = NoOp]
  /\ UNCHANGED <<doc, hub, dir, dirView, nextKey, made, entitled, cut, window>>

(* The document after the first devices of the person enrolled through a     *)
(* join request that the administrator approved.                             *)
EnrolledDoc(E) ==
  [NoDoc EXCEPT !.keys = <<[pub |-> 1, wraps |-> [t \in Devices |-> IF t \in E THEN 1 ELSE 0]]>>,
                !.kst = Base]

(* A person without a document and with the devices "legacy" on the grant, or *)
(* one whose devices "enrolled" share the first generation.                   *)
UkInit ==
  /\ \E b \in UkBudgets : ukBudget = [b EXCEPT !.start = b.n]
  /\ LET E == ukBudget.enrolled IN
     /\ dir = [active |-> ukBudget.legacy \cup E, legacy |-> ukBudget.legacy, revoked |-> {},
               wipe |-> ukBudget.wipe, dist |-> IF E = {} THEN 0 ELSE 1]
     /\ dirView = [d \in Devices |-> dir]
     /\ hub = IF E = {} THEN NoDoc ELSE EnrolledDoc(E)
     /\ doc = [n \in Nodes |-> IF n \in E \cup {0} THEN hub ELSE NoDoc]
     /\ loc = [d \in Devices |-> IF d \in E THEN [pair |-> 1, mem |-> 1] ELSE [pair |-> 0, mem |-> 0]]
     /\ fetched = E /\ entitled = ukBudget.legacy \cup E
     /\ made = IF E = {} THEN <<>> ELSE <<Min(E)>>
  /\ nextKey = Len(made) + 1 /\ cut = <<>> /\ window = [unheard |-> {}, mixed |-> FALSE]
  /\ rec = [d \in Devices |-> NoRec] /\ op = [d \in Devices |-> NoOp]

UkNext ==
  \/ \E d \in Devices :
       \/ \E self \in ukBudget.self : ReconcileStart(d, self)
       \/ ReconcileDrop(d) \/ EnsurePair(d) \/ RotateStart(d)
       \/ \E t \in Devices \ {d}, k \in {"approve", "decline", "undo"} : OpStart(d, k, t)
       \/ ApproveFinish(d) \/ DeclineFinish(d) \/ RotateFinish(d)
       \/ Revoke(d) \/ PullDirectory(d) \/ Restart(d)
  \/ \E n \in Nodes : Push(n) \/ Pull(n) \/ \E t \in Devices : Join(n, t)
  \/ DeletePublished \/ PublishDefault

UkSpec == UkInit /\ [][UkNext]_ukVars

-----------------------------------------------------------------------------
(* Properties *)

Docs == {doc[n] : n \in Nodes} \cup {hub}

(* A wrap of a generation contains the private half of that generation's     *)
(* public key, in every replica: seeded bytes of another pair, a rotation    *)
(* half done or a merge never put a foreign key into it.                     *)
WrapsOpenTheirKey ==
  \A r \in Docs : \A e \in DOMAIN r.keys : \A t \in Devices :
    r.keys[e].wraps[t] \in {0, r.keys[e].pub}

(* A device that an administrator merely added to the grant never gets the   *)
(* person's key: a wrap is for the maker of the key, for a device a person   *)
(* approved, or for one on the grant when a generation was first published.  *)
NoUninvitedHolder ==
  /\ \A r \in Docs : \A e \in DOMAIN r.keys : \A t \in Devices :
       r.keys[e].wraps[t] # 0 => t \in entitled \/ made[r.keys[e].wraps[t]] = t
  /\ \A d \in Devices : loc[d].pair # 0 => d \in entitled \/ made[loc[d].pair] = d

(* A generation made by a rotation is never wrapped for a device that was    *)
(* revoked where the rotation ran, except by a device that has not heard of  *)
(* the revocation, or by a revoked device that made the generation itself.   *)
ForwardCutoff ==
  \A i \in DOMAIN cut : \A r \in Docs : \A e \in DOMAIN r.keys :
    r.keys[e].pub = cut[i].key => \A t \in cut[i].devs :
      \/ r.keys[e].wraps[t] = 0 \/ made[cut[i].key] = t
      \/ <<cut[i].key, t>> \in window.unheard

(* Whoever can open a generation of the person's key may, as long as no       *)
(* approval wrote its wraps by epoch numbers into a document whose generations *)
(* another write had replaced in the meantime.                               *)
KeysHeldByRight ==
  ~window.mixed => WrapsOpenTheirKey /\ NoUninvitedHolder /\ ForwardCutoff

(* Reconciling once more would change nothing on device d. *)
Stable(d) ==
  LET s == Reconciled(d, FALSE) IN
  /\ s.doc = doc[d] /\ s.loc = loc[d]
  /\ s.end \in {"", "waiting"} => DropRevoked(s.doc.keys, dirView[d].revoked) = s.doc.keys

Settled ==
  /\ doc[0] = hub
  /\ \A d \in dir.active : /\ doc[d] = hub /\ dirView[d] = dir /\ d \in fetched
                           /\ ~rec[d].on /\ op[d].kind = "none" /\ Stable(d)

(* When nothing is left to do on a remaining device, no generation holds a   *)
(* wrap of a revoked device.                                                 *)
RevokedWrapsDropped ==
  Settled /\ dir.active # {} /\ Exists(hub) /\ ~hub.del =>
    \A e \in DOMAIN hub.keys : \A t \in dir.revoked : hub.keys[e].wraps[t] = 0

(* When nothing is left to sync or to reconcile, every active device with a  *)
(* wrap of the current generation has it as its pair, and the document is    *)
(* sealed if a device that can open its own pair is there; and the wraps of   *)
(* revoked devices are gone.                                                 *)
SettledIsEnrolled ==
  /\ RevokedWrapsDropped
  /\ Settled /\ Resolvable(hub, dir) =>
       /\ \A d \in dir.active : hub.keys[Cur(hub.keys)].wraps[d] # 0 =>
            loc[d].pair = CurPub(hub.keys)
       /\ dir.active \ Locked # {} => ~Pending(hub.keys)

(* Housekeeping comes to an end: the devices do not answer each other's      *)
(* writes with writes of their own for ever.  The Lamport clock of a replica *)
(* counts the writes in its history: the users' and at most "settling" more. *)
WritesBounded ==
  \A r \in Docs : Max({r.kst, r.rst, r.dst}) \div Base <=
    ukBudget.settling + 2 * (ukBudget.start - ukBudget.n)
=============================================================================
