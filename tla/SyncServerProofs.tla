-------------------------- MODULE SyncServerProofs --------------------------
(***************************************************************************)
(* Proofs about module SyncServer: for every set of clients, keys, entries *)
(* and purge requests, and whatever the budgets allow, a challenge yields  *)
(* one token, a revoked device stays out, what was acknowledged is served, *)
(* and a processed purge lasts.                                            *)
(*                                                                         *)
(* The inductive invariant SvInv has a part per promise, each of which     *)
(* says what the handlers suspended at an await may still do to it.        *)
(***************************************************************************)
EXTENDS SyncServer, FiniteSetTheorems, TLAPS

-------------------------------------------------------------------------------
(* The shape of the state.                                                  *)
Ops == {"none", "register", "remove", "challenge", "auth", "push", "dir", "events", "config"}
Pcs == {"idle", "config", "compare", "bagLoad", "bagSave", "tenant", "loading", "gate",
        "verify", "issue", "denylist", "check", "store", "write"}
Dirs == [grant : [Keys -> Status], purges : SUBSET Purges]
Indexes == SUBSET Entries
Instances == [tenant : {Main}, real : BOOLEAN, open : BOOLEAN, index : Indexes, dir : Dirs]
Tickets == [svc : Nat, key : Principals, used : BOOLEAN, kept : BOOLEAN]
Tokens == [svc : Nat, key : Principals, wipe : BOOLEAN]
Things == Tenants \cup Principals \cup Nat \cup Entries \cup GrantChanges \cup PurgeChanges
Requests == [op : Ops, pc : Pcs, i : Nat, arg : SUBSET Things, view : SUBSET Things,
             tok : SUBSET Tokens, live : BOOLEAN, late : BOOLEAN, before : SUBSET Docs]

FilesType ==
  files \in [config : SUBSET Tenants, bag : SUBSET Tenants, entries : SUBSET Entries,
             admins : SUBSET Admins, dir : Dirs,
             registry : [denied : SUBSET Docs, done : SUBSET Purges]]
Memories == [loaded : [Tenants -> Nat], denied : SUBSET Docs, done : SUBSET Purges,
             admins : SUBSET Admins]
MemType ==
  /\ mem \in Memories
  /\ mem.loaded[Main] \in 0..Len(inst)
AuthType ==
  /\ tickets \in Seq(Tickets) /\ Len(tickets) <= MaxTickets
  /\ tokens \subseteq Tokens
PurgeType ==
  purge \in [pc : {"idle", "read", "next", "doc", "store", "mark"}, todo : SUBSET Purges,
             cur : SUBSET Purges, docs : SUBSET Docs, doc : SUBSET Docs]
SyncType ==
  /\ upstream \in [pc : {"idle", "scan", "put"}, i : Nat, view : SUBSET Entries]
  /\ upstream.pc = "put" => upstream.i \in 1..Len(inst)
BusType ==
  bus \in [subs : SUBSET Clients, missing : [Clients -> SUBSET Entries], pending : BOOLEAN]
HistType ==
  hist \in [acked : SUBSET Entries, created : SUBSET Tenants, issued : [1..MaxTickets -> Nat],
            excused : SUBSET Docs, overlap : BOOLEAN, split : BOOLEAN, failed : SUBSET Docs,
            left : SUBSET Docs]
BudgetType == "batches" \in DOMAIN budget /\ budget.batches \subseteq SUBSET Entries

(* What a handler carries, by the operation it serves. *)
CallOK(r) ==
  /\ r.op \in {"register", "remove"} => r.arg \subseteq Tenants /\ r.view \subseteq Tenants
  /\ r.op = "challenge" => \E k \in Keys : r.arg = {k}
  /\ r.op = "auth" => \E n \in 1..Len(tickets) : r.arg = {n}
  /\ r.op = "push" => r.arg \subseteq Entries /\ r.view \subseteq Entries
  /\ r.op = "dir" => \E ch \in GrantChanges \cup PurgeChanges : r.arg = {ch}
  /\ r.op = "config" => r.arg \subseteq Admins
  /\ r.op \in {"push", "events"} => \E tok \in Tokens : r.tok = {tok}
  /\ r.op = "none" => r.pc = "idle"
  /\ r.pc \in {"bagLoad", "bagSave"} => r.op \in {"register", "remove"}
  /\ r.pc \in {"gate", "denylist", "check", "store"} /\ r.op # "auth" => r.i \in 1..Len(inst)
  /\ r.i \in 0..Len(inst)
ReqType == req \in [Clients -> Requests] /\ \A c \in Clients : CallOK(req[c])

SvType ==
  /\ FilesType /\ MemType /\ inst \in Seq(Instances) /\ AuthType /\ PurgeType
  /\ SyncType /\ BusType /\ HistType /\ BudgetType /\ ReqType

-------------------------------------------------------------------------------
(* A challenge in the hands of a handler that claimed it, or used up.       *)
Answering(c, n) == req[c].op = "auth" /\ req[c].pc \in {"verify", "issue"} /\ req[c].arg = {n}
ChallengePart ==
  /\ \A n \in 1..MaxTickets : hist.issued[n] <= 1
  /\ \A n \in 1..MaxTickets : hist.issued[n] > 0 => n <= Len(tickets) /\ tickets[n].used
  /\ \A c \in Clients, n \in 1..MaxTickets :
        Answering(c, n) => /\ tickets[n].used /\ hist.issued[n] = 0
                           /\ \A d \in Clients : Answering(d, n) => d = c

(* While nobody wrote through a dropped instance, the one a client is given *)
(* knows the grants on the disk; `late` is a key without an active grant.   *)
GrantPart ==
  /\ ~hist.split /\ mem.loaded[Main] # 0 => inst[mem.loaded[Main]].dir = files.dir
  /\ \A c \in Clients : req[c].late => files.dir.grant[Token(c).key] # "active"
  /\ \A c \in Clients : req[c].op = "push" /\ req[c].late /\ ~hist.split =>
        /\ req[c].pc \in {"tenant", "loading", "gate"}
        /\ req[c].pc = "gate" => inst[req[c].i].dir.grant[Token(c).key] # "active"

AdminPart ==
  /\ SomeAdmin
  /\ \A c \in Clients : req[c].op = "config" => req[c].arg # {}

(* A handler that has the key bag in hand alone has the bag of the file.    *)
BagPart ==
  ~hist.overlap =>
    /\ hist.created \subseteq files.bag
    /\ \A c \in BagUsers : req[c].view = files.bag /\ \A d \in BagUsers : c = d

HearPart == \A c \in Clients : bus.missing[c] # {} => c \in bus.subs /\ bus.pending

Requested == UNION {PurgeDocs[r] : r \in files.dir.purges}
(* What a purge may remove was requested, and the disk keeps the rest.      *)
Excused(e) == DocOf[e] \in Requested \cup hist.excused
ServedDisk == \A e \in hist.acked : Excused(e) \/ e \in files.entries
ServedIndex ==
  LET i == mem.loaded[Main]
  IN \A e \in hist.acked : \/ Excused(e) \/ hist.split \/ i = 0
                            \/ ~inst[i].open \/ e \in inst[i].index
ServedPurge ==
  /\ purge.todo \cup purge.cur \subseteq files.dir.purges
  /\ purge.docs \cup purge.doc \subseteq Requested
ServedPart ==
  /\ \A j \in DOMAIN inst : inst[j].dir.purges \subseteq files.dir.purges
  /\ ServedPurge /\ ServedDisk /\ ServedIndex

(* While nobody wrote through a dropped instance, the one a client is given *)
(* lists every entry on the disk once it has read it.                       *)
IndexPart ==
  LET i == mem.loaded[Main]
  IN i # 0 /\ ~hist.split /\ inst[i].open => files.entries \subseteq inst[i].index

(* A document with no entry on the disk, unless a named window explains it. *)
Erased(d) ==
  d \in hist.excused \cup hist.failed \cup hist.left \/ EntriesOf({d}) \cap files.entries = {}
RegistryPart ==
  /\ files.registry.done = mem.done /\ files.registry.denied \subseteq mem.denied
  /\ \A r \in mem.done : PurgeDocs[r] \subseteq files.registry.denied
  /\ \A r \in mem.done : \A d \in PurgeDocs[r] : Erased(d)
(* The request in progress: recorded, then purged, document by document.    *)
PurgePart ==
  /\ purge.doc \subseteq mem.denied
  /\ purge.pc # "store" => purge.doc = {}
  /\ purge.pc = "mark" => purge.docs = {}
  /\ \A r \in purge.cur : \A d \in PurgeDocs[r] \ purge.docs :
        d \in mem.denied /\ (d \in purge.doc \/ Erased(d))
(* A push that arrived after a purge began is refused before it stores.     *)
PushPart ==
  \A c \in Clients : req[c].op = "push" =>
    /\ req[c].before \subseteq mem.denied
    /\ req[c].pc \in {"check", "store"} /\ req[c].before # {} => req[c].live
    /\ req[c].pc = "store" => /\ req[c].view \subseteq req[c].arg
                              /\ \A e \in req[c].arg : DocOf[e] \notin req[c].before

SvInv ==
  /\ SvType /\ ChallengePart /\ GrantPart /\ AdminPart /\ BagPart /\ HearPart
  /\ ServedPart /\ IndexPart /\ RegistryPart /\ PurgePart /\ PushPart

-------------------------------------------------------------------------------
(* Operators *)

(* Opening the store of an instance changes nothing else.                   *)
LEMMA OpenedFacts ==
    ASSUME inst \in Seq(Instances), files.entries \in Indexes, NEW i \in 1..Len(inst)
    PROVE  /\ Opened(i) \in Seq(Instances) /\ Len(Opened(i)) = Len(inst)
           /\ \A j \in 1..Len(inst) : Opened(i)[j].dir = inst[j].dir
           /\ \A j \in 1..Len(inst) : j # i => Opened(i)[j] = inst[j]
           /\ Opened(i)[i].open
           /\ Opened(i)[i].index = IF inst[i].open THEN inst[i].index ELSE files.entries
<1>1. CASE inst[i].open
  BY <1>1 DEF Opened
<1>2. CASE ~inst[i].open
  <2>1. Opened(i) = [inst EXCEPT ![i].open = TRUE, ![i].index = files.entries]
    BY <1>2 DEF Opened
  <2> DEFINE f == [inst EXCEPT ![i].open = TRUE]
             g == [f EXCEPT ![i].index = files.entries]
             N == 1..Len(inst)
  <2>2. inst \in [N -> Instances] /\ i \in N
    OBVIOUS
  <2>3. /\ f \in [N -> Instances]
        /\ \A j \in N : j # i => f[j] = inst[j]
        /\ f[i].dir = inst[i].dir /\ f[i].open = TRUE
    <3> HIDE DEF N
    <3> QED
      BY <2>2 DEF Instances
  <2>4. /\ g \in [N -> Instances]
        /\ \A j \in N : j # i => g[j] = f[j]
        /\ g[i].dir = f[i].dir /\ g[i].open = f[i].open /\ g[i].index = files.entries
    <3> HIDE DEF N, f
    <3> QED
      BY <2>2, <2>3 DEF Instances
  <2>5. Opened(i) = g
    BY <2>1
  <2>6. /\ g \in Seq(Instances) /\ Len(g) = Len(inst)
        /\ \A j \in 1..Len(inst) : g[j].dir = inst[j].dir
        /\ \A j \in 1..Len(inst) : j # i => g[j] = inst[j]
        /\ g[i].open /\ g[i].index = files.entries
    <3> HIDE DEF f, g
    <3> QED
      BY <2>3, <2>4
  <2> HIDE DEF g
  <2> QED
    BY <1>2, <2>5, <2>6
<1> QED
  BY <1>1, <1>2

(* A new instance knows the grants on the disk and has not read the store.  *)
LEMMA NewInstanceFacts ==
    ASSUME FilesType, inst \in Seq(Instances)
    PROVE  /\ Append(inst, NewInstance(Main)) \in Seq(Instances)
           /\ Len(Append(inst, NewInstance(Main))) = Len(inst) + 1
           /\ \A j \in 1..Len(inst) : Append(inst, NewInstance(Main))[j] = inst[j]
           /\ Append(inst, NewInstance(Main))[Len(inst) + 1] = NewInstance(Main)
           /\ NewInstance(Main).dir = files.dir /\ ~NewInstance(Main).open
<1>1. NewInstance(Main) \in Instances
  BY DEF NewInstance, FilesType, Instances, Indexes
<1>2. NewInstance(Main).dir = files.dir /\ ~NewInstance(Main).open
  BY DEF NewInstance
<1> HIDE DEF NewInstance
<1> QED
  BY <1>1, <1>2

(* A change of the directory is a directory.                                *)
LEMMA DirectoryType ==
    ASSUME NEW dir \in Dirs, NEW ch \in GrantChanges \cup PurgeChanges
    PROVE  /\ Directory(dir, ch) \in Dirs
           /\ dir.purges \subseteq Directory(dir, ch).purges
           /\ ch \in PurgeChanges => Directory(dir, ch).grant = dir.grant
                     /\ Directory(dir, ch).purges = dir.purges \cup {ch.request}
           /\ ch \in GrantChanges => Directory(dir, ch).purges = dir.purges
<1>1. CASE ch \in GrantChanges
  <2>1. ch.kind = "grant" /\ ch.key \in Keys /\ ch.to \in Status
    BY <1>1 DEF GrantChanges
  <2> QED
    BY <1>1, <2>1 DEF Directory, Dirs, PurgeChanges
<1>2. CASE ch \in PurgeChanges
  <2>1. ch.kind = "purge" /\ ch.request \in Purges
    BY <1>2 DEF PurgeChanges
  <2> QED
    BY <1>2, <2>1 DEF Directory, Dirs, GrantChanges
<1> QED
  BY <1>1, <1>2

(* storeChallenge appends a challenge and uses none of the others.          *)
LEMMA StoreChallengeFacts ==
    ASSUME tickets \in Seq(Tickets), NEW svc \in Nat, NEW k \in Principals, StoreChallenge(svc, k)
    PROVE  /\ tickets' \in Seq(Tickets) /\ Len(tickets') = Len(tickets) + 1
           /\ \A n \in 1..Len(tickets) : tickets'[n].used = tickets[n].used
<1> DEFINE oldest == CHOOSE n \in Kept(svc) : \A m \in Kept(svc) : n <= m
           evicted == IF Cardinality(Kept(svc)) < MaxChallenges THEN tickets
                      ELSE [tickets EXCEPT ![oldest].kept = FALSE]
           new == [svc |-> svc, key |-> k, used |-> FALSE, kept |-> TRUE]
<1>1. tickets' = Append(evicted, new)
  BY DEF StoreChallenge
<1>2. new \in Tickets
  BY DEF Tickets
<1>3. /\ evicted \in Seq(Tickets) /\ Len(evicted) = Len(tickets)
      /\ \A n \in 1..Len(tickets) : evicted[n].used = tickets[n].used
  <2> HIDE DEF oldest
  <2>1. CASE Cardinality(Kept(svc)) < MaxChallenges
    BY <2>1
  <2>2. CASE ~(Cardinality(Kept(svc)) < MaxChallenges)
    <3>1. evicted = [tickets EXCEPT ![oldest].kept = FALSE]
      BY <2>2
    <3>2. tickets \in [1..Len(tickets) -> Tickets]
      OBVIOUS
    <3>3. /\ evicted \in [1..Len(tickets) -> Tickets]
          /\ \A n \in 1..Len(tickets) : evicted[n].used = tickets[n].used
      BY <3>1, <3>2 DEF Tickets
    <3> HIDE DEF evicted
    <3> QED
      BY <3>3
  <2> QED
    BY <2>1, <2>2
<1> HIDE DEF evicted, new
<1> QED
  BY <1>1, <1>2, <1>3

(* What an instance holds.                                                  *)
LEMMA InstanceFields ==
    ASSUME NEW s \in Seq(Instances), NEW i \in 1..Len(s)
    PROVE  s[i].index \in Indexes /\ s[i].dir \in Dirs
<1>1. s[i] \in Instances
  OBVIOUS
<1> QED
  BY <1>1 DEF Instances

(* The index or the directory of one instance is replaced.                  *)
(* One field of an instance, a challenge or the cache is replaced.          *)
WithIndex(s, i, X) == [s EXCEPT ![i].index = X]
WithDir(s, i, X) == [s EXCEPT ![i].dir = X]
Claimed(s, n) == [s EXCEPT ![n].used = TRUE]
Forgotten(s, n) == [s EXCEPT ![n].kept = FALSE]
Caching(m, t, v) == [m EXCEPT !.loaded[t] = v]

LEMMA SetIndex ==
    ASSUME NEW s \in Seq(Instances), NEW i \in 1..Len(s), NEW X \in Indexes
    PROVE  /\ WithIndex(s, i, X) \in Seq(Instances) /\ Len(WithIndex(s, i, X)) = Len(s)
           /\ \A j \in 1..Len(s) : j # i => WithIndex(s, i, X)[j] = s[j]
           /\ WithIndex(s, i, X)[i].dir = s[i].dir
           /\ WithIndex(s, i, X)[i].open = s[i].open
           /\ WithIndex(s, i, X)[i].index = X
<1> DEFINE N == 1..Len(s)
           t == WithIndex(s, i, X)
<1>1. s \in [N -> Instances] /\ i \in N
  OBVIOUS
<1>2. /\ t \in [N -> Instances]
      /\ \A j \in N : j # i => t[j] = s[j]
      /\ t[i].dir = s[i].dir /\ t[i].open = s[i].open /\ t[i].index = X
  <2> HIDE DEF N
  <2> QED
    BY <1>1 DEF Instances, WithIndex
<1> HIDE DEF t
<1>3. t \in Seq(Instances) /\ Len(t) = Len(s)
  BY <1>2
<1> QED
  BY <1>2, <1>3 DEF t

LEMMA SetDir ==
    ASSUME NEW s \in Seq(Instances), NEW i \in 1..Len(s), NEW X \in Dirs
    PROVE  /\ WithDir(s, i, X) \in Seq(Instances) /\ Len(WithDir(s, i, X)) = Len(s)
           /\ \A j \in 1..Len(s) : j # i => WithDir(s, i, X)[j] = s[j]
           /\ WithDir(s, i, X)[i].dir = X
           /\ WithDir(s, i, X)[i].open = s[i].open
           /\ WithDir(s, i, X)[i].index = s[i].index
<1> DEFINE N == 1..Len(s)
           t == WithDir(s, i, X)
<1>1. s \in [N -> Instances] /\ i \in N
  OBVIOUS
<1>2. /\ t \in [N -> Instances]
      /\ \A j \in N : j # i => t[j] = s[j]
      /\ t[i].dir = X /\ t[i].open = s[i].open /\ t[i].index = s[i].index
  <2> HIDE DEF N
  <2> QED
    BY <1>1 DEF Instances, WithDir
<1> HIDE DEF t
<1>3. t \in Seq(Instances) /\ Len(t) = Len(s)
  BY <1>2
<1> QED
  BY <1>2, <1>3 DEF t

(* A restart closes the instances, which keep their directories.            *)
LEMMA LostInstances ==
    ASSUME inst \in Seq(Instances), Lost
    PROVE  /\ inst' \in Seq(Instances) /\ Len(inst') = Len(inst)
           /\ \A j \in 1..Len(inst) : inst'[j].dir = inst[j].dir /\ ~inst'[j].open
<1> DEFINE N == 1..Len(inst)
<1>1. inst \in [N -> Instances] /\ DOMAIN inst = N
  OBVIOUS
<1>2. inst' = [j \in N |-> [inst[j] EXCEPT !.open = FALSE, !.index = {}]]
  BY <1>1 DEF Lost
<1>3. \A j \in N : /\ [inst[j] EXCEPT !.open = FALSE, !.index = {}] \in Instances
                   /\ [inst[j] EXCEPT !.open = FALSE, !.index = {}].dir = inst[j].dir
                   /\ [inst[j] EXCEPT !.open = FALSE, !.index = {}].open = FALSE
  <2> HIDE DEF N
  <2> QED
    BY <1>1 DEF Instances, Indexes
<1>4. /\ inst' \in [N -> Instances]
      /\ \A j \in N : inst'[j].dir = inst[j].dir /\ inst'[j].open = FALSE
  <2> HIDE DEF N
  <2> QED
    BY <1>2, <1>3
<1> QED
  BY <1>4

(* A challenge changes in place.                                            *)
LEMMA TicketFields ==
    ASSUME NEW s \in Seq(Tickets), NEW n \in 1..Len(s)
    PROVE  s[n].svc \in Nat /\ s[n].key \in Principals /\ s[n].used \in BOOLEAN
<1>1. s[n] \in Tickets
  OBVIOUS
<1> QED
  BY <1>1 DEF Tickets

LEMMA SetUsed ==
    ASSUME NEW s \in Seq(Tickets), NEW n \in 1..Len(s)
    PROVE  /\ Claimed(s, n) \in Seq(Tickets) /\ Len(Claimed(s, n)) = Len(s)
           /\ Claimed(s, n)[n].used /\ \A m \in 1..Len(s) : m # n => Claimed(s, n)[m] = s[m]
<1> DEFINE N == 1..Len(s)
           t == Claimed(s, n)
<1>1. s \in [N -> Tickets] /\ n \in N
  OBVIOUS
<1>2. t \in [N -> Tickets] /\ t[n].used = TRUE /\ \A m \in N : m # n => t[m] = s[m]
  <2> HIDE DEF N
  <2> QED
    BY <1>1 DEF Tickets, Claimed
<1> HIDE DEF t
<1>3. t \in Seq(Tickets) /\ Len(t) = Len(s)
  BY <1>2
<1> QED
  BY <1>2, <1>3 DEF t

LEMMA SetKept ==
    ASSUME NEW s \in Seq(Tickets), NEW n \in 1..Len(s)
    PROVE  /\ Forgotten(s, n) \in Seq(Tickets) /\ Len(Forgotten(s, n)) = Len(s)
           /\ \A m \in 1..Len(s) : Forgotten(s, n)[m].used = s[m].used
<1> DEFINE N == 1..Len(s)
           t == Forgotten(s, n)
<1>1. s \in [N -> Tickets] /\ n \in N
  OBVIOUS
<1>2. t \in [N -> Tickets] /\ \A m \in N : t[m].used = s[m].used
  <2> HIDE DEF N
  <2> QED
    BY <1>1 DEF Tickets, Forgotten
<1> HIDE DEF t
<1>3. t \in Seq(Tickets) /\ Len(t) = Len(s)
  BY <1>2
<1> QED
  BY <1>2, <1>3 DEF t

LEMMA LostTickets ==
    ASSUME tickets \in Seq(Tickets), Lost
    PROVE  /\ tickets' \in Seq(Tickets) /\ Len(tickets') = Len(tickets)
           /\ \A n \in 1..Len(tickets) : tickets'[n].used = tickets[n].used
<1> DEFINE N == 1..Len(tickets)
<1>1. tickets \in [N -> Tickets] /\ DOMAIN tickets = N
  OBVIOUS
<1>2. tickets' = [n \in N |-> [tickets[n] EXCEPT !.kept = FALSE]]
  BY <1>1 DEF Lost
<1>3. /\ tickets' \in [N -> Tickets]
      /\ \A n \in N : tickets'[n].used = tickets[n].used
  <2> HIDE DEF N
  <2> QED
    BY <1>1, <1>2 DEF Tickets
<1> QED
  BY <1>3

(* An instance is cached, or dropped.                                       *)
LEMMA SetLoaded ==
    ASSUME MemType, NEW t \in Tenants, NEW v \in Nat
    PROVE  /\ Caching(mem, t, v) \in Memories
           /\ Caching(mem, t, v).loaded[Main] = IF t = Main THEN v ELSE mem.loaded[Main]
           /\ Caching(mem, t, v).denied = mem.denied
           /\ Caching(mem, t, v).done = mem.done /\ Caching(mem, t, v).admins = mem.admins
<1> DEFINE f == [mem.loaded EXCEPT ![t] = v]
<1>1. f \in [Tenants -> Nat]
  BY DEF MemType, Memories
<1>2. f[Main] = IF t = Main THEN v ELSE mem.loaded[Main]
  BY ServerAssumption DEF MemType, Memories
<1>3. Caching(mem, t, v) = [mem EXCEPT !.loaded = f]
  BY DEF Caching
<1> HIDE DEF f
<1> QED
  BY <1>1, <1>2, <1>3 DEF MemType, Memories

(* What is in the hands of a handler.                                       *)
LEMMA CallFacts ==
    ASSUME SvType, NEW c \in Clients
    PROVE  /\ req[c] \in Requests /\ CallOK(req[c])
           /\ req[c].op = "auth" => Ticket(c) \in 1..Len(tickets) /\ req[c].arg = {Ticket(c)}
           /\ req[c].op \in {"push", "events"} => Token(c) \in Tokens /\ req[c].tok = {Token(c)}
           /\ \A x : req[c].arg = {x} => (CHOOSE y \in req[c].arg : TRUE) = x
<1>1. req[c] \in Requests /\ CallOK(req[c])
  BY DEF SvType, ReqType
<1>2. req[c].op = "auth" => Ticket(c) \in 1..Len(tickets) /\ req[c].arg = {Ticket(c)}
  BY <1>1 DEF CallOK, Ticket
<1>3. req[c].op \in {"push", "events"} => Token(c) \in Tokens /\ req[c].tok = {Token(c)}
  BY <1>1 DEF CallOK, Token
<1> QED
  BY <1>1, <1>2, <1>3

-------------------------------------------------------------------------------
(* The shape of the state is kept.                                          *)
LEMMA FilesKept ==
    ASSUME SvType, [Next]_vars
    PROVE  FilesType'
<1>1. \/ UNCHANGED files
      \/ \E c \in Clients : RegisterConfig(c)
      \/ \E c \in Clients : PersistTenantPublicInfosKey(c)
      \/ \E c \in Clients : PersistFailed(c)
      \/ \E c \in Clients : RemoveTenantFiles(c)
      \/ \E c \in Clients : PutStore(c)
      \/ \E c \in Clients : PushDirectoryStore(c)
      \/ PurgeDocHistory
      \/ MarkRequestProcessed
      \/ \E c \in Clients : ReloadConfig(c)
      \/ ServerSyncPut
      \/ CrashInSave
  <2>1. CASE Registration
    BY <2>1, Zenon
      DEF Registration, RegisterTenant, RegisterCompare, LoadServerKeyBag, RemoveTenant
  <2>2. CASE Loading
    BY <2>2, Zenon DEF Loading, GetTenant, LoadTenantStart, LoadTenant
  <2>3. CASE LoadInBackground
    BY <2>3, Zenon DEF LoadInBackground
  <2>4. CASE Authentication
    BY <2>4, Zenon
      DEF Authentication, Challenge, GenerateChallenge, Authenticate, ClaimChallenge,
         VerifySignature, GenerateToken, SystemChallenge, ChallengeExpires
  <2>5. CASE Pushing
    BY <2>5, Zenon DEF Pushing, PutEntries, PutGate, PutDenylist, PutCheck, PushDirectory
  <2>6. CASE Purging
    BY <2>6, Zenon
      DEF Purging, PurgeRead, PurgeDocHistoryFails, PurgeRequest, RecordPurgedDoc
  <2>7. CASE Events
    BY <2>7, Zenon DEF Events, Subscribe, Disconnect, SyncEvents, PublishEvent
  <2>8. CASE Configuring
    BY <2>8, Zenon DEF Configuring, UpdateConfig, UpdateTenantConfig
  <2>9. CASE ServerSyncStart
    BY <2>9, Zenon DEF ServerSyncStart
  <2>10. CASE ServerSyncScan
    BY <2>10, Zenon DEF ServerSyncScan
  <2>11. CASE Restart
    BY <2>11, Zenon DEF Restart
  <2>12. CASE UNCHANGED vars
    BY <2>12, Zenon DEF vars
  <2> QED
    BY <2>1, <2>2, <2>3, <2>4, <2>5, <2>6, <2>7, <2>8, <2>9, <2>10, <2>11, <2>12, Zenon
      DEF Next
<1>2. CASE UNCHANGED files
  BY <1>2, Zenon DEF SvType, FilesType
<1>3. ASSUME NEW c \in Clients, RegisterConfig(c) PROVE FilesType'
  BY <1>3, CallFacts DEF RegisterConfig, SvType, FilesType, CallOK, In
<1>4. ASSUME NEW c \in Clients, PersistTenantPublicInfosKey(c) PROVE FilesType'
  BY <1>4, CallFacts DEF PersistTenantPublicInfosKey, SvType, FilesType, CallOK, In
<1>5. ASSUME NEW c \in Clients, PersistFailed(c) PROVE FilesType'
  BY <1>5, CallFacts DEF PersistFailed, SvType, FilesType, CallOK, In
<1>6. ASSUME NEW c \in Clients, RemoveTenantFiles(c) PROVE FilesType'
  BY <1>6, CallFacts DEF RemoveTenantFiles, SvType, FilesType, CallOK, In
<1>7. ASSUME NEW c \in Clients, PutStore(c) PROVE FilesType'
  BY <1>7, CallFacts DEF PutStore, SvType, FilesType, CallOK, In
<1>8. ASSUME NEW c \in Clients, PushDirectoryStore(c) PROVE FilesType'
  <2>1. req[c].op = "dir" /\ files.dir \in Dirs /\ CallOK(req[c])
    BY <1>8, CallFacts DEF PushDirectoryStore, In, SvType, FilesType
  <2>2. PICK ch \in GrantChanges \cup PurgeChanges : req[c].arg = {ch}
    BY <2>1 DEF CallOK
  <2>3. files' = [files EXCEPT !.dir = Directory(files.dir, ch)]
    BY <1>8, <2>2, CallFacts DEF PushDirectoryStore
  <2> QED
    BY <2>1, <2>3, DirectoryType DEF SvType, FilesType
<1>9. CASE PurgeDocHistory
  BY <1>9 DEF PurgeDocHistory, SvType, FilesType
<1>10. CASE MarkRequestProcessed
  BY <1>10 DEF MarkRequestProcessed, SvType, FilesType, MemType, Memories, PurgeType, Marked
<1>11. ASSUME NEW c \in Clients, ReloadConfig(c) PROVE FilesType'
  BY <1>11, CallFacts DEF ReloadConfig, SvType, FilesType, CallOK, In
<1>12. CASE ServerSyncPut
  BY <1>12 DEF ServerSyncPut, SvType, FilesType, SyncType
<1>13. CASE CrashInSave
  BY <1>13 DEF CrashInSave, SvType, FilesType
<1> QED
  BY <1>1, <1>2, <1>3, <1>4, <1>5, <1>6, <1>7, <1>8, <1>9, <1>10, <1>11, <1>12, <1>13, Zenon

LEMMA InstKept ==
    ASSUME SvType, [Next]_vars
    PROVE  (inst \in Seq(Instances))' /\ Len(inst) <= Len(inst')
<1>1. \/ UNCHANGED inst
      \/ \E c \in Clients : LoadTenant(c)
      \/ LoadInBackground
      \/ \E c \in Clients : PutDenylist(c)
      \/ \E c \in Clients : PutStore(c)
      \/ \E c \in Clients : PushDirectoryStore(c)
      \/ PurgeDocHistory
      \/ ServerSyncScan
      \/ ServerSyncPut
      \/ Restart
      \/ CrashInSave
  <2>1. CASE Registration
    BY <2>1, Zenon
      DEF Registration, RegisterTenant, RegisterConfig, RegisterCompare, LoadServerKeyBag,
         PersistTenantPublicInfosKey, PersistFailed, RemoveTenant, RemoveTenantFiles
  <2>2. CASE Loading
    BY <2>2, Zenon DEF Loading, GetTenant, LoadTenantStart
  <2>3. CASE Authentication
    BY <2>3, Zenon
      DEF Authentication, Challenge, GenerateChallenge, Authenticate, ClaimChallenge,
         VerifySignature, GenerateToken, SystemChallenge, ChallengeExpires
  <2>4. CASE Pushing
    BY <2>4, Zenon DEF Pushing, PutEntries, PutGate, PutCheck, PushDirectory
  <2>5. CASE Purging
    BY <2>5, Zenon
      DEF Purging, PurgeRead, PurgeDocHistoryFails, MarkRequestProcessed, PurgeRequest,
         RecordPurgedDoc
  <2>6. CASE Events
    BY <2>6, Zenon DEF Events, Subscribe, Disconnect, SyncEvents, PublishEvent
  <2>7. CASE Configuring
    BY <2>7, Zenon DEF Configuring, UpdateConfig, ReloadConfig, UpdateTenantConfig
  <2>8. CASE ServerSyncStart
    BY <2>8, Zenon DEF ServerSyncStart
  <2>9. CASE UNCHANGED vars
    BY <2>9, Zenon DEF vars
  <2> QED
    BY <2>1, <2>2, <2>3, <2>4, <2>5, <2>6, <2>7, <2>8, <2>9, Zenon DEF Next
<1>2. CASE UNCHANGED inst
  BY <1>2 DEF SvType
<1>3. ASSUME NEW c \in Clients,
             LoadTenant(c)
      PROVE  (inst \in Seq(Instances))' /\ Len(inst) <= Len(inst')
  BY <1>3, NewInstanceFacts DEF LoadTenant, SvType
<1>4. CASE LoadInBackground
  BY <1>4, NewInstanceFacts DEF LoadInBackground, SvType
<1>5. ASSUME NEW c \in Clients,
             PutDenylist(c)
      PROVE  (inst \in Seq(Instances))' /\ Len(inst) <= Len(inst')
  BY <1>5, CallFacts, OpenedFacts DEF PutDenylist, SvType, FilesType, In, CallOK, Indexes
<1>6. ASSUME NEW c \in Clients,
             PutStore(c)
      PROVE  (inst \in Seq(Instances))' /\ Len(inst) <= Len(inst')
  <2>1. req[c].i \in 1..Len(inst) /\ req[c].view \subseteq Entries
    BY <1>6, CallFacts DEF PutStore, In, CallOK
  <2> DEFINE X == inst[req[c].i].index \cup req[c].view
  <2>2. X \in Indexes
    BY <2>1, InstanceFields DEF SvType, Indexes
  <2>3. inst' = WithIndex(inst, req[c].i, X)
    BY <1>6 DEF PutStore, WithIndex
  <2> HIDE DEF X
  <2> QED
    BY <2>1, <2>2, <2>3, SetIndex DEF SvType
<1>7. ASSUME NEW c \in Clients,
             PushDirectoryStore(c)
      PROVE  (inst \in Seq(Instances))' /\ Len(inst) <= Len(inst')
  <2>1. req[c].op = "dir" /\ req[c].i \in 1..Len(inst) /\ CallOK(req[c])
    BY <1>7, CallFacts DEF PushDirectoryStore, In, CallOK
  <2>2. PICK ch \in GrantChanges \cup PurgeChanges : req[c].arg = {ch}
    BY <2>1 DEF CallOK
  <2>3. inst' = WithDir(inst, req[c].i, Directory(inst[req[c].i].dir, ch))
    BY <1>7, <2>2, CallFacts DEF PushDirectoryStore, WithDir
  <2>4. inst[req[c].i].dir \in Dirs
    BY <2>1, InstanceFields DEF SvType
  <2> QED
    BY <2>1, <2>3, <2>4, SetDir, DirectoryType DEF SvType
<1>8. CASE PurgeDocHistory
  <2> DEFINE i == mem.loaded[Main]
  <2>1. i \in 1..Len(inst)
    BY <1>8 DEF PurgeDocHistory, SvType, MemType
  <2>2. Opened(i) \in Seq(Instances) /\ Len(Opened(i)) = Len(inst)
    BY <2>1, OpenedFacts DEF SvType, FilesType, Indexes
  <2> DEFINE E == Opened(i)[i].index \cap EntriesOf(purge.doc)
             X == Opened(i)[i].index \ E
  <2>3. X \in Indexes
    BY <2>1, <2>2, InstanceFields DEF Indexes
  <2>4. inst' = WithIndex(Opened(i), i, X)
    BY <1>8 DEF PurgeDocHistory, WithIndex
  <2> HIDE DEF i, X
  <2> QED
    BY <2>1, <2>2, <2>3, <2>4, SetIndex
<1>9. CASE ServerSyncScan
  BY <1>9, OpenedFacts DEF ServerSyncScan, SvType, FilesType, MemType, Indexes
<1>10. CASE ServerSyncPut
  <2>1. upstream.i \in 1..Len(inst) /\ upstream.view \subseteq Entries
    BY <1>10 DEF ServerSyncPut, SvType, SyncType
  <2> DEFINE X == inst[upstream.i].index \cup upstream.view
  <2>2. X \in Indexes
    BY <2>1, InstanceFields DEF SvType, Indexes
  <2>3. inst' = WithIndex(inst, upstream.i, X)
    BY <1>10 DEF ServerSyncPut, WithIndex
  <2> HIDE DEF X
  <2> QED
    BY <2>1, <2>2, <2>3, SetIndex DEF SvType
<1>11. CASE Restart
  BY <1>11, LostInstances DEF Restart, SvType
<1>12. CASE CrashInSave
  BY <1>12, LostInstances DEF CrashInSave, SvType
<1> QED
  BY <1>1, <1>2, <1>3, <1>4, <1>5, <1>6, <1>7, <1>8, <1>9, <1>10, <1>11, <1>12, Zenon

LEMMA MemKept ==
    ASSUME SvType, [Next]_vars
    PROVE  MemType'
<1>1. \/ UNCHANGED mem
      \/ \E c \in Clients, t \in Tenants : RemoveTenant(c, t)
      \/ \E c \in Clients : LoadTenant(c)
      \/ LoadInBackground
      \/ MarkRequestProcessed
      \/ \E d \in Docs : RecordPurgedDoc(d)
      \/ \E c \in Clients : ReloadConfig(c)
      \/ \E t \in Tenants : UpdateTenantConfig(t)
      \/ Restart
      \/ CrashInSave
  <2>1. CASE Registration
    BY <2>1, Zenon
      DEF Registration, RegisterTenant, RegisterConfig, RegisterCompare, LoadServerKeyBag,
         PersistTenantPublicInfosKey, PersistFailed, RemoveTenantFiles
  <2>2. CASE Loading
    BY <2>2, Zenon DEF Loading, GetTenant, LoadTenantStart
  <2>3. CASE Authentication
    BY <2>3, Zenon
      DEF Authentication, Challenge, GenerateChallenge, Authenticate, ClaimChallenge,
         VerifySignature, GenerateToken, SystemChallenge, ChallengeExpires
  <2>4. CASE Pushing
    BY <2>4, Zenon
      DEF Pushing, PutEntries, PutGate, PutDenylist, PutCheck, PutStore, PushDirectory,
         PushDirectoryStore
  <2>5. CASE Purging
    BY <2>5, Zenon
      DEF Purging, PurgeRead, PurgeDocHistory, PurgeDocHistoryFails, PurgeRequest
  <2>6. CASE Events
    BY <2>6, Zenon DEF Events, Subscribe, Disconnect, SyncEvents, PublishEvent
  <2>7. CASE Configuring
    BY <2>7, Zenon DEF Configuring, UpdateConfig
  <2>8. CASE ServerSyncStart
    BY <2>8, Zenon DEF ServerSyncStart
  <2>9. CASE ServerSyncScan
    BY <2>9, Zenon DEF ServerSyncScan
  <2>10. CASE ServerSyncPut
    BY <2>10, Zenon DEF ServerSyncPut
  <2>11. CASE UNCHANGED vars
    BY <2>11, Zenon DEF vars
  <2> QED
    BY <2>1, <2>2, <2>3, <2>4, <2>5, <2>6, <2>7, <2>8, <2>9, <2>10, <2>11, Zenon DEF Next
<1>2. CASE UNCHANGED mem
  <2>1. Len(inst) \in Nat /\ Len(inst') \in Nat /\ Len(inst) <= Len(inst')
    BY InstKept DEF SvType
  <2> QED
  BY <1>2, <2>1 DEF SvType, MemType
<1>3. ASSUME NEW c \in Clients, NEW t \in Tenants, RemoveTenant(c, t) PROVE MemType'
  <2>1. Len(inst) \in Nat /\ Len(inst') \in Nat /\ Len(inst) <= Len(inst')
    BY InstKept DEF SvType
  <2>2. mem' = Caching(mem, t, 0) /\ MemType /\ 0 \in Nat
    BY <1>3 DEF RemoveTenant, SvType, Caching
  <2>3. mem'.loaded[Main] \in {0, mem.loaded[Main]} /\ mem.loaded[Main] \in 0..Len(inst)
    BY <2>2, SetLoaded DEF MemType
  <2> QED
    BY <2>1, <2>2, <2>3, SetLoaded DEF MemType
<1>4. ASSUME NEW c \in Clients, LoadTenant(c) PROVE MemType'
  <2>1. Len(inst) \in Nat /\ Len(inst') = Len(inst) + 1
    BY <1>4, NewInstanceFacts DEF LoadTenant, SvType
  <2>2. mem' = Caching(mem, Main, Len(inst) + 1) /\ MemType
    BY <1>4 DEF LoadTenant, SvType, Caching
  <2> QED
    BY <2>1, <2>2, SetLoaded, ServerAssumption DEF MemType
<1>5. CASE LoadInBackground
  <2>1. Len(inst) \in Nat /\ Len(inst') = Len(inst) + 1
    BY <1>5, NewInstanceFacts DEF LoadInBackground, SvType
  <2>2. mem' = Caching(mem, Main, Len(inst) + 1) /\ MemType
    BY <1>5 DEF LoadInBackground, SvType, Caching
  <2> QED
    BY <2>1, <2>2, SetLoaded, ServerAssumption DEF MemType
<1>6. CASE MarkRequestProcessed
  <2>1. Len(inst) \in Nat /\ Len(inst') \in Nat /\ Len(inst) <= Len(inst')
    BY InstKept DEF SvType
  <2> QED
    BY <1>6, <2>1 DEF MarkRequestProcessed, SvType, MemType, Memories, PurgeType, Marked
<1>7. ASSUME NEW d \in Docs, RecordPurgedDoc(d) PROVE MemType'
  <2>1. Len(inst) \in Nat /\ Len(inst') \in Nat /\ Len(inst) <= Len(inst')
    BY InstKept DEF SvType
  <2> QED
    BY <1>7, <2>1 DEF RecordPurgedDoc, SvType, MemType, Memories
<1>8. ASSUME NEW c \in Clients, ReloadConfig(c) PROVE MemType'
  <2>1. Len(inst) \in Nat /\ Len(inst') \in Nat /\ Len(inst) <= Len(inst')
    BY InstKept DEF SvType
  <2>2. req[c].arg \subseteq Admins
    BY <1>8, CallFacts DEF ReloadConfig, In, CallOK
  <2> QED
    BY <1>8, <2>1, <2>2 DEF ReloadConfig, SvType, MemType, Memories
<1>9. ASSUME NEW t \in Tenants, UpdateTenantConfig(t) PROVE MemType'
  <2>1. Len(inst) \in Nat /\ Len(inst') \in Nat /\ Len(inst) <= Len(inst')
    BY InstKept DEF SvType
  <2>2. mem' = Caching(mem, t, 0) /\ MemType /\ 0 \in Nat
    BY <1>9 DEF UpdateTenantConfig, SvType, Caching
  <2>3. mem'.loaded[Main] \in {0, mem.loaded[Main]} /\ mem.loaded[Main] \in 0..Len(inst)
    BY <2>2, SetLoaded DEF MemType
  <2> QED
    BY <2>1, <2>2, <2>3, SetLoaded DEF MemType
<1>10. CASE Restart
  BY <1>10, LostInstances, ServerAssumption
    DEF Restart, Restarted, FilesType, SvType, MemType, Memories
<1>11. CASE CrashInSave
  BY <1>11, LostInstances, ServerAssumption
    DEF CrashInSave, Restarted, FilesType, SvType, MemType, Memories
<1> QED
  BY <1>1, <1>2, <1>3, <1>4, <1>5, <1>6, <1>7, <1>8, <1>9, <1>10, <1>11, Zenon

LEMMA AuthKept ==
    ASSUME SvType, [Next]_vars
    PROVE  AuthType' /\ Len(tickets) <= Len(tickets')
<1>1. \/ UNCHANGED <<tickets, tokens>>
      \/ \E c \in Clients : GenerateChallenge(c)
      \/ \E c \in Clients : ClaimChallenge(c)
      \/ \E c \in Clients : GenerateToken(c)
      \/ \E a \in Admins : SystemChallenge(a)
      \/ \E n \in DOMAIN tickets : ChallengeExpires(n)
      \/ Restart
      \/ CrashInSave
  <2>1. CASE Registration
    BY <2>1, Zenon
      DEF Registration, RegisterTenant, RegisterConfig, RegisterCompare, LoadServerKeyBag,
         PersistTenantPublicInfosKey, PersistFailed, RemoveTenant, RemoveTenantFiles
  <2>2. CASE Loading
    BY <2>2, Zenon DEF Loading, GetTenant, LoadTenantStart, LoadTenant
  <2>3. CASE LoadInBackground
    BY <2>3, Zenon DEF LoadInBackground
  <2>4. CASE Authentication
    BY <2>4, Zenon DEF Authentication, Challenge, Authenticate, VerifySignature
  <2>5. CASE Pushing
    BY <2>5, Zenon
      DEF Pushing, PutEntries, PutGate, PutDenylist, PutCheck, PutStore, PushDirectory,
         PushDirectoryStore
  <2>6. CASE Purging
    BY <2>6, Zenon
      DEF Purging, PurgeRead, PurgeDocHistory, PurgeDocHistoryFails, MarkRequestProcessed,
         PurgeRequest, RecordPurgedDoc
  <2>7. CASE Events
    BY <2>7, Zenon DEF Events, Subscribe, Disconnect, SyncEvents, PublishEvent
  <2>8. CASE Configuring
    BY <2>8, Zenon DEF Configuring, UpdateConfig, ReloadConfig, UpdateTenantConfig
  <2>9. CASE ServerSyncStart
    BY <2>9, Zenon DEF ServerSyncStart
  <2>10. CASE ServerSyncScan
    BY <2>10, Zenon DEF ServerSyncScan
  <2>11. CASE ServerSyncPut
    BY <2>11, Zenon DEF ServerSyncPut
  <2>12. CASE UNCHANGED vars
    BY <2>12, Zenon DEF vars
  <2> QED
    BY <2>1, <2>2, <2>3, <2>4, <2>5, <2>6, <2>7, <2>8, <2>9, <2>10, <2>11, <2>12, Zenon
      DEF Next
<1>2. CASE UNCHANGED <<tickets, tokens>>
  BY <1>2 DEF SvType, AuthType
<1>3. ASSUME NEW c \in Clients,
             GenerateChallenge(c)
      PROVE  AuthType' /\ Len(tickets) <= Len(tickets')
  <2>1. PICK k \in Keys : req[c].arg = {k}
    BY <1>3, CallFacts DEF GenerateChallenge, In, CallOK
  <2>2. req[c].i \in Nat /\ k \in Principals
    BY CallFacts DEF Requests, Principals
  <2>3. CASE UNCHANGED tickets
    BY <1>3, <2>3 DEF GenerateChallenge, SvType, AuthType
  <2>4. CASE StoreChallenge(req[c].i, k) /\ Len(tickets) < MaxTickets
    BY <1>3, <2>2, <2>4, StoreChallengeFacts, ServerAssumption DEF GenerateChallenge, SvType, AuthType
  <2> QED
    BY <1>3, <2>1, <2>3, <2>4, CallFacts DEF GenerateChallenge
<1>4. ASSUME NEW c \in Clients,
             ClaimChallenge(c)
      PROVE  AuthType' /\ Len(tickets) <= Len(tickets')
  <2>1. Ticket(c) \in 1..Len(tickets)
    BY <1>4, CallFacts DEF ClaimChallenge, In
  <2>2. CASE UNCHANGED tickets
    BY <1>4, <2>2 DEF ClaimChallenge, SvType, AuthType
  <2>3. CASE tickets' = Claimed(tickets, Ticket(c))
    <3>1. tokens' = tokens /\ tickets \in Seq(Tickets) /\ Len(tickets) <= MaxTickets
          /\ tokens \subseteq Tokens
      BY <1>4 DEF ClaimChallenge, SvType, AuthType
    <3> QED
      BY <2>1, <2>3, <3>1, SetUsed DEF AuthType
  <2> QED
    BY <1>4, <2>2, <2>3 DEF ClaimChallenge, Claimed
<1>5. ASSUME NEW c \in Clients, GenerateToken(c) PROVE AuthType' /\ Len(tickets) <= Len(tickets')
  <2>1. /\ Ticket(c) \in 1..Len(tickets) /\ req[c].i \in Nat
        /\ tickets[Ticket(c)].key \in Principals
    BY <1>5, CallFacts, TicketFields DEF GenerateToken, In, Requests, SvType, AuthType
  <2>2. Wipe(req[c].i, tickets[Ticket(c)].key) \in BOOLEAN
    BY DEF Wipe
  <2> QED
    BY <1>5, <2>1, <2>2 DEF GenerateToken, SvType, AuthType, Tokens
<1>6. ASSUME NEW a \in Admins,
             SystemChallenge(a)
      PROVE  AuthType' /\ Len(tickets) <= Len(tickets')
  <2>1. System \in Nat /\ a \in Principals
    BY DEF System, Principals
  <2> QED
    BY <1>6, <2>1, StoreChallengeFacts, ServerAssumption DEF SystemChallenge, SvType, AuthType
<1>7. ASSUME NEW n \in DOMAIN tickets,
             ChallengeExpires(n)
      PROVE  AuthType' /\ Len(tickets) <= Len(tickets')
  <2>1. tickets' = Forgotten(tickets, n) /\ n \in 1..Len(tickets)
    BY <1>7 DEF ChallengeExpires, Forgotten, SvType, AuthType
  <2>2. tokens' = tokens
    BY <1>7 DEF ChallengeExpires
  <2> QED
    BY <2>1, <2>2, SetKept DEF SvType, AuthType
<1>8. CASE Restart
  <2>1. Lost /\ tokens' = {}
    BY <1>8 DEF Restart, Lost
  <2> QED
    BY <2>1, LostTickets DEF SvType, AuthType
<1>9. CASE CrashInSave
  <2>1. Lost /\ tokens' = {}
    BY <1>9 DEF CrashInSave, Lost
  <2> QED
    BY <2>1, LostTickets DEF SvType, AuthType
<1> QED
  BY <1>1, <1>2, <1>3, <1>4, <1>5, <1>6, <1>7, <1>8, <1>9, Zenon

LEMMA PurgeKept ==
    ASSUME SvType, [Next]_vars
    PROVE  PurgeType'
<1>1. \/ UNCHANGED purge
      \/ \E c \in Clients : PushDirectoryStore(c)
      \/ PurgeRead
      \/ PurgeDocHistory
      \/ PurgeDocHistoryFails
      \/ MarkRequestProcessed
      \/ \E r \in Purges : PurgeRequest(r)
      \/ \E d \in Docs : RecordPurgedDoc(d)
      \/ Restart
      \/ CrashInSave
  <2>1. CASE Registration
    BY <2>1, Zenon
      DEF Registration, RegisterTenant, RegisterConfig, RegisterCompare, LoadServerKeyBag,
         PersistTenantPublicInfosKey, PersistFailed, RemoveTenant, RemoveTenantFiles
  <2>2. CASE Loading
    BY <2>2, Zenon DEF Loading, GetTenant, LoadTenantStart, LoadTenant
  <2>3. CASE LoadInBackground
    BY <2>3, Zenon DEF LoadInBackground
  <2>4. CASE Authentication
    BY <2>4, Zenon
      DEF Authentication, Challenge, GenerateChallenge, Authenticate, ClaimChallenge,
         VerifySignature, GenerateToken, SystemChallenge, ChallengeExpires
  <2>5. CASE Pushing
    BY <2>5, Zenon
      DEF Pushing, PutEntries, PutGate, PutDenylist, PutCheck, PutStore, PushDirectory
  <2>6. CASE Purging
    BY <2>6, Zenon DEF Purging
  <2>7. CASE Events
    BY <2>7, Zenon DEF Events, Subscribe, Disconnect, SyncEvents, PublishEvent
  <2>8. CASE Configuring
    BY <2>8, Zenon DEF Configuring, UpdateConfig, ReloadConfig, UpdateTenantConfig
  <2>9. CASE ServerSyncStart
    BY <2>9, Zenon DEF ServerSyncStart
  <2>10. CASE ServerSyncScan
    BY <2>10, Zenon DEF ServerSyncScan
  <2>11. CASE ServerSyncPut
    BY <2>11, Zenon DEF ServerSyncPut
  <2>12. CASE UNCHANGED vars
    BY <2>12, Zenon DEF vars
  <2> QED
    BY <2>1, <2>2, <2>3, <2>4, <2>5, <2>6, <2>7, <2>8, <2>9, <2>10, <2>11, <2>12, Zenon
      DEF Next
<1>2. CASE UNCHANGED purge
  BY <1>2, Zenon DEF SvType, PurgeType
<1>3. ASSUME NEW c \in Clients, PushDirectoryStore(c) PROVE PurgeType'
  BY <1>3 DEF PushDirectoryStore, TriggerPurge, SvType, PurgeType
<1>4. CASE PurgeRead
  <2>1. inst[mem.loaded[Main]].dir.purges \subseteq Purges
    <3>1. mem.loaded[Main] \in 1..Len(inst)
      BY <1>4 DEF PurgeRead, SvType, MemType
    <3> QED
      BY <3>1, InstanceFields DEF SvType, Dirs
  <2> QED
    BY <1>4, <2>1 DEF PurgeRead, SvType, PurgeType, NoPurge
<1>5. CASE PurgeDocHistory
  BY <1>5 DEF PurgeDocHistory, Purged, SvType, PurgeType
<1>6. CASE PurgeDocHistoryFails
  BY <1>6 DEF PurgeDocHistoryFails, Purged, SvType, PurgeType
<1>7. CASE MarkRequestProcessed
  BY <1>7 DEF MarkRequestProcessed, MarkNext, NoPurge, SvType, PurgeType
<1>8. ASSUME NEW r \in Purges, PurgeRequest(r) PROVE PurgeType'
  BY <1>8, ServerAssumption DEF PurgeRequest, SvType, PurgeType, Docs
<1>9. ASSUME NEW d \in Docs, RecordPurgedDoc(d) PROVE PurgeType'
  BY <1>9 DEF RecordPurgedDoc, SvType, PurgeType
<1>10. CASE Restart
  BY <1>10 DEF Restart, Lost, NoPurge, PurgeType
<1>11. CASE CrashInSave
  BY <1>11 DEF CrashInSave, Lost, NoPurge, PurgeType
<1> QED
  BY <1>1, <1>2, <1>3, <1>4, <1>5, <1>6, <1>7, <1>8, <1>9, <1>10, <1>11, Zenon

LEMMA SyncKept ==
    ASSUME SvType, [Next]_vars
    PROVE  SyncType'
<1>1. \/ UNCHANGED upstream
      \/ ServerSyncStart
      \/ ServerSyncScan
      \/ ServerSyncPut
      \/ Restart
      \/ CrashInSave
  <2>1. CASE Registration
    BY <2>1, Zenon
      DEF Registration, RegisterTenant, RegisterConfig, RegisterCompare, LoadServerKeyBag,
         PersistTenantPublicInfosKey, PersistFailed, RemoveTenant, RemoveTenantFiles
  <2>2. CASE Loading
    BY <2>2, Zenon DEF Loading, GetTenant, LoadTenantStart, LoadTenant
  <2>3. CASE LoadInBackground
    BY <2>3, Zenon DEF LoadInBackground
  <2>4. CASE Authentication
    BY <2>4, Zenon
      DEF Authentication, Challenge, GenerateChallenge, Authenticate, ClaimChallenge,
         VerifySignature, GenerateToken, SystemChallenge, ChallengeExpires
  <2>5. CASE Pushing
    BY <2>5, Zenon
      DEF Pushing, PutEntries, PutGate, PutDenylist, PutCheck, PutStore, PushDirectory,
         PushDirectoryStore
  <2>6. CASE Purging
    BY <2>6, Zenon
      DEF Purging, PurgeRead, PurgeDocHistory, PurgeDocHistoryFails, MarkRequestProcessed,
         PurgeRequest, RecordPurgedDoc
  <2>7. CASE Events
    BY <2>7, Zenon DEF Events, Subscribe, Disconnect, SyncEvents, PublishEvent
  <2>8. CASE Configuring
    BY <2>8, Zenon DEF Configuring, UpdateConfig, ReloadConfig, UpdateTenantConfig
  <2>9. CASE UNCHANGED vars
    BY <2>9, Zenon DEF vars
  <2> QED
    BY <2>1, <2>2, <2>3, <2>4, <2>5, <2>6, <2>7, <2>8, <2>9, Zenon DEF Next
<1>2. CASE UNCHANGED upstream
  <2>1. Len(inst) \in Nat /\ Len(inst') \in Nat /\ Len(inst) <= Len(inst')
    BY InstKept DEF SvType
  <2> QED
  BY <1>2, <2>1 DEF SvType, SyncType
<1>3. CASE ServerSyncStart
  BY <1>3 DEF ServerSyncStart, NoSync, SvType, SyncType
<1>4. CASE ServerSyncScan
  <2>1. mem.loaded[Main] \in 1..Len(inst) /\ Len(inst') = Len(inst)
    BY <1>4, OpenedFacts DEF ServerSyncScan, SvType, MemType, FilesType, Indexes
  <2> QED
    BY <1>4, <2>1, ServerAssumption DEF ServerSyncScan, SvType, SyncType
<1>5. CASE ServerSyncPut
  BY <1>5 DEF ServerSyncPut, NoSync, SyncType
<1>6. CASE Restart
  BY <1>6 DEF Restart, Lost, NoSync, SyncType
<1>7. CASE CrashInSave
  BY <1>7 DEF CrashInSave, Lost, NoSync, SyncType
<1> QED
  BY <1>1, <1>2, <1>3, <1>4, <1>5, <1>6, <1>7, Zenon

LEMMA HistKept ==
    ASSUME SvType, [Next]_vars
    PROVE  HistType'
<1>1. \/ UNCHANGED hist
      \/ \E c \in Clients : LoadServerKeyBag(c)
      \/ \E c \in Clients : PersistTenantPublicInfosKey(c)
      \/ \E c \in Clients : RemoveTenantFiles(c)
      \/ \E c \in Clients : GenerateToken(c)
      \/ \E c \in Clients : PutStore(c)
      \/ \E c \in Clients : PushDirectoryStore(c)
      \/ PurgeDocHistory
      \/ PurgeDocHistoryFails
      \/ ServerSyncPut
      \/ Restart
      \/ CrashInSave
  <2>1. CASE Registration
    BY <2>1, Zenon
      DEF Registration, RegisterTenant, RegisterConfig, RegisterCompare, PersistFailed,
         RemoveTenant
  <2>2. CASE Loading
    BY <2>2, Zenon DEF Loading, GetTenant, LoadTenantStart, LoadTenant
  <2>3. CASE LoadInBackground
    BY <2>3, Zenon DEF LoadInBackground
  <2>4. CASE Authentication
    BY <2>4, Zenon
      DEF Authentication, Challenge, GenerateChallenge, Authenticate, ClaimChallenge,
         VerifySignature, SystemChallenge, ChallengeExpires
  <2>5. CASE Pushing
    BY <2>5, Zenon DEF Pushing, PutEntries, PutGate, PutDenylist, PutCheck, PushDirectory
  <2>6. CASE Purging
    BY <2>6, Zenon
      DEF Purging, PurgeRead, MarkRequestProcessed, PurgeRequest, RecordPurgedDoc
  <2>7. CASE Events
    BY <2>7, Zenon DEF Events, Subscribe, Disconnect, SyncEvents, PublishEvent
  <2>8. CASE Configuring
    BY <2>8, Zenon DEF Configuring, UpdateConfig, ReloadConfig, UpdateTenantConfig
  <2>9. CASE ServerSyncStart
    BY <2>9, Zenon DEF ServerSyncStart
  <2>10. CASE ServerSyncScan
    BY <2>10, Zenon DEF ServerSyncScan
  <2>11. CASE UNCHANGED vars
    BY <2>11, Zenon DEF vars
  <2> QED
    BY <2>1, <2>2, <2>3, <2>4, <2>5, <2>6, <2>7, <2>8, <2>9, <2>10, <2>11, Zenon DEF Next
<1>2. CASE UNCHANGED hist
  BY <1>2, Zenon DEF SvType, HistType
<1>3. ASSUME NEW c \in Clients, LoadServerKeyBag(c) PROVE HistType'
  BY <1>3 DEF LoadServerKeyBag, TakeBag, SvType, HistType
<1>4. ASSUME NEW c \in Clients, PersistTenantPublicInfosKey(c) PROVE HistType'
  BY <1>4, CallFacts DEF PersistTenantPublicInfosKey, In, CallOK, SvType, HistType
<1>5. ASSUME NEW c \in Clients, RemoveTenantFiles(c) PROVE HistType'
  BY <1>5 DEF RemoveTenantFiles, SvType, HistType
<1>6. ASSUME NEW c \in Clients, GenerateToken(c) PROVE HistType'
  <2>1. Ticket(c) \in 1..MaxTickets
    BY <1>6, CallFacts, ServerAssumption DEF GenerateToken, In, SvType, AuthType
  <2> DEFINE issued == [hist.issued EXCEPT ![Ticket(c)] = @ + 1]
  <2>2. issued \in [1..MaxTickets -> Nat]
    <3> DEFINE N == 1..MaxTickets
    <3>1. hist.issued \in [N -> Nat] /\ Ticket(c) \in N
      BY <2>1 DEF SvType, HistType
    <3> HIDE DEF N
    <3>2. hist.issued[Ticket(c)] + 1 \in Nat
      BY <3>1
    <3>3. issued \in [N -> Nat]
      BY <3>1, <3>2
    <3> QED
      BY <3>3 DEF N
  <2>3. hist' = [hist EXCEPT !.issued = issued]
    BY <1>6 DEF GenerateToken
  <2> HIDE DEF issued
  <2> QED
    BY <2>2, <2>3 DEF SvType, HistType
<1>7. ASSUME NEW c \in Clients, PutStore(c) PROVE HistType'
  <2>1. req[c].view \subseteq Entries
    BY <1>7, CallFacts DEF PutStore, In, CallOK
  <2>2. mem.denied \subseteq Docs
    BY DEF SvType, MemType, Memories
  <2> QED
    BY <1>7, <2>1, <2>2 DEF PutStore, SvType, HistType
<1>8. ASSUME NEW c \in Clients, PushDirectoryStore(c) PROVE HistType'
  BY <1>8 DEF PushDirectoryStore, SvType, HistType
<1>9. CASE PurgeDocHistoryFails
  BY <1>9 DEF PurgeDocHistoryFails, PurgeType, SvType, HistType
<1>10. CASE ServerSyncPut
  BY <1>10 DEF ServerSyncPut, SyncType, Docs, SvType, HistType
<1>11. CASE Restart
  BY <1>11 DEF Restart, SvType, HistType
<1>12. CASE CrashInSave
  BY <1>12 DEF CrashInSave, MemType, Memories, SvType, HistType
<1>13. CASE PurgeDocHistory
  BY <1>13 DEF PurgeDocHistory, PurgeType, SvType, HistType
<1> QED
  BY <1>1, <1>2, <1>3, <1>4, <1>5, <1>6, <1>7, <1>8, <1>9, <1>10, <1>11, <1>12, <1>13, Zenon

(* What may still happen is only counted down.                             *)
Counters == {"register", "remove", "fail", "reload", "challenge", "expire", "auth", "push",
             "dir", "sync", "events", "config", "restart"}
LEMMA BudgetKept ==
    ASSUME SvType, [Next]_vars
    PROVE  BudgetType'
<1>1. UNCHANGED budget \/ \E f \in Counters : Spend(f)
  <2>1. CASE Registration
    BY <2>1
      DEF Registration, RegisterTenant, RegisterConfig, RegisterCompare, LoadServerKeyBag,
         PersistTenantPublicInfosKey, PersistFailed, RemoveTenant, RemoveTenantFiles,
         Counters
  <2>2. CASE Loading
    BY <2>2 DEF Loading, GetTenant, LoadTenantStart, LoadTenant, Counters
  <2>3. CASE LoadInBackground
    BY <2>3 DEF LoadInBackground, Counters
  <2>4. CASE Authentication
    BY <2>4
      DEF Authentication, Challenge, GenerateChallenge, Authenticate, ClaimChallenge,
         VerifySignature, GenerateToken, SystemChallenge, ChallengeExpires, Counters
  <2>5. CASE Pushing
    BY <2>5
      DEF Pushing, PutEntries, PutGate, PutDenylist, PutCheck, PutStore, PushDirectory,
         PushDirectoryStore, Counters
  <2>6. CASE Purging
    BY <2>6
      DEF Purging, PurgeRead, PurgeDocHistory, PurgeDocHistoryFails, MarkRequestProcessed,
         PurgeRequest, RecordPurgedDoc, Counters
  <2>7. CASE Events
    BY <2>7 DEF Events, Subscribe, Disconnect, SyncEvents, PublishEvent, Counters
  <2>8. CASE Configuring
    BY <2>8 DEF Configuring, UpdateConfig, ReloadConfig, UpdateTenantConfig, Counters
  <2>9. CASE ServerSyncStart
    BY <2>9 DEF ServerSyncStart, Counters
  <2>10. CASE ServerSyncScan
    BY <2>10 DEF ServerSyncScan, Counters
  <2>11. CASE ServerSyncPut
    BY <2>11 DEF ServerSyncPut, Counters
  <2>12. CASE Restart
    BY <2>12 DEF Restart, Counters
  <2>13. CASE CrashInSave
    BY <2>13 DEF CrashInSave, Counters
  <2>14. CASE UNCHANGED vars
    BY <2>14 DEF vars
  <2> QED
    BY <2>1, <2>2, <2>3, <2>4, <2>5, <2>6, <2>7, <2>8, <2>9, <2>10, <2>11, <2>12, <2>13, <2>14,
       Zenon DEF Next
<1>2. CASE UNCHANGED budget
  BY <1>2 DEF SvType, BudgetType
<1>3. ASSUME NEW f \in Counters, Spend(f) PROVE BudgetType'
  BY <1>3 DEF Spend, SvType, BudgetType, Counters
<1> QED
  BY <1>1, <1>2, <1>3

(* Subscribers: every push that is announced is still pending or told.      *)
LEMMA HearKept ==
    ASSUME SvType, HearPart, [Next]_vars
    PROVE  BusType' /\ HearPart'
<1>1. \/ UNCHANGED bus
      \/ \E c \in Clients : PutStore(c)
      \/ \E c \in Clients : Subscribe(c)
      \/ \E c \in Clients : Disconnect(c)
      \/ PublishEvent
      \/ Restart
      \/ CrashInSave
  <2>1. CASE Registration
    BY <2>1, Zenon
      DEF Registration, RegisterTenant, RegisterConfig, RegisterCompare, LoadServerKeyBag,
         PersistTenantPublicInfosKey, PersistFailed, RemoveTenant, RemoveTenantFiles
  <2>2. CASE Loading
    BY <2>2, Zenon DEF Loading, GetTenant, LoadTenantStart, LoadTenant
  <2>3. CASE LoadInBackground
    BY <2>3, Zenon DEF LoadInBackground
  <2>4. CASE Authentication
    BY <2>4, Zenon
      DEF Authentication, Challenge, GenerateChallenge, Authenticate, ClaimChallenge,
         VerifySignature, GenerateToken, SystemChallenge, ChallengeExpires
  <2>5. CASE Pushing
    BY <2>5, Zenon
      DEF Pushing, PutEntries, PutGate, PutDenylist, PutCheck, PushDirectory, PushDirectoryStore
  <2>6. CASE Purging
    BY <2>6, Zenon
      DEF Purging, PurgeRead, PurgeDocHistory, PurgeDocHistoryFails, MarkRequestProcessed,
         PurgeRequest, RecordPurgedDoc
  <2>7. CASE Events
    BY <2>7, Zenon DEF Events, SyncEvents
  <2>8. CASE Configuring
    BY <2>8, Zenon DEF Configuring, UpdateConfig, ReloadConfig, UpdateTenantConfig
  <2>9. CASE ServerSyncStart
    BY <2>9, Zenon DEF ServerSyncStart
  <2>10. CASE ServerSyncScan
    BY <2>10, Zenon DEF ServerSyncScan
  <2>11. CASE ServerSyncPut
    BY <2>11, Zenon DEF ServerSyncPut
  <2>12. CASE UNCHANGED vars
    BY <2>12, Zenon DEF vars
  <2> QED
    BY <2>1, <2>2, <2>3, <2>4, <2>5, <2>6, <2>7, <2>8, <2>9, <2>10, <2>11, <2>12, Zenon
      DEF Next
<1>2. CASE UNCHANGED bus
  BY <1>2, Zenon DEF SvType, BusType, HearPart
<1>3. ASSUME NEW c \in Clients, PutStore(c) PROVE BusType' /\ HearPart'
  <2>1. CallOK(req[c]) /\ req[c].op = "push"
    BY <1>3 DEF PutStore, In, SvType, ReqType
  <2> QED
    BY <1>3, <2>1 DEF PutStore, Announce, CallOK, SvType, BusType, HearPart
<1>4. ASSUME NEW c \in Clients, Subscribe(c) PROVE BusType' /\ HearPart'
  BY <1>4 DEF Subscribe, HearPart, BusType, SvType
<1>5. ASSUME NEW c \in Clients, Disconnect(c) PROVE BusType' /\ HearPart'
  BY <1>5 DEF Disconnect, HearPart, BusType, SvType
<1>6. CASE PublishEvent
  BY <1>6 DEF PublishEvent, HearPart, BusType, SvType
<1>7. CASE Restart
  BY <1>7 DEF Restart, Lost, HearPart, BusType
<1>8. CASE CrashInSave
  BY <1>8 DEF CrashInSave, Lost, HearPart, BusType
<1> QED
  BY <1>1, <1>2, <1>3, <1>4, <1>5, <1>6, <1>7, <1>8, Zenon


(* What a handler carries stays good while instances and challenges grow.   *)
With(c, r) == [req EXCEPT ![c] = r]
At(c, pc) == [req[c] EXCEPT !.pc = pc]

LEMMA CallGrows ==
    ASSUME SvType, [Next]_vars, NEW c \in Clients, req'[c] = req[c]
    PROVE  CallOK(req[c])'
<1>1. /\ Len(inst) \in Nat /\ Len(inst') \in Nat /\ Len(inst) <= Len(inst')
      /\ Len(tickets) \in Nat /\ Len(tickets') \in Nat /\ Len(tickets) <= Len(tickets')
  BY InstKept, AuthKept DEF SvType, AuthType
<1>2. CallOK(req[c]) /\ req[c].i \in Nat
  BY CallFacts DEF Requests
<1> QED
  BY <1>1, <1>2 DEF CallOK

LEMMA WithKept ==
    ASSUME SvType, [Next]_vars, NEW c \in Clients, NEW r \in Requests, req' = With(c, r),
           CallOK(req[c])'
    PROVE  ReqType'
<1>1. req \in [Clients -> Requests]
  BY DEF SvType, ReqType
<1>2. req' \in [Clients -> Requests] /\ \A d \in Clients : d # c => req'[d] = req[d]
  BY <1>1 DEF With
<1>3. \A d \in Clients : CallOK(req[d])'
  BY <1>2, CallGrows
<1> QED
  BY <1>2, <1>3 DEF ReqType

LEMMA WithIs ==
    ASSUME SvType, NEW c \in Clients, NEW r, req' = With(c, r)
    PROVE  req'[c] = r
BY DEF With, SvType, ReqType

LEMMA IdleOK == Idle \in Requests
<1>1. 0 \in Nat /\ {} \subseteq Things /\ {} \subseteq Tokens /\ {} \subseteq Docs
  OBVIOUS
<1> QED
  BY <1>1 DEF Idle, Requests, Ops, Pcs

(* The handler answers.                                                     *)
LEMMA AnsweredKept ==
    ASSUME SvType, [Next]_vars, NEW c \in Clients, Answered(c)
    PROVE  ReqType'
<1>1. req' = With(c, Idle)
  BY DEF Answered, With
<1>2. req'[c] = Idle
  BY <1>1, WithIs
<1>3. Len(inst') \in Nat
  BY InstKept
<1>4. CallOK(req[c])'
  BY <1>2, <1>3 DEF CallOK, Idle
<1> QED
  BY <1>1, <1>4, IdleOK, WithKept

(* The handler goes on to its next await.                                   *)
LEMMA GotoKept ==
    ASSUME SvType, [Next]_vars, NEW c \in Clients, NEW pc \in Pcs, req' = Goto(c, pc),
           req[c].op # "none",
           pc \in {"bagLoad", "bagSave"} => req[c].op \in {"register", "remove"},
           pc \in {"gate", "denylist", "check", "store"} /\ req[c].op # "auth"
              => req[c].i \in 1..Len(inst)
    PROVE  ReqType'
<1> DEFINE r == At(c, pc)
<1>1. req' = With(c, r)
  BY DEF Goto, With, At
<1>2. /\ r \in Requests /\ r.pc = pc
      /\ r.op = req[c].op /\ r.i = req[c].i /\ r.arg = req[c].arg /\ r.view = req[c].view
      /\ r.tok = req[c].tok /\ CallOK(req[c]) /\ req[c].i \in Nat
  <2>1. req[c] \in Requests /\ CallOK(req[c])
    BY CallFacts
  <2> QED
    BY <2>1 DEF At, Requests
<1> HIDE DEF r
<1>3. req'[c] = r
  BY <1>1, WithIs
<1>4. /\ Len(inst) \in Nat /\ Len(inst') \in Nat /\ Len(inst) <= Len(inst')
      /\ Len(tickets) \in Nat /\ Len(tickets') \in Nat /\ Len(tickets) <= Len(tickets')
  BY InstKept, AuthKept DEF SvType, AuthType
<1>5. CallOK(req[c])'
  BY <1>2, <1>3, <1>4 DEF CallOK
<1> QED
  BY <1>1, <1>2, <1>5, WithKept

(* A request arrives.                                                       *)
Arriving(op, pc, arg) == [Idle EXCEPT !.op = op, !.pc = pc, !.arg = arg]
LEMMA ArrivingFacts ==
    ASSUME NEW op \in Ops, NEW pc \in Pcs, NEW arg \in SUBSET Things
    PROVE  /\ Arriving(op, pc, arg) \in Requests
           /\ Arriving(op, pc, arg).op = op /\ Arriving(op, pc, arg).pc = pc
           /\ Arriving(op, pc, arg).arg = arg /\ Arriving(op, pc, arg).i = 0
           /\ Arriving(op, pc, arg).view = {} /\ Arriving(op, pc, arg).tok = {}
           /\ ~Arriving(op, pc, arg).late /\ Arriving(op, pc, arg).before = {}
<1>1. /\ Idle \in Requests /\ Idle.i = 0 /\ Idle.view = {} /\ Idle.tok = {}
      /\ Idle.late = FALSE /\ Idle.before = {}
  BY IdleOK DEF Idle
<1> DEFINE r == Arriving(op, pc, arg)
<1>2. /\ r \in Requests /\ r.op = op /\ r.pc = pc /\ r.arg = arg
      /\ r.i = Idle.i /\ r.view = Idle.view /\ r.tok = Idle.tok
      /\ r.late = Idle.late /\ r.before = Idle.before
  BY <1>1 DEF Arriving, Requests
<1> HIDE DEF r
<1> QED
  BY <1>1, <1>2 DEF r

LEMMA ArriveKept ==
    ASSUME SvType, [Next]_vars, NEW c \in Clients, NEW op \in Ops, NEW pc \in Pcs,
           NEW arg \in SUBSET Things, Arrive(c, op, pc, arg),
           op \in {"register", "remove", "challenge", "auth", "dir"},
           op \in {"register", "remove"} => arg \subseteq Tenants,
           op = "challenge" => \E k \in Keys : arg = {k},
           op = "auth" => \E n \in 1..Len(tickets) : arg = {n},
           op = "dir" => \E ch \in GrantChanges \cup PurgeChanges : arg = {ch},
           pc \in {"bagLoad", "bagSave"} => op \in {"register", "remove"},
           pc \in {"gate", "denylist", "check", "store"} => op = "auth"
    PROVE  ReqType'
<1> DEFINE r == Arriving(op, pc, arg)
<1>1. req' = With(c, r)
  BY DEF Arrive, With, Arriving
<1>2. r \in Requests /\ r.op = op /\ r.pc = pc /\ r.arg = arg /\ r.i = 0 /\ r.view = {}
  BY ArrivingFacts
<1> HIDE DEF r
<1>3. req'[c] = r
  BY <1>1, WithIs
<1>4. /\ Len(inst') \in Nat
      /\ Len(tickets) \in Nat /\ Len(tickets') \in Nat /\ Len(tickets) <= Len(tickets')
  BY InstKept, AuthKept DEF SvType, AuthType
<1>5. CallOK(req[c])'
  BY <1>2, <1>3, <1>4 DEF CallOK
<1> QED
  BY <1>1, <1>2, <1>5, WithKept


(* The lengths only grow, which is all that CallOK asks of them.            *)
LEMMA LengthsGrow ==
    ASSUME SvType, [Next]_vars
    PROVE  /\ Len(inst) \in Nat /\ Len(inst') \in Nat /\ Len(inst) <= Len(inst')
           /\ Len(tickets) \in Nat /\ Len(tickets') \in Nat /\ Len(tickets) <= Len(tickets')
BY InstKept, AuthKept DEF SvType, AuthType

LEMMA RangesGrow ==
    ASSUME SvType, [Next]_vars
    PROVE  /\ 1..Len(tickets) \subseteq 1..Len(tickets')
           /\ 1..Len(inst) \subseteq 1..Len(inst') /\ 0..Len(inst) \subseteq 0..Len(inst')
           /\ 0 \in 0..Len(inst')
BY LengthsGrow

LEMMA OneKept ==
    ASSUME SvType, [Next]_vars, NEW c \in Clients, req' \in [Clients -> Requests],
           \A d \in Clients : d # c => req'[d] = req[d], CallOK(req[c])'
    PROVE  ReqType'
<1>1. \A d \in Clients : CallOK(req[d])'
  BY CallGrows
<1> QED
  BY <1>1 DEF ReqType

LEMMA ReqIs == ASSUME SvType PROVE req \in [Clients -> Requests]
BY DEF SvType, ReqType

(* One handler gets a new record.                                          *)
LEMMA OneRequest ==
    ASSUME SvType, NEW c \in Clients, NEW r \in Requests, req' = [req EXCEPT ![c] = r]
    PROVE  /\ req' \in [Clients -> Requests] /\ req'[c] = r
           /\ \A d \in Clients : d # c => req'[d] = req[d]
BY ReqIs

(* Every handler keeps what it carries in shape.                           *)
LEMMA ReqKept ==
    ASSUME SvType, [Next]_vars
    PROVE  ReqType'
<1>1. \/ UNCHANGED req
      \/ \E c \in Clients, t \in Tenants : RegisterTenant(c, t)
      \/ \E c \in Clients : RegisterConfig(c)
      \/ \E c \in Clients : RegisterCompare(c)
      \/ \E c \in Clients : LoadServerKeyBag(c)
      \/ \E c \in Clients : PersistTenantPublicInfosKey(c)
      \/ \E c \in Clients : PersistFailed(c)
      \/ \E c \in Clients, t \in Tenants : RemoveTenant(c, t)
      \/ \E c \in Clients : RemoveTenantFiles(c)
      \/ \E c \in Clients : GetTenant(c)
      \/ \E c \in Clients : LoadTenantStart(c)
      \/ \E c \in Clients : LoadTenant(c)
      \/ \E c \in Clients, k \in Keys : Challenge(c, k)
      \/ \E c \in Clients : GenerateChallenge(c)
      \/ \E c \in Clients, n \in DOMAIN tickets : Authenticate(c, n)
      \/ \E c \in Clients : ClaimChallenge(c)
      \/ \E c \in Clients : VerifySignature(c)
      \/ \E c \in Clients : GenerateToken(c)
      \/ \E c \in Clients, tok \in tokens, E \in budget.batches : PutEntries(c, tok, E)
      \/ \E c \in Clients : PutGate(c)
      \/ \E c \in Clients : PutDenylist(c)
      \/ \E c \in Clients : PutCheck(c)
      \/ \E c \in Clients : PutStore(c)
      \/ \E c \in Clients, ch \in GrantChanges \cup PurgeChanges : PushDirectory(c, ch)
      \/ \E c \in Clients : PushDirectoryStore(c)
      \/ \E c \in Clients : Subscribe(c)
      \/ \E c \in Clients, tok \in tokens : SyncEvents(c, tok)
      \/ \E c \in Clients, tok \in tokens, A \in SUBSET Admins : UpdateConfig(c, tok, A)
      \/ \E c \in Clients : ReloadConfig(c)
      \/ Restart
      \/ CrashInSave
  <2>1. CASE Registration
    BY <2>1, Zenon DEF Registration
  <2>2. CASE Loading
    BY <2>2, Zenon DEF Loading
  <2>3. CASE LoadInBackground
    BY <2>3, Zenon DEF LoadInBackground
  <2>4. CASE Authentication
    BY <2>4, Zenon DEF Authentication, SystemChallenge, ChallengeExpires
  <2>5. CASE Pushing
    BY <2>5, Zenon DEF Pushing
  <2>6. CASE Purging
    BY <2>6, Zenon
      DEF Purging, PurgeRead, PurgeDocHistory, PurgeDocHistoryFails, MarkRequestProcessed,
         PurgeRequest, RecordPurgedDoc
  <2>7. CASE Events
    BY <2>7, Zenon DEF Events, Disconnect, PublishEvent
  <2>8. CASE Configuring
    BY <2>8, Zenon DEF Configuring, UpdateTenantConfig
  <2>9. CASE ServerSyncStart
    BY <2>9, Zenon DEF ServerSyncStart
  <2>10. CASE ServerSyncScan
    BY <2>10, Zenon DEF ServerSyncScan
  <2>11. CASE ServerSyncPut
    BY <2>11, Zenon DEF ServerSyncPut
  <2>12. CASE UNCHANGED vars
    BY <2>12, Zenon DEF vars
  <2> QED
    BY <2>1, <2>2, <2>3, <2>4, <2>5, <2>6, <2>7, <2>8, <2>9, <2>10, <2>11, <2>12, Zenon
      DEF Next
<1>2. CASE UNCHANGED req
  BY <1>2, CallGrows, ReqIs DEF ReqType
<1>3. ASSUME NEW c \in Clients, NEW t \in Tenants, RegisterTenant(c, t) PROVE ReqType'
  <2>1. "register" \in Ops /\ "config" \in Pcs /\ {t} \in SUBSET Things
    BY DEF Ops, Pcs, Things
  <2>2. Arrive(c, "register", "config", {t})
    BY <1>3 DEF RegisterTenant
  <2> QED
    BY <2>1, <2>2, ArriveKept
<1>4. ASSUME NEW c \in Clients, RegisterConfig(c) PROVE ReqType'
  <2>1. CASE Answered(c)
    BY <2>1, AnsweredKept
  <2>2. CASE req' = Goto(c, "compare")
    BY <1>4, <2>2, GotoKept, CallFacts DEF RegisterConfig, In, CallOK, Pcs
  <2>3. CASE req' = Goto(c, "bagLoad")
    BY <1>4, <2>3, GotoKept, CallFacts DEF RegisterConfig, In, CallOK, Pcs
  <2> QED
    BY <1>4, <2>1, <2>2, <2>3 DEF RegisterConfig
<1>5. ASSUME NEW c \in Clients, RegisterCompare(c) PROVE ReqType'
  BY <1>5, AnsweredKept DEF RegisterCompare
<1>6. ASSUME NEW c \in Clients, LoadServerKeyBag(c) PROVE ReqType'
  <2> DEFINE v == files.bag
  <2>a. v \subseteq Tenants /\ req[c].pc = "bagLoad" /\ v \in SUBSET Things
    BY <1>6 DEF LoadServerKeyBag, SvType, FilesType, Things
  <2>1. req' = [req EXCEPT ![c].pc = "bagSave", ![c].view = v]
    BY <1>6 DEF LoadServerKeyBag
  <2> HIDE DEF v
  <2>2. /\ req' \in [Clients -> Requests]
        /\ \A d \in Clients : d # c => req'[d] = req[d]
        /\ req'[c].op = req[c].op
        /\ req'[c].arg = req[c].arg
        /\ req'[c].tok = req[c].tok
        /\ req'[c].i = req[c].i
        /\ req'[c].pc = "bagSave"
        /\ req'[c].view = v
    <3>1. req[c] \in Requests /\ "bagSave" \in Pcs
      BY CallFacts DEF Pcs
    <3>2. [req[c] EXCEPT !.pc = "bagSave", !.view = v] \in Requests
      BY <3>1, <2>a DEF Requests
    <3>3. req'[c] = [req[c] EXCEPT !.pc = "bagSave", !.view = v]
      BY <2>1, ReqIs
    <3> QED
      BY <2>1, <3>1, <3>2, <3>3, ReqIs DEF Requests
  <2>3. req[c].op # "none" /\ CallOK(req[c]) /\ req[c].i \in Nat
    BY <1>6, CallFacts DEF LoadServerKeyBag, In, CallOK, Requests
  <2>4. CallOK(req[c])'
    BY <2>a, <2>2, <2>3, RangesGrow DEF CallOK
  <2>5. \A d \in Clients : d # c => req'[d] = req[d]
    BY <2>2
  <2> QED
    BY <2>2, <2>4, <2>5, OneKept
<1>7. ASSUME NEW c \in Clients, PersistTenantPublicInfosKey(c) PROVE ReqType'
  BY <1>7, AnsweredKept DEF PersistTenantPublicInfosKey
<1>8. ASSUME NEW c \in Clients, PersistFailed(c) PROVE ReqType'
  BY <1>8, AnsweredKept DEF PersistFailed
<1>9. ASSUME NEW c \in Clients, NEW t \in Tenants, RemoveTenant(c, t) PROVE ReqType'
  <2>1. "remove" \in Ops /\ "bagLoad" \in Pcs /\ {t} \in SUBSET Things
    BY DEF Ops, Pcs, Things
  <2>2. Arrive(c, "remove", "bagLoad", {t})
    BY <1>9 DEF RemoveTenant
  <2> QED
    BY <2>1, <2>2, ArriveKept
<1>10. ASSUME NEW c \in Clients, RemoveTenantFiles(c) PROVE ReqType'
  BY <1>10, AnsweredKept DEF RemoveTenantFiles
<1>11. ASSUME NEW c \in Clients, GetTenant(c) PROVE ReqType'
  <2> DEFINE v == mem.loaded[Main]
  <2>a. v \in 1..Len(inst) /\ v \in Nat
    BY <1>11 DEF GetTenant, SvType, MemType
  <2>1. req' = [req EXCEPT ![c].pc = "gate", ![c].i = v]
    BY <1>11 DEF GetTenant
  <2> HIDE DEF v
  <2>2. /\ req' \in [Clients -> Requests]
        /\ \A d \in Clients : d # c => req'[d] = req[d]
        /\ req'[c].op = req[c].op
        /\ req'[c].arg = req[c].arg
        /\ req'[c].tok = req[c].tok
        /\ req'[c].view = req[c].view
        /\ req'[c].pc = "gate"
        /\ req'[c].i = v
    <3>1. req[c] \in Requests /\ "gate" \in Pcs
      BY CallFacts DEF Pcs
    <3>2. [req[c] EXCEPT !.pc = "gate", !.i = v] \in Requests
      BY <3>1, <2>a DEF Requests
    <3>3. req'[c] = [req[c] EXCEPT !.pc = "gate", !.i = v]
      BY <2>1, ReqIs
    <3> QED
      BY <2>1, <3>1, <3>2, <3>3, ReqIs DEF Requests
  <2>3. req[c].op # "none" /\ CallOK(req[c]) /\ req[c].i \in Nat
    BY <1>11, CallFacts DEF GetTenant, In, CallOK, Requests
  <2>4. CallOK(req[c])'
    BY <2>a, <2>2, <2>3, RangesGrow DEF CallOK
  <2>5. \A d \in Clients : d # c => req'[d] = req[d]
    BY <2>2
  <2> QED
    BY <2>2, <2>4, <2>5, OneKept
<1>12. ASSUME NEW c \in Clients, LoadTenantStart(c) PROVE ReqType'
  <2>1. CASE Answered(c)
    BY <2>1, AnsweredKept
  <2>2. CASE req' = Goto(c, "loading")
    BY <1>12, <2>2, GotoKept, CallFacts DEF LoadTenantStart, In, CallOK, Pcs
  <2> QED
    BY <1>12, <2>1, <2>2 DEF LoadTenantStart
<1>13. ASSUME NEW c \in Clients, LoadTenant(c) PROVE ReqType'
  <2> DEFINE v == Len(inst) + 1
  <2>a. v \in 1..Len(inst') /\ v \in Nat
    BY <1>13, NewInstanceFacts DEF LoadTenant, SvType
  <2>1. req' = [req EXCEPT ![c].pc = "gate", ![c].i = v]
    BY <1>13 DEF LoadTenant
  <2> HIDE DEF v
  <2>2. /\ req' \in [Clients -> Requests]
        /\ \A d \in Clients : d # c => req'[d] = req[d]
        /\ req'[c].op = req[c].op
        /\ req'[c].arg = req[c].arg
        /\ req'[c].tok = req[c].tok
        /\ req'[c].view = req[c].view
        /\ req'[c].pc = "gate"
        /\ req'[c].i = v
    <3>1. req[c] \in Requests /\ "gate" \in Pcs
      BY CallFacts DEF Pcs
    <3>2. [req[c] EXCEPT !.pc = "gate", !.i = v] \in Requests
      BY <3>1, <2>a DEF Requests
    <3>3. req'[c] = [req[c] EXCEPT !.pc = "gate", !.i = v]
      BY <2>1, ReqIs
    <3> QED
      BY <2>1, <3>1, <3>2, <3>3, ReqIs DEF Requests
  <2>3. req[c].op # "none" /\ CallOK(req[c]) /\ req[c].i \in Nat
    BY <1>13, CallFacts DEF LoadTenant, In, CallOK, Requests
  <2>4. CallOK(req[c])'
    BY <2>a, <2>2, <2>3, RangesGrow DEF CallOK
  <2>5. \A d \in Clients : d # c => req'[d] = req[d]
    BY <2>2
  <2> QED
    BY <2>2, <2>4, <2>5, OneKept
<1>14. ASSUME NEW c \in Clients, NEW k \in Keys, Challenge(c, k) PROVE ReqType'
  <2>1. "challenge" \in Ops /\ "tenant" \in Pcs /\ {k} \in SUBSET Things
    BY DEF Ops, Pcs, Things, Principals
  <2>2. Arrive(c, "challenge", "tenant", {k})
    BY <1>14 DEF Challenge
  <2> QED
    BY <2>1, <2>2, ArriveKept
<1>15. ASSUME NEW c \in Clients, GenerateChallenge(c) PROVE ReqType'
  BY <1>15, AnsweredKept DEF GenerateChallenge
<1>16. ASSUME NEW c \in Clients, NEW n \in DOMAIN tickets, Authenticate(c, n) PROVE ReqType'
  <2> DEFINE pc == IF tickets[n].svc = System THEN "gate" ELSE "tenant"
  <2>1. "auth" \in Ops /\ pc \in Pcs /\ {n} \in SUBSET Things /\ n \in 1..Len(tickets)
    BY DEF Ops, Pcs, Things, SvType, AuthType
  <2>2. Arrive(c, "auth", pc, {n}) /\ pc \in {"gate", "tenant"}
    BY <1>16 DEF Authenticate
  <2> HIDE DEF pc
  <2> QED
    BY <2>1, <2>2, ArriveKept
<1>17. ASSUME NEW c \in Clients, ClaimChallenge(c) PROVE ReqType'
  <2>1. CASE Answered(c)
    BY <2>1, AnsweredKept
  <2>2. CASE req' = Goto(c, "verify")
    BY <1>17, <2>2, GotoKept, CallFacts DEF ClaimChallenge, In, CallOK, Pcs
  <2> QED
    BY <1>17, <2>1, <2>2 DEF ClaimChallenge
<1>18. ASSUME NEW c \in Clients, VerifySignature(c) PROVE ReqType'
  <2>1. CASE Answered(c)
    BY <2>1, AnsweredKept
  <2>2. CASE req' = Goto(c, "issue")
    BY <1>18, <2>2, GotoKept, CallFacts DEF VerifySignature, In, CallOK, Pcs
  <2> QED
    BY <1>18, <2>1, <2>2 DEF VerifySignature
<1>19. ASSUME NEW c \in Clients, GenerateToken(c) PROVE ReqType'
  BY <1>19, AnsweredKept DEF GenerateToken
<1>20. ASSUME NEW c \in Clients, NEW tok \in tokens, NEW E \in budget.batches,
              PutEntries(c, tok, E)
       PROVE  ReqType'
  <2>1. E \subseteq Entries /\ tok \in Tokens /\ E \subseteq Things
    BY DEF SvType, BudgetType, AuthType, Things
  <2>2. mem.denied \subseteq Docs /\ (files.dir.grant[tok.key] # "active") \in BOOLEAN
    BY DEF SvType, MemType, Memories
  <2> DEFINE b == files.dir.grant[tok.key] # "active"
             r == [Idle EXCEPT !.op = "push", !.pc = "tenant", !.arg = E, !.tok = {tok},
                               !.before = mem.denied, !.late = b]
  <2>3. r \in Requests
    BY <2>1, <2>2, IdleOK DEF Requests, Ops, Pcs
  <2>4. /\ r.op = "push" /\ r.pc = "tenant" /\ r.arg = E /\ r.tok = {tok}
        /\ r.i = 0 /\ r.view = {}
    BY DEF Idle
  <2>5. req' = [req EXCEPT ![c] = r]
    BY <1>20 DEF PutEntries
  <2> HIDE DEF r
  <2>6. /\ req' \in [Clients -> Requests] /\ req'[c] = r
        /\ \A d \in Clients : d # c => req'[d] = req[d]
    BY <2>3, <2>5, OneRequest
  <2> QED
    BY <2>1, <2>4, <2>6, RangesGrow, OneKept DEF CallOK
<1>21. ASSUME NEW c \in Clients, PutGate(c) PROVE ReqType'
  <2>1. CASE Answered(c)
    BY <2>1, AnsweredKept
  <2>2. CASE req' = Goto(c, "denylist")
    BY <1>21, <2>2, GotoKept, CallFacts DEF PutGate, In, CallOK, Pcs
  <2> QED
    BY <1>21, <2>1, <2>2 DEF PutGate
<1>22. ASSUME NEW c \in Clients, PutDenylist(c) PROVE ReqType'
  <2> DEFINE v == mem.denied # {}
  <2>a. v \in BOOLEAN /\ req[c].op = "push" /\ req[c].pc = "denylist"
    BY <1>22 DEF PutDenylist, In
  <2>1. req' = [req EXCEPT ![c].pc = "check", ![c].live = v]
    BY <1>22 DEF PutDenylist
  <2> HIDE DEF v
  <2>2. /\ req' \in [Clients -> Requests]
        /\ \A d \in Clients : d # c => req'[d] = req[d]
        /\ req'[c].op = req[c].op
        /\ req'[c].arg = req[c].arg
        /\ req'[c].tok = req[c].tok
        /\ req'[c].view = req[c].view
        /\ req'[c].i = req[c].i
        /\ req'[c].pc = "check"
    <3>1. req[c] \in Requests /\ "check" \in Pcs
      BY CallFacts DEF Pcs
    <3>2. [req[c] EXCEPT !.pc = "check", !.live = v] \in Requests
      BY <3>1, <2>a DEF Requests
    <3>3. req'[c] = [req[c] EXCEPT !.pc = "check", !.live = v]
      BY <2>1, ReqIs
    <3> QED
      BY <2>1, <3>1, <3>2, <3>3, ReqIs DEF Requests
  <2>3. req[c].op # "none" /\ CallOK(req[c]) /\ req[c].i \in Nat
    BY <1>22, CallFacts DEF PutDenylist, In, CallOK, Requests
  <2>4. CallOK(req[c])'
    BY <2>a, <2>2, <2>3, RangesGrow DEF CallOK
  <2>5. \A d \in Clients : d # c => req'[d] = req[d]
    BY <2>2
  <2> QED
    BY <2>2, <2>4, <2>5, OneKept
<1>23. ASSUME NEW c \in Clients, PutCheck(c) PROVE ReqType'
  <2>1. CASE Answered(c)
    BY <2>1, AnsweredKept
  <2>2. CASE req' = [req EXCEPT ![c].pc = "store", ![c].view = Storable(c)]
    <3>1. req[c].op = "push" /\ req[c].pc = "check"
      BY <1>23 DEF PutCheck, In
    <3>2. Storable(c) \subseteq Entries /\ Entries \subseteq Things
      BY <3>1, CallFacts DEF Storable, CallOK, Things
    <3> DEFINE V == Storable(c)
               r == [req[c] EXCEPT !.pc = "store", !.view = V]
    <3>3. req' = [req EXCEPT ![c] = r]
      BY <2>2, ReqIs
    <3> HIDE DEF V
    <3>4. req[c] \in Requests /\ "store" \in Pcs /\ V \subseteq Things
      BY <3>2, CallFacts DEF Pcs, V
    <3>5. r \in Requests
      BY <3>4 DEF Requests
    <3>6. /\ r.op = req[c].op /\ r.arg = req[c].arg /\ r.tok = req[c].tok
          /\ r.i = req[c].i /\ r.pc = "store" /\ r.view = V
      BY <3>4 DEF Requests
    <3> HIDE DEF r
    <3>7. /\ req' \in [Clients -> Requests] /\ req'[c] = r
          /\ \A d \in Clients : d # c => req'[d] = req[d]
      BY <3>3, <3>5, OneRequest
    <3> QED
      BY <3>1, <3>2, <3>6, <3>7, RangesGrow, CallFacts, OneKept DEF CallOK, V
  <2> QED
    BY <1>23, <2>1, <2>2 DEF PutCheck
<1>24. ASSUME NEW c \in Clients, PutStore(c) PROVE ReqType'
  BY <1>24, AnsweredKept DEF PutStore
<1>25. ASSUME NEW c \in Clients, NEW ch \in GrantChanges \cup PurgeChanges,
              PushDirectory(c, ch)
       PROVE  ReqType'
  <2>1. "dir" \in Ops /\ "tenant" \in Pcs /\ {ch} \in SUBSET Things
    BY DEF Ops, Pcs, Things
  <2>2. Arrive(c, "dir", "tenant", {ch})
    BY <1>25 DEF PushDirectory
  <2> QED
    BY <2>1, <2>2, ArriveKept
<1>26. ASSUME NEW c \in Clients, PushDirectoryStore(c) PROVE ReqType'
  <2> DEFINE F(x) == [req[x] EXCEPT !.late = @ /\ files'.dir.grant[Token(x).key] # "active"]
  <2>1. req' = [x \in Clients |-> IF x = c THEN Idle ELSE F(x)]
    BY <1>26 DEF PushDirectoryStore
  <2>2. \A x \in Clients : /\ F(x) \in Requests
          /\ F(x).op = req[x].op /\ F(x).pc = req[x].pc /\ F(x).arg = req[x].arg
          /\ F(x).tok = req[x].tok /\ F(x).view = req[x].view /\ F(x).i = req[x].i
    <3> TAKE x \in Clients
    <3> DEFINE b == req[x].late /\ files'.dir.grant[Token(x).key] # "active"
    <3>1. req[x] \in Requests /\ b \in BOOLEAN
      BY CallFacts
    <3>2. F(x) = [req[x] EXCEPT !.late = b]
      OBVIOUS
    <3> HIDE DEF b, F
    <3> QED
      BY <3>1, <3>2 DEF Requests
  <2> HIDE DEF F
  <2>3. req' \in [Clients -> Requests]
    BY <2>1, <2>2, IdleOK
  <2>4. ASSUME NEW x \in Clients PROVE CallOK(req[x])'
    <3>1. CASE x = c
      BY <2>1, <3>1, LengthsGrow DEF CallOK, Idle
    <3>2. CASE x # c
      <4>1. req'[x] = F(x)
        BY <2>1, <3>2
      <4>2. CallOK(req[x])
        BY CallFacts
      <4>3. /\ req'[x].op = req[x].op /\ req'[x].pc = req[x].pc /\ req'[x].arg = req[x].arg
            /\ req'[x].tok = req[x].tok /\ req'[x].view = req[x].view /\ req'[x].i = req[x].i
        BY <2>2, <4>1
      <4> QED
        BY <4>2, <4>3, RangesGrow DEF CallOK
    <3> QED
      BY <3>1, <3>2
  <2> QED
    BY <2>3, <2>4 DEF ReqType
<1>27. ASSUME NEW c \in Clients, Subscribe(c) PROVE ReqType'
  BY <1>27, AnsweredKept DEF Subscribe
<1>28. ASSUME NEW c \in Clients, NEW tok \in tokens, SyncEvents(c, tok) PROVE ReqType'
  <2>1. tok \in Tokens
    BY DEF SvType, AuthType
  <2> DEFINE r == req'[c]
  <2>2. /\ req' \in [Clients -> Requests]
        /\ \A d \in Clients : d # c => req'[d] = req[d]
        /\ r.op = "events" /\ r.pc = "tenant" /\ r.tok = {tok} /\ r.i = Idle.i
    BY <1>28, <2>1, ReqIs, IdleOK DEF SyncEvents, Requests, Ops, Pcs
  <2>3. Idle.i = 0
    BY DEF Idle
  <2> QED
    BY <2>1, <2>2, <2>3, RangesGrow, OneKept DEF CallOK
<1>29. ASSUME NEW c \in Clients, NEW tok \in tokens, NEW A \in SUBSET Admins,
              UpdateConfig(c, tok, A)
       PROVE  ReqType'
  <2>1. tok \in Tokens /\ A \subseteq Admins /\ A \subseteq Things
    BY DEF SvType, AuthType, Things, Principals
  <2> DEFINE r == [Idle EXCEPT !.op = "config", !.pc = "write", !.arg = A, !.tok = {tok}]
  <2>2. r \in Requests
    BY <2>1, IdleOK DEF Requests, Ops, Pcs
  <2>3. r.op = "config" /\ r.pc = "write" /\ r.arg = A /\ r.tok = {tok} /\ r.i = 0
    BY DEF Idle
  <2>4. req' = [req EXCEPT ![c] = r]
    BY <1>29 DEF UpdateConfig
  <2> HIDE DEF r
  <2>5. /\ req' \in [Clients -> Requests] /\ req'[c] = r
        /\ \A d \in Clients : d # c => req'[d] = req[d]
    BY <2>2, <2>4, OneRequest
  <2> QED
    BY <2>1, <2>3, <2>5, RangesGrow, OneKept DEF CallOK
<1>30. ASSUME NEW c \in Clients, ReloadConfig(c) PROVE ReqType'
  BY <1>30, AnsweredKept DEF ReloadConfig
<1>31. CASE Restart
  <2>1. req' = [c \in Clients |-> Idle]
    BY <1>31 DEF Restart, Lost
  <2> QED
    BY <2>1, IdleOK, LengthsGrow DEF ReqType, CallOK, Idle
<1>32. CASE CrashInSave
  <2>1. req' = [c \in Clients |-> Idle]
    BY <1>32 DEF CrashInSave, Lost
  <2> QED
    BY <2>1, IdleOK, LengthsGrow DEF ReqType, CallOK, Idle
<1> QED
  BY <1>1, <1>2, <1>3, <1>4, <1>5, <1>6, <1>7, <1>8, <1>9, <1>10, <1>11, <1>12, <1>13, <1>14,
     <1>15, <1>16, <1>17, <1>18, <1>19, <1>20, <1>21, <1>22, <1>23, <1>24, <1>25, <1>26,
     <1>27, <1>28, <1>29, <1>30, <1>31, <1>32, Zenon

(* The shape of the state is kept by every step.                            *)
LEMMA TypeKept ==
    ASSUME SvType, HearPart, [Next]_vars
    PROVE  SvType'
BY FilesKept, InstKept, MemKept, AuthKept, PurgeKept, SyncKept, HearKept, HistKept, BudgetKept,
   ReqKept
   DEF SvType


-------------------------------------------------------------------------------
(* What a step does to one handler: it may lose `late`, answer, arrive, or  *)
(* go on, carrying what it arrived with.                                    *)
Stays(d) ==
  /\ req'[d].op = req[d].op /\ req'[d].pc = req[d].pc /\ req'[d].i = req[d].i
  /\ req'[d].arg = req[d].arg /\ req'[d].view = req[d].view /\ req'[d].tok = req[d].tok
  /\ req'[d].live = req[d].live /\ req'[d].before = req[d].before
  /\ req'[d].late => req[d].late
Carries(d) ==
  /\ req'[d].op = req[d].op /\ req'[d].arg = req[d].arg /\ req'[d].tok = req[d].tok
  /\ req'[d].late = req[d].late /\ req'[d].before = req[d].before
Comes(d) ==
  /\ ~req'[d].late /\ req'[d].pc \in {"config", "bagLoad", "tenant", "gate"}
  /\ req'[d].op \in {"register", "remove", "challenge", "auth", "dir", "events"}
Begins(d) ==
  \/ \E tok \in tokens, A \in SUBSET Admins : UpdateConfig(d, tok, A)
  \/ \E tok \in tokens, E \in budget.batches : PutEntries(d, tok, E)
GoesOn(d) ==
  \/ req'[d].pc \in {"compare", "bagLoad"} /\ RegisterConfig(d)
  \/ req'[d].pc = "loading"
  \/ req'[d].pc = "bagSave" /\ LoadServerKeyBag(d)
  \/ req'[d].pc = "gate" /\ (GetTenant(d) \/ LoadTenant(d))
  \/ req'[d].pc = "verify" /\ ClaimChallenge(d)
  \/ req'[d].pc = "issue" /\ req[d].pc = "verify"
  \/ req'[d].pc = "denylist" /\ PutGate(d) /\ req'[d].i = req[d].i
  \/ req'[d].pc = "check" /\ PutDenylist(d)
  \/ req'[d].pc = "store" /\ PutCheck(d)
CallStep(d) ==
  Stays(d) \/ req'[d] = Idle \/ Comes(d) \/ Begins(d) \/ (Carries(d) /\ GoesOn(d))

LEMMA OthersStay ==
    ASSUME SvType, NEW c \in Clients, \A d \in Clients : d # c => req'[d] = req[d], CallStep(c)
    PROVE  \A d \in Clients : CallStep(d)
BY DEF CallStep, Stays

LEMMA AnsweredStep ==
    ASSUME SvType, NEW c \in Clients, Answered(c)
    PROVE  \A d \in Clients : CallStep(d)
<1>1. req'[c] = Idle /\ \A d \in Clients : d # c => req'[d] = req[d]
  BY ReqIs DEF Answered
<1> QED
  BY <1>1, OthersStay DEF CallStep

LEMMA GotoStep ==
    ASSUME SvType, NEW c \in Clients, NEW pc, req' = Goto(c, pc)
    PROVE  /\ \A d \in Clients : d # c => req'[d] = req[d]
           /\ Carries(c) /\ req'[c].pc = pc /\ req'[c].i = req[c].i
<1>1. req[c] \in Requests
  BY CallFacts
<1>2. \A d \in Clients : d # c => req'[d] = req[d]
  BY ReqIs DEF Goto
<1>3. req'[c] = [req[c] EXCEPT !.pc = pc]
  BY ReqIs DEF Goto
<1> QED
  BY <1>1, <1>2, <1>3 DEF Carries, Requests

LEMMA ArriveStep ==
    ASSUME SvType, NEW c \in Clients, NEW op \in Ops, NEW pc \in Pcs, NEW arg \in SUBSET Things,
           Arrive(c, op, pc, arg)
    PROVE  /\ \A d \in Clients : d # c => req'[d] = req[d]
           /\ req'[c] = Arriving(op, pc, arg)
BY ReqIs DEF Arrive, Arriving

LEMMA CallSteps ==
    ASSUME SvType, [Next]_vars
    PROVE  \A d \in Clients : CallStep(d)
<1>1. \/ UNCHANGED req
      \/ \E c \in Clients, t \in Tenants : RegisterTenant(c, t)
      \/ \E c \in Clients : RegisterConfig(c)
      \/ \E c \in Clients : RegisterCompare(c)
      \/ \E c \in Clients : LoadServerKeyBag(c)
      \/ \E c \in Clients : PersistTenantPublicInfosKey(c)
      \/ \E c \in Clients : PersistFailed(c)
      \/ \E c \in Clients, t \in Tenants : RemoveTenant(c, t)
      \/ \E c \in Clients : RemoveTenantFiles(c)
      \/ \E c \in Clients : GetTenant(c)
      \/ \E c \in Clients : LoadTenantStart(c)
      \/ \E c \in Clients : LoadTenant(c)
      \/ \E c \in Clients, k \in Keys : Challenge(c, k)
      \/ \E c \in Clients : GenerateChallenge(c)
      \/ \E c \in Clients, n \in DOMAIN tickets : Authenticate(c, n)
      \/ \E c \in Clients : ClaimChallenge(c)
      \/ \E c \in Clients : VerifySignature(c)
      \/ \E c \in Clients : GenerateToken(c)
      \/ \E c \in Clients, tok \in tokens, E \in budget.batches : PutEntries(c, tok, E)
      \/ \E c \in Clients : PutGate(c)
      \/ \E c \in Clients : PutDenylist(c)
      \/ \E c \in Clients : PutCheck(c)
      \/ \E c \in Clients : PutStore(c)
      \/ \E c \in Clients, ch \in GrantChanges \cup PurgeChanges : PushDirectory(c, ch)
      \/ \E c \in Clients : PushDirectoryStore(c)
      \/ \E c \in Clients : Subscribe(c)
      \/ \E c \in Clients, tok \in tokens : SyncEvents(c, tok)
      \/ \E c \in Clients, tok \in tokens, A \in SUBSET Admins : UpdateConfig(c, tok, A)
      \/ \E c \in Clients : ReloadConfig(c)
      \/ Restart
      \/ CrashInSave
  <2>1. CASE Registration
    BY <2>1, Zenon DEF Registration
  <2>2. CASE Loading
    BY <2>2, Zenon DEF Loading
  <2>3. CASE LoadInBackground
    BY <2>3, Zenon DEF LoadInBackground
  <2>4. CASE Authentication
    BY <2>4, Zenon DEF Authentication, SystemChallenge, ChallengeExpires
  <2>5. CASE Pushing
    BY <2>5, Zenon DEF Pushing
  <2>6. CASE Purging
    BY <2>6, Zenon
      DEF Purging, PurgeRead, PurgeDocHistory, PurgeDocHistoryFails, MarkRequestProcessed,
         PurgeRequest, RecordPurgedDoc
  <2>7. CASE Events
    BY <2>7, Zenon DEF Events, Disconnect, PublishEvent
  <2>8. CASE Configuring
    BY <2>8, Zenon DEF Configuring, UpdateTenantConfig
  <2>9. CASE ServerSyncStart
    BY <2>9, Zenon DEF ServerSyncStart
  <2>10. CASE ServerSyncScan
    BY <2>10, Zenon DEF ServerSyncScan
  <2>11. CASE ServerSyncPut
    BY <2>11, Zenon DEF ServerSyncPut
  <2>12. CASE UNCHANGED vars
    BY <2>12, Zenon DEF vars
  <2> QED
    BY <2>1, <2>2, <2>3, <2>4, <2>5, <2>6, <2>7, <2>8, <2>9, <2>10, <2>11, <2>12, Zenon
      DEF Next
<1>2. CASE UNCHANGED req
  BY <1>2 DEF CallStep, Stays
<1>3. ASSUME NEW c \in Clients, NEW t \in Tenants,
             RegisterTenant(c, t)
      PROVE  \A d \in Clients : CallStep(d)
  <2>1. "register" \in Ops /\ "config" \in Pcs /\ {t} \in SUBSET Things
    BY DEF Ops, Pcs, Things
  <2>2. Arrive(c, "register", "config", {t})
    BY <1>3 DEF RegisterTenant
  <2>3. Comes(c)
    BY <2>1, <2>2, ArriveStep, ArrivingFacts DEF Comes
  <2> QED
    BY <2>1, <2>2, <2>3, ArriveStep, OthersStay DEF CallStep
<1>4. ASSUME NEW c \in Clients, RegisterConfig(c) PROVE \A d \in Clients : CallStep(d)
  <2>1. CASE req' = Goto(c, "compare")
    <3>1. /\ \A d \in Clients : d # c => req'[d] = req[d]
          /\ Carries(c) /\ req'[c].pc = "compare" /\ req'[c].i = req[c].i
      BY <2>1, GotoStep
    <3>2. GoesOn(c)
      BY <1>4, <3>1 DEF GoesOn
    <3> QED
      BY <3>1, <3>2, OthersStay DEF CallStep
  <2>2. CASE req' = Goto(c, "bagLoad")
    <3>1. /\ \A d \in Clients : d # c => req'[d] = req[d]
          /\ Carries(c) /\ req'[c].pc = "bagLoad" /\ req'[c].i = req[c].i
      BY <2>2, GotoStep
    <3>2. GoesOn(c)
      BY <1>4, <3>1 DEF GoesOn
    <3> QED
      BY <3>1, <3>2, OthersStay DEF CallStep
  <2> QED
    BY <1>4, <2>1, <2>2 DEF RegisterConfig
<1>5. ASSUME NEW c \in Clients, RegisterCompare(c) PROVE \A d \in Clients : CallStep(d)
  BY <1>5, AnsweredStep DEF RegisterCompare
<1>6. ASSUME NEW c \in Clients, LoadServerKeyBag(c) PROVE \A d \in Clients : CallStep(d)
  <2>1. req' = [req EXCEPT ![c].pc = "bagSave", ![c].view = files.bag]
    BY <1>6 DEF LoadServerKeyBag
  <2>2. \A d \in Clients : d # c => req'[d] = req[d]
    BY <2>1, ReqIs
  <2>3. Carries(c) /\ req'[c].pc = "bagSave"
    <3>1. req[c] \in Requests
      BY CallFacts
    <3>2. req'[c] = [req[c] EXCEPT !.pc = "bagSave", !.view = files.bag]
      BY <2>1, ReqIs
    <3> QED
      BY <3>1, <3>2 DEF Carries, Requests
  <2>4. GoesOn(c)
    BY <1>6, <2>3 DEF GoesOn
  <2> QED
    BY <2>2, <2>3, <2>4, OthersStay DEF CallStep
<1>7. ASSUME NEW c \in Clients,
             PersistTenantPublicInfosKey(c)
      PROVE  \A d \in Clients : CallStep(d)
  BY <1>7, AnsweredStep DEF PersistTenantPublicInfosKey
<1>8. ASSUME NEW c \in Clients, PersistFailed(c) PROVE \A d \in Clients : CallStep(d)
  BY <1>8, AnsweredStep DEF PersistFailed
<1>9. ASSUME NEW c \in Clients, NEW t \in Tenants,
             RemoveTenant(c, t)
      PROVE  \A d \in Clients : CallStep(d)
  <2>1. "remove" \in Ops /\ "bagLoad" \in Pcs /\ {t} \in SUBSET Things
    BY DEF Ops, Pcs, Things
  <2>2. Arrive(c, "remove", "bagLoad", {t})
    BY <1>9 DEF RemoveTenant
  <2>3. Comes(c)
    BY <2>1, <2>2, ArriveStep, ArrivingFacts DEF Comes
  <2> QED
    BY <2>1, <2>2, <2>3, ArriveStep, OthersStay DEF CallStep
<1>10. ASSUME NEW c \in Clients, RemoveTenantFiles(c) PROVE \A d \in Clients : CallStep(d)
  BY <1>10, AnsweredStep DEF RemoveTenantFiles
<1>11. ASSUME NEW c \in Clients, GetTenant(c) PROVE \A d \in Clients : CallStep(d)
  <2>1. req' = [req EXCEPT ![c].pc = "gate", ![c].i = mem.loaded[Main]]
    BY <1>11 DEF GetTenant
  <2>2. \A d \in Clients : d # c => req'[d] = req[d]
    BY <2>1, ReqIs
  <2>3. Carries(c) /\ req'[c].pc = "gate"
    <3>1. req[c] \in Requests
      BY CallFacts
    <3>2. req'[c] = [req[c] EXCEPT !.pc = "gate", !.i = mem.loaded[Main]]
      BY <2>1, ReqIs
    <3> QED
      BY <3>1, <3>2 DEF Carries, Requests
  <2>4. GoesOn(c)
    BY <1>11, <2>3 DEF GoesOn
  <2> QED
    BY <2>2, <2>3, <2>4, OthersStay DEF CallStep
<1>12. ASSUME NEW c \in Clients, LoadTenantStart(c) PROVE \A d \in Clients : CallStep(d)
  <2>1. CASE req' = Goto(c, "loading")
    <3>1. /\ \A d \in Clients : d # c => req'[d] = req[d]
          /\ Carries(c) /\ req'[c].pc = "loading" /\ req'[c].i = req[c].i
      BY <2>1, GotoStep
    <3>2. GoesOn(c)
      BY <1>12, <3>1 DEF GoesOn
    <3> QED
      BY <3>1, <3>2, OthersStay DEF CallStep
  <2> QED
    BY <1>12, <2>1 DEF LoadTenantStart
<1>13. ASSUME NEW c \in Clients, LoadTenant(c) PROVE \A d \in Clients : CallStep(d)
  <2>1. req' = [req EXCEPT ![c].pc = "gate", ![c].i = Len(inst) + 1]
    BY <1>13 DEF LoadTenant
  <2>2. \A d \in Clients : d # c => req'[d] = req[d]
    BY <2>1, ReqIs
  <2>3. Carries(c) /\ req'[c].pc = "gate"
    <3>1. req[c] \in Requests
      BY CallFacts
    <3>2. req'[c] = [req[c] EXCEPT !.pc = "gate", !.i = Len(inst) + 1]
      BY <2>1, ReqIs
    <3> QED
      BY <3>1, <3>2 DEF Carries, Requests
  <2>4. GoesOn(c)
    BY <1>13, <2>3 DEF GoesOn
  <2> QED
    BY <2>2, <2>3, <2>4, OthersStay DEF CallStep
<1>14. ASSUME NEW c \in Clients, NEW k \in Keys,
              Challenge(c, k)
       PROVE  \A d \in Clients : CallStep(d)
  <2>1. "challenge" \in Ops /\ "tenant" \in Pcs /\ {k} \in SUBSET Things
    BY DEF Ops, Pcs, Things, Principals
  <2>2. Arrive(c, "challenge", "tenant", {k})
    BY <1>14 DEF Challenge
  <2>3. Comes(c)
    BY <2>1, <2>2, ArriveStep, ArrivingFacts DEF Comes
  <2> QED
    BY <2>1, <2>2, <2>3, ArriveStep, OthersStay DEF CallStep
<1>15. ASSUME NEW c \in Clients, GenerateChallenge(c) PROVE \A d \in Clients : CallStep(d)
  BY <1>15, AnsweredStep DEF GenerateChallenge
<1>16. ASSUME NEW c \in Clients, NEW n \in DOMAIN tickets,
              Authenticate(c, n)
       PROVE  \A d \in Clients : CallStep(d)
  <2> DEFINE pc == IF tickets[n].svc = System THEN "gate" ELSE "tenant"
  <2>1. "auth" \in Ops /\ pc \in Pcs /\ {n} \in SUBSET Things
    BY DEF Ops, Pcs, Things, SvType, AuthType
  <2>2. Arrive(c, "auth", pc, {n}) /\ pc \in {"gate", "tenant"}
    BY <1>16 DEF Authenticate
  <2> HIDE DEF pc
  <2>3. Comes(c)
    BY <2>1, <2>2, ArriveStep, ArrivingFacts DEF Comes
  <2> QED
    BY <2>1, <2>2, <2>3, ArriveStep, OthersStay DEF CallStep
<1>17. ASSUME NEW c \in Clients, ClaimChallenge(c) PROVE \A d \in Clients : CallStep(d)
  <2>1. CASE Answered(c)
    BY <2>1, AnsweredStep
  <2>2. CASE req' = Goto(c, "verify")
    <3>1. /\ \A d \in Clients : d # c => req'[d] = req[d]
          /\ Carries(c) /\ req'[c].pc = "verify" /\ req'[c].i = req[c].i
      BY <2>2, GotoStep
    <3>2. GoesOn(c)
      BY <1>17, <3>1 DEF GoesOn
    <3> QED
      BY <3>1, <3>2, OthersStay DEF CallStep
  <2> QED
    BY <1>17, <2>1, <2>2 DEF ClaimChallenge
<1>18. ASSUME NEW c \in Clients, VerifySignature(c) PROVE \A d \in Clients : CallStep(d)
  <2>1. CASE Answered(c)
    BY <2>1, AnsweredStep
  <2>2. CASE req' = Goto(c, "issue")
    <3>1. /\ \A d \in Clients : d # c => req'[d] = req[d]
          /\ Carries(c) /\ req'[c].pc = "issue" /\ req'[c].i = req[c].i
      BY <2>2, GotoStep
    <3>2. GoesOn(c)
      BY <1>18, <3>1 DEF GoesOn, VerifySignature, In
    <3> QED
      BY <3>1, <3>2, OthersStay DEF CallStep
  <2> QED
    BY <1>18, <2>1, <2>2 DEF VerifySignature
<1>19. ASSUME NEW c \in Clients, GenerateToken(c) PROVE \A d \in Clients : CallStep(d)
  BY <1>19, AnsweredStep DEF GenerateToken
<1>20. ASSUME NEW c \in Clients, NEW tok \in tokens, NEW E \in budget.batches,
              PutEntries(c, tok, E)
       PROVE  \A d \in Clients : CallStep(d)
  <2>1. Begins(c)
    BY <1>20 DEF Begins
  <2>2. \A d \in Clients : d # c => req'[d] = req[d]
    BY <1>20, ReqIs DEF PutEntries
  <2> QED
    BY <2>1, <2>2, OthersStay DEF CallStep
<1>21. ASSUME NEW c \in Clients, PutGate(c) PROVE \A d \in Clients : CallStep(d)
  <2>1. CASE Answered(c)
    BY <2>1, AnsweredStep
  <2>2. CASE req' = Goto(c, "denylist")
    <3>1. /\ \A d \in Clients : d # c => req'[d] = req[d]
          /\ Carries(c) /\ req'[c].pc = "denylist" /\ req'[c].i = req[c].i
      BY <2>2, GotoStep
    <3>2. GoesOn(c)
      BY <1>21, <3>1 DEF GoesOn
    <3> QED
      BY <3>1, <3>2, OthersStay DEF CallStep
  <2> QED
    BY <1>21, <2>1, <2>2 DEF PutGate
<1>22. ASSUME NEW c \in Clients, PutDenylist(c) PROVE \A d \in Clients : CallStep(d)
  <2>1. req' = [req EXCEPT ![c].pc = "check", ![c].live = (mem.denied # {})]
    BY <1>22 DEF PutDenylist
  <2>2. \A d \in Clients : d # c => req'[d] = req[d]
    BY <2>1, ReqIs
  <2>3. Carries(c) /\ req'[c].pc = "check"
    <3>1. req[c] \in Requests
      BY CallFacts
    <3>2. req'[c] = [req[c] EXCEPT !.pc = "check", !.live = (mem.denied # {})]
      BY <2>1, ReqIs
    <3> QED
      BY <3>1, <3>2 DEF Carries, Requests
  <2>4. GoesOn(c)
    BY <1>22, <2>3 DEF GoesOn
  <2> QED
    BY <2>2, <2>3, <2>4, OthersStay DEF CallStep
<1>23. ASSUME NEW c \in Clients, PutCheck(c) PROVE \A d \in Clients : CallStep(d)
  <2>1. CASE Answered(c)
    BY <2>1, AnsweredStep
  <2>2. CASE req' = [req EXCEPT ![c].pc = "store", ![c].view = Storable(c)]
    <3>1. req' = [req EXCEPT ![c].pc = "store", ![c].view = Storable(c)]
      BY <2>2
    <3>2. \A d \in Clients : d # c => req'[d] = req[d]
      BY <3>1, ReqIs
    <3>3. Carries(c) /\ req'[c].pc = "store"
      <4>1. req[c] \in Requests
        BY CallFacts
      <4>2. req'[c] = [req[c] EXCEPT !.pc = "store", !.view = Storable(c)]
        BY <3>1, ReqIs
      <4> QED
        BY <4>1, <4>2 DEF Carries, Requests
    <3>4. GoesOn(c)
      BY <1>23, <3>3 DEF GoesOn
    <3> QED
      BY <3>2, <3>3, <3>4, OthersStay DEF CallStep
  <2> QED
    BY <1>23, <2>1, <2>2 DEF PutCheck
<1>24. ASSUME NEW c \in Clients, PutStore(c) PROVE \A d \in Clients : CallStep(d)
  BY <1>24, AnsweredStep DEF PutStore
<1>25. ASSUME NEW c \in Clients, NEW ch \in GrantChanges \cup PurgeChanges,
              PushDirectory(c, ch)
       PROVE  \A d \in Clients : CallStep(d)
  <2>1. "dir" \in Ops /\ "tenant" \in Pcs /\ {ch} \in SUBSET Things
    BY DEF Ops, Pcs, Things
  <2>2. Arrive(c, "dir", "tenant", {ch})
    BY <1>25 DEF PushDirectory
  <2>3. Comes(c)
    BY <2>1, <2>2, ArriveStep, ArrivingFacts DEF Comes
  <2> QED
    BY <2>1, <2>2, <2>3, ArriveStep, OthersStay DEF CallStep
<1>26. ASSUME NEW c \in Clients, PushDirectoryStore(c) PROVE \A d \in Clients : CallStep(d)
  <2> DEFINE b(x) == req[x].late /\ files'.dir.grant[Token(x).key] # "active"
  <2>1. req' = [x \in Clients |-> IF x = c THEN Idle ELSE [req[x] EXCEPT !.late = b(x)]]
    BY <1>26 DEF PushDirectoryStore
  <2>2. req'[c] = Idle
    BY <2>1
  <2>3. ASSUME NEW d \in Clients, d # c PROVE Stays(d)
    <3>1. req'[d] = [req[d] EXCEPT !.late = b(d)]
      BY <2>1, <2>3
    <3>2. b(d) => req[d].late
      OBVIOUS
    <3> HIDE DEF b
    <3> QED
      BY <3>1, <3>2, CallFacts DEF Stays, Requests
  <2> QED
    BY <2>2, <2>3 DEF CallStep
<1>27. ASSUME NEW c \in Clients, Subscribe(c) PROVE \A d \in Clients : CallStep(d)
  BY <1>27, AnsweredStep DEF Subscribe
<1>28. ASSUME NEW c \in Clients, NEW tok \in tokens,
              SyncEvents(c, tok)
       PROVE  \A d \in Clients : CallStep(d)
  <2>1. /\ \A d \in Clients : d # c => req'[d] = req[d]
        /\ req'[c] = [Idle EXCEPT !.op = "events", !.pc = "tenant", !.tok = {tok}]
    BY <1>28, ReqIs DEF SyncEvents
  <2>2. Idle.late = FALSE
    BY DEF Idle
  <2>3. Comes(c)
    BY <2>1, <2>2, IdleOK DEF Comes, Requests
  <2> QED
    BY <2>1, <2>3, OthersStay DEF CallStep
<1>29. ASSUME NEW c \in Clients, NEW tok \in tokens, NEW A \in SUBSET Admins,
              UpdateConfig(c, tok, A)
       PROVE  \A d \in Clients : CallStep(d)
  <2>1. Begins(c)
    BY <1>29 DEF Begins
  <2>2. \A d \in Clients : d # c => req'[d] = req[d]
    BY <1>29, ReqIs DEF UpdateConfig
  <2> QED
    BY <2>1, <2>2, OthersStay DEF CallStep
<1>30. ASSUME NEW c \in Clients, ReloadConfig(c) PROVE \A d \in Clients : CallStep(d)
  BY <1>30, AnsweredStep DEF ReloadConfig
<1>31. CASE Restart
  <2>1. req' = [c \in Clients |-> Idle]
    BY <1>31 DEF Restart, Lost
  <2> QED
    BY <2>1 DEF CallStep
<1>32. CASE CrashInSave
  <2>1. req' = [c \in Clients |-> Idle]
    BY <1>32 DEF CrashInSave, Lost
  <2> QED
    BY <2>1 DEF CallStep
<1> QED
  BY <1>1, <1>2, <1>3, <1>4, <1>5, <1>6, <1>7, <1>8, <1>9, <1>10, <1>11, <1>12, <1>13, <1>14,
     <1>15, <1>16, <1>17, <1>18, <1>19, <1>20, <1>21, <1>22, <1>23, <1>24, <1>25, <1>26,
     <1>27, <1>28, <1>29, <1>30, <1>31, <1>32, Zenon


-------------------------------------------------------------------------------
(* The configuration: what a handler is about to write names its caller.    *)
LEMMA BeginsPush ==
    ASSUME SvType, NEW d \in Clients, NEW tok \in tokens, NEW E \in budget.batches,
           PutEntries(d, tok, E)
    PROVE  /\ req'[d].op = "push" /\ req'[d].pc = "tenant" /\ req'[d].arg = E
           /\ req'[d].tok = {tok} /\ req'[d].before = mem.denied
           /\ req'[d].late = (files.dir.grant[tok.key] # "active")
<1>1. Idle \in Requests
  BY IdleOK
<1> DEFINE late == files.dir.grant[tok.key] # "active"
<1>2. req'[d] = [Idle EXCEPT !.op = "push", !.pc = "tenant", !.arg = E, !.tok = {tok},
                             !.before = mem.denied, !.late = late]
  BY ReqIs DEF PutEntries
<1> HIDE DEF late
<1>3. /\ req'[d].op = "push" /\ req'[d].pc = "tenant" /\ req'[d].arg = E
      /\ req'[d].tok = {tok} /\ req'[d].before = mem.denied /\ req'[d].late = late
  BY <1>1, <1>2 DEF Requests
<1> QED
  BY <1>3 DEF late

LEMMA BeginsConfig ==
    ASSUME SvType, NEW d \in Clients, NEW tok \in tokens, NEW A \in SUBSET Admins,
           UpdateConfig(d, tok, A)
    PROVE  /\ req'[d].op = "config" /\ req'[d].pc = "write" /\ req'[d].arg = A
           /\ ~req'[d].late /\ A # {}
<1>1. Idle \in Requests /\ Idle.late = FALSE
  BY IdleOK DEF Idle
<1>2. req'[d] = [Idle EXCEPT !.op = "config", !.pc = "write", !.arg = A, !.tok = {tok}]
  BY ReqIs DEF UpdateConfig
<1>3. A # {}
  BY DEF UpdateConfig
<1> QED
  BY <1>1, <1>2, <1>3 DEF Requests

LEMMA ConfigCalls ==
    ASSUME SvType, AdminPart, [Next]_vars, NEW c \in Clients, req'[c].op = "config"
    PROVE  req'[c].arg # {}
<1>1. CASE Stays(c) \/ Carries(c)
  BY <1>1 DEF Stays, Carries, AdminPart
<1>2. CASE req'[c] = Idle
  BY <1>2 DEF Idle
<1>3. CASE Comes(c)
  BY <1>3 DEF Comes
<1>4. CASE Begins(c)
  BY <1>4, BeginsPush, BeginsConfig DEF Begins
<1> QED
  BY <1>1, <1>2, <1>3, <1>4, CallSteps DEF CallStep

LEMMA AdminKept ==
    ASSUME SvType, AdminPart, [Next]_vars
    PROVE  AdminPart'
<1>1. \/ UNCHANGED <<files, mem>>
      \/ \E c \in Clients : RegisterConfig(c)
      \/ \E c \in Clients : PersistTenantPublicInfosKey(c)
      \/ \E c \in Clients : PersistFailed(c)
      \/ \E c \in Clients, t \in Tenants : RemoveTenant(c, t)
      \/ \E c \in Clients : RemoveTenantFiles(c)
      \/ \E c \in Clients : LoadTenant(c)
      \/ LoadInBackground
      \/ \E c \in Clients : PutStore(c)
      \/ \E c \in Clients : PushDirectoryStore(c)
      \/ PurgeDocHistory
      \/ MarkRequestProcessed
      \/ \E d \in Docs : RecordPurgedDoc(d)
      \/ \E c \in Clients : ReloadConfig(c)
      \/ \E t \in Tenants : UpdateTenantConfig(t)
      \/ ServerSyncPut
      \/ Restart
      \/ CrashInSave
  <2>1. CASE Registration
    BY <2>1, Zenon DEF Registration, RegisterTenant, RegisterCompare, LoadServerKeyBag
  <2>2. CASE Loading
    BY <2>2, Zenon DEF Loading, GetTenant, LoadTenantStart
  <2>3. CASE Authentication
    BY <2>3, Zenon
      DEF Authentication, Challenge, GenerateChallenge, Authenticate, ClaimChallenge,
         VerifySignature, GenerateToken, SystemChallenge, ChallengeExpires
  <2>4. CASE Pushing
    BY <2>4, Zenon DEF Pushing, PutEntries, PutGate, PutDenylist, PutCheck, PushDirectory
  <2>5. CASE Purging
    BY <2>5, Zenon DEF Purging, PurgeRead, PurgeDocHistoryFails, PurgeRequest
  <2>6. CASE Events
    BY <2>6, Zenon DEF Events, Subscribe, Disconnect, SyncEvents, PublishEvent
  <2>7. CASE Configuring
    BY <2>7, Zenon DEF Configuring, UpdateConfig
  <2>8. CASE ServerSyncStart
    BY <2>8, Zenon DEF ServerSyncStart
  <2>9. CASE ServerSyncScan
    BY <2>9, Zenon DEF ServerSyncScan
  <2>10. CASE UNCHANGED vars
    BY <2>10, Zenon DEF vars
  <2> QED
    BY <2>1, <2>2, <2>3, <2>4, <2>5, <2>6, <2>7, <2>8, <2>9, <2>10, Zenon DEF Next
<1>2. CASE UNCHANGED <<files, mem>>
  BY <1>2, ConfigCalls DEF AdminPart, SomeAdmin
<1>3. ASSUME NEW c \in Clients, RegisterConfig(c) PROVE AdminPart'
  <2>1. mem'.admins = mem.admins /\ files'.admins = files.admins
    BY <1>3 DEF RegisterConfig, SvType, FilesType, MemType, Memories
  <2> QED
    BY <2>1, ConfigCalls DEF AdminPart, SomeAdmin
<1>4. ASSUME NEW c \in Clients, PersistTenantPublicInfosKey(c) PROVE AdminPart'
  <2>1. mem'.admins = mem.admins /\ files'.admins = files.admins
    BY <1>4 DEF PersistTenantPublicInfosKey, SvType, FilesType, MemType, Memories
  <2> QED
    BY <2>1, ConfigCalls DEF AdminPart, SomeAdmin
<1>5. ASSUME NEW c \in Clients, PersistFailed(c) PROVE AdminPart'
  <2>1. mem'.admins = mem.admins /\ files'.admins = files.admins
    BY <1>5 DEF PersistFailed, SvType, FilesType, MemType, Memories
  <2> QED
    BY <2>1, ConfigCalls DEF AdminPart, SomeAdmin
<1>6. ASSUME NEW c \in Clients, NEW t \in Tenants, RemoveTenant(c, t) PROVE AdminPart'
  <2>1. mem' = Caching(mem, t, 0) /\ files' = files /\ t \in Tenants /\ 0 \in Nat
    BY <1>6, ServerAssumption DEF RemoveTenant, Caching, SvType
  <2> QED
    BY <2>1, SetLoaded, ConfigCalls DEF AdminPart, SomeAdmin, SvType
<1>7. ASSUME NEW c \in Clients, RemoveTenantFiles(c) PROVE AdminPart'
  <2>1. mem'.admins = mem.admins /\ files'.admins = files.admins
    BY <1>7 DEF RemoveTenantFiles, SvType, FilesType, MemType, Memories
  <2> QED
    BY <2>1, ConfigCalls DEF AdminPart, SomeAdmin
<1>8. ASSUME NEW c \in Clients, LoadTenant(c) PROVE AdminPart'
  <2>1. mem' = Caching(mem, Main, (Len(inst) + 1)) /\ files' = files /\ Main \in Tenants /\ (Len(inst) + 1) \in Nat
    BY <1>8, ServerAssumption DEF LoadTenant, Caching, SvType
  <2> QED
    BY <2>1, SetLoaded, ConfigCalls DEF AdminPart, SomeAdmin, SvType
<1>9. CASE LoadInBackground
  <2>1. mem' = Caching(mem, Main, (Len(inst) + 1)) /\ files' = files /\ Main \in Tenants /\ (Len(inst) + 1) \in Nat
    BY <1>9, ServerAssumption DEF LoadInBackground, Caching, SvType
  <2> QED
    BY <2>1, SetLoaded, ConfigCalls DEF AdminPart, SomeAdmin, SvType
<1>10. ASSUME NEW c \in Clients, PutStore(c) PROVE AdminPart'
  <2>1. mem'.admins = mem.admins /\ files'.admins = files.admins
    BY <1>10 DEF PutStore, SvType, FilesType, MemType, Memories
  <2> QED
    BY <2>1, ConfigCalls DEF AdminPart, SomeAdmin
<1>11. ASSUME NEW c \in Clients, PushDirectoryStore(c) PROVE AdminPart'
  <2>1. mem'.admins = mem.admins /\ files'.admins = files.admins
    BY <1>11 DEF PushDirectoryStore, SvType, FilesType, MemType, Memories
  <2> QED
    BY <2>1, ConfigCalls DEF AdminPart, SomeAdmin
<1>12. CASE PurgeDocHistory
  <2>1. mem'.admins = mem.admins /\ files'.admins = files.admins
    BY <1>12 DEF PurgeDocHistory, SvType, FilesType, MemType, Memories
  <2> QED
    BY <2>1, ConfigCalls DEF AdminPart, SomeAdmin
<1>13. CASE MarkRequestProcessed
  <2>1. mem'.admins = mem.admins /\ files'.admins = files.admins
    BY <1>13 DEF MarkRequestProcessed, SvType, FilesType, MemType, Memories
  <2> QED
    BY <2>1, ConfigCalls DEF AdminPart, SomeAdmin
<1>14. ASSUME NEW d \in Docs, RecordPurgedDoc(d) PROVE AdminPart'
  <2>1. mem'.admins = mem.admins /\ files'.admins = files.admins
    BY <1>14 DEF RecordPurgedDoc, SvType, FilesType, MemType, Memories
  <2> QED
    BY <2>1, ConfigCalls DEF AdminPart, SomeAdmin
<1>15. ASSUME NEW c \in Clients, ReloadConfig(c) PROVE AdminPart'
  <2>1. req[c].arg # {} /\ mem'.admins = req[c].arg /\ files'.admins = req[c].arg
    BY <1>15 DEF ReloadConfig, In, AdminPart, SvType, FilesType, MemType, Memories
  <2> QED
    BY <2>1, ConfigCalls DEF AdminPart, SomeAdmin
<1>16. ASSUME NEW t \in Tenants, UpdateTenantConfig(t) PROVE AdminPart'
  <2>1. mem' = Caching(mem, t, 0) /\ files' = files /\ t \in Tenants /\ 0 \in Nat
    BY <1>16, ServerAssumption DEF UpdateTenantConfig, Caching, SvType
  <2> QED
    BY <2>1, SetLoaded, ConfigCalls DEF AdminPart, SomeAdmin, SvType
<1>17. CASE ServerSyncPut
  <2>1. mem'.admins = mem.admins /\ files'.admins = files.admins
    BY <1>17 DEF ServerSyncPut, SvType, FilesType, MemType, Memories
  <2> QED
    BY <2>1, ConfigCalls DEF AdminPart, SomeAdmin
<1>18. CASE Restart
  <2>1. mem'.admins = files.admins /\ files'.admins = files.admins
    BY <1>18 DEF Restart, Restarted, SvType, FilesType, MemType, Memories
  <2> QED
    BY <2>1, ConfigCalls DEF AdminPart, SomeAdmin
<1>19. CASE CrashInSave
  <2>1. mem'.admins = files.admins /\ files'.admins = files.admins
    BY <1>19 DEF CrashInSave, Restarted, SvType, FilesType, MemType, Memories
  <2> QED
    BY <2>1, ConfigCalls DEF AdminPart, SomeAdmin
<1> QED
  BY <1>1, <1>2, <1>3, <1>4, <1>5, <1>6, <1>7, <1>8, <1>9, <1>10, <1>11, <1>12, <1>13, <1>14,
     <1>15, <1>16, <1>17, <1>18, <1>19, Zenon


-------------------------------------------------------------------------------
(* The key bag: who has it in hand, and whose copy is the file's.           *)
LEMMA BagCalls ==
    ASSUME SvType, [Next]_vars, NEW d \in Clients, req'[d].pc = "bagSave", ~LoadServerKeyBag(d)
    PROVE  req[d].pc = "bagSave" /\ req'[d].view = req[d].view
<1>1. CASE Stays(d)
  BY <1>1 DEF Stays
<1>2. CASE req'[d] = Idle
  BY <1>2 DEF Idle
<1>3. CASE Comes(d)
  BY <1>3 DEF Comes
<1>4. CASE Begins(d)
  BY <1>4, BeginsPush, BeginsConfig DEF Begins
<1>5. CASE GoesOn(d)
  BY <1>5 DEF GoesOn
<1> QED
  BY <1>1, <1>2, <1>3, <1>4, <1>5, CallSteps DEF CallStep

LEMMA BagLoaded ==
    ASSUME SvType, BagPart, NEW c \in Clients, LoadServerKeyBag(c)
    PROVE  BagPart'
<1>1. /\ \A d \in Clients : d # c => req'[d] = req[d]
      /\ files'.bag = files.bag /\ req'[c].view = files.bag
  <2>1. req' = [req EXCEPT ![c].pc = "bagSave", ![c].view = files.bag] /\ files' = files
    BY DEF LoadServerKeyBag
  <2>2. \A d \in Clients : d # c => req'[d] = req[d]
    BY <2>1, ReqIs
  <2>3. req'[c] = [req[c] EXCEPT !.pc = "bagSave", !.view = files.bag]
    BY <2>1, ReqIs
  <2>4. req'[c].view = files.bag
    BY <2>3, CallFacts DEF Requests
  <2> QED
    BY <2>1, <2>2, <2>4
<1>2. /\ hist'.created = hist.created
      /\ ~hist'.overlap => ~hist.overlap /\ BagUsers \ {c} = {}
  BY DEF LoadServerKeyBag, TakeBag, SvType, HistType
<1>3. ASSUME ~hist'.overlap, NEW d \in BagUsers' PROVE d = c
  BY <1>1, <1>2, <1>3 DEF BagUsers
<1> QED
  BY <1>1, <1>2, <1>3 DEF BagPart

(* The handler that writes the bag had it alone.                            *)
LEMMA BagAlone ==
    ASSUME SvType, BagPart, NEW c \in Clients, req[c].pc = "bagSave", Answered(c), ~hist.overlap
    PROVE  BagUsers' = {} /\ req[c].view = files.bag /\ hist.created \subseteq files.bag
<1>1. req'[c] = Idle /\ \A d \in Clients : d # c => req'[d] = req[d]
  BY ReqIs DEF Answered
<1>2. req'[c].pc # "bagSave"
  BY <1>1 DEF Idle
<1>3. \A d \in Clients : req'[d].pc # "bagSave"
  BY <1>1, <1>2 DEF BagPart, BagUsers
<1> QED
  BY <1>3 DEF BagPart, BagUsers

LEMMA BagFrame ==
    ASSUME SvType, BagPart, [Next]_vars, files'.bag = files.bag,
           hist'.created = hist.created, hist'.overlap = hist.overlap
    PROVE  BagPart'
<1>1. CASE \E c \in Clients : LoadServerKeyBag(c)
  BY <1>1, BagLoaded
<1>2. CASE \A c \in Clients : ~LoadServerKeyBag(c)
  <2>1. \A d \in BagUsers' : d \in BagUsers /\ req'[d].view = req[d].view
    BY <1>2, BagCalls DEF BagUsers
  <2> QED
    BY <2>1 DEF BagPart
<1> QED
  BY <1>1, <1>2

LEMMA BagKept ==
    ASSUME SvType, BagPart, [Next]_vars
    PROVE  BagPart'
<1>1. \/ UNCHANGED <<files, hist>>
      \/ \E c \in Clients : RegisterConfig(c)
      \/ \E c \in Clients : LoadServerKeyBag(c)
      \/ \E c \in Clients : PersistTenantPublicInfosKey(c)
      \/ \E c \in Clients : PersistFailed(c)
      \/ \E c \in Clients : RemoveTenantFiles(c)
      \/ \E c \in Clients : GenerateToken(c)
      \/ \E c \in Clients : PutStore(c)
      \/ \E c \in Clients : PushDirectoryStore(c)
      \/ PurgeDocHistory
      \/ PurgeDocHistoryFails
      \/ MarkRequestProcessed
      \/ \E c \in Clients : ReloadConfig(c)
      \/ ServerSyncPut
      \/ Restart
      \/ CrashInSave
  <2>1. CASE Registration
    BY <2>1, Zenon DEF Registration, RegisterTenant, RegisterCompare, RemoveTenant
  <2>2. CASE Loading
    BY <2>2, Zenon DEF Loading, GetTenant, LoadTenantStart, LoadTenant
  <2>3. CASE LoadInBackground
    BY <2>3, Zenon DEF LoadInBackground
  <2>4. CASE Authentication
    BY <2>4, Zenon
      DEF Authentication, Challenge, GenerateChallenge, Authenticate, ClaimChallenge,
         VerifySignature, SystemChallenge, ChallengeExpires
  <2>5. CASE Pushing
    BY <2>5, Zenon DEF Pushing, PutEntries, PutGate, PutDenylist, PutCheck, PushDirectory
  <2>6. CASE Purging
    BY <2>6, Zenon DEF Purging, PurgeRead, PurgeRequest, RecordPurgedDoc
  <2>7. CASE Events
    BY <2>7, Zenon DEF Events, Subscribe, Disconnect, SyncEvents, PublishEvent
  <2>8. CASE Configuring
    BY <2>8, Zenon DEF Configuring, UpdateConfig, UpdateTenantConfig
  <2>9. CASE ServerSyncStart
    BY <2>9, Zenon DEF ServerSyncStart
  <2>10. CASE ServerSyncScan
    BY <2>10, Zenon DEF ServerSyncScan
  <2>11. CASE UNCHANGED vars
    BY <2>11, Zenon DEF vars
  <2> QED
    BY <2>1, <2>2, <2>3, <2>4, <2>5, <2>6, <2>7, <2>8, <2>9, <2>10, <2>11, Zenon DEF Next
<1>2. CASE UNCHANGED <<files, hist>>
  BY <1>2, BagFrame
<1>3. ASSUME NEW c \in Clients, RegisterConfig(c) PROVE BagPart'
  <2>1. /\ files'.bag = files.bag
        /\ hist'.created = hist.created /\ hist'.overlap = hist.overlap
    BY <1>3 DEF RegisterConfig, SvType, FilesType, HistType
  <2> QED
    BY <2>1, BagFrame
<1>4. ASSUME NEW c \in Clients, LoadServerKeyBag(c) PROVE BagPart'
  BY <1>4, BagLoaded DEF LoadServerKeyBag
<1>5. ASSUME NEW c \in Clients, PersistTenantPublicInfosKey(c) PROVE BagPart'
  <2>1. /\ req[c].pc = "bagSave" /\ Answered(c) /\ hist'.overlap = hist.overlap
        /\ files'.bag = req[c].view \cup req[c].arg
        /\ hist'.created = hist.created \cup req[c].arg
    BY <1>5 DEF PersistTenantPublicInfosKey, In, SvType, FilesType, HistType
  <2> QED
    BY <2>1, BagAlone DEF BagPart
<1>6. ASSUME NEW c \in Clients, PersistFailed(c) PROVE BagPart'
  <2>1. /\ files'.bag = files.bag
        /\ hist'.created = hist.created /\ hist'.overlap = hist.overlap
    BY <1>6 DEF PersistFailed, SvType, FilesType, HistType
  <2> QED
    BY <2>1, BagFrame
<1>7. ASSUME NEW c \in Clients, RemoveTenantFiles(c) PROVE BagPart'
  <2>1. /\ req[c].pc = "bagSave" /\ Answered(c) /\ hist'.overlap = hist.overlap
        /\ files'.bag = req[c].view \ req[c].arg
        /\ hist'.created = hist.created \ req[c].arg
    BY <1>7 DEF RemoveTenantFiles, In, SvType, FilesType, HistType
  <2> QED
    BY <2>1, BagAlone DEF BagPart
<1>8. ASSUME NEW c \in Clients, GenerateToken(c) PROVE BagPart'
  <2>1. /\ files'.bag = files.bag
        /\ hist'.created = hist.created /\ hist'.overlap = hist.overlap
    BY <1>8 DEF GenerateToken, SvType, FilesType, HistType
  <2> QED
    BY <2>1, BagFrame
<1>9. ASSUME NEW c \in Clients, PutStore(c) PROVE BagPart'
  <2>1. /\ files'.bag = files.bag
        /\ hist'.created = hist.created /\ hist'.overlap = hist.overlap
    BY <1>9 DEF PutStore, SvType, FilesType, HistType
  <2> QED
    BY <2>1, BagFrame
<1>10. ASSUME NEW c \in Clients, PushDirectoryStore(c) PROVE BagPart'
  <2>1. /\ files'.bag = files.bag
        /\ hist'.created = hist.created /\ hist'.overlap = hist.overlap
    BY <1>10 DEF PushDirectoryStore, SvType, FilesType, HistType
  <2> QED
    BY <2>1, BagFrame
<1>11. CASE PurgeDocHistory
  <2>1. /\ files'.bag = files.bag
        /\ hist'.created = hist.created /\ hist'.overlap = hist.overlap
    BY <1>11 DEF PurgeDocHistory, SvType, FilesType, HistType
  <2> QED
    BY <2>1, BagFrame
<1>12. CASE PurgeDocHistoryFails
  <2>1. /\ files'.bag = files.bag
        /\ hist'.created = hist.created /\ hist'.overlap = hist.overlap
    BY <1>12 DEF PurgeDocHistoryFails, SvType, FilesType, HistType
  <2> QED
    BY <2>1, BagFrame
<1>13. CASE MarkRequestProcessed
  <2>1. /\ files'.bag = files.bag
        /\ hist'.created = hist.created /\ hist'.overlap = hist.overlap
    BY <1>13 DEF MarkRequestProcessed, SvType, FilesType, HistType
  <2> QED
    BY <2>1, BagFrame
<1>14. ASSUME NEW c \in Clients, ReloadConfig(c) PROVE BagPart'
  <2>1. /\ files'.bag = files.bag
        /\ hist'.created = hist.created /\ hist'.overlap = hist.overlap
    BY <1>14 DEF ReloadConfig, SvType, FilesType, HistType
  <2> QED
    BY <2>1, BagFrame
<1>15. CASE ServerSyncPut
  <2>1. /\ files'.bag = files.bag
        /\ hist'.created = hist.created /\ hist'.overlap = hist.overlap
    BY <1>15 DEF ServerSyncPut, SvType, FilesType, HistType
  <2> QED
    BY <2>1, BagFrame
<1>16. CASE Restart
  <2>1. /\ files'.bag = files.bag
        /\ hist'.created = hist.created /\ hist'.overlap = hist.overlap
    BY <1>16 DEF Restart, SvType, FilesType, HistType
  <2> QED
    BY <2>1, BagFrame
<1>17. CASE CrashInSave
  <2>1. /\ files'.bag = files.bag
        /\ hist'.created = hist.created /\ hist'.overlap = hist.overlap
    BY <1>17 DEF CrashInSave, SvType, FilesType, HistType
  <2> QED
    BY <2>1, BagFrame
<1> QED
  BY <1>1, <1>2, <1>3, <1>4, <1>5, <1>6, <1>7, <1>8, <1>9, <1>10, <1>11, <1>12, <1>13, <1>14,
     <1>15, <1>16, <1>17, Zenon


-------------------------------------------------------------------------------
(* Challenges: claimed by one handler, or used up.                          *)
LEMMA AnsweredTicket ==
    ASSUME SvType, NEW d \in Clients, NEW n \in 1..MaxTickets, Answering(d, n)
    PROVE  n \in 1..Len(tickets)
<1>1. req[d].op = "auth" /\ req[d].arg = {n}
  BY DEF Answering
<1>2. Ticket(d) \in 1..Len(tickets) /\ req[d].arg = {Ticket(d)}
  BY <1>1, CallFacts
<1> QED
  BY <1>1, <1>2

LEMMA AnsweringCalls ==
    ASSUME SvType, [Next]_vars, NEW d \in Clients, NEW n \in 1..MaxTickets, Answering(d, n)'
    PROVE  Answering(d, n) \/ ClaimChallenge(d)
<1>1. CASE Stays(d)
  BY <1>1 DEF Stays, Answering
<1>2. CASE req'[d] = Idle
  BY <1>2 DEF Idle, Answering
<1>3. CASE Comes(d)
  BY <1>3 DEF Comes, Answering
<1>4. CASE Begins(d)
  BY <1>4, BeginsPush, BeginsConfig DEF Begins, Answering
<1>5. CASE Carries(d) /\ GoesOn(d)
  BY <1>5 DEF Carries, GoesOn, Answering
<1> QED
  BY <1>1, <1>2, <1>3, <1>4, <1>5, CallSteps DEF CallStep

LEMMA ChallengeClaimed ==
    ASSUME SvType, ChallengePart, NEW c \in Clients, ClaimChallenge(c)
    PROVE  ChallengePart'
<1> DEFINE n == Ticket(c)
<1>1. /\ req[c].op = "auth" /\ req[c].pc = "gate" /\ hist' = hist
      /\ n \in 1..Len(tickets) /\ n \in 1..MaxTickets /\ req[c].arg = {n}
      /\ tickets \in Seq(Tickets)
  BY CallFacts, ServerAssumption DEF ClaimChallenge, In, SvType, AuthType
<1>2. CASE Answered(c) /\ UNCHANGED tickets
  <2>1. /\ req'[c] = Idle /\ Idle.op # "auth"
        /\ \A d \in Clients : d # c => req'[d] = req[d]
    BY <1>2, ReqIs DEF Answered, Idle
  <2>2. \A d \in Clients, m \in 1..MaxTickets : Answering(d, m)' => Answering(d, m)
    BY <2>1 DEF Answering
  <2> HIDE DEF n
  <2> QED
    BY <1>1, <1>2, <2>2 DEF ChallengePart
<1>3. CASE /\ ClaimableBy(c) /\ tickets' = Claimed(tickets, n)
           /\ req' = Goto(c, "verify") \/ Answered(c)
  <2>1. ~tickets[n].used
    BY <1>3 DEF ClaimableBy
  <2>2. hist.issued[n] = 0 /\ \A d \in Clients : ~Answering(d, n)
    <3>1. hist.issued[n] \in Nat
      BY <1>1 DEF SvType, HistType
    <3> HIDE DEF n
    <3> QED
      BY <1>1, <2>1, <3>1 DEF ChallengePart
  <2>3. /\ Len(tickets') = Len(tickets) /\ tickets'[n].used
        /\ \A m \in 1..Len(tickets) : m # n => tickets'[m] = tickets[m]
    BY <1>1, <1>3, SetUsed
  <2>4. /\ \A d \in Clients : d # c => req'[d] = req[d]
        /\ req'[c].op # "auth" \/ req'[c].arg = {n}
    <3>1. CASE req' = Goto(c, "verify")
      BY <1>1, <3>1, GotoStep DEF Carries
    <3>2. CASE Answered(c)
      BY <3>2, ReqIs DEF Answered, Idle
    <3> QED
      BY <1>3, <3>1, <3>2
  <2>5. \A d \in Clients, m \in 1..MaxTickets :
           Answering(d, m)' => Answering(d, m) \/ (d = c /\ m = n)
    BY <2>4 DEF Answering
  <2>6. \A d \in Clients, m \in 1..MaxTickets : Answering(d, m) => m \in 1..Len(tickets)
    BY AnsweredTicket
  <2> HIDE DEF n
  <2>7. \A m \in 1..MaxTickets : hist'.issued[m] <= 1
    BY <1>1 DEF ChallengePart
  <2>8. \A m \in 1..MaxTickets : hist'.issued[m] > 0 => m <= Len(tickets') /\ tickets'[m].used
    <3> TAKE m \in 1..MaxTickets
    <3>1. m \in Nat /\ m >= 1 /\ Len(tickets) \in Nat
      BY <1>1, ServerAssumption
    <3> QED
      BY <1>1, <2>2, <2>3, <3>1 DEF ChallengePart
  <2>9. ASSUME NEW d \in Clients, NEW m \in 1..MaxTickets, Answering(d, m)'
        PROVE  /\ tickets'[m].used /\ hist'.issued[m] = 0
               /\ \A x \in Clients : Answering(x, m)' => x = d
    BY <1>1, <2>2, <2>3, <2>5, <2>6, <2>9 DEF ChallengePart
  <2> QED
    BY <2>7, <2>8, <2>9 DEF ChallengePart
<1> QED
  BY <1>1, <1>2, <1>3 DEF ClaimChallenge, Claimed

LEMMA ChallengeFrame ==
    ASSUME SvType, ChallengePart, [Next]_vars, hist'.issued = hist.issued,
           Len(tickets) <= Len(tickets'),
           \A n \in 1..Len(tickets) : tickets'[n].used = tickets[n].used
    PROVE  ChallengePart'
<1>1. CASE \E c \in Clients : ClaimChallenge(c)
  BY <1>1, ChallengeClaimed
<1>2. CASE \A c \in Clients : ~ClaimChallenge(c)
  <2>1. \A d \in Clients, n \in 1..MaxTickets : Answering(d, n)' => Answering(d, n)
    BY <1>2, AnsweringCalls
  <2>2. \A d \in Clients, n \in 1..MaxTickets : Answering(d, n) => n \in 1..Len(tickets)
    BY AnsweredTicket
  <2>3. \A n \in 1..MaxTickets : hist'.issued[n] <= 1
    BY DEF ChallengePart
  <2>4. \A n \in 1..MaxTickets : hist'.issued[n] > 0 => n <= Len(tickets') /\ tickets'[n].used
    <3> TAKE n \in 1..MaxTickets
    <3>1. n \in Nat /\ n >= 1 /\ Len(tickets) \in Nat /\ Len(tickets') \in Nat
      BY LengthsGrow, ServerAssumption
    <3> QED
      BY <3>1 DEF ChallengePart
  <2>5. ASSUME NEW d \in Clients, NEW n \in 1..MaxTickets, Answering(d, n)'
        PROVE  /\ tickets'[n].used /\ hist'.issued[n] = 0
               /\ \A x \in Clients : Answering(x, n)' => x = d
    BY <2>1, <2>2, <2>5 DEF ChallengePart
  <2> QED
    BY <2>3, <2>4, <2>5 DEF ChallengePart
<1> QED
  BY <1>1, <1>2

LEMMA ChallengeKept ==
    ASSUME SvType, ChallengePart, [Next]_vars
    PROVE  ChallengePart'
<1>1. \/ UNCHANGED <<tickets, hist>>
      \/ \E c \in Clients : LoadServerKeyBag(c)
      \/ \E c \in Clients : PersistTenantPublicInfosKey(c)
      \/ \E c \in Clients : RemoveTenantFiles(c)
      \/ \E c \in Clients : GenerateChallenge(c)
      \/ \E c \in Clients : ClaimChallenge(c)
      \/ \E c \in Clients : GenerateToken(c)
      \/ \E a \in Admins : SystemChallenge(a)
      \/ \E n \in DOMAIN tickets : ChallengeExpires(n)
      \/ \E c \in Clients : PutStore(c)
      \/ \E c \in Clients : PushDirectoryStore(c)
      \/ PurgeDocHistory
      \/ PurgeDocHistoryFails
      \/ ServerSyncPut
      \/ Restart
      \/ CrashInSave
  <2>1. CASE Registration
    BY <2>1, Zenon
      DEF Registration, RegisterTenant, RegisterConfig, RegisterCompare, PersistFailed,
         RemoveTenant
  <2>2. CASE Loading
    BY <2>2, Zenon DEF Loading, GetTenant, LoadTenantStart, LoadTenant
  <2>3. CASE LoadInBackground
    BY <2>3, Zenon DEF LoadInBackground
  <2>4. CASE Authentication
    BY <2>4, Zenon DEF Authentication, Challenge, Authenticate, VerifySignature
  <2>5. CASE Pushing
    BY <2>5, Zenon DEF Pushing, PutEntries, PutGate, PutDenylist, PutCheck, PushDirectory
  <2>6. CASE Purging
    BY <2>6, Zenon
      DEF Purging, PurgeRead, MarkRequestProcessed, PurgeRequest, RecordPurgedDoc
  <2>7. CASE Events
    BY <2>7, Zenon DEF Events, Subscribe, Disconnect, SyncEvents, PublishEvent
  <2>8. CASE Configuring
    BY <2>8, Zenon DEF Configuring, UpdateConfig, ReloadConfig, UpdateTenantConfig
  <2>9. CASE ServerSyncStart
    BY <2>9, Zenon DEF ServerSyncStart
  <2>10. CASE ServerSyncScan
    BY <2>10, Zenon DEF ServerSyncScan
  <2>11. CASE UNCHANGED vars
    BY <2>11, Zenon DEF vars
  <2> QED
    BY <2>1, <2>2, <2>3, <2>4, <2>5, <2>6, <2>7, <2>8, <2>9, <2>10, <2>11, Zenon DEF Next
<1>2. CASE UNCHANGED <<tickets, hist>>
  BY <1>2, ChallengeFrame, LengthsGrow
<1>3. ASSUME NEW c \in Clients, LoadServerKeyBag(c) PROVE ChallengePart'
  <2>1. hist'.issued = hist.issued
    BY <1>3 DEF LoadServerKeyBag, TakeBag, SvType, HistType
  <2>2. tickets' = tickets
    BY <1>3 DEF LoadServerKeyBag
  <2> QED
    BY <2>1, <2>2, LengthsGrow, ChallengeFrame
<1>4. ASSUME NEW c \in Clients, PersistTenantPublicInfosKey(c) PROVE ChallengePart'
  <2>1. hist'.issued = hist.issued
    BY <1>4 DEF PersistTenantPublicInfosKey, SvType, HistType
  <2>2. tickets' = tickets
    BY <1>4 DEF PersistTenantPublicInfosKey
  <2> QED
    BY <2>1, <2>2, LengthsGrow, ChallengeFrame
<1>5. ASSUME NEW c \in Clients, RemoveTenantFiles(c) PROVE ChallengePart'
  <2>1. hist'.issued = hist.issued
    BY <1>5 DEF RemoveTenantFiles, SvType, HistType
  <2>2. tickets' = tickets
    BY <1>5 DEF RemoveTenantFiles
  <2> QED
    BY <2>1, <2>2, LengthsGrow, ChallengeFrame
<1>6. ASSUME NEW c \in Clients, GenerateChallenge(c) PROVE ChallengePart'
  <2>1. hist' = hist
    BY <1>6 DEF GenerateChallenge
  <2>2. CASE UNCHANGED tickets
    BY <2>1, <2>2, LengthsGrow, ChallengeFrame
  <2>3. CASE \E k \in Principals : StoreChallenge(req[c].i, k)
    <3>1. req[c].i \in Nat /\ tickets \in Seq(Tickets)
      BY CallFacts DEF Requests, SvType, AuthType
    <3>2. \A n \in 1..Len(tickets) : tickets'[n].used = tickets[n].used
      BY <2>3, <3>1, StoreChallengeFacts
    <3> QED
      BY <2>1, <3>2, LengthsGrow, ChallengeFrame
  <2>4. PICK k \in Keys : req[c].arg = {k}
    BY <1>6, CallFacts DEF GenerateChallenge, In, CallOK
  <2> QED
    BY <1>6, <2>2, <2>3, <2>4, CallFacts DEF GenerateChallenge, Principals
<1>7. ASSUME NEW c \in Clients, ClaimChallenge(c) PROVE ChallengePart'
  BY <1>7, ChallengeClaimed DEF ClaimChallenge
<1>8. ASSUME NEW c \in Clients, GenerateToken(c) PROVE ChallengePart'
  <2> DEFINE n == Ticket(c)
  <2>1. /\ Answering(c, n) /\ n \in 1..Len(tickets) /\ n \in 1..MaxTickets /\ tickets' = tickets
        /\ Answered(c)
    BY <1>8, CallFacts, ServerAssumption DEF GenerateToken, In, Answering, SvType, AuthType
  <2> DEFINE N == 1..MaxTickets
  <2>2. /\ hist.issued \in [N -> Nat] /\ n \in N
        /\ hist'.issued = [hist.issued EXCEPT ![n] = hist.issued[n] + 1]
    BY <1>8, <2>1 DEF GenerateToken, SvType, HistType
  <2>3. /\ req'[c] = Idle /\ Idle.op # "auth"
        /\ \A d \in Clients : d # c => req'[d] = req[d]
    BY <2>1, ReqIs DEF Answered, Idle
  <2>4. \A d \in Clients, m \in 1..MaxTickets : Answering(d, m)' => Answering(d, m) /\ d # c
    BY <2>3 DEF Answering
  <2> HIDE DEF n
  <2>5. hist.issued[n] = 0 /\ tickets[n].used /\ \A d \in Clients : Answering(d, n) => d = c
    BY <2>1 DEF ChallengePart
  <2>a. hist'.issued[n] = hist.issued[n] + 1 /\ \A m \in N : m # n => hist'.issued[m] = hist.issued[m]
    <3> HIDE DEF N
    <3> QED
      BY <2>2
  <2>6. /\ hist'.issued[n] = 1
        /\ \A m \in 1..MaxTickets : m # n => hist'.issued[m] = hist.issued[m]
    BY <2>a, <2>5
  <2>7. \A m \in 1..MaxTickets : hist'.issued[m] <= 1
    BY <2>6 DEF ChallengePart
  <2>8. \A m \in 1..MaxTickets : hist'.issued[m] > 0 => m <= Len(tickets') /\ tickets'[m].used
    BY <2>1, <2>5, <2>6 DEF ChallengePart
  <2>9. ASSUME NEW d \in Clients, NEW m \in 1..MaxTickets, Answering(d, m)'
        PROVE  /\ tickets'[m].used /\ hist'.issued[m] = 0
               /\ \A x \in Clients : Answering(x, m)' => x = d
    BY <2>1, <2>4, <2>5, <2>6, <2>9 DEF ChallengePart
  <2> QED
    BY <2>7, <2>8, <2>9 DEF ChallengePart
<1>9. ASSUME NEW a \in Admins, SystemChallenge(a) PROVE ChallengePart'
  <2>1. hist' = hist /\ System \in Nat /\ a \in Principals /\ tickets \in Seq(Tickets)
    BY <1>9 DEF SystemChallenge, System, Principals, SvType, AuthType
  <2>2. \A n \in 1..Len(tickets) : tickets'[n].used = tickets[n].used
    BY <1>9, <2>1, StoreChallengeFacts DEF SystemChallenge
  <2> QED
    BY <2>1, <2>2, LengthsGrow, ChallengeFrame
<1>10. ASSUME NEW n \in DOMAIN tickets, ChallengeExpires(n) PROVE ChallengePart'
  <2>1. /\ hist' = hist /\ tickets' = Forgotten(tickets, n) /\ n \in 1..Len(tickets)
        /\ tickets \in Seq(Tickets)
    BY <1>10 DEF ChallengeExpires, Forgotten, SvType, AuthType
  <2>2. \A m \in 1..Len(tickets) : tickets'[m].used = tickets[m].used
    BY <2>1, SetKept
  <2> QED
    BY <2>1, <2>2, LengthsGrow, ChallengeFrame
<1>11. ASSUME NEW c \in Clients, PutStore(c) PROVE ChallengePart'
  <2>1. hist'.issued = hist.issued
    BY <1>11 DEF PutStore, SvType, HistType
  <2>2. tickets' = tickets
    BY <1>11 DEF PutStore
  <2> QED
    BY <2>1, <2>2, LengthsGrow, ChallengeFrame
<1>12. ASSUME NEW c \in Clients, PushDirectoryStore(c) PROVE ChallengePart'
  <2>1. hist'.issued = hist.issued
    BY <1>12 DEF PushDirectoryStore, SvType, HistType
  <2>2. tickets' = tickets
    BY <1>12 DEF PushDirectoryStore
  <2> QED
    BY <2>1, <2>2, LengthsGrow, ChallengeFrame
<1>13. CASE PurgeDocHistoryFails
  <2>1. hist'.issued = hist.issued
    BY <1>13 DEF PurgeDocHistoryFails, SvType, HistType
  <2>2. tickets' = tickets
    BY <1>13 DEF PurgeDocHistoryFails
  <2> QED
    BY <2>1, <2>2, LengthsGrow, ChallengeFrame
<1>14. CASE ServerSyncPut
  <2>1. hist'.issued = hist.issued
    BY <1>14 DEF ServerSyncPut, SvType, HistType
  <2>2. tickets' = tickets
    BY <1>14 DEF ServerSyncPut
  <2> QED
    BY <2>1, <2>2, LengthsGrow, ChallengeFrame
<1>15. CASE Restart
  <2>1. hist'.issued = hist.issued /\ Lost
    BY <1>15 DEF Restart, SvType, HistType
  <2>2. tickets \in Seq(Tickets)
    BY DEF SvType, AuthType
  <2> QED
    BY <2>1, <2>2, LostTickets, LengthsGrow, ChallengeFrame
<1>16. CASE CrashInSave
  <2>1. hist'.issued = hist.issued /\ Lost
    BY <1>16 DEF CrashInSave, SvType, HistType
  <2>2. tickets \in Seq(Tickets)
    BY DEF SvType, AuthType
  <2> QED
    BY <2>1, <2>2, LostTickets, LengthsGrow, ChallengeFrame
<1>17. CASE PurgeDocHistory
  <2>1. hist'.issued = hist.issued
    BY <1>17 DEF PurgeDocHistory, SvType, HistType
  <2>2. tickets' = tickets
    BY <1>17 DEF PurgeDocHistory
  <2> QED
    BY <2>1, <2>2, LengthsGrow, ChallengeFrame
<1> QED
  BY <1>1, <1>2, <1>3, <1>4, <1>5, <1>6, <1>7, <1>8, <1>9, <1>10, <1>11, <1>12, <1>13, <1>14,
     <1>15, <1>16, <1>17, Zenon


-------------------------------------------------------------------------------
(* What a step does to the instances, the directory and the loaded instance.*)
LEMMA DirectoryPushed ==
    ASSUME SvType, NEW c \in Clients, PushDirectoryStore(c)
    PROVE  \E ch \in GrantChanges \cup PurgeChanges :
             LET i == req[c].i
             IN /\ i \in 1..Len(inst) /\ Len(inst') = Len(inst)
                /\ files'.dir = Directory(files.dir, ch)
                /\ inst'[i].dir = Directory(inst[i].dir, ch)
                /\ inst'[i].open = inst[i].open /\ inst'[i].index = inst[i].index
                /\ \A j \in 1..Len(inst) : j # i => inst'[j] = inst[j]
                /\ hist'.split = (hist.split \/ i # mem.loaded[Main])
<1>1. req[c].op = "dir" /\ req[c].i \in 1..Len(inst) /\ CallOK(req[c])
  BY CallFacts DEF PushDirectoryStore, In, CallOK
<1>2. PICK ch \in GrantChanges \cup PurgeChanges : req[c].arg = {ch}
  BY <1>1 DEF CallOK
<1>3. /\ inst' = WithDir(inst, req[c].i, Directory(inst[req[c].i].dir, ch))
      /\ files'.dir = Directory(files.dir, ch)
      /\ hist'.split = (hist.split \/ req[c].i # mem.loaded[Main])
  BY <1>2, CallFacts DEF PushDirectoryStore, WithDir, SvType, FilesType, HistType
<1>4. inst[req[c].i].dir \in Dirs
  BY <1>1, InstanceFields DEF SvType
<1> DEFINE i == req[c].i
           D == Directory(inst[i].dir, ch)
<1>5. D \in Dirs /\ inst \in Seq(Instances) /\ i \in 1..Len(inst)
  BY <1>1, <1>4, DirectoryType DEF SvType
<1>6. inst' = WithDir(inst, i, D)
  BY <1>3
<1> HIDE DEF D, i
<1>7. /\ Len(inst') = Len(inst) /\ inst'[i].dir = D
      /\ inst'[i].open = inst[i].open /\ inst'[i].index = inst[i].index
      /\ \A j \in 1..Len(inst) : j # i => inst'[j] = inst[j]
  <2> DEFINE t == WithDir(inst, i, D)
  <2>1. /\ Len(t) = Len(inst) /\ t[i].dir = D
        /\ t[i].open = inst[i].open /\ t[i].index = inst[i].index
        /\ \A j \in 1..Len(inst) : j # i => t[j] = inst[j]
    BY <1>5, SetDir
  <2> HIDE DEF t
  <2> QED
    BY <1>6, <2>1 DEF t
<1> QED
  BY <1>1, <1>3, <1>7 DEF D, i

LEMMA OpeningKeepsDirs ==
    ASSUME SvType, NEW i \in 1..Len(inst)
    PROVE  /\ Opened(i) \in Seq(Instances) /\ Len(Opened(i)) = Len(inst)
           /\ \A j \in 1..Len(inst) : Opened(i)[j].dir = inst[j].dir
           /\ \A j \in 1..Len(inst) : j # i => Opened(i)[j] = inst[j]
           /\ Opened(i)[i].open
           /\ Opened(i)[i].index = IF inst[i].open THEN inst[i].index ELSE files.entries
BY OpenedFacts DEF SvType, FilesType, Indexes

(* An entry, or several, reach an instance.                                 *)
LEMMA StoredInInstance ==
    ASSUME SvType, NEW i \in 1..Len(inst), NEW E \in SUBSET Entries,
           inst' = [inst EXCEPT ![i].index = @ \cup E]
    PROVE  /\ Len(inst') = Len(inst) /\ \A j \in 1..Len(inst) : j # i => inst'[j] = inst[j]
           /\ inst'[i].dir = inst[i].dir /\ inst'[i].open = inst[i].open
           /\ inst'[i].index = inst[i].index \cup E
<1> DEFINE X == inst[i].index \cup E
<1>1. X \in Indexes
  BY InstanceFields DEF SvType, Indexes
<1>2. inst' = WithIndex(inst, i, X)
  BY DEF WithIndex
<1> HIDE DEF X
<1>3. /\ Len(inst') = Len(inst) /\ \A j \in 1..Len(inst) : j # i => inst'[j] = inst[j]
      /\ inst'[i].dir = inst[i].dir /\ inst'[i].open = inst[i].open
      /\ inst'[i].index = X
  <2> DEFINE t == WithIndex(inst, i, X)
  <2>1. inst \in Seq(Instances)
    BY DEF SvType
  <2>2. /\ Len(t) = Len(inst) /\ \A j \in 1..Len(inst) : j # i => t[j] = inst[j]
        /\ t[i].dir = inst[i].dir /\ t[i].open = inst[i].open /\ t[i].index = X
    BY <1>1, <2>1, SetIndex
  <2> HIDE DEF t
  <2> QED
    BY <1>2, <2>2 DEF t
<1> QED
  BY <1>3 DEF X

LEMMA StoredByPush ==
    ASSUME SvType, NEW c \in Clients, PutStore(c)
    PROVE  LET i == req[c].i
           IN /\ i \in 1..Len(inst) /\ req[c].view \in SUBSET Entries
              /\ inst' = [inst EXCEPT ![i].index = @ \cup req[c].view]
BY CallFacts DEF PutStore, In, CallOK

LEMMA StoredBySync ==
    ASSUME SvType, ServerSyncPut
    PROVE  LET i == upstream.i
           IN /\ i \in 1..Len(inst) /\ upstream.view \in SUBSET Entries
              /\ inst' = [inst EXCEPT ![i].index = @ \cup upstream.view]
BY DEF ServerSyncPut, SvType, SyncType

LEMMA PurgedInInstance ==
    ASSUME SvType, PurgeDocHistory
    PROVE  LET i == mem.loaded[Main]
           IN /\ i \in 1..Len(inst) /\ Len(inst') = Len(inst)
              /\ \A j \in 1..Len(inst) : j # i => inst'[j] = inst[j]
              /\ inst'[i].dir = inst[i].dir
              /\ inst'[i].index = Opened(i)[i].index \ EntriesOf(purge.doc)
<1> DEFINE i == mem.loaded[Main]
           E == Opened(i)[i].index \cap EntriesOf(purge.doc)
           X == Opened(i)[i].index \ E
<1>1. i \in 1..Len(inst)
  BY DEF PurgeDocHistory, SvType, MemType
<1>2. X \in Indexes
  BY <1>1, OpeningKeepsDirs, InstanceFields DEF Indexes
<1>3. inst' = WithIndex(Opened(i), i, X)
  BY DEF PurgeDocHistory, WithIndex
<1> HIDE DEF i, X
<1>4. /\ Len(inst') = Len(inst) /\ \A j \in 1..Len(inst) : j # i => inst'[j] = inst[j]
      /\ inst'[i].dir = inst[i].dir /\ inst'[i].index = X
  <2>1. /\ Opened(i) \in Seq(Instances) /\ Len(Opened(i)) = Len(inst)
        /\ \A j \in 1..Len(inst) : Opened(i)[j].dir = inst[j].dir
        /\ \A j \in 1..Len(inst) : j # i => Opened(i)[j] = inst[j]
    BY <1>1, OpeningKeepsDirs
  <2> DEFINE s == Opened(i)
             t == WithIndex(s, i, X)
  <2>2. /\ s \in Seq(Instances) /\ Len(s) = Len(inst) /\ i \in 1..Len(s)
        /\ s[i].dir = inst[i].dir /\ \A j \in 1..Len(inst) : j # i => s[j] = inst[j]
    BY <1>1, <2>1
  <2> HIDE DEF s
  <2>3. /\ Len(t) = Len(s) /\ \A j \in 1..Len(s) : j # i => t[j] = s[j]
        /\ t[i].dir = s[i].dir /\ t[i].index = X
    BY <1>2, <2>2, SetIndex
  <2>4. inst' = t
    BY <1>3 DEF s
  <2> HIDE DEF t
  <2> QED
    BY <2>2, <2>3, <2>4
<1> QED
  BY <1>1, <1>4 DEF i, X

DirsStay ==
  files'.dir = files.dir /\ \A j \in 1..Len(inst) : inst'[j].dir = inst[j].dir

LEMMA DirSteps ==
    ASSUME SvType, [Next]_vars
    PROVE  DirsStay \/ \E d \in Clients : PushDirectoryStore(d)
<1>1. \/ UNCHANGED <<files, inst>>
      \/ \E c \in Clients : RegisterConfig(c)
      \/ \E c \in Clients : PersistTenantPublicInfosKey(c)
      \/ \E c \in Clients : PersistFailed(c)
      \/ \E c \in Clients : RemoveTenantFiles(c)
      \/ \E c \in Clients : LoadTenant(c)
      \/ LoadInBackground
      \/ \E c \in Clients : PutDenylist(c)
      \/ \E c \in Clients : PutStore(c)
      \/ \E c \in Clients : PushDirectoryStore(c)
      \/ PurgeDocHistory
      \/ MarkRequestProcessed
      \/ \E c \in Clients : ReloadConfig(c)
      \/ ServerSyncScan
      \/ ServerSyncPut
      \/ Restart
      \/ CrashInSave
  <2>1. CASE Registration
    BY <2>1, Zenon
      DEF Registration, RegisterTenant, RegisterCompare, LoadServerKeyBag, RemoveTenant
  <2>2. CASE Loading
    BY <2>2, Zenon DEF Loading, GetTenant, LoadTenantStart
  <2>3. CASE Authentication
    BY <2>3, Zenon
      DEF Authentication, Challenge, GenerateChallenge, Authenticate, ClaimChallenge,
         VerifySignature, GenerateToken, SystemChallenge, ChallengeExpires
  <2>4. CASE Pushing
    BY <2>4, Zenon DEF Pushing, PutEntries, PutGate, PutCheck, PushDirectory
  <2>5. CASE Purging
    BY <2>5, Zenon
      DEF Purging, PurgeRead, PurgeDocHistoryFails, PurgeRequest, RecordPurgedDoc
  <2>6. CASE Events
    BY <2>6, Zenon DEF Events, Subscribe, Disconnect, SyncEvents, PublishEvent
  <2>7. CASE Configuring
    BY <2>7, Zenon DEF Configuring, UpdateConfig, UpdateTenantConfig
  <2>8. CASE ServerSyncStart
    BY <2>8, Zenon DEF ServerSyncStart
  <2>9. CASE UNCHANGED vars
    BY <2>9, Zenon DEF vars
  <2> QED
    BY <2>1, <2>2, <2>3, <2>4, <2>5, <2>6, <2>7, <2>8, <2>9, Zenon DEF Next
<1>2. CASE UNCHANGED <<files, inst>>
  BY <1>2 DEF DirsStay
<1>3. ASSUME NEW c \in Clients,
             RegisterConfig(c)
      PROVE  DirsStay \/ \E d \in Clients : PushDirectoryStore(d)
  BY <1>3 DEF RegisterConfig, DirsStay, SvType, FilesType
<1>4. ASSUME NEW c \in Clients,
             PersistTenantPublicInfosKey(c)
      PROVE  DirsStay \/ \E d \in Clients : PushDirectoryStore(d)
  BY <1>4 DEF PersistTenantPublicInfosKey, DirsStay, SvType, FilesType
<1>5. ASSUME NEW c \in Clients,
             PersistFailed(c)
      PROVE  DirsStay \/ \E d \in Clients : PushDirectoryStore(d)
  BY <1>5 DEF PersistFailed, DirsStay, SvType, FilesType
<1>6. ASSUME NEW c \in Clients,
             RemoveTenantFiles(c)
      PROVE  DirsStay \/ \E d \in Clients : PushDirectoryStore(d)
  BY <1>6 DEF RemoveTenantFiles, DirsStay, SvType, FilesType
<1>7. ASSUME NEW c \in Clients,
             LoadTenant(c)
      PROVE  DirsStay \/ \E d \in Clients : PushDirectoryStore(d)
  BY <1>7, NewInstanceFacts DEF LoadTenant, DirsStay, SvType
<1>8. CASE LoadInBackground
  BY <1>8, NewInstanceFacts DEF LoadInBackground, DirsStay, SvType
<1>9. ASSUME NEW c \in Clients,
             PutDenylist(c)
      PROVE  DirsStay \/ \E d \in Clients : PushDirectoryStore(d)
  <2>1. req[c].i \in 1..Len(inst)
    BY <1>9, CallFacts DEF PutDenylist, In, CallOK
  <2> QED
    BY <1>9, <2>1, OpeningKeepsDirs DEF PutDenylist, DirsStay
<1>10. ASSUME NEW c \in Clients,
              PutStore(c)
       PROVE  DirsStay \/ \E d \in Clients : PushDirectoryStore(d)
  <2>1. files'.dir = files.dir
    BY <1>10 DEF PutStore, SvType, FilesType
  <2> QED
    <3>1. PICK i \in 1..Len(inst), E \in SUBSET Entries : inst' = [inst EXCEPT ![i].index = @ \cup E]
      BY <1>10, StoredByPush
    <3>2. /\ Len(inst') = Len(inst) /\ \A j \in 1..Len(inst) : j # i => inst'[j] = inst[j]
          /\ inst'[i].dir = inst[i].dir
      BY <3>1, StoredInInstance
    <3> QED
      BY <2>1, <3>2 DEF DirsStay
<1>11. ASSUME NEW c \in Clients,
              PushDirectoryStore(c)
       PROVE  DirsStay \/ \E d \in Clients : PushDirectoryStore(d)
  BY <1>11 DEF PushDirectoryStore
<1>12. CASE PurgeDocHistory
  <2>1. files'.dir = files.dir
    BY <1>12 DEF PurgeDocHistory, SvType, FilesType
  <2> QED
    BY <1>12, <2>1, PurgedInInstance DEF DirsStay
<1>13. CASE MarkRequestProcessed
  BY <1>13 DEF MarkRequestProcessed, DirsStay, SvType, FilesType
<1>14. ASSUME NEW c \in Clients,
              ReloadConfig(c)
       PROVE  DirsStay \/ \E d \in Clients : PushDirectoryStore(d)
  BY <1>14 DEF ReloadConfig, DirsStay, SvType, FilesType
<1>15. CASE ServerSyncScan
  <2>1. mem.loaded[Main] \in 1..Len(inst)
    BY <1>15 DEF ServerSyncScan, SvType, MemType
  <2> QED
    BY <1>15, <2>1, OpeningKeepsDirs DEF ServerSyncScan, DirsStay
<1>16. CASE ServerSyncPut
  <2>1. files'.dir = files.dir
    BY <1>16 DEF ServerSyncPut, SvType, FilesType
  <2> QED
    BY <1>16, <2>1, StoredBySync, StoredInInstance DEF DirsStay
<1>17. CASE Restart
  BY <1>17, LostInstances DEF Restart, DirsStay, SvType
<1>18. CASE CrashInSave
  <2>1. files'.dir = files.dir
    BY <1>18 DEF CrashInSave, SvType, FilesType
  <2> QED
    BY <1>18, <2>1, LostInstances DEF CrashInSave, DirsStay, SvType
<1> QED
  BY <1>1, <1>2, <1>3, <1>4, <1>5, <1>6, <1>7, <1>8, <1>9, <1>10, <1>11, <1>12, <1>13, <1>14,
     <1>15, <1>16, <1>17, <1>18, Zenon

(* The instance that getTenant hands out is the old one, none, or a new one. *)
Loads ==
  /\ inst' = Append(inst, NewInstance(Main)) /\ mem'.loaded[Main] = Len(inst) + 1
  /\ files' = files /\ hist' = hist
LoadedStep ==
  \/ Loads
  \/ Len(inst') = Len(inst) /\ mem'.loaded[Main] \in {0, mem.loaded[Main]}

LEMMA LoadedSteps ==
    ASSUME SvType, [Next]_vars
    PROVE  LoadedStep
<1>1. \/ UNCHANGED <<mem, inst>>
      \/ \E c \in Clients, t \in Tenants : RemoveTenant(c, t)
      \/ \E c \in Clients : LoadTenant(c)
      \/ LoadInBackground
      \/ \E c \in Clients : PutDenylist(c)
      \/ \E c \in Clients : PutStore(c)
      \/ \E c \in Clients : PushDirectoryStore(c)
      \/ PurgeDocHistory
      \/ MarkRequestProcessed
      \/ \E d \in Docs : RecordPurgedDoc(d)
      \/ \E c \in Clients : ReloadConfig(c)
      \/ \E t \in Tenants : UpdateTenantConfig(t)
      \/ ServerSyncScan
      \/ ServerSyncPut
      \/ Restart
      \/ CrashInSave
  <2>1. CASE Registration
    BY <2>1, Zenon
      DEF Registration, RegisterTenant, RegisterConfig, RegisterCompare, LoadServerKeyBag,
         PersistTenantPublicInfosKey, PersistFailed, RemoveTenantFiles
  <2>2. CASE Loading
    BY <2>2, Zenon DEF Loading, GetTenant, LoadTenantStart
  <2>3. CASE Authentication
    BY <2>3, Zenon
      DEF Authentication, Challenge, GenerateChallenge, Authenticate, ClaimChallenge,
         VerifySignature, GenerateToken, SystemChallenge, ChallengeExpires
  <2>4. CASE Pushing
    BY <2>4, Zenon DEF Pushing, PutEntries, PutGate, PutCheck, PushDirectory
  <2>5. CASE Purging
    BY <2>5, Zenon DEF Purging, PurgeRead, PurgeDocHistoryFails, PurgeRequest
  <2>6. CASE Events
    BY <2>6, Zenon DEF Events, Subscribe, Disconnect, SyncEvents, PublishEvent
  <2>7. CASE Configuring
    BY <2>7, Zenon DEF Configuring, UpdateConfig
  <2>8. CASE ServerSyncStart
    BY <2>8, Zenon DEF ServerSyncStart
  <2>9. CASE UNCHANGED vars
    BY <2>9, Zenon DEF vars
  <2> QED
    BY <2>1, <2>2, <2>3, <2>4, <2>5, <2>6, <2>7, <2>8, <2>9, Zenon DEF Next
<1>2. CASE UNCHANGED <<mem, inst>>
  BY <1>2 DEF LoadedStep
<1>3. ASSUME NEW c \in Clients, NEW t \in Tenants, RemoveTenant(c, t) PROVE LoadedStep
  <2>1. mem' = Caching(mem, t, 0) /\ inst' = inst
    BY <1>3 DEF RemoveTenant, Caching
  <2> QED
    BY <2>1, SetLoaded DEF LoadedStep, SvType
<1>4. ASSUME NEW c \in Clients, LoadTenant(c) PROVE LoadedStep
  <2>1. mem' = Caching(mem, Main, Len(inst) + 1) /\ Len(inst) + 1 \in Nat
    BY <1>4 DEF LoadTenant, Caching, SvType
  <2>2. mem'.loaded[Main] = Len(inst) + 1
    BY <2>1, SetLoaded, ServerAssumption DEF SvType
  <2> QED
    BY <1>4, <2>2 DEF LoadTenant, LoadedStep, Loads
<1>5. CASE LoadInBackground
  <2>1. mem' = Caching(mem, Main, Len(inst) + 1) /\ Len(inst) + 1 \in Nat
    BY <1>5 DEF LoadInBackground, Caching, SvType
  <2>2. mem'.loaded[Main] = Len(inst) + 1
    BY <2>1, SetLoaded, ServerAssumption DEF SvType
  <2> QED
    BY <1>5, <2>2 DEF LoadInBackground, LoadedStep, Loads
<1>6. ASSUME NEW c \in Clients, PutDenylist(c) PROVE LoadedStep
  <2>1. req[c].i \in 1..Len(inst)
    BY <1>6, CallFacts DEF PutDenylist, In, CallOK
  <2> QED
    BY <1>6, <2>1, OpeningKeepsDirs DEF PutDenylist, LoadedStep
<1>7. ASSUME NEW c \in Clients, PutStore(c) PROVE LoadedStep
  <2>1. mem' = mem
    BY <1>7 DEF PutStore
  <2> QED
    BY <1>7, <2>1, StoredByPush, StoredInInstance DEF LoadedStep
<1>8. ASSUME NEW c \in Clients, PushDirectoryStore(c) PROVE LoadedStep
  <2>1. mem' = mem
    BY <1>8 DEF PushDirectoryStore
  <2> QED
    BY <1>8, <2>1, DirectoryPushed DEF LoadedStep
<1>9. CASE PurgeDocHistory
  <2>1. mem' = mem
    BY <1>9 DEF PurgeDocHistory
  <2> QED
    BY <1>9, <2>1, PurgedInInstance DEF LoadedStep
<1>10. CASE MarkRequestProcessed
  BY <1>10 DEF MarkRequestProcessed, LoadedStep, SvType, MemType, Memories
<1>11. ASSUME NEW d \in Docs, RecordPurgedDoc(d) PROVE LoadedStep
  BY <1>11 DEF RecordPurgedDoc, LoadedStep, SvType, MemType, Memories
<1>12. ASSUME NEW c \in Clients, ReloadConfig(c) PROVE LoadedStep
  BY <1>12 DEF ReloadConfig, LoadedStep, SvType, MemType, Memories
<1>13. ASSUME NEW t \in Tenants, UpdateTenantConfig(t) PROVE LoadedStep
  <2>1. mem' = Caching(mem, t, 0) /\ inst' = inst
    BY <1>13 DEF UpdateTenantConfig, Caching
  <2> QED
    BY <2>1, SetLoaded DEF LoadedStep, SvType
<1>14. CASE ServerSyncScan
  <2>1. mem.loaded[Main] \in 1..Len(inst)
    BY <1>14 DEF ServerSyncScan, SvType, MemType
  <2> QED
    BY <1>14, <2>1, OpeningKeepsDirs DEF ServerSyncScan, LoadedStep
<1>15. CASE ServerSyncPut
  <2>1. mem' = mem
    BY <1>15 DEF ServerSyncPut
  <2> QED
    BY <1>15, <2>1, StoredBySync, StoredInInstance DEF LoadedStep
<1>16. CASE Restart
  <2>1. Len(inst') = Len(inst)
    BY <1>16, LostInstances DEF Restart, SvType
  <2> QED
    BY <1>16, <2>1, ServerAssumption DEF Restart, Restarted, LoadedStep
<1>17. CASE CrashInSave
  <2>1. Len(inst') = Len(inst)
    BY <1>17, LostInstances DEF CrashInSave, SvType
  <2> QED
    BY <1>17, <2>1, ServerAssumption DEF CrashInSave, Restarted, LoadedStep
<1> QED
  BY <1>1, <1>2, <1>3, <1>4, <1>5, <1>6, <1>7, <1>8, <1>9, <1>10, <1>11, <1>12, <1>13, <1>14,
     <1>15, <1>16, <1>17, Zenon

(* Only a restart forgets that a dropped instance was written through.       *)
LEMMA SplitSteps ==
    ASSUME SvType, [Next]_vars
    PROVE  (hist.split => hist'.split) \/ Restart \/ CrashInSave
<1>1. \/ UNCHANGED hist
      \/ \E c \in Clients : LoadServerKeyBag(c)
      \/ \E c \in Clients : PersistTenantPublicInfosKey(c)
      \/ \E c \in Clients : RemoveTenantFiles(c)
      \/ \E c \in Clients : GenerateToken(c)
      \/ \E c \in Clients : PutStore(c)
      \/ \E c \in Clients : PushDirectoryStore(c)
      \/ PurgeDocHistory
      \/ PurgeDocHistoryFails
      \/ ServerSyncPut
      \/ Restart
      \/ CrashInSave
  <2>1. CASE Registration
    BY <2>1, Zenon
      DEF Registration, RegisterTenant, RegisterConfig, RegisterCompare, PersistFailed,
         RemoveTenant
  <2>2. CASE Loading
    BY <2>2, Zenon DEF Loading, GetTenant, LoadTenantStart, LoadTenant
  <2>3. CASE LoadInBackground
    BY <2>3, Zenon DEF LoadInBackground
  <2>4. CASE Authentication
    BY <2>4, Zenon
      DEF Authentication, Challenge, GenerateChallenge, Authenticate, ClaimChallenge,
         VerifySignature, SystemChallenge, ChallengeExpires
  <2>5. CASE Pushing
    BY <2>5, Zenon DEF Pushing, PutEntries, PutGate, PutDenylist, PutCheck, PushDirectory
  <2>6. CASE Purging
    BY <2>6, Zenon
      DEF Purging, PurgeRead, MarkRequestProcessed, PurgeRequest, RecordPurgedDoc
  <2>7. CASE Events
    BY <2>7, Zenon DEF Events, Subscribe, Disconnect, SyncEvents, PublishEvent
  <2>8. CASE Configuring
    BY <2>8, Zenon DEF Configuring, UpdateConfig, ReloadConfig, UpdateTenantConfig
  <2>9. CASE ServerSyncStart
    BY <2>9, Zenon DEF ServerSyncStart
  <2>10. CASE ServerSyncScan
    BY <2>10, Zenon DEF ServerSyncScan
  <2>11. CASE UNCHANGED vars
    BY <2>11, Zenon DEF vars
  <2> QED
    BY <2>1, <2>2, <2>3, <2>4, <2>5, <2>6, <2>7, <2>8, <2>9, <2>10, <2>11, Zenon DEF Next
<1>2. CASE UNCHANGED hist
  BY <1>2
<1>3. ASSUME NEW c \in Clients,
             LoadServerKeyBag(c)
      PROVE  (hist.split => hist'.split) \/ Restart \/ CrashInSave
  BY <1>3 DEF LoadServerKeyBag, TakeBag, SvType, HistType
<1>4. ASSUME NEW c \in Clients,
             PersistTenantPublicInfosKey(c)
      PROVE  (hist.split => hist'.split) \/ Restart \/ CrashInSave
  BY <1>4 DEF PersistTenantPublicInfosKey, SvType, HistType
<1>5. ASSUME NEW c \in Clients,
             RemoveTenantFiles(c)
      PROVE  (hist.split => hist'.split) \/ Restart \/ CrashInSave
  BY <1>5 DEF RemoveTenantFiles, SvType, HistType
<1>6. ASSUME NEW c \in Clients,
             GenerateToken(c)
      PROVE  (hist.split => hist'.split) \/ Restart \/ CrashInSave
  BY <1>6 DEF GenerateToken, SvType, HistType
<1>7. ASSUME NEW c \in Clients,
             PutStore(c)
      PROVE  (hist.split => hist'.split) \/ Restart \/ CrashInSave
  BY <1>7 DEF PutStore, SvType, HistType
<1>8. ASSUME NEW c \in Clients,
             PushDirectoryStore(c)
      PROVE  (hist.split => hist'.split) \/ Restart \/ CrashInSave
  BY <1>8 DEF PushDirectoryStore, SvType, HistType
<1>9. CASE PurgeDocHistoryFails
  BY <1>9 DEF PurgeDocHistoryFails, SvType, HistType
<1>10. CASE ServerSyncPut
  BY <1>10 DEF ServerSyncPut, SvType, HistType
<1>11. CASE Restart
  BY <1>11 DEF Restart, Lost, Restarted
<1>12. CASE CrashInSave
  BY <1>12 DEF CrashInSave, Lost, Restarted
<1>13. CASE PurgeDocHistory
  BY <1>13 DEF PurgeDocHistory, SvType, HistType
<1> QED
  BY <1>1, <1>2, <1>3, <1>4, <1>5, <1>6, <1>7, <1>8, <1>9, <1>10, <1>11, <1>12, <1>13, Zenon


-------------------------------------------------------------------------------
(* Grants: what a handler that is late can still do.                        *)
LEMMA LateStays ==
    ASSUME SvType, GrantPart, [Next]_vars, DirsStay, NEW c \in Clients, req'[c].late
    PROVE  /\ files'.dir.grant[Token(c)'.key] # "active"
           /\ req[c].late \/ (req'[c].op = "push" /\ req'[c].pc = "tenant")
<1>1. CASE Stays(c)
  <2>1. req[c].late /\ Token(c)' = Token(c)
    BY <1>1 DEF Stays, Token
  <2>2. files.dir.grant[Token(c).key] # "active"
    BY <2>1 DEF GrantPart
  <2>3. files'.dir.grant = files.dir.grant
    BY DEF DirsStay
  <2> QED
    BY <2>1, <2>2, <2>3
<1>2. CASE req'[c] = Idle
  BY <1>2 DEF Idle
<1>3. CASE Comes(c)
  BY <1>3 DEF Comes
<1>4. CASE Begins(c)
  <2>1. PICK tok \in tokens, E \in budget.batches : PutEntries(c, tok, E)
    BY <1>4, BeginsConfig DEF Begins
  <2>2. /\ req'[c].op = "push" /\ req'[c].pc = "tenant" /\ req'[c].tok = {tok}
        /\ req'[c].late = (files.dir.grant[tok.key] # "active")
    BY <2>1, BeginsPush
  <2>3. Token(c)' = tok
    BY <2>2 DEF Token
  <2> QED
    BY <2>2, <2>3 DEF DirsStay
<1>5. CASE Carries(c) /\ GoesOn(c)
  <2>1. req[c].late /\ Token(c)' = Token(c)
    BY <1>5 DEF Carries, Token
  <2>2. files.dir.grant[Token(c).key] # "active"
    BY <2>1 DEF GrantPart
  <2>3. files'.dir.grant = files.dir.grant
    BY DEF DirsStay
  <2> QED
    BY <2>1, <2>2, <2>3
<1> QED
  BY <1>1, <1>2, <1>3, <1>4, <1>5, CallSteps DEF CallStep

(* The instance a client is given knows the grants on the disk.             *)
LEMMA LoadedKnows ==
    ASSUME SvType, GrantPart, [Next]_vars, DirsStay, hist.split => hist'.split,
           ~hist'.split, mem'.loaded[Main] # 0
    PROVE  inst'[mem'.loaded[Main]].dir = files'.dir
<1>1. CASE Loads
  BY <1>1, NewInstanceFacts DEF Loads, SvType
<1>2. CASE mem'.loaded[Main] = mem.loaded[Main]
  <2>1. mem.loaded[Main] \in 1..Len(inst)
    BY <1>2 DEF SvType, MemType
  <2> QED
    BY <1>2, <2>1 DEF GrantPart, DirsStay
<1> QED
  BY <1>1, <1>2, LoadedSteps DEF LoadedStep

LEMMA StopsAtTheGate ==
    ASSUME SvType, GrantPart, [Next]_vars, DirsStay, hist.split => hist'.split,
           NEW c \in Clients, req'[c].op = "push", req'[c].late, ~hist'.split
    PROVE  /\ req'[c].pc \in {"tenant", "loading", "gate"}
           /\ req'[c].pc = "gate" => inst'[req'[c].i].dir.grant[Token(c)'.key] # "active"
<1>1. CASE req'[c].pc = "tenant"
  BY <1>1
<1>2. CASE req'[c].pc # "tenant"
  <2>1. /\ req[c].late /\ ~hist.split
        /\ files'.dir.grant[Token(c)'.key] # "active"
    BY <1>2, LateStays
  <2>2. CASE Stays(c)
    <3>1. /\ req[c].op = "push" /\ req[c].pc = req'[c].pc /\ req'[c].i = req[c].i
          /\ Token(c)' = Token(c)
      BY <2>2 DEF Stays, Token
    <3>2. req[c].pc = "gate" => req[c].i \in 1..Len(inst)
      BY <3>1, CallFacts DEF CallOK
    <3> QED
      BY <2>1, <3>1, <3>2 DEF GrantPart, DirsStay
  <2>3. CASE Carries(c) /\ GoesOn(c)
    <3>1. /\ req[c].op = "push" /\ Token(c)' = Token(c)
          /\ req[c].pc \in {"tenant", "loading", "gate"}
          /\ req[c].pc = "gate" => /\ inst[req[c].i].dir.grant[Token(c).key] # "active"
                                   /\ ~PutGate(c) \/ req'[c].pc # "denylist"
      <4>1. /\ req[c].op = "push" /\ Token(c)' = Token(c)
            /\ req[c].pc \in {"tenant", "loading", "gate"}
            /\ req[c].pc = "gate" => inst[req[c].i].dir.grant[Token(c).key] # "active"
        BY <2>1, <2>3 DEF Carries, Token, GrantPart
      <4>2. ASSUME req[c].pc = "gate", PutGate(c), req'[c].pc = "denylist" PROVE FALSE
        BY <4>1, <4>2, ReqIs DEF PutGate, ValidateToken, Answered, Idle
      <4> QED
        BY <4>1, <4>2
    <3>2. req'[c].pc \in {"loading", "gate"}
      BY <1>2, <2>3, <3>1
        DEF GoesOn, RegisterConfig, LoadServerKeyBag, ClaimChallenge, PutGate, PutDenylist,
            PutCheck, In, Carries
    <3>3. CASE req'[c].pc = "gate"
      <4>1. GetTenant(c) \/ LoadTenant(c)
        BY <2>3, <3>3 DEF GoesOn
      <4>2. req'[c].i = mem'.loaded[Main] /\ mem'.loaded[Main] # 0
        <5>1. CASE GetTenant(c)
          <6>1. req'[c] = [req[c] EXCEPT !.pc = "gate", !.i = mem.loaded[Main]]
            BY <5>1, ReqIs DEF GetTenant
          <6>2. mem' = mem /\ mem.loaded[Main] # 0
            BY <5>1 DEF GetTenant
          <6>3. req[c] \in Requests
            BY CallFacts
          <6>4. req'[c].i = mem.loaded[Main]
            BY <6>1, <6>3 DEF Requests
          <6> QED
            BY <6>2, <6>4
        <5>2. CASE LoadTenant(c)
          <6>1. /\ mem' = Caching(mem, Main, Len(inst) + 1) /\ Len(inst) + 1 \in Nat
                /\ Len(inst) + 1 # 0
            BY <5>2, LengthsGrow DEF LoadTenant, Caching
          <6>2. mem'.loaded[Main] = Len(inst) + 1
            BY <6>1, SetLoaded, ServerAssumption DEF SvType
          <6>3. req'[c] = [req[c] EXCEPT !.pc = "gate", !.i = Len(inst) + 1]
            BY <5>2, ReqIs DEF LoadTenant
          <6> QED
            BY <6>1, <6>2, <6>3, CallFacts DEF Requests
        <5> QED
          BY <4>1, <5>1, <5>2
      <4> QED
        BY <2>1, <3>3, <4>2, LoadedKnows
    <3> QED
      BY <3>2, <3>3
  <2>4. CASE Begins(c)
    BY <1>2, <2>4, BeginsPush, BeginsConfig DEF Begins
  <2>5. req'[c] # Idle /\ ~Comes(c)
    BY DEF Idle, Comes
  <2> QED
    BY <2>2, <2>3, <2>4, <2>5, CallSteps DEF CallStep
<1> QED
  BY <1>1, <1>2

LEMMA LengthsAre == ASSUME SvType PROVE Len(inst) \in Nat /\ Len(tickets) \in Nat
BY DEF SvType, AuthType

LEMMA GrantPushed ==
    ASSUME SvType, GrantPart, NEW c \in Clients, PushDirectoryStore(c)
    PROVE  GrantPart'
<1> DEFINE i == req[c].i
<1>1. PICK ch \in GrantChanges \cup PurgeChanges :
           /\ i \in 1..Len(inst) /\ Len(inst') = Len(inst)
           /\ files'.dir = Directory(files.dir, ch)
           /\ inst'[i].dir = Directory(inst[i].dir, ch)
           /\ \A j \in 1..Len(inst) : j # i => inst'[j] = inst[j]
           /\ hist'.split = (hist.split \/ i # mem.loaded[Main])
  BY DirectoryPushed
<1>2. mem' = mem
  BY DEF PushDirectoryStore
<1> DEFINE b(x) == req[x].late /\ files'.dir.grant[Token(x).key] # "active"
<1>3. req'[c] = Idle /\ ~Idle.late /\ Idle.op # "push"
  BY ReqIs DEF PushDirectoryStore, Idle
<1>4. ASSUME NEW d \in Clients, d # c
      PROVE  /\ req'[d].late = b(d) /\ req'[d].op = req[d].op /\ req'[d].pc = req[d].pc
             /\ req'[d].i = req[d].i /\ Token(d)' = Token(d)
  <2>1. req'[d] = [req[d] EXCEPT !.late = b(d)]
    BY <1>4 DEF PushDirectoryStore
  <2>2. b(d) \in BOOLEAN
    OBVIOUS
  <2> HIDE DEF b
  <2> QED
    BY <2>1, <2>2, CallFacts DEF Requests, Token
<1>5. ~hist'.split => ~hist.split /\ i = mem.loaded[Main] /\ mem.loaded[Main] # 0
                      /\ inst'[i].dir = files'.dir
  <2> SUFFICES ASSUME ~hist'.split
               PROVE  ~hist.split /\ i = mem.loaded[Main] /\ mem.loaded[Main] # 0
                      /\ inst'[i].dir = files'.dir
    OBVIOUS
  <2>1. ~hist.split /\ i = mem.loaded[Main]
    BY <1>1
  <2>2. i # 0
    BY <1>1, LengthsAre
  <2>3. inst[i].dir = files.dir
    BY <2>1, <2>2 DEF GrantPart
  <2> QED
    BY <1>1, <2>1, <2>2, <2>3
<1> HIDE DEF i
<1>6. ASSUME NEW d \in Clients, req'[d].late PROVE files'.dir.grant[Token(d)'.key] # "active"
  BY <1>3, <1>4, <1>6
<1>7. ASSUME NEW d \in Clients, req'[d].op = "push", req'[d].late, ~hist'.split
      PROVE  /\ req'[d].pc \in {"tenant", "loading", "gate"}
             /\ req'[d].pc = "gate" => inst'[req'[d].i].dir.grant[Token(d)'.key] # "active"
  <2>1. /\ d # c /\ req[d].late /\ req[d].op = "push" /\ ~hist.split
        /\ req'[d].pc = req[d].pc /\ req'[d].i = req[d].i /\ Token(d)' = Token(d)
    BY <1>3, <1>4, <1>5, <1>7
  <2>2. req[d].pc = "gate" => req[d].i \in 1..Len(inst)
    BY <2>1, CallFacts DEF CallOK
  <2>3. CASE req[d].i = i
    BY <1>5, <1>6, <1>7, <2>1, <2>3 DEF GrantPart
  <2>4. CASE req[d].i # i
    BY <1>1, <1>7, <2>1, <2>2, <2>4 DEF GrantPart
  <2> QED
    BY <2>3, <2>4
<1> QED
  BY <1>2, <1>5, <1>6, <1>7 DEF GrantPart

LEMMA GrantKept ==
    ASSUME SvType, GrantPart, [Next]_vars
    PROVE  GrantPart'
<1>1. CASE \E c \in Clients : PushDirectoryStore(c)
  BY <1>1, GrantPushed
<1>2. CASE Restart \/ CrashInSave
  <2>1. req' = [c \in Clients |-> Idle] /\ mem'.loaded[Main] = 0
    <3>1. CASE Restart
      BY <3>1, ServerAssumption DEF Restart, Lost, Restarted
    <3>2. CASE CrashInSave
      BY <3>2, ServerAssumption DEF CrashInSave, Lost, Restarted
    <3> QED
      BY <1>2, <3>1, <3>2
  <2> QED
    BY <2>1 DEF GrantPart, Idle
<1>3. CASE DirsStay /\ (hist.split => hist'.split)
  BY <1>3, LoadedKnows, LateStays, StopsAtTheGate DEF GrantPart
<1> QED
  BY <1>1, <1>2, <1>3, DirSteps, SplitSteps


-------------------------------------------------------------------------------
(* What was acknowledged: the disk and the instance in use keep it.         *)
LEMMA PurgesGrow ==
    ASSUME SvType, [Next]_vars
    PROVE  files.dir.purges \subseteq files'.dir.purges /\ Requested \subseteq Requested'
<1>1. files.dir.purges \subseteq files'.dir.purges
  <2>1. CASE DirsStay
    BY <2>1 DEF DirsStay
  <2>2. ASSUME NEW c \in Clients, PushDirectoryStore(c)
        PROVE  files.dir.purges \subseteq files'.dir.purges
    <3>1. PICK ch \in GrantChanges \cup PurgeChanges : files'.dir = Directory(files.dir, ch)
      BY <2>2, DirectoryPushed
    <3>2. files.dir \in Dirs
      BY DEF SvType, FilesType
    <3> QED
      BY <3>1, <3>2, DirectoryType
  <2> QED
    BY <2>1, <2>2, DirSteps
<1> QED
  BY <1>1 DEF Requested

LEMMA InstancesLag ==
    ASSUME SvType, ServedPart, [Next]_vars, NEW j \in DOMAIN inst'
    PROVE  inst'[j].dir.purges \subseteq files'.dir.purges
<1>0. /\ inst \in Seq(Instances) /\ inst' \in Seq(Instances) /\ files.dir \in Dirs
      /\ DOMAIN inst = 1..Len(inst) /\ j \in 1..Len(inst') /\ Len(inst) \in Nat
  BY InstKept DEF SvType, FilesType
<1>1. CASE Loads
  BY <1>0, <1>1, NewInstanceFacts DEF Loads, SvType, ServedPart
<1>2. CASE Len(inst') = Len(inst) /\ DirsStay
  BY <1>0, <1>2 DEF DirsStay, ServedPart
<1>3. ASSUME NEW c \in Clients, PushDirectoryStore(c)
      PROVE  inst'[j].dir.purges \subseteq files'.dir.purges
  <2> DEFINE i == req[c].i
  <2>1. PICK ch \in GrantChanges \cup PurgeChanges :
           /\ i \in 1..Len(inst) /\ Len(inst') = Len(inst)
           /\ files'.dir = Directory(files.dir, ch)
           /\ inst'[i].dir = Directory(inst[i].dir, ch)
           /\ \A n \in 1..Len(inst) : n # i => inst'[n] = inst[n]
    BY <1>3, DirectoryPushed
  <2> HIDE DEF i
  <2>2. CASE j = i
    <3>1. inst[i].dir \in Dirs /\ inst[i].dir.purges \subseteq files.dir.purges
      BY <1>0, <2>1, InstanceFields DEF ServedPart
    <3> QED
      BY <1>0, <2>1, <2>2, <3>1 DEF Directory, Dirs, GrantChanges, PurgeChanges
  <2>3. CASE j # i
    <3>1. inst'[j] = inst[j] /\ j \in DOMAIN inst
      BY <1>0, <2>1, <2>3
    <3> QED
      BY <3>1, PurgesGrow DEF ServedPart
  <2> QED
    BY <2>2, <2>3
<1> QED
  BY <1>1, <1>2, <1>3, DirSteps, LoadedSteps DEF LoadedStep

LEMMA EntriesSteps ==
    ASSUME SvType, [Next]_vars
    PROVE  \A e \in files.entries : e \in files'.entries \/ DocOf[e] \in purge.doc
<1>1. \/ UNCHANGED files
      \/ \E c \in Clients : RegisterConfig(c)
      \/ \E c \in Clients : PersistTenantPublicInfosKey(c)
      \/ \E c \in Clients : PersistFailed(c)
      \/ \E c \in Clients : RemoveTenantFiles(c)
      \/ \E c \in Clients : PutStore(c)
      \/ \E c \in Clients : PushDirectoryStore(c)
      \/ PurgeDocHistory
      \/ MarkRequestProcessed
      \/ \E c \in Clients : ReloadConfig(c)
      \/ ServerSyncPut
      \/ CrashInSave
  <2>1. CASE Registration
    BY <2>1, Zenon
      DEF Registration, RegisterTenant, RegisterCompare, LoadServerKeyBag, RemoveTenant
  <2>2. CASE Loading
    BY <2>2, Zenon DEF Loading, GetTenant, LoadTenantStart, LoadTenant
  <2>3. CASE LoadInBackground
    BY <2>3, Zenon DEF LoadInBackground
  <2>4. CASE Authentication
    BY <2>4, Zenon
      DEF Authentication, Challenge, GenerateChallenge, Authenticate, ClaimChallenge,
         VerifySignature, GenerateToken, SystemChallenge, ChallengeExpires
  <2>5. CASE Pushing
    BY <2>5, Zenon DEF Pushing, PutEntries, PutGate, PutDenylist, PutCheck, PushDirectory
  <2>6. CASE Purging
    BY <2>6, Zenon
      DEF Purging, PurgeRead, PurgeDocHistoryFails, PurgeRequest, RecordPurgedDoc
  <2>7. CASE Events
    BY <2>7, Zenon DEF Events, Subscribe, Disconnect, SyncEvents, PublishEvent
  <2>8. CASE Configuring
    BY <2>8, Zenon DEF Configuring, UpdateConfig, UpdateTenantConfig
  <2>9. CASE ServerSyncStart
    BY <2>9, Zenon DEF ServerSyncStart
  <2>10. CASE ServerSyncScan
    BY <2>10, Zenon DEF ServerSyncScan
  <2>11. CASE Restart
    BY <2>11, Zenon DEF Restart
  <2>12. CASE UNCHANGED vars
    BY <2>12, Zenon DEF vars
  <2> QED
    BY <2>1, <2>2, <2>3, <2>4, <2>5, <2>6, <2>7, <2>8, <2>9, <2>10, <2>11, <2>12, Zenon
      DEF Next
<1>2. CASE UNCHANGED files
  BY <1>2
<1>3. ASSUME NEW c \in Clients,
             RegisterConfig(c)
      PROVE  \A e \in files.entries : e \in files'.entries \/ DocOf[e] \in purge.doc
  BY <1>3 DEF RegisterConfig, SvType, FilesType
<1>4. ASSUME NEW c \in Clients,
             PersistTenantPublicInfosKey(c)
      PROVE  \A e \in files.entries : e \in files'.entries \/ DocOf[e] \in purge.doc
  BY <1>4 DEF PersistTenantPublicInfosKey, SvType, FilesType
<1>5. ASSUME NEW c \in Clients,
             PersistFailed(c)
      PROVE  \A e \in files.entries : e \in files'.entries \/ DocOf[e] \in purge.doc
  BY <1>5 DEF PersistFailed, SvType, FilesType
<1>6. ASSUME NEW c \in Clients,
             RemoveTenantFiles(c)
      PROVE  \A e \in files.entries : e \in files'.entries \/ DocOf[e] \in purge.doc
  BY <1>6 DEF RemoveTenantFiles, SvType, FilesType
<1>7. ASSUME NEW c \in Clients,
             PutStore(c)
      PROVE  \A e \in files.entries : e \in files'.entries \/ DocOf[e] \in purge.doc
  BY <1>7 DEF PutStore, SvType, FilesType
<1>8. ASSUME NEW c \in Clients,
             PushDirectoryStore(c)
      PROVE  \A e \in files.entries : e \in files'.entries \/ DocOf[e] \in purge.doc
  BY <1>8 DEF PushDirectoryStore, SvType, FilesType
<1>9. CASE PurgeDocHistory
  BY <1>9 DEF PurgeDocHistory, EntriesOf, SvType, FilesType
<1>10. CASE MarkRequestProcessed
  BY <1>10 DEF MarkRequestProcessed, SvType, FilesType
<1>11. ASSUME NEW c \in Clients,
              ReloadConfig(c)
       PROVE  \A e \in files.entries : e \in files'.entries \/ DocOf[e] \in purge.doc
  BY <1>11 DEF ReloadConfig, SvType, FilesType
<1>12. CASE ServerSyncPut
  BY <1>12 DEF ServerSyncPut, SvType, FilesType
<1>13. CASE CrashInSave
  BY <1>13 DEF CrashInSave, SvType, FilesType
<1> QED
  BY <1>1, <1>2, <1>3, <1>4, <1>5, <1>6, <1>7, <1>8, <1>9, <1>10, <1>11, <1>12, <1>13, Zenon

AckedStep ==
  /\ \A e \in hist'.acked : e \in hist.acked \/ e \in files'.entries
  /\ hist.excused \subseteq hist'.excused /\ hist.failed \subseteq hist'.failed
  /\ hist.left \subseteq hist'.left
  /\ hist'.acked = hist.acked \/ \E c \in Clients : PutStore(c)

LEMMA AckedSteps ==
    ASSUME SvType, [Next]_vars
    PROVE  AckedStep
<1>1. \/ UNCHANGED hist
      \/ \E c \in Clients : LoadServerKeyBag(c)
      \/ \E c \in Clients : PersistTenantPublicInfosKey(c)
      \/ \E c \in Clients : RemoveTenantFiles(c)
      \/ \E c \in Clients : GenerateToken(c)
      \/ \E c \in Clients : PutStore(c)
      \/ \E c \in Clients : PushDirectoryStore(c)
      \/ PurgeDocHistory
      \/ PurgeDocHistoryFails
      \/ ServerSyncPut
      \/ Restart
      \/ CrashInSave
  <2>1. CASE Registration
    BY <2>1, Zenon
      DEF Registration, RegisterTenant, RegisterConfig, RegisterCompare, PersistFailed,
         RemoveTenant
  <2>2. CASE Loading
    BY <2>2, Zenon DEF Loading, GetTenant, LoadTenantStart, LoadTenant
  <2>3. CASE LoadInBackground
    BY <2>3, Zenon DEF LoadInBackground
  <2>4. CASE Authentication
    BY <2>4, Zenon
      DEF Authentication, Challenge, GenerateChallenge, Authenticate, ClaimChallenge,
         VerifySignature, SystemChallenge, ChallengeExpires
  <2>5. CASE Pushing
    BY <2>5, Zenon DEF Pushing, PutEntries, PutGate, PutDenylist, PutCheck, PushDirectory
  <2>6. CASE Purging
    BY <2>6, Zenon
      DEF Purging, PurgeRead, MarkRequestProcessed, PurgeRequest, RecordPurgedDoc
  <2>7. CASE Events
    BY <2>7, Zenon DEF Events, Subscribe, Disconnect, SyncEvents, PublishEvent
  <2>8. CASE Configuring
    BY <2>8, Zenon DEF Configuring, UpdateConfig, ReloadConfig, UpdateTenantConfig
  <2>9. CASE ServerSyncStart
    BY <2>9, Zenon DEF ServerSyncStart
  <2>10. CASE ServerSyncScan
    BY <2>10, Zenon DEF ServerSyncScan
  <2>11. CASE UNCHANGED vars
    BY <2>11, Zenon DEF vars
  <2> QED
    BY <2>1, <2>2, <2>3, <2>4, <2>5, <2>6, <2>7, <2>8, <2>9, <2>10, <2>11, Zenon DEF Next
<1>2. CASE UNCHANGED hist
  BY <1>2 DEF AckedStep
<1>3. ASSUME NEW c \in Clients, LoadServerKeyBag(c) PROVE AckedStep
  BY <1>3 DEF LoadServerKeyBag, AckedStep, TakeBag, SvType, HistType
<1>4. ASSUME NEW c \in Clients, PersistTenantPublicInfosKey(c) PROVE AckedStep
  BY <1>4 DEF PersistTenantPublicInfosKey, AckedStep, SvType, HistType
<1>5. ASSUME NEW c \in Clients, RemoveTenantFiles(c) PROVE AckedStep
  BY <1>5 DEF RemoveTenantFiles, AckedStep, SvType, HistType
<1>6. ASSUME NEW c \in Clients, GenerateToken(c) PROVE AckedStep
  BY <1>6 DEF GenerateToken, AckedStep, SvType, HistType
<1>7. ASSUME NEW c \in Clients, PutStore(c) PROVE AckedStep
  BY <1>7 DEF PutStore, AckedStep, SvType, HistType, FilesType
<1>8. ASSUME NEW c \in Clients, PushDirectoryStore(c) PROVE AckedStep
  BY <1>8 DEF PushDirectoryStore, AckedStep, SvType, HistType
<1>9. CASE PurgeDocHistoryFails
  BY <1>9 DEF PurgeDocHistoryFails, AckedStep, SvType, HistType
<1>10. CASE ServerSyncPut
  BY <1>10 DEF ServerSyncPut, AckedStep, SvType, HistType
<1>11. CASE Restart
  BY <1>11 DEF Restart, AckedStep, SvType, HistType
<1>12. CASE CrashInSave
  BY <1>12 DEF CrashInSave, AckedStep, SvType, HistType
<1>13. CASE PurgeDocHistory
  BY <1>13 DEF PurgeDocHistory, AckedStep, SvType, HistType
<1> QED
  BY <1>1, <1>2, <1>3, <1>4, <1>5, <1>6, <1>7, <1>8, <1>9, <1>10, <1>11, <1>12, <1>13, Zenon


LEMMA ExcusedStays ==
    ASSUME SvType, [Next]_vars, NEW e, Excused(e)
    PROVE  Excused(e)'
BY PurgesGrow, AckedSteps DEF Excused, AckedStep

LEMMA ServedDiskKept ==
    ASSUME SvType, ServedPart, [Next]_vars
    PROVE  ServedDisk'
<1> SUFFICES ASSUME NEW e \in hist'.acked PROVE Excused(e)' \/ e \in files'.entries
  BY DEF ServedDisk
<1>1. CASE e \in files'.entries
  BY <1>1
<1>2. CASE e \in hist.acked
  <2>1. Excused(e) \/ e \in files.entries
    BY <1>2 DEF ServedPart, ServedDisk
  <2>2. CASE Excused(e)
    BY <2>2, ExcusedStays
  <2>3. CASE e \in files.entries
    <3>1. CASE DocOf[e] \in purge.doc
      <4>1. Excused(e)
        BY <3>1 DEF ServedPart, ServedPurge, Excused
      <4> QED
        BY <4>1, ExcusedStays
    <3> QED
      BY <2>3, <3>1, EntriesSteps
  <2> QED
    BY <2>1, <2>2, <2>3
<1> QED
  BY <1>1, <1>2, AckedSteps DEF AckedStep

LEMMA ServedPurgeKept ==
    ASSUME SvType, ServedPart, [Next]_vars
    PROVE  ServedPurge'
<1>1. \/ UNCHANGED purge
      \/ \E c \in Clients : PushDirectoryStore(c)
      \/ PurgeRead
      \/ PurgeDocHistory
      \/ PurgeDocHistoryFails
      \/ MarkRequestProcessed
      \/ \E r \in Purges : PurgeRequest(r)
      \/ \E d \in Docs : RecordPurgedDoc(d)
      \/ Restart
      \/ CrashInSave
  <2>1. CASE Registration
    BY <2>1, Zenon
      DEF Registration, RegisterTenant, RegisterConfig, RegisterCompare, LoadServerKeyBag,
         PersistTenantPublicInfosKey, PersistFailed, RemoveTenant, RemoveTenantFiles
  <2>2. CASE Loading
    BY <2>2, Zenon DEF Loading, GetTenant, LoadTenantStart, LoadTenant
  <2>3. CASE LoadInBackground
    BY <2>3, Zenon DEF LoadInBackground
  <2>4. CASE Authentication
    BY <2>4, Zenon
      DEF Authentication, Challenge, GenerateChallenge, Authenticate, ClaimChallenge,
         VerifySignature, GenerateToken, SystemChallenge, ChallengeExpires
  <2>5. CASE Pushing
    BY <2>5, Zenon
      DEF Pushing, PutEntries, PutGate, PutDenylist, PutCheck, PutStore, PushDirectory
  <2>6. CASE Purging
    BY <2>6, Zenon DEF Purging
  <2>7. CASE Events
    BY <2>7, Zenon DEF Events, Subscribe, Disconnect, SyncEvents, PublishEvent
  <2>8. CASE Configuring
    BY <2>8, Zenon DEF Configuring, UpdateConfig, ReloadConfig, UpdateTenantConfig
  <2>9. CASE ServerSyncStart
    BY <2>9, Zenon DEF ServerSyncStart
  <2>10. CASE ServerSyncScan
    BY <2>10, Zenon DEF ServerSyncScan
  <2>11. CASE ServerSyncPut
    BY <2>11, Zenon DEF ServerSyncPut
  <2>12. CASE UNCHANGED vars
    BY <2>12, Zenon DEF vars
  <2> QED
    BY <2>1, <2>2, <2>3, <2>4, <2>5, <2>6, <2>7, <2>8, <2>9, <2>10, <2>11, <2>12, Zenon
      DEF Next
<1>2. CASE UNCHANGED purge
  BY <1>2, PurgesGrow DEF ServedPurge, ServedPart
<1>3. ASSUME NEW c \in Clients, PushDirectoryStore(c) PROVE ServedPurge'
  BY <1>3, PurgesGrow
    DEF PushDirectoryStore, TriggerPurge, ServedPurge, ServedPart, SvType, PurgeType
<1>4. CASE PurgeRead
  <2> DEFINE i == mem.loaded[Main]
  <2>1. i \in DOMAIN inst /\ files' = files
    BY <1>4 DEF PurgeRead, SvType, MemType
  <2>2. inst[i].dir.purges \subseteq files.dir.purges
    BY <2>1 DEF ServedPart
  <2> QED
    BY <1>4, <2>1, <2>2 DEF PurgeRead, NoPurge, ServedPurge
<1>5. CASE PurgeDocHistory
  BY <1>5, PurgesGrow
    DEF PurgeDocHistory, Purged, ServedPurge, ServedPart, SvType, PurgeType
<1>6. CASE PurgeDocHistoryFails
  BY <1>6, PurgesGrow
    DEF PurgeDocHistoryFails, Purged, ServedPurge, ServedPart, SvType, PurgeType
<1>7. CASE MarkRequestProcessed
  BY <1>7, PurgesGrow
    DEF MarkRequestProcessed, MarkNext, NoPurge, ServedPurge, ServedPart, SvType, PurgeType
<1>8. ASSUME NEW r \in Purges, PurgeRequest(r) PROVE ServedPurge'
  <2>1. /\ files' = files /\ r \in files.dir.purges
        /\ purge'.todo = purge.todo /\ purge'.cur = {r} /\ purge'.docs = PurgeDocs[r]
        /\ purge'.doc = purge.doc
    BY <1>8 DEF PurgeRequest, ServedPart, ServedPurge, SvType, PurgeType
  <2>2. Requested' = Requested /\ PurgeDocs[r] \subseteq Requested
    BY <2>1 DEF Requested
  <2> QED
    BY <2>1, <2>2 DEF ServedPart, ServedPurge
<1>9. ASSUME NEW d \in Docs, RecordPurgedDoc(d) PROVE ServedPurge'
  BY <1>9, PurgesGrow DEF RecordPurgedDoc, ServedPurge, ServedPart, SvType, PurgeType
<1>10. CASE Restart
  BY <1>10 DEF Restart, Lost, NoPurge, ServedPurge
<1>11. CASE CrashInSave
  BY <1>11 DEF CrashInSave, Lost, NoPurge, ServedPurge
<1> QED
  BY <1>1, <1>2, <1>3, <1>4, <1>5, <1>6, <1>7, <1>8, <1>9, <1>10, <1>11, Zenon


IndexStays(j) ==
  inst'[j].open =>
     \/ inst[j].open /\ \A e \in inst[j].index : e \in inst'[j].index \/ Excused(e)
     \/ \A e \in files.entries : e \in inst'[j].index \/ Excused(e)

LEMMA ServedIndexFrame ==
    ASSUME SvType, ServedPart, [Next]_vars, hist.split => hist'.split,
           mem'.loaded[Main] = mem.loaded[Main], \A j \in 1..Len(inst) : IndexStays(j),
           NEW e \in hist.acked
    PROVE  LET i == mem'.loaded[Main]
           IN \/ Excused(e)' \/ hist'.split \/ i = 0 \/ ~inst'[i].open \/ e \in inst'[i].index
<1> DEFINE i == mem.loaded[Main]
<1> SUFFICES ASSUME ~Excused(e)', ~hist'.split, i # 0, inst'[i].open
             PROVE  e \in inst'[i].index
  OBVIOUS
<1>1. ~Excused(e) /\ ~hist.split /\ i \in 1..Len(inst)
  BY ExcusedStays DEF SvType, MemType
<1>2. e \in files.entries /\ (inst[i].open => e \in inst[i].index)
  BY <1>1 DEF ServedPart, ServedDisk, ServedIndex
<1> HIDE DEF i
<1> QED
  BY <1>1, <1>2 DEF IndexStays


LEMMA ServedIndexStays ==
    ASSUME SvType, ServedPart, [Next]_vars, hist.split => hist'.split,
           hist'.acked = hist.acked, mem'.loaded[Main] = mem.loaded[Main],
           \A j \in 1..Len(inst) : IndexStays(j)
    PROVE  ServedIndex'
BY ServedIndexFrame DEF ServedIndex

(* No instance is handed out that is open.                                  *)
LEMMA ServedIndexDropped ==
    ASSUME mem'.loaded[Main] = 0 \/ ~inst'[mem'.loaded[Main]].open
    PROVE  ServedIndex'
BY DEF ServedIndex

LEMMA SameIndexStays ==
    ASSUME NEW j, inst'[j] = inst[j]
    PROVE  IndexStays(j)
BY DEF IndexStays

LEMMA ServedIndexKept ==
    ASSUME SvType, ServedPart, [Next]_vars
    PROVE  ServedIndex'
<1>1. \/ UNCHANGED <<inst, mem, hist>>
      \/ \E c \in Clients : LoadServerKeyBag(c)
      \/ \E c \in Clients : PersistTenantPublicInfosKey(c)
      \/ \E c \in Clients, t \in Tenants : RemoveTenant(c, t)
      \/ \E c \in Clients : RemoveTenantFiles(c)
      \/ \E c \in Clients : LoadTenant(c)
      \/ LoadInBackground
      \/ \E c \in Clients : GenerateToken(c)
      \/ \E c \in Clients : PutDenylist(c)
      \/ \E c \in Clients : PutStore(c)
      \/ \E c \in Clients : PushDirectoryStore(c)
      \/ PurgeDocHistory
      \/ PurgeDocHistoryFails
      \/ MarkRequestProcessed
      \/ \E d \in Docs : RecordPurgedDoc(d)
      \/ \E c \in Clients : ReloadConfig(c)
      \/ \E t \in Tenants : UpdateTenantConfig(t)
      \/ ServerSyncScan
      \/ ServerSyncPut
      \/ Restart
      \/ CrashInSave
  <2>1. CASE Registration
    BY <2>1, Zenon
      DEF Registration, RegisterTenant, RegisterConfig, RegisterCompare, PersistFailed
  <2>2. CASE Loading
    BY <2>2, Zenon DEF Loading, GetTenant, LoadTenantStart
  <2>3. CASE Authentication
    BY <2>3, Zenon
      DEF Authentication, Challenge, GenerateChallenge, Authenticate, ClaimChallenge,
         VerifySignature, SystemChallenge, ChallengeExpires
  <2>4. CASE Pushing
    BY <2>4, Zenon DEF Pushing, PutEntries, PutGate, PutCheck, PushDirectory
  <2>5. CASE Purging
    BY <2>5, Zenon DEF Purging, PurgeRead, PurgeRequest
  <2>6. CASE Events
    BY <2>6, Zenon DEF Events, Subscribe, Disconnect, SyncEvents, PublishEvent
  <2>7. CASE Configuring
    BY <2>7, Zenon DEF Configuring, UpdateConfig
  <2>8. CASE ServerSyncStart
    BY <2>8, Zenon DEF ServerSyncStart
  <2>9. CASE UNCHANGED vars
    BY <2>9, Zenon DEF vars
  <2> QED
    BY <2>1, <2>2, <2>3, <2>4, <2>5, <2>6, <2>7, <2>8, <2>9, Zenon DEF Next
<1>2. CASE UNCHANGED <<inst, mem, hist>>
  BY <1>2, SameIndexStays, ServedIndexStays
<1>3. ASSUME NEW c \in Clients, LoadServerKeyBag(c) PROVE ServedIndex'
  <2>1. /\ hist'.acked = hist.acked /\ (hist.split => hist'.split)
        /\ mem'.loaded[Main] = mem.loaded[Main] /\ inst' = inst
    BY <1>3 DEF LoadServerKeyBag, TakeBag, SvType, HistType
  <2> QED
    BY <2>1, SameIndexStays, ServedIndexStays
<1>4. ASSUME NEW c \in Clients, PersistTenantPublicInfosKey(c) PROVE ServedIndex'
  <2>1. /\ hist'.acked = hist.acked /\ (hist.split => hist'.split)
        /\ mem'.loaded[Main] = mem.loaded[Main] /\ inst' = inst
    BY <1>4 DEF PersistTenantPublicInfosKey, SvType, HistType
  <2> QED
    BY <2>1, SameIndexStays, ServedIndexStays
<1>5. ASSUME NEW c \in Clients, NEW t \in Tenants, RemoveTenant(c, t) PROVE ServedIndex'
  <2>1. mem' = Caching(mem, t, 0) /\ inst' = inst /\ hist' = hist
    BY <1>5 DEF RemoveTenant, Caching
  <2>2. mem'.loaded[Main] = 0 \/ mem'.loaded[Main] = mem.loaded[Main]
    BY <2>1, SetLoaded DEF SvType
  <2> QED
    BY <2>1, <2>2, SameIndexStays, ServedIndexStays, ServedIndexDropped
<1>6. ASSUME NEW c \in Clients, RemoveTenantFiles(c) PROVE ServedIndex'
  <2>1. /\ hist'.acked = hist.acked /\ (hist.split => hist'.split)
        /\ mem'.loaded[Main] = mem.loaded[Main] /\ inst' = inst
    BY <1>6 DEF RemoveTenantFiles, SvType, HistType
  <2> QED
    BY <2>1, SameIndexStays, ServedIndexStays
<1>7. ASSUME NEW c \in Clients, LoadTenant(c) PROVE ServedIndex'
  <2>1. mem' = Caching(mem, Main, Len(inst) + 1) /\ Len(inst) + 1 \in Nat
    BY <1>7, LengthsAre DEF LoadTenant, Caching
  <2>2. mem'.loaded[Main] = Len(inst) + 1
    BY <2>1, SetLoaded, ServerAssumption DEF SvType
  <2>3. inst' = Append(inst, NewInstance(Main))
    BY <1>7 DEF LoadTenant
  <2>4. ~inst'[Len(inst) + 1].open
    BY <2>3, NewInstanceFacts DEF SvType
  <2> QED
    BY <2>2, <2>4, ServedIndexDropped
<1>8. CASE LoadInBackground
  <2>1. mem' = Caching(mem, Main, Len(inst) + 1) /\ Len(inst) + 1 \in Nat
    BY <1>8, LengthsAre DEF LoadInBackground, Caching
  <2>2. mem'.loaded[Main] = Len(inst) + 1
    BY <2>1, SetLoaded, ServerAssumption DEF SvType
  <2>3. inst' = Append(inst, NewInstance(Main))
    BY <1>8 DEF LoadInBackground
  <2>4. ~inst'[Len(inst) + 1].open
    BY <2>3, NewInstanceFacts DEF SvType
  <2> QED
    BY <2>2, <2>4, ServedIndexDropped
<1>9. ASSUME NEW c \in Clients, GenerateToken(c) PROVE ServedIndex'
  <2>1. /\ hist'.acked = hist.acked /\ (hist.split => hist'.split)
        /\ mem'.loaded[Main] = mem.loaded[Main] /\ inst' = inst
    BY <1>9 DEF GenerateToken, SvType, HistType
  <2> QED
    BY <2>1, SameIndexStays, ServedIndexStays
<1>10. ASSUME NEW c \in Clients, PutDenylist(c) PROVE ServedIndex'
  <2> DEFINE i == req[c].i
  <2>1. i \in 1..Len(inst) /\ inst' = Opened(i) /\ mem' = mem /\ hist' = hist
    BY <1>10, CallFacts DEF PutDenylist, In, CallOK
  <2> HIDE DEF i
  <2>2. \A j \in 1..Len(inst) : j # i => IndexStays(j)
    BY <2>1, OpeningKeepsDirs, SameIndexStays
  <2>3. IndexStays(i)
    BY <2>1, OpeningKeepsDirs DEF IndexStays
  <2> QED
    BY <2>1, <2>2, <2>3, ServedIndexStays
<1>11. ASSUME NEW c \in Clients, PutStore(c) PROVE ServedIndex'
  <2> DEFINE i == req[c].i
             E == req[c].view
  <2>1. /\ Len(inst') = Len(inst) /\ \A j \in 1..Len(inst) : j # i => inst'[j] = inst[j]
        /\ inst'[i].open = inst[i].open /\ inst'[i].index = inst[i].index \cup E
        /\ i \in 1..Len(inst)
    BY <1>11, StoredByPush, StoredInInstance
  <2>2. /\ mem' = mem /\ hist'.acked = hist.acked \cup E
        /\ hist'.split = (hist.split \/ i # mem.loaded[Main])
    BY <1>11 DEF PutStore, SvType, HistType
  <2> HIDE DEF i, E
  <2>3. \A j \in 1..Len(inst) : IndexStays(j)
    BY <2>1, SameIndexStays DEF IndexStays
  <2>4. \A e \in E : hist'.split \/ e \in inst'[mem'.loaded[Main]].index
    BY <2>1, <2>2
  <2> QED
    BY <2>2, <2>3, <2>4, ServedIndexFrame DEF ServedIndex
<1>12. ASSUME NEW c \in Clients, PushDirectoryStore(c) PROVE ServedIndex'
  <2> DEFINE i == req[c].i
  <2>1. /\ inst'[i].open = inst[i].open /\ inst'[i].index = inst[i].index
        /\ \A j \in 1..Len(inst) : j # i => inst'[j] = inst[j]
        /\ hist'.split = (hist.split \/ i # mem.loaded[Main])
    BY <1>12, DirectoryPushed
  <2>2. mem' = mem /\ hist'.acked = hist.acked
    BY <1>12 DEF PushDirectoryStore, SvType, HistType
  <2> HIDE DEF i
  <2>3. \A j \in 1..Len(inst) : IndexStays(j)
    BY <2>1, SameIndexStays DEF IndexStays
  <2> QED
    BY <2>1, <2>2, <2>3, ServedIndexStays
<1>13. CASE PurgeDocHistory
  <2> DEFINE i == mem.loaded[Main]
  <2>1. /\ i \in 1..Len(inst)
        /\ \A j \in 1..Len(inst) : j # i => inst'[j] = inst[j]
        /\ inst'[i].index = Opened(i)[i].index \ EntriesOf(purge.doc)
    BY <1>13, PurgedInInstance
  <2>2. mem' = mem /\ hist'.acked = hist.acked /\ hist'.split = hist.split
    BY <1>13 DEF PurgeDocHistory, SvType, HistType
  <2> HIDE DEF i
  <2>3. /\ Opened(i)[i].index = IF inst[i].open THEN inst[i].index ELSE files.entries
    BY <2>1, OpeningKeepsDirs
  <2>4. \A e \in EntriesOf(purge.doc) : Excused(e)
    BY DEF ServedPart, ServedPurge, EntriesOf, Excused
  <2>5. IndexStays(i)
    BY <2>1, <2>3, <2>4 DEF IndexStays
  <2> QED
    BY <2>1, <2>2, <2>5, SameIndexStays, ServedIndexStays
<1>14. CASE PurgeDocHistoryFails
  <2>1. /\ hist'.acked = hist.acked /\ (hist.split => hist'.split)
        /\ mem'.loaded[Main] = mem.loaded[Main] /\ inst' = inst
    BY <1>14 DEF PurgeDocHistoryFails, SvType, HistType
  <2> QED
    BY <2>1, SameIndexStays, ServedIndexStays
<1>15. CASE MarkRequestProcessed
  <2>1. /\ hist'.acked = hist.acked /\ (hist.split => hist'.split)
        /\ mem'.loaded[Main] = mem.loaded[Main] /\ inst' = inst
    BY <1>15 DEF MarkRequestProcessed, SvType, MemType, Memories
  <2> QED
    BY <2>1, SameIndexStays, ServedIndexStays
<1>16. ASSUME NEW d \in Docs, RecordPurgedDoc(d) PROVE ServedIndex'
  <2>1. /\ hist'.acked = hist.acked /\ (hist.split => hist'.split)
        /\ mem'.loaded[Main] = mem.loaded[Main] /\ inst' = inst
    BY <1>16 DEF RecordPurgedDoc, SvType, MemType, Memories
  <2> QED
    BY <2>1, SameIndexStays, ServedIndexStays
<1>17. ASSUME NEW c \in Clients, ReloadConfig(c) PROVE ServedIndex'
  <2>1. /\ hist'.acked = hist.acked /\ (hist.split => hist'.split)
        /\ mem'.loaded[Main] = mem.loaded[Main] /\ inst' = inst
    BY <1>17 DEF ReloadConfig, SvType, MemType, Memories
  <2> QED
    BY <2>1, SameIndexStays, ServedIndexStays
<1>18. ASSUME NEW t \in Tenants, UpdateTenantConfig(t) PROVE ServedIndex'
  <2>1. mem' = Caching(mem, t, 0) /\ inst' = inst /\ hist' = hist
    BY <1>18 DEF UpdateTenantConfig, Caching
  <2>2. mem'.loaded[Main] = 0 \/ mem'.loaded[Main] = mem.loaded[Main]
    BY <2>1, SetLoaded DEF SvType
  <2> QED
    BY <2>1, <2>2, SameIndexStays, ServedIndexStays, ServedIndexDropped
<1>19. CASE ServerSyncScan
  <2> DEFINE i == mem.loaded[Main]
  <2>1. i \in 1..Len(inst) /\ inst' = Opened(i) /\ mem' = mem /\ hist' = hist
    BY <1>19 DEF ServerSyncScan, SvType, MemType
  <2> HIDE DEF i
  <2>2. \A j \in 1..Len(inst) : j # i => IndexStays(j)
    BY <2>1, OpeningKeepsDirs, SameIndexStays
  <2>3. IndexStays(i)
    BY <2>1, OpeningKeepsDirs DEF IndexStays
  <2> QED
    BY <2>1, <2>2, <2>3, ServedIndexStays
<1>20. CASE ServerSyncPut
  <2> DEFINE i == upstream.i
             E == upstream.view
  <2>1. /\ Len(inst') = Len(inst) /\ \A j \in 1..Len(inst) : j # i => inst'[j] = inst[j]
        /\ inst'[i].open = inst[i].open /\ inst'[i].index = inst[i].index \cup E
        /\ i \in 1..Len(inst)
    BY <1>20, StoredBySync, StoredInInstance
  <2>2. /\ mem' = mem /\ hist'.acked = hist.acked
        /\ hist'.split = (hist.split \/ i # mem.loaded[Main])
    BY <1>20 DEF ServerSyncPut, SvType, HistType
  <2> HIDE DEF i, E
  <2>3. \A j \in 1..Len(inst) : IndexStays(j)
    BY <2>1, SameIndexStays DEF IndexStays
  <2> QED
    BY <2>2, <2>3, ServedIndexStays
<1>21. CASE Restart
  <2>1. mem'.loaded[Main] = 0
    BY <1>21, ServerAssumption DEF Restart, Restarted
  <2> QED
    BY <2>1, ServedIndexDropped
<1>22. CASE CrashInSave
  <2>1. mem'.loaded[Main] = 0
    BY <1>22, ServerAssumption DEF CrashInSave, Restarted
  <2> QED
    BY <2>1, ServedIndexDropped
<1> QED
  BY <1>1, <1>2, <1>3, <1>4, <1>5, <1>6, <1>7, <1>8, <1>9, <1>10, <1>11, <1>12, <1>13, <1>14,
     <1>15, <1>16, <1>17, <1>18, <1>19, <1>20, <1>21, <1>22, Zenon

LEMMA ServedKept ==
    ASSUME SvType, ServedPart, [Next]_vars
    PROVE  ServedPart'
BY InstancesLag, ServedPurgeKept, ServedDiskKept, ServedIndexKept DEF ServedPart


-------------------------------------------------------------------------------
(* Purges: what was erased stays erased, unless a named window is passed.   *)
(* The loaded instance lists the disk.                                      *)
IndexGrows(j) ==
  inst'[j].open => IF inst[j].open THEN inst[j].index \subseteq inst'[j].index
                   ELSE files.entries \subseteq inst'[j].index

LEMMA IndexFrame ==
    ASSUME SvType, IndexPart, [Next]_vars, hist.split => hist'.split,
           mem'.loaded[Main] = mem.loaded[Main], \A j \in 1..Len(inst) : IndexGrows(j),
           NEW E, files'.entries \subseteq files.entries \cup E,
           hist'.split \/ mem.loaded[Main] = 0 \/ E \subseteq inst'[mem.loaded[Main]].index
    PROVE  IndexPart'
<1> DEFINE i == mem.loaded[Main]
<1> SUFFICES ASSUME i # 0, ~hist'.split, inst'[i].open
             PROVE  files'.entries \subseteq inst'[i].index
  BY DEF IndexPart
<1>1. ~hist.split /\ i \in 1..Len(inst)
  BY DEF SvType, MemType
<1>2. inst[i].open => files.entries \subseteq inst[i].index
  BY <1>1 DEF IndexPart
<1>3. IndexGrows(i) /\ E \subseteq inst'[i].index
  BY <1>1
<1> HIDE DEF i
<1> QED
  BY <1>2, <1>3 DEF IndexGrows

LEMMA IndexStaysWhole ==
    ASSUME SvType, IndexPart, [Next]_vars, hist.split => hist'.split,
           mem'.loaded[Main] = mem.loaded[Main], \A j \in 1..Len(inst) : IndexGrows(j),
           files'.entries = files.entries
    PROVE  IndexPart'
<1>1. files'.entries \subseteq files.entries \cup {}
  OBVIOUS
<1> QED
  BY <1>1, IndexFrame

LEMMA SameIndexGrows ==
    ASSUME NEW j, inst'[j] = inst[j]
    PROVE  IndexGrows(j)
BY DEF IndexGrows

(* No instance is handed out that is open.                                  *)
LEMMA IndexDropped ==
    ASSUME mem'.loaded[Main] = 0 \/ ~inst'[mem'.loaded[Main]].open
    PROVE  IndexPart'
BY DEF IndexPart

(* What purgeDocHistory takes from the disk and from the index.             *)
LEMMA PurgedFromDisk ==
    ASSUME SvType, IndexPart, PurgeDocHistory
    PROVE  /\ hist.split => purge.doc \subseteq hist'.left
           /\ ~hist.split => files'.entries = files.entries \ EntriesOf(purge.doc)
           /\ hist'.split = hist.split
<1> DEFINE i == mem.loaded[Main]
           X == Opened(i)[i].index
<1>1. i \in 1..Len(inst) /\ i # 0
  BY DEF PurgeDocHistory, SvType, MemType
<1>2. X = IF inst[i].open THEN inst[i].index ELSE files.entries
  BY <1>1, OpeningKeepsDirs
<1>3. files'.entries = files.entries \ (X \cap EntriesOf(purge.doc))
  BY DEF PurgeDocHistory, SvType, FilesType
<1>4. ~hist.split => files.entries \subseteq X
  BY <1>1, <1>2 DEF IndexPart
<1>5. /\ hist'.split = hist.split
      /\ hist.split => purge.doc \subseteq hist'.left
  BY DEF PurgeDocHistory, SvType, HistType
<1> HIDE DEF X
<1> QED
  BY <1>3, <1>4, <1>5

LEMMA IndexPartKept ==
    ASSUME SvType, IndexPart, [Next]_vars
    PROVE  IndexPart'
<1>1. \/ UNCHANGED <<inst, mem, hist, files>>
      \/ \E c \in Clients : RegisterConfig(c)
      \/ \E c \in Clients : PersistFailed(c)
      \/ \E c \in Clients : LoadServerKeyBag(c)
      \/ \E c \in Clients : PersistTenantPublicInfosKey(c)
      \/ \E c \in Clients, t \in Tenants : RemoveTenant(c, t)
      \/ \E c \in Clients : RemoveTenantFiles(c)
      \/ \E c \in Clients : LoadTenant(c)
      \/ LoadInBackground
      \/ \E c \in Clients : GenerateToken(c)
      \/ \E c \in Clients : PutDenylist(c)
      \/ \E c \in Clients : PutStore(c)
      \/ \E c \in Clients : PushDirectoryStore(c)
      \/ PurgeDocHistory
      \/ PurgeDocHistoryFails
      \/ MarkRequestProcessed
      \/ \E d \in Docs : RecordPurgedDoc(d)
      \/ \E c \in Clients : ReloadConfig(c)
      \/ \E t \in Tenants : UpdateTenantConfig(t)
      \/ ServerSyncScan
      \/ ServerSyncPut
      \/ Restart
      \/ CrashInSave
  <2>1. CASE Registration
    BY <2>1, Zenon
      DEF Registration, RegisterTenant, RegisterCompare
  <2>2. CASE Loading
    BY <2>2, Zenon DEF Loading, GetTenant, LoadTenantStart
  <2>3. CASE Authentication
    BY <2>3, Zenon
      DEF Authentication, Challenge, GenerateChallenge, Authenticate, ClaimChallenge,
         VerifySignature, SystemChallenge, ChallengeExpires
  <2>4. CASE Pushing
    BY <2>4, Zenon DEF Pushing, PutEntries, PutGate, PutCheck, PushDirectory
  <2>5. CASE Purging
    BY <2>5, Zenon DEF Purging, PurgeRead, PurgeRequest
  <2>6. CASE Events
    BY <2>6, Zenon DEF Events, Subscribe, Disconnect, SyncEvents, PublishEvent
  <2>7. CASE Configuring
    BY <2>7, Zenon DEF Configuring, UpdateConfig
  <2>8. CASE ServerSyncStart
    BY <2>8, Zenon DEF ServerSyncStart
  <2>9. CASE UNCHANGED vars
    BY <2>9, Zenon DEF vars
  <2> QED
    BY <2>1, <2>2, <2>3, <2>4, <2>5, <2>6, <2>7, <2>8, <2>9, Zenon DEF Next
<1>2. CASE UNCHANGED <<inst, mem, hist, files>>
  BY <1>2, SameIndexGrows, IndexStaysWhole
<1>3. ASSUME NEW c \in Clients, LoadServerKeyBag(c) PROVE IndexPart'
  <2>1. /\ files'.entries = files.entries /\ (hist.split => hist'.split)
        /\ mem'.loaded[Main] = mem.loaded[Main] /\ inst' = inst
    BY <1>3 DEF LoadServerKeyBag, TakeBag, SvType, HistType, FilesType
  <2> QED
    BY <2>1, SameIndexGrows, IndexStaysWhole
<1>4. ASSUME NEW c \in Clients, PersistTenantPublicInfosKey(c) PROVE IndexPart'
  <2>1. /\ files'.entries = files.entries /\ (hist.split => hist'.split)
        /\ mem'.loaded[Main] = mem.loaded[Main] /\ inst' = inst
    BY <1>4 DEF PersistTenantPublicInfosKey, SvType, HistType, FilesType
  <2> QED
    BY <2>1, SameIndexGrows, IndexStaysWhole
<1>5. ASSUME NEW c \in Clients, NEW t \in Tenants, RemoveTenant(c, t) PROVE IndexPart'
  <2>1. mem' = Caching(mem, t, 0) /\ inst' = inst /\ hist' = hist /\ files' = files
    BY <1>5 DEF RemoveTenant, Caching
  <2>2. mem'.loaded[Main] = 0 \/ mem'.loaded[Main] = mem.loaded[Main]
    BY <2>1, SetLoaded DEF SvType
  <2> QED
    BY <2>1, <2>2, SameIndexGrows, IndexStaysWhole, IndexDropped
<1>6. ASSUME NEW c \in Clients, RemoveTenantFiles(c) PROVE IndexPart'
  <2>1. /\ files'.entries = files.entries /\ (hist.split => hist'.split)
        /\ mem'.loaded[Main] = mem.loaded[Main] /\ inst' = inst
    BY <1>6 DEF RemoveTenantFiles, SvType, HistType, FilesType
  <2> QED
    BY <2>1, SameIndexGrows, IndexStaysWhole
<1>7. ASSUME NEW c \in Clients, LoadTenant(c) PROVE IndexPart'
  <2>1. mem' = Caching(mem, Main, Len(inst) + 1) /\ Len(inst) + 1 \in Nat
    BY <1>7, LengthsAre DEF LoadTenant, Caching
  <2>2. mem'.loaded[Main] = Len(inst) + 1
    BY <2>1, SetLoaded, ServerAssumption DEF SvType
  <2>3. inst' = Append(inst, NewInstance(Main))
    BY <1>7 DEF LoadTenant
  <2>4. ~inst'[Len(inst) + 1].open
    BY <2>3, NewInstanceFacts DEF SvType
  <2> QED
    BY <2>2, <2>4, IndexDropped
<1>8. CASE LoadInBackground
  <2>1. mem' = Caching(mem, Main, Len(inst) + 1) /\ Len(inst) + 1 \in Nat
    BY <1>8, LengthsAre DEF LoadInBackground, Caching
  <2>2. mem'.loaded[Main] = Len(inst) + 1
    BY <2>1, SetLoaded, ServerAssumption DEF SvType
  <2>3. inst' = Append(inst, NewInstance(Main))
    BY <1>8 DEF LoadInBackground
  <2>4. ~inst'[Len(inst) + 1].open
    BY <2>3, NewInstanceFacts DEF SvType
  <2> QED
    BY <2>2, <2>4, IndexDropped
<1>9. ASSUME NEW c \in Clients, GenerateToken(c) PROVE IndexPart'
  <2>1. /\ files'.entries = files.entries /\ (hist.split => hist'.split)
        /\ mem'.loaded[Main] = mem.loaded[Main] /\ inst' = inst
    BY <1>9 DEF GenerateToken, SvType, HistType, FilesType
  <2> QED
    BY <2>1, SameIndexGrows, IndexStaysWhole
<1>10. ASSUME NEW c \in Clients, PutDenylist(c) PROVE IndexPart'
  <2> DEFINE i == req[c].i
  <2>1. i \in 1..Len(inst) /\ inst' = Opened(i) /\ mem' = mem /\ hist' = hist
        /\ files' = files
    BY <1>10, CallFacts DEF PutDenylist, In, CallOK
  <2> HIDE DEF i
  <2>2. \A j \in 1..Len(inst) : j # i => IndexGrows(j)
    BY <2>1, OpeningKeepsDirs, SameIndexGrows
  <2>3. IndexGrows(i)
    BY <2>1, OpeningKeepsDirs DEF IndexGrows
  <2> QED
    BY <2>1, <2>2, <2>3, IndexStaysWhole
<1>11. ASSUME NEW c \in Clients, PutStore(c) PROVE IndexPart'
  <2> DEFINE i == req[c].i
             E == req[c].view
  <2>1. /\ Len(inst') = Len(inst) /\ \A j \in 1..Len(inst) : j # i => inst'[j] = inst[j]
        /\ inst'[i].open = inst[i].open /\ inst'[i].index = inst[i].index \cup E
        /\ i \in 1..Len(inst)
    BY <1>11, StoredByPush, StoredInInstance
  <2>2. /\ mem' = mem /\ files'.entries = files.entries \cup E
        /\ hist'.split = (hist.split \/ i # mem.loaded[Main])
    BY <1>11 DEF PutStore, SvType, HistType, FilesType
  <2> HIDE DEF i, E
  <2>3. \A j \in 1..Len(inst) : IndexGrows(j)
    BY <2>1, SameIndexGrows DEF IndexGrows
  <2>4. hist'.split \/ E \subseteq inst'[mem.loaded[Main]].index
    BY <2>1, <2>2
  <2> QED
    BY <2>2, <2>3, <2>4, IndexFrame
<1>12. ASSUME NEW c \in Clients, PushDirectoryStore(c) PROVE IndexPart'
  <2> DEFINE i == req[c].i
  <2>1. /\ inst'[i].open = inst[i].open /\ inst'[i].index = inst[i].index
        /\ \A j \in 1..Len(inst) : j # i => inst'[j] = inst[j]
        /\ hist'.split = (hist.split \/ i # mem.loaded[Main])
    BY <1>12, DirectoryPushed
  <2>2. mem' = mem /\ files'.entries = files.entries
    BY <1>12 DEF PushDirectoryStore, SvType, FilesType
  <2> HIDE DEF i
  <2>3. \A j \in 1..Len(inst) : IndexGrows(j)
    BY <2>1, SameIndexGrows DEF IndexGrows
  <2> QED
    BY <2>1, <2>2, <2>3, IndexStaysWhole
<1>13. CASE PurgeDocHistory
  <2> DEFINE i == mem.loaded[Main]
  <2>1. /\ i \in 1..Len(inst)
        /\ inst'[i].index = Opened(i)[i].index \ EntriesOf(purge.doc)
    BY <1>13, PurgedInInstance
  <2>2. mem' = mem
    BY <1>13 DEF PurgeDocHistory
  <2>3. /\ ~hist.split => files'.entries = files.entries \ EntriesOf(purge.doc)
        /\ hist'.split = hist.split
    BY <1>13, PurgedFromDisk
  <2>4. Opened(i)[i].index = IF inst[i].open THEN inst[i].index ELSE files.entries
    BY <2>1, OpeningKeepsDirs
  <2>5. ~hist.split /\ i # 0 /\ inst[i].open => files.entries \subseteq inst[i].index
    BY DEF IndexPart
  <2> HIDE DEF i
  <2>6. i # 0 /\ ~hist'.split => files'.entries \subseteq inst'[i].index
    BY <2>1, <2>3, <2>4, <2>5
  <2> QED
    BY <2>2, <2>6 DEF IndexPart, i
<1>14. CASE PurgeDocHistoryFails
  <2>1. /\ files'.entries = files.entries /\ (hist.split => hist'.split)
        /\ mem'.loaded[Main] = mem.loaded[Main] /\ inst' = inst
    BY <1>14 DEF PurgeDocHistoryFails, SvType, HistType, FilesType
  <2> QED
    BY <2>1, SameIndexGrows, IndexStaysWhole
<1>15. CASE MarkRequestProcessed
  <2>1. /\ files'.entries = files.entries /\ (hist.split => hist'.split)
        /\ mem'.loaded[Main] = mem.loaded[Main] /\ inst' = inst
    BY <1>15 DEF MarkRequestProcessed, SvType, MemType, Memories, FilesType
  <2> QED
    BY <2>1, SameIndexGrows, IndexStaysWhole
<1>16. ASSUME NEW d \in Docs, RecordPurgedDoc(d) PROVE IndexPart'
  <2>1. /\ files'.entries = files.entries /\ (hist.split => hist'.split)
        /\ mem'.loaded[Main] = mem.loaded[Main] /\ inst' = inst
    BY <1>16 DEF RecordPurgedDoc, SvType, MemType, Memories, FilesType
  <2> QED
    BY <2>1, SameIndexGrows, IndexStaysWhole
<1>17. ASSUME NEW c \in Clients, ReloadConfig(c) PROVE IndexPart'
  <2>1. /\ files'.entries = files.entries /\ (hist.split => hist'.split)
        /\ mem'.loaded[Main] = mem.loaded[Main] /\ inst' = inst
    BY <1>17 DEF ReloadConfig, SvType, MemType, Memories, FilesType
  <2> QED
    BY <2>1, SameIndexGrows, IndexStaysWhole
<1>18. ASSUME NEW t \in Tenants, UpdateTenantConfig(t) PROVE IndexPart'
  <2>1. mem' = Caching(mem, t, 0) /\ inst' = inst /\ hist' = hist /\ files' = files
    BY <1>18 DEF UpdateTenantConfig, Caching
  <2>2. mem'.loaded[Main] = 0 \/ mem'.loaded[Main] = mem.loaded[Main]
    BY <2>1, SetLoaded DEF SvType
  <2> QED
    BY <2>1, <2>2, SameIndexGrows, IndexStaysWhole, IndexDropped
<1>19. CASE ServerSyncScan
  <2> DEFINE i == mem.loaded[Main]
  <2>1. i \in 1..Len(inst) /\ inst' = Opened(i) /\ mem' = mem /\ hist' = hist
        /\ files' = files
    BY <1>19 DEF ServerSyncScan, SvType, MemType
  <2> HIDE DEF i
  <2>2. \A j \in 1..Len(inst) : j # i => IndexGrows(j)
    BY <2>1, OpeningKeepsDirs, SameIndexGrows
  <2>3. IndexGrows(i)
    BY <2>1, OpeningKeepsDirs DEF IndexGrows
  <2> QED
    BY <2>1, <2>2, <2>3, IndexStaysWhole
<1>20. CASE ServerSyncPut
  <2> DEFINE i == upstream.i
             E == upstream.view
  <2>1. /\ Len(inst') = Len(inst) /\ \A j \in 1..Len(inst) : j # i => inst'[j] = inst[j]
        /\ inst'[i].open = inst[i].open /\ inst'[i].index = inst[i].index \cup E
        /\ i \in 1..Len(inst)
    BY <1>20, StoredBySync, StoredInInstance
  <2>2. /\ mem' = mem /\ files'.entries = files.entries \cup E
        /\ hist'.split = (hist.split \/ i # mem.loaded[Main])
    BY <1>20 DEF ServerSyncPut, SvType, HistType, FilesType
  <2> HIDE DEF i, E
  <2>3. \A j \in 1..Len(inst) : IndexGrows(j)
    BY <2>1, SameIndexGrows DEF IndexGrows
  <2>4. hist'.split \/ E \subseteq inst'[mem.loaded[Main]].index
    BY <2>1, <2>2
  <2> QED
    BY <2>2, <2>3, <2>4, IndexFrame
<1>21. CASE Restart
  <2>1. mem'.loaded[Main] = 0
    BY <1>21, ServerAssumption DEF Restart, Restarted
  <2> QED
    BY <2>1, IndexDropped
<1>22. CASE CrashInSave
  <2>1. mem'.loaded[Main] = 0
    BY <1>22, ServerAssumption DEF CrashInSave, Restarted
  <2> QED
    BY <2>1, IndexDropped
<1>23. ASSUME NEW c \in Clients, RegisterConfig(c) PROVE IndexPart'
  <2>1. /\ files'.entries = files.entries /\ hist' = hist
        /\ mem' = mem /\ inst' = inst
    BY <1>23 DEF RegisterConfig, SvType, FilesType
  <2> QED
    BY <2>1, SameIndexGrows, IndexStaysWhole
<1>24. ASSUME NEW c \in Clients, PersistFailed(c) PROVE IndexPart'
  <2>1. /\ files'.entries = files.entries /\ hist' = hist
        /\ mem' = mem /\ inst' = inst
    BY <1>24 DEF PersistFailed, SvType, FilesType
  <2> QED
    BY <2>1, SameIndexGrows, IndexStaysWhole
<1> QED
  BY <1>1, <1>2, <1>3, <1>4, <1>5, <1>6, <1>7, <1>8, <1>9, <1>10, <1>11, <1>12, <1>13, <1>14,
     <1>15, <1>16, <1>17, <1>18, <1>19, <1>20, <1>21, <1>22, <1>23, <1>24, Zenon

LEMMA StoreSkipsDenied ==
    ASSUME SvType, PushPart, NEW c \in Clients, PutStore(c), NEW e \in req[c].view,
           DocOf[e] \in mem.denied
    PROVE  DocOf[e] \in hist'.excused
<1>1. req[c].op = "push" /\ req[c].pc = "store"
  BY DEF PutStore, In
<1>2. req[c].view \subseteq req[c].arg /\ \A x \in req[c].arg : DocOf[x] \notin req[c].before
  BY <1>1 DEF PushPart
<1>3. DocOf[e] \in {DocOf[x] : x \in req[c].view} \cap (mem.denied \ req[c].before)
  BY <1>2
<1> QED
  BY <1>3 DEF PutStore, SvType, HistType

LEMMA EntriesReturn ==
    ASSUME SvType, PushPart, [Next]_vars
    PROVE  \A e \in files'.entries :
              e \in files.entries \/ DocOf[e] \in hist'.excused \/ DocOf[e] \notin mem.denied
<1>1. \/ UNCHANGED files
      \/ \E c \in Clients : RegisterConfig(c)
      \/ \E c \in Clients : PersistTenantPublicInfosKey(c)
      \/ \E c \in Clients : PersistFailed(c)
      \/ \E c \in Clients : RemoveTenantFiles(c)
      \/ \E c \in Clients : PutStore(c)
      \/ \E c \in Clients : PushDirectoryStore(c)
      \/ PurgeDocHistory
      \/ MarkRequestProcessed
      \/ \E c \in Clients : ReloadConfig(c)
      \/ ServerSyncPut
      \/ CrashInSave
  <2>1. CASE Registration
    BY <2>1, Zenon
      DEF Registration, RegisterTenant, RegisterCompare, LoadServerKeyBag, RemoveTenant
  <2>2. CASE Loading
    BY <2>2, Zenon DEF Loading, GetTenant, LoadTenantStart, LoadTenant
  <2>3. CASE LoadInBackground
    BY <2>3, Zenon DEF LoadInBackground
  <2>4. CASE Authentication
    BY <2>4, Zenon
      DEF Authentication, Challenge, GenerateChallenge, Authenticate, ClaimChallenge,
         VerifySignature, GenerateToken, SystemChallenge, ChallengeExpires
  <2>5. CASE Pushing
    BY <2>5, Zenon DEF Pushing, PutEntries, PutGate, PutDenylist, PutCheck, PushDirectory
  <2>6. CASE Purging
    BY <2>6, Zenon
      DEF Purging, PurgeRead, PurgeDocHistoryFails, PurgeRequest, RecordPurgedDoc
  <2>7. CASE Events
    BY <2>7, Zenon DEF Events, Subscribe, Disconnect, SyncEvents, PublishEvent
  <2>8. CASE Configuring
    BY <2>8, Zenon DEF Configuring, UpdateConfig, UpdateTenantConfig
  <2>9. CASE ServerSyncStart
    BY <2>9, Zenon DEF ServerSyncStart
  <2>10. CASE ServerSyncScan
    BY <2>10, Zenon DEF ServerSyncScan
  <2>11. CASE Restart
    BY <2>11, Zenon DEF Restart
  <2>12. CASE UNCHANGED vars
    BY <2>12, Zenon DEF vars
  <2> QED
    BY <2>1, <2>2, <2>3, <2>4, <2>5, <2>6, <2>7, <2>8, <2>9, <2>10, <2>11, <2>12, Zenon
      DEF Next
<1>2. CASE UNCHANGED files
  BY <1>2
<1>3. ASSUME NEW c \in Clients,
             RegisterConfig(c)
      PROVE  \A e \in files'.entries :
              e \in files.entries \/ DocOf[e] \in hist'.excused \/ DocOf[e] \notin mem.denied
  BY <1>3 DEF RegisterConfig, SvType, FilesType
<1>4. ASSUME NEW c \in Clients,
             PersistTenantPublicInfosKey(c)
      PROVE  \A e \in files'.entries :
              e \in files.entries \/ DocOf[e] \in hist'.excused \/ DocOf[e] \notin mem.denied
  BY <1>4 DEF PersistTenantPublicInfosKey, SvType, FilesType
<1>5. ASSUME NEW c \in Clients,
             PersistFailed(c)
      PROVE  \A e \in files'.entries :
              e \in files.entries \/ DocOf[e] \in hist'.excused \/ DocOf[e] \notin mem.denied
  BY <1>5 DEF PersistFailed, SvType, FilesType
<1>6. ASSUME NEW c \in Clients,
             RemoveTenantFiles(c)
      PROVE  \A e \in files'.entries :
              e \in files.entries \/ DocOf[e] \in hist'.excused \/ DocOf[e] \notin mem.denied
  BY <1>6 DEF RemoveTenantFiles, SvType, FilesType
<1>7. ASSUME NEW c \in Clients,
             PutStore(c)
      PROVE  \A e \in files'.entries :
              e \in files.entries \/ DocOf[e] \in hist'.excused \/ DocOf[e] \notin mem.denied
  <2>1. files'.entries = files.entries \cup req[c].view
    BY <1>7 DEF PutStore, SvType, FilesType
  <2> QED
    BY <1>7, <2>1, StoreSkipsDenied
<1>8. ASSUME NEW c \in Clients,
             PushDirectoryStore(c)
      PROVE  \A e \in files'.entries :
              e \in files.entries \/ DocOf[e] \in hist'.excused \/ DocOf[e] \notin mem.denied
  BY <1>8 DEF PushDirectoryStore, SvType, FilesType
<1>9. CASE PurgeDocHistory
  BY <1>9 DEF PurgeDocHistory, SvType, FilesType
<1>10. CASE MarkRequestProcessed
  BY <1>10 DEF MarkRequestProcessed, SvType, FilesType
<1>11. ASSUME NEW c \in Clients,
              ReloadConfig(c)
       PROVE  \A e \in files'.entries :
              e \in files.entries \/ DocOf[e] \in hist'.excused \/ DocOf[e] \notin mem.denied
  BY <1>11 DEF ReloadConfig, SvType, FilesType
<1>12. CASE ServerSyncPut
  <2>1. files'.entries = files.entries \cup upstream.view
    BY <1>12 DEF ServerSyncPut, SvType, FilesType
  <2>2. {DocOf[x] : x \in upstream.view} \subseteq hist'.excused
    BY <1>12 DEF ServerSyncPut, SvType, HistType
  <2> QED
    BY <2>1, <2>2
<1>13. CASE CrashInSave
  BY <1>13 DEF CrashInSave, SvType, FilesType
<1> QED
  BY <1>1, <1>2, <1>3, <1>4, <1>5, <1>6, <1>7, <1>8, <1>9, <1>10, <1>11, <1>12, <1>13, Zenon


LEMMA ErasedStays ==
    ASSUME SvType, PushPart, [Next]_vars, NEW d \in mem.denied, Erased(d)
    PROVE  Erased(d)'
<1>1. CASE d \in hist.excused \cup hist.failed \cup hist.left
  BY <1>1, AckedSteps DEF AckedStep, Erased
<1>2. CASE EntriesOf({d}) \cap files.entries = {}
  <2>1. ASSUME NEW e \in EntriesOf({d}) \cap files'.entries PROVE d \in hist'.excused
    <3>1. DocOf[e] = d /\ e \notin files.entries
      BY <1>2, <2>1 DEF EntriesOf
    <3> QED
      BY <2>1, <3>1, EntriesReturn
  <2> QED
    BY <2>1 DEF Erased, EntriesOf
<1> QED
  BY <1>1, <1>2 DEF Erased

LEMMA RegistryFrame ==
    ASSUME SvType, RegistryPart, PushPart, [Next]_vars, mem'.done = mem.done,
           mem.denied \subseteq mem'.denied \/ mem'.denied = files.registry.denied,
           files'.registry = files.registry
    PROVE  RegistryPart'
<1>1. \A r \in mem.done : \A d \in PurgeDocs[r] : d \in mem.denied /\ Erased(d)
  BY DEF RegistryPart
<1>2. \A r \in mem.done : \A d \in PurgeDocs[r] : Erased(d)'
  BY <1>1, ErasedStays
<1> QED
  BY <1>2 DEF RegistryPart

LEMMA RegistryKept ==
    ASSUME SvType, RegistryPart, PurgePart, PushPart, [Next]_vars
    PROVE  RegistryPart'
<1>1. \/ UNCHANGED <<files, mem>>
      \/ \E c \in Clients : RegisterConfig(c)
      \/ \E c \in Clients : LoadServerKeyBag(c)
      \/ \E c \in Clients : PersistTenantPublicInfosKey(c)
      \/ \E c \in Clients : PersistFailed(c)
      \/ \E c \in Clients, t \in Tenants : RemoveTenant(c, t)
      \/ \E c \in Clients : RemoveTenantFiles(c)
      \/ \E c \in Clients : LoadTenant(c)
      \/ LoadInBackground
      \/ \E c \in Clients : GenerateToken(c)
      \/ \E c \in Clients : PutStore(c)
      \/ \E c \in Clients : PushDirectoryStore(c)
      \/ PurgeDocHistory
      \/ PurgeDocHistoryFails
      \/ MarkRequestProcessed
      \/ \E d \in Docs : RecordPurgedDoc(d)
      \/ \E c \in Clients : ReloadConfig(c)
      \/ \E t \in Tenants : UpdateTenantConfig(t)
      \/ ServerSyncPut
      \/ Restart
      \/ CrashInSave
  <2>1. CASE Registration
    BY <2>1, Zenon DEF Registration, RegisterTenant, RegisterCompare
  <2>2. CASE Loading
    BY <2>2, Zenon DEF Loading, GetTenant, LoadTenantStart
  <2>3. CASE Authentication
    BY <2>3, Zenon
      DEF Authentication, Challenge, GenerateChallenge, Authenticate, ClaimChallenge,
         VerifySignature, SystemChallenge, ChallengeExpires
  <2>4. CASE Pushing
    BY <2>4, Zenon DEF Pushing, PutEntries, PutGate, PutDenylist, PutCheck, PushDirectory
  <2>5. CASE Purging
    BY <2>5, Zenon DEF Purging, PurgeRead, PurgeRequest
  <2>6. CASE Events
    BY <2>6, Zenon DEF Events, Subscribe, Disconnect, SyncEvents, PublishEvent
  <2>7. CASE Configuring
    BY <2>7, Zenon DEF Configuring, UpdateConfig
  <2>8. CASE ServerSyncStart
    BY <2>8, Zenon DEF ServerSyncStart
  <2>9. CASE ServerSyncScan
    BY <2>9, Zenon DEF ServerSyncScan
  <2>10. CASE UNCHANGED vars
    BY <2>10, Zenon DEF vars
  <2> QED
    BY <2>1, <2>2, <2>3, <2>4, <2>5, <2>6, <2>7, <2>8, <2>9, <2>10, Zenon DEF Next
<1>2. CASE UNCHANGED <<files, mem>>
  BY <1>2, RegistryFrame
<1>3. ASSUME NEW c \in Clients, RegisterConfig(c) PROVE RegistryPart'
  <2>1. files'.registry = files.registry /\ mem' = mem
    BY <1>3 DEF RegisterConfig, SvType, FilesType
  <2> QED
    BY <2>1, RegistryFrame
<1>4. ASSUME NEW c \in Clients, LoadServerKeyBag(c) PROVE RegistryPart'
  <2>1. files' = files /\ mem' = mem
    BY <1>4 DEF LoadServerKeyBag
  <2> QED
    BY <2>1, RegistryFrame
<1>5. ASSUME NEW c \in Clients, PersistTenantPublicInfosKey(c) PROVE RegistryPart'
  <2>1. files'.registry = files.registry /\ mem' = mem
    BY <1>5 DEF PersistTenantPublicInfosKey, SvType, FilesType
  <2> QED
    BY <2>1, RegistryFrame
<1>6. ASSUME NEW c \in Clients, PersistFailed(c) PROVE RegistryPart'
  <2>1. files'.registry = files.registry /\ mem' = mem
    BY <1>6 DEF PersistFailed, SvType, FilesType
  <2> QED
    BY <2>1, RegistryFrame
<1>7. ASSUME NEW c \in Clients, NEW t \in Tenants, RemoveTenant(c, t) PROVE RegistryPart'
  <2>1. files'.registry = files.registry /\ mem'.done = mem.done /\ mem.denied \subseteq mem'.denied
    BY <1>7 DEF RemoveTenant, SvType, FilesType, MemType, Memories
  <2> QED
    BY <2>1, RegistryFrame
<1>8. ASSUME NEW c \in Clients, RemoveTenantFiles(c) PROVE RegistryPart'
  <2>1. files'.registry = files.registry /\ mem' = mem
    BY <1>8 DEF RemoveTenantFiles, SvType, FilesType
  <2> QED
    BY <2>1, RegistryFrame
<1>9. ASSUME NEW c \in Clients, LoadTenant(c) PROVE RegistryPart'
  <2>1. files'.registry = files.registry /\ mem'.done = mem.done /\ mem.denied \subseteq mem'.denied
    BY <1>9 DEF LoadTenant, SvType, FilesType, MemType, Memories
  <2> QED
    BY <2>1, RegistryFrame
<1>10. CASE LoadInBackground
  <2>1. files'.registry = files.registry /\ mem'.done = mem.done /\ mem.denied \subseteq mem'.denied
    BY <1>10 DEF LoadInBackground, SvType, FilesType, MemType, Memories
  <2> QED
    BY <2>1, RegistryFrame
<1>11. ASSUME NEW c \in Clients, GenerateToken(c) PROVE RegistryPart'
  <2>1. files' = files /\ mem' = mem
    BY <1>11 DEF GenerateToken
  <2> QED
    BY <2>1, RegistryFrame
<1>12. ASSUME NEW c \in Clients, PutStore(c) PROVE RegistryPart'
  <2>1. files'.registry = files.registry /\ mem' = mem
    BY <1>12 DEF PutStore, SvType, FilesType
  <2> QED
    BY <2>1, RegistryFrame
<1>13. ASSUME NEW c \in Clients, PushDirectoryStore(c) PROVE RegistryPart'
  <2>1. files'.registry = files.registry /\ mem' = mem
    BY <1>13 DEF PushDirectoryStore, SvType, FilesType
  <2> QED
    BY <2>1, RegistryFrame
<1>14. CASE PurgeDocHistory
  <2>1. files'.registry = files.registry /\ mem' = mem
    BY <1>14 DEF PurgeDocHistory, SvType, FilesType
  <2> QED
    BY <2>1, RegistryFrame
<1>15. CASE PurgeDocHistoryFails
  <2>1. files' = files /\ mem' = mem
    BY <1>15 DEF PurgeDocHistoryFails
  <2> QED
    BY <2>1, RegistryFrame
<1>16. CASE MarkRequestProcessed
  <2>1. /\ mem'.done = Marked /\ mem'.denied = mem.denied
        /\ files'.registry = [denied |-> mem.denied, done |-> Marked]
    BY <1>16 DEF MarkRequestProcessed, SvType, FilesType, MemType, Memories
  <2>2. ASSUME NEW r \in Marked, NEW d \in PurgeDocs[r] PROVE d \in mem.denied /\ Erased(d)
    BY <1>16, <2>2 DEF Marked, MarkRequestProcessed, RegistryPart, PurgePart
  <2>3. \A r \in Marked : \A d \in PurgeDocs[r] : Erased(d)'
    BY <2>2, ErasedStays
  <2> HIDE DEF Marked
  <2> QED
    BY <2>1, <2>2, <2>3 DEF RegistryPart
<1>17. ASSUME NEW d \in Docs, RecordPurgedDoc(d) PROVE RegistryPart'
  <2>1. files'.registry = files.registry /\ mem'.done = mem.done /\ mem.denied \subseteq mem'.denied
    BY <1>17 DEF RecordPurgedDoc, SvType, FilesType, MemType, Memories
  <2> QED
    BY <2>1, RegistryFrame
<1>18. ASSUME NEW c \in Clients, ReloadConfig(c) PROVE RegistryPart'
  <2>1. files'.registry = files.registry /\ mem'.done = mem.done /\ mem.denied \subseteq mem'.denied
    BY <1>18 DEF ReloadConfig, SvType, FilesType, MemType, Memories
  <2> QED
    BY <2>1, RegistryFrame
<1>19. ASSUME NEW t \in Tenants, UpdateTenantConfig(t) PROVE RegistryPart'
  <2>1. files'.registry = files.registry /\ mem'.done = mem.done /\ mem.denied \subseteq mem'.denied
    BY <1>19 DEF UpdateTenantConfig, SvType, FilesType, MemType, Memories
  <2> QED
    BY <2>1, RegistryFrame
<1>20. CASE ServerSyncPut
  <2>1. files'.registry = files.registry /\ mem' = mem
    BY <1>20 DEF ServerSyncPut, SvType, FilesType
  <2> QED
    BY <2>1, RegistryFrame
<1>21. CASE Restart
  <2>1. files' = files /\ mem'.denied = files.registry.denied /\ mem'.done = files.registry.done
    BY <1>21 DEF Restart, Restarted
  <2> QED
    BY <2>1, RegistryFrame DEF RegistryPart
<1>22. CASE CrashInSave
  <2> DEFINE empty == [denied |-> {}, done |-> {}]
  <2>1. /\ files' = [files EXCEPT !.registry = empty] /\ mem'.denied = {} /\ mem'.done = {}
    BY <1>22 DEF CrashInSave, Restarted
  <2>2. files'.registry = empty
    BY <2>1 DEF SvType, FilesType
  <2> QED
    BY <2>1, <2>2 DEF RegistryPart
<1> QED
  BY <1>1, <1>2, <1>3, <1>4, <1>5, <1>6, <1>7, <1>8, <1>9, <1>10, <1>11, <1>12, <1>13, <1>14,
     <1>15, <1>16, <1>17, <1>18, <1>19, <1>20, <1>21, <1>22, Zenon


LEMMA PurgeFrame ==
    ASSUME SvType, PurgePart, PushPart, [Next]_vars, purge'.cur = purge.cur,
           purge'.docs = purge.docs, purge'.doc = purge.doc,
           purge'.pc = purge.pc \/ (purge.pc = "idle" /\ purge'.pc = "read"), mem.denied \subseteq mem'.denied
    PROVE  PurgePart'
<1>1. \A r \in purge.cur : \A d \in PurgeDocs[r] \ purge.docs :
         d \in mem.denied /\ (d \in purge.doc \/ Erased(d))
  BY DEF PurgePart
<1>2. \A r \in purge.cur : \A d \in PurgeDocs[r] \ purge.docs :
         d \in mem'.denied /\ (d \in purge.doc \/ Erased(d)')
  BY <1>1, ErasedStays
<1> QED
  BY <1>2 DEF PurgePart

LEMMA NoPurgePart ==
    ASSUME purge'.cur = {}, purge'.docs = {}, purge'.doc = {}
    PROVE  PurgePart'
BY DEF PurgePart

LEMMA PurgePartKept ==
    ASSUME SvType, IndexPart, RegistryPart, PurgePart, PushPart, [Next]_vars
    PROVE  PurgePart'
<1>1. \/ UNCHANGED <<purge, mem>>
      \/ \E c \in Clients, t \in Tenants : RemoveTenant(c, t)
      \/ \E c \in Clients : LoadTenant(c)
      \/ LoadInBackground
      \/ \E c \in Clients : PushDirectoryStore(c)
      \/ PurgeRead
      \/ PurgeDocHistory
      \/ PurgeDocHistoryFails
      \/ MarkRequestProcessed
      \/ \E r \in Purges : PurgeRequest(r)
      \/ \E d \in Docs : RecordPurgedDoc(d)
      \/ \E c \in Clients : ReloadConfig(c)
      \/ \E t \in Tenants : UpdateTenantConfig(t)
      \/ Restart
      \/ CrashInSave
  <2>1. CASE Registration
    BY <2>1, Zenon
      DEF Registration, RegisterTenant, RegisterConfig, RegisterCompare, LoadServerKeyBag,
         PersistTenantPublicInfosKey, PersistFailed, RemoveTenantFiles
  <2>2. CASE Loading
    BY <2>2, Zenon DEF Loading, GetTenant, LoadTenantStart
  <2>3. CASE Authentication
    BY <2>3, Zenon
      DEF Authentication, Challenge, GenerateChallenge, Authenticate, ClaimChallenge,
         VerifySignature, GenerateToken, SystemChallenge, ChallengeExpires
  <2>4. CASE Pushing
    BY <2>4, Zenon
      DEF Pushing, PutEntries, PutGate, PutDenylist, PutCheck, PutStore, PushDirectory
  <2>5. CASE Purging
    BY <2>5, Zenon DEF Purging
  <2>6. CASE Events
    BY <2>6, Zenon DEF Events, Subscribe, Disconnect, SyncEvents, PublishEvent
  <2>7. CASE Configuring
    BY <2>7, Zenon DEF Configuring, UpdateConfig
  <2>8. CASE ServerSyncStart
    BY <2>8, Zenon DEF ServerSyncStart
  <2>9. CASE ServerSyncScan
    BY <2>9, Zenon DEF ServerSyncScan
  <2>10. CASE ServerSyncPut
    BY <2>10, Zenon DEF ServerSyncPut
  <2>11. CASE UNCHANGED vars
    BY <2>11, Zenon DEF vars
  <2> QED
    BY <2>1, <2>2, <2>3, <2>4, <2>5, <2>6, <2>7, <2>8, <2>9, <2>10, <2>11, Zenon DEF Next
<1>2. CASE UNCHANGED <<purge, mem>>
  BY <1>2, PurgeFrame
<1>3. ASSUME NEW c \in Clients, NEW t \in Tenants, RemoveTenant(c, t) PROVE PurgePart'
  <2>1. purge' = purge /\ mem.denied \subseteq mem'.denied
    BY <1>3 DEF RemoveTenant, SvType, MemType, Memories
  <2> QED
    BY <2>1, PurgeFrame
<1>4. ASSUME NEW c \in Clients, LoadTenant(c) PROVE PurgePart'
  <2>1. purge' = purge /\ mem.denied \subseteq mem'.denied
    BY <1>4 DEF LoadTenant, SvType, MemType, Memories
  <2> QED
    BY <2>1, PurgeFrame
<1>5. CASE LoadInBackground
  <2>1. purge' = purge /\ mem.denied \subseteq mem'.denied
    BY <1>5 DEF LoadInBackground, SvType, MemType, Memories
  <2> QED
    BY <2>1, PurgeFrame
<1>6. ASSUME NEW c \in Clients, PushDirectoryStore(c) PROVE PurgePart'
  <2>1. /\ purge'.cur = purge.cur /\ purge'.docs = purge.docs /\ purge'.doc = purge.doc
        /\ purge'.pc = purge.pc \/ (purge.pc = "idle" /\ purge'.pc = "read")
        /\ mem' = mem
    BY <1>6 DEF PushDirectoryStore, TriggerPurge, SvType, PurgeType
  <2> QED
    BY <2>1, PurgeFrame
<1>7. CASE PurgeRead
  <2>1. purge'.cur = {} /\ purge'.docs = {} /\ purge'.doc = {}
    BY <1>7 DEF PurgeRead, NoPurge
  <2> QED
    BY <2>1, NoPurgePart
<1>8. CASE PurgeDocHistory
  <2>1. /\ purge'.cur = purge.cur /\ purge'.docs = purge.docs /\ purge'.doc = {}
        /\ purge'.pc \in {"mark", "doc"} /\ (purge'.pc = "mark" => purge.docs = {})
        /\ mem' = mem
    BY <1>8 DEF PurgeDocHistory, Purged, SvType, PurgeType
  <2>2. /\ hist.split => purge.doc \subseteq hist'.left
        /\ ~hist.split => files'.entries = files.entries \ EntriesOf(purge.doc)
    BY <1>8, PurgedFromDisk
  <2>3. \A d \in purge.doc : Erased(d)'
    BY <2>2 DEF Erased, EntriesOf
  <2>4. ASSUME NEW r \in purge.cur, NEW x \in PurgeDocs[r] \ purge.docs
        PROVE  x \in mem.denied /\ Erased(x)'
    BY <2>3, <2>4, ErasedStays DEF PurgePart
  <2> QED
    BY <2>1, <2>4 DEF PurgePart
<1>9. CASE PurgeDocHistoryFails
  <2>1. /\ purge'.cur = purge.cur /\ purge'.docs = purge.docs /\ purge'.doc = {}
        /\ purge'.pc \in {"mark", "doc"} /\ (purge'.pc = "mark" => purge.docs = {})
        /\ mem' = mem
    BY <1>9 DEF PurgeDocHistoryFails, Purged, SvType, PurgeType
  <2>2. /\ files' = files
        /\ hist'.failed = hist.failed \cup (purge.doc \cap {DocOf[e] : e \in files.entries})
    BY <1>9 DEF PurgeDocHistoryFails, SvType, FilesType, HistType
  <2>3. \A d \in purge.doc : Erased(d)'
    BY <2>2 DEF Erased, EntriesOf
  <2>4. ASSUME NEW r \in purge.cur, NEW x \in PurgeDocs[r] \ purge.docs
        PROVE  x \in mem.denied /\ Erased(x)'
    BY <2>3, <2>4, ErasedStays DEF PurgePart
  <2> QED
    BY <2>1, <2>4 DEF PurgePart
<1>10. CASE MarkRequestProcessed
  <2>1. purge'.cur = {} /\ purge'.docs = {} /\ purge'.doc = {}
    BY <1>10 DEF MarkRequestProcessed, MarkNext, NoPurge
  <2> QED
    BY <2>1, NoPurgePart
<1>11. ASSUME NEW r \in Purges, PurgeRequest(r) PROVE PurgePart'
  <2>1. /\ purge'.cur = {r} /\ purge'.docs = PurgeDocs[r] /\ purge'.pc = "doc"
        /\ purge'.doc = purge.doc /\ purge.pc = "next"
    BY <1>11 DEF PurgeRequest, SvType, PurgeType
  <2>2. purge.doc = {}
    BY <2>1 DEF PurgePart
  <2> QED
    BY <2>1, <2>2 DEF PurgePart
<1>12. ASSUME NEW d \in Docs, RecordPurgedDoc(d) PROVE PurgePart'
  <2>1. /\ purge.pc = "doc" /\ purge'.pc = "store" /\ purge'.cur = purge.cur
        /\ purge'.docs = purge.docs \ {d} /\ purge'.doc = {d}
    BY <1>12 DEF RecordPurgedDoc, SvType, PurgeType
  <2>2. mem'.denied = mem.denied \cup {d}
    BY <1>12 DEF RecordPurgedDoc, SvType, MemType, Memories
  <2>3. ASSUME NEW r \in purge.cur, NEW x \in PurgeDocs[r] \ purge'.docs
        PROVE  x \in mem'.denied /\ (x \in purge'.doc \/ Erased(x)')
    <3>1. CASE x = d
      BY <2>1, <2>2, <3>1
    <3>2. CASE x # d
      <4>1. x \in mem.denied /\ Erased(x)
        BY <2>1, <2>3, <3>2 DEF PurgePart
      <4> QED
        BY <2>2, <4>1, ErasedStays
    <3> QED
      BY <3>1, <3>2
  <2> QED
    BY <2>1, <2>2, <2>3 DEF PurgePart
<1>13. ASSUME NEW c \in Clients, ReloadConfig(c) PROVE PurgePart'
  <2>1. purge' = purge /\ mem.denied \subseteq mem'.denied
    BY <1>13 DEF ReloadConfig, SvType, MemType, Memories
  <2> QED
    BY <2>1, PurgeFrame
<1>14. ASSUME NEW t \in Tenants, UpdateTenantConfig(t) PROVE PurgePart'
  <2>1. purge' = purge /\ mem.denied \subseteq mem'.denied
    BY <1>14 DEF UpdateTenantConfig, SvType, MemType, Memories
  <2> QED
    BY <2>1, PurgeFrame
<1>15. CASE Restart
  <2>1. purge'.cur = {} /\ purge'.docs = {} /\ purge'.doc = {}
    BY <1>15 DEF Restart, Lost, NoPurge
  <2> QED
    BY <2>1, NoPurgePart
<1>16. CASE CrashInSave
  <2>1. purge'.cur = {} /\ purge'.docs = {} /\ purge'.doc = {}
    BY <1>16 DEF CrashInSave, Lost, NoPurge
  <2> QED
    BY <2>1, NoPurgePart
<1> QED
  BY <1>1, <1>2, <1>3, <1>4, <1>5, <1>6, <1>7, <1>8, <1>9, <1>10, <1>11, <1>12, <1>13, <1>14,
     <1>15, <1>16, Zenon


LEMMA PushStep ==
    ASSUME SvType, PushPart, [Next]_vars, mem.denied \subseteq mem'.denied,
           NEW c \in Clients, req'[c].op = "push"
    PROVE  /\ req'[c].before \subseteq mem'.denied
           /\ req'[c].pc \in {"check", "store"} /\ req'[c].before # {} => req'[c].live
           /\ req'[c].pc = "store" => /\ req'[c].view \subseteq req'[c].arg
                                      /\ \A e \in req'[c].arg : DocOf[e] \notin req'[c].before
<1>1. CASE Stays(c)
  BY <1>1 DEF Stays, PushPart
<1>2. CASE Begins(c)
  <2>1. PICK tok \in tokens, E \in budget.batches : PutEntries(c, tok, E)
    BY <1>2, BeginsConfig DEF Begins
  <2> QED
    BY <2>1, BeginsPush
<1>3. CASE Carries(c) /\ GoesOn(c)
  <2>1. /\ req[c].op = "push" /\ req'[c].arg = req[c].arg /\ req'[c].before = req[c].before
        /\ req[c].before \subseteq mem.denied
    BY <1>3 DEF Carries, PushPart
  <2>2. CASE req'[c].pc \notin {"check", "store"}
    BY <2>1, <2>2
  <2>3. CASE req'[c].pc = "check"
    <3>1. req'[c] = [req[c] EXCEPT !.pc = "check", !.live = (mem.denied # {})]
      BY <1>3, <2>3, ReqIs DEF GoesOn, PutDenylist
    <3>2. req'[c].live = (mem.denied # {})
      <4> DEFINE b == mem.denied # {}
      <4>1. b \in BOOLEAN /\ req'[c] = [req[c] EXCEPT !.pc = "check", !.live = b]
        BY <3>1
      <4> HIDE DEF b
      <4>2. req'[c].live = b
        BY <4>1, CallFacts DEF Requests
      <4> QED
        BY <4>2 DEF b
    <3> QED
      BY <2>1, <2>3, <3>2
  <2>4. CASE req'[c].pc = "store"
    <3>1. PutCheck(c)
      BY <1>3, <2>4 DEF GoesOn
    <3>2. /\ req[c].pc = "check" /\ ~Refused(c)
          /\ req'[c] = [req[c] EXCEPT !.pc = "store", !.view = Storable(c)]
      <4>1. ~Answered(c)
        BY <2>4, ReqIs DEF Answered, Idle
      <4>2. /\ req[c].pc = "check" /\ ~Refused(c)
            /\ req' = [req EXCEPT ![c].pc = "store", ![c].view = Storable(c)]
        BY <3>1, <4>1 DEF PutCheck, In
      <4> QED
        BY <4>2, ReqIs
    <3>3. req'[c].live = req[c].live /\ req'[c].view = Storable(c)
      <4> DEFINE v == Storable(c)
      <4>1. req'[c] = [req[c] EXCEPT !.pc = "store", !.view = v]
        BY <3>2
      <4> HIDE DEF v
      <4>2. req'[c].live = req[c].live /\ req'[c].view = v
        BY <4>1, CallFacts DEF Requests
      <4> QED
        BY <4>2 DEF v
    <3>4. req[c].before # {} => req[c].live
      BY <2>1, <3>2 DEF PushPart
    <3>5. \A e \in req[c].arg : DocOf[e] \notin req[c].before
      BY <2>1, <3>2, <3>4 DEF Refused
    <3> QED
      BY <2>1, <2>4, <3>3, <3>4, <3>5 DEF Storable
  <2> QED
    BY <2>2, <2>3, <2>4
<1>4. req'[c] # Idle /\ ~Comes(c)
  BY DEF Idle, Comes
<1> QED
  BY <1>1, <1>2, <1>3, <1>4, CallSteps DEF CallStep

LEMMA DeniedGrow ==
    ASSUME SvType, [Next]_vars
    PROVE  mem.denied \subseteq mem'.denied \/ Restart \/ CrashInSave
<1>1. \/ UNCHANGED mem
      \/ \E c \in Clients, t \in Tenants : RemoveTenant(c, t)
      \/ \E c \in Clients : LoadTenant(c)
      \/ LoadInBackground
      \/ MarkRequestProcessed
      \/ \E d \in Docs : RecordPurgedDoc(d)
      \/ \E c \in Clients : ReloadConfig(c)
      \/ \E t \in Tenants : UpdateTenantConfig(t)
      \/ Restart
      \/ CrashInSave
  <2>1. CASE Registration
    BY <2>1, Zenon
      DEF Registration, RegisterTenant, RegisterConfig, RegisterCompare, LoadServerKeyBag,
         PersistTenantPublicInfosKey, PersistFailed, RemoveTenantFiles
  <2>2. CASE Loading
    BY <2>2, Zenon DEF Loading, GetTenant, LoadTenantStart
  <2>3. CASE Authentication
    BY <2>3, Zenon
      DEF Authentication, Challenge, GenerateChallenge, Authenticate, ClaimChallenge,
         VerifySignature, GenerateToken, SystemChallenge, ChallengeExpires
  <2>4. CASE Pushing
    BY <2>4, Zenon
      DEF Pushing, PutEntries, PutGate, PutDenylist, PutCheck, PutStore, PushDirectory,
         PushDirectoryStore
  <2>5. CASE Purging
    BY <2>5, Zenon
      DEF Purging, PurgeRead, PurgeDocHistory, PurgeDocHistoryFails, PurgeRequest
  <2>6. CASE Events
    BY <2>6, Zenon DEF Events, Subscribe, Disconnect, SyncEvents, PublishEvent
  <2>7. CASE Configuring
    BY <2>7, Zenon DEF Configuring, UpdateConfig
  <2>8. CASE ServerSyncStart
    BY <2>8, Zenon DEF ServerSyncStart
  <2>9. CASE ServerSyncScan
    BY <2>9, Zenon DEF ServerSyncScan
  <2>10. CASE ServerSyncPut
    BY <2>10, Zenon DEF ServerSyncPut
  <2>11. CASE UNCHANGED vars
    BY <2>11, Zenon DEF vars
  <2> QED
    BY <2>1, <2>2, <2>3, <2>4, <2>5, <2>6, <2>7, <2>8, <2>9, <2>10, <2>11, Zenon DEF Next
<1>2. CASE UNCHANGED mem
  BY <1>2
<1>3. ASSUME NEW c \in Clients, NEW t \in Tenants,
             RemoveTenant(c, t)
      PROVE  mem.denied \subseteq mem'.denied \/ Restart \/ CrashInSave
  BY <1>3 DEF RemoveTenant, SvType, MemType, Memories
<1>4. ASSUME NEW c \in Clients,
             LoadTenant(c)
      PROVE  mem.denied \subseteq mem'.denied \/ Restart \/ CrashInSave
  BY <1>4 DEF LoadTenant, SvType, MemType, Memories
<1>5. CASE LoadInBackground
  BY <1>5 DEF LoadInBackground, SvType, MemType, Memories
<1>6. CASE MarkRequestProcessed
  BY <1>6 DEF MarkRequestProcessed, SvType, MemType, Memories
<1>7. ASSUME NEW d \in Docs,
             RecordPurgedDoc(d)
      PROVE  mem.denied \subseteq mem'.denied \/ Restart \/ CrashInSave
  BY <1>7 DEF RecordPurgedDoc, SvType, MemType, Memories
<1>8. ASSUME NEW c \in Clients,
             ReloadConfig(c)
      PROVE  mem.denied \subseteq mem'.denied \/ Restart \/ CrashInSave
  BY <1>8 DEF ReloadConfig, SvType, MemType, Memories
<1>9. ASSUME NEW t \in Tenants,
             UpdateTenantConfig(t)
      PROVE  mem.denied \subseteq mem'.denied \/ Restart \/ CrashInSave
  BY <1>9 DEF UpdateTenantConfig, SvType, MemType, Memories
<1>10. CASE Restart
  BY <1>10 DEF Restart
<1>11. CASE CrashInSave
  BY <1>11 DEF CrashInSave
<1> QED
  BY <1>1, <1>2, <1>3, <1>4, <1>5, <1>6, <1>7, <1>8, <1>9, <1>10, <1>11, Zenon

LEMMA PushKept ==
    ASSUME SvType, PushPart, [Next]_vars
    PROVE  PushPart'
<1>1. CASE Restart \/ CrashInSave
  <2>1. req' = [c \in Clients |-> Idle]
    BY <1>1 DEF Restart, CrashInSave, Lost
  <2> QED
    BY <2>1 DEF PushPart, Idle
<1>2. CASE mem.denied \subseteq mem'.denied
  BY <1>2, PushStep DEF PushPart
<1> QED
  BY <1>1, <1>2, DeniedGrow

-------------------------------------------------------------------------------
(* The server has just started, or a device is signed in.                   *)
LEMMA SessionStart ==
    ASSUME Init
    PROVE  /\ Cardinality(budget.session) \in Nat
           /\ inst \in Seq(Instances) /\ Len(inst) = Cardinality(budget.session)
           /\ \A j \in 1..Len(inst) : inst[j] = NewInstance(Main)
           /\ NewInstance(Main) \in Instances /\ NewInstance(Main).dir = files.dir
           /\ ~NewInstance(Main).open
           /\ budget.session \subseteq Keys /\ budget.batches \subseteq SUBSET Entries
           /\ budget.stored \subseteq Entries /\ "batches" \in DOMAIN budget
<1> DEFINE k == Cardinality(budget.session)
<1>1. /\ budget.session \subseteq Keys /\ budget.batches \subseteq SUBSET Entries
      /\ budget.stored \subseteq Entries /\ "batches" \in DOMAIN budget
  <2>1. budget \in Allowances
    BY ServerAssumption DEF Init
  <2> QED
    BY <2>1 DEF Allowances
<1>2. k \in Nat
  BY <1>1, ServerAssumption, FS_Subset, FS_CardinalityType
<1>3. NewInstance(Main) \in Instances /\ NewInstance(Main).dir = files.dir
      /\ ~NewInstance(Main).open
  <2>1. files.dir \in Dirs
    BY DEF Init, Dirs, Status
  <2> QED
    BY <2>1 DEF NewInstance, Instances, Indexes
<1>4. inst = [i \in 1..k |-> NewInstance(Main)]
  BY DEF Init
<1> HIDE DEF k
<1>5. inst \in Seq(Instances) /\ Len(inst) = k /\ \A j \in 1..k : inst[j] = NewInstance(Main)
  <2> DEFINE x == NewInstance(Main)
  <2> HIDE DEF x
  <2>1. x \in Instances
    BY <1>3 DEF x
  <2>2. inst = [i \in 1..k |-> x]
    BY <1>4 DEF x
  <2>3. inst \in Seq(Instances) /\ Len(inst) = k /\ \A j \in 1..k : inst[j] = x
    BY <1>2, <2>1, <2>2
  <2> QED
    BY <2>3 DEF x
<1> QED
  BY <1>1, <1>2, <1>3, <1>5 DEF k

LEMMA InitType == Init => SvType
<1> SUFFICES ASSUME Init PROVE SvType
  OBVIOUS
<1>1. FilesType
  BY SessionStart, ServerAssumption DEF Init, FilesType, Dirs, Status
<1>2. MemType
  <2> DEFINE k == Cardinality(budget.session)
  <2>1. k \in Nat /\ Len(inst) = k
    BY SessionStart
  <2>2. /\ mem.loaded = [t \in Tenants |-> IF t = Main THEN k ELSE 0]
        /\ mem = [loaded |-> mem.loaded, denied |-> {}, done |-> {}, admins |-> Admins]
    BY DEF Init
  <2> HIDE DEF k
  <2>3. mem.loaded \in [Tenants -> Nat] /\ mem.loaded[Main] = k
    BY <2>1, <2>2, ServerAssumption
  <2>4. mem \in Memories
    BY <2>2, <2>3 DEF Memories
  <2> QED
    BY <2>1, <2>3, <2>4 DEF MemType
<1>3. AuthType
  <2>1. tickets = <<>> /\ MaxTickets \in Nat
    BY ServerAssumption DEF Init
  <2>2. \A x \in Keys : [svc |-> 1, key |-> x, wipe |-> FALSE] \in Tokens
    BY DEF Tokens, Principals
  <2>3. tokens \subseteq Tokens
    BY <2>2, SessionStart DEF Init
  <2> QED
    BY <2>1, <2>3 DEF AuthType
<1>4. PurgeType /\ SyncType /\ BusType
  BY DEF Init, PurgeType, SyncType, BusType, NoPurge, NoSync
<1>5. HistType
  BY ServerAssumption DEF Init, HistType
<1>6. ReqType
  <2>1. CallOK(Idle)
    BY SessionStart DEF CallOK, Idle
  <2>2. req = [c \in Clients |-> Idle]
    BY DEF Init
  <2> QED
    BY <2>1, <2>2, IdleOK DEF ReqType
<1> QED
  BY <1>1, <1>2, <1>3, <1>4, <1>5, <1>6, SessionStart DEF SvType, BudgetType

LEMMA InitInv == Init => SvInv
<1> SUFFICES ASSUME Init PROVE SvInv
  OBVIOUS
<1>1. /\ \A c \in Clients : req[c] = Idle
      /\ hist.issued = [n \in 1..MaxTickets |-> 0] /\ hist.created = {Main} /\ hist.acked = {}
      /\ files.bag = {Main} /\ purge = NoPurge /\ mem.admins = Admins /\ files.admins = Admins
      /\ mem.done = {} /\ mem.denied = {}
      /\ files.registry = [denied |-> {}, done |-> {}]
      /\ files.dir.purges = {} /\ \A c \in Clients : bus.missing[c] = {}
  BY DEF Init
<1>2. Idle.op = "none" /\ Idle.pc = "idle" /\ ~Idle.late
  BY DEF Idle
<1>3. ChallengePart
  BY <1>1, <1>2 DEF ChallengePart, Answering
<1>4. GrantPart
  <2>1. mem.loaded[Main] \in 0..Len(inst) /\ Len(inst) \in Nat
    BY InitType DEF SvType, MemType
  <2>2. mem.loaded[Main] # 0 => inst[mem.loaded[Main]].dir = files.dir
    BY <2>1, SessionStart
  <2> QED
    BY <1>1, <1>2, <2>2 DEF GrantPart
<1>5. AdminPart
  BY <1>1, <1>2, ServerAssumption DEF AdminPart, SomeAdmin
<1>6. BagPart /\ HearPart
  BY <1>1, <1>2 DEF BagPart, BagUsers, HearPart
<1>7. ServedPart
  <2>1. \A j \in DOMAIN inst : inst[j].dir.purges = {}
    BY <1>1, SessionStart
  <2> QED
    BY <1>1, <2>1 DEF ServedPart, ServedPurge, ServedDisk, ServedIndex, NoPurge
<1>8. RegistryPart /\ PurgePart /\ PushPart
  BY <1>1, <1>2 DEF RegistryPart, PurgePart, PushPart, NoPurge
<1>9. IndexPart
  <2>1. mem.loaded[Main] \in 0..Len(inst) /\ Len(inst) \in Nat
    BY InitType DEF SvType, MemType
  <2> QED
    BY <2>1, SessionStart DEF IndexPart
<1> QED
  BY <1>3, <1>4, <1>5, <1>6, <1>7, <1>8, <1>9, InitType DEF SvInv

LEMMA InvKept == SvInv /\ [Next]_vars => SvInv'
<1> SUFFICES ASSUME SvInv, [Next]_vars PROVE SvInv'
  OBVIOUS
<1> QED
  BY TypeKept, HearKept, ChallengeKept, GrantKept, AdminKept, BagKept, ServedKept, IndexPartKept,
     RegistryKept, PurgePartKept, PushKept DEF SvInv

-------------------------------------------------------------------------------
(* The invariant holds in every reachable state: handlers are suspended at  *)
(* awaits of the server only with what they may still do to the promises.   *)
THEOREM ServerInvariant == Spec => []SvInv
<1> QED
  BY InitInv, InvKept, PTL DEF Spec

(* AuthenticationService.authenticate: whatever the handlers answering it   *)
(* at the same time, however many challenges are dropped from the list,     *)
(* expire or are lost in a restart, a challenge yields at most one token.   *)
THEOREM ChallengesYieldOnce == Spec => []ChallengeOnce
<1>1. SvInv => ChallengeOnce
  <2> SUFFICES ASSUME SvInv, NEW n \in DOMAIN tickets PROVE hist.issued[n] <= 1
    BY DEF ChallengeOnce
  <2>1. n \in 1..MaxTickets
    BY ServerAssumption DEF SvInv, SvType, AuthType
  <2> QED
    BY <2>1 DEF SvInv, ChallengePart
<1> QED
  BY <1>1, ServerInvariant, PTL

(* validateToken reads the grant of the instance in use: a device whose     *)
(* grant was withdrawn before its push arrived stores nothing, whichever    *)
(* instances were dropped and loaded since; and handleUpdateConfig leaves   *)
(* an admin in force, the one the file names.                               *)
THEOREM AccessIsSound == Spec => []AccessSound
<1>1. SvInv => AccessSound
  <2> SUFFICES ASSUME SvInv PROVE AccessSound
    OBVIOUS
  <2>1. RevokedStaysOut
    BY DEF SvInv, GrantPart, RevokedStaysOut
  <2> QED
    BY <2>1 DEF SvInv, AdminPart, AccessSound
<1> QED
  BY <1>1, ServerInvariant, PTL

(* putEntries, registerTenant and publishSyncChangeEvent: what was          *)
(* acknowledged is on the disk and in the index of the instance handed out, *)
(* across purges, restarts and dropped instances, the key of a registered   *)
(* tenant is in the key bag, and subscribers hear of every push.            *)
THEOREM AcksAreKept == Spec => []AcksKept
<1>1. SvInv => AcksKept
  <2> SUFFICES ASSUME SvInv PROVE AcksKept
    OBVIOUS
  <2>1. AckedIsServed
    <3> DEFINE purging == (UNION {PurgeDocs[r] : r \in files.dir.purges}) \cup hist.excused
    <3>1. \A e : Excused(e) <=> DocOf[e] \in purging
      BY DEF Excused, Requested
    <3> HIDE DEF purging
    <3>2. ServedDisk /\ ServedIndex
      BY DEF SvInv, ServedPart
    <3>3. \A e \in hist.acked : \/ DocOf[e] \in purging \/ hist.split
             \/ /\ e \in files.entries
                /\ (mem.loaded[Main] # 0 /\ inst[mem.loaded[Main]].open)
                      => e \in inst[mem.loaded[Main]].index
      BY <3>1, <3>2 DEF ServedDisk, ServedIndex
    <3> QED
      BY <3>3 DEF AckedIsServed, purging
  <2>2. RegisteredAloneHasKey
    BY DEF SvInv, BagPart, RegisteredAloneHasKey, RegisteredHasKey
  <2>3. SubscribersHear
    BY DEF SvInv, SvType, BusType, HearPart, SubscribersHear
  <2> QED
    BY <2>1, <2>2, <2>3 DEF AcksKept
<1> QED
  BY <1>1, ServerInvariant, PTL

(* executePendingPurges and PurgedDocRegistry: a processed request's        *)
(* documents are on the denylist, in memory and in the file, and have no    *)
(* entry on the disk, unless one of the named windows was passed.           *)
THEOREM PurgesDoLast == Spec => []PurgesLast
<1>1. SvInv => PurgesLast
  <2> SUFFICES ASSUME SvInv PROVE PurgesLast
    OBVIOUS
  <2>1. ProcessedIsGone
    BY DEF SvInv, RegistryPart, Erased, ProcessedIsGone
  <2>2. DenylistDurable
    BY DEF SvInv, RegistryPart, DenylistDurable
  <2> QED
    BY <2>1, <2>2 DEF PurgesLast
<1> QED
  BY <1>1, ServerInvariant, PTL
=============================================================================
