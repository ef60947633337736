------------------------------ MODULE SyncServer ------------------------------
(***************************************************************************)
(* The sync server process: tenant registration and the key bag of the     *)
(* server (TenantManager), the instances of a loaded tenant, device and    *)
(* admin authentication, pushes, change events, history purges, server to  *)
(* server sync and the admin configuration.                                *)
(*                                                                         *)
(* A handler runs from one await to the next, so a step is the code        *)
(* between two awaits and `req` holds the suspended handlers.  Everything  *)
(* in memory is lost in a restart, `files` survives it.                    *)
(***************************************************************************)
EXTENDS Naturals, Sequences, FiniteSets

CONSTANTS
  Tenants,       \* tenant ids
  Main,          \* the tenant that is registered and used for sync
  Clients,       \* clients, one request each at a time
  Keys,          \* device signing keys
  Admins,        \* system admin principals
  Entries,       \* entries of the main tenant's database
  DocOf,         \* [Entries -> documents]
  AuthorOf,      \* [Entries -> Keys]
  Purges,        \* purge requests an admin may write to the directory
  PurgeDocs,     \* [Purges -> set of documents]
  Upstream,      \* entries the remote server of ServerSync holds
  MaxChallenges, \* MAX_CHALLENGES of an AuthenticationService
  MaxInst,       \* bound on the instances created
  MaxTickets,    \* bound on the challenges generated
  Budgets        \* bounds: what may happen in a behaviour, one is picked

VARIABLES
  files,     \* what survives a restart (see FilesOK)
  mem,       \* the process: [loaded, denied, done, admins]
  inst,      \* Seq of LoadedTenant: [tenant, real, open, index, dir]
  tickets,   \* Seq of challenges: [svc, key, used, kept]
  tokens,    \* tokens issued: [svc, key, wipe]
  req,       \* [Clients -> the handler in flight]
  purge,     \* executePendingPurges in flight
  upstream,  \* ServerSync.syncDatabase in flight
  bus,       \* change events: [subs, missing, pending]
  budget,    \* what may still happen
  hist       \* history: [acked, created, issued, excused, overlap, split, failed, left]

(* What a behaviour may hold: how often each thing happens, what the disk  *)
(* has, who is signed in, what is pushed and which changes are made.       *)
Allowances ==
  [register : Nat, remove : Nat, fail : Nat, reload : Nat, challenge : Nat, expire : Nat,
   auth : Nat, push : Nat, dir : Nat, sync : Nat, events : Nat, config : Nat, restart : Nat,
   stored : SUBSET Entries, session : SUBSET Keys, batches : SUBSET SUBSET Entries,
   changes : SUBSET {"grant", "purge"}]

ASSUME ServerAssumption ==
  /\ Main \in Tenants /\ Admins # {} /\ IsFiniteSet(Keys)
  /\ AuthorOf \in [Entries -> Keys] /\ Upstream \subseteq Entries
  /\ PurgeDocs \in [Purges -> SUBSET {DocOf[e] : e \in Entries}]
  /\ {MaxChallenges, MaxInst, MaxTickets} \subseteq Nat
  /\ Budgets \subseteq Allowances

vars == <<files, mem, inst, tickets, tokens, req, purge, upstream, bus, budget, hist>>

Docs == {DocOf[e] : e \in Entries}
EntriesOf(D) == {e \in Entries : DocOf[e] \in D}
Status == {"active", "wipe", "revoked"}
System == 0                           \* the SystemAdminAuth service
Principals == Keys \cup Admins
Idle == [op |-> "none", pc |-> "idle", i |-> 0, arg |-> {}, view |-> {}, tok |-> {},
         live |-> FALSE, late |-> FALSE, before |-> {}]
Answered(c) == req' = [req EXCEPT ![c] = Idle]
Goto(c, pc) == [req EXCEPT ![c].pc = pc]
Spend(f) == budget[f] > 0 /\ budget' = [budget EXCEPT ![f] = @ - 1]
In(c, op, pc) == req[c].op = op /\ req[c].pc = pc

(* A request enters its handler. *)
Arrive(c, op, pc, arg) ==
  /\ req[c] = Idle
  /\ req' = [req EXCEPT ![c] = [Idle EXCEPT !.op = op, !.pc = pc, !.arg = arg]]

-------------------------------------------------------------------------------
(***************************************************************************)
(* Registration.  The key bag file is read, changed and written back over  *)
(* several awaits without a lock.                                          *)
(***************************************************************************)
BagUsers == {c \in Clients : req[c].pc = "bagSave"}

(* A handler with a key bag in hand marks every other one as overlapped. *)
TakeBag(c) ==
  hist' = [hist EXCEPT !.overlap = @ \/ BagUsers \ {c} # {}]

RegisterTenant(c, t) ==
  /\ Spend("register")
  /\ Arrive(c, "register", "config", {t})
  /\ UNCHANGED <<files, mem, inst, tickets, tokens, purge, upstream, bus, hist>>

(* The handler has the incoming key; the config decides. *)
RegisterConfig(c) ==
  /\ In(c, "register", "config")
  /\ IF req[c].arg \subseteq files.config
     THEN req' = Goto(c, "compare") /\ UNCHANGED files
     ELSE /\ files' = [files EXCEPT !.config = @ \cup req[c].arg]
          /\ req' = Goto(c, "bagLoad")
  /\ UNCHANGED <<mem, inst, tickets, tokens, purge, upstream, bus, budget, hist>>

(* Registered before: created = false when the key bag has the key, else 409. *)
RegisterCompare(c) ==
  /\ In(c, "register", "compare")
  /\ Answered(c)
  /\ UNCHANGED <<files, mem, inst, tickets, tokens, purge, upstream, bus, budget, hist>>

LoadServerKeyBag(c) ==
  /\ req[c].pc = "bagLoad"
  /\ req' = [req EXCEPT ![c].pc = "bagSave", ![c].view = files.bag]
  /\ TakeBag(c)
  /\ UNCHANGED <<files, mem, inst, tickets, tokens, purge, upstream, bus, budget>>

PersistTenantPublicInfosKey(c) ==
  /\ In(c, "register", "bagSave")
  /\ files' = [files EXCEPT !.bag = req[c].view \cup req[c].arg]
  /\ hist' = [hist EXCEPT !.created = @ \cup req[c].arg]
  /\ Answered(c)
  /\ UNCHANGED <<mem, inst, tickets, tokens, purge, upstream, bus, budget>>

(* Saving failed: the tenant directory is removed again. *)
PersistFailed(c) ==
  /\ In(c, "register", "bagSave")
  /\ Spend("fail")
  /\ files' = [files EXCEPT !.config = @ \ req[c].arg]
  /\ Answered(c)
  /\ UNCHANGED <<mem, inst, tickets, tokens, purge, upstream, bus, hist>>

(* DELETE /system/tenants/:id, by a system admin or the tenant's own admin. *)
RemoveTenant(c, t) ==
  /\ t \in files.config
  /\ Spend("remove")
  /\ Arrive(c, "remove", "bagLoad", {t})
  /\ mem' = [mem EXCEPT !.loaded[t] = 0]
  /\ UNCHANGED <<files, inst, tickets, tokens, purge, upstream, bus, hist>>

RemoveTenantFiles(c) ==
  /\ In(c, "remove", "bagSave")
  /\ files' = [files EXCEPT !.bag = req[c].view \ req[c].arg, !.config = @ \ req[c].arg]
  /\ hist' = [hist EXCEPT !.created = @ \ req[c].arg]
  /\ Answered(c)
  /\ UNCHANGED <<mem, inst, tickets, tokens, purge, upstream, bus, budget>>

(* PUT /system/tenants/:id: the loaded instance is dropped, not closed. *)
UpdateTenantConfig(t) ==
  /\ t \in files.config
  /\ Spend("reload")
  /\ mem' = [mem EXCEPT !.loaded[t] = 0]
  /\ UNCHANGED <<files, inst, tickets, tokens, req, purge, upstream, bus, hist>>

-------------------------------------------------------------------------------
(***************************************************************************)
(* getTenant: a cached instance, or a new one once its load completes.     *)
(* Two loads may be in flight; the last to complete is cached.             *)
(***************************************************************************)
TenantExists(t) == t \in files.config

NewInstance(t) ==
  [tenant |-> t, real |-> t \in files.bag, open |-> FALSE, index |-> {}, dir |-> files.dir]

GetTenant(c) ==
  /\ req[c].pc = "tenant"
  /\ mem.loaded[Main] # 0
  /\ req' = [req EXCEPT ![c].pc = "gate", ![c].i = mem.loaded[Main]]
  /\ UNCHANGED <<files, mem, inst, tickets, tokens, purge, upstream, bus, budget, hist>>

LoadTenantStart(c) ==
  /\ req[c].pc = "tenant"
  /\ mem.loaded[Main] = 0
  /\ req' = Goto(c, "loading")
  /\ UNCHANGED <<files, mem, inst, tickets, tokens, purge, upstream, bus, budget, hist>>

LoadTenant(c) ==
  /\ req[c].pc = "loading"
  /\ Len(inst) < MaxInst
  /\ inst' = Append(inst, NewInstance(Main))
  /\ mem' = [mem EXCEPT !.loaded[Main] = Len(inst) + 1]
  /\ req' = [req EXCEPT ![c].pc = "gate", ![c].i = Len(inst) + 1]
  /\ UNCHANGED <<files, tickets, tokens, purge, upstream, bus, budget, hist>>

(* The store of an instance reads the disk when it is first used. *)
Opened(i) ==
  IF inst[i].open THEN inst
  ELSE [inst EXCEPT ![i].open = TRUE, ![i].index = files.entries]

-------------------------------------------------------------------------------
(***************************************************************************)
(* AuthenticationService and SystemAdminAuth: challenges and tokens.       *)
(***************************************************************************)
(* The keys of a service's directory that may ask for a challenge. *)
Universe(svc) ==
  IF svc = System THEN Principals
  ELSE IF inst[svc].real THEN {k \in Keys : inst[svc].dir.grant[k] # "revoked"} ELSE {}

Kept(svc) == {n \in DOMAIN tickets : tickets[n].svc = svc /\ tickets[n].kept}

(* storeChallenge: beyond the cap the oldest challenge is dropped. *)
StoreChallenge(svc, k) ==
  LET oldest == CHOOSE n \in Kept(svc) : \A m \in Kept(svc) : n <= m
      evicted == IF Cardinality(Kept(svc)) < MaxChallenges THEN tickets
                 ELSE [tickets EXCEPT ![oldest].kept = FALSE]
  IN tickets' = Append(evicted, [svc |-> svc, key |-> k, used |-> FALSE, kept |-> TRUE])

Challenge(c, k) ==
  /\ TenantExists(Main)
  /\ Len(tickets) < MaxTickets
  /\ Spend("challenge")
  /\ Arrive(c, "challenge", "tenant", {k})
  /\ UNCHANGED <<files, mem, inst, tickets, tokens, purge, upstream, bus, hist>>

GenerateChallenge(c) ==
  /\ In(c, "challenge", "gate")
  /\ LET k == CHOOSE x \in req[c].arg : TRUE
     IN IF k \in Universe(req[c].i) /\ Len(tickets) < MaxTickets
        THEN StoreChallenge(req[c].i, k)
        ELSE UNCHANGED tickets
  /\ Answered(c)
  /\ UNCHANGED <<files, mem, inst, tokens, purge, upstream, bus, budget, hist>>

(* POST /system/auth/challenge: the principal must be in the configuration. *)
SystemChallenge(a) ==
  /\ a \in mem.admins
  /\ Len(tickets) < MaxTickets
  /\ Spend("challenge")
  /\ StoreChallenge(System, a)
  /\ UNCHANGED <<files, mem, inst, tokens, req, purge, upstream, bus, hist>>

(* cleanupExpiredChallenges, or a restart of the service's clock window. *)
ChallengeExpires(n) ==
  /\ tickets[n].kept
  /\ Spend("expire")
  /\ tickets' = [tickets EXCEPT ![n].kept = FALSE]
  /\ UNCHANGED <<files, mem, inst, tokens, req, purge, upstream, bus, hist>>

Authenticate(c, n) ==
  /\ Arrive(c, "auth", IF tickets[n].svc = System THEN "gate" ELSE "tenant", {n})
  /\ Spend("auth")
  /\ UNCHANGED <<files, mem, inst, tickets, tokens, purge, upstream, bus, hist>>

Ticket(c) == CHOOSE n \in req[c].arg : TRUE

(* The challenge belongs to the instance that made it; it is claimed at once. *)
ClaimableBy(c) ==
  LET n == Ticket(c) IN tickets[n].svc = req[c].i /\ tickets[n].kept /\ ~tickets[n].used

(* Mutant: the challenge is marked as used only when the token is made. *)
ClaimChallengeLate(c) ==
  /\ In(c, "auth", "gate")
  /\ IF ClaimableBy(c) /\ tickets[Ticket(c)].key \in Universe(req[c].i)
     THEN req' = Goto(c, "verify") ELSE Answered(c)
  /\ UNCHANGED <<files, mem, inst, tickets, tokens, purge, upstream, bus, budget, hist>>

ClaimChallenge(c) ==
  /\ In(c, "auth", "gate")
  /\ LET n == Ticket(c)
     IN IF ClaimableBy(c)
        THEN /\ tickets' = [tickets EXCEPT ![n].used = TRUE]
             /\ IF tickets[n].key \in Universe(req[c].i)
                THEN req' = Goto(c, "verify") ELSE Answered(c)
        ELSE Answered(c) /\ UNCHANGED tickets
  /\ UNCHANGED <<files, mem, inst, tokens, purge, upstream, bus, budget, hist>>

(* The signature is verified against the keys as they are then. *)
VerifySignature(c) ==
  /\ In(c, "auth", "verify")
  /\ IF tickets[Ticket(c)].key \in Universe(req[c].i)
     THEN req' = Goto(c, "issue") ELSE Answered(c)
  /\ UNCHANGED <<files, mem, inst, tickets, tokens, purge, upstream, bus, budget, hist>>

(* The wipe flag of the token is read once more, after the verification. *)
Wipe(svc, k) == svc # System /\ inst[svc].dir.grant[k] = "wipe"

GenerateToken(c) ==
  /\ In(c, "auth", "issue")
  /\ LET n == Ticket(c)
         k == tickets[n].key
         tok == [svc |-> req[c].i, key |-> k, wipe |-> Wipe(req[c].i, k)]
     IN /\ tokens' = tokens \cup {tok}
        /\ hist' = [hist EXCEPT !.issued[n] = @ + 1]
  /\ Answered(c)
  /\ UNCHANGED <<files, mem, inst, tickets, purge, upstream, bus, budget>>

(* Mutant: the grant is not read again when a token is used. *)
ValidateTokenOnce(i, tok) == tok.svc = i

(* validateToken: the secret of the instance, then the current grant. *)
ValidateToken(i, tok) ==
  /\ tok.svc = i
  /\ ~tok.wipe => inst[i].dir.grant[tok.key] = "active"

Token(c) == CHOOSE tok \in req[c].tok : TRUE

-------------------------------------------------------------------------------
(***************************************************************************)
(* Pushes to the database of the main tenant.                              *)
(***************************************************************************)
PutEntries(c, tok, E) ==
  /\ TenantExists(Main) /\ tok.svc # System
  /\ Spend("push")
  /\ req[c] = Idle
  /\ req' = [req EXCEPT ![c] = [Idle EXCEPT !.op = "push", !.pc = "tenant", !.arg = E,
                  !.tok = {tok}, !.before = mem.denied,
                  !.late = files.dir.grant[tok.key] # "active"]]
  /\ UNCHANGED <<files, mem, inst, tickets, tokens, purge, upstream, bus, hist>>

(* A wipe token passes validateToken and is answered with the wipe directive. *)
PutGate(c) ==
  /\ In(c, "push", "gate")
  /\ IF ValidateToken(req[c].i, Token(c)) /\ ~Token(c).wipe
     THEN req' = Goto(c, "denylist") ELSE Answered(c)
  /\ UNCHANGED <<files, mem, inst, tickets, tokens, purge, upstream, bus, budget, hist>>

(* getPurgedDocIds hands out the registry's own set, or a fresh empty one   *)
(* when no document of the database was purged yet.                        *)
PutDenylist(c) ==
  /\ In(c, "push", "denylist")
  /\ req' = [req EXCEPT ![c].pc = "check", ![c].live = mem.denied # {}]
  /\ inst' = Opened(req[c].i)
  /\ UNCHANGED <<files, mem, tickets, tokens, purge, upstream, bus, budget, hist>>

(* Mutant: the denylist is not consulted. *)
RefusedNever(c) == FALSE

(* One entry of a purged document makes the whole batch fail. *)
Refused(c) == req[c].live /\ \E e \in req[c].arg : DocOf[e] \in mem.denied

(* Entries the store has already are receipts, untrusted authors are skipped. *)
Storable(c) ==
  {e \in req[c].arg : \/ e \in inst[req[c].i].index
                       \/ inst[req[c].i].dir.grant[AuthorOf[e]] = "active"}

PutCheck(c) ==
  /\ In(c, "push", "check")
  /\ IF Refused(c) THEN Answered(c)
     ELSE req' = [req EXCEPT ![c].pc = "store", ![c].view = Storable(c)]
  /\ UNCHANGED <<files, mem, inst, tickets, tokens, purge, upstream, bus, budget, hist>>

(* publishSyncChangeEvent: nothing to do while nobody is subscribed. *)
Announce(E) ==
  bus' = [bus EXCEPT !.pending = @ \/ (E # {} /\ bus.subs # {}),
                     !.missing = [c \in Clients |-> IF c \in bus.subs THEN @[c] \cup E
                                                                      ELSE @[c]]]

(* Mutant: the index of the instance is not told of the new entries. *)
PutStoreUnsynced(c) ==
  /\ In(c, "push", "store")
  /\ files' = [files EXCEPT !.entries = @ \cup req[c].view]
  /\ Announce(req[c].view)
  /\ hist' = [hist EXCEPT !.acked = @ \cup req[c].view]
  /\ Answered(c)
  /\ UNCHANGED <<mem, inst, tickets, tokens, purge, upstream, budget>>

(* The entries go to the disk and to the index of this instance only. *)
PutStore(c) ==
  /\ In(c, "push", "store")
  /\ LET i == req[c].i
         E == req[c].view
         back == {DocOf[e] : e \in E} \cap (mem.denied \ req[c].before)
     IN /\ files' = [files EXCEPT !.entries = @ \cup E]
        /\ inst' = [inst EXCEPT ![i].index = @ \cup E]
        /\ Announce(E)
        /\ hist' = [hist EXCEPT !.acked = @ \cup E, !.excused = @ \cup back,
                                !.split = @ \/ i # mem.loaded[Main]]
  /\ Answered(c)
  /\ UNCHANGED <<mem, tickets, tokens, purge, upstream, budget>>

-------------------------------------------------------------------------------
(***************************************************************************)
(* Pushes to the directory: a grant changes, or a purge is requested.      *)
(***************************************************************************)
GrantChanges == [kind : {"grant"}, key : Keys, to : Status]
PurgeChanges == [kind : {"purge"}, request : Purges]

Directory(dir, ch) ==
  IF ch.kind = "grant" THEN [dir EXCEPT !.grant[ch.key] = ch.to]
                       ELSE [dir EXCEPT !.purges = @ \cup {ch.request}]

PushDirectory(c, ch) ==
  /\ TenantExists(Main)
  /\ Spend("dir")
  /\ Arrive(c, "dir", "tenant", {ch})
  /\ UNCHANGED <<files, mem, inst, tickets, tokens, purge, upstream, bus, hist>>

(* executePendingPurges: a run in flight is shared, not repeated. *)
TriggerPurge == [purge EXCEPT !.pc = IF @ = "idle" THEN "read" ELSE @]

PushDirectoryStore(c) ==
  /\ In(c, "dir", "gate")
  /\ LET i == req[c].i
         ch == CHOOSE x \in req[c].arg : TRUE
     IN /\ files' = [files EXCEPT !.dir = Directory(@, ch)]
        /\ inst' = [inst EXCEPT ![i].dir = Directory(@, ch)]
        /\ hist' = [hist EXCEPT !.split = @ \/ i # mem.loaded[Main]]
        /\ req' = [x \in Clients |-> IF x = c THEN Idle ELSE [req[x] EXCEPT
                      !.late = @ /\ files'.dir.grant[Token(x).key] # "active"]]
  /\ purge' = TriggerPurge
  /\ UNCHANGED <<mem, tickets, tokens, upstream, bus, budget>>

-------------------------------------------------------------------------------
(***************************************************************************)
(* executePendingPurgesInternal.                                           *)
(***************************************************************************)
NoPurge == [pc |-> "idle", todo |-> {}, cur |-> {}, docs |-> {}, doc |-> {}]

(* getTenant of the background work. *)
LoadInBackground ==
  /\ mem.loaded[Main] = 0 /\ TenantExists(Main)
  /\ purge.pc \in {"read", "store"} \/ upstream.pc = "scan"
  /\ Len(inst) < MaxInst
  /\ inst' = Append(inst, NewInstance(Main))
  /\ mem' = [mem EXCEPT !.loaded[Main] = Len(inst) + 1]
  /\ UNCHANGED <<files, tickets, tokens, req, purge, upstream, bus, budget, hist>>

(* The requests are read once; those processed already are skipped. *)
PurgeRead ==
  /\ purge.pc = "read"
  /\ mem.loaded[Main] # 0
  /\ LET i == mem.loaded[Main]
         todo == inst[i].dir.purges \ mem.done
     IN purge' = IF ~inst[i].real \/ todo = {} THEN NoPurge
                 ELSE [NoPurge EXCEPT !.pc = "next", !.todo = todo]
  /\ UNCHANGED <<files, mem, inst, tickets, tokens, req, upstream, bus, budget, hist>>

PurgeRequest(r) ==
  /\ purge.pc = "next" /\ r \in purge.todo
  /\ purge' = [purge EXCEPT !.pc = "doc", !.cur = {r}, !.docs = PurgeDocs[r]]
  /\ UNCHANGED <<files, mem, inst, tickets, tokens, req, upstream, bus, budget, hist>>

(* recordPurgedDoc: the denylist, in memory, before the store is touched. *)
RecordPurgedDoc(d) ==
  /\ purge.pc = "doc" /\ d \in purge.docs
  /\ mem' = [mem EXCEPT !.denied = @ \cup {d}]
  /\ purge' = [purge EXCEPT !.pc = "store", !.docs = @ \ {d}, !.doc = {d}]
  /\ UNCHANGED <<files, inst, tickets, tokens, req, upstream, bus, budget, hist>>

Purged == [purge EXCEPT !.pc = IF purge.docs = {} THEN "mark" ELSE "doc", !.doc = {}]

(* purgeDocHistory removes the entries that the index of this instance      *)
(* lists: what was written through a dropped instance stays on the disk.    *)
PurgeDocHistory ==
  /\ purge.pc = "store"
  /\ mem.loaded[Main] # 0
  /\ LET i == mem.loaded[Main]
         E == Opened(i)[i].index \cap EntriesOf(purge.doc)
     IN /\ inst' = [Opened(i) EXCEPT ![i].index = @ \ E]
        /\ files' = [files EXCEPT !.entries = @ \ E]
        /\ hist' = [hist EXCEPT !.left = IF hist.split THEN @ \cup purge.doc ELSE @]
  /\ purge' = Purged
  /\ UNCHANGED <<mem, tickets, tokens, req, upstream, bus, budget>>

(* A store that fails to purge is logged; the request goes on. *)
PurgeDocHistoryFails ==
  /\ purge.pc = "store"
  /\ Spend("fail")
  /\ purge' = Purged
  /\ hist' = [hist EXCEPT !.failed = @ \cup (purge.doc \cap {DocOf[e] : e \in files.entries})]
  /\ UNCHANGED <<files, mem, inst, tickets, tokens, req, upstream, bus>>

Marked == mem.done \cup purge.cur
MarkNext ==
  IF purge.todo = purge.cur THEN NoPurge
  ELSE [NoPurge EXCEPT !.pc = "next", !.todo = purge.todo \ purge.cur]

MarkRequestProcessed ==
  /\ purge.pc = "mark"
  /\ mem' = [mem EXCEPT !.done = Marked]
  /\ files' = [files EXCEPT !.registry = [denied |-> mem.denied, done |-> Marked]]
  /\ purge' = MarkNext
  /\ UNCHANGED <<inst, tickets, tokens, req, upstream, bus, budget, hist>>

-------------------------------------------------------------------------------
(***************************************************************************)
(* ServerSync.syncDatabase: works on the tenant's store itself, without    *)
(* the checks of a push and without a change event.                        *)
(***************************************************************************)
NoSync == [pc |-> "idle", i |-> 0, view |-> {}]

ServerSyncStart ==
  /\ upstream.pc = "idle" /\ Spend("sync")
  /\ upstream' = [NoSync EXCEPT !.pc = "scan"]
  /\ UNCHANGED <<files, mem, inst, tickets, tokens, req, purge, bus, hist>>

ServerSyncScan ==
  /\ upstream.pc = "scan" /\ mem.loaded[Main] # 0
  /\ LET i == mem.loaded[Main]
     IN /\ inst' = Opened(i)
        /\ upstream' = [pc |-> "put", i |-> i, view |-> Upstream \ Opened(i)[i].index]
  /\ UNCHANGED <<files, mem, tickets, tokens, req, purge, bus, budget, hist>>

ServerSyncPut ==
  /\ upstream.pc = "put"
  /\ LET i == upstream.i
         E == upstream.view
     IN /\ files' = [files EXCEPT !.entries = @ \cup E]
        /\ inst' = [inst EXCEPT ![i].index = @ \cup E]
        /\ hist' = [hist EXCEPT !.excused = @ \cup {DocOf[e] : e \in E},
                                !.split = @ \/ i # mem.loaded[Main]]
  /\ upstream' = NoSync
  /\ UNCHANGED <<mem, tickets, tokens, req, purge, bus, budget>>

-------------------------------------------------------------------------------
(***************************************************************************)
(* GET .../events: a subscriber hears of the pushes that follow.           *)
(***************************************************************************)
SyncEvents(c, tok) ==
  /\ TenantExists(Main) /\ tok.svc # System /\ c \notin bus.subs
  /\ Spend("events")
  /\ req[c] = Idle
  /\ req' = [req EXCEPT ![c] = [Idle EXCEPT !.op = "events", !.pc = "tenant", !.tok = {tok}]]
  /\ UNCHANGED <<files, mem, inst, tickets, tokens, purge, upstream, bus, hist>>

Subscribe(c) ==
  /\ In(c, "events", "gate")
  /\ IF ValidateToken(req[c].i, Token(c)) /\ ~Token(c).wipe
     THEN bus' = [bus EXCEPT !.subs = @ \cup {c}] ELSE UNCHANGED bus
  /\ Answered(c)
  /\ UNCHANGED <<files, mem, inst, tickets, tokens, purge, upstream, budget, hist>>

(* The head was read: every subscriber of that moment hears of the change. *)
PublishEvent ==
  /\ bus.pending
  /\ bus' = [bus EXCEPT !.pending = FALSE,
                        !.missing = [c \in Clients |-> IF c \in bus.subs THEN {} ELSE @[c]]]
  /\ UNCHANGED <<files, mem, inst, tickets, tokens, req, purge, upstream, budget, hist>>

Disconnect(c) ==
  /\ c \in bus.subs
  /\ Spend("events")
  /\ bus' = [bus EXCEPT !.subs = @ \ {c}, !.missing[c] = {}]
  /\ UNCHANGED <<files, mem, inst, tickets, tokens, req, purge, upstream, hist>>

-------------------------------------------------------------------------------
(***************************************************************************)
(* PUT /system/config: the caller must keep the right to call it.  The     *)
(* capability is read from the configuration in memory, not from the token.*)
(***************************************************************************)

UpdateConfig(c, tok, A) ==
  /\ tok.svc = System /\ tok.key \in mem.admins
  /\ tok.key \in A
  /\ Spend("config")
  /\ req[c] = Idle
  /\ req' = [req EXCEPT ![c] = [Idle EXCEPT !.op = "config", !.pc = "write", !.arg = A,
                                          !.tok = {tok}]]
  /\ UNCHANGED <<files, mem, inst, tickets, tokens, purge, upstream, bus, hist>>

ReloadConfig(c) ==
  /\ In(c, "config", "write")
  /\ files' = [files EXCEPT !.admins = req[c].arg]
  /\ mem' = [mem EXCEPT !.admins = req[c].arg]
  /\ Answered(c)
  /\ UNCHANGED <<inst, tickets, tokens, purge, upstream, bus, budget, hist>>

-------------------------------------------------------------------------------
(* The process ends; everything but the files is lost. *)
Lost ==
  /\ inst' = [i \in DOMAIN inst |-> [inst[i] EXCEPT !.open = FALSE, !.index = {}]]
  /\ tickets' = [n \in DOMAIN tickets |-> [tickets[n] EXCEPT !.kept = FALSE]]
  /\ tokens' = {}
  /\ req' = [c \in Clients |-> Idle]
  /\ purge' = NoPurge
  /\ upstream' = NoSync
  /\ bus' = [subs |-> {}, missing |-> [c \in Clients |-> {}], pending |-> FALSE]

Restarted(registry) ==
  mem' = [loaded |-> [t \in Tenants |-> 0], denied |-> registry.denied,
          done |-> registry.done, admins |-> files.admins]

Restart ==
  /\ Spend("restart")
  /\ Lost
  /\ Restarted(files.registry)
  /\ hist' = [hist EXCEPT !.split = FALSE]
  /\ UNCHANGED files

(* A crash in the middle of PurgedDocRegistry.save leaves a corrupt file,   *)
(* which is read as an empty registry.                                     *)
CrashInSave ==
  /\ purge.pc = "mark"
  /\ Spend("restart")
  /\ Lost
  /\ LET empty == [denied |-> {}, done |-> {}]
     IN files' = [files EXCEPT !.registry = empty] /\ Restarted(empty)
  /\ hist' = [hist EXCEPT !.split = FALSE, !.excused = @ \cup mem.denied]

-------------------------------------------------------------------------------
(* The server has just started, or (session) a device has already signed in. *)
Init ==
  /\ budget \in Budgets
  /\ files = [config |-> {Main}, bag |-> {Main}, entries |-> budget.stored, admins |-> Admins,
              registry |-> [denied |-> {}, done |-> {}],
              dir |-> [grant |-> [k \in Keys |-> "active"], purges |-> {}]]
  /\ mem = [loaded |-> [t \in Tenants |-> IF t = Main THEN Cardinality(budget.session) ELSE 0],
            denied |-> {}, done |-> {}, admins |-> Admins]
  /\ tickets = <<>> /\ inst = [i \in 1..Cardinality(budget.session) |-> NewInstance(Main)]
  /\ tokens = {[svc |-> 1, key |-> k, wipe |-> FALSE] : k \in budget.session}
  /\ req = [c \in Clients |-> Idle]
  /\ purge = NoPurge /\ upstream = NoSync
  /\ bus = [subs |-> {}, missing |-> [c \in Clients |-> {}], pending |-> FALSE]
  /\ hist = [acked |-> {}, created |-> {Main}, issued |-> [n \in 1..MaxTickets |-> 0],
             excused |-> {}, overlap |-> FALSE, split |-> FALSE, failed |-> {},
             left |-> {}]

Registration ==
  \E c \in Clients :
    \/ \E t \in Tenants : RegisterTenant(c, t) \/ (t # Main /\ RemoveTenant(c, t))
    \/ RegisterConfig(c) \/ RegisterCompare(c) \/ LoadServerKeyBag(c)
    \/ PersistTenantPublicInfosKey(c) \/ PersistFailed(c) \/ RemoveTenantFiles(c)
Loading == \E c \in Clients : GetTenant(c) \/ LoadTenantStart(c) \/ LoadTenant(c)
Authentication ==
  \/ \E c \in Clients :
       \/ \E k \in Keys : Challenge(c, k)
       \/ GenerateChallenge(c)
       \/ \E n \in DOMAIN tickets : Authenticate(c, n)
       \/ ClaimChallenge(c) \/ VerifySignature(c) \/ GenerateToken(c)
  \/ \E a \in Admins : SystemChallenge(a)
  \/ \E n \in DOMAIN tickets : ChallengeExpires(n)
Pushing ==
  \E c \in Clients :
    \/ \E tok \in tokens, E \in budget.batches : PutEntries(c, tok, E)
    \/ PutGate(c) \/ PutDenylist(c) \/ PutCheck(c) \/ PutStore(c)
    \/ \E ch \in GrantChanges \cup PurgeChanges : ch.kind \in budget.changes /\ PushDirectory(c, ch)
    \/ PushDirectoryStore(c)
Purging ==
  \/ PurgeRead \/ PurgeDocHistory \/ PurgeDocHistoryFails \/ MarkRequestProcessed
  \/ \E r \in Purges : PurgeRequest(r)
  \/ \E d \in Docs : RecordPurgedDoc(d)
Events ==
  \/ \E c \in Clients : Subscribe(c) \/ Disconnect(c) \/ \E tok \in tokens : SyncEvents(c, tok)
  \/ PublishEvent
Configuring ==
  \/ \E c \in Clients : \/ \E tok \in tokens, A \in SUBSET Admins : UpdateConfig(c, tok, A)
                         \/ ReloadConfig(c)
  \/ \E t \in Tenants : UpdateTenantConfig(t)

Next ==
  \/ Registration \/ Loading \/ LoadInBackground \/ Authentication \/ Pushing \/ Purging
  \/ Events \/ Configuring
  \/ ServerSyncStart \/ ServerSyncScan \/ ServerSyncPut
  \/ Restart \/ CrashInSave

Spec == Init /\ [][Next]_vars

-------------------------------------------------------------------------------
(* authenticate: a challenge yields at most one token, also when several    *)
(* handlers answer it at the same time or it expires meanwhile.            *)
ChallengeOnce == \A n \in DOMAIN tickets : hist.issued[n] <= 1


(* validateToken: a device whose grant was withdrawn before its push        *)
(* arrived does not get past the gate, whatever tokens it obtained, unless  *)
(* the directory was written through a dropped instance.                   *)
RevokedStaysOut ==
  \A c \in Clients : (req[c].op = "push" /\ req[c].late /\ ~hist.split) =>
                        req[c].pc \in {"tenant", "loading", "gate"}

(* registerTenant: a tenant that was answered as created, and not removed   *)
(* since, has its key in the server's key bag.                             *)
RegisteredHasKey == hist.created \subseteq files.bag

(* The same, unless two handlers had the key bag in hand at the same time.  *)
RegisteredAloneHasKey == hist.overlap \/ RegisteredHasKey

(* putEntries: an entry that was acknowledged is served by the instance a   *)
(* client is given next, unless a purge of its document was requested or a  *)
(* handler wrote through an instance that had been dropped.                *)
AckedIsServed ==
  LET i == mem.loaded[Main]
      purging == (UNION {PurgeDocs[r] : r \in files.dir.purges}) \cup hist.excused
  IN \A e \in hist.acked : \/ DocOf[e] \in purging \/ hist.split
                            \/ /\ e \in files.entries
                               /\ (i # 0 /\ inst[i].open) => e \in inst[i].index

(* executePendingPurges: the documents of a processed request are on the    *)
(* denylist and have no entry on the disk, outside the windows in `excused`  *)
(* (a push that arrived before the purge, server to server sync, a registry  *)
(* lost in a crash), the stores that failed, and the documents purged while  *)
(* the disk had entries of a dropped instance (`left`).                     *)
ProcessedIsGone ==
  \A r \in mem.done : \A d \in PurgeDocs[r] :
    /\ d \in mem.denied
    /\ d \in hist.excused \cup hist.failed \cup hist.left \/ EntriesOf({d}) \cap files.entries = {}

(* The registry file never lists a request whose documents it does not list *)
(* too: a restart keeps refusing what was purged.                          *)
DenylistDurable == \A r \in files.registry.done : PurgeDocs[r] \subseteq files.registry.denied

(* publishSyncChangeEvent: once no event is pending, a subscriber has been  *)
(* told of every push acknowledged since it subscribed.                    *)
SubscribersHear == bus.pending \/ \A c \in bus.subs : bus.missing[c] = {}

(* handleUpdateConfig: someone can always change the configuration, and the *)
(* file holds what is in force.                                            *)
SomeAdmin == mem.admins # {} /\ mem.admins = files.admins

(* What gets past the gate, and who can change that.                        *)
AccessSound == RevokedStaysOut /\ SomeAdmin

(* What was acknowledged lasts and is announced.                            *)
AcksKept == AckedIsServed /\ RegisteredAloneHasKey /\ SubscribersHear

(* A purge that was processed lasts, in the stores and on the denylist.     *)
PurgesLast == ProcessedIsGone /\ DenylistDurable
=============================================================================
