----------------------------- MODULE ClientStore -----------------------------
(* Authentication of the client's network stores                             *)
(* (ClientNetworkContentAddressedStore.ts): the token that a store caches    *)
(* and the one that all stores of a user share, the single authentication in *)
(* flight, the capability cache, the repetition of an operation whose token  *)
(* the server refused, and the identity a sync may borrow.  Tokens and       *)
(* authentications have the same numbers.                                    *)
EXTENDS Integers, Sequences, FiniteSets, TLC

CONSTANTS
  Databases,    \* network stores of one server
  Callers,   \* operations on them
  Device,    \* the user the stores were opened for
  Admin,     \* the identity that setSyncAuthOverride borrows
  CsBudgets  \* the scenarios, one of which Init chooses

ASSUME CsAssumption ==
  /\ Device # Admin /\ 0 \notin Callers
  /\ CsBudgets \subseteq [n : Nat, expiries : Nat, stores : SUBSET Databases,
                         ops : SUBSET {"has", "scan", "head", "net", "lapse", "override"}]

VARIABLES
  local,   \* per store: token, authenticationPromise, capabilities, identity
  shared,  \* SharedAuthenticationState of each user
  auths,   \* the authentications so far
  dead,    \* tokens the server refuses
  calls,   \* the operation of every caller
  astray,  \* ghost: stores that sent an operation under another identity
  lent,    \* ghost: stores whose identity changed while they held an authentication
  csBudget

csVars == <<local, shared, auths, dead, calls, astray, lent, csBudget>>

Users  == {Device, Admin}
NoCall == [at |-> "free", store |-> 0, kind |-> "has", token |-> 0, wait |-> 0, on |-> 0,
           again |-> FALSE, inner |-> FALSE, caps |-> "none",
           fresh |-> FALSE]  \* ghost: renewed, and nothing the server said has aged since

CsSpend(kind) ==
  /\ kind \in csBudget.ops /\ csBudget.n > 0
  /\ csBudget' = [csBudget EXCEPT !.n = @ - 1]

-----------------------------------------------------------------------------
(* Authentication *)

(* clearAuthCache: the token and the capabilities of the store, and the       *)
(* shared token, but no authentication in flight.                             *)
ClearedLocal(s) == [local EXCEPT ![s].token = 0, ![s].caps = "none", ![s].capsBy = 0]
ClearedShared(s) == [shared EXCEPT ![local[s].as].token = 0]

(* What ensureAuthenticated finds on store s: a token, an authentication to   *)
(* wait for, or nothing.                                                      *)
FoundUnshared(s, l, sh) ==
  IF l[s].token # 0 THEN [token |-> l[s].token, auth |-> 0]
  ELSE IF sh[l[s].as].token # 0 THEN [token |-> sh[l[s].as].token, auth |-> 0]
  ELSE [token |-> 0, auth |-> l[s].auth]

Found(s, l, sh) ==
  IF l[s].token # 0 THEN [token |-> l[s].token, auth |-> 0]
  ELSE IF sh[l[s].as].token # 0 THEN [token |-> sh[l[s].as].token, auth |-> 0]
  ELSE [token |-> 0, auth |-> IF l[s].auth # 0 THEN l[s].auth ELSE sh[l[s].as].auth]

(* The call "k" after authentication i: released if i is over, with the token *)
(* of that time.                                                             *)
Awaited(k, i) ==
  CASE auths[i].at = "ok"   -> [k EXCEPT !.token = i, !.wait = 0, !.fresh = FALSE]
    [] auths[i].at = "fail" -> [k EXCEPT !.at = "failed", !.wait = 0]
    [] OTHER                -> [k EXCEPT !.wait = i]

(* ensureAuthenticated of caller c, whose record becomes "k". *)
EnsureAuthenticated(c, k, l, sh) ==
  LET s == k.store
      f == Found(s, l, sh)
      n == Len(auths) + 1
  IN /\ local'  = [l EXCEPT ![s].token = f.token,
                            ![s].auth = IF f.token # 0 THEN @ ELSE IF f.auth # 0 THEN f.auth ELSE n]
     /\ shared' = IF f.token = 0 /\ f.auth = 0 THEN [sh EXCEPT ![l[s].as].auth = n] ELSE sh
     /\ auths'  = IF f.token = 0 /\ f.auth = 0
                  THEN Append(auths, [store |-> s, user |-> l[s].as, key |-> l[s].as,
                                           at |-> "challenge"])
                  ELSE auths
     /\ calls'  = [calls EXCEPT ![c] =
                     IF f.token # 0 THEN [k EXCEPT !.token = f.token, !.wait = 0]
                     ELSE IF f.auth # 0 THEN Awaited(k, f.auth)
                     ELSE [k EXCEPT !.wait = n]]

(* An operation about to be sent belongs to the identity of its token. *)
Watch ==
  /\ astray' = astray \cup {calls'[c].store : c \in {d \in Callers :
                  /\ calls'[d].at = "call" /\ calls'[d].wait = 0
                  /\ calls[d].at # "call" \/ calls[d].wait # 0
                  /\ auths'[calls'[d].token].user # local'[calls'[d].store].as}}
  /\ UNCHANGED lent

(* The challenge names the user and key of the time it is asked for; it is    *)
(* signed with the key of the time it arrives.                                *)
Challenge(i) ==
  /\ auths[i].at = "challenge"
  /\ auths' = [auths EXCEPT ![i].at = "signed", ![i].key = local[auths[i].store].as]
  /\ UNCHANGED <<local, shared, dead, calls, astray, lent, csBudget>>

(* The end of authentication i: the continuation of the store that began it   *)
(* runs first and takes the promise out of the shared state; a store that     *)
(* waited for the shared promise then drops its own only if both still agree. *)
AuthEnd(i, ok) ==
  LET a == auths[i]
      own == [local EXCEPT ![a.store].token = IF ok THEN i ELSE @, ![a.store].auth = 0]
      left == IF shared[a.user].auth = local[a.store].auth THEN 0 ELSE shared[a.user].auth
  IN /\ shared' = [shared EXCEPT ![a.user].auth = left, ![a.user].token = IF ok THEN i ELSE @]
     /\ local' = [s \in Databases |->
                    IF s = a.store \/ local[s].auth # i THEN own[s]
                    ELSE [own[s] EXCEPT !.token = IF ok THEN i ELSE @,
                                        !.auth = IF i = left THEN 0 ELSE i]]
     /\ auths' = [auths EXCEPT ![i].at = IF ok THEN "ok" ELSE "fail"]
     /\ calls' = [c \in Callers |->
                    IF calls[c].wait # i THEN calls[c]
                    ELSE IF ok THEN [calls[c] EXCEPT !.token = i, !.wait = 0]
                    ELSE [calls[c] EXCEPT !.at = "failed", !.wait = 0]]
     /\ Watch /\ UNCHANGED dead

Authenticate(i) ==
  /\ auths[i].at = "signed" /\ AuthEnd(i, auths[i].key = auths[i].user) /\ UNCHANGED csBudget

AuthNetworkError(i) ==
  /\ auths[i].at \in {"challenge", "signed"} /\ CsSpend("net") /\ AuthEnd(i, FALSE)

-----------------------------------------------------------------------------
(* Operations: "has" needs no capabilities, "scan" has a fallback for old     *)
(* servers that is an operation of its own, "head" has none.                  *)

Operate(c, s, kind) ==
  /\ calls[c].at = "free" /\ CsSpend(kind)
  /\ calls' = [calls EXCEPT ![c] = [NoCall EXCEPT !.at = "start", !.store = s, !.kind = kind]]
  /\ UNCHANGED <<local, shared, auths, dead, astray, lent>>

(* getCapabilities: the cache, the request in flight, or a new request. *)
Ready(k, caps) ==
  IF k.kind = "head" /\ caps = "v1" THEN [k EXCEPT !.at = "failed"]
  ELSE [k EXCEPT !.at = "ready", !.caps = caps, !.on = 0]

CapsInFlight(s) == local[s].capsBy # 0 /\ calls[local[s].capsBy].at = "caps"

NeedCaps(c) ==
  LET k == calls[c]  s == k.store IN
  /\ k.at = "start"
  /\ \/ /\ k.kind = "has" \/ local[s].caps # "none"
        /\ calls' = [calls EXCEPT ![c] = Ready(k, local[s].caps)]
        /\ UNCHANGED <<local, shared, auths>>
     \/ /\ k.kind # "has" /\ local[s].caps = "none" /\ CapsInFlight(s)
        /\ calls' = [calls EXCEPT ![c].at = "capsWait", ![c].on = local[s].capsBy]
        /\ UNCHANGED <<local, shared, auths>>
     \/ /\ k.kind # "has" /\ local[s].caps = "none" /\ ~CapsInFlight(s)
        /\ EnsureAuthenticated(c, [k EXCEPT !.at = "caps"], [local EXCEPT ![s].capsBy = c], shared)
  /\ UNCHANGED <<dead, astray, lent, csBudget>>

(* HttpTransport.getCapabilities takes any failure for an old server. *)
CapsResult(c, caps) ==
  LET s == calls[c].store IN
  /\ calls[c].at = "caps" /\ calls[c].wait = 0
  /\ local' = [local EXCEPT ![s].caps = caps, ![s].capsBy = 0]
  /\ calls' = [d \in Callers |-> IF d = c \/ (calls[d].at = "capsWait" /\ calls[d].on = c)
                                 THEN Ready(calls[d], caps) ELSE calls[d]]
  /\ UNCHANGED <<shared, auths, dead, astray, lent>>

CapsAnswer(c) ==
  CapsResult(c, IF calls[c].token \in dead THEN "v1" ELSE "v5") /\ UNCHANGED csBudget

CapsNetworkError(c) == CsSpend("net") /\ CapsResult(c, "v1")

(* The request for the capabilities failed because nobody could authenticate. *)
CapsFailed(c) ==
  /\ calls[c].at = "capsWait" /\ calls[calls[c].on].at # "caps"
  /\ calls' = [calls EXCEPT ![c].at = "failed"]
  /\ local' = [local EXCEPT ![calls[c].store].capsBy = 0]
  /\ UNCHANGED <<shared, auths, dead, astray, lent, csBudget>>

Request(c) ==
  /\ calls[c].at = "ready"
  /\ EnsureAuthenticated(c, [calls[c] EXCEPT !.at = "call"], local, shared)
  /\ Watch /\ UNCHANGED <<dead, csBudget>>

Answered(c) == calls[c].at = "call" /\ calls[c].wait = 0

Succeeded(c) ==
  /\ Answered(c) /\ calls[c].token \notin dead
  /\ calls' = [calls EXCEPT ![c].at = "done"]
  /\ UNCHANGED <<local, shared, auths, dead, astray, lent, csBudget>>

(* withTransparentReauth: the token was refused, so the caches are cleared    *)
(* and the operation runs once more; the fallback of a scan does so on its    *)
(* own account before the scan does.                                          *)
Nested(k) == k.kind = "scan" /\ k.caps = "v1"

Refused(c) ==
  LET k == calls[c]
      inner == Nested(k) /\ ~k.inner
  IN /\ Answered(c) /\ k.token \in dead
     /\ \/ /\ inner \/ ~k.again
           /\ EnsureAuthenticated(c, [k EXCEPT !.at = "refresh", !.inner = inner,
                                               !.again = @ \/ ~inner, !.fresh = TRUE],
                                  ClearedLocal(k.store), ClearedShared(k.store))
        \/ /\ ~inner /\ k.again
           /\ calls' = [calls EXCEPT ![c].at = "refused"]
           /\ UNCHANGED <<local, shared, auths>>
     /\ UNCHANGED <<dead, astray, lent, csBudget>>

Refreshed(c) ==
  /\ calls[c].at = "refresh" /\ calls[c].wait = 0
  /\ calls' = [calls EXCEPT ![c].at = IF calls[c].inner THEN "ready" ELSE "start"]
  /\ UNCHANGED <<local, shared, auths, dead, astray, lent, csBudget>>

NetworkError(c) ==
  /\ Answered(c) /\ CsSpend("net") /\ calls' = [calls EXCEPT ![c].at = "failed"]
  /\ UNCHANGED <<local, shared, auths, dead, astray, lent>>

-----------------------------------------------------------------------------
(* The environment *)

(* The server no longer accepts the tokens it issued. *)
Expire ==
  /\ csBudget.expiries > 0 /\ csBudget' = [csBudget EXCEPT !.expiries = @ - 1]
  /\ dead' = {i \in DOMAIN auths : auths[i].at = "ok"}
  /\ calls' = [c \in Callers |-> [calls[c] EXCEPT !.fresh = FALSE]]
  /\ UNCHANGED <<local, shared, auths, astray, lent>>

(* Cached tokens enter the last minute before their expiry. *)
Lapse ==
  /\ CsSpend("lapse")
  /\ local' = [s \in Databases |-> [local[s] EXCEPT !.token = 0]]
  /\ shared' = [u \in Users |-> [shared[u] EXCEPT !.token = 0]]
  /\ UNCHANGED <<auths, dead, calls, astray, lent>>

(* setSyncAuthOverride and clearSyncAuthOverride. *)
Override(s, u) ==
  /\ local[s].as # u /\ CsSpend("override")
  /\ local' = [ClearedLocal(s) EXCEPT ![s].as = u]
  /\ shared' = [shared EXCEPT ![u].token = 0, ![local[s].as].token = 0, ![local[s].as].auth = 0]
  /\ lent' = IF local[s].auth = 0 THEN lent ELSE lent \cup {s}
  /\ UNCHANGED <<auths, dead, calls, astray>>

CsInit ==
  /\ csBudget \in CsBudgets
  /\ local = [s \in Databases |-> [token |-> 0, auth |-> 0, caps |-> "none", capsBy |-> 0, as |-> Device]]
  /\ shared = [u \in Users |-> [token |-> 0, auth |-> 0]]
  /\ auths = <<>> /\ dead = {} /\ calls = [c \in Callers |-> NoCall] /\ astray = {} /\ lent = {}

CsNext ==
  \/ \E i \in DOMAIN auths : Challenge(i) \/ Authenticate(i) \/ AuthNetworkError(i)
  \/ \E c \in Callers : \/ \E s \in csBudget.stores, kind \in {"has", "scan", "head"} : Operate(c, s, kind)
                        \/ NeedCaps(c) \/ CapsAnswer(c) \/ CapsNetworkError(c) \/ CapsFailed(c) \/ Request(c)
                        \/ Succeeded(c) \/ Refused(c) \/ Refreshed(c) \/ NetworkError(c)
  \/ Expire \/ Lapse \/ \E s \in csBudget.stores, u \in Users : Override(s, u)

CsSpec == CsInit /\ [][CsNext]_csVars

-----------------------------------------------------------------------------
(* Properties *)

(* However many operations of however many stores need a token at once, one   *)
(* authentication is in flight, unless an identity is borrowed.               *)
SingleAuthentication ==
  ~("override" \in csBudget.ops) =>
    \A i, j \in DOMAIN auths :
      auths[i].at \in {"challenge", "signed"} /\ auths[j].at \in {"challenge", "signed"} => i = j

(* When the server drops its tokens, no caller sees it: the operation gets a  *)
(* new token and succeeds on its repetition.  What is refused after that met  *)
(* a second loss of the tokens, or was handed the outcome of an               *)
(* authentication that its store still held although it was over.             *)
ExpiryIsTransparent == \A c \in Callers : calls[c].at = "refused" => ~calls[c].fresh

(* An operation is sent with a token of the identity its store acts for,      *)
(* unless the identity was changed while the store held an authentication, in *)
(* flight or over.                                                            *)
TokenFitsIdentity == astray \subseteq lent

(* A token in a cache or with a caller was issued, a caller waits only for an *)
(* authentication that is not over, and no request goes out without either.   *)
TokensIssued ==
  LET tokens == {0} \cup {i \in DOMAIN auths : auths[i].at = "ok"} IN
  /\ \A s \in Databases : local[s].token \in tokens
  /\ \A u \in Users : shared[u].token \in tokens
  /\ \A c \in Callers : /\ calls[c].token \in tokens
                        /\ calls[c].wait # 0 => auths[calls[c].wait].at \in {"challenge", "signed"}
                        /\ calls[c].at \in {"caps", "call"} => calls[c].token # 0 \/ calls[c].wait # 0

(* What operations may rely on when they share authentications and tokens.    *)
TokenSound == SingleAuthentication /\ ExpiryIsTransparent /\ TokenFitsIdentity /\ TokensIssued
=============================================================================
