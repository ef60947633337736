---------------------------- MODULE HttpTransport ----------------------------
(* Requests of several databases to one server: the shared gate              *)
(* (RequestScheduler.ts) and HttpTransport.fetchWithRetry, which runs every  *)
(* attempt inside the gate.  Time counts in ticks of the fallback pause.     *)
EXTENDS Integers, Sequences, FiniteSets, FiniteSetsExt

CONSTANTS
  Requests,      \* requests of the databases
  MaxSlots,      \* slots of the gate
  MaxPause,      \* cap of a pause, in ticks
  Attempts,      \* retryAttempts
  RetryAfter,    \* what Retry-After headers ask for, 0 for none usable
  HtBudgets      \* how many faults and aborts may happen, chosen by Init

ASSUME HtAssumption ==
  /\ IsFiniteSet(Requests) /\ RetryAfter \subseteq Nat
  /\ MaxSlots \in Nat \ {0} /\ MaxPause \in Nat \ {0} /\ Attempts \in Nat \ {0}

VARIABLES
  active,   \* slots in use
  waiters,  \* FIFO of requests that wait for a slot
  pause,    \* ticks until pausedUntil
  at,       \* where a request is
  attempt,  \* its attempts so far
  aborted,  \* requests whose sync was cancelled
  heard,    \* requests in flight that listen to the cancellation
  credit,   \* ghost: fetches a cancelled request may still begin
  held,     \* ghost: ticks the server still asked not to be sent anything
  htBudget

htVars == <<active, waiters, pause, at, attempt, aborted, heard, credit, held, htBudget>>

Ended   == {"ok", "refused", "cancelled", "gave up"}
Owners  == {r \in Requests : at[r] \in {"slot", "sent"}}

-----------------------------------------------------------------------------
(* RequestScheduler *)

ReleaseKeepsWaiter == active' = active - 1 /\ waiters' = waiters

(* The waiter at the head of the queue takes the slot over. *)
ReleaseSlot ==
  IF waiters # <<>>
  THEN active' = active /\ waiters' = Tail(waiters)
  ELSE active' = active - 1 /\ waiters' = waiters

(* Where the others are after a release. *)
Handover(to, r) ==
  [q \in Requests |-> IF q = r THEN to
                      ELSE IF waiters # <<>> /\ q = Head(waiters) /\ waiters' # waiters THEN "slot"
                      ELSE at[q]]

AcquireSlot(r) ==
  IF waiters = <<>> /\ active < MaxSlots
  THEN active' = active + 1 /\ waiters' = waiters /\ at' = [at EXCEPT ![r] = "slot"]
  ELSE active' = active /\ waiters' = Append(waiters, r) /\ at' = [at EXCEPT ![r] = "queued"]

(* A usable Retry-After is cut to the cap, none means the fallback; a pause   *)
(* is extended, never shortened.                                              *)
PauseLength(d) == Min({IF d > 0 THEN d ELSE 1, MaxPause})
PauseFor(d) == Max({pause, PauseLength(d)})

TickRearms ==
  /\ pause > 0 \/ held > 0
  /\ pause' = Min({pause, Max({pause - 1, 1})}) /\ held' = Max({held - 1, 0})
  /\ UNCHANGED <<active, waiters, at, attempt, aborted, heard, credit, htBudget>>

Tick ==
  /\ pause > 0 \/ held > 0
  /\ pause' = Max({pause - 1, 0}) /\ held' = Max({held - 1, 0})
  /\ UNCHANGED <<active, waiters, at, attempt, aborted, heard, credit, htBudget>>

-----------------------------------------------------------------------------
(* fetchWithRetry *)

BeginUnchecked(r) ==
  /\ at[r] \in {"new", "awake"}
  /\ at' = [at EXCEPT ![r] = "waiting"]
  /\ UNCHANGED <<active, waiters, pause, attempt, aborted, heard, credit, held, htBudget>>

(* The loop's head: a cancelled sync ends here, before the gate. *)
Begin(r) ==
  /\ at[r] \in {"new", "awake"}
  /\ at' = [at EXCEPT ![r] = IF r \in aborted THEN "cancelled" ELSE "waiting"]
  /\ UNCHANGED <<active, waiters, pause, attempt, aborted, heard, credit, held, htBudget>>

(* The first wait for the pause is over. *)
Enter(r) ==
  /\ at[r] = "waiting" /\ pause = 0 /\ AcquireSlot(r)
  /\ UNCHANGED <<pause, attempt, aborted, heard, credit, held, htBudget>>

(* attemptFetch: a sync that is cancelled by now is not listened to. *)
Sent(r) ==
  /\ at' = [at EXCEPT ![r] = "sent"] /\ attempt' = [attempt EXCEPT ![r] = @ + 1]
  /\ heard' = IF r \in aborted THEN heard ELSE heard \cup {r}
  /\ credit' = IF r \in aborted THEN [credit EXCEPT ![r] = @ - 1] ELSE credit
  /\ UNCHANGED <<active, waiters, pause, aborted, held, htBudget>>

SendUnpaused(r) == at[r] = "slot" /\ Sent(r)

(* A pause may have begun while the request was in the queue. *)
Send(r) == at[r] = "slot" /\ pause = 0 /\ Sent(r)

(* The attempt ended with an error that is not retried, or with one that is.  *)
AfterError(r, retried) ==
  IF r \in aborted THEN "cancelled"
  ELSE IF ~retried THEN "refused"
  ELSE IF attempt[r] < Attempts THEN "asleep" ELSE "gave up"

Answer(r, to) ==
  /\ at[r] = "sent" /\ ReleaseSlot /\ at' = Handover(to, r)
  /\ heard' = heard \ {r}
  /\ UNCHANGED <<attempt, aborted, credit>>

Succeed(r) == Answer(r, "ok") /\ UNCHANGED <<pause, held, htBudget>>

Faulty == htBudget.faults > 0 /\ htBudget' = [htBudget EXCEPT !.faults = @ - 1]

(* 401, 403, 413 and a signature error. *)
Refuse(r) == Faulty /\ Answer(r, AfterError(r, FALSE)) /\ UNCHANGED <<pause, held>>

(* Server and network errors, and the timeout of the attempt. *)
Fail(r) == Faulty /\ Answer(r, AfterError(r, TRUE)) /\ UNCHANGED <<pause, held>>

RateLimit(r) ==
  /\ Faulty /\ Answer(r, AfterError(r, FALSE))
  /\ \E d \in RetryAfter : pause' = PauseFor(d) /\ held' = Max({held, PauseLength(d)})

AbortFetch(r) == r \in aborted \cap heard /\ Answer(r, "cancelled") /\ UNCHANGED <<pause, held, htBudget>>

(* The backoff is slept outside the gate. *)
Wake(r) ==
  /\ at[r] = "asleep" /\ at' = [at EXCEPT ![r] = "awake"]
  /\ UNCHANGED <<active, waiters, pause, attempt, aborted, heard, credit, held, htBudget>>

Cancel(r) ==
  /\ at[r] \notin Ended /\ r \notin aborted
  /\ htBudget.aborts > 0 /\ htBudget' = [htBudget EXCEPT !.aborts = @ - 1]
  /\ aborted' = aborted \cup {r}
  /\ credit' = [credit EXCEPT ![r] = IF at[r] \in {"waiting", "queued", "slot"} THEN 1 ELSE 0]
  /\ UNCHANGED <<active, waiters, pause, at, attempt, heard, held>>

HtInit ==
  /\ active = 0 /\ waiters = <<>> /\ pause = 0 /\ held = 0
  /\ at = [r \in Requests |-> "new"] /\ attempt = [r \in Requests |-> 0]
  /\ aborted = {} /\ heard = {} /\ credit = [r \in Requests |-> 0] /\ htBudget \in HtBudgets

HtNext ==
  \/ Tick
  \/ \E r \in Requests : Begin(r) \/ Enter(r) \/ Send(r) \/ Succeed(r) \/ Refuse(r) \/ Fail(r)
                         \/ RateLimit(r) \/ AbortFetch(r) \/ Wake(r) \/ Cancel(r)

(* Timers fire, continuations run, and an attempt ends at the latest with its *)
(* timeout.                                                                   *)
Settle(r) == Succeed(r) \/ Refuse(r) \/ Fail(r) \/ RateLimit(r) \/ AbortFetch(r)
HtFairness ==
  /\ WF_htVars(Tick)
  /\ \A r \in Requests : WF_htVars(Begin(r)) /\ WF_htVars(Enter(r)) /\ WF_htVars(Send(r))
                         /\ WF_htVars(Settle(r)) /\ WF_htVars(Wake(r))

HtSpec == HtInit /\ [][HtNext]_htVars /\ HtFairness

-----------------------------------------------------------------------------
(* Properties *)

(* A slot is counted for exactly the requests that hold one, through          *)
(* handovers, retries, refusals and cancellations, and requests wait only     *)
(* while every slot is taken.                                                 *)
SlotsConserved ==
  /\ active = Cardinality(Owners) /\ active <= MaxSlots
  /\ waiters # <<>> => active = MaxSlots

(* After a 429 no request of any database begins before the time the server   *)
(* asked for (up to the cap), not even one that was already in the queue or   *)
(* held a slot; a later, shorter pause does not let it go earlier.            *)
PauseHolds ==
  [][\A r \in Requests : at[r] # "sent" /\ at'[r] = "sent" => held = 0]_htVars

(* A cancelled sync sends nothing more, except one fetch of a request that    *)
(* was in the gate when the sync was cancelled: it is never retried.          *)
CancelledSendsLittle == \A r \in Requests : credit[r] >= 0

(* Every request comes to an end, whatever faults, pauses and cancellations   *)
(* happen: no slot or wake-up is lost.                                        *)
EveryRequestEnds == \A r \in Requests : <>(at[r] \in Ended)
=============================================================================
