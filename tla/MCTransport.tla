---------------------------- MODULE MCTransport ----------------------------
(***************************************************************************)
(* Three things that must come to an end: requests through the gate,       *)
(* operations of the network stores, and the sync loop.  The scenario that *)
(* Init chooses decides which of them moves.                               *)
(***************************************************************************)
EXTENDS HttpTransport, ClientStore, StoreSync

HtIdle == [faults |-> 0, aborts |-> 0, on |-> FALSE]
HtScenarios == {HtIdle, [faults |-> 2, aborts |-> 1, on |-> TRUE]}

CsIdle == [n |-> 0, ops |-> {}, stores |-> {}, expiries |-> 0]
CsScenarios == {
  CsIdle,
  [CsIdle EXCEPT !.n = 2, !.ops = {"has", "scan", "head", "lapse"}, !.stores = {"docs"},
                 !.expiries = 1],
  [CsIdle EXCEPT !.n = 3, !.ops = {"scan", "lapse"}, !.stores = {"docs"}, !.expiries = 1],
  [CsIdle EXCEPT !.n = 3, !.ops = {"has", "scan", "net"}, !.stores = {"docs"}],
  [CsIdle EXCEPT !.n = 4, !.ops = {"has", "net"}, !.stores = Databases],
  [CsIdle EXCEPT !.n = 2, !.ops = {"has"}, !.stores = Databases, !.expiries = 2],
  [CsIdle EXCEPT !.n = 4, !.ops = {"has", "override"}, !.stores = Databases] }

\* The loop pushes two entries of two documents
MCDocOf == [i \in Ids |-> IF i = 1 THEN "d1" ELSE "d2"]
MCSrc == [x \in Sessions |-> "client"]
MCTgt == [x \in Sessions |-> "server"]

Requesting == htBudget.on
Operating  == csBudget.ops # {}
Looping    == ~Requesting /\ ~Operating

MCInit == HtInit /\ CsInit /\ Init /\ ~(Requesting /\ Operating)

MCNext ==
  \/ Requesting /\ HtNext /\ UNCHANGED <<csVars, vars>>
  \/ Operating  /\ CsNext /\ UNCHANGED <<htVars, vars>>
  \/ Looping    /\ Next   /\ UNCHANGED <<htVars, csVars>>

\* HtFairness and the fairness of SyncLoopSpec, for the part that moves
MCFairness ==
  /\ \A r \in Requests :
       /\ WF_htVars(Requesting /\ Begin(r)) /\ WF_htVars(Requesting /\ Enter(r))
       /\ WF_htVars(Requesting /\ Send(r)) /\ WF_htVars(Requesting /\ Settle(r))
       /\ WF_htVars(Requesting /\ Wake(r)) /\ WF_htVars(Requesting /\ Tick)
  /\ \A x \in Sessions :
       WF_vars(Looping /\ SyncStep(x)) /\ WF_vars(Looping /\ Start(x, FALSE))

MCSpec == MCInit /\ [][MCNext]_<<htVars, csVars, vars>> /\ MCFairness

(* EveryRequestEnds, in the scenario in which the requests are made. *)
RequestsEnd == Requesting => EveryRequestEnds

(* SyncTerminates and SyncConverges: every sync comes to an end, and an
   application that keeps syncing brings every entry across. *)
SyncsEnd == SyncTerminates /\ SyncConverges
=============================================================================
