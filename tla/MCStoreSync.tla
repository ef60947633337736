---------------------------- MODULE MCStoreSync ----------------------------
(***************************************************************************)
(* Instances of StoreSync for TLC.  A behaviour has one scenario: which    *)
(* sessions the client runs, where entries are written, and what else the  *)
(* world may do.                                                           *)
(* Entries are written at any time, while no session runs, or before the   *)
(* first one.                                                              *)
(***************************************************************************)
EXTENDS StoreSync, TLC

CONSTANTS pull, pull2

VARIABLE scenario

MCSessions == {"push", pull, pull2}
\* The two pulls may change places
MCSymmetry == Permutations({pull, pull2})

\* Entries 1 and 2 are of one document, 3 of another
MCDocOf == [i \in Ids |-> IF i <= 2 THEN "d1" ELSE "d2"]

\* A push takes the client's entries to the server, a pull brings the server's
MCSrc == [x \in Sessions |-> IF x = "push" THEN "client" ELSE "server"]
MCTgt == [x \in Sessions |-> IF x = "push" THEN "server" ELSE "client"]

Quiet == [sessions |-> {"push"}, written |-> [s \in Stores |-> Ids], faults |-> 0,
          epochs |-> 1, purges |-> FALSE, revokes |-> {}, times |-> {1},
          forced |-> FALSE, workers |-> 2, when |-> "any"]

\* One push that rejected entries, faults and restarts interrupt
Push == [Quiet EXCEPT !.written = [s \in Stores |-> IF s = Client THEN Ids ELSE {}],
                      !.faults = 1, !.when = "idle"]
\* Stores are purged, or cleared and filled again, during a push
Resets == [Quiet EXCEPT !.written = [s \in Stores |-> {2, 3}], !.epochs = 2, !.purges = TRUE,
                        !.workers = 1]
\* A pull and a push at the same time
Both == [Quiet EXCEPT !.sessions = {"push", pull}, !.when = "idle", !.times = Times,
                      !.written = [s \in Stores |-> IF s = Client THEN {2} ELSE {2, 3}]]
\* Two pulls at the same time
Pulls == [Quiet EXCEPT !.sessions = {pull, pull2}, !.workers = 1, !.when = "first",
                       !.written = [s \in Stores |-> IF s = Client THEN {} ELSE {2, 3}]]
\* One pull after the other, while a key comes and goes
Keys == [Pulls EXCEPT !.sessions = {pull}, !.when = "any", !.revokes = {2}]

MCInit == Init /\ scenario \in {Push, Resets, Both, Pulls, Keys}

\* What the scenario lets happen
InTime(r) == r # NoReceipt => r.at \in scenario.times
Within ==
  /\ \A x \in Sessions \ scenario.sessions : ss'[x] = Idle
  /\ \A i \in created' \ created :
       /\ \E s \in Stores : i \in scenario.written[s] /\ i \in Stored(stores'[s])
       /\ scenario.when # "any" => \A x \in Sessions : ss[x] = Idle
       /\ scenario.when = "first" => \A p \in Pairs : cursors[p] = NoRecord
  /\ faults' <= scenario.faults
  /\ scenario.faults = 0 => saved' = saved   \* what is saved is read by a restart only
  /\ \A s \in Stores :
       /\ stores'[s].epoch <= scenario.epochs
       /\ scenario.purges \/ Stored(stores[s]) \subseteq Stored(stores'[s])
       /\ \A i \in Ids : InTime(stores'[s].receipt[i])
  /\ \A x \in scenario.sessions : \A b \in ss'[x].work : \A i \in Ids : InTime(b.receipts[i])
  /\ \A x \in scenario.sessions :
       /\ Cardinality(ss'[x].work) <= scenario.workers
       /\ ss[x].pc = "idle" /\ ss'[x].pc = "heads" /\ ~scenario.forced
            => ss'[x].held = cursors[Pair(x)]
  /\ withheld' \subseteq scenario.revokes

MCNext == Next /\ Within /\ UNCHANGED scenario
MCSpec == MCInit /\ [][MCNext]_<<vars, scenario>>

\* One pull after the other alone, one of them interrupted
PullSpec == /\ Init
            /\ scenario = [Keys EXCEPT !.revokes = {}, !.faults = 1]
            /\ [][MCNext]_<<vars, scenario>>
=============================================================================
