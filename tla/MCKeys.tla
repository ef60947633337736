------------------------------- MODULE MCKeys -------------------------------
(* The User-Key document on three devices, or the key bag of one device: the *)
(* scenario Init chooses decides which of the two moves.                     *)
EXTENDS UserKeys, KeyBag

UkIdle == [n |-> 0, start |-> 0, settling |-> 3, ops |-> {}, keys |-> 1, joiners |-> {}, joining |-> {},
           revocable |-> {}, rotators |-> {}, legacy |-> {}, enrolled |-> {1, 2, 3},
           wipe |-> {}, self |-> {}]
UkBusy == [UkIdle EXCEPT !.self = {FALSE}, !.enrolled = {}]

UkScenarios == {
  [UkBusy EXCEPT !.n = 4, !.ops = {"join", "pair"}, !.keys = 5, !.joiners = {0, 1},
                 !.joining = {1, 2}],
  [UkBusy EXCEPT !.n = 2, !.ops = {"rotate", "revoke", "publish"}, !.keys = 5,
                 !.enrolled = {1, 2, 3}, !.revocable = {3}, !.rotators = {1, 2}],
  [UkBusy EXCEPT !.n = 3, !.ops = {"rotate", "revoke", "approve"}, !.keys = 3,
                 !.enrolled = {1, 2, 3}, !.revocable = {3}, !.rotators = {1}],
  [UkBusy EXCEPT !.n = 3, !.ops = {"join", "approve", "decline", "undo"}, !.keys = 4,
                 !.joiners = {0}, !.joining = {2}, !.enrolled = {1, 3}],
  [UkBusy EXCEPT !.n = 1, !.ops = {"restart", "delete"}, !.keys = 5, !.legacy = {1, 2},
                 !.wipe = {2}, !.self = {FALSE, TRUE}],
  [UkBusy EXCEPT !.n = 4, !.ops = {"restart", "rotate", "approve", "join"}, !.keys = 5,
                 !.joiners = {0}, !.joining = {2}, !.enrolled = {1}, !.rotators = {1}],
  [UkBusy EXCEPT !.n = 2, !.ops = {"restart", "rotate"}, !.keys = 5, !.enrolled = {1, 3},
                 !.rotators = {1, 3}] }

KbIdle == [n |-> 0, ops |-> {}, versions |-> {}, dists |-> {}]
Push2  == [man |-> {1, 2}, push |-> TRUE, pull |-> FALSE, opens |-> TRUE]
PulledToo == [Push2 EXCEPT !.pull = TRUE]
Unread == [Push2 EXCEPT !.opens = FALSE]

KbScenarios == {
  [KbIdle EXCEPT !.n = 4, !.ops = {"set", "delete", "open", "await", "foreign", "get"},
                 !.versions = {1, 2}],
  [KbIdle EXCEPT !.n = 4, !.ops = {"distribute", "pass", "open", "fail", "set"},
                 !.versions = {2}, !.dists = {Push2, PulledToo, Unread}],
  [KbIdle EXCEPT !.n = 4, !.ops = {"wipe", "open", "distribute", "pass", "await", "get"},
                 !.dists = {Push2}] }

Init == UkInit /\ KbInit /\ (kbBudget = KbIdle <=> ukBudget.ops # {})

Next ==
  \/ \E d \in Devices :
       \/ \E self \in ukBudget.self : ReconcileStart(d, self) /\ UNCHANGED kbVars
       \/ ReconcileDrop(d) /\ UNCHANGED kbVars
       \/ EnsurePair(d)    /\ UNCHANGED kbVars
       \/ RotateStart(d)   /\ UNCHANGED kbVars
       \/ \E t \in Devices \ {d}, k \in {"approve", "decline", "undo"} :
            OpStart(d, k, t) /\ UNCHANGED kbVars
       \/ ApproveFinish(d) /\ UNCHANGED kbVars
       \/ DeclineFinish(d) /\ UNCHANGED kbVars
       \/ RotateFinish(d)  /\ UNCHANGED kbVars
       \/ Revoke(d)        /\ UNCHANGED kbVars
       \/ PullDirectory(d) /\ UNCHANGED kbVars
       \/ Restart(d)       /\ UNCHANGED kbVars
  \/ \E n \in Nodes :
       \/ Push(n) /\ UNCHANGED kbVars
       \/ Pull(n) /\ UNCHANGED kbVars
       \/ \E t \in Devices : Join(n, t) /\ UNCHANGED kbVars
  \/ DeletePublished /\ UNCHANGED kbVars
  \/ PublishDefault  /\ UNCHANGED kbVars
  \/ \E k \in KeyIds :
       \/ \E v \in kbBudget.versions : SetKey(k, v) /\ UNCHANGED ukVars
       \/ \E v \in kbBudget.versions : DeleteKeyVersion(k, v) /\ UNCHANGED ukVars
       \/ DeleteKey(k) /\ UNCHANGED ukVars
       \/ RunDbKey(k)  /\ UNCHANGED ukVars
       \/ PassKey(k)   /\ UNCHANGED ukVars
       \/ \E d \in kbBudget.dists : Distribute(k, d) /\ UNCHANGED ukVars
  \/ \E db \in Dbs \cup OldDbs :
       \/ OpenStart(db) /\ UNCHANGED ukVars
       \/ OpenEnd(db)   /\ UNCHANGED ukVars
  \/ ForeignChange   /\ UNCHANGED ukVars
  \/ GetSymmetricKey /\ UNCHANGED ukVars
  \/ AwaitReconcile  /\ UNCHANGED ukVars
  \/ RunEvent        /\ UNCHANGED ukVars
  \/ RunEventsDone   /\ UNCHANGED ukVars
  \/ RunNextDb       /\ UNCHANGED ukVars
  \/ RunFail         /\ UNCHANGED ukVars
  \/ RunEnd          /\ UNCHANGED ukVars
  \/ PassStart       /\ UNCHANGED ukVars
  \/ PassEnd         /\ UNCHANGED ukVars
  \/ WipeLocalTenant /\ UNCHANGED ukVars

UkRuns == UkScenarios \cup {UkIdle}
KbRuns == KbScenarios \cup {KbIdle}

Spec == Init /\ [][Next]_<<ukVars, kbVars>>
=============================================================================
