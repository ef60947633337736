---------------------------- MODULE MCSyncServer ----------------------------
(* Instances of SyncServer for TLC. *)
EXTENDS SyncServer, TLC

CONSTANTS c1, c2, t1, t2, t3
MCSymmetry == Permutations({c1, c2}) \cup Permutations({t2, t3})

None == [register |-> 0, remove |-> 0, fail |-> 0, reload |-> 0, challenge |-> 0, expire |-> 0,
         auth |-> 0, push |-> 0, dir |-> 0, sync |-> 0, events |-> 0, config |-> 0, restart |-> 0,
         stored |-> {}, session |-> {}, batches |-> {}, changes |-> {}]

MCDocOf == [e \in {"a1", "a2", "b1"} |-> IF e = "b1" THEN "b" ELSE "a"]
MCAuthorOf == [e \in {"a1", "a2", "b1"} |-> IF e = "b1" THEN "k2" ELSE "k1"]
MCPurgeDocs == [r \in {"r1", "r2"} |-> IF r = "r1" THEN {"a"} ELSE {"a", "b"}]

MCBudgets == {
  (* registrations and removals share the key bag *)
  [None EXCEPT !.register = 3, !.remove = 2, !.fail = 1, !.restart = 1],
  (* two handlers answer challenges while grants change and instances reload *)
  [None EXCEPT !.challenge = 2, !.auth = 2, !.expire = 1, !.reload = 1],
  [None EXCEPT !.challenge = 1, !.auth = 2, !.dir = 1, !.reload = 1, !.changes = {"grant"}],
  (* pushes, revocation and wipe, a reload *)
  [None EXCEPT !.session = {"k1"}, !.push = 2, !.dir = 2, !.reload = 1,
               !.batches = {{"a1", "b1"}, {"a2"}}, !.changes = {"grant"}],
  (* pushes race two purge requests, failures and a restart *)
  [None EXCEPT !.session = {"k1"}, !.push = 2, !.dir = 2, !.fail = 1, !.restart = 1,
               !.stored = {"a1", "b1"}, !.batches = {{"a1", "a2"}}, !.changes = {"purge"}],
  (* server to server sync races a purge *)
  [None EXCEPT !.dir = 2, !.sync = 1, !.reload = 1, !.restart = 1, !.stored = {"a1", "b1"},
               !.changes = {"purge"}],
  (* subscribers and pushes *)
  [None EXCEPT !.session = {"k1"}, !.push = 2, !.events = 3, !.reload = 1,
               !.batches = {{"a1"}, {"a2"}}],
  (* the admins edit their own rights *)
  [None EXCEPT !.challenge = 2, !.auth = 2, !.config = 3, !.restart = 1]}
=============================================================================
