------------------------------ MODULE MCDocReplay ------------------------------
(* Instances of DocReplay: two documents, remote and local entries. *)
EXTENDS DocReplay

MCDocOf == [e \in {"r1", "r2", "r3", "r4", "w0", "w1", "w2", "w3"} |-> IF e = "r3" THEN "d2" ELSE "d1"]
MCAuthorOf == [e \in DOMAIN MCDocOf |->
                 CASE e \in {"r1", "r3", "r4"} -> "alice" [] e = "r2" -> "bob" [] OTHER -> "me"]
MCKind == [e \in DOMAIN MCDocOf |->
             CASE e \in {"r1", "r3", "w0"} -> "create" [] e = "w2" -> "delete"
               [] e = "w3" -> "undelete" [] OTHER -> "change"]
MCRemoteDeps == [e \in {"r1", "r2", "r3", "r4"} |-> IF e \in {"r2", "r4"} THEN {"r1"} ELSE {}]

Budget(entries, restart, flushes, key, save, grant) ==
  [entries |-> entries, restart |-> restart, flush |-> flushes, key |-> key,
   save |-> save, grant |-> grant]

(* An author becomes trusted around a restart; two documents evict each
   other; keys come and go, also while a document is indexed or loaded that
   has a new entry, and around a restart; the document is deleted and
   restored. *)
MCBudgets == {Budget({"r1", "r2"}, 1, 1, 0, 0, TRUE),
              Budget({"r1", "r3"}, 1, 1, 0, 0, FALSE),
              Budget({"r1", "w1"}, 0, 1, 1, 0, FALSE),
              Budget({"r1", "w1"}, 0, 0, 2, 0, FALSE),
              Budget({"r1"}, 1, 1, 2, 0, FALSE),
              Budget({"r1", "r4"}, 1, 1, 1, 0, FALSE),
              Budget({"r1", "r4"}, 0, 0, 2, 0, FALSE),
              Budget({"r1", "w2", "w3"}, 0, 1, 0, 0, FALSE),
              Budget({"r1", "r2", "w1"}, 0, 0, 0, 0, FALSE),
              Budget({"w0", "w1"}, 1, 1, 0, 1, FALSE)}
================================================================================
