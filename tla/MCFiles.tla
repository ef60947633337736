------------------------------ MODULE MCFiles ------------------------------
(***************************************************************************)
(* A behaviour is about one of three things: calls that change the          *)
(* attachments of a document (one after the other with appends, two uploads *)
(* at a time with faults, or calls that overlap), copies of a document, or  *)
(* the files of one store.                                                  *)
(***************************************************************************)
EXTENDS Attachments, DocCopy, OnDiskStore, TLC

CONSTANTS c1, c2

Limit(ops, callers, n, chunks, changes, data, bad) ==
  [ops |-> ops, callers |-> callers, atts |-> n, chunks |-> chunks, changes |-> changes,
   data |-> data, faults |-> bad]

Appends == Limit({"whole", "append"}, {c1}, 1, 5, 3, 3, 0)
Streams == Limit({"stream", "append"}, {c1}, 1, 4, 2, 4, 1)
Uploads == Limit({"stream"}, {c1, c2}, 2, 2, 1, 2, 1)
Retries == Limit({"stream"}, {c1}, 2, 2, 1, 2, 2)
Mixed == Limit({"whole", "append", "remove"}, {c1, c2}, 1, 3, 3, 1, 1)

MCCallers == {c1, c2}

(* No attachment calls while a behaviour is about a copy, and the other way *)
NoCalls == Limit({}, {}, 0, 0, 0, 0, 0)
NoCopy == [store |-> FALSE, tenant |-> FALSE, doc |-> FALSE, key |-> FALSE, directory |-> TRUE,
           mode |-> "history", preserve |-> FALSE, admits |-> {}]
Contexts ==
  [store : BOOLEAN, tenant : BOOLEAN, doc : BOOLEAN, key : BOOLEAN, directory : {FALSE},
   mode : {"history", "flatten"}, preserve : BOOLEAN, admits : {{"copier"}, {"author", "copier"}}]
Copies == {x \in Contexts : (x.store => x.tenant) /\ (x.key => x.tenant)}

-----------------------------------------------------------------------------
(* The store on disk: what it holds at first and what may happen to it      *)

VARIABLE run

\* Every entry is a document of its own, with content of its own
MCDocOf == [i \in Ids |-> i]
MCHashOf == [i \in Ids |-> i]

Had(S, legacy) == [entries |-> S, legacy |-> legacy]
MCInstallations == {Had({}, FALSE), Had({1}, FALSE), Had({1, 2}, FALSE), Had({1, 2}, TRUE)}

NoRun == [had |-> Had({}, FALSE), new |-> {}, purges |-> {}, stamps |-> FALSE,
          numbers |-> 3, ticks |-> FALSE, stops |-> 0, crashes |-> 0]
Puts == [NoRun EXCEPT !.new = {1, 2, 3}, !.crashes = 2]
Receipting == [NoRun EXCEPT !.had = Had({1}, FALSE), !.new = {2}, !.stamps = TRUE,
                            !.numbers = 5, !.stops = 2]
Torn == [NoRun EXCEPT !.had = Had({1}, FALSE), !.new = {2}, !.stamps = TRUE,
                      !.numbers = 3, !.ticks = TRUE, !.stops = 1, !.crashes = 1]
Racing == [NoRun EXCEPT !.had = Had({1, 2}, FALSE), !.purges = {2}, !.stamps = TRUE,
                        !.numbers = 3, !.stops = 1]
Purges == [NoRun EXCEPT !.had = Had({1, 2}, FALSE), !.new = {3}, !.purges = {1, 2},
                        !.crashes = 1]
Upgrade == [NoRun EXCEPT !.had = Had({1, 2}, TRUE), !.new = {3}, !.stops = 1, !.crashes = 1]

\* A step that its run allows
Within ==
  /\ stops' <= run.stops /\ crashes' <= run.crashes
  /\ \A t \in Tasks :
       /\ tasks[t].kind = "none" => next + Cardinality(tasks'[t].batch) <= run.numbers + 1
       /\ tasks'[t].kind = "put" => tasks'[t].batch \subseteq run.new
       /\ tasks'[t].kind = "receipts" => run.stamps
       /\ tasks'[t].kind = "purge" => tasks'[t].doc \in run.purges
  /\ erased' \subseteq run.purges
  /\ ~run.ticks => "tick" \notin upset'

-----------------------------------------------------------------------------
MCInit ==
  /\ AttInit /\ CopyInit
  /\ \/ limit \in {Appends, Streams, Uploads, Retries, Mixed} /\ ctx = NoCopy /\ run = NoRun
     \/ limit = NoCalls /\ ctx \in Copies /\ run = NoRun
     \/ limit = NoCalls /\ ctx = NoCopy /\ run \in {Puts, Receipting, Torn, Racing, Purges, Upgrade}
  /\ Init /\ InitWith(run.had)

MCNext ==
  \/ limit /= NoCalls /\ AttNext /\ UNCHANGED <<copyVars, vars, run>>
  \/ ctx /= NoCopy /\ CopyNext /\ UNCHANGED <<attVars, vars, run>>
  \/ run /= NoRun /\ Next /\ Noted /\ Within /\ UNCHANGED <<attVars, copyVars, run>>
MCSpec == MCInit /\ [][MCNext]_<<attVars, copyVars, vars, run>> /\ AttFairness

\* The store that is purged alone
PurgeSpec == MCInit /\ run = Purges /\ [][MCNext]_<<attVars, copyVars, vars, run>>
=============================================================================
