---------------------------- MODULE MCDirectory ----------------------------
(* The caches of the directory and its history, each in several scenarios. *)
EXTENDS Directory, AccessControl, TLC

CONSTANTS k1, k2, m1, m2, s1, s2

Sym == Permutations({k1, k2})

DirIdle == [writes |-> 0, asks |-> 0, cold |-> FALSE, ops |-> {}]

DirScenarios == {
  DirIdle,
  [writes |-> 3, asks |-> 1, cold |-> FALSE, ops |-> {"register", "revoke", "restore"}],
  [writes |-> 2, asks |-> 2, cold |-> TRUE,  ops |-> {"register", "settings"}],
  [writes |-> 3, asks |-> 0, cold |-> TRUE,  ops |-> {"register", "wipe", "cancel", "crash"}],
  [writes |-> 2, asks |-> 1, cold |-> FALSE, ops |-> {"group", "settings"}],
  [writes |-> 2, asks |-> 1, cold |-> FALSE, ops |-> {"dist", "register"}],
  [writes |-> 2, asks |-> 0, cold |-> TRUE, ops |-> {"app", "setup", "settings"}] }

Granted == [doc |-> "grant", op |-> <<"add", s1>>, tt |-> 1]
Policy  == [doc |-> "policy", op |-> <<"policy", "allow">>, tt |-> 2]

AcIdle ==
  [first |-> <<>>, entries |-> 0, docs |-> {}, witnesses |-> {}, terse |-> TRUE,
   calls |-> 0, overlap |-> FALSE, writes |-> 0, batch |-> 1,
   signers |-> {s1}]

AcScenarios == {
  AcIdle,
  [AcIdle EXCEPT !.entries = 2, !.calls = 2, !.overlap = TRUE,
                 !.docs = {"grant"}, !.witnesses = {"w", "here"}],
  [AcIdle EXCEPT !.first = <<Granted>>, !.entries = 2, !.calls = 2,
                 !.docs = {"grant"}, !.witnesses = {"w", "late", "here"},
                 !.signers = {s1, s2}],
  [AcIdle EXCEPT !.entries = 3, !.calls = 2, !.overlap = TRUE,
                 !.docs = {"grant", "policy"}, !.witnesses = {"w"}],
  [AcIdle EXCEPT !.entries = 3, !.calls = 1, !.terse = FALSE,
                 !.docs = {"grant", "policy", "r1", "r2"}, !.witnesses = {"w"}],
  [AcIdle EXCEPT !.first = <<Granted, Policy>>, !.entries = 1, !.calls = 2,
                 !.docs = {"grant", "r1"}, !.witnesses = {"w"}, !.writes = 3] }

Init == DirInit /\ AcInit /\ (budget = DirIdle \/ acBudget = AcIdle)

DirStep ==
  \/ \E p \in Passers :
       \/ PassStart(p) /\ UNCHANGED acVars
       \/ PassDoc(p) /\ UNCHANGED acVars
       \/ PassLoad(p) /\ UNCHANGED acVars
       \/ PassApply(p) /\ UNCHANGED acVars
       \/ PassEnd(p) /\ UNCHANGED acVars
  \/ \E k \in Keys :
       \/ RegisterUser(k) /\ UNCHANGED acVars
       \/ CancelDeviceWipe({k}) /\ UNCHANGED acVars
       \/ RestoreUser({k}) /\ UNCHANGED acVars
       \/ \E forced \in BOOLEAN : AskStart(k, forced) /\ UNCHANGED acVars
  \/ \E ks \in {Keys} \cup {{k} : k \in Keys}, wipe \in BOOLEAN :
       RevokeUser(ks, wipe) /\ UNCHANGED acVars
  \/ GrantsFound /\ UNCHANGED acVars
  \/ AutoDistribute /\ UNCHANGED acVars
  \/ \E d \in GrantDocs : EditGrant(d) /\ UNCHANGED acVars
  \/ EditEnd /\ UNCHANGED acVars
  \/ AdmRefreshed /\ UNCHANGED acVars
  \/ AdmCrash /\ UNCHANGED acVars
  \/ \E m \in Members :
       \/ AddUsersToGroup(m) /\ UNCHANGED acVars
       \/ GroupOp("remove", m) /\ UNCHANGED acVars
  \/ GroupOp("delete", NoDoc) /\ UNCHANGED acVars
  \/ GroupFound /\ UNCHANGED acVars
  \/ ChangeSettings /\ UNCHANGED acVars
  \/ \E push, pull \in SUBSET {User, "group"} :
       \/ PublishKeyDistribution(push, pull) /\ UNCHANGED acVars
       \/ PublishAppDistribution(push, pull) /\ UNCHANGED acVars
       \/ PublishSyncSetupPolicy(push, pull) /\ UNCHANGED acVars
  \/ DeleteKeyDistribution /\ UNCHANGED acVars
  \/ DeleteAppDistribution /\ UNCHANGED acVars
  \/ DeleteSyncSetupPolicy /\ UNCHANGED acVars
  \/ AskLook /\ UNCHANGED acVars
  \/ AskSynced /\ UNCHANGED acVars
  \/ AskReturn /\ UNCHANGED acVars
  \/ IntervalPasses /\ UNCHANGED acVars

AcStep ==
  \/ \E d \in AcDocs, w \in acBudget.witnesses : \E op \in Ops(d) :
       Store(d, op, w) /\ UNCHANGED dirVars
  \/ \E i \in DOMAIN entries : Receipt(i) /\ UNCHANGED dirVars
  \/ \E c \in Callers :
       \/ CallStart(c) /\ UNCHANGED dirVars
       \/ CallScan(c) /\ UNCHANGED dirVars
       \/ \E d \in AcDocs : CallFold(c, d) /\ UNCHANGED dirVars
       \/ CallEnd(c) /\ UNCHANGED dirVars
  \/ \E k \in acBudget.signers, passes \in SUBSET (RuleDocs \ {UserRule}), rank \in 1..3 :
       WriteDocument(k, passes, rank) /\ UNCHANGED dirVars
  \/ \E n \in 1..3 : PushWrites(n) /\ UNCHANGED dirVars

Next == DirStep \/ AcStep

Spec == Init /\ [][Next]_<<dirVars, acVars>>
=============================================================================
