----------------------------- MODULE ChangeFeed -----------------------------
(***************************************************************************)
(* The changefeed of one open database, as its consumers see it: for each  *)
(* document its latest content and the changeSeq of its latest change.     *)
(* How the feed is derived from the store is the subject of DocReplay; a   *)
(* document that is deleted, purged or no longer readable arrives as a     *)
(* tombstone in all three cases.                                           *)
(***************************************************************************)
EXTENDS Naturals

CONSTANTS
  Docs,     \* document ids
  Values,   \* document contents
  Gone,     \* content of a deleted or inaccessible document
  MaxSeq    \* bound: changes in a behaviour

ASSUME FeedAssumption == MaxSeq \in Nat /\ Gone \notin Values

VARIABLE feed   \* [Docs -> [seq, val]], seq = 0 before the first change

FeedInit == feed = [d \in Docs |-> [seq |-> 0, val |-> Gone]]

LatestSeq == CHOOSE n \in 0..MaxSeq : /\ \E d \in Docs : feed[d].seq = n
                                      /\ \A d \in Docs : feed[d].seq <= n

(* updateIndex: the document moves to the end of the feed. *)
Write(d, v) ==
  /\ LatestSeq < MaxSeq
  /\ v /= feed[d].val
  /\ feed' = [feed EXCEPT ![d] = [seq |-> LatestSeq + 1, val |-> v]]

(***************************************************************************)
(* iterateChangesSince: the generator copies the index when it starts, so  *)
(* a run delivers every document once, with the changeSeq it had then, and *)
(* with the content it has when it is loaded.                              *)
(***************************************************************************)
ChangesSince(f, c) == {[doc |-> d, seq |-> f[d].seq] : d \in {x \in Docs : f[x].seq > c}}
IsNext(e, todo) == e \in todo /\ \A o \in todo : e.seq <= o.seq
=============================================================================
