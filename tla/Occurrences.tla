---------------------------- MODULE Occurrences ----------------------------
(***************************************************************************)
(* Counting the commands in the queues of the raft store.  A queue is a    *)
(* sequence of records with a field cmd; a callback that must be answered  *)
(* once is accounted for by the number of its occurrences in them.         *)
(***************************************************************************)
EXTENDS Integers, Sequences, FiniteSets

(* The places of command c in the queue s, and how many there are.          *)
Places(c, s) == {i \in DOMAIN s : s[i].cmd = c}
Occ(c, s) == Cardinality(Places(c, s))

(* The callbacks of the commands of s, each to be answered with r.          *)
With(s, r) == [i \in DOMAIN s |-> [cmd |-> s[i].cmd, resp |-> r]]
=============================================================================
