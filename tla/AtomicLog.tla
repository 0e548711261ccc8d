----------------------------- MODULE AtomicLog -----------------------------
(***************************************************************************)
(* What the raft library needs of the storage of a peer's log: a log and a *)
(* hard state that change in single steps and survive a restart unchanged. *)
(* raft acknowledges entries and votes as soon as a save returns, so no    *)
(* restart may undo one, and no save may touch an entry that is committed. *)
(***************************************************************************)
EXTENDS Integers, Sequences

CONSTANTS Indexes, Terms

VARIABLES
    log,      \* [index, term]: the last compacted entry; ents: the terms after
    commit,   \* the commit index of the hard state
    term      \* the term of the hard state

vars == <<log, commit, term>>

Logs == [index : Indexes, term : Terms, ents : Seq(Terms \ {0})]

LastOf(l) == l.index + Len(l.ents)

\* The term of entry i, for an i between the compacted entry and the last one.
TermOf(l, i) == IF i = l.index THEN l.term ELSE l.ents[i - l.index]

TypeOK == log \in Logs /\ commit \in Indexes /\ term \in Terms

Init == TypeOK /\ log.ents = <<>> /\ commit = log.index

HardStateGrows == commit' >= commit /\ term' >= term

\* Entries are added, an uncommitted tail may be replaced.
Save ==
    /\ HardStateGrows
    /\ log'.index = log.index /\ log'.term = log.term
    /\ commit' \in commit .. LastOf(log')
    /\ \A i \in log.index .. commit : TermOf(log', i) = TermOf(log, i)

\* A snapshot replaces the log.
Install ==
    /\ HardStateGrows
    /\ log'.index > commit
    /\ log'.ents = <<>>
    /\ commit' = log'.index

\* Committed entries are dropped from the front.
Compact ==
    /\ log'.index \in log.index + 1 .. commit
    /\ log'.term = TermOf(log, log'.index)
    /\ log'.ents = SubSeq(log.ents, log'.index - log.index + 1, Len(log.ents))
    /\ UNCHANGED <<commit, term>>

Next == TypeOK' /\ (Save \/ Install \/ Compact)

Spec == Init /\ [][Next]_vars
=============================================================================
