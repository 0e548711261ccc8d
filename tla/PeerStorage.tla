---------------------------- MODULE PeerStorage ----------------------------
(***************************************************************************)
(* The storage of one peer: PeerStorage of src/raftstore/peer_storage.go   *)
(* with the workers that share its two databases.  The raft worker saves   *)
(* the Ready of the raft library, first the batch of the kv engine, then   *)
(* the batch of the raft engine.  The apply worker writes applied entries  *)
(* and the apply state to the kv engine.  The region worker replaces the   *)
(* data of the region by a snapshot.  The log gc worker deletes compacted  *)
(* entries from the raft engine.  The process may stop between any two     *)
(* writes; a restart rebuilds the memory from the two databases.           *)
(*                                                                         *)
(* An entry is represented by its term, the data of a region by the set of *)
(* the indexes whose entries it contains, a region by the index of the     *)
(* entry that changed it last.                                             *)
(***************************************************************************)
EXTENDS Integers, Sequences, FiniteSets

CONSTANTS
    MaxIndex,       \* bound: the greatest index of an entry
    MaxTerm,        \* bound: the greatest term
    MaxStops,       \* bound: how often the process stops
    MaxCacheCapacity,
    ShortSnaps,     \* may a snapshot end within the peer's (conflicting) log?
    EmptySnaps,     \* may a snapshot carry no data?
    PromptIngest    \* does the region worker finish an apply before the raft
                    \* worker looks at the status of the job?

RaftInitLogIndex == 5
RaftInitLogTerm == 5

ASSUME BoundsAssumption ==
    /\ MaxIndex \in Nat /\ MaxIndex > RaftInitLogIndex
    /\ MaxTerm \in Nat /\ MaxTerm >= RaftInitLogTerm
    /\ MaxStops \in Nat
    /\ MaxCacheCapacity \in Nat \ {0}
ASSUME EnvironmentAssumption ==
    {ShortSnaps, EmptySnaps, PromptIngest} \subseteq BOOLEAN

Indexes == {0} \cup RaftInitLogIndex .. MaxIndex
Terms == {0} \cup RaftInitLogTerm .. MaxTerm

VARIABLES
    \* the raft library (external)
    rlog,       \* its log, in the form of AtomicLog
    rCommit, rTerm,
    unstable,   \* the first entry not handed to the storage yet
    pendSnap,   \* does the next Ready carry the snapshot rlog starts at?
    \* PeerStorage and Peer, in memory
    ps,         \* raft, apply, lastTerm: the two states and lastTerm
    cache,      \* EntryCache
    snapState, status,
    lastApplyingIdx, lastCompacted,
    phase,      \* where the raft worker is in the handling of a Ready
    wb,         \* the two write batches and the InvokeContext
    \* the other workers, in memory
    applier,    \* the apply state of the applier
    results,    \* apply results on their way to the raft worker
    rworker,    \* the region worker: pc, and what applySnap has read
    gcTasks,
    \* the disks
    kv,         \* state, region, apply, snapRaft, data
    rdb,        \* raft, log
    \* the process
    fault,      \* the panic or start-up error met last, "none" if none
    up, stops,
    \* history
    lastChange, \* the last region change that was applied
    lastSnap    \* the snapshot that was saved last: its file is there

raftVars == <<rlog, rCommit, rTerm, unstable, pendSnap>>
diskVars == <<kv, rdb>>
workerVars == <<applier, results, rworker, gcTasks>>
vars == <<rlog, rCommit, rTerm, unstable, pendSnap, ps, cache, snapState, status,
          lastApplyingIdx, lastCompacted, phase, wb, applier, results, rworker,
          gcTasks, kv, rdb, fault, up, stops, lastChange, lastSnap>>
histVars == <<lastChange, lastSnap>>
memVars == <<ps, cache, snapState, status, lastApplyingIdx, lastCompacted>>
readyVars == <<phase, wb>>
procVars == <<fault, up, stops>>

-----------------------------------------------------------------------------
(* Logs.  A log is what it is in AtomicLog. *)
LastOf(l) == l.index + Len(l.ents)
TermOf(l, i) == IF i = l.index THEN l.term ELSE l.ents[i - l.index]
EmptyLog(i, t) == [index |-> i, term |-> t, ents |-> <<>>]

RaftState(l, c, t) == [last |-> l, commit |-> c, term |-> t]
ApplyState(a, i, t) == [applied |-> a, trunc |-> i, truncTerm |-> t]
NoRaftState == RaftState(0, 0, 0)

NoApplyState == ApplyState(0, 0, 0)
RaftStates == [last : Indexes, commit : Indexes, term : Terms]
ApplyStates == [applied : Indexes, trunc : Indexes, truncTerm : Terms]

-----------------------------------------------------------------------------
(* EntryCache: a sequence of entries [index, term]. *)

\* EntryCache.append: would the new entries leave a hole?
CacheHole(c, from) == c # <<>> /\ c[Len(c)].index + 1 < from

\* A mutant: the entries that are replaced stay in the cache.
CacheAppend_keeps(c, from, ents) ==
    c \o [i \in 1 .. Len(ents) |-> [index |-> from + i - 1, term |-> ents[i]]]

\* EntryCache.append: entries from index from on, given by their terms.
CacheAppend(c, from, ents) ==
    LET kept == SelectSeq(c, LAMBDA e : e.index < from)
        new  == kept \o [i \in 1 .. Len(ents) |->
                            [index |-> from + i - 1, term |-> ents[i]]]
        extra == Len(new) - MaxCacheCapacity
    IN  IF ents = <<>> THEN c
        ELSE IF extra > 0 THEN SubSeq(new, extra + 1, Len(new)) ELSE new

\* EntryCache.compactTo
CompactTo(c, idx) == SelectSeq(c, LAMBDA e : e.index >= idx)

(* Reading the log.  Every entry has size 1; max is the limit of raft.      *)
Unavailable == <<0>>

Least(a, b) == IF a < b THEN a ELSE b

\* How many of n entries fit when size is used up already: the first entry of
\* an answer is returned whatever its size.
Fit(n, size, max) ==
    Least(n, IF size >= max THEN (IF size = 0 THEN 1 ELSE 0) ELSE max - size)

\* fetchEntriesTo (the function): from the raft engine, which is read up to
\* the entry that exceeds the limit.
FetchFromDisk(low, high, max) ==
    LET read == Least(high - low, max + 1)
    IN  IF \E i \in low .. low + read - 1 : rdb.log[i] = 0 THEN Unavailable
        ELSE [i \in 1 .. Fit(high - low, 0, max) |-> rdb.log[low + i - 1]]

\* EntryCache.fetchEntriesTo
FetchFromCache(begin, high, max, size) ==
    LET start == begin - cache[1].index
        n     == Least(high - cache[1].index, Len(cache)) - start
    IN  [i \in 1 .. Fit(n, size, max) |-> cache[start + i].term]

\* PeerStorage.Entries, for a range that passes checkRange.
Entries(low, high, max) ==
    IF low = high THEN <<>>
    ELSE IF cache = <<>> \/ high <= cache[1].index
    THEN FetchFromDisk(low, high, max)
    ELSE IF low >= cache[1].index THEN FetchFromCache(low, high, max, 0)
    ELSE LET cacheLow == cache[1].index
             disk == FetchFromDisk(low, cacheLow, max)
         IN  IF disk = Unavailable \/ cacheLow - low > max THEN disk
             ELSE disk \o FetchFromCache(cacheLow, high, max, cacheLow - low)

\* PeerStorage.Term, for an index from the truncated to the last one.
Term(idx) ==
    IF idx = ps.apply.trunc THEN ps.apply.truncTerm
    ELSE IF ps.apply.truncTerm = ps.lastTerm \/ idx = ps.raft.last THEN ps.lastTerm
    ELSE Entries(idx, idx + 1, 1)[1]

-----------------------------------------------------------------------------
NoBatch == [snap |-> FALSE, from |-> 0, ents |-> <<>>, dels |-> {},
            raft |-> NoRaftState, apply |-> NoApplyState, lastTerm |-> 0]
IdleWorker == [pc |-> "idle", region |-> 0, index |-> 0, hasPut |-> FALSE]

\* NewPeerStorage of a region that a split or the bootstrap has created, or of
\* a peer that a message has created and that waits for its first snapshot.
Init ==
    \E i \in {0, RaftInitLogIndex} :
        LET t == IF i = 0 THEN 0 ELSE RaftInitLogTerm IN
        /\ rlog = EmptyLog(i, t) /\ rCommit = i /\ rTerm = t
        /\ unstable = i + 1 /\ pendSnap = FALSE
        /\ ps = [raft |-> RaftState(i, i, t), apply |-> ApplyState(i, i, t),
                 lastTerm |-> t]
        /\ cache = <<>> /\ snapState = "relax" /\ status = "none"
        /\ lastApplyingIdx = i /\ lastCompacted = 0
        /\ phase = "idle" /\ wb = NoBatch
        /\ applier = ApplyState(i, i, t) /\ results = <<>>
        /\ rworker = IdleWorker /\ gcTasks = <<>>
        /\ kv = [state |-> IF i = 0 THEN "none" ELSE "Normal", region |-> i,
                 apply |-> ApplyState(i, i, t), snapRaft |-> NoRaftState,
                 data |-> {}]
        /\ rdb = [raft |-> RaftState(i, i, t), log |-> [j \in 1 .. MaxIndex |-> 0]]
        /\ fault = "none" /\ up = TRUE /\ stops = 0
        /\ lastChange = i /\ lastSnap = 0

\* Can the raft worker take the next message, tick or Ready?
Idle == up /\ phase = "idle"

-----------------------------------------------------------------------------
(* The raft library, as the code uses it.                                   *)

\* A message brings entry k of term t; it may replace an uncommitted tail.
RaftAppend(k, t) ==
    /\ Idle
    /\ rlog.index > 0
    /\ k \in rCommit + 1 .. LastOf(rlog) + 1
    /\ t >= TermOf(rlog, k - 1)
    /\ k <= LastOf(rlog) => t # TermOf(rlog, k)
    /\ rlog' = [rlog EXCEPT !.ents = SubSeq(@, 1, k - 1 - rlog.index) \o <<t>>]
    /\ rTerm' = IF t > rTerm THEN t ELSE rTerm
    /\ unstable' = Least(unstable, k)
    /\ UNCHANGED <<rCommit, pendSnap, memVars, readyVars, workerVars, diskVars,
                   procVars, histVars>>

\* The commit index moves up to c.
RaftCommit(c) ==
    /\ Idle
    /\ c \in rCommit + 1 .. LastOf(rlog)
    /\ rCommit' = c
    /\ UNCHANGED <<rlog, rTerm, unstable, pendSnap, memVars, readyVars,
                   workerVars, diskVars, procVars, histVars>>

\* A snapshot at entry s of term t replaces the log, unless the log has that
\* entry.
RaftSnapshot(s, t) ==
    /\ Idle
    /\ s > rCommit
    /\ t >= TermOf(rlog, rCommit)
    /\ s <= LastOf(rlog) => t # TermOf(rlog, s)
    /\ s <= LastOf(rlog) \/ s <= ps.raft.last => ShortSnaps
    /\ rlog' = EmptyLog(s, t)
    /\ rCommit' = s
    /\ rTerm' = IF t > rTerm THEN t ELSE rTerm
    /\ unstable' = s + 1
    /\ pendSnap' = TRUE
    /\ UNCHANGED <<memVars, readyVars, workerVars, diskVars, procVars, histVars>>

-----------------------------------------------------------------------------
(* The process stops: the memory is lost, the disks are kept.               *)
Stop(why) ==
    /\ up' = FALSE /\ fault' = why
    /\ rlog' = EmptyLog(0, 0) /\ rCommit' = 0 /\ rTerm' = 0
    /\ unstable' = 1 /\ pendSnap' = FALSE
    /\ ps' = [raft |-> NoRaftState, apply |-> NoApplyState, lastTerm |-> 0]
    /\ cache' = <<>> /\ snapState' = "relax" /\ status' = "none"
    /\ lastApplyingIdx' = 0 /\ lastCompacted' = 0
    /\ phase' = "idle" /\ wb' = NoBatch
    /\ applier' = NoApplyState /\ results' = <<>>
    /\ rworker' = IdleWorker /\ gcTasks' = <<>>
    /\ UNCHANGED <<diskVars, histVars>>

Crash == up /\ stops < MaxStops /\ stops' = stops + 1 /\ Stop("none")

\* A mutant: the raft state of the raft engine is taken as it is.
RecoveredRaftState_none == rdb.raft

(* recoverFromApplyingState, run by loadPeers for a region that is Applying. *)
RecoveredRaftState ==
    IF kv.state = "Applying" /\ kv.snapRaft.last > rdb.raft.last
    THEN kv.snapRaft ELSE rdb.raft

\* initLastTerm; 0 when the entry is missing, an error at start-up.
InitLastTerm(raft) ==
    IF raft.last = 0 THEN 0
    ELSE IF raft.last = RaftInitLogIndex THEN RaftInitLogTerm
    ELSE IF raft.last = kv.apply.trunc THEN kv.apply.truncTerm
    ELSE rdb.log[raft.last]

\* The log a restarted raft reads through the storage.
DiskLog(raft) ==
    [index |-> kv.apply.trunc, term |-> kv.apply.truncTerm,
     ents |-> [i \in 1 .. raft.last - kv.apply.trunc |->
                  rdb.log[kv.apply.trunc + i]]]

\* NewPeerStorage fails, or the raft library refuses the recovered state.
RestartFault(raft) ==
    IF raft.last < kv.apply.applied THEN "last index < applied index"
    ELSE IF raft.last > 0 /\ InitLastTerm(raft) = 0 THEN "may lost data"
    ELSE IF raft.commit \notin kv.apply.applied .. raft.last
         THEN "commit out of range"
    ELSE "none"

\* loadPeers and createPeerFsm: a region that is Applying resumes its snapshot.
Restart ==
    LET raft == RecoveredRaftState
        applying == kv.state = "Applying"
        why == RestartFault(raft)
    IN  /\ ~up
        /\ rdb' = [rdb EXCEPT !.raft = raft]
        /\ fault' = why
        /\ up' = (why = "none")
        /\ IF why # "none"
           THEN UNCHANGED <<raftVars, memVars, workerVars>>
           ELSE /\ rlog' = DiskLog(raft)
                /\ rCommit' = raft.commit /\ rTerm' = raft.term
                /\ unstable' = raft.last + 1 /\ pendSnap' = FALSE
                /\ ps' = [raft |-> raft, apply |-> kv.apply,
                          lastTerm |-> InitLastTerm(raft)]
                /\ snapState' = IF applying THEN "applying" ELSE "relax"
                /\ status' = IF applying THEN "pending" ELSE "none"
                /\ lastApplyingIdx' = kv.apply.applied
                /\ applier' = kv.apply
                /\ rworker' = [IdleWorker EXCEPT !.pc =
                                  IF applying THEN "queued" ELSE "idle"]
                /\ UNCHANGED <<cache, lastCompacted, results, gcTasks>>
        /\ UNCHANGED <<readyVars, kv, stops, histVars>>

-----------------------------------------------------------------------------
(* The raft worker: Peer.HandleRaftReadyAppend, handleRaftReady and         *)
(* Peer.PostRaftReadyPersistent.                                            *)

\* A mutant: the raft worker does not wait for the snapshot.
SnapshotApplied_always == TRUE

\* CheckApplyingSnap lets the raft worker go on.
SnapshotApplied ==
    \/ snapState = "relax"
    \/ status = "finished" /\ (PromptIngest => rworker.pc = "idle")

HasReady ==
    \/ pendSnap
    \/ unstable <= LastOf(rlog)
    \/ rCommit > lastApplyingIdx
    \/ ps.raft.last > 0 /\ RaftState(ps.raft.last, rCommit, rTerm) # ps.raft

\* HandleRaftReadyAppend, nothing to save: CheckApplyingSnap notes the end of
\* the region worker's job, or panics.
NoReady ==
    /\ Idle
    /\ snapState = "applying"
    /\ status = "failed" \/ SnapshotApplied
    /\ IF status = "failed"
       THEN Stop("applying snapshot failed") /\ UNCHANGED stops
       ELSE /\ snapState' = "relax"
            /\ UNCHANGED <<raftVars, ps, cache, status, lastApplyingIdx,
                           lastCompacted, readyVars, workerVars, diskVars,
                           procVars, histVars>>

\* SaveReadyState: ApplySnapshot (with ClearMeta), Append, the hard state.
ReadyBatch ==
    LET ents == SubSeq(rlog.ents, unstable - rlog.index, Len(rlog.ents))
        cleared == IF pendSnap THEN 1 .. ps.raft.last ELSE {}
        prevLast == IF pendSnap THEN rlog.index ELSE ps.raft.last
        last == IF ents = <<>> THEN prevLast ELSE LastOf(rlog)
    IN  [snap |-> pendSnap, from |-> unstable, ents |-> ents,
         dels |-> cleared \cup (last + 1 .. prevLast),
         raft |-> IF last = 0 THEN ps.raft ELSE RaftState(last, rCommit, rTerm),
         apply |-> IF pendSnap THEN ApplyState(rlog.index, rlog.index, rlog.term)
                               ELSE ps.apply,
         lastTerm |-> IF ents # <<>> THEN ents[Len(ents)]
                      ELSE IF pendSnap THEN rlog.term ELSE ps.lastTerm]

\* HandleRaftReadyAppend: the batches are filled, the entries are cached.
SaveReady ==
    /\ Idle
    /\ SnapshotApplied
    /\ pendSnap => lastApplyingIdx = ps.apply.applied
    /\ HasReady
    /\ IF ReadyBatch.ents # <<>> /\ CacheHole(cache, unstable)
       THEN Stop("unexpected hole") /\ UNCHANGED stops
       ELSE /\ snapState' = "relax"
            /\ wb' = ReadyBatch
            /\ cache' = CacheAppend(cache, unstable, ReadyBatch.ents)
            /\ phase' = IF pendSnap THEN "kv" ELSE "raft"
            /\ UNCHANGED <<raftVars, ps, status, lastApplyingIdx, lastCompacted,
                           workerVars, diskVars, procVars, histVars>>

\* A mutant: the copied raft state keeps the last index of the Ready.
WriteKV_last ==
    /\ up /\ phase = "kv"
    /\ LET s == wb.apply.trunc IN
       /\ kv' = [kv EXCEPT !.state = "Applying", !.region = s, !.apply = wb.apply,
                           !.snapRaft = RaftState(wb.raft.last, s, wb.raft.term)]
       /\ lastChange' = s /\ lastSnap' = s
    /\ phase' = "raft"
    /\ UNCHANGED <<raftVars, memVars, wb, workerVars, rdb, procVars>>

\* kvWB.WriteToKV: the region is Applying, with the snapshot's states.
WriteKV ==
    /\ up /\ phase = "kv"
    /\ LET s == wb.apply.trunc IN
       /\ kv' = [kv EXCEPT !.state = "Applying", !.region = s, !.apply = wb.apply,
                           !.snapRaft = RaftState(s, s, wb.raft.term)]
       /\ lastChange' = s /\ lastSnap' = s
    /\ phase' = "raft"
    /\ UNCHANGED <<raftVars, memVars, wb, workerVars, rdb, procVars>>

\* raftWB.WriteToRaft
WriteRaft ==
    /\ up /\ phase = "raft"
    /\ rdb' = [raft |-> wb.raft,
               log |-> [i \in 1 .. MaxIndex |->
                           IF i \in wb.from .. wb.from + Len(wb.ents) - 1
                           THEN wb.ents[i - wb.from + 1]
                           ELSE IF i \in wb.dels THEN 0 ELSE rdb.log[i]]]
    /\ phase' = "post"
    /\ UNCHANGED <<raftVars, memVars, wb, workerVars, kv, procVars, histVars>>

\* A mutant: the applier is handed entries that are not committed.
PostReady_uncommitted ==
    /\ up /\ phase = "post"
    /\ ps' = [raft |-> wb.raft, apply |-> wb.apply, lastTerm |-> wb.lastTerm]
    /\ unstable' = LastOf(rlog) + 1 /\ pendSnap' = FALSE
    /\ lastApplyingIdx' = rCommit + 1
    /\ phase' = "idle" /\ wb' = NoBatch
    /\ UNCHANGED <<rlog, rCommit, rTerm, cache, snapState, status, lastCompacted,
                   workerVars, diskVars, procVars, histVars>>

\* PostRaftReadyPersistent (PostReadyPersistent, ScheduleApplyingSnapshot, the
\* registration of the applier) and HandleRaftReadyApply.
PostReady ==
    /\ up /\ phase = "post"
    /\ ps' = [raft |-> wb.raft, apply |-> wb.apply, lastTerm |-> wb.lastTerm]
    /\ unstable' = LastOf(rlog) + 1 /\ pendSnap' = FALSE
    /\ IF wb.snap
       THEN /\ snapState' = "applying" /\ status' = "pending"
            /\ rworker' = [rworker EXCEPT !.pc = "queued"]
            /\ lastApplyingIdx' = wb.apply.trunc
            /\ applier' = wb.apply
       ELSE /\ lastApplyingIdx' = rCommit
            /\ UNCHANGED <<snapState, status, rworker, applier>>
    /\ phase' = "idle" /\ wb' = NoBatch
    /\ UNCHANGED <<rlog, rCommit, rTerm, cache, lastCompacted, results, gcTasks,
                   diskVars, procVars, histVars>>

-----------------------------------------------------------------------------
(* The apply worker, and its results.                                       *)

\* An entry is applied and written with the apply state: a plain entry, a
\* region change (which writes the region state), or a compaction up to c.
ApplyEntry(kind, c) ==
    LET i == applier.applied + 1
        compacts == kind = "compact" /\ c > applier.trunc + 1 /\ c <= applier.applied
        state == IF compacts THEN ApplyState(i, c, rdb.log[c])
                             ELSE [applier EXCEPT !.applied = i]
    IN  /\ up
        /\ i <= lastApplyingIdx
        /\ applier' = state
        /\ kv' = [kv EXCEPT !.apply = state, !.data = @ \cup {i},
                            !.state = IF kind = "region" THEN "Normal" ELSE @,
                            !.region = IF kind = "region" THEN i ELSE @]
        /\ lastChange' = IF kind = "region" THEN i ELSE lastChange
        /\ results' = Append(results, [apply |-> state, compacts |-> compacts])
        /\ UNCHANGED <<raftVars, memVars, readyVars, rworker, gcTasks, rdb,
                       procVars, lastSnap>>

\* onApplyResult: PostApply, and onReadyCompactLog when the log was compacted.
ApplyResult ==
    /\ Idle
    /\ results # <<>>
    /\ LET res == Head(results)
           to == res.apply.trunc + 1
       IN  /\ ps' = [ps EXCEPT !.apply = res.apply]
           /\ IF res.compacts
              THEN /\ gcTasks' = Append(gcTasks, [start |-> lastCompacted, end |-> to])
                   /\ lastCompacted' = to
                   /\ cache' = CompactTo(cache, to)
              ELSE UNCHANGED <<gcTasks, lastCompacted, cache>>
    /\ results' = Tail(results)
    /\ UNCHANGED <<raftVars, snapState, status, lastApplyingIdx, readyVars,
                   applier, rworker, diskVars, procVars, histVars>>

\* onRaftGCLogTick: the entries that are applied leave the cache.
GCCache ==
    /\ Idle
    /\ cache' = CompactTo(cache, ps.apply.applied + 1)
    /\ UNCHANGED <<raftVars, ps, snapState, status, lastApplyingIdx, lastCompacted,
                   readyVars, workerVars, diskVars, procVars, histVars>>

\* gcRaftLog: a start of 0 stands for the first entry on disk.
GCRaftLog ==
    /\ up
    /\ gcTasks # <<>>
    /\ rdb' = [rdb EXCEPT !.log = [i \in 1 .. MaxIndex |->
                  IF i \in Head(gcTasks).start .. Head(gcTasks).end - 1 THEN 0
                                                                      ELSE @[i]]]
    /\ gcTasks' = Tail(gcTasks)
    /\ UNCHANGED <<raftVars, memVars, readyVars, applier, results, rworker, kv,
                   procVars, histVars>>

-----------------------------------------------------------------------------
(* The region worker: handlePendingApplies.                                 *)

\* applySnap: the region state is read, the old data deleted.
CleanUpOriginData ==
    /\ up /\ rworker.pc = "queued"
    /\ rworker' = [rworker EXCEPT !.pc = "cleaned", !.region = kv.region]
    /\ kv' = [kv EXCEPT !.data = {}]
    /\ status' = "running"
    /\ UNCHANGED <<raftVars, ps, cache, snapState, lastApplyingIdx, lastCompacted,
                   readyVars, applier, results, gcTasks, rdb, procVars, histVars>>

\* applySnap: the snapshot's file is converted to a table, when it has data;
\* handleApply: the job is Finished, or Failed when the file is missing.
BuildTable(hasPut) ==
    /\ up /\ rworker.pc = "cleaned"
    /\ hasPut \/ EmptySnaps
    /\ IF kv.apply.trunc = lastSnap
       THEN /\ status' = "finished"
            /\ rworker' = [rworker EXCEPT !.pc = "built", !.hasPut = hasPut,
                                          !.index = kv.apply.trunc]
       ELSE status' = "failed" /\ rworker' = IdleWorker
    /\ UNCHANGED <<raftVars, ps, cache, snapState, lastApplyingIdx, lastCompacted,
                   readyVars, applier, results, gcTasks, diskVars, procVars, histVars>>

\* finishApply: the table is ingested.
Ingest ==
    /\ up /\ rworker.pc = "built"
    /\ rworker' = [rworker EXCEPT !.pc = "ingested"]
    /\ kv' = [kv EXCEPT !.data = @ \cup (RaftInitLogIndex + 1 .. rworker.index)]
    /\ UNCHANGED <<raftVars, memVars, readyVars, applier, results, gcTasks, rdb,
                   procVars, histVars>>

\* finishApply: the region state that was read is written back as Normal, for
\* as many regions as there are ingested tables: not for an empty snapshot.
WriteNormal ==
    /\ up /\ rworker.pc = "ingested"
    /\ rworker' = IdleWorker
    /\ kv' = IF rworker.hasPut
             THEN [kv EXCEPT !.state = "Normal", !.region = rworker.region,
                             !.snapRaft = NoRaftState]
             ELSE kv
    /\ UNCHANGED <<raftVars, memVars, readyVars, applier, results, gcTasks, rdb,
                   procVars, histVars>>

-----------------------------------------------------------------------------
Next ==
    \/ \E k \in Indexes, t \in Terms \ {0} : RaftAppend(k, t) \/ RaftSnapshot(k, t)
    \/ \E c \in Indexes : RaftCommit(c)
    \/ NoReady \/ SaveReady \/ WriteKV \/ WriteRaft \/ PostReady
    \/ ApplyEntry("write", 0) \/ ApplyEntry("region", 0)
    \/ \E c \in Indexes : ApplyEntry("compact", c)
    \/ ApplyResult \/ GCCache \/ GCRaftLog
    \/ CleanUpOriginData \/ (\E p \in BOOLEAN : BuildTable(p)) \/ Ingest \/ WriteNormal
    \/ Crash \/ Restart

Spec == Init /\ [][Next]_vars

-----------------------------------------------------------------------------
TypeOK ==
    /\ rlog \in [index : Indexes, term : Terms, ents : Seq(Terms)]
    /\ rCommit \in Indexes /\ rTerm \in Terms
    /\ unstable \in 1 .. MaxIndex + 1 /\ pendSnap \in BOOLEAN
    /\ ps \in [raft : RaftStates, apply : ApplyStates, lastTerm : Terms]
    /\ cache \in Seq([index : Indexes, term : Terms \ {0}])
    /\ snapState \in {"relax", "applying"}
    /\ status \in {"none", "pending", "running", "finished", "failed"}
    /\ lastApplyingIdx \in Indexes /\ lastCompacted \in 0 .. MaxIndex + 1
    /\ phase \in {"idle", "kv", "raft", "post"}
    /\ applier \in ApplyStates
    /\ rworker.pc \in {"idle", "queued", "cleaned", "built", "ingested"}
    /\ kv.state \in {"none", "Normal", "Applying"}
    /\ kv.apply \in ApplyStates /\ kv.snapRaft \in RaftStates
    /\ kv.data \subseteq Indexes
    /\ rdb \in [raft : RaftStates, log : [1 .. MaxIndex -> Terms]]
    /\ up \in BOOLEAN /\ stops \in 0 .. MaxStops

(* What raft reads through the storage is the log it wrote: for every range *)
(* of stored entries and every size limit, Entries returns the longest      *)
(* prefix within the limit (and at least one entry), whatever the split     *)
(* between cache and disk, and Term agrees.                                 *)
ReadsMatchLog ==
    Idle /\ ~pendSnap =>
        \A low \in ps.apply.trunc + 1 .. unstable - 1 :
            /\ Term(low) = TermOf(rlog, low)
            /\ \A high \in low + 1 .. unstable, max \in 0 .. 3 :
                  Entries(low, high, max) =
                      [i \in 1 .. Least(high - low, IF max = 0 THEN 1 ELSE max) |->
                          TermOf(rlog, low + i - 1)]

(* The data of a region that is Normal on disk reflects exactly the entries *)
(* up to the applied index, and its region is the one the last of them left *)
(* behind, at every moment, hence after every crash.                        *)
DataMatchesApplyState ==
    kv.state = "Normal" =>
        /\ kv.data = RaftInitLogIndex + 1 .. kv.apply.applied
        /\ kv.region = lastChange

(* A restart always succeeds: the recovered states fit each other, the last *)
(* entry is there, and the snapshot an Applying region needs as well.       *)
NeverStuck ==
    fault \in {"none", "unexpected hole"}


(* The two databases together are one log that changes atomically.          *)
DurableLog == INSTANCE AtomicLog WITH
    log <- DiskLog(RecoveredRaftState),
    commit <- RecoveredRaftState.commit,
    term <- RecoveredRaftState.term

DurableLogSpec == DurableLog!Spec
=============================================================================
