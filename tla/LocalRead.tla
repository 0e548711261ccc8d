----------------------------- MODULE LocalRead -----------------------------
(***************************************************************************)
(* Reads of one peer: the leader lease (util.go), the check a request      *)
(* makes in its own goroutine (leaderChecker of read.go), the read index   *)
(* queue and the steps of the raft worker that move them (peer.go).        *)
(*                                                                         *)
(* The rest of the group is external.  It is one other member, which may   *)
(* lead and commit and acknowledge writes on its own; glog is the group's  *)
(* committed log, acked the length of the prefix some client was told of.  *)
(* A quorum that heard from the peer elects nobody else for               *)
(* ElectionTimeout (raft's check quorum), unless the peer handed over its  *)
(* leadership.  Time is discrete.                                          *)
(***************************************************************************)
EXTENDS Integers, FiniteSets, Sequences, SequencesExt, FiniteSetsExt

CONSTANTS
    Readers,          \* the goroutines that serve read requests
    MaxLease,         \* RaftStoreMaxLeaderLease
    ElectionTimeout,  \* raft's election timeout, longer than MaxLease
    MaxTime, MaxTerm, MaxLog,  \* bounds of the instance
    AtomicChecks,     \* no isExpired overlaps OnRoleChanged of a new leader
    JoinWhileSuspect, \* a read may join a pending one after a TimeoutNow
    MergedRoles       \* the role may change twice between two Readys

(* The last three switch on behaviours of the code under which             *)
(* LinearizableReads or NoReadPanic is lost; see the README.                *)

ASSUME LeaseAssumption ==
    /\ MaxLease \in Nat \ {0}
    /\ ElectionTimeout \in Nat
    /\ ElectionTimeout > MaxLease

VARIABLES
    now,         \* the clock
    group,       \* [term, owner]: the last election, won by "peer" or "other"
    promise,     \* a quorum elects no other member before this time
    timeoutNow,  \* when the peer sent a TimeoutNow that may be in flight, or None
    glog,        \* the committed log: records [term, by, time]
    acked,       \* the length of the prefix of glog clients were told of
    raft,        \* the peer's raft: [role, term, tail, reads, states]
    seen,        \* the role of the last SoftState
    publishing,  \* OnRoleChanged has stored the lease and not yet the term
    lastApplying,\* LastApplyingIdx: what the apply worker has been given
    db,          \* what the apply worker has written
    store,       \* [applied, term]: applied index and appliedIndexTerm
    lease,       \* the Lease: [valid, suspect, lastUpdate, remote]
    checker,     \* the leaderChecker: [term, applied, lease]
    reads,       \* pendingReads.reads: records [id, time, cmds]
    readyCnt,    \* pendingReads.readyCnt
    readers,     \* readers[r]: [pc, need, time, term, lease]
    panic        \* "none", or which panic stopped the store

groupVars == <<group, promise, timeoutNow, glog, acked>>
applyVars == <<lastApplying, db, store>>
leaseVars == <<lease, checker>>
readVars  == <<reads, readyCnt>>
vars == <<now, groupVars, raft, seen, publishing, applyVars, leaseVars,
          readVars, readers, panic>>

None == -1

(* A RemoteLease that ExpireRemoteLease has dropped is never written again, *)
(* so that a pointer to one is "dead"; "live" points to lease.remote.       *)
Pointers == {"nil", "dead", "live"}
Times == {None} \cup 0..(MaxTime + MaxLease)
Checking == {"time", "lease"}
PCs == Checking \cup {"idle", "cmd", "wait", "granted"}

(* The types, and what the comment of Lease demands of its two bounds: one  *)
(* of them is nil.  The applied indexes follow one another.                 *)
TypeOK ==
    /\ now \in 0..MaxTime
    /\ group \in [term : 1..MaxTerm, owner : {"peer", "other"}]
    /\ promise \in Nat /\ timeoutNow \in Times
    /\ \A i \in DOMAIN glog : glog[i].term \in 1..MaxTerm /\ glog[i].time \in Times
    /\ acked \in 0..Len(glog)
    /\ raft.role \in {"leader", "candidate", "follower"}
    /\ raft.term \in 1..group.term
    /\ store.applied <= db /\ db <= lastApplying /\ lastApplying <= Len(glog)
    /\ lease.valid \in Times /\ lease.suspect \in Times
    /\ lease.valid # None => lease.suspect = None
    /\ checker.lease \in Pointers /\ checker.lease = "live" <=> lease.remote # <<>>
    /\ readyCnt \in 0..Len(reads)
    /\ \A r \in Readers : readers[r].pc \in PCs

\* newPeer, of a group that has not elected a leader yet.
Init ==
    /\ now = 0
    /\ group = [term |-> 1, owner |-> "other"]
    /\ promise = 0 /\ timeoutNow = None
    /\ glog = <<>> /\ acked = 0
    /\ raft = [role |-> "follower", term |-> 1, tail |-> <<>>, reads |-> <<>>,
               states |-> <<>>]
    /\ seen = "follower" /\ publishing = FALSE
    /\ lastApplying = 0 /\ db = 0
    /\ store = [applied |-> 0, term |-> 0]
    /\ lease = [valid |-> None, suspect |-> None, lastUpdate |-> 0, remote |-> <<>>]
    /\ checker = [term |-> 1, applied |-> 0, lease |-> "nil"]
    /\ reads = <<>> /\ readyCnt = 0
    /\ readers = [r \in Readers |-> [pc |-> "idle", need |-> 0, time |-> 0,
                                     term |-> 0, lease |-> "nil"]]
    /\ panic = "none"

Running == panic = "none"

-----------------------------------------------------------------------------
(* The lease.  Its operators take and return the record x of the Lease and  *)
(* of everything that holds a pointer to its RemoteLease.                    *)

LeaseState == [lease |-> lease, checker |-> checker, readers |-> readers,
               panic |-> panic]

Renewed(l, ts) ==
    LET bound == ts + MaxLease
    IN  IF Max({l.suspect, l.valid}) < bound
        THEN [l EXCEPT !.suspect = None, !.valid = bound] ELSE l

\* Renew: the RemoteLease follows when the bound moved by more than maxDrift.
Renew(l, ts) ==
    LET n == Renewed(l, ts)
    IN  IF n.valid # None /\ n.valid - n.lastUpdate > MaxLease \div 3
        THEN [n EXCEPT !.lastUpdate = n.valid,
                       !.remote = IF @ = <<>> THEN @ ELSE [@ EXCEPT !.expired = n.valid]]
        ELSE n

\* MaybeNewRemoteLease, and the store of its pointer: one per term.
MaybeNewRemoteLease(x, l) ==
    LET made == [term |-> raft.term, expired |-> IF l.valid = None THEN 0 ELSE l.valid]
    IN  IF l.remote = <<>>
        THEN [x EXCEPT !.lease = [l EXCEPT !.remote = made], !.checker.lease = "live"]
        ELSE [x EXCEPT !.lease = l,
                       !.panic = IF l.remote.term = raft.term THEN @ ELSE "old remote lease"]

\* MaybeRenewLeaderLease
MaybeRenew(x, ts) ==
    IF raft.role # "leader" THEN x ELSE MaybeNewRemoteLease(x, Renew(x.lease, ts))

Killed(p) == IF p = "live" THEN "dead" ELSE p

\* ExpireRemoteLease
ExpireRemote(x) ==
    [x EXCEPT !.lease.remote = <<>>,
              !.checker.lease = Killed(@),
              !.readers = [r \in Readers |-> [@[r] EXCEPT !.lease = Killed(@)]]]

\* Mutant: the valid bound is not cleared.
Suspect_keepsValid(x) ==
    [ExpireRemote(x) EXCEPT !.lease.suspect = now + MaxLease]

Suspect(x) ==
    [ExpireRemote(x) EXCEPT !.lease.valid = None,
                            !.lease.suspect = now + MaxLease]

\* Mutant: the RemoteLease is left to the readers.
Expire_localOnly(x) ==
    [x EXCEPT !.lease.valid = None, !.lease.suspect = None]

Expire(x) ==
    [ExpireRemote(x) EXCEPT !.lease.valid = None, !.lease.suspect = None]

SetLeaseState(x) ==
    /\ lease' = x.lease
    /\ checker' = x.checker
    /\ readers' = x.readers
    /\ panic' = x.panic

Idle == [pc |-> "idle", need |-> 0, time |-> 0, term |-> 0, lease |-> "nil"]

\* A request past isExpired: its local variables are out of scope.
Moved(r, pc) == IF pc = "idle" THEN Idle ELSE [Idle EXCEPT !.pc = pc, !.need = r.need]

\* cb.Done: the requests of cmds get an answer, and their goroutines go on.
Answered(rs, cmds, pc) ==
    [r \in Readers |-> IF r \in cmds THEN Moved(rs[r], pc) ELSE rs[r]]

-----------------------------------------------------------------------------
(* External: the clock, the rest of the group and the peer's raft.          *)

Tick ==
    /\ Running /\ now < MaxTime
    /\ now' = now + 1
    /\ promise' = IF promise <= now' THEN 0 ELSE promise
    /\ timeoutNow' = IF timeoutNow + ElectionTimeout <= now' THEN None ELSE timeoutNow
    /\ UNCHANGED <<group, glog, acked, raft, seen, publishing, applyVars, leaseVars,
                   readVars, readers, panic>>

Transferring == timeoutNow # None

\* Another member is elected, by timeout or with the peer's TimeoutNow.
OtherWins ==
    /\ Running /\ group.term < MaxTerm
    /\ now >= promise \/ Transferring
    /\ group' = [term |-> group.term + 1, owner |-> "other"]
    /\ timeoutNow' = None
    /\ UNCHANGED <<now, promise, glog, acked, raft, seen, publishing, applyVars,
                   leaseVars, readVars, readers, panic>>

\* It commits a write and acknowledges it.
OtherCommits ==
    /\ Running /\ group.owner = "other" /\ group.term > 1 /\ Len(glog) < MaxLog
    /\ glog' = Append(glog, [term |-> group.term, by |-> "other", time |-> None])
    /\ acked' = Len(glog')
    /\ UNCHANGED <<now, group, promise, timeoutNow, raft, seen, publishing,
                   applyVars, leaseVars, readVars, readers, panic>>

(* Raft's role changes inside Step or Tick; the peer learns of it with the  *)
(* next Ready.                                                              *)
MayChangeRole == Running /\ ~publishing /\ (MergedRoles \/ raft.role = seen)

PeerCampaigns ==
    /\ MayChangeRole /\ raft.role = "follower"
    /\ raft' = [raft EXCEPT !.role = "candidate"]
    /\ UNCHANGED <<now, groupVars, seen, publishing, applyVars, leaseVars,
                   readVars, readers, panic>>

\* The peer wins, and appends the empty entry of its term.
PeerWins ==
    /\ MayChangeRole /\ raft.role = "candidate"
    /\ group.term < MaxTerm /\ now >= promise /\ Len(glog) < MaxLog
    /\ group' = [term |-> group.term + 1, owner |-> "peer"]
    /\ timeoutNow' = None
    /\ raft' = [raft EXCEPT !.role = "leader", !.term = group.term + 1,
                            !.tail = <<[time |-> None, sent |-> None]>>,
                            !.reads = <<>>]
    /\ UNCHANGED <<now, promise, glog, acked, seen, publishing, applyVars,
                   leaseVars, readVars, readers, panic>>

\* A message of a later term, or the leader misses its quorum.
PeerStepsDown(t) ==
    /\ MayChangeRole
    /\ t = raft.term => raft.role # "follower"
    /\ t >= raft.term
    /\ raft' = [raft EXCEPT !.role = "follower", !.term = t, !.tail = <<>>,
                            !.reads = <<>>]
    /\ UNCHANGED <<now, groupVars, seen, publishing, applyVars, leaseVars,
                   readVars, readers, panic>>

\* The peer reaches a quorum: it leads, and has sent its messages.
Reaches ==
    /\ Running /\ raft.role = "leader" /\ seen = "leader"
    /\ group = [term |-> raft.term, owner |-> "peer"]

\* A quorum has appended the next entry of the peer.
PeerCommits ==
    /\ Reaches /\ raft.tail # <<>>
    /\ glog' = Append(glog, [term |-> raft.term, by |-> "peer",
                             time |-> Head(raft.tail).time])
    /\ promise' = Max({promise, Head(raft.tail).sent + ElectionTimeout})
    /\ raft' = [raft EXCEPT !.tail = Tail(@)]
    /\ UNCHANGED <<now, group, timeoutNow, acked, seen, publishing, applyVars,
                   leaseVars, readVars, readers, panic>>

\* A quorum has answered the heartbeats of read i, and of those before it.
QuorumAnswers(i) ==
    /\ Reaches /\ i \in DOMAIN raft.reads /\ ~raft.reads[i].ok
    /\ promise' = Max({promise, raft.reads[i].sent + ElectionTimeout})
    /\ raft' = [raft EXCEPT !.reads =
                   [j \in DOMAIN @ |-> [@[j] EXCEPT !.ok = @ \/ j <= i]]]
    /\ UNCHANGED <<now, group, timeoutNow, glog, acked, seen, publishing,
                   applyVars, leaseVars, readVars, readers, panic>>

\* The answers arrive: raft has a ReadState for the next Ready.
ReadConfirmed ==
    /\ Running /\ ~publishing
    /\ raft.reads # <<>> /\ Head(raft.reads).ok
    /\ raft' = [raft EXCEPT !.reads = Tail(@), !.states = Append(@, Head(raft.reads).id)]
    /\ UNCHANGED <<now, groupVars, seen, publishing, applyVars, leaseVars,
                   readVars, readers, panic>>

-----------------------------------------------------------------------------
(* The raft worker.                                                         *)

Worker == Running /\ ~publishing

\* A client's write: Propose and PostPropose, with the time of the proposal.
ProposeWrite ==
    /\ Worker /\ raft.role = "leader" /\ ~Transferring
    /\ Len(glog) + Len(raft.tail) < MaxLog
    /\ raft' = [raft EXCEPT !.tail = Append(@, [time |-> now, sent |-> now])]
    /\ UNCHANGED <<now, groupVars, seen, publishing, applyVars, leaseVars,
                   readVars, readers, panic>>


\* ProposeTransferLeader; then Send finds the MsgTimeoutNow among the messages.
TransferLeader ==
    /\ Worker /\ raft.role = "leader" /\ seen = "leader" /\ ~Transferring
    /\ timeoutNow' = IF group.term = raft.term THEN now ELSE timeoutNow
    /\ SetLeaseState(Suspect(LeaseState))
    /\ UNCHANGED <<now, group, promise, glog, acked, raft, seen, publishing,
                   applyVars, readVars>>

hasAppliedToCurrentTerm == store.term = raft.term

\* Lease.Inspect at the time ts
Valid(l, ts) == l.suspect = None /\ l.valid # None /\ ts < l.valid

\* proposeRaftCommand of a peer that does not lead
ReadNotLeader(r) ==
    /\ Worker /\ readers[r].pc = "cmd"
    /\ raft.role # "leader"
    /\ readers' = Answered(readers, {r}, "idle")
    /\ UNCHANGED <<now, groupVars, raft, seen, publishing, applyVars, leaseVars,
                   readVars, panic>>

\* Inspect says RequestPolicyReadLocal.
ReadLocal(r) ==
    /\ Worker /\ readers[r].pc = "cmd"
    /\ raft.role = "leader"
    /\ hasAppliedToCurrentTerm /\ Valid(lease, now)
    /\ readers' = Answered(readers, {r}, "granted")
    /\ UNCHANGED <<now, groupVars, raft, seen, publishing, applyVars, leaseVars,
                   readVars, panic>>

(* Inspect says RequestPolicyReadIndex; the lease it found expired has been *)
(* dropped with its RemoteLease.                                            *)
ReadByIndex(r) ==
    /\ Worker /\ readers[r].pc = "cmd"
    /\ raft.role = "leader"
    /\ ~(hasAppliedToCurrentTerm /\ Valid(lease, now))

Inspected ==
    IF hasAppliedToCurrentTerm /\ lease.suspect = None THEN Expire(LeaseState)
                                                       ELSE LeaseState

Joins == reads # <<>> /\ Last(reads).time + MaxLease > now

\* readIndex, and the last pending read is recent: join it.
JoinRead(r) ==
    /\ ReadByIndex(r) /\ Joins
    /\ JoinWhileSuspect \/ lease.suspect = None
    /\ reads' = [reads EXCEPT ![Len(reads)].cmds = @ \cup {r}]
    /\ SetLeaseState([Inspected EXCEPT !.readers = Answered(@, {r}, "wait")])
    /\ UNCHANGED <<now, groupVars, raft, seen, publishing, applyVars, readyCnt>>

CommittedInTerm(n) == \E i \in 1..n : glog[i].term = raft.term

\* raft has not committed in its term, and drops the request silently.
RefuseRead(r) ==
    /\ ReadByIndex(r) /\ ~Joins
    /\ ~CommittedInTerm(lastApplying)
    /\ SetLeaseState([Inspected EXCEPT !.readers = Answered(@, {r}, "idle")])
    /\ UNCHANGED <<now, groupVars, raft, seen, publishing, applyVars, reads, readyCnt>>

(* NextID: a number no read in flight has; ids are only compared.           *)
NewID == 1 + Max({0} \cup {reads[i].id : i \in DOMAIN reads}
                     \cup {raft.reads[i].id : i \in DOMAIN raft.reads}
                     \cup {raft.states[i] : i \in DOMAIN raft.states})

(* raft takes the request; while the lease is suspect an empty command is   *)
(* proposed to renew it.                                                    *)
NewRead(r) ==
    /\ ReadByIndex(r) /\ ~Joins
    /\ CommittedInTerm(Len(glog))
    /\ reads' = Append(reads, [id |-> NewID, time |-> now, cmds |-> {r}])
    /\ LET renew == /\ lease.suspect # None /\ ~Transferring
                    /\ Len(glog) + Len(raft.tail) < MaxLog
       IN  raft' = [raft EXCEPT
                     !.reads = Append(@, [id |-> NewID, sent |-> now, ok |-> FALSE]),
                     !.tail = IF renew THEN Append(@, [time |-> now, sent |-> now]) ELSE @]
    /\ SetLeaseState([Inspected EXCEPT !.readers = Answered(@, {r}, "wait")])
    /\ UNCHANGED <<now, groupVars, seen, publishing, applyVars, readyCnt>>

-----------------------------------------------------------------------------
(* Ready.                                                                   *)

\* What raft knows to be committed: as a leader, by an entry of its term.
MayKnow(c) ==
    \/ c = lastApplying
    \/ /\ c \in lastApplying + 1 .. Len(glog)
       /\ IF raft.role = "leader" THEN glog[c].term = raft.term
                                  ELSE glog[c].term <= raft.term

\* HandleRaftReadyApply: the first entry with a propose time renews the lease.
RenewedByEntries(x, c) ==
    LET timed == {i \in lastApplying + 1 .. c :
                     glog[i].time # None /\ glog[i].term = raft.term}
    IN  IF timed = {} THEN x ELSE MaybeRenew(x, glog[Min(timed)].time)

AllCmds(rs) == UNION {rs[i].cmds : i \in DOMAIN rs}

\* What ClearUncommitted leaves of the queue rs when the Ready has a SoftState.
ClearUncommitted(rs, ready, changed) == IF changed THEN SubSeq(rs, 1, ready) ELSE rs

(* The end of a Ready: HandleRaftReadyApply with entries up to c, then      *)
(* ApplyReads.  changed: the Ready has a SoftState.                         *)
FinishReady(x, c, changed) ==
    LET n      == Len(raft.states)
        local  == hasAppliedToCurrentTerm
        first  == IF local THEN 0 ELSE readyCnt
        wrong  == \E k \in 1..n : \/ first + k > Len(reads)
                                  \/ reads[first + k].id # raft.states[k]
        rest   == IF local THEN SubSeq(reads, n + 1, Len(reads)) ELSE reads
        ready  == IF local THEN readyCnt ELSE readyCnt + n
        kept   == ClearUncommitted(rest, ready, changed)
        stale  == SubSeq(rest, Len(kept) + 1, Len(rest))
        e      == RenewedByEntries(x, c)
        y      == IF n = 0 \/ wrong \/ e.lease.suspect # None THEN e
                  ELSE MaybeRenew(e, reads[first + n].time)
        served == IF local THEN AllCmds(SubSeq(reads, 1, n)) ELSE {}
    IN  /\ lastApplying' = c
        /\ raft' = [raft EXCEPT !.states = <<>>]
        /\ SetLeaseState([y EXCEPT
              !.readers = Answered(Answered(@, served, "granted"), AllCmds(stale), "idle"),
              !.panic = IF wrong THEN "read queue" ELSE @])
        /\ reads' = IF wrong THEN reads ELSE kept
        /\ readyCnt' = IF wrong THEN readyCnt ELSE ready
        /\ seen' = raft.role
        /\ glog' = [i \in DOMAIN glog |->
                       IF i <= c \/ raft.role # "leader"
                       THEN [glog[i] EXCEPT !.time = None] ELSE glog[i]]
        /\ UNCHANGED <<now, group, promise, timeoutNow, acked, db, store>>

\* A Ready without a SoftState.
Ready(c) ==
    /\ Worker /\ raft.role = seen /\ MayKnow(c)
    /\ c > lastApplying \/ raft.states # <<>>
    /\ FinishReady(LeaseState, c, FALSE)
    /\ UNCHANGED publishing

NobodyChecks == AtomicChecks => \A r \in Readers : readers[r].pc \notin Checking

\* OnRoleChanged of a new leader: the lease and its RemoteLease ...
ReadyLeader ==
    /\ Worker /\ raft.role = "leader" /\ seen # "leader" /\ NobodyChecks
    /\ SetLeaseState(MaybeRenew(LeaseState, now))
    /\ publishing' = TRUE
    /\ raft' = [raft EXCEPT !.tail[1].sent = now]
    /\ UNCHANGED <<now, groupVars, seen, applyVars, readVars>>

\* ... and then the checker's term, and the rest of the Ready.
PublishTerm(c) ==
    /\ Running /\ publishing /\ MayKnow(c)
    /\ publishing' = FALSE
    /\ FinishReady([LeaseState EXCEPT !.checker.term = raft.term], c, TRUE)

\* OnRoleChanged of a new follower, and of a candidate, which keeps the lease.
ReadyFollower(c) ==
    /\ Worker /\ raft.role = "follower" /\ seen # "follower" /\ MayKnow(c)
    /\ FinishReady(Expire(LeaseState), c, TRUE)
    /\ UNCHANGED publishing

ReadyCandidate(c) ==
    /\ Worker /\ raft.role = "candidate" /\ seen # "candidate" /\ MayKnow(c)
    /\ FinishReady(LeaseState, c, TRUE)
    /\ UNCHANGED publishing

\* The apply worker writes the next entry, and answers the peer's own clients.
ApplyEntry ==
    /\ Running /\ db < lastApplying
    /\ db' = lastApplying
    /\ acked' = Max({acked} \cup {i \in 1..lastApplying : glog[i].by = "peer"})
    /\ UNCHANGED <<now, group, promise, timeoutNow, glog, raft, seen, publishing,
                   lastApplying, store, leaseVars, readVars, readers, panic>>

\* Mutant: the count of ready reads is not reset, nor are they removed.
ServedReads_kept(serves) == <<reads, readyCnt>>

\* The queue when PostApply has served the reads that were ready, or none.
ServedReads(serves) ==
    IF serves THEN <<SubSeq(reads, readyCnt + 1, Len(reads)), 0>> ELSE <<reads, readyCnt>>

\* PostApply of a result: the reads that were ready are served now.
PostApply ==
    /\ Worker /\ store.applied < db
    /\ LET term   == glog[db].term
           serves == term = raft.term /\ readyCnt > 0
       IN  /\ store' = [applied |-> db, term |-> term]
           /\ reads' = ServedReads(serves)[1] /\ readyCnt' = ServedReads(serves)[2]
           /\ readers' = IF serves
                         THEN Answered(readers, AllCmds(SubSeq(reads, 1, readyCnt)), "granted")
                         ELSE readers
           /\ checker' = IF raft.role = "leader" /\ store.term # term
                         THEN [checker EXCEPT !.applied = term] ELSE checker
    /\ UNCHANGED <<now, groupVars, raft, seen, publishing, lastApplying, db, lease, panic>>

-----------------------------------------------------------------------------
(* A request's goroutine: IsLeader and isExpired, one load at a time.       *)

ReaderOnly(r, next) ==
    /\ readers' = [readers EXCEPT ![r] = next]
    /\ UNCHANGED <<now, groupVars, raft, seen, publishing, applyVars, leaseVars, readVars>>

CheckerFree == Running /\ (AtomicChecks => ~publishing)

StartRead(r) ==
    /\ CheckerFree /\ readers[r].pc = "idle"
    /\ ReaderOnly(r, [pc |-> "time", need |-> acked, time |-> now, term |-> 0,
                      lease |-> "nil"])
    /\ UNCHANGED panic

\* The checker's term, then the pointer to the RemoteLease.
LoadLease(r) ==
    /\ CheckerFree /\ readers[r].pc = "time"
    /\ ReaderOnly(r, [readers[r] EXCEPT !.pc = "lease", !.term = checker.term,
                                        !.lease = checker.lease])
    /\ UNCHANGED panic

\* RemoteLease.Inspect: the lease the request's pointer leads to is valid.
RemoteValid(r) == r.lease = "live" /\ r.time < lease.remote.expired

\* The applied term, then the RemoteLease.
InspectRemote(r) ==
    /\ CheckerFree /\ readers[r].pc = "lease"
    /\ LET current == checker.applied = readers[r].term
       IN  /\ ReaderOnly(r, Moved(readers[r], IF current /\ RemoteValid(readers[r])
                                              THEN "granted" ELSE "cmd"))
           /\ panic' = IF current /\ readers[r].lease = "nil" THEN "nil lease" ELSE panic

\* The request reads the engine, which has db, and is answered.
ReadEngine(r) ==
    /\ Running /\ readers[r].pc = "granted"
    /\ ReaderOnly(r, Idle)
    /\ UNCHANGED panic

Next ==
    \/ Tick \/ OtherWins \/ OtherCommits \/ PeerCampaigns \/ PeerWins
    \/ \E t \in {raft.term, group.term} : PeerStepsDown(t)
    \/ PeerCommits \/ ReadConfirmed
    \/ \E i \in DOMAIN raft.reads : QuorumAnswers(i)
    \/ ProposeWrite \/ TransferLeader
    \/ \E c \in 0..Len(glog) : Ready(c) \/ PublishTerm(c) \/ ReadyFollower(c)
                               \/ ReadyCandidate(c)
    \/ ReadyLeader \/ ApplyEntry \/ PostApply
    \/ \E r \in Readers :
          \/ ReadNotLeader(r) \/ ReadLocal(r) \/ JoinRead(r) \/ RefuseRead(r)
          \/ NewRead(r)
          \/ StartRead(r) \/ LoadLease(r) \/ InspectRemote(r) \/ ReadEngine(r)

Spec == Init /\ [][Next]_vars

-----------------------------------------------------------------------------


(* A request that waits for a read index is in exactly one pending read,    *)
(* and nobody else is: no callback is lost or called twice by ApplyReads,   *)
(* ClearUncommitted and PostApply.                                          *)
WaitersQueued ==
    \A r \in Readers :
        Cardinality({i \in DOMAIN reads : r \in reads[i].cmds})
            = (IF readers[r].pc = "wait" THEN 1 ELSE 0)

(* "If Lease expires, the remote must expire too" (RemoteLease): what the   *)
(* other goroutines trust never outlives the lease of the raft worker.      *)
RemoteWithinLease ==
    lease.remote # <<>> /\ lease.remote.expired > 0 => lease.remote.expired <= lease.valid

=============================================================================
