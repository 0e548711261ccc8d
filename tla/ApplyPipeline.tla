--------------------------- MODULE ApplyPipeline ---------------------------
(***************************************************************************)
(* The path of a command through one peer of a region: it is proposed by   *)
(* the raft worker, replicated by raft, applied by the apply worker, and   *)
(* its callback is answered.  The module composes                          *)
(*                                                                         *)
(*   - the raft library, external: the peer's log, term and role, as the   *)
(*     raft worker observes them;                                          *)
(*   - the raft worker (peer_worker.go, fsm_peer.go, peer.go): proposals,  *)
(*     Ready handling, apply results, snapshots, destruction of the peer;  *)
(*   - the apply worker (peer_worker.go, applier.go): the applier's queues *)
(*     of pending commands, the write batch and the callbacks it answers;  *)
(*   - the two channels between them: applyCh, of capacity 1, and          *)
(*     applyResCh.                                                         *)
(*                                                                         *)
(* A panic of either goroutine ends the process: it is the value of the    *)
(* variable panic, and no step follows it.                                 *)
(***************************************************************************)
EXTENDS Occurrences

CONSTANTS
    Cmds,        \* the commands proposed through this peer, each one once
    Confs,       \* those that are configuration changes
    NilCbs,      \* those proposed with a nil callback (log compaction, hash)
    Barriers,    \* those shouldWriteToEngine commits the write batch before
    Noop,        \* the empty entry of a new leader
    Foreign,     \* a command proposed through another peer
    RemoveMe,    \* another peer's configuration change that removes this one
    ForeignCmds, \* what other leaders append: Noop, Foreign, RemoveMe
    SnapIndexes, \* the indexes of the snapshots other leaders send
    MayGC,       \* another peer may report that this one was removed
    MaxIndex,    \* bound on the length of the log
    MaxTerm      \* bound on the terms

ASSUME CmdsAssumption ==
    /\ Confs \subseteq Cmds
    /\ NilCbs \subseteq Cmds \ Confs
    /\ Barriers \subseteq Cmds \ Confs
    /\ {Noop, Foreign, RemoveMe} \cap Cmds = {}
    /\ Noop # Foreign /\ Noop # RemoveMe /\ Foreign # RemoveMe
ASSUME BoundsAssumption ==
    /\ MaxIndex \in Nat /\ MaxTerm \in Nat
    /\ SnapIndexes \subseteq 1 .. MaxIndex
    /\ ForeignCmds \subseteq {Noop, Foreign, RemoveMe}
    /\ MayGC \in BOOLEAN

VARIABLES
    \* raft, external
    term, leader,
    log,             \* entries [term, cmd]; entry i of the log has index i
    commit,
    oldLogs,         \* the logs of the terms this peer led (history)
    pendingConfIndex,
    pendingSnap,     \* index of a received, unhandled snapshot; 0 if none
    \* the raft worker
    applyProposals,  \* Peer.applyProposals
    lastApplyingIdx, \* Peer.LastApplyingIdx
    storeApplied,    \* PeerStorage.applyState.appliedIndex
    snapState,       \* PeerStorage.snapState and the status it points to
    pendingRemove,   \* Peer.PendingRemove
    stopped,         \* peerFsm.stopped; the region is out of the router
    hasReady,        \* peerFsm.hasReady
    applyMsgs,       \* RaftContext.applyMsgs of the current batch
    \* the channels
    applyCh,         \* the batch in applyCh, <<>> if the channel is empty
    applyResCh,
    \* the apply worker: the applier of the region
    aStopped,        \* applier.stopped (and pendingRemove)
    appliedIndex,    \* applier.applyState.appliedIndex
    normals,         \* pendingCmdQueue.normals
    confChange,      \* pendingCmdQueue.confChange, a sequence of at most one
    \* the apply worker: the batch and the applyContext
    batch,           \* messages of the batch not handled yet
    working,         \* a batch has been received and not flushed
    ents,            \* the Apply message being handled: its next and last
                     \* entry, applyContext.lastAppliedIndex, whether the batch
                     \* was written for the next entry, an aborted conf change
    timer,           \* applyContext.timer is set
    cbs,             \* applyContext.cbs: [cmd, resp]
    wb,              \* applyContext.wb: indexes executed, apply state (or 0)
    resList,         \* applyContext.applyTaskResList
    \* the kv engine
    disk,            \* indexes executed, apply state
    \* history
    prop,            \* prop[c]: index and term c was proposed at
    done,            \* done[c]: how often c's callback was answered
    outcome,         \* outcome[c]: with what
    panic

raftVars == <<term, leader, log, commit, oldLogs, pendingConfIndex, pendingSnap>>
peerVars == <<applyProposals, lastApplyingIdx, storeApplied, snapState,
              pendingRemove, stopped, hasReady, applyMsgs>>
applierVars == <<aStopped, appliedIndex, normals, confChange>>
ctxVars == <<batch, working, ents, timer, cbs, wb, resList>>
cbVars == <<done, outcome>>
vars == <<raftVars, peerVars, applyCh, applyResCh, applierVars, ctxVars, disk,
          prop, cbVars, panic>>

-----------------------------------------------------------------------------
Entry(t, c) == [term |-> t, cmd |-> c]
NoProp == [index |-> 0, term |-> 0]

(* The messages to the apply worker.  An ApplyProposal message carries the   *)
(* list of proposals of a batch; the list is handled one by one, so there is *)
(* a message for each.                                                       *)
ProposalMsg(p) == [type |-> "proposal", cmd |-> p.cmd, index |-> p.index,
                   term |-> p.term, last |-> 0]
ApplyMsg(i, j) == [type |-> "apply", cmd |-> Noop, index |-> i, term |-> 0,
                   last |-> j]
DestroyMsg == [type |-> "destroy", cmd |-> Noop, index |-> 0, term |-> 0,
               last |-> 0]
RegistrationMsg(i) == [type |-> "registration", cmd |-> Noop, index |-> i,
                       term |-> 0, last |-> 0]

NoEnts == [next |-> 0, last |-> 0, from |-> 0, written |-> FALSE,
           aborted |-> FALSE]
EmptyWb == [data |-> {}, applied |-> 0]

(* Callback.Done, for every element of a sequence of [cmd, resp].            *)
Reply(answers) ==
    /\ done' = [c \in Cmds |-> done[c] + Occ(c, answers)]
    /\ outcome' = [c \in Cmds |->
          IF Places(c, answers) # {}
          THEN answers[CHOOSE i \in Places(c, answers) : TRUE].resp
          ELSE outcome[c]]

Init ==
    /\ term = 0 /\ leader = FALSE /\ log = <<>> /\ commit = 0
    /\ oldLogs = {} /\ pendingConfIndex = 0 /\ pendingSnap = 0
    /\ applyProposals = <<>> /\ lastApplyingIdx = 0 /\ storeApplied = 0
    /\ snapState = "relax" /\ pendingRemove = FALSE /\ stopped = FALSE
    /\ hasReady = FALSE /\ applyMsgs = <<>>
    /\ applyCh = <<>> /\ applyResCh = <<>>
    /\ aStopped = FALSE /\ appliedIndex = 0 /\ normals = <<>>
    /\ confChange = <<>>
    /\ batch = <<>> /\ working = FALSE /\ ents = NoEnts /\ timer = FALSE
    /\ cbs = <<>> /\ wb = EmptyWb /\ resList = <<>>
    /\ disk = EmptyWb
    /\ prop = [c \in Cmds |-> NoProp]
    /\ done = [c \in Cmds |-> 0]
    /\ outcome = [c \in Cmds |-> "none"]
    /\ panic = "none"

-----------------------------------------------------------------------------
(* Raft, external.  The raft worker feeds it messages and ticks unless the  *)
(* peer is being removed (onRaftMsg, onRaftBaseTick), and each of them makes *)
(* the peer ready.                                                           *)
RaftActive ==
    /\ panic = "none"
    /\ ~pendingRemove /\ ~stopped

RaftFrame ==
    /\ hasReady' = TRUE
    /\ UNCHANGED <<applyProposals, lastApplyingIdx, storeApplied, snapState,
                   pendingRemove, stopped, applyMsgs, applyCh, applyResCh,
                   applierVars, ctxVars, disk, prop, cbVars, panic>>

\* The peer wins an election and appends the empty entry of its term.
BecomeLeader ==
    /\ RaftActive /\ ~leader
    /\ pendingSnap = 0 /\ snapState = "relax"
    /\ term < MaxTerm /\ Len(log) < MaxIndex
    /\ term' = term + 1
    /\ leader' = TRUE
    /\ log' = Append(log, Entry(term + 1, Noop))
    /\ pendingConfIndex' = Len(log)
    /\ UNCHANGED <<commit, oldLogs, pendingSnap>>
    /\ RaftFrame

(* Another leader, of term t, replaces the uncommitted part of the log: it   *)
(* may have kept any prefix of what this peer has or once had as a leader,   *)
(* and may add an entry of its own.  A log is never merely cut short.        *)
FollowerAppend ==
    /\ RaftActive
    /\ \E t \in term .. MaxTerm, h \in oldLogs \cup {log} :
       \E m \in 0 .. Len(h) :
       \E new \in {SubSeq(h, 1, m)} \cup
                  {Append(SubSeq(h, 1, m), Entry(t, c)) : c \in ForeignCmds} :
          /\ t > 0 /\ (leader => t > term)
          /\ commit <= Len(new) /\ Len(new) <= MaxIndex
          /\ SubSeq(new, 1, commit) = SubSeq(log, 1, commit)
          /\ Len(new) < Len(log) => new # SubSeq(log, 1, Len(new))
          /\ <<new, t>> # <<log, term>>
          /\ log' = new
          /\ term' = t
    /\ leader' = FALSE
    /\ oldLogs' = IF leader THEN oldLogs \cup {log} ELSE oldLogs
    /\ UNCHANGED <<commit, pendingConfIndex, pendingSnap>>
    /\ RaftFrame

AdvanceCommit ==
    /\ RaftActive
    /\ commit < Len(log)
    /\ commit' = commit + 1
    /\ UNCHANGED <<term, leader, log, oldLogs, pendingConfIndex, pendingSnap>>
    /\ RaftFrame

(* A snapshot of index s replaces the log; the entries it stands for are     *)
(* never seen by this peer.                                                  *)
ReceiveSnapshot ==
    /\ RaftActive /\ ~leader /\ term > 0
    /\ \E s \in SnapIndexes :
          /\ s > commit
          /\ log' = [i \in 1 .. s |-> IF i <= commit THEN log[i]
                                                   ELSE Entry(term, Foreign)]
          /\ commit' = s
          /\ pendingSnap' = s
    /\ UNCHANGED <<term, leader, oldLogs, pendingConfIndex>>
    /\ RaftFrame

-----------------------------------------------------------------------------
(* The raft worker.                                                          *)

(* proposeRaftCommand and Propose: the command is appended to the log and    *)
(* PostPropose queues its callback for the apply worker.                     *)
ProposeAccepted(c) ==
    /\ panic = "none" /\ ~stopped /\ ~pendingRemove
    /\ prop[c] = NoProp /\ done[c] = 0
    /\ leader
    /\ c \in Confs => pendingConfIndex <= storeApplied
    /\ Len(log) < MaxIndex
    /\ log' = Append(log, Entry(term, c))
    /\ prop' = [prop EXCEPT ![c] = [index |-> Len(log) + 1, term |-> term]]
    /\ applyProposals' = Append(applyProposals,
                                [cmd |-> c, index |-> Len(log) + 1, term |-> term])
    /\ pendingConfIndex' = IF c \in Confs THEN Len(log) + 1 ELSE pendingConfIndex
    /\ hasReady' = TRUE
    /\ UNCHANGED <<term, leader, commit, oldLogs, pendingSnap, lastApplyingIdx,
                   storeApplied, snapState, pendingRemove, stopped, applyMsgs,
                   applyCh, applyResCh, applierVars, ctxVars, disk, cbVars, panic>>

(* preProposeRaftCommand, the PendingRemove test and Propose's own checks    *)
(* answer the callback at once: the peer does not lead, is to be removed, or *)
(* the command has a stale epoch or term, is too large, or is a second conf  *)
(* change; the state of the peer alone rules a refusal out in no state.  The *)
(* batch that destroys a peer still gives it commands, and all are refused:  *)
(* raft drops what a peer proposes that is no longer a member.               *)
ProposeRefused(c) ==
    /\ panic = "none" /\ (stopped => applyMsgs # <<>>)
    /\ prop[c] = NoProp /\ done[c] = 0
    /\ Reply(<<[cmd |-> c, resp |-> "refused"]>>)
    /\ UNCHANGED <<raftVars, peerVars, applyCh, applyResCh, applierVars, ctxVars,
                   disk, prop, panic>>

(* onRaftBaseTick: a tick finds a Ready that nothing else announced.  (It    *)
(* never clears a flag that matters: raft has a Ready for every entry        *)
(* appended in the batch.)                                                   *)
RaftBaseTick ==
    /\ RaftActive /\ ~hasReady
    /\ snapState # "relax" \/ pendingSnap # 0 \/ commit > storeApplied
    /\ hasReady' = TRUE
    /\ UNCHANGED <<raftVars, applyProposals, lastApplyingIdx, storeApplied,
                   snapState, pendingRemove, stopped, applyMsgs, applyCh,
                   applyResCh, applierVars, ctxVars, disk, prop, cbVars, panic>>

(* MaybeDestroy and handleDestroyPeer, when a message shows that the peer    *)
(* must go: the applier is told first, and the peer waits for its answer.    *)
(* CancelApplyingSnap claims success without cancelling anything, and then   *)
(* destroyPeer, called at once, asserts that no snapshot is being applied.   *)
GCPeer ==
    /\ RaftActive /\ MayGC
    /\ pendingRemove' = TRUE
    /\ IF snapState = "relax"
       THEN /\ applyMsgs' = Append(applyMsgs, DestroyMsg)
            /\ UNCHANGED panic
       ELSE /\ panic' = "destroying a peer that applies a snapshot"
            /\ UNCHANGED applyMsgs
    /\ UNCHANGED <<raftVars, applyProposals, lastApplyingIdx, storeApplied,
                   snapState, stopped, hasReady, applyCh, applyResCh,
                   applierVars, ctxVars, disk, prop, cbVars>>

(* onApplyResult of a result that ends the peer: destroyPeer and Destroy     *)
(* answer the proposals not handed to the apply worker, and close the        *)
(* region.                                                                   *)
ApplyResultDestroys ==
    /\ panic = "none" /\ ~stopped /\ applyResCh # <<>>
    /\ LET res == Head(applyResCh) IN
          res.kind = "destroy" \/ (res.removed /\ ~res.aborted)
    /\ snapState = "relax"
    /\ Reply(With(applyProposals, "removed"))
    /\ applyProposals' = <<>>
    /\ stopped' = TRUE
    /\ applyMsgs' = Append(applyMsgs, DestroyMsg)
    /\ applyResCh' = Tail(applyResCh)
    /\ UNCHANGED <<raftVars, lastApplyingIdx, storeApplied, snapState,
                   pendingRemove, hasReady, applyCh, applierVars, ctxVars, disk,
                   prop, panic>>

(* onApplyResult of any other result: onReadyResult and PostApply.           *)
ApplyResultAdvances ==
    /\ panic = "none" /\ ~stopped /\ applyResCh # <<>>
    /\ LET res == Head(applyResCh) IN
          /\ res.kind = "apply" /\ ~res.removed /\ ~res.aborted
          /\ storeApplied' = res.applied
    /\ snapState = "relax"
    /\ hasReady' = (hasReady \/ (pendingSnap # 0 /\ lastApplyingIdx = storeApplied'))
    /\ applyResCh' = Tail(applyResCh)
    /\ UNCHANGED <<raftVars, applyProposals, lastApplyingIdx, snapState,
                   pendingRemove, stopped, applyMsgs, applyCh, applierVars,
                   ctxVars, disk, prop, cbVars, panic>>

(* The panics of the raft worker on a result: the region is no longer in the *)
(* router (getPeerState returns nil); onReadyChangePeer dereferences the     *)
(* conf change of an aborted one, which is nil; destroyPeer and PostApply    *)
(* do not accept a result while a snapshot is applied.                       *)
ApplyResultPanics ==
    /\ panic = "none" /\ applyResCh # <<>>
    /\ LET res == Head(applyResCh) IN
          \/ stopped /\ panic' = "result for a closed region"
          \/ ~stopped /\ res.aborted /\ panic' = "nil conf change"
          \/ /\ ~stopped /\ ~res.aborted /\ snapState # "relax"
             /\ panic' = "result while applying a snapshot"
    /\ UNCHANGED <<raftVars, peerVars, applyCh, applyResCh, applierVars, ctxVars,
                   disk, prop, cbVars>>

(* The region worker finishes the snapshot, external: it sets the status the *)
(* peer storage looks at.                                                    *)
RegionWorkerApplies ==
    /\ panic = "none" /\ snapState = "applying"
    /\ snapState' = "finished"
    /\ UNCHANGED <<raftVars, applyProposals, lastApplyingIdx, storeApplied,
                   pendingRemove, stopped, hasReady, applyMsgs, applyCh,
                   applyResCh, applierVars, ctxVars, disk, prop, cbVars, panic>>

-----------------------------------------------------------------------------
(* The end of a raft worker batch: HandleRaftReadyAppend, the two writes,    *)
(* PostRaftReadyPersistent, and the batch is sent to the apply worker.  The  *)
(* messages of the batch are those collected while messages were handled,    *)
(* then the proposals, then what the Ready brought.                          *)
\* A mutant: results that are on their way are not waited for.
ReadyToHandlePendingSnap_always == TRUE

ReadyToHandlePendingSnap == lastApplyingIdx = storeApplied

\* A mutant: Ready also holds the entries that are not committed.
LastOfReady_uncommitted == Len(log)

\* The last of the entries of RaftGroup.ReadySince.
LastOfReady == commit

Proposals == [i \in DOMAIN applyProposals |-> ProposalMsg(applyProposals[i])]

\* The peer is not ready, or gone: only the collected messages are sent.
EndBatchNotReady ==
    /\ panic = "none" /\ applyCh = <<>> /\ applyMsgs # <<>>
    /\ ~hasReady \/ stopped
    /\ applyCh' = applyMsgs
    /\ applyMsgs' = <<>>
    /\ hasReady' = FALSE
    /\ UNCHANGED <<raftVars, applyProposals, lastApplyingIdx, storeApplied,
                   snapState, pendingRemove, stopped, applyResCh, applierVars,
                   ctxVars, disk, prop, cbVars, panic>>

\* peerMsgHandler.HandleRaftReadyAppend has taken the proposals, and
\* Peer.HandleRaftReadyAppend returned early.
EndBatchNoReady ==
    /\ panic = "none" /\ applyCh = <<>>
    /\ hasReady /\ ~stopped
    /\ \/ pendingRemove
       \/ snapState = "applying"
       \/ pendingSnap # 0 /\ ~ReadyToHandlePendingSnap
    /\ snapState' = IF ~pendingRemove /\ snapState = "finished" THEN "relax"
                                                             ELSE snapState
    /\ applyCh' = applyMsgs \o Proposals
    /\ applyMsgs' = <<>>
    /\ applyProposals' = <<>>
    /\ hasReady' = FALSE
    /\ UNCHANGED <<raftVars, lastApplyingIdx, storeApplied, pendingRemove, stopped,
                   applyResCh, applierVars, ctxVars, disk, prop, cbVars, panic>>

\* A Ready with a snapshot: its apply state is written, the region worker is
\* scheduled, and the applier is replaced (Activate).
EndBatchSnapshot ==
    /\ panic = "none" /\ applyCh = <<>>
    /\ hasReady /\ ~stopped /\ ~pendingRemove /\ snapState # "applying"
    /\ pendingSnap # 0 /\ ReadyToHandlePendingSnap
    /\ applyCh' = Append(applyMsgs \o Proposals, RegistrationMsg(pendingSnap))
    /\ snapState' = "applying"
    /\ lastApplyingIdx' = pendingSnap
    /\ storeApplied' = pendingSnap
    /\ disk' = [disk EXCEPT !.applied = pendingSnap]
    /\ pendingSnap' = 0
    /\ applyMsgs' = <<>>
    /\ applyProposals' = <<>>
    /\ hasReady' = FALSE
    /\ UNCHANGED <<term, leader, log, commit, oldLogs, pendingConfIndex,
                   pendingRemove, stopped, applyResCh, applierVars, ctxVars, prop,
                   cbVars, panic>>

\* A Ready without a snapshot: HandleRaftReadyApply sends the committed entries
\* after lastApplyingIdx.
EndBatchEntries ==
    /\ panic = "none" /\ applyCh = <<>>
    /\ hasReady /\ ~stopped /\ ~pendingRemove /\ snapState # "applying"
    /\ pendingSnap = 0
    /\ \/ /\ LastOfReady <= lastApplyingIdx
          /\ applyCh' = applyMsgs \o Proposals
          /\ UNCHANGED lastApplyingIdx
       \/ /\ LastOfReady > lastApplyingIdx
          /\ applyCh' = Append(applyMsgs \o Proposals,
                               ApplyMsg(lastApplyingIdx + 1, LastOfReady))
          /\ lastApplyingIdx' = LastOfReady
    /\ snapState' = "relax"
    /\ applyMsgs' = <<>>
    /\ applyProposals' = <<>>
    /\ hasReady' = FALSE
    /\ UNCHANGED <<raftVars, storeApplied, pendingRemove, stopped, applyResCh,
                   applierVars, ctxVars, disk, prop, cbVars, panic>>

-----------------------------------------------------------------------------
(* The apply worker.  Its steps change nothing of the raft worker's state.   *)
ApplyFrame == UNCHANGED <<raftVars, peerVars, prop>>

\* applyWorker.run receives a batch.
TakeBatch ==
    /\ panic = "none" /\ ~working /\ applyCh # <<>>
    /\ batch' = applyCh
    /\ applyCh' = <<>>
    /\ working' = TRUE
    /\ UNCHANGED <<applyResCh, applierVars, ents, timer, cbs, wb, resList, disk,
                   cbVars, panic>>
    /\ ApplyFrame

(* The next message of the batch, when no Apply message is under way.        *)
Handling(type) ==
    /\ panic = "none" /\ working /\ ents = NoEnts
    /\ batch # <<>> /\ Head(batch).type = type

\* A mutant: a stopped applier forgets the proposal.
WhenStopped_forgets(p) == <<>>

\* What a stopped applier answers to a proposal.
WhenStopped(p) == <<[cmd |-> p.cmd, resp |-> "stale"]>>

(* handleProposal: one proposal.  A configuration change takes the place of  *)
(* the previous one, which is stale.                                         *)
HandleProposal ==
    /\ Handling("proposal")
    /\ LET m == Head(batch)
           p == [cmd |-> m.cmd, index |-> m.index, term |-> m.term] IN
       \/ /\ aStopped
          /\ Reply(WhenStopped(p))
          /\ UNCHANGED <<normals, confChange>>
       \/ /\ ~aStopped /\ p.cmd \in Confs
          /\ Reply(With(confChange, "stale"))
          /\ confChange' = <<p>>
          /\ UNCHANGED normals
       \/ /\ ~aStopped /\ p.cmd \notin Confs
          /\ normals' = Append(normals, p)
          /\ UNCHANGED <<confChange, cbVars>>
    /\ batch' = Tail(batch)
    /\ UNCHANGED <<applyCh, applyResCh, aStopped, appliedIndex, working, ents,
                   timer, cbs, wb, resList, disk, panic>>
    /\ ApplyFrame

(* handleRegistration: the pending commands are stale, the applier is new.   *)
HandleRegistration ==
    /\ Handling("registration")
    /\ Reply(With(normals \o confChange, "stale"))
    /\ normals' = <<>>
    /\ confChange' = <<>>
    /\ appliedIndex' = Head(batch).index
    /\ aStopped' = FALSE
    /\ batch' = Tail(batch)
    /\ UNCHANGED <<applyCh, applyResCh, working, ents, timer, cbs, wb, resList,
                   disk, panic>>
    /\ ApplyFrame

(* handleApply up to the loop of handleRaftCommittedEntries.  The entries of *)
(* a message are consecutive, so the loop's test of the index can only fail  *)
(* for the first one.                                                        *)
HandleApply ==
    /\ Handling("apply")
    /\ timer' = TRUE
    /\ ents' = IF aStopped THEN NoEnts
               ELSE [next |-> Head(batch).index, last |-> Head(batch).last,
                     from |-> appliedIndex, written |-> FALSE,
                     aborted |-> FALSE]
    /\ panic' = IF ~aStopped /\ Head(batch).index # appliedIndex + 1
                THEN "unexpected index" ELSE panic
    /\ batch' = Tail(batch)
    /\ UNCHANGED <<applyCh, applyResCh, applierVars, working, cbs, wb, resList,
                   disk, cbVars>>
    /\ ApplyFrame

-----------------------------------------------------------------------------
(* One entry of handleRaftCommittedEntries.                                  *)
Applying(i) ==
    /\ panic = "none" /\ ents # NoEnts /\ ~aStopped
    /\ i = ents.next /\ i <= ents.last

IsConf(c) == c \in Confs \cup {RemoveMe}

\* The entry executed at index i, if it succeeded, joins the write batch.
Executed(i, ok) ==
    /\ wb' = IF ok THEN [wb EXCEPT !.data = @ \cup {i}] ELSE wb
    /\ appliedIndex' = i

Resp(ok) == IF ok THEN "ok" ELSE "err"

\* A mutant: commands of the entry's own term are popped too.
IsOlder_sameTerm(p, t) == p.term <= t

\* What popNormal pops for an empty entry of term t.
IsOlder(p, t) == p.term < t

\* A mutant: the popped commands are dropped.
StaleCbs_dropped(s) == <<>>

\* The callbacks an empty entry adds to those of the batch.
StaleCbs(s) == With(s, "stale")

(* handleRaftEntryNormal of an empty entry: the commands of earlier terms    *)
(* are stale.  Their callbacks are set before they are queued, which is a    *)
(* nil dereference for those without a callback.                             *)
ApplyNoop(i) ==
    /\ Applying(i) /\ log[i].cmd = Noop
    /\ \E n \in 0 .. Len(normals) :
          /\ \A j \in 1 .. n : IsOlder(normals[j], log[i].term)
          /\ n < Len(normals) => ~IsOlder(normals[n + 1], log[i].term)
          /\ IF \E j \in 1 .. n : normals[j].cmd \in NilCbs
             THEN /\ panic' = "nil callback"
                  /\ UNCHANGED <<normals, cbs>>
             ELSE /\ cbs' = cbs \o StaleCbs(SubSeq(normals, 1, n))
                  /\ normals' = SubSeq(normals, n + 1, Len(normals))
                  /\ UNCHANGED panic
    /\ appliedIndex' = i
    /\ ents' = [ents EXCEPT !.next = i + 1]
    /\ UNCHANGED <<applyCh, applyResCh, aStopped, confChange, batch, working,
                   timer, wb, resList, disk, cbVars>>
    /\ ApplyFrame

\* A mutant: the callbacks are answered, the batch is written later.
WriteToDB_later(w) ==
    /\ wb' = w
    /\ cbs' = <<>>
    /\ UNCHANGED disk

(* writeToDB of a write batch: it is written, then all callbacks of cbs are  *)
(* answered.                                                                 *)
WriteToDB(w) ==
    /\ disk' = [data |-> disk.data \cup w.data,
                applied |-> IF w.applied = 0 THEN disk.applied ELSE w.applied]
    /\ wb' = EmptyWb
    /\ cbs' = <<>>

\* A mutant: the apply state is not written.
WithApplyState_without(w) == w

\* writeApplyState
WithApplyState(w) == [w EXCEPT !.applied = appliedIndex]

(* commit, before a command that writes to the engine by itself: the apply   *)
(* state of the entries applied so far goes into the batch.                  *)
CommitBefore(i) ==
    /\ Applying(i) /\ log[i].cmd \in Barriers /\ ~ents.written
    /\ WriteToDB(IF ents.from < appliedIndex THEN WithApplyState(wb) ELSE wb)
    /\ Reply(cbs)
    /\ ents' = [ents EXCEPT !.from = appliedIndex, !.written = TRUE]
    /\ UNCHANGED <<applyCh, applyResCh, applierVars, batch, working, timer,
                   resList, panic>>
    /\ ApplyFrame

(* processRaftCmd of a command that is no configuration change: it succeeds  *)
(* or is rolled back, and findCallback drops the stale commands before its   *)
(* own.                                                                      *)
ApplyNormal(i) ==
    /\ Applying(i) /\ log[i].cmd # Noop /\ ~IsConf(log[i].cmd)
    /\ log[i].cmd \in Barriers => ents.written
    /\ \E ok \in BOOLEAN, n \in 0 .. Len(normals) :
       LET Matches(j) == normals[j].index = i /\ normals[j].term = log[i].term
           found == n < Len(normals) /\ Matches(n + 1) IN
          /\ Executed(i, ok)
          /\ \A j \in 1 .. n : normals[j].term <= log[i].term /\ ~Matches(j)
          /\ n < Len(normals) => Matches(n + 1) \/ normals[n + 1].term > log[i].term
          /\ Reply(With(SubSeq(normals, 1, n), "stale"))
          /\ cbs' = IF found
                    THEN Append(cbs, [cmd |-> normals[n + 1].cmd, resp |-> Resp(ok)])
                    ELSE cbs
          /\ normals' = SubSeq(normals, IF found THEN n + 2 ELSE n + 1, Len(normals))
    /\ ents' = [ents EXCEPT !.next = i + 1, !.written = FALSE]
    /\ UNCHANGED <<applyCh, applyResCh, aStopped, confChange, batch, working,
                   timer, resList, disk, panic>>
    /\ ApplyFrame

(* handleRaftEntryConfChange: the pending change is taken, it is this entry's*)
(* or it is stale.  An execution without a result is reported as an empty    *)
(* one.  A change that removes this peer stops the applier.                  *)
ApplyConfChange(i) ==
    /\ Applying(i) /\ IsConf(log[i].cmd)
    /\ \E ok \in BOOLEAN :
       LET Matches == confChange # <<>> /\ confChange[1].index = i
                                       /\ confChange[1].term = log[i].term IN
          /\ Executed(i, ok)
          /\ IF Matches
             THEN /\ cbs' = cbs \o With(confChange, Resp(ok))
                  /\ UNCHANGED cbVars
             ELSE /\ Reply(With(confChange, "stale"))
                  /\ UNCHANGED cbs
          /\ ents' = [ents EXCEPT !.next = i + 1, !.aborted = @ \/ ~ok]
          /\ aStopped' = (ok /\ log[i].cmd = RemoveMe)
    /\ confChange' = <<>>
    /\ UNCHANGED <<applyCh, applyResCh, normals, batch, working, timer, resList,
                   disk, panic>>
    /\ ApplyFrame

-----------------------------------------------------------------------------
(* The end of handleRaftCommittedEntries: finishFor writes the apply state   *)
(* into the batch and queues the result.                                     *)
ApplyRes == [kind |-> "apply", applied |-> appliedIndex,
             aborted |-> ents.aborted, removed |-> aStopped]
DestroyRes == [kind |-> "destroy", applied |-> 0, aborted |-> FALSE,
               removed |-> FALSE]

FinishApply ==
    /\ panic = "none" /\ ents # NoEnts /\ ~aStopped
    /\ ents.next > ents.last
    /\ wb' = WithApplyState(wb)
    /\ resList' = Append(resList, ApplyRes)
    /\ ents' = NoEnts
    /\ UNCHANGED <<applyCh, applyResCh, applierVars, batch, working, timer, cbs,
                   disk, cbVars, panic>>
    /\ ApplyFrame

(* flush inside of destroy walks a list that flush itself empties: a second  *)
(* result in it would be a nil dereference.                                  *)
DestroyPanics(list) == Len(list) > 1

(* The peer was removed by an entry: finishFor without an apply state, then  *)
(* destroy, which flushes and answers every pending command.                 *)
FinishRemoved ==
    /\ panic = "none" /\ ents # NoEnts /\ aStopped
    /\ ents' = NoEnts
    /\ IF DestroyPanics(Append(resList, ApplyRes))
       THEN /\ panic' = "nil apply result"
            /\ UNCHANGED <<applyResCh, disk, wb, cbs, timer, resList, normals,
                           confChange, cbVars>>
       ELSE /\ WriteToDB(wb)
            /\ Reply(cbs \o With(normals \o confChange, "removed"))
            /\ applyResCh' = applyResCh \o Append(resList, ApplyRes)
            /\ resList' = <<>>
            /\ timer' = FALSE
            /\ normals' = <<>>
            /\ confChange' = <<>>
            /\ UNCHANGED panic
    /\ UNCHANGED <<applyCh, aStopped, appliedIndex, batch, working>>
    /\ ApplyFrame

(* handleDestroy: the same on behalf of the raft worker, which gets a result *)
(* of its own.                                                               *)
HandleDestroy ==
    /\ Handling("destroy")
    /\ batch' = Tail(batch)
    /\ aStopped' = TRUE
    /\ \/ /\ aStopped
          /\ UNCHANGED <<applyResCh, disk, wb, cbs, timer, resList, normals,
                         confChange, cbVars, panic>>
       \/ /\ ~aStopped /\ DestroyPanics(resList)
          /\ panic' = "nil apply result"
          /\ UNCHANGED <<applyResCh, disk, wb, cbs, timer, resList, normals,
                         confChange, cbVars>>
       \/ /\ ~aStopped /\ resList = <<>>
          /\ Reply(With(normals \o confChange, "removed"))
          /\ applyResCh' = Append(applyResCh, DestroyRes)
          /\ normals' = <<>>
          /\ confChange' = <<>>
          /\ UNCHANGED <<disk, wb, cbs, timer, resList, panic>>
       \/ /\ ~aStopped /\ Len(resList) = 1
          /\ WriteToDB(wb)
          /\ Reply(cbs \o With(normals \o confChange, "removed"))
          /\ applyResCh' = Append(applyResCh \o resList, DestroyRes)
          /\ resList' = <<>>
          /\ timer' = FALSE
          /\ normals' = <<>>
          /\ confChange' = <<>>
          /\ UNCHANGED panic
    /\ UNCHANGED <<applyCh, appliedIndex, working, ents>>
    /\ ApplyFrame

(* The end of the batch: flush, which does nothing unless an Apply message   *)
(* has set the timer.                                                        *)
Flush ==
    /\ panic = "none" /\ working /\ ents = NoEnts /\ batch = <<>>
    /\ working' = FALSE
    /\ IF timer
       THEN /\ WriteToDB(wb)
            /\ Reply(cbs)
            /\ applyResCh' = applyResCh \o resList
            /\ resList' = <<>>
            /\ timer' = FALSE
       ELSE UNCHANGED <<disk, wb, cbs, cbVars, applyResCh, resList, timer>>
    /\ UNCHANGED <<applyCh, applierVars, batch, ents, panic>>
    /\ ApplyFrame

-----------------------------------------------------------------------------
Raft == BecomeLeader \/ FollowerAppend \/ AdvanceCommit \/ ReceiveSnapshot

ApplyResult == ApplyResultDestroys \/ ApplyResultAdvances \/ ApplyResultPanics

EndBatch ==
    EndBatchNotReady \/ EndBatchNoReady \/ EndBatchSnapshot \/ EndBatchEntries

ApplyEntry ==
    \E i \in 1 .. MaxIndex :
        ApplyNoop(i) \/ CommitBefore(i) \/ ApplyNormal(i) \/ ApplyConfChange(i)

ApplyWorker ==
    \/ TakeBatch
    \/ HandleProposal \/ HandleRegistration \/ HandleApply \/ HandleDestroy
    \/ ApplyEntry
    \/ FinishApply \/ FinishRemoved
    \/ Flush

Next ==
    \/ Raft
    \/ \E c \in Cmds : ProposeAccepted(c) \/ ProposeRefused(c)
    \/ GCPeer
    \/ RaftBaseTick \/ ApplyResult \/ EndBatch
    \/ RegionWorkerApplies
    \/ ApplyWorker

Spec == Init /\ [][Next]_vars

(* Every goroutine keeps running, ticks keep coming, and the raft worker     *)
(* takes up every result: its loop drains the channel before each batch.     *)
FairSpec ==
    /\ Spec
    /\ WF_vars(RaftBaseTick) /\ WF_vars(ApplyResult) /\ WF_vars(EndBatch)
    /\ WF_vars(RegionWorkerApplies)
    /\ WF_vars(ApplyWorker)

-----------------------------------------------------------------------------
Resps == {"ok", "err", "stale", "removed"}
Indexes == 0 .. MaxIndex
Entries == [term : Nat, cmd : Cmds \cup {Noop, Foreign, RemoveMe}]
Props == [cmd : Cmds, index : Indexes, term : Nat]
Msgs ==
    [type : {"proposal"}, cmd : Cmds, index : Indexes, term : Nat, last : {0}]
    \cup [type : {"apply", "destroy", "registration"}, cmd : {Noop},
          index : Indexes, term : {0}, last : Indexes]
Results == [kind : {"apply", "destroy"}, applied : Indexes,
            aborted : BOOLEAN, removed : BOOLEAN]
Wbs == [data : SUBSET Indexes, applied : Indexes]

RaftTypeOK ==
    /\ term \in Nat /\ leader \in BOOLEAN
    /\ log \in Seq(Entries) /\ Len(log) <= MaxIndex
    /\ oldLogs \subseteq Seq(Entries)
    /\ commit \in Indexes /\ commit <= Len(log)
    /\ pendingConfIndex \in Indexes
    /\ pendingSnap \in Indexes

PeerTypeOK ==
    /\ applyProposals \in Seq(Props)
    /\ lastApplyingIdx \in Indexes
    /\ storeApplied \in Indexes
    /\ snapState \in {"relax", "applying", "finished"}
    /\ pendingRemove \in BOOLEAN /\ stopped \in BOOLEAN /\ hasReady \in BOOLEAN
    /\ applyMsgs \in Seq(Msgs)

ChannelTypeOK == applyCh \in Seq(Msgs) /\ applyResCh \in Seq(Results)

ApplierTypeOK ==
    /\ aStopped \in BOOLEAN
    /\ appliedIndex \in Indexes
    /\ normals \in Seq(Props)
    /\ confChange \in Seq(Props) /\ Len(confChange) <= 1

ContextTypeOK ==
    /\ batch \in Seq(Msgs)
    /\ working \in BOOLEAN /\ timer \in BOOLEAN
    /\ ents \in [next : 0 .. MaxIndex + 1, last : Indexes, from : Indexes,
                 written : BOOLEAN, aborted : BOOLEAN]
    /\ cbs \in Seq([cmd : Cmds, resp : Resps])
    /\ wb \in Wbs
    /\ resList \in Seq(Results)
    /\ disk \in Wbs

HistoryTypeOK ==
    /\ prop \in [Cmds -> [index : Indexes, term : Nat]]
    /\ done \in [Cmds -> Nat]
    /\ outcome \in [Cmds -> Resps \cup {"none", "refused"}]

(* The types, and the order of the indexes: nothing is handed to the apply   *)
(* worker before it is committed, nothing is applied before it is handed     *)
(* over, and the raft worker does not learn of more.                         *)
TypeOK ==
    /\ RaftTypeOK /\ PeerTypeOK /\ ChannelTypeOK
    /\ ApplierTypeOK /\ ContextTypeOK /\ HistoryTypeOK
    /\ lastApplyingIdx <= commit
    /\ storeApplied <= lastApplyingIdx
    /\ appliedIndex <= lastApplyingIdx

(* Every callback of an accepted proposal is in exactly one place, the       *)
(* queues of the raft worker, the channel, the batch, the pending commands   *)
(* of the applier or the callbacks of the write batch, until it is answered, *)
(* and it is answered once: none is dropped and none is answered twice,      *)
(* which would make its WaitGroup panic.                                     *)
Held(c) ==
    Occ(c, applyProposals) + Occ(c, applyMsgs) + Occ(c, applyCh) + Occ(c, batch)
        + Occ(c, normals) + Occ(c, confChange) + Occ(c, cbs)

CallbackConserved ==
    \A c \in Cmds :
        /\ prop[c] # NoProp => Held(c) + done[c] = 1
        /\ prop[c] = NoProp => Held(c) = 0 /\ done[c] <= 1

CommittedAt(c) ==
    /\ prop[c].index \in 1 .. commit
    /\ log[prop[c].index] = Entry(prop[c].term, c)

(* A success is only reported for a command that is the committed entry of   *)
(* the index and term it was proposed at, and after its writes are in the kv *)
(* engine (writeToDB answers after WriteToKV).                               *)
AckedDurable ==
    \A c \in Cmds : outcome[c] = "ok" => CommittedAt(c) /\ prop[c].index \in disk.data

(* A failure is not reported for a command that this peer executes, before   *)
(* or after: a client that retries on the error does not write twice.        *)
(* (Configuration changes are excepted: a later proposal turns the pending   *)
(* one away as stale while another leader may still bring it back.)          *)
NoFalseFailure ==
    \A c \in Cmds \ Confs :
        outcome[c] \in {"err", "stale", "removed", "refused"}
            => ~(CommittedAt(c) /\ prop[c].index \in disk.data \cup wb.data)

(* The kv engine is at every moment the state after the entries up to its    *)
(* apply state: it lacks none of them, and has none beyond, so that a        *)
(* restart neither loses nor repeats an entry.                               *)
DiskConsistent ==
    ~aStopped => /\ disk.data \subseteq 1 .. disk.applied
                 /\ wb.data \cap 1 .. disk.applied = {}

(* The two workers never meet the states their panics are for: a gap in the  *)
(* applied entries, a result for a region that is closed or that applies a   *)
(* snapshot, a result that was sent already.                                 *)
NoPipelinePanic ==
    panic \notin {"unexpected index", "result for a closed region",
                  "result while applying a snapshot", "nil apply result"}

(* The applied index never moves back, on disk or in either worker: a stale  *)
(* write of one worker never overwrites what the other wrote.                *)
AppliedNeverRegresses ==
    [][/\ disk'.applied >= disk.applied
       /\ storeApplied' >= storeApplied
       /\ appliedIndex' >= appliedIndex]_vars

(* Once the index of an accepted proposal is committed, its callback is      *)
(* answered, with whatever became of it.                                     *)
Answers(c) ==
    (prop[c] # NoProp /\ commit >= prop[c].index)
        ~> (done[c] = 1 \/ panic # "none")

EveryProposalAnswered == \A c \in Cmds \ Confs : Answers(c)

(* A configuration change that failed is skipped ("Apply failed, skip.",     *)
(* onReadyChangePeer): its result does not end the raft worker.              *)
AbortedConfChangeSkipped == panic # "nil conf change"

(* A peer that applies a snapshot is not destroyed: the assertion of         *)
(* destroyPeer, "We can't destroy a peer which is applying snapshot.".       *)
NotDestroyedWhileApplying == panic # "destroying a peer that applies a snapshot"
=============================================================================
