-------------------------- MODULE PipelineTheorems --------------------------
(***************************************************************************)
(* What the apply pipeline guarantees, for any set of commands and any     *)
(* bounds: the invariants of the other proof modules along a behaviour.    *)
(***************************************************************************)
EXTENDS ApplyPipelineProofs, CallbackProofs, AckProofs

-----------------------------------------------------------------------------
(* The types.                                                                *)

(* The initial state is typed.                                               *)
LEMMA InitTypes == Init => TypeInv
<1> SUFFICES ASSUME Init PROVE TypeInv
  OBVIOUS
<1>1. 0 \in Indexes
  BY BoundsAssumption DEF Indexes
<1>2. \A S : <<>> \in Seq(S)
  OBVIOUS
<1>3. Len(<<>>) = 0
  OBVIOUS
<1>4. RaftTypeOK
  <2>1. /\ term = 0 /\ leader = FALSE /\ log = <<>> /\ commit = 0
        /\ oldLogs = {} /\ pendingConfIndex = 0 /\ pendingSnap = 0
    BY DEF Init
  <2>2. leader \in BOOLEAN
    BY <2>1
  <2>3. QED
    BY <1>1, <1>2, <1>3, <2>1, <2>2, BoundsAssumption DEF RaftTypeOK
<1>5. PeerTypeOK /\ ChannelTypeOK
  BY <1>1, <1>2 DEF Init, PeerTypeOK, ChannelTypeOK
<1>6. ApplierTypeOK
  <2>1. /\ aStopped \in BOOLEAN /\ appliedIndex = 0 /\ normals = <<>>
        /\ confChange = <<>>
    BY DEF Init
  <2>2. QED
    BY <1>1, <1>2, <1>3, <2>1 DEF ApplierTypeOK
<1>7. ContextTypeOK
  <2>1. /\ batch = <<>> /\ working \in BOOLEAN /\ ents = NoEnts /\ timer \in BOOLEAN
        /\ cbs = <<>> /\ wb = EmptyWb /\ resList = <<>> /\ disk = EmptyWb
    BY DEF Init
  <2>2. NoEnts \in EntsType
    BY <1>1, BoundsAssumption DEF NoEnts, EntsType
  <2>3. EmptyWb \in Wbs
    BY <1>1 DEF EmptyWb, Wbs
  <2>4. QED
    BY <1>2, <2>1, <2>2, <2>3 DEF ContextTypeOK, EntsType
<1>8. HistoryTypeOK
  BY <1>1 DEF Init, HistoryTypeOK, NoProp
<1>9. InFlight /\ SnapAhead
  BY <1>2 DEF Init, InFlight, SnapAhead, NoEnts
<1>10. QED
  BY <1>4, <1>5, <1>6, <1>7, <1>8, <1>9 DEF TypeInv, TypeOK, Init

(* Every step keeps the types.                                               *)
LEMMA NextTypes == TypeInv /\ [Next]_vars => TypeInv'
<1> SUFFICES ASSUME TypeInv, [Next]_vars PROVE TypeInv'
  OBVIOUS
<1>1. CASE ApplyEntry
  BY <1>1, ApplyNoopKeepsTypes, CommitBeforeKeepsTypes, ApplyNormalKeepsTypes,
     ApplyConfChangeKeepsTypes DEF ApplyEntry
<1>2. CASE ApplyWorker
  BY <1>1, <1>2, MessagesKeepTypes, DestroyKeepsTypes, FinishKeepsTypes,
     FlushKeepsTypes DEF ApplyWorker
<1>3. QED
  BY <1>2, RaftKeepsTypes, RaftWorkerKeepsTypes, EndBatchKeepsTypes,
     StutterKeepsTypes DEF Next

(* In every reachable state of the pipeline the values have their types, and *)
(* the indexes are in order: applied by the applier, and known as applied to *)
(* the raft worker, at most what was handed over; handed over at most what   *)
(* is committed; committed at most the log.                                  *)
THEOREM TypeCorrect == Spec => []TypeOK
<1>1. TypeInv => TypeOK
  BY DEF TypeInv
<1>2. QED
  BY <1>1, InitTypes, NextTypes, PTL DEF Spec

-----------------------------------------------------------------------------
(* The callbacks.                                                            *)

(* Between two batches nothing of the last one is left: flush ends a batch   *)
(* that is empty.                                                            *)
LEMMA IdleKept ==
  ASSUME IdleEmpty, [Next]_vars
  PROVE  IdleEmpty'
<1>1. CASE UNCHANGED <<batch, working>>
  BY <1>1 DEF IdleEmpty
<1>2. ASSUME NEW i \in 1 .. MaxIndex,
             ApplyNoop(i) \/ CommitBefore(i) \/ ApplyNormal(i) \/ ApplyConfChange(i)
      PROVE  IdleEmpty'
  <2>1. UNCHANGED <<batch, working>>
    <3>1. CASE ApplyNoop(i)
      BY <3>1 DEF ApplyNoop
    <3>2. CASE CommitBefore(i)
      BY <3>2 DEF CommitBefore
    <3>3. CASE ApplyNormal(i)
      BY <3>3 DEF ApplyNormal
    <3>4. CASE ApplyConfChange(i)
      BY <3>4 DEF ApplyConfChange
    <3>5. QED
      BY <1>2, <3>1, <3>2, <3>3, <3>4
  <2>2. QED
    BY <1>1, <2>1
<1>3. CASE TakeBatch
  BY <1>3 DEF TakeBatch, IdleEmpty
<1>4. CASE HandleProposal \/ HandleRegistration \/ HandleApply \/ HandleDestroy
  <2>1. CASE HandleProposal \/ HandleRegistration
    BY <2>1 DEF HandleProposal, HandleRegistration, Handling, IdleEmpty
  <2>2. CASE HandleApply \/ HandleDestroy
    BY <2>2 DEF HandleApply, HandleDestroy, Handling, IdleEmpty
  <2>3. QED
    BY <1>4, <2>1, <2>2
<1>5. CASE FinishApply \/ FinishRemoved
  BY <1>1, <1>5 DEF FinishApply, FinishRemoved
<1>6. CASE Flush
  BY <1>6 DEF Flush, IdleEmpty
<1>7. CASE ApplyWorker
  BY <1>2, <1>3, <1>4, <1>5, <1>6, <1>7 DEF ApplyWorker, ApplyEntry
<1>8. CASE OutsideApplier
  BY <1>1, <1>8, OutsideFrame
<1>9. QED
  BY <1>7, <1>8 DEF Next, OutsideApplier

(* A proposal puts one callback into the queue of the raft worker.           *)
LEMMA AcceptedCounts ==
  ASSUME TypeInv, NEW d \in Cmds, ProposeAccepted(d), NEW c \in Cmds
  PROVE  /\ prop'[d] # NoProp /\ (c # d => prop'[c] = prop[c])
         /\ Held(c)' = Held(c) + (IF c = d THEN 1 ELSE 0)
         /\ done' = done
<1> DEFINE p == [cmd |-> d, index |-> Len(log) + 1, term |-> term]
           one == IF c = d THEN 1 ELSE 0
<1>1. /\ applyProposals' = Append(applyProposals, p)
      /\ prop' = [prop EXCEPT ![d] = [index |-> Len(log) + 1, term |-> term]]
      /\ UNCHANGED <<applyMsgs, applyCh, batch, normals, confChange, cbs, done>>
      /\ Len(log) < MaxIndex
  BY DEF ProposeAccepted, applierVars, ctxVars, cbVars
<1>2. prop'[d] # NoProp /\ (c # d => prop'[c] = prop[c])
  BY <1>1, Numbers DEF NoProp, TypeInv, TypeOK, HistoryTypeOK
<1>3. p \in Props /\ applyProposals \in Seq(Props)
  BY <1>1, Numbers DEF Props, Indexes, TypeInv, TypeOK, PeerTypeOK
<1>4. Occ(c, applyProposals') = Occ(c, applyProposals) + one
  <2>1. Occ(c, Append(applyProposals, p))
          = Occ(c, applyProposals) + (IF p.cmd = c THEN 1 ELSE 0)
    BY <1>3, OccAppend
  <2>2. QED
    BY <1>1, <2>1
<1>5. /\ Occ(c, applyMsgs') = Occ(c, applyMsgs) /\ Occ(c, applyCh') = Occ(c, applyCh)
      /\ Occ(c, batch') = Occ(c, batch) /\ Occ(c, normals') = Occ(c, normals)
      /\ Occ(c, confChange') = Occ(c, confChange) /\ Occ(c, cbs') = Occ(c, cbs)
  BY <1>1
<1>6. /\ Occ(c, applyProposals) \in Nat /\ Occ(c, applyMsgs) \in Nat
      /\ Occ(c, applyCh) \in Nat /\ Occ(c, batch) \in Nat
      /\ Occ(c, normals) \in Nat /\ Occ(c, confChange) \in Nat
      /\ Occ(c, cbs) \in Nat
  BY CountTypes
<1>7. one \in Nat
  OBVIOUS
<1> HIDE DEF one
<1>8. Held(c)' = Held(c) + one
  BY <1>4, <1>5, <1>6, <1>7 DEF Held
<1>9. QED
  BY <1>1, <1>2, <1>8 DEF one

(* The sums are numbers, and those of the two workers make up the whole.     *)
SumsTyped ==
  \A c \in Cmds : /\ Held(c) \in Nat /\ done[c] \in Nat
                  /\ Held(c) = Upstream(c) + Downstream(c)

(* They are so in a typed state.                                             *)
LEMMA SumsAreTyped == TypeInv => SumsTyped
  BY SumTypes DEF SumsTyped

(* And in a typed state that a step leads to.                                *)
LEMMA SumsAreTypedNext == (TypeInv => SumsTyped)'
  BY SumsAreTyped, PTL

(* Every step keeps each callback in one place.                              *)
LEMMA NextConserves ==
  ASSUME TypeInv, TypeInv', IdleEmpty, CallbackConserved, [Next]_vars
  PROVE  CallbackConserved'
<1>1. ASSUME NEW c \in Cmds
      PROVE  /\ Held(c) \in Nat /\ done[c] \in Nat
             /\ prop[c] # NoProp => Held(c) + done[c] = 1
             /\ prop[c] = NoProp => Held(c) = 0 /\ done[c] <= 1
  BY <1>1, SumTypes DEF CallbackConserved
<1>2. ASSUME NEW c \in Cmds
      PROVE  Held(c)' \in Nat /\ done'[c] \in Nat /\ Held(c)' = Upstream(c)' + Downstream(c)'
  BY <1>2, SumsAreTypedNext DEF SumsTyped
<1>3. ASSUME NEW c \in Cmds, Conserved(c)
      PROVE  /\ prop'[c] # NoProp => Held(c)' + done'[c] = 1
             /\ prop'[c] = NoProp => Held(c)' = 0 /\ done'[c] <= 1
  <2>1. Held(c)' + done'[c] = Held(c) + done[c] /\ done'[c] >= done[c] /\ prop'[c] = prop[c]
    BY <1>2, <1>3, SumTypes DEF Conserved, Total
  <2>2. QED
    BY <1>1, <1>2, <2>1
<1>4. CASE \A c \in Cmds : Conserved(c)
  BY <1>3, <1>4 DEF CallbackConserved
<1>5. ASSUME NEW d \in Cmds, ProposeAccepted(d)
      PROVE  CallbackConserved'
  <2>1. SUFFICES ASSUME NEW c \in Cmds
                 PROVE  /\ prop'[c] # NoProp => Held(c)' + done'[c] = 1
                        /\ prop'[c] = NoProp => Held(c)' = 0 /\ done'[c] <= 1
    BY DEF CallbackConserved
  <2>2. /\ prop'[d] # NoProp /\ (c # d => prop'[c] = prop[c]) /\ done' = done
        /\ Held(c)' = Held(c) + (IF c = d THEN 1 ELSE 0)
    BY <1>5, AcceptedCounts
  <2>3. prop[d] = NoProp /\ done[d] = 0
    BY <1>5 DEF ProposeAccepted
  <2>4. /\ Held(c) \in Nat /\ done[c] \in Nat
        /\ prop[c] # NoProp => Held(c) + done[c] = 1
        /\ prop[c] = NoProp => Held(c) = 0 /\ done[c] <= 1
    BY <1>1
  <2>5. CASE c = d
    BY <2>2, <2>3, <2>4, <2>5
  <2>6. CASE c # d
    BY <2>2, <2>4, <2>6
  <2>7. QED
    BY <2>5, <2>6
<1>6. ASSUME NEW d \in Cmds, ProposeRefused(d)
      PROVE  CallbackConserved'
  <2>1. SUFFICES ASSUME NEW c \in Cmds
                 PROVE  /\ prop'[c] # NoProp => Held(c)' + done'[c] = 1
                        /\ prop'[c] = NoProp => Held(c)' = 0 /\ done'[c] <= 1
    BY DEF CallbackConserved
  <2>2. /\ prop[d] = NoProp /\ done[d] = 0 /\ prop' = prop
        /\ Reply(<<[cmd |-> d, resp |-> "refused"]>>)
    BY <1>6 DEF ProposeRefused
  <2>3. done'[c] = done[c] + (IF d = c THEN 1 ELSE 0)
    <3>1. Occ(c, <<[cmd |-> d, resp |-> "refused"]>>) = (IF d = c THEN 1 ELSE 0)
      BY OccSingle
    <3>2. QED
      BY <2>2, <3>1, ReplyCount
  <2>4. Held(c)' = Held(c)
    BY <1>6 DEF ProposeRefused, Held, peerVars, applierVars, ctxVars
  <2>5. /\ Held(c) \in Nat /\ done[c] \in Nat
        /\ prop[c] # NoProp => Held(c) + done[c] = 1
        /\ prop[c] = NoProp => Held(c) = 0 /\ done[c] <= 1
    BY <1>1
  <2>6. CASE c = d
    BY <2>2, <2>3, <2>4, <2>5, <2>6
  <2>7. CASE c # d
    BY <2>2, <2>3, <2>4, <2>5, <2>7
  <2>8. QED
    BY <2>6, <2>7
<1>7. QED
  BY <1>4, <1>5, <1>6, RaftConserves, DestroyPeerConserves, EndBatchConserves,
     ApplyWorkerConserves DEF Next, ApplyResult

(* Every callback of an accepted proposal is in exactly one of the queues of *)
(* the two workers until it is answered, and is answered once; one that was  *)
(* refused is answered at once and never queued.                             *)
THEOREM CallbacksConserved == Spec => []CallbackConserved
<1> DEFINE IInv == TypeInv /\ IdleEmpty /\ CallbackConserved
<1>1. Init => IInv
  <2> SUFFICES ASSUME Init PROVE IdleEmpty /\ CallbackConserved
    BY InitTypes
  <2>1. IdleEmpty
    BY DEF Init, IdleEmpty
  <2>2. ASSUME NEW c \in Cmds
        PROVE  prop[c] = NoProp /\ Held(c) = 0 /\ done[c] = 0
    <3>1. /\ applyProposals = <<>> /\ applyMsgs = <<>> /\ applyCh = <<>>
          /\ batch = <<>> /\ normals = <<>> /\ confChange = <<>> /\ cbs = <<>>
      BY DEF Init
    <3>2. Held(c) = 0
      BY <3>1, OccEmpty DEF Held
    <3>3. QED
      BY <3>2 DEF Init
  <2>3. QED
    BY <2>1, <2>2 DEF CallbackConserved
<1>2. IInv /\ [Next]_vars => IInv'
  BY NextTypes, IdleKept, NextConserves
<1>3. QED
  BY <1>1, <1>2, PTL DEF Spec

-----------------------------------------------------------------------------
(* The log and what was reported.                                            *)

(* An entry at the index and term of one of this peer's proposals is that    *)
(* command, in the log and in every log it replaced: findCallback may answer *)
(* a proposal by index and term alone.                                       *)
THEOREM LogsMatch == Spec => []LogMatch
<1>1. Init => TypeInv /\ LogMatch
  <2>1. ASSUME Init PROVE LogMatch
    <3>1. log = <<>> /\ oldLogs = {} /\ \A c \in Cmds : prop[c] = NoProp
      BY <2>1 DEF Init
    <3>2. QED
      BY <3>1 DEF LogMatch, OldTerms, LogTerms, PropTerms, PropsMatch
  <2>2. QED
    BY <2>1, InitTypes
<1>2. TypeInv /\ LogMatch /\ [Next]_vars => (TypeInv /\ LogMatch)'
  BY NextTypes, NextLogMatch
<1>3. QED
  BY <1>1, <1>2, PTL DEF Spec

(* No step forgets a proposal, rewrites a committed entry or loses what an   *)
(* executed entry wrote: follower appends truncate above the commit index    *)
(* only, and the write batch is cleared only once it is in the engine.       *)
THEOREM NothingTakenBack == Spec => [][Kept]_vars
<1>1. Init => TypeInv
  BY InitTypes
<1>2. TypeInv /\ [Next]_vars => TypeInv'
  BY NextTypes
<1>3. TypeInv /\ [Next]_vars => [Kept]_vars
  BY NextKeeps
<1>4. QED
  BY <1>1, <1>2, <1>3, PTL DEF Spec

(* The raft worker leaves the callbacks of the batch alone, and reports      *)
(* failures only.                                                            *)
LEMMA RaftWorkerAcks ==
  ASSUME TypeInv, TypeInv', Kept, CbsBacked, AckedDurable, OutsideApplier
  PROVE  CbsBacked' /\ AckedDurable'
<1>1. cbs' = cbs
  BY OutsideFrame
<1>2. CbsBacked'
  BY <1>1, CbsGrow DEF CbsBacked
<1>3. \/ UNCHANGED cbVars
      \/ Reply(With(applyProposals, "removed"))
      \/ \E d \in Cmds : Reply(<<[cmd |-> d, resp |-> "refused"]>>)
  <2>1. CASE Raft
    BY <2>1 DEF Raft, BecomeLeader, FollowerAppend, AdvanceCommit, ReceiveSnapshot,
       RaftFrame
  <2>2. ASSUME NEW d \in Cmds, ProposeAccepted(d) \/ ProposeRefused(d)
        PROVE  UNCHANGED cbVars \/ Reply(<<[cmd |-> d, resp |-> "refused"]>>)
    BY <2>2 DEF ProposeAccepted, ProposeRefused
  <2>3. CASE GCPeer \/ RaftBaseTick \/ ApplyResult \/ RegionWorkerApplies
    BY <2>3 DEF GCPeer, RaftBaseTick, RegionWorkerApplies, ApplyResult,
       ApplyResultDestroys, ApplyResultAdvances, ApplyResultPanics
  <2>4. CASE EndBatch
    BY <2>4 DEF EndBatch, EndBatchNotReady, EndBatchNoReady, EndBatchSnapshot,
       EndBatchEntries
  <2>5. CASE UNCHANGED vars
    BY <2>5 DEF vars
  <2>6. QED
    BY <2>1, <2>2, <2>3, <2>4, <2>5 DEF OutsideApplier
<1>4. With(applyProposals, "removed") \in Seq(Failures)
  BY FailureAnswers DEF TypeInv, TypeOK, PeerTypeOK
<1>5. ASSUME NEW d \in Cmds
      PROVE  <<[cmd |-> d, resp |-> "refused"]>> \in Seq(Failures)
  BY DEF Failures
<1>6. QED
  BY <1>2, <1>3, <1>4, <1>5, AckFailures

(* The invariant holds initially.                                            *)
LEMMA InitAck == Init => AckInv
<1> SUFFICES ASSUME Init PROVE AckInv
  OBVIOUS
<1>1. /\ applyProposals = <<>> /\ normals = <<>> /\ confChange = <<>>
      /\ applyMsgs = <<>> /\ applyCh = <<>> /\ batch = <<>> /\ cbs = <<>>
      /\ log = <<>> /\ oldLogs = {}
      /\ \A c \in Cmds : prop[c] = NoProp /\ outcome[c] = "none"
  BY DEF Init
<1>2. \A S : <<>> \in Seq(S)
  OBVIOUS
<1>3. QueuesKnown /\ CbsBacked
  BY <1>1, <1>2 DEF QueuesKnown, CbsBacked
<1>4. LogMatch
  BY <1>1 DEF LogMatch, OldTerms, LogTerms, PropTerms, PropsMatch
<1>5. AckedDurable
  BY <1>1 DEF AckedDurable
<1>6. QED
  BY <1>3, <1>4, <1>5 DEF AckInv

(* When a command is reported to have succeeded, it is the committed entry   *)
(* of the index and term it was proposed at, and what it wrote is in the kv  *)
(* engine: writeToDB answers the callbacks after the write, findCallback     *)
(* answers by index and term.                                                *)
THEOREM SuccessIsDurable == Spec => []AckedDurable
<1> DEFINE IInv == TypeInv /\ AckInv
<1>1. Init => IInv
  BY InitTypes, InitAck
<1>2. IInv /\ [Next]_vars => IInv'
  <2> SUFFICES ASSUME TypeInv, AckInv, [Next]_vars PROVE TypeInv' /\ AckInv'
    OBVIOUS
  <2>1. TypeInv' /\ Kept
    BY NextTypes, NextKeeps
  <2>2. QueuesKnown /\ CbsBacked /\ LogMatch /\ AckedDurable /\ PropKept
    BY <2>1 DEF AckInv, Kept
  <2>3. LogMatch'
    BY <2>2, NextLogMatch
  <2>4. CASE ApplyWorker
    <3>1. QueuesKnown'
      BY <2>2, <2>4, ApplyWorkerQueues
    <3>2. CbsBacked' /\ AckedDurable'
      BY <2>1, <2>2, <2>4, ApplyWorkerCbs, ApplyWorkerAcks
    <3>3. QED
      BY <2>1, <2>3, <3>1, <3>2 DEF AckInv
  <2>5. CASE OutsideApplier
    <3>1. QueuesKnown'
      BY <2>2, <2>5, RaftWorkerQueues
    <3>2. CbsBacked' /\ AckedDurable'
      BY <2>1, <2>2, <2>5, RaftWorkerAcks
    <3>3. QED
      BY <2>1, <2>3, <3>1, <3>2 DEF AckInv
  <2>6. QED
    BY <2>4, <2>5 DEF Next, OutsideApplier
<1>3. IInv => AckedDurable
  BY DEF AckInv
<1>4. QED
  BY <1>1, <1>2, <1>3, PTL DEF Spec
=============================================================================
