------------------------------ MODULE AckProofs ------------------------------
(***************************************************************************)
(* The success of a command is durable when it is reported, for any set of *)
(* commands and any bounds.  The invariant follows a command from its      *)
(* proposal to its answer: the proposals in the queues are those that were *)
(* made (QueuesKnown); an entry of a proposal's index and term, in any log *)
(* this peer has or had, is that proposal (LogMatch); so a success waiting *)
(* in the write batch belongs to a committed entry whose writes are in the *)
(* batch or in the engine (CbsBacked).                                     *)
(***************************************************************************)
EXTENDS LogMatchProofs

(* A proposal in a queue is at the index and term it was proposed at.        *)
Known(r) == r.index >= 1 /\ prop[r.cmd] = [index |-> r.index, term |-> r.term]
KnownProps == {r \in Props : Known(r)}
KnownMsgs == {m \in Msgs : m.type = "proposal" => Known(m)}

QueuesKnown ==
    /\ applyProposals \in Seq(KnownProps)
    /\ normals \in Seq(KnownProps)
    /\ confChange \in Seq(KnownProps)
    /\ applyMsgs \in Seq(KnownMsgs)
    /\ applyCh \in Seq(KnownMsgs)
    /\ batch \in Seq(KnownMsgs)

(* The success of a command is backed by the log, and by the batch that is   *)
(* written before its callback is answered.                                  *)
Backed(c) == CommittedAt(c) /\ prop[c].index \in wb.data \cup disk.data
BackedCbs == {a \in Answers1 : a.resp = "ok" => Backed(a.cmd)}
CbsBacked == cbs \in Seq(BackedCbs)

AckInv == QueuesKnown /\ CbsBacked /\ LogMatch /\ AckedDurable

-----------------------------------------------------------------------------
(* The proposals in the queues are those that were made.                     *)

(* What is known stays known.                                                *)
LEMMA KnownGrows ==
  ASSUME PropKept
  PROVE  KnownProps \subseteq KnownProps' /\ KnownMsgs \subseteq KnownMsgs'
<1>1. ASSUME NEW r, r.cmd \in Cmds, Known(r)
      PROVE  Known(r)'
  <2>1. prop[r.cmd] # NoProp
    <3>1. prop[r.cmd].index >= 1
      BY <1>1 DEF Known
    <3>2. QED
      BY <3>1 DEF NoProp
  <2>2. prop'[r.cmd] = prop[r.cmd]
    BY <1>1, <2>1 DEF PropKept
  <2>3. QED
    BY <1>1, <2>2 DEF Known
<1>2. KnownProps \subseteq KnownProps'
  BY <1>1 DEF KnownProps, Props
<1>3. ASSUME NEW m \in Msgs, m.type = "proposal" => Known(m)
      PROVE  m.type = "proposal" => Known(m)'
  BY <1>1, <1>3, MsgFields
<1>4. KnownMsgs \subseteq KnownMsgs'
  BY <1>3 DEF KnownMsgs
<1>5. QED
  BY <1>2, <1>4

(* So the queues of a step that leaves them alone stay known.                *)
LEMMA QueuesGrow ==
  ASSUME PropKept, QueuesKnown
  PROVE  /\ applyProposals \in Seq(KnownProps')
         /\ normals \in Seq(KnownProps')
         /\ confChange \in Seq(KnownProps')
         /\ applyMsgs \in Seq(KnownMsgs')
         /\ applyCh \in Seq(KnownMsgs')
         /\ batch \in Seq(KnownMsgs')
<1>1. Seq(KnownProps) \subseteq Seq(KnownProps') /\ Seq(KnownMsgs) \subseteq Seq(KnownMsgs')
  BY KnownGrows, SeqsWiden
<1>2. QED
  BY <1>1 DEF QueuesKnown

(* The messages without a command are known.                                 *)
LEMMA KnownWithoutCommand ==
  ASSUME NEW m \in Msgs, m.type # "proposal"
  PROVE  m \in KnownMsgs /\ m \in KnownMsgs'
  BY DEF KnownMsgs

(* The proposals of a batch become messages.                                 *)
LEMMA KnownProposals ==
  ASSUME applyProposals \in Seq(KnownProps')
  PROVE  Proposals \in Seq(KnownMsgs')
<1>1. /\ Len(applyProposals) \in Nat
      /\ DOMAIN applyProposals = 1 .. Len(applyProposals)
      /\ \A i \in 1 .. Len(applyProposals) : applyProposals[i] \in KnownProps'
  BY LenProperties, ElementOfSeq
<1>2. ASSUME NEW p \in KnownProps'
      PROVE  ProposalMsg(p) \in KnownMsgs'
  <2>1. p \in Props /\ Known(p)'
    BY DEF KnownProps
  <2>2. ProposalMsg(p) \in Msgs
    BY <2>1, BoundsAssumption DEF ProposalMsg, Props, Msgs, Indexes
  <2>3. Known(ProposalMsg(p))'
    BY <2>1 DEF Known, ProposalMsg
  <2>4. QED
    BY <2>2, <2>3 DEF KnownMsgs
<1>3. Proposals \in [1 .. Len(applyProposals) -> KnownMsgs']
  BY <1>1, <1>2 DEF Proposals
<1>4. QED
  BY <1>1, <1>3, IsASeq

(* The raft worker's steps.                                                  *)
LEMMA RaftWorkerQueues ==
  ASSUME TypeInv, PropKept, QueuesKnown, OutsideApplier
  PROVE  QueuesKnown'
<1> USE QueuesGrow
<1>1. UNCHANGED <<normals, confChange, batch>>
  BY OutsideFrame
<1>2. SUFFICES /\ applyProposals' \in Seq(KnownProps')
               /\ applyMsgs' \in Seq(KnownMsgs') /\ applyCh' \in Seq(KnownMsgs')
  BY <1>1 DEF QueuesKnown
<1>3. \A S : <<>> \in Seq(S)
  OBVIOUS
<1>4. CASE UNCHANGED <<applyProposals, applyMsgs, applyCh>>
  BY <1>4
<1>5. CASE \/ Raft \/ \E d \in Cmds : ProposeRefused(d)
           \/ RaftBaseTick \/ ApplyResultAdvances \/ ApplyResultPanics
           \/ RegionWorkerApplies \/ UNCHANGED vars
  <2>1. CASE Raft
    BY <1>4, <2>1 DEF Raft, BecomeLeader, FollowerAppend, AdvanceCommit,
       ReceiveSnapshot, RaftFrame, peerVars
  <2>2. CASE RaftBaseTick \/ ApplyResultAdvances \/ ApplyResultPanics
    BY <1>4, <2>2 DEF RaftBaseTick, ApplyResultAdvances, ApplyResultPanics, peerVars
  <2>3. CASE RegionWorkerApplies \/ UNCHANGED vars
    BY <1>4, <2>3 DEF RegionWorkerApplies, vars, peerVars
  <2>4. CASE \E d \in Cmds : ProposeRefused(d)
    BY <1>4, <2>4 DEF ProposeRefused, peerVars
  <2>5. QED
    BY <1>5, <2>1, <2>2, <2>3, <2>4
<1>6. ASSUME NEW d \in Cmds, ProposeAccepted(d)
      PROVE  /\ applyProposals' \in Seq(KnownProps')
             /\ applyMsgs' \in Seq(KnownMsgs') /\ applyCh' \in Seq(KnownMsgs')
  <2> PICK p : p = [cmd |-> d, index |-> Len(log) + 1, term |-> term]
    OBVIOUS
  <2>1. /\ applyProposals' = Append(applyProposals, p)
        /\ prop' = [prop EXCEPT ![d] = [index |-> Len(log) + 1, term |-> term]]
        /\ UNCHANGED <<applyMsgs, applyCh>>
        /\ Len(log) < MaxIndex
    BY <1>6 DEF ProposeAccepted
  <2>2. p \in Props
    BY <2>1, Numbers DEF Props, Indexes
  <2>3. Known(p)'
    <3>1. prop'[d] = [index |-> p.index, term |-> p.term] /\ p.cmd = d
      BY <2>1 DEF TypeInv, TypeOK, HistoryTypeOK
    <3>2. p.index >= 1
      BY Numbers
    <3>3. QED
      BY <3>1, <3>2 DEF Known
  <2>4. p \in KnownProps'
    BY <2>2, <2>3 DEF KnownProps
  <2>5. QED
    BY <2>1, <2>4, AppendProperties
<1>7. DestroyMsg \in KnownMsgs'
  <2>1. DestroyMsg \in Msgs /\ DestroyMsg.type # "proposal"
    BY BoundsAssumption DEF DestroyMsg, Msgs, Indexes
  <2>2. QED
    BY <2>1, KnownWithoutCommand
<1>8. CASE GCPeer \/ ApplyResultDestroys
  <2>1. /\ applyMsgs' = applyMsgs \/ applyMsgs' = Append(applyMsgs, DestroyMsg)
        /\ applyProposals' = applyProposals \/ applyProposals' = <<>>
        /\ applyCh' = applyCh
    BY <1>8 DEF GCPeer, ApplyResultDestroys
  <2>2. Append(applyMsgs, DestroyMsg) \in Seq(KnownMsgs')
    BY <1>7, AppendProperties
  <2>3. QED
    BY <1>3, <2>1, <2>2
<1>9. CASE EndBatch
  <2>1. applyMsgs \o Proposals \in Seq(KnownMsgs')
    BY KnownProposals, ConcatProperties
  <2>2. /\ applyMsgs' = <<>>
        /\ applyProposals' = <<>> \/ applyProposals' = applyProposals
    BY <1>9 DEF EndBatch, EndBatchNotReady, EndBatchNoReady, EndBatchSnapshot,
       EndBatchEntries
  <2>3. applyCh' \in Seq(KnownMsgs')
    <3>1. CASE EndBatchNotReady \/ EndBatchNoReady
      BY <2>1, <3>1 DEF EndBatchNotReady, EndBatchNoReady
    <3>2. CASE EndBatchSnapshot
      <4>1. /\ RegistrationMsg(pendingSnap) \in Msgs
            /\ RegistrationMsg(pendingSnap).type # "proposal"
        BY BoundsAssumption
           DEF RegistrationMsg, Msgs, Indexes, TypeInv, TypeOK, RaftTypeOK
      <4>2. RegistrationMsg(pendingSnap) \in KnownMsgs'
        BY <4>1, KnownWithoutCommand
      <4>3. QED
        BY <2>1, <3>2, <4>2, AppendProperties DEF EndBatchSnapshot
    <3>3. CASE EndBatchEntries
      <4>1. ASSUME LastOfReady > lastApplyingIdx
            PROVE  ApplyMsg(lastApplyingIdx + 1, LastOfReady) \in KnownMsgs'
        <5>1. /\ ApplyMsg(lastApplyingIdx + 1, LastOfReady) \in Msgs
              /\ ApplyMsg(lastApplyingIdx + 1, LastOfReady).type # "proposal"
          BY <4>1, Numbers DEF ApplyMsg, Msgs, Indexes, LastOfReady
        <5>2. QED
          BY <5>1, KnownWithoutCommand
      <4>2. ASSUME LastOfReady > lastApplyingIdx
            PROVE  Append(applyMsgs \o Proposals,
                          ApplyMsg(lastApplyingIdx + 1, LastOfReady)) \in Seq(KnownMsgs')
        BY <2>1, <4>1, <4>2, AppendProperties
      <4>3. QED
        BY <2>1, <3>3, <4>2 DEF EndBatchEntries
    <3>4. QED
      BY <1>9, <3>1, <3>2, <3>3 DEF EndBatch
  <2>4. QED
    BY <1>3, <2>2, <2>3
<1>10. QED
  BY <1>5, <1>6, <1>8, <1>9 DEF ApplyResult, OutsideApplier

(* The end of a queue holds what the queue holds.                            *)
LEMMA RestOfSeq ==
  ASSUME NEW S, NEW s \in Seq(S), NEW n \in Nat
  PROVE  SubSeq(s, n + 1, Len(s)) \in Seq(S)
<1>1. Len(s) \in Nat /\ \A i \in 1 .. Len(s) : s[i] \in S
  BY LenProperties, ElementOfSeq
<1>2. \A i \in n + 1 .. Len(s) : s[i] \in S
  BY <1>1
<1>3. QED
  BY <1>1, <1>2, SubSeqProperties

(* The steps of the apply worker.                                            *)
LEMMA ApplyWorkerQueues ==
  ASSUME TypeInv, PropKept, QueuesKnown, ApplyWorker
  PROVE  QueuesKnown'
<1> USE QueuesGrow
<1>1. UNCHANGED <<applyProposals, applyMsgs>>
  BY ApplyWorkerFrame DEF ApplyFrame, peerVars
<1>2. SUFFICES /\ normals' \in Seq(KnownProps') /\ confChange' \in Seq(KnownProps')
               /\ applyCh' \in Seq(KnownMsgs') /\ batch' \in Seq(KnownMsgs')
  BY <1>1 DEF QueuesKnown
<1>3. \A S : <<>> \in Seq(S)
  OBVIOUS
<1>4. ASSUME batch # <<>>
      PROVE  Head(batch) \in KnownMsgs' /\ Tail(batch) \in Seq(KnownMsgs')
  BY <1>4, HeadTailProperties
<1>5. CASE TakeBatch
  BY <1>3, <1>5 DEF TakeBatch, applierVars
<1>6. CASE HandleProposal
  <2>1. PICK p : p = [cmd |-> Head(batch).cmd, index |-> Head(batch).index,
                      term |-> Head(batch).term]
    OBVIOUS
  <2>2. p \in KnownProps'
    <3>1. PICK m \in KnownMsgs' : m = Head(batch)
      BY <1>4, <1>6 DEF HandleProposal, Handling
    <3>2. m.type = "proposal" /\ m \in Msgs /\ Known(m)'
      BY <1>6, <3>1 DEF HandleProposal, Handling, KnownMsgs
    <3>3. p \in Props
      BY <2>1, <3>1, <3>2, MsgFields DEF Props
    <3>4. Known(p)'
      BY <2>1, <3>1, <3>2 DEF Known
    <3>5. QED
      BY <3>3, <3>4 DEF KnownProps
  <2>3. /\ batch' = Tail(batch) /\ batch # <<>> /\ applyCh' = applyCh
        /\ normals' = normals \/ normals' = Append(normals, p)
        /\ confChange' = confChange \/ confChange' = <<p>>
    BY <1>6, <2>1 DEF HandleProposal, Handling
  <2>4. Append(normals, p) \in Seq(KnownProps') /\ <<p>> \in Seq(KnownProps')
    BY <2>2, AppendProperties
  <2>5. QED
    BY <1>4, <2>3, <2>4
<1>7. CASE HandleRegistration \/ HandleApply \/ HandleDestroy
  <2>1. /\ batch' = Tail(batch) /\ batch # <<>> /\ applyCh' = applyCh
        /\ normals' = normals \/ normals' = <<>>
        /\ confChange' = confChange \/ confChange' = <<>>
    BY <1>7 DEF HandleRegistration, HandleApply, HandleDestroy, Handling, applierVars
  <2>2. QED
    BY <1>3, <1>4, <2>1
<1>8. CASE FinishApply \/ FinishRemoved \/ Flush
  <2>1. /\ batch' = batch /\ applyCh' = applyCh
        /\ normals' = normals \/ normals' = <<>>
        /\ confChange' = confChange \/ confChange' = <<>>
    BY <1>8 DEF FinishApply, FinishRemoved, Flush, applierVars
  <2>2. QED
    BY <1>3, <2>1
<1>9. ASSUME NEW i \in 1 .. MaxIndex, CommitBefore(i) \/ ApplyConfChange(i)
      PROVE  /\ normals' \in Seq(KnownProps') /\ confChange' \in Seq(KnownProps')
             /\ applyCh' \in Seq(KnownMsgs') /\ batch' \in Seq(KnownMsgs')
  <2>1. /\ UNCHANGED <<batch, applyCh, normals>>
        /\ confChange' = confChange \/ confChange' = <<>>
    BY <1>9 DEF CommitBefore, ApplyConfChange, applierVars
  <2>2. QED
    BY <1>3, <2>1
<1>10. ASSUME NEW i \in 1 .. MaxIndex, ApplyNoop(i) \/ ApplyNormal(i)
       PROVE  /\ normals' \in Seq(KnownProps') /\ confChange' \in Seq(KnownProps')
              /\ applyCh' \in Seq(KnownMsgs') /\ batch' \in Seq(KnownMsgs')
  <2>1. UNCHANGED <<batch, applyCh, confChange>>
    BY <1>10 DEF ApplyNoop, ApplyNormal
  <2>2. CASE ApplyNoop(i)
    <3>1. PICK n \in 0 .. Len(normals) :
            normals' = normals \/ normals' = SubSeq(normals, n + 1, Len(normals))
      BY <2>2 DEF ApplyNoop
    <3>2. n \in Nat
      BY <3>1
    <3>3. QED
      BY <2>1, <3>1, <3>2, RestOfSeq
  <2>3. CASE ApplyNormal(i)
    <3>1. PICK n \in 0 .. Len(normals) :
            \/ normals' = SubSeq(normals, n + 1, Len(normals))
            \/ normals' = SubSeq(normals, n + 2, Len(normals))
      BY <2>3 DEF ApplyNormal
    <3>2. SubSeq(normals, n + 1, Len(normals)) \in Seq(KnownProps')
      <4>1. n \in Nat
        BY <3>1
      <4>2. QED
        BY <4>1, RestOfSeq
    <3>3. SubSeq(normals, n + 2, Len(normals)) \in Seq(KnownProps')
      <4>1. n + 1 \in Nat /\ n + 2 = (n + 1) + 1
        BY <3>1
      <4>2. SubSeq(normals, (n + 1) + 1, Len(normals)) \in Seq(KnownProps')
        BY <4>1, RestOfSeq
      <4>3. QED
        BY <4>1, <4>2
    <3>4. QED
      BY <2>1, <3>1, <3>2, <3>3
  <2>4. QED
    BY <1>10, <2>2, <2>3
<1> DEFINE Goal == /\ normals' \in Seq(KnownProps') /\ confChange' \in Seq(KnownProps')
                   /\ applyCh' \in Seq(KnownMsgs') /\ batch' \in Seq(KnownMsgs')
<1>11. CASE ApplyEntry
  <2>1. \A i \in 1 .. MaxIndex :
          ApplyNoop(i) \/ CommitBefore(i) \/ ApplyNormal(i) \/ ApplyConfChange(i) => Goal
    BY <1>9, <1>10
  <2> HIDE DEF Goal
  <2>2. Goal
    BY <1>11, <2>1 DEF ApplyEntry
  <2>3. QED
    BY <2>2 DEF Goal
<1>12. Goal
  <2>1. (TakeBatch => Goal) /\ (HandleProposal => Goal)
    BY <1>5, <1>6
  <2>2. HandleRegistration \/ HandleApply \/ HandleDestroy => Goal
    BY <1>7
  <2>3. (FinishApply \/ FinishRemoved \/ Flush => Goal) /\ (ApplyEntry => Goal)
    BY <1>8, <1>11
  <2> HIDE DEF Goal
  <2>4. QED
    BY <2>1, <2>2, <2>3 DEF ApplyWorker
<1>13. QED
  BY <1>12

-----------------------------------------------------------------------------
(* The callbacks of the write batch, and those that were answered.           *)
Failures == [cmd : Cmds, resp : {"stale", "removed", "refused"}]

(* A committed entry stays where it is, an executed one stays executed.      *)
LEMMA BackedKept ==
  ASSUME TypeInv, TypeInv', Kept, NEW c \in Cmds
  PROVE  /\ CommittedAt(c) => prop'[c] = prop[c] /\ CommittedAt(c)'
         /\ Backed(c) => Backed(c)'
<1> USE Numbers
<1>1. ASSUME CommittedAt(c)
      PROVE  prop'[c] = prop[c] /\ CommittedAt(c)'
  <2>1. /\ prop[c].index \in 1 .. commit
        /\ log[prop[c].index] = Entry(prop[c].term, c)
    BY <1>1 DEF CommittedAt
  <2>2. prop[c] # NoProp
    BY <2>1 DEF NoProp
  <2>3. prop'[c] = prop[c]
    BY <2>2 DEF Kept, PropKept
  <2>4. commit <= commit' /\ log'[prop[c].index] = log[prop[c].index]
    BY <2>1 DEF Kept, PrefixKept
  <2>5. commit' \in Nat
    BY DEF TypeInv, TypeOK, RaftTypeOK, Indexes
  <2>6. prop'[c].index \in 1 .. commit'
    BY <2>1, <2>3, <2>4, <2>5
  <2>7. QED
    BY <2>1, <2>3, <2>4, <2>6 DEF CommittedAt
<1>2. QED
  BY <1>1 DEF Backed, Kept, DataKept

(* So the callbacks of the batch stay backed.                                *)
LEMMA CbsGrow ==
  ASSUME TypeInv, TypeInv', Kept, CbsBacked
  PROVE  cbs \in Seq(BackedCbs')
<1>1. BackedCbs \subseteq BackedCbs'
  BY BackedKept DEF BackedCbs, Answers1
<1>2. QED
  BY <1>1, SeqsWiden DEF CbsBacked

(* The answers to stale and removed commands promise nothing.                *)
LEMMA FailureAnswers ==
  ASSUME NEW s \in Seq(Props), NEW r \in {"stale", "removed"}
  PROVE  /\ With(s, r) \in Seq(Failures)
         /\ With(s, r) \in Seq(BackedCbs) /\ With(s, r) \in Seq(BackedCbs')
<1>1. /\ Len(s) \in Nat /\ DOMAIN s = 1 .. Len(s)
      /\ \A i \in 1 .. Len(s) : s[i] \in Props
  BY LenProperties, ElementOfSeq
<1>2. ASSUME NEW p \in Props
      PROVE  /\ [cmd |-> p.cmd, resp |-> r] \in Failures
             /\ [cmd |-> p.cmd, resp |-> r] \in BackedCbs
             /\ [cmd |-> p.cmd, resp |-> r] \in BackedCbs'
  BY DEF Props, Failures, BackedCbs, Answers1, Resps
<1>3. /\ With(s, r) \in [1 .. Len(s) -> Failures]
      /\ With(s, r) \in [1 .. Len(s) -> BackedCbs]
      /\ With(s, r) \in [1 .. Len(s) -> BackedCbs']
  BY <1>1, <1>2 DEF With
<1>4. QED
  BY <1>1, <1>3, IsASeq

(* The entry that a pending command matches is its own, and is committed.    *)
LEMMA MatchBacked ==
  ASSUME TypeInv, LogMatch, NEW i \in 1 .. MaxIndex, Applying(i),
         NEW r \in KnownProps, r.index = i, r.term = log[i].term,
         NEW ok \in BOOLEAN, Executed(i, ok), UNCHANGED <<log, commit, prop>>
  PROVE  [cmd |-> r.cmd, resp |-> Resp(ok)] \in BackedCbs'
<1> USE Numbers
<1>1. r \in Props /\ r.cmd \in Cmds /\ Known(r)
  BY DEF KnownProps, Props
<1>2. prop[r.cmd] = [index |-> i, term |-> log[i].term] /\ i >= 1
  BY <1>1 DEF Known
<1>3. i <= lastApplyingIdx /\ i \in 1 .. Len(log) /\ log[i] \in Entries
  BY ApplyingFacts
<1>4. i \in 1 .. commit
  BY <1>3
<1>5. prop[r.cmd] # NoProp /\ At(log, r.cmd)
  BY <1>2, <1>3 DEF NoProp, At
<1>6. log[i].cmd = r.cmd
  <2>1. log[prop[r.cmd].index].cmd = r.cmd
    BY <1>1, <1>5 DEF LogMatch, PropsMatch
  <2>2. QED
    BY <1>2, <2>1
<1>7. log[i] = Entry(log[i].term, r.cmd)
  BY <1>3, <1>6 DEF Entries, Entry
<1>8. CommittedAt(r.cmd)'
  BY <1>2, <1>4, <1>7 DEF CommittedAt
<1>9. ok => i \in wb'.data
  BY DEF Executed, TypeInv, TypeOK, ContextTypeOK, Wbs
<1>10. ok => Backed(r.cmd)'
  BY <1>2, <1>8, <1>9 DEF Backed
<1>11. PICK a : a = [cmd |-> r.cmd, resp |-> Resp(ok)]
  OBVIOUS
<1>12. a \in Answers1 /\ (a.resp = "ok" => ok) /\ a.cmd = r.cmd
  BY <1>1, <1>11 DEF Answers1, Resp, Resps
<1>13. a \in BackedCbs'
  BY <1>10, <1>12 DEF BackedCbs
<1>14. QED
  BY <1>11, <1>13

(* The apply worker only queues success for what it executed.                *)
LEMMA ApplyWorkerCbs ==
  ASSUME TypeInv, TypeInv', Kept, QueuesKnown, LogMatch, CbsBacked, ApplyWorker
  PROVE  CbsBacked'
<1> USE CbsGrow
<1>1. normals \in Seq(Props) /\ confChange \in Seq(Props) /\ Len(confChange) <= 1
  BY DEF TypeInv, TypeOK, ApplierTypeOK
<1>2. <<>> \in Seq(BackedCbs')
  OBVIOUS
<1>3. CASE cbs' = cbs \/ cbs' = <<>>
  BY <1>2, <1>3 DEF CbsBacked
<1>4. CASE TakeBatch \/ HandleProposal \/ HandleRegistration \/ HandleApply
  <2>1. cbs' = cbs
    BY <1>4 DEF TakeBatch, HandleProposal, HandleRegistration, HandleApply
  <2>2. QED
    BY <1>3, <2>1
<1>5. CASE HandleDestroy \/ FinishApply \/ FinishRemoved \/ Flush
  <2>1. cbs' = cbs \/ cbs' = <<>>
    <3>1. CASE HandleDestroy \/ FinishApply
      BY <3>1 DEF HandleDestroy, FinishApply, WriteToDB
    <3>2. CASE FinishRemoved \/ Flush
      BY <3>2 DEF FinishRemoved, Flush, WriteToDB
    <3>3. QED
      BY <1>5, <3>1, <3>2
  <2>2. QED
    BY <1>3, <2>1
<1>6. ASSUME NEW i \in 1 .. MaxIndex, CommitBefore(i)
      PROVE  CbsBacked'
  BY <1>3, <1>6 DEF CommitBefore, WriteToDB
<1>7. ASSUME NEW i \in 1 .. MaxIndex, ApplyNoop(i)
      PROVE  CbsBacked'
  <2>1. PICK n \in 0 .. Len(normals) :
          cbs' = cbs \/ cbs' = cbs \o StaleCbs(SubSeq(normals, 1, n))
    BY <1>7 DEF ApplyNoop
  <2>2. SubSeq(normals, 1, n) \in Seq(Props)
    BY <1>1, OccSplit
  <2>3. StaleCbs(SubSeq(normals, 1, n)) \in Seq(BackedCbs')
    BY <2>2, FailureAnswers DEF StaleCbs
  <2>4. cbs \o StaleCbs(SubSeq(normals, 1, n)) \in Seq(BackedCbs')
    BY <2>3, ConcatProperties
  <2>5. QED
    BY <1>3, <2>1, <2>4 DEF CbsBacked
<1>8. ASSUME NEW i \in 1 .. MaxIndex, ApplyNormal(i)
      PROVE  CbsBacked'
  <2>1. PICK ok \in BOOLEAN, n \in 0 .. Len(normals) :
        /\ Executed(i, ok)
        /\ \/ cbs' = cbs
           \/ /\ n < Len(normals) /\ normals[n + 1].index = i
              /\ normals[n + 1].term = log[i].term
              /\ cbs' = Append(cbs, [cmd |-> normals[n + 1].cmd, resp |-> Resp(ok)])
    BY <1>8 DEF ApplyNormal
  <2>2. Applying(i) /\ UNCHANGED <<log, commit, prop>>
    BY <1>8 DEF ApplyNormal, ApplyFrame, raftVars
  <2>3. CASE /\ n < Len(normals) /\ normals[n + 1].index = i
             /\ normals[n + 1].term = log[i].term
             /\ cbs' = Append(cbs, [cmd |-> normals[n + 1].cmd, resp |-> Resp(ok)])
    <3>1. PICK r \in KnownProps : r = normals[n + 1]
      <4>1. Len(normals) \in Nat /\ normals \in Seq(KnownProps)
        BY <1>1, LenProperties DEF QueuesKnown
      <4>2. n + 1 \in 1 .. Len(normals)
        BY <2>3, <4>1
      <4>3. QED
        BY <4>1, <4>2, ElementOfSeq
    <3>2. [cmd |-> r.cmd, resp |-> Resp(ok)] \in BackedCbs'
      BY <2>1, <2>2, <2>3, <3>1, MatchBacked
    <3>3. Append(cbs, [cmd |-> r.cmd, resp |-> Resp(ok)]) \in Seq(BackedCbs')
      BY <3>2, AppendProperties
    <3>4. QED
      BY <2>3, <3>1, <3>3 DEF CbsBacked
  <2>4. QED
    BY <1>3, <2>1, <2>3
<1>9. ASSUME NEW i \in 1 .. MaxIndex, ApplyConfChange(i)
      PROVE  CbsBacked'
  <2>1. PICK ok \in BOOLEAN :
        /\ Executed(i, ok)
        /\ \/ cbs' = cbs
           \/ /\ confChange # <<>> /\ confChange[1].index = i
              /\ confChange[1].term = log[i].term
              /\ cbs' = cbs \o With(confChange, Resp(ok))
    BY <1>9 DEF ApplyConfChange
  <2>2. Applying(i) /\ UNCHANGED <<log, commit, prop>>
    BY <1>9 DEF ApplyConfChange, ApplyFrame, raftVars
  <2>3. CASE /\ confChange # <<>> /\ confChange[1].index = i
             /\ confChange[1].term = log[i].term
             /\ cbs' = cbs \o With(confChange, Resp(ok))
    <3>1. Len(confChange) = 1 /\ DOMAIN confChange = 1 .. 1
      <4>1. Len(confChange) \in Nat /\ Len(confChange) # 0
            /\ DOMAIN confChange = 1 .. Len(confChange)
        BY <1>1, <2>3, LenProperties, EmptySeq
      <4>2. QED
        BY <1>1, <4>1
    <3>2. PICK r \in KnownProps : r = confChange[1]
      <4>1. confChange \in Seq(KnownProps) /\ 1 \in 1 .. Len(confChange)
        BY <3>1 DEF QueuesKnown
      <4>2. QED
        BY <4>1, ElementOfSeq
    <3>3. [cmd |-> r.cmd, resp |-> Resp(ok)] \in BackedCbs'
      BY <2>1, <2>2, <2>3, <3>2, MatchBacked
    <3>4. With(confChange, Resp(ok)) \in [1 .. 1 -> BackedCbs']
      BY <3>1, <3>2, <3>3 DEF With
    <3>5. With(confChange, Resp(ok)) \in Seq(BackedCbs')
      <4>1. \A n \in Nat : \A f \in [1 .. n -> BackedCbs'] : f \in Seq(BackedCbs')
        BY IsASeq
      <4>2. QED
        BY <3>4, <4>1
    <3>6. cbs \o With(confChange, Resp(ok)) \in Seq(BackedCbs')
      BY <3>5, ConcatProperties
    <3>7. QED
      BY <2>3, <3>6 DEF CbsBacked
  <2>4. QED
    BY <1>3, <2>1, <2>3
<1>10. QED
  BY <1>4, <1>5, <1>6, <1>7, <1>8, <1>9 DEF ApplyWorker, ApplyEntry

(* Answering callbacks: a new success was among the answers.                 *)
LEMMA ReplyOk ==
  ASSUME NEW S, NEW answers \in Seq(S), Reply(answers), NEW c \in Cmds,
         outcome'[c] = "ok"
  PROVE  \/ outcome[c] = "ok"
         \/ \E a \in S : a.cmd = c /\ a.resp = "ok"
<1>1. CASE Places(c, answers) = {}
  BY <1>1 DEF Reply
<1>2. CASE Places(c, answers) # {}
  <2>1. PICK i : i = CHOOSE j \in Places(c, answers) : TRUE
    OBVIOUS
  <2>2. i \in Places(c, answers)
    BY <1>2, <2>1
  <2>3. answers[i] \in S /\ answers[i].cmd = c
    BY <2>2, LenProperties, ElementOfSeq DEF Places
  <2>4. outcome'[c] = answers[i].resp
    BY <1>2, <2>1 DEF Reply
  <2>5. QED
    BY <2>3, <2>4
<1>3. QED
  BY <1>1, <1>2

(* Answers that report no success keep what was reported durable.            *)
LEMMA AckFailures ==
  ASSUME TypeInv, TypeInv', Kept, AckedDurable,
         \/ UNCHANGED cbVars
         \/ \E answers \in Seq(Failures) : Reply(answers)
  PROVE  AckedDurable'
<1>1. SUFFICES ASSUME NEW c \in Cmds, outcome'[c] = "ok"
               PROVE  CommittedAt(c)' /\ prop'[c].index \in disk'.data
  BY DEF AckedDurable
<1>2. outcome[c] = "ok"
  <2>1. CASE UNCHANGED cbVars
    BY <1>1, <2>1 DEF cbVars
  <2>2. CASE \E answers \in Seq(Failures) : Reply(answers)
    <3>1. PICK answers \in Seq(Failures) : Reply(answers)
      BY <2>2
    <3>2. ~ \E a \in Failures : a.resp = "ok"
      BY DEF Failures
    <3>3. QED
      BY <1>1, <3>1, <3>2, ReplyOk
  <2>3. QED
    BY <2>1, <2>2
<1>3. CommittedAt(c) /\ prop[c].index \in disk.data
  BY <1>2 DEF AckedDurable
<1>4. QED
  BY <1>3, BackedKept DEF Kept, DataKept

(* Answering the callbacks of the batch after it is written reports success  *)
(* for what is in the engine.                                                *)
LEMMA AckWritten ==
  ASSUME TypeInv, TypeInv', Kept, AckedDurable,
         NEW answers \in Seq(BackedCbs), Reply(answers),
         wb.data \cup disk.data \subseteq disk'.data
  PROVE  AckedDurable'
<1>1. SUFFICES ASSUME NEW c \in Cmds, outcome'[c] = "ok"
               PROVE  CommittedAt(c)' /\ prop'[c].index \in disk'.data
  BY DEF AckedDurable
<1>2. CASE outcome[c] = "ok"
  BY <1>2, BackedKept DEF AckedDurable, Kept, DataKept
<1>3. CASE \E a \in BackedCbs : a.cmd = c /\ a.resp = "ok"
  <2>1. Backed(c)
    BY <1>3 DEF BackedCbs
  <2>2. QED
    BY <2>1, BackedKept DEF Backed
<1>4. QED
  BY <1>1, <1>2, <1>3, ReplyOk

(* Success is durable after a step of the apply worker.                      *)
LEMMA ApplyWorkerAcks ==
  ASSUME TypeInv, TypeInv', Kept, CbsBacked, AckedDurable, ApplyWorker
  PROVE  AckedDurable'
<1>1. normals \in Seq(Props) /\ confChange \in Seq(Props)
  BY DEF TypeInv, TypeOK, ApplierTypeOK
<1>2. normals \o confChange \in Seq(Props)
  BY <1>1, ConcatProperties
<1>3. wb \in Wbs
  BY DEF TypeInv, TypeOK, ContextTypeOK
<1>4. ASSUME NEW s \in Seq(Props), NEW r \in {"stale", "removed"}, Reply(With(s, r))
      PROVE  AckedDurable'
  BY <1>4, FailureAnswers, AckFailures
<1>5. ASSUME NEW w, w.data = wb.data, WriteToDB(w), Reply(cbs)
      PROVE  AckedDurable'
  BY <1>5, WriteKeepsData, AckWritten DEF CbsBacked
<1>6. ASSUME WriteToDB(wb), Reply(cbs \o With(normals \o confChange, "removed"))
      PROVE  AckedDurable'
  <2>1. With(normals \o confChange, "removed") \in Seq(BackedCbs)
    BY <1>2, FailureAnswers
  <2>2. cbs \o With(normals \o confChange, "removed") \in Seq(BackedCbs)
    BY <2>1, ConcatProperties DEF CbsBacked
  <2>3. wb.data \cup disk.data \subseteq disk'.data
    BY <1>6, WriteKeepsData
  <2>4. QED
    BY <1>6, <2>2, <2>3, AckWritten
<1>7. CASE TakeBatch \/ HandleApply \/ FinishApply
  <2>1. UNCHANGED cbVars
    BY <1>7 DEF TakeBatch, HandleApply, FinishApply
  <2>2. QED
    BY <2>1, AckFailures
<1>8. CASE HandleRegistration
  BY <1>2, <1>4, <1>8 DEF HandleRegistration
<1>9. CASE HandleProposal
  <2> DEFINE p == [cmd |-> Head(batch).cmd, index |-> Head(batch).index,
                   term |-> Head(batch).term]
  <2>1. CASE Reply(WhenStopped(p))
    <3>1. Head(batch) \in Msgs /\ Head(batch).type = "proposal"
      <4>1. batch \in Seq(Msgs) /\ batch # <<>> /\ Head(batch).type = "proposal"
        BY <1>9 DEF HandleProposal, Handling, TypeInv, TypeOK, ContextTypeOK
      <4>2. QED
        BY <4>1, HeadTailProperties
    <3>2. p.cmd \in Cmds
      BY <3>1, MsgFields
    <3>3. WhenStopped(p) \in Seq(Failures)
      BY <3>2 DEF WhenStopped, Failures
    <3>4. QED
      BY <2>1, <3>3, AckFailures
  <2>2. CASE Reply(With(confChange, "stale"))
    BY <1>1, <1>4, <2>2
  <2>3. CASE UNCHANGED cbVars
    BY <2>3, AckFailures
  <2>4. QED
    BY <1>9, <2>1, <2>2, <2>3 DEF HandleProposal
<1>10. CASE HandleDestroy
  <2>1. \/ UNCHANGED cbVars
        \/ Reply(With(normals \o confChange, "removed"))
        \/ WriteToDB(wb) /\ Reply(cbs \o With(normals \o confChange, "removed"))
    BY <1>10 DEF HandleDestroy
  <2>2. QED
    BY <1>2, <1>4, <1>6, <2>1, AckFailures
<1>11. CASE FinishRemoved
  <2>1. \/ UNCHANGED cbVars
        \/ WriteToDB(wb) /\ Reply(cbs \o With(normals \o confChange, "removed"))
    BY <1>11 DEF FinishRemoved
  <2>2. QED
    BY <1>6, <2>1, AckFailures
<1>12. CASE Flush
  <2>1. UNCHANGED cbVars \/ (WriteToDB(wb) /\ Reply(cbs))
    BY <1>12 DEF Flush
  <2>2. QED
    BY <1>5, <2>1, AckFailures
<1>13. ASSUME NEW i \in 1 .. MaxIndex, CommitBefore(i)
       PROVE  AckedDurable'
  <2>1. PICK w \in {wb, WithApplyState(wb)} : WriteToDB(w) /\ Reply(cbs)
    BY <1>13 DEF CommitBefore
  <2>2. w.data = wb.data
    BY <1>3, <2>1 DEF WithApplyState, Wbs
  <2>3. QED
    BY <1>5, <2>1, <2>2
<1>14. ASSUME NEW i \in 1 .. MaxIndex, ApplyNoop(i)
       PROVE  AckedDurable'
  <2>1. UNCHANGED cbVars
    BY <1>14 DEF ApplyNoop
  <2>2. QED
    BY <2>1, AckFailures
<1>15. ASSUME NEW i \in 1 .. MaxIndex, ApplyNormal(i)
       PROVE  AckedDurable'
  <2>1. PICK n \in 0 .. Len(normals) : Reply(With(SubSeq(normals, 1, n), "stale"))
    BY <1>15 DEF ApplyNormal
  <2>2. SubSeq(normals, 1, n) \in Seq(Props)
    BY <1>1, OccSplit
  <2>3. QED
    BY <1>4, <2>1, <2>2
<1>16. ASSUME NEW i \in 1 .. MaxIndex, ApplyConfChange(i)
       PROVE  AckedDurable'
  <2>1. UNCHANGED cbVars \/ Reply(With(confChange, "stale"))
    BY <1>16 DEF ApplyConfChange
  <2>2. QED
    BY <1>1, <1>4, <2>1, AckFailures
<1>17. QED
  BY <1>7, <1>8, <1>9, <1>10, <1>11, <1>12, <1>13, <1>14, <1>15, <1>16
     DEF ApplyWorker, ApplyEntry
=============================================================================
