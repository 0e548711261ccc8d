--------------------------- MODULE CallbackProofs ---------------------------
(***************************************************************************)
(* The callbacks of the proposals of a peer are conserved: each is in one  *)
(* place until it is answered, and is answered once.  For any set of       *)
(* commands and any bounds.                                                *)
(***************************************************************************)
EXTENDS PipelineLemmas

-----------------------------------------------------------------------------
(* Conservation of the callbacks.                                            *)

(* The callbacks of c on the way to the apply worker, those it has, and all  *)
(* of them with those that were answered.                                    *)
Upstream(c) == Occ(c, applyProposals) + Occ(c, applyMsgs) + Occ(c, applyCh)
Downstream(c) == Occ(c, batch) + Occ(c, normals) + Occ(c, confChange) + Occ(c, cbs)
Total(c) == Upstream(c) + Downstream(c) + done[c]

(* What a step does to the callbacks of c, unless c is proposed in it: they  *)
(* move, and an answer is not taken back.                                    *)
Conserved(c) == Total(c)' = Total(c) /\ done'[c] >= done[c] /\ prop'[c] = prop[c]

(* Between two batches nothing of the last one is left.                      *)
IdleEmpty == ~working => batch = <<>>

(* The counts of a typed state are numbers.                                  *)
LEMMA CountTypes ==
  ASSUME TypeInv, NEW c \in Cmds
  PROVE  /\ Occ(c, applyProposals) \in Nat /\ Occ(c, applyMsgs) \in Nat
         /\ Occ(c, applyCh) \in Nat /\ Occ(c, batch) \in Nat
         /\ Occ(c, normals) \in Nat /\ Occ(c, confChange) \in Nat
         /\ Occ(c, cbs) \in Nat /\ done[c] \in Nat
<1>1. /\ applyProposals \in Seq(Props) /\ applyMsgs \in Seq(Msgs)
      /\ applyCh \in Seq(Msgs) /\ batch \in Seq(Msgs)
      /\ normals \in Seq(Props) /\ confChange \in Seq(Props)
      /\ cbs \in Seq(Answers1) /\ done \in [Cmds -> Nat]
  BY DEF TypeInv, TypeOK, PeerTypeOK, ChannelTypeOK, ApplierTypeOK, ContextTypeOK,
     HistoryTypeOK, Answers1
<1>2. QED
  BY <1>1, OccType

(* So are their sums.                                                        *)
LEMMA SumTypes ==
  ASSUME TypeInv, NEW c \in Cmds
  PROVE  /\ Upstream(c) \in Nat /\ Downstream(c) \in Nat /\ done[c] \in Nat
         /\ Held(c) = Upstream(c) + Downstream(c)
<1>1. Upstream(c) \in Nat /\ Downstream(c) \in Nat /\ done[c] \in Nat
  BY CountTypes DEF Upstream, Downstream
<1>2. Held(c) = Upstream(c) + Downstream(c)
  BY CountTypes DEF Upstream, Downstream, Held
<1>3. QED
  BY <1>1, <1>2

(* Answering a sequence of callbacks counts those of c in it.                *)
LEMMA ReplyCount ==
  ASSUME NEW c \in Cmds, NEW a, Reply(a)
  PROVE  done'[c] = done[c] + Occ(c, a)
  BY DEF Reply

(* Answering k callbacks that leave the apply worker conserves the others.   *)
LEMMA AnsweredConserves ==
  ASSUME NEW c \in Cmds, NEW k \in Nat,
         Upstream(c) \in Nat, Upstream(c)' = Upstream(c), done[c] \in Nat,
         Downstream(c)' \in Nat, Downstream(c) = k + Downstream(c)',
         done'[c] = done[c] + k, prop'[c] = prop[c]
  PROVE  Conserved(c)
<1>1. PICK u \in Nat, d \in Nat, a \in Nat :
        /\ Upstream(c) = u /\ Upstream(c)' = u /\ Downstream(c)' = d
        /\ Downstream(c) = k + d /\ done[c] = a /\ done'[c] = a + k
  OBVIOUS
<1>2. u + d + (a + k) = u + (k + d) + a /\ a + k >= a
  OBVIOUS
<1>3. QED
  BY <1>1, <1>2 DEF Conserved, Total

(* So does moving callbacks, without an answer.                              *)
LEMMA MovedConserves ==
  ASSUME NEW c \in Cmds, Upstream(c) \in Nat, Downstream(c) \in Nat,
         Upstream(c)' = Upstream(c), Downstream(c)' = Downstream(c),
         done[c] \in Nat, done'[c] = done[c], prop'[c] = prop[c]
  PROVE  Conserved(c)
  BY DEF Conserved, Total

(* The empty entry and foreign commands have no callback here.               *)
LEMMA DestroyMsgCount ==
  ASSUME TypeInv, NEW c \in Cmds
  PROVE  Occ(c, Append(applyMsgs, DestroyMsg)) = Occ(c, applyMsgs)
<1>1. DestroyMsg \in Msgs /\ DestroyMsg.cmd # c
  BY BoundsAssumption, CmdsAssumption DEF DestroyMsg, Msgs, Indexes
<1>2. applyMsgs \in Seq(Msgs) /\ Occ(c, applyMsgs) \in Nat
  BY CountTypes DEF TypeInv, TypeOK, PeerTypeOK
<1>3. Occ(c, Append(applyMsgs, DestroyMsg))
        = Occ(c, applyMsgs) + (IF DestroyMsg.cmd = c THEN 1 ELSE 0)
  BY <1>1, <1>2, OccAppend
<1>4. QED
  BY <1>1, <1>2, <1>3

(* Raft, the ticks and the region worker leave the callbacks alone.          *)
LEMMA RaftConserves ==
  ASSUME TypeInv, NEW c \in Cmds,
         Raft \/ RaftBaseTick \/ RegionWorkerApplies \/ ApplyResultAdvances
           \/ ApplyResultPanics \/ UNCHANGED vars
  PROVE  Conserved(c)
<1>1. /\ UNCHANGED <<applyProposals, applyMsgs, applyCh, batch, normals, confChange,
                     cbs, done, prop>>
  BY DEF Raft, BecomeLeader, FollowerAppend, AdvanceCommit, ReceiveSnapshot, RaftFrame,
     RaftBaseTick, RegionWorkerApplies, ApplyResultAdvances, ApplyResultPanics, vars,
     peerVars, applierVars, ctxVars, cbVars
<1>2. Upstream(c)' = Upstream(c) /\ Downstream(c)' = Downstream(c)
  BY <1>1 DEF Upstream, Downstream
<1>3. QED
  BY <1>1, <1>2, SumTypes, MovedConserves

(* So does the order to destroy the peer, and its destruction answers the    *)
(* proposals it still has.                                                   *)
LEMMA DestroyPeerConserves ==
  ASSUME TypeInv, NEW c \in Cmds, GCPeer \/ ApplyResultDestroys
  PROVE  Conserved(c)
<1>1. CASE GCPeer
  <2>1. UNCHANGED <<applyProposals, applyCh, batch, normals, confChange, cbs, done,
                    prop>>
    BY <1>1 DEF GCPeer, applierVars, ctxVars, cbVars
  <2>2. applyMsgs' = applyMsgs \/ applyMsgs' = Append(applyMsgs, DestroyMsg)
    BY <1>1 DEF GCPeer
  <2>3. Occ(c, applyMsgs') = Occ(c, applyMsgs)
    BY <2>2, DestroyMsgCount
  <2>4. Upstream(c)' = Upstream(c) /\ Downstream(c)' = Downstream(c)
    BY <2>1, <2>3 DEF Upstream, Downstream
  <2>5. QED
    BY <2>1, <2>4, SumTypes, MovedConserves
<1>2. CASE ApplyResultDestroys
  <2>1. /\ applyProposals' = <<>> /\ applyMsgs' = Append(applyMsgs, DestroyMsg)
        /\ Reply(With(applyProposals, "removed"))
    BY <1>2 DEF ApplyResultDestroys
  <2>2. Occ(c, With(applyProposals, "removed")) = Occ(c, applyProposals)
    BY OccWith DEF TypeInv, TypeOK, PeerTypeOK
  <2>3. done'[c] = done[c] + Occ(c, applyProposals)
    BY <2>1, <2>2, ReplyCount
  <2>4. Occ(c, applyProposals') = 0 /\ Occ(c, applyMsgs') = Occ(c, applyMsgs)
    BY <2>1, OccEmpty, DestroyMsgCount
  <2>5. UNCHANGED <<applyCh, batch, normals, confChange, cbs, prop>>
    BY <1>2 DEF ApplyResultDestroys, applierVars, ctxVars
  <2>6. /\ Upstream(c) = Occ(c, applyProposals) + Upstream(c)'
        /\ Upstream(c)' \in Nat
    BY <2>4, <2>5, CountTypes DEF Upstream
  <2>7. Downstream(c)' = Downstream(c)
    BY <2>5 DEF Downstream
  <2>8. QED
    BY <2>3, <2>5, <2>6, <2>7, CountTypes, SumTypes DEF Conserved, Total
<1>3. QED
  BY <1>1, <1>2

(* The end of a batch moves the callbacks into the channel.                  *)
LEMMA EndBatchConserves ==
  ASSUME TypeInv, NEW c \in Cmds, EndBatch
  PROVE  Conserved(c)
<1>1. /\ UNCHANGED <<batch, normals, confChange, cbs, done, prop>>
      /\ applyCh = <<>> /\ applyMsgs' = <<>>
  BY DEF EndBatch, EndBatchNotReady, EndBatchNoReady, EndBatchSnapshot, EndBatchEntries,
     applierVars, ctxVars, cbVars
<1>2. Occ(c, applyCh) = 0 /\ Occ(c, applyMsgs') = 0
  BY <1>1, OccEmpty
<1>3. /\ applyMsgs \in Seq(Msgs) /\ Proposals \in Seq(Msgs)
      /\ Occ(c, Proposals) = Occ(c, applyProposals)
  <2>1. applyMsgs \in Seq(Msgs) /\ applyProposals \in Seq(Props) /\ 0 \in Indexes
    BY BoundsAssumption DEF TypeInv, TypeOK, PeerTypeOK, Indexes
  <2>2. QED
    BY <2>1, ProposalsFacts, InFlightTyped
<1>4. /\ Occ(c, applyMsgs \o Proposals) = Occ(c, applyMsgs) + Occ(c, applyProposals)
      /\ applyMsgs \o Proposals \in Seq(Msgs)
  BY <1>3, OccConcat, ConcatProperties
<1>5. ASSUME NEW m \in Msgs, m.cmd = Noop
      PROVE  Occ(c, Append(applyMsgs \o Proposals, m))
               = Occ(c, applyMsgs) + Occ(c, applyProposals)
  <2>1. Occ(c, Append(applyMsgs \o Proposals, m))
          = Occ(c, applyMsgs \o Proposals) + (IF m.cmd = c THEN 1 ELSE 0)
    BY <1>4, OccAppend
  <2>2. m.cmd # c
    BY <1>5, CmdsAssumption
  <2>3. QED
    BY <1>4, <2>1, <2>2, CountTypes
<1> SUFFICES Upstream(c)' = Upstream(c)
  <2>1. Downstream(c)' = Downstream(c)
    BY <1>1 DEF Downstream
  <2>2. QED
    BY <1>1, <2>1, SumTypes DEF Conserved, Total
<1>6. CASE EndBatchNotReady
  <2>1. Occ(c, applyCh') = Occ(c, applyMsgs) /\ applyProposals' = applyProposals
    BY <1>6 DEF EndBatchNotReady
  <2>2. QED
    BY <1>2, <2>1, CountTypes DEF Upstream
<1>7. CASE /\ applyProposals' = <<>>
           /\ Occ(c, applyCh') = Occ(c, applyMsgs) + Occ(c, applyProposals)
  <2>1. Occ(c, applyProposals') = 0
    BY <1>7, OccEmpty
  <2>2. QED
    BY <1>2, <1>7, <2>1, CountTypes DEF Upstream
<1>8. CASE EndBatchNoReady
  BY <1>4, <1>7, <1>8 DEF EndBatchNoReady
<1>9. CASE EndBatchSnapshot
  <2>1. RegistrationMsg(pendingSnap) \in Msgs /\ RegistrationMsg(pendingSnap).cmd = Noop
    BY BoundsAssumption
       DEF RegistrationMsg, Msgs, Indexes, TypeInv, TypeOK, RaftTypeOK
  <2>2. QED
    BY <1>5, <1>7, <1>9, <2>1 DEF EndBatchSnapshot
<1>10. CASE EndBatchEntries
  <2>1. ASSUME LastOfReady > lastApplyingIdx
        PROVE  /\ ApplyMsg(lastApplyingIdx + 1, LastOfReady) \in Msgs
               /\ ApplyMsg(lastApplyingIdx + 1, LastOfReady).cmd = Noop
    BY <2>1, Numbers DEF ApplyMsg, Msgs, Indexes, LastOfReady
  <2>2. QED
    BY <1>4, <1>5, <1>7, <1>10, <2>1 DEF EndBatchEntries
<1>11. QED
  BY <1>6, <1>8, <1>9, <1>10 DEF EndBatch

(* The steps of the apply worker leave the raft worker's queues alone.       *)
LEMMA ApplyFrameCounts ==
  ASSUME ApplyFrame
  PROVE  UNCHANGED <<applyProposals, applyMsgs, prop>>
  BY DEF ApplyFrame, peerVars

(* Handling a message takes it out of the batch.                             *)
LEMMA HandlingCount ==
  ASSUME TypeInv, NEW c \in Cmds, NEW type, Handling(type), batch' = Tail(batch)
  PROVE  /\ Head(batch) \in Msgs /\ Head(batch).type = type
         /\ Occ(c, batch') \in Nat
         /\ Occ(c, batch) = (IF Head(batch).cmd = c THEN 1 ELSE 0) + Occ(c, batch')
         /\ type # "proposal" => Occ(c, batch) = Occ(c, batch')
<1>1. batch \in Seq(Msgs) /\ batch # <<>> /\ Head(batch).type = type
  BY DEF TypeInv, TypeOK, ContextTypeOK, Handling
<1>2. Head(batch) \in Msgs /\ Tail(batch) \in Seq(Msgs)
  BY <1>1, HeadTailProperties
<1>3. Occ(c, batch) = (IF Head(batch).cmd = c THEN 1 ELSE 0) + Occ(c, Tail(batch))
  BY <1>1, OccHeadTail
<1>4. Occ(c, Tail(batch)) \in Nat
  BY <1>2, OccType
<1>5. type # "proposal" => Head(batch).cmd # c
  BY <1>1, <1>2, MsgFields, CmdsAssumption
<1>6. QED
  BY <1>1, <1>2, <1>3, <1>4, <1>5

(* The pending commands of the applier, answered all at once.                *)
LEMMA PendingCount ==
  ASSUME TypeInv, NEW c \in Cmds, NEW r
  PROVE  /\ Occ(c, With(normals \o confChange, r))
              = Occ(c, normals) + Occ(c, confChange)
         /\ Occ(c, With(confChange, r)) = Occ(c, confChange)
<1>1. normals \in Seq(Props) /\ confChange \in Seq(Props)
  BY DEF TypeInv, TypeOK, ApplierTypeOK
<1>2. normals \o confChange \in Seq(Props)
  BY <1>1, ConcatProperties
<1>3. Occ(c, normals \o confChange) = Occ(c, normals) + Occ(c, confChange)
  BY <1>1, OccConcat
<1>4. QED
  BY <1>1, <1>2, <1>3, OccWith

(* Taking a batch, and the messages that carry no command.                   *)
LEMMA MessagesConserve ==
  ASSUME TypeInv, IdleEmpty, NEW c \in Cmds,
         TakeBatch \/ HandleRegistration \/ HandleApply
  PROVE  Conserved(c)
<1>1. UNCHANGED <<applyProposals, applyMsgs, prop>>
  BY ApplyFrameCounts DEF TakeBatch, HandleRegistration, HandleApply
<1>2. CASE TakeBatch
  <2>1. /\ batch' = applyCh /\ applyCh' = <<>>
        /\ UNCHANGED <<normals, confChange, cbs, done>>
    BY <1>2 DEF TakeBatch, applierVars, cbVars
  <2>2. batch = <<>>
    BY <1>2 DEF TakeBatch, IdleEmpty
  <2>3. Occ(c, batch) = 0 /\ Occ(c, applyCh') = 0 /\ Occ(c, batch') = Occ(c, applyCh)
    BY <2>1, <2>2, OccEmpty
  <2>4. /\ Upstream(c) = Occ(c, applyCh) + Upstream(c)' /\ Upstream(c)' \in Nat
    BY <1>1, <2>3, CountTypes DEF Upstream
  <2>5. Downstream(c)' = Occ(c, applyCh) + Downstream(c)
    BY <2>1, <2>3, CountTypes DEF Downstream
  <2>6. PICK k \in Nat, u \in Nat, w \in Nat, a \in Nat :
          /\ Upstream(c) = k + u /\ Upstream(c)' = u
          /\ Downstream(c) = w /\ Downstream(c)' = k + w /\ done[c] = a
    BY <2>4, <2>5, CountTypes, SumTypes
  <2>7. done'[c] = a /\ prop'[c] = prop[c]
    BY <1>1, <2>1, <2>6
  <2>8. QED
    BY <2>6, <2>7 DEF Conserved, Total
<1>3. CASE HandleRegistration
  <2>1. /\ normals' = <<>> /\ confChange' = <<>>
        /\ Reply(With(normals \o confChange, "stale"))
        /\ Handling("registration") /\ batch' = Tail(batch)
    BY <1>3 DEF HandleRegistration
  <2>2. done'[c] = done[c] + Occ(c, normals) + Occ(c, confChange)
    <3>1. done'[c] = done[c] + Occ(c, With(normals \o confChange, "stale"))
      BY <2>1, ReplyCount
    <3>2. QED
      BY <3>1, PendingCount, CountTypes
  <2>3. Occ(c, normals') = 0 /\ Occ(c, confChange') = 0
    BY <2>1, OccEmpty
  <2>4. Occ(c, batch') = Occ(c, batch)
    BY <2>1, HandlingCount
  <2>5. UNCHANGED <<applyCh, cbs>>
    BY <1>3 DEF HandleRegistration
  <2>6. Upstream(c)' = Upstream(c)
    BY <1>1, <2>5 DEF Upstream
  <2>7. PICK k \in Nat : k = Occ(c, normals) + Occ(c, confChange)
    BY CountTypes
  <2>8. Downstream(c) = k + Downstream(c)' /\ Downstream(c)' \in Nat
    BY <2>3, <2>4, <2>5, <2>7, CountTypes DEF Downstream
  <2>9. done'[c] = done[c] + k
    BY <2>2, <2>7, CountTypes
  <2>10. Upstream(c) \in Nat /\ done[c] \in Nat /\ prop'[c] = prop[c]
    BY <1>1, SumTypes
  <2>11. QED
    BY <2>6, <2>8, <2>9, <2>10, AnsweredConserves
<1>4. CASE HandleApply
  <2>1. Handling("apply") /\ batch' = Tail(batch)
    BY <1>4 DEF HandleApply
  <2>2. Occ(c, batch') = Occ(c, batch)
    BY <2>1, HandlingCount
  <2>3. UNCHANGED <<applyCh, normals, confChange, cbs, done>>
    BY <1>4 DEF HandleApply, applierVars, cbVars
  <2>4. Upstream(c)' = Upstream(c) /\ Downstream(c)' = Downstream(c)
    BY <1>1, <2>2, <2>3 DEF Upstream, Downstream
  <2>5. /\ Upstream(c) \in Nat /\ Downstream(c) \in Nat /\ done[c] \in Nat
        /\ done'[c] = done[c] /\ prop'[c] = prop[c]
    BY <1>1, <2>3, SumTypes
  <2>6. QED
    BY <2>4, <2>5, MovedConserves
<1>5. QED
  BY <1>2, <1>3, <1>4

(* A proposal becomes a pending command, or is answered.                     *)
LEMMA ProposalConserves ==
  ASSUME TypeInv, NEW c \in Cmds, HandleProposal
  PROVE  Conserved(c)
<1> DEFINE p == [cmd |-> Head(batch).cmd, index |-> Head(batch).index,
                 term |-> Head(batch).term]
           one == IF p.cmd = c THEN 1 ELSE 0
<1>1. /\ UNCHANGED <<applyProposals, applyMsgs, prop>>
      /\ UNCHANGED <<applyCh, cbs>>
  BY ApplyFrameCounts DEF HandleProposal
<1>2. Handling("proposal") /\ batch' = Tail(batch)
  BY DEF HandleProposal
<1>3. /\ Occ(c, batch) = one + Occ(c, batch') /\ Occ(c, batch') \in Nat
  BY <1>2, HandlingCount
<1>4. p \in Props
  <2>1. Head(batch) \in Msgs /\ Head(batch).type = "proposal"
    BY <1>2, HandlingCount
  <2>2. QED
    BY <2>1, MsgFields DEF Props
<1>5. one \in Nat
  OBVIOUS
<1> HIDE DEF one
<1>u. Upstream(c)' = Upstream(c)
  BY <1>1 DEF Upstream
<1>6. CASE Reply(WhenStopped(p)) /\ UNCHANGED <<normals, confChange>>
  <2>1. Occ(c, WhenStopped(p)) = one
    BY OccSingle DEF WhenStopped, one
  <2>2. done'[c] = done[c] + one
    BY <1>6, <2>1, ReplyCount
  <2>3. /\ Downstream(c) = one + Downstream(c)' /\ Downstream(c)' \in Nat
    BY <1>1, <1>3, <1>5, <1>6, CountTypes DEF Downstream
  <2>4. QED
    BY <1>1, <1>5, <1>u, <2>2, <2>3, SumTypes DEF Conserved, Total
<1>7. CASE /\ Reply(With(confChange, "stale"))
           /\ confChange' = <<p>> /\ UNCHANGED normals
  <2>1. done'[c] = done[c] + Occ(c, confChange)
    BY <1>7, ReplyCount, PendingCount
  <2>2. Occ(c, confChange') = one
    BY <1>7, OccSingle DEF one
  <2>3. normals' = normals
    BY <1>7
  <2>4. Downstream(c) = Occ(c, confChange) + Downstream(c)' /\ Downstream(c)' \in Nat
    BY <1>1, <1>3, <1>5, <2>2, <2>3, CountTypes DEF Downstream
  <2>5. QED
    BY <1>1, <1>u, <2>1, <2>4, CountTypes, SumTypes DEF Conserved, Total
<1>8. CASE normals' = Append(normals, p) /\ UNCHANGED <<confChange, cbVars>>
  <2>1. Occ(c, normals') = Occ(c, normals) + one
    BY <1>4, <1>8, OccAppend DEF TypeInv, TypeOK, ApplierTypeOK, one
  <2>2. UNCHANGED <<confChange, done>>
    BY <1>8 DEF cbVars
  <2>3. Downstream(c)' = Downstream(c)
    BY <1>1, <1>3, <1>5, <2>1, <2>2, CountTypes DEF Downstream
  <2>4. QED
    BY <1>1, <1>u, <2>2, <2>3, SumTypes DEF Conserved, Total
<1>9. QED
  BY <1>6, <1>7, <1>8 DEF HandleProposal

(* An empty entry turns pending commands into callbacks of the batch.        *)
LEMMA ApplyNoopConserves ==
  ASSUME TypeInv, NEW c \in Cmds, NEW i \in 1 .. MaxIndex, ApplyNoop(i)
  PROVE  Conserved(c)
<1>1. /\ UNCHANGED <<applyProposals, applyMsgs, prop>>
      /\ UNCHANGED <<applyCh, batch, confChange, done>>
  BY ApplyFrameCounts DEF ApplyNoop, cbVars
<1>2. PICK n \in 0 .. Len(normals) :
        \/ UNCHANGED <<normals, cbs>>
        \/ /\ cbs' = cbs \o StaleCbs(SubSeq(normals, 1, n))
           /\ normals' = SubSeq(normals, n + 1, Len(normals))
  BY DEF ApplyNoop
<1>3. CASE UNCHANGED <<normals, cbs>>
  <2>1. Upstream(c)' = Upstream(c) /\ Downstream(c)' = Downstream(c)
    BY <1>1, <1>3 DEF Upstream, Downstream
  <2>2. QED
    BY <1>1, <2>1, SumTypes DEF Conserved, Total
<1>4. CASE /\ cbs' = cbs \o StaleCbs(SubSeq(normals, 1, n))
           /\ normals' = SubSeq(normals, n + 1, Len(normals))
  <2> DEFINE s == SubSeq(normals, 1, n)
  <2>1. normals \in Seq(Props) /\ cbs \in Seq(Answers1)
    BY DEF TypeInv, TypeOK, ApplierTypeOK, ContextTypeOK, Answers1
  <2>2. s \in Seq(Props) /\ Occ(c, normals) = Occ(c, s) + Occ(c, normals')
    BY <1>4, <2>1, OccSplit
  <2>3. Occ(c, s) \in Nat /\ Occ(c, normals') \in Nat
    BY <1>4, <2>1, <2>2, OccType, OccSplit
  <2>4. StaleCbs(s) \in Seq(Answers1) /\ Occ(c, StaleCbs(s)) = Occ(c, s)
    BY <2>2, WithType, OccWith DEF StaleCbs, Resps
  <2>5. Occ(c, cbs') = Occ(c, cbs) + Occ(c, s)
    BY <1>4, <2>1, <2>4, OccConcat
  <2>6. PICK x \in Nat : /\ Occ(c, normals) = x + Occ(c, normals')
                         /\ Occ(c, cbs') = Occ(c, cbs) + x
    BY <2>2, <2>3, <2>5
  <2>7. Downstream(c)' = Downstream(c)
    BY <1>1, <2>3, <2>6, CountTypes DEF Downstream
  <2>8. Upstream(c)' = Upstream(c)
    BY <1>1 DEF Upstream
  <2>9. QED
    BY <1>1, <2>7, <2>8, SumTypes DEF Conserved, Total
<1>5. QED
  BY <1>2, <1>3, <1>4

(* Writing the batch answers its callbacks.                                  *)
LEMMA CommitBeforeConserves ==
  ASSUME TypeInv, NEW c \in Cmds, NEW i \in 1 .. MaxIndex, CommitBefore(i)
  PROVE  Conserved(c)
<1>1. /\ UNCHANGED <<applyProposals, applyMsgs, prop>>
      /\ UNCHANGED <<applyCh, batch, normals, confChange>>
  BY ApplyFrameCounts DEF CommitBefore, applierVars
<1>2. Reply(cbs) /\ cbs' = <<>>
  BY DEF CommitBefore, WriteToDB
<1>3. done'[c] = done[c] + Occ(c, cbs) /\ Occ(c, cbs') = 0
  BY <1>2, ReplyCount, OccEmpty
<1>4. Upstream(c)' = Upstream(c)
  BY <1>1 DEF Upstream
<1>5. Downstream(c) = Occ(c, cbs) + Downstream(c)' /\ Downstream(c)' \in Nat
  <2>1. PICK b \in Nat, n \in Nat, f \in Nat, x \in Nat :
          /\ Occ(c, batch) = b /\ Occ(c, normals) = n /\ Occ(c, confChange) = f
          /\ Occ(c, cbs) = x
    BY CountTypes
  <2>2. Downstream(c) = b + n + f + x
    BY <2>1 DEF Downstream
  <2>3. Downstream(c)' = b + n + f + 0
    BY <1>1, <1>3, <2>1 DEF Downstream
  <2>4. QED
    BY <2>1, <2>2, <2>3
<1>6. QED
  BY <1>1, <1>3, <1>4, <1>5, CountTypes, SumTypes, AnsweredConserves

(* A command that is applied becomes a callback of the batch, and those that *)
(* its entry shows to be stale are answered.                                 *)
LEMMA ApplyNormalConserves ==
  ASSUME TypeInv, NEW c \in Cmds, NEW i \in 1 .. MaxIndex, ApplyNormal(i)
  PROVE  Conserved(c)
<1>1. /\ UNCHANGED <<applyProposals, applyMsgs, prop>>
      /\ UNCHANGED <<applyCh, batch, confChange>>
  BY ApplyFrameCounts DEF ApplyNormal
<1>2. PICK ok \in BOOLEAN, n \in 0 .. Len(normals) :
      LET found == /\ n < Len(normals) /\ normals[n + 1].index = i
                   /\ normals[n + 1].term = log[i].term IN
        /\ Reply(With(SubSeq(normals, 1, n), "stale"))
        /\ cbs' = IF found
                  THEN Append(cbs, [cmd |-> normals[n + 1].cmd, resp |-> Resp(ok)])
                  ELSE cbs
        /\ normals' = SubSeq(normals, IF found THEN n + 2 ELSE n + 1, Len(normals))
  BY DEF ApplyNormal
<1> DEFINE s == SubSeq(normals, 1, n)
<1>3. normals \in Seq(Props) /\ cbs \in Seq(Answers1) /\ Len(normals) \in Nat
  BY LenProperties DEF TypeInv, TypeOK, ApplierTypeOK, ContextTypeOK, Answers1
<1>4. s \in Seq(Props) /\ Occ(c, s) \in Nat
  BY <1>3, OccSplit, OccType
<1>5. done'[c] = done[c] + Occ(c, s)
  <2>1. Occ(c, With(s, "stale")) = Occ(c, s)
    BY <1>4, OccWith
  <2>2. QED
    BY <1>2, <2>1, ReplyCount
<1>6. ASSUME Downstream(c) = Occ(c, s) + Downstream(c)', Downstream(c)' \in Nat
      PROVE  Conserved(c)
  <2>1. Upstream(c)' = Upstream(c)
    BY <1>1 DEF Upstream
  <2> HIDE DEF s
  <2>2. QED
    BY <1>1, <1>4, <1>5, <1>6, <2>1, SumTypes, AnsweredConserves
<1>7. CASE cbs' = cbs /\ normals' = SubSeq(normals, n + 1, Len(normals))
  <2>1. Occ(c, normals) = Occ(c, s) + Occ(c, normals') /\ normals' \in Seq(Props)
    BY <1>3, <1>7, OccSplit
  <2>2. Occ(c, normals') \in Nat /\ cbs' = cbs
    BY <1>7, <2>1, OccType
  <2>3. PICK x \in Nat : Occ(c, s) = x /\ Occ(c, normals) = x + Occ(c, normals')
    BY <1>4, <2>1
  <2>4. Downstream(c) = x + Downstream(c)' /\ Downstream(c)' \in Nat
    <3>1. /\ Occ(c, batch') = Occ(c, batch) /\ Occ(c, cbs') = Occ(c, cbs)
          /\ Occ(c, confChange') = Occ(c, confChange)
      BY <1>1, <2>2
    <3>2. Occ(c, normals) = x + Occ(c, normals') /\ Occ(c, normals') \in Nat
      BY <2>2, <2>3
    <3>3. /\ Occ(c, batch) \in Nat /\ Occ(c, cbs) \in Nat
          /\ Occ(c, confChange) \in Nat
      BY CountTypes
    <3>4. QED
      BY <3>1, <3>2, <3>3 DEF Downstream
  <2>5. QED
    BY <1>6, <2>3, <2>4
<1>8. CASE /\ n < Len(normals)
           /\ cbs' = Append(cbs, [cmd |-> normals[n + 1].cmd, resp |-> Resp(ok)])
           /\ normals' = SubSeq(normals, n + 2, Len(normals))
  <2> DEFINE one == IF normals[n + 1].cmd = c THEN 1 ELSE 0
             a == [cmd |-> normals[n + 1].cmd, resp |-> Resp(ok)]
  <2>1. /\ normals[n + 1] \in Props /\ normals' \in Seq(Props)
        /\ Occ(c, normals) = Occ(c, s) + one + Occ(c, normals')
    BY <1>3, <1>8, OccSplitAt
  <2>2. a \in Answers1
    BY <2>1 DEF Answers1, Resp, Resps, Props
  <2>3. Occ(c, cbs') = Occ(c, cbs) + one
    <3>1. Occ(c, Append(cbs, a)) = Occ(c, cbs) + (IF a.cmd = c THEN 1 ELSE 0)
      BY <1>3, <2>2, OccAppend
    <3>2. QED
      BY <1>8, <3>1
  <2>4. Occ(c, normals') \in Nat /\ one \in Nat
    BY <2>1, OccType
  <2>5. PICK x \in Nat, y \in Nat :
          /\ Occ(c, s) = x /\ Occ(c, normals) = x + y + Occ(c, normals')
          /\ Occ(c, cbs') = Occ(c, cbs) + y
    BY <1>4, <2>1, <2>3, <2>4
  <2>6. Downstream(c) = x + Downstream(c)' /\ Downstream(c)' \in Nat
    <3>1. /\ Occ(c, batch') = Occ(c, batch)
          /\ Occ(c, confChange') = Occ(c, confChange)
      BY <1>1
    <3>2. /\ Occ(c, normals) = x + y + Occ(c, normals')
          /\ Occ(c, cbs') = Occ(c, cbs) + y /\ Occ(c, normals') \in Nat
      BY <2>4, <2>5
    <3>3. /\ Occ(c, batch) \in Nat /\ Occ(c, cbs) \in Nat
          /\ Occ(c, confChange) \in Nat
      BY CountTypes
    <3>4. PICK b \in Nat, m \in Nat, f \in Nat, k \in Nat :
            /\ Occ(c, batch) = b /\ Occ(c, normals') = m /\ Occ(c, confChange) = f
            /\ Occ(c, cbs) = k
      BY <3>2, <3>3
    <3>5. Downstream(c) = b + (x + y + m) + f + k
      BY <3>2, <3>4 DEF Downstream
    <3>6. Downstream(c)' = b + m + f + (k + y)
      BY <3>1, <3>2, <3>4 DEF Downstream
    <3>7. QED
      BY <3>5, <3>6
  <2>7. QED
    BY <1>6, <2>5, <2>6
<1>9. QED
  BY <1>2, <1>7, <1>8

(* A configuration change that is applied becomes a callback of the batch,   *)
(* or the pending one is answered.                                           *)
LEMMA ApplyConfChangeConserves ==
  ASSUME TypeInv, NEW c \in Cmds, NEW i \in 1 .. MaxIndex, ApplyConfChange(i)
  PROVE  Conserved(c)
<1>1. /\ UNCHANGED <<applyProposals, applyMsgs, prop>>
      /\ UNCHANGED <<applyCh, batch, normals>> /\ confChange' = <<>>
  BY ApplyFrameCounts DEF ApplyConfChange
<1>2. PICK ok \in BOOLEAN :
        \/ cbs' = cbs \o With(confChange, Resp(ok)) /\ UNCHANGED cbVars
        \/ Reply(With(confChange, "stale")) /\ UNCHANGED cbs
  BY DEF ApplyConfChange
<1>3. Upstream(c)' = Upstream(c) /\ Occ(c, batch') = Occ(c, batch)
      /\ Occ(c, normals') = Occ(c, normals) /\ Occ(c, confChange') = 0
  BY <1>1, OccEmpty DEF Upstream
<1>4. /\ Occ(c, batch) \in Nat /\ Occ(c, normals) \in Nat /\ Occ(c, cbs) \in Nat
      /\ Occ(c, confChange) \in Nat /\ done[c] \in Nat
      /\ Upstream(c) \in Nat /\ Downstream(c) \in Nat
  BY CountTypes, SumTypes
<1>5. CASE cbs' = cbs \o With(confChange, Resp(ok)) /\ UNCHANGED cbVars
  <2>1. cbs \in Seq(Answers1) /\ With(confChange, Resp(ok)) \in Seq(Answers1)
    <3>1. confChange \in Seq(Props) /\ cbs \in Seq(Answers1) /\ Resp(ok) \in Resps
      BY DEF TypeInv, TypeOK, ApplierTypeOK, ContextTypeOK, Answers1, Resp, Resps
    <3>2. QED
      BY <3>1, WithType
  <2>2. Occ(c, cbs') = Occ(c, cbs) + Occ(c, With(confChange, Resp(ok)))
    BY <1>5, <2>1, OccConcat
  <2>3. Occ(c, cbs') = Occ(c, cbs) + Occ(c, confChange)
    BY <2>2, PendingCount
  <2>4. Downstream(c)' = Downstream(c)
    BY <1>3, <1>4, <2>3 DEF Downstream
  <2>5. done' = done
    BY <1>5 DEF cbVars
  <2>6. QED
    BY <1>1, <1>3, <1>4, <2>4, <2>5, MovedConserves
<1>6. CASE Reply(With(confChange, "stale")) /\ UNCHANGED cbs
  <2>1. done'[c] = done[c] + Occ(c, confChange)
    BY <1>6, ReplyCount, PendingCount
  <2>2. Downstream(c) = Occ(c, confChange) + Downstream(c)' /\ Downstream(c)' \in Nat
    BY <1>3, <1>4, <1>6 DEF Downstream
  <2>3. QED
    BY <1>1, <1>3, <1>4, <2>1, <2>2, AnsweredConserves
<1>7. QED
  BY <1>2, <1>5, <1>6

(* Answering the callbacks of the batch, all pending commands, both or none. *)
AnswersHeld ==
  \/ /\ Reply(cbs \o With(normals \o confChange, "removed"))
     /\ cbs' = <<>> /\ normals' = <<>> /\ confChange' = <<>>
  \/ /\ Reply(With(normals \o confChange, "removed"))
     /\ UNCHANGED cbs /\ normals' = <<>> /\ confChange' = <<>>
  \/ /\ Reply(cbs)
     /\ cbs' = <<>> /\ UNCHANGED <<normals, confChange>>
  \/ UNCHANGED <<cbs, normals, confChange, done>>

(* It conserves the callbacks.                                               *)
LEMMA AllAnswered ==
  ASSUME TypeInv, NEW c \in Cmds, AnswersHeld, Occ(c, batch') = Occ(c, batch),
         UNCHANGED <<applyProposals, applyMsgs, applyCh, prop>>
  PROVE  Conserved(c)
<1>1. Upstream(c)' = Upstream(c)
  BY DEF Upstream
<1>2. /\ Occ(c, batch) \in Nat /\ Occ(c, normals) \in Nat /\ Occ(c, cbs) \in Nat
      /\ Occ(c, confChange) \in Nat /\ done[c] \in Nat
      /\ Upstream(c) \in Nat /\ Downstream(c) \in Nat
  BY CountTypes, SumTypes
<1>3. Occ(c, <<>>) = 0
  BY OccEmpty
<1> PICK b \in Nat, n \in Nat, f \in Nat, x \in Nat :
      /\ Occ(c, batch) = b /\ Occ(c, normals) = n /\ Occ(c, confChange) = f
      /\ Occ(c, cbs) = x
  BY <1>2
<1>d. Downstream(c) = b + n + f + x
  BY DEF Downstream
<1>4. CASE /\ Reply(cbs \o With(normals \o confChange, "removed"))
           /\ cbs' = <<>> /\ normals' = <<>> /\ confChange' = <<>>
  <2>1. done'[c] = done[c] + Occ(c, cbs \o With(normals \o confChange, "removed"))
    BY <1>4, ReplyCount
  <2>2. Occ(c, cbs \o With(normals \o confChange, "removed"))
          = Occ(c, cbs) + Occ(c, With(normals \o confChange, "removed"))
    BY DestroyAnswers, OccConcat
  <2>3. Occ(c, With(normals \o confChange, "removed")) = n + f
    BY PendingCount
  <2>4. PICK k \in Nat : k = x + (n + f)
    OBVIOUS
  <2>5. Downstream(c)' = b + 0 + 0 + 0
    BY <1>3, <1>4 DEF Downstream
  <2>6. Downstream(c) = k + Downstream(c)' /\ Downstream(c)' \in Nat
    BY <1>d, <2>4, <2>5
  <2>7. done'[c] = done[c] + k
    BY <2>1, <2>2, <2>3, <2>4
  <2>8. Upstream(c) \in Nat /\ done[c] \in Nat
    BY <1>2
  <2>9. QED
    BY <1>1, <2>6, <2>7, <2>8, AnsweredConserves
<1>5. CASE /\ Reply(With(normals \o confChange, "removed"))
           /\ UNCHANGED cbs /\ normals' = <<>> /\ confChange' = <<>>
  <2>1. done'[c] = done[c] + Occ(c, With(normals \o confChange, "removed"))
    BY <1>5, ReplyCount
  <2>2. Occ(c, With(normals \o confChange, "removed"))
          = Occ(c, normals) + Occ(c, confChange)
    BY PendingCount
  <2>3. Downstream(c)' = b + 0 + 0 + x
    BY <1>3, <1>5 DEF Downstream
  <2>4. PICK k \in Nat : k = n + f
    OBVIOUS
  <2>5. Downstream(c) = k + Downstream(c)' /\ Downstream(c)' \in Nat
    BY <1>d, <2>3, <2>4
  <2>6. done'[c] = done[c] + k
    BY <2>1, <2>2, <2>4
  <2>7. QED
    BY <1>1, <1>2, <2>5, <2>6, AnsweredConserves
<1>6. CASE Reply(cbs) /\ cbs' = <<>> /\ UNCHANGED <<normals, confChange>>
  <2>1. done'[c] = done[c] + Occ(c, cbs)
    BY <1>6, ReplyCount
  <2>2. Downstream(c)' = b + n + f + 0
    BY <1>3, <1>6 DEF Downstream
  <2>3. Downstream(c) = x + Downstream(c)' /\ Downstream(c)' \in Nat
    BY <1>d, <2>2
  <2>4. QED
    BY <1>1, <1>2, <2>1, <2>3, AnsweredConserves
<1>7. CASE UNCHANGED <<cbs, normals, confChange, done>>
  <2>1. Downstream(c)' = Downstream(c)
    BY <1>7 DEF Downstream
  <2>2. QED
    BY <1>1, <1>2, <1>7, <2>1, MovedConserves
<1>8. QED
  BY <1>4, <1>5, <1>6, <1>7 DEF AnswersHeld

(* The ends of an Apply message and of a batch, and the destruction of the   *)
(* applier.                                                                  *)
LEMMA FinishConserves ==
  ASSUME TypeInv, NEW c \in Cmds,
         FinishApply \/ FinishRemoved \/ HandleDestroy \/ Flush
  PROVE  Conserved(c)
<1>1. UNCHANGED <<applyProposals, applyMsgs, applyCh, prop>>
  <2>1. UNCHANGED applyCh /\ ApplyFrame
    BY DEF FinishApply, FinishRemoved, HandleDestroy, Flush
  <2>2. QED
    BY <2>1, ApplyFrameCounts
<1>2. AnswersHeld
  <2>1. CASE FinishApply
    BY <2>1 DEF FinishApply, AnswersHeld, applierVars, cbVars
  <2>2. CASE FinishRemoved
    BY <2>2 DEF FinishRemoved, AnswersHeld, WriteToDB, cbVars
  <2>3. CASE HandleDestroy
    BY <2>3 DEF HandleDestroy, AnswersHeld, WriteToDB, cbVars
  <2>4. CASE Flush
    BY <2>4 DEF Flush, AnswersHeld, WriteToDB, cbVars, applierVars
  <2>5. QED
    BY <2>1, <2>2, <2>3, <2>4
<1>3. Occ(c, batch') = Occ(c, batch)
  <2>1. CASE HandleDestroy
    BY <2>1, HandlingCount DEF HandleDestroy
  <2>2. CASE FinishApply \/ FinishRemoved \/ Flush
    BY <2>2 DEF FinishApply, FinishRemoved, Flush
  <2>3. QED
    BY <2>1, <2>2
<1>4. QED
  BY <1>1, <1>2, <1>3, AllAnswered

(* The apply worker conserves the callbacks.                                 *)
LEMMA ApplyWorkerConserves ==
  ASSUME TypeInv, IdleEmpty, NEW c \in Cmds, ApplyWorker
  PROVE  Conserved(c)
<1>1. CASE ApplyEntry
  BY <1>1, ApplyNoopConserves, CommitBeforeConserves, ApplyNormalConserves,
     ApplyConfChangeConserves DEF ApplyEntry
<1>2. QED
  BY <1>1, MessagesConserve, ProposalConserves, FinishConserves DEF ApplyWorker
=============================================================================
