--------------------------- MODULE PipelineLemmas ---------------------------
(***************************************************************************)
(* The inductive type invariant of the apply pipeline, what follows from   *)
(* it, and that the raft worker keeps it, for any set of commands and any  *)
(* bounds.                                                                 *)
(***************************************************************************)
EXTENDS ApplyPipeline, OccurrencesProofs, SequenceTheorems, TLAPS

(* What is on its way between the workers speaks of indexes up to            *)
(* lastApplyingIdx only, and a snapshot that waits is ahead of it.           *)
MsgsUpTo(k) == {m \in Msgs : m.last <= k /\ (m.type # "proposal" => m.index <= k)}
ResultsUpTo(k) == {r \in Results : r.applied <= k}

InFlight ==
    /\ applyMsgs \in Seq(MsgsUpTo(lastApplyingIdx))
    /\ applyCh \in Seq(MsgsUpTo(lastApplyingIdx))
    /\ batch \in Seq(MsgsUpTo(lastApplyingIdx))
    /\ resList \in Seq(ResultsUpTo(lastApplyingIdx))
    /\ applyResCh \in Seq(ResultsUpTo(lastApplyingIdx))
    /\ ents.last <= lastApplyingIdx

SnapAhead == pendingSnap # 0 => lastApplyingIdx < pendingSnap /\ pendingSnap <= commit

TypeInv == TypeOK /\ InFlight /\ SnapAhead

-----------------------------------------------------------------------------
(* Facts about the operators.                                                *)

(* A sequence over a smaller set is one over the larger set.                 *)
LEMMA SeqsWiden ==
  ASSUME NEW S, NEW T, S \subseteq T
  PROVE  Seq(S) \subseteq Seq(T)
<1>1. SUFFICES ASSUME NEW s \in Seq(S) PROVE s \in Seq(T)
  OBVIOUS
<1>2. s \in [1 .. Len(s) -> T] /\ Len(s) \in Nat
  BY LenProperties
<1>3. QED
  BY <1>2, IsASeq

(* What was in flight below an index is in flight below any later one.       *)
LEMMA InFlightGrows ==
  ASSUME NEW k \in Indexes, NEW l \in Indexes, k <= l
  PROVE  /\ Seq(MsgsUpTo(k)) \subseteq Seq(MsgsUpTo(l))
         /\ Seq(ResultsUpTo(k)) \subseteq Seq(ResultsUpTo(l))
<1>1. MsgsUpTo(k) \subseteq MsgsUpTo(l)
  BY BoundsAssumption DEF MsgsUpTo, Msgs, Indexes
<1>2. ResultsUpTo(k) \subseteq ResultsUpTo(l)
  BY BoundsAssumption DEF ResultsUpTo, Results, Indexes
<1>3. QED
  BY <1>1, <1>2, SeqsWiden

(* What is in flight is typed.                                               *)
LEMMA InFlightTyped ==
  ASSUME NEW k
  PROVE  /\ Seq(MsgsUpTo(k)) \subseteq Seq(Msgs)
         /\ Seq(ResultsUpTo(k)) \subseteq Seq(Results)
<1>1. MsgsUpTo(k) \subseteq Msgs /\ ResultsUpTo(k) \subseteq Results
  BY DEF MsgsUpTo, ResultsUpTo
<1>2. QED
  BY <1>1, SeqsWiden

(* The proposals of a batch are messages for any index, and hold the same    *)
(* commands.                                                                 *)
LEMMA ProposalsFacts ==
  ASSUME applyProposals \in Seq(Props)
  PROVE  /\ \A k \in Indexes : Proposals \in Seq(MsgsUpTo(k))
         /\ \A c : Occ(c, Proposals) = Occ(c, applyProposals)
<1>1. /\ Len(applyProposals) \in Nat
      /\ DOMAIN applyProposals = 1 .. Len(applyProposals)
      /\ \A i \in 1 .. Len(applyProposals) : applyProposals[i] \in Props
  BY LenProperties, ElementOfSeq
<1>2. ASSUME NEW k \in Indexes
      PROVE  Proposals \in Seq(MsgsUpTo(k))
  <2>1. ASSUME NEW p \in Props
        PROVE  ProposalMsg(p) \in MsgsUpTo(k)
    BY BoundsAssumption DEF ProposalMsg, Props, MsgsUpTo, Msgs, Indexes
  <2>2. Proposals \in [1 .. Len(applyProposals) -> MsgsUpTo(k)]
    BY <1>1, <2>1 DEF Proposals
  <2>3. QED
    BY <1>1, <2>2, IsASeq
<1>3. ASSUME NEW c
      PROVE  Occ(c, Proposals) = Occ(c, applyProposals)
  <2>1. Places(c, Proposals) = Places(c, applyProposals)
    BY DEF Places, Proposals, ProposalMsg
  <2>2. QED
    BY <2>1 DEF Occ
<1>4. QED
  BY <1>2, <1>3

Answers1 == [cmd : Cmds, resp : Resps]

(* With makes answers of proposals.                                          *)
LEMMA WithType ==
  ASSUME NEW s \in Seq(Props), NEW r \in Resps
  PROVE  With(s, r) \in Seq(Answers1)
<1>1. /\ Len(s) \in Nat /\ DOMAIN s = 1 .. Len(s)
      /\ \A i \in 1 .. Len(s) : s[i] \in Props
  BY LenProperties, ElementOfSeq
<1>2. With(s, r) \in [1 .. Len(s) -> Answers1]
  BY <1>1 DEF With, Props, Answers1
<1>3. QED
  BY <1>1, <1>2, IsASeq

(* Answering callbacks counts them and sets outcomes, which are answers.     *)
LEMMA ReplyType ==
  ASSUME NEW answers \in Seq([cmd : Cmds, resp : Resps \cup {"refused"}]),
         HistoryTypeOK, Reply(answers), UNCHANGED prop
  PROVE  HistoryTypeOK'
<1> DEFINE R == [cmd : Cmds, resp : Resps \cup {"refused"}]
<1>1. /\ DOMAIN answers = 1 .. Len(answers)
      /\ \A i \in 1 .. Len(answers) : answers[i].resp \in Resps \cup {"refused"}
  <2>1. \A i \in 1 .. Len(answers) : answers[i] \in R
    BY ElementOfSeq
  <2>2. QED
    BY <2>1, LenProperties
<1>2. \A c \in Cmds : Occ(c, answers) \in Nat
  BY OccType
<1>3. ASSUME NEW c \in Cmds, Places(c, answers) # {}
      PROVE  answers[CHOOSE i \in Places(c, answers) : TRUE].resp
                \in Resps \cup {"refused"}
  <2>1. (CHOOSE i \in Places(c, answers) : TRUE) \in Places(c, answers)
    BY <1>3
  <2>2. Places(c, answers) \subseteq 1 .. Len(answers)
    BY <1>1 DEF Places
  <2>3. QED
    BY <1>1, <2>1, <2>2
<1>4. done' \in [Cmds -> Nat]
  BY <1>2 DEF Reply, HistoryTypeOK
<1>5. outcome' \in [Cmds -> Resps \cup {"none", "refused"}]
  BY <1>3 DEF Reply, HistoryTypeOK
<1>6. QED
  BY <1>4, <1>5 DEF HistoryTypeOK

-----------------------------------------------------------------------------
(* Types.                                                                    *)

(* Raft keeps the types: it only touches its own state.                      *)
LEMMA RaftKeepsTypes ==
  ASSUME TypeInv, Raft
  PROVE  TypeInv'
<1> USE BoundsAssumption
<1>1. RaftFrame
  BY DEF Raft, BecomeLeader, FollowerAppend, AdvanceCommit, ReceiveSnapshot
<1>2. /\ PeerTypeOK' /\ ChannelTypeOK' /\ ApplierTypeOK' /\ ContextTypeOK'
      /\ HistoryTypeOK' /\ InFlight'
  BY <1>1 DEF TypeInv, TypeOK, PeerTypeOK, ChannelTypeOK, ApplierTypeOK,
       ContextTypeOK, HistoryTypeOK, InFlight, RaftFrame, applierVars, ctxVars, cbVars
<1>3. UNCHANGED <<lastApplyingIdx, storeApplied, appliedIndex>>
  BY <1>1 DEF RaftFrame, applierVars
<1>4. /\ lastApplyingIdx \in Nat /\ commit \in Nat /\ MaxIndex \in Nat
      /\ Len(log) \in Nat /\ term \in Nat
  BY LenProperties DEF TypeInv, TypeOK, RaftTypeOK, PeerTypeOK, Indexes
<1>5. RaftTypeOK' /\ commit <= commit' /\ SnapAhead'
  <2>1. CASE BecomeLeader
    <3>1. Entry(term + 1, Noop) \in Entries
      BY <1>4 DEF Entry, Entries
    <3>2. log' \in Seq(Entries) /\ Len(log') = Len(log) + 1
      BY <2>1, <3>1, AppendProperties DEF BecomeLeader, TypeInv, TypeOK, RaftTypeOK
    <3>3. QED
      BY <1>3, <1>4, <2>1, <3>2
         DEF BecomeLeader, TypeInv, TypeOK, RaftTypeOK, SnapAhead, Indexes
  <2>2. CASE FollowerAppend
    <3>1. PICK t \in term .. MaxTerm, h \in oldLogs \cup {log} :
          \E m \in 0 .. Len(h) :
          \E new \in {SubSeq(h, 1, m)} \cup
                     {Append(SubSeq(h, 1, m), Entry(t, c)) : c \in ForeignCmds} :
            /\ commit <= Len(new) /\ Len(new) <= MaxIndex
            /\ log' = new
            /\ term' = t
      BY <2>2 DEF FollowerAppend
    <3>2. PICK m \in 0 .. Len(h) :
          \E new \in {SubSeq(h, 1, m)} \cup
                     {Append(SubSeq(h, 1, m), Entry(t, c)) : c \in ForeignCmds} :
            /\ commit <= Len(new) /\ Len(new) <= MaxIndex
            /\ log' = new
      BY <3>1
    <3>3. h \in Seq(Entries) /\ t \in Nat
      BY <1>4 DEF TypeInv, TypeOK, RaftTypeOK
    <3>4. SubSeq(h, 1, m) \in Seq(Entries)
      BY <3>3, OccSplit
    <3>5. ASSUME NEW c \in ForeignCmds
          PROVE  Append(SubSeq(h, 1, m), Entry(t, c)) \in Seq(Entries)
      <4>1. Entry(t, c) \in Entries
        BY <3>3 DEF Entry, Entries
      <4>2. QED
        BY <3>4, <4>1, AppendProperties
    <3>6. log' \in Seq(Entries) /\ commit <= Len(log') /\ Len(log') <= MaxIndex
      BY <3>2, <3>4, <3>5
    <3>7. term' \in Nat
      BY <3>1, <3>3
    <3>8. /\ leader' = FALSE /\ oldLogs' \subseteq oldLogs \cup {log}
          /\ UNCHANGED <<commit, pendingConfIndex, pendingSnap>>
      BY <2>2 DEF FollowerAppend
    <3>9. oldLogs' \subseteq Seq(Entries)
      BY <3>8 DEF TypeInv, TypeOK, RaftTypeOK
    <3>10. leader' \in BOOLEAN
      BY <3>8
    <3>11. QED
      BY <1>3, <1>4, <3>6, <3>7, <3>8, <3>9, <3>10
         DEF TypeInv, TypeOK, RaftTypeOK, SnapAhead, Indexes
  <2>3. CASE AdvanceCommit
    BY <1>3, <1>4, <2>3
       DEF AdvanceCommit, TypeInv, TypeOK, RaftTypeOK, SnapAhead, Indexes
  <2>4. CASE ReceiveSnapshot
    <3>1. PICK s \in SnapIndexes :
          /\ s > commit
          /\ log' = [i \in 1 .. s |-> IF i <= commit THEN log[i]
                                                   ELSE Entry(term, Foreign)]
          /\ commit' = s
          /\ pendingSnap' = s
      BY <2>4 DEF ReceiveSnapshot
    <3>2. s \in Nat /\ s <= MaxIndex
      BY <1>4
    <3>3. ASSUME NEW i \in 1 .. s
          PROVE  (IF i <= commit THEN log[i] ELSE Entry(term, Foreign)) \in Entries
      <4>1. i <= commit => log[i] \in Entries
        BY <1>4, <3>2, ElementOfSeq DEF TypeInv, TypeOK, RaftTypeOK
      <4>2. Entry(term, Foreign) \in Entries
        BY <1>4 DEF Entry, Entries
      <4>3. QED
        BY <4>1, <4>2
    <3>4. log' \in [1 .. s -> Entries]
      BY <3>1, <3>3
    <3>5. log' \in Seq(Entries) /\ Len(log') = s
      BY <3>2, <3>4, IsASeq, LenProperties
    <3>6. QED
      BY <1>3, <1>4, <2>4, <3>1, <3>2, <3>5
         DEF ReceiveSnapshot, TypeInv, TypeOK, RaftTypeOK, SnapAhead, Indexes
  <2>5. QED
    BY <2>1, <2>2, <2>3, <2>4 DEF Raft
<1>6. lastApplyingIdx' <= commit'
  BY <1>3, <1>4, <1>5 DEF TypeInv, TypeOK, RaftTypeOK, Indexes
<1>7. QED
  BY <1>2, <1>3, <1>5, <1>6 DEF TypeInv, TypeOK

(* The numbers of a typed state, for arithmetic.                             *)
LEMMA Numbers ==
  ASSUME TypeInv
  PROVE  /\ lastApplyingIdx \in Nat /\ commit \in Nat /\ MaxIndex \in Nat
         /\ Len(log) \in Nat /\ term \in Nat /\ pendingSnap \in Nat
         /\ storeApplied \in Nat /\ appliedIndex \in Nat
         /\ Len(log) <= MaxIndex /\ commit <= Len(log)
         /\ lastApplyingIdx <= commit /\ storeApplied <= lastApplyingIdx
         /\ appliedIndex <= lastApplyingIdx
  BY BoundsAssumption, LenProperties
     DEF TypeInv, TypeOK, RaftTypeOK, PeerTypeOK, ApplierTypeOK, Indexes

(* State that a step leaves alone keeps its type.                            *)
LEMMA StutterTypes ==
  /\ RaftTypeOK /\ UNCHANGED raftVars => RaftTypeOK'
  /\ ApplierTypeOK /\ UNCHANGED applierVars => ApplierTypeOK'
  /\ ContextTypeOK /\ UNCHANGED <<ctxVars, disk>> => ContextTypeOK'
  /\ HistoryTypeOK /\ UNCHANGED <<prop, cbVars>> => HistoryTypeOK'
<1>1. RaftTypeOK /\ UNCHANGED raftVars => RaftTypeOK'
  BY DEF RaftTypeOK, raftVars
<1>2. ApplierTypeOK /\ UNCHANGED applierVars => ApplierTypeOK'
  BY DEF ApplierTypeOK, applierVars
<1>3. ContextTypeOK /\ UNCHANGED <<ctxVars, disk>> => ContextTypeOK'
  BY DEF ContextTypeOK, ctxVars
<1>4. HistoryTypeOK /\ UNCHANGED <<prop, cbVars>> => HistoryTypeOK'
  BY DEF HistoryTypeOK, cbVars
<1>5. QED
  BY <1>1, <1>2, <1>3, <1>4

(* A proposal and the entry it becomes are typed.                            *)
LEMMA ProposalTypes ==
  ASSUME NEW c \in Cmds, NEW t \in Nat, NEW i \in Indexes
  PROVE  Entry(t, c) \in Entries /\ [cmd |-> c, index |-> i, term |-> t] \in Props
  BY DEF Entry, Entries, Props

(* The messages and ticks the raft worker handles keep the types.            *)
LEMMA RaftWorkerKeepsTypes ==
  ASSUME TypeInv,
         \/ \E c \in Cmds : ProposeAccepted(c) \/ ProposeRefused(c)
         \/ GCPeer \/ RaftBaseTick \/ ApplyResult \/ RegionWorkerApplies
  PROVE  TypeInv'
<1> USE Numbers
<1>1. ASSUME NEW c \in Cmds, ProposeAccepted(c)
      PROVE  TypeInv'
  <2> DEFINE p == [cmd |-> c, index |-> Len(log) + 1, term |-> term]
  <2>1. Entry(term, c) \in Entries /\ p \in Props /\ Len(log) + 1 \in Indexes
    <3>1. Len(log) + 1 <= MaxIndex
      BY <1>1 DEF ProposeAccepted
    <3>2. Len(log) + 1 \in Indexes
      BY <3>1 DEF Indexes
    <3>3. QED
      BY <3>2, ProposalTypes
  <2>2. log' \in Seq(Entries) /\ Len(log') = Len(log) + 1
    BY <1>1, <2>1, AppendProperties DEF ProposeAccepted, TypeInv, TypeOK, RaftTypeOK
  <2>3. RaftTypeOK'
    BY <1>1, <2>1, <2>2 DEF ProposeAccepted, TypeInv, TypeOK, RaftTypeOK, Indexes
  <2>4. applyProposals' \in Seq(Props)
    BY <1>1, <2>1, AppendProperties DEF ProposeAccepted, TypeInv, TypeOK, PeerTypeOK
  <2>5. PeerTypeOK'
    BY <1>1, <2>4 DEF ProposeAccepted, TypeInv, TypeOK, PeerTypeOK
  <2>6. HistoryTypeOK'
    BY <1>1, <2>1 DEF ProposeAccepted, TypeInv, TypeOK, HistoryTypeOK, cbVars
  <2>7. QED
    BY <1>1, <2>3, <2>5, <2>6
       DEF ProposeAccepted, TypeInv, TypeOK, ChannelTypeOK, ApplierTypeOK,
           ContextTypeOK, InFlight, SnapAhead, applierVars, ctxVars
<1>2. ASSUME NEW c \in Cmds, ProposeRefused(c)
      PROVE  TypeInv'
  <2> DEFINE a == <<[cmd |-> c, resp |-> "refused"]>>
  <2>1. a \in Seq([cmd : Cmds, resp : Resps \cup {"refused"}])
    OBVIOUS
  <2>2. HistoryTypeOK /\ Reply(a) /\ UNCHANGED prop
    <3>1. Reply(a) /\ UNCHANGED prop
      BY <1>2 DEF ProposeRefused
    <3>2. QED
      BY <3>1 DEF TypeInv, TypeOK
  <2>3. HistoryTypeOK'
    BY <2>1, <2>2, ReplyType
  <2>4. QED
    BY <1>2, <2>3
       DEF ProposeRefused, TypeInv, TypeOK, RaftTypeOK, PeerTypeOK, ChannelTypeOK,
           ApplierTypeOK, ContextTypeOK, InFlight, SnapAhead, raftVars, peerVars,
           applierVars, ctxVars
<1>3. DestroyMsg \in MsgsUpTo(lastApplyingIdx)
  BY DEF DestroyMsg, MsgsUpTo, Msgs, Indexes
<1>4. /\ Append(applyMsgs, DestroyMsg) \in Seq(MsgsUpTo(lastApplyingIdx))
      /\ Append(applyMsgs, DestroyMsg) \in Seq(Msgs)
  BY <1>3, AppendProperties, InFlightTyped DEF TypeInv, InFlight
<1>5. CASE GCPeer
  <2>1. /\ applyMsgs' \in Seq(MsgsUpTo(lastApplyingIdx)) /\ applyMsgs' \in Seq(Msgs)
    BY <1>4, <1>5 DEF GCPeer, TypeInv, TypeOK, PeerTypeOK, InFlight
  <2>2. /\ RaftTypeOK' /\ ApplierTypeOK' /\ ContextTypeOK' /\ HistoryTypeOK'
    BY <1>5, StutterTypes DEF GCPeer, TypeInv, TypeOK
  <2>3. PeerTypeOK'
    BY <1>5, <2>1 DEF GCPeer, TypeInv, TypeOK, PeerTypeOK
  <2>4. QED
    BY <1>5, <2>1, <2>2, <2>3
       DEF GCPeer, TypeInv, TypeOK, ChannelTypeOK, InFlight, SnapAhead,
           raftVars, applierVars, ctxVars
<1>6. CASE RaftBaseTick
  <2>1. /\ RaftTypeOK' /\ ApplierTypeOK' /\ ContextTypeOK' /\ HistoryTypeOK'
    BY <1>6, StutterTypes DEF RaftBaseTick, TypeInv, TypeOK
  <2>2. PeerTypeOK'
    BY <1>6 DEF RaftBaseTick, TypeInv, TypeOK, PeerTypeOK
  <2>3. QED
    BY <1>6, <2>1, <2>2
       DEF RaftBaseTick, TypeInv, TypeOK, ChannelTypeOK, InFlight, SnapAhead,
           raftVars, applierVars, ctxVars
<1>7. CASE RegionWorkerApplies
  <2>1. /\ RaftTypeOK' /\ ApplierTypeOK' /\ ContextTypeOK' /\ HistoryTypeOK'
    BY <1>7, StutterTypes DEF RegionWorkerApplies, TypeInv, TypeOK
  <2>2. PeerTypeOK'
    BY <1>7 DEF RegionWorkerApplies, TypeInv, TypeOK, PeerTypeOK
  <2>3. QED
    BY <1>7, <2>1, <2>2
       DEF RegionWorkerApplies, TypeInv, TypeOK, ChannelTypeOK, InFlight, SnapAhead,
           raftVars, applierVars, ctxVars
<1>8. ASSUME applyResCh # <<>>
      PROVE  /\ Head(applyResCh) \in ResultsUpTo(lastApplyingIdx)
             /\ Tail(applyResCh) \in Seq(ResultsUpTo(lastApplyingIdx))
             /\ Tail(applyResCh) \in Seq(Results)
  BY <1>8, HeadTailProperties, InFlightTyped DEF TypeInv, InFlight
<1>9. CASE ApplyResultDestroys
  <2>1. With(applyProposals, "removed")
          \in Seq([cmd : Cmds, resp : Resps \cup {"refused"}])
    <3>1. "removed" \in Resps
      BY DEF Resps
    <3>2. Answers1 \subseteq [cmd : Cmds, resp : Resps \cup {"refused"}]
      BY DEF Answers1
    <3>3. With(applyProposals, "removed") \in Seq(Answers1)
      BY <3>1, WithType DEF TypeInv, TypeOK, PeerTypeOK
    <3>4. PICK T : T = [cmd : Cmds, resp : Resps \cup {"refused"}]
      OBVIOUS
    <3>5. Seq(Answers1) \subseteq Seq(T)
      BY <3>2, <3>4, SeqsWiden
    <3>6. QED
      BY <3>3, <3>4, <3>5
  <2>2. /\ HistoryTypeOK /\ Reply(With(applyProposals, "removed"))
        /\ UNCHANGED prop
    BY <1>9 DEF ApplyResultDestroys, TypeInv, TypeOK
  <2>3. HistoryTypeOK'
    BY <2>1, <2>2, ReplyType
  <2>4. applyResCh' \in Seq(ResultsUpTo(lastApplyingIdx)) /\ applyResCh' \in Seq(Results)
    BY <1>8, <1>9 DEF ApplyResultDestroys
  <2>5. QED
    BY <1>4, <1>9, <2>3, <2>4
       DEF ApplyResultDestroys, TypeInv, TypeOK, RaftTypeOK, PeerTypeOK,
           ChannelTypeOK, ApplierTypeOK, ContextTypeOK, InFlight, SnapAhead,
           raftVars, applierVars, ctxVars
<1>10. CASE ApplyResultAdvances
  <2>1. storeApplied' \in Indexes /\ storeApplied' <= lastApplyingIdx
    BY <1>8, <1>10 DEF ApplyResultAdvances, ResultsUpTo, Results
  <2>2. applyResCh' \in Seq(ResultsUpTo(lastApplyingIdx)) /\ applyResCh' \in Seq(Results)
    BY <1>8, <1>10 DEF ApplyResultAdvances
  <2>3. hasReady' \in BOOLEAN
    BY <1>10 DEF ApplyResultAdvances
  <2>4. QED
    BY <1>10, <2>1, <2>2, <2>3
       DEF ApplyResultAdvances, TypeInv, TypeOK, RaftTypeOK, PeerTypeOK,
           ChannelTypeOK, ApplierTypeOK, ContextTypeOK, HistoryTypeOK, InFlight,
           SnapAhead, raftVars, applierVars, ctxVars, cbVars
<1>11. CASE ApplyResultPanics
  <2>1. /\ RaftTypeOK' /\ ApplierTypeOK' /\ ContextTypeOK' /\ HistoryTypeOK'
    BY <1>11, StutterTypes DEF ApplyResultPanics, TypeInv, TypeOK
  <2>2. PeerTypeOK'
    BY <1>11 DEF ApplyResultPanics, TypeInv, TypeOK, PeerTypeOK, peerVars
  <2>3. QED
    BY <1>11, <2>1, <2>2
       DEF ApplyResultPanics, TypeInv, TypeOK, ChannelTypeOK, InFlight, SnapAhead,
           raftVars, applierVars, ctxVars, peerVars
<1>12. QED
  BY <1>1, <1>2, <1>5, <1>6, <1>7, <1>9, <1>10, <1>11 DEF ApplyResult

(* The batch that is sent: the collected messages and the proposals.         *)
LEMMA SentBatch ==
  ASSUME TypeInv, NEW k \in Indexes, lastApplyingIdx <= k
  PROVE  applyMsgs \o Proposals \in Seq(MsgsUpTo(k))
<1>1. lastApplyingIdx \in Indexes /\ applyProposals \in Seq(Props)
  BY DEF TypeInv, TypeOK, PeerTypeOK
<1>2. applyMsgs \in Seq(MsgsUpTo(k))
  BY <1>1, InFlightGrows DEF TypeInv, InFlight
<1>3. Proposals \in Seq(MsgsUpTo(k))
  BY <1>1, ProposalsFacts
<1>4. QED
  BY <1>2, <1>3, ConcatProperties

(* Sending a batch to the apply worker keeps the types.                      *)
LEMMA EndBatchKeepsTypes ==
  ASSUME TypeInv, EndBatch
  PROVE  TypeInv'
<1> USE Numbers
<1>1. lastApplyingIdx \in Indexes /\ commit \in Indexes
  BY DEF TypeInv, TypeOK, PeerTypeOK, RaftTypeOK
<1>2. \A S : <<>> \in Seq(S)
  OBVIOUS
<1>3. CASE EndBatchNotReady
  <2>1. /\ RaftTypeOK' /\ ApplierTypeOK' /\ ContextTypeOK' /\ HistoryTypeOK'
    BY <1>3, StutterTypes DEF EndBatchNotReady, TypeInv, TypeOK
  <2>2. PeerTypeOK' /\ ChannelTypeOK'
    BY <1>2, <1>3 DEF EndBatchNotReady, TypeInv, TypeOK, PeerTypeOK, ChannelTypeOK
  <2>3. InFlight'
    BY <1>2, <1>3 DEF EndBatchNotReady, TypeInv, InFlight, ctxVars
  <2>4. QED
    BY <1>3, <2>1, <2>2, <2>3
       DEF EndBatchNotReady, TypeInv, TypeOK, SnapAhead, raftVars, applierVars
<1>4. CASE EndBatchNoReady
  <2>1. /\ RaftTypeOK' /\ ApplierTypeOK' /\ ContextTypeOK' /\ HistoryTypeOK'
    BY <1>4, StutterTypes DEF EndBatchNoReady, TypeInv, TypeOK
  <2>2. applyCh' \in Seq(MsgsUpTo(lastApplyingIdx)) /\ applyCh' \in Seq(Msgs)
    BY <1>1, <1>4, SentBatch, InFlightTyped DEF EndBatchNoReady
  <2>3. PeerTypeOK' /\ ChannelTypeOK'
    BY <1>2, <1>4, <2>2 DEF EndBatchNoReady, TypeInv, TypeOK, PeerTypeOK, ChannelTypeOK
  <2>4. InFlight'
    BY <1>2, <1>4, <2>2 DEF EndBatchNoReady, TypeInv, InFlight, ctxVars
  <2>5. QED
    BY <1>4, <2>1, <2>3, <2>4
       DEF EndBatchNoReady, TypeInv, TypeOK, SnapAhead, raftVars, applierVars
<1>5. CASE EndBatchSnapshot
  <2>1. /\ pendingSnap \in Indexes /\ pendingSnap <= commit
        /\ lastApplyingIdx <= pendingSnap
    BY <1>5 DEF EndBatchSnapshot, TypeInv, TypeOK, RaftTypeOK, SnapAhead
  <2>2. RegistrationMsg(pendingSnap) \in MsgsUpTo(pendingSnap)
    BY <2>1 DEF RegistrationMsg, MsgsUpTo, Msgs, Indexes
  <2>3. applyCh' \in Seq(MsgsUpTo(pendingSnap)) /\ applyCh' \in Seq(Msgs)
    <3>1. applyMsgs \o Proposals \in Seq(MsgsUpTo(pendingSnap))
      BY <2>1, SentBatch
    <3>2. Append(applyMsgs \o Proposals, RegistrationMsg(pendingSnap))
            \in Seq(MsgsUpTo(pendingSnap))
      BY <2>2, <3>1, AppendProperties
    <3>3. QED
      BY <1>5, <3>2, InFlightTyped DEF EndBatchSnapshot
  <2>4. RaftTypeOK'
    BY <1>5 DEF EndBatchSnapshot, TypeInv, TypeOK, RaftTypeOK, Indexes
  <2>5. ApplierTypeOK' /\ HistoryTypeOK'
    BY <1>5, StutterTypes DEF EndBatchSnapshot, TypeInv, TypeOK
  <2>6. ContextTypeOK'
    BY <1>5, <2>1 DEF EndBatchSnapshot, TypeInv, TypeOK, ContextTypeOK, ctxVars, Wbs
  <2>7. PeerTypeOK' /\ ChannelTypeOK'
    BY <1>2, <1>5, <2>1, <2>3
       DEF EndBatchSnapshot, TypeInv, TypeOK, PeerTypeOK, ChannelTypeOK
  <2>8. InFlight'
    <3>1. /\ Seq(MsgsUpTo(lastApplyingIdx)) \subseteq Seq(MsgsUpTo(pendingSnap))
          /\ Seq(ResultsUpTo(lastApplyingIdx)) \subseteq Seq(ResultsUpTo(pendingSnap))
      BY <1>1, <2>1, InFlightGrows
    <3>2. ents.last \in Nat /\ ents' = ents
      BY <1>5 DEF TypeInv, TypeOK, ContextTypeOK, Indexes, EndBatchSnapshot, ctxVars
    <3>3. QED
      BY <1>2, <1>5, <2>1, <2>3, <3>1, <3>2
         DEF EndBatchSnapshot, TypeInv, InFlight, ctxVars
  <2>9. QED
    BY <1>5, <2>1, <2>4, <2>5, <2>6, <2>7, <2>8
       DEF EndBatchSnapshot, TypeInv, TypeOK, SnapAhead, applierVars
<1>6. CASE EndBatchEntries
  <2>1. /\ RaftTypeOK' /\ ApplierTypeOK' /\ ContextTypeOK' /\ HistoryTypeOK'
    BY <1>6, StutterTypes DEF EndBatchEntries, TypeInv, TypeOK
  <2>2. /\ lastApplyingIdx' \in Indexes /\ lastApplyingIdx <= lastApplyingIdx'
        /\ lastApplyingIdx' <= commit
    BY <1>1, <1>6 DEF EndBatchEntries, LastOfReady, Indexes
  <2>3. applyCh' \in Seq(MsgsUpTo(lastApplyingIdx')) /\ applyCh' \in Seq(Msgs)
    <3>1. applyMsgs \o Proposals \in Seq(MsgsUpTo(lastApplyingIdx'))
      BY <2>2, SentBatch
    <3>2. ASSUME LastOfReady > lastApplyingIdx, lastApplyingIdx' = LastOfReady
          PROVE  Append(applyMsgs \o Proposals,
                        ApplyMsg(lastApplyingIdx + 1, LastOfReady))
                   \in Seq(MsgsUpTo(lastApplyingIdx'))
      <4>1. ApplyMsg(lastApplyingIdx + 1, LastOfReady) \in MsgsUpTo(lastApplyingIdx')
        BY <1>1, <2>2, <3>2 DEF ApplyMsg, MsgsUpTo, Msgs, Indexes, LastOfReady
      <4>2. QED
        BY <3>1, <4>1, AppendProperties
    <3>3. applyCh' \in Seq(MsgsUpTo(lastApplyingIdx'))
      BY <1>6, <3>1, <3>2 DEF EndBatchEntries
    <3>4. QED
      BY <3>3, InFlightTyped
  <2>4. PeerTypeOK' /\ ChannelTypeOK'
    BY <1>2, <1>6, <2>2, <2>3
       DEF EndBatchEntries, TypeInv, TypeOK, PeerTypeOK, ChannelTypeOK
  <2>5. InFlight'
    <3>1. /\ Seq(MsgsUpTo(lastApplyingIdx)) \subseteq Seq(MsgsUpTo(lastApplyingIdx'))
          /\ Seq(ResultsUpTo(lastApplyingIdx)) \subseteq Seq(ResultsUpTo(lastApplyingIdx'))
      BY <1>1, <2>2, InFlightGrows
    <3>2. ents.last \in Nat /\ ents' = ents /\ lastApplyingIdx' \in Nat
      <4>1. ents.last \in Nat
        BY DEF TypeInv, TypeOK, ContextTypeOK, Indexes
      <4>2. ents' = ents
        BY <1>6 DEF EndBatchEntries, ctxVars
      <4>3. QED
        BY <2>2, <4>1, <4>2 DEF Indexes
    <3>3. /\ UNCHANGED <<batch, resList, applyResCh>> /\ applyMsgs' = <<>>
      BY <1>6 DEF EndBatchEntries, ctxVars
    <3>4. QED
      BY <1>2, <2>2, <2>3, <3>1, <3>2, <3>3 DEF TypeInv, InFlight
  <2>6. QED
    BY <1>6, <2>1, <2>2, <2>4, <2>5
       DEF EndBatchEntries, TypeInv, TypeOK, SnapAhead, raftVars, applierVars, Indexes
<1>7. QED
  BY <1>3, <1>4, <1>5, <1>6 DEF EndBatch

-----------------------------------------------------------------------------
(* What the proofs about the apply worker share.                             *)

(* The fields of a message: only proposals carry a command.                  *)
LEMMA MsgFields ==
  ASSUME NEW m \in Msgs
  PROVE  /\ m.index \in Indexes /\ m.last \in Indexes
         /\ m.type = "proposal" => m.cmd \in Cmds /\ m.term \in Nat
         /\ m.type # "proposal" => m.cmd = Noop
<1> 0 \in Indexes
  BY BoundsAssumption DEF Indexes
<1>1. CASE m \in [type : {"proposal"}, cmd : Cmds, index : Indexes, term : Nat,
                  last : {0}]
  BY <1>1
<1>2. CASE m \in [type : {"apply", "destroy", "registration"}, cmd : {Noop},
                  index : Indexes, term : {0}, last : Indexes]
  BY <1>2
<1>3. QED
  BY <1>1, <1>2 DEF Msgs

EntsType == [next : 0 .. MaxIndex + 1, last : Indexes, from : Indexes,
             written : BOOLEAN, aborted : BOOLEAN]

(* The entry that is applied is one that was handed over.                    *)
LEMMA ApplyingFacts ==
  ASSUME TypeInv, NEW i \in 1 .. MaxIndex, Applying(i)
  PROVE  /\ i \in Indexes /\ i <= lastApplyingIdx /\ i \in 1 .. Len(log)
         /\ i + 1 \in 0 .. MaxIndex + 1 /\ log[i] \in Entries
         /\ ents \in EntsType
<1> USE Numbers
<1>1. ents \in EntsType /\ ents.last <= lastApplyingIdx
  BY DEF TypeInv, TypeOK, ContextTypeOK, InFlight, EntsType
<1>2. i <= ents.last /\ ents.last \in Nat
  BY <1>1 DEF Applying, EntsType, Indexes
<1>3. i <= lastApplyingIdx
  BY <1>1, <1>2
<1>4. i \in 1 .. Len(log)
  BY <1>3
<1>5. log[i] \in Entries
  BY <1>4, ElementOfSeq DEF TypeInv, TypeOK, RaftTypeOK
<1>6. QED
  BY <1>1, <1>3, <1>4, <1>5 DEF Indexes

(* The apply worker leaves the raft worker's state alone.                    *)
LEMMA ApplyWorkerFrame ==
  ASSUME ApplyWorker
  PROVE  ApplyFrame
<1>1. ASSUME NEW i \in 1 .. MaxIndex
      PROVE  /\ ApplyNoop(i) => ApplyFrame
             /\ CommitBefore(i) => ApplyFrame
             /\ ApplyNormal(i) => ApplyFrame
             /\ ApplyConfChange(i) => ApplyFrame
  <2>1. ApplyNoop(i) => ApplyFrame
    BY DEF ApplyNoop
  <2>2. CommitBefore(i) => ApplyFrame
    BY DEF CommitBefore
  <2>3. ApplyNormal(i) => ApplyFrame
    BY DEF ApplyNormal
  <2>4. ApplyConfChange(i) => ApplyFrame
    BY DEF ApplyConfChange
  <2>5. QED
    BY <2>1, <2>2, <2>3, <2>4
<1>2. ApplyEntry => ApplyFrame
  BY <1>1 DEF ApplyEntry
<1>3. TakeBatch => ApplyFrame
  BY DEF TakeBatch
<1>4. HandleProposal => ApplyFrame
  BY DEF HandleProposal
<1>5. HandleRegistration => ApplyFrame
  BY DEF HandleRegistration
<1>6. HandleApply => ApplyFrame
  BY DEF HandleApply
<1>7. HandleDestroy => ApplyFrame
  BY DEF HandleDestroy
<1>8. FinishApply => ApplyFrame
  BY DEF FinishApply
<1>9. FinishRemoved => ApplyFrame
  BY DEF FinishRemoved
<1>10. Flush => ApplyFrame
  BY DEF Flush
<1>11. QED
  BY <1>2, <1>3, <1>4, <1>5, <1>6, <1>7, <1>8, <1>9, <1>10 DEF ApplyWorker

(* Answers are put together in one sequence.                                 *)
LEMMA JoinType ==
  ASSUME NEW S, NEW s \in Seq(S), NEW t \in Seq(S)
  PROVE  s \o t \in Seq(S)
  BY ConcatProperties

(* What is answered when the applier is destroyed.                           *)
LEMMA DestroyAnswers ==
  ASSUME TypeInv
  PROVE  /\ With(normals \o confChange, "removed") \in Seq(Answers1)
         /\ cbs \in Seq(Answers1)
         /\ cbs \o With(normals \o confChange, "removed") \in Seq(Answers1)
<1>1. /\ normals \in Seq(Props) /\ confChange \in Seq(Props)
      /\ cbs \in Seq(Answers1)
  BY DEF TypeInv, TypeOK, ApplierTypeOK, ContextTypeOK, Answers1
<1>2. normals \o confChange \in Seq(Props)
  BY <1>1, JoinType
<1>3. With(normals \o confChange, "removed") \in Seq(Answers1)
  BY <1>2, WithType DEF Resps
<1>4. PICK a \in Seq(Answers1) : a = With(normals \o confChange, "removed")
  BY <1>3
<1>5. cbs \o a \in Seq(Answers1)
  BY <1>1, JoinType
<1>6. QED
  BY <1>1, <1>4, <1>5

(* The steps of the raft worker and of the region worker, and stuttering.    *)
OutsideApplier ==
  \/ Raft \/ \E d \in Cmds : ProposeAccepted(d) \/ ProposeRefused(d)
  \/ GCPeer \/ RaftBaseTick \/ ApplyResult \/ EndBatch \/ RegionWorkerApplies
  \/ UNCHANGED vars

(* They leave the applier's pending commands and the batch of the apply      *)
(* worker alone.                                                             *)
LEMMA OutsideFrame ==
  ASSUME OutsideApplier
  PROVE  UNCHANGED <<normals, confChange, batch, working, cbs>>
<1>1. CASE Raft
  BY <1>1 DEF Raft, BecomeLeader, FollowerAppend, AdvanceCommit, ReceiveSnapshot,
     RaftFrame, applierVars, ctxVars
<1>2. ASSUME NEW d \in Cmds, ProposeAccepted(d) \/ ProposeRefused(d)
      PROVE  UNCHANGED <<normals, confChange, batch, working, cbs>>
  BY <1>2 DEF ProposeAccepted, ProposeRefused, applierVars, ctxVars
<1>3. CASE GCPeer \/ RaftBaseTick \/ RegionWorkerApplies
  BY <1>3 DEF GCPeer, RaftBaseTick, RegionWorkerApplies, applierVars, ctxVars
<1>4. CASE ApplyResult
  BY <1>4 DEF ApplyResult, ApplyResultDestroys, ApplyResultAdvances, ApplyResultPanics,
     applierVars, ctxVars
<1>5. CASE EndBatch
  <2>1. CASE EndBatchNotReady \/ EndBatchNoReady
    BY <2>1 DEF EndBatchNotReady, EndBatchNoReady, applierVars, ctxVars
  <2>2. CASE EndBatchSnapshot \/ EndBatchEntries
    BY <2>2 DEF EndBatchSnapshot, EndBatchEntries, applierVars, ctxVars
  <2>3. QED
    BY <1>5, <2>1, <2>2 DEF EndBatch
<1>6. CASE UNCHANGED vars
  BY <1>6 DEF vars, applierVars, ctxVars
<1>7. QED
  BY <1>1, <1>2, <1>3, <1>4, <1>5, <1>6 DEF OutsideApplier
=============================================================================
