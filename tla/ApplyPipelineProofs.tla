------------------------ MODULE ApplyPipelineProofs ------------------------
(***************************************************************************)
(* The apply worker keeps the types and the order of the indexes, for any  *)
(* set of commands and any bounds.                                         *)
(***************************************************************************)
EXTENDS PipelineLemmas

(* Answering commands keeps the types of the history.                        *)
LEMMA ReplyKeepsTypes ==
  ASSUME TypeInv, NEW a \in Seq(Answers1), Reply(a), UNCHANGED prop
  PROVE  HistoryTypeOK'
<1>1. Answers1 \subseteq [cmd : Cmds, resp : Resps \cup {"refused"}]
  BY DEF Answers1
<1>2. a \in Seq([cmd : Cmds, resp : Resps \cup {"refused"}])
  BY <1>1, SeqsWiden
<1>3. QED
  BY <1>2, ReplyType DEF TypeInv, TypeOK

(* The steps of the apply worker leave the raft worker alone.                *)
LEMMA ApplyFrameTypes ==
  ASSUME TypeInv, ApplyFrame
  PROVE  /\ RaftTypeOK' /\ PeerTypeOK' /\ SnapAhead' /\ lastApplyingIdx' <= commit'
         /\ storeApplied' <= lastApplyingIdx' /\ lastApplyingIdx' = lastApplyingIdx
         /\ applyMsgs' = applyMsgs /\ prop' = prop /\ UNCHANGED raftVars
<1>1. UNCHANGED <<raftVars, peerVars, prop>>
  BY DEF ApplyFrame
<1>2. PeerTypeOK'
  BY <1>1 DEF TypeInv, TypeOK, PeerTypeOK, peerVars
<1>3. RaftTypeOK'
  BY <1>1, StutterTypes DEF TypeInv, TypeOK
<1>4. QED
  BY <1>1, <1>2, <1>3 DEF TypeInv, TypeOK, SnapAhead, raftVars, peerVars

(* What the apply worker's own state must satisfy, given the raft worker's.  *)
LEMMA ApplySideTypes ==
  ASSUME TypeInv, ApplyFrame,
         ApplierTypeOK', ContextTypeOK', HistoryTypeOK',
         appliedIndex' <= lastApplyingIdx,
         applyCh' \in Seq(MsgsUpTo(lastApplyingIdx)),
         batch' \in Seq(MsgsUpTo(lastApplyingIdx)),
         resList' \in Seq(ResultsUpTo(lastApplyingIdx)),
         applyResCh' \in Seq(ResultsUpTo(lastApplyingIdx)),
         ents'.last <= lastApplyingIdx
  PROVE  TypeInv'
<1>1. applyCh' \in Seq(Msgs) /\ applyResCh' \in Seq(Results)
  BY InFlightTyped
<1>2. QED
  BY <1>1, ApplyFrameTypes DEF TypeInv, TypeOK, ChannelTypeOK, InFlight

(* What a stopped applier answers to a proposal is typed.                    *)
LEMMA StoppedType ==
  ASSUME NEW p \in Props
  PROVE  WhenStopped(p) \in Seq(Answers1)
<1>1. [cmd |-> p.cmd, resp |-> "stale"] \in Answers1
  BY DEF Props, Answers1, Resps
<1>2. QED
  BY <1>1 DEF WhenStopped

(* So is the progress of an applier that has no entries to apply.            *)
LEMMA NoEntsType ==
  /\ NoEnts \in [next : 0 .. MaxIndex + 1, last : Indexes, from : Indexes,
                  written : BOOLEAN, aborted : BOOLEAN]
  /\ NoEnts.last = 0
  BY BoundsAssumption DEF NoEnts, Indexes

(* The messages of a batch keep the types, up to the entries.                *)
LEMMA MessagesKeepTypes ==
  ASSUME TypeInv,
         TakeBatch \/ HandleProposal \/ HandleRegistration \/ HandleApply
  PROVE  TypeInv'
<1> USE Numbers
<1>1. ApplyFrame
  BY DEF TakeBatch, HandleProposal, HandleRegistration, HandleApply
<1>2. /\ normals \in Seq(Props) /\ confChange \in Seq(Props)
      /\ Len(confChange) <= 1
  BY DEF TypeInv, TypeOK, ApplierTypeOK
<1>3. "stale" \in Resps
  BY DEF Resps
<1>4. \A S : <<>> \in Seq(S)
  OBVIOUS
<1>5. CASE TakeBatch
  <2>1. ApplierTypeOK' /\ HistoryTypeOK'
    BY <1>1, <1>5, StutterTypes DEF TakeBatch, TypeInv, TypeOK, ApplyFrame
  <2>2. ContextTypeOK'
    BY <1>5 DEF TakeBatch, TypeInv, TypeOK, ContextTypeOK, ChannelTypeOK
  <2>3. QED
    BY <1>1, <1>4, <1>5, <2>1, <2>2, ApplySideTypes
       DEF TakeBatch, TypeInv, InFlight, applierVars
<1>6. ASSUME NEW type, Handling(type)
      PROVE  /\ Head(batch) \in MsgsUpTo(lastApplyingIdx) /\ Head(batch).type = type
             /\ Tail(batch) \in Seq(MsgsUpTo(lastApplyingIdx))
             /\ Tail(batch) \in Seq(Msgs)
  BY <1>6, HeadTailProperties, InFlightTyped DEF TypeInv, InFlight, Handling
<1>7. CASE HandleProposal
  <2>1. PICK p \in Props : p = [cmd |-> Head(batch).cmd, index |-> Head(batch).index,
                                term |-> Head(batch).term]
    <3>1. Head(batch) \in Msgs /\ Head(batch).type = "proposal"
      BY <1>6, <1>7 DEF HandleProposal, MsgsUpTo
    <3>2. /\ Head(batch).cmd \in Cmds /\ Head(batch).term \in Nat
          /\ Head(batch).index \in Indexes
      BY <3>1, MsgFields
    <3>3. QED
      BY <3>2, ProposalTypes
  <2>2. /\ batch' = Tail(batch)
        /\ UNCHANGED <<applyCh, applyResCh, aStopped, appliedIndex, working, ents,
                       timer, cbs, wb, resList, disk>>
    BY <1>7 DEF HandleProposal
  <2>3. ContextTypeOK'
    BY <1>6, <1>7, <2>2 DEF TypeInv, TypeOK, ContextTypeOK, HandleProposal
  <2>4. ApplierTypeOK' /\ HistoryTypeOK'
    <3>1. CASE aStopped /\ Reply(WhenStopped(p)) /\ UNCHANGED <<normals, confChange>>
      <4>1. WhenStopped(p) \in Seq(Answers1)
        BY StoppedType
      <4>2. HistoryTypeOK'
        BY <1>1, <3>1, <4>1, ReplyKeepsTypes, ApplyFrameTypes
      <4>3. QED
        BY <2>2, <3>1, <4>2 DEF TypeInv, TypeOK, ApplierTypeOK
    <3>2. CASE /\ Reply(With(confChange, "stale"))
               /\ confChange' = <<p>> /\ UNCHANGED normals
      <4>1. With(confChange, "stale") \in Seq(Answers1)
        BY <1>2, <1>3, WithType
      <4>2. HistoryTypeOK'
        BY <1>1, <3>2, <4>1, ReplyKeepsTypes, ApplyFrameTypes
      <4>3. <<p>> \in Seq(Props) /\ Len(<<p>>) = 1
        BY <2>1
      <4>4. QED
        BY <2>2, <3>2, <4>2, <4>3 DEF TypeInv, TypeOK, ApplierTypeOK
    <3>3. CASE normals' = Append(normals, p) /\ UNCHANGED <<confChange, cbVars>>
      <4>1. normals' \in Seq(Props)
        BY <1>2, <2>1, <3>3, AppendProperties
      <4>2. HistoryTypeOK'
        BY <1>1, <3>3, StutterTypes, ApplyFrameTypes DEF TypeInv, TypeOK
      <4>3. QED
        BY <2>2, <3>3, <4>1, <4>2 DEF TypeInv, TypeOK, ApplierTypeOK
    <3>4. QED
      BY <1>7, <2>1, <3>1, <3>2, <3>3 DEF HandleProposal
  <2>5. QED
    BY <1>1, <1>6, <1>7, <2>2, <2>3, <2>4, ApplySideTypes
       DEF TypeInv, InFlight, HandleProposal
<1>8. CASE HandleRegistration
  <2>1. Head(batch).index \in Indexes /\ Head(batch).index <= lastApplyingIdx
    BY <1>6, <1>8 DEF HandleRegistration, MsgsUpTo, Msgs
  <2>2. With(normals \o confChange, "stale") \in Seq(Answers1)
    <3>1. normals \o confChange \in Seq(Props)
      BY <1>2, ConcatProperties
    <3>2. QED
      BY <1>3, <3>1, WithType
  <2>3. HistoryTypeOK'
    BY <1>1, <1>8, <2>2, ReplyKeepsTypes, ApplyFrameTypes DEF HandleRegistration
  <2>4. ApplierTypeOK'
    <3>1. Len(<<>>) = 0
      OBVIOUS
    <3>2. /\ normals' = <<>> /\ confChange' = <<>> /\ aStopped' \in BOOLEAN
          /\ appliedIndex' = Head(batch).index
      BY <1>8 DEF HandleRegistration
    <3>3. QED
      BY <1>4, <2>1, <3>1, <3>2 DEF ApplierTypeOK
  <2>5. ContextTypeOK'
    BY <1>6, <1>8 DEF HandleRegistration, TypeInv, TypeOK, ContextTypeOK
  <2>6. QED
    BY <1>1, <1>6, <1>8, <2>1, <2>3, <2>4, <2>5, ApplySideTypes
       DEF HandleRegistration, TypeInv, InFlight
<1>9. CASE HandleApply
  <2>1. /\ Head(batch).index \in Indexes /\ Head(batch).last \in Indexes
        /\ Head(batch).last <= lastApplyingIdx
    BY <1>6, <1>9 DEF HandleApply, MsgsUpTo, Msgs
  <2>2. ApplierTypeOK' /\ HistoryTypeOK'
    BY <1>1, <1>9, StutterTypes DEF HandleApply, TypeInv, TypeOK, ApplyFrame
  <2>3. /\ ents' \in [next : 0 .. MaxIndex + 1, last : Indexes, from : Indexes,
                      written : BOOLEAN, aborted : BOOLEAN]
        /\ ents'.last <= lastApplyingIdx
    <3>1. CASE aStopped
      <4>1. ents' = NoEnts
        BY <1>9, <3>1 DEF HandleApply
      <4>2. QED
        BY <4>1, NoEntsType
    <3>2. CASE ~aStopped
      <4>1. ents' = [next |-> Head(batch).index, last |-> Head(batch).last,
                     from |-> appliedIndex, written |-> FALSE, aborted |-> FALSE]
        BY <1>9, <3>2 DEF HandleApply
      <4>2. appliedIndex \in Indexes /\ Head(batch).index \in 0 .. MaxIndex + 1
        BY <2>1 DEF TypeInv, TypeOK, ApplierTypeOK, Indexes
      <4>3. QED
        BY <2>1, <4>1, <4>2
    <3>3. QED
      BY <3>1, <3>2
  <2>4. ContextTypeOK'
    BY <1>6, <1>9, <2>3 DEF HandleApply, TypeInv, TypeOK, ContextTypeOK
  <2>5. QED
    BY <1>1, <1>6, <1>9, <2>2, <2>3, <2>4, ApplySideTypes
       DEF HandleApply, TypeInv, InFlight, applierVars
<1>10. QED
  BY <1>5, <1>7, <1>8, <1>9

(* writeToDB keeps the types of the batch and of the engine.                 *)
LEMMA WriteToDBTypes ==
  ASSUME NEW w \in Wbs, disk \in Wbs, WriteToDB(w)
  PROVE  wb' \in Wbs /\ disk' \in Wbs /\ cbs' \in Seq(Answers1)
<1>1. 0 \in Indexes
  BY BoundsAssumption DEF Indexes
<1>2. wb' \in Wbs
  BY <1>1 DEF WriteToDB, EmptyWb, Wbs
<1>3. disk' \in Wbs
  BY DEF WriteToDB, Wbs
<1>4. QED
  BY <1>2, <1>3 DEF WriteToDB

(* Applying an empty entry keeps the types.                                  *)
LEMMA ApplyNoopKeepsTypes ==
  ASSUME TypeInv, NEW i \in 1 .. MaxIndex, ApplyNoop(i)
  PROVE  TypeInv'
<1>1. Applying(i) /\ ApplyFrame
  BY DEF ApplyNoop
<1>2. /\ i \in Indexes /\ i <= lastApplyingIdx /\ i + 1 \in 0 .. MaxIndex + 1
      /\ ents \in EntsType
  BY <1>1, ApplyingFacts
<1>3. /\ appliedIndex' = i /\ ents' = [ents EXCEPT !.next = i + 1]
      /\ UNCHANGED <<applyCh, applyResCh, aStopped, confChange, batch, working,
                     timer, wb, resList, disk, cbVars>>
  BY DEF ApplyNoop
<1>4. normals' \in Seq(Props) /\ cbs' \in Seq(Answers1)
  <2>1. PICK n \in 0 .. Len(normals) :
          \/ UNCHANGED <<normals, cbs>>
          \/ /\ cbs' = cbs \o StaleCbs(SubSeq(normals, 1, n))
             /\ normals' = SubSeq(normals, n + 1, Len(normals))
    BY DEF ApplyNoop
  <2>2. normals \in Seq(Props) /\ cbs \in Seq(Answers1)
    BY DEF TypeInv, TypeOK, ApplierTypeOK, ContextTypeOK, Answers1
  <2>3. /\ SubSeq(normals, 1, n) \in Seq(Props)
        /\ SubSeq(normals, n + 1, Len(normals)) \in Seq(Props)
    BY <2>2, OccSplit
  <2>4. StaleCbs(SubSeq(normals, 1, n)) \in Seq(Answers1)
    BY <2>3, WithType DEF StaleCbs, Resps
  <2>5. cbs \o StaleCbs(SubSeq(normals, 1, n)) \in Seq(Answers1)
    BY <2>2, <2>4, ConcatProperties
  <2>6. QED
    BY <2>1, <2>2, <2>3, <2>5
<1>5. ApplierTypeOK'
  BY <1>2, <1>3, <1>4 DEF TypeInv, TypeOK, ApplierTypeOK
<1>6. ents' \in EntsType /\ ents'.last = ents.last
  BY <1>2, <1>3 DEF EntsType
<1>7. ContextTypeOK'
  BY <1>3, <1>4, <1>6 DEF TypeInv, TypeOK, ContextTypeOK, EntsType, Answers1
<1>8. HistoryTypeOK'
  BY <1>1, <1>3, StutterTypes, ApplyFrameTypes DEF TypeInv, TypeOK
<1>9. QED
  BY <1>1, <1>2, <1>3, <1>5, <1>6, <1>7, <1>8, ApplySideTypes DEF TypeInv, InFlight

(* Committing the batch before a command keeps the types.                    *)
LEMMA CommitBeforeKeepsTypes ==
  ASSUME TypeInv, NEW i \in 1 .. MaxIndex, CommitBefore(i)
  PROVE  TypeInv'
<1>1. Applying(i) /\ ApplyFrame
  BY DEF CommitBefore
<1>2. ents \in EntsType
  BY <1>1, ApplyingFacts
<1> DEFINE w == IF ents.from < appliedIndex THEN WithApplyState(wb) ELSE wb
<1>3. w \in Wbs /\ disk \in Wbs /\ appliedIndex \in Indexes
  BY DEF TypeInv, TypeOK, ContextTypeOK, ApplierTypeOK, WithApplyState, Wbs
<1>4. wb' \in Wbs /\ disk' \in Wbs /\ cbs' \in Seq(Answers1)
  <2>1. WriteToDB(w)
    BY DEF CommitBefore
  <2>2. QED
    BY <1>3, <2>1, WriteToDBTypes
<1>5. /\ ents' = [ents EXCEPT !.from = appliedIndex, !.written = TRUE]
      /\ UNCHANGED <<applyCh, applyResCh, applierVars, batch, working, timer,
                     resList>>
  BY DEF CommitBefore
<1>6. ents' \in EntsType /\ ents'.last = ents.last
  BY <1>2, <1>3, <1>5 DEF EntsType
<1>7. ContextTypeOK'
  BY <1>4, <1>5, <1>6 DEF TypeInv, TypeOK, ContextTypeOK, EntsType, Answers1
<1>8. HistoryTypeOK'
  <2>1. cbs \in Seq(Answers1) /\ Reply(cbs)
    BY DEF TypeInv, TypeOK, ContextTypeOK, Answers1, CommitBefore
  <2>2. QED
    BY <1>1, <2>1, ReplyKeepsTypes, ApplyFrameTypes
<1>9. ApplierTypeOK'
  BY <1>5, StutterTypes DEF TypeInv, TypeOK
<1>10. QED
  BY <1>1, <1>5, <1>6, <1>7, <1>8, <1>9, ApplySideTypes
     DEF TypeInv, TypeOK, InFlight, applierVars

(* An executed entry keeps the types of the batch.                           *)
LEMMA ExecutedTypes ==
  ASSUME NEW i \in Indexes, NEW ok \in BOOLEAN, wb \in Wbs, Executed(i, ok)
  PROVE  wb' \in Wbs /\ appliedIndex' = i
<1>1. [wb EXCEPT !.data = @ \cup {i}] \in Wbs
  BY DEF Wbs
<1>2. QED
  BY <1>1 DEF Executed

(* Applying a command keeps the types.                                       *)
LEMMA ApplyNormalKeepsTypes ==
  ASSUME TypeInv, NEW i \in 1 .. MaxIndex, ApplyNormal(i)
  PROVE  TypeInv'
<1>1. Applying(i) /\ ApplyFrame
  BY DEF ApplyNormal
<1>2. /\ i \in Indexes /\ i <= lastApplyingIdx /\ i + 1 \in 0 .. MaxIndex + 1
      /\ ents \in EntsType
  BY <1>1, ApplyingFacts
<1>3. /\ ents' = [ents EXCEPT !.next = i + 1, !.written = FALSE]
      /\ UNCHANGED <<applyCh, applyResCh, aStopped, confChange, batch, working,
                     timer, resList, disk>>
  BY DEF ApplyNormal
<1>4. PICK ok \in BOOLEAN, n \in 0 .. Len(normals) :
      LET found == /\ n < Len(normals) /\ normals[n + 1].index = i
                   /\ normals[n + 1].term = log[i].term IN
        /\ Executed(i, ok)
        /\ Reply(With(SubSeq(normals, 1, n), "stale"))
        /\ cbs' = IF found
                  THEN Append(cbs, [cmd |-> normals[n + 1].cmd, resp |-> Resp(ok)])
                  ELSE cbs
        /\ normals' = SubSeq(normals, IF found THEN n + 2 ELSE n + 1, Len(normals))
  BY DEF ApplyNormal
<1>5. /\ normals \in Seq(Props) /\ cbs \in Seq(Answers1) /\ wb \in Wbs
      /\ Len(normals) \in Nat
  BY LenProperties DEF TypeInv, TypeOK, ApplierTypeOK, ContextTypeOK, Answers1
<1>6. /\ SubSeq(normals, 1, n) \in Seq(Props)
      /\ SubSeq(normals, n + 1, Len(normals)) \in Seq(Props)
      /\ n < Len(normals) => SubSeq(normals, n + 2, Len(normals)) \in Seq(Props)
  <2>1. /\ SubSeq(normals, 1, n) \in Seq(Props)
        /\ SubSeq(normals, n + 1, Len(normals)) \in Seq(Props)
    BY <1>5, OccSplit
  <2>2. ASSUME n < Len(normals)
        PROVE  SubSeq(normals, n + 2, Len(normals)) \in Seq(Props)
    <3>1. n + 1 \in 0 .. Len(normals) /\ n + 1 + 1 = n + 2
      BY <1>5, <2>2
    <3>2. SubSeq(normals, n + 1 + 1, Len(normals)) \in Seq(Props)
      BY <1>5, <3>1, OccSplit
    <3>3. QED
      BY <3>1, <3>2
  <2>3. QED
    BY <2>1, <2>2
<1>7. n < Len(normals) => normals[n + 1] \in Props
  BY <1>5, ElementOfSeq
<1>8. HistoryTypeOK'
  <2>1. With(SubSeq(normals, 1, n), "stale") \in Seq(Answers1)
    BY <1>6, WithType DEF Resps
  <2>2. QED
    BY <1>1, <1>4, <2>1, ReplyKeepsTypes, ApplyFrameTypes
<1>9. cbs' \in Seq(Answers1)
  <2>1. n < Len(normals)
          => [cmd |-> normals[n + 1].cmd, resp |-> Resp(ok)] \in Answers1
    BY <1>7 DEF Resp, Resps, Answers1, Props
  <2>2. n < Len(normals)
          => Append(cbs, [cmd |-> normals[n + 1].cmd, resp |-> Resp(ok)])
               \in Seq(Answers1)
    BY <1>5, <2>1, AppendProperties
  <2>3. QED
    BY <1>4, <1>5, <2>2
<1>10. normals' \in Seq(Props)
  BY <1>4, <1>6
<1>11. wb' \in Wbs /\ appliedIndex' = i
  BY <1>2, <1>4, <1>5, ExecutedTypes
<1>12. ApplierTypeOK'
  BY <1>2, <1>3, <1>10, <1>11 DEF TypeInv, TypeOK, ApplierTypeOK
<1>13. ents' \in EntsType /\ ents'.last = ents.last
  BY <1>2, <1>3 DEF EntsType
<1>14. ContextTypeOK'
  BY <1>3, <1>9, <1>11, <1>13 DEF TypeInv, TypeOK, ContextTypeOK, EntsType, Answers1
<1>15. QED
  BY <1>1, <1>2, <1>3, <1>8, <1>11, <1>12, <1>13, <1>14, ApplySideTypes
     DEF TypeInv, InFlight

(* Applying a configuration change keeps the types.                          *)
LEMMA ApplyConfChangeKeepsTypes ==
  ASSUME TypeInv, NEW i \in 1 .. MaxIndex, ApplyConfChange(i)
  PROVE  TypeInv'
<1>1. Applying(i) /\ ApplyFrame
  BY DEF ApplyConfChange
<1>2. /\ i \in Indexes /\ i <= lastApplyingIdx /\ i + 1 \in 0 .. MaxIndex + 1
      /\ ents \in EntsType
  BY <1>1, ApplyingFacts
<1>3. /\ confChange' = <<>>
      /\ UNCHANGED <<applyCh, applyResCh, normals, batch, working, timer, resList,
                     disk>>
  BY DEF ApplyConfChange
<1>4. PICK ok \in BOOLEAN :
        /\ Executed(i, ok)
        /\ \/ cbs' = cbs \o With(confChange, Resp(ok)) /\ UNCHANGED cbVars
           \/ Reply(With(confChange, "stale")) /\ UNCHANGED cbs
        /\ ents' = [ents EXCEPT !.next = i + 1, !.aborted = @ \/ ~ok]
        /\ aStopped' = (ok /\ log[i].cmd = RemoveMe)
  BY DEF ApplyConfChange
<1>5. /\ confChange \in Seq(Props) /\ cbs \in Seq(Answers1) /\ wb \in Wbs
  BY DEF TypeInv, TypeOK, ApplierTypeOK, ContextTypeOK, Answers1
<1>6. /\ With(confChange, Resp(ok)) \in Seq(Answers1)
      /\ With(confChange, "stale") \in Seq(Answers1)
  <2>1. Resp(ok) \in Resps /\ "stale" \in Resps
    BY DEF Resp, Resps
  <2>2. QED
    BY <1>5, <2>1, WithType
<1>7. cbs' \in Seq(Answers1)
  BY <1>4, <1>5, <1>6, ConcatProperties
<1>8. HistoryTypeOK'
  <2>1. CASE UNCHANGED cbVars
    BY <1>1, <2>1, StutterTypes, ApplyFrameTypes DEF TypeInv, TypeOK
  <2>2. CASE Reply(With(confChange, "stale"))
    BY <1>1, <1>6, <2>2, ReplyKeepsTypes, ApplyFrameTypes
  <2>3. QED
    BY <1>4, <2>1, <2>2
<1>9. wb' \in Wbs /\ appliedIndex' = i
  BY <1>2, <1>4, <1>5, ExecutedTypes
<1>10. aStopped' \in BOOLEAN
  BY <1>4
<1>11. ApplierTypeOK'
  <2>1. <<>> \in Seq(Props) /\ Len(<<>>) = 0
    OBVIOUS
  <2>2. QED
    BY <1>2, <1>3, <1>9, <1>10, <2>1 DEF TypeInv, TypeOK, ApplierTypeOK
<1>12. ents' \in EntsType /\ ents'.last = ents.last
  <2>1. (ents.aborted \/ ~ok) \in BOOLEAN
    OBVIOUS
  <2>2. QED
    BY <1>2, <1>4, <2>1 DEF EntsType
<1>13. ContextTypeOK'
  BY <1>3, <1>7, <1>9, <1>12 DEF TypeInv, TypeOK, ContextTypeOK, EntsType, Answers1
<1>14. QED
  BY <1>1, <1>2, <1>3, <1>8, <1>9, <1>11, <1>12, <1>13, ApplySideTypes
     DEF TypeInv, InFlight

(* A flush keeps the types.                                                  *)
LEMMA FlushKeepsTypes ==
  ASSUME TypeInv, Flush
  PROVE  TypeInv'
<1>1. /\ ApplyFrame /\ working' = FALSE
      /\ UNCHANGED <<applyCh, applierVars, batch, ents, panic>>
  BY DEF Flush
<1>2. ApplierTypeOK'
  BY <1>1, StutterTypes DEF TypeInv, TypeOK
<1>3. CASE timer
  <2>1. WriteToDB(wb) /\ Reply(cbs) /\ applyResCh' = applyResCh \o resList
        /\ resList' = <<>> /\ timer' = FALSE
    BY <1>3 DEF Flush
  <2>2. wb \in Wbs /\ disk \in Wbs
    BY DEF TypeInv, TypeOK, ContextTypeOK
  <2>3. wb' \in Wbs /\ disk' \in Wbs /\ cbs' \in Seq(Answers1)
    BY <2>1, <2>2, WriteToDBTypes
  <2>4. HistoryTypeOK'
    BY <1>1, <2>1, DestroyAnswers, ReplyKeepsTypes, ApplyFrameTypes
  <2>5. /\ resList' \in Seq(ResultsUpTo(lastApplyingIdx)) /\ resList' \in Seq(Results)
        /\ applyResCh' \in Seq(ResultsUpTo(lastApplyingIdx))
    BY <2>1, ConcatProperties DEF TypeInv, InFlight
  <2>6. ContextTypeOK'
    BY <1>1, <2>1, <2>3, <2>5 DEF TypeInv, TypeOK, ContextTypeOK, Answers1
  <2>7. QED
    BY <1>1, <1>2, <2>4, <2>5, <2>6, ApplySideTypes
       DEF TypeInv, TypeOK, InFlight, applierVars
<1>4. CASE ~timer
  <2>1. UNCHANGED <<disk, wb, cbs, cbVars, applyResCh, resList, timer>>
    BY <1>4 DEF Flush
  <2>2. HistoryTypeOK'
    BY <1>1, <2>1, StutterTypes, ApplyFrameTypes DEF TypeInv, TypeOK
  <2>3. ContextTypeOK'
    BY <1>1, <2>1 DEF TypeInv, TypeOK, ContextTypeOK
  <2>4. QED
    BY <1>1, <1>2, <2>1, <2>2, <2>3, ApplySideTypes
       DEF TypeInv, TypeOK, InFlight, applierVars
<1>5. QED
  BY <1>3, <1>4

(* The end of an Apply message keeps the types.                              *)
LEMMA FinishKeepsTypes ==
  ASSUME TypeInv, FinishApply \/ FinishRemoved
  PROVE  TypeInv'
<1> USE Numbers
<1>1. ApplyFrame
  BY DEF FinishApply, FinishRemoved
<1>2. ApplyRes \in ResultsUpTo(lastApplyingIdx)
  BY DEF ApplyRes, ResultsUpTo, Results, TypeInv, TypeOK, ApplierTypeOK, ContextTypeOK
<1>3. Append(resList, ApplyRes) \in Seq(ResultsUpTo(lastApplyingIdx))
  BY <1>2, AppendProperties DEF TypeInv, InFlight
<1>4. NoEnts \in EntsType /\ NoEnts.last <= lastApplyingIdx
  BY DEF NoEnts, EntsType, Indexes
<1>5. wb \in Wbs /\ disk \in Wbs /\ appliedIndex \in Indexes
  BY DEF TypeInv, TypeOK, ContextTypeOK, ApplierTypeOK
<1>6. CASE FinishApply
  <2>1. /\ wb' = WithApplyState(wb) /\ resList' = Append(resList, ApplyRes)
        /\ ents' = NoEnts
        /\ UNCHANGED <<applyCh, applyResCh, applierVars, batch, working, timer, cbs,
                       disk, cbVars>>
    BY <1>6 DEF FinishApply
  <2>2. ApplierTypeOK' /\ HistoryTypeOK'
    BY <1>1, <2>1, StutterTypes, ApplyFrameTypes DEF TypeInv, TypeOK
  <2>3. wb' \in Wbs
    BY <1>5, <2>1 DEF WithApplyState, Wbs
  <2>4. ContextTypeOK'
    BY <1>3, <1>4, <2>1, <2>3, InFlightTyped
       DEF TypeInv, TypeOK, ContextTypeOK, EntsType
  <2>5. QED
    BY <1>1, <1>3, <1>4, <2>1, <2>2, <2>4, ApplySideTypes
       DEF TypeInv, InFlight, applierVars
<1>7. CASE FinishRemoved
  <2>1. /\ ents' = NoEnts
        /\ UNCHANGED <<applyCh, aStopped, appliedIndex, batch, working>>
    BY <1>7 DEF FinishRemoved
  <2>2. CASE UNCHANGED <<applyResCh, disk, wb, cbs, timer, resList, normals,
                         confChange, cbVars>>
    <3>1. HistoryTypeOK'
      BY <1>1, <2>2, StutterTypes, ApplyFrameTypes DEF TypeInv, TypeOK
    <3>2. ApplierTypeOK'
      BY <2>1, <2>2 DEF TypeInv, TypeOK, ApplierTypeOK
    <3>3. ContextTypeOK'
      BY <1>4, <2>1, <2>2 DEF TypeInv, TypeOK, ContextTypeOK, EntsType
    <3>4. QED
      BY <1>1, <1>4, <2>1, <2>2, <3>1, <3>2, <3>3, ApplySideTypes
         DEF TypeInv, InFlight
  <2>3. CASE /\ WriteToDB(wb)
             /\ Reply(cbs \o With(normals \o confChange, "removed"))
             /\ applyResCh' = applyResCh \o Append(resList, ApplyRes)
             /\ resList' = <<>> /\ timer' = FALSE
             /\ normals' = <<>> /\ confChange' = <<>>
    <3>1. HistoryTypeOK'
      BY <1>1, <2>3, DestroyAnswers, ReplyKeepsTypes, ApplyFrameTypes
    <3>2. wb' \in Wbs /\ disk' \in Wbs /\ cbs' \in Seq(Answers1)
      BY <1>5, <2>3, WriteToDBTypes
    <3>3. ApplierTypeOK'
      <4>1. <<>> \in Seq(Props) /\ Len(<<>>) = 0
        OBVIOUS
      <4>2. QED
        BY <2>1, <2>3, <4>1 DEF TypeInv, TypeOK, ApplierTypeOK
    <3>4. /\ resList' \in Seq(ResultsUpTo(lastApplyingIdx))
          /\ resList' \in Seq(Results)
          /\ applyResCh' \in Seq(ResultsUpTo(lastApplyingIdx))
      BY <1>3, <2>3, ConcatProperties DEF TypeInv, InFlight
    <3>5. ContextTypeOK'
      BY <1>4, <2>1, <2>3, <3>2, <3>4
         DEF TypeInv, TypeOK, ContextTypeOK, EntsType, Answers1
    <3>6. QED
      BY <1>1, <1>4, <2>1, <3>1, <3>3, <3>4, <3>5, ApplySideTypes
         DEF TypeInv, InFlight
  <2>4. QED
    BY <1>7, <2>2, <2>3 DEF FinishRemoved
<1>8. QED
  BY <1>6, <1>7

(* The destruction of the applier keeps the types.                           *)
LEMMA DestroyKeepsTypes ==
  ASSUME TypeInv, HandleDestroy
  PROVE  TypeInv'
<1> USE Numbers
<1>1. /\ ApplyFrame /\ batch' = Tail(batch) /\ aStopped' = TRUE
      /\ UNCHANGED <<applyCh, appliedIndex, working, ents>>
  BY DEF HandleDestroy
<1>2. /\ batch' \in Seq(MsgsUpTo(lastApplyingIdx)) /\ batch' \in Seq(Msgs)
  BY <1>1, HeadTailProperties, InFlightTyped
     DEF TypeInv, InFlight, HandleDestroy, Handling
<1>3. DestroyRes \in ResultsUpTo(lastApplyingIdx)
  BY DEF DestroyRes, ResultsUpTo, Results, Indexes
<1>4. wb \in Wbs /\ disk \in Wbs
  BY DEF TypeInv, TypeOK, ContextTypeOK
<1>5. <<>> \in Seq(Props) /\ Len(<<>>) = 0
  OBVIOUS
<1>6. CASE UNCHANGED <<applyResCh, disk, wb, cbs, timer, resList, normals,
                       confChange, cbVars>>
  <2>1. HistoryTypeOK'
    BY <1>1, <1>6, StutterTypes, ApplyFrameTypes DEF TypeInv, TypeOK
  <2>2. ApplierTypeOK'
    BY <1>1, <1>6 DEF TypeInv, TypeOK, ApplierTypeOK
  <2>3. ContextTypeOK'
    BY <1>1, <1>2, <1>6 DEF TypeInv, TypeOK, ContextTypeOK
  <2>4. QED
    BY <1>1, <1>2, <1>6, <2>1, <2>2, <2>3, ApplySideTypes
       DEF TypeInv, TypeOK, InFlight
<1>7. CASE /\ Reply(With(normals \o confChange, "removed"))
           /\ applyResCh' = Append(applyResCh, DestroyRes)
           /\ normals' = <<>> /\ confChange' = <<>>
           /\ UNCHANGED <<disk, wb, cbs, timer, resList>>
  <2>1. HistoryTypeOK'
    BY <1>1, <1>7, DestroyAnswers, ReplyKeepsTypes, ApplyFrameTypes
  <2>2. ApplierTypeOK'
    BY <1>1, <1>5, <1>7 DEF TypeInv, TypeOK, ApplierTypeOK
  <2>3. ContextTypeOK'
    BY <1>1, <1>2, <1>7 DEF TypeInv, TypeOK, ContextTypeOK
  <2>4. applyResCh' \in Seq(ResultsUpTo(lastApplyingIdx))
    BY <1>3, <1>7, AppendProperties DEF TypeInv, InFlight
  <2>5. QED
    BY <1>1, <1>2, <1>7, <2>1, <2>2, <2>3, <2>4, ApplySideTypes
       DEF TypeInv, TypeOK, InFlight
<1>8. CASE /\ WriteToDB(wb)
           /\ Reply(cbs \o With(normals \o confChange, "removed"))
           /\ applyResCh' = Append(applyResCh \o resList, DestroyRes)
           /\ resList' = <<>> /\ timer' = FALSE
           /\ normals' = <<>> /\ confChange' = <<>>
  <2>1. HistoryTypeOK'
    BY <1>1, <1>8, DestroyAnswers, ReplyKeepsTypes, ApplyFrameTypes
  <2>2. ApplierTypeOK'
    BY <1>1, <1>5, <1>8 DEF TypeInv, TypeOK, ApplierTypeOK
  <2>3. wb' \in Wbs /\ disk' \in Wbs /\ cbs' \in Seq(Answers1)
    BY <1>4, <1>8, WriteToDBTypes
  <2>4. /\ resList' \in Seq(ResultsUpTo(lastApplyingIdx)) /\ resList' \in Seq(Results)
        /\ applyResCh' \in Seq(ResultsUpTo(lastApplyingIdx))
    <3>1. applyResCh \o resList \in Seq(ResultsUpTo(lastApplyingIdx))
      BY ConcatProperties DEF TypeInv, InFlight
    <3>2. QED
      BY <1>3, <1>8, <3>1, AppendProperties
  <2>5. ContextTypeOK'
    BY <1>1, <1>2, <1>8, <2>3, <2>4 DEF TypeInv, TypeOK, ContextTypeOK, Answers1
  <2>6. QED
    BY <1>1, <1>2, <2>1, <2>2, <2>4, <2>5, ApplySideTypes
       DEF TypeInv, TypeOK, InFlight
<1>9. QED
  BY <1>6, <1>7, <1>8 DEF HandleDestroy

(* A state that does not change keeps its type.                              *)
LEMMA StutterKeepsTypes ==
  ASSUME TypeInv, UNCHANGED vars
  PROVE  TypeInv'
<1>1. /\ UNCHANGED <<raftVars, peerVars, prop>> /\ UNCHANGED applierVars
      /\ UNCHANGED <<ctxVars, disk>> /\ UNCHANGED <<prop, cbVars>>
      /\ UNCHANGED <<applyCh, applyResCh>>
  BY DEF vars
<1>2. ApplyFrame
  BY <1>1 DEF ApplyFrame
<1>3. ApplierTypeOK' /\ ContextTypeOK' /\ HistoryTypeOK'
  BY <1>1, StutterTypes DEF TypeInv, TypeOK
<1>4. QED
  BY <1>1, <1>2, <1>3, ApplySideTypes
     DEF TypeInv, TypeOK, InFlight, applierVars, ctxVars
=============================================================================
