--------------------------- MODULE LogMatchProofs ---------------------------
(***************************************************************************)
(* What the raft log of a peer and its engine keep, for any set of         *)
(* commands and any bounds: index and term identify a proposal in every    *)
(* log this peer has or had, and no step takes back a proposal, a          *)
(* committed entry or an executed one.                                     *)
(***************************************************************************)
EXTENDS PipelineLemmas

(* Log matching, for the logs this peer has and had: index and term identify *)
(* the commands this peer proposed.                                          *)
At(h, c) == /\ prop[c].index <= Len(h)
            /\ h[prop[c].index].term = prop[c].term

OldTerms == \A h \in oldLogs : \A j \in 1 .. Len(h) : h[j].term < term
LogTerms == \A j \in 1 .. Len(log) : log[j].term <= term
PropTerms ==
    \A c \in Cmds : prop[c] # NoProp =>
        /\ prop[c].index >= 1 /\ prop[c].term <= term
        /\ ~leader => prop[c].term < term
        /\ leader /\ prop[c].term = term => prop[c].index <= Len(log)
PropsMatch ==
    \A c \in Cmds : prop[c] # NoProp =>
        \A h \in oldLogs \cup {log} : At(h, c) => h[prop[c].index].cmd = c

LogMatch == OldTerms /\ LogTerms /\ PropTerms /\ PropsMatch

(* Log matching.                                                             *)
LEMMA LogMatchStutter ==
  ASSUME LogMatch, UNCHANGED <<term, leader, log, oldLogs, prop>>
  PROVE  LogMatch'
  BY DEF LogMatch, OldTerms, LogTerms, PropTerms, PropsMatch, At

(* The terms of the entries are numbers.                                     *)
LEMMA EntryTerms ==
  ASSUME TypeInv, NEW h \in oldLogs \cup {log}, NEW j \in 1 .. Len(h)
  PROVE  h[j] \in Entries /\ h[j].term \in Nat
<1>1. h \in Seq(Entries)
  BY DEF TypeInv, TypeOK, RaftTypeOK
<1>2. h[j] \in Entries
  BY <1>1, ElementOfSeq
<1>3. QED
  BY <1>2 DEF Entries

(* A new entry of a term in which this peer has proposed nothing.            *)
LEMMA AppendedEntry ==
  ASSUME TypeInv, LogMatch,
         NEW h \in oldLogs \cup {log}, NEW m \in 0 .. Len(h), NEW e \in Entries,
         \A c \in Cmds : prop[c] # NoProp => prop[c].term < e.term,
         NEW new \in {SubSeq(h, 1, m), Append(SubSeq(h, 1, m), e)}
  PROVE  /\ \A c \in Cmds : prop[c] # NoProp =>
               (At(new, c) => new[prop[c].index].cmd = c)
         /\ term <= e.term => \A j \in 1 .. Len(new) : new[j].term <= e.term
<1>1. h \in Seq(Entries) /\ Len(h) \in Nat
  BY LenProperties DEF TypeInv, TypeOK, RaftTypeOK
<1>2. /\ SubSeq(h, 1, m) \in Seq(Entries) /\ Len(SubSeq(h, 1, m)) = m
      /\ \A j \in 1 .. m : SubSeq(h, 1, m)[j] = h[j]
  <2>1. \A j \in 1 .. m : h[j] \in Entries
    BY <1>1, ElementOfSeq
  <2>2. /\ SubSeq(h, 1, m) \in Seq(Entries)
        /\ Len(SubSeq(h, 1, m)) = (IF 1 <= m THEN m - 1 + 1 ELSE 0)
        /\ \A j \in 1 .. m - 1 + 1 : SubSeq(h, 1, m)[j] = h[1 + j - 1]
    BY <1>1, <2>1, SubSeqProperties
  <2>3. QED
    BY <1>1, <2>2
<1>3. /\ \A j \in 1 .. m : new[j] = h[j]
      /\ Len(new) = m \/ (Len(new) = m + 1 /\ new[m + 1] = e)
  <2>1. CASE new = SubSeq(h, 1, m)
    BY <1>2, <2>1
  <2>2. CASE new = Append(SubSeq(h, 1, m), e)
    BY <1>2, <2>2, AppendProperties
  <2>3. QED
    BY <2>1, <2>2
<1>4. ASSUME NEW c \in Cmds, prop[c] # NoProp, At(new, c)
      PROVE  new[prop[c].index].cmd = c
  <2>1. /\ prop[c].index \in Nat /\ prop[c].index >= 1 /\ prop[c].term \in Nat
        /\ prop[c].term < e.term /\ e.term \in Nat
    BY <1>4 DEF LogMatch, PropTerms, TypeInv, TypeOK, HistoryTypeOK, Indexes, Entries
  <2>2. prop[c].index <= m
    BY <1>1, <1>3, <1>4, <2>1 DEF At
  <2>3. new[prop[c].index] = h[prop[c].index]
    BY <1>3, <2>1, <2>2
  <2>4. At(h, c)
    BY <1>1, <1>4, <2>1, <2>2, <2>3 DEF At
  <2>5. QED
    BY <1>4, <2>3, <2>4 DEF LogMatch, PropsMatch
<1>5. ASSUME term <= e.term, NEW j \in 1 .. Len(new)
      PROVE  new[j].term <= e.term
  <2>1. e.term \in Nat /\ term \in Nat
    BY Numbers DEF Entries
  <2>2. CASE j <= m
    <3>1. j \in 1 .. Len(h) /\ j \in 1 .. m
      BY <1>1, <1>3, <2>2
    <3>2. h[j].term \in Nat
      BY <3>1, EntryTerms
    <3>3. h[j].term <= term
      <4>1. CASE h = log
        BY <3>1, <4>1 DEF LogMatch, LogTerms
      <4>2. CASE h \in oldLogs
        <5>1. h[j].term < term
          BY <3>1, <4>2 DEF LogMatch, OldTerms
        <5>2. QED
          BY <2>1, <3>2, <5>1
      <4>3. QED
        BY <4>1, <4>2
    <3>4. new[j] = h[j]
      BY <1>3, <3>1
    <3>5. QED
      BY <1>5, <2>1, <3>2, <3>3, <3>4
  <2>3. CASE j = m + 1
    BY <1>1, <1>3, <1>5, <2>1, <2>3
  <2>4. QED
    BY <1>1, <1>3, <2>2, <2>3
<1>6. QED
  BY <1>4, <1>5

(* Raft keeps log matching.                                                  *)
LEMMA RaftKeepsLogMatch ==
  ASSUME TypeInv, LogMatch, Raft
  PROVE  LogMatch'
<1> USE Numbers
<1>1. prop' = prop
  BY DEF Raft, BecomeLeader, FollowerAppend, AdvanceCommit, ReceiveSnapshot, RaftFrame
<1>2. \A c \in Cmds : prop[c].term \in Nat /\ prop[c].index \in Nat
  BY DEF TypeInv, TypeOK, HistoryTypeOK, Indexes
<1>3. CASE AdvanceCommit
  BY <1>1, <1>3, LogMatchStutter DEF AdvanceCommit
<1>4. CASE BecomeLeader
  <2> DEFINE e == Entry(term + 1, Noop)
  <2>1. /\ log' = Append(log, e) /\ term' = term + 1 /\ leader' = TRUE
        /\ oldLogs' = oldLogs
    BY <1>4 DEF BecomeLeader
  <2>2. e \in Entries /\ e.term = term + 1
    BY DEF Entry, Entries
  <2>3. \A c \in Cmds : prop[c] # NoProp => prop[c].term < e.term
    BY <1>2, <2>2 DEF LogMatch, PropTerms
  <2>4. SubSeq(log, 1, Len(log)) = log
    BY SubSeqFull DEF TypeInv, TypeOK, RaftTypeOK
  <2>5. /\ \A c \in Cmds : prop[c] # NoProp =>
               (At(log', c) => log'[prop[c].index].cmd = c)
        /\ \A j \in 1 .. Len(log') : log'[j].term <= e.term
    <3>1. Len(log) \in 0 .. Len(log) /\ term <= e.term
      BY <2>2
    <3>2. log' \in {SubSeq(log, 1, Len(log)), Append(SubSeq(log, 1, Len(log)), e)}
      BY <2>1, <2>4
    <3>3. log \in oldLogs \cup {log}
      OBVIOUS
    <3> HIDE DEF e
    <3>4. QED
      BY <2>2, <2>3, <3>1, <3>2, <3>3, AppendedEntry
  <2>6. OldTerms'
    <3>1. ASSUME NEW h \in oldLogs, NEW j \in 1 .. Len(h)
          PROVE  h[j].term < term + 1
      <4>1. h[j].term \in Nat /\ h[j].term < term
        BY EntryTerms DEF LogMatch, OldTerms
      <4>2. QED
        BY <4>1
    <3>2. QED
      BY <2>1, <3>1 DEF OldTerms
  <2>7. LogTerms'
    BY <2>1, <2>2, <2>5 DEF LogTerms
  <2>8. PropTerms'
    BY <1>1, <1>2, <2>1 DEF LogMatch, PropTerms
  <2>9. PropsMatch'
    BY <1>1, <2>1, <2>5 DEF LogMatch, PropsMatch, At
  <2>10. QED
    BY <2>6, <2>7, <2>8, <2>9 DEF LogMatch
<1>5. CASE FollowerAppend
  <2>1. PICK t \in term .. MaxTerm, h \in oldLogs \cup {log} :
        \E m \in 0 .. Len(h) :
        \E new \in {SubSeq(h, 1, m)} \cup
                   {Append(SubSeq(h, 1, m), Entry(t, c)) : c \in ForeignCmds} :
          (leader => t > term) /\ log' = new /\ term' = t
    BY <1>5 DEF FollowerAppend
  <2>2. PICK m \in 0 .. Len(h) :
        \E new \in {SubSeq(h, 1, m)} \cup
                   {Append(SubSeq(h, 1, m), Entry(t, c)) : c \in ForeignCmds} :
          log' = new
    BY <2>1
  <2>3. (leader => t > term) /\ term' = t /\ t \in Nat /\ term <= t
    BY <2>1
  <2>4. PICK e \in Entries :
          /\ e.term = t
          /\ log' \in {SubSeq(h, 1, m), Append(SubSeq(h, 1, m), e)}
    <3>1. CASE log' = SubSeq(h, 1, m)
      <4>1. Entry(t, Noop) \in Entries /\ Entry(t, Noop).term = t
        BY <2>3 DEF Entry, Entries
      <4>2. QED
        BY <3>1, <4>1
    <3>2. CASE \E c \in ForeignCmds : log' = Append(SubSeq(h, 1, m), Entry(t, c))
      <4>1. PICK c \in ForeignCmds : log' = Append(SubSeq(h, 1, m), Entry(t, c))
        BY <3>2
      <4>2. Entry(t, c) \in Entries /\ Entry(t, c).term = t
        BY <2>3, BoundsAssumption DEF Entry, Entries
      <4>3. QED
        BY <4>1, <4>2
    <3>3. QED
      BY <2>2, <3>1, <3>2
  <2>5. \A c \in Cmds : prop[c] # NoProp => prop[c].term < e.term
    BY <1>2, <2>3, <2>4 DEF LogMatch, PropTerms
  <2>6. /\ \A c \in Cmds : prop[c] # NoProp =>
               (At(log', c) => log'[prop[c].index].cmd = c)
        /\ \A j \in 1 .. Len(log') : log'[j].term <= t
    BY <2>3, <2>4, <2>5, AppendedEntry
  <2>7. leader' = FALSE /\ oldLogs' = IF leader THEN oldLogs \cup {log} ELSE oldLogs
    BY <1>5 DEF FollowerAppend
  <2>8. OldTerms'
    <3>1. ASSUME NEW g \in oldLogs', NEW j \in 1 .. Len(g)
          PROVE  g[j].term < t
      <4>1. g[j].term \in Nat
        BY <2>7, EntryTerms
      <4>2. CASE g \in oldLogs
        BY <2>3, <4>1, <4>2 DEF LogMatch, OldTerms
      <4>3. CASE leader /\ g = log
        BY <2>3, <4>1, <4>3 DEF LogMatch, LogTerms
      <4>4. QED
        BY <2>7, <4>2, <4>3
    <3>2. QED
      BY <2>3, <3>1 DEF OldTerms
  <2>9. LogTerms'
    BY <2>3, <2>6 DEF LogTerms
  <2>10. PropTerms'
    <3>1. \A c \in Cmds : prop[c] # NoProp => prop[c].index >= 1 /\ prop[c].term < t
      BY <2>4, <2>5 DEF LogMatch, PropTerms
    <3>2. QED
      BY <1>1, <1>2, <2>3, <2>7, <3>1 DEF PropTerms
  <2>11. PropsMatch'
    <3>1. \A g \in oldLogs' : g \in oldLogs \cup {log}
      BY <2>7
    <3>2. ASSUME NEW c \in Cmds, prop[c] # NoProp, NEW g \in oldLogs' \cup {log'},
                 At(g, c)
          PROVE  g[prop[c].index].cmd = c
      BY <2>6, <3>1, <3>2 DEF LogMatch, PropsMatch
    <3>3. QED
      BY <1>1, <3>2 DEF PropsMatch, At
  <2>12. QED
    BY <2>8, <2>9, <2>10, <2>11 DEF LogMatch
<1>6. CASE ReceiveSnapshot
  <2>1. PICK s \in SnapIndexes :
        /\ s > commit
        /\ log' = [i \in 1 .. s |-> IF i <= commit THEN log[i]
                                                 ELSE Entry(term, Foreign)]
    BY <1>6 DEF ReceiveSnapshot
  <2>2. s \in Nat /\ DOMAIN log' = 1 .. s /\ Len(log') = s
    <3>1. s \in Nat
      BY BoundsAssumption
    <3>2. QED
      BY <2>1, <3>1
  <2>3. ~leader /\ UNCHANGED <<term, leader, oldLogs>>
    BY <1>6 DEF ReceiveSnapshot
  <2>4. ASSUME NEW j \in 1 .. s
        PROVE  /\ j <= commit => log'[j] = log[j] /\ j \in 1 .. Len(log)
               /\ j > commit => log'[j] = Entry(term, Foreign)
    BY <2>1, <2>2
  <2>5. LogTerms'
    <3>1. ASSUME NEW j \in 1 .. s
          PROVE  log'[j].term <= term
      <4>1. CASE j <= commit
        BY <2>4, <4>1 DEF LogMatch, LogTerms
      <4>2. CASE j > commit
        BY <2>4, <4>2 DEF Entry
      <4>3. QED
        BY <4>1, <4>2
    <3>2. QED
      BY <2>2, <2>3, <3>1 DEF LogTerms
  <2>6. ASSUME NEW c \in Cmds, prop[c] # NoProp, At(log', c)
        PROVE  log'[prop[c].index].cmd = c
    <3>1. prop[c].index \in 1 .. s /\ prop[c].term < term
      BY <1>2, <2>2, <2>3, <2>6 DEF At, LogMatch, PropTerms
    <3>2. prop[c].index <= commit
      <4>1. log'[prop[c].index].term # term
        BY <2>6, <3>1 DEF At
      <4>2. prop[c].index > commit => log'[prop[c].index].term = term
        BY <2>4, <3>1 DEF Entry
      <4>3. QED
        BY <3>1, <4>1, <4>2
    <3>3. log'[prop[c].index] = log[prop[c].index] /\ prop[c].index <= Len(log)
      BY <2>4, <3>1, <3>2
    <3>4. At(log, c)
      BY <2>6, <3>3 DEF At
    <3>5. QED
      BY <2>6, <3>3, <3>4 DEF LogMatch, PropsMatch
  <2>7. PropsMatch'
    <3>1. ASSUME NEW c \in Cmds, prop[c] # NoProp, NEW g \in oldLogs \cup {log'},
                 At(g, c)
          PROVE  g[prop[c].index].cmd = c
      BY <2>6, <3>1 DEF LogMatch, PropsMatch
    <3>2. QED
      BY <1>1, <2>3, <3>1 DEF PropsMatch, At
  <2>8. OldTerms' /\ PropTerms'
    BY <1>1, <2>3 DEF LogMatch, OldTerms, PropTerms
  <2>9. QED
    BY <2>5, <2>7, <2>8 DEF LogMatch
<1>7. QED
  BY <1>3, <1>4, <1>5, <1>6 DEF Raft

(* So does a proposal: it takes an index that this peer has not used in its  *)
(* term.                                                                     *)
LEMMA ProposeKeepsLogMatch ==
  ASSUME TypeInv, LogMatch, NEW d \in Cmds, ProposeAccepted(d)
  PROVE  LogMatch'
<1> USE Numbers
<1> DEFINE e == Entry(term, d)
           n == Len(log) + 1
<1>1. /\ leader /\ log' = Append(log, e)
      /\ prop' = [prop EXCEPT ![d] = [index |-> n, term |-> term]]
      /\ prop[d] = NoProp
      /\ UNCHANGED <<term, leader, oldLogs>>
  BY DEF ProposeAccepted
<1>2. /\ Len(log') = n /\ log'[n] = e
      /\ \A j \in 1 .. Len(log) : log'[j] = log[j]
  <2>1. log \in Seq(Entries) /\ term \in Nat
    BY DEF TypeInv, TypeOK, RaftTypeOK
  <2>2. e \in Entries
    BY <2>1 DEF Entry, Entries
  <2> HIDE DEF e
  <2>3. QED
    BY <1>1, <2>1, <2>2, AppendProperties
<1>3. \A c \in Cmds : prop[c].term \in Nat /\ prop[c].index \in Nat
  BY DEF TypeInv, TypeOK, HistoryTypeOK, Indexes
<1>4. /\ prop'[d].index = n /\ prop'[d].term = term
      /\ \A c \in Cmds : c # d => prop'[c] = prop[c]
  BY <1>1 DEF TypeInv, TypeOK, HistoryTypeOK
<1>5. OldTerms'
  BY <1>1 DEF LogMatch, OldTerms
<1>6. LogTerms'
  <2>1. ASSUME NEW j \in 1 .. n PROVE log'[j].term <= term
    BY <1>2 DEF LogMatch, LogTerms, Entry
  <2>2. QED
    BY <1>1, <1>2, <2>1 DEF LogTerms
<1>7. PropTerms'
  <2>1. ASSUME NEW c \in Cmds, prop'[c] # NoProp
        PROVE  /\ prop'[c].index >= 1 /\ prop'[c].term <= term
               /\ prop'[c].index <= n \/ prop'[c].term # term
    <3>1. CASE c = d
      BY <1>4, <3>1
    <3>2. CASE c # d
      BY <1>1, <1>3, <1>4, <2>1, <3>2 DEF LogMatch, PropTerms
    <3>3. QED
      BY <3>1, <3>2
  <2>2. QED
    BY <1>1, <1>2, <2>1 DEF PropTerms
<1>8. PropsMatch'
  <2>1. ASSUME NEW c \in Cmds, prop'[c] # NoProp, NEW h \in oldLogs \cup {log'},
               prop'[c].index <= Len(h), h[prop'[c].index].term = prop'[c].term
        PROVE  h[prop'[c].index].cmd = c
    <3>1. CASE c = d
      <4>1. CASE h = log'
        BY <1>2, <1>4, <3>1, <4>1 DEF Entry
      <4>2. CASE h \in oldLogs
        <5>1. n \in 1 .. Len(h) /\ h[n].term = term
          <6>1. Len(h) \in Nat
            BY <4>2, LenProperties DEF TypeInv, TypeOK, RaftTypeOK
          <6>2. QED
            BY <1>4, <2>1, <3>1, <6>1
        <5>2. h[n].term < term
          BY <4>2, <5>1 DEF LogMatch, OldTerms
        <5>3. QED
          BY <5>1, <5>2
      <4>3. QED
        BY <4>1, <4>2
    <3>2. CASE c # d
      <4>1. prop'[c] = prop[c] /\ prop[c] # NoProp
        BY <1>4, <2>1, <3>2
      <4>2. CASE h \in oldLogs
        BY <2>1, <4>1, <4>2 DEF LogMatch, PropsMatch, At
      <4>3. CASE h = log'
        <5>1. prop[c].index \in 1 .. n
          BY <1>2, <1>3, <2>1, <4>1, <4>3 DEF LogMatch, PropTerms
        <5>2. prop[c].index <= Len(log)
          <6>1. CASE prop[c].index = n
            <7>1. prop[c].term = term
              BY <1>2, <2>1, <4>1, <4>3, <6>1 DEF Entry
            <7>2. QED
              BY <1>1, <4>1, <7>1 DEF LogMatch, PropTerms
          <6>2. QED
            BY <5>1, <6>1
        <5>3. At(log, c) /\ log'[prop[c].index] = log[prop[c].index]
          BY <1>2, <2>1, <4>1, <4>3, <5>1, <5>2 DEF At
        <5>4. QED
          BY <4>1, <4>3, <5>3 DEF LogMatch, PropsMatch
      <4>4. QED
        BY <4>2, <4>3
    <3>3. QED
      BY <3>1, <3>2
  <2>2. QED
    BY <1>1, <2>1 DEF PropsMatch, At
<1> HIDE DEF e, n
<1>9. QED
  BY <1>5, <1>6, <1>7, <1>8 DEF LogMatch

-----------------------------------------------------------------------------
(* What no step takes back: a proposal, a committed entry, an executed entry. *)
PropKept == \A c \in Cmds : prop[c] # NoProp => prop'[c] = prop[c]
PrefixKept == commit <= commit' /\ \A j \in 1 .. commit : log'[j] = log[j]
DataKept == /\ disk.data \subseteq disk'.data
            /\ wb.data \cup disk.data \subseteq wb'.data \cup disk'.data
Kept == PropKept /\ PrefixKept /\ DataKept

(* Raft never rewrites the committed part of the log.                        *)
LEMMA RaftKeepsPrefix ==
  ASSUME TypeInv, Raft
  PROVE  PrefixKept
<1> USE Numbers
<1>0. log \in Seq(Entries) /\ Len(log) \in Nat
  BY LenProperties DEF TypeInv, TypeOK, RaftTypeOK
<1>1. CASE AdvanceCommit
  BY <1>1 DEF AdvanceCommit, PrefixKept
<1>2. CASE BecomeLeader
  <2>1. log' = Append(log, Entry(term + 1, Noop)) /\ commit' = commit
    BY <1>2 DEF BecomeLeader
  <2>2. Entry(term + 1, Noop) \in Entries
    BY DEF Entry, Entries
  <2>3. \A j \in 1 .. Len(log) : log'[j] = log[j]
    BY <1>0, <2>1, <2>2, AppendProperties
  <2>4. QED
    BY <1>0, <2>1, <2>3 DEF PrefixKept
<1>3. CASE FollowerAppend
  <2>1. /\ commit <= Len(log') /\ SubSeq(log', 1, commit) = SubSeq(log, 1, commit)
        /\ commit' = commit
    BY <1>3 DEF FollowerAppend
  <2>2. log' \in Seq(Entries) /\ Len(log') \in Nat
    <3>1. log' \in Seq(Entries)
      BY <1>3, RaftKeepsTypes DEF Raft, TypeInv, TypeOK, RaftTypeOK
    <3>2. QED
      BY <3>1, LenProperties
  <2>3. ASSUME NEW h \in Seq(Entries), commit <= Len(h), NEW j \in 1 .. commit
        PROVE  SubSeq(h, 1, commit)[j] = h[j]
    <3>1. Len(h) \in Nat /\ \A k \in 1 .. commit : h[k] \in Entries
      BY <2>3, LenProperties, ElementOfSeq
    <3>2. \A k \in 1 .. commit - 1 + 1 : SubSeq(h, 1, commit)[k] = h[1 + k - 1]
      BY <3>1, SubSeqProperties
    <3>3. QED
      BY <3>2
  <2>4. \A j \in 1 .. commit : log'[j] = log[j]
    <3>1. TAKE j \in 1 .. commit
    <3>2. SubSeq(log, 1, commit)[j] = log[j]
      BY <1>0, <2>3
    <3>3. SubSeq(log', 1, commit)[j] = log'[j]
      BY <2>1, <2>2, <2>3
    <3>4. QED
      BY <2>1, <3>2, <3>3
  <2>5. QED
    BY <2>1, <2>4 DEF PrefixKept
<1>4. CASE ReceiveSnapshot
  <2>1. PICK s \in SnapIndexes :
        /\ s > commit /\ commit' = s
        /\ log' = [i \in 1 .. s |-> IF i <= commit THEN log[i]
                                                 ELSE Entry(term, Foreign)]
    BY <1>4 DEF ReceiveSnapshot
  <2>2. s \in Nat
    BY BoundsAssumption
  <2>3. QED
    BY <2>1, <2>2 DEF PrefixKept
<1>5. QED
  BY <1>1, <1>2, <1>3, <1>4 DEF Raft

(* writeToDB keeps what was executed, and so does the execution of an entry. *)
LEMMA WriteKeepsData ==
  ASSUME NEW w, w.data = wb.data, WriteToDB(w)
  PROVE  DataKept /\ wb.data \cup disk.data \subseteq disk'.data
  BY DEF WriteToDB, DataKept

(* The apply worker's steps keep all three.                                  *)
LEMMA ApplyWorkerKeeps ==
  ASSUME TypeInv, ApplyWorker
  PROVE  Kept
<1>1. ApplyFrame
  BY ApplyWorkerFrame
<1>2. UNCHANGED <<prop, commit, log>>
  BY <1>1 DEF ApplyFrame, raftVars
<1>3. PropKept /\ PrefixKept
  BY <1>2, Numbers DEF PropKept, PrefixKept
<1>4. CASE UNCHANGED <<wb, disk>>
  BY <1>3, <1>4 DEF Kept, DataKept
<1>5. CASE TakeBatch \/ HandleProposal \/ HandleRegistration \/ HandleApply
  BY <1>4, <1>5 DEF TakeBatch, HandleProposal, HandleRegistration, HandleApply
<1>6. CASE HandleDestroy \/ FinishRemoved \/ Flush
  <2>1. UNCHANGED <<wb, disk>> \/ WriteToDB(wb)
    BY <1>6 DEF HandleDestroy, FinishRemoved, Flush
  <2>2. QED
    BY <1>3, <1>4, <2>1, WriteKeepsData DEF Kept
<1>7. wb \in Wbs
  BY DEF TypeInv, TypeOK, ContextTypeOK
<1>8. CASE FinishApply
  <2>1. wb' = WithApplyState(wb) /\ disk' = disk
    BY <1>8 DEF FinishApply
  <2>2. wb'.data = wb.data
    BY <1>7, <2>1 DEF WithApplyState, Wbs
  <2>3. QED
    BY <1>3, <2>1, <2>2 DEF Kept, DataKept
<1>9. ASSUME NEW i \in 1 .. MaxIndex, ApplyNoop(i) \/ ApplyNormal(i) \/ ApplyConfChange(i)
      PROVE  Kept
  <2>1. disk' = disk /\ (wb' = wb \/ \E ok \in BOOLEAN : Executed(i, ok))
    <3>1. CASE ApplyNoop(i)
      BY <3>1 DEF ApplyNoop
    <3>2. CASE ApplyNormal(i)
      BY <3>2 DEF ApplyNormal
    <3>3. CASE ApplyConfChange(i)
      BY <3>3 DEF ApplyConfChange
    <3>4. QED
      BY <1>9, <3>1, <3>2, <3>3
  <2>2. wb.data \subseteq wb'.data
    BY <1>7, <2>1 DEF Executed, Wbs
  <2>3. QED
    BY <1>3, <2>1, <2>2 DEF Kept, DataKept
<1>10. ASSUME NEW i \in 1 .. MaxIndex, CommitBefore(i)
       PROVE  Kept
  <2>1. PICK w \in {wb, WithApplyState(wb)} : WriteToDB(w)
    BY <1>10 DEF CommitBefore
  <2>2. w.data = wb.data
    BY <1>7, <2>1 DEF WithApplyState, Wbs
  <2>3. QED
    BY <1>3, <2>1, <2>2, WriteKeepsData DEF Kept
<1>11. CASE ApplyEntry
  BY <1>9, <1>10, <1>11 DEF ApplyEntry
<1>12. QED
  BY <1>5, <1>6, <1>8, <1>11 DEF ApplyWorker

(* So do all others.                                                         *)
LEMMA NextKeeps ==
  ASSUME TypeInv, [Next]_vars
  PROVE  Kept
<1>1. CASE UNCHANGED <<prop, commit, log>> /\ DataKept
  BY <1>1, Numbers DEF Kept, PropKept, PrefixKept
<1>2. UNCHANGED <<wb, disk>> => DataKept
  BY DEF DataKept
<1>3. CASE Raft
  <2>1. UNCHANGED <<prop, wb, disk>>
    BY <1>3 DEF Raft, BecomeLeader, FollowerAppend, AdvanceCommit, ReceiveSnapshot,
       RaftFrame, ctxVars
  <2>2. QED
    BY <1>2, <1>3, <2>1, RaftKeepsPrefix DEF Kept, PropKept
<1>4. ASSUME NEW d \in Cmds, ProposeAccepted(d)
      PROVE  Kept
  <2>1. /\ prop' = [prop EXCEPT ![d] = [index |-> Len(log) + 1, term |-> term]]
        /\ prop[d] = NoProp /\ log' = Append(log, Entry(term, d))
        /\ UNCHANGED <<commit, wb, disk>>
    BY <1>4 DEF ProposeAccepted, ctxVars
  <2>2. PropKept
    <3>1. \A c \in Cmds : c # d => prop'[c] = prop[c]
      <4>1. DOMAIN prop = Cmds
        BY DEF TypeInv, TypeOK, HistoryTypeOK
      <4>2. QED
        BY <2>1, <4>1
    <3>2. QED
      BY <2>1, <3>1 DEF PropKept
  <2>3. \A j \in 1 .. Len(log) : log'[j] = log[j]
    <3>1. log \in Seq(Entries) /\ term \in Nat
      BY DEF TypeInv, TypeOK, RaftTypeOK
    <3>2. Entry(term, d) \in Entries
      BY <3>1 DEF Entry, Entries
    <3>3. PICK e \in Entries : log' = Append(log, e)
      BY <2>1, <3>2
    <3>4. \A j \in 1 .. Len(log) : Append(log, e)[j] = log[j]
      BY <3>1, AppendProperties
    <3>5. QED
      BY <3>3, <3>4
  <2>4. PrefixKept
    <3>1. commit' = commit /\ commit \in Nat /\ Len(log) \in Nat /\ commit <= Len(log)
      BY <2>1, Numbers
    <3>2. QED
      BY <2>3, <3>1 DEF PrefixKept
  <2>5. QED
    BY <1>2, <2>1, <2>2, <2>4 DEF Kept
<1>5. CASE \E d \in Cmds : ProposeRefused(d)
  BY <1>1, <1>2, <1>5 DEF ProposeRefused, raftVars, ctxVars
<1>6. CASE GCPeer \/ RaftBaseTick \/ ApplyResult \/ RegionWorkerApplies
  <2>1. CASE GCPeer \/ RaftBaseTick \/ RegionWorkerApplies
    BY <1>1, <1>2, <2>1 DEF GCPeer, RaftBaseTick, RegionWorkerApplies, ctxVars, raftVars
  <2>2. CASE ApplyResult
    BY <1>1, <1>2, <2>2 DEF ApplyResult, ApplyResultDestroys, ApplyResultAdvances,
       ApplyResultPanics, ctxVars, raftVars
  <2>3. QED
    BY <1>6, <2>1, <2>2
<1>7. CASE EndBatchNotReady \/ EndBatchNoReady \/ EndBatchEntries
  <2>1. UNCHANGED <<prop, commit, log, wb, disk>>
    BY <1>7 DEF EndBatchNotReady, EndBatchNoReady, EndBatchEntries, ctxVars, raftVars
  <2>2. QED
    BY <1>1, <1>2, <2>1
<1>8. CASE EndBatchSnapshot
  <2>1. UNCHANGED <<prop, commit, log, wb>>
    BY <1>8 DEF EndBatchSnapshot, ctxVars
  <2>2. disk'.data = disk.data
    BY <1>8 DEF EndBatchSnapshot, TypeInv, TypeOK, ContextTypeOK, Wbs
  <2>3. QED
    BY <1>1, <2>1, <2>2 DEF DataKept
<1>9. CASE UNCHANGED vars
  BY <1>1, <1>2, <1>9 DEF vars, ctxVars, raftVars
<1>10. QED
  BY <1>3, <1>4, <1>5, <1>6, <1>7, <1>8, <1>9, ApplyWorkerKeeps DEF Next, EndBatch

(* Log matching is only touched by raft and by proposals.                    *)
LEMMA NextLogMatch ==
  ASSUME TypeInv, LogMatch, [Next]_vars
  PROVE  LogMatch'
<1>1. CASE ApplyWorker
  <2>1. ApplyFrame
    BY <1>1, ApplyWorkerFrame
  <2>2. QED
    BY <2>1, LogMatchStutter DEF ApplyFrame, raftVars
<1>2. CASE \/ \E d \in Cmds : ProposeRefused(d)
           \/ GCPeer \/ RaftBaseTick \/ ApplyResult \/ EndBatch \/ RegionWorkerApplies
           \/ UNCHANGED vars
  <2>1. UNCHANGED <<term, leader, log, oldLogs, prop>>
    <3>1. CASE \/ \E d \in Cmds : ProposeRefused(d)
               \/ GCPeer \/ RaftBaseTick \/ RegionWorkerApplies \/ UNCHANGED vars
      BY <3>1 DEF ProposeRefused, GCPeer, RaftBaseTick, RegionWorkerApplies, vars,
         raftVars
    <3>2. CASE ApplyResult
      BY <3>2 DEF ApplyResult, ApplyResultDestroys, ApplyResultAdvances,
         ApplyResultPanics, raftVars
    <3>3. CASE EndBatch
      BY <3>3 DEF EndBatch, EndBatchNotReady, EndBatchNoReady, EndBatchSnapshot,
         EndBatchEntries, raftVars
    <3>4. QED
      BY <1>2, <3>1, <3>2, <3>3
  <2>2. QED
    BY <2>1, LogMatchStutter
<1>3. QED
  BY <1>1, <1>2, RaftKeepsLogMatch, ProposeKeepsLogMatch DEF Next
=============================================================================
