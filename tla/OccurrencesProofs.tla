------------------------- MODULE OccurrencesProofs -------------------------
(***************************************************************************)
(* How the number of occurrences of a command changes under the operations *)
(* on queues.                                                              *)
(***************************************************************************)
EXTENDS Occurrences, FiniteSetTheorems, SequenceTheorems, TLAPS

(* The places of a command in a queue are a finite set, and their number is *)
(* a natural number.                                                        *)
LEMMA OccType ==
  ASSUME NEW S, NEW s \in Seq(S), NEW c
  PROVE  IsFiniteSet(Places(c, s)) /\ Occ(c, s) \in Nat
<1>1. Places(c, s) \in SUBSET (1 .. Len(s))
  BY LenProperties DEF Places
<1>2. IsFiniteSet(1 .. Len(s))
  BY FS_Interval, LenProperties
<1>3. IsFiniteSet(Places(c, s))
  BY <1>1, <1>2, FS_Subset
<1>4. QED
  BY <1>3, FS_CardinalityType DEF Occ

(* The empty queue holds no command.                                        *)
LEMMA OccEmpty ==
  ASSUME NEW c
  PROVE  Occ(c, <<>>) = 0
<1>1. Places(c, <<>>) = {}
  BY DEF Places
<1>2. QED
  BY <1>1, FS_EmptySet DEF Occ

(* A queue that some place of which holds c counts it.                      *)
LEMMA OccPositive ==
  ASSUME NEW S, NEW s \in Seq(S), NEW c
  PROVE  Occ(c, s) = 0 <=> \A i \in 1 .. Len(s) : s[i].cmd # c
<1>1. Occ(c, s) = 0 <=> Places(c, s) = {}
  BY OccType, FS_EmptySet DEF Occ
<1>2. QED
  BY <1>1, LenProperties DEF Places

(* A queue of one element.                                                  *)
LEMMA OccSingle ==
  ASSUME NEW c, NEW x
  PROVE  Occ(c, <<x>>) = IF x.cmd = c THEN 1 ELSE 0
<1>1. Places(c, <<x>>) = IF x.cmd = c THEN {1} ELSE {}
  BY DEF Places
<1>2. QED
  BY <1>1, FS_EmptySet, FS_Singleton DEF Occ

(* Occurrences add up under concatenation.                                  *)
LEMMA OccConcat ==
  ASSUME NEW S, NEW s \in Seq(S), NEW t \in Seq(S), NEW c
  PROVE  Occ(c, s \o t) = Occ(c, s) + Occ(c, t)
<1> DEFINE P == Places(c, s)
           Q == Places(c, t)
           R == {i \in Len(s) + 1 .. Len(s) + Len(t) : t[i - Len(s)].cmd = c}
           f == [i \in Q |-> i + Len(s)]
<1>1. /\ Len(s) \in Nat /\ Len(t) \in Nat
      /\ DOMAIN s = 1 .. Len(s) /\ DOMAIN t = 1 .. Len(t)
  BY LenProperties
<1>2. Places(c, s \o t) = P \cup R
  <2>1. /\ DOMAIN (s \o t) = 1 .. Len(s) + Len(t)
        /\ \A i \in 1 .. Len(s) + Len(t) :
              (s \o t)[i] = IF i <= Len(s) THEN s[i] ELSE t[i - Len(s)]
    BY ConcatProperties, LenProperties
  <2>2. QED
    BY <1>1, <2>1 DEF Places
<1>3. P \cap R = {}
  BY <1>1 DEF Places
<1>4. IsFiniteSet(P) /\ IsFiniteSet(Q)
  BY OccType
<1>5. f \in Bijection(Q, R)
  <2>1. f \in [Q -> R]
    BY <1>1 DEF Places
  <2>2. \A i, j \in Q : f[i] = f[j] => i = j
    BY <1>1 DEF Places
  <2>3. \A k \in R : \E i \in Q : f[i] = k
    <3> TAKE k \in R
    <3>1. k - Len(s) \in Q /\ f[k - Len(s)] = k
      BY <1>1 DEF Places
    <3>2. QED
      BY <3>1
  <2>4. QED
    BY <2>1, <2>2, <2>3 DEF Bijection, Injection, Surjection, IsInjective
<1>6. IsFiniteSet(R) /\ Cardinality(R) = Cardinality(Q)
  <2>1. ExistsBijection(Q, R)
    BY <1>5 DEF ExistsBijection
  <2>2. QED
    BY <1>4, <2>1, FS_Bijection
<1>7. Cardinality(P) \in Nat /\ Cardinality(R) \in Nat
  BY <1>4, <1>6, FS_CardinalityType
<1>8. Cardinality(P \cup R) = Cardinality(P) + Cardinality(R)
  <2> HIDE DEF P, R
  <2>1. Cardinality(P \cup R)
          = Cardinality(P) + Cardinality(R) - Cardinality(P \cap R)
    BY <1>4, <1>6, FS_Union
  <2>2. Cardinality(P \cap R) = 0
    BY <1>3, FS_EmptySet
  <2>3. QED
    BY <1>7, <2>1, <2>2
<1>9. QED
  BY <1>2, <1>6, <1>8 DEF Occ

(* Appending an element.                                                    *)
LEMMA OccAppend ==
  ASSUME NEW S, NEW s \in Seq(S), NEW x \in S, NEW c
  PROVE  Occ(c, Append(s, x)) = Occ(c, s) + (IF x.cmd = c THEN 1 ELSE 0)
<1>1. Append(s, x) = s \o <<x>>
  BY AppendIsConcat
<1>2. <<x>> \in Seq(S)
  OBVIOUS
<1>3. Occ(c, s \o <<x>>) = Occ(c, s) + Occ(c, <<x>>)
  BY <1>2, OccConcat
<1>4. QED
  BY <1>1, <1>3, OccSingle

(* Taking the first element.                                                *)
LEMMA OccHeadTail ==
  ASSUME NEW S, NEW s \in Seq(S), s # <<>>, NEW c
  PROVE  Occ(c, s) = (IF Head(s).cmd = c THEN 1 ELSE 0) + Occ(c, Tail(s))
<1>1. <<Head(s)>> \in Seq(S) /\ Tail(s) \in Seq(S)
  BY HeadTailProperties
<1>2. s = <<Head(s)>> \o Tail(s)
  <2>1. /\ Len(Tail(s)) = Len(s) - 1 /\ Len(s) \in Nat \ {0}
        /\ \A i \in 1 .. Len(Tail(s)) : Tail(s)[i] = s[i + 1]
    BY HeadTailProperties, EmptySeq
  <2>2. /\ <<Head(s)>> \o Tail(s) \in Seq(S)
        /\ Len(<<Head(s)>> \o Tail(s)) = 1 + Len(Tail(s))
        /\ \A i \in 1 .. 1 + Len(Tail(s)) : (<<Head(s)>> \o Tail(s))[i] =
               IF i <= 1 THEN <<Head(s)>>[i] ELSE Tail(s)[i - 1]
    BY <1>1, ConcatProperties
  <2>3. \A i \in 1 .. Len(s) : s[i] = (<<Head(s)>> \o Tail(s))[i]
    BY <2>1, <2>2
  <2>4. QED
    BY <2>1, <2>2, <2>3, SeqEqual
<1>3. Occ(c, s) = Occ(c, <<Head(s)>>) + Occ(c, Tail(s))
  BY <1>1, <1>2, OccConcat
<1>4. QED
  BY <1>3, OccSingle

(* Cutting a queue after n elements.                                        *)
LEMMA OccSplit ==
  ASSUME NEW S, NEW s \in Seq(S), NEW n \in 0 .. Len(s), NEW c
  PROVE  /\ SubSeq(s, 1, n) \in Seq(S) /\ SubSeq(s, n + 1, Len(s)) \in Seq(S)
         /\ Occ(c, s) = Occ(c, SubSeq(s, 1, n)) + Occ(c, SubSeq(s, n + 1, Len(s)))
<1>1. Len(s) \in Nat /\ \A i \in 1 .. Len(s) : s[i] \in S
  BY LenProperties, ElementOfSeq
<1>2. SubSeq(s, 1, n) \in Seq(S) /\ SubSeq(s, n + 1, Len(s)) \in Seq(S)
  BY <1>1, SubSeqProperties
<1>3. s = SubSeq(s, 1, n) \o SubSeq(s, n + 1, Len(s))
  <2>1. /\ 1 \in 1 .. Len(s) + 1
        /\ n \in 1 - 1 .. Len(s)
        /\ Len(s) \in n .. Len(s)
    BY <1>1
  <2>2. SubSeq(s, 1, n) \o SubSeq(s, n + 1, Len(s)) = SubSeq(s, 1, Len(s))
    BY <2>1, ConcatAdjacentSubSeq
  <2>3. QED
    BY <2>2, SubSeqFull
<1>4. QED
  BY <1>2, <1>3, OccConcat

(* Pairing the commands with an answer.                                     *)
LEMMA OccWith ==
  ASSUME NEW S, NEW s \in Seq(S), NEW r, NEW c
  PROVE  Occ(c, With(s, r)) = Occ(c, s)
<1>1. Places(c, With(s, r)) = Places(c, s)
  BY DEF Places, With
<1>2. QED
  BY <1>1 DEF Occ

(* A queue is the part before a place, the command there, and the rest.      *)
LEMMA OccSplitAt ==
  ASSUME NEW S, NEW s \in Seq(S), NEW n \in Nat, n < Len(s), NEW c
  PROVE  /\ s[n + 1] \in S
         /\ SubSeq(s, n + 2, Len(s)) \in Seq(S)
         /\ Occ(c, s) = Occ(c, SubSeq(s, 1, n)) + (IF s[n + 1].cmd = c THEN 1 ELSE 0)
                          + Occ(c, SubSeq(s, n + 2, Len(s)))
<1> DEFINE p == SubSeq(s, 1, n)
           q == SubSeq(s, 1, n + 1)
           r == SubSeq(s, n + 1 + 1, Len(s))
<1>1. Len(s) \in Nat /\ \A i \in 1 .. Len(s) : s[i] \in S
  BY LenProperties, ElementOfSeq
<1>2. n + 1 \in 0 .. Len(s) /\ n \in 0 .. Len(s) /\ n + 1 + 1 = n + 2 /\ s[n + 1] \in S
  BY <1>1
<1>3. q \in Seq(S) /\ r \in Seq(S) /\ Occ(c, s) = Occ(c, q) + Occ(c, r)
  BY <1>2, OccSplit
<1>4. p \in Seq(S) /\ Len(p) = n /\ \A i \in 1 .. n : p[i] = s[i]
  <2>1. /\ p \in Seq(S) /\ Len(p) = (IF 1 <= n THEN n - 1 + 1 ELSE 0)
        /\ \A i \in 1 .. n - 1 + 1 : p[i] = s[1 + i - 1]
    BY <1>1, <1>2, SubSeqProperties
  <2>2. QED
    BY <2>1
<1>5. Len(q) = n + 1 /\ \A i \in 1 .. n + 1 : q[i] = s[i]
  <2>1. /\ Len(q) = (IF 1 <= n + 1 THEN n + 1 - 1 + 1 ELSE 0)
        /\ \A i \in 1 .. n + 1 - 1 + 1 : q[i] = s[1 + i - 1]
    BY <1>1, <1>2, SubSeqProperties
  <2>2. QED
    BY <2>1
<1>6. /\ Append(p, s[n + 1]) \in Seq(S) /\ Len(Append(p, s[n + 1])) = n + 1
      /\ \A i \in 1 .. n : Append(p, s[n + 1])[i] = p[i]
      /\ Append(p, s[n + 1])[n + 1] = s[n + 1]
  BY <1>2, <1>4, AppendProperties
<1>7. q = Append(p, s[n + 1])
  <2> HIDE DEF p, q
  <2>1. \A i \in 1 .. n + 1 : q[i] = Append(p, s[n + 1])[i]
    BY <1>4, <1>5, <1>6
  <2>2. QED
    BY <1>3, <1>5, <1>6, <2>1, SeqEqual
<1>8. Occ(c, q) = Occ(c, p) + (IF s[n + 1].cmd = c THEN 1 ELSE 0)
  <2> HIDE DEF p, q
  <2>1. Occ(c, Append(p, s[n + 1])) = Occ(c, p) + (IF s[n + 1].cmd = c THEN 1 ELSE 0)
    BY <1>2, <1>4, OccAppend
  <2>2. QED
    BY <1>7, <2>1
<1>9. SubSeq(s, n + 2, Len(s)) = r
  BY <1>2
<1> HIDE DEF p, q, r
<1>10. QED
  BY <1>2, <1>3, <1>8, <1>9 DEF p
=============================================================================
