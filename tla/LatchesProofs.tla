--------------------------- MODULE LatchesProofs ---------------------------
(***************************************************************************)
(* Proofs about Latches, for any set of requests and any set of hashes:    *)
(* the latches exclude each other and waiting follows the order of the     *)
(* hashes.                                                                 *)
(***************************************************************************)
EXTENDS Latches, TLAPS

(* acquire returns with every hash passed; an idle goroutine has none.      *)
LoopsComplete ==
    \A p \in Procs : /\ pc[p] = "holding" => pos[p] = keys[p]
                     /\ pc[p] = "idle" => keys[p] = {}

(* The loops pass the hashes in increasing order.                           *)
PosBelow ==
    \A p \in Procs : \A g \in pos[p], h \in keys[p] \ pos[p] : g < h

(* What release may have found before its first deletion.                   *)
FoundOwn == \A p \in Procs : found[p] \in {NoProc, p}

(* A blocked request is at a hash that the other one took and, unless it is *)
(* releasing, still has.                                                    *)
WaitsForOwner ==
    \A p, q \in Procs :
        pc[p] = "waiting" /\ waitOn[p] = q
            => /\ pc[q] # "idle"
               /\ \E h \in keys[q] : /\ IsNext(p, h)
                                     /\ pc[q] # "releasing" => h \in pos[q]

IInv ==
    /\ TypeOK
    /\ LoopsComplete
    /\ SlotsAreOwned
    /\ PosBelow
    /\ FoundOwn
    /\ WaitsForOwner

USE HashesAssumption, NoProcAssumption

(* The empty latches of newLatches satisfy the inductive invariant.         *)
LEMMA InitIInv == Init => IInv
  BY DEF Init, IInv, TypeOK, PCs, LoopsComplete, SlotsAreOwned, Owned,
         PosBelow, FoundOwn, WaitsForOwner

(* Every step of acquire, acquireOne and release keeps the inductive        *)
(* invariant.                                                               *)
LEMMA NextIInv == IInv /\ [Next]_vars => IInv'
<1> SUFFICES ASSUME IInv, [Next]_vars PROVE IInv'
  OBVIOUS
<1> USE DEF IInv
<1>1. ASSUME NEW p \in Procs, NEW ks \in SUBSET Hashes, StartAcquire(p, ks)
      PROVE  IInv'
  <2>1. TypeOK'
    BY <1>1 DEF StartAcquire, TypeOK, PCs, LoopsComplete
  <2>2. LoopsComplete'
    BY <1>1 DEF StartAcquire, TypeOK, LoopsComplete
  <2>3. SlotsAreOwned'
    BY <1>1 DEF StartAcquire, SlotsAreOwned, Owned
  <2>4. PosBelow'
    BY <1>1 DEF StartAcquire, TypeOK, LoopsComplete, PosBelow
  <2>5. FoundOwn'
    BY <1>1 DEF StartAcquire, FoundOwn
  <2>6. WaitsForOwner'
    BY <1>1 DEF StartAcquire, WaitsForOwner, IsNext
  <2>7. QED
    BY <2>1, <2>2, <2>3, <2>4, <2>5, <2>6
<1>2. ASSUME NEW p \in Procs, NEW h \in Hashes, TakeSlot(p, h)
      PROVE  IInv'
  <2>1. TypeOK'
    BY <1>2 DEF TakeSlot, TypeOK, IsNext
  <2>2. LoopsComplete'
    BY <1>2 DEF TakeSlot, LoopsComplete
  <2>3. SlotsAreOwned'
    BY <1>2 DEF TakeSlot, TypeOK, SlotsAreOwned, Owned
  <2>4. PosBelow'
    BY <1>2 DEF TakeSlot, TypeOK, PosBelow, IsNext
  <2>5. FoundOwn'
    BY <1>2 DEF TakeSlot, FoundOwn
  <2>6. WaitsForOwner'
    BY <1>2 DEF TakeSlot, WaitsForOwner, IsNext
  <2>7. QED
    BY <2>1, <2>2, <2>3, <2>4, <2>5, <2>6
<1>3. ASSUME NEW p \in Procs, NEW h \in Hashes, StartWait(p, h)
      PROVE  IInv'
  <2>1. TypeOK'
    BY <1>3 DEF StartWait, TypeOK, PCs
  <2>2. LoopsComplete'
    BY <1>3 DEF StartWait, LoopsComplete
  <2>3. SlotsAreOwned'
    BY <1>3 DEF StartWait, SlotsAreOwned, Owned
  <2>4. PosBelow'
    BY <1>3 DEF StartWait, PosBelow
  <2>5. FoundOwn'
    BY <1>3 DEF StartWait, FoundOwn
  <2>6. WaitsForOwner'
    BY <1>3 DEF StartWait, TypeOK, LoopsComplete, SlotsAreOwned, Owned,
                WaitsForOwner, IsNext
  <2>7. QED
    BY <2>1, <2>2, <2>3, <2>4, <2>5, <2>6
<1>4. ASSUME NEW p \in Procs, WakeUp(p)
      PROVE  IInv'
  <2>1. TypeOK'
    BY <1>4 DEF WakeUp, TypeOK, PCs
  <2>2. LoopsComplete'
    BY <1>4 DEF WakeUp, LoopsComplete
  <2>3. SlotsAreOwned'
    BY <1>4 DEF WakeUp, SlotsAreOwned, Owned
  <2>4. PosBelow'
    BY <1>4 DEF WakeUp, PosBelow
  <2>5. FoundOwn'
    BY <1>4 DEF WakeUp, FoundOwn
  <2>6. WaitsForOwner'
    BY <1>4 DEF WakeUp, WaitsForOwner, IsNext
  <2>7. QED
    BY <2>1, <2>2, <2>3, <2>4, <2>5, <2>6
<1>5. ASSUME NEW p \in Procs, Acquired(p)
      PROVE  IInv'
  <2>1. TypeOK'
    BY <1>5 DEF Acquired, TypeOK, PCs
  <2>2. LoopsComplete'
    BY <1>5 DEF Acquired, LoopsComplete
  <2>3. SlotsAreOwned'
    BY <1>5 DEF Acquired, SlotsAreOwned, Owned
  <2>4. PosBelow'
    BY <1>5 DEF Acquired, PosBelow
  <2>5. FoundOwn'
    BY <1>5 DEF Acquired, FoundOwn
  <2>6. WaitsForOwner'
    BY <1>5 DEF Acquired, WaitsForOwner, IsNext
  <2>7. QED
    BY <2>1, <2>2, <2>3, <2>4, <2>5, <2>6
<1>6. ASSUME NEW p \in Procs, StartRelease(p)
      PROVE  IInv'
  <2>1. TypeOK'
    BY <1>6 DEF StartRelease, TypeOK, PCs
  <2>2. LoopsComplete'
    BY <1>6 DEF StartRelease, TypeOK, LoopsComplete
  <2>3. SlotsAreOwned'
    BY <1>6 DEF StartRelease, TypeOK, LoopsComplete, SlotsAreOwned, Owned
  <2>4. PosBelow'
    BY <1>6 DEF StartRelease, PosBelow
  <2>5. FoundOwn'
    BY <1>6 DEF StartRelease, FoundOwn
  <2>6. WaitsForOwner'
    BY <1>6 DEF StartRelease, TypeOK, WaitsForOwner, IsNext
  <2>7. QED
    BY <2>1, <2>2, <2>3, <2>4, <2>5, <2>6
<1>7. ASSUME NEW p \in Procs, NEW h \in Hashes, ReleaseOne(p, h)
      PROVE  IInv'
  <2>1. TypeOK'
    BY <1>7 DEF ReleaseOne, TypeOK, IsNext
  <2>2. LoopsComplete'
    BY <1>7 DEF ReleaseOne, LoopsComplete
  <2>3. SlotsAreOwned'
    BY <1>7 DEF ReleaseOne, TypeOK, SlotsAreOwned, Owned, FoundOwn, IsNext
  <2>4. PosBelow'
    BY <1>7 DEF ReleaseOne, TypeOK, PosBelow, IsNext
  <2>5. FoundOwn'
    BY <1>7 DEF ReleaseOne, SlotsAreOwned, Owned, FoundOwn, IsNext
  <2>6. WaitsForOwner'
    BY <1>7 DEF ReleaseOne, WaitsForOwner, IsNext
  <2>7. QED
    BY <2>1, <2>2, <2>3, <2>4, <2>5, <2>6
<1>8. ASSUME NEW p \in Procs, ReleaseDone(p)
      PROVE  IInv'
  <2>1. TypeOK'
    BY <1>8 DEF ReleaseDone, TypeOK, PCs
  <2>2. LoopsComplete'
    BY <1>8 DEF ReleaseDone, TypeOK, LoopsComplete
  <2>3. SlotsAreOwned'
    BY <1>8 DEF ReleaseDone, TypeOK, SlotsAreOwned, Owned
  <2>4. PosBelow'
    BY <1>8 DEF ReleaseDone, PosBelow
  <2>5. FoundOwn'
    BY <1>8 DEF ReleaseDone, FoundOwn
  <2>6. WaitsForOwner'
    BY <1>8 DEF ReleaseDone, SlotsAreOwned, WaitsForOwner, IsNext
  <2>7. QED
    BY <2>1, <2>2, <2>3, <2>4, <2>5, <2>6
<1>9. CASE UNCHANGED vars
  BY <1>9 DEF vars, TypeOK, LoopsComplete, SlotsAreOwned, Owned, PosBelow,
              FoundOwn, WaitsForOwner, IsNext
<1>10. QED
  BY <1>1, <1>2, <1>3, <1>4, <1>5, <1>6, <1>7, <1>8, <1>9 DEF Next, Step

(* The inductive invariant holds in every reachable state.                  *)
LEMMA SpecIInv == Spec => []IInv
  BY InitIInv, NextIInv, PTL DEF Spec

(* The loops of acquire and release only pass hashes of their own request,  *)
(* and slots hold WaitGroups of requests.                                   *)
THEOREM TypeCorrect == Spec => []TypeOK
  BY SpecIInv, PTL DEF IInv

(* A slot's WaitGroup belongs to the request that owns the hash, for any    *)
(* number of requests and hashes.                                           *)
THEOREM SlotOwnership == Spec => []SlotsAreOwned
  BY SpecIInv, PTL DEF IInv

(* Two requests that returned from AcquireLatches share no hash.            *)
THEOREM LatchesExclude == Spec => []MutualExclusion
<1>1. IInv => MutualExclusion
  <2> SUFFICES ASSUME IInv, NEW p \in Procs, NEW q \in Procs,
                      pc[p] = "holding", pc[q] = "holding",
                      NEW h \in keys[p], h \in keys[q]
               PROVE  p = q
    BY DEF MutualExclusion
  <2>1. h \in Hashes /\ h \in Owned(p) /\ h \in Owned(q)
    BY DEF IInv, TypeOK, LoopsComplete, Owned
  <2>2. QED
    BY <2>1 DEF IInv, SlotsAreOwned
<1>2. QED
  BY <1>1, SpecIInv, PTL

(* A request blocked in w.Wait() is at a smaller hash than the blocked      *)
(* request it waits for: no cycle of requests waits for itself.             *)
THEOREM NoWaitCycle == Spec => []WaitsUpwards
<1>1. IInv => WaitsUpwards
  <2> SUFFICES ASSUME IInv, NEW p \in Procs, NEW q \in Procs,
                      pc[p] = "waiting", waitOn[p] = q
               PROVE  /\ pc[q] # "idle"
                      /\ pc[q] = "waiting" =>
                           \A g, h \in Hashes :
                              IsNext(p, g) /\ IsNext(q, h) => g < h
    BY DEF WaitsUpwards
  <2>1. PICK k \in keys[q] : /\ IsNext(p, k)
                             /\ pc[q] # "releasing" => k \in pos[q]
    BY DEF IInv, WaitsForOwner
  <2>2. \A g \in Hashes : IsNext(p, g) => g = k
    BY <2>1 DEF IInv, TypeOK, IsNext
  <2>3. pc[q] = "waiting" => \A h \in Hashes : IsNext(q, h) => k < h
    BY <2>1 DEF IInv, PosBelow, IsNext
  <2>4. QED
    BY <2>2, <2>3 DEF IInv, WaitsForOwner
<1>2. QED
  BY <1>1, SpecIInv, PTL
=============================================================================
