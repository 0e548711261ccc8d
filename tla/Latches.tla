------------------------------ MODULE Latches ------------------------------
(***************************************************************************)
(* The in-memory key latches of a region: type latches of                  *)
(* src/raftstore/region.go.  A request acquires the latch of every hash of *)
(* its keys, one hash at a time in the order of its list, and releases     *)
(* them in the same order.                                                 *)
(*                                                                         *)
(* Every acquire creates one sync.WaitGroup, puts it in the slot of each   *)
(* hash it takes, and calls Done on it once, at the end of the release.    *)
(* The WaitGroup of a request is therefore represented by the request      *)
(* itself: slots[h] is the request whose WaitGroup is stored under h, and  *)
(* waitOn[p] is the request whose WaitGroup p is blocked on, NoProc once   *)
(* that WaitGroup has been released.                                       *)
(***************************************************************************)
EXTENDS Integers, FiniteSets

CONSTANTS
    Procs,     \* the goroutines that serve requests
    Hashes,    \* the key hashes, a set of integers (they are sorted numbers)
    NoProc     \* the absent WaitGroup

ASSUME HashesAssumption == Hashes \subseteq Int
ASSUME NoProcAssumption == NoProc \notin Procs

VARIABLES
    pc,       \* pc[p]: where request p is
    keys,     \* keys[p]: the hashes of p's request
    pos,      \* pos[p]: the hashes of keys[p] the current loop has passed
    slots,    \* slots[h]: the content of the map of h's slot
    waitOn,   \* waitOn[p]: the WaitGroup acquireOne is waiting for
    found     \* found[p]: the WaitGroup release has found, its local w

vars == <<pc, keys, pos, slots, waitOn, found>>

PCs == {"idle", "acquiring", "waiting", "holding", "releasing"}

\* The types, and: a loop only passes hashes of its own request.
TypeOK ==
    /\ pc \in [Procs -> PCs]
    /\ keys \in [Procs -> SUBSET Hashes]
    /\ pos \in [Procs -> SUBSET Hashes]
    /\ \A p \in Procs : pos[p] \subseteq keys[p]
    /\ slots \in [Hashes -> Procs \cup {NoProc}]
    /\ waitOn \in [Procs -> Procs \cup {NoProc}]
    /\ found \in [Procs -> Procs \cup {NoProc}]

\* newLatches
Init ==
    /\ pc = [p \in Procs |-> "idle"]
    /\ keys = [p \in Procs |-> {}]
    /\ pos = [p \in Procs |-> {}]
    /\ slots = [h \in Hashes |-> NoProc]
    /\ waitOn = [p \in Procs |-> NoProc]
    /\ found = [p \in Procs |-> NoProc]

-----------------------------------------------------------------------------
\* A mutant: the hashes are not sorted.
IsNext_unsorted(p, h) == h \in keys[p] \ pos[p]

(* The hash lists are sorted and have no duplicates (the comment of         *)
(* AcquireLatches), so a list is the set of its hashes, and the next one of *)
(* a loop is the smallest that the loop has not passed.                     *)
IsNext(p, h) ==
    /\ h \in keys[p] \ pos[p]
    /\ \A g \in keys[p] \ pos[p] : h <= g

\* acquire: a new WaitGroup, and the loop over the hashes starts.
StartAcquire(p, ks) ==
    /\ pc[p] = "idle"
    /\ pc' = [pc EXCEPT ![p] = "acquiring"]
    /\ keys' = [keys EXCEPT ![p] = ks]
    /\ UNCHANGED <<pos, slots, waitOn, found>>

\* A mutant: the map is not looked up before the WaitGroup is stored.
TakeSlot_unchecked(p, h) ==
    /\ pc[p] = "acquiring"
    /\ IsNext(p, h)
    /\ slots' = [slots EXCEPT ![h] = p]
    /\ pos' = [pos EXCEPT ![p] = @ \cup {h}]
    /\ UNCHANGED <<pc, keys, waitOn, found>>

\* acquireOne under the slot's mutex, the hash is free: store our WaitGroup.
TakeSlot(p, h) ==
    /\ pc[p] = "acquiring"
    /\ IsNext(p, h)
    /\ slots[h] = NoProc
    /\ slots' = [slots EXCEPT ![h] = p]
    /\ pos' = [pos EXCEPT ![p] = @ \cup {h}]
    /\ UNCHANGED <<pc, keys, waitOn, found>>

\* acquireOne under the slot's mutex, the hash is taken: keep the WaitGroup
\* found there and wait for it after the unlock.
StartWait(p, h) ==
    /\ pc[p] = "acquiring"
    /\ IsNext(p, h)
    /\ slots[h] # NoProc
    /\ pc' = [pc EXCEPT ![p] = "waiting"]
    /\ waitOn' = [waitOn EXCEPT ![p] = slots[h]]
    /\ UNCHANGED <<keys, pos, slots, found>>

\* w.Wait() returns: the hash is tried again, against any newcomer.
WakeUp(p) ==
    /\ pc[p] = "waiting"
    /\ waitOn[p] = NoProc
    /\ pc' = [pc EXCEPT ![p] = "acquiring"]
    /\ UNCHANGED <<keys, pos, slots, waitOn, found>>

\* acquire returns: every hash has been passed.
Acquired(p) ==
    /\ pc[p] = "acquiring"
    /\ pos[p] = keys[p]
    /\ pc' = [pc EXCEPT ![p] = "holding"]
    /\ UNCHANGED <<keys, pos, slots, waitOn, found>>

\* ReleaseLatches is called: the loop of release starts.
StartRelease(p) ==
    /\ pc[p] = "holding"
    /\ pc' = [pc EXCEPT ![p] = "releasing"]
    /\ pos' = [pos EXCEPT ![p] = {}]
    /\ UNCHANGED <<keys, slots, waitOn, found>>

\* A mutant: the hash is passed and left in its slot.
ReleaseOne_kept(p, h) ==
    /\ pc[p] = "releasing"
    /\ IsNext(p, h)
    /\ found' = [found EXCEPT ![p] = IF @ = NoProc THEN slots[h] ELSE @]
    /\ pos' = [pos EXCEPT ![p] = @ \cup {h}]
    /\ UNCHANGED <<pc, keys, slots, waitOn>>

\* One turn of release's loop: w becomes the first WaitGroup met, and the
\* hash is deleted from its slot whatever WaitGroup it holds.
ReleaseOne(p, h) ==
    /\ pc[p] = "releasing"
    /\ IsNext(p, h)
    /\ found' = [found EXCEPT ![p] = IF @ = NoProc THEN slots[h] ELSE @]
    /\ slots' = [slots EXCEPT ![h] = NoProc]
    /\ pos' = [pos EXCEPT ![p] = @ \cup {h}]
    /\ UNCHANGED <<pc, keys, waitOn>>

\* A mutant: nobody is woken.
ReleaseDone_silent(p) ==
    /\ pc[p] = "releasing"
    /\ pos[p] = keys[p]
    /\ pc' = [pc EXCEPT ![p] = "idle"]
    /\ keys' = [keys EXCEPT ![p] = {}]
    /\ pos' = [pos EXCEPT ![p] = {}]
    /\ found' = [found EXCEPT ![p] = NoProc]
    /\ UNCHANGED <<slots, waitOn>>

\* A mutant: the progress of the loop is not reset.
ReleaseDone_keepsPos(p) ==
    /\ pc[p] = "releasing"
    /\ pos[p] = keys[p]
    /\ pc' = [pc EXCEPT ![p] = "idle"]
    /\ waitOn' = [q \in Procs |-> IF waitOn[q] = p THEN NoProc ELSE waitOn[q]]
    /\ keys' = [keys EXCEPT ![p] = {}]
    /\ found' = [found EXCEPT ![p] = NoProc]
    /\ UNCHANGED <<pos, slots>>

\* The end of release: w.Done(), if any, lets go every goroutine waiting for
\* w, and the request's variables go out of scope.
ReleaseDone(p) ==
    /\ pc[p] = "releasing"
    /\ pos[p] = keys[p]
    /\ pc' = [pc EXCEPT ![p] = "idle"]
    /\ waitOn' = [q \in Procs |-> IF waitOn[q] = found[p] THEN NoProc
                                                          ELSE waitOn[q]]
    /\ keys' = [keys EXCEPT ![p] = {}]
    /\ pos' = [pos EXCEPT ![p] = {}]
    /\ found' = [found EXCEPT ![p] = NoProc]
    /\ UNCHANGED slots

-----------------------------------------------------------------------------
Step(p) ==
    \/ \E h \in Hashes : TakeSlot(p, h) \/ StartWait(p, h) \/ ReleaseOne(p, h)
    \/ WakeUp(p)
    \/ Acquired(p)
    \/ StartRelease(p)
    \/ ReleaseDone(p)

Next ==
    \E p \in Procs : \/ \E ks \in (SUBSET Hashes) \ {{}} : StartAcquire(p, ks)
                     \/ Step(p)

Spec == Init /\ [][Next]_vars

(* Goroutines are scheduled fairly, and a request that holds its latches   *)
(* eventually releases them.                                               *)
FairSpec == Spec /\ \A p \in Procs : WF_vars(Step(p))

-----------------------------------------------------------------------------
(* The hashes p has stored its WaitGroup under and not deleted yet.         *)
Owned(p) == IF pc[p] = "releasing" THEN keys[p] \ pos[p] ELSE pos[p]

(* A slot holds exactly the WaitGroup of the request that owns the hash: no *)
(* acquire overwrites another's latch, no release deletes one that is not   *)
(* its own, and the WaitGroup release calls Done on is the request's own.   *)
SlotsAreOwned ==
    /\ \A h \in Hashes, p \in Procs : slots[h] = p <=> h \in Owned(p)
    /\ \A p \in Procs : pc[p] = "releasing" /\ pos[p] # {} => found[p] = p

(* Two requests that both returned from AcquireLatches share no hash: the   *)
(* callers of AcquireLatches rely on it to check and write locks.           *)
MutualExclusion ==
    \A p, q \in Procs :
        pc[p] = "holding" /\ pc[q] = "holding" /\ p # q
            => keys[p] \cap keys[q] = {}

(* A request that is blocked in w.Wait() waits for a request that has not   *)
(* called Done, and when that one is blocked too it is at a greater hash:   *)
(* waiting follows the order of the hashes, so that no set of requests can  *)
(* wait for each other although they keep their latches while they wait.    *)
WaitsUpwards ==
    \A p, q \in Procs :
        pc[p] = "waiting" /\ waitOn[p] = q
            => /\ pc[q] # "idle"
               /\ pc[q] = "waiting" =>
                     \A g, h \in Hashes : IsNext(p, g) /\ IsNext(q, h) => g < h

(* Some request is always served: while one is acquiring or waiting, some   *)
(* request will hold its latches.  (A given request may starve: after a     *)
(* wake-up it competes again with newcomers.)                               *)
Progress ==
    (\E p \in Procs : pc[p] \in {"acquiring", "waiting"})
        ~> (\E p \in Procs : pc[p] = "holding")
=============================================================================
