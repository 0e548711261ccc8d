----------------------------- MODULE StoreMeta -----------------------------
(***************************************************************************)
(* The regions one store hosts: the store-wide meta data (storeMeta's      *)
(* regions and regionRanges), the router's peers, and the region states on *)
(* disk, while peers are created by messages (fsm_store.go), by splits     *)
(* and by snapshots (fsm_peer.go), destroyed by conf changes, larger peer  *)
(* ids and gc messages, and reloaded after a crash (loadPeers).            *)
(*                                                                         *)
(* Three threads share this state: the store worker (creates peers), the   *)
(* raft worker (handles messages and results, batch by batch) and the      *)
(* apply worker (executes the admin commands and writes region states).    *)
(*                                                                         *)
(* A region is replicated by a group of stores.  The group's decisions are *)
(* hist[r], the successive versions of region r (external to this store);  *)
(* a peer, a message or a snapshot carries the number of a version.  The   *)
(* network may delay, lose, duplicate and reorder: a message about any     *)
(* version may arrive at any time.  Keys are the boundaries 0..MaxKey.     *)
(***************************************************************************)
EXTENDS Integers, Sequences, FiniteSets, SequencesExt

CONSTANTS
    MaxRegions,     \* bound on the regions a group may be split into
    MaxKey,         \* the first region covers [0, MaxKey)
    MaxVersions,    \* bound on the versions of a region
    MaxCrashes      \* bound on the crashes of the store

VARIABLES
    hist,           \* the groups: hist[r] is the sequence of r's versions
    peers,          \* the router: the registered peers, by region
    phase,          \* how far the raft worker's current batch is
    old,            \* replaced peers the current batch still holds
    regions,        \* storeMeta.regions: the version known of each region
    ranges,         \* storeMeta.regionRanges: end key -> region
    pendingSnaps,   \* storeMeta.pendingSnapshotRegions
    disk,           \* RegionLocalState of each region in the kv engine
    creating,       \* the message the store worker holds, past checkMsg
    crashes, 
    panic           \* the assertion that failed, or "none"

memory == <<peers, phase, old, regions, ranges, pendingSnaps, creating>>
vars == <<hist, memory, disk, crashes, panic>>

RegionIds == 1..MaxRegions

\* The region of an uninitialised peer: no peers, an empty range, epoch (0, 0).
NoRegion == [start |-> 0, end |-> 0, ver |-> 0, conf |-> 0, peer |-> 0, child |-> 0]

At(r, v) == IF v = 0 THEN NoRegion ELSE hist[r][v]

Without(f, k) == Restrict(f, DOMAIN f \ {k})

IsEpochStale(epoch, checkEpoch) ==
    epoch.ver < checkEpoch.ver \/ epoch.conf < checkEpoch.conf

Overlaps(a, b) == a.start < b.end /\ b.start < a.end

NoMessage == [region |-> 0, v |-> 0]

\* A peer as the three threads see it: its id, the version the raft worker
\* knows (0: uninitialised), the version the apply worker has executed, whether
\* a snapshot is being applied, how far its removal is, and the version of the
\* snapshot that waits in its raft group.
Peer(id, v, applying) ==
    [id |-> id, v |-> v, exec |-> v, applying |-> applying,
     removing |-> "no", snap |-> 0]

Init ==
    /\ \E hosted \in {0, 1} :
        /\ hist = [r \in RegionIds |->
                    IF r = 1 THEN <<[start |-> 0, end |-> MaxKey, ver |-> 1,
                                     conf |-> 1, peer |-> hosted, child |-> 0]>>
                    ELSE <<>>]
        /\ peers = IF hosted = 1 THEN 1 :> Peer(1, 1, FALSE) ELSE <<>>
        /\ regions = IF hosted = 1 THEN 1 :> 1 ELSE <<>>
        /\ ranges = IF hosted = 1 THEN MaxKey :> 1 ELSE <<>>
        /\ disk = [r \in RegionIds |->
                    IF r = 1 /\ hosted = 1 THEN [state |-> "normal", v |-> 1]
                    ELSE [state |-> "none", v |-> 0]]
    /\ phase = "first"
    /\ old = <<>>
    /\ pendingSnaps = {}
    /\ creating = NoMessage
    /\ crashes = 0
    /\ panic = "none"

(***************************************************************************)
(* The groups.  A version carries the id of this store's peer (0: none);   *)
(* ids come from PD and only grow.  A split names the region it creates.   *)
(***************************************************************************)
FreshPeer == 1 + Max({0} \cup {hist[r][v].peer : <<r, v>> \in
                     {<<r, v>> \in RegionIds \X (1..MaxVersions) : v <= Len(hist[r])}})

Unborn == {r \in RegionIds : hist[r] = <<>>}

Split(r) ==
    /\ hist[r] # <<>> /\ Len(hist[r]) < MaxVersions
    /\ Unborn # {}
    /\ LET region == Last(hist[r])
           n == Min(Unborn)
       IN \E k \in region.start + 1 .. region.end - 1, rightDerive \in BOOLEAN :
            LET left  == [region EXCEPT !.end = k, !.ver = @ + 1]
                right == [region EXCEPT !.start = k, !.ver = @ + 1]
                derived == IF rightDerive THEN right ELSE left
                new == IF rightDerive THEN left ELSE right
            IN hist' = [hist EXCEPT
                  ![r] = Append(@, [derived EXCEPT !.child = n]),
                  ![n] = <<[new EXCEPT !.peer = IF @ = 0 THEN 0 ELSE FreshPeer,
                                       !.child = 0]>>]
    /\ UNCHANGED <<memory, disk, crashes, panic>>

ChangePeer(r) ==
    /\ hist[r] # <<>> /\ Len(hist[r]) < MaxVersions
    /\ hist' = [hist EXCEPT ![r] =
         Append(@, [Last(@) EXCEPT !.conf = @ + 1, !.child = 0,
                                   !.peer = IF @ = 0 THEN FreshPeer ELSE 0])]
    /\ UNCHANGED <<memory, disk, crashes, panic>>

(***************************************************************************)
(* The store worker.  A message for a region the router does not know is   *)
(* checked against the region's state on disk, and only then, under the    *)
(* lock of the meta data, may a peer be created for it.  Parked votes      *)
(* (pendingVotes) are messages that arrive later.                          *)
(***************************************************************************)
PassesCheckMsg(msg, state, tomb) ==
    \/ state = "none"
    \/ state = "tomb" /\ ~IsEpochStale(msg, tomb) /\ msg.conf # tomb.conf

CheckMsg(r, v) ==
    /\ creating = NoMessage
    /\ r \notin DOMAIN peers
    /\ At(r, v).peer # 0
    /\ PassesCheckMsg(At(r, v), disk[r].state, At(r, disk[r].v))
    /\ creating' = [region |-> r, v |-> v]
    /\ UNCHANGED <<hist, peers, phase, old, regions, ranges, pendingSnaps, disk, crashes, panic>>

\* The regions of the meta data, by range, that a range overlaps.
OverlapRegions(region) ==
    {q \in Range(ranges) : Overlaps(At(q, regions[q]), region)}

MaybeCreatePeer ==
    /\ creating # NoMessage
    /\ creating' = NoMessage
    /\ LET r == creating.region
           msg == At(r, creating.v)
       IN IF r \in DOMAIN regions \/ OverlapRegions(msg) # {}
          THEN UNCHANGED <<peers, regions>>
          ELSE /\ peers' = (r :> Peer(msg.peer, 0, FALSE)) @@ peers
               /\ regions' = (r :> 0) @@ regions
    /\ UNCHANGED <<hist, phase, old, ranges, pendingSnaps, disk, crashes, panic>>

(***************************************************************************)
(* The raft worker.  A batch is at most one result taken from applyResCh,  *)
(* then what is in raftCh, then what is in applyResCh, then the ready      *)
(* states.  It looks a region up in the router once, and keeps the peer.   *)
(***************************************************************************)
\* Mutant: a batch takes messages after results.
BatchMessage_anytime == phase' = "messages"

BatchMessage ==
    /\ phase \in {"first", "messages"}
    /\ phase' = "messages"

BatchResult ==
    phase' = IF phase = "first" THEN "first" ELSE "results"

\* The peer that handles a message for r in this batch.
Handled == DOMAIN peers \cup DOMAIN old

Handler(r) == IF r \in DOMAIN old THEN old[r] ELSE peers[r]

Panic(msg) == panic' = IF panic = "none" THEN msg ELSE panic

\* destroyPeer and Peer.Destroy, for a peer whose region is version v.
DestroyPeer(r, v) ==
    /\ disk' = [disk EXCEPT ![r] = [state |-> "tomb", v |-> v]]
    /\ peers' = Without(peers, r)
    /\ old' = Without(old, r)
    /\ ranges' = IF v = 0 THEN ranges ELSE Without(ranges, At(r, v).end)
    /\ regions' = Without(regions, r)
    /\ IF r \notin DOMAIN regions \/ (v # 0 /\ At(r, v).end \notin DOMAIN ranges)
       THEN Panic("meta corruption detected") ELSE UNCHANGED panic
    /\ UNCHANGED <<hist, pendingSnaps, creating, crashes>>


MaybeDestroy(r) ==
    /\ Handler(r).removing = "no"
    /\ ~Handler(r).applying
    /\ IF Handler(r).v = 0
       THEN DestroyPeer(r, 0)
       ELSE /\ peers' = [peers EXCEPT ![r].removing = "asked"]
            /\ UNCHANGED <<hist, old, regions, ranges, pendingSnaps, creating,
                           disk, crashes, panic>>

\* checkMessage: a message to a larger peer id.
ReceiveLarger(r, v) ==
    /\ BatchMessage
    /\ r \in Handled
    /\ At(r, v).peer > Handler(r).id
    /\ MaybeDestroy(r)

\* onValidatePeer, sendDestroyPeer and handleGCPeerMsg: PD's version v of the
\* region is newer than the peer's and does not have the peer.
ReceiveGC(r, v) ==
    /\ BatchMessage
    /\ r \in Handled
    /\ At(r, v).peer # Handler(r).id
    /\ IsEpochStale(At(r, Handler(r).v), At(r, v))
    /\ ~IsEpochStale(At(r, v), At(r, Handler(r).v))
    /\ MaybeDestroy(r)

\* checkSnapshot, then Step: raft keeps a snapshot that is not behind its log.
\* Mutants: one of the two overlap checks is dropped.
CheckSnapshot_pendingOnly(r, v) ==
    ~ \E s \in pendingSnaps : s.region # r /\ Overlaps(At(s.region, s.v), At(r, v))

CheckSnapshot_regionsOnly(r, v) == OverlapRegions(At(r, v)) \subseteq {r}

CheckSnapshot(r, v) ==
    /\ ~ \E s \in pendingSnaps : s.region # r /\ Overlaps(At(s.region, s.v), At(r, v))
    /\ OverlapRegions(At(r, v)) \subseteq {r}

ReceiveSnapshot(r, v) ==
    /\ BatchMessage
    /\ r \in Handled
    /\ Handler(r).removing = "no"
    /\ At(r, v).peer = Handler(r).id
    /\ IF r \notin DOMAIN regions \/ regions[r] # Handler(r).v
       THEN /\ Handler(r).v # 0
            /\ Panic("meta corrupted")
            /\ UNCHANGED <<peers, pendingSnaps>>
       ELSE /\ CheckSnapshot(r, v)
            /\ pendingSnaps' = pendingSnaps \cup {[region |-> r, v |-> v]}
            /\ peers' = IF v >= peers[r].exec /\ v > peers[r].snap
                        THEN [peers EXCEPT ![r].snap = v] ELSE peers
            /\ UNCHANGED panic
    /\ UNCHANGED <<hist, old, regions, ranges, creating, disk, crashes>>

\* onReadySplitRegion: region r becomes version v, which creates region n.
OnReadySplitRegion(r, v) ==
    LET derived == At(r, v)
        n == derived.child
        new == At(n, 1)
        last == Max({derived.end, new.end})
        left == Without(ranges, last)
    IN /\ regions' = (r :> v) @@ (n :> 1) @@ regions
       /\ ranges' = (derived.end :> r) @@ (new.end :> n) @@ left
       /\ peers' = (n :> Peer(new.peer, 1, FALSE)) @@ [peers EXCEPT ![r].v = v]
       /\ \/ UNCHANGED old
          \/ /\ phase # "first" /\ n \in DOMAIN peers
             /\ old' = (n :> peers[n]) @@ old
       /\ IF last \notin DOMAIN ranges THEN Panic("original region should exist")
          ELSE IF {derived.end, new.end} \cap DOMAIN left # {} THEN Panic("range exists")
          ELSE IF n \in DOMAIN regions /\ regions[n] # 0 THEN Panic("duplicated region")
          ELSE UNCHANGED panic
       /\ UNCHANGED <<hist, pendingSnaps, creating, disk, crashes>>

\* onReadyChangePeer, for a change that does or does not remove this peer.
OnReadyChangePeer(r, v) ==
    IF At(r, v).peer = peers[r].id
    THEN /\ regions' = [regions EXCEPT ![r] = v]
         /\ peers' = [peers EXCEPT ![r].v = v]
         /\ UNCHANGED <<hist, old, ranges, pendingSnaps, creating, disk, crashes, panic>>
    ELSE DestroyPeer(r, v)

\* The next result of the apply worker, or its answer to the removal.
HandleResult(r) ==
    /\ BatchResult
    /\ r \in DOMAIN peers
    /\ LET p == peers[r] IN
       \/ /\ p.v < p.exec
          /\ IF At(r, p.v + 1).child # 0
             THEN OnReadySplitRegion(r, p.v + 1)
             ELSE OnReadyChangePeer(r, p.v + 1)
       \/ /\ p.v = p.exec
          /\ p.removing = "answered"
          /\ DestroyPeer(r, p.v)

\* The end of a batch: the snapshots raft hands out are written (state
\* Applying) and put into the meta data (onReadyApplySnapshot), the queued
\* ones are forgotten (removeQueuedSnapshots), and so are the cached peers.
ReadySnaps ==
    {r \in DOMAIN peers : /\ peers[r].snap # 0
                          /\ peers[r].v = peers[r].exec
                          /\ ~peers[r].applying
                          /\ peers[r].removing = "no"}

EndBatch ==
    /\ phase # "first" \/ ReadySnaps # {}
    /\ LET kept == Restrict(ranges, DOMAIN ranges \
                      {At(r, peers[r].v).end : r \in {q \in ReadySnaps : peers[q].v # 0}})
           new == [e \in {At(r, peers[r].snap).end : r \in ReadySnaps} |->
                      CHOOSE r \in ReadySnaps : At(r, peers[r].snap).end = e]
       IN /\ ranges' = new @@ kept
          /\ IF DOMAIN new \cap DOMAIN kept # {} \/ Cardinality(DOMAIN new) # Cardinality(ReadySnaps)
             THEN Panic("unexpected old region") ELSE UNCHANGED panic
    /\ regions' = [r \in DOMAIN regions |->
                     IF r \in ReadySnaps THEN peers[r].snap ELSE regions[r]]
    /\ peers' = [r \in DOMAIN peers |->
                     IF r \in ReadySnaps THEN Peer(peers[r].id, peers[r].snap, TRUE)
                     ELSE peers[r]]
    /\ disk' = [r \in RegionIds |->
                     IF r \in ReadySnaps THEN [state |-> "applying", v |-> peers[r].snap]
                     ELSE disk[r]]
    /\ pendingSnaps' = {}
    /\ phase' = "first"
    /\ old' = <<>>
    /\ UNCHANGED <<hist, creating, crashes>>

(***************************************************************************)
(* The apply worker and the region worker.                                 *)
(***************************************************************************)
\* execChangePeer and execBatchSplit write the region states in one batch.
\* Mutant: the region a split creates is left to the raft worker.
WriteStates_derived(r, v, state) == (r :> [state |-> state, v |-> v]) @@ disk

WriteStates(r, v, state) ==
    IF At(r, v).child = 0
    THEN (r :> [state |-> state, v |-> v]) @@ disk
    ELSE (r :> [state |-> state, v |-> v])
           @@ (At(r, v).child :> [state |-> "normal", v |-> 1]) @@ disk

Execute(r) ==
    /\ r \in DOMAIN peers
    /\ LET p == peers[r] IN
       /\ p.exec # 0 /\ p.exec < Len(hist[r])
       /\ At(r, p.exec).peer = p.id
       /\ ~p.applying /\ p.removing # "answered"
       /\ p.snap = 0 \/ p.exec < p.snap
       /\ peers' = [peers EXCEPT ![r].exec = @ + 1]
       /\ disk' = WriteStates(r, p.exec + 1,
                     IF At(r, p.exec + 1).peer = p.id THEN "normal" ELSE "tomb")
    /\ UNCHANGED <<hist, phase, old, regions, ranges, pendingSnaps, creating, crashes, panic>>

\* handleDestroy: answers unless the applier has stopped by executing the
\* removal of its peer.
AnswerDestroy(r) ==
    /\ r \in DOMAIN peers
    /\ peers[r].removing = "asked"
    /\ At(r, peers[r].exec).peer = peers[r].id
    /\ peers' = [peers EXCEPT ![r].removing = "answered"]
    /\ UNCHANGED <<hist, phase, old, regions, ranges, pendingSnaps, creating, disk, crashes, panic>>

\* applySnap of the region worker, up to the state Normal.
FinishSnapshot(r) ==
    /\ r \in DOMAIN peers
    /\ peers[r].applying
    /\ peers' = [peers EXCEPT ![r].applying = FALSE]
    /\ disk' = [disk EXCEPT ![r].state = "normal"]
    /\ UNCHANGED <<hist, phase, old, regions, ranges, pendingSnaps, creating, crashes, panic>>

(***************************************************************************)
(* A crash, and loadPeers of the next start.                               *)
(***************************************************************************)
\* Mutant: the state of a region is not looked at.
Loaded_tombstones == {r \in RegionIds : disk[r].state # "none"}

Loaded == {r \in RegionIds : disk[r].state \in {"normal", "applying"}}

Restart ==
    /\ crashes < MaxCrashes
    /\ crashes' = crashes + 1
    /\ peers' = [r \in Loaded |-> Peer(At(r, disk[r].v).peer, disk[r].v,
                                       disk[r].state = "applying")]
    /\ regions' = [r \in Loaded |-> disk[r].v]
    /\ ranges' = [e \in {At(r, disk[r].v).end : r \in Loaded} |->
                    CHOOSE r \in Loaded : At(r, disk[r].v).end = e]
    /\ phase' = "first"
    /\ old' = <<>>
    /\ pendingSnaps' = {}
    /\ creating' = NoMessage
    /\ IF \E r \in Loaded : At(r, disk[r].v).peer = 0
       THEN Panic("find no peer") ELSE UNCHANGED panic
    /\ UNCHANGED <<hist, disk>>

Next ==
    /\ panic = "none"
    /\ \/ \E r \in RegionIds :
            \/ Split(r) \/ ChangePeer(r)
            \/ \E v \in 1..Len(hist[r]) :
                 \/ CheckMsg(r, v)
                 \/ ReceiveLarger(r, v) \/ ReceiveGC(r, v) \/ ReceiveSnapshot(r, v)
            \/ HandleResult(r)
            \/ Execute(r) \/ AnswerDestroy(r) \/ FinishSnapshot(r)
       \/ MaybeCreatePeer
       \/ EndBatch
       \/ Restart

\* Each thread goes on while it has something to do.  The groups' leaders keep
\* sending (heartbeats, snapshots) and a peer without a leader keeps asking PD:
\* what is sent again and again is received at last.  PD learns the newest
\* version of a region, so its outdated answers end.
Newest(r, Receive(_, _)) == hist[r] # <<>> /\ Receive(r, Len(hist[r]))

Fairness ==
    /\ WF_vars(MaybeCreatePeer)
    /\ WF_vars(EndBatch)
    /\ \A r \in RegionIds : /\ WF_vars(HandleResult(r))
                            /\ WF_vars(Execute(r)) /\ WF_vars(AnswerDestroy(r))
                            /\ WF_vars(FinishSnapshot(r))
                            /\ SF_vars(Newest(r, CheckMsg))
                            /\ SF_vars(Newest(r, ReceiveLarger))
                            /\ SF_vars(Newest(r, ReceiveGC))
                            /\ SF_vars(Newest(r, ReceiveSnapshot))
    /\ <>[][~ \E r \in RegionIds : \E v \in 1 .. Len(hist[r]) - 1 : ReceiveGC(r, v)]_vars

Spec == Init /\ [][Next]_vars

FairSpec == Spec /\ Fairness
-----------------------------------------------------------------------------
TypeOK ==
    /\ DOMAIN regions \subseteq RegionIds
    /\ DOMAIN peers \subseteq RegionIds
    /\ DOMAIN ranges \subseteq 1..MaxKey
    /\ \A r \in DOMAIN peers :
         /\ peers[r].v <= peers[r].exec /\ peers[r].exec <= Len(hist[r])
         /\ peers[r].id # 0
         /\ peers[r].removing \in {"no", "asked", "answered"}
    /\ \A r \in RegionIds : /\ disk[r].state \in {"none", "normal", "applying", "tomb"}
                            /\ disk[r].v \in 0..Len(hist[r])

\* None of the assertions on the meta data fails: "meta corruption detected",
\* "meta corrupted", "original region should exist", "duplicated region",
\* "unexpected old region", and the search for this store's peer at a restart.
NoMetaPanic == panic = "none"

\* The meta data is the router's: it knows the same regions at the same
\* versions, regionRanges holds the end keys of the initialised ones and
\* nothing else, and these do not overlap.
MetaMatches ==
    LET initialized == {r \in DOMAIN peers : peers[r].v # 0} IN
    /\ regions = [r \in DOMAIN peers |-> peers[r].v]
    /\ \A e \in DOMAIN ranges : ranges[e] \in initialized /\ At(ranges[e], peers[ranges[e]].v).end = e
    /\ \A r \in initialized : At(r, peers[r].v).end \in DOMAIN ranges
    /\ \A r, q \in initialized : r # q => ~Overlaps(At(r, peers[r].v), At(q, peers[q].v))

\* The regions a restart would load do not overlap, each has a peer of this
\* store, whatever the moment of the crash.
DiskDisjoint ==
    /\ \A r \in Loaded : At(r, disk[r].v).peer # 0
    /\ \A r, q \in Loaded : r # q => ~Overlaps(At(r, disk[r].v), At(q, disk[q].v))

\* A peer that still belongs to its group is on disk with the version the apply
\* worker has reached: a crash never makes the group lose a replica.
MemberSurvives ==
    \A r \in DOMAIN peers :
        peers[r].v # 0 /\ Last(hist[r]).peer = peers[r].id =>
            r \in Loaded /\ disk[r].v = peers[r].exec

=============================================================================
