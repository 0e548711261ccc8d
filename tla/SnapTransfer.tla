--------------------------- MODULE SnapTransfer ---------------------------
(***************************************************************************)
(* Snapshots between two stores: the leader's request and the build of the *)
(* files (PeerStorage.Snapshot, doSnapshot, Snap.Build), the snap workers  *)
(* that send and receive them (snapRunner.go), the follower's check, apply *)
(* and the collection of old files (SnapManager, onGCSnap), with broken    *)
(* streams and crashes of either store.                                    *)
(*                                                                         *)
(* A region is named after the store that leads it; the other store has    *)
(* its follower.  A snapshot is named by its region and index.  Its files  *)
(* are, together:                                                          *)
(*   "none", "tmp"  nothing, or only temporary files;                      *)
(*   "cf"           data files that have their names, and no meta file;    *)
(*   "full"         all files;  "meta"  the meta file without data files.  *)
(* Raft's log is compacted: a follower only catches up with a snapshot.    *)
(***************************************************************************)
EXTENDS Integers, Sequences, FiniteSets, SequencesExt

CONSTANTS
    Leaders,      \* the stores that lead a region: a subset of {1, 2}
    MaxIndex,     \* bound on the entries of a region
    MaxTotal,     \* SnapManager.MaxTotalSize, in snapshots
    MaxFaults,    \* bound on broken streams and crashes
    FreshKeys,    \* no snapshot is generated while its files exist
    TornDelete    \* a crash may fall between the deletions of two files

VARIABLES
    lead,      \* lead[r]: [applied, gen, key, meta, pending] of the leader
    foll,      \* foll[r]: [index, state, pending, job] of the follower
    files,     \* files[n], for the names n of both stores
    registry,  \* SnapManager.registry of each store: [r, i, entry]
    size,      \* SnapManager.snapSize of each store
    queue,     \* the tasks of each snap worker
    cur,       \* the task each snap worker is at
    inbox,     \* inbox[r]: snapshot messages for the follower
    gcList,    \* the idle snapshots the store worker has listed
    deleting,  \* the name DeleteSnapshot is at, with the registry locked
    faults,    \* the broken streams and crashes so far
    panic      \* what ended the process, or "none"

workerVars == <<queue, cur>>
gcVars == <<gcList, deleting>>
vars == <<lead, foll, files, registry, size, workerVars, inbox, gcVars, faults, panic>>

Stores == {1, 2}
Other(s) == 3 - s
Indexes == 1..MaxIndex
Names == [side : {"gen", "rev"}, r : Leaders, i : Indexes]
Gen(r, i) == [side |-> "gen", r |-> r, i |-> i]
Rev(r, i) == [side |-> "rev", r |-> r, i |-> i]
StoreOf(n) == IF n.side = "gen" THEN n.r ELSE Other(n.r)
NamesOf(s) == {n \in Names : StoreOf(n) = s}
NoName == [side |-> "none", r |-> 0, i |-> 0]
NoTask == [kind |-> "none"]

Entry(n, e) == [r |-> n.r, i |-> n.i, entry |-> e]
Registered(s, n) == \E x \in registry[s] : x.r = n.r /\ x.i = n.i
Register(s, n, e) == [registry EXCEPT ![s] = @ \cup {Entry(n, e)}]
Deregister(s, n, e) == [registry EXCEPT ![s] = @ \ {Entry(n, e)}]
Unlocked(s) == deleting[s] = NoName

\* NewSnap loads the meta file, if there is one, with the sizes of the data
\* files, which must agree.
Loads(n) == files[n] # "meta"
Exists(n) == files[n] = "full"

\* The temporary files of a snapshot that is built or received.
InitForBuilding(f) == IF f = "none" THEN "tmp" ELSE f
OpenForReceiving(f) == IF f = "none" THEN "tmp" ELSE f

Leader(applied) == [applied |-> applied, gen |-> "relax", key |-> 0, meta |-> FALSE,
                    pending |-> FALSE]

Init ==
    /\ lead = [r \in Leaders |-> Leader(1)]
    /\ foll = [r \in Leaders |-> [index |-> 0, state |-> "absent", pending |-> 0,
                                  job |-> FALSE]]
    /\ files = [n \in Names |-> "none"]
    /\ registry = [s \in Stores |-> {}]
    /\ size = [s \in Stores |-> 0]
    /\ queue = [s \in Stores |-> <<>>]
    /\ cur = [s \in Stores |-> NoTask]
    /\ inbox = [r \in Leaders |-> {}]
    /\ gcList = [s \in Stores |-> {}]
    /\ deleting = [s \in Stores |-> NoName]
    /\ faults = 0
    /\ panic = "none"

-----------------------------------------------------------------------------
(* The leader: PeerStorage.Snapshot and the region worker's generation.     *)

Write(r) ==
    /\ lead[r].applied < MaxIndex
    /\ lead' = [lead EXCEPT ![r].applied = @ + 1]
    /\ UNCHANGED <<foll, files, registry, size, workerVars, inbox, gcVars, faults, panic>>

\* Raft needs a snapshot for the follower: Snapshot schedules its generation.
AskSnapshot(r) ==
    /\ lead[r].gen = "relax" /\ ~lead[r].pending
    /\ foll[r].index < lead[r].applied
    /\ FreshKeys => files[Gen(r, lead[r].applied)] # "full"
    /\ lead' = [lead EXCEPT ![r].gen = "queued"]
    /\ UNCHANGED <<foll, files, registry, size, workerVars, inbox, gcVars, faults, panic>>

\* deleteOldIdleSnaps: what it deletes, oldest first, and what it gives up on.
IdleGen(r) == {n \in Names : n.side = "gen" /\ n.r = r /\ Exists(n)
                               /\ ~Registered(r, n) /\ n.i # lead[r].applied}

Evicted(r) ==
    LET excess == size[r] - MaxTotal IN
    {n \in IdleGen(r) : Cardinality({o \in IdleGen(r) : o.i < n.i}) < excess}

(* doSnapshot: the key is registered, room is made, and the files found     *)
(* under the key decide.  All there: Build returns at once, and leaves the  *)
(* meta data of the message empty.  Only the meta file: DeleteSnapshot      *)
(* refuses to delete what is registered, and the generation fails, of which *)
(* nobody tells the leader.                                                  *)
StartBuild(r) ==
    /\ lead[r].gen = "queued" /\ Unlocked(r)
    /\ LET n == Gen(r, lead[r].applied)
           left == size[r] - Cardinality(Evicted(r))
           fails == left > MaxTotal \/ ~Loads(n)
       IN /\ size' = [size EXCEPT ![r] = left]
          /\ files' = [f \in Names |->
                         IF f \in Evicted(r) THEN "none"
                         ELSE IF f = n /\ ~fails THEN InitForBuilding(files[f])
                         ELSE files[f]]
          /\ registry' = IF fails \/ Exists(n) THEN registry
                         ELSE Register(r, n, "generating")
          /\ lead' = [lead EXCEPT ![r].key = n.i,
                                  ![r].meta = FALSE,
                                  ![r].gen = IF fails THEN "stuck"
                                             ELSE IF Exists(n) THEN "ready"
                                             ELSE "building"]
    /\ UNCHANGED <<foll, workerVars, inbox, gcVars, faults, panic>>

\* Mutant: the built files are not added to snapSize.
BuildCF_uncounted(r) ==
    /\ lead[r].gen = "building"
    /\ lead' = [lead EXCEPT ![r].gen = "built"]
    /\ files' = [files EXCEPT ![Gen(r, lead[r].key)] = "cf"]
    /\ UNCHANGED <<foll, registry, size, workerVars, inbox, gcVars, faults, panic>>

\* saveCFFiles: the data files get their names, and are counted.
BuildCF(r) ==
    /\ lead[r].gen = "building"
    /\ lead' = [lead EXCEPT ![r].gen = "built"]
    /\ files' = [files EXCEPT ![Gen(r, lead[r].key)] = "cf"]
    /\ size' = [size EXCEPT ![r] = @ + 1]
    /\ UNCHANGED <<foll, registry, workerVars, inbox, gcVars, faults, panic>>

\* saveMetaFile, and the snapshot is handed to the leader.
BuildMeta(r) ==
    /\ lead[r].gen = "built" /\ Unlocked(r)
    /\ lead' = [lead EXCEPT ![r].gen = "ready", ![r].meta = TRUE]
    /\ files' = [files EXCEPT ![Gen(r, lead[r].key)] = "full"]
    /\ registry' = Deregister(r, Gen(r, lead[r].key), "generating")
    /\ UNCHANGED <<foll, size, workerVars, inbox, gcVars, faults, panic>>

\* Raft asks again, takes the snapshot and sends it: SendSnapshotSock.
SendSnapshot(r) ==
    /\ lead[r].gen = "ready"
    /\ lead' = [lead EXCEPT ![r].gen = "relax", ![r].pending = TRUE]
    /\ queue' = [queue EXCEPT ![r] = Append(@, [kind |-> "send", r |-> r,
                     i |-> lead[r].key, meta |-> lead[r].meta, ok |-> TRUE, pc |-> "start"])]
    /\ UNCHANGED <<foll, files, registry, size, cur, inbox, gcVars, faults, panic>>

-----------------------------------------------------------------------------
(* The snap workers: one goroutine per store for sending and receiving.     *)

\* A worker that is free and has a task of a kind takes it.
Takes(s, kind) == cur[s] = NoTask /\ queue[s] # <<>> /\ Head(queue[s]).kind = kind

\* sendSnap up to the stream: registered, the files looked up, the receiver's
\* Snapshot handler queues its task.
StartSend(s) ==
    /\ Takes(s, "send") /\ Unlocked(s)
    /\ LET t == Head(queue[s])
           n == Gen(s, t.i)
       IN IF ~Exists(n)
          THEN /\ lead' = [lead EXCEPT ![s].pending = FALSE]
               /\ queue' = [queue EXCEPT ![s] = Tail(@)]
               /\ UNCHANGED <<cur, registry>>
          ELSE /\ cur' = [cur EXCEPT ![s] = [t EXCEPT !.pc = "stream"]]
               /\ registry' = Register(s, n, "sending")
               /\ queue' = [queue EXCEPT ![s] = Tail(@),
                                         ![Other(s)] = Append(@, [t EXCEPT !.kind = "recv"])]
               /\ UNCHANGED lead
    /\ UNCHANGED <<foll, files, size, inbox, gcVars, faults, panic>>


\* The sender's side of a stream is over: it deregisters and reports to raft.
SenderDone(s) ==
    /\ cur[s].kind = "send" /\ cur[s].pc \in {"done", "broken"} /\ Unlocked(s)
    /\ cur' = [cur EXCEPT ![s] = NoTask]
    /\ registry' = Deregister(s, Gen(s, cur[s].i), "sending")
    /\ lead' = [lead EXCEPT ![s].pending = FALSE]
    /\ UNCHANGED <<foll, files, size, queue, inbox, gcVars, faults, panic>>

\* The workers when the receiver at s has ended its task t: if the stream is
\* intact, the sender has what it waits for.
Ended(s, t, pc) ==
    [cur EXCEPT ![s] = NoTask,
                ![Other(s)] = IF t.ok THEN [@ EXCEPT !.pc = pc] ELSE @]

(* recvSnap up to the first chunk.  A message without meta data ends the    *)
(* process; files that are all there are not received again.                 *)
StartRecv(s) ==
    /\ Takes(s, "recv")
    /\ queue' = [queue EXCEPT ![s] = Tail(@)]
    /\ LET t == Head(queue[s])
           n == Rev(t.r, t.i)
       IN \/ /\ ~t.ok \/ ~Loads(n)
             /\ cur' = Ended(s, t, "broken")
             /\ UNCHANGED <<files, registry, inbox, panic>>
          \/ /\ t.ok /\ ~t.meta /\ Loads(n)
             /\ panic' = "no meta data"
             /\ UNCHANGED <<cur, files, registry, inbox>>
          \/ /\ t.ok /\ t.meta /\ Exists(n)
             /\ cur' = Ended(s, t, "done")
             /\ inbox' = [inbox EXCEPT ![t.r] = @ \cup {t.i}]
             /\ UNCHANGED <<files, registry, panic>>
          \/ /\ t.ok /\ t.meta /\ Loads(n) /\ ~Exists(n) /\ Unlocked(s)
             /\ cur' = [cur EXCEPT ![s] = [t EXCEPT !.pc = "chunks"]]
             /\ files' = [files EXCEPT ![n] = OpenForReceiving(@)]
             /\ registry' = Register(s, n, "receiving")
             /\ UNCHANGED <<inbox, panic>>
    /\ UNCHANGED <<lead, foll, size, gcVars, faults>>

\* Mutant: Save does not add the files to snapSize.
SaveCF_uncounted(s) ==
    /\ cur[s].kind = "recv" /\ cur[s].pc = "chunks" /\ cur[s].ok
    /\ cur' = [cur EXCEPT ![s].pc = "saving"]
    /\ files' = [files EXCEPT ![Rev(cur[s].r, cur[s].i)] = "cf"]
    /\ UNCHANGED <<lead, foll, registry, size, queue, inbox, gcVars, faults, panic>>

\* The chunks end, and Save renames the data files; or the stream is broken.
SaveCF(s) ==
    /\ cur[s].kind = "recv" /\ cur[s].pc = "chunks" /\ cur[s].ok
    /\ cur' = [cur EXCEPT ![s].pc = "saving"]
    /\ files' = [files EXCEPT ![Rev(cur[s].r, cur[s].i)] = "cf"]
    /\ size' = [size EXCEPT ![s] = @ + 1]
    /\ UNCHANGED <<lead, foll, registry, queue, inbox, gcVars, faults, panic>>

RecvFails(s) ==
    /\ cur[s].kind = "recv" /\ cur[s].pc = "chunks" /\ ~cur[s].ok /\ Unlocked(s)
    /\ cur' = Ended(s, cur[s], "broken")
    /\ registry' = Deregister(s, Rev(cur[s].r, cur[s].i), "receiving")
    /\ UNCHANGED <<lead, foll, files, size, queue, inbox, gcVars, faults, panic>>

\* Save writes the meta file; the sender is told, and the message goes on to
\* the raft worker unless that fails.
SaveMeta(s) ==
    /\ cur[s].kind = "recv" /\ cur[s].pc = "saving" /\ Unlocked(s)
    /\ LET n == Rev(cur[s].r, cur[s].i) IN
       /\ files' = [files EXCEPT ![n] = "full"]
       /\ registry' = Deregister(s, n, "receiving")
       /\ inbox' = IF cur[s].ok THEN [inbox EXCEPT ![n.r] = @ \cup {n.i}] ELSE inbox
       /\ cur' = Ended(s, cur[s], "done")
    /\ UNCHANGED <<lead, foll, size, queue, gcVars, faults, panic>>

\* A receive task, queued or current, whose stream is cut.
Cut(t, r) == IF t.kind = "recv" /\ t.r = r THEN [t EXCEPT !.ok = FALSE] ELSE t

BreakStream(s) ==
    /\ faults < MaxFaults
    /\ cur[s].kind = "send" /\ cur[s].pc = "stream"
    /\ faults' = faults + 1
    /\ cur' = [cur EXCEPT ![s].pc = "broken", ![Other(s)] = Cut(@, s)]
    /\ queue' = [queue EXCEPT ![Other(s)] = [k \in DOMAIN @ |-> Cut(@[k], s)]]
    /\ UNCHANGED <<lead, foll, files, registry, size, inbox, gcVars, panic>>

-----------------------------------------------------------------------------
(* The follower.                                                            *)

\* maybeCreatePeer, by a vote or a heartbeat.
CreatePeer(r) ==
    /\ foll[r].state = "absent"
    /\ foll' = [foll EXCEPT ![r].state = "normal"]
    /\ UNCHANGED <<lead, files, registry, size, workerVars, inbox, gcVars, faults, panic>>


\* checkSnapshot: the files exist; raft keeps the newest.
CheckSnapshot(r, i) ==
    /\ i \in inbox[r]
    /\ inbox' = [inbox EXCEPT ![r] = @ \ {i}]
    /\ foll' = IF /\ foll[r].state # "absent" /\ Exists(Rev(r, i))
                  /\ i > foll[r].index /\ i > foll[r].pending
               THEN [foll EXCEPT ![r].pending = i] ELSE foll
    /\ UNCHANGED <<lead, files, registry, size, workerVars, gcVars, faults, panic>>

\* The Ready of the snapshot: the region is Applying, its log starts there.
ReadySnapshot(r) ==
    /\ foll[r].state = "normal" /\ foll[r].pending # 0
    /\ Unlocked(Other(r))
    /\ foll' = [foll EXCEPT ![r].state = "applying", ![r].index = foll[r].pending,
                            ![r].pending = 0]
    /\ UNCHANGED <<lead, files, registry, size, workerVars, inbox, gcVars, faults, panic>>

\* applySnap of the region worker.
StartApply(r) ==
    /\ foll[r].state = "applying" /\ ~foll[r].job /\ Unlocked(Other(r))
    /\ LET n == Rev(r, foll[r].index) IN
       IF Exists(n)
       THEN /\ registry' = Register(Other(r), n, "applying")
            /\ foll' = [foll EXCEPT ![r].job = TRUE]
            /\ UNCHANGED panic
       ELSE /\ panic' = "missing snapshot file"
            /\ UNCHANGED <<registry, foll>>
    /\ UNCHANGED <<lead, files, size, workerVars, inbox, gcVars, faults>>

FinishApply(r) ==
    /\ foll[r].job /\ Unlocked(Other(r))
    /\ registry' = Deregister(Other(r), Rev(r, foll[r].index), "applying")
    /\ foll' = [foll EXCEPT ![r].state = "normal", ![r].job = FALSE]
    /\ UNCHANGED <<lead, files, size, workerVars, inbox, gcVars, faults, panic>>

-----------------------------------------------------------------------------
(* The collection of old snapshots.                                         *)

Idle(s) == {n \in NamesOf(s) : files[n] \in {"full", "meta"} /\ ~Registered(s, n)}

\* handleSnapMgrGC lists the idle snapshots for the peers.
ListIdleSnap(s) ==
    /\ gcList[s] = {} /\ Idle(s) # {}
    /\ gcList' = [gcList EXCEPT ![s] = Idle(s)]
    /\ UNCHANGED <<lead, foll, files, registry, size, workerVars, inbox, deleting,
                   faults, panic>>


\* onGCSnap's condition: a sent snapshot is compacted or expired sooner or
\* later; a received one has been applied, or there is no peer (scheduleGCSnap).
Collectable(n) ==
    \/ n.side = "gen"
    \/ foll[n.r].state = "absent"
    \/ n.i < foll[n.r].index
    \/ n.i = foll[n.r].index /\ foll[n.r].state # "applying"

\* Mutant: the registry is looked at when listing only.
MayDelete_listed(s, n) == Exists(n) /\ Collectable(n)

\* DeleteSnapshot, unless the files do not load or are in use by now: the data
\* files go first ...
MayDelete(s, n) == Exists(n) /\ Collectable(n) /\ ~Registered(s, n)

CollectSnapshot(s, n) ==
    /\ n \in gcList[s] /\ Unlocked(s)
    /\ gcList' = [gcList EXCEPT ![s] = @ \ {n}]
    /\ IF MayDelete(s, n)
       THEN /\ deleting' = [deleting EXCEPT ![s] = n]
            /\ files' = [files EXCEPT ![n] = "meta"]
            /\ size' = [size EXCEPT ![s] = @ - 1]
       ELSE UNCHANGED <<deleting, files, size>>
    /\ UNCHANGED <<lead, foll, registry, workerVars, inbox, faults, panic>>

\* ... then the meta file.
FinishDelete(s) ==
    /\ ~Unlocked(s)
    /\ files' = [files EXCEPT ![deleting[s]] = "none"]
    /\ deleting' = [deleting EXCEPT ![s] = NoName]
    /\ UNCHANGED <<lead, foll, registry, size, workerVars, inbox, gcList, faults, panic>>

-----------------------------------------------------------------------------
\* A crash and the next start: SnapManager.init removes temporary files and
\* counts the data files; an Applying region is applied again.
CountFiles(fs, s) == Cardinality({n \in NamesOf(s) : fs[n] \in {"cf", "full"}})

Crash(s) ==
    /\ faults < MaxFaults
    /\ TornDelete \/ Unlocked(s)
    /\ faults' = faults + 1
    /\ files' = [n \in Names |-> IF StoreOf(n) = s /\ files[n] = "tmp" THEN "none"
                                 ELSE files[n]]
    /\ size' = [size EXCEPT ![s] = CountFiles(files, s)]
    /\ registry' = [registry EXCEPT ![s] = {}]
    /\ gcList' = [gcList EXCEPT ![s] = {}]
    /\ deleting' = [deleting EXCEPT ![s] = NoName]
    /\ lead' = [r \in Leaders |-> IF r = s THEN Leader(lead[r].applied) ELSE lead[r]]
    /\ foll' = [r \in Leaders |->
                  IF r = s THEN foll[r]
                  ELSE [foll[r] EXCEPT !.pending = 0, !.job = FALSE,
                                       !.state = IF foll[r].index = 0 THEN "absent" ELSE @]]
    /\ inbox' = [r \in Leaders |-> IF r = s THEN inbox[r] ELSE {}]
    /\ queue' = [queue EXCEPT ![s] = <<>>,
                              ![Other(s)] = [k \in DOMAIN @ |-> Cut(@[k], s)]]
    /\ cur' = [cur EXCEPT ![s] = NoTask,
                          ![Other(s)] = IF @.kind = "send" /\ @.pc = "stream"
                                        THEN [@ EXCEPT !.pc = "broken"] ELSE Cut(@, s)]
    /\ UNCHANGED panic

Next ==
    /\ panic = "none"
    /\ \/ \E r \in Leaders :
            \/ Write(r) \/ AskSnapshot(r) \/ StartBuild(r) \/ BuildCF(r) \/ BuildMeta(r)
            \/ SendSnapshot(r) \/ CreatePeer(r) \/ ReadySnapshot(r)
            \/ StartApply(r) \/ FinishApply(r)
            \/ \E i \in Indexes : CheckSnapshot(r, i)
       \/ \E s \in Stores :
            \/ StartSend(s) \/ SenderDone(s) \/ BreakStream(s)
            \/ StartRecv(s) \/ SaveCF(s) \/ RecvFails(s) \/ SaveMeta(s)
            \/ ListIdleSnap(s) \/ FinishDelete(s)
            \/ \E n \in Names : CollectSnapshot(s, n)
            \/ Crash(s)

Spec == Init /\ [][Next]_vars

\* Every thread goes on: the raft, region, snap and store workers of a store.
\* A snapshot expires hours after its build: not every time before it is sent.
ExpiresUnsent(r) ==
    /\ lead[r].gen = "ready" \/ lead[r].pending
    /\ CollectSnapshot(r, Gen(r, lead[r].key))
    /\ ~Unlocked(r)'

Fairness ==
    /\ \A r \in Leaders : <>[][~ExpiresUnsent(r)]_vars
    /\ \A r \in Leaders :
         /\ WF_vars(AskSnapshot(r))
         /\ WF_vars(StartBuild(r) \/ BuildCF(r) \/ BuildMeta(r))
         /\ WF_vars(SendSnapshot(r)) /\ WF_vars(CreatePeer(r))
         /\ WF_vars(\E i \in Indexes : CheckSnapshot(r, i))
         /\ WF_vars(ReadySnapshot(r)) /\ WF_vars(StartApply(r) \/ FinishApply(r))
    /\ \A s \in Stores :
         /\ WF_vars(StartSend(s) \/ SenderDone(s) \/ StartRecv(s)
                    \/ SaveCF(s) \/ RecvFails(s) \/ SaveMeta(s))
         /\ WF_vars(ListIdleSnap(s) \/ \E n \in Names : CollectSnapshot(s, n))
         /\ WF_vars(FinishDelete(s))

FairSpec == Spec /\ Fairness
-----------------------------------------------------------------------------
TypeOK ==
    /\ \A r \in Leaders :
         /\ lead[r].applied \in Indexes
         /\ lead[r].gen \in {"relax", "queued", "building", "built", "ready", "stuck"}
         /\ foll[r].index \in 0..lead[r].applied
         /\ foll[r].state \in {"absent", "normal", "applying"}
         /\ inbox[r] \subseteq Indexes
    /\ \A n \in Names : files[n] \in {"none", "tmp", "cf", "full", "meta"}
    /\ \A s \in Stores : size[s] \in Nat /\ gcList[s] \subseteq NamesOf(s)



\* "Ensure the snapshot being built / sent / received / to be applied will not
\* be deleted on GC": the files a worker is at are as it left them.
InUseKept ==
    /\ \A r \in Leaders : /\ lead[r].gen = "built" => files[Gen(r, lead[r].key)] = "cf"
                          /\ foll[r].job => files[Rev(r, foll[r].index)] = "full"
    /\ \A s \in Stores :
         /\ cur[s].kind = "send" /\ cur[s].pc = "stream" => files[Gen(s, cur[s].i)] = "full"
         /\ cur[s].kind = "recv" /\ cur[s].pc = "saving" => files[Rev(cur[s].r, cur[s].i)] = "cf"

\* snapSize never says less than the files hold: MaxTotalSize is a limit.
SizeCovers == \A s \in Stores : size[s] >= CountFiles(files, s)

=============================================================================
