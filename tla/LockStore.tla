------------------------------ MODULE LockStore ------------------------------
(***************************************************************************)
(* The locks of one region on one store.  Locks are never written to       *)
(* badger: the apply worker keeps them in the memory table                 *)
(* bundle.LockStore (engine.go, WriteToKV), and two readers rebuild from   *)
(* the raft log what the table does not show: a region snapshot            *)
(* (newRegionSnapshot, redoLocks) and a restart, which loads the last dump *)
(* of the table and replays the value log of the raft engine               *)
(* (RestoreLockStore).                                                     *)
(*                                                                         *)
(* Four threads interleave: the proposer of entries, the apply worker      *)
(* (execute into the write batch, write badger, write the lock table), the *)
(* region worker (copy the table key by key, open a transaction, redo) and *)
(* the dumper (read the value log's offset, sleep, dump).  The store may   *)
(* crash between any two steps.                                            *)
(***************************************************************************)
EXTENDS Integers, Sequences, FiniteSets, SequencesExt

CONSTANTS
  Keys,        \* keys of the region: a set of integers
  Txns,        \* transactions, named by their start timestamp
  LargeTxns,   \* transactions whose values go to the default column family
  Setups,      \* [custom, lagging]: conf.CustomRaftLog, and whether the peer
               \* is a follower that applies entries later than they commit
  Losses,      \* whether an appended entry may be overwritten: {FALSE}, BOOLEAN
  LateCommit,  \* a client may commit a key it was rolled back on
  DumpWaits,   \* the dumper's sleep is long enough for the log to be applied
  MaxLog, MaxRestarts, MaxJobs  \* bounds

None == [txn |-> 0, val |-> "none"]
Keep == [txn |-> 0, val |-> "keep"]

\* A lock as mvcc.Lock carries it: its start timestamp and its value.
LockOf(t) == [txn |-> t, val |-> IF t \in LargeTxns THEN "large" ELSE "small"]
PessimisticLockOf(t) == [txn |-> t, val |-> "pessimistic"]

Locks == {None} \cup {LockOf(t) : t \in Txns} \cup {PessimisticLockOf(t) : t \in Txns}
Types == {"prewrite", "lock", "commit", "rollback", "unlock"}
Entries == [type : Types, txn : Txns, keys : SUBSET Keys \ {{}}, del : SUBSET Keys]

VARIABLES
  conf,       \* the setup of this behaviour, a member of Setups
  log,        \* the committed entries of the region
  vlog,       \* the value log of the raft engine: entries as appended
  applied,    \* applyState.appliedIndex as badger has it
  exec,       \* applyState.appliedIndex as the applier has it
  redo,       \* applier.redoIndex
  wb,         \* the write batch: entries and lockEntries
  flushing,   \* WriteToKV is between its two steps
  data,       \* committed writes and rollback records in badger
  lockStore,  \* bundle.LockStore
  task,       \* the region worker's snapshot generation
  dumper,     \* the offset the dumper has read, -1 when it has none
  dump,       \* lockstore.dump: locks and offset
  restarts, jobs, panicked

vars == <<conf, log, vlog, applied, exec, redo, wb, flushing, data, lockStore,
          task, dumper, dump, restarts, jobs, panicked>>

NoLocks == [k \in Keys |-> None]
EmptyBatch == [locks |-> [k \in Keys |-> Keep], data |-> {}]
NoTask == [pc |-> "none", redo |-> 0, copied |-> {}, locks |-> NoLocks]

Init ==
  /\ conf \in Setups
  /\ log = <<>> /\ vlog = <<>>
  /\ applied = 0 /\ exec = 0 /\ redo = 1
  /\ wb = EmptyBatch /\ flushing = FALSE
  /\ data = {} /\ lockStore = NoLocks
  /\ task = NoTask
  /\ dumper = -1 /\ dump = [locks |-> NoLocks, offset |-> 0]
  /\ restarts = 0 /\ jobs = 0 /\ panicked = FALSE

-----------------------------------------------------------------------------
(* What the entries mean: the reference the code is checked against. *)

MeansOn(locks, e) ==
  [k \in Keys |->
     CASE k \notin e.keys -> locks[k]
       [] e.type = "prewrite" -> LockOf(e.txn)
       [] e.type = "lock" -> PessimisticLockOf(e.txn)
       [] OTHER -> IF locks[k].txn = e.txn THEN None ELSE locks[k]]

\* The locks that the first n entries of the log leave behind.
LocksAt(n) == FoldLeft(MeansOn, NoLocks, SubSeq(log, 1, n))

Has(type, k, t, n) ==
  \E i \in 1..n : log[i].type = type /\ log[i].txn = t /\ k \in log[i].keys

-----------------------------------------------------------------------------
(* From an entry to requests and back.                                     *)

\* The requests raftWriteBatch appends for one key.  A request names its
\* command and column family; a put of the write family says whether it is a
\* rollback record.
Put(cf, k, lock) == [cmd |-> "put", cf |-> cf, key |-> k, lock |-> lock]
Del(cf, k) == [cmd |-> "del", cf |-> cf, key |-> k, lock |-> None]

Prewrite(k, t) ==
  IF t \in LargeTxns
  THEN <<Put("default", k, LockOf(t)), Put("lock", k, [LockOf(t) EXCEPT !.val = "none"])>>
  ELSE <<Put("lock", k, LockOf(t))>>

Commit(k, t) ==
  <<Put("write", k, LockOf(t)), Del("lock", k)>>

RollbackRecord(t) == [txn |-> t, val |-> "rollback"]
Rollback(k, t, deleteLock) ==
  <<Put("write", k, RollbackRecord(t))>>
    \o (IF deleteLock THEN <<Del("lock", k)>> ELSE <<>>)

PessimisticLock(k, t) ==
  <<Put("lock", k, PessimisticLockOf(t))>>

PessimisticRollback(k) ==
  <<Del("lock", k)>>

RequestsOf(e, k) ==
  CASE e.type = "prewrite" -> Prewrite(k, e.txn)
    [] e.type = "lock" -> PessimisticLock(k, e.txn)
    [] e.type = "commit" -> Commit(k, e.txn)
    [] e.type = "rollback" -> Rollback(k, e.txn, k \in e.del)
    [] e.type = "unlock" -> PessimisticRollback(k)

\* Write: the requests of the batch's keys, in one command.
Requests(e) ==
  FlattenSeq([i \in 1..Cardinality(e.keys) |->
                RequestsOf(e, SetToSortSeq(e.keys, <)[i])])

Op(type, k, lock, del) == [type |-> type, key |-> k, lock |-> lock, del |-> del]

IsDelLock(requests, i) ==
  i \in DOMAIN requests /\ requests[i].cmd = "del" /\ requests[i].cf = "lock"

\* The lock of a prewrite; a large value comes with the put of the default
\* column family.
ConvertPrewriteToLock_bare(putDefault, putLock) == putLock.lock
ConvertPrewriteToLock(putDefault, putLock) ==
  IF putDefault = putLock THEN putLock.lock
  ELSE [putLock.lock EXCEPT !.val = putDefault.lock.val]

\* One turn of createWriteCmdOps' loop at request i: the operations, at most
\* one, and how many requests it takes.
OpAt(requests, i) ==
  LET r == requests[i]
      Is(cmd, cf) == r.cmd = cmd /\ r.cf = cf
      rollback == r.lock.val = "rollback"
      del == IsDelLock(requests, i + 1)
      Takes(n, op) == [n |-> n, ops |-> <<op>>]
  IN CASE Is("del", "default") -> Takes(3, Op("rollback", r.key, requests[i + 1].lock, TRUE))
       [] Is("del", "write") -> [n |-> 1, ops |-> <<>>]
       [] Is("del", "lock") -> Takes(1, Op("unlock", r.key, None, TRUE))
       [] Is("put", "default") -> Takes(2, Op("prewrite", r.key,
                                    ConvertPrewriteToLock(r, requests[i + 1]), FALSE))
       [] Is("put", "lock") -> Takes(1, Op("prewrite", r.key, ConvertPrewriteToLock(r, r), FALSE))
       [] Is("put", "write") /\ rollback -> Takes(IF del THEN 2 ELSE 1,
                                               Op("rollback", r.key, r.lock, del))
       [] Is("put", "write") /\ ~rollback -> Takes(2, Op("commit", r.key, r.lock, TRUE))

\* A command that starts with a delete of the write family is a GC command.
IsGC(requests) == requests[1].cmd = "del" /\ requests[1].cf = "write"

CreateWriteCmdOps(requests) ==
  LET from[i \in 1..Len(requests) + 1] ==
        IF i > Len(requests) THEN <<>>
        ELSE OpAt(requests, i).ops \o from[i + OpAt(requests, i).n]
  IN IF IsGC(requests) THEN <<>> ELSE from[1]

\* The custom format: one type for the whole batch, and per key what the type
\* needs; a commit carries the lock itself.
CustomOps(e) ==
  [i \in 1..Cardinality(e.keys) |->
     LET k == SetToSortSeq(e.keys, <)[i] IN
     CASE e.type = "prewrite" -> Op("prewrite", k, LockOf(e.txn), FALSE)
       [] e.type = "lock" -> Op("prewrite", k, PessimisticLockOf(e.txn), FALSE)
       [] e.type = "commit" -> Op("carried", k, LockOf(e.txn), TRUE)
       [] e.type = "rollback" -> Op("rollback", k, RollbackRecord(e.txn), k \in e.del)
       [] e.type = "unlock" -> Op("unlock", k, None, TRUE)]

-----------------------------------------------------------------------------
(* Proposals.  What mvcc asks for is external: it reads the lock table of   *)
(* the leader and holds the latches of its keys until its entry is applied. *)

InFlight(k) == \E i \in applied + 1 .. Len(log) : k \in log[i].keys

\* The lock the proposer sees on k.
Seen(k) == IF conf.lagging THEN LocksAt(Len(log))[k] ELSE lockStore[k]

MayPropose(e, k) ==
  LET t == e.txn
      over == Has("commit", k, t, Len(log)) \/ Has("rollback", k, t, Len(log))
  IN /\ conf.lagging \/ (~InFlight(k) /\ ~flushing)
     /\ CASE e.type = "prewrite" -> ~over /\ Seen(k) \in {None, PessimisticLockOf(t)}
          [] e.type = "lock" -> ~over /\ Seen(k) = None
          [] e.type = "commit" -> /\ Seen(k) = LockOf(t)
                                  /\ LateCommit \/ ~Has("rollback", k, t, Len(log))
          [] e.type = "rollback" -> /\ ~Has("commit", k, t, Len(log))
                                    /\ over => Seen(k).txn = t
                                    /\ (k \in e.del) = (Seen(k).txn = t)
          [] e.type = "unlock" -> Seen(k) = PessimisticLockOf(t)

\* A bound: transactions start in the order of their timestamps.
Started(t) == \A u \in Txns : u < t => \E i \in DOMAIN vlog : vlog[i].entry.txn = u

\* An entry is appended to the raft engine and, unless another leader
\* overwrites it, committed.
Propose(e, lost) ==
  /\ Len(vlog) < MaxLog /\ Started(e.txn)
  /\ e.del \subseteq e.keys
  /\ e.type # "rollback" => e.del = {}
  /\ \A k \in e.keys : MayPropose(e, k)
  /\ vlog' = Append(vlog, [idx |-> Len(log) + 1, entry |-> e])
  /\ log' = IF lost THEN log ELSE Append(log, e)
  /\ UNCHANGED <<conf, applied, exec, redo, wb, flushing, data, lockStore, task,
                 dumper, dump, restarts, jobs, panicked>>

-----------------------------------------------------------------------------
(* The apply worker. *)

Working == ~flushing /\ ~panicked

\* applyWorker.run takes the next batch: what it applies from here on is what
\* a snapshot scheduled in this batch redoes.
BeginBatch ==
  /\ Working /\ exec = applied /\ redo # exec + 1
  /\ redo' = exec + 1
  /\ UNCHANGED <<conf, log, vlog, applied, exec, wb, flushing, data, lockStore, task,
                 dumper, dump, restarts, jobs, panicked>>

GetLock(b, k) ==
  IF lockStore[k] # None THEN lockStore[k]
  ELSE IF b.locks[k] # Keep THEN b.locks[k] ELSE None

SetLock(b, k, lock) == [b EXCEPT !.locks[k] = lock]
DeleteLock(b, k) == [b EXCEPT !.locks[k] = None]

\* The value a lock carries, and the transaction the commit request names;
\* the record that a transaction was rolled back.
SetWithUserMeta(b, k, lock, for) ==
  [b EXCEPT !.data = @ \cup {[key |-> k, for |-> for, lock |-> lock]}]
SetRollback(b, k, record) ==
  [b EXCEPT !.data = @ \cup {[key |-> k, for |-> record.txn, lock |-> record]}]

\* commitLock writes the value the lock carries and deletes the lock.
CommitLock(b, k, lock, for) == DeleteLock(SetWithUserMeta(b, k, lock, for), k)

ExecPrewrite(b, op) == SetLock(b, op.key, op.lock)

ExecCommit(b, op) == CommitLock(b, op.key, GetLock(b, op.key), op.lock.txn)

ExecRollback(b, op) ==
  LET r == IF op.type = "rollback" THEN SetRollback(b, op.key, op.lock) ELSE b
  IN IF op.del THEN DeleteLock(r, op.key) ELSE r

ExecOp(b, op) ==
  CASE op.type = "prewrite" -> ExecPrewrite(b, op)
    [] op.type = "commit" -> ExecCommit(b, op)
    [] op.type = "carried" -> CommitLock(b, op.key, op.lock, op.lock.txn)
    [] OTHER -> ExecRollback(b, op)

OpsOf(e) == IF conf.custom THEN CustomOps(e) ELSE CreateWriteCmdOps(Requests(e))

\* execWriteCmd, of the next committed entry.  execCommit asserts that it
\* found a lock.
ExecWriteCmd ==
  /\ Working /\ exec < Len(log)
  /\ LET ops == OpsOf(log[exec + 1]) IN
     /\ panicked' = \E i \in DOMAIN ops : ops[i].type = "commit" /\ GetLock(wb, ops[i].key) = None
     /\ wb' = FoldLeft(ExecOp, wb, ops)
  /\ exec' = exec + 1
  /\ UNCHANGED <<conf, log, vlog, applied, redo, flushing, data, lockStore, task,
                 dumper, dump, restarts, jobs>>

\* WriteToKV, first step: the entries and the apply state go to badger in one
\* transaction.
WriteEntries ==
  /\ Working /\ exec > applied
  /\ applied' = exec
  /\ data' = data \cup wb.data
  /\ flushing' = TRUE
  /\ UNCHANGED <<conf, log, vlog, exec, redo, wb, lockStore, task,
                 dumper, dump, restarts, jobs, panicked>>

\* WriteToKV, second step: the lock entries go to the lock table, under
\* MemStoreMu, which its readers do not take.  Then the batch is reset.
WriteLocks ==
  /\ flushing
  /\ lockStore' = [k \in Keys |-> IF wb.locks[k] = Keep THEN lockStore[k] ELSE wb.locks[k]]
  /\ wb' = EmptyBatch
  /\ flushing' = FALSE
  /\ UNCHANGED <<conf, log, vlog, applied, exec, redo, data, task,
                 dumper, dump, restarts, jobs, panicked>>

\* handleGenSnapshot: what this batch has applied is flushed first; then the
\* task goes to the region worker with the batch's redoIndex.
HandleGenSnapshot ==
  /\ Working /\ exec = applied
  /\ task.pc = "none" /\ jobs < MaxJobs
  /\ task' = [NoTask EXCEPT !.pc = "copy", !.redo = redo]
  /\ jobs' = jobs + 1
  /\ UNCHANGED <<conf, log, vlog, applied, exec, redo, wb, flushing, data, lockStore,
                 dumper, dump, restarts, panicked>>

-----------------------------------------------------------------------------
(* Replaying entries. *)

RestorePrewrite(locks, op) == [locks EXCEPT ![op.key] = op.lock]
RestoreCommit(locks, op) == [locks EXCEPT ![op.key] = None]

RestoreOp(locks, op) ==
  CASE op.type = "prewrite" -> RestorePrewrite(locks, op)
    [] op.type = "commit" -> RestoreCommit(locks, op)
    [] OTHER -> locks

\* restoreAppliedEntry: the entry is read as a RaftCmdRequest, which an entry
\* of the custom format is not; then nothing is restored from it.
Readable == ~conf.custom
RestoreAppliedEntry(locks, e) ==
  IF Readable THEN FoldLeft(RestoreOp, locks, CreateWriteCmdOps(Requests(e))) ELSE locks

-----------------------------------------------------------------------------
(* The region worker: newRegionSnapshot. *)

\* The lock table is copied by an iterator, while the apply worker goes on.
CopyLock(k) ==
  /\ task.pc = "copy" /\ ~panicked
  /\ \A j \in Keys : j < k => j \in task.copied
  /\ k \notin task.copied
  /\ task' = [task EXCEPT !.copied = @ \cup {k}, !.locks[k] = lockStore[k]]
  /\ UNCHANGED <<conf, log, vlog, applied, exec, redo, wb, flushing, data, lockStore,
                 dumper, dump, restarts, jobs, panicked>>

\* redoLocks: from redoIdx to the applied index of the transaction.  An entry
\* it cannot read is an error: the generation fails.
RedoLocks_short(locks, redoIdx, index) ==
  FoldLeft(RestoreAppliedEntry, locks, SubSeq(log, redoIdx, index - 1))
RedoLocks(locks, redoIdx, index) ==
  FoldLeft(RestoreAppliedEntry, locks, SubSeq(log, redoIdx, index))

\* What newRegionSnapshot returns if it opens its transaction now.
RegionSnapshot ==
  [ok |-> Readable \/ task.redo > applied,
   index |-> applied,
   locks |-> RedoLocks(task.locks, task.redo, applied)]

Copied == task.pc = "copy" /\ task.copied = Keys /\ ~panicked

\* The snapshot is built and the worker is free again; if it cannot be, the
\* error is logged (handleGen).
NewRegionSnapshot ==
  /\ Copied
  /\ task' = [NoTask EXCEPT !.pc = IF RegionSnapshot.ok THEN "none" ELSE "failed"]
  /\ UNCHANGED <<conf, log, vlog, applied, exec, redo, wb, flushing, data, lockStore,
                 dumper, dump, restarts, jobs, panicked>>

-----------------------------------------------------------------------------
(* The dumper, and a restart. *)

ReadOffset ==
  /\ dumper = -1 /\ jobs < MaxJobs /\ restarts < MaxRestarts /\ ~panicked
  /\ dumper' = Len(vlog)
  /\ jobs' = jobs + 1
  /\ UNCHANGED <<conf, log, vlog, applied, exec, redo, wb, flushing, data, lockStore,
                 task, dump, restarts, panicked>>

\* All that was appended before the offset is in the lock table.
Slept ==
  ~flushing /\ \A i \in 1..dumper : vlog[i].idx <= applied

DumpToFile ==
  /\ dumper >= 0 /\ ~panicked
  /\ DumpWaits => Slept
  /\ dump' = [locks |-> lockStore, offset |-> dumper]
  /\ dumper' = -1
  /\ UNCHANGED <<conf, log, vlog, applied, exec, redo, wb, flushing, data, lockStore,
                 task, restarts, jobs, panicked>>

IsRaftLogApplied(r) == r.idx <= applied

\* RestoreLockStore: the value log from the dump's offset on, in the order the
\* entries were appended, as far as their indexes are applied.
RestoreLockStore ==
  LET Restore(locks, r) ==
        IF IsRaftLogApplied(r) THEN RestoreAppliedEntry(locks, r.entry) ELSE locks
  IN FoldLeft(Restore, dump.locks, SubSeq(vlog, dump.offset + 1, Len(vlog)))

\* A crash loses what is in memory; the restart loads the dump and replays.
\* An index whose entry was lost and never written again is not yet applied.
Restart ==
  /\ restarts < MaxRestarts
  /\ restarts' = restarts + 1
  /\ lockStore' = RestoreLockStore
  /\ exec' = applied /\ redo' = applied + 1
  /\ wb' = EmptyBatch /\ flushing' = FALSE
  /\ task' = NoTask
  /\ dumper' = -1
  /\ panicked' = FALSE
  /\ UNCHANGED <<conf, log, vlog, applied, data, dump, jobs>>

-----------------------------------------------------------------------------
Next ==
  \/ \E e \in Entries, lost \in Losses : Propose(e, lost)
  \/ BeginBatch
  \/ ExecWriteCmd
  \/ WriteEntries
  \/ WriteLocks
  \/ HandleGenSnapshot
  \/ \E k \in Keys : CopyLock(k)
  \/ NewRegionSnapshot
  \/ ReadOffset
  \/ DumpToFile
  \/ Restart

Spec == Init /\ [][Next]_vars

-----------------------------------------------------------------------------
(* Properties *)

\* Types; the applier is never behind badger, and a batch never redoes from
\* beyond what it applies.
TypeOK ==
  /\ conf \in Setups
  /\ Len(log) <= Len(vlog) /\ Len(vlog) <= MaxLog
  /\ 0 <= applied /\ applied <= exec /\ exec <= Len(log)
  /\ 1 <= redo /\ redo <= exec + 1
  /\ \A k \in Keys : wb.locks[k] \in Locks \cup {Keep} /\ lockStore[k] \in Locks
  /\ task.pc \in {"none", "copy", "failed"}
  /\ \A k \in Keys : task.locks[k] \in Locks /\ dump.locks[k] \in Locks
  /\ dumper \in -1..Len(vlog) /\ dump.offset \in 0..Len(vlog)

\* restoreAppliedEntry replays prewrites and commits and passes over
\* rollbacks: a lock too many is one that was rolled back or unlocked.
RolledBack(k, t, n) == Has("rollback", k, t, n) \/ Has("unlock", k, t, n)

Matches(locks, n) ==
  \A k \in Keys :
     \/ locks[k] = LocksAt(n)[k]
     \/ LocksAt(n)[k] = None /\ RolledBack(k, locks[k].txn, n)


\* A region snapshot has the locks of exactly the entries up to its index,
\* though the table is copied key by key while batches are applied, before
\* the transaction that fixes the index is opened (newRegionSnapshot).
SnapshotLocks ==
  Copied /\ RegionSnapshot.ok =>
     (conf.custom /\ restarts > 0) \/ Matches(RegionSnapshot.locks, RegionSnapshot.index)

=============================================================================
