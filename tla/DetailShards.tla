----------------------------- MODULE DetailShards -----------------------------
(* The daily files of resolution details: the queue and worker that write them,    *)
(* the queries that read them, and retention, which moves the common watermark,    *)
(* records the retired files in a manifest and deletes them.  Leases on the files  *)
(* hold the retention gate for reading, the lock of their day and a permit, taken  *)
(* in this order; publication holds the gate for writing, deletion the day's lock. *)
EXTENDS Integers, Sequences, FiniteSets

CONSTANTS
  Records, RecordDay,   \* details to store, and the UTC day each belongs to
  MaxDay,               \* bound: the days that pass
  KeepDays, GraceDays,  \* the retention policy
  QueueCapacity, BatchSize, MaxLeases,
  MaxShardFaults,       \* bound: timeouts and I/O errors
  MaxShardKills         \* bound: deaths of the process

VARIABLES
  disk,     \* the files, the manifest and the persisted watermark
  proc,     \* the process: phase, watermark, retiring days, schedule
  sent,     \* records offered to the queue so far
  queue,    \* the channel
  work,     \* the worker's batch
  lease,    \* what the worker and a query hold
  reader,   \* the query's progress
  keeper,   \* the retention task's progress
  mishap    \* faults and kills so far

shardVars == <<disk, proc, sent, queue, work, lease, reader, keeper, mishap>>

Days == 1 .. MaxDay
Clients == {"worker", "query"}
NoLease == [at |-> "none", day |-> 0]
Idle == [at |-> "idle", day |-> 0, list |-> {}]
NoQuery == [at |-> "none", next |-> 0, got |-> {}, revision |-> 0]

Started(before) ==
  [up |-> TRUE, phase |-> "run", before |-> before, retiring |-> {}, revision |-> 0,
   tried |-> FALSE]

\* An earlier process may have left a file of the day.
ShardInit ==
  /\ \E old \in SUBSET {1} :
       disk = [files |-> old, rows |-> [d \in Days |-> {}], before |-> 0, due |-> FALSE,
               today |-> 1, manifest |-> [d \in Days |-> "none"]]
  /\ proc = Started(0)
  /\ sent = {} /\ queue = <<>> /\ work = <<>>
  /\ lease = [c \in Clients |-> NoLease]
  /\ reader = NoQuery /\ keeper = Idle
  /\ mishap = [faults |-> 0, kills |-> 0]

Mishap == mishap.faults < MaxShardFaults /\ mishap' = [mishap EXCEPT !.faults = @ + 1]

-------------------------------------------------------------------------------
\* Leases.  A waiting publication keeps new readers out of the gate.
GateFree == keeper.at \notin {"gate", "publish", "published"}
Gated == {c \in Clients : lease[c].at # "none"}
DayHolders(d) == {c \in Clients : lease[c].at \in {"locked", "open"} /\ lease[c].day = d}
                 \cup (IF keeper.at \in {"delete", "deleted"} /\ keeper.day = d
                       THEN {"keeper"} ELSE {})
Permits == {c \in Clients : lease[c].at = "open"}

Visible(d) == proc.phase # "closed" /\ d >= proc.before /\ d \notin proc.retiring
Retired(d) == d < proc.before

\* Through the gate, the day is looked at before its lock is awaited.
Sees(c, d) == Visible(d) /\ (c = "worker" \/ d \in disk.files)

Gate(c, d) ==
  /\ proc.up /\ lease[c].at = "none" /\ GateFree /\ Sees(c, d)
  /\ lease' = [lease EXCEPT ![c] = [at |-> "gated", day |-> d]]

LockDay(c) ==
  /\ proc.up /\ lease[c].at = "gated" /\ DayHolders(lease[c].day) = {}
  /\ lease' = [lease EXCEPT ![c].at = "locked"]
  /\ UNCHANGED <<disk, proc, sent, queue, work, reader, keeper, mishap>>

\* What is seen again once the lock and the permit are held.
MayOpen(c) == Sees(c, lease[c].day)

\* Opening for writing creates the directory, the file and its layout; an existing file
\* must carry the layout and its own day.
Initialised(c) ==
  IF c = "worker" THEN [disk EXCEPT !.files = @ \cup {lease[c].day}] ELSE disk

Open(c) ==
  /\ proc.up /\ lease[c].at = "locked" /\ Cardinality(Permits) < MaxLeases /\ MayOpen(c)
  /\ lease' = [lease EXCEPT ![c].at = "open"]
  /\ disk' = Initialised(c)
  /\ UNCHANGED <<proc, sent, queue, work, reader, keeper, mishap>>

\* acquire returns None at the first look or at the second.
Refused(c, d) ==
  /\ proc.up
  /\ \/ lease[c].at = "none" /\ GateFree /\ ~Sees(c, d)
     \/ lease[c].at = "locked" /\ Cardinality(Permits) < MaxLeases /\ ~MayOpen(c)

Release(c) == lease' = [lease EXCEPT ![c] = NoLease]

-------------------------------------------------------------------------------
\* The request path offers a record without waiting; a full queue drops it.
TryWrite(r) ==
  /\ proc.up /\ proc.phase = "run" /\ r \notin sent /\ RecordDay[r] <= disk.today
  /\ sent' = sent \cup {r}
  /\ queue' = IF Len(queue) < QueueCapacity THEN Append(queue, r) ELSE queue
  /\ UNCHANGED <<disk, proc, work, lease, reader, keeper, mishap>>

BatchDay == RecordDay[Head(work)]
BatchLength ==
  CHOOSE n \in 1 .. Len(work) :
    /\ \A i \in 1 .. n : RecordDay[work[i]] = BatchDay
    /\ n <= BatchSize
    /\ n = BatchSize \/ n = Len(work) \/ RecordDay[work[n + 1]] # BatchDay
Batch == {work[i] : i \in 1 .. BatchLength}
Rest == SubSeq(work, BatchLength + 1, Len(work))

\* The worker fills its batch from the queue.  A full batch is flushed at once; when
\* that fails the records stay and the next one received is added to them.
MayReceive == Len(work) < BatchSize \/ (proc.phase = "run" /\ proc.tried)

Receive ==
  /\ proc.up /\ proc.phase \in {"run", "drain"} /\ lease["worker"].at = "none"
  /\ queue # <<>> /\ MayReceive
  /\ work' = Append(work, Head(queue)) /\ queue' = Tail(queue)
  /\ proc' = [proc EXCEPT !.tried = FALSE]
  /\ UNCHANGED <<disk, sent, lease, reader, keeper, mishap>>

\* flush: one transaction for the first records of the batch that share a day.
BeginWrite ==
  /\ proc.phase \in {"run", "drain"} /\ work # <<>>
  /\ Gate("worker", BatchDay)
  /\ UNCHANGED <<disk, proc, sent, queue, work, reader, keeper, mishap>>

\* A failed flush: the worker goes on, or, while it empties its batch to stop, gives up.
WriteFailed ==
  \/ proc' = [proc EXCEPT !.tried = TRUE]
  \/ proc.phase = "drain" /\ proc' = [proc EXCEPT !.phase = "closing"]

\* A day below the watermark drops its records; one that is only retiring is an error,
\* and the records stay at the head of the batch.
WriteRefused ==
  /\ proc.phase \in {"run", "drain"} /\ work # <<>>
  /\ Refused("worker", BatchDay) /\ Release("worker")
  /\ \/ Retired(BatchDay) /\ work' = Rest /\ UNCHANGED proc
     \/ ~Retired(BatchDay) /\ WriteFailed /\ UNCHANGED work
  /\ UNCHANGED <<disk, sent, queue, reader, keeper, mishap>>

\* The transaction, its notification and the close.  When the close is late, or the
\* commit went unseen, the records stay in the batch although they are stored.
WriteRecords ==
  /\ proc.up /\ lease["worker"].at = "open" /\ Release("worker")
  /\ disk' = [disk EXCEPT !.rows[BatchDay] = @ \cup Batch]
  /\ \/ work' = Rest /\ UNCHANGED <<proc, mishap>>
     \/ Mishap /\ WriteFailed /\ UNCHANGED work
  /\ UNCHANGED <<sent, queue, reader, keeper>>

\* Any wait of a lease may run into its deadline.
LeaseFails(c) ==
  /\ proc.up /\ lease[c].at # "none" /\ Mishap /\ Release(c)
  /\ \/ c = "query" /\ reader' = NoQuery /\ UNCHANGED proc
     \/ c = "worker" /\ WriteFailed /\ UNCHANGED reader
  /\ UNCHANGED <<disk, sent, queue, work, keeper>>

-------------------------------------------------------------------------------
\* query_details visits the days in order, one lease at a time.
BeginQuery ==
  /\ proc.up /\ proc.phase = "run" /\ reader.at # "scan"
  /\ reader' = [at |-> "scan", next |-> 1, got |-> {}, revision |-> proc.revision]
  /\ UNCHANGED <<disk, proc, sent, queue, work, lease, keeper, mishap>>

QueryDay ==
  /\ reader.at = "scan" /\ reader.next \in Days
  /\ Gate("query", reader.next)
  /\ UNCHANGED <<disk, proc, sent, queue, work, reader, keeper, mishap>>

DayScanned ==
  /\ reader.at = "scan" /\ reader.next \in Days
  /\ (proc.up /\ lease["query"].at = "open") \/ Refused("query", reader.next)
  /\ Release("query")
  /\ reader' = [reader EXCEPT !.next = @ + 1,
                              !.got = IF lease["query"].at = "open"
                                      THEN @ \cup disk.rows[lease["query"].day] ELSE @]
  /\ UNCHANGED <<disk, proc, sent, queue, work, keeper, mishap>>

\* The page is returned only if no watermark was published meanwhile.
IsCurrent_Unchecked(q) == TRUE

IsCurrent(q) == q.revision = proc.revision

EndQuery ==
  /\ proc.up /\ reader.at = "scan" /\ reader.next \notin Days
  /\ reader' = IF IsCurrent(reader) THEN [reader EXCEPT !.at = "page"] ELSE NoQuery
  /\ UNCHANGED <<disk, proc, sent, queue, work, lease, keeper, mishap>>

-------------------------------------------------------------------------------
\* A local day has passed 01:00: the daily run is due.  The last day repeats.
NewDay ==
  /\ ~disk.due
  /\ disk' = [disk EXCEPT !.due = TRUE, !.today = IF @ < MaxDay THEN @ + 1 ELSE @]
  /\ UNCHANGED <<proc, sent, queue, work, lease, reader, keeper, mishap>>

\* 00:00 of the next day, before its 01:00: what was not done is not due for an hour.
Midnight ==
  /\ disk.due /\ keeper.at = "idle" /\ disk' = [disk EXCEPT !.due = FALSE]
  /\ UNCHANGED <<proc, sent, queue, work, lease, reader, keeper, mishap>>

\* Mutant: what failed once is not tried again.
Unreclaimed_PendingOnly == {d \in Days : disk.manifest[d] = "pending"}

Unreclaimed == {d \in Days : disk.manifest[d] \in {"pending", "failed"}}

\* tick: the daily run when it is due, else what is left to reclaim.
TickDaily ==
  /\ proc.up /\ proc.phase = "run" /\ keeper.at = "idle" /\ disk.due
  /\ keeper' = [keeper EXCEPT !.at = "gate"]
  /\ UNCHANGED <<disk, proc, sent, queue, work, lease, reader, mishap>>

TickReclaim ==
  /\ proc.up /\ proc.phase = "run" /\ keeper.at = "idle" /\ ~disk.due /\ Unreclaimed # {}
  /\ keeper' = [at |-> "reclaim", day |-> 0, list |-> Unreclaimed]
  /\ UNCHANGED <<disk, proc, sent, queue, work, lease, reader, mishap>>

\* begin_retention_publication waits for every lease to be returned.
CloseGate ==
  /\ proc.up /\ keeper.at = "gate" /\ Gated = {}
  /\ keeper' = [keeper EXCEPT !.at = "publish"]
  /\ UNCHANGED <<disk, proc, sent, queue, work, lease, reader, mishap>>

\* RetentionPlan: the grace days count unless the sampled files are too large.
KeepFrom(large) ==
  LET target == IF large THEN KeepDays ELSE KeepDays + GraceDays
  IN  IF disk.today > target THEN disk.today - target + 1 ELSE 1

\* A manifest entry for every file below the watermark; a reclaimed day may come back.
Registered(before) ==
  [d \in Days |-> IF d \in disk.files /\ d < before
                     /\ disk.manifest[d] \in {"none", "reclaimed"}
                  THEN "pending" ELSE disk.manifest[d]]

\* One transaction: the watermark never goes back, and the manifest.
PublishWatermark ==
  /\ proc.up /\ keeper.at = "publish"
  /\ \E large \in BOOLEAN :
       LET before == IF KeepFrom(large) > disk.before THEN KeepFrom(large) ELSE disk.before
       IN  disk' = [disk EXCEPT !.before = before, !.manifest = Registered(before)]
  /\ keeper' = [keeper EXCEPT !.at = "published"]
  /\ UNCHANGED <<proc, sent, queue, work, lease, reader, mishap>>

\* The process follows while it still holds the gate, and lets it go.
FollowWatermark ==
  /\ proc.up /\ keeper.at = "published"
  /\ proc' = IF disk.before > proc.before
             THEN [proc EXCEPT !.before = disk.before, !.revision = @ + 1] ELSE proc
  /\ keeper' = [keeper EXCEPT !.at = "ran"]
  /\ UNCHANGED <<disk, sent, queue, work, lease, reader, mishap>>

\* finish_retention_run, a transaction of its own: the day's run is done, and the tick
\* goes on to what is left to reclaim.
FinishRun ==
  /\ proc.up /\ keeper.at = "ran"
  /\ disk' = [disk EXCEPT !.due = FALSE]
  /\ keeper' = [at |-> "reclaim", day |-> 0, list |-> Unreclaimed]
  /\ UNCHANGED <<proc, sent, queue, work, lease, reader, mishap>>

\* begin_retirement: the day is marked, then its lock is awaited.
BeginRetirement(d) ==
  /\ proc.up /\ keeper.at = "reclaim" /\ d \in keeper.list /\ \A e \in keeper.list : d <= e
  /\ proc' = [proc EXCEPT !.retiring = @ \cup {d}]
  /\ keeper' = [keeper EXCEPT !.at = "drain", !.day = d]
  /\ UNCHANGED <<disk, sent, queue, work, lease, reader, mishap>>

RetirementLocked ==
  /\ proc.up /\ keeper.at = "drain" /\ DayHolders(keeper.day) = {}
  /\ keeper' = [keeper EXCEPT !.at = "delete"]
  /\ UNCHANGED <<disk, proc, sent, queue, work, lease, reader, mishap>>

\* reclaim: checkpoint, then the sidecars and the file; a missing file is success.
DeleteFile ==
  /\ proc.up /\ keeper.at = "delete"
  /\ disk' = [disk EXCEPT !.files = @ \ {keeper.day}, !.rows[keeper.day] = {}]
  /\ keeper' = [keeper EXCEPT !.at = "deleted"]
  /\ UNCHANGED <<proc, sent, queue, work, lease, reader, mishap>>

NextRetirement == [at |-> "reclaim", day |-> 0, list |-> keeper.list \ {keeper.day}]

FinishReclaim ==
  /\ proc.up /\ keeper.at = "deleted"
  /\ disk' = [disk EXCEPT !.manifest[keeper.day] = "reclaimed"]
  /\ keeper' = NextRetirement
  /\ UNCHANGED <<proc, sent, queue, work, lease, reader, mishap>>

\* One day's failure is recorded and does not stop the others.
ReclaimFails ==
  /\ proc.up /\ keeper.at \in {"drain", "delete"} /\ Mishap
  /\ disk' = [disk EXCEPT !.manifest[keeper.day] = "failed"]
  /\ keeper' = NextRetirement
  /\ UNCHANGED <<proc, sent, queue, work, lease, reader>>

EndReclaim ==
  /\ proc.up /\ keeper.at = "reclaim" /\ keeper.list = {}
  /\ keeper' = Idle
  /\ UNCHANGED <<disk, proc, sent, queue, work, lease, reader, mishap>>

\* The deadline of a tick, also after a transaction whose commit went unseen.
TickFails ==
  /\ proc.up /\ keeper.at # "idle" /\ Mishap /\ keeper' = Idle
  /\ UNCHANGED <<disk, proc, sent, queue, work, lease, reader>>

-------------------------------------------------------------------------------
\* StorageRuntime::shutdown: retention ends, the worker empties what it has, then the
\* store refuses leases.  A failed write ends the worker with its records.
BeginDrain ==
  /\ proc.up /\ proc.phase = "run"
  /\ proc' = [proc EXCEPT !.phase = "drain"]
  /\ UNCHANGED <<disk, sent, queue, work, lease, reader, keeper, mishap>>

CloseStore ==
  /\ proc.up /\ keeper.at = "idle" /\ lease["worker"].at = "none"
  /\ (proc.phase = "drain" /\ queue = <<>> /\ work = <<>>) \/ proc.phase = "closing"
  /\ proc' = [proc EXCEPT !.phase = "closed"]
  /\ UNCHANGED <<disk, sent, queue, work, lease, reader, keeper, mishap>>

Die ==
  /\ proc.up /\ mishap.kills < MaxShardKills
  /\ mishap' = [mishap EXCEPT !.kills = @ + 1]
  /\ proc' = [Started(0) EXCEPT !.up = FALSE]
  /\ queue' = <<>> /\ work' = <<>> /\ lease' = [c \in Clients |-> NoLease]
  /\ reader' = NoQuery /\ keeper' = Idle
  /\ UNCHANGED <<disk, sent>>

\* The persisted watermark is published before the writer and the scheduler start.
Reopen == Started(disk.before)

Rise ==
  /\ ~proc.up /\ proc' = Reopen
  /\ UNCHANGED <<disk, sent, queue, work, lease, reader, keeper, mishap>>

ShardNext ==
  \/ \E r \in Records : TryWrite(r)
  \/ Receive \/ BeginWrite \/ WriteRefused \/ WriteRecords
  \/ \E c \in Clients : LockDay(c) \/ Open(c) \/ LeaseFails(c)
  \/ BeginQuery \/ QueryDay \/ DayScanned \/ EndQuery
  \/ NewDay \/ Midnight \/ TickDaily \/ TickReclaim \/ CloseGate \/ PublishWatermark
  \/ FollowWatermark \/ FinishRun
  \/ \E d \in Days : BeginRetirement(d)
  \/ RetirementLocked \/ DeleteFile \/ FinishReclaim \/ ReclaimFails \/ EndReclaim \/ TickFails
  \/ BeginDrain \/ CloseStore \/ Die \/ Rise

\* Leases and the retention task move on; the daily run finds its hour sooner or later.
ShardFairness ==
  /\ WF_shardVars(WriteRefused \/ WriteRecords)
  /\ \A c \in Clients : WF_shardVars(LockDay(c)) /\ WF_shardVars(Open(c))
  /\ WF_shardVars(DayScanned)
  /\ WF_shardVars(NewDay) /\ SF_shardVars(TickDaily) /\ WF_shardVars(TickReclaim)
  /\ WF_shardVars(CloseGate \/ PublishWatermark \/ FollowWatermark \/ FinishRun)
  /\ WF_shardVars(\E d \in Days : BeginRetirement(d))
  /\ WF_shardVars(RetirementLocked \/ DeleteFile \/ FinishReclaim \/ EndReclaim)
  /\ WF_shardVars(Rise)

ShardSpec == ShardInit /\ [][ShardNext]_shardVars /\ ShardFairness

-------------------------------------------------------------------------------
\* Every variable has its type; the locks have one holder each, the permits are kept.
ShardsTypeOK ==
  /\ disk.files \subseteq Days /\ disk.rows \in [Days -> SUBSET Records]
  /\ disk.before \in 0 .. MaxDay + 1 /\ disk.today \in Days /\ disk.due \in BOOLEAN
  /\ disk.manifest \in [Days -> {"none", "pending", "failed", "reclaimed"}]
  /\ proc.phase \in {"run", "drain", "closing", "closed"}
  /\ sent \subseteq Records /\ Len(queue) <= QueueCapacity
  /\ \A d \in Days : Cardinality(DayHolders(d)) <= 1
  /\ Cardinality(Permits) <= MaxLeases

\* A file the manifest calls reclaimed is gone, and no lease or late batch brings it back:
\* also when the process never saw its own watermark being committed.
ReclaimedStaysGone ==
  \A d \in Days : disk.manifest[d] = "reclaimed" => d \notin disk.files

\* A page that is handed out holds no record of a day that was below the watermark when
\* the query ended, although the days are read one lease at a time.
ShowsVisible ==
  reader'.at = "page" /\ reader.at = "scan" =>
    \A r \in reader'.got : RecordDay[r] >= proc.before
PageIsVisible == [][ShowsVisible]_shardVars

\* Every file below the persisted watermark is deleted in the end, whatever failed on the
\* way, unless the process is stopped.
Overdue(d) == d \in disk.files /\ d < disk.before
Reclaimed(d) == d \notin disk.files \/ proc.phase # "run"
RetiredIsReclaimed == \A d \in Days : Overdue(d) ~> Reclaimed(d)

===============================================================================
