----------------------------- MODULE StatsStorage -----------------------------
(* Statistics on their way to disk: the accumulator's active epoch, the batches of *)
(* the in-memory ledger, the flush that commits them one by one, the retention     *)
(* transaction that shares the flush lock, and the SQLite database, whose ledger   *)
(* makes a retried batch idempotent.  A transaction that times out may have been   *)
(* committed or not; the process may be killed between any two steps.              *)
EXTENDS Integers, FiniteSets

CONSTANTS
  Events,            \* requests to count
  DayOf,             \* the UTC day of an event
  MaxBatch,          \* bound: the batch ids a behaviour may use
  MaxPending,        \* MAX_PENDING_STATS_BATCHES
  MaxPendingEvents,  \* MAX_PENDING_STATS_EVENTS
  MaxStatsFaults,    \* bound: failed transactions
  MaxStatsKills      \* bound: deaths of the process

ASSUME StatsAssumption ==
  /\ IsFiniteSet(Events) /\ DayOf \in [Events -> Nat]
  /\ MaxBatch \in Nat /\ MaxPending \in Nat /\ MaxPendingEvents \in Nat
  /\ MaxStatsFaults \in Nat /\ MaxStatsKills \in Nat

VARIABLES
  seen,     \* events the dispatcher has handed over
  mem,      \* the process: epoch, ledger, flush and retention
  db,       \* the database file
  acked,    \* events of the batches a flush has reported as committed
  lost,     \* events a dead process had in memory
  trouble   \* faults and kills so far

statsVars == <<seen, mem, db, acked, lost, trouble>>

Ids == 1 .. MaxBatch
Batches == [Ids -> SUBSET Events]    \* an id without a batch has no events
NoBatch == [b \in Ids |-> {}]
Held(batches) == {b \in Ids : batches[b] # {}}
EventsOf(batches) == UNION {batches[b] : b \in Ids}

\* next_pending_batch and replay_floor_batch_id.
IsOldest(b, batches) == b \in Held(batches) /\ \A c \in Held(batches) : b <= c
ReplayFloor(m) == IF Held(m.pending) = {} THEN m.next
                  ELSE CHOOSE b \in Ids : IsOldest(b, m.pending)

Fresh(next) ==
  [up |-> TRUE, active |-> {}, next |-> next, pending |-> NoBatch, known |-> {},
   lock |-> "free", floor |-> 1, stop |-> "no", result |-> "none"]

StatsInit ==
  /\ seen = {} /\ acked = {} /\ lost = {}
  /\ mem = Fresh(1)
  /\ db = [rows |-> [e \in Events |-> 0], ledger |-> NoBatch, before |-> 0, floor |-> 1,
           health |-> "Healthy"]
  /\ trouble = [faults |-> 0, kills |-> 0]

StorageFault == trouble.faults < MaxStatsFaults /\ trouble' = [trouble EXCEPT !.faults = @ + 1]

-------------------------------------------------------------------------------
\* A request is counted in the active epoch; the dispatcher stops before storage does.
Record(e) ==
  /\ mem.up /\ mem.stop = "no" /\ e \notin seen
  /\ seen' = seen \cup {e}
  /\ mem' = [mem EXCEPT !.active = @ \cup {e}]
  /\ UNCHANGED <<db, acked, lost, trouble>>

AtLimit ==
  LET waiting == Cardinality(EventsOf(mem.pending))
  IN  \/ Cardinality(Held(mem.pending)) >= MaxPending
      \/ waiting >= MaxPendingEvents
      \/ Cardinality(mem.active) > MaxPendingEvents - waiting

\* flush: under the lock the epoch is swapped and becomes the newest batch.  At the
\* limit nothing is swapped and the error is fatal: the periodic task ends.
Swapped_DropEpoch(m) ==
  IF AtLimit THEN [m EXCEPT !.result = "fatal"]
  ELSE IF m.active = {} \/ Held(m.pending) # {}
  THEN [m EXCEPT !.active = {}, !.lock = IF Held(m.pending) = {} THEN "free" ELSE "execute",
                 !.result = IF Held(m.pending) = {} THEN "ok" ELSE "none"]
  ELSE [m EXCEPT !.pending[m.next] = m.active, !.next = @ + 1, !.active = {},
                 !.lock = "execute", !.result = "none"]

Swapped(m) ==
  IF AtLimit THEN [m EXCEPT !.result = "fatal"]
  ELSE IF m.active = {}
  THEN [m EXCEPT !.lock = IF Held(m.pending) = {} THEN "free" ELSE "execute",
                 !.result = IF Held(m.pending) = {} THEN "ok" ELSE "none"]
  ELSE [m EXCEPT !.pending[m.next] = m.active, !.next = @ + 1, !.active = {},
                 !.lock = "execute", !.result = "none"]

\* The periodic flush, or the last one of a shutdown.
BeginFlush ==
  /\ mem.up /\ mem.lock = "free"
  /\ mem.active # {} => mem.next \in Ids
  /\ \/ mem.stop = "no" /\ mem.result # "fatal" /\ mem' = Swapped(mem)
     \/ mem.stop = "asked" /\ mem' = Swapped([mem EXCEPT !.stop = "last"])
  /\ UNCHANGED <<seen, db, acked, lost, trouble>>

\* apply_stats_batch: a batch the ledger knows changes nothing; otherwise its events
\* are counted, those of retired days excepted, and the ledger gets its row.
Apply(d, b, batch) ==
  IF d.ledger[b] # {} THEN d
  ELSE [d EXCEPT !.rows = [e \in Events |->
                             IF e \in batch /\ DayOf[e] >= d.before THEN @[e] + 1 ELSE @[e]],
                 !.ledger[b] = batch]

Available == db.health \in {"Healthy", "Degraded"}
Conflicts(b) == db.ledger[b] # {} /\ db.ledger[b] # mem.pending[b]

\* execute commits the oldest batch and its ledger row in one transaction.
CommitBatch(b) ==
  /\ mem.up /\ mem.lock = "execute" /\ IsOldest(b, mem.pending)
  /\ Available /\ ~Conflicts(b)
  /\ db' = [Apply(db, b, mem.pending[b]) EXCEPT !.health = "Healthy"]
  /\ mem' = [mem EXCEPT !.lock = "applied"]
  /\ UNCHANGED <<seen, acked, lost, trouble>>

FlushFailed == [mem EXCEPT !.lock = "free", !.result = "error"]

\* The transaction is rolled back: an I/O error degrades the backend, a closed or
\* exhausted pool makes it fail for good.
RollBack ==
  /\ mem.up /\ mem.lock = "execute" /\ Available /\ StorageFault
  /\ \E health \in {"Degraded", "Failed"} : db' = [db EXCEPT !.health = health]
  /\ mem' = FlushFailed
  /\ UNCHANGED <<seen, acked, lost>>

\* A failed backend, or a ledger row of another payload under the same id.
Refuse(b) ==
  /\ mem.up /\ mem.lock = "execute" /\ IsOldest(b, mem.pending)
  /\ ~Available \/ Conflicts(b)
  /\ mem' = FlushFailed
  /\ UNCHANGED <<seen, db, acked, lost, trouble>>

\* The commit reached the file, but the deadline cut the call off.
CommitUnseen ==
  /\ mem.up /\ mem.lock = "applied" /\ StorageFault
  /\ mem' = FlushFailed
  /\ UNCHANGED <<seen, db, acked, lost>>

\* The ledger moves the batch to its committed ones; the flush goes on or is done.
Acknowledge(b) ==
  /\ mem.up /\ mem.lock = "applied" /\ IsOldest(b, mem.pending)
  /\ LET rest == [mem.pending EXCEPT ![b] = {}]
     IN  mem' = [mem EXCEPT !.pending = rest, !.known = @ \cup {b},
                            !.lock = IF Held(rest) = {} THEN "free" ELSE "execute",
                            !.result = IF Held(rest) = {} THEN "ok" ELSE "none"]
  /\ acked' = acked \cup mem.pending[b]
  /\ UNCHANGED <<seen, db, lost, trouble>>

-------------------------------------------------------------------------------
\* begin_retention: the lease holds the flush lock and freezes the replay floor.
BeginRetention ==
  /\ mem.up /\ mem.lock = "free" /\ mem.stop = "no"
  /\ mem' = [mem EXCEPT !.lock = "retention", !.floor = ReplayFloor(mem)]
  /\ UNCHANGED <<seen, db, acked, lost, trouble>>

MaxOf(a, b) == IF a >= b THEN a ELSE b

\* publish_retention: one transaction moves the watermark and the floor forward,
\* deletes the statistics of retired days and the ledger rows below the floor.
PublishedCutoff(keep) ==
  LET before == MaxOf(db.before, keep)
      floor == MaxOf(db.floor, mem.floor)
  IN  [db EXCEPT !.before = before, !.floor = floor, !.health = "Healthy",
                 !.rows = [e \in Events |-> IF DayOf[e] < before THEN 0 ELSE @[e]],
                 !.ledger = [b \in Ids |-> IF b < floor THEN {} ELSE @[b]]]

PublishRetention(keep) ==
  /\ mem.up /\ mem.lock = "retention" /\ Available
  /\ db' = PublishedCutoff(keep)
  /\ mem' = [mem EXCEPT !.lock = "published"]
  /\ UNCHANGED <<seen, acked, lost, trouble>>

\* The lease's commit forgets the ids below the floor.
EndRetention ==
  /\ mem.up /\ mem.lock = "published"
  /\ mem' = [mem EXCEPT !.lock = "free", !.known = {b \in @ : b >= mem.floor}]
  /\ UNCHANGED <<seen, db, acked, lost, trouble>>

\* The lease is dropped: the transaction was refused, or committed unseen.
DropRetention ==
  /\ mem.up /\ mem.lock \in {"retention", "published"}
  /\ IF mem.lock = "retention" /\ ~Available THEN UNCHANGED trouble ELSE StorageFault
  /\ mem' = [mem EXCEPT !.lock = "free"]
  /\ UNCHANGED <<seen, db, acked, lost>>

-------------------------------------------------------------------------------
\* StorageService::shutdown: a last flush, then the backend stops whatever came of it.
BeginStop ==
  /\ mem.up /\ mem.stop = "no"
  /\ mem' = [mem EXCEPT !.stop = "asked"]
  /\ UNCHANGED <<seen, db, acked, lost, trouble>>

StopBackend ==
  /\ mem.up /\ mem.stop = "last" /\ mem.lock = "free"
  /\ db' = [db EXCEPT !.health = "Stopping"]
  /\ mem' = [mem EXCEPT !.stop = IF mem.result = "ok" THEN "clean" ELSE "failed"]
  /\ UNCHANGED <<seen, acked, lost, trouble>>

\* The process ends, in any state.
Kill ==
  /\ mem.up /\ trouble.kills < MaxStatsKills
  /\ trouble' = [trouble EXCEPT !.kills = @ + 1]
  /\ mem' = [Fresh(1) EXCEPT !.up = FALSE]
  /\ lost' = lost \cup mem.active \cup EventsOf(mem.pending)
  /\ UNCHANGED <<seen, db, acked>>

\* retention_bootstrap: batch ids go on above the ledger and the persisted floor.
Bootstrap_LedgerOnly(d) ==
  IF Held(d.ledger) = {} THEN 1
  ELSE (CHOOSE b \in Held(d.ledger) : \A c \in Held(d.ledger) : c <= b) + 1

Bootstrap(d) ==
  MaxOf(d.floor,
        IF Held(d.ledger) = {} THEN 1
        ELSE (CHOOSE b \in Held(d.ledger) : \A c \in Held(d.ledger) : c <= b) + 1)

Restart ==
  /\ ~mem.up
  /\ mem' = Fresh(Bootstrap(db))
  /\ db' = [db EXCEPT !.health = "Healthy"]
  /\ UNCHANGED <<seen, acked, lost, trouble>>

StatsNext ==
  \/ \E e \in Events : Record(e)
  \/ BeginFlush \/ RollBack \/ CommitUnseen
  \/ \E b \in Ids : CommitBatch(b) \/ Refuse(b) \/ Acknowledge(b)
  \/ BeginRetention \/ EndRetention \/ DropRetention
  \/ \E e \in Events : PublishRetention(DayOf[e] + 1)
  \/ BeginStop \/ StopBackend \/ Kill \/ Restart

StatsSpec == StatsInit /\ [][StatsNext]_statsVars

-------------------------------------------------------------------------------
StatsTypeOK ==
  /\ seen \subseteq Events /\ acked \subseteq seen /\ lost \subseteq seen
  /\ mem \in [up : BOOLEAN, active : SUBSET Events, next : 1 .. MaxBatch + 1, pending : Batches,
              known : SUBSET Ids, floor : 1 .. MaxBatch + 1,
              lock : {"free", "execute", "applied", "retention", "published"},
              stop : {"no", "asked", "last", "clean", "failed"},
              result : {"none", "ok", "error", "fatal"}]
  /\ db \in [rows : [Events -> Nat], ledger : Batches, before : Nat, floor : 1 .. MaxBatch + 1,
             health : {"Healthy", "Degraded", "Failed", "Stopping"}]
  /\ trouble \in [faults : 0 .. MaxStatsFaults, kills : 0 .. MaxStatsKills]

\* A request is counted at most once, whatever is retried, cut off, reclaimed by
\* retention or restarted, and never again once its day is retired: the ledger row of
\* apply_stats_batch outlives every replay of its batch.
CountedOnce ==
  \A e \in Events : db.rows[e] <= 1 /\ (DayOf[e] < db.before => db.rows[e] = 0)

\* What a flush has reported as committed, and after a clean stop every event that did
\* not die with a process, is counted for as long as its day is kept.
ReportedIsCounted ==
  \A e \in acked \cup (IF mem.stop = "clean" THEN seen \ lost ELSE {}) :
     db.rows[e] = 1 \/ DayOf[e] < db.before
===============================================================================
