----------------------------- MODULE RetentionView -----------------------------
(* The retention policy as it is applied, shown and used.  The management pages   *)
(* read the policy of the active configuration and compute from it and from the   *)
(* files on disk what is kept; the daily run computes the same from the policy    *)
(* its scheduler holds, publishes the watermark and gives the files back.  A      *)
(* status is read in several steps, under the lock of the runs.                   *)
EXTENDS Integers, FiniteSets, FiniteSetsExt

CONSTANTS
  Policies,        \* the policies that are configured: [days, grace, size]
  MaxRetention,    \* the largest number of days, with grace, that a policy may keep
  LastDay,         \* bound: the clock
  MaxDayBytes,     \* bound: size of one day's file
  MaxApplies,      \* bound: changes of the configuration
  MaxViewTroubles  \* bound: deadlines, failing reclaims and restarts

VARIABLES
  today,
  files,     \* bytes of each day's file, main and write-ahead log together; 0: no file
  sql,       \* the tables: published watermark, manifest, the day of the last daily run
  store,     \* the process's own watermark, and the days it has begun to reclaim
  scheduler, \* the policy the scheduler was made with, and the step of its tick
  config,    \* the active configuration and the runtime it belongs to
  status,    \* a read of the retention status
  preview,   \* the last preview, with what it compared
  troubles

viewVars == <<today, files, sql, store, scheduler, config, status, preview, troubles>>

Days == 1 .. LastDay
Watermark == 0 .. LastDay  \* 0: nothing was published

\* RetentionPolicy::new
ValidPolicy(p) == p.days >= 1 /\ p.days + p.grace <= MaxRetention /\ p.size >= 1

\* The days kept shrink when the files are larger than the reference size.
TargetDays(p, bytes) == IF bytes > p.size THEN p.days ELSE p.days + p.grace
KeepFrom(p, day, bytes) == day - (TargetDays(p, bytes) - 1)

BytesOf(days) == MapThenSumSet(LAMBDA d : files[d], days)
ShardDays == {d \in Days : files[d] > 0}

\* Every file of the days asked for, those of all days without an argument.
SampleStorage(days) == [bytes |-> BytesOf(days \cap ShardDays), days |-> days \cap ShardDays]

\* Manifest rows that still have to be reclaimed, the failed ones included.
Pending == {d \in Days : sql.manifest[d] \in {"pending", "failed"}}

Idle == [at |-> "idle"]
NoStatus == [at |-> "none"]
NoPreview == [shortens |-> FALSE, confirm |-> FALSE]

ViewInit ==
  /\ today = 1 /\ files = [d \in Days |-> 0] /\ troubles = 0
  /\ sql = [cutoff |-> 0, manifest |-> [d \in Days |-> "none"], ran |-> 0]
  /\ store = [before |-> 0, retiring |-> {}]
  /\ \E p \in Policies :
       /\ scheduler = [policy |-> p, run |-> Idle]
       /\ config = [active |-> p, revision |-> 0, runtime |-> 0, coordinator |-> 0,
                    applying |-> p, observed |-> 0]
  /\ status = NoStatus /\ preview = NoPreview

\* tokio's mutex around a run: the scheduler and a status take it one at a time.
RunLockFree ==
  /\ scheduler.run.at \notin {"publish", "follow", "reclaim"} /\ status.at \in {"none", "shown"}

Trouble == troubles < MaxViewTroubles /\ troubles' = troubles + 1

\* day_is_visible, for the process: it goes by the watermark it has seen itself.
Visible(d) == d >= store.before /\ d \notin store.retiring

\* Details are written to days that are not retired; a publication keeps writers out.
WriteDetail(d) ==
  /\ d <= today /\ Visible(d) /\ files[d] < MaxDayBytes
  /\ scheduler.run.at \notin {"publish", "follow"}
  /\ files' = [files EXCEPT ![d] = @ + 1]
  /\ UNCHANGED <<today, sql, store, scheduler, config, status, preview, troubles>>

DayPasses ==
  /\ today < LastDay /\ today' = today + 1
  /\ UNCHANGED <<files, sql, store, scheduler, config, status, preview, troubles>>

-------------------------------------------------------------------------------
LastRun == sql.ran

\* tick: a day without a successful run begins one.
BeginDaily ==
  /\ scheduler.run.at = "idle" /\ LastRun < today
  /\ scheduler' = [scheduler EXCEPT !.run = [at |-> "due", day |-> today]]
  /\ UNCHANGED <<today, files, sql, store, config, status, preview, troubles>>

\* The scheduler was made with the policy of the start and passes it to every run.
RunPolicy == scheduler.policy

\* run_daily: under the lock and the writers' guard the files are sampled and the plan is
\* computed; the transaction follows after the statistics were flushed.
PlanDaily ==
  /\ scheduler.run.at = "due" /\ RunLockFree
  /\ LET s == SampleStorage(Days)
     IN  scheduler' = [scheduler EXCEPT !.run =
           [at |-> "publish", day |-> scheduler.run.day, days |-> s.days,
            keep |-> KeepFrom(RunPolicy, scheduler.run.day, s.bytes)]]
  /\ UNCHANGED <<today, files, sql, store, config, status, preview, troubles>>

\* The transaction: the watermark never moves back, and the days below it that have a file
\* enter the manifest, also those that were reclaimed before.
PublishRun ==
  /\ scheduler.run.at = "publish"
  /\ LET cutoff == Max({sql.cutoff, scheduler.run.keep})
     IN  sql' = [sql EXCEPT !.cutoff = cutoff,
                            !.manifest = [d \in Days |->
                   IF d \in scheduler.run.days /\ d < cutoff /\ @[d] \in {"none", "reclaimed"}
                   THEN "pending" ELSE @[d]]]
  /\ scheduler' = [scheduler EXCEPT !.run = [at |-> "follow", day |-> scheduler.run.day]]
  /\ UNCHANGED <<today, files, store, config, status, preview, troubles>>

\* The process takes the watermark over before the gate and the lock are let go.
FollowRun ==
  /\ scheduler.run.at = "follow"
  /\ store' = [store EXCEPT !.before = sql.cutoff]
  /\ scheduler' = [scheduler EXCEPT !.run = [at |-> "ran", day |-> scheduler.run.day]]
  /\ UNCHANGED <<today, files, sql, config, status, preview, troubles>>

\* finish_retention_run, for the day the tick began with.
FinishRun ==
  /\ scheduler.run.at = "ran"
  /\ sql' = [sql EXCEPT !.ran = scheduler.run.day]
  /\ scheduler' = [scheduler EXCEPT !.run = [at |-> "listed"]]
  /\ UNCHANGED <<today, files, store, config, status, preview, troubles>>

\* reclaim_pending: the rows to reclaim are read once, at the beginning.
BeginReclaim ==
  /\ scheduler.run.at \in {"idle", "listed"} /\ Pending # {} /\ RunLockFree
  /\ scheduler' = [scheduler EXCEPT !.run = [at |-> "reclaim", left |-> Pending]]
  /\ UNCHANGED <<today, files, sql, store, config, status, preview, troubles>>

\* One day: no lease is given for it any more, its file goes, then its row is finished.  A
\* failure is kept in the row.
ReclaimDay(d) ==
  /\ scheduler.run.at = "reclaim" /\ d \in scheduler.run.left /\ d = Min(scheduler.run.left)
  /\ scheduler' = [scheduler EXCEPT !.run.left = @ \ {d}]
  /\ store' = [store EXCEPT !.retiring = @ \cup {d}]
  /\ \/ /\ files' = [files EXCEPT ![d] = 0]
        /\ sql' = [sql EXCEPT !.manifest[d] = "reclaimed"] /\ UNCHANGED troubles
     \/ sql' = [sql EXCEPT !.manifest[d] = "failed"] /\ Trouble /\ UNCHANGED files
  /\ UNCHANGED <<today, config, status, preview>>

EndRun ==
  /\ \/ scheduler.run.at = "reclaim" /\ scheduler.run.left = {}
     \/ scheduler.run.at = "listed" /\ Pending = {}
  /\ scheduler' = [scheduler EXCEPT !.run = Idle]
  /\ UNCHANGED <<today, files, sql, store, config, status, preview, troubles>>

\* A deadline ends a run wherever it waits.  Nothing of an unpublished plan is left; a plan
\* whose commit went unseen is published, and the process goes by its old watermark.
RunExpires ==
  /\ scheduler.run.at # "idle" /\ Trouble
  /\ scheduler' = [scheduler EXCEPT !.run = Idle]
  /\ UNCHANGED <<today, files, sql, store, config, status, preview>>

-------------------------------------------------------------------------------
\* Changes that remove history have to be confirmed by the user.
RetentionShortening(old, new) ==
  new.days < old.days \/ new.grace < old.grace \/ new.size < old.size

\* An apply publishes the runtime of the new configuration, then the configuration.
ApplyRuntime(p) ==
  /\ config.revision < MaxApplies /\ config.coordinator = config.runtime
  /\ ValidPolicy(p) /\ p # config.active
  /\ config' = [config EXCEPT !.coordinator = @ + 1, !.applying = p]
  /\ UNCHANGED <<today, files, sql, store, scheduler, status, preview, troubles>>

ApplyActive ==
  /\ config.coordinator # config.runtime
  /\ config' = [config EXCEPT !.active = config.applying, !.runtime = config.coordinator,
                              !.revision = @ + 1, !.observed = @ + 1]
  /\ UNCHANGED <<today, files, sql, store, scheduler, status, preview, troubles>>

\* Every read of the management side refuses a configuration whose runtime is not, or no
\* longer, the published one.
DirectorySnapshot == config.runtime = config.coordinator

\* The status page takes the policy, then waits for the lock of the runs.
AskStatus ==
  /\ status.at \in {"none", "shown"}
  /\ status' = IF DirectorySnapshot THEN [at |-> "asked", policy |-> config.active, day |-> today]
               ELSE NoStatus
  /\ preview' = NoPreview
  /\ UNCHANGED <<today, files, sql, store, scheduler, config, troubles>>

StatusLocked == scheduler.run.at \notin {"publish", "follow", "reclaim"}

SampleStatus ==
  /\ status.at = "asked" /\ StatusLocked
  /\ LET s == SampleStorage(Days)
     IN  status' = [at |-> "sampled", policy |-> status.policy, bytes |-> s.bytes, days |-> s.days,
                    followed |-> store.before = sql.cutoff,
                    keep |-> KeepFrom(status.policy, status.day, s.bytes)]
  /\ UNCHANGED <<today, files, sql, store, scheduler, config, preview, troubles>>

\* retention_status_metadata, one read of the tables.
ReadMetadata ==
  /\ status.at = "sampled"
  /\ status' = [at |-> "metadata", policy |-> status.policy, bytes |-> status.bytes,
                followed |-> status.followed,
                cutoff |-> sql.cutoff, open |-> Cardinality(Pending),
                next |-> Max({sql.cutoff, status.keep}),
                available |-> {d \in status.days : d >= sql.cutoff}]
  /\ UNCHANGED <<today, files, sql, store, scheduler, config, preview, troubles>>

\* The pending days are a read of their own, and their files another sample.
ShowStatus ==
  /\ status.at = "metadata"
  /\ status' = [at |-> "shown", policy |-> status.policy, bytes |-> status.bytes,
                followed |-> status.followed,
                cutoff |-> status.cutoff, open |-> status.open, next |-> status.next,
                available |-> status.available, pending |-> Pending,
                pendingBytes |-> SampleStorage(Pending).bytes]
  /\ UNCHANGED <<today, files, sql, store, scheduler, config, preview, troubles>>

\* A deadline, or a row that does not read as a day or a time.
StatusExpires ==
  /\ status.at \notin {"none", "shown"} /\ Trouble /\ status' = NoStatus
  /\ UNCHANGED <<today, files, sql, store, scheduler, config, preview>>

\* A preview for the revisions the page was filled from; the page shows it or the status.  The current and the proposed
\* plan are computed from one sample; confirm: whether applying would ask.
Preview(p, expected) ==
  /\ expected = [active |-> config.revision, files |-> config.observed]
  /\ DirectorySnapshot /\ ValidPolicy(p) /\ status.at \in {"none", "shown"}
  /\ LET bytes == SampleStorage(Days).bytes
     IN  preview' = [shortens |-> KeepFrom(p, today, bytes) > KeepFrom(config.active, today, bytes),
                     confirm |-> RetentionShortening(config.active, p)]
  /\ status' = NoStatus
  /\ UNCHANGED <<today, files, sql, store, scheduler, config, troubles>>

\* A new process reads the policy of the files the apply saved and the published watermark.
RestartService ==
  /\ Trouble
  /\ scheduler' = [policy |-> config.active, run |-> Idle]
  /\ config' = [config EXCEPT !.coordinator = config.runtime]
  /\ status' = NoStatus /\ store' = [before |-> sql.cutoff, retiring |-> {}]
  /\ UNCHANGED <<today, files, sql, preview>>

ViewNext ==
  \/ \E d \in Days : WriteDetail(d) \/ ReclaimDay(d)
  \/ DayPasses \/ BeginDaily \/ PlanDaily \/ PublishRun \/ FollowRun \/ FinishRun \/ BeginReclaim \/ EndRun \/ RunExpires
  \/ \E p \in Policies : ApplyRuntime(p) \/ \E a, o \in 0 .. MaxApplies : Preview(p, [active |-> a, files |-> o])
  \/ ApplyActive \/ AskStatus \/ SampleStatus \/ ReadMetadata \/ ShowStatus \/ StatusExpires
  \/ RestartService

ViewSpec == ViewInit /\ [][ViewNext]_viewVars

\* Type correctness of the clock, the files, the tables and the policies.
ViewTypeOK ==
  /\ today \in Days /\ files \in [Days -> 0 .. MaxDayBytes] /\ sql.cutoff \in Watermark
  /\ sql.manifest \in [Days -> {"none", "pending", "failed", "reclaimed"}]
  /\ store.before \in Watermark /\ store.retiring \subseteq Days
  /\ sql.ran \in 0 .. LastDay /\ config.active \in Policies /\ scheduler.policy \in Policies
  /\ troubles \in 0 .. MaxViewTroubles

\* What a status page shows is one state of the service, although it is put together from
\* two samples of the disk and two reads of the tables: as many days wait to be reclaimed
\* as its counts say, all below the watermark shown, and nothing below it is called
\* available.  Their bytes are part of the total, unless the process has not seen its last
\* watermark committed and still writes to them.
StatusIsConsistent ==
  status.at = "shown" =>
    /\ status.open = Cardinality(status.pending)
    /\ \A d \in status.pending : d < status.cutoff
    /\ status.followed => status.pendingBytes <= status.bytes
    /\ \A d \in status.available : d >= status.cutoff
    /\ status.next >= status.cutoff

\* A policy whose preview shows a shorter history is one whose apply has to be confirmed.
ShorteningIsConfirmed == preview.shortens => preview.confirm

===============================================================================
