------------------------------ MODULE CacheFlow ------------------------------
(* One key of the response cache as requests and background tasks use it: lookup,  *)
(* single-flight load, upstream exchange, asynchronous commit, optimistic refresh  *)
(* and late results (dns/policy.rs, cache/service.rs, cache/moka.rs).              *)
(*                                                                                 *)
(* The load map is used through LoadContract, which SingleFlight implements, the   *)
(* queues through CommitHandoff, which ResolutionPipeline implements.  An answer   *)
(* is its CacheQuality; a record also has a version and an age.                    *)
EXTENDS Naturals

CONSTANTS
  Requests,
  Permits,       \* capacity of LateCacheFinalizer (64 in the code)
  Qualities,     \* subset of 0..2: SERVFAIL/TC, NODATA/NXDOMAIN, complete answer
  MaxLoads,      \* bound: leases handed out
  MaxVersion,    \* bound: writes accepted by the store
  MaxJobs        \* bound: background tasks accepted by the finalizer

ASSUME FlowAssumption ==
  /\ Qualities \subseteq 0..2
  /\ {Permits, MaxLoads, MaxVersion, MaxJobs} \subseteq Nat

VARIABLES
  record,        \* what the store shows for the key
  versions,      \* MokaCacheStore.next_version
  req,           \* each request: its step, write condition and answer
  promise, role, \* the load map (LoadContract)
  handoff,       \* the commit candidates (CommitHandoff)
  commit,        \* CacheCommitCandidate::commit in the cache worker
  job,           \* the finalizer's tasks
  jobs           \* tasks accepted so far

vars == <<record, versions, req, promise, role, handoff, commit, job, jobs>>

\* MokaCacheStore::shutdown, which ends all loads, is not called by the service.
Loads == INSTANCE LoadContract
           WITH Keys <- {"key"}, Callers <- Requests, MaxGen <- MaxLoads, stopped <- FALSE
Pipe == INSTANCE CommitHandoff WITH Candidates <- Requests

Slots == 1..Permits
Absent == 0      \* CacheCondition::Absent; any other condition is a version
Gone == [version |-> 0, quality |-> 0, age |-> "gone"]
NotAsked == [pc |-> "lookup", cond |-> Absent, seen |-> 0, quality |-> 0]
NoCommit == [stage |-> "idle", version |-> 0]
FreeSlot == [pc |-> "free", kind |-> "none", cond |-> Absent, quality |-> 0]

Init ==
  /\ record = Gone /\ versions = 0
  /\ req = [r \in Requests |-> NotAsked]
  /\ Loads!Init /\ Pipe!Init
  /\ commit = NoCommit
  /\ job = [s \in Slots |-> FreeSlot] /\ jobs = 0

-------------------------------------------------------------------------------
(* The store: compare_and_swap, and a record's passage through its lifetime. *)

\* Mutant: an expired record is taken for no record at all.
Condition_Forgets == Absent
\* CacheLookupMiss and the refresh tasks: an expired record still occupies its key.
Condition == record.version

Matches(cond) == record.version = cond
RejectedQuality(q) == record.quality > q /\ record.age = "fresh"
\* Mutant: the counter is advanced twice for one write.
Written_Skips(q, age) == [version |-> versions + 2, quality |-> q, age |-> age]
Written(q, age) == [version |-> versions + 1, quality |-> q, age |-> age]

\* The outcomes of one write: an error or a refusal by admission, a conflict, a
\* fresh better record, or the next version.
WriteFails(cond, q) == UNCHANGED <<record, versions>>
Stores(cond, q, age) ==
  /\ Matches(cond) /\ ~RejectedQuality(q)
  /\ versions < MaxVersion
  /\ record' = Written(q, age)
  /\ versions' = versions + 1

\* Only answers may be kept beyond their TTL, failures may not.
Age ==
  /\ \/ record.age = "fresh" /\ record.quality > 0 /\ record' = [record EXCEPT !.age = "stale"]
     \/ record.age \in {"fresh", "stale"} /\ record' = [record EXCEPT !.age = "expired"]
  /\ UNCHANGED <<versions, req, promise, role, handoff, commit, job, jobs>>

\* The end of the retention, or eviction for room at any age.
Evict ==
  /\ record # Gone
  /\ record' = Gone
  /\ UNCHANGED <<versions, req, promise, role, handoff, commit, job, jobs>>

-------------------------------------------------------------------------------
(* LateCacheFinalizer::submit_task: the task gets a permit, or is refused at       *)
(* capacity and, at any moment, by a finalizer that is shutting down.              *)

Task(kind, pc, cond, q) == [pc |-> pc, kind |-> kind, cond |-> cond, quality |-> q]
Submit(task) ==
  \/ \E s \in Slots : /\ job[s] = FreeSlot /\ jobs < MaxJobs
                      /\ \A t \in 1..(s - 1) : job[t] # FreeSlot
                      /\ job' = [job EXCEPT ![s] = task]
                      /\ jobs' = jobs + 1
  \/ UNCHANGED <<job, jobs>>

-------------------------------------------------------------------------------
(* A request: resolve_with_metadata and resolve_upstream. *)

Go(r, pc) == req' = [req EXCEPT ![r].pc = pc]
Answered(r) == req' = [req EXCEPT ![r] = [NotAsked EXCEPT !.pc = "done"]]

LookupFresh(r) ==
  /\ req[r].pc = "lookup" /\ record.age = "fresh"
  /\ Answered(r)
  /\ UNCHANGED <<record, versions, promise, role, handoff, commit, job, jobs>>

\* A stale record within the pool's window answers, and asks for a refresh of its
\* version.  The permit is made by this lookup, so try_consume always succeeds.
LookupStale(r) ==
  /\ req[r].pc = "lookup" /\ record.age = "stale"
  /\ Answered(r)
  /\ Submit(Task("refresh", "exchange", record.version, 0))
  /\ UNCHANGED <<record, versions, promise, role, handoff, commit>>

\* No record, an expired one, or a stale one outside the pool's window.
LookupMiss(r) ==
  /\ req[r].pc = "lookup" /\ record.age # "fresh"
  /\ req' = [req EXCEPT ![r] = [pc |-> "reserve", cond |-> Condition, seen |-> versions,
                                quality |-> 0]]
  /\ UNCHANGED <<record, versions, promise, role, handoff, commit, job, jobs>>

\* The deadline passes: lookup and reserve_load fail, the exchange goes alone.
NoReservation(r) ==
  /\ req[r].pc \in {"lookup", "reserve"}
  /\ req' = [req EXCEPT ![r] = [NotAsked EXCEPT !.pc = "alone"]]
  /\ UNCHANGED <<record, versions, promise, role, handoff, commit, job, jobs>>

Lead(r) ==
  /\ req[r].pc = "reserve" /\ Loads!Lead(r, "key")
  /\ Go(r, "leading")
  /\ UNCHANGED <<record, versions, handoff, commit, job, jobs>>

Follow(r) ==
  /\ req[r].pc = "reserve" /\ \E p \in Loads!Promises : Loads!Follow(r, p)
  /\ req' = [req EXCEPT ![r] = [NotAsked EXCEPT !.pc = "waiting"]]
  /\ UNCHANGED <<record, versions, handoff, commit, job, jobs>>

\* wait_load returns with the load's outcome, at the deadline or on cancellation ...
Told(r) ==
  /\ req[r].pc = "waiting" /\ (Loads!Learn(r) \/ Loads!GiveUp(r))
  /\ Go(r, "told")
  /\ UNCHANGED <<record, versions, handoff, commit, job, jobs>>

\* ... and the token is released: Ready is the answer, a cancelled request has none,
\* and after anything else the follower asks the upstream itself.
LeaveLoad(r) ==
  /\ req[r].pc = "told" /\ Loads!Leave(r)
  /\ \/ role[r].seen = "ready" /\ Answered(r)
     \/ role[r].seen = "ended" /\ Answered(r)
     \/ role[r].seen # "ready" /\ Go(r, "alone")
  /\ UNCHANGED <<record, versions, handoff, commit, job, jobs>>

\* A parallel exchange leaves the slower attempts to a collector (spawn_drain).
LeavesAttempts == Submit(Task("drain", "collect", Absent, 0))

ExchangeAlone(r) ==
  /\ req[r].pc = "alone"
  /\ Answered(r)
  /\ LeavesAttempts
  /\ UNCHANGED <<record, versions, promise, role, handoff, commit>>

\* Failure, cancellation, an answer to another question, or the request's future is
\* dropped: the lease goes out of scope.
LeaderFails(r) ==
  /\ req[r].pc = "leading" /\ Loads!EndLease(r, "abandoned")
  /\ Answered(r)
  /\ LeavesAttempts
  /\ UNCHANGED <<record, versions, handoff, commit>>

\* An answer: the client has it now, the candidate holds the lease.
LeaderAnswers(r, q) ==
  /\ req[r].pc = "leading"
  /\ req' = [req EXCEPT ![r].pc = "publish", ![r].quality = q]
  /\ LeavesAttempts
  /\ UNCHANGED <<record, versions, promise, role, handoff, commit>>

OfferCandidate(r) ==
  /\ req[r].pc = "publish" /\ Pipe!Offer(r)
  /\ Go(r, "done")
  /\ UNCHANGED <<record, versions, promise, role, commit, job, jobs>>

\* Mutant: a candidate that is refused or lost keeps its lease.
DropCandidate_KeepsLease(r) ==
  /\ req[r].pc = "publish" \/ handoff[r] \in {"queued", "working"}
  /\ Pipe!Drop({r})
  /\ Answered(r)
  /\ commit' = IF handoff[r] = "working" THEN NoCommit ELSE commit
  /\ UNCHANGED <<record, versions, promise, role, job, jobs>>
\* A queue refuses the candidate, or its owner is aborted: the lease's Drop runs.
DropCandidate(r) ==
  /\ req[r].pc = "publish" \/ handoff[r] \in {"queued", "working"}
  /\ Pipe!Drop({r}) /\ Loads!EndLease(r, "abandoned")
  /\ Answered(r)
  /\ commit' = IF handoff[r] = "working" THEN NoCommit ELSE commit
  /\ UNCHANGED <<record, versions, job, jobs>>

-------------------------------------------------------------------------------
(* CacheCommitCandidate::commit in the one cache worker. *)

Working(r) == handoff[r] = "working"

TakeCandidate(r) ==
  /\ commit = NoCommit /\ Pipe!Take(r)
  /\ commit' = [NoCommit EXCEPT !.stage = "write"]
  /\ UNCHANGED <<record, versions, req, promise, role, job, jobs>>

Result(stage, version) == commit' = [stage |-> stage, version |-> version]

\* Conflict(None) under a version: the record has gone, so Absent is tried once.
AfterConflict(cond) == IF record = Gone /\ cond # Absent THEN "retry" ELSE "conflict"

\* write_response.  The TTL counts from the exchange, so what is stored may have
\* aged in the queue.
Write(cond, q) ==
  \/ WriteFails(cond, q) /\ Result("failed", 0)
  \/ ~Matches(cond) /\ WriteFails(cond, q) /\ Result(AfterConflict(cond), 0)
  \/ Matches(cond) /\ RejectedQuality(q) /\ WriteFails(cond, q) /\ Result("failed", 0)
  \/ \E age \in {"fresh", "expired"} : Stores(cond, q, age) /\ Result("stored", versions + 1)

CommitWrite(r) ==
  /\ Working(r)
  /\ \/ commit.stage = "write" /\ Write(req[r].cond, req[r].quality)
     \/ commit.stage = "retry" /\ Write(Absent, req[r].quality)
  /\ UNCHANGED <<req, promise, role, handoff, job, jobs>>

\* Ready only if the stored record is still fresh; otherwise Miss or Failed, on which
\* followers load for themselves; past its deadline publish_load drops the lease.
CommitPublish(r) ==
  /\ Working(r) /\ commit.stage \in {"stored", "conflict", "failed"}
  /\ \/ /\ commit.stage = "stored" /\ (record.version = commit.version => record.age = "fresh")
        /\ Loads!EndLease(r, "ready")
     \/ /\ commit.stage = "stored" => ~(record.version = commit.version /\ record.age = "fresh")
        /\ Loads!EndLease(r, "failed")
     \/ Loads!EndLease(r, "abandoned")
  /\ Pipe!Settle(r)
  /\ commit' = NoCommit
  /\ Answered(r)
  /\ UNCHANGED <<record, versions, job, jobs>>

-------------------------------------------------------------------------------
(* Background tasks: schedule_optimistic_refresh and PolicyLateResultSink. *)

Become(s, pc) == job' = [job EXCEPT ![s].pc = pc]
EndJob(s) == job' = [job EXCEPT ![s] = FreeSlot]
JobsOnly == UNCHANGED <<record, versions, req, promise, role, handoff, commit, jobs>>

\* A request of an older runtime found a stale record in another store or under
\* another key, and refreshes this one.
MovedRefresh ==
  /\ Submit(Task("refresh", "lookup", Absent, 0))
  /\ UNCHANGED <<record, versions, req, promise, role, handoff, commit>>

RefreshLookup(s) ==
  /\ job[s].kind = "refresh" /\ job[s].pc = "lookup"
  /\ \/ record.age = "fresh" /\ EndJob(s)
     \/ record.age # "fresh" /\ job' = [job EXCEPT ![s].pc = "exchange", ![s].cond = Condition]
  /\ JobsOnly

RefreshAnswer(s, q) ==
  /\ job[s].pc = "exchange"
  /\ job' = [job EXCEPT ![s].pc = "write", ![s].quality = q]
  /\ JobsOnly

\* The collector hands over a late answer; its semantics are those of the request.
CollectLate(s, q) ==
  /\ job[s].pc = "collect"
  /\ Submit(Task("late", "lookup", Absent, q))
  /\ UNCHANGED <<record, versions, req, promise, role, handoff, commit>>

\* A late answer replaces nothing that is as good and still answers.
LateWrites(s) == record.age \in {"gone", "expired"} \/ job[s].quality > record.quality

LateLookup(s) ==
  /\ job[s].kind = "late" /\ job[s].pc = "lookup"
  /\ \/ ~LateWrites(s) /\ EndJob(s)
     \/ LateWrites(s) /\ job' = [job EXCEPT ![s].pc = "write", ![s].cond = Condition]
  /\ JobsOnly

\* One write under the condition of the lookup; a conflict or a refusal is the end.
JobWrite(s) ==
  /\ job[s].pc = "write"
  /\ \/ Stores(job[s].cond, job[s].quality, "fresh")
     \/ WriteFails(job[s].cond, job[s].quality)
  /\ EndJob(s)
  /\ UNCHANGED <<req, promise, role, handoff, commit, jobs>>

\* No answer, changed semantics, no more attempts, an error, or shutdown.
JobEnds(s) ==
  /\ job[s] # FreeSlot
  /\ EndJob(s)
  /\ JobsOnly

-------------------------------------------------------------------------------
Ask(r) ==
  \/ LookupFresh(r) \/ LookupStale(r) \/ LookupMiss(r) \/ NoReservation(r)
  \/ Lead(r) \/ Follow(r) \/ Told(r) \/ LeaveLoad(r) \/ ExchangeAlone(r)
  \/ LeaderFails(r) \/ \E q \in Qualities : LeaderAnswers(r, q)
  \/ OfferCandidate(r)
Commit(r) == TakeCandidate(r) \/ CommitWrite(r) \/ CommitPublish(r)
Background(s) ==
  \/ RefreshLookup(s) \/ LateLookup(s) \/ JobWrite(s) \/ JobEnds(s)
  \/ \E q \in Qualities : RefreshAnswer(s, q) \/ CollectLate(s, q)

Next ==
  \/ \E r \in Requests : Ask(r) \/ Commit(r) \/ DropCandidate(r)
  \/ \E s \in Slots : Background(s)
  \/ Age \/ Evict \/ MovedRefresh

Spec == Init /\ [][Next]_vars

-------------------------------------------------------------------------------
(* Properties. *)

\* Type correctness of the record, the requests and the background tasks.
FlowTypeOK ==
  /\ record.version \in 0..versions /\ versions \in 0..MaxVersion
  /\ record.quality \in Qualities \cup {0}
  /\ record.age \in {"fresh", "stale", "expired", "gone"} /\ (record.age = "gone" <=> record = Gone)
  /\ \A r \in Requests : /\ req[r].pc \in {"lookup", "reserve", "leading", "waiting", "told",
                                           "alone", "publish", "done"}
                         /\ req[r].cond \in 0..req[r].seen /\ req[r].seen \in 0..versions
  /\ handoff \in [Requests -> Pipe!Places]
  /\ commit.stage \in {"idle", "write", "retry", "stored", "conflict", "failed"}
  /\ \A s \in Slots : job[s].pc \in {"free", "lookup", "exchange", "collect", "write"}

\* A fetched answer is given up as a conflict only for a record that was written after
\* the request had looked: never because of the expired record it came to replace,
\* nor because that record has vanished meanwhile (CacheLookupMiss, commit).
GivesUpForNewer ==
  \A r \in Requests : commit.stage \in {"write", "retry"} /\ commit'.stage = "conflict"
     /\ handoff[r] = "working" => record.version > req[r].seen
ConflictMeansNewer == [][GivesUpForNewer]_vars

\* A fresh record is replaced only by a better answer, whatever refreshes, late results
\* and commits were decided on earlier states of the record (the quality order
\* of compare_and_swap, LateResultSink::submit).
KeepsFresh ==
  record.age = "fresh" /\ record'.version > record.version
    => record'.quality > record.quality
FreshIsKept == [][KeepsFresh]_vars

\* Every open load is in the hands of something that must end: a request that asks
\* the upstream under its deadline, or a candidate in the pipeline, which lets go of
\* every candidate (HandoffEnds of ResolutionPipeline).  A lease that nobody holds
\* would keep its key occupied and its followers waiting.
OpenLoadIsHeld ==
  \A p \in Loads!Promises : Loads!Used(p) /\ promise[p].outcome = Loads!Open =>
    \E r \in Requests :
      /\ role[r].kind = "leader" /\ role[r].promise = p
      /\ \/ req[r].pc \in {"leading", "publish"}
         \/ handoff[r] \in {"queued", "working"}

===============================================================================
