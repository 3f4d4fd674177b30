----------------------------- MODULE ServiceTasks -----------------------------
(***************************************************************************)
(* runtime/supervisor.rs and the control loop of service.rs that owns it:  *)
(* the task tree of the process, bounded restarts of listener endpoints,   *)
(* the start gate of a reload, which workers a reload reuses and which it  *)
(* stops, what a finished task means for the service, and how a shutdown   *)
(* joins or aborts every task and then closes the owners behind them.      *)
(*                                                                         *)
(* A task id is <<kind, revision, index>>, as in "transport.udp.2.0" and   *)
(* "resource.refresh.2.0"; a reload that failed leaves tasks whose ids the *)
(* next attempt at the same revision wants again.                          *)
(***************************************************************************)
EXTENDS Naturals, FiniteSets

CONSTANTS
    Endpoints,         \* numbered bound endpoints of the bind plan
    OwnerOf,           \* [Endpoints -> listener that owns the endpoint]
    Resources,         \* numbered resources a configuration may refresh
    RestartLimit,      \* TRANSPORT_RESTART_LIMIT
    MaxServiceRevision, \* bound: revisions a reload can reach
    MaxReloadFailures, \* bound: reloads that fail after the tasks were spawned
    MaxTaskFaults      \* bound: receive errors, fatal flushes and panics

VARIABLES
    tasks,    \* Supervisor: the registered tasks by id
    service,  \* DnsService: program counter and the task sets it keeps
    active,   \* the coordinator's runtimes: the revision in use, the worker
              \* resources of every revision, and those with stopped schedules
    offer,    \* reload_prepared: the candidate between spawn and publish
    report,   \* ShutdownReport
    trouble   \* how many faults and failed reloads have happened

taskVars == <<tasks, service, active, offer, report, trouble>>

TransportId(rev, e) == <<"transport", rev, e>>
StaticIds == {<<"storage", 0, 0>>, <<"telemetry", 0, 0>>}
Owners == {OwnerOf[e] : e \in Endpoints}
Registered == DOMAIN tasks
NoTask == <<"none", 0, 0>>

\* index of a resource in the candidate's worker list
IndexIn(r, R) == Cardinality({x \in R : x < r})
ResourceId(rev, r, R) == <<"resource", rev, IndexIn(r, R)>>

\* The specs of the spawn helpers: fault level and restart policy.
FaultLevel(id) ==
    CASE id[1] = "transport" -> "FatalEndpoint"
      [] id[1] = "storage"   -> "Fatal"
      [] OTHER               -> "Degraded"
MaxRestarts(id) == IF id[1] = "transport" THEN RestartLimit ELSE 0

\* resource and seen: what a resource worker refreshes and the revision of the
\* runtime it has loaded.
Task(pc, r) == [pc |-> pc, stop |-> FALSE, restarts |-> 0, exit |-> "none", resource |-> r,
                seen |-> 0]
Live == {"running", "loaded", "asleep"}
Without(ids) == [id \in Registered \ ids |-> tasks[id]]
Become(id, pc) == tasks' = [tasks EXCEPT ![id].pc = pc]
Exits(id, how) == tasks' = [tasks EXCEPT ![id].pc = "done", ![id].exit = how, ![id].seen = 0]

-------------------------------------------------------------------------------
(* start_with_optional_storage_telemetry_and_metrics.                       *)

NoOffer == [transports |-> {}, workers |-> <<>>, fresh |-> {}, stopped |-> FALSE]

TasksInit ==
    /\ \E R \in SUBSET Resources :
        LET transports == {TransportId(1, e) : e \in Endpoints}
            workers == [r \in R |-> ResourceId(1, r, R)]
            resourceOf(id) == CHOOSE r \in R : workers[r] = id
        IN /\ active = [rev |-> 1, stopped |-> {},
                        of |-> [v \in 1..MaxServiceRevision |-> IF v = 1 THEN R ELSE {}]]
           /\ service = [pc |-> "serving", transports |-> transports,
                         workers |-> workers, culprit |-> NoTask, why |-> "none"]
           /\ tasks = [id \in StaticIds \cup transports \cup {workers[r] : r \in R} |->
                        Task("running", IF id[1] = "resource" THEN resourceOf(id) ELSE 0)]
    /\ offer = NoOffer
    /\ report = [tasks |-> 0, left |-> 0, joined |-> 0, aborted |-> 0, expired |-> FALSE, errors |-> {}, phase |-> "tasks"]
    /\ trouble = [faults |-> 0, reloads |-> 0]

Faulted == trouble.faults < MaxTaskFaults
           /\ trouble' = [trouble EXCEPT !.faults = @ + 1]
TaskStep == UNCHANGED <<service, active, offer, report>>

-------------------------------------------------------------------------------
(* The tasks themselves.                                                    *)

\* should_restart_scoped: only a transient failure of a task nobody stopped.
ShouldRestart(id) == ~tasks[id].stop /\ tasks[id].restarts < MaxRestarts(id)

\* A receive or accept error ends the loop as Transient; the factory of
\* spawn_scoped_with_factory counts a restart and waits, or gives up.
EndpointFails(id) ==
    /\ id[1] = "transport" /\ tasks[id].pc = "running"
    /\ Faulted
    /\ IF ShouldRestart(id)
       THEN tasks' = [tasks EXCEPT ![id].pc = "backoff", ![id].restarts = @ + 1]
       ELSE Exits(id, "transient")
    /\ TaskStep

\* restart_backoff has passed: the factory builds the loop again.
BackoffEnds(id) ==
    /\ tasks[id].pc = "backoff"
    /\ Become(id, "running")
    /\ UNCHANGED trouble /\ TaskStep

\* wait_for_retirement: the loops of a replaced or draining runtime end, UDP
\* as completed and the stream listeners as cancelled.
EndpointRetires(id) ==
    /\ id[1] = "transport" /\ tasks[id].pc = "running"
    /\ id[2] # active.rev
    /\ \E how \in {"completed", "cancelled"} : Exits(id, how)
    /\ UNCHANGED trouble /\ TaskStep

\* The select of a scoped task takes a cancellation, in the loop, in the
\* backoff or at the start gate; a dropped gate cancels as well.
TaskCancelled(id) ==
    /\ \/ tasks[id].pc \in {"gated", "running", "asleep", "backoff"} /\ tasks[id].stop
       \/ tasks[id].pc = "dropped"
    /\ Exits(id, "cancelled")
    /\ UNCHANGED trouble /\ TaskStep

\* run_resource_refresh_loop: the top of the loop loads the runtime in use ...
WorkerLoads(id) ==
    /\ id[1] = "resource" /\ tasks[id].pc = "running" /\ ~tasks[id].stop
    /\ tasks' = [tasks EXCEPT ![id].pc = "loaded", ![id].seen = active.rev]
    /\ UNCHANGED trouble /\ TaskStep

\* shutdown_resource_refresh: every schedule of the loaded runtime is stopped.
StopSchedules(id) == active' = [active EXCEPT !.stopped = @ \cup {tasks[id].seen}]

\* ... and asks it for a decision: a runtime without the resource and a stopped
\* schedule end the worker, otherwise it refreshes or waits.
WorkerDecides(id) ==
    LET seen == tasks[id].seen IN
    /\ tasks[id].pc = "loaded"
    /\ \/ /\ tasks[id].resource \notin active.of[seen]
          /\ Exits(id, IF tasks[id].stop THEN "cancelled" ELSE "fatal")
          /\ UNCHANGED active
       \/ /\ tasks[id].resource \in active.of[seen] /\ seen \in active.stopped
          /\ Exits(id, "cancelled") /\ StopSchedules(id)
       \/ /\ tasks[id].resource \in active.of[seen] /\ seen \notin active.stopped
          /\ Become(id, "asleep")
          /\ UNCHANGED active
    /\ UNCHANGED <<service, offer, report, trouble>>

\* The wait is over, or the refresh has ended, found itself stale or failed.
WorkerWakes(id) ==
    /\ tasks[id].pc = "asleep"
    /\ tasks' = [tasks EXCEPT ![id].pc = "running", ![id].seen = 0]
    /\ UNCHANGED trouble /\ TaskStep

\* The worker itself sees its cancellation, before the select around it does.
WorkerCancelled(id) ==
    /\ tasks[id].pc = "asleep" /\ tasks[id].stop
    /\ Exits(id, "cancelled") /\ StopSchedules(id)
    /\ UNCHANGED <<service, offer, report, trouble>>

\* storage_flush_task reaches the pending limit.
StorageFails(id) ==
    /\ id[1] = "storage" /\ tasks[id].pc = "running"
    /\ Faulted
    /\ Exits(id, "fatal")
    /\ TaskStep

TaskPanics(id) ==
    /\ tasks[id].pc \in Live
    /\ Faulted
    /\ Exits(id, "panicked")
    /\ TaskStep

-------------------------------------------------------------------------------
(* reload_prepared, from the spawn of the candidate's tasks to its publish. *)

Position(id) == IF id[1] = "transport" THEN <<0, id[3]>> ELSE <<1, id[3]>>
Before(a, b) == \/ Position(a)[1] < Position(b)[1]
                \/ Position(a)[1] = Position(b)[1] /\ Position(a)[2] < Position(b)[2]

\* prepare_resource_tasks keeps the handle of a resource that has a worker.
Reused(R) == R \cap DOMAIN service.workers

\* Mutant: the candidate's tasks start at once.
GatedTask_Open(r) == Task("running", r)

\* TaskStartGate: a registered task waits for the publication.
GatedTask(r) == Task("gated", r)

\* prepare_service_activation copies the schedules of the runtime in use, then
\* spawn_transport_plans, then prepare_resource_tasks, each in index order.
\* The first id that is still registered is a DuplicateTask error: the tasks
\* spawned before it are dropped with the gate.
ReloadSpawn(R) ==
    LET next == active.rev + 1
        transports == {TransportId(next, e) : e \in Endpoints}
        workers == [r \in R |-> IF r \in Reused(R) THEN service.workers[r]
                                                   ELSE ResourceId(next, r, R)]
        spawned == {workers[r] : r \in R \ Reused(R)}
        plan == transports \cup spawned
        clash == plan \cap Registered
        done == {id \in plan : \A c \in clash : Before(id, c)}
        resourceOf(id) == IF id \in spawned THEN CHOOSE r \in R : workers[r] = id ELSE 0
    IN
    /\ service.pc = "serving" /\ active.rev < MaxServiceRevision
    /\ clash # {} => trouble.reloads < MaxReloadFailures
    /\ tasks' = [id \in Registered \cup done |->
                   IF id \in Registered THEN tasks[id]
                   ELSE IF clash = {} THEN GatedTask(resourceOf(id))
                   ELSE Task("dropped", resourceOf(id))]
    /\ IF clash = {}
       THEN /\ service' = [service EXCEPT !.pc = "prepared"]
            /\ offer' = [transports |-> transports, workers |-> workers, fresh |-> plan,
                         stopped |-> active.rev \in active.stopped]
            /\ UNCHANGED trouble
       ELSE trouble' = [trouble EXCEPT !.reloads = @ + 1] /\ UNCHANGED <<service, offer>>
    /\ UNCHANGED <<active, report>>

\* The deadline passed, the caller gave up, or the commit was refused.
ReloadAborts ==
    /\ service.pc = "prepared"
    /\ trouble.reloads < MaxReloadFailures
    /\ trouble' = [trouble EXCEPT !.reloads = @ + 1]
    /\ service' = [service EXCEPT !.pc = "serving"]
    /\ offer' = NoOffer
    /\ tasks' = [id \in Registered |->
                   IF id \in offer.fresh /\ tasks[id].pc = "gated"
                   THEN [tasks[id] EXCEPT !.pc = "dropped"] ELSE tasks[id]]
    /\ UNCHANGED <<active, report>>

\* activation.commit: other threads see the new runtime from here on.
ReloadCommits ==
    /\ service.pc = "prepared"
    /\ service' = [service EXCEPT !.pc = "committed"]
    /\ LET next == active.rev + 1
       IN active' = [active EXCEPT !.rev = next, !.of[next] = DOMAIN offer.workers,
                                   !.stopped = IF offer.stopped THEN @ \cup {next} ELSE @]
    /\ UNCHANGED <<tasks, offer, report, trouble>>

\* The workers of removed resources are cancelled, the task sets replaced
\* and the gate opened.
ReloadPublishes ==
    /\ service.pc = "committed"
    /\ LET removed == {service.workers[r] : r \in DOMAIN service.workers \ DOMAIN offer.workers}
       IN tasks' = [id \in Registered |->
                      IF id \in removed THEN [tasks[id] EXCEPT !.stop = TRUE]
                      ELSE IF id \in offer.fresh /\ tasks[id].pc = "gated"
                      THEN [tasks[id] EXCEPT !.pc = "running"] ELSE tasks[id]]
    /\ service' = [service EXCEPT !.pc = "serving", !.transports = offer.transports,
                                  !.workers = offer.workers]
    /\ offer' = NoOffer
    /\ UNCHANGED <<active, report, trouble>>

-------------------------------------------------------------------------------
(* run_with_reload: one finished task at a time.                            *)

RestartExhausted(id) == tasks[id].exit = "transient" /\ tasks[id].restarts >= MaxRestarts(id)

\* task_failure: is this the end of the service?
TaskFailure(id) ==
    LET terminal == tasks[id].exit \in {"panicked", "fatal"} \/ RestartExhausted(id)
    IN /\ terminal
       /\ FaultLevel(id) \in {"FatalEndpoint", "Fatal"} \/ tasks[id].exit = "panicked"

ExhaustedEndpoint(id) == FaultLevel(id) = "FatalEndpoint" /\ RestartExhausted(id)

\* retire_current_transport_task: the endpoints its listener has left.
Remaining(id) == {t \in service.transports \ {id} : OwnerOf[t[3]] = OwnerOf[id[3]]}

\* A failed endpoint is tolerated while its listener has another one, and
\* always when it belongs to a runtime that was replaced.
Survives(id) ==
    /\ ExhaustedEndpoint(id)
    /\ id \notin service.transports \/ Remaining(id) # {}

\* Supervisor::shutdown sets the cancellation: from here on only how many of
\* these tasks are left matters.
BeginShutdown(ids) ==
    /\ tasks' = <<>>
    /\ report' = [report EXCEPT !.tasks = Cardinality(ids), !.left = Cardinality(ids)]

JoinNext(id) ==
    /\ service.pc = "serving" /\ tasks[id].pc = "done"
    /\ IF TaskFailure(id) /\ ~Survives(id)
       THEN /\ service' = [service EXCEPT !.pc = "stopping", !.transports = @ \ {id},
                                          !.culprit = id, !.why = tasks[id].exit]
            /\ BeginShutdown(Registered \ {id})
       ELSE /\ service' = IF TaskFailure(id) THEN [service EXCEPT !.transports = @ \ {id}]
                                             ELSE service
            /\ tasks' = Without({id})
            /\ UNCHANGED report
    /\ UNCHANGED <<active, offer, trouble>>

-------------------------------------------------------------------------------
(* Shutdown: Supervisor::shutdown, then the owners behind the tasks.        *)

Signal ==
    /\ service.pc = "serving"
    /\ service' = [service EXCEPT !.pc = "stopping"]
    /\ BeginShutdown(Registered)
    /\ UNCHANGED <<active, offer, trouble>>

Closing == service' = [service EXCEPT !.pc = "closing"]
           /\ UNCHANGED <<tasks, active, offer, trouble>>

\* join_next and record_exit: a task ends, in whatever way, and is counted.
ShutdownJoins ==
    /\ service.pc = "stopping" /\ report.left > 0
    /\ report' = [report EXCEPT !.left = @ - 1, !.joined = @ + 1]
    /\ UNCHANGED <<tasks, service, active, offer, trouble>>

\* The deadline passes first: the rest is counted, aborted and joined unseen.
ShutdownExpires ==
    /\ service.pc = "stopping" /\ report.left > 0
    /\ report' = [report EXCEPT !.expired = TRUE, !.aborted = report.left, !.left = 0]
    /\ Closing

ShutdownJoined ==
    /\ service.pc = "stopping" /\ report.left = 0
    /\ Closing /\ UNCHANGED report

PhaseAfter == [tasks |-> "drain", drain |-> "resolution", resolution |-> "finalizers",
               finalizers |-> "snapshot", snapshot |-> "storage", storage |-> "telemetry",
               telemetry |-> "closed"]

\* One owner is closed under the shared deadline.  A timeout marks the report;
\* an error of storage or telemetry is kept and the next owner still closed.
ClosePhase(outcome) ==
    LET phase == PhaseAfter[report.phase]
    IN /\ service.pc = "closing" /\ phase # "closed"
       /\ outcome = "failed" => phase \in {"snapshot", "storage", "telemetry"}
       /\ report' = [report EXCEPT
              !.phase = phase,
              !.expired = @ \/ outcome = "timeout",
              !.errors = IF outcome # "completed" /\ phase \in {"storage", "telemetry"}
                         THEN @ \cup {phase} ELSE @]
       /\ UNCHANGED <<tasks, service, active, offer, trouble>>

\* What run_with_reload and shutdown_with_second_signal return.
ShutdownResult ==
    CASE service.culprit # NoTask      -> "task"
      [] "storage" \in report.errors   -> "storage"
      [] "telemetry" \in report.errors -> "telemetry"
      [] report.expired                -> "deadline"
      [] OTHER                         -> "report"

ShutdownReturns ==
    /\ service.pc = "closing" /\ PhaseAfter[report.phase] = "closed"
    /\ service' = [service EXCEPT !.pc = "ended", !.why = IF @ = "none" THEN ShutdownResult ELSE @]
    /\ UNCHANGED <<tasks, active, offer, report, trouble>>

\* A second signal drops the shutdown where it is; a failed task has no such way out.
SecondSignal ==
    /\ service.pc \in {"stopping", "closing"} /\ service.culprit = NoTask
    /\ service' = [service EXCEPT !.pc = "ended", !.why = "signal"]
    /\ UNCHANGED <<tasks, active, offer, report, trouble>>

-------------------------------------------------------------------------------
TasksNext ==
    \/ \E id \in Registered :
         \/ EndpointFails(id) \/ BackoffEnds(id) \/ EndpointRetires(id) \/ TaskCancelled(id)
         \/ WorkerLoads(id) \/ WorkerDecides(id) \/ WorkerWakes(id) \/ WorkerCancelled(id)
         \/ StorageFails(id) \/ TaskPanics(id)
         \/ JoinNext(id)
    \/ \E R \in SUBSET Resources : ReloadSpawn(R)
    \/ ReloadAborts \/ ReloadCommits \/ ReloadPublishes
    \/ Signal \/ ShutdownJoins \/ ShutdownExpires \/ ShutdownJoined
    \/ \E outcome \in {"completed", "timeout", "failed"} : ClosePhase(outcome)
    \/ ShutdownReturns \/ SecondSignal

TasksSpec == TasksInit /\ [][TasksNext]_taskVars

-------------------------------------------------------------------------------
(* Properties.                                                              *)

TaskIds == StaticIds
           \cup {TransportId(v, e) : v \in 1..MaxServiceRevision, e \in Endpoints}
           \cup {<<"resource", v, i>> : v \in 1..MaxServiceRevision, i \in 0..Cardinality(Resources)}

\* Type correctness of the task tree and of the service's own task sets.
TasksTypeOK ==
    /\ Registered \subseteq TaskIds
    /\ \A id \in Registered :
         tasks[id] \in [pc : Live \cup {"gated", "backoff", "dropped", "done"}, stop : BOOLEAN,
                        seen : 0..MaxServiceRevision,
                        restarts : 0..RestartLimit, resource : {0} \cup Resources,
                        exit : {"none", "completed", "cancelled", "transient", "fatal", "panicked"}]
    /\ service.pc \in {"serving", "prepared", "committed", "stopping", "closing", "ended"}
    /\ service.transports \subseteq TaskIds
    /\ active.rev \in 1..MaxServiceRevision /\ active.stopped \subseteq 1..MaxServiceRevision
    /\ active.of \in [1..MaxServiceRevision -> SUBSET Resources]

\* While the service runs, every listener of the configuration has an endpoint
\* task the supervisor still holds: a listener that lost its last endpoint ends
\* the service (retire_current_transport_task), even if others still answer.
ListenersAreServed ==
    service.pc = "serving" =>
        \A o \in Owners : \E id \in service.transports : OwnerOf[id[3]] = o /\ id \in Registered

\* The workers that can still refresh a resource; a panic ends the service.
Workers(r) ==
    {id \in Registered : /\ tasks[id].resource = r /\ ~tasks[id].stop
                         /\ tasks[id].pc \notin {"gated", "dropped"}
                         /\ tasks[id].pc = "done" => tasks[id].exit = "panicked"}

\* Whatever reloads added, removed, reused or failed before, a resource of the
\* runtime in use never has a second worker, and the one it has is the one whose
\* handle the service keeps.  It has that one as long as no worker of a removed
\* resource has stopped the schedules of the runtime it belonged to
\* (prepare_resource_tasks, run_resource_refresh_loop, shutdown_resource_refresh).
EveryResourceHasOneWorker ==
    service.pc = "serving" =>
        \A r \in active.of[active.rev] :
            /\ Workers(r) \subseteq {service.workers[r]}
            /\ active.stopped = {} => Workers(r) # {}

\* The schedules of the runtime in use run on: a worker that is cancelled stops
\* those of a runtime that was replaced already, so that no reload can copy the
\* stop into its candidate (merge_stable_state_from).
SchedulesRun == active.rev \notin active.stopped

\* The shutdown report accounts for every task that was registered when the
\* shutdown began, once (Supervisor::shutdown, ShutdownReport::task_count).
ReportAddsUp ==
    service.pc = "closing" =>
        report.joined + report.aborted = report.tasks
===============================================================================
