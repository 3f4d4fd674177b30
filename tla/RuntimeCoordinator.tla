-------------------------- MODULE RuntimeCoordinator --------------------------
(***************************************************************************)
(* runtime/coordinator.rs with the parts of service.rs that drive it: how  *)
(* a reload publishes a new ActiveRuntime, how requests are admitted to a  *)
(* runtime and counted, how an old runtime retires and drains, how the     *)
(* resource refresher and a reload exclude each other, and how shutdown    *)
(* waits for every runtime and cache finalizer the coordinator still owns. *)
(*                                                                         *)
(* A runtime is named by its revision: reload_prepared only accepts the    *)
(* revision that follows the active one.  Code that runs without a lock    *)
(* between two atomics or two mutexes is split at that point, so requests, *)
(* listeners and background work interleave with every step of a commit.   *)
(***************************************************************************)
EXTENDS Naturals, FiniteSets, FiniteSetsExt

CONSTANTS
    Requests,      \* inbound requests (one session task each)
    Refreshers,    \* the requests whose answer is stale and gets refreshed
    Drains,        \* late-result collectors a request may leave behind
    MaxRevision,   \* bound: reloads that can be published
    MaxVersion,    \* bound: resource refreshes
    MaxFailures    \* bound: reloads that fail after the bind

ASSUME BoundsAssumption ==
    /\ MaxRevision \in Nat \ {0}
    /\ MaxVersion \in Nat
    /\ MaxFailures \in Nat
    /\ IsFiniteSet(Requests)
    /\ IsFiniteSet(Drains)
    /\ Refreshers \subseteq Requests
    /\ Requests \cap Drains = {}

VARIABLES
    active,      \* RuntimeCoordinator::active, the published revision
    cell,        \* RuntimeCoreCell: the core that background work is aimed at
    rt,          \* per revision: draining, count of guards, resource version
    owners,      \* runtime_owners
    finalizers,  \* finalizer_owners
    fin,         \* per revision, its LateCacheFinalizer: tasks and shutdown
    gate,        \* the mutation mutex: "free", "reload" or "refresh"
    listener,    \* per revision, the state of its listener task
    woken,       \* listeners whose enabled Notified got notify_waiters
    req,         \* per request: program counter and runtime
    aim,         \* per submitter: the finalizer it read, 0 for none
    reload,      \* reload_prepared: program counter, candidate, failures
    refresh,     \* refresh_resource_if_current: program counter, captured
    svc          \* DnsService::shutdown: program counter and wait state

vars == <<active, cell, rt, owners, finalizers, fin, gate, listener, woken,
          req, aim, reload, refresh, svc>>

Revisions == 1..MaxRevision
Submitters == Refreshers \cup Drains

FreshRuntime == [draining |-> FALSE, count |-> 0, version |-> 0]
FreshFinalizer == [drains |-> {}, writes |-> {}, closed |-> FALSE]
NoRequest == [pc |-> "idle", rt |-> 0]

\* LateCacheFinalizer::active_tasks of revision r.
Busy(r) == fin[r].drains # {} \/ fin[r].writes # {}

-------------------------------------------------------------------------------
(* Initial state: RuntimeCoordinator::new with the first runtime listening. *)

Init ==
    /\ active = 1
    /\ cell = 1
    /\ rt = [r \in Revisions |-> FreshRuntime]
    /\ owners = {1}
    /\ finalizers = {1}
    /\ fin = [r \in Revisions |-> FreshFinalizer]
    /\ gate = "free"
    /\ listener = [r \in Revisions |-> IF r = 1 THEN "arm" ELSE "none"]
    /\ woken = {}
    /\ req = [q \in Requests |-> NoRequest]
    /\ aim = [s \in Submitters |-> 0]
    /\ reload = [pc |-> "idle", failures |-> 0]
    /\ refresh = [pc |-> "idle", rt |-> 0]
    /\ svc = [pc |-> "run", todo |-> {}, step |-> "look", notified |-> FALSE,
              expired |-> FALSE, drained |-> {}]

Candidate == active + 1
CoordinatorUnchanged ==
    UNCHANGED <<active, cell, owners, finalizers, gate, reload, refresh>>

-------------------------------------------------------------------------------
(* Listener tasks.  wait_for_retirement enables its Notified first and      *)
(* looks at the draining flag second.                                       *)

Accepting(r) == listener[r] = "select"

\* notify_waiters reaches the listener whose Notified is enabled.
Notified(r) == IF listener[r] \in {"check", "select"} THEN woken \cup {r}
                                                      ELSE woken

\* wait_for_retirement: enable the Notified future.
ListenArm(r) ==
    /\ listener[r] = "arm"
    /\ listener' = [listener EXCEPT ![r] = "check"]
    /\ woken' = woken \ {r}
    /\ UNCHANGED <<rt, fin, req, aim, svc>> /\ CoordinatorUnchanged

\* Mutant: the flag is not looked at after the Notified was enabled.
ListenCheck_SkipsFlag(r) ==
    /\ listener[r] = "check"
    /\ listener' = [listener EXCEPT ![r] = "select"]
    /\ UNCHANGED <<rt, fin, woken, req, aim, svc>> /\ CoordinatorUnchanged

\* wait_for_retirement: a draining runtime ends the loop, any other one
\* leaves the task in select between retirement and the next request.
ListenCheck(r) ==
    /\ listener[r] = "check"
    /\ listener' = [listener EXCEPT ![r] = IF rt[r].draining THEN "out"
                                                             ELSE "select"]
    /\ UNCHANGED <<rt, fin, woken, req, aim, svc>> /\ CoordinatorUnchanged

\* The biased select takes the retirement branch.
ListenRetire(r) ==
    /\ listener[r] = "select"
    /\ r \in woken
    /\ listener' = [listener EXCEPT ![r] = "out"]
    /\ UNCHANGED <<rt, fin, woken, req, aim, svc>> /\ CoordinatorUnchanged

\* A request arrives at a listener; the loop starts its next iteration.
Receive(q, r) ==
    /\ Accepting(r)
    /\ req[q].pc = "idle"
    /\ svc.pc = "run"
    /\ req' = [req EXCEPT ![q] = [pc |-> "check", rt |-> r]]
    /\ listener' = [listener EXCEPT ![r] = "arm"]
    /\ UNCHANGED <<rt, fin, woken, aim, svc>> /\ CoordinatorUnchanged

-------------------------------------------------------------------------------
(* Requests: ActiveRuntime::try_acquire, the dispatch, and the guard.       *)

Stays(q) == UNCHANGED <<fin, listener, woken, svc>> /\ CoordinatorUnchanged

\* try_acquire: the draining flag is read before the compare-exchange.
AcquireCheck(q) ==
    /\ req[q].pc = "check"
    /\ req' = [req EXCEPT ![q] = IF rt[req[q].rt].draining
                                 THEN NoRequest
                                 ELSE [@ EXCEPT !.pc = "count"]]
    /\ UNCHANGED <<rt, aim>> /\ Stays(q)

\* Mutant: the guard exists but was not counted.
AcquireCount_Uncounted(q) ==
    /\ req[q].pc = "count"
    /\ req' = [req EXCEPT ![q].pc = "recheck"]
    /\ UNCHANGED <<rt, aim>> /\ Stays(q)

\* try_acquire: the compare-exchange succeeds and the guard exists.
AcquireCount(q) ==
    /\ req[q].pc = "count"
    /\ req' = [req EXCEPT ![q].pc = "recheck"]
    /\ rt' = [rt EXCEPT ![req[q].rt].count = @ + 1]
    /\ UNCHANGED aim /\ Stays(q)

\* try_acquire: the compare-exchange fails and the loop reads the flag again.
AcquireRetry(q) ==
    /\ req[q].pc = "count"
    /\ req' = [req EXCEPT ![q].pc = "check"]
    /\ UNCHANGED <<rt, aim>> /\ Stays(q)

\* try_acquire: the flag decides once more; a refused request drops its guard.
AcquireRecheck(q) ==
    /\ req[q].pc = "recheck"
    /\ req' = [req EXCEPT ![q].pc = IF rt[req[q].rt].draining THEN "drop"
                                                              ELSE "admitted"]
    /\ UNCHANGED <<rt, aim>> /\ Stays(q)

\* Mutant: a request that ends leaves its guard behind.
Finish_ForgetsGuard(q) ==
    /\ req[q].pc = "admitted"
    /\ q \in Refreshers => aim[q] = 0
    /\ req' = [req EXCEPT ![q] = NoRequest]
    /\ UNCHANGED <<rt, aim>> /\ Stays(q)

\* An admitted request ends: answered, past its deadline, or cancelled.
Finish(q) ==
    /\ req[q].pc = "admitted"
    /\ q \in Refreshers => aim[q] = 0
    /\ req' = [req EXCEPT ![q].pc = "drop"]
    /\ UNCHANGED <<rt, aim>> /\ Stays(q)

\* RequestGuard::drop: fetch_sub; the one that reaches zero must notify.
DropGuard(q) ==
    /\ req[q].pc = "drop"
    /\ rt' = [rt EXCEPT ![req[q].rt].count = @ - 1]
    /\ req' = [req EXCEPT ![q] = IF rt[req[q].rt].count = 1
                                 THEN [@ EXCEPT !.pc = "notify"]
                                 ELSE NoRequest]
    /\ UNCHANGED aim /\ Stays(q)

\* RequestGuard::drop: notify_waiters reaches only a Notified that exists.
NotifyDrained(q) ==
    /\ req[q].pc = "notify"
    /\ req' = [req EXCEPT ![q] = NoRequest]
    /\ svc' = IF svc.step \in {"armed", "asleep"} /\ Min(svc.todo) = req[q].rt
              THEN [svc EXCEPT !.notified = TRUE] ELSE svc
    /\ UNCHANGED <<rt, fin, listener, woken, aim>> /\ CoordinatorUnchanged

-------------------------------------------------------------------------------
(* Background cache work.  A request may leave a collector of late upstream *)
(* results in the finalizer of its own runtime; the collector, like a       *)
(* request that schedules an optimistic refresh, reads the core cell and    *)
(* then submits a write to the finalizer of the core it read.               *)

BackgroundOnly ==
    UNCHANGED <<rt, listener, woken, req, svc>> /\ CoordinatorUnchanged

Collecting(d) == \E r \in Revisions : d \in fin[r].drains
MaySubmit(s) == \/ s \in Refreshers /\ req[s].pc = "admitted"
                \/ s \in Drains /\ Collecting(s)

\* PolicyLateResultSink::spawn_drain on the finalizer of the request's core.
SpawnDrain(q, d) ==
    /\ req[q].pc = "admitted"
    /\ ~Collecting(d)
    /\ ~fin[req[q].rt].closed
    /\ fin' = [fin EXCEPT ![req[q].rt].drains = @ \cup {d}]
    /\ UNCHANGED aim /\ BackgroundOnly

\* latest_runtime_target.
Aim(s) ==
    /\ MaySubmit(s)
    /\ aim[s] = 0
    /\ aim' = [aim EXCEPT ![s] = cell]
    /\ UNCHANGED fin /\ BackgroundOnly

\* LateCacheFinalizer::submit_task on the finalizer read before.
Submit(s) ==
    /\ aim[s] # 0
    /\ aim' = [aim EXCEPT ![s] = 0]
    /\ fin' = IF fin[aim[s]].closed THEN fin
              ELSE [fin EXCEPT ![aim[s]].writes = @ \cup {s}]
    /\ BackgroundOnly

\* FinalizerTaskGuard::drop of a write, finished or cancelled.
WriteEnds(r, s) ==
    /\ s \in fin[r].writes
    /\ fin' = [fin EXCEPT ![r].writes = @ \ {s}]
    /\ UNCHANGED aim /\ BackgroundOnly

\* FinalizerTaskGuard::drop of a collector; it is only stopped at an await.
DrainEnds(r, d) ==
    /\ d \in fin[r].drains
    /\ aim[d] = 0
    /\ fin' = [fin EXCEPT ![r].drains = @ \ {d}]
    /\ UNCHANGED aim /\ BackgroundOnly

-------------------------------------------------------------------------------
(* Owner lists.                                                             *)

\* Mutant: a draining runtime is let go whether it still has guards or not.
StillOwned_IgnoresGuards(r) == ~rt[r].draining

\* runtime_owners.retain.
StillOwned(r) == ~rt[r].draining \/ rt[r].count > 0

\* prune_finalizer_owners for a given list of runtime owners.
KeptFinalizers(list, registered) == {r \in registered : Busy(r) \/ r \in list}

\* prune_drained_runtime_owners.
Prune ==
    LET kept == {r \in owners : StillOwned(r)}
    IN  /\ owners' = kept
        /\ finalizers' = KeptFinalizers(kept, finalizers)

-------------------------------------------------------------------------------
(* Reload: DnsService::reload_prepared.                                     *)

RequestsUnchanged == UNCHANGED <<req, aim, svc>>

\* The candidate is prepared and bound; the gate is next.
ReloadBegin ==
    /\ svc.pc = "run"
    /\ reload.pc = "idle"
    /\ Candidate \in Revisions
    /\ reload' = [reload EXCEPT !.pc = "gate"]
    /\ UNCHANGED <<active, cell, rt, owners, finalizers, fin, gate, listener,
                   woken, refresh>> /\ RequestsUnchanged

\* Mutant: the candidate keeps the resources it was built with.
PrepareActivation_NoMerge ==
    /\ reload.pc = "gate"
    /\ gate = "free"
    /\ gate' = "reload"
    /\ rt' = [rt EXCEPT ![Candidate] = FreshRuntime]
    /\ reload' = [reload EXCEPT !.pc = "prepared"]
    /\ UNCHANGED <<active, cell, owners, finalizers, fin, listener, woken,
                   refresh>> /\ RequestsUnchanged

\* prepare_service_activation: take the gate and merge the published
\* resources of the current runtime into the candidate.
PrepareActivation ==
    /\ reload.pc = "gate"
    /\ gate = "free"
    /\ gate' = "reload"
    /\ rt' = [rt EXCEPT ![Candidate] =
                 [FreshRuntime EXCEPT !.version = rt[active].version]]
    /\ reload' = [reload EXCEPT !.pc = "prepared"]
    /\ UNCHANGED <<active, cell, owners, finalizers, fin, listener, woken,
                   refresh>> /\ RequestsUnchanged

\* The reload's timeout ends the wait for the gate.
GateTimeout ==
    /\ reload.pc = "gate"
    /\ reload.failures < MaxFailures
    /\ reload' = [pc |-> "idle", failures |-> reload.failures + 1]
    /\ UNCHANGED <<active, cell, rt, owners, finalizers, fin, gate, listener,
                   woken, refresh>> /\ RequestsUnchanged

\* spawn_transport_plans registers the candidate's tasks behind the start
\* gate; ids of an earlier attempt that were not joined yet are duplicates.
SpawnTasks ==
    /\ reload.pc = "prepared"
    /\ listener[Candidate] = "none"
    /\ listener' = [listener EXCEPT ![Candidate] = "gated"]
    /\ reload' = [reload EXCEPT !.pc = "spawned"]
    /\ UNCHANGED <<active, cell, rt, owners, finalizers, fin, gate, woken,
                   refresh>> /\ RequestsUnchanged

\* An error return after the gate was taken: a duplicate task id, a failed
\* resource task, the deadline, a cancellation.  The activation and the
\* start gate are dropped; spawned tasks stay registered until joined.
ReloadFails ==
    /\ \/ reload.pc = "prepared" /\ listener[Candidate] # "none"
       \/ reload.pc = "spawned" /\ reload.failures < MaxFailures
    /\ gate' = "free"
    /\ listener' = [listener EXCEPT ![Candidate] = "orphan"]
    /\ reload' = IF reload.pc = "spawned"
                 THEN [pc |-> "idle", failures |-> reload.failures + 1]
                 ELSE [reload EXCEPT !.pc = "idle"]
    /\ UNCHANGED <<active, cell, rt, owners, finalizers, fin, woken,
                   refresh>> /\ RequestsUnchanged

\* ServiceActivation::commit: the compare-and-swap of the active runtime.
CommitSwap ==
    /\ reload.pc = "spawned"
    /\ active' = Candidate
    /\ reload' = [reload EXCEPT !.pc = "swapped"]
    /\ UNCHANGED <<cell, rt, owners, finalizers, fin, gate, listener, woken,
                   refresh>> /\ RequestsUnchanged

\* commit: register the finalizer, the core and both runtimes.
CommitRegister ==
    /\ reload.pc = "swapped"
    /\ finalizers' = finalizers \cup {active}
    /\ cell' = active
    /\ owners' = {r \in owners : StillOwned(r)} \cup {active, active - 1}
    /\ reload' = [reload EXCEPT !.pc = "registered"]
    /\ UNCHANGED <<active, rt, fin, gate, listener, woken, refresh>>
    /\ RequestsUnchanged

\* commit: ActiveRuntime::begin_drain of the old runtime, the flag.
CommitDrain ==
    /\ reload.pc = "registered"
    /\ rt' = [rt EXCEPT ![active - 1].draining = TRUE]
    /\ reload' = [reload EXCEPT !.pc = "draining"]
    /\ UNCHANGED <<active, cell, owners, finalizers, fin, gate, listener,
                   woken, refresh>> /\ RequestsUnchanged

\* commit: begin_drain's notify_waiters, prune_finalizer_owners, and the
\* mutation guard released with the activation.
CommitDone ==
    /\ reload.pc = "draining"
    /\ woken' = Notified(active - 1)
    /\ finalizers' = KeptFinalizers(owners, finalizers)
    /\ gate' = "free"
    /\ reload' = [reload EXCEPT !.pc = "committed"]
    /\ UNCHANGED <<active, cell, rt, owners, fin, listener, refresh>>
    /\ RequestsUnchanged

\* The synchronous tail: prune, replace the task sets, open the start gate.
ReloadDone ==
    /\ reload.pc = "committed"
    /\ Prune
    /\ listener' = [listener EXCEPT ![active] = "arm"]
    /\ reload' = [reload EXCEPT !.pc = "idle"]
    /\ UNCHANGED <<active, cell, rt, fin, gate, woken, refresh>>
    /\ RequestsUnchanged

\* run_with_reload: Supervisor::join_next removes a finished task, and the
\* loop prunes.  A listener task ends only after its sessions have.
JoinNext(r) ==
    /\ svc.pc = "run"
    /\ reload.pc = "idle"
    /\ \/ listener[r] = "orphan"
       \/ listener[r] = "out" /\ \A q \in Requests : req[q].rt # r
    /\ listener' = [listener EXCEPT ![r] = "none"]
    /\ Prune
    /\ UNCHANGED <<active, cell, rt, fin, gate, woken, reload, refresh>>
    /\ RequestsUnchanged

-------------------------------------------------------------------------------
(* Resource refresh: RuntimeCoordinator::refresh_resource_if_current.       *)

RefreshOnly == UNCHANGED <<active, cell, owners, finalizers, fin, listener,
                           woken, req, aim, reload, svc>>

\* run_resource_refresh_loop captures the current runtime.
RefreshLoad ==
    /\ svc.pc = "run"
    /\ refresh.pc = "idle"
    /\ rt[active].version < MaxVersion
    /\ refresh' = [pc |-> "loaded", rt |-> active]
    /\ UNCHANGED <<rt, gate>> /\ RefreshOnly

\* Under the gate the captured runtime must still be the active one.
RefreshGate ==
    /\ refresh.pc = "loaded"
    /\ gate = "free"
    /\ IF refresh.rt = active
       THEN gate' = "refresh" /\ refresh' = [refresh EXCEPT !.pc = "fetch"]
       ELSE UNCHANGED gate /\ refresh' = [pc |-> "idle", rt |-> 0]
    /\ UNCHANGED rt /\ RefreshOnly

\* The fetched snapshot is published in the captured runtime.
RefreshPublish ==
    /\ refresh.pc = "fetch"
    /\ rt' = [rt EXCEPT ![refresh.rt].version = @ + 1]
    /\ gate' = "free"
    /\ refresh' = [pc |-> "idle", rt |-> 0]
    /\ RefreshOnly

\* The refresh fails, or its task is cancelled while it waits.
RefreshAbandon ==
    /\ refresh.pc \in {"loaded", "fetch"}
    /\ gate' = IF refresh.pc = "fetch" THEN "free" ELSE gate
    /\ refresh' = [pc |-> "idle", rt |-> 0]
    /\ UNCHANGED rt /\ RefreshOnly

-------------------------------------------------------------------------------
(* Shutdown: DnsService::shutdown, from begin_drain to shutdown_finalizers. *)

\* The signal drops a reload that still waits for the gate;
\* RuntimeCoordinator::begin_drain works on a copy of the owners.
ShutdownBegin ==
    /\ svc.pc = "run"
    /\ reload.pc \in {"idle", "gate"}
    /\ reload' = [reload EXCEPT !.pc = "idle"]
    /\ svc' = [svc EXCEPT !.pc = "drain", !.todo = owners]
    /\ UNCHANGED <<active, cell, rt, owners, finalizers, fin, gate, listener,
                   woken, req, aim, refresh>>

\* ActiveRuntime::begin_drain of the next runtime in the copy; the last one
\* is followed by cancel_transport_tasks and Supervisor::shutdown.
ShutdownDrain ==
    /\ svc.pc = "drain"
    /\ LET r == Min(svc.todo)
       IN  /\ rt' = [rt EXCEPT ![r].draining = TRUE]
           /\ woken' = IF ~rt[r].draining THEN Notified(r) ELSE woken
           /\ svc' = [svc EXCEPT !.todo = @ \ {r},
                                 !.pc = IF svc.todo = {r} THEN "join" ELSE @]
    /\ UNCHANGED <<fin, listener, req, aim>> /\ CoordinatorUnchanged

\* A listener task observes the cancellation.
ListenCancelled(r) ==
    /\ svc.pc = "join"
    /\ listener[r] \in {"arm", "check", "select", "orphan"}
    /\ listener' = [listener EXCEPT ![r] = "out"]
    /\ UNCHANGED <<rt, fin, woken, req, aim, svc>> /\ CoordinatorUnchanged

\* The shared shutdown deadline passes.
DeadlineExpires ==
    /\ svc.pc \in {"join", "wait", "finalize"}
    /\ ~svc.expired
    /\ svc' = [svc EXCEPT !.expired = TRUE]
    /\ UNCHANGED <<rt, fin, listener, woken, req, aim>> /\ CoordinatorUnchanged

\* Supervisor::shutdown returns: every task was joined, or the deadline
\* passed and the rest was aborted (sessions drop their guards on their own).
SupervisorDone ==
    /\ svc.pc = "join"
    /\ \/ /\ \A r \in Revisions : listener[r] \in {"none", "out"}
          /\ \A q \in Requests : req[q].pc = "idle"
       \/ svc.expired
    /\ listener' = [r \in Revisions |-> "none"]
    /\ svc' = [svc EXCEPT !.pc = "wait", !.todo = owners]
    /\ UNCHANGED <<rt, fin, woken, req, aim>> /\ CoordinatorUnchanged

WaitOnly == /\ UNCHANGED <<active, cell, rt, fin, gate, listener, woken, req,
                           aim, reload, refresh>>

\* The runtime wait_for_drain looks at.
Waited == Min(svc.todo)
WaitingFor(r) == svc.pc = "wait" /\ svc.todo # {} /\ Waited = r

\* wait_for_drain moves on to the next runtime of the copy.
NextWait(r) == [svc EXCEPT !.todo = @ \ {r}, !.step = "look", !.notified = FALSE]

\* ActiveRuntime::wait_for_drain: either look finds no guard.
WaitDone(r) ==
    /\ WaitingFor(r)
    /\ svc.step \in {"look", "armed"}
    /\ rt[r].count = 0
    /\ svc' = [NextWait(r) EXCEPT !.drained = @ \cup {r}]
    /\ UNCHANGED <<owners, finalizers>> /\ WaitOnly

\* wait_for_drain: the first look finds a guard.
WaitLook(r) ==
    /\ WaitingFor(r)
    /\ svc.step = "look"
    /\ rt[r].count # 0
    /\ svc' = [svc EXCEPT !.step = "looked"]
    /\ UNCHANGED <<owners, finalizers>> /\ WaitOnly

\* wait_for_drain: the Notified is created between the two looks.
WaitArm(r) ==
    /\ WaitingFor(r)
    /\ svc.step = "looked"
    /\ svc' = [svc EXCEPT !.step = "armed"]
    /\ UNCHANGED <<owners, finalizers>> /\ WaitOnly

\* wait_for_drain: the second look still finds a guard.
WaitSleep(r) ==
    /\ WaitingFor(r)
    /\ svc.step = "armed"
    /\ rt[r].count # 0
    /\ svc' = [svc EXCEPT !.step = "asleep"]
    /\ UNCHANGED <<owners, finalizers>> /\ WaitOnly

\* wait_for_drain: the notification starts the loop again.
WaitWoken(r) ==
    /\ WaitingFor(r)
    /\ svc.step = "asleep"
    /\ svc.notified
    /\ svc' = [svc EXCEPT !.step = "look", !.notified = FALSE]
    /\ UNCHANGED <<owners, finalizers>> /\ WaitOnly

\* wait_for_drain: the deadline passed first.
WaitExpired(r) ==
    /\ WaitingFor(r)
    /\ svc.step = "asleep"
    /\ svc.expired
    /\ svc' = NextWait(r)
    /\ UNCHANGED <<owners, finalizers>> /\ WaitOnly

\* Every runtime was waited for; a complete drain prunes the owners.
WaitAllDone ==
    /\ svc.pc = "wait"
    /\ svc.todo = {}
    /\ owners' = IF owners \subseteq svc.drained
                 THEN {r \in owners : StillOwned(r)} ELSE owners
    /\ svc' = [svc EXCEPT !.pc = "finalize", !.todo = finalizers]
    /\ UNCHANGED finalizers /\ WaitOnly

\* shutdown_until: cancel the tasks and refuse new ones.
CloseFinalizer(r) ==
    /\ svc.pc = "finalize"
    /\ svc.todo # {} /\ Waited = r
    /\ ~fin[r].closed
    /\ fin' = [fin EXCEPT ![r].closed = TRUE]
    /\ UNCHANGED <<rt, listener, woken, req, aim, svc>>
    /\ CoordinatorUnchanged

\* shutdown_until: all tasks were joined, aborted ones included.
FinalizerDone(r) ==
    /\ svc.pc = "finalize"
    /\ svc.todo # {} /\ Waited = r
    /\ fin[r].closed
    /\ ~Busy(r)
    /\ svc' = [svc EXCEPT !.todo = @ \ {r}]
    /\ UNCHANGED <<owners, finalizers>> /\ WaitOnly

\* shutdown_finalizers returns.
Stop ==
    /\ svc.pc = "finalize"
    /\ svc.todo = {}
    /\ svc' = [svc EXCEPT !.pc = "stopped"]
    /\ UNCHANGED <<owners, finalizers>> /\ WaitOnly

-------------------------------------------------------------------------------
RequestStep(q) ==
    \/ AcquireCheck(q) \/ AcquireCount(q) \/ AcquireRetry(q)
    \/ AcquireRecheck(q)
    \/ Finish(q) \/ DropGuard(q) \/ NotifyDrained(q)

ListenerStep(r) ==
    \/ ListenArm(r) \/ ListenCheck(r) \/ ListenRetire(r) \/ ListenCancelled(r)

BackgroundEnds(r) ==
    \/ \E s \in Submitters : WriteEnds(r, s)
    \/ \E d \in Drains : DrainEnds(r, d)

ReloadStep ==
    \/ PrepareActivation \/ SpawnTasks \/ ReloadFails \/ CommitSwap
    \/ CommitRegister \/ CommitDrain \/ CommitDone \/ ReloadDone

RefreshStep == RefreshGate \/ RefreshPublish \/ RefreshAbandon

WaitStep(r) ==
    \/ WaitLook(r) \/ WaitDone(r) \/ WaitArm(r) \/ WaitSleep(r)
    \/ WaitWoken(r) \/ WaitExpired(r)

ShutdownStep ==
    \/ ShutdownDrain \/ SupervisorDone \/ WaitAllDone \/ Stop
    \/ \E r \in Revisions : WaitStep(r) \/ CloseFinalizer(r) \/ FinalizerDone(r)

Next ==
    \/ \E r \in Revisions : ListenerStep(r) \/ BackgroundEnds(r) \/ JoinNext(r)
    \/ \E q \in Requests : RequestStep(q)
    \/ \E q \in Requests, r \in Revisions : Receive(q, r)
    \/ \E q \in Requests, d \in Drains : SpawnDrain(q, d)
    \/ \E s \in Submitters : Aim(s) \/ Submit(s)
    \/ ReloadBegin \/ GateTimeout \/ ReloadStep
    \/ RefreshLoad \/ RefreshStep
    \/ ShutdownBegin \/ DeadlineExpires \/ ShutdownStep

Spec == Init /\ [][Next]_vars

(* Tokio polls every ready task, every request is bounded by its own        *)
(* deadline, every refresh by RESOURCE_REFRESH_TIMEOUT.  Three steps need   *)
(* strong fairness: a compare-exchange that is tried again and again        *)
(* succeeds at some point, a collector has finitely many attempts to        *)
(* collect, and the unbiased select of run_with_reload picks join_next some *)
(* time although commands keep coming.  No fairness is assumed of arrivals, *)
(* of operators, of signals or of the shutdown deadline: shutdown has to    *)
(* finish through its notifications.                                        *)
Fairness ==
    /\ \A q \in Requests : WF_vars(RequestStep(q)) /\ SF_vars(AcquireCount(q))
    /\ \A s \in Submitters : WF_vars(Submit(s))
    /\ \A d \in Drains : SF_vars(\E r \in Revisions : DrainEnds(r, d))
    /\ \A r \in Revisions :
          /\ WF_vars(ListenerStep(r))
          /\ SF_vars(JoinNext(r))
          /\ \A s \in Submitters : WF_vars(WriteEnds(r, s))
    /\ WF_vars(ReloadStep)
    /\ WF_vars(RefreshStep)
    /\ WF_vars(ShutdownStep)

LiveSpec == Spec /\ Fairness

-------------------------------------------------------------------------------
(* Properties.                                                              *)

\* Every variable holds a value of its type.
TypeOK ==
    /\ active \in Revisions
    /\ cell \in Revisions
    /\ rt \in [Revisions -> [draining : BOOLEAN, count : Nat, version : Nat]]
    /\ owners \subseteq Revisions
    /\ finalizers \subseteq Revisions
    /\ fin \in [Revisions -> [drains : SUBSET Drains,
                              writes : SUBSET Submitters, closed : BOOLEAN]]
    /\ gate \in {"free", "reload", "refresh"}
    /\ listener \in [Revisions -> {"none", "gated", "orphan", "arm", "check",
                                   "select", "out"}]
    /\ woken \subseteq Revisions
    /\ req \in [Requests -> [pc : {"idle", "check", "count", "recheck",
                                   "admitted", "drop", "notify"},
                             rt : 0..MaxRevision]]
    /\ aim \in [Submitters -> 0..MaxRevision]
    /\ reload \in [pc : {"idle", "gate", "prepared", "spawned", "swapped",
                         "registered", "draining", "committed"},
                   failures : 0..MaxFailures]
    /\ refresh \in [pc : {"idle", "loaded", "fetch"}, rt : 0..MaxRevision]
    /\ svc \in [pc : {"run", "drain", "join", "wait", "finalize", "stopped"},
                todo : SUBSET Revisions,
                step : {"look", "looked", "armed", "asleep"},
                notified : BOOLEAN, expired : BOOLEAN,
                drained : SUBSET Revisions]

Guarded(q) == req[q].pc \in {"recheck", "admitted", "drop"}

\* A runtime that shutdown saw drained serves no request, then or later: the
\* second look of try_acquire closes the window between reading the draining
\* flag and counting the guard (coordinator.rs try_acquire, wait_for_drain).
DrainedStaysDrained ==
    \A q \in Requests : req[q].pc = "admitted" => req[q].rt \notin svc.drained

\* The runtime of every admitted request is on the owner list, so shutdown
\* drains it and waits for it, however reloads and prunes interleave with the
\* lock-free admission (register_runtime_owner, prune_drained_runtime_owners).
AdmittedIsOwned ==
    \A q \in Requests : req[q].pc = "admitted" => req[q].rt \in owners

\* A late-result collector runs in a finalizer that is still registered, so
\* shutdown_finalizers cancels and joins it (prune_finalizer_owners).
CollectorsAreOwned ==
    \A r \in Revisions : fin[r].drains # {} => r \in finalizers

\* Between reloads the published runtime has a listener task that accepts:
\* a failed reload left the old one alone, a successful one opened the start
\* gate of the new one (reload_prepared, ServiceActivation::commit).
ActiveIsListening ==
    (svc.pc = "run" /\ reload.pc \in {"idle", "gate", "prepared", "spawned"})
        => listener[active] \in {"arm", "check", "select"}

\* Work is never on something shutdown does not know of: the four of them, for the
\* state that reload, admission, pruning and shutdown share without one lock.
RequestsAreOwned ==
    DrainedStaysDrained /\ AdmittedIsOwned /\ CollectorsAreOwned /\ ActiveIsListening

\* A reload never takes the published resources back to an older version: the
\* merge and the publication happen under the gate the refresher needs
\* (prepare_service_activation, refresh_resource_if_current).
KeepsResources ==
    rt'[active'].version >= rt[active].version
ResourcesNeverRollBack == [][KeepsResources]_vars

\* Shutdown ends although its deadline may never pass: each wait is ended by
\* the notification of the last guard or by the last task of a finalizer.
ShutdownEnds == (svc.pc = "drain") ~> (svc.pc = "stopped")

\* A replaced runtime is let go once its requests are done: its listener sees
\* the retirement, its task is joined, and the prune drops the owner.  (The
\* last revision is never replaced.)
OldRuntimesAreReleased ==
    \A r \in 1 .. MaxRevision - 1 :
        (r < active /\ rt[r].draining) ~> (r \notin owners \/ svc.pc # "run")

\* Every task of a finalizer belongs to a registered one, as runtime.md
\* requires of the owner of a late task.
LateTasksAreOwned ==
    \A r \in Revisions : Busy(r) => r \in finalizers

===============================================================================
