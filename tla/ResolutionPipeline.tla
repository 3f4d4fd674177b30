-------------------------- MODULE ResolutionPipeline --------------------------
(* ResolutionRuntime (resolution.rs): requests publish an envelope without waiting, *)
(* the dispatcher feeds statistics, a bounded queue of cache commits and a bounded *)
(* queue of details, and shutdown waits for the three tasks under one deadline.    *)
(* An envelope is known by its request.  The commit itself and the detail writer   *)
(* are elsewhere: here they only have an outcome.                                  *)
EXTENDS Naturals, Sequences, FiniteSets, Functions

CONSTANTS
  Requests,
  Commits,          \* requests whose envelope carries a cache commit candidate
  DetailEnabled,    \* a detail writer is configured
  IngressCapacity, CommitCapacity, DetailCapacity,
  Projections,      \* bound of run_detail_projector's pending set (128 in the code)
  MaxPanics,        \* bound: tasks that panic
  None

ASSUME PipelineAssumption ==
  /\ IsFiniteSet(Requests) /\ Commits \subseteq Requests /\ None \notin Requests
  /\ DetailEnabled \in BOOLEAN
  /\ {IngressCapacity, CommitCapacity, DetailCapacity, Projections, MaxPanics} \subseteq Nat

VARIABLES
  sent,             \* progress of each request's try_publish
  ingress, commits, details,   \* the three queues
  closed,           \* the dispatcher has closed the ingress
  committing,       \* the candidate in the cache worker's hands
  projecting,       \* events whose trace the projector waits for
  accepting, cancelled,
  task,             \* state of the three tasks
  count,            \* ResolutionPipelineMetrics, and events seen by the stats worker
  health,           \* reported_drops and degraded of the dispatcher
  down,             \* shutdown: its step, its deadline and its summary
  panics,
  settled           \* history: candidates whose commit has ended

pipe == <<sent, ingress, commits, details, closed, committing, projecting, accepting,
          cancelled, task, count, health, down, panics, settled>>

\* ResolutionPipelineMetrics: "committed" is the sum of stored, rejected, conflict and
\* unavailable; "projected" of written, detail_failed and what a full shard drops.
Counters == {"accepted", "dropped", "committed", "commitDropped", "stats", "detailDropped",
             "projected"}
Tasks == {"dispatcher", "cache", "detail"}
Alive(t) == task[t] \in {"running", "aborting"}
Plus(f, c) == [f EXCEPT ![c] = @ + 1]
Bump(c) == count' = Plus(count, c)

Init ==
  /\ sent = [r \in Requests |-> "resolving"]
  /\ ingress = <<>> /\ commits = <<>> /\ details = <<>>
  /\ closed = FALSE /\ committing = None /\ projecting = {}
  /\ accepting = TRUE /\ cancelled = FALSE
  /\ task = [t \in Tasks |-> IF t = "detail" /\ ~DetailEnabled THEN "none" ELSE "running"]
  /\ count = [c \in Counters |-> 0]
  /\ health = [reported |-> 0, degraded |-> FALSE]
  /\ down = [step |-> "up", expired |-> FALSE, completed |-> TRUE]
  /\ panics = 0 /\ settled = {}

-------------------------------------------------------------------------------
(* try_publish, on the request's own task: shutdown may come between the test of   *)
(* the flag and the send.                                                          *)

CheckAccepting(r) ==
  /\ sent[r] = "resolving"
  /\ sent' = [sent EXCEPT ![r] = IF accepting THEN "checked" ELSE "disabled"]
  /\ UNCHANGED <<ingress, commits, details, closed, committing, projecting, accepting,
                 cancelled, task, count, health, down, panics, settled>>

IngressOpen == ~closed /\ Alive("dispatcher")

TrySend(r) ==
  /\ sent[r] = "checked"
  /\ \/ /\ IngressOpen /\ Len(ingress) < IngressCapacity
        /\ ingress' = Append(ingress, r)
        /\ sent' = [sent EXCEPT ![r] = "accepted"]
        /\ Bump("accepted")
     \/ /\ IngressOpen /\ Len(ingress) >= IngressCapacity
        /\ sent' = [sent EXCEPT ![r] = "full"]
        /\ count' = IF r \in Commits THEN Plus(Plus(count, "dropped"), "commitDropped")
                                     ELSE Plus(count, "dropped")
        /\ UNCHANGED ingress
     \/ /\ ~IngressOpen
        /\ sent' = [sent EXCEPT ![r] = "closed"]
        /\ UNCHANGED <<ingress, count>>
  /\ UNCHANGED <<commits, details, closed, committing, projecting, accepting, cancelled,
                 task, health, down, panics, settled>>

-------------------------------------------------------------------------------
(* The dispatcher. *)

\* Mutant: the queue holds one more than its capacity.
CommitFits_OneMore(r) == Alive("cache") /\ Len(commits) <= CommitCapacity
CommitFits(r) == Alive("cache") /\ Len(commits) < CommitCapacity
DetailFits(r) == Alive("detail") /\ Len(details) < DetailCapacity

\* Mutant: a commit queue that is full drops the candidate without counting it.
Dispatched_Silently(r) ==
  [c \in Counters |->
     count[c] + CASE c = "stats" -> 1
                  [] c = "detailDropped" -> IF DetailEnabled /\ ~DetailFits(r) THEN 1 ELSE 0
                  [] OTHER -> 0]
Dispatched(r) ==
  [c \in Counters |->
     count[c] + CASE c = "stats" -> 1
                  [] c = "commitDropped" -> IF r \in Commits /\ ~CommitFits(r) THEN 1 ELSE 0
                  [] c = "detailDropped" -> IF DetailEnabled /\ ~DetailFits(r) THEN 1 ELSE 0
                  [] OTHER -> 0]

\* One envelope: the candidate is offered to the cache worker, the event counted and
\* offered to the projector, and new ingress drops are reported once.
Dispatch ==
  /\ Alive("dispatcher") /\ ingress # <<>>
  /\ LET r == Head(ingress) IN
       /\ ingress' = Tail(ingress)
       /\ commits' = IF r \in Commits /\ CommitFits(r) THEN Append(commits, r) ELSE commits
       /\ details' = IF DetailEnabled /\ DetailFits(r) THEN Append(details, r) ELSE details
       /\ count' = Dispatched(r)
       /\ health' = [reported |-> count.dropped, degraded |-> count.dropped > health.reported]
  /\ UNCHANGED <<sent, closed, committing, projecting, accepting, cancelled, task, down, panics, settled>>

\* The cancelled branch of the select: close the ingress, then drain it.
CloseIngress ==
  /\ Alive("dispatcher") /\ cancelled /\ ~closed
  /\ closed' = TRUE
  /\ UNCHANGED <<sent, ingress, commits, details, committing, projecting, accepting,
                 cancelled, task, count, health, down, panics, settled>>

EndTask(t) == task' = [task EXCEPT ![t] = "done"]

DispatcherEnds ==
  /\ Alive("dispatcher") /\ closed /\ ingress = <<>>
  /\ EndTask("dispatcher")
  /\ UNCHANGED <<sent, ingress, commits, details, closed, committing, projecting, accepting,
                 cancelled, count, health, down, panics, settled>>

-------------------------------------------------------------------------------
(* The cache worker and the detail projector. *)

\* Mutant: the candidate is looked at and stays in the queue.
TakeCommit_Peeks ==
  /\ Alive("cache") /\ committing = None /\ commits # <<>>
  /\ committing' = Head(commits)
  /\ UNCHANGED <<sent, ingress, commits, details, closed, projecting, accepting, cancelled,
                 task, count, health, down, panics, settled>>
TakeCommit ==
  /\ Alive("cache") /\ committing = None /\ commits # <<>>
  /\ committing' = Head(commits)
  /\ commits' = Tail(commits)
  /\ UNCHANGED <<sent, ingress, details, closed, projecting, accepting, cancelled, task,
                 count, health, down, panics, settled>>

FinishCommit ==
  /\ Alive("cache") /\ committing # None
  /\ committing' = None
  /\ settled' = settled \cup {committing}
  /\ Bump("committed")
  /\ UNCHANGED <<sent, ingress, commits, details, closed, projecting, accepting, cancelled,
                 task, health, down, panics>>

CacheWorkerEnds ==
  /\ Alive("cache") /\ committing = None /\ commits = <<>> /\ ~Alive("dispatcher")
  /\ EndTask("cache")
  /\ UNCHANGED <<sent, ingress, commits, details, closed, committing, projecting, accepting,
                 cancelled, count, health, down, panics, settled>>

TakeDetail ==
  /\ Alive("detail") /\ details # <<>> /\ Cardinality(projecting) < Projections
  /\ projecting' = projecting \cup {Head(details)}
  /\ details' = Tail(details)
  /\ UNCHANGED <<sent, ingress, commits, closed, committing, accepting, cancelled, task,
                 count, health, down, panics, settled>>

\* join_next: RequestTrace::settled has answered or its six seconds are over; the
\* record is written, refused by a full shard, or fails.
ProjectDetail(r) ==
  /\ Alive("detail") /\ r \in projecting
  /\ projecting' = projecting \ {r}
  /\ Bump("projected")
  /\ UNCHANGED <<sent, ingress, commits, details, closed, committing, accepting, cancelled,
                 task, health, down, panics, settled>>

ProjectorEnds ==
  /\ Alive("detail") /\ details = <<>> /\ ~Alive("dispatcher") /\ projecting = {}
  /\ EndTask("detail")
  /\ UNCHANGED <<sent, ingress, commits, details, closed, committing, projecting, accepting,
                 cancelled, count, health, down, panics, settled>>

-------------------------------------------------------------------------------
(* A task that panics or is aborted takes its queue and its work with it. *)

Dies(t) ==
  /\ task' = [task EXCEPT ![t] = "dead"]
  /\ ingress' = IF t = "dispatcher" THEN <<>> ELSE ingress
  /\ commits' = IF t = "cache" THEN <<>> ELSE commits
  /\ committing' = IF t = "cache" THEN None ELSE committing
  /\ details' = IF t = "detail" THEN <<>> ELSE details
  /\ projecting' = IF t = "detail" THEN {} ELSE projecting

TaskPanics(t) ==
  /\ task[t] = "running" /\ panics < MaxPanics
  /\ panics' = panics + 1
  /\ Dies(t)
  /\ UNCHANGED <<sent, closed, accepting, cancelled, count, health, down, settled>>

AbortTakesEffect(t) ==
  /\ task[t] = "aborting"
  /\ Dies(t)
  /\ UNCHANGED <<sent, closed, accepting, cancelled, count, health, down, panics, settled>>

-------------------------------------------------------------------------------
(* shutdown. *)

Stop ==
  /\ down.step = "up"
  /\ accepting' = FALSE
  /\ down' = [down EXCEPT !.step = "stopped"]
  /\ UNCHANGED <<sent, ingress, commits, details, closed, committing, projecting, cancelled,
                 task, count, health, panics, settled>>

Cancel ==
  /\ down.step = "stopped"
  /\ cancelled' = TRUE
  /\ down' = [down EXCEPT !.step = "dispatcher"]
  /\ UNCHANGED <<sent, ingress, commits, details, closed, committing, projecting, accepting,
                 task, count, health, panics, settled>>

DeadlineExpires ==
  /\ down.step \in Tasks /\ ~down.expired
  /\ down' = [down EXCEPT !.expired = TRUE]
  /\ UNCHANGED <<sent, ingress, commits, details, closed, committing, projecting, accepting,
                 cancelled, task, count, health, panics, settled>>

After(t) == [dispatcher |-> "cache", cache |-> "detail", detail |-> "down"][t]

\* One handle: it has ended, or the deadline is over and it is aborted.
AwaitTask(t) ==
  /\ down.step = t
  /\ task[t] \in {"none", "done", "dead"} \/ down.expired
  /\ task' = IF Alive(t) THEN [task EXCEPT ![t] = "aborting"] ELSE task
  /\ down' = [down EXCEPT !.step = After(t), !.completed = @ /\ task[t] \in {"none", "done"}]
  /\ UNCHANGED <<sent, ingress, commits, details, closed, committing, projecting, accepting,
                 cancelled, count, health, panics, settled>>

-------------------------------------------------------------------------------
Publish(r) == CheckAccepting(r) \/ TrySend(r)
Work ==
  \/ Dispatch \/ CloseIngress \/ DispatcherEnds
  \/ TakeCommit \/ CacheWorkerEnds \/ TakeDetail \/ ProjectorEnds
Await == \E t \in Tasks : AwaitTask(t)

Next ==
  \/ \E r \in Requests : Publish(r)
  \/ Work
  \/ FinishCommit
  \/ \E r \in Requests : ProjectDetail(r)
  \/ \E t \in Tasks : TaskPanics(t) \/ AbortTakesEffect(t)
  \/ Stop \/ Cancel \/ DeadlineExpires \/ Await

\* The tasks run, a commit ends within its own 100 ms deadline, a projection within
\* six seconds, and shutdown has a deadline.
Fairness ==
  /\ WF_pipe(Dispatch) /\ WF_pipe(CloseIngress) /\ WF_pipe(DispatcherEnds)
  /\ WF_pipe(TakeCommit) /\ WF_pipe(CacheWorkerEnds)
  /\ WF_pipe(TakeDetail) /\ WF_pipe(ProjectorEnds)
  /\ WF_pipe(FinishCommit)
  /\ WF_pipe(\E r \in Requests : ProjectDetail(r))
  /\ \A t \in Tasks : WF_pipe(AbortTakesEffect(t))
  /\ WF_pipe(Cancel) /\ WF_pipe(DeadlineExpires) /\ WF_pipe(Await)

Spec == Init /\ [][Next]_pipe /\ Fairness

-------------------------------------------------------------------------------
(* Properties. *)

\* Type correctness of the queues, tasks and counters.
PipelineTypeOK ==
  /\ sent \in [Requests -> {"resolving", "checked", "disabled", "accepted", "full", "closed"}]
  /\ {ingress, commits, details} \subseteq Seq(Requests)
  /\ Len(ingress) <= IngressCapacity /\ Len(commits) <= CommitCapacity
  /\ Len(details) <= DetailCapacity /\ Cardinality(projecting) <= Projections
  /\ committing \in Commits \cup {None} /\ projecting \subseteq Requests
  /\ {closed, accepting, cancelled, down.expired, down.completed} \subseteq BOOLEAN
  /\ task \in [Tasks -> {"none", "running", "done", "aborting", "dead"}]
  /\ count \in [Counters -> Nat]
  /\ health.reported \in Nat /\ health.degraded \in BOOLEAN
  /\ down.step \in Tasks \cup {"up", "stopped", "down"} /\ panics \in Nat

Offered == {r \in Commits : sent[r] \in {"accepted", "full"}}

\* A shutdown that reports "completed" has lost nothing: every envelope that entered
\* the ingress was counted by the statistics, every cache commit offered has
\* exactly one outcome, and every detail was written, dropped or failed by name
\* (shutdown, run_dispatcher, run_cache_worker, run_detail_projector).
CompletedLosesNothing ==
  down.step = "down" /\ down.completed =>
    /\ count.stats = count.accepted
    /\ count.committed + count.commitDropped = Cardinality(Offered)
    /\ DetailEnabled => count.projected + count.detailDropped = count.accepted

\* Shutdown comes to its end, whatever the tasks do.
ShutdownEnds == down.step # "up" ~> down.step = "down"

PlaceOf(r) ==
  CASE r \in Range(ingress) \cup Range(commits) -> "queued"
    [] r = committing -> "working"
    [] sent[r] \in {"resolving", "checked"} -> "none"
    [] r \in settled -> "settled"
    [] OTHER -> "dropped"

Handoff == INSTANCE CommitHandoff
             WITH Candidates <- Commits, handoff <- [r \in Commits |-> PlaceOf(r)]

\* The pipeline is a hand-off: a candidate moves forward only, is committed at most
\* once, and otherwise is dropped, on full queues, aborts and panics alike.
IsHandoff == Handoff!Spec

\* Every candidate that was handed over leaves the pipeline.
HandoffEnds == Handoff!Ends

===============================================================================
