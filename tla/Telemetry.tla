------------------------------- MODULE Telemetry -------------------------------
(***************************************************************************)
(* The bounded telemetry writer (observability.rs), its metric registry    *)
(* (observability/registry.rs), the owner that switches the log output on  *)
(* a reload (observability/logging.rs), and the task that samples and      *)
(* flushes them (service.rs).                                              *)
(*                                                                         *)
(* Producers only touch memory.  A flush holds flush_lock from its first   *)
(* item to its last and gives up the state lock around every write, so     *)
(* events are accepted, evicted and filtered while an item is in flight.   *)
(* Texts, labels and instants are left out.                                *)
(***************************************************************************)
EXTENDS Integers, Sequences, FiniteSets, FiniteSetsExt, SequencesExt

CONSTANTS
    Capacity,          \* queue capacity of the writer
    LogConfigs,        \* configurations of the log: [enable, level, path]
    Durations,         \* latencies of a request
    Outcomes,          \* OUTCOMES
    CacheStatuses,     \* CACHE_STATUSES
    Reports,           \* health a component of the service reports: [state, gap]
    CounterLimit,      \* largest value of a counter
    None,              \* model value
    MaxItems,          \* bound: events after which no producer or task starts
    MaxChanges,        \* bound: resolutions and reloads of the log configuration
    MaxOutputFaults    \* bound: writes that fail

VARIABLES
    writer,     \* queue, inFlight, filter, closed of TelemetryWriterState
    flush,      \* holder of flush_lock and what it has left
    registry,   \* ObservabilityRegistry: events, requests
    sampler,    \* resolutions accepted by the ingress, and the cursor
    logging,    \* LoggingOwner: current, trace filter, target, preparation
    health,     \* component -> TelemetryHealthRecord
    sink,       \* what was written: items in order, the last metric snapshot
    used,       \* events, faults and publishes so far, items given up
    phase       \* the flush task, the end of the service, their samples

telemetryVars == <<writer, flush, registry, sampler, logging, health, sink, used, phase>>

Components == {"Telemetry", "Storage"}

(* Levels as numbers: OFF 0, WARN 1, INFO 2 *)
LevelOf(kind) == IF kind = "warn" THEN 1 ELSE 2

IsLog(item) == item.kind \in {"warn", "info"}

IsLowPriority(item) == item.kind = "info"

MatchesLogFilter(item, filter) == IsLog(item) => filter >= LevelOf(item.kind)

LogFilter(config) == IF config.enable THEN config.level ELSE 0

TargetOf(config) == IF config.enable THEN config.path ELSE "sink"

NoRequests == [latency |-> [count |-> 0, sum |-> 0], core |-> [count |-> 0, sum |-> 0],
               outcomes |-> [o \in Outcomes |-> 0], cache |-> [c \in CacheStatuses |-> 0]]

Unlocked == [by |-> "nobody", left |-> 0, item |-> None]

TelemetryInit ==
    /\ flush = Unlocked
    /\ registry = [events |-> None, requests |-> None]
    /\ sampler = [accepted |-> 0, cursor |-> None]
    /\ \E c \in LogConfigs :
        /\ logging = [current |-> c, trace |-> LogFilter(c), target |-> TargetOf(c), prepared |-> None]
        /\ writer = [queue |-> <<>>, filter |-> LogFilter(c), closed |-> FALSE]
    /\ health = [c \in Components |-> None]
    /\ sink = [items |-> <<>>, metrics |-> None]
    /\ used = [items |-> 0, faults |-> 0, publishes |-> 0, dropped |-> {}]
    /\ phase = [task |-> "idle", stop |-> "running", sampled |-> [task |-> TRUE, stop |-> TRUE]]

-----------------------------------------------------------------------------
(* Producers *)

InFlight == IF flush.item = None THEN 0 ELSE 1

HasRoom == Len(writer.queue) + InFlight < Capacity

(* The first queued low-priority item, 0 for none *)
Evictable == SelectInSeq(writer.queue, IsLowPriority)

(* The result of enqueue: the queue, the item given up, and whether it is accepted *)
Enqueue(item) ==
    IF writer.closed THEN [queue |-> writer.queue, drop |-> {}, ok |-> FALSE]
    ELSE IF ~MatchesLogFilter(item, writer.filter)
        THEN [queue |-> writer.queue, drop |-> {item.id}, ok |-> TRUE]
    ELSE IF HasRoom THEN [queue |-> Append(writer.queue, item), drop |-> {}, ok |-> TRUE]
    ELSE IF IsLowPriority(item) THEN [queue |-> writer.queue, drop |-> {item.id}, ok |-> TRUE]
    ELSE IF Evictable # 0
        THEN [queue |-> Append(RemoveAt(writer.queue, Evictable), item),
              drop |-> {writer.queue[Evictable].id}, ok |-> TRUE]
    ELSE [queue |-> writer.queue, drop |-> {}, ok |-> FALSE]

Changes == sampler.accepted + used.publishes

NextItem(kind) == [id |-> used.items + 1, kind |-> kind]

(* An item was given to the writer; a refused one counts as given up *)
GivenUp(item, result) ==
    [used EXCEPT !.items = @ + 1,
                 !.dropped = @ \union result.drop \union (IF result.ok THEN {} ELSE {item.id})]

Offer(item) ==
    LET result == Enqueue(item)
    IN  /\ writer' = [writer EXCEPT !.queue = result.queue]
        /\ used' = GivenUp(item, result)

(* on_event and emit: the subscriber's filter, then the writer's *)
EmitLog(kind) ==
    /\ used.items < MaxItems /\ logging.trace >= LevelOf(kind)
    /\ Offer(NextItem(kind))
    /\ UNCHANGED <<flush, registry, sampler, logging, health, sink, phase>>

(* TelemetryHealthRecord::normalize *)
Normalize(previous, event) ==
    IF previous = None THEN event
    ELSE [event EXCEPT !.success = @ \/ previous.success,
                       !.retry = Max({@, previous.retry}),
                       !.gap = @ \/ (previous.gap /\ event.state # "Healthy")]

Event(state, gap) == [state |-> state, success |-> state = "Healthy", retry |-> 0, gap |-> gap]

(* HealthSink::update: the record changes only with an accepted item *)
UpdateHealth(component, event) ==
    LET item == NextItem("health")
    IN  /\ Offer(item)
        /\ health' = IF Enqueue(item).ok
                     THEN [health EXCEPT ![component] = Normalize(@, event)] ELSE health

(* publish_component_health and publish_cache_shutdown_health of the service *)
ReportHealth ==
    /\ used.items < MaxItems
    /\ \E r \in Reports : UpdateHealth("Storage", Event(r.state, r.gap))
    /\ UNCHANGED <<flush, registry, sampler, logging, sink, phase>>

-----------------------------------------------------------------------------
(* Metrics *)

Observe(histogram, micros) == [count |-> histogram.count + 1, sum |-> histogram.sum + micros]

Fits(requests) ==
    /\ \A h \in {requests.latency, requests.core} : h.count <= CounterLimit /\ h.sum <= CounterLimit
    /\ \A o \in Outcomes : requests.outcomes[o] <= CounterLimit
    /\ \A c \in CacheStatuses : requests.cache[c] <= CounterLimit

Added(requests, duration, core, outcome, status) ==
    [latency |-> Observe(requests.latency, duration), core |-> Observe(requests.core, core),
     outcomes |-> [requests.outcomes EXCEPT ![outcome] = @ + 1],
     cache |-> [requests.cache EXCEPT ![status] = @ + 1]]

(* record_resolution of the registry: all dimensions or none *)
RecordResolution(requests, duration, core, outcome, status) ==
    LET next == Added(requests, duration, core, outcome, status)
    IN  IF Fits(next) THEN next ELSE requests

(* The ingress accepts a resolution and the dispatcher records it *)
Resolve ==
    /\ phase.stop = "running" /\ Changes < MaxChanges
    /\ sampler' = [sampler EXCEPT !.accepted = @ + 1]
    /\ \E duration, core \in Durations, outcome \in Outcomes, status \in CacheStatuses :
        registry' = IF writer.closed THEN registry
                    ELSE [registry EXCEPT !.requests =
                            RecordResolution(IF @ = None THEN NoRequests ELSE @,
                                             duration, core, outcome, status)]
    /\ UNCHANGED <<writer, flush, logging, health, sink, used, phase>>

CursorValue == IF sampler.cursor = None THEN 0 ELSE sampler.cursor

EventsValue == IF registry.events = None THEN 0 ELSE registry.events

(* sample: what is new in the counter; the cursor moves only when it was recorded *)
SampleDue == sampler.cursor = None \/ sampler.accepted # CursorValue

SampleRecorded == ~writer.closed /\ EventsValue + (sampler.accepted - CursorValue) <= CounterLimit

Sample ==
    /\ registry' = [registry EXCEPT !.events =
                      IF SampleDue /\ SampleRecorded THEN EventsValue + (sampler.accepted - CursorValue) ELSE @]
    /\ sampler' = [sampler EXCEPT !.cursor = IF SampleDue /\ SampleRecorded THEN sampler.accepted ELSE @]

-----------------------------------------------------------------------------
(* flush_now *)

(* telemetry_flush_task samples, then waits for the lock *)
TaskTick ==
    /\ phase.task = "idle" /\ phase.stop = "running" /\ used.items < MaxItems
    /\ Sample
    /\ phase' = [phase EXCEPT !.task = "waiting", !.sampled.task = SampleDue => SampleRecorded]
    /\ UNCHANGED <<writer, flush, logging, health, sink, used>>

(* shutdown closes the writer before it flushes *)
CloseWriter(queue) == [writer EXCEPT !.queue = queue, !.closed = TRUE]

(* The end of the service: health, sample, close, then wait for the lock *)
Stop ==
    LET item == NextItem("health")
        result == Enqueue(item)
    IN
    /\ phase.stop = "running"
    /\ Sample
    /\ writer' = CloseWriter(result.queue)
    /\ used' = GivenUp(item, result)
    /\ health' = IF result.ok THEN [health EXCEPT !.Telemetry = Normalize(@, Event("Stopping", FALSE))] ELSE health
    /\ phase' = [phase EXCEPT !.stop = "waiting", !.sampled.stop = SampleDue => SampleRecorded]
    /\ UNCHANGED <<flush, logging, sink>>

LockFlush(who) ==
    /\ phase[who] = "waiting" /\ flush.by = "nobody"
    /\ phase' = [phase EXCEPT ![who] = "flushing"]
    /\ flush' = [Unlocked EXCEPT !.by = who, !.left = Len(writer.queue)]
    /\ UNCHANGED <<writer, registry, sampler, logging, health, sink, used>>

Flushing == flush.by \in {"task", "stop"}

Pop ==
    /\ Flushing /\ flush.item = None /\ flush.left > 0 /\ writer.queue # <<>>
    /\ flush' = [flush EXCEPT !.item = Head(writer.queue), !.left = @ - 1]
    /\ writer' = [writer EXCEPT !.queue = Tail(@)]
    /\ UNCHANGED <<registry, sampler, logging, health, sink, used, phase>>

(* write_line reached the target or the fallback *)
WriteItem ==
    /\ flush.item # None
    /\ flush' = [flush EXCEPT !.item = None]
    /\ sink' = [sink EXCEPT !.items = Append(@, flush.item)]
    /\ UNCHANGED <<writer, registry, sampler, logging, health, used, phase>>

(* record_output_failure *)
OutputFailure(previous) ==
    Normalize(previous, [state |-> "Failed", success |-> FALSE, gap |-> FALSE,
                         retry |-> IF previous = None THEN 1 ELSE previous.retry + 1])

(* record_output_recovery *)
OutputRecovery(previous) ==
    IF previous = None \/ previous.state # "Failed" THEN previous
    ELSE Normalize(previous, [state |-> "Healthy", success |-> TRUE, gap |-> FALSE, retry |-> previous.retry])

(* The flush gives the lock back; its result is joined with that of the sample *)
EndFlush(ok) ==
    /\ flush' = Unlocked
    /\ phase' = [phase EXCEPT ![flush.by] =
                   IF ok /\ phase.sampled[flush.by] THEN "completed" ELSE "failed"]

(* A failed write puts the item back in front *)
Requeued(item) == <<item>> \o writer.queue

FailItem ==
    /\ flush.item # None /\ used.faults < MaxOutputFaults
    /\ used' = [used EXCEPT !.faults = @ + 1]
    /\ health' = [health EXCEPT !.Telemetry = OutputFailure(@)]
    /\ writer' = [writer EXCEPT !.queue = Requeued(flush.item)]
    /\ EndFlush(FALSE)
    /\ UNCHANGED <<registry, sampler, logging, sink>>

BatchIsOver == Flushing /\ flush.item = None /\ (flush.left = 0 \/ writer.queue = <<>>)

(* After the batch the registry is written out *)
WriteSnapshot ==
    /\ BatchIsOver
    /\ sink' = [sink EXCEPT !.metrics = registry]
    /\ health' = [health EXCEPT !.Telemetry = OutputRecovery(@)]
    /\ EndFlush(TRUE)
    /\ UNCHANGED <<writer, registry, sampler, logging, used>>

FailSnapshot ==
    /\ BatchIsOver /\ registry.events # None /\ used.faults < MaxOutputFaults
    /\ used' = [used EXCEPT !.faults = @ + 1]
    /\ health' = [health EXCEPT !.Telemetry = OutputFailure(@)]
    /\ EndFlush(FALSE)
    /\ UNCHANGED <<writer, registry, sampler, logging, sink>>

(* The deadline is looked at between two writes *)
FlushExpires ==
    /\ Flushing /\ flush.item = None /\ used.faults < MaxOutputFaults
    /\ used' = [used EXCEPT !.faults = @ + 1]
    /\ EndFlush(FALSE)
    /\ UNCHANGED <<writer, registry, sampler, logging, health, sink>>

(* flush_telemetry_once reports the result as health *)
ReportFlush ==
    /\ phase.task \in {"completed", "failed"}
    /\ phase' = [phase EXCEPT !.task = "idle"]
    /\ UpdateHealth("Telemetry", Event(IF phase.task = "completed" THEN "Healthy" ELSE "Failed", FALSE))
    /\ UNCHANGED <<flush, registry, sampler, logging, sink>>

-----------------------------------------------------------------------------
(* LoggingOwner *)

(* prepare: one at a time, from the configuration that is current *)
PrepareLogging ==
    /\ phase.stop = "running" /\ Changes < MaxChanges /\ logging.prepared = None
    /\ used' = [used EXCEPT !.publishes = @ + 1]
    /\ \E next \in LogConfigs \ {logging.current}, result \in {"ready", "abandoned"} :
        logging' = [logging EXCEPT !.prepared =
                      [expected |-> logging.current, next |-> next, state |-> result,
                       target |-> IF next.enable /\ logging.current.enable /\ next.path = logging.current.path
                                  THEN None ELSE TargetOf(next)]]
    /\ UNCHANGED <<writer, flush, registry, sampler, health, sink, phase>>

(* The open failed, the reload was given up, or the worker nobody waits for ends *)
DropPrepared ==
    /\ logging.prepared # None /\ logging.prepared.state # "publishing"
    /\ logging' = [logging EXCEPT !.prepared = None]
    /\ UNCHANGED <<writer, flush, registry, sampler, health, sink, used, phase>>

(* publish_with only tries flush_lock *)
Lockable == flush.by = "nobody"

(* The subscriber's filter changes first *)
BeginPublish ==
    /\ logging.prepared # None /\ logging.prepared.state = "ready"
    /\ logging.current = logging.prepared.expected
    /\ Lockable
    /\ flush' = [flush EXCEPT !.by = "publish"]
    /\ logging' = [logging EXCEPT !.prepared.state = "publishing",
                                  !.trace = LogFilter(logging.prepared.next)]
    /\ UNCHANGED <<writer, registry, sampler, health, sink, used, phase>>

(* set_writer_filter keeps what the new filter admits *)
Retained(queue, filter) == SelectSeq(queue, LAMBDA item : MatchesLogFilter(item, filter))

(* The activation was committed *)
FinishPublish ==
    LET p == logging.prepared
        filter == LogFilter(p.next)
        kept == Retained(writer.queue, filter)
    IN  /\ p # None /\ p.state = "publishing"
        /\ writer' = [writer EXCEPT !.filter = filter, !.queue = kept]
        /\ used' = [used EXCEPT !.dropped =
                      @ \union ({writer.queue[i].id : i \in DOMAIN writer.queue} \ {kept[i].id : i \in DOMAIN kept})]
        /\ logging' = [logging EXCEPT !.current = p.next, !.prepared = None,
                                      !.target = IF p.target = None THEN @ ELSE p.target]
        /\ flush' = Unlocked
        /\ UNCHANGED <<registry, sampler, health, sink, phase>>

(* The activation failed: the old filter is put back, or that fails as well *)
FailPublish ==
    /\ logging.prepared # None /\ logging.prepared.state = "publishing"
    /\ \E compensated \in BOOLEAN :
        /\ ~compensated => used.faults < MaxOutputFaults
        /\ used' = [used EXCEPT !.faults = IF compensated THEN @ ELSE @ + 1]
        /\ logging' = [logging EXCEPT !.prepared = None,
                         !.trace = IF compensated THEN LogFilter(logging.prepared.expected) ELSE @]
    /\ flush' = Unlocked
    /\ UNCHANGED <<writer, registry, sampler, health, sink, phase>>
-----------------------------------------------------------------------------
TelemetryNext ==
    \/ \E kind \in {"warn", "info"} : EmitLog(kind)
    \/ ReportHealth
    \/ Resolve
    \/ TaskTick \/ Stop
    \/ \E who \in {"task", "stop"} : LockFlush(who)
    \/ Pop \/ WriteItem \/ FailItem
    \/ WriteSnapshot \/ FailSnapshot \/ FlushExpires
    \/ ReportFlush
    \/ PrepareLogging \/ DropPrepared
    \/ BeginPublish \/ FinishPublish \/ FailPublish

TelemetrySpec == TelemetryInit /\ [][TelemetryNext]_telemetryVars

-----------------------------------------------------------------------------
(* Properties *)

Ids(seq) == {seq[i].id : i \in DOMAIN seq}

(* Types of the writer, the flush and the phases. *)
TelemetryTypeOK ==
    /\ writer.queue \in Seq([id : Nat, kind : {"warn", "info", "health"}])
    /\ writer.filter \in 0..2 /\ logging.trace \in 0..2 /\ writer.closed \in BOOLEAN
    /\ flush.by \in {"nobody", "task", "stop", "publish"}
    /\ phase.task \in {"idle", "waiting", "flushing", "completed", "failed"}
    /\ phase.stop \in {"running", "waiting", "flushing", "completed", "failed"}

(* An event the writer accepted (enqueue, flush_now) is in exactly one     *)
(* place: queued, in flight, written, or counted as given up by eviction   *)
(* or by a new log filter.  Failed writes and evictions in between keep    *)
(* the order: what is written, in flight and queued is in the order of     *)
(* acceptance, and never more than the capacity is waiting.                *)
AcceptedIsKept ==
    LET flying == IF flush.item = None THEN <<>> ELSE <<flush.item>>
        all == sink.items \o flying \o writer.queue
    IN  /\ Len(flying \o writer.queue) <= Capacity
        /\ Ids(all) \union used.dropped = 1..used.items
        /\ Ids(all) \intersect used.dropped = {}
        /\ \A i, j \in DOMAIN all : i < j => all[i].id < all[j].id

(* Every line is admitted by the log configuration that is current when it *)
(* is written: publish_with takes flush_lock and set_writer_filter removes *)
(* queued lines that the new configuration excludes.                       *)
WritesAdmitted ==
    sink'.items # sink.items => MatchesLogFilter(Last(sink'.items), LogFilter(logging.current))
LinesFollowConfig == [][WritesAdmitted]_telemetryVars

(* A final flush that reports success has written every event that was    *)
(* still queued and a snapshot with every metric update that was accepted  *)
(* (shutdown closes the writer under the lock that record takes), and the  *)
(* counter of accepted resolutions in it is the one of the ingress.        *)
FinalFlushIsWhole ==
    phase.stop = "completed" =>
        /\ writer.queue = <<>> /\ flush.item = None
        /\ sink.metrics = registry
        /\ registry.events = sampler.accepted

(* A resolution is counted in all dimensions of the registry or in none    *)
(* (record_resolution works on a copy that is published at the end), also  *)
(* when one of the counters is at its limit.                               *)
DimensionsAgree ==
    registry.requests # None =>
        LET r == registry.requests
        IN  /\ r.latency.count = r.core.count
            /\ r.latency.count = MapThenSumSet(LAMBDA o : r.outcomes[o], Outcomes)
            /\ r.latency.count = MapThenSumSet(LAMBDA c : r.cache[c], CacheStatuses)
====
