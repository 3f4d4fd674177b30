------------------------------ MODULE MCServices ------------------------------
(* The modules with liveness for model checking: the resolution pipeline, the cache *)
(* loads, the cache snapshot, the file watcher, the detail shards, the listeners'   *)
(* sessions, the event stream and the WebUI's connections.  They share no state: a behaviour is   *)
(* about one part, which uses as many of the variables v1 .. v11 as its module has  *)
(* and leaves the others alone.  The pipeline has variables of its own, because a   *)
(* refinement is stated about it.                                                   *)
EXTENDS ResolutionPipeline

CONSTANT Parts    \* the parts of this run

VARIABLES part, v1, v2, v3, v4, v5, v6, v7, v8, v9, v10, v11

slots == <<v1, v2, v3, v4, v5, v6, v7, v8, v9, v10, v11>>
all == <<part, pipe, slots>>

(***************************************************************************)
(* The parts, on their small instances                                     *)
(***************************************************************************)
FlightCallers == {1, 2, 3}
Flight == INSTANCE SingleFlight
  WITH Keys <- {"k"}, Callers <- FlightCallers, MaxGen <- 1,
       loads <- v1, nextGeneration <- v2, shuttingDown <- v3, calls <- v4, taken <- v5,
       woken <- v6, outcome <- v7, origin <- v8

Snapshot == INSTANCE CacheSnapshot
  WITH Sources <- {1, 2}, MaxContent <- 2, MaxFaults <- 1,
       store <- v1, fresh <- v2, owner <- v3, lock <- v4, worker <- v5, capture <- v6,
       writer <- v7, file <- v8, down <- v9, faults <- v10

Watcher == INSTANCE ConfigWatcher
  WITH MaxEdits <- 3, MaxBusy <- 1, MaxPanics <- 1,
       disk <- v1, reading <- v2, observed <- v3, candidate <- v4, report <- v5,
       stored <- v6, busy <- v7, edits <- v8, locks <- v9, panics <- v10, past <- v11

Shards == INSTANCE DetailShards
  WITH Records <- {"r1"}, RecordDay <- [r \in {"r1"} |-> 1], MaxDay <- 2, KeepDays <- 1,
       GraceDays <- 0, QueueCapacity <- 1, BatchSize <- 1, MaxLeases <- 1,
       MaxShardFaults <- 1, MaxShardKills <- 1,
       disk <- v1, proc <- v2, sent <- v3, queue <- v4, work <- v5, lease <- v6,
       reader <- v7, keeper <- v8, mishap <- v9

Inbound == INSTANCE InboundSessions
  WITH SessionSlots <- {1, 2}, SessionLimit <- 2, Capacity <- 1, MaxReads <- 1,
       MaxAccepts <- 2,
       listener <- v1, runtime <- v2, session <- v3, written <- v4,
       trace <- v5, owners <- v6, report <- v7

Stream == INSTANCE EventStream
  WITH ChunksOf <- [t \in 1 .. 2 |-> t], MaxTx <- 2,
       ChannelCapacity <- 1, ReplayLimit <- 2, QueueLimit <- 3, MaxStreamFaults <- 1,
       MaxRestarts <- 1, MaxRetention <- 0,
       store <- v1, read <- v2, replay <- v3, conn <- v4, browser <- v5, mishaps <- v6

Web == INSTANCE WebSessions
  WITH Users <- {"u1"}, Peers <- {"p1", "p2"}, MaxToken <- 2, AbsoluteTtl <- 5, IdleTtl <- 2,
       AccessTtl <- 3, RenewWindow <- 1, TicketTtl <- 1, GlobalCapacity <- 2,
       UserCapacity <- 1, TicketCapacity <- 1, SessionTickets <- 1,
       ConnectionCapacity <- 1, SessionConnections <- 1, IdleBeats <- 1,
       AttemptLimit <- 1, AttemptWindow <- 1, MaxNow <- 2, MaxReconciles <- 1,
       now <- v1, data <- v2, issued <- v3, users <- v4, stored <- v5, handler <- v6,
       attempts <- v7, peer <- v8, permits <- v9, reconciles <- v10

(***************************************************************************)
(* The sum of the parts                                                    *)
(***************************************************************************)
Idle11 == v11 = 0
Idle10 == v10 = 0 /\ Idle11
Idle9 == v9 = 0 /\ Idle10
Idle8 == v8 = 0 /\ Idle9
Idle7 == v7 = 0 /\ Idle8
Idle6 == v6 = 0 /\ Idle7
Idle5 == v5 = 0 /\ Idle6

ServicesInit ==
  /\ part \in Parts
  /\ Init
  /\ \/ part = "pipeline" /\ v1 = 0 /\ v2 = 0 /\ v3 = 0 /\ v4 = 0 /\ Idle5
     \/ part = "flight" /\ Flight!Init /\ Idle9
     \/ part = "snapshot" /\ Snapshot!Init /\ Idle11
     \/ part = "watch" /\ Watcher!Init
     \/ part = "shards" /\ Shards!ShardInit /\ v1.files = {} /\ Idle10
     \/ part = "inbound" /\ Inbound!InboundInit /\ Idle5
     \/ part = "stream" /\ Stream!StreamInit /\ Idle7
     \/ part = "web" /\ Web!WebInit /\ Idle11

MaxMishaps == 1   \* bound: faults and kills of the shards together

\* A step of a part.
Piped(A) == part = "pipeline" /\ A /\ UNCHANGED <<part, slots>>
Flown(A) == part = "flight" /\ A /\ UNCHANGED <<part, pipe, v9, v10, v11>>
Snap(A) == part = "snapshot" /\ A /\ UNCHANGED <<part, pipe, v11>>
Watching(A) == part = "watch" /\ A /\ UNCHANGED <<part, pipe>>
Sharded(A) ==
  /\ part = "shards" /\ A /\ UNCHANGED <<part, pipe, v10, v11>>
  /\ v9'.faults + v9'.kills <= MaxMishaps
Received(A) == part = "inbound" /\ A /\ UNCHANGED <<part, pipe, v5, v6, v7, v8, v9, v10, v11>>
Streamed(A) == part = "stream" /\ A /\ UNCHANGED <<part, pipe, v7, v8, v9, v10, v11>>
Browsed(A) == part = "web" /\ A /\ UNCHANGED <<part, pipe, v11>>

ServicesNext ==
  \/ Piped(Next) \/ Flown(Flight!Next) \/ Snap(Snapshot!Next) \/ Watching(Watcher!Next)
  \/ Sharded(Shards!ShardNext) \/ Received(Inbound!InboundNext)
  \/ Streamed(Stream!StreamNext) \/ Browsed(Web!WebNext)

\* The fairness of the modules, one action of every part at a time: a behaviour is about
\* one part, in which the others' actions are never enabled.
Fairness1 ==
  /\ WF_all(\/ Piped(Dispatch) \/ Snap(Snapshot!Periodic) \/ Watching(Watcher!ReadSource)
            \/ Sharded(Shards!WriteRefused \/ Shards!WriteRecords)
            \/ Received(Inbound!StopAccepting) \/ Streamed(Stream!AdvanceClock)
            \/ Browsed(Web!Serve("p1")) \/ Flown(Flight!FinishLease(1)))
  /\ WF_all(\/ Piped(CloseIngress) \/ Snap(Snapshot!ShuttingDown)
            \/ Watching(Watcher!ReadDerived) \/ Sharded(Shards!LockDay("worker"))
            \/ Received(Inbound!ListenerEnds) \/ Streamed(Stream!SendCommit)
            \/ Browsed(Web!Heartbeat("p1")) \/ Flown(Flight!FinishLease(2)))
  /\ WF_all(\/ Piped(DispatcherEnds) \/ Snap(Snapshot!Writing("periodic"))
            \/ Watching(Watcher!PollChange) \/ Sharded(Shards!LockDay("query"))
            \/ Received(Inbound!JoinSession(1)) \/ Streamed(Stream!Collect)
            \/ Browsed(Web!EndConnection("p1")) \/ Flown(Flight!FinishLease(3)))
  /\ WF_all(\/ Piped(TakeCommit) \/ Snap(Snapshot!Writing("final"))
            \/ Watching(Watcher!ReportFiles) \/ Sharded(Shards!Open("worker"))
            \/ Received(Inbound!JoinSession(2)) \/ Streamed(Stream!QueryTick) \/ Flown(Flight!WakeOne(1)))
  /\ WF_all(\/ Piped(CacheWorkerEnds) \/ Watching(Watcher!UnlockStore)
            \/ Sharded(Shards!Open("query")) \/ Received(Inbound!SessionStep(1))
            \/ Streamed(Stream!Deliver) \/ Flown(Flight!WakeOne(2)))
  /\ WF_all(\/ Piped(TakeDetail) \/ Sharded(Shards!DayScanned)
            \/ Received(Inbound!SessionStep(2)) \/ Flown(Flight!WakeOne(3)))
Fairness2 ==
  /\ WF_all(Piped(ProjectorEnds) \/ Sharded(Shards!NewDay) \/ Flown(Flight!Poll(1)))
  /\ WF_all(Piped(FinishCommit) \/ Sharded(Shards!TickReclaim) \/ Flown(Flight!Poll(2)))
  /\ WF_all(\/ Piped(\E r \in Requests : ProjectDetail(r))
            \/ Sharded(Shards!CloseGate \/ Shards!PublishWatermark
                       \/ Shards!FollowWatermark \/ Shards!FinishRun)
            \/ Flown(Flight!Poll(3)))
  /\ WF_all(\/ Piped(AbortTakesEffect("dispatcher"))
            \/ Sharded(\E d \in Shards!Days : Shards!BeginRetirement(d)) \/ Flown(Flight!ReleaseWaiter(1)))
  /\ WF_all(\/ Piped(AbortTakesEffect("cache"))
            \/ Sharded(\/ Shards!RetirementLocked \/ Shards!DeleteFile
                       \/ Shards!FinishReclaim \/ Shards!EndReclaim)
            \/ Flown(Flight!ReleaseWaiter(2)))
  /\ WF_all(Piped(AbortTakesEffect("detail")) \/ Sharded(Shards!Rise)
            \/ Flown(Flight!ReleaseWaiter(3)))
  /\ WF_all(Piped(Cancel)) /\ WF_all(Piped(DeadlineExpires)) /\ WF_all(Piped(Await))
  /\ SF_all(Sharded(Shards!TickDaily))

ServicesSpec == ServicesInit /\ [][ServicesNext]_all /\ Fairness1 /\ Fairness2

(***************************************************************************)
(* Properties                                                              *)
(***************************************************************************)
\* Type correctness of every part.
ServicesTypeOK ==
  CASE part = "pipeline" -> PipelineTypeOK
    [] part = "flight" -> Flight!TypeOK
    [] part = "snapshot" -> Snapshot!SnapshotTypeOK
    [] part = "watch" -> Watcher!TypeOK
    [] part = "shards" -> Shards!ShardsTypeOK
    [] part = "inbound" -> Inbound!InboundTypeOK
    [] part = "stream" -> Stream!StreamTypeOK
    [] part = "web" -> Web!WebTypeOK

\* What the service says of its files is true: a skipped snapshot is on disk and only the
\* current owner replaces the snapshot file (CacheSnapshot), and a reported change of the
\* configuration was the state of both files at one moment (ConfigWatcher).
FilesAreTrue ==
  /\ [](CASE part = "snapshot" -> Snapshot!SkippedIsOnDisk
          [] part = "watch" -> Watcher!ReportsAreReal
          [] OTHER -> TRUE)
  /\ [][part = "snapshot" => Snapshot!PublishesForOwner]_all

\* Once the editor stops, the store's observation becomes and stays what is on disk
\* (ConfigWatcher: ObservationConverges); while persistence stays on, the snapshot file
\* follows the store (CacheSnapshot: QuietIsPersisted).
FilesAreFollowed ==
  [](part = "snapshot" => v3.enabled) =>
    <>[](CASE part = "watch" -> v6 = v1
           [] part = "snapshot" -> Snapshot!FileFollows
           [] OTHER -> TRUE)

\* cache/snapshot_owner.rs: a persistence that a reload has turned on covers what the
\* store shows, as one that was on from the start does (CacheSnapshot).
SwitchedOnIsPersisted == part = "snapshot" => Snapshot!SwitchedOnIsPersisted

\* The work that must end, numbered in each part: cache commits handed over and the
\* shutdown of the pipeline, the waits for a load, the files below the watermark, the listener that is told to
\* stop, the commits published to a subscribed browser, the connection whose session is
\* gone.
Order == CHOOSE s \in [1 .. Cardinality(Commits) -> Commits] : Range(s) = Commits

Begun(n) ==
  CASE part = "pipeline" ->
         IF n \in DOMAIN Order THEN PlaceOf(Order[n]) \in {"queued", "working"}
                               ELSE down.step # "up"
    [] part = "flight" -> Flight!Waits(n)
    [] part = "shards" -> n \in Shards!Days /\ Shards!Overdue(n)
    [] part = "inbound" -> Inbound!ToldToStop
    [] part = "stream" -> Stream!Published(n)
    [] part = "web" -> n \in Web!Tokens /\ Web!Connected("p1", n) /\ ~Web!Valid(n)
    [] OTHER -> FALSE

Ended(n) ==
  CASE part = "pipeline" ->
         IF n \in DOMAIN Order THEN PlaceOf(Order[n]) \in {"settled", "dropped"}
                               ELSE down.step = "down"
    [] part = "flight" -> Flight!Stopped(n)
    [] part = "shards" -> Shards!Reclaimed(n)
    [] part = "inbound" -> v1.st = "ended"
    [] part = "stream" -> Stream!CaughtUp(n)
    [] part = "web" -> ~Web!Connected("p1", n)
    [] OTHER -> TRUE

\* Every such piece of work ends, whatever fails, panics, restarts or lags on the way
\* (ResolutionPipeline: ShutdownEnds, HandoffEnds; SingleFlight: WaitEnds; DetailShards: RetiredIsReclaimed;
\* InboundSessions: ListenerStops; EventStream: StreamCatchesUp; WebSessions:
\* ConnectionEndsWithSession).
WorkEnds == \A n \in 1 .. 3 : Begun(n) ~> Ended(n)

===============================================================================
