---------------------------- MODULE SingleFlight ----------------------------
(***************************************************************************)
(* Per-key single flight of the response cache: reserve_load, publish_load,*)
(* abandon_load, wait_load and shutdown of backend/src/cache/memory.rs     *)
(* (MokaCacheStore delegates its loads to it), with the RAII lease and     *)
(* waiter tokens of backend/src/ports/cache.rs.                            *)
(*                                                                         *)
(* Every action that reads or writes "loads" is one critical section of    *)
(* the MemoryState mutex.  Callers are request tasks.  Time is abstract: a *)
(* deadline or a cancellation may end a wait at any moment.                *)
(***************************************************************************)
EXTENDS Naturals, FiniteSets

CONSTANTS Keys,      \* cache keys
          Callers,   \* request tasks
          MaxGen     \* bound on next_generation

ASSUME SingleFlightAssumption == IsFiniteSet(Callers) /\ Keys # {} /\ MaxGen \in Nat

VARIABLES
    loads,           \* MemoryState.loads; generation 0 stands for "no entry"
    nextGeneration,  \* MemoryCacheStore.next_generation
    shuttingDown,    \* MemoryState.shutting_down
    calls,           \* what each request task is doing
    taken,           \* wakers removed from a load and not yet called
    woken,           \* tasks whose waker ran since their last poll
    outcome,         \* history: the completion of each generation
    origin           \* history: the key each generation was reserved for

vars == <<loads, nextGeneration, shuttingDown, calls, taken, woken, outcome, origin>>

-----------------------------------------------------------------------------
Generations == 1..MaxGen
Unset == "none"
\* What a leader publishes: Ready(record), or Miss / Failed(_), on which every
\* follower loads for itself.
Published == {"ready", "failed"}
Completions == Published \cup {"abandoned", "shutdown"}
\* "ended" is a wait cut short: deadline, cancellation or a dropped future.
Results == {Unset, "protocol", "ended"} \cup Completions

Load == [generation : 0..MaxGen, completion : Completions \cup {Unset},
         followers : Nat, waiters : SUBSET Callers]
NoLoad == [generation |-> 0, completion |-> Unset, followers |-> 0, waiters |-> {}]

Steps == {"idle", "leading", "unpublished", "waiting", "parked", "releasing"}
Call == [pc : Steps, key : Keys, generation : 0..MaxGen, result : Results]
AnyKey == CHOOSE k \in Keys : TRUE
Idle == [pc |-> "idle", key |-> AnyKey, generation |-> 0, result |-> Unset]

\* The RAII tokens: an armed CacheLoadLease, an armed CacheLoadWaiter.
HoldsLease(c) == calls[c].pc \in {"leading", "unpublished"}
HoldsWaiter(c) == calls[c].pc \in {"waiting", "parked", "releasing"}
Followers(k, g) == {c \in Callers : HoldsWaiter(c) /\ calls[c].key = k
                                                   /\ calls[c].generation = g}

MoveTo(c, pc, result) ==
    calls' = [calls EXCEPT ![c].pc = pc, ![c].result = result]
Return(c) == calls' = [calls EXCEPT ![c] = Idle]

Init ==
    /\ loads = [k \in Keys |-> NoLoad]
    /\ nextGeneration = 0
    /\ shuttingDown = FALSE
    /\ calls = [c \in Callers |-> Idle]
    /\ taken = {}
    /\ woken = {}
    /\ outcome = [g \in Generations |-> Unset]
    /\ origin = [g \in Generations |-> {}]

-----------------------------------------------------------------------------
(* reserve_load.  Past its deadline, or once the store is shutting down, it     *)
(* returns an error, changes nothing, and the caller goes on without the cache. *)

\* An entry exists, completed or not: its follower count goes up.
ReserveFollower(c, k) ==
    /\ calls[c].pc = "idle"
    /\ ~shuttingDown
    /\ loads[k] # NoLoad
    /\ loads' = [loads EXCEPT ![k].followers = @ + 1]
    /\ calls' = [calls EXCEPT ![c] = [pc |-> "waiting", key |-> k,
                                      generation |-> loads[k].generation, result |-> Unset]]
    /\ UNCHANGED <<nextGeneration, shuttingDown, taken, woken, outcome, origin>>

ReserveLeader(c, k) ==
    /\ calls[c].pc = "idle"
    /\ ~shuttingDown
    /\ loads[k] = NoLoad
    /\ nextGeneration < MaxGen
    /\ nextGeneration' = nextGeneration + 1
    /\ loads' = [loads EXCEPT ![k] = [NoLoad EXCEPT !.generation = nextGeneration + 1]]
    /\ calls' = [calls EXCEPT ![c] = [pc |-> "leading", key |-> k,
                                      generation |-> nextGeneration + 1, result |-> Unset]]
    /\ origin' = [origin EXCEPT ![nextGeneration + 1] = {k}]
    /\ UNCHANGED <<shuttingDown, taken, woken, outcome>>

-----------------------------------------------------------------------------
(* publish_load, abandon_load and the lease's Drop *)

\* complete_load's check: the entry is there, is this lease's, is open.
Completable_Overwrites(k, g) == loads[k].generation = g
Completable(k, g) == loads[k].generation = g /\ loads[k].completion = Unset

\* complete_load once its check has passed.  The wakers are called after the
\* mutex is released (WakeOne).
CompleteLoad_DropsWakers(k, g, v) ==
    /\ loads' = [loads EXCEPT ![k] = IF @.followers = 0 THEN NoLoad
                                     ELSE [@ EXCEPT !.completion = v, !.waiters = {}]]
    /\ taken' = taken
    /\ outcome' = [outcome EXCEPT ![g] = v]
CompleteLoad_AlwaysRemoves(k, g, v) ==
    /\ loads' = [loads EXCEPT ![k] = NoLoad]
    /\ taken' = taken \cup loads[k].waiters
    /\ outcome' = [outcome EXCEPT ![g] = v]
CompleteLoad(k, g, v) ==
    /\ loads' = [loads EXCEPT ![k] = IF @.followers = 0 THEN NoLoad
                                     ELSE [@ EXCEPT !.completion = v, !.waiters = {}]]
    /\ taken' = taken \cup loads[k].waiters
    /\ outcome' = [outcome EXCEPT ![g] = v]

\* publish_load and abandon_load with the result the caller chose: the lease is
\* disarmed once complete_load has succeeded.
PublishLoad(c, v) ==
    LET k == calls[c].key
        g == calls[c].generation
    IN  /\ calls[c].pc = "leading"
        /\ Completable(k, g)
        /\ CompleteLoad(k, g, v)
        /\ Return(c)
        /\ UNCHANGED <<nextGeneration, shuttingDown, woken, origin>>

\* complete_load refuses: the call returns with the lease still armed, and the
\* lease goes out of scope.
PublishRefused(c) ==
    /\ calls[c].pc = "leading"
    /\ ~Completable(calls[c].key, calls[c].generation)
    /\ MoveTo(c, "unpublished", Unset)
    /\ UNCHANGED <<loads, nextGeneration, shuttingDown, taken, woken, outcome, origin>>

\* An armed lease is dropped: an early return, a cancelled or panicking request
\* task, a commit candidate a full queue discards.
DropLease_Silent(c) ==
    /\ HoldsLease(c)
    /\ UNCHANGED <<loads, taken, outcome>>
    /\ Return(c)
    /\ UNCHANGED <<nextGeneration, shuttingDown, woken, origin>>
DropLease(c) ==
    LET k == calls[c].key
        g == calls[c].generation
    IN  /\ HoldsLease(c)
        /\ IF Completable(k, g) THEN CompleteLoad(k, g, "abandoned")
                                ELSE UNCHANGED <<loads, taken, outcome>>
        /\ Return(c)
        /\ UNCHANGED <<nextGeneration, shuttingDown, woken, origin>>

\* wake_all, one waker at a time, outside the mutex; it reschedules the task
\* if that is still parked.
WakeOne(c) ==
    /\ c \in taken
    /\ taken' = taken \ {c}
    /\ woken' = IF calls[c].pc = "parked" THEN woken \cup {c} ELSE woken
    /\ UNCHANGED <<loads, nextGeneration, shuttingDown, calls, outcome, origin>>

-----------------------------------------------------------------------------
(* wait_load *)

\* What poll_load answers: an error for a missing or foreign entry, the
\* completion, or Unset for Poll::Pending.
PollLoad(k, g) ==
    IF loads[k].generation # g THEN "protocol" ELSE loads[k].completion

\* A task is polled first when the future is created, then when it is woken.
Pollable(c) ==
    \/ calls[c].pc = "waiting"
    \/ calls[c].pc = "parked" /\ c \in woken

PollReady(c) ==
    LET r == PollLoad(calls[c].key, calls[c].generation)
    IN  /\ Pollable(c)
        /\ r # Unset
        /\ MoveTo(c, "releasing", r)
        /\ woken' = woken \ {c}
        /\ UNCHANGED <<loads, nextGeneration, shuttingDown, taken, outcome, origin>>

PollPending(c) ==
    LET k == calls[c].key
    IN  /\ Pollable(c)
        /\ PollLoad(k, calls[c].generation) = Unset
        /\ loads' = [loads EXCEPT ![k].waiters = @ \cup {c}]
        /\ MoveTo(c, "parked", Unset)
        /\ woken' = woken \ {c}
        /\ UNCHANGED <<nextGeneration, shuttingDown, taken, outcome, origin>>

\* The select! of wait_load takes its deadline or cancellation branch (it may,
\* even when the completion is ready), or the future is dropped.
EndWait(c) ==
    /\ calls[c].pc \in {"waiting", "parked"}
    /\ MoveTo(c, "releasing", "ended")
    /\ woken' = woken \ {c}
    /\ UNCHANGED <<loads, nextGeneration, shuttingDown, taken, outcome, origin>>

\* The entry without one of its followers; a completed entry goes with its last.
Released_Twice(l) ==
    IF l.completion # Unset /\ l.followers = 1
    THEN NoLoad ELSE [l EXCEPT !.followers = l.followers - 2]
Released(l) ==
    IF l.completion # Unset /\ l.followers = 1
    THEN NoLoad ELSE [l EXCEPT !.followers = l.followers - 1]

\* The waiter's Drop: release_waiter.
ReleaseWaiter_Settles(c) ==
    LET k == calls[c].key
    IN  /\ calls[c].pc = "releasing"
        /\ CompleteLoad(k, calls[c].generation, "abandoned")
        /\ Return(c)
        /\ UNCHANGED <<nextGeneration, shuttingDown, woken, origin>>
ReleaseWaiter(c) ==
    LET k == calls[c].key
        held == loads[k].generation = calls[c].generation /\ loads[k].followers > 0
    IN  /\ calls[c].pc = "releasing"
        /\ loads' = IF held THEN [loads EXCEPT ![k] = Released(loads[k])] ELSE loads
        /\ Return(c)
        /\ UNCHANGED <<nextGeneration, shuttingDown, taken, woken, outcome, origin>>

-----------------------------------------------------------------------------
(* shutdown *)

\* Open loads complete with Cancelled(Shutdown), their wakers are taken, and
\* only the loads somebody still waits for are kept.
AfterShutdown(l) ==
    IF l.followers = 0 THEN NoLoad
    ELSE [l EXCEPT !.completion = IF @ = Unset THEN "shutdown" ELSE @, !.waiters = {}]

Shutdown ==
    /\ ~shuttingDown
    /\ shuttingDown' = TRUE
    /\ loads' = [k \in Keys |-> AfterShutdown(loads[k])]
    /\ taken' = taken \cup UNION {loads[k].waiters : k \in Keys}
    /\ outcome' = [g \in Generations |->
                      IF \E k \in Keys : loads[k].generation = g /\ loads[k].completion = Unset
                      THEN "shutdown" ELSE outcome[g]]
    /\ UNCHANGED <<nextGeneration, calls, woken, origin>>

-----------------------------------------------------------------------------
FinishLease(c) ==
    \/ \E v \in Published : PublishLoad(c, v)
    \/ PublishRefused(c)
    \/ DropLease(c)

Poll(c) == PollReady(c) \/ PollPending(c)

Next ==
    \/ \E c \in Callers :
          \/ \E k \in Keys : ReserveFollower(c, k) \/ ReserveLeader(c, k)
          \/ FinishLease(c)
          \/ WakeOne(c)
          \/ Poll(c)
          \/ EndWait(c)
          \/ ReleaseWaiter(c)
    \/ Shutdown

Spec == Init /\ [][Next]_vars

\* A lease always ends: the upstream exchange is bounded by the request
\* deadline, the commit by its own, and the token is dropped on every path.
\* A woken task is polled and a dropped waiter is released by the runtime.
\* Deadlines and cancellations are NOT assumed to fire.
Fairness ==
    \A c \in Callers : /\ WF_vars(FinishLease(c))
                       /\ WF_vars(WakeOne(c))
                       /\ WF_vars(Poll(c))
                       /\ WF_vars(ReleaseWaiter(c))

FairSpec == Spec /\ Fairness

-----------------------------------------------------------------------------
(* Properties *)

TypeOK ==
    /\ loads \in [Keys -> Load]
    /\ nextGeneration \in 0..MaxGen
    /\ shuttingDown \in BOOLEAN
    /\ calls \in [Callers -> Call]
    /\ taken \subseteq Callers
    /\ woken \subseteq Callers
    /\ outcome \in [Generations -> Completions \cup {Unset}]
    /\ origin \in [Generations -> SUBSET Keys]

\* reserve_load hands out one Leader per key: two armed leases are never for
\* the same key, whatever publications, drops and reservations interleave.
OneLeader ==
    \A c, d \in Callers :
        HoldsLease(c) /\ HoldsLease(d) /\ calls[c].key = calls[d].key => c = d

\* The entry a waiter token names stays in the map, under its generation, until
\* the token is released: wait_load's ProtocolViolation branches are unreachable.
WaitersKeepTheirLoad ==
    \A c \in Callers : HoldsWaiter(c) =>
        /\ loads[calls[c].key].generation = calls[c].generation
        /\ calls[c].generation # 0

\* MemoryLoad.followers counts exactly the live waiter tokens of the entry, so
\* "followers == 0" in complete_load and release_waiter means what it says.
FollowersCounted ==
    \A k \in Keys : loads[k] # NoLoad =>
        loads[k].followers = Cardinality(Followers(k, loads[k].generation))

\* No entry is left behind: an open entry has the leader that will complete it,
\* a completed one has a follower whose release will remove it.
EveryLoadHasAnOwner ==
    \A k \in Keys : loads[k] # NoLoad =>
        IF loads[k].completion = Unset
        THEN \E c \in Callers : HoldsLease(c) /\ calls[c].key = k
                                /\ calls[c].generation = loads[k].generation
        ELSE loads[k].followers > 0

\* A follower is handed the completion of the generation it joined, never that
\* of an earlier or later load of the key, and never a ProtocolViolation.
DeliveredIsOwnOutcome ==
    \A c \in Callers :
        /\ calls[c].result # "protocol"
        /\ HoldsWaiter(c) /\ calls[c].result \in Completions =>
              outcome[calls[c].generation] = calls[c].result

\* "One lease publishes once": the completion of a load never changes, also
\* when a shutdown and the leader's own publication race.
OutcomeNeverChanges ==
    [][\A g \in Generations : outcome[g] # Unset => outcome'[g] = outcome[g]]_vars

\* No lost wakeup: a task that waits for a load stops waiting even if neither
\* its deadline nor its cancellation ever fires.
Waits(c) == calls[c].pc \in {"waiting", "parked"}
Stopped(c) == calls[c].pc = "idle"
WaitEnds == \A c \in Callers : Waits(c) ~> Stopped(c)

-----------------------------------------------------------------------------
(* The contract of the CacheStore trait: follower counts, wakers and          *)
(* reclaimed entries are invisible.                                           *)
PromiseOf(g) == [key |-> origin[g], outcome |-> outcome[g]]

RoleOf(c) ==
    [kind |-> IF HoldsLease(c) THEN "leader" ELSE IF HoldsWaiter(c) THEN "follower" ELSE "out",
     promise |-> calls[c].generation,
     seen |-> calls[c].result]

Contract == INSTANCE LoadContract
    WITH promise <- [g \in Generations |-> PromiseOf(g)],
         role <- [c \in Callers |-> RoleOf(c)],
         stopped <- shuttingDown

\* Whatever the tasks interleave, reserve_load / publish_load / wait_load and
\* the tokens' Drop behave like one promise per load: one leader at a time per
\* key, followers only of the key's live load, one outcome for all of them.
ImplementsContract == Contract!Spec

=============================================================================
