------------------------- MODULE SingleFlightProofs -------------------------
(* Proofs about SingleFlight, for any keys, any finite set of callers and   *)
(* any bound on the generations.                                            *)
EXTENDS SingleFlight, FiniteSetTheorems, TLAPS

\* An entry of generation 0 is no entry, and generations are handed out once.
LoadsWellFormed ==
    /\ \A k \in Keys : loads[k].generation = 0 => loads[k] = NoLoad
    /\ \A k \in Keys : loads[k].generation <= nextGeneration
    /\ \A j, k \in Keys : loads[j].generation = loads[k].generation
                             => j = k \/ loads[j].generation = 0

\* Before shutdown, an armed lease is for an entry that is still open.
LeasesAreOpen ==
    \A c \in Callers : HoldsLease(c) =>
        /\ calls[c].generation # 0
        /\ \/ shuttingDown
           \/ /\ loads[calls[c].key].generation = calls[c].generation
              /\ loads[calls[c].key].completion = Unset

\* The history agrees with the entries.
OutcomesRecorded ==
    /\ \A k \in Keys : loads[k].generation # 0 =>
           outcome[loads[k].generation] = loads[k].completion
    /\ \A g \in Generations : g > nextGeneration => outcome[g] = Unset

\* The inductive invariant.
IInv ==
    /\ TypeOK
    /\ LoadsWellFormed
    /\ LeasesAreOpen
    /\ OneLeader
    /\ WaitersKeepTheirLoad
    /\ FollowersCounted
    /\ EveryLoadHasAnOwner
    /\ OutcomesRecorded
    /\ DeliveredIsOwnOutcome

-----------------------------------------------------------------------------
(* Facts about the waiter tokens of an entry. *)

\* A set of callers is finite, so its cardinality is a natural number.
LEMMA FollowersFinite ==
    ASSUME NEW k, NEW g
    PROVE  IsFiniteSet(Followers(k, g)) /\ Cardinality(Followers(k, g)) \in Nat
  <1>1. Followers(k, g) \subseteq Callers
    BY DEF Followers
  <1> QED
    BY <1>1, SingleFlightAssumption, FS_Subset, FS_CardinalityType

\* Generation 0 and "no entry" are the same thing.
LEMMA EntryPresent ==
    ASSUME TypeOK, LoadsWellFormed, NEW k \in Keys
    PROVE  loads[k] # NoLoad <=> loads[k].generation # 0
  BY DEF TypeOK, LoadsWellFormed, NoLoad, Load

-----------------------------------------------------------------------------
(* Type correctness. *)

\* The key an idle caller is given is a key.
LEMMA AnyKeyIsAKey == AnyKey \in Keys
  <1>1. \E k \in Keys : TRUE
    BY SingleFlightAssumption
  <1> QED
    BY <1>1, Zenon DEF AnyKey

\* The completions, results and steps of a call are told apart by name.
LEMMA Values ==
    /\ Unset \notin Completions
    /\ Published \subseteq Completions /\ "abandoned" \in Completions /\ "shutdown" \in Completions
    /\ Completions \subseteq Results /\ {Unset, "protocol", "ended"} \subseteq Results
    /\ "protocol" \notin Completions /\ "ended" \notin Completions
    /\ {"idle", "leading", "unpublished", "waiting", "parked", "releasing"} \subseteq Steps
  BY DEF Published, Completions, Results, Steps, Unset

\* The absent entry is typed like an entry.
LEMMA NoLoadIsALoad == NoLoad \in Load
  BY SingleFlightAssumption DEF Load, NoLoad

\* An idle caller is typed like a call.
LEMMA IdleIsACall == Idle \in Call
  BY SingleFlightAssumption, AnyKeyIsAKey, Values DEF Call, Idle

\* The empty load table is well typed.
LEMMA TypeInit == Init => TypeOK
  <1> SUFFICES ASSUME Init PROVE TypeOK
    OBVIOUS
  <1> USE DEF Init
  <1>1. loads \in [Keys -> Load] /\ calls \in [Callers -> Call]
    BY NoLoadIsALoad, IdleIsACall
  <1>2. nextGeneration \in 0..MaxGen
    BY SingleFlightAssumption
  <1>3. outcome \in [Generations -> Completions \cup {Unset}] /\ origin \in [Generations -> SUBSET Keys]
    OBVIOUS
  <1> QED
    BY <1>1, <1>2, <1>3, ZenonT(20) DEF TypeOK

\* Every step of the load table keeps its types.
LEMMA TypeNext == TypeOK /\ [Next]_vars => TypeOK'
  <1> SUFFICES ASSUME TypeOK, [Next]_vars PROVE TypeOK'
    OBVIOUS
  <1> USE SingleFlightAssumption, NoLoadIsALoad, IdleIsACall, Values DEF TypeOK
  <1>1. ASSUME NEW c \in Callers, NEW k \in Keys, ReserveFollower(c, k) PROVE TypeOK'
    <2>1. loads' \in [Keys -> Load] /\ loads[k].generation \in 0..MaxGen
      BY <1>1 DEF ReserveFollower, Load
    <2>2. calls' \in [Callers -> Call]
      BY <1>1, <2>1 DEF ReserveFollower, Call
    <2> QED
      BY <1>1, <2>1, <2>2 DEF ReserveFollower
  <1>2. ASSUME NEW c \in Callers, NEW k \in Keys, ReserveLeader(c, k) PROVE TypeOK'
    <2>1. nextGeneration + 1 \in Generations /\ nextGeneration + 1 \in 0..MaxGen
      BY <1>2 DEF ReserveLeader, Generations
    <2>2. [NoLoad EXCEPT !.generation = nextGeneration + 1] \in Load
      BY <2>1 DEF Load
    <2> QED
      BY <1>2, <2>1, <2>2 DEF ReserveLeader, Call
  <1>3. ASSUME NEW k \in Keys, NEW g, NEW v \in Completions, CompleteLoad(k, g, v)
        PROVE  /\ loads' \in [Keys -> Load]
               /\ taken' \subseteq Callers
               /\ outcome' \in [Generations -> Completions \cup {Unset}]
    <2>1. loads' \in [Keys -> Load]
      BY <1>3, ZenonT(20) DEF CompleteLoad, Load
    <2>2. loads[k].waiters \subseteq Callers
      BY DEF Load
    <2> QED
      BY <1>3, <2>1, <2>2, ZenonT(20) DEF CompleteLoad
  <1>4. ASSUME NEW c \in Callers, Return(c) PROVE calls' \in [Callers -> Call]
    BY <1>4 DEF Return
  <1>5. ASSUME NEW c \in Callers, NEW pc \in Steps, NEW r \in Results, MoveTo(c, pc, r)
        PROVE  calls' \in [Callers -> Call]
    BY <1>5, ZenonT(20) DEF MoveTo, Call
  <1>6. ASSUME NEW c \in Callers PROVE calls[c].key \in Keys
    BY DEF Call
  <1>7. ASSUME NEW c \in Callers, NEW v \in Published, PublishLoad(c, v) PROVE TypeOK'
    BY <1>7, <1>3, <1>4, <1>6 DEF PublishLoad
  <1>8. ASSUME NEW c \in Callers, PublishRefused(c) PROVE TypeOK'
    BY <1>8, <1>5 DEF PublishRefused
  <1>9. ASSUME NEW c \in Callers, DropLease(c) PROVE TypeOK'
    BY <1>9, <1>3, <1>4, <1>6 DEF DropLease
  <1>10. ASSUME NEW c \in Callers, WakeOne(c) PROVE TypeOK'
    BY <1>10 DEF WakeOne
  <1>11. ASSUME NEW c \in Callers, PollReady(c) PROVE TypeOK'
    <2>1. PollLoad(calls[c].key, calls[c].generation) \in Results
      BY <1>6 DEF PollLoad, Load
    <2> QED
      BY <1>11, <2>1, <1>5 DEF PollReady
  <1>12. ASSUME NEW c \in Callers, PollPending(c) PROVE TypeOK'
    <2>1. loads' \in [Keys -> Load]
      BY <1>12, <1>6 DEF PollPending, Load
    <2> QED
      BY <1>12, <2>1, <1>5 DEF PollPending
  <1>13. ASSUME NEW c \in Callers, EndWait(c) PROVE TypeOK'
    BY <1>13, <1>5, SMTT(20) DEF EndWait
  <1>14. ASSUME NEW c \in Callers, ReleaseWaiter(c) PROVE TypeOK'
    <2>1. loads' \in [Keys -> Load]
      BY <1>14, <1>6, SMTT(30) DEF ReleaseWaiter, Released, Load
    <2> QED
      BY <1>14, <2>1, <1>4, SMTT(20) DEF ReleaseWaiter
  <1>15. ASSUME Shutdown PROVE TypeOK'
    <2>1. \A k \in Keys : AfterShutdown(loads[k]) \in Load
      BY ZenonT(20) DEF AfterShutdown, Load
    <2>2. \A k \in Keys : loads[k].waiters \subseteq Callers
      BY DEF Load
    <2> QED
      BY <1>15, <2>1, <2>2, SMTT(20) DEF Shutdown
  <1>16. CASE UNCHANGED vars
    BY <1>16 DEF vars
  <1> QED
    BY <1>1, <1>2, <1>7, <1>8, <1>9, <1>10, <1>11, <1>12, <1>13, <1>14, <1>15, <1>16, SMTT(20)
    DEF Next, FinishLease, Poll

\* The state of the load map and of its callers keeps its types.
THEOREM TypeCorrect == Spec => []TypeOK
  BY TypeInit, TypeNext, PTL DEF Spec

-----------------------------------------------------------------------------
(* The inductive invariant. *)

\* The invariant holds of an empty store.
LEMMA IInvInit == Init => IInv
  <1> SUFFICES ASSUME Init PROVE IInv
    OBVIOUS
  <1>1. TypeOK
    BY TypeInit
  <1>2. \A k \in Keys : loads[k] = NoLoad
    BY DEF Init
  <1>3. \A c \in Callers : ~HoldsLease(c) /\ ~HoldsWaiter(c) /\ calls[c].result = Unset
    BY DEF Init, Idle, HoldsLease, HoldsWaiter
  <1>4. LoadsWellFormed /\ OutcomesRecorded
    BY <1>2, SMTT(20) DEF Init, NoLoad, LoadsWellFormed, OutcomesRecorded
  <1>5. LeasesAreOpen /\ OneLeader /\ WaitersKeepTheirLoad
    BY <1>3 DEF LeasesAreOpen, OneLeader, WaitersKeepTheirLoad
  <1>6. FollowersCounted /\ EveryLoadHasAnOwner
    BY <1>2 DEF FollowersCounted, EveryLoadHasAnOwner
  <1>7. DeliveredIsOwnOutcome
    BY <1>3 DEF DeliveredIsOwnOutcome, Unset
  <1> QED
    BY <1>1, <1>4, <1>5, <1>6, <1>7 DEF IInv

\* A caller that moves between states holding the same token disturbs no count.
LEMMA SameFollowers ==
    ASSUME NEW k, NEW g,
           \A d \in Callers : /\ HoldsWaiter(d)' <=> HoldsWaiter(d)
                              /\ HoldsWaiter(d) => /\ calls'[d].key = calls[d].key
                                                   /\ calls'[d].generation = calls[d].generation
    PROVE  Followers(k, g)' = Followers(k, g)
  BY DEF Followers

\* reserve_load joining an entry adds one waiter and counts it.
LEMMA IInvReserveFollower ==
    ASSUME IInv, TypeOK', NEW c \in Callers, NEW k \in Keys, ReserveFollower(c, k)
    PROVE  IInv'
  <1> USE DEF IInv
  <1>1. \A j \in Keys : /\ loads'[j].generation = loads[j].generation
                        /\ loads'[j].completion = loads[j].completion
                        /\ j # k => loads'[j] = loads[j]
    BY DEF ReserveFollower, TypeOK, Load
  <1>2. loads'[k].followers = loads[k].followers + 1 /\ loads[k].generation # 0
    BY EntryPresent DEF ReserveFollower, TypeOK, Load
  <1>3. \A d \in Callers : d # c => calls'[d] = calls[d]
    BY DEF ReserveFollower, TypeOK
  <1>4. /\ calls'[c].pc = "waiting" /\ calls'[c].key = k
        /\ calls'[c].generation = loads[k].generation /\ calls'[c].result = Unset
        /\ calls[c].pc = "idle"
    BY DEF ReserveFollower, TypeOK
  <1>5. \A d \in Callers : HoldsLease(d)' <=> HoldsLease(d)
    BY <1>3, <1>4 DEF HoldsLease
  <1>6. \A d \in Callers : HoldsLease(d) => d # c
    BY <1>4 DEF HoldsLease
  <1>7. LoadsWellFormed'
    <2>1. \A j \in Keys : loads'[j].generation = 0 => loads'[j] = NoLoad
      BY <1>1, <1>2 DEF LoadsWellFormed
    <2> QED
      BY <2>1, <1>1 DEF LoadsWellFormed, ReserveFollower
  <1>8. LeasesAreOpen'
    BY <1>1, <1>3, <1>5, <1>6 DEF LeasesAreOpen, ReserveFollower, TypeOK, Call
  <1>9. OneLeader'
    BY <1>3, <1>5, <1>6, SMTT(20) DEF OneLeader
  <1>10. WaitersKeepTheirLoad'
    BY <1>1, <1>2, <1>3, <1>4 DEF WaitersKeepTheirLoad, HoldsWaiter, TypeOK, Call
  <1>11. FollowersCounted'
    <2> SUFFICES ASSUME NEW j \in Keys, loads'[j] # NoLoad
                 PROVE  loads'[j].followers = Cardinality(Followers(j, loads[j].generation)')
      BY <1>1, SMTT(20) DEF FollowersCounted
    <2>1. CASE j = k
      <3>1. Followers(k, loads[k].generation)' = Followers(k, loads[k].generation) \cup {c}
        BY <1>1, <1>3, <1>4 DEF Followers, HoldsWaiter
      <3>2. c \notin Followers(k, loads[k].generation)
        BY <1>4 DEF Followers, HoldsWaiter
      <3>3. Cardinality(Followers(k, loads[k].generation) \cup {c})
               = Cardinality(Followers(k, loads[k].generation)) + 1
        BY <3>2, FollowersFinite, FS_AddElement, ZenonT(20)
      <3> QED
        BY <2>1, <3>1, <3>3, <1>2, EntryPresent, SMTT(20) DEF FollowersCounted
    <2>2. CASE j # k
      <3>1. Followers(j, loads[j].generation)' = Followers(j, loads[j].generation)
        BY <2>2, <1>1, <1>3, <1>4 DEF Followers, HoldsWaiter
      <3> QED
        BY <2>2, <3>1, <1>1 DEF FollowersCounted
    <2> QED
      BY <2>1, <2>2
  <1>12. EveryLoadHasAnOwner'
    <2> SUFFICES ASSUME NEW j \in Keys, loads'[j] # NoLoad
                 PROVE  IF loads[j].completion = Unset
                        THEN \E d \in Callers : HoldsLease(d)' /\ calls'[d].key = j
                                                /\ calls'[d].generation = loads[j].generation
                        ELSE loads'[j].followers > 0
      BY <1>1 DEF EveryLoadHasAnOwner
    <2>1. loads[j] # NoLoad
      BY <1>1 DEF ReserveFollower
    <2>2. CASE loads[j].completion = Unset
      BY <2>1, <2>2, <1>3, <1>5, <1>6, SMTT(20) DEF EveryLoadHasAnOwner
    <2>3. CASE loads[j].completion # Unset
      BY <2>1, <2>3, <1>1, <1>2, SMTT(20) DEF EveryLoadHasAnOwner, TypeOK, Load
    <2> QED
      BY <2>2, <2>3
  <1>13. OutcomesRecorded'
    BY <1>1 DEF OutcomesRecorded, ReserveFollower
  <1>14. DeliveredIsOwnOutcome'
    BY <1>3, <1>4, Values DEF DeliveredIsOwnOutcome, HoldsWaiter, ReserveFollower, Unset
  <1> QED
    BY <1>7, <1>8, <1>9, <1>10, <1>11, <1>12, <1>13, <1>14, SMTT(20)

\* A step that leaves every token with its holder, and of the entries touches at
\* most the registered wakers, keeps the invariant if what it delivers is right.
LEMMA IInvSameTokens ==
    ASSUME IInv, TypeOK', DeliveredIsOwnOutcome',
           \A k \in Keys : /\ loads'[k].generation = loads[k].generation
                           /\ loads'[k].completion = loads[k].completion
                           /\ loads'[k].followers = loads[k].followers
                           /\ loads'[k].generation = 0 => loads'[k] = NoLoad,
           \A d \in Callers : /\ HoldsLease(d)' <=> HoldsLease(d)
                              /\ HoldsWaiter(d)' <=> HoldsWaiter(d)
                              /\ calls'[d].key = calls[d].key
                              /\ calls'[d].generation = calls[d].generation,
           UNCHANGED <<nextGeneration, shuttingDown, outcome>>
    PROVE  IInv'
  <1> USE DEF IInv
  <1>1. LoadsWellFormed' /\ OutcomesRecorded'
    BY DEF LoadsWellFormed, OutcomesRecorded
  <1>0. NoLoad.generation = 0
    BY DEF NoLoad
  <1>2. \A k \in Keys : loads'[k] # NoLoad <=> loads[k] # NoLoad
    BY <1>0 DEF LoadsWellFormed
  <1>3. LeasesAreOpen' /\ OneLeader' /\ WaitersKeepTheirLoad'
    <2>0. \A d \in Callers : calls[d].key \in Keys
      BY DEF TypeOK, Call
    <2>1. LeasesAreOpen'
      BY <2>0 DEF LeasesAreOpen
    <2>2. OneLeader'
      BY DEF OneLeader
    <2>3. WaitersKeepTheirLoad'
      BY <2>0 DEF WaitersKeepTheirLoad
    <2> QED
      BY <2>1, <2>2, <2>3
  <1>4. \A k, g : Followers(k, g)' = Followers(k, g)
    BY DEF Followers
  <1>6. FollowersCounted'
    BY <1>2, <1>4 DEF FollowersCounted
  <1>7. EveryLoadHasAnOwner'
    BY <1>2, SMTT(20) DEF EveryLoadHasAnOwner
  <1> QED
    BY <1>1, <1>3, <1>6, <1>7, SMTT(20)

\* A refused publish_load moves the caller only.
LEMMA IInvPublishRefused ==
    ASSUME IInv, TypeOK', NEW c \in Callers, PublishRefused(c)
    PROVE  IInv'
  <1> USE DEF IInv
  <1>1. \A d \in Callers : /\ HoldsLease(d)' <=> HoldsLease(d)
                           /\ HoldsWaiter(d)' <=> HoldsWaiter(d)
                           /\ calls'[d].key = calls[d].key
                           /\ calls'[d].generation = calls[d].generation
                           /\ calls'[d].result = IF d = c THEN Unset ELSE calls[d].result
    BY SMTT(20) DEF PublishRefused, MoveTo, TypeOK, Call, HoldsLease, HoldsWaiter
  <1>2. DeliveredIsOwnOutcome'
    BY <1>1, Values DEF DeliveredIsOwnOutcome, PublishRefused, Unset
  <1> QED
    BY <1>1, <1>2, IInvSameTokens DEF PublishRefused, LoadsWellFormed

\* wake_all touches no token.
LEMMA IInvWakeOne ==
    ASSUME IInv, TypeOK', NEW c \in Callers, WakeOne(c)
    PROVE  IInv'
  <1> USE DEF IInv
  <1>1. DeliveredIsOwnOutcome'
    BY SMTT(20) DEF DeliveredIsOwnOutcome, HoldsWaiter, WakeOne
  <1> QED
    BY <1>1, IInvSameTokens, ZenonT(20) DEF WakeOne, LoadsWellFormed, HoldsLease, HoldsWaiter

\* poll_load delivers the completion of the waiter's own entry.
LEMMA IInvPollReady ==
    ASSUME IInv, TypeOK', NEW c \in Callers, PollReady(c)
    PROVE  IInv'
  <1> USE DEF IInv
  <1>1. HoldsWaiter(c) /\ ~HoldsLease(c) /\ calls[c].key \in Keys
    BY DEF PollReady, Pollable, HoldsWaiter, HoldsLease, TypeOK, Call
  <1>2. PollLoad(calls[c].key, calls[c].generation) = loads[calls[c].key].completion
    BY <1>1 DEF PollLoad, WaitersKeepTheirLoad
  <1>3. \A d \in Callers : /\ HoldsLease(d)' <=> HoldsLease(d)
                           /\ HoldsWaiter(d)' <=> HoldsWaiter(d)
                           /\ calls'[d].key = calls[d].key
                           /\ calls'[d].generation = calls[d].generation
                           /\ d # c => calls'[d].result = calls[d].result
    BY <1>1 DEF PollReady, MoveTo, TypeOK, Call, HoldsLease, HoldsWaiter
  <1>4. calls'[c].result = loads[calls[c].key].completion
    BY <1>2 DEF PollReady, MoveTo, TypeOK, Call
  <1>5. calls'[c].result # "protocol" /\ outcome[calls[c].generation] = calls'[c].result
    BY <1>1, <1>4, Values, SMTT(20) DEF WaitersKeepTheirLoad, OutcomesRecorded, TypeOK, Load, Unset
  <1>6. DeliveredIsOwnOutcome'
    BY <1>3, <1>5 DEF DeliveredIsOwnOutcome, PollReady
  <1> QED
    BY <1>3, <1>6, IInvSameTokens DEF PollReady, LoadsWellFormed

\* poll_load on an open entry only registers a waker.
LEMMA IInvPollPending ==
    ASSUME IInv, TypeOK', NEW c \in Callers, PollPending(c)
    PROVE  IInv'
  <1> USE DEF IInv
  <1>1. HoldsWaiter(c) /\ ~HoldsLease(c) /\ calls[c].key \in Keys
    BY DEF PollPending, Pollable, HoldsWaiter, HoldsLease, TypeOK, Call
  <1>2. loads[calls[c].key].generation # 0
    BY <1>1, SMTT(20) DEF WaitersKeepTheirLoad
  <1>3. \A k \in Keys : /\ loads'[k].generation = loads[k].generation
                        /\ loads'[k].completion = loads[k].completion
                        /\ loads'[k].followers = loads[k].followers
                        /\ k # calls[c].key => loads'[k] = loads[k]
    <2>1. loads \in [Keys -> Load]
      BY DEF TypeOK
    <2>2. loads' = [loads EXCEPT ![calls[c].key] =
                       [loads[calls[c].key] EXCEPT !.waiters = loads[calls[c].key].waiters \cup {c}]]
      BY <1>1, <2>1 DEF PollPending
    <2> QED
      BY <1>1, <2>1, <2>2 DEF Load
  <1>4. \A d \in Callers : /\ HoldsLease(d)' <=> HoldsLease(d)
                           /\ HoldsWaiter(d)' <=> HoldsWaiter(d)
                           /\ calls'[d].key = calls[d].key
                           /\ calls'[d].generation = calls[d].generation
                           /\ calls'[d].result = IF d = c THEN Unset ELSE calls[d].result
    BY <1>1 DEF PollPending, MoveTo, TypeOK, Call, HoldsLease, HoldsWaiter
  <1>5. DeliveredIsOwnOutcome'
    BY <1>4, Values DEF DeliveredIsOwnOutcome, PollPending, Unset
  <1>6. \A k \in Keys : loads'[k].generation = 0 => loads'[k] = NoLoad
    BY <1>2, <1>3 DEF LoadsWellFormed
  <1>7. UNCHANGED <<nextGeneration, shuttingDown, outcome>>
    BY DEF PollPending
  <1> HIDE DEF IInv
  <1> QED
    BY <1>3, <1>4, <1>5, <1>6, <1>7, IInvSameTokens, SMTT(20)

\* A wait cut short keeps its token until release_waiter.
LEMMA IInvEndWait ==
    ASSUME IInv, TypeOK', NEW c \in Callers, EndWait(c)
    PROVE  IInv'
  <1> USE DEF IInv
  <1>1. \A d \in Callers : /\ HoldsLease(d)' <=> HoldsLease(d)
                           /\ HoldsWaiter(d)' <=> HoldsWaiter(d)
                           /\ calls'[d].key = calls[d].key
                           /\ calls'[d].generation = calls[d].generation
                           /\ calls'[d].result = IF d = c THEN "ended" ELSE calls[d].result
    BY SMTT(20) DEF EndWait, MoveTo, TypeOK, Call, HoldsLease, HoldsWaiter
  <1>2. DeliveredIsOwnOutcome'
    BY <1>1, Values DEF DeliveredIsOwnOutcome, EndWait
  <1> QED
    BY <1>1, <1>2, IInvSameTokens, ZenonT(20) DEF EndWait, LoadsWellFormed

\* The generation of an entry and of a token is one that next_generation gave out.
LEMMA GenerationsOfLoads ==
    ASSUME TypeOK, NEW k \in Keys, loads[k].generation # 0
    PROVE  loads[k].generation \in Generations
  <1>1. loads[k].generation \in 0..MaxGen
    BY DEF TypeOK, Load
  <1> QED
    BY <1>1, SingleFlightAssumption DEF Generations

\* A waiter names a generation that was handed out.
LEMMA GenerationsOfWaiters ==
    ASSUME TypeOK, WaitersKeepTheirLoad, NEW d \in Callers, HoldsWaiter(d)
    PROVE  calls[d].generation \in Generations
  <1>1. calls[d].generation \in 0..MaxGen
    BY DEF TypeOK, Call
  <1>2. calls[d].generation # 0
    BY DEF WaitersKeepTheirLoad
  <1> QED
    BY <1>1, <1>2, SingleFlightAssumption DEF Generations

\* A caller that gives up its lease holds nothing afterwards; the others are
\* where they were.
LEMMA LeaseReturn ==
    ASSUME IInv, NEW c \in Callers, HoldsLease(c), Return(c)
    PROVE  /\ calls'[c] = Idle
           /\ \A d \in Callers : d # c => calls'[d] = calls[d]
           /\ ~HoldsLease(c)' /\ ~HoldsWaiter(c)'
           /\ \A d \in Callers : d # c => (HoldsLease(d)' <=> HoldsLease(d))
           /\ \A d \in Callers : HoldsWaiter(d)' <=> HoldsWaiter(d)
           /\ \A k, g : Followers(k, g)' = Followers(k, g)
           /\ calls'[c].result = Unset
  <1> USE DEF IInv
  <1>1. /\ calls'[c] = Idle
        /\ \A d \in Callers : d # c => calls'[d] = calls[d]
    BY DEF Return, TypeOK
  <1>2. /\ ~HoldsLease(c)' /\ ~HoldsWaiter(c)' /\ calls'[c].result = Unset
        /\ \A d \in Callers : d # c => (HoldsLease(d)' <=> HoldsLease(d))
        /\ \A d \in Callers : HoldsWaiter(d)' <=> HoldsWaiter(d)
    BY <1>1 DEF HoldsLease, HoldsWaiter, Idle
  <1>3. \A k, g : Followers(k, g)' = Followers(k, g)
    BY <1>1, <1>2, SMTT(20) DEF Followers
  <1> QED
    BY <1>1, <1>2, <1>3

\* A lease that can no longer complete its entry goes without a trace.
LEMMA IInvLeaseReturned ==
    ASSUME IInv, TypeOK', NEW c \in Callers, HoldsLease(c), Return(c),
           ~Completable(calls[c].key, calls[c].generation),
           UNCHANGED <<loads, nextGeneration, shuttingDown, outcome>>
    PROVE  IInv'
  <1> USE DEF IInv
  <1>0. /\ \A d \in Callers : d # c => calls'[d] = calls[d]
        /\ ~HoldsLease(c)' /\ ~HoldsWaiter(c)' /\ calls'[c].result = Unset
        /\ \A d \in Callers : d # c => (HoldsLease(d)' <=> HoldsLease(d))
        /\ \A d \in Callers : HoldsWaiter(d)' <=> HoldsWaiter(d)
    BY LeaseReturn
  <1>f. \A j, h : Followers(j, h)' = Followers(j, h)
    BY LeaseReturn, SMTT(20)
  <1> USE <1>0
  <1>1. LoadsWellFormed' /\ OutcomesRecorded'
    BY SMTT(20) DEF LoadsWellFormed, OutcomesRecorded
  <1>2. LeasesAreOpen' /\ OneLeader' /\ WaitersKeepTheirLoad'
    BY DEF LeasesAreOpen, OneLeader, WaitersKeepTheirLoad
  <1>3. FollowersCounted'
    BY <1>f, SMTT(20) DEF FollowersCounted
  <1>4. EveryLoadHasAnOwner'
    BY DEF EveryLoadHasAnOwner, Completable
  <1>5. DeliveredIsOwnOutcome'
    BY Values DEF DeliveredIsOwnOutcome, Unset
  <1> QED
    BY <1>1, <1>2, <1>3, <1>4, <1>5, SMTT(20)

\* The holder of the lease completes the entry and gives the lease up.
LEMMA IInvCompleted ==
    ASSUME IInv, TypeOK', NEW c \in Callers, HoldsLease(c), Return(c),
           Completable(calls[c].key, calls[c].generation), NEW v \in Completions,
           CompleteLoad(calls[c].key, calls[c].generation, v),
           UNCHANGED <<nextGeneration, shuttingDown>>
    PROVE  IInv'
  <1> DEFINE k == calls[c].key
             g == calls[c].generation
  <1> USE DEF IInv
  <1>0. /\ \A d \in Callers : d # c => calls'[d] = calls[d]
        /\ ~HoldsLease(c)' /\ ~HoldsWaiter(c)' /\ calls'[c].result = Unset
        /\ \A d \in Callers : d # c => (HoldsLease(d)' <=> HoldsLease(d))
        /\ \A d \in Callers : HoldsWaiter(d)' <=> HoldsWaiter(d)
    BY LeaseReturn, SMTT(20)
  <1>f. \A j, h : Followers(j, h)' = Followers(j, h)
    BY LeaseReturn, SMTT(20)
  <1>1. /\ k \in Keys /\ g \in Generations /\ g # 0 /\ loads[k] \in Load
        /\ loads[k].generation = g /\ loads[k].completion = Unset
        /\ loads[k] # NoLoad
    <2>1. k \in Keys /\ loads[k] \in Load
      BY DEF TypeOK, Call
    <2>2. loads[k].generation = g /\ loads[k].completion = Unset /\ g # 0
      BY SMTT(20) DEF Completable, LeasesAreOpen
    <2> QED
      BY <2>1, <2>2, EntryPresent, GenerationsOfLoads
  <1>2. /\ \A j \in Keys : j # k => loads'[j] = loads[j]
        /\ loads[k].followers = 0 => loads'[k] = NoLoad
        /\ loads[k].followers # 0 => /\ loads'[k].generation = g
                                     /\ loads'[k].completion = v
                                     /\ loads'[k].followers = loads[k].followers
    BY <1>1, SMTT(20) DEF CompleteLoad, TypeOK, Load
  <1>3. /\ outcome'[g] = v
        /\ \A h \in Generations : h # g => outcome'[h] = outcome[h]
    BY <1>1, SMTT(20) DEF CompleteLoad, TypeOK
  <1>4. LoadsWellFormed'
    <2>1. NoLoad.generation = 0
      BY SMTT(20) DEF NoLoad
    <2>2. \A j \in Keys : loads'[j].generation = loads[j].generation \/ loads'[j] = NoLoad
      BY <1>1, <1>2, SMTT(20)
    <2>3. \A j \in Keys : loads'[j].generation = 0 => loads'[j] = NoLoad
      BY <1>1, <1>2 DEF LoadsWellFormed
    <2>4. \A j \in Keys : loads'[j].generation <= nextGeneration'
      BY <2>1, <2>2 DEF LoadsWellFormed, TypeOK
    <2>5. \A i, j \in Keys : loads'[i].generation = loads'[j].generation
                                => i = j \/ loads'[i].generation = 0
      BY <2>1, <2>2, ZenonT(20) DEF LoadsWellFormed
    <2> QED
      BY <2>3, <2>4, <2>5, SMTT(20) DEF LoadsWellFormed
  <1>5. OneLeader'
    BY <1>0, SMTT(20) DEF OneLeader
  <1>6. LeasesAreOpen'
    <2> SUFFICES ASSUME NEW d \in Callers, HoldsLease(d)'
                 PROVE  /\ calls'[d].generation # 0
                        /\ \/ shuttingDown'
                           \/ /\ loads'[calls'[d].key].generation = calls'[d].generation
                              /\ loads'[calls'[d].key].completion = Unset
      BY SMTT(20) DEF LeasesAreOpen
    <2>1. /\ d # c /\ HoldsLease(d) /\ calls'[d] = calls[d]
      BY <1>0
    <2>2. calls[d].key \in Keys
      BY DEF TypeOK, Call
    <2>3. calls[d].key # k
      BY <2>1 DEF OneLeader
    <2> QED
      BY <2>1, <2>2, <2>3, <1>2, SMTT(20) DEF LeasesAreOpen
  <1>7. loads[k].followers = 0 => Followers(k, g) = {}
    <2>1. loads[k].followers = Cardinality(Followers(k, g))
      BY <1>1 DEF FollowersCounted
    <2> QED
      BY <2>1, FollowersFinite, FS_EmptySet, ZenonT(20)
  <1>8. WaitersKeepTheirLoad'
    <2> SUFFICES ASSUME NEW d \in Callers, HoldsWaiter(d)'
                 PROVE  /\ loads'[calls'[d].key].generation = calls'[d].generation
                        /\ calls'[d].generation # 0
      BY DEF WaitersKeepTheirLoad
    <2>1. /\ d # c /\ HoldsWaiter(d) /\ calls'[d] = calls[d] /\ calls[d].key \in Keys
          /\ loads[calls[d].key].generation = calls[d].generation
          /\ calls[d].generation # 0
      BY <1>0 DEF WaitersKeepTheirLoad, TypeOK, Call
    <2>2. CASE calls[d].key = k
      <3>1. d \in Followers(k, g)
        BY <1>1, <2>1, <2>2, SMTT(20) DEF Followers
      <3> QED
        BY <1>1, <1>2, <1>7, <2>1, <2>2, <3>1, ZenonT(20)
    <2> QED
      BY <1>2, <2>1, <2>2, ZenonT(20)
  <1>9. FollowersCounted'
    <2> SUFFICES ASSUME NEW j \in Keys, loads'[j] # NoLoad
                 PROVE  (loads[j].followers = Cardinality(Followers(j, loads[j].generation)))'
      BY SMTT(20) DEF FollowersCounted
    <2>1. /\ loads'[j].generation = loads[j].generation
          /\ loads'[j].followers = loads[j].followers
          /\ loads[j] # NoLoad
      BY <1>1, <1>2, SMTT(20)
    <2> QED
      BY <1>f, <2>1, SMTT(20) DEF FollowersCounted
  <1>10. EveryLoadHasAnOwner'
    <2> SUFFICES ASSUME NEW j \in Keys, loads'[j] # NoLoad
                 PROVE  IF loads'[j].completion = Unset
                        THEN \E d \in Callers : HoldsLease(d)' /\ calls'[d].key = j
                                /\ calls'[d].generation = loads'[j].generation
                        ELSE loads'[j].followers > 0
      BY SMTT(20) DEF EveryLoadHasAnOwner
    <2>1. CASE j = k
      <3>1. loads[k].followers # 0 /\ loads'[k].completion = v
        BY <1>2, <2>1, SMTT(20)
      <3>2. loads'[k].followers > 0
        <4>1. loads[k].followers \in Nat
          BY <1>1, SMTT(20) DEF Load
        <4>2. loads'[k].followers = loads[k].followers
          BY <1>2, <3>1, SMTT(20)
        <4> QED
          BY <3>1, <4>1, <4>2, SMTT(20)
      <3> QED
        BY <2>1, <3>1, <3>2, Values, SMTT(20)
    <2>2. CASE j # k
      <3>1. loads'[j] = loads[j]
        BY <1>2, <2>2, SMTT(20)
      <3>2. CASE loads[j].completion = Unset
        <4>1. PICK d \in Callers : /\ HoldsLease(d) /\ calls[d].key = j
                                   /\ calls[d].generation = loads[j].generation
          BY <3>1, <3>2, SMTT(20) DEF EveryLoadHasAnOwner
        <4>2. HoldsLease(d)' /\ calls'[d] = calls[d]
          BY <4>1, <2>2, <1>0, SMTT(20)
        <4> QED
          BY <3>1, <3>2, <4>1, <4>2
      <3>3. CASE loads[j].completion # Unset
        BY <3>1, <3>3 DEF EveryLoadHasAnOwner
      <3> QED
        BY <3>2, <3>3, SMTT(20)
    <2> QED
      BY <2>1, <2>2, SMTT(20)
  <1>11. OutcomesRecorded'
    <2>1. \A j \in Keys : loads'[j].generation # 0 => outcome'[loads'[j].generation] = loads'[j].completion
      <3> SUFFICES ASSUME NEW j \in Keys, loads'[j].generation # 0
                   PROVE  outcome'[loads'[j].generation] = loads'[j].completion
        OBVIOUS
      <3>1. CASE j = k
        <4>1. loads'[k] # NoLoad
          BY <3>1, SMTT(20) DEF NoLoad
        <4>2. loads'[k].generation = g /\ loads'[k].completion = v
          BY <1>2, <4>1, SMTT(20)
        <4> QED
          BY <1>3, <3>1, <4>2, SMTT(20)
      <3>2. CASE j # k
        <4>1. loads'[j] = loads[j] /\ loads[j].generation # 0
          BY <1>2, <3>2, SMTT(20)
        <4>2. loads[j].generation # g
          BY <4>1, <1>1, <3>2 DEF LoadsWellFormed
        <4>3. loads[j].generation \in Generations
          BY <4>1, GenerationsOfLoads, SMTT(20)
        <4> QED
          BY <4>1, <4>2, <4>3, <1>3, SMTT(20) DEF OutcomesRecorded
      <3> QED
        BY <3>1, <3>2
    <2>2. \A h \in Generations : h > nextGeneration' => outcome'[h] = Unset
      <3>1. g <= nextGeneration /\ nextGeneration' = nextGeneration
        BY <1>1 DEF LoadsWellFormed
      <3>2. \A h \in Generations : h > nextGeneration => h # g
        BY <3>1 DEF Generations, TypeOK
      <3> QED
        BY <3>1, <3>2, <1>3, SMTT(20) DEF OutcomesRecorded
    <2> QED
      BY <2>1, <2>2 DEF OutcomesRecorded
  <1>12. DeliveredIsOwnOutcome'
    <2> SUFFICES ASSUME NEW d \in Callers
                 PROVE  /\ calls'[d].result # "protocol"
                        /\ HoldsWaiter(d)' /\ calls'[d].result \in Completions =>
                              outcome'[calls'[d].generation] = calls'[d].result
      BY ZenonT(20) DEF DeliveredIsOwnOutcome
    <2>1. CASE d = c
      BY <2>1, <1>0, Values, ZenonT(20) DEF Unset
    <2>2. CASE d # c /\ HoldsWaiter(d) /\ calls[d].result \in Completions
      <3>1. outcome[calls[d].generation] = calls[d].result
        BY <2>2 DEF DeliveredIsOwnOutcome
      <3>2. calls[d].generation \in Generations
        BY <2>2, GenerationsOfWaiters
      <3>3. outcome[g] = Unset
        BY <1>1 DEF OutcomesRecorded
      <3>4. calls[d].generation # g
        BY <3>1, <3>3, <2>2, Values, SMTT(20)
      <3> QED
        BY <1>0, <3>1, <3>2, <3>4, <2>2, <1>3, SMTT(20) DEF DeliveredIsOwnOutcome
    <2> QED
      BY <1>0, <2>1, <2>2, ZenonT(20) DEF DeliveredIsOwnOutcome
  <1> QED
    BY <1>4, <1>5, <1>6, <1>8, <1>9, <1>10, <1>11, <1>12, SMTT(20)

\* publish_load completes the entry of its lease.
LEMMA IInvPublishLoad ==
    ASSUME IInv, TypeOK', NEW c \in Callers, NEW v \in Published, PublishLoad(c, v)
    PROVE  IInv'
  <1>1. HoldsLease(c) /\ v \in Completions
    BY Values DEF PublishLoad, HoldsLease
  <1> QED
    BY <1>1, IInvCompleted DEF PublishLoad

\* Dropping a lease completes its entry, or finds it completed.
LEMMA IInvDropLease ==
    ASSUME IInv, TypeOK', NEW c \in Callers, DropLease(c)
    PROVE  IInv'
  <1>1. CASE Completable(calls[c].key, calls[c].generation)
    BY <1>1, IInvCompleted, Values DEF DropLease
  <1>2. CASE ~Completable(calls[c].key, calls[c].generation)
    BY <1>2, IInvLeaseReturned DEF DropLease
  <1> QED
    BY <1>1, <1>2

\* reserve_load leading a key finds no token of that key.
LEMMA IInvReserveLeader ==
    ASSUME IInv, TypeOK', NEW c \in Callers, NEW k \in Keys, ReserveLeader(c, k)
    PROVE  IInv'
  <1> DEFINE g == nextGeneration + 1
  <1> USE DEF IInv
  <1>0. /\ g \in Generations /\ nextGeneration \in Nat /\ nextGeneration' = g
        /\ shuttingDown' = shuttingDown /\ outcome' = outcome /\ ~shuttingDown
        /\ loads[k].generation = 0
    BY SingleFlightAssumption DEF ReserveLeader, TypeOK, Generations, NoLoad
  <1>1. \A j \in Keys : j # k => loads'[j] = loads[j]
    BY DEF ReserveLeader, TypeOK
  <1>2. /\ loads'[k].generation = g /\ loads'[k].completion = Unset
        /\ loads'[k].followers = 0
    BY <1>0 DEF ReserveLeader, TypeOK, NoLoad
  <1>3. \A d \in Callers : d # c => calls'[d] = calls[d]
    BY DEF ReserveLeader, TypeOK
  <1>4. /\ calls'[c].pc = "leading" /\ calls'[c].key = k
        /\ calls'[c].generation = g /\ calls'[c].result = Unset
        /\ calls[c].pc = "idle"
    BY DEF ReserveLeader, TypeOK
  <1>5. /\ HoldsLease(c)' /\ ~HoldsLease(c) /\ ~HoldsWaiter(c)' /\ ~HoldsWaiter(c)
        /\ \A d \in Callers : d # c => (HoldsLease(d)' <=> HoldsLease(d))
        /\ \A d \in Callers : HoldsWaiter(d)' <=> HoldsWaiter(d)
    BY <1>3, <1>4 DEF HoldsLease, HoldsWaiter
  <1>6. \A d \in Callers : HoldsLease(d) \/ HoldsWaiter(d) => calls[d].key # k /\ d # c
    BY <1>0, <1>5 DEF LeasesAreOpen, WaitersKeepTheirLoad
  <1>7. LoadsWellFormed'
    <2>1. \A j \in Keys : loads[j].generation < g /\ loads[j].generation \in Nat
      BY <1>0 DEF LoadsWellFormed, TypeOK, Load
    <2>2. \A j \in Keys : loads'[j].generation = 0 => loads'[j] = NoLoad
      BY <1>0, <1>1, <1>2 DEF LoadsWellFormed
    <2>3. \A j \in Keys : loads'[j].generation <= g
      BY <2>1, <1>0, <1>1, <1>2
    <2>4. \A i, j \in Keys : loads'[i].generation = loads'[j].generation
                                => i = j \/ loads'[i].generation = 0
      BY <2>1, <1>1, <1>2 DEF LoadsWellFormed
    <2> QED
      BY <2>2, <2>3, <2>4, <1>0 DEF LoadsWellFormed
  <1>8. LeasesAreOpen'
    BY <1>0, <1>1, <1>2, <1>3, <1>4, <1>5, <1>6, SMTT(20) DEF LeasesAreOpen, TypeOK, Call
  <1>9. OneLeader'
    BY <1>3, <1>4, <1>5, <1>6 DEF OneLeader
  <1>10. WaitersKeepTheirLoad'
    BY <1>1, <1>3, <1>5, <1>6 DEF WaitersKeepTheirLoad, TypeOK, Call
  <1>11. FollowersCounted'
    <2> SUFFICES ASSUME NEW j \in Keys, loads'[j] # NoLoad
                 PROVE  (loads[j].followers = Cardinality(Followers(j, loads[j].generation)))'
      BY DEF FollowersCounted
    <2>1. \A i, h : Followers(i, h)' = Followers(i, h)
      BY <1>3, <1>5 DEF Followers
    <2>2. CASE j = k
      <3>1. Followers(k, g) = {}
        BY <1>6 DEF Followers
      <3> QED
        BY <2>1, <2>2, <3>1, <1>2, FS_EmptySet
    <2>3. CASE j # k
      BY <2>1, <2>3, <1>1 DEF FollowersCounted
    <2> QED
      BY <2>2, <2>3
  <1>12. EveryLoadHasAnOwner'
    <2> SUFFICES ASSUME NEW j \in Keys, loads'[j] # NoLoad
                 PROVE  IF loads'[j].completion = Unset
                        THEN \E d \in Callers : HoldsLease(d)' /\ calls'[d].key = j
                                /\ calls'[d].generation = loads'[j].generation
                        ELSE loads'[j].followers > 0
      BY DEF EveryLoadHasAnOwner
    <2>1. CASE j = k
      BY <2>1, <1>2, <1>4, <1>5
    <2>2. CASE j # k
      BY <2>2, <1>1, <1>3, <1>5, <1>6, SMTT(20) DEF EveryLoadHasAnOwner
    <2> QED
      BY <2>1, <2>2
  <1>13. OutcomesRecorded'
    <2>1. outcome[g] = Unset
      BY <1>0 DEF OutcomesRecorded
    <2>2. \A j \in Keys : loads'[j].generation # 0 => outcome'[loads'[j].generation] = loads'[j].completion
      BY <2>1, <1>0, <1>1, <1>2 DEF OutcomesRecorded
    <2>3. \A h \in Generations : h > nextGeneration' => outcome'[h] = Unset
      BY <1>0, SMTT(20) DEF OutcomesRecorded, Generations
    <2> QED
      BY <2>2, <2>3 DEF OutcomesRecorded
  <1>14. DeliveredIsOwnOutcome'
    BY <1>0, <1>3, <1>4, <1>5, Values, SMTT(20) DEF DeliveredIsOwnOutcome, Unset
  <1> QED
    BY <1>7, <1>8, <1>9, <1>10, <1>11, <1>12, <1>13, <1>14

\* A waiter that is released holds nothing afterwards.
LEMMA WaiterReturn ==
    ASSUME IInv, NEW c \in Callers, HoldsWaiter(c), Return(c)
    PROVE  /\ \A d \in Callers : d # c => calls'[d] = calls[d]
           /\ ~HoldsLease(c)' /\ ~HoldsWaiter(c)' /\ ~HoldsLease(c)
           /\ \A d \in Callers : HoldsLease(d)' <=> HoldsLease(d)
           /\ \A d \in Callers : d # c => (HoldsWaiter(d)' <=> HoldsWaiter(d))
           /\ \A k, g : Followers(k, g)' = Followers(k, g) \ {c}
           /\ calls'[c].result = Unset
  <1> USE DEF IInv
  <1>1. /\ calls'[c] = Idle
        /\ \A d \in Callers : d # c => calls'[d] = calls[d]
    BY DEF Return, TypeOK
  <1>2. /\ ~HoldsLease(c)' /\ ~HoldsWaiter(c)' /\ calls'[c].result = Unset
        /\ ~HoldsLease(c)
        /\ \A d \in Callers : HoldsLease(d)' <=> HoldsLease(d)
        /\ \A d \in Callers : d # c => (HoldsWaiter(d)' <=> HoldsWaiter(d))
    BY <1>1 DEF HoldsLease, HoldsWaiter, Idle
  <1>3. \A k, g : Followers(k, g)' = Followers(k, g) \ {c}
    BY <1>1, <1>2 DEF Followers
  <1> QED
    BY <1>1, <1>2, <1>3

\* release_waiter takes one waiter off the count.
LEMMA IInvReleaseWaiter ==
    ASSUME IInv, TypeOK', NEW c \in Callers, ReleaseWaiter(c)
    PROVE  IInv'
  <1> DEFINE k == calls[c].key
             g == calls[c].generation
  <1> USE DEF IInv
  <1>0. /\ UNCHANGED <<nextGeneration, shuttingDown, outcome>>
        /\ HoldsWaiter(c) /\ Return(c) /\ k \in Keys /\ loads[k] \in Load
        /\ loads[k].generation = g /\ g # 0 /\ loads[k] # NoLoad
    BY EntryPresent DEF ReleaseWaiter, HoldsWaiter, TypeOK, Call, WaitersKeepTheirLoad
  <1>1. /\ loads[k].followers = Cardinality(Followers(k, g))
        /\ c \in Followers(k, g)
        /\ loads[k].followers \in Nat \ {0}
    <2>1. loads[k].followers = Cardinality(Followers(k, g)) /\ c \in Followers(k, g)
      BY <1>0 DEF FollowersCounted, Followers
    <2> QED
      BY <2>1, FollowersFinite, FS_EmptySet, SMTT(20)
  <1>2. /\ \A j \in Keys : j # k => loads'[j] = loads[j]
        /\ loads'[k] = Released(loads[k])
    BY <1>0, <1>1, SMTT(30) DEF ReleaseWaiter, TypeOK
  <1>3. \/ loads'[k] = NoLoad /\ loads[k].completion # Unset /\ loads[k].followers = 1
        \/ /\ loads'[k].generation = g
           /\ loads'[k].completion = loads[k].completion
           /\ loads'[k].followers = loads[k].followers - 1
           /\ loads[k].completion # Unset => loads[k].followers # 1
    BY <1>0, <1>2, SMTT(20) DEF Released, Load
  <1>4. Cardinality(Followers(k, g) \ {c}) = loads[k].followers - 1
    <2>1. IsFiniteSet(Followers(k, g))
      BY FollowersFinite
    <2>2. Cardinality(Followers(k, g) \ {c}) = Cardinality(Followers(k, g)) - 1
      BY <2>1, <1>1, FS_RemoveElement, ZenonT(20)
    <2> QED
      BY <2>2, <1>1
  <1>5. NoLoad.generation = 0
    BY SMTT(20) DEF NoLoad
  <1>r. /\ \A d \in Callers : d # c => calls'[d] = calls[d]
        /\ ~HoldsLease(c)' /\ ~HoldsWaiter(c)' /\ ~HoldsLease(c) /\ calls'[c].result = Unset
        /\ \A d \in Callers : HoldsLease(d)' <=> HoldsLease(d)
        /\ \A d \in Callers : d # c => (HoldsWaiter(d)' <=> HoldsWaiter(d))
    BY <1>0, WaiterReturn, SMTT(20)
  <1>f. \A j, h : Followers(j, h)' = Followers(j, h) \ {c}
    BY <1>0, WaiterReturn, SMTT(20)
  <1> USE <1>0
  <1>6. LoadsWellFormed'
    <2>1. \A j \in Keys : loads'[j].generation = loads[j].generation \/ loads'[j] = NoLoad
      BY <1>2, <1>3, SMTT(20)
    <2>2. \A j \in Keys : loads'[j].generation = 0 => loads'[j] = NoLoad
      BY <1>2, <1>3 DEF LoadsWellFormed
    <2>3. \A j \in Keys : loads'[j].generation <= nextGeneration'
      BY <2>1, <1>5 DEF LoadsWellFormed, TypeOK
    <2> QED
      BY <2>1, <2>2, <2>3, <1>5, SMTT(30) DEF LoadsWellFormed
  <1>7. OneLeader'
    BY <1>r, ZenonT(20) DEF OneLeader
  <1>8. LeasesAreOpen'
    <2> SUFFICES ASSUME NEW d \in Callers, HoldsLease(d)'
                 PROVE  /\ calls'[d].generation # 0
                        /\ \/ shuttingDown'
                           \/ /\ loads'[calls'[d].key].generation = calls'[d].generation
                              /\ loads'[calls'[d].key].completion = Unset
      BY ZenonT(20) DEF LeasesAreOpen
    <2>1. /\ HoldsLease(d) /\ calls'[d] = calls[d] /\ calls[d].key \in Keys
      BY <1>r DEF TypeOK, Call
    <2>2. \/ shuttingDown
          \/ /\ loads[calls[d].key].generation = calls[d].generation
             /\ loads[calls[d].key].completion = Unset
      BY <2>1, ZenonT(20) DEF LeasesAreOpen
    <2>3. ASSUME loads[calls[d].key].completion = Unset
          PROVE  /\ loads'[calls[d].key].generation = loads[calls[d].key].generation
                 /\ loads'[calls[d].key].completion = Unset
      BY <2>1, <2>3, <1>2, <1>3, ZenonT(20)
    <2>4. calls[d].generation # 0
      BY <2>1, SMTT(20) DEF LeasesAreOpen
    <2> QED
      BY <2>1, <2>2, <2>3, <2>4, ZenonT(20)
  <1>9. WaitersKeepTheirLoad'
    <2> SUFFICES ASSUME NEW d \in Callers, HoldsWaiter(d)'
                 PROVE  /\ loads'[calls'[d].key].generation = calls'[d].generation
                        /\ calls'[d].generation # 0
      BY DEF WaitersKeepTheirLoad
    <2>1. /\ d # c /\ HoldsWaiter(d) /\ calls'[d] = calls[d] /\ calls[d].key \in Keys
          /\ loads[calls[d].key].generation = calls[d].generation
          /\ calls[d].generation # 0
      BY <1>r DEF WaitersKeepTheirLoad, TypeOK, Call
    <2>2. CASE calls[d].key = k
      <3>1. d \in Followers(k, g) \ {c}
        BY <2>1, <2>2, SMTT(20) DEF Followers
      <3>2. loads[k].followers # 1
        <4>1. IsFiniteSet(Followers(k, g) \ {c})
          BY FollowersFinite, FS_RemoveElement, SMTT(20)
        <4>2. Cardinality(Followers(k, g) \ {c}) # 0
          BY <3>1, <4>1, FS_EmptySet, SMTT(20)
        <4> HIDE <1>0 DEF IInv
        <4> QED
          BY <4>2, <1>1, <1>4, SMTT(20)
      <3> QED
        BY <3>2, <1>3, <2>1, <2>2, ZenonT(20)
    <2> QED
      BY <1>2, <2>1, <2>2
  <1>10. FollowersCounted'
    <2> SUFFICES ASSUME NEW j \in Keys, loads'[j] # NoLoad
                 PROVE  (loads[j].followers = Cardinality(Followers(j, loads[j].generation)))'
      BY SMTT(20) DEF FollowersCounted
    <2>1. CASE j = k
      <3>1. loads'[k].generation = g /\ loads'[k].followers = loads[k].followers - 1
        BY <2>1, <1>3, ZenonT(20)
      <3> QED
        BY <2>1, <3>1, <1>f, <1>4
    <2>2. CASE j # k
      <3>1. c \notin Followers(j, loads[j].generation)
        BY <2>2, ZenonT(20) DEF Followers
      <3>2. Followers(j, loads[j].generation)' = Followers(j, loads[j].generation)
        BY <3>1, <2>2, <1>2, <1>f, ZenonT(20)
      <3> QED
        BY <3>2, <2>2, <1>2, ZenonT(20) DEF FollowersCounted
    <2> QED
      BY <2>1, <2>2, SMTT(20)
  <1>11. EveryLoadHasAnOwner'
    <2> SUFFICES ASSUME NEW j \in Keys, loads'[j] # NoLoad
                 PROVE  IF loads'[j].completion = Unset
                        THEN \E d \in Callers : HoldsLease(d)' /\ calls'[d].key = j
                                /\ calls'[d].generation = loads'[j].generation
                        ELSE loads'[j].followers > 0
      BY ZenonT(20) DEF EveryLoadHasAnOwner
    <2>1. /\ loads[j] # NoLoad
          /\ loads'[j].generation = loads[j].generation
          /\ loads'[j].completion = loads[j].completion
      BY <1>2, <1>3, ZenonT(20)
    <2>2. CASE loads[j].completion = Unset
      BY <1>r, <2>1, <2>2, ZenonT(20) DEF EveryLoadHasAnOwner
    <2>3. CASE loads[j].completion # Unset
      <3>1. CASE j = k
        <4>1. loads'[k].followers = loads[k].followers - 1 /\ loads[k].followers # 1
          BY <2>3, <3>1, <1>3, ZenonT(20)
        <4>2. loads[k].followers \in Nat /\ loads[k].followers # 0
          BY <1>1, ZenonT(20)
        <4> HIDE <1>0 DEF IInv
        <4>3. loads'[k].followers > 0
          BY <4>1, <4>2
        <4> QED
          BY <2>1, <2>3, <3>1, <4>3
      <3>2. CASE j # k
        BY <2>1, <2>3, <3>2, <1>2, ZenonT(20) DEF EveryLoadHasAnOwner
      <3> QED
        BY <3>1, <3>2, ZenonT(20)
    <2> QED
      BY <2>1, <2>2, <2>3, ZenonT(20)
  <1>12. OutcomesRecorded'
    BY <1>2, <1>3, <1>5, ZenonT(20) DEF OutcomesRecorded
  <1>13. DeliveredIsOwnOutcome'
    BY <1>r, Values, ZenonT(20) DEF DeliveredIsOwnOutcome, Unset
  <1> QED
    BY <1>6, <1>7, <1>8, <1>9, <1>10, <1>11, <1>12, <1>13, SMTT(20)

\* shutdown completes every open entry and keeps those with waiters.
LEMMA IInvShutdown ==
    ASSUME IInv, TypeOK', Shutdown
    PROVE  IInv'
  <1> USE DEF IInv
  <1>0. /\ shuttingDown' = TRUE /\ UNCHANGED <<nextGeneration, calls>>
        /\ NoLoad.generation = 0
    BY DEF Shutdown, NoLoad
  <1>1. \A k \in Keys :
           \/ loads'[k] = NoLoad /\ loads[k].followers = 0
           \/ /\ loads'[k].generation = loads[k].generation
              /\ loads'[k].followers = loads[k].followers
              /\ loads[k].followers # 0
              /\ loads'[k].completion = IF loads[k].completion = Unset THEN "shutdown"
                                        ELSE loads[k].completion
    BY ZenonT(20) DEF Shutdown, AfterShutdown, TypeOK, Load
  <1>2. \A g \in Generations :
           outcome'[g] = IF \E k \in Keys : loads[k].generation = g /\ loads[k].completion = Unset
                         THEN "shutdown" ELSE outcome[g]
    BY DEF Shutdown
  <1>3. /\ \A d \in Callers : HoldsLease(d)' <=> HoldsLease(d)
        /\ \A d \in Callers : HoldsWaiter(d)' <=> HoldsWaiter(d)
        /\ \A k, g : Followers(k, g)' = Followers(k, g)
    BY <1>0 DEF HoldsLease, HoldsWaiter, Followers
  <1>4. \A k \in Keys : loads[k].followers # 0 => loads[k].generation # 0
    BY DEF LoadsWellFormed, NoLoad
  <1>5. LoadsWellFormed'
    <2>1. \A j \in Keys : loads'[j].generation = loads[j].generation \/ loads'[j] = NoLoad
      BY <1>1
    <2>2. \A j \in Keys : loads'[j].generation = 0 => loads'[j] = NoLoad
      BY <1>1, <1>4
    <2>3. \A j \in Keys : loads'[j].generation <= nextGeneration'
      BY <2>1, <1>0, SMTT(20) DEF LoadsWellFormed, TypeOK
    <2> QED
      BY <2>1, <2>2, <2>3, <1>0 DEF LoadsWellFormed
  <1>6. LeasesAreOpen' /\ OneLeader'
    BY <1>0, <1>3 DEF LeasesAreOpen, OneLeader
  <1>7. WaitersKeepTheirLoad'
    <2> SUFFICES ASSUME NEW d \in Callers, HoldsWaiter(d)
                 PROVE  loads'[calls[d].key].generation = calls[d].generation
      BY <1>0, <1>3 DEF WaitersKeepTheirLoad
    <2>1. /\ calls[d].key \in Keys /\ calls[d].generation # 0
          /\ loads[calls[d].key].generation = calls[d].generation
          /\ d \in Followers(calls[d].key, calls[d].generation)
      BY DEF WaitersKeepTheirLoad, TypeOK, Call, Followers
    <2>2. loads[calls[d].key].followers = Cardinality(Followers(calls[d].key, calls[d].generation))
      BY <2>1, EntryPresent, ZenonT(20) DEF FollowersCounted
    <2>3. loads[calls[d].key].followers # 0
      BY <2>1, <2>2, FollowersFinite, FS_EmptySet
    <2> QED
      BY <2>1, <2>3, <1>1, SMTT(20)
  <1>8. FollowersCounted'
    <2> SUFFICES ASSUME NEW j \in Keys, loads'[j] # NoLoad
                 PROVE  (loads[j].followers = Cardinality(Followers(j, loads[j].generation)))'
      BY DEF FollowersCounted
    <2>1. /\ loads'[j].generation = loads[j].generation
          /\ loads'[j].followers = loads[j].followers /\ loads[j].generation # 0
      BY <1>1, <1>4, SMTT(20)
    <2>2. loads[j] # NoLoad
      BY <2>1, <1>0
    <2> QED
      BY <2>1, <2>2, <1>3, ZenonT(20) DEF FollowersCounted
  <1>9. EveryLoadHasAnOwner'
    <2>1. ASSUME NEW k \in Keys, loads'[k] # NoLoad
          PROVE  loads'[k].completion # Unset /\ loads'[k].followers > 0
      <3>1. loads[k].followers \in Nat
        BY DEF TypeOK, Load
      <3>2. /\ loads'[k].followers = loads[k].followers /\ loads[k].followers # 0
            /\ loads'[k].completion = IF loads[k].completion = Unset THEN "shutdown"
                                      ELSE loads[k].completion
        BY <1>1, <2>1
      <3>3. loads'[k].followers > 0
        BY <3>1, <3>2
      <3>4. loads'[k].completion # Unset
        BY <3>2, Values
      <3> QED
        BY <3>3, <3>4
    <2> QED
      BY <2>1 DEF EveryLoadHasAnOwner
  <1>10. \A k \in Keys : loads[k].generation # 0 => loads[k].generation \in Generations
    BY GenerationsOfLoads
  <1>11. OutcomesRecorded'
    <2>1. ASSUME NEW k \in Keys, loads'[k].generation # 0
          PROVE  outcome'[loads'[k].generation] = loads'[k].completion
      <3>1. /\ loads'[k].generation = loads[k].generation
            /\ loads[k].generation \in Generations
            /\ loads'[k].completion = IF loads[k].completion = Unset THEN "shutdown"
                                      ELSE loads[k].completion
        BY <2>1, <1>0, <1>1, <1>10, SMTT(20)
      <3>2. \A j \in Keys : loads[j].generation = loads[k].generation => j = k
        BY <2>1, <3>1 DEF LoadsWellFormed
      <3> QED
        BY <2>1, <3>1, <3>2, <1>2 DEF OutcomesRecorded
    <2>2. \A g \in Generations : g > nextGeneration' => outcome'[g] = Unset
      <3> SUFFICES ASSUME NEW g \in Generations, g > nextGeneration
                   PROVE  outcome'[g] = Unset
        BY <1>0
      <3>1. \A k \in Keys : loads[k].generation # g
        BY SMTT(20) DEF LoadsWellFormed, TypeOK, Load, Generations
      <3> QED
        BY <3>1, <1>2 DEF OutcomesRecorded
    <2> QED
      BY <2>1, <2>2 DEF OutcomesRecorded
  <1>12. DeliveredIsOwnOutcome'
    <2> SUFFICES ASSUME NEW d \in Callers, HoldsWaiter(d), calls[d].result \in Completions
                 PROVE  outcome'[calls[d].generation] = calls[d].result
      BY <1>0, <1>3, ZenonT(20) DEF DeliveredIsOwnOutcome
    <2> DEFINE k == calls[d].key
    <2>1. /\ k \in Keys /\ loads[k].generation = calls[d].generation
          /\ calls[d].generation # 0
      BY DEF WaitersKeepTheirLoad, TypeOK, Call
    <2>2. outcome[loads[k].generation] = calls[d].result /\ calls[d].result # Unset
      BY <2>1, Values DEF DeliveredIsOwnOutcome
    <2>3. loads[k].completion # Unset
      BY <2>1, <2>2 DEF OutcomesRecorded
    <2>4. \A j \in Keys : loads[j].generation = loads[k].generation => j = k
      BY <2>1 DEF LoadsWellFormed
    <2> QED
      BY <2>1, <2>2, <2>3, <2>4, <1>2, <1>10
  <1> QED
    BY <1>5, <1>6, <1>7, <1>8, <1>9, <1>11, <1>12

-----------------------------------------------------------------------------
(* The theorems. *)

\* Every step keeps the invariant.
LEMMA IInvNext == IInv /\ [Next]_vars => IInv'
  <1> SUFFICES ASSUME IInv, [Next]_vars
               PROVE  IInv'
    OBVIOUS
  <1>0. TypeOK'
    BY TypeNext DEF IInv
  <1>1. ASSUME NEW c \in Callers, NEW k \in Keys, ReserveFollower(c, k)
        PROVE  IInv'
    BY <1>0, <1>1, IInvReserveFollower
  <1>2. ASSUME NEW c \in Callers, NEW k \in Keys, ReserveLeader(c, k)
        PROVE  IInv'
    BY <1>0, <1>2, IInvReserveLeader
  <1>3. ASSUME NEW c \in Callers, NEW v \in Published, PublishLoad(c, v)
        PROVE  IInv'
    BY <1>0, <1>3, IInvPublishLoad
  <1>4. ASSUME NEW c \in Callers, PublishRefused(c) \/ DropLease(c)
        PROVE  IInv'
    BY <1>0, <1>4, IInvPublishRefused, IInvDropLease
  <1>5. ASSUME NEW c \in Callers, WakeOne(c) \/ PollReady(c) \/ PollPending(c) \/ EndWait(c)
        PROVE  IInv'
    BY <1>0, <1>5, IInvWakeOne, IInvPollReady, IInvPollPending, IInvEndWait
  <1>6. ASSUME NEW c \in Callers, ReleaseWaiter(c)
        PROVE  IInv'
    BY <1>0, <1>6, IInvReleaseWaiter
  <1>7. CASE Shutdown
    BY <1>0, <1>7, IInvShutdown
  <1>8. CASE UNCHANGED vars
    <2>1. DeliveredIsOwnOutcome'
      BY <1>8 DEF IInv, DeliveredIsOwnOutcome, HoldsWaiter, vars
    <2> QED
      BY <2>1, <1>0, <1>8, IInvSameTokens, ZenonT(20) DEF IInv, vars, LoadsWellFormed, HoldsLease, HoldsWaiter
  <1> QED
    BY <1>1, <1>2, <1>3, <1>4, <1>5, <1>6, <1>7, <1>8 DEF Next, FinishLease, Poll

\* The inductive invariant of the load table of memory.rs holds throughout.
THEOREM Inductive == Spec => []IInv
  BY IInvInit, IInvNext, PTL DEF Spec

\* reserve_load never hands out two leases for one key.
THEOREM SingleLeader == Spec => []OneLeader
  <1>1. IInv => OneLeader
    BY DEF IInv
  <1> QED
    BY <1>1, Inductive, PTL

\* The entry a waiter token names stays until release_waiter, so that wait_load
\* never takes a ProtocolViolation branch, and what it delivers is the
\* completion of the load the follower joined.
THEOREM FollowersAreServed ==
    Spec => [](WaitersKeepTheirLoad /\ DeliveredIsOwnOutcome)
  <1>1. IInv => WaitersKeepTheirLoad /\ DeliveredIsOwnOutcome
    BY DEF IInv
  <1> QED
    BY <1>1, Inductive, PTL

\* The follower count of an entry is exact and no entry is left without the
\* lease or the waiter whose end removes it.
THEOREM NoLeakedLoad == Spec => [](FollowersCounted /\ EveryLoadHasAnOwner)
  <1>1. IInv => FollowersCounted /\ EveryLoadHasAnOwner
    BY DEF IInv
  <1> QED
    BY <1>1, Inductive, PTL

\* complete_load completes a load at most once, also when shutdown races the
\* leader's publication.
THEOREM CompletedOnce == Spec => OutcomeNeverChanges
  <1>1. IInv /\ [Next]_vars
          => [\A g \in Generations : outcome[g] # Unset => outcome'[g] = outcome[g]]_vars
    <2> SUFFICES ASSUME IInv, [Next]_vars, NEW g \in Generations, outcome[g] # Unset
                 PROVE  outcome'[g] = outcome[g]
      OBVIOUS
    <2> USE DEF IInv
    <2>1. ASSUME NEW c \in Callers, NEW v, HoldsLease(c),
                 Completable(calls[c].key, calls[c].generation),
                 CompleteLoad(calls[c].key, calls[c].generation, v)
          PROVE  outcome'[g] = outcome[g]
      <3>1. calls[c].key \in Keys /\ calls[c].generation \in Generations
        BY <2>1, SingleFlightAssumption DEF TypeOK, Call, LeasesAreOpen, Generations
      <3>2. outcome[calls[c].generation] = Unset
        BY <2>1, <3>1, ZenonT(20) DEF Completable, OutcomesRecorded, LeasesAreOpen
      <3> QED
        BY <2>1, <3>1, <3>2 DEF CompleteLoad, TypeOK
    <2>2. ASSUME NEW c \in Callers, FinishLease(c)
          PROVE  outcome'[g] = outcome[g]
      <3>1. ASSUME NEW v \in Published, PublishLoad(c, v)
            PROVE  outcome'[g] = outcome[g]
        BY <3>1, <2>1 DEF PublishLoad, HoldsLease
      <3>2. CASE DropLease(c)
        BY <3>2, <2>1 DEF DropLease
      <3> QED
        BY <2>2, <3>1, <3>2, SMTT(20) DEF FinishLease, PublishRefused
    <2>3. CASE Shutdown
      <3>1. g # 0
        BY DEF Generations
      <3>2. ~ \E k \in Keys : loads[k].generation = g /\ loads[k].completion = Unset
        BY <3>1 DEF OutcomesRecorded
      <3> QED
        BY <2>3, <3>2 DEF Shutdown
    <2>4. CASE outcome' = outcome
      BY <2>4
    <2> QED
      BY <2>2, <2>3, <2>4, ZenonT(20) DEF Next, vars, ReserveFollower, ReserveLeader, WakeOne, Poll,
                              PollReady, PollPending, EndWait, ReleaseWaiter
  <1> QED
    BY <1>1, Inductive, PTL DEF Spec, OutcomeNeverChanges

=============================================================================
