------------------------ MODULE SingleFlightRefinement ------------------------
(***************************************************************************)
(* The load map of cache/memory/moka.rs implements what store.rs promises  *)
(* of a CacheStore's loads: SingleFlight, seen through the refinement      *)
(* mapping of ImplementsContract, is LoadContract.                         *)
(*                                                                         *)
(* Three more invariants, on top of those of SingleFlightProofs, say what  *)
(* the mapping reads: which key a generation belongs to, that an open load *)
(* is in the map, and that a task's record fits the step it is at.         *)
(***************************************************************************)
EXTENDS SingleFlightProofs

\* Every generation handed out belongs to one key: that of its entry and of the
\* tokens that name it.
OriginsKnown ==
    /\ \A g \in Generations : origin[g] # {} <=> g <= nextGeneration
    /\ \A k \in Keys : loads[k].generation # 0 => origin[loads[k].generation] = {k}
    /\ \A c \in Callers : HoldsLease(c) \/ HoldsWaiter(c) =>
           calls[c].generation \in Generations /\ origin[calls[c].generation] = {calls[c].key}

\* A load without a completion is in the map.
OpenIsKept ==
    \A g \in Generations : g <= nextGeneration /\ outcome[g] = Unset =>
        \E k \in Keys : loads[k].generation = g

\* What a task was told fits the step it is at.
CallsAreShaped ==
    \A c \in Callers :
        /\ calls[c].pc = "idle" => calls[c] = Idle
        /\ calls[c].pc \in {"leading", "unpublished", "waiting", "parked"} => calls[c].result = Unset
        /\ calls[c].pc = "releasing" => calls[c].result # Unset

\* What the refinement needs beyond the inductive invariant.
MapInv == IInv /\ OriginsKnown /\ OpenIsKept /\ CallsAreShaped

\* The refinement's invariant holds of the empty load table.
LEMMA MapInit == Init => MapInv
  <1> SUFFICES ASSUME Init PROVE MapInv
    OBVIOUS
  <1>1. IInv
    BY IInvInit
  <1>2. OriginsKnown /\ OpenIsKept
    BY SingleFlightAssumption DEF Init, OriginsKnown, OpenIsKept, Generations, NoLoad, Idle,
       HoldsLease, HoldsWaiter
  <1>3. CallsAreShaped
    BY DEF Init, CallsAreShaped, Idle
  <1> QED
    BY <1>1, <1>2, <1>3, SMTT(20) DEF MapInv

\* What the steps of the tasks have in common: the generation and the key of a token
\* stay, and an entry goes only when its load is complete.
TokensMove ==
    /\ origin' = origin /\ nextGeneration' = nextGeneration
    /\ \A k \in Keys : \/ loads'[k].generation = loads[k].generation
                       \/ loads'[k].generation = 0
    /\ \A g \in Generations : outcome'[g] = Unset =>
           outcome[g] = Unset /\ \A k \in Keys : loads[k].generation = g => loads'[k].generation = g
    /\ \A c \in Callers :
           \/ ~HoldsLease(c)' /\ ~HoldsWaiter(c)'
           \/ /\ HoldsLease(c) \/ HoldsWaiter(c)
              /\ calls'[c].key = calls[c].key /\ calls'[c].generation = calls[c].generation

\* A step of this kind keeps the origins and the open loads.
LEMMA TokensFrame ==
    ASSUME MapInv, IInv', TokensMove
    PROVE  OriginsKnown' /\ OpenIsKept'
  <1>1. OriginsKnown'
    BY DEF MapInv, OriginsKnown, TokensMove, HoldsLease, HoldsWaiter
  <1>2. OpenIsKept'
    BY DEF MapInv, OpenIsKept, TokensMove
  <1> QED
    BY <1>1, <1>2

-----------------------------------------------------------------------------
(* What the contract sees of a state. *)

PromiseMap == [g \in Generations |-> PromiseOf(g)]
RoleMap == [c \in Callers |-> RoleOf(c)]

\* A promise was made for every generation handed out, and for no other.
LEMMA UsedPromises ==
    ASSUME MapInv, NEW g \in Generations
    PROVE  Contract!Used(g) <=> g <= nextGeneration
  <1>1. Contract!Used(g) <=> PromiseOf(g) # Contract!Unused
    BY DEF Contract!Used
  <1>2. PromiseOf(g) = Contract!Unused <=> origin[g] = {} /\ outcome[g] = Unset
    BY DEF PromiseOf, Contract!Unused, Contract!Open, Unset
  <1>3. g \in Nat /\ nextGeneration \in Nat
    BY SingleFlightAssumption DEF MapInv, IInv, TypeOK, Generations
  <1>4. g > nextGeneration => outcome[g] = Unset
    BY DEF MapInv, IInv, OutcomesRecorded
  <1> QED
    BY <1>1, <1>2, <1>3, <1>4 DEF MapInv, OriginsKnown

\* A promise is live exactly while its load is in the map.
LEMMA LivePromises ==
    ASSUME MapInv, NEW g \in Generations
    PROVE  Contract!Live(g) <=> \E k \in Keys : loads[k].generation = g
  <1> USE DEF MapInv, IInv
  <1>0. g \in Nat /\ g # 0 /\ nextGeneration \in Nat
    BY SingleFlightAssumption DEF TypeOK, Generations
  <1>1. Contract!Live(g) <=>
           /\ g <= nextGeneration
           /\ outcome[g] = Unset \/ \E c \in Callers : HoldsWaiter(c) /\ calls[c].generation = g
    <2>1. \A c \in Callers : RoleOf(c).kind = "follower" <=> HoldsWaiter(c)
      BY DEF RoleOf, HoldsWaiter, HoldsLease
    <2> QED
      BY <2>1, UsedPromises, ZenonT(20) DEF Contract!Live, Contract!Open, PromiseOf, Unset, RoleOf
  <1>2. ASSUME Contract!Live(g) PROVE \E k \in Keys : loads[k].generation = g
    <2>1. CASE outcome[g] = Unset
      BY <1>1, <1>2, <2>1, SMTT(20) DEF OpenIsKept
    <2>2. ASSUME NEW c \in Callers, HoldsWaiter(c), calls[c].generation = g
          PROVE  \E k \in Keys : loads[k].generation = g
      BY <2>2 DEF WaitersKeepTheirLoad, TypeOK, Call
    <2> QED
      BY <1>1, <1>2, <2>1, <2>2
  <1>3. ASSUME NEW k \in Keys, loads[k].generation = g PROVE Contract!Live(g)
    <2>1. g <= nextGeneration
      BY <1>3 DEF LoadsWellFormed
    <2>2. outcome[g] = loads[k].completion /\ loads[k] # NoLoad
      BY <1>0, <1>3, EntryPresent DEF OutcomesRecorded
    <2>3. CASE loads[k].completion # Unset
      <3>1. Cardinality(Followers(k, g)) > 0
        BY <2>2, <2>3, <1>3 DEF EveryLoadHasAnOwner, FollowersCounted
      <3>2. Followers(k, g) # {}
        BY <3>1, FS_EmptySet
      <3> QED
        BY <3>2, <2>1, <1>1 DEF Followers
    <2> QED
      BY <1>1, <2>1, <2>2, <2>3, SMTT(20)
  <1> QED
    BY <1>2, <1>3

\* A step of one task changes one role.
LEMMA OneRole ==
    ASSUME NEW c \in Callers, NEW R, RoleOf(c)' = R,
           \A d \in Callers : d # c => calls'[d] = calls[d]
    PROVE  RoleMap' = [RoleMap EXCEPT ![c] = R]
  <1>1. \A d \in Callers : d # c => RoleOf(d)' = RoleOf(d)
    BY DEF RoleOf, HoldsLease, HoldsWaiter
  <1> QED
    BY <1>1, ZenonT(20) DEF RoleMap

-----------------------------------------------------------------------------
(* Every step of the load map is a step of the contract. *)

\* The goal of each action's lemma.
Refines == CallsAreShaped' /\ OriginsKnown' /\ OpenIsKept' /\ [Contract!Next]_(Contract!vars)

\* Reserving an open or completed entry is joining its promise.
LEMMA RefReserveFollower ==
    ASSUME MapInv, IInv', NEW c \in Callers, NEW k \in Keys, ReserveFollower(c, k)
    PROVE  Refines
  <1> USE DEF MapInv, IInv
  <1> DEFINE g == loads[k].generation
  <1>1. g \in Generations /\ g # 0
    BY EntryPresent, GenerationsOfLoads DEF ReserveFollower
  <1>2. calls' = [calls EXCEPT ![c] = [pc |-> "waiting", key |-> k, generation |-> g,
                                       result |-> Unset]]
        /\ calls \in [Callers -> Call]
    BY DEF ReserveFollower, TypeOK
  <1>3. /\ calls'[c] = [pc |-> "waiting", key |-> k, generation |-> g, result |-> Unset]
        /\ \A d \in Callers : d # c => calls'[d] = calls[d]
    BY <1>2, SMTT(20)
  <1>4. CallsAreShaped'
    BY <1>3, SMTT(20) DEF CallsAreShaped
  <1>5. \A j \in Keys : loads'[j].generation = loads[j].generation
    BY SMTT(20) DEF ReserveFollower, TypeOK, Load
  <1>6. OriginsKnown'
    <2>1. origin' = origin /\ nextGeneration' = nextGeneration BY DEF ReserveFollower
    <2>2. \A j \in Keys : loads'[j].generation # 0 => origin'[loads'[j].generation] = {j}
      BY <1>5, <2>1 DEF OriginsKnown
    <2>3. origin[g] = {k} BY <1>1 DEF OriginsKnown
    <2>4. \A d \in Callers : HoldsLease(d)' \/ HoldsWaiter(d)' =>
             calls'[d].generation \in Generations /\ origin'[calls'[d].generation] = {calls'[d].key}
      <3>1. ASSUME NEW d \in Callers, d # c, HoldsLease(d)' \/ HoldsWaiter(d)'
            PROVE  calls'[d].generation \in Generations /\ origin'[calls'[d].generation] = {calls'[d].key}
        BY <3>1, <1>3, <2>1, SMTT(20) DEF OriginsKnown, HoldsLease, HoldsWaiter
      <3>2. calls'[c].generation \in Generations /\ origin'[calls'[c].generation] = {calls'[c].key}
        BY <1>1, <1>3, <2>1, <2>3
      <3> QED BY <3>1, <3>2, SMTT(20)
    <2> QED BY <2>1, <2>2, <2>4 DEF OriginsKnown
  <1>7. OpenIsKept'
    BY <1>5 DEF OpenIsKept, ReserveFollower
  <1>8. Contract!Follow(c, g)
    <2>1. RoleMap[c] = Contract!Out
      BY DEF RoleMap, RoleOf, CallsAreShaped, ReserveFollower, Contract!Out, Idle, Unset,
             HoldsLease, HoldsWaiter, Contract!Open
    <2>2. Contract!Live(g) BY <1>1, LivePromises, SMTT(20)
    <2>3. RoleMap' = [RoleMap EXCEPT ![c] = [kind |-> "follower", promise |-> g, seen |-> Contract!Open]]
      <3>1. RoleOf(c)' = [kind |-> "follower", promise |-> g, seen |-> Contract!Open]
        BY <1>3 DEF RoleOf, HoldsLease, HoldsWaiter, Contract!Open, Unset
      <3> QED BY <3>1, <1>3, OneRole, SMTT(20)
    <2>4. PromiseMap' = PromiseMap BY DEF PromiseMap, PromiseOf, ReserveFollower
    <2> QED
      BY <2>1, <2>2, <2>3, <2>4, SMTT(20) DEF Contract!Follow, RoleMap, PromiseMap, ReserveFollower
  <1> QED
    BY <1>1, <1>4, <1>6, <1>7, <1>8, SMTT(20) DEF Refines, Contract!Next, Contract!Promises, Generations

\* Reserving an absent entry is making the next promise.
LEMMA RefReserveLeader ==
    ASSUME MapInv, IInv', NEW c \in Callers, NEW k \in Keys, ReserveLeader(c, k)
    PROVE  Refines
  <1> USE DEF MapInv, IInv
  <1> DEFINE g == nextGeneration + 1
  <1>1. g \in Generations /\ g # 0 /\ nextGeneration \in Nat /\ MaxGen \in Nat
    BY SingleFlightAssumption DEF ReserveLeader, TypeOK, Generations
  <1>2. /\ calls'[c] = [pc |-> "leading", key |-> k, generation |-> g, result |-> Unset]
        /\ \A d \in Callers : d # c => calls'[d] = calls[d]
    BY DEF ReserveLeader, TypeOK
  <1>3. CallsAreShaped'
    BY <1>2, SMTT(20) DEF CallsAreShaped
  <1>4. /\ loads'[k].generation = g /\ \A j \in Keys : j # k => loads'[j] = loads[j]
        /\ loads[k].generation = 0
    BY DEF ReserveLeader, TypeOK, NoLoad
  <1>5. origin'[g] = {k} /\ \A h \in Generations : h # g => origin'[h] = origin[h]
    BY <1>1 DEF ReserveLeader, TypeOK
  <1>6. nextGeneration' = g /\ outcome' = outcome
    BY DEF ReserveLeader
  <1>7. \A j \in Keys : loads[j].generation # 0 =>
            loads[j].generation \in Generations /\ loads[j].generation # g
    BY <1>1, GenerationsOfLoads DEF LoadsWellFormed, Generations
  <1>8. \A d \in Callers : HoldsLease(d) \/ HoldsWaiter(d) => calls[d].generation # g
    BY <1>1, SMTT(20) DEF OriginsKnown, Generations
  <1>9. OriginsKnown'
    <2>1. \A h \in Generations : origin'[h] # {} <=> h <= nextGeneration'
      <3>1. ASSUME NEW h \in Generations PROVE origin'[h] # {} <=> h <= nextGeneration'
        BY <1>1, <1>5, <1>6, SMTT(20) DEF OriginsKnown, Generations
      <3> QED BY <3>1, SMTT(20)
    <2>2. \A j \in Keys : loads'[j].generation # 0 => origin'[loads'[j].generation] = {j}
      BY <1>4, <1>5, <1>7, SMTT(20) DEF OriginsKnown
    <2>3. \A d \in Callers : HoldsLease(d)' \/ HoldsWaiter(d)' =>
             calls'[d].generation \in Generations /\ origin'[calls'[d].generation] = {calls'[d].key}
      BY <1>1, <1>2, <1>5, <1>8 DEF OriginsKnown, HoldsLease, HoldsWaiter
    <2> QED BY <2>1, <2>2, <2>3 DEF OriginsKnown
  <1>10. OpenIsKept'
    <2>1. ASSUME NEW h \in Generations, h <= nextGeneration', outcome'[h] = Unset
          PROVE  \E j \in Keys : loads'[j].generation = h
      <3>1. CASE h = g BY <3>1, <1>4
      <3>2. CASE h # g
        <4>1. h <= nextGeneration BY <3>2, <2>1, <1>1, <1>6 DEF Generations
        <4>2. PICK j \in Keys : loads[j].generation = h BY <4>1, <2>1, <1>6 DEF OpenIsKept
        <4>3. j # k BY <4>2, <1>4 DEF Generations
        <4> QED BY <4>2, <4>3, <1>4
      <3> QED BY <3>1, <3>2
    <2> QED BY <2>1 DEF OpenIsKept
  <1>11. Contract!Lead(c, k)
    <2>1. RoleMap[c] = Contract!Out
      BY SMTT(20) DEF RoleMap, RoleOf, CallsAreShaped, ReserveLeader, Contract!Out, Idle, Unset,
             HoldsLease, HoldsWaiter, Contract!Open
    <2>2. ~ \E p \in Contract!Promises : Contract!Live(p) /\ PromiseMap[p].key = {k}
      <3>1. SUFFICES ASSUME NEW p \in Generations, Contract!Live(p), origin[p] = {k} PROVE FALSE
        BY ZenonT(20) DEF Contract!Promises, Generations, PromiseMap, PromiseOf
      <3>2. PICK j \in Keys : loads[j].generation = p BY <3>1, LivePromises
      <3>3. origin[p] = {j} BY <3>1, <3>2 DEF OriginsKnown, Generations
      <3>4. j = k BY <3>1, <3>3
      <3> QED BY <3>1, <3>2, <3>4, <1>4 DEF Generations
    <2>3. ~Contract!Used(g) /\ \A q \in 1..(g - 1) : Contract!Used(q)
      <3>1. ~Contract!Used(g) BY <1>1, UsedPromises
      <3>2. ASSUME NEW q \in 1..(g - 1) PROVE Contract!Used(q)
        <4>1. q \in Generations /\ q <= nextGeneration BY <1>1 DEF Generations
        <4> QED BY <4>1, UsedPromises
      <3> QED BY <3>1, <3>2
    <2>4. PromiseMap' = [PromiseMap EXCEPT ![g].key = {k}]
      BY <1>1, <1>5, <1>6, ZenonT(20) DEF PromiseMap, PromiseOf
    <2>5. RoleMap' = [RoleMap EXCEPT ![c] = [kind |-> "leader", promise |-> g, seen |-> Contract!Open]]
      <3>1. RoleOf(c)' = [kind |-> "leader", promise |-> g, seen |-> Contract!Open]
        BY <1>2 DEF RoleOf, HoldsLease, HoldsWaiter, Contract!Open, Unset
      <3> QED BY <3>1, <1>2, OneRole, SMTT(20)
    <2>6. g \in Contract!Promises BY <1>1 DEF Contract!Promises, Generations
    <2>7. ~shuttingDown /\ shuttingDown' = shuttingDown BY DEF ReserveLeader
    <2> HIDE DEF g
    <2> QED
      BY <2>1, <2>2, <2>3, <2>4, <2>5, <2>6, <2>7, ZenonT(20) DEF Contract!Lead, RoleMap, PromiseMap
  <1> QED
    BY <1>3, <1>9, <1>10, <1>11, SMTT(20) DEF Refines, Contract!Next

\* A lease is the leader's role, and returning it leaves the role.
LEMMA LeaseRole ==
    ASSUME MapInv, NEW c \in Callers, HoldsLease(c), Return(c)
    PROVE  /\ RoleMap[c].kind = "leader" /\ RoleMap[c].promise = calls[c].generation
           /\ RoleMap' = [RoleMap EXCEPT ![c] = Contract!Out]
           /\ CallsAreShaped'
           /\ \A d \in Callers :
                 \/ ~HoldsLease(d)' /\ ~HoldsWaiter(d)'
                 \/ /\ HoldsLease(d) \/ HoldsWaiter(d)
                    /\ calls'[d].key = calls[d].key /\ calls'[d].generation = calls[d].generation
  <1>1. /\ calls'[c] = Idle /\ \A d \in Callers : d # c => calls'[d] = calls[d]
        /\ ~HoldsLease(c)' /\ ~HoldsWaiter(c)'
    BY LeaseReturn DEF MapInv
  <1>2. RoleMap[c].kind = "leader" /\ RoleMap[c].promise = calls[c].generation
    BY DEF RoleMap, RoleOf
  <1>3. RoleMap' = [RoleMap EXCEPT ![c] = Contract!Out]
    <2>1. RoleOf(c)' = Contract!Out
      BY <1>1, SMTT(20) DEF RoleOf, HoldsLease, HoldsWaiter, Contract!Out, Contract!Open, Idle, Unset
    <2> QED BY <2>1, <1>1, OneRole, SMTT(20)
  <1>4. CallsAreShaped'
    BY <1>1, SMTT(20) DEF MapInv, CallsAreShaped, Idle
  <1> QED
    BY <1>1, <1>2, <1>3, <1>4, SMTT(20) DEF HoldsLease, HoldsWaiter

\* Completing a load settles its promise.
LEMMA RefCompleted ==
    ASSUME MapInv, IInv', NEW c \in Callers, HoldsLease(c), Return(c),
           Completable(calls[c].key, calls[c].generation),
           NEW v \in {"ready", "failed", "abandoned"},
           CompleteLoad(calls[c].key, calls[c].generation, v),
           UNCHANGED <<nextGeneration, shuttingDown, origin>>
    PROVE  Refines
  <1> USE DEF MapInv, IInv
  <1> DEFINE k == calls[c].key
             g == calls[c].generation
  <1>1. k \in Keys /\ g \in Generations /\ g # 0 /\ loads[k].generation = g
    BY DEF TypeOK, Call, OriginsKnown, Completable, Generations
  <1>2. loads[k].completion = Unset /\ outcome[g] = Unset
    BY <1>1, ZenonT(20) DEF Completable, OutcomesRecorded
  <1>3. /\ outcome'[g] = v /\ \A h \in Generations : h # g => outcome'[h] = outcome[h]
        /\ v # Unset
    BY <1>1, SMTT(20) DEF CompleteLoad, TypeOK, Unset
  <1>4. /\ \A j \in Keys : j # k => loads'[j] = loads[j]
        /\ loads'[k].generation = g \/ loads'[k].generation = 0
    BY <1>1 DEF CompleteLoad, TypeOK, Load, NoLoad
  <1>5. TokensMove
    <2>1. \A h \in Generations : outcome'[h] = Unset =>
             outcome[h] = Unset /\ \A j \in Keys : loads[j].generation = h => loads'[j].generation = h
      BY <1>1, <1>3, <1>4, ZenonT(20)
    <2>2. \A j \in Keys : loads'[j].generation = loads[j].generation \/ loads'[j].generation = 0
      BY <1>1, <1>4
    <2> QED
      BY <2>1, <2>2, LeaseRole, ZenonT(20) DEF TokensMove
  <1>6. Contract!EndLease(c, v)
    <2>1. PromiseMap' = [PromiseMap EXCEPT ![g].outcome = IF @ = Contract!Open THEN v ELSE @]
      BY <1>1, <1>2, <1>3, SMTT(20) DEF PromiseMap, PromiseOf, Contract!Open, Unset
    <2> HIDE DEF g
    <2> QED
      BY <2>1, LeaseRole, ZenonT(20) DEF Contract!EndLease, PromiseMap, RoleMap, g
  <1> QED
    BY <1>5, <1>6, LeaseRole, TokensFrame, SMTT(20) DEF Refines, Contract!Next

\* Dropping the lease of a load that shutdown has completed settles nothing.
LEMMA RefLeaseReturned ==
    ASSUME MapInv, IInv', NEW c \in Callers, HoldsLease(c), Return(c),
           ~Completable(calls[c].key, calls[c].generation),
           UNCHANGED <<loads, nextGeneration, shuttingDown, outcome, origin>>
    PROVE  Refines
  <1> USE DEF MapInv, IInv
  <1> DEFINE k == calls[c].key
             g == calls[c].generation
  <1>1. k \in Keys /\ g \in Generations /\ origin[g] = {k}
    BY SMTT(20) DEF TypeOK, Call, OriginsKnown
  <1>2. outcome[g] # Unset
    <2>1. SUFFICES ASSUME outcome[g] = Unset PROVE FALSE BY SMTT(20)
    <2>2. g <= nextGeneration BY <1>1, SMTT(20) DEF OriginsKnown
    <2>3. PICK j \in Keys : loads[j].generation = g BY <1>1, <2>1, <2>2, SMTT(20) DEF OpenIsKept
    <2>4. j = k BY <1>1, <2>3, SMTT(20) DEF OriginsKnown, Generations
    <2>5. loads[k].completion = Unset BY <1>1, <2>1, <2>3, <2>4 DEF OutcomesRecorded, Generations
    <2> QED BY <2>3, <2>4, <2>5, SMTT(20) DEF Completable
  <1>3. TokensMove
    BY LeaseRole, ZenonT(20) DEF TokensMove
  <1>4. Contract!EndLease(c, "abandoned")
    <2>1. PromiseMap' = PromiseMap BY SMTT(20) DEF PromiseMap, PromiseOf
    <2>2. PromiseMap' = [PromiseMap EXCEPT ![g].outcome = IF @ = Contract!Open THEN "abandoned" ELSE @]
      BY <1>1, <1>2, <2>1, SMTT(20) DEF PromiseMap, PromiseOf, Contract!Open, Unset
    <2> HIDE DEF g
    <2> QED
      BY <2>2, LeaseRole, ZenonT(20) DEF Contract!EndLease, PromiseMap, RoleMap, g
  <1> QED
    BY <1>3, <1>4, LeaseRole, TokensFrame, SMTT(20) DEF Refines, Contract!Next

\* Steps the contract does not see: a refused publication, a waker, a poll that parks.
LEMMA RefUnseen ==
    ASSUME MapInv, IInv',
           UNCHANGED <<nextGeneration, shuttingDown, outcome, origin>>,
           \A k \in Keys : loads'[k].generation = loads[k].generation,
           \A c \in Callers : /\ calls'[c].key = calls[c].key
                              /\ calls'[c].generation = calls[c].generation
                              /\ calls'[c].result = calls[c].result
                              /\ HoldsLease(c)' <=> HoldsLease(c)
                              /\ HoldsWaiter(c)' <=> HoldsWaiter(c),
           CallsAreShaped'
    PROVE  Refines
  <1>1. TokensMove
    BY DEF TokensMove
  <1>2. PromiseMap' = PromiseMap BY SMTT(20) DEF PromiseMap, PromiseOf
  <1>3. RoleMap' = RoleMap BY DEF RoleMap, RoleOf
  <1>4. UNCHANGED Contract!vars
    BY <1>2, <1>3 DEF Contract!vars, PromiseMap, RoleMap
  <1> QED
    BY <1>1, <1>4, TokensFrame, SMTT(20) DEF Refines

\* A step of one waiter that keeps its token.
LEMMA WaiterMoves ==
    ASSUME MapInv, IInv', NEW c \in Callers, HoldsWaiter(c), NEW v,
           v # Unset, MoveTo(c, "releasing", v),
           UNCHANGED <<loads, nextGeneration, shuttingDown, outcome, origin>>
    PROVE  /\ CallsAreShaped' /\ OriginsKnown' /\ OpenIsKept'
           /\ PromiseMap' = PromiseMap
           /\ RoleMap[c].kind = "follower" /\ RoleMap[c].promise = calls[c].generation
           /\ RoleMap[c].seen = calls[c].result
           /\ RoleMap' = [RoleMap EXCEPT ![c].seen = v]
  <1> USE DEF MapInv, IInv
  <1>1. /\ calls'[c].pc = "releasing" /\ calls'[c].result = v
        /\ calls'[c].key = calls[c].key /\ calls'[c].generation = calls[c].generation
        /\ \A d \in Callers : d # c => calls'[d] = calls[d]
    BY SMTT(20) DEF MoveTo, TypeOK, Call
  <1>2. CallsAreShaped'
    BY <1>1, SMTT(20) DEF CallsAreShaped
  <1>3. TokensMove
    BY <1>1 DEF TokensMove, HoldsWaiter, HoldsLease
  <1>4. PromiseMap' = PromiseMap BY DEF PromiseMap, PromiseOf
  <1>5. /\ RoleMap[c].kind = "follower" /\ RoleMap[c].promise = calls[c].generation
        /\ RoleMap[c].seen = calls[c].result
    BY DEF RoleMap, RoleOf, HoldsWaiter, HoldsLease
  <1>6. RoleMap' = [RoleMap EXCEPT ![c].seen = v]
    BY <1>1, ZenonT(20) DEF RoleMap, RoleOf, HoldsWaiter, HoldsLease
  <1> QED
    BY <1>2, <1>3, <1>4, <1>5, <1>6, TokensFrame, SMTT(20)

\* A poll that finds the completion learns the promise's outcome.
LEMMA RefPollReady ==
    ASSUME MapInv, IInv', NEW c \in Callers, PollReady(c)
    PROVE  Refines
  <1> USE DEF MapInv, IInv
  <1> DEFINE k == calls[c].key
             g == calls[c].generation
             v == PollLoad(k, g)
  <1>1. HoldsWaiter(c) /\ calls[c].result = Unset
    BY DEF PollReady, Pollable, HoldsWaiter, CallsAreShaped
  <1>2. k \in Keys /\ loads[k].generation = g /\ g # 0 /\ g \in Generations
    BY <1>1, GenerationsOfWaiters, SMTT(20) DEF WaitersKeepTheirLoad, TypeOK, Call
  <1>3. v = outcome[g] /\ v # Unset
    BY <1>2 DEF PollReady, PollLoad, OutcomesRecorded
  <1>4. MoveTo(c, "releasing", v) /\ UNCHANGED <<loads, nextGeneration, shuttingDown, outcome, origin>>
    BY DEF PollReady
  <1> HIDE DEF v
  <1>5. /\ CallsAreShaped' /\ OriginsKnown' /\ OpenIsKept'
        /\ PromiseMap' = PromiseMap
        /\ RoleMap[c].kind = "follower" /\ RoleMap[c].promise = calls[c].generation
        /\ RoleMap[c].seen = calls[c].result
        /\ RoleMap' = [RoleMap EXCEPT ![c].seen = v]
    BY <1>1, <1>3, <1>4, WaiterMoves, SMTT(20)
  <1>6. PromiseMap[g].outcome = v BY <1>2, <1>3 DEF PromiseMap, PromiseOf
  <1> HIDE DEF g
  <1>7. Contract!Learn(c)
    BY <1>1, <1>3, <1>4, <1>5, <1>6, ZenonT(20) DEF Contract!Learn, PromiseMap, RoleMap, Contract!Open, Unset, g
  <1> QED
    BY <1>5, <1>7 DEF Refines, Contract!Next

\* A wait that is cut short gives the promise up.
LEMMA RefEndWait ==
    ASSUME MapInv, IInv', NEW c \in Callers, EndWait(c)
    PROVE  Refines
  <1>1. HoldsWaiter(c) /\ calls[c].result = Unset
    BY DEF EndWait, HoldsWaiter, MapInv, CallsAreShaped
  <1>2. /\ MoveTo(c, "releasing", "ended") /\ "ended" # Unset
        /\ UNCHANGED <<loads, nextGeneration, shuttingDown, outcome, origin>>
    BY DEF EndWait, Unset
  <1>3. /\ CallsAreShaped' /\ OriginsKnown' /\ OpenIsKept'
        /\ PromiseMap' = PromiseMap /\ RoleMap[c].kind = "follower"
        /\ RoleMap[c].seen = calls[c].result
        /\ RoleMap' = [RoleMap EXCEPT ![c].seen = "ended"]
    BY <1>1, <1>2, WaiterMoves
  <1>4. Contract!GiveUp(c)
    BY <1>1, <1>2, <1>3, SMTT(20) DEF Contract!GiveUp, PromiseMap, RoleMap, Contract!Open, Unset
  <1> QED
    BY <1>3, <1>4 DEF Refines, Contract!Next

\* Releasing a waiter leaves the promise; the entry it may take along is completed.
LEMMA RefReleaseWaiter ==
    ASSUME MapInv, IInv', NEW c \in Callers, ReleaseWaiter(c)
    PROVE  Refines
  <1> USE DEF MapInv, IInv
  <1> DEFINE k == calls[c].key
             g == calls[c].generation
  <1>0. HoldsWaiter(c) /\ ~HoldsLease(c) /\ Return(c) /\ calls[c].result # Unset
    BY DEF ReleaseWaiter, HoldsWaiter, HoldsLease, CallsAreShaped
  <1>1. /\ calls'[c] = Idle /\ \A d \in Callers : d # c => calls'[d] = calls[d]
    BY <1>0, SMTT(20) DEF Return, TypeOK
  <1>2. k \in Keys /\ loads[k].generation = g /\ g # 0 /\ g \in Generations
    BY <1>0, GenerationsOfWaiters, SMTT(20) DEF WaitersKeepTheirLoad, TypeOK, Call
  <1>3. /\ \A j \in Keys : j # k => loads'[j] = loads[j]
        /\ \/ loads'[k].generation = g
           \/ loads'[k].generation = 0 /\ loads[k].completion # Unset
    BY <1>2, SMTT(20) DEF ReleaseWaiter, Released, TypeOK, Load, NoLoad
  <1>4. UNCHANGED <<nextGeneration, shuttingDown, outcome, origin>>
    BY SMTT(20) DEF ReleaseWaiter
  <1>5. TokensMove
    <2>1. outcome[g] = loads[k].completion BY <1>2, SMTT(20) DEF OutcomesRecorded
    <2>2. \A h \in Generations : outcome'[h] = Unset =>
             outcome[h] = Unset /\ \A j \in Keys : loads[j].generation = h => loads'[j].generation = h
      BY <2>1, <1>2, <1>3, <1>4, SMTT(20)
    <2>3. \A j \in Keys : loads'[j].generation = loads[j].generation \/ loads'[j].generation = 0
      BY <1>2, <1>3
    <2>4. \A d \in Callers :
             \/ ~HoldsLease(d)' /\ ~HoldsWaiter(d)'
             \/ /\ HoldsLease(d) \/ HoldsWaiter(d)
                /\ calls'[d].key = calls[d].key /\ calls'[d].generation = calls[d].generation
      BY <1>1 DEF HoldsLease, HoldsWaiter, Idle
    <2> QED
      BY <2>2, <2>3, <2>4, <1>4, SMTT(20) DEF TokensMove
  <1>6. CallsAreShaped'
    BY <1>1 DEF CallsAreShaped, Idle
  <1>7. Contract!Leave(c)
    <2>1. PromiseMap' = PromiseMap BY <1>4 DEF PromiseMap, PromiseOf
    <2>2. RoleMap' = [RoleMap EXCEPT ![c] = Contract!Out]
      <3>1. RoleOf(c)' = Contract!Out
        BY <1>1, SMTT(20) DEF RoleOf, HoldsLease, HoldsWaiter, Contract!Out, Contract!Open, Idle, Unset
      <3> QED BY <3>1, <1>1, OneRole, SMTT(20)
    <2>3. RoleMap[c].kind = "follower" /\ RoleMap[c].seen # Contract!Open
      BY <1>0 DEF RoleMap, RoleOf, Contract!Open, Unset
    <2> QED
      BY <2>1, <2>2, <2>3, <1>4 DEF Contract!Leave, PromiseMap, RoleMap
  <1> QED
    BY <1>5, <1>6, <1>7, TokensFrame, SMTT(20) DEF Refines, Contract!Next

\* Shutdown settles every promise that is still open.
LEMMA RefShutdown ==
    ASSUME MapInv, IInv', Shutdown
    PROVE  Refines
  <1> USE DEF MapInv, IInv
  <1>1. UNCHANGED <<nextGeneration, calls, origin>> /\ ~shuttingDown /\ shuttingDown' = TRUE
    BY DEF Shutdown
  <1>2. \A k \in Keys : \/ loads'[k].generation = loads[k].generation
                        \/ loads'[k].generation = 0
    BY ZenonT(20) DEF Shutdown, AfterShutdown, TypeOK, Load, NoLoad
  <1>3. \A g \in Generations :
           (\E k \in Keys : loads[k].generation = g /\ loads[k].completion = Unset)
             <=> g <= nextGeneration /\ outcome[g] = Unset
    <2>1. ASSUME NEW g \in Generations, NEW k \in Keys, loads[k].generation = g,
                 loads[k].completion = Unset
          PROVE  g <= nextGeneration /\ outcome[g] = Unset
      BY <2>1 DEF LoadsWellFormed, OutcomesRecorded, Generations
    <2>2. ASSUME NEW g \in Generations, g <= nextGeneration, outcome[g] = Unset
          PROVE  \E k \in Keys : loads[k].generation = g /\ loads[k].completion = Unset
      BY <2>2 DEF OpenIsKept, OutcomesRecorded, Generations
    <2> QED BY <2>1, <2>2, SMTT(20)
  <1>4. \A g \in Generations : outcome'[g] =
           IF g <= nextGeneration /\ outcome[g] = Unset THEN "shutdown" ELSE outcome[g]
    BY <1>3 DEF Shutdown
  <1>5. TokensMove
    <2>1. \A g \in Generations : outcome'[g] = Unset => outcome[g] = Unset /\ ~(g <= nextGeneration)
      BY <1>4 DEF Unset
    <2>2. \A k \in Keys : loads[k].generation <= nextGeneration BY DEF LoadsWellFormed
    <2> QED
      BY <1>1, <1>2, <2>1, <2>2 DEF TokensMove, HoldsLease, HoldsWaiter
  <1>6. CallsAreShaped'
    BY <1>1 DEF CallsAreShaped
  <1>7. Contract!Stop
    <2>1. RoleMap' = RoleMap BY <1>1 DEF RoleMap, RoleOf, HoldsLease, HoldsWaiter
    <2>2. PromiseMap' = [p \in Contract!Promises |->
             IF Contract!Used(p) /\ PromiseMap[p].outcome = Contract!Open
             THEN [PromiseMap[p] EXCEPT !.outcome = "shutdown"] ELSE PromiseMap[p]]
      <3>1. \A p \in Generations : Contract!Used(p) <=> p <= nextGeneration BY UsedPromises
      <3>2. Contract!Promises = Generations BY DEF Contract!Promises, Generations
      <3> QED
        BY <3>1, <3>2, <1>1, <1>4 DEF PromiseMap, PromiseOf, Contract!Open, Unset
    <2> QED
      BY <2>1, <2>2, <1>1 DEF Contract!Stop, PromiseMap, RoleMap
  <1> QED
    BY <1>5, <1>6, <1>7, TokensFrame DEF Refines, Contract!Next

\* Every step keeps the refinement's invariant and is a step of the contract.
LEMMA MapNext == MapInv /\ [Next]_vars => MapInv' /\ [Contract!Next]_(Contract!vars)
  <1> SUFFICES ASSUME MapInv, [Next]_vars PROVE IInv' /\ Refines
    BY DEF MapInv, Refines
  <1>0. IInv'
    BY IInvNext DEF MapInv
  <1>1. ASSUME NEW c \in Callers, NEW k \in Keys, ReserveFollower(c, k) \/ ReserveLeader(c, k)
        PROVE  Refines
    BY <1>0, <1>1, RefReserveFollower, RefReserveLeader, SMTT(20)
  <1>2. ASSUME NEW c \in Callers, NEW v \in Published, PublishLoad(c, v) PROVE Refines
    <2>1. HoldsLease(c) /\ v \in {"ready", "failed", "abandoned"}
      BY <1>2 DEF PublishLoad, HoldsLease, Published
    <2> QED
      BY <2>1, <1>0, <1>2, RefCompleted, SMTT(20) DEF PublishLoad
  <1>3. ASSUME NEW c \in Callers, DropLease(c) PROVE Refines
    <2>1. CASE Completable(calls[c].key, calls[c].generation)
      BY <2>1, <1>0, <1>3, RefCompleted, SMTT(20) DEF DropLease
    <2>2. CASE ~Completable(calls[c].key, calls[c].generation)
      BY <2>2, <1>0, <1>3, RefLeaseReturned, SMTT(20) DEF DropLease
    <2> QED BY <2>1, <2>2
  <1>4. ASSUME NEW c \in Callers, PublishRefused(c) PROVE Refines
    <2>1. /\ calls'[c] = [calls[c] EXCEPT !.pc = "unpublished", !.result = Unset]
          /\ \A d \in Callers : d # c => calls'[d] = calls[d]
      BY <1>4 DEF PublishRefused, MoveTo, MapInv, IInv, TypeOK
    <2>2. calls[c].pc = "leading" /\ calls[c].result = Unset /\ calls[c] \in Call
      BY <1>4 DEF PublishRefused, MapInv, IInv, TypeOK, CallsAreShaped
    <2>3. CallsAreShaped'
      <3>1. calls'[c].pc = "unpublished" /\ calls'[c].result = Unset BY <2>1, <2>2 DEF Call
      <3> QED BY <2>1, <3>1, ZenonT(20) DEF MapInv, CallsAreShaped
    <2>4. \A d \in Callers : /\ calls'[d].key = calls[d].key
                             /\ calls'[d].generation = calls[d].generation
                             /\ calls'[d].result = calls[d].result
                             /\ HoldsLease(d)' <=> HoldsLease(d)
                             /\ HoldsWaiter(d)' <=> HoldsWaiter(d)
      BY <2>1, <2>2, ZenonT(20) DEF HoldsLease, HoldsWaiter, Call
    <2> QED
      BY <2>3, <2>4, <1>0, <1>4, RefUnseen DEF PublishRefused
  <1>5. ASSUME NEW c \in Callers, WakeOne(c) PROVE Refines
    <2>1. CallsAreShaped' BY <1>5, SMTT(20) DEF MapInv, CallsAreShaped, WakeOne
    <2> QED
      BY <2>1, <1>0, <1>5, RefUnseen DEF WakeOne, HoldsLease, HoldsWaiter
  <1>6. ASSUME NEW c \in Callers, PollPending(c) PROVE Refines
    <2>1. /\ calls'[c] = [calls[c] EXCEPT !.pc = "parked", !.result = Unset]
          /\ \A d \in Callers : d # c => calls'[d] = calls[d]
      BY <1>6 DEF PollPending, MoveTo, MapInv, IInv, TypeOK
    <2>2. /\ calls[c].pc \in {"waiting", "parked"} /\ calls[c].result = Unset /\ calls[c] \in Call
      BY <1>6 DEF PollPending, Pollable, MapInv, IInv, TypeOK, CallsAreShaped
    <2>3. CallsAreShaped'
      <3>1. calls'[c].pc = "parked" /\ calls'[c].result = Unset BY <2>1, <2>2 DEF Call
      <3> QED BY <2>1, <3>1, ZenonT(20) DEF MapInv, CallsAreShaped
    <2>4. \A d \in Callers : /\ calls'[d].key = calls[d].key
                             /\ calls'[d].generation = calls[d].generation
                             /\ calls'[d].result = calls[d].result
                             /\ HoldsLease(d)' <=> HoldsLease(d)
                             /\ HoldsWaiter(d)' <=> HoldsWaiter(d)
      BY <2>1, <2>2, ZenonT(20) DEF HoldsLease, HoldsWaiter, Call
    <2>5. \A k \in Keys : loads'[k].generation = loads[k].generation
      BY <1>6 DEF PollPending, MapInv, IInv, TypeOK, Load
    <2> QED
      BY <2>3, <2>4, <2>5, <1>0, <1>6, RefUnseen, SMTT(20) DEF PollPending
  <1>7. ASSUME NEW c \in Callers, PollReady(c) \/ EndWait(c) \/ ReleaseWaiter(c) PROVE Refines
    BY <1>0, <1>7, RefPollReady, RefEndWait, RefReleaseWaiter
  <1>8. CASE Shutdown
    BY <1>0, <1>8, RefShutdown
  <1>9. CASE UNCHANGED vars
    <2>1. CallsAreShaped' BY <1>9 DEF MapInv, CallsAreShaped, vars
    <2> QED
      BY <2>1, <1>0, <1>9, RefUnseen DEF vars, HoldsLease, HoldsWaiter
  <1> QED
    BY <1>0, <1>1, <1>2, <1>3, <1>4, <1>5, <1>6, <1>7, <1>8, <1>9, SMTT(20) DEF Next, FinishLease, Poll

\* The load map of memory.rs keeps the promises of the CacheStore trait: every step is a
\* reservation, a settlement, an answer or a departure the contract allows, or invisible.
THEOREM LoadMapIsContract == Spec => ImplementsContract
  <1>1. Init => Contract!Init
    BY SingleFlightAssumption DEF Init, Contract!Init, PromiseOf, RoleOf, Idle, HoldsLease, HoldsWaiter,
       Contract!Unused, Contract!Out, Contract!Open, Unset, Contract!Promises, Generations
  <1> QED
    BY <1>1, MapInit, MapNext, PTL DEF Spec, ImplementsContract, Contract!Spec

=============================================================================
