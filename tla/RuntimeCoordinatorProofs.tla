----------------------- MODULE RuntimeCoordinatorProofs -----------------------
(* Proofs about RuntimeCoordinator, for any finite set of requests and of    *)
(* collectors and any bounds on reloads, refreshes and failures.             *)
EXTENDS RuntimeCoordinator, FiniteSetTheorems, WellFoundedInduction, TLAPS

\* A request is in flight exactly when it has a runtime, and no runtime ahead
\* of the published one was ever given a request.
RequestsPlaced ==
    \A q \in Requests : /\ req[q].pc = "idle" <=> req[q].rt = 0
                        /\ req[q].rt <= active

\* The requests that hold a guard of runtime r.
Guards(r) == {q \in Requests : Guarded(q) /\ req[q].rt = r}

\* The counter of a runtime is the number of its guards.
GuardsCounted == \A r \in Revisions : rt[r].count = Cardinality(Guards(r))

\* The listener of r takes queries.
Listening(r) == listener[r] \in {"arm", "check", "select"}

\* A runtime that is not published yet is untouched; until shutdown the
\* published one is neither retired nor told to retire.
AheadIsUntouched ==
    \A r \in Revisions :
        /\ r > active => ~Listening(r)
        /\ svc.pc = "run" /\ r >= active => ~rt[r].draining /\ r \notin woken

\* A runtime that listens or has requests is owned, or it is draining.
StartedIsOwned ==
    \A r \in Revisions :
        Listening(r) \/ (\E q \in Requests : req[q].rt = r)
            => r \in owners \/ rt[r].draining

\* Who holds the gate, and what a reload in progress has done so far.
ReloadPhase ==
    /\ gate = "reload" <=> reload.pc \in {"prepared", "spawned", "swapped", "registered", "draining"}
    /\ gate = "refresh" <=> refresh.pc = "fetch"
    /\ refresh.pc # "idle" => refresh.rt \in Revisions
    /\ reload.pc # "idle" => svc.pc = "run"
    /\ reload.pc \in {"gate", "prepared", "spawned"} => active + 1 \in Revisions
    /\ reload.pc \in {"prepared", "spawned"} => rt[active + 1].version >= rt[active].version
    /\ reload.pc \in {"swapped", "registered", "draining", "committed"} => active - 1 \in Revisions

\* The published runtime, or while it is being registered the one before, is owned.
ActiveIsOwned ==
    /\ owners \subseteq finalizers
    /\ svc.pc = "run" /\ reload.pc # "swapped" => active \in owners
    /\ reload.pc = "swapped" => active - 1 \in owners

\* Shutdown has set the draining flag of every runtime it waits for.
ShutdownPhase ==
    /\ svc.todo \subseteq Revisions
    /\ svc.pc = "drain" => svc.todo # {} /\ \A r \in owners \ svc.todo : rt[r].draining
    /\ svc.pc \in {"join", "wait", "finalize", "stopped"} => \A r \in owners : rt[r].draining
    /\ svc.pc = "wait" => \A r \in svc.todo : rt[r].draining
    /\ svc.pc \in {"run", "drain", "join"} => svc.drained = {}
    /\ \A r \in svc.drained : rt[r].draining

\* The inductive invariant.
IInv ==
    /\ TypeOK /\ RequestsPlaced /\ GuardsCounted /\ AheadIsUntouched /\ StartedIsOwned
    /\ ReloadPhase /\ ActiveIsOwned /\ ShutdownPhase /\ RequestsAreOwned

-------------------------------------------------------------------------------
(* The types of the variables that hold records.                            *)

FinTypes == [Revisions -> [drains : SUBSET Drains, writes : SUBSET Submitters, closed : BOOLEAN]]
ReqTypes == [Requests -> [pc : {"idle", "check", "count", "recheck", "admitted", "drop", "notify"},
                          rt : 0..MaxRevision]]
RtTypes == [Revisions -> [draining : BOOLEAN, count : Nat, version : Nat]]
ListenerTypes == [Revisions -> {"none", "gated", "orphan", "arm", "check", "select", "out"}]
ReloadTypes == [pc : {"idle", "gate", "prepared", "spawned", "swapped", "registered", "draining",
                      "committed"}, failures : 0..MaxFailures]
SvcTypes == [pc : {"run", "drain", "join", "wait", "finalize", "stopped"},
             todo : SUBSET Revisions, step : {"look", "looked", "armed", "asleep"},
             notified : BOOLEAN, expired : BOOLEAN, drained : SUBSET Revisions]

\* The type invariant, by these names.
LEMMA TypesOf ==
    ASSUME IInv
    PROVE  /\ fin \in FinTypes /\ req \in ReqTypes /\ rt \in RtTypes
           /\ listener \in ListenerTypes /\ reload \in ReloadTypes /\ svc \in SvcTypes
  BY DEF IInv, TypeOK, FinTypes, ReqTypes, RtTypes, ListenerTypes, ReloadTypes, SvcTypes

-------------------------------------------------------------------------------
(* Numbers: revisions, minima and counts of guards.                         *)

\* Every nonempty set of revisions has a least one, which Min chooses.
LEMMA MinRevision ==
    ASSUME NEW T \in SUBSET Revisions, T # {}
    PROVE  Min(T) \in T /\ \A y \in T : Min(T) <= y
  <1>0. T \in SUBSET Nat
    BY BoundsAssumption DEF Revisions
  <1>1. PICK x \in T : \A y \in T : ~ (<<y, x>> \in OpToRel(<, Nat))
    BY <1>0, NatLessThanWellFounded, WFMin, Zenon
  <1>2. \A y \in T : x <= y
    <2> SUFFICES ASSUME NEW y \in T PROVE x <= y
      OBVIOUS
    <2>1. x \in Nat /\ y \in Nat
      BY <1>0
    <2>2. ~ (y < x)
      <3> SUFFICES ASSUME y < x PROVE FALSE
        OBVIOUS
      <3>1. <<y, x>> \in OpToRel(<, Nat)
        BY <2>1 DEF OpToRel
      <3> QED
        BY <3>1, <1>1, ZenonT(20)
    <2> QED
      BY <2>1, <2>2
  <1> QED
    BY <1>2 DEF Min

\* The guards of a runtime are finitely many.
LEMMA GuardsFinite ==
    ASSUME NEW r
    PROVE  IsFiniteSet(Guards(r)) /\ Cardinality(Guards(r)) \in Nat
  <1>1. Guards(r) \subseteq Requests
    BY DEF Guards
  <1> QED
    BY <1>1, BoundsAssumption, FS_Subset, FS_CardinalityType

\* A runtime whose counter is zero has no guard.
LEMMA NoGuardAtZero ==
    ASSUME IInv, NEW q \in Requests, Guarded(q)
    PROVE  /\ req[q].rt \in Revisions /\ StillOwned(req[q].rt)
           /\ rt[req[q].rt].count >= 1 /\ rt[req[q].rt].count # 0
  <1>1. req[q].rt \in Revisions
    BY BoundsAssumption DEF IInv, TypeOK, RequestsPlaced, Guarded, Revisions
  <1>2. q \in Guards(req[q].rt)
    BY DEF Guards
  <1>3. Cardinality(Guards(req[q].rt)) # 0 /\ Cardinality(Guards(req[q].rt)) \in Nat
    BY <1>2, GuardsFinite, FS_EmptySet
  <1> QED
    BY <1>1, <1>3 DEF IInv, GuardsCounted, StillOwned

-------------------------------------------------------------------------------
(* Background cache work.                                                   *)

\* Everything but the finalizers' tasks and the aims is left alone.
LEMMA BackgroundFrame ==
    ASSUME IInv, BackgroundOnly, fin' \in FinTypes, aim' \in [Submitters -> 0..MaxRevision],
           \A r \in Revisions : fin'[r].drains # {} => r \in finalizers
    PROVE  IInv'
  <1> USE DEF IInv, BackgroundOnly, CoordinatorUnchanged
  <1>0. TypeOK' BY DEF TypeOK, FinTypes
  <1>1. RequestsPlaced' BY DEF RequestsPlaced
  <1>2. GuardsCounted' BY DEF GuardsCounted, Guards, Guarded
  <1>3. AheadIsUntouched' BY DEF AheadIsUntouched, Listening
  <1>4. StartedIsOwned' BY DEF StartedIsOwned, Listening
  <1>5. ReloadPhase' BY DEF ReloadPhase
  <1>6. ActiveIsOwned' BY DEF ActiveIsOwned
  <1>7. ShutdownPhase' BY DEF ShutdownPhase
  <1>8. RequestsAreOwned'
    BY DEF RequestsAreOwned, DrainedStaysDrained, AdmittedIsOwned, CollectorsAreOwned,
           ActiveIsListening
  <1> QED BY <1>0, <1>1, <1>2, <1>3, <1>4, <1>5, <1>6, <1>7, <1>8

\* Collectors and cache writes keep the invariant.
LEMMA BackgroundInv ==
    ASSUME IInv,
           \/ \E q \in Requests, d \in Drains : SpawnDrain(q, d)
           \/ \E s \in Submitters : Aim(s) \/ Submit(s)
           \/ \E r \in Revisions : BackgroundEnds(r)
    PROVE  IInv'
  <1>0. /\ TypeOK /\ \A r \in Revisions : fin[r].drains # {} => r \in finalizers
        /\ fin \in FinTypes /\ aim \in [Submitters -> 0..MaxRevision]
    BY DEF IInv, RequestsAreOwned, CollectorsAreOwned, TypeOK, FinTypes
  <1>1. ASSUME NEW q \in Requests, NEW d \in Drains, SpawnDrain(q, d) PROVE IInv'
    <2>1. Guarded(q) /\ req[q].rt \in finalizers
      BY <1>1 DEF SpawnDrain, Guarded, IInv, RequestsAreOwned, AdmittedIsOwned, ActiveIsOwned
    <2>2. req[q].rt \in Revisions
      BY <2>1, NoGuardAtZero
    <2>3. fin' \in FinTypes /\ \A r \in Revisions : fin'[r].drains # {} => r \in finalizers
      BY <1>0, <1>1, <2>1, <2>2, ZenonT(20) DEF FinTypes, SpawnDrain
    <2> QED
      BY <1>0, <1>1, <2>3, BackgroundFrame, ZenonT(20) DEF SpawnDrain
  <1>2. ASSUME NEW s \in Submitters, Aim(s) PROVE IInv'
    <2>1. cell \in 0..MaxRevision
      BY <1>0, BoundsAssumption DEF TypeOK, Revisions
    <2>2. aim' \in [Submitters -> 0..MaxRevision]
      BY <1>0, <1>2, <2>1, SMTT(20) DEF Aim
    <2> QED
      BY <1>0, <1>2, <2>2, BackgroundFrame, SMTT(20) DEF Aim
  <1>3. ASSUME NEW s \in Submitters, Submit(s) PROVE IInv'
    <2>1. aim[s] \in Revisions /\ 0 \in 0..MaxRevision
      BY <1>0, <1>3, BoundsAssumption DEF Submit, Revisions
    <2>2. aim' \in [Submitters -> 0..MaxRevision]
      BY <1>0, <1>3, <2>1 DEF Submit
    <2>3. fin' \in FinTypes /\ \A r \in Revisions : fin'[r].drains = fin[r].drains
      BY <1>0, <1>3, <2>1 DEF FinTypes, Submit
    <2> QED
      BY <1>0, <1>3, <2>2, <2>3, BackgroundFrame, SMTT(20) DEF Submit
  <1>4. ASSUME NEW r \in Revisions, NEW s \in Submitters, WriteEnds(r, s) PROVE IInv'
    <2>1. fin' \in FinTypes /\ \A x \in Revisions : fin'[x].drains = fin[x].drains
      BY <1>0, <1>4 DEF FinTypes, WriteEnds
    <2> QED
      BY <1>0, <1>4, <2>1, BackgroundFrame DEF WriteEnds
  <1>5. ASSUME NEW r \in Revisions, NEW d \in Drains, DrainEnds(r, d) PROVE IInv'
    <2>1. fin' \in FinTypes /\ \A x \in Revisions : fin'[x].drains \subseteq fin[x].drains
      BY <1>0, <1>5 DEF FinTypes, DrainEnds
    <2> QED
      BY <1>0, <1>5, <2>1, BackgroundFrame DEF DrainEnds
  <1> QED BY <1>1, <1>2, <1>3, <1>4, <1>5 DEF BackgroundEnds

-------------------------------------------------------------------------------
(* Requests.                                                                *)

\* A request moves on in its own runtime or leaves it, and is admitted only while the
\* runtime is not draining.
RequestMoves ==
    /\ UNCHANGED <<fin, listener, woken, aim>> /\ CoordinatorUnchanged
    /\ \/ UNCHANGED svc
       \/ svc' = [svc EXCEPT !.notified = TRUE]
    /\ req' \in ReqTypes /\ rt' \in RtTypes
    /\ \A r \in Revisions : rt'[r].draining = rt[r].draining /\ rt'[r].version = rt[r].version
    /\ \A q \in Requests :
          /\ req'[q].rt \in {0, req[q].rt}
          /\ req'[q].pc = "idle" <=> req'[q].rt = 0
          /\ req'[q].pc = "admitted" =>
                \/ req[q].pc = "admitted"
                \/ req[q].rt \in Revisions /\ req'[q].rt = req[q].rt /\ ~rt[req[q].rt].draining

\* Such a step keeps the invariant if it keeps the count of the guards.
LEMMA RequestFrame ==
    ASSUME IInv, RequestMoves, GuardsCounted'
    PROVE  IInv'
  <1>s. /\ svc'.pc = svc.pc /\ svc'.todo = svc.todo /\ svc'.drained = svc.drained
        /\ svc' \in SvcTypes
    BY TypesOf, ZenonT(20) DEF RequestMoves, SvcTypes
  <1> USE DEF IInv, RequestMoves, CoordinatorUnchanged
  <1>0. TypeOK' BY <1>s DEF TypeOK, ReqTypes, RtTypes, SvcTypes
  <1>1. RequestsPlaced'
    BY BoundsAssumption DEF RequestsPlaced, TypeOK, Revisions
  <1>3. AheadIsUntouched' BY <1>s DEF AheadIsUntouched, Listening
  <1>4. StartedIsOwned'
    <2>1. \A r \in Revisions : \A q \in Requests : req'[q].rt = r => req[q].rt = r
      BY BoundsAssumption DEF Revisions
    <2> QED BY <2>1 DEF StartedIsOwned, Listening
  <1>5. ReloadPhase'
    <2>1. reload.pc \in {"prepared", "spawned"} => active + 1 \in Revisions /\ active \in Revisions
      BY DEF ReloadPhase, TypeOK
    <2> QED BY <1>s, <2>1 DEF ReloadPhase
  <1>6. ActiveIsOwned' BY <1>s DEF ActiveIsOwned
  <1>7. ShutdownPhase'
    <2>1. owners \subseteq Revisions /\ svc.todo \subseteq Revisions /\ svc.drained \subseteq Revisions
      BY DEF TypeOK
    <2> QED BY <1>s, <2>1 DEF ShutdownPhase
  <1>8. \A q \in Requests : req'[q].pc = "admitted" =>
            req'[q].rt = req[q].rt /\ req[q].rt \in owners /\ req[q].rt \notin svc.drained
    <2> SUFFICES ASSUME NEW q \in Requests, req'[q].pc = "admitted"
                 PROVE  req'[q].rt = req[q].rt /\ req[q].rt \in owners /\ req[q].rt \notin svc.drained
      OBVIOUS
    <2>1. CASE req[q].pc = "admitted"
      BY <2>1 DEF RequestsAreOwned, AdmittedIsOwned, DrainedStaysDrained
    <2>2. CASE req[q].rt \in Revisions /\ req'[q].rt = req[q].rt /\ ~rt[req[q].rt].draining
      BY <2>2 DEF StartedIsOwned, ShutdownPhase
    <2> QED BY <2>1, <2>2
  <1>9. RequestsAreOwned'
    BY <1>s, <1>8 DEF RequestsAreOwned, DrainedStaysDrained, AdmittedIsOwned, CollectorsAreOwned,
           ActiveIsListening
  <1> QED BY <1>0, <1>1, <1>3, <1>4, <1>5, <1>6, <1>7, <1>9

\* A step that changes neither the guards nor the counters keeps the count.
LEMMA SameGuards ==
    ASSUME IInv, \A r \in Revisions : rt'[r].count = rt[r].count,
           \A q \in Requests : Guarded(q)' = Guarded(q) /\ (Guarded(q) => req'[q].rt = req[q].rt)
    PROVE  GuardsCounted'
  <1>1. \A r \in Revisions : Guards(r)' = Guards(r)
    BY DEF Guards
  <1> QED
    BY <1>1 DEF IInv, GuardsCounted

\* Admission, the end of a request and the drop of its guard keep the invariant.
LEMMA RequestInv ==
    ASSUME IInv, NEW q \in Requests, RequestStep(q)
    PROVE  IInv'
  <1>0. /\ req \in ReqTypes /\ rt \in RtTypes /\ 0 \in 0..MaxRevision
        /\ \A p \in Requests : req[p].pc = "idle" <=> req[p].rt = 0
    BY BoundsAssumption DEF IInv, TypeOK, ReqTypes, RtTypes, RequestsPlaced
  <1>1. req[q].pc # "idle" => req[q].rt \in Revisions
    BY <1>0, BoundsAssumption DEF ReqTypes, Revisions
  <1>2. CASE AcquireCheck(q)
    <2>1. RequestMoves
      BY <1>0, <1>1, <1>2 DEF RequestMoves, AcquireCheck, Stays, ReqTypes, NoRequest
    <2>2. GuardsCounted'
      BY <1>0, <1>2, SameGuards DEF AcquireCheck, ReqTypes, NoRequest, Guarded
    <2> QED BY <2>1, <2>2, RequestFrame
  <1>3. CASE AcquireCount(q)
    <2>0. PICK r0 \in Revisions : r0 = req[q].rt
      BY <1>1, <1>3 DEF AcquireCount
    <2>1. q \notin Guards(r0)
      BY <1>3 DEF AcquireCount, Guards, Guarded
    <2>2. RequestMoves
      BY <1>0, <1>3, <2>1, <2>0 DEF RequestMoves, AcquireCount, Stays, ReqTypes, RtTypes
    <2>3. Guards(r0)' = Guards(r0) \cup {q} /\ \A r \in Revisions \ {r0} : Guards(r)' = Guards(r)
      BY <1>0, <1>3, <2>0 DEF AcquireCount, ReqTypes, Guards, Guarded
    <2>4. Cardinality(Guards(r0)') = Cardinality(Guards(r0)) + 1
      BY <2>1, <2>3, GuardsFinite, FS_AddElement, SMTT(20)
    <2>5. rt'[r0].count = rt[r0].count + 1 /\ \A r \in Revisions \ {r0} : rt'[r].count = rt[r].count
      BY <1>0, <1>3, <2>1, <2>0 DEF AcquireCount, RtTypes
    <2>6. GuardsCounted'
      BY <2>1, <2>3, <2>4, <2>5, ZenonT(20) DEF IInv, GuardsCounted
    <2> QED BY <2>2, <2>6, RequestFrame
  <1>4. CASE AcquireRetry(q)
    <2>1. RequestMoves
      BY <1>0, <1>1, <1>4 DEF RequestMoves, AcquireRetry, Stays, ReqTypes
    <2>2. GuardsCounted'
      BY <1>0, <1>4, SameGuards DEF AcquireRetry, ReqTypes, Guarded
    <2> QED BY <2>1, <2>2, RequestFrame
  <1>5. CASE AcquireRecheck(q)
    <2>1. RequestMoves
      BY <1>0, <1>1, <1>5 DEF RequestMoves, AcquireRecheck, Stays, ReqTypes
    <2>2. GuardsCounted'
      BY <1>0, <1>5, SameGuards DEF AcquireRecheck, ReqTypes, Guarded
    <2> QED BY <2>1, <2>2, RequestFrame
  <1>6. CASE Finish(q)
    <2>1. RequestMoves
      BY <1>0, <1>1, <1>6 DEF RequestMoves, Finish, Stays, ReqTypes
    <2>2. GuardsCounted'
      BY <1>0, <1>6, SameGuards DEF Finish, ReqTypes, Guarded
    <2> QED BY <2>1, <2>2, RequestFrame
  <1>7. CASE DropGuard(q)
    <2>0. PICK r0 \in Revisions : r0 = req[q].rt
      BY <1>1, <1>7, SMTT(20) DEF DropGuard
    <2>1. q \in Guards(r0) /\ rt[r0].count >= 1
      BY <1>7, <2>0, NoGuardAtZero, SMTT(20) DEF DropGuard, Guards, Guarded
    <2>2. /\ rt' \in RtTypes
          /\ \A r \in Revisions : rt'[r].draining = rt[r].draining /\ rt'[r].version = rt[r].version
          /\ rt'[r0].count = rt[r0].count - 1 /\ \A r \in Revisions \ {r0} : rt'[r].count = rt[r].count
      <3>1. rt[r0].count - 1 \in Nat
        BY <1>0, <2>1 DEF RtTypes
      <3> QED BY <1>0, <1>7, <2>1, <3>1, <2>0 DEF DropGuard, RtTypes
    <2>a. /\ req' \in ReqTypes /\ \A p \in Requests \ {q} : req'[p] = req[p]
          /\ req'[q] \in {NoRequest, [pc |-> "notify", rt |-> r0]}
      BY <1>0, <1>7, <2>0 DEF DropGuard, ReqTypes, NoRequest
    <2>b. \A p \in Requests : /\ req'[p].rt \in {0, req[p].rt}
                              /\ req'[p].pc = "idle" <=> req'[p].rt = 0
                              /\ req'[p].pc = "admitted" => req[p].pc = "admitted"
      <3>1. r0 # 0 BY <2>0, BoundsAssumption DEF Revisions
      <3> QED BY <1>0, <2>0, <2>a, <3>1 DEF NoRequest
    <2>3. RequestMoves
      BY <1>7, <2>2, <2>a, <2>b, ZenonT(20) DEF RequestMoves, DropGuard, Stays
    <2>4. Guards(r0)' = Guards(r0) \ {q} /\ \A r \in Revisions \ {r0} : Guards(r)' = Guards(r)
      BY <1>0, <1>7, <2>0 DEF DropGuard, ReqTypes, NoRequest, Guards, Guarded
    <2>5. Cardinality(Guards(r0)') = Cardinality(Guards(r0)) - 1
      BY <2>1, <2>4, GuardsFinite, FS_RemoveElement, ZenonT(20)
    <2>6. GuardsCounted'
      BY <2>1, <2>2, <2>4, <2>5, ZenonT(20) DEF IInv, GuardsCounted
    <2> QED BY <2>3, <2>6, RequestFrame
  <1>8. CASE NotifyDrained(q)
    <2>1. RequestMoves
      BY <1>0, <1>1, <1>8 DEF RequestMoves, NotifyDrained, ReqTypes, NoRequest
    <2>2. GuardsCounted'
      BY <1>0, <1>8, SameGuards DEF NotifyDrained, ReqTypes, NoRequest, Guarded
    <2> QED BY <2>1, <2>2, RequestFrame
  <1> QED BY <1>2, <1>3, <1>4, <1>5, <1>6, <1>7, <1>8 DEF RequestStep

-------------------------------------------------------------------------------
(* Listener tasks.                                                          *)

\* A listener moves on or ends; at most it hands over a request of its runtime.
ListenerMoves ==
    /\ UNCHANGED <<rt, fin, aim, svc>> /\ CoordinatorUnchanged
    /\ listener' \in ListenerTypes /\ woken' \subseteq woken /\ req' \in ReqTypes
    /\ \A r \in Revisions : Listening(r)' => Listening(r)
    /\ \A q \in Requests :
          \/ req'[q] = req[q]
          \/ /\ req[q].pc = "idle" /\ req'[q].pc = "check"
             /\ req'[q].rt \in Revisions /\ Listening(req'[q].rt)

\* Such a step keeps the invariant if the published runtime goes on listening.
LEMMA ListenerFrame ==
    ASSUME IInv, ListenerMoves, ActiveIsListening'
    PROVE  IInv'
  <1> USE DEF IInv, ListenerMoves, CoordinatorUnchanged
  <1>a. \A r \in Revisions : r \in Nat /\ r # 0
    BY BoundsAssumption DEF Revisions
  <1>b. active \in Revisions /\ owners \subseteq Revisions
    BY DEF TypeOK
  <1>0. TypeOK' BY DEF TypeOK, ListenerTypes, ReqTypes
  <1>1. RequestsPlaced'
    <2>1. \A r \in Revisions : Listening(r) => r <= active
      BY <1>a, <1>b DEF AheadIsUntouched
    <2> QED BY <1>a, <2>1 DEF RequestsPlaced
  <1>2. GuardsCounted'
    BY SameGuards DEF Guarded
  <1>3. AheadIsUntouched' BY DEF AheadIsUntouched
  <1>4. StartedIsOwned' BY <1>a DEF StartedIsOwned
  <1>5. ReloadPhase' BY DEF ReloadPhase
  <1>6. ActiveIsOwned' BY DEF ActiveIsOwned
  <1>7. ShutdownPhase' BY DEF ShutdownPhase
  <1>8. RequestsAreOwned'
    BY DEF RequestsAreOwned, DrainedStaysDrained, AdmittedIsOwned, CollectorsAreOwned
  <1> QED BY <1>0, <1>1, <1>2, <1>3, <1>4, <1>5, <1>6, <1>7, <1>8

\* Listeners, and the requests they receive, keep the invariant.
LEMMA ListenerInv ==
    ASSUME IInv, NEW r \in Revisions,
           ListenerStep(r) \/ \E q \in Requests : Receive(q, r)
    PROVE  IInv'
  <1>0. /\ listener \in ListenerTypes /\ req \in ReqTypes /\ active \in Revisions
        /\ ActiveIsListening /\ MaxRevision \in Nat
        /\ svc.pc = "run" => ~rt[active].draining /\ active \notin woken
    <2>1. active \in Revisions BY DEF IInv, TypeOK
    <2>2. MaxRevision \in Nat BY BoundsAssumption
    <2>3. active >= active BY <2>1, <2>2 DEF Revisions
    <2> QED BY <2>1, <2>2, <2>3, TypesOf, SMTT(20) DEF IInv, RequestsAreOwned, AheadIsUntouched
  <1>1. CASE ListenArm(r)
    <2>1. ListenerMoves
      BY <1>0, <1>1 DEF ListenerMoves, ListenArm, ListenerTypes, Listening, CoordinatorUnchanged
    <2>2. ActiveIsListening'
      BY <1>0, <1>1 DEF ActiveIsListening, ListenArm, ListenerTypes, CoordinatorUnchanged
    <2> QED BY <2>1, <2>2, ListenerFrame
  <1>2. CASE ListenCheck(r)
    <2>1. ListenerMoves
      BY <1>0, <1>2 DEF ListenerMoves, ListenCheck, ListenerTypes, Listening, CoordinatorUnchanged
    <2>2. ActiveIsListening'
      BY <1>0, <1>2 DEF ActiveIsListening, ListenCheck, ListenerTypes, CoordinatorUnchanged
    <2> QED BY <2>1, <2>2, ListenerFrame
  <1>3. CASE ListenRetire(r)
    <2>1. ListenerMoves
      BY <1>0, <1>3 DEF ListenerMoves, ListenRetire, ListenerTypes, Listening, CoordinatorUnchanged
    <2>2. ActiveIsListening'
      BY <1>0, <1>3 DEF ActiveIsListening, ListenRetire, ListenerTypes, CoordinatorUnchanged
    <2> QED BY <2>1, <2>2, ListenerFrame
  <1>4. CASE ListenCancelled(r)
    <2>1. ListenerMoves
      BY <1>0, <1>4 DEF ListenerMoves, ListenCancelled, ListenerTypes, Listening, CoordinatorUnchanged
    <2>2. ActiveIsListening'
      BY <1>0, <1>4 DEF ActiveIsListening, ListenCancelled, ListenerTypes, CoordinatorUnchanged
    <2> QED BY <2>1, <2>2, ListenerFrame
  <1>5. ASSUME NEW q \in Requests, Receive(q, r) PROVE IInv'
    <2>0. r \in 0..MaxRevision
      BY <1>0 DEF Revisions
    <2>1. ListenerMoves
      BY <1>0, <1>5, <2>0
      DEF ListenerMoves, Receive, Accepting, ListenerTypes, ReqTypes, Listening, CoordinatorUnchanged
    <2>2. ActiveIsListening'
      BY <1>0, <1>5 DEF ActiveIsListening, Receive, ListenerTypes, CoordinatorUnchanged
    <2> QED BY <2>1, <2>2, ListenerFrame
  <1> QED BY <1>1, <1>2, <1>3, <1>4, <1>5 DEF ListenerStep

-------------------------------------------------------------------------------
(* Resource refresh.                                                        *)

\* A refresh only publishes a version, and only while it holds the gate.
LEMMA RefreshFrame ==
    ASSUME IInv, RefreshOnly, rt' \in RtTypes, gate' \in {"free", "reload", "refresh"},
           refresh' \in [pc : {"idle", "loaded", "fetch"}, rt : 0..MaxRevision],
           \A r \in Revisions : rt'[r].draining = rt[r].draining /\ rt'[r].count = rt[r].count,
           ReloadPhase'
    PROVE  IInv'
  <1> USE DEF IInv, RefreshOnly
  <1>0. TypeOK' BY DEF TypeOK, RtTypes
  <1>a. owners \subseteq Revisions /\ svc.todo \subseteq Revisions /\ svc.drained \subseteq Revisions
    BY SMTT(20) DEF TypeOK
  <1>1. RequestsPlaced' BY DEF RequestsPlaced
  <1>2. GuardsCounted' BY SameGuards DEF Guarded
  <1>3. AheadIsUntouched' BY DEF AheadIsUntouched, Listening
  <1>4. StartedIsOwned' BY DEF StartedIsOwned, Listening
  <1>6. ActiveIsOwned' BY DEF ActiveIsOwned
  <1>7. ShutdownPhase' BY <1>a DEF ShutdownPhase
  <1>8. RequestsAreOwned'
    BY DEF RequestsAreOwned, DrainedStaysDrained, AdmittedIsOwned, CollectorsAreOwned,
           ActiveIsListening
  <1> QED BY <1>0, <1>1, <1>2, <1>3, <1>4, <1>6, <1>7, <1>8

\* The steps of a resource refresh keep the invariant.
LEMMA RefreshInv ==
    ASSUME IInv, RefreshLoad \/ RefreshStep
    PROVE  IInv'
  <1>0. /\ rt \in RtTypes /\ active \in Revisions /\ ReloadPhase /\ gate \in {"free", "reload", "refresh"}
        /\ refresh \in [pc : {"idle", "loaded", "fetch"}, rt : 0..MaxRevision]
        /\ Revisions \subseteq 0..MaxRevision /\ 0 \in 0..MaxRevision
    BY BoundsAssumption DEF IInv, TypeOK, RtTypes, Revisions
  <1>1. CASE RefreshLoad
    <2>1. ReloadPhase' BY <1>0, <1>1 DEF ReloadPhase, RefreshLoad, RefreshOnly
    <2> QED BY <1>0, <1>1, <2>1, RefreshFrame DEF RefreshLoad
  <1>2. CASE RefreshGate
    <2>1. ReloadPhase' BY <1>0, <1>2 DEF ReloadPhase, RefreshGate, RefreshOnly
    <2>2. refresh' \in [pc : {"idle", "loaded", "fetch"}, rt : 0..MaxRevision]
      BY <1>0, <1>2 DEF RefreshGate
    <2> QED BY <1>0, <1>2, <2>1, <2>2, RefreshFrame DEF RefreshGate
  <1>3. CASE RefreshPublish
    <2>1. refresh.rt \in Revisions /\ reload.pc \notin {"prepared", "spawned"}
      BY <1>0, <1>3 DEF ReloadPhase, RefreshPublish
    <2>2. /\ rt' \in RtTypes
          /\ \A r \in Revisions : rt'[r].draining = rt[r].draining /\ rt'[r].count = rt[r].count
      BY <1>0, <1>3, <2>1 DEF RtTypes, RefreshPublish
    <2>3. ReloadPhase' BY <1>0, <1>3, <2>1 DEF ReloadPhase, RefreshPublish, RefreshOnly
    <2> QED BY <1>0, <1>3, <2>2, <2>3, RefreshFrame DEF RefreshPublish
  <1>4. CASE RefreshAbandon
    <2>1. ReloadPhase' BY <1>0, <1>4 DEF ReloadPhase, RefreshAbandon, RefreshOnly
    <2> QED BY <1>0, <1>4, <2>1, RefreshFrame DEF RefreshAbandon
  <1> QED BY <1>1, <1>2, <1>3, <1>4 DEF RefreshStep

-------------------------------------------------------------------------------
(* Reload.                                                                  *)

\* What every step of a reload, and the join of a finished task, has in common: requests,
\* finalizers and the refresher are left alone; a runtime with a guard stays owned, a busy
\* finalizer stays registered, and a listener is opened for an owned runtime only.
ReloadMoves ==
    /\ svc.pc = "run" /\ UNCHANGED <<req, aim, svc, fin, refresh>>
    /\ active' \in Revisions /\ active <= active' /\ cell' \in Revisions
    /\ rt' \in RtTypes /\ listener' \in ListenerTypes /\ reload' \in ReloadTypes
    /\ gate' \in {"free", "reload", "refresh"}
    /\ owners' \subseteq Revisions /\ finalizers' \subseteq Revisions /\ woken' \subseteq Revisions
    /\ {r \in owners : StillOwned(r)} \subseteq owners'
    /\ {r \in finalizers : Busy(r)} \subseteq finalizers'
    /\ \A r \in Revisions :
          /\ rt'[r].count = rt[r].count
          /\ rt[r].draining => rt'[r].draining
          /\ Listening(r)' => Listening(r) \/ r \in owners'

\* Such a step keeps the rest of the invariant.
LEMMA ReloadFrame ==
    ASSUME IInv, ReloadMoves, AheadIsUntouched', ReloadPhase', ActiveIsOwned', ActiveIsListening'
    PROVE  IInv'
  <1> USE DEF IInv, ReloadMoves
  <1>0. TypeOK' BY DEF TypeOK, RtTypes, ListenerTypes, ReloadTypes
  <1>1. RequestsPlaced'
    <2>1. \A q \in Requests : req[q].rt \in Nat
      BY TypesOf, BoundsAssumption DEF ReqTypes
    <2>2. active \in Nat /\ active' \in Nat
      BY BoundsAssumption DEF TypeOK, Revisions
    <2>3. \A n \in Nat : n <= active => n <= active'
      BY <2>2
    <2> QED BY <2>1, <2>3 DEF RequestsPlaced
  <1>2. GuardsCounted' BY SameGuards DEF Guarded
  <1>4. StartedIsOwned' BY SMTT(20) DEF StartedIsOwned, StillOwned
  <1>7. ShutdownPhase' BY <1>0 DEF ShutdownPhase, TypeOK
  <1>8. AdmittedIsOwned'
    <2> SUFFICES ASSUME NEW q \in Requests, req[q].pc = "admitted" PROVE req[q].rt \in owners'
      BY DEF AdmittedIsOwned
    <2>1. req[q].rt \in owners /\ StillOwned(req[q].rt)
      BY NoGuardAtZero, SMTT(20) DEF Guarded, RequestsAreOwned, AdmittedIsOwned
    <2> QED BY <2>1
  <1>9. RequestsAreOwned'
    BY <1>8 DEF RequestsAreOwned, DrainedStaysDrained, CollectorsAreOwned, Busy
  <1> QED BY <1>0, <1>1, <1>2, <1>4, <1>7, <1>9, SMTT(20)

\* Every step of a reload, and the join of a finished task, keeps the invariant.
LEMMA ReloadInv ==
    ASSUME IInv, \/ ReloadBegin \/ GateTimeout \/ ReloadStep
                 \/ \E r \in Revisions : JoinNext(r)
    PROVE  IInv'
  <1>0. /\ rt \in RtTypes /\ listener \in ListenerTypes /\ reload \in ReloadTypes
        /\ active \in Revisions /\ cell \in Revisions /\ gate \in {"free", "reload", "refresh"}
        /\ owners \subseteq Revisions /\ finalizers \subseteq Revisions /\ woken \subseteq Revisions
    BY DEF IInv, TypeOK, RtTypes, ListenerTypes, ReloadTypes
  <1>a. AheadIsUntouched /\ ReloadPhase /\ ActiveIsOwned /\ ActiveIsListening
    BY DEF IInv, RequestsAreOwned
  <1>b. \A r \in Revisions : r \in Nat /\ r - 1 # r /\ r <= r + 1 /\ r <= r /\ ~(r + 1 <= r)
    BY BoundsAssumption DEF Revisions
  <1>1. CASE ReloadBegin
    <2>1. ReloadMoves BY <1>0, <1>a, <1>b, <1>1
      DEF ReloadMoves, ReloadPhase, RtTypes, ListenerTypes, ReloadTypes, Listening, ReloadBegin, RequestsUnchanged
    <2>2. AheadIsUntouched' BY <1>0, <1>a, <1>b, <1>1
      DEF AheadIsUntouched, ReloadPhase, RtTypes, ListenerTypes, Listening, ReloadBegin, RequestsUnchanged
    <2>3. ReloadPhase' BY <1>0, <1>a, <1>b, <1>1 DEF ReloadPhase, ReloadTypes, ReloadBegin, Candidate,
      RequestsUnchanged
    <2>4. ActiveIsOwned' BY <1>0, <1>a, <1>b, <1>1
      DEF ActiveIsOwned, AheadIsUntouched, ReloadPhase, StillOwned, ReloadTypes, ReloadBegin, RequestsUnchanged
    <2>5. ActiveIsListening' BY <1>0, <1>a, <1>b, <1>1
      DEF ActiveIsListening, ListenerTypes, ReloadTypes, ReloadBegin, RequestsUnchanged
    <2> QED BY <2>1, <2>2, <2>3, <2>4, <2>5, ReloadFrame
  <1>2. CASE PrepareActivation
    <2>0. active + 1 \in Revisions /\ svc.pc = "run" /\ ~rt[active + 1].draining
      BY <1>0, <1>a, <1>b, <1>2 DEF PrepareActivation, ReloadPhase, AheadIsUntouched
    <2>a. rt[active + 1].count = 0
      <3>1. Guards(active + 1) = {}
        BY <1>b, <1>0 DEF Guards, IInv, RequestsPlaced
      <3> QED BY <2>0, <3>1, FS_EmptySet DEF IInv, GuardsCounted
    <2>b. /\ rt' \in RtTypes
          /\ \A r \in Revisions : rt'[r].count = rt[r].count /\ (rt[r].draining => rt'[r].draining)
      BY <1>0, <1>2, <2>0, <2>a, ZenonT(20) DEF PrepareActivation, Candidate, FreshRuntime, RtTypes
    <2>1. ReloadMoves BY <1>0, <1>b, <1>2, <2>0, <2>b
      DEF ReloadMoves, ReloadTypes, Listening, PrepareActivation, RequestsUnchanged
    <2>2. AheadIsUntouched' BY <1>0, <1>a, <1>b, <1>2
      DEF AheadIsUntouched, ReloadPhase, RtTypes, ListenerTypes, Listening, PrepareActivation, Candidate, FreshRuntime, RequestsUnchanged
    <2>3. ReloadPhase' BY <1>0, <1>a, <1>b, <1>2 DEF ReloadPhase, RtTypes, ReloadTypes, PrepareActivation, Candidate, FreshRuntime, RequestsUnchanged
    <2>4. ActiveIsOwned' BY <1>0, <1>a, <1>b, <1>2
      DEF ActiveIsOwned, AheadIsUntouched, ReloadPhase, StillOwned, ReloadTypes, PrepareActivation, Candidate, FreshRuntime, RequestsUnchanged
    <2>5. ActiveIsListening' BY <1>0, <1>a, <1>b, <1>2, SMTT(20)
      DEF ActiveIsListening, ListenerTypes, ReloadTypes, PrepareActivation, Candidate, FreshRuntime, RequestsUnchanged
    <2> QED BY <2>1, <2>2, <2>3, <2>4, <2>5, ReloadFrame
  <1>3. CASE GateTimeout
    <2>0. reload' \in ReloadTypes /\ svc.pc = "run"
      BY <1>0, <1>a, <1>3, BoundsAssumption DEF GateTimeout, ReloadPhase, ReloadTypes
    <2>1. ReloadMoves BY <1>0, <1>b, <1>3, <2>0
      DEF ReloadMoves, Listening, GateTimeout, RequestsUnchanged
    <2>2. AheadIsUntouched' BY <1>0, <1>a, <1>b, <1>3, SMTT(20)
      DEF AheadIsUntouched, ReloadPhase, RtTypes, ListenerTypes, Listening, GateTimeout, RequestsUnchanged
    <2>3. ReloadPhase' BY <1>0, <1>a, <1>b, <1>3, SMTT(20) DEF ReloadPhase, RtTypes, ReloadTypes, GateTimeout, RequestsUnchanged
    <2>4. ActiveIsOwned' BY <1>0, <1>a, <1>b, <1>3
      DEF ActiveIsOwned, AheadIsUntouched, ReloadPhase, StillOwned, ReloadTypes, GateTimeout, RequestsUnchanged
    <2>5. ActiveIsListening' BY <1>0, <1>a, <1>b, <1>3
      DEF ActiveIsListening, ListenerTypes, ReloadTypes, GateTimeout, RequestsUnchanged
    <2> QED BY <2>1, <2>2, <2>3, <2>4, <2>5, ReloadFrame
  <1>4. CASE SpawnTasks
    <2>1. ReloadMoves BY <1>0, <1>a, <1>b, <1>4
      DEF ReloadMoves, ReloadPhase, RtTypes, ListenerTypes, ReloadTypes, Listening, SpawnTasks, Candidate, RequestsUnchanged
    <2>2. AheadIsUntouched' BY <1>0, <1>a, <1>b, <1>4
      DEF AheadIsUntouched, ReloadPhase, RtTypes, ListenerTypes, Listening, SpawnTasks, Candidate, RequestsUnchanged
    <2>3. ReloadPhase' BY <1>0, <1>a, <1>b, <1>4 DEF ReloadPhase, RtTypes, ReloadTypes, SpawnTasks, Candidate, RequestsUnchanged
    <2>4. ActiveIsOwned' BY <1>0, <1>a, <1>b, <1>4
      DEF ActiveIsOwned, AheadIsUntouched, ReloadPhase, StillOwned, ReloadTypes, SpawnTasks, Candidate, RequestsUnchanged
    <2>5. ActiveIsListening' BY <1>0, <1>a, <1>b, <1>4
      DEF ActiveIsListening, ListenerTypes, ReloadTypes, SpawnTasks, Candidate, RequestsUnchanged
    <2> QED BY <2>1, <2>2, <2>3, <2>4, <2>5, ReloadFrame
  <1>5. CASE ReloadFails
    <2>0. reload' \in ReloadTypes /\ svc.pc = "run" /\ active + 1 \in Revisions
      BY <1>0, <1>a, <1>5, BoundsAssumption DEF ReloadFails, ReloadPhase, ReloadTypes
    <2>1. ReloadMoves BY <1>0, <1>b, <1>5, <2>0
      DEF ReloadMoves, ListenerTypes, Listening, ReloadFails, Candidate, RequestsUnchanged
    <2>2. AheadIsUntouched' BY <1>0, <1>a, <1>b, <1>5
      DEF AheadIsUntouched, ReloadPhase, RtTypes, ListenerTypes, Listening, ReloadFails, Candidate, RequestsUnchanged
    <2>3. ReloadPhase' BY <1>0, <1>a, <1>b, <1>5 DEF ReloadPhase, RtTypes, ReloadTypes, ReloadFails, Candidate, RequestsUnchanged
    <2>4. ActiveIsOwned' BY <1>0, <1>a, <1>b, <1>5
      DEF ActiveIsOwned, AheadIsUntouched, ReloadPhase, StillOwned, ReloadTypes, ReloadFails, Candidate, RequestsUnchanged
    <2>5. ActiveIsListening' BY <1>0, <1>a, <1>b, <1>5
      DEF ActiveIsListening, ListenerTypes, ReloadTypes, ReloadFails, Candidate, RequestsUnchanged
    <2> QED BY <2>1, <2>2, <2>3, <2>4, <2>5, ReloadFrame
  <1>6. CASE CommitSwap
    <2>1. ReloadMoves BY <1>0, <1>a, <1>b, <1>6
      DEF ReloadMoves, ReloadPhase, RtTypes, ListenerTypes, ReloadTypes, Listening, CommitSwap, Candidate, RequestsUnchanged
    <2>2. AheadIsUntouched' BY <1>0, <1>a, <1>b, <1>6
      DEF AheadIsUntouched, ReloadPhase, RtTypes, ListenerTypes, Listening, CommitSwap, Candidate, RequestsUnchanged
    <2>3. ReloadPhase' BY <1>0, <1>a, <1>b, <1>6 DEF ReloadPhase, RtTypes, ReloadTypes, CommitSwap, Candidate, RequestsUnchanged
    <2>4. ActiveIsOwned' BY <1>0, <1>a, <1>b, <1>6
      DEF ActiveIsOwned, AheadIsUntouched, ReloadPhase, StillOwned, ReloadTypes, CommitSwap, Candidate, RequestsUnchanged
    <2>5. ActiveIsListening' BY <1>0, <1>a, <1>b, <1>6
      DEF ActiveIsListening, ListenerTypes, ReloadTypes, CommitSwap, Candidate, RequestsUnchanged
    <2> QED BY <2>1, <2>2, <2>3, <2>4, <2>5, ReloadFrame
  <1>7. CASE CommitRegister
    <2>1. ReloadMoves BY <1>0, <1>a, <1>b, <1>7, SMTT(20)
      DEF ReloadMoves, ReloadPhase, RtTypes, ListenerTypes, ReloadTypes, Listening, CommitRegister, RequestsUnchanged
    <2>2. AheadIsUntouched' BY <1>0, <1>a, <1>b, <1>7
      DEF AheadIsUntouched, ReloadPhase, RtTypes, ListenerTypes, Listening, CommitRegister, RequestsUnchanged
    <2>3. ReloadPhase' BY <1>0, <1>a, <1>b, <1>7 DEF ReloadPhase, RtTypes, ReloadTypes, CommitRegister, RequestsUnchanged
    <2>4. ActiveIsOwned' BY <1>0, <1>a, <1>b, <1>7
      DEF ActiveIsOwned, AheadIsUntouched, ReloadPhase, StillOwned, ReloadTypes, CommitRegister, RequestsUnchanged
    <2>5. ActiveIsListening' BY <1>0, <1>a, <1>b, <1>7
      DEF ActiveIsListening, ListenerTypes, ReloadTypes, CommitRegister, RequestsUnchanged
    <2> QED BY <2>1, <2>2, <2>3, <2>4, <2>5, ReloadFrame
  <1>8. CASE CommitDrain
    <2>0. active - 1 \in Revisions /\ svc.pc = "run"
      BY <1>a, <1>8 DEF ReloadPhase, CommitDrain
    <2>a. /\ rt' \in RtTypes
          /\ \A r \in Revisions : rt'[r].count = rt[r].count /\ (rt[r].draining => rt'[r].draining)
      BY <1>0, <1>8, <2>0, ZenonT(20) DEF CommitDrain, RtTypes
    <2>1. ReloadMoves BY <1>0, <1>b, <1>8, <2>0, <2>a
      DEF ReloadMoves, ReloadTypes, Listening, CommitDrain, RequestsUnchanged
    <2>2. AheadIsUntouched' BY <1>0, <1>a, <1>b, <1>8
      DEF AheadIsUntouched, ReloadPhase, RtTypes, ListenerTypes, Listening, CommitDrain, RequestsUnchanged
    <2>3. ReloadPhase' BY <1>0, <1>a, <1>b, <1>8 DEF ReloadPhase, RtTypes, ReloadTypes, CommitDrain, RequestsUnchanged
    <2>4. ActiveIsOwned' BY <1>0, <1>a, <1>b, <1>8
      DEF ActiveIsOwned, AheadIsUntouched, ReloadPhase, StillOwned, ReloadTypes, CommitDrain, RequestsUnchanged
    <2>5. ActiveIsListening' BY <1>0, <1>a, <1>b, <1>8
      DEF ActiveIsListening, ListenerTypes, ReloadTypes, CommitDrain, RequestsUnchanged
    <2> QED BY <2>1, <2>2, <2>3, <2>4, <2>5, ReloadFrame
  <1>9. CASE CommitDone
    <2>1. ReloadMoves BY <1>0, <1>a, <1>b, <1>9
      DEF ReloadMoves, ReloadPhase, RtTypes, ListenerTypes, ReloadTypes, Listening, CommitDone, Notified, KeptFinalizers, RequestsUnchanged
    <2>2. AheadIsUntouched' BY <1>0, <1>a, <1>b, <1>9
      DEF AheadIsUntouched, ReloadPhase, RtTypes, ListenerTypes, Listening, CommitDone, Notified, KeptFinalizers, RequestsUnchanged
    <2>3. ReloadPhase' BY <1>0, <1>a, <1>b, <1>9 DEF ReloadPhase, RtTypes, ReloadTypes, CommitDone, Notified, KeptFinalizers, RequestsUnchanged
    <2>4. ActiveIsOwned' BY <1>0, <1>a, <1>b, <1>9
      DEF ActiveIsOwned, AheadIsUntouched, ReloadPhase, StillOwned, ReloadTypes, CommitDone, Notified, KeptFinalizers, RequestsUnchanged
    <2>5. ActiveIsListening' BY <1>0, <1>a, <1>b, <1>9
      DEF ActiveIsListening, ListenerTypes, ReloadTypes, CommitDone, Notified, KeptFinalizers, RequestsUnchanged
    <2> QED BY <2>1, <2>2, <2>3, <2>4, <2>5, ReloadFrame
  <1>10. CASE ReloadDone
    <2>0. svc.pc = "run" /\ active \in owners /\ StillOwned(active)
      BY <1>0, <1>a, <1>b, <1>10
      DEF ReloadDone, ReloadPhase, ActiveIsOwned, AheadIsUntouched, StillOwned
    <2>1. ReloadMoves BY <1>0, <1>b, <1>10, <2>0
      DEF ReloadMoves, ListenerTypes, ReloadTypes, Listening, ReloadDone, Prune, KeptFinalizers,
          RequestsUnchanged
    <2>2. AheadIsUntouched' BY <1>0, <1>a, <1>b, <1>10
      DEF AheadIsUntouched, ReloadPhase, RtTypes, ListenerTypes, Listening, ReloadDone, Prune, KeptFinalizers, RequestsUnchanged
    <2>3. ReloadPhase' BY <1>0, <1>a, <1>b, <1>10 DEF ReloadPhase, RtTypes, ReloadTypes, ReloadDone, Prune, KeptFinalizers, RequestsUnchanged
    <2>4. ActiveIsOwned' BY <1>0, <1>a, <1>b, <1>10
      DEF ActiveIsOwned, AheadIsUntouched, ReloadPhase, StillOwned, ReloadTypes, ReloadDone, Prune, KeptFinalizers, RequestsUnchanged
    <2>5. ActiveIsListening' BY <1>0, <1>a, <1>b, <1>10
      DEF ActiveIsListening, ListenerTypes, ReloadTypes, ReloadDone, Prune, KeptFinalizers, RequestsUnchanged
    <2> QED BY <2>1, <2>2, <2>3, <2>4, <2>5, ReloadFrame
  <1>11. ASSUME NEW r \in Revisions, JoinNext(r) PROVE IInv'
    <2>1. ReloadMoves BY <1>0, <1>a, <1>b, <1>11, SMTT(20)
      DEF ReloadMoves, ListenerTypes, Listening, JoinNext, Prune, KeptFinalizers, RequestsUnchanged
    <2>2. AheadIsUntouched' BY <1>0, <1>a, <1>b, <1>11, SMTT(20)
      DEF AheadIsUntouched, ListenerTypes, Listening, JoinNext, Prune, KeptFinalizers, RequestsUnchanged
    <2>3. ReloadPhase' BY <1>0, <1>a, <1>11, SMTT(20) DEF ReloadPhase, JoinNext, Prune, KeptFinalizers, RequestsUnchanged
    <2>4. ActiveIsOwned' BY <1>0, <1>a, <1>b, <1>11
      DEF ActiveIsOwned, AheadIsUntouched, StillOwned, JoinNext, Prune, KeptFinalizers, RequestsUnchanged
    <2>5. ActiveIsListening' BY <1>0, <1>a, <1>11, SMTT(20) DEF ActiveIsListening, ListenerTypes, JoinNext, Prune, KeptFinalizers, RequestsUnchanged
    <2> QED BY <2>1, <2>2, <2>3, <2>4, <2>5, ReloadFrame, SMTT(20)
  <1> QED BY <1>1, <1>2, <1>3, <1>4, <1>5, <1>6, <1>7, <1>8, <1>9, <1>10, <1>11, SMTT(20) DEF ReloadStep

-------------------------------------------------------------------------------
(* Shutdown.                                                                *)

\* What the steps of a shutdown have in common: no reload is under way, flags are only
\* raised, listeners only end, and a runtime with a guard stays owned.
ShutdownMoves ==
    /\ UNCHANGED <<active, cell, finalizers, gate, req, aim, refresh>>
    /\ svc' \in SvcTypes /\ svc'.pc # "run" /\ reload' \in ReloadTypes /\ reload'.pc = "idle"
    /\ reload.pc \in {"idle", "gate"}
    /\ rt' \in RtTypes /\ fin' \in FinTypes /\ listener' \in ListenerTypes /\ woken' \subseteq Revisions
    /\ owners' \subseteq owners /\ {r \in owners : StillOwned(r)} \subseteq owners'
    /\ \A r \in Revisions :
          /\ rt'[r].count = rt[r].count /\ (rt[r].draining => rt'[r].draining)
          /\ fin'[r].drains = fin[r].drains
          /\ Listening(r)' => Listening(r)

\* Such a step keeps the invariant if it keeps what shutdown knows of draining runtimes.
LEMMA ShutdownFrame ==
    ASSUME IInv, ShutdownMoves, ShutdownPhase', DrainedStaysDrained'
    PROVE  IInv'
  <1> USE DEF IInv, ShutdownMoves
  <1>0. TypeOK'
    BY DEF TypeOK, SvcTypes, RtTypes, FinTypes, ListenerTypes, ReloadTypes
  <1>1. RequestsPlaced' BY DEF RequestsPlaced
  <1>2. GuardsCounted' BY SameGuards DEF Guarded
  <1>3. AheadIsUntouched' BY DEF AheadIsUntouched
  <1>4. StartedIsOwned' BY DEF StartedIsOwned, StillOwned
  <1>5. ReloadPhase' BY SMTT(20) DEF ReloadPhase
  <1>6. ActiveIsOwned' BY SMTT(20) DEF ActiveIsOwned
  <1>7. AdmittedIsOwned'
    <2> SUFFICES ASSUME NEW q \in Requests, req[q].pc = "admitted" PROVE req[q].rt \in owners'
      BY SMTT(20) DEF AdmittedIsOwned
    <2>1. req[q].rt \in owners /\ StillOwned(req[q].rt)
      BY NoGuardAtZero, SMTT(20) DEF Guarded, RequestsAreOwned, AdmittedIsOwned
    <2> QED BY <2>1, SMTT(20)
  <1>8. RequestsAreOwned'
    BY <1>7 DEF RequestsAreOwned, CollectorsAreOwned, ActiveIsListening
  <1> QED BY <1>0, <1>1, <1>2, <1>3, <1>4, <1>5, <1>6, <1>8, SMTT(20)

\* The steps of a shutdown keep the invariant.
LEMMA ShutdownInv ==
    ASSUME IInv, ShutdownBegin \/ DeadlineExpires \/ ShutdownStep
    PROVE  IInv'
  <1>0. /\ rt \in RtTypes /\ listener \in ListenerTypes /\ reload \in ReloadTypes /\ svc \in SvcTypes
        /\ fin \in FinTypes /\ owners \subseteq Revisions /\ woken \subseteq Revisions
        /\ finalizers \subseteq Revisions
        /\ svc.pc # "run" => reload.pc = "idle"
        /\ ShutdownPhase /\ DrainedStaysDrained
    BY DEF IInv, TypeOK, RtTypes, ListenerTypes, ReloadTypes, SvcTypes, FinTypes, ReloadPhase,
           RequestsAreOwned
  <1>1. CASE ShutdownBegin
    <2>1. ShutdownMoves
      BY <1>0, <1>1, ZenonT(20) DEF ShutdownMoves, ShutdownBegin, ReloadTypes, SvcTypes, Listening
    <2>2. owners # {}
      BY <1>1 DEF IInv, ActiveIsOwned, ShutdownBegin
    <2>3. ShutdownPhase' /\ DrainedStaysDrained'
      BY <1>0, <1>1, <2>2 DEF ShutdownPhase, DrainedStaysDrained, ShutdownBegin, SvcTypes
    <2> QED BY <2>1, <2>3, ShutdownFrame
  <1>2. CASE ShutdownDrain
    <2>0. PICK r \in svc.todo : r = Min(svc.todo) /\ r \in Revisions
      BY <1>0, <1>2, MinRevision DEF ShutdownDrain, ShutdownPhase, SvcTypes
    <2>1. /\ rt' \in RtTypes /\ rt'[r].draining
          /\ \A x \in Revisions : rt'[x].count = rt[x].count /\ (rt[x].draining => rt'[x].draining)
      BY <1>0, <1>2, <2>0, ZenonT(20) DEF ShutdownDrain, RtTypes
    <2>2. svc' = [svc EXCEPT !.todo = @ \ {r}, !.pc = IF svc.todo = {r} THEN "join" ELSE @]
      BY <1>2, <2>0 DEF ShutdownDrain
    <2>g. svc.pc = "drain" BY <1>2 DEF ShutdownDrain
    <2>e. svc' \in SvcTypes /\ svc'.pc \in {"drain", "join"}
      BY <1>0, <2>2, <2>g, ZenonT(20) DEF SvcTypes
    <2>f. woken' \subseteq Revisions
      BY <1>0, <1>2, <2>0 DEF ShutdownDrain, Notified
    <2>a. svc' \in SvcTypes /\ svc'.pc \in {"drain", "join"} /\ woken' \subseteq Revisions
      BY <2>e, <2>f
    <2>3. ShutdownMoves
      BY <1>0, <1>2, <2>1, <2>a DEF ShutdownMoves, ShutdownDrain, Listening, CoordinatorUnchanged
    <2>b. /\ svc'.todo = svc.todo \ {r} /\ svc'.drained = svc.drained /\ owners' = owners
          /\ svc'.pc = IF svc.todo = {r} THEN "join" ELSE "drain"
      BY <1>0, <1>2, <2>2, ZenonT(20) DEF ShutdownDrain, SvcTypes, CoordinatorUnchanged
    <2>c. \A x \in owners \ svc'.todo : rt'[x].draining
      BY <1>0, <1>2, <2>1, <2>b DEF ShutdownPhase, ShutdownDrain
    <2>d. svc.drained = {}
      BY <1>0, <1>2 DEF ShutdownPhase, ShutdownDrain
    <2>4. ShutdownPhase'
      <3>1. CASE svc.todo = {r}
        BY <2>a, <2>b, <2>c, <2>d, <3>1, SMTT(20) DEF ShutdownPhase, SvcTypes
      <3>2. CASE svc.todo # {r}
        BY <2>0, <2>a, <2>b, <2>c, <2>d, <3>2 DEF ShutdownPhase, SvcTypes
      <3> QED BY <3>1, <3>2, SMTT(20)
    <2>5. DrainedStaysDrained'
      BY <1>0, <1>2, <2>2 DEF DrainedStaysDrained, ShutdownDrain, SvcTypes
    <2> QED BY <2>3, <2>4, <2>5, ShutdownFrame
  <1>3. CASE DeadlineExpires
    <2>1. ShutdownMoves
      BY <1>0, <1>3, ZenonT(20) DEF ShutdownMoves, DeadlineExpires, SvcTypes, Listening, CoordinatorUnchanged
    <2>2. ShutdownPhase' /\ DrainedStaysDrained'
      BY <1>0, <1>3
      DEF ShutdownPhase, DrainedStaysDrained, DeadlineExpires, SvcTypes, CoordinatorUnchanged
    <2> QED BY <2>1, <2>2, ShutdownFrame
  <1>4. CASE SupervisorDone
    <2>1. ShutdownMoves
      BY <1>0, <1>4, ZenonT(20)
      DEF ShutdownMoves, SupervisorDone, SvcTypes, ListenerTypes, Listening, CoordinatorUnchanged
    <2>2. ShutdownPhase' /\ DrainedStaysDrained'
      BY <1>0, <1>4
      DEF ShutdownPhase, DrainedStaysDrained, SupervisorDone, SvcTypes, CoordinatorUnchanged
    <2> QED BY <2>1, <2>2, ShutdownFrame
  <1>5. ASSUME NEW r \in Revisions, WaitDone(r) PROVE IInv'
    <2>0. r \in svc.todo /\ svc.pc = "wait" /\ rt[r].count = 0
      BY <1>0, <1>5, MinRevision DEF WaitDone, WaitingFor, Waited, SvcTypes
    <2>1. ShutdownMoves
      BY <1>0, <1>5, <2>0, ZenonT(20) DEF ShutdownMoves, WaitDone, NextWait, WaitOnly, SvcTypes, Listening
    <2>2. ShutdownPhase'
      BY <1>0, <1>5, <2>0 DEF ShutdownPhase, WaitDone, NextWait, WaitOnly, SvcTypes
    <2>3. \A q \in Requests : req[q].pc = "admitted" => req[q].rt # r
      BY <2>0, NoGuardAtZero DEF Guarded
    <2>4. DrainedStaysDrained'
      BY <1>0, <1>5, <2>3 DEF DrainedStaysDrained, WaitDone, NextWait, WaitOnly, SvcTypes
    <2> QED BY <2>1, <2>2, <2>4, ShutdownFrame
  <1>6. ASSUME NEW r \in Revisions,
               WaitLook(r) \/ WaitArm(r) \/ WaitSleep(r) \/ WaitWoken(r) \/ WaitExpired(r)
        PROVE  IInv'
    <2>a. /\ svc.pc = "wait" /\ UNCHANGED <<owners, finalizers>> /\ WaitOnly
          /\ svc' \in SvcTypes /\ svc'.pc = "wait" /\ svc'.todo \subseteq svc.todo
          /\ svc'.drained = svc.drained
      <3>1. CASE WaitLook(r) BY <1>0, <3>1 DEF WaitLook, WaitingFor, SvcTypes
      <3>2. CASE WaitArm(r) BY <1>0, <3>2 DEF WaitArm, WaitingFor, SvcTypes
      <3>3. CASE WaitSleep(r) BY <1>0, <3>3 DEF WaitSleep, WaitingFor, SvcTypes
      <3>4. CASE WaitWoken(r) BY <1>0, <3>4, ZenonT(20) DEF WaitWoken, WaitingFor, SvcTypes
      <3>5. CASE WaitExpired(r) BY <1>0, <3>5, ZenonT(20) DEF WaitExpired, WaitingFor, NextWait, SvcTypes
      <3> QED BY <1>6, <3>1, <3>2, <3>3, <3>4, <3>5
    <2>1. ShutdownMoves
      BY <1>0, <2>a, SMTT(20) DEF ShutdownMoves, WaitOnly, Listening
    <2>2. ShutdownPhase' /\ DrainedStaysDrained'
      BY <1>0, <2>a DEF ShutdownPhase, DrainedStaysDrained, WaitOnly
    <2> QED BY <2>1, <2>2, ShutdownFrame, SMTT(20)
  <1>7. CASE WaitAllDone
    <2>1. ShutdownMoves
      BY <1>0, <1>7, ZenonT(20) DEF ShutdownMoves, WaitAllDone, WaitOnly, SvcTypes, Listening
    <2>2. ShutdownPhase' /\ DrainedStaysDrained'
      BY <1>0, <1>7 DEF ShutdownPhase, DrainedStaysDrained, WaitAllDone, WaitOnly, SvcTypes
    <2> QED BY <2>1, <2>2, ShutdownFrame
  <1>8. ASSUME NEW r \in Revisions, CloseFinalizer(r) PROVE IInv'
    <2>1. ShutdownMoves
      BY <1>0, <1>8, ZenonT(20)
      DEF ShutdownMoves, CloseFinalizer, FinTypes, Listening, CoordinatorUnchanged
    <2>2. ShutdownPhase' /\ DrainedStaysDrained'
      BY <1>0, <1>8 DEF ShutdownPhase, DrainedStaysDrained, CloseFinalizer, CoordinatorUnchanged
    <2> QED BY <2>1, <2>2, ShutdownFrame
  <1>9. ASSUME (\E r \in Revisions : FinalizerDone(r)) \/ Stop PROVE IInv'
    <2>1. ShutdownMoves
      BY <1>0, <1>9 DEF ShutdownMoves, FinalizerDone, Stop, WaitOnly, SvcTypes, Listening
    <2>2. ShutdownPhase' /\ DrainedStaysDrained'
      BY <1>0, <1>9 DEF ShutdownPhase, DrainedStaysDrained, FinalizerDone, Stop, WaitOnly, SvcTypes
    <2> QED BY <2>1, <2>2, ShutdownFrame
  <1> QED
    BY <1>1, <1>2, <1>3, <1>4, <1>5, <1>6, <1>7, <1>8, <1>9, SMTT(20) DEF ShutdownStep, WaitStep

-------------------------------------------------------------------------------
(* The theorems.                                                            *)

\* The first runtime, listening and owned, satisfies the invariant.
LEMMA InitInv == Init => IInv
  <1> SUFFICES ASSUME Init PROVE IInv
    OBVIOUS
  <1> USE DEF Init
  <1>0. 1 \in Revisions /\ \A r \in Revisions : r \in Nat /\ (r > 1 => r # 1) /\ r # 0
    <2>1. MaxRevision \in Nat /\ MaxRevision # 0 BY BoundsAssumption
    <2> QED BY <2>1 DEF Revisions
  <1>1. TypeOK
    <2>1. rt \in [Revisions -> [draining : BOOLEAN, count : Nat, version : Nat]]
      BY SMTT(20) DEF FreshRuntime
    <2>2. fin \in [Revisions -> [drains : SUBSET Drains, writes : SUBSET Submitters, closed : BOOLEAN]]
      BY DEF FreshFinalizer
    <2>3. 0 \in 0..MaxRevision /\ 0 \in 0..MaxFailures
      BY BoundsAssumption
    <2> QED BY <1>0, <2>1, <2>2, <2>3, ZenonT(20) DEF TypeOK, NoRequest
  <1>2. RequestsPlaced BY DEF RequestsPlaced, NoRequest
  <1>3. GuardsCounted
    <2>1. \A r \in Revisions : Guards(r) = {}
      BY DEF Guards, Guarded, NoRequest
    <2> QED BY <2>1, FS_EmptySet, ZenonT(20) DEF GuardsCounted, FreshRuntime
  <1>4. AheadIsUntouched BY <1>0 DEF AheadIsUntouched, Listening, FreshRuntime
  <1>5. StartedIsOwned BY <1>0 DEF StartedIsOwned, Listening, NoRequest
  <1>6. ReloadPhase BY DEF ReloadPhase
  <1>7. ActiveIsOwned BY DEF ActiveIsOwned
  <1>8. ShutdownPhase BY DEF ShutdownPhase
  <1>9. RequestsAreOwned
    BY <1>0 DEF RequestsAreOwned, DrainedStaysDrained, AdmittedIsOwned, CollectorsAreOwned,
                ActiveIsListening, NoRequest, FreshFinalizer
  <1> QED
    BY <1>1, <1>2, <1>3, <1>4, <1>5, <1>6, <1>7, <1>8, <1>9 DEF IInv

\* Every step keeps the invariant.
LEMMA NextInv == IInv /\ [Next]_vars => IInv'
  <1> SUFFICES ASSUME IInv, [Next]_vars PROVE IInv'
    OBVIOUS
  <1>1. CASE Next
    BY <1>1, BackgroundInv, RequestInv, ListenerInv, RefreshInv, ReloadInv, ShutdownInv DEF Next
  <1>2. CASE UNCHANGED vars
    <2>1. BackgroundOnly /\ fin' = fin /\ aim' = aim
      BY <1>2 DEF vars, BackgroundOnly, CoordinatorUnchanged
    <2> QED
      BY <2>1, BackgroundFrame, ZenonT(20)
      DEF IInv, TypeOK, FinTypes, RequestsAreOwned, CollectorsAreOwned
  <1> QED BY <1>1, <1>2

\* The invariant holds in every reachable state.
THEOREM Invariant == Spec => []IInv
  BY InitInv, NextInv, PTL DEF Spec

\* Types: runtimes, owners, finalizers, requests, reload, refresh and shutdown.
THEOREM Types == Spec => []TypeOK
  <1>1. IInv => TypeOK
    BY DEF IInv
  <1> QED BY <1>1, Invariant, PTL

\* try_acquire, the prunes, commit and shutdown: an admitted request runs in an owned
\* runtime that was not reported as drained, a collector in a registered finalizer, and
\* between reloads the published runtime accepts; for any number of each.
THEOREM WorkIsOwned == Spec => []RequestsAreOwned
  <1>1. IInv => RequestsAreOwned
    BY DEF IInv
  <1> QED BY <1>1, Invariant, PTL

\* prepare_service_activation and refresh_resource_if_current: no step takes the published
\* resources back to an older version.
THEOREM ResourcesAreKept == Spec => ResourcesNeverRollBack
  <1>1. IInv /\ [Next]_vars => [KeepsResources]_vars
    <2> SUFFICES ASSUME IInv, Next PROVE KeepsResources
      OBVIOUS
    <2>0. /\ rt \in RtTypes /\ active \in Revisions /\ req \in ReqTypes
          /\ ReloadPhase /\ RequestsPlaced /\ ShutdownPhase /\ svc \in SvcTypes
          /\ \A r \in Revisions : rt[r].version \in Nat /\ r + 1 # r
      <3>1. active \in Revisions BY DEF IInv, TypeOK
      <3>2. \A r \in Revisions : rt[r].version \in Nat BY TypesOf DEF RtTypes
      <3>3. \A r \in Revisions : r + 1 # r BY BoundsAssumption DEF Revisions
      <3> QED BY <3>1, <3>2, <3>3, TypesOf DEF IInv
    <2>1. CASE UNCHANGED <<rt, active>>
      BY <2>0, <2>1 DEF KeepsResources
    <2>2. ASSUME active' = active,
                 \E r \in Revisions : \/ \E n : rt' = [rt EXCEPT ![r].count = n]
                                      \/ rt' = [rt EXCEPT ![r].draining = TRUE]
                                      \/ rt' = [rt EXCEPT ![r].version = @ + 1]
          PROVE  KeepsResources
      BY <2>0, <2>2 DEF KeepsResources, RtTypes
    <2>3. ASSUME NEW q \in Requests, RequestStep(q) PROVE KeepsResources
      <3>1. req[q].pc # "idle" => req[q].rt \in Revisions
        BY <2>0, BoundsAssumption DEF ReqTypes, RequestsPlaced, Revisions
      <3>2. CASE AcquireCount(q) \/ DropGuard(q)
        BY <2>2, <3>1, <3>2, SMTT(20) DEF AcquireCount, DropGuard, Stays, CoordinatorUnchanged
      <3>3. CASE ~(AcquireCount(q) \/ DropGuard(q))
        BY <2>1, <2>3, <3>3
        DEF RequestStep, AcquireCheck, AcquireRetry, AcquireRecheck, Finish, NotifyDrained, Stays,
            CoordinatorUnchanged
      <3> QED BY <3>2, <3>3, SMTT(20)
    <2>4. ASSUME \/ \E r \in Revisions : ListenerStep(r) \/ BackgroundEnds(r) \/ JoinNext(r)
                 \/ \E q \in Requests, r \in Revisions : Receive(q, r)
                 \/ \E q \in Requests, d \in Drains : SpawnDrain(q, d)
                 \/ \E s \in Submitters : Aim(s) \/ Submit(s)
          PROVE  UNCHANGED <<rt, active>>
      BY <2>4, ZenonT(20)
      DEF ListenerStep, ListenArm, ListenCheck, ListenRetire, ListenCancelled, BackgroundEnds,
          WriteEnds, DrainEnds, JoinNext, Receive, SpawnDrain, Aim, Submit, BackgroundOnly,
          CoordinatorUnchanged
    <2>5. CASE PrepareActivation
      <3>1. active + 1 \in Revisions
        BY <2>0, <2>5 DEF ReloadPhase, PrepareActivation
      <3> QED BY <2>0, <2>5, <3>1 DEF KeepsResources, PrepareActivation, Candidate, RtTypes
    <2>6. CASE CommitSwap
      BY <2>0, <2>6 DEF KeepsResources, ReloadPhase, CommitSwap, Candidate
    <2>7. CASE CommitDrain
      <3>1. active - 1 \in Revisions
        BY <2>0, <2>7, SMTT(20) DEF ReloadPhase, CommitDrain
      <3> QED BY <2>2, <2>7, <3>1, ZenonT(20) DEF CommitDrain
    <2>8. ASSUME \/ ReloadBegin \/ GateTimeout \/ SpawnTasks \/ ReloadFails
                 \/ CommitRegister \/ CommitDone \/ ReloadDone
          PROVE  UNCHANGED <<rt, active>>
      BY <2>8
      DEF ReloadBegin, GateTimeout, SpawnTasks, ReloadFails, CommitRegister, CommitDone, ReloadDone
    <2>9. CASE RefreshPublish
      <3>1. refresh.rt \in Revisions
        BY <2>0, <2>9 DEF ReloadPhase, RefreshPublish
      <3> QED BY <2>2, <2>9, <3>1, ZenonT(20) DEF RefreshPublish, RefreshOnly
    <2>10. CASE RefreshLoad \/ RefreshGate \/ RefreshAbandon
      BY <2>1, <2>10 DEF RefreshLoad, RefreshGate, RefreshAbandon, RefreshOnly
    <2>11. CASE ShutdownDrain
      <3>1. Min(svc.todo) \in Revisions
        BY <2>0, <2>11, MinRevision, SMTT(20) DEF ShutdownDrain, ShutdownPhase, SvcTypes
      <3> QED BY <2>2, <2>11, <3>1, ZenonT(20) DEF ShutdownDrain, CoordinatorUnchanged
    <2>12. ASSUME \/ ShutdownBegin \/ DeadlineExpires \/ SupervisorDone \/ WaitAllDone \/ Stop
                  \/ \E r \in Revisions : WaitStep(r) \/ CloseFinalizer(r) \/ FinalizerDone(r)
           PROVE  UNCHANGED <<rt, active>>
      BY <2>12
      DEF ShutdownBegin, DeadlineExpires, SupervisorDone, WaitAllDone, Stop, WaitStep, WaitLook,
          WaitDone, WaitArm, WaitSleep, WaitWoken, WaitExpired, CloseFinalizer, FinalizerDone,
          WaitOnly, CoordinatorUnchanged
    <2> QED
      BY <2>1, <2>3, <2>4, <2>5, <2>6, <2>7, <2>8, <2>9, <2>10, <2>11, <2>12, SMTT(20)
      DEF Next, ReloadStep, RefreshStep, ShutdownStep
  <1> QED
    BY <1>1, Invariant, PTL DEF Spec, ResourcesNeverRollBack
===============================================================================
