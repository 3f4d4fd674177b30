--------------------------- MODULE CacheFlowProofs ---------------------------
(***************************************************************************)
(* Proofs about one key of the response cache (dns/policy.rs,              *)
(* cache/service.rs, cache/moka.rs): every open load is held, a fresh      *)
(* record is kept, and an answer is given up only for a newer one, for any *)
(* number of requests, background tasks, loads and writes.                 *)
(*                                                                         *)
(* FlowInv says for each decision taken on an earlier state of the record  *)
(* (a request's condition, a task's, the worker's retry) what may have     *)
(* become of the record since.                                             *)
(***************************************************************************)
EXTENDS CacheFlow, TLAPS

\* The types of the records of the state.
Known == Qualities \cup {0}
Ages == {"fresh", "stale", "expired", "gone"}
Steps == {"lookup", "reserve", "leading", "waiting", "told", "alone", "publish", "done"}
Asks == [pc : Steps, cond : Nat, seen : Nat, quality : Known]
Tasks == [pc : {"free", "lookup", "exchange", "collect", "write"},
          kind : {"none", "refresh", "drain", "late"}, cond : Nat, quality : Known]
Records == [version : Nat, quality : Known, age : Ages]
Outcomes == {"none", "ready", "failed", "abandoned"}
Roles == [kind : {"out", "leader", "follower"}, promise : Nat, seen : Outcomes \cup {"ended"}]
Commits == [stage : {"idle", "write", "retry", "stored", "conflict", "failed"}, version : Nat]

\* The record and the version counter: a record has gone exactly when its version is 0.
StoreFits(rec, ver) ==
  /\ rec \in Records /\ ver \in Nat
  /\ rec.version <= ver /\ ver <= MaxVersion
  /\ rec.version = 0 <=> rec = Gone
  /\ rec.age = "gone" <=> rec = Gone

\* Since a request looked, the record has stayed, gone or been written anew, and what
\* its condition names is not fresh.
AskFits(a, rec, ver) ==
  /\ a \in Asks
  /\ a.cond <= a.seen /\ a.seen <= ver
  /\ rec.version = 0 \/ rec.version = a.cond \/ rec.version > a.seen
  /\ a.cond = rec.version => rec.age # "fresh"

\* A task's condition names a fresh record only if its answer is better.
TaskFits(t, rec, ver) ==
  /\ t \in Tasks
  /\ t.cond <= ver
  /\ t.cond = rec.version /\ rec.age = "fresh" => t.pc = "write" /\ t.quality > rec.quality

\* A request leads a load from its reservation until its candidate has ended, and
\* follows one while it waits.
PlaceFits(a, m, h) ==
  /\ h # "none" => a.pc = "done"
  /\ (m.kind = "leader") <=> (a.pc \in {"leading", "publish"} \/ h \in {"queued", "working"})
  /\ (m.kind = "follower") <=> (a.pc \in {"waiting", "told"})

\* The invariant says so of the store, every request, every task and every place.
StoreInv == StoreFits(record, versions)
AsksInv ==
  req \in [Requests -> Asks] /\ \A r \in Requests : AskFits(req[r], record, versions)
TasksInv ==
  job \in [Slots -> Tasks] /\ jobs \in Nat /\ \A s \in Slots : TaskFits(job[s], record, versions)
PlacesInv ==
  /\ handoff \in [Requests -> Pipe!Places]
  /\ \A r \in Requests : PlaceFits(req[r], role[r], handoff[r])

\* Every open load has a leader.
LoadsInv ==
  /\ promise \in [Loads!Promises -> [key : SUBSET {"key"}, outcome : Outcomes]]
  /\ role \in [Requests -> Roles]
  /\ \A r \in Requests : role[r].kind # "out" => role[r].promise \in Loads!Promises
  /\ \A p \in Loads!Promises : Loads!Used(p) /\ promise[p].outcome = Loads!Open =>
       \E r \in Requests : role[r].kind = "leader" /\ role[r].promise = p

\* The cache worker is busy with one candidate, and its second attempt is made when
\* the record has gone.
WorkInv ==
  /\ commit \in Commits
  /\ \A r \in Requests : handoff[r] = "working" =>
       /\ commit.stage # "idle"
       /\ \A q \in Requests : handoff[q] = "working" => q = r
       /\ commit.stage = "retry" => record.version = 0 \/ record.version > req[r].seen

\* The inductive invariant of the key.
FlowInv == StoreInv /\ AsksInv /\ TasksInv /\ PlacesInv /\ LoadsInv /\ WorkInv

-----------------------------------------------------------------------------
(* What a step does to the record. *)

\* A step leaves the record, ages it, removes it or writes a new version, which is
\* better than a fresh one.
RecordMoves ==
  \/ UNCHANGED <<record, versions>>
  \/ /\ versions' = versions /\ record' \in Records
     /\ record.age # "gone" /\ record'.age \in {"stale", "expired"}
     /\ record'.version = record.version /\ record'.quality = record.quality
  \/ versions' = versions /\ record' = Gone
  \/ /\ versions < MaxVersion /\ versions' = versions + 1
     /\ record' \in Records /\ record'.version = versions + 1 /\ record'.age # "gone"
     /\ record.age = "fresh" => record'.quality > record.quality

\* A record keeps its shape.
LEMMA StoreKeeps ==
  ASSUME StoreInv, RecordMoves
  PROVE  StoreInv'
<1>0. MaxVersion \in Nat BY FlowAssumption
<1>g. Gone \in Records /\ Gone.version = 0 /\ Gone.age = "gone" BY DEF Gone, Records, Known, Ages
<1>1. CASE UNCHANGED <<record, versions>> BY <1>1 DEF StoreInv
<1>2. CASE record' # record \/ versions' # versions
  BY <1>2, <1>0, <1>g DEF StoreInv, StoreFits, RecordMoves, Records
<1> QED BY <1>1, <1>2

\* What fits a record also fits what becomes of it.
LEMMA FitsKeep ==
  ASSUME StoreInv, RecordMoves
  PROVE  /\ \A a : AskFits(a, record, versions) => AskFits(a, record', versions')
         /\ \A t : TaskFits(t, record, versions) => TaskFits(t, record', versions')
<1>g. Gone.version = 0 /\ Gone.age = "gone" BY DEF Gone
<1>1. ASSUME NEW a, AskFits(a, record, versions) PROVE AskFits(a, record', versions')
  BY <1>1, <1>g DEF StoreInv, StoreFits, AskFits, RecordMoves, Asks, Records
<1>2. ASSUME NEW t, TaskFits(t, record, versions) PROVE TaskFits(t, record', versions')
  BY <1>2, <1>g DEF StoreInv, StoreFits, TaskFits, RecordMoves, Tasks, Records
<1> QED BY <1>1, <1>2

\* The requests after a step in which one of them, or none, changes.
LEMMA AsksFrame ==
  ASSUME StoreInv, AsksInv, RecordMoves,
         \/ req' = req
         \/ \E r \in Requests : \E a : AskFits(a, record', versions') /\ req' = [req EXCEPT ![r] = a]
  PROVE  AsksInv'
<1>1. \A r \in Requests : AskFits(req[r], record', versions') BY FitsKeep DEF AsksInv
<1>2. CASE req' = req BY <1>1, <1>2 DEF AsksInv
<1>3. ASSUME NEW r \in Requests, NEW a, AskFits(a, record', versions'), req' = [req EXCEPT ![r] = a]
      PROVE  AsksInv'
  <2>1. a \in Asks BY <1>3 DEF AskFits
  <2>2. \A q \in Requests : req'[q] = IF q = r THEN a ELSE req[q] BY <1>3 DEF AsksInv
  <2>3. \A q \in Requests : AskFits(req'[q], record', versions') BY <2>2, <1>1, <1>3
  <2> QED BY <2>1, <2>3, <1>3 DEF AsksInv
<1> QED BY <1>2, <1>3

\* The tasks after a step in which one of them, or none, changes.
LEMMA TasksFrame ==
  ASSUME StoreInv, TasksInv, RecordMoves, jobs' \in Nat,
         \/ job' = job
         \/ \E s \in Slots : \E t : TaskFits(t, record', versions') /\ job' = [job EXCEPT ![s] = t]
  PROVE  TasksInv'
<1>1. \A s \in Slots : TaskFits(job[s], record', versions') BY FitsKeep DEF TasksInv
<1>2. CASE job' = job BY <1>1, <1>2 DEF TasksInv
<1>3. ASSUME NEW s \in Slots, NEW t, TaskFits(t, record', versions'), job' = [job EXCEPT ![s] = t]
      PROVE  TasksInv'
  <2>1. t \in Tasks BY <1>3 DEF TaskFits
  <2>2. \A u \in Slots : job'[u] = IF u = s THEN t ELSE job[u] BY <1>3 DEF TasksInv
  <2>3. \A u \in Slots : TaskFits(job'[u], record', versions') BY <2>2, <1>1, <1>3
  <2> QED BY <2>1, <2>3, <1>3 DEF TasksInv
<1> QED BY <1>2, <1>3

\* The worker after a step that touches neither it nor the request it works for.
LEMMA WorkFrame ==
  ASSUME StoreInv, AsksInv, WorkInv, RecordMoves, commit' = commit,
         \A r \in Requests : handoff'[r] = "working" => handoff[r] = "working" /\ req'[r] = req[r]
  PROVE  WorkInv'
<1>1. SUFFICES ASSUME NEW r \in Requests, handoff'[r] = "working"
               PROVE  /\ commit'.stage # "idle"
                      /\ \A q \in Requests : handoff'[q] = "working" => q = r
                      /\ commit'.stage = "retry" =>
                           record'.version = 0 \/ record'.version > req'[r].seen
  BY DEF WorkInv
<1>2. handoff[r] = "working" /\ req'[r] = req[r] BY <1>1
<1>3. commit'.stage # "idle" /\ \A q \in Requests : handoff'[q] = "working" => q = r
  BY <1>1, <1>2 DEF WorkInv
<1>4. ASSUME commit'.stage = "retry" PROVE record'.version = 0 \/ record'.version > req'[r].seen
  <2>1. record.version = 0 \/ record.version > req[r].seen BY <1>2, <1>4 DEF WorkInv
  <2>2. req[r].seen \in Nat /\ req[r].seen <= versions BY DEF AsksInv, AskFits, Asks
  <2>3. Gone.version = 0 BY DEF Gone
  <2> QED BY <2>1, <2>2, <2>3, <1>2 DEF RecordMoves, StoreInv, StoreFits
<1> QED BY <1>3, <1>4

\* Where requests stand after a step of one of them.
LEMMA PlacesFrame ==
  ASSUME PlacesInv, req \in [Requests -> Asks], role \in [Requests -> Roles],
         NEW r \in Requests, NEW a, NEW m, NEW h \in Pipe!Places, PlaceFits(a, m, h),
         req' = [req EXCEPT ![r] = a], role' = [role EXCEPT ![r] = m],
         handoff' = [handoff EXCEPT ![r] = h]
  PROVE  PlacesInv'
<1>1. handoff' \in [Requests -> Pipe!Places] BY DEF PlacesInv
<1>2. \A q \in Requests : /\ req'[q] = IF q = r THEN a ELSE req[q]
                          /\ role'[q] = IF q = r THEN m ELSE role[q]
                          /\ handoff'[q] = IF q = r THEN h ELSE handoff[q]
  BY DEF PlacesInv
<1>3. \A q \in Requests : PlaceFits(req'[q], role'[q], handoff'[q]) BY <1>2 DEF PlacesInv
<1> QED BY <1>1, <1>3 DEF PlacesInv

-----------------------------------------------------------------------------
(* The load map, as the requests use it. *)

\* What a step of request r does in the load map.
LoadMoves(r) ==
  \/ UNCHANGED <<promise, role>>
  \/ Loads!Lead(r, "key") \/ \E p \in Loads!Promises : Loads!Follow(r, p)
  \/ Loads!Learn(r) \/ Loads!GiveUp(r) \/ Loads!Leave(r)
  \/ \E o \in {"ready", "failed", "abandoned"} : Loads!EndLease(r, o)

\* The load map keeps a leader for every open load.
LEMMA LoadsKeep ==
  ASSUME LoadsInv, NEW r \in Requests, LoadMoves(r)
  PROVE  LoadsInv'
<1> USE DEF Loads!Open
<1>t. \A c \in Requests : role[c] \in Roles BY DEF LoadsInv
<1>o. Loads!Out \in Roles /\ Loads!Out.kind = "out"
  BY DEF Loads!Out, Roles, Outcomes
<1>1. CASE UNCHANGED <<promise, role>> BY <1>1 DEF LoadsInv, Loads!Used
<1>2. CASE Loads!Lead(r, "key")
  <2>1. PICK p \in Loads!Promises :
          /\ ~Loads!Used(p) /\ promise' = [promise EXCEPT ![p].key = {"key"}]
          /\ role' = [role EXCEPT ![r] = [kind |-> "leader", promise |-> p, seen |-> "none"]]
    BY <1>2, ZenonT(20) DEF Loads!Lead
  <2>2. role[r].kind = "out" BY <1>2, <1>o DEF Loads!Lead
  <2>3. [kind |-> "leader", promise |-> p, seen |-> "none"] \in Roles
    BY FlowAssumption DEF Roles, Outcomes, Loads!Promises
  <2>4. role' \in [Requests -> Roles] BY <2>1, <2>3 DEF LoadsInv
  <2>5. promise' \in [Loads!Promises -> [key : SUBSET {"key"}, outcome : Outcomes]]
    BY <2>1 DEF LoadsInv
  <2>6. \A q \in Loads!Promises : q # p => promise'[q] = promise[q] BY <2>1 DEF LoadsInv
  <2>7. \A c \in Requests : role'[c] = IF c = r THEN [kind |-> "leader", promise |-> p, seen |-> "none"]
                                       ELSE role[c]
    BY <2>1 DEF LoadsInv
  <2>8. ASSUME NEW q \in Loads!Promises, Loads!Used(q)', promise'[q].outcome = "none"
        PROVE  \E c \in Requests : role'[c].kind = "leader" /\ role'[c].promise = q
    <3>1. CASE q = p BY <3>1, <2>7
    <3>2. CASE q # p
      <4>1. Loads!Used(q) /\ promise[q].outcome = "none" BY <3>2, <2>6, <2>8 DEF Loads!Used
      <4>2. PICK c \in Requests : role[c].kind = "leader" /\ role[c].promise = q
        BY <4>1 DEF LoadsInv
      <4> QED BY <4>2, <2>2, <2>7
    <3> QED BY <3>1, <3>2
  <2>9. \A c \in Requests : role'[c].kind # "out" => role'[c].promise \in Loads!Promises
    BY <2>7 DEF LoadsInv
  <2> QED BY <2>4, <2>5, <2>8, <2>9 DEF LoadsInv
\* A step that changes neither promises nor leaders
<1>3. ASSUME promise' = promise, NEW m \in Roles, role' = [role EXCEPT ![r] = m],
             role[r].kind # "leader", m.kind # "out" => m.promise \in Loads!Promises
      PROVE  LoadsInv'
  <2>1. role' \in [Requests -> Roles] BY <1>3 DEF LoadsInv
  <2>2. \A c \in Requests : role'[c] = IF c = r THEN m ELSE role[c] BY <1>3 DEF LoadsInv
  <2>3. \A c \in Requests : role'[c].kind # "out" => role'[c].promise \in Loads!Promises
    BY <2>2, <1>3 DEF LoadsInv
  <2>4. ASSUME NEW q \in Loads!Promises, Loads!Used(q)', promise'[q].outcome = "none"
        PROVE  \E c \in Requests : role'[c].kind = "leader" /\ role'[c].promise = q
    <3>1. Loads!Used(q) /\ promise[q].outcome = "none" BY <1>3, <2>4 DEF Loads!Used
    <3>2. PICK c \in Requests : role[c].kind = "leader" /\ role[c].promise = q
      BY <3>1 DEF LoadsInv
    <3> QED BY <3>2, <2>2, <1>3
  <2> QED BY <1>3, <2>1, <2>3, <2>4 DEF LoadsInv
<1>4. ASSUME NEW p \in Loads!Promises, Loads!Follow(r, p) PROVE LoadsInv'
  <2>1. [kind |-> "follower", promise |-> p, seen |-> "none"] \in Roles
    BY FlowAssumption DEF Roles, Outcomes, Loads!Promises
  <2> QED BY <1>3, <1>4, <1>o, <2>1, ZenonT(20) DEF Loads!Follow
<1>5. CASE Loads!Learn(r)
  <2>1. role[r].promise \in Loads!Promises BY <1>5 DEF Loads!Learn, LoadsInv
  <2>2. promise[role[r].promise].outcome \in Outcomes BY <2>1 DEF LoadsInv
  <2> DEFINE m == [role[r] EXCEPT !.seen = promise[role[r].promise].outcome]
  <2>3. m \in Roles /\ m.promise \in Loads!Promises BY <2>1, <2>2, <1>t DEF Roles
  <2>4. promise' = promise /\ role' = [role EXCEPT ![r] = m] /\ role[r].kind = "follower"
    BY <1>5 DEF Loads!Learn
  <2> QED BY <2>3, <2>4, <1>3, ZenonT(20)
<1>6. CASE Loads!GiveUp(r)
  <2>1. role[r].promise \in Loads!Promises BY <1>6 DEF Loads!GiveUp, LoadsInv
  <2> DEFINE m == [role[r] EXCEPT !.seen = "ended"]
  <2>3. m \in Roles /\ m.promise \in Loads!Promises BY <2>1, <1>t DEF Roles
  <2>4. promise' = promise /\ role' = [role EXCEPT ![r] = m] /\ role[r].kind = "follower"
    BY <1>6 DEF Loads!GiveUp
  <2> QED BY <2>3, <2>4, <1>3, ZenonT(20)
<1>7. CASE Loads!Leave(r)
  <2>1. promise' = promise /\ role' = [role EXCEPT ![r] = Loads!Out] /\ role[r].kind = "follower"
    BY <1>7 DEF Loads!Leave
  <2> QED BY <2>1, <1>o, <1>3, ZenonT(20)
<1>8. ASSUME NEW o \in {"ready", "failed", "abandoned"}, Loads!EndLease(r, o) PROVE LoadsInv'
  <2> DEFINE p == role[r].promise
  <2>1. /\ role[r].kind = "leader" /\ role' = [role EXCEPT ![r] = Loads!Out]
        /\ promise' = [promise EXCEPT ![p].outcome = IF @ = "none" THEN o ELSE @]
    BY <1>8 DEF Loads!EndLease
  <2>2. p \in Loads!Promises BY <2>1 DEF LoadsInv
  <2>3. promise' \in [Loads!Promises -> [key : SUBSET {"key"}, outcome : Outcomes]]
    BY <2>1, <2>2 DEF LoadsInv, Outcomes
  <2>4. promise'[p].outcome # "none" /\ \A q \in Loads!Promises : q # p => promise'[q] = promise[q]
    BY <2>1, <2>2 DEF LoadsInv
  <2>5. \A c \in Requests : role'[c] = IF c = r THEN Loads!Out ELSE role[c] BY <2>1 DEF LoadsInv
  <2>6. role' \in [Requests -> Roles]
        /\ \A c \in Requests : role'[c].kind # "out" => role'[c].promise \in Loads!Promises
    BY <2>1, <2>5, <1>o DEF LoadsInv
  <2>7. ASSUME NEW q \in Loads!Promises, Loads!Used(q)', promise'[q].outcome = "none"
        PROVE  \E c \in Requests : role'[c].kind = "leader" /\ role'[c].promise = q
    <3>1. q # p BY <2>4, <2>7
    <3>2. Loads!Used(q) /\ promise[q].outcome = "none" BY <3>1, <2>4, <2>7 DEF Loads!Used
    <3>3. PICK c \in Requests : role[c].kind = "leader" /\ role[c].promise = q
      BY <3>2 DEF LoadsInv
    <3> QED BY <3>1, <3>3, <2>5
  <2> QED BY <2>3, <2>6, <2>7 DEF LoadsInv
<1> QED BY <1>1, <1>2, <1>4, <1>5, <1>6, <1>7, <1>8 DEF LoadMoves

\* A step in the load map is about one role.
LEMMA OneRole ==
  ASSUME role \in [Requests -> Roles], NEW r \in Requests, LoadMoves(r)
  PROVE  role' = [role EXCEPT ![r] = role'[r]]
BY DEF LoadMoves, Loads!Lead, Loads!Follow, Loads!Learn, Loads!GiveUp, Loads!Leave, Loads!EndLease

-----------------------------------------------------------------------------
(* What is written into a request's or a task's record fits. *)

\* A condition made from no record, or from one that is not fresh, fits.
LEMMA NewFits ==
  ASSUME StoreInv
  PROVE  /\ \A pc \in Steps, q \in Known :
              AskFits([pc |-> pc, cond |-> Absent, seen |-> 0, quality |-> q], record, versions)
         /\ record.age # "fresh" => \A pc \in Steps :
              AskFits([pc |-> pc, cond |-> record.version, seen |-> versions, quality |-> 0],
                      record, versions)
         /\ \A kind \in {"none", "refresh", "drain", "late"}, q \in Known,
               pc \in {"free", "lookup", "exchange", "collect", "write"} :
              /\ TaskFits(Task(kind, pc, Absent, q), record, versions)
              /\ record.age # "fresh" => TaskFits(Task(kind, pc, record.version, q), record, versions)
         /\ TaskFits(FreeSlot, record, versions)
<1> USE DEF StoreInv, StoreFits, Absent
<1>0. 0 \in Known /\ Gone.age = "gone" BY DEF Known, Gone
<1>1. ASSUME NEW pc \in Steps, NEW q \in Known
      PROVE  AskFits([pc |-> pc, cond |-> Absent, seen |-> 0, quality |-> q], record, versions)
  BY <1>0 DEF AskFits, Asks, Records
<1>2. ASSUME record.age # "fresh", NEW pc \in Steps
      PROVE  AskFits([pc |-> pc, cond |-> record.version, seen |-> versions, quality |-> 0],
                     record, versions)
  BY <1>0, <1>2 DEF AskFits, Asks, Records
<1>3. ASSUME NEW kind \in {"none", "refresh", "drain", "late"}, NEW q \in Known,
             NEW pc \in {"free", "lookup", "exchange", "collect", "write"}
      PROVE  /\ TaskFits(Task(kind, pc, Absent, q), record, versions)
             /\ record.age # "fresh" => TaskFits(Task(kind, pc, record.version, q), record, versions)
  BY <1>0, <1>3 DEF TaskFits, Tasks, Records, Task
<1>4. TaskFits(FreeSlot, record, versions) BY <1>0 DEF TaskFits, Tasks, Records, FreeSlot
<1> QED BY <1>1, <1>2, <1>3, <1>4

\* A request that moves on keeps the condition it has.
LEMMA GoFits ==
  ASSUME NEW a, AskFits(a, record, versions), NEW pc \in Steps, NEW q \in Known
  PROVE  /\ AskFits([a EXCEPT !.pc = pc], record, versions)
         /\ AskFits([a EXCEPT !.pc = pc, !.quality = q], record, versions)
BY ZenonT(20) DEF AskFits, Asks

\* LateCacheFinalizer::submit_task takes a fitting task or none.
LEMMA SubmitKeeps ==
  ASSUME StoreInv, TasksInv, UNCHANGED <<record, versions>>,
         NEW t, TaskFits(t, record, versions), Submit(t)
  PROVE  TasksInv'
<1>1. RecordMoves BY DEF RecordMoves
<1>2. jobs' \in Nat BY DEF Submit, TasksInv
<1>3. job' = job \/ \E s \in Slots : job' = [job EXCEPT ![s] = t] BY DEF Submit
<1> QED BY <1>1, <1>2, <1>3, TasksFrame

\* A collector of slower attempts fits.
LEMMA AttemptsKeep ==
  ASSUME StoreInv, TasksInv, UNCHANGED <<record, versions>>, LeavesAttempts
  PROVE  TasksInv'
<1>1. TaskFits(Task("drain", "collect", Absent, 0), record, versions)
  BY NewFits DEF Known
<1> QED BY <1>1, SubmitKeeps DEF LeavesAttempts

-----------------------------------------------------------------------------
(* The steps of a request. *)

\* A step of a request before it has handed its candidate over.
LEMMA AskFrame ==
  ASSUME FlowInv, NEW r \in Requests, req[r].pc # "done",
         NEW a, AskFits(a, record, versions), req' = [req EXCEPT ![r] = a],
         LoadMoves(r), PlaceFits(a, role'[r], "none"),
         UNCHANGED <<record, versions, handoff, commit>>, TasksInv'
  PROVE  FlowInv'
<1>0. StoreInv /\ AsksInv /\ PlacesInv /\ LoadsInv /\ WorkInv BY DEF FlowInv
<1>1. RecordMoves BY DEF RecordMoves
<1>2. handoff[r] = "none" BY <1>0 DEF PlacesInv, PlaceFits
<1>3. handoff' = [handoff EXCEPT ![r] = "none"] BY <1>0, <1>2 DEF PlacesInv
<1>4. role' = [role EXCEPT ![r] = role'[r]] BY <1>0, OneRole DEF LoadsInv
<1>5. PlacesInv'
  BY <1>0, <1>3, <1>4, PlacesFrame, ZenonT(20) DEF LoadsInv, AsksInv, Pipe!Places
<1>6. AsksInv' BY <1>0, <1>1, AsksFrame, ZenonT(20)
<1>7. WorkInv'
  <2>1. \A q \in Requests : handoff'[q] = "working" => handoff[q] = "working" /\ req'[q] = req[q]
    BY <1>0, <1>2 DEF AsksInv
  <2> QED BY <2>1, <1>0, <1>1, WorkFrame
<1> QED BY <1>0, <1>1, <1>5, <1>6, <1>7, StoreKeeps, LoadsKeep DEF FlowInv

\* A step that leaves the tasks alone.
LEMMA TasksSame ==
  ASSUME StoreInv, TasksInv, RecordMoves, UNCHANGED <<job, jobs>>
  PROVE  TasksInv'
<1>1. jobs' \in Nat /\ job' = job BY DEF TasksInv
<1> QED BY <1>1, TasksFrame

\* The request's own steps keep the invariant.
LEMMA AskKeeps ==
  ASSUME FlowInv, NEW r \in Requests, Ask(r), ~OfferCandidate(r)
  PROVE  FlowInv'
<1>0. StoreInv /\ AsksInv /\ TasksInv /\ PlacesInv /\ LoadsInv BY DEF FlowInv
<1>a. AskFits(req[r], record, versions) BY <1>0 DEF AsksInv
<1>p. PlaceFits(req[r], role[r], handoff[r]) /\ role[r] \in Roles BY <1>0 DEF PlacesInv, LoadsInv
<1> DEFINE Over == [pc |-> "done", cond |-> Absent, seen |-> 0, quality |-> 0]
<1>1. AskFits(Over, record, versions) /\ NotAsked = [Over EXCEPT !.pc = "lookup"]
  BY <1>0, NewFits DEF Known, Steps, NotAsked
<1>n. \A pc : [NotAsked EXCEPT !.pc = pc] = [pc |-> pc, cond |-> Absent, seen |-> 0, quality |-> 0]
  BY DEF NotAsked
<1>2. ASSUME Answered(r) PROVE req' = [req EXCEPT ![r] = Over] BY <1>2, <1>n, ZenonT(20) DEF Answered
<1>3. ASSUME NEW pc, Go(r, pc) PROVE req' = [req EXCEPT ![r] = [req[r] EXCEPT !.pc = pc]]
  BY <1>3, <1>0 DEF Go, AsksInv
<1>4. ASSUME UNCHANGED <<job, jobs>>, UNCHANGED <<record, versions>> PROVE TasksInv'
  BY <1>4, <1>0, TasksSame DEF RecordMoves
<1>h. req[r].pc # "done" => handoff[r] = "none" BY <1>p DEF PlaceFits
<1> HIDE DEF Over
<1>o. Over.pc = "done" BY DEF Over
<1>5. CASE LookupFresh(r)
  <2>1. LoadMoves(r) /\ role' = role BY <1>5 DEF LookupFresh, LoadMoves
  <2>2. PlaceFits(Over, role'[r], "none") BY <1>5, <1>p, <1>h, <1>o, <2>1 DEF PlaceFits, LookupFresh
  <2>3. TasksInv' /\ req' = [req EXCEPT ![r] = Over] BY <1>5, <1>4, <1>2 DEF LookupFresh
  <2> QED BY <2>1, <2>2, <2>3, <1>1, <1>5, AskFrame, ZenonT(20) DEF LookupFresh
<1>6. CASE LookupStale(r)
  <2>1. LoadMoves(r) /\ role' = role BY <1>6 DEF LookupStale, LoadMoves
  <2>2. PlaceFits(Over, role'[r], "none") BY <1>6, <1>p, <1>h, <1>o, <2>1 DEF PlaceFits, LookupStale
  <2>3. req' = [req EXCEPT ![r] = Over] BY <1>6, <1>2 DEF LookupStale
  <2>4. TaskFits(Task("refresh", "exchange", record.version, 0), record, versions)
    BY <1>6, <1>0, NewFits DEF LookupStale, Known
  <2>5. TasksInv' BY <2>4, <1>6, <1>0, SubmitKeeps DEF LookupStale
  <2> QED BY <2>1, <2>2, <2>3, <2>5, <1>1, <1>6, AskFrame, ZenonT(20) DEF LookupStale
<1>7. CASE LookupMiss(r)
  <2> DEFINE a == [pc |-> "reserve", cond |-> record.version, seen |-> versions, quality |-> 0]
  <2>1. LoadMoves(r) /\ role' = role BY <1>7 DEF LookupMiss, LoadMoves
  <2>2. PlaceFits(a, role'[r], "none") BY <1>7, <1>p, <1>h, <2>1 DEF PlaceFits, LookupMiss
  <2>3. AskFits(a, record, versions) BY <1>7, <1>0, NewFits DEF LookupMiss, Steps
  <2>4. req' = [req EXCEPT ![r] = a] BY <1>7 DEF LookupMiss, Condition
  <2>5. TasksInv' BY <1>7, <1>4 DEF LookupMiss
  <2> QED BY <2>1, <2>2, <2>3, <2>4, <2>5, <1>7, AskFrame, ZenonT(20) DEF LookupMiss
<1>8. CASE NoReservation(r)
  <2> DEFINE a == [pc |-> "alone", cond |-> Absent, seen |-> 0, quality |-> 0]
  <2>1. LoadMoves(r) /\ role' = role BY <1>8 DEF NoReservation, LoadMoves
  <2>2. PlaceFits(a, role'[r], "none") BY <1>8, <1>p, <1>h, <2>1 DEF PlaceFits, NoReservation
  <2>3. AskFits(a, record, versions) BY <1>8, <1>0, NewFits DEF Known, Steps
  <2>4. req' = [req EXCEPT ![r] = a] BY <1>8, <1>n, ZenonT(20) DEF NoReservation
  <2>5. TasksInv' BY <1>8, <1>4 DEF NoReservation
  <2> QED BY <2>1, <2>2, <2>3, <2>4, <2>5, <1>8, AskFrame, ZenonT(20) DEF NoReservation
<1> DEFINE Gone1(pc) == [req[r] EXCEPT !.pc = pc]
<1>9. \A pc \in Steps : AskFits(Gone1(pc), record, versions) /\ Gone1(pc).pc = pc
  BY <1>a, GoFits, ZenonT(20) DEF Known, AskFits, Asks
<1>10. CASE Lead(r)
  <2>1. LoadMoves(r) BY <1>10 DEF Lead, LoadMoves
  <2>2. role'[r].kind = "leader" BY <1>10, <1>0 DEF Lead, Loads!Lead, LoadsInv
  <2>3. PlaceFits(Gone1("leading"), role'[r], "none") BY <1>9, <2>2 DEF PlaceFits, Steps
  <2>4. req' = [req EXCEPT ![r] = Gone1("leading")] BY <1>10, <1>3 DEF Lead
  <2>5. TasksInv' BY <1>10, <1>4 DEF Lead
  <2> HIDE DEF Gone1
  <2> QED BY <2>1, <2>3, <2>4, <2>5, <1>9, <1>10, AskFrame, ZenonT(20) DEF Lead, Steps
<1>11. CASE Follow(r)
  <2> DEFINE a == [pc |-> "waiting", cond |-> Absent, seen |-> 0, quality |-> 0]
  <2>1. LoadMoves(r) BY <1>11 DEF Follow, LoadMoves
  <2>2. role'[r].kind = "follower" BY <1>11, <1>0 DEF Follow, Loads!Follow, LoadsInv
  <2>3. PlaceFits(a, role'[r], "none") BY <2>2 DEF PlaceFits
  <2>4. req' = [req EXCEPT ![r] = a] BY <1>11, <1>n, ZenonT(20) DEF Follow
  <2>5. TasksInv' BY <1>11, <1>4 DEF Follow
  <2>6. AskFits(a, record, versions) BY <1>0, NewFits DEF Known, Steps
  <2> QED BY <2>1, <2>3, <2>4, <2>5, <2>6, <1>11, AskFrame, ZenonT(20) DEF Follow
<1>12. CASE Told(r)
  <2>1. LoadMoves(r) BY <1>12 DEF Told, LoadMoves
  <2>2. role'[r].kind = "follower"
    BY <1>12, <1>0, <1>p DEF Told, Loads!Learn, Loads!GiveUp, LoadsInv, Roles
  <2>3. PlaceFits(Gone1("told"), role'[r], "none") BY <1>9, <2>2 DEF PlaceFits, Steps
  <2>4. req' = [req EXCEPT ![r] = Gone1("told")] BY <1>12, <1>3 DEF Told
  <2>5. TasksInv' BY <1>12, <1>4 DEF Told
  <2> HIDE DEF Gone1
  <2> QED BY <2>1, <2>3, <2>4, <2>5, <1>9, <1>12, AskFrame, ZenonT(20) DEF Told, Steps
<1>13. CASE LeaveLoad(r)
  <2>1. LoadMoves(r) BY <1>13 DEF LeaveLoad, LoadMoves
  <2>2. role'[r].kind = "out" BY <1>13, <1>0 DEF LeaveLoad, Loads!Leave, Loads!Out, LoadsInv
  <2>3. PlaceFits(Gone1("alone"), role'[r], "none") BY <1>9, <2>2 DEF PlaceFits, Steps
  <2>4. PlaceFits(Over, role'[r], "none") BY <1>o, <2>2 DEF PlaceFits
  <2>5. req' = [req EXCEPT ![r] = Gone1("alone")] \/ req' = [req EXCEPT ![r] = Over]
    BY <1>13, <1>2, <1>3 DEF LeaveLoad
  <2>6. TasksInv' BY <1>13, <1>4 DEF LeaveLoad
  <2>7. AskFits(Gone1("alone"), record, versions) BY <1>9 DEF Steps
  <2> HIDE DEF Gone1
  <2> QED BY <2>1, <2>3, <2>4, <2>5, <2>6, <2>7, <1>1, <1>13, AskFrame DEF LeaveLoad
<1>14. CASE ExchangeAlone(r)
  <2>1. LoadMoves(r) /\ role' = role BY <1>14 DEF ExchangeAlone, LoadMoves
  <2>2. PlaceFits(Over, role'[r], "none") BY <1>14, <1>p, <1>h, <1>o, <2>1 DEF PlaceFits, ExchangeAlone
  <2>3. req' = [req EXCEPT ![r] = Over] BY <1>14, <1>2 DEF ExchangeAlone
  <2>4. TasksInv' BY <1>14, <1>0, AttemptsKeep DEF ExchangeAlone
  <2> QED BY <2>1, <2>2, <2>3, <2>4, <1>1, <1>14, AskFrame, ZenonT(20) DEF ExchangeAlone
<1>15. CASE LeaderFails(r)
  <2>1. LoadMoves(r) BY <1>15 DEF LeaderFails, LoadMoves
  <2>2. role'[r].kind = "out" BY <1>15, <1>0 DEF LeaderFails, Loads!EndLease, Loads!Out, LoadsInv
  <2>3. PlaceFits(Over, role'[r], "none") BY <1>o, <2>2 DEF PlaceFits
  <2>4. req' = [req EXCEPT ![r] = Over] BY <1>15, <1>2 DEF LeaderFails
  <2>5. TasksInv' BY <1>15, <1>0, AttemptsKeep DEF LeaderFails
  <2> QED BY <2>1, <2>3, <2>4, <2>5, <1>1, <1>15, AskFrame, ZenonT(20) DEF LeaderFails
<1>16. ASSUME NEW q \in Qualities, LeaderAnswers(r, q) PROVE FlowInv'
  <2> DEFINE a == [req[r] EXCEPT !.pc = "publish", !.quality = q]
  <2>1. LoadMoves(r) /\ role' = role BY <1>16 DEF LeaderAnswers, LoadMoves
  <2>a. AskFits(a, record, versions)
    <3>1. q \in Known /\ "publish" \in Steps BY <1>16 DEF Known, Steps
    <3> QED BY <3>1, <1>a, GoFits, ZenonT(20)
  <2>b. a.pc = "publish"
    <3>1. req[r] \in Asks BY <1>0 DEF AsksInv
    <3> QED BY <3>1 DEF Asks
  <2>2. AskFits(a, record, versions) /\ a.pc = "publish" BY <2>a, <2>b
  <2>3. PlaceFits(a, role'[r], "none")
    BY <1>16, <1>p, <1>h, <2>1, <2>2 DEF PlaceFits, LeaderAnswers
  <2>4. req' = [req EXCEPT ![r] = a] BY <1>16, <1>0, ZenonT(20) DEF LeaderAnswers, AsksInv
  <2>5. TasksInv' BY <1>16, <1>0, AttemptsKeep DEF LeaderAnswers
  <2> HIDE DEF a
  <2> QED BY <2>1, <2>2, <2>3, <2>4, <2>5, <1>16, AskFrame, ZenonT(20) DEF LeaderAnswers
<1> QED
  BY <1>5, <1>6, <1>7, <1>8, <1>10, <1>11, <1>12, <1>13, <1>14, <1>15, <1>16 DEF Ask

-----------------------------------------------------------------------------
(* A candidate in the pipeline and in the cache worker. *)

\* A step that moves the candidate of one request.
LEMMA CandidateFrame ==
  ASSUME FlowInv, NEW r \in Requests, NEW a, AskFits(a, record, versions),
         req' = [req EXCEPT ![r] = a], LoadMoves(r), NEW h \in Pipe!Places,
         handoff' = [handoff EXCEPT ![r] = h], PlaceFits(a, role'[r], h),
         UNCHANGED <<record, versions, job, jobs>>, WorkInv'
  PROVE  FlowInv'
<1>0. StoreInv /\ AsksInv /\ TasksInv /\ PlacesInv /\ LoadsInv BY DEF FlowInv
<1>1. RecordMoves BY DEF RecordMoves
<1>2. role' = [role EXCEPT ![r] = role'[r]] BY <1>0, OneRole DEF LoadsInv
<1>3. PlacesInv' BY <1>0, <1>2, PlacesFrame, ZenonT(20) DEF LoadsInv, AsksInv
<1>4. AsksInv' BY <1>0, <1>1, AsksFrame, ZenonT(20)
<1> QED BY <1>0, <1>1, <1>3, <1>4, StoreKeeps, LoadsKeep, TasksSame DEF FlowInv

\* A step that does not touch the requests' roles and places.
LEMMA StoreFrame ==
  ASSUME FlowInv, RecordMoves, UNCHANGED <<req, promise, role, handoff>>, TasksInv', WorkInv'
  PROVE  FlowInv'
<1>0. StoreInv /\ AsksInv /\ PlacesInv /\ LoadsInv BY DEF FlowInv
<1>1. PlacesInv' BY <1>0 DEF PlacesInv
<1>2. LoadsInv' BY <1>0 DEF LoadsInv, Loads!Used
<1> QED BY <1>0, <1>1, <1>2, StoreKeeps, AsksFrame DEF FlowInv

\* CacheWriteHandoff: the candidate enters the pipeline and keeps its lease.
LEMMA OfferKeeps ==
  ASSUME FlowInv, NEW r \in Requests, OfferCandidate(r)
  PROVE  FlowInv'
<1>0. StoreInv /\ AsksInv /\ PlacesInv /\ LoadsInv /\ WorkInv BY DEF FlowInv
<1> DEFINE a == [req[r] EXCEPT !.pc = "done"]
<1>a. AskFits(req[r], record, versions) /\ req[r] \in Asks BY <1>0 DEF AsksInv
<1>1. AskFits(a, record, versions)
  <2>1. "done" \in Steps /\ 0 \in Known BY DEF Steps, Known
  <2> QED BY <2>1, <1>a, GoFits, ZenonT(20)
<1>2. a.pc = "done" BY <1>a DEF Asks
<1>3. /\ req' = [req EXCEPT ![r] = a] /\ handoff' = [handoff EXCEPT ![r] = "queued"]
      /\ req[r].pc = "publish" /\ handoff[r] = "none" /\ UNCHANGED <<promise, role, commit>>
      /\ UNCHANGED <<record, versions, job, jobs>>
  BY <1>0 DEF OfferCandidate, Go, Pipe!Offer, Pipe!Move, AsksInv
<1> HIDE DEF a
<1>4. LoadMoves(r) BY <1>3 DEF LoadMoves
<1>5. PlaceFits(a, role'[r], "queued") BY <1>0, <1>2, <1>3 DEF PlacesInv, PlaceFits
<1>6. WorkInv'
  <2>1. \A q \in Requests : handoff'[q] = "working" => handoff[q] = "working" /\ req'[q] = req[q]
    BY <1>0, <1>3 DEF AsksInv, PlacesInv
  <2>2. RecordMoves BY <1>3 DEF RecordMoves
  <2> QED BY <2>1, <2>2, <1>0, <1>3, WorkFrame
<1> QED BY <1>1, <1>3, <1>4, <1>5, <1>6, CandidateFrame, ZenonT(20) DEF Pipe!Places

\* A candidate that ends, dropped or settled, gives its lease back.
LEMMA CandidateEnds ==
  ASSUME FlowInv, NEW r \in Requests, Answered(r), NEW o \in {"ready", "failed", "abandoned"},
         Loads!EndLease(r, o), NEW h \in {"settled", "dropped"},
         handoff' = [handoff EXCEPT ![r] = h],
         commit' = IF handoff[r] = "working" THEN NoCommit ELSE commit,
         UNCHANGED <<record, versions, job, jobs>>
  PROVE  FlowInv'
<1>0. StoreInv /\ AsksInv /\ PlacesInv /\ LoadsInv /\ WorkInv BY DEF FlowInv
<1> DEFINE a == [pc |-> "done", cond |-> Absent, seen |-> 0, quality |-> 0]
<1>1. AskFits(a, record, versions) BY <1>0, NewFits DEF Known, Steps
<1>2. req' = [req EXCEPT ![r] = a]
  <2>1. [NotAsked EXCEPT !.pc = "done"] = a BY DEF NotAsked
  <2> QED BY <2>1, ZenonT(20) DEF Answered
<1>3. LoadMoves(r) BY DEF LoadMoves
<1>4. role'[r].kind = "out" BY <1>0 DEF Loads!EndLease, Loads!Out, LoadsInv
<1>5. PlaceFits(a, role'[r], h) BY <1>4 DEF PlaceFits
<1>6. WorkInv'
  <2>0. NoCommit \in Commits BY DEF NoCommit, Commits
  <2>1. \A q \in Requests : handoff'[q] = "working" =>
          q # r /\ handoff[q] = "working" /\ req'[q] = req[q]
    BY <1>0, <1>2 DEF AsksInv, PlacesInv
  <2>2. CASE handoff[r] = "working"
    <3>1. \A q \in Requests : handoff'[q] # "working" BY <2>1, <2>2, <1>0 DEF WorkInv
    <3> QED BY <3>1, <2>0, <2>2 DEF WorkInv
  <2>3. CASE handoff[r] # "working"
    <3>1. RecordMoves BY DEF RecordMoves
    <3> QED BY <3>1, <2>1, <2>3, <1>0, WorkFrame
  <2> QED BY <2>2, <2>3
<1> HIDE DEF a
<1> QED BY <1>1, <1>2, <1>3, <1>5, <1>6, CandidateFrame, ZenonT(20) DEF Pipe!Places

\* A refused, aborted or lost candidate.
LEMMA DropKeeps ==
  ASSUME FlowInv, NEW r \in Requests, DropCandidate(r)
  PROVE  FlowInv'
<1>1. handoff' = [handoff EXCEPT ![r] = "dropped"]
  <2>1. handoff \in [Requests -> Pipe!Places] BY DEF FlowInv, PlacesInv
  <2>2. handoff' = [c \in Requests |-> IF c \in {r} THEN "dropped" ELSE handoff[c]]
    BY DEF DropCandidate, Pipe!Drop
  <2> QED BY <2>1, <2>2, ZenonT(20)
<1> QED BY <1>1, CandidateEnds, ZenonT(20) DEF DropCandidate

\* The cache worker takes a candidate when it has none.
LEMMA TakeKeeps ==
  ASSUME FlowInv, NEW r \in Requests, TakeCandidate(r)
  PROVE  FlowInv'
<1>0. StoreInv /\ AsksInv /\ PlacesInv /\ LoadsInv /\ WorkInv BY DEF FlowInv
<1>1. /\ handoff[r] = "queued" /\ handoff' = [handoff EXCEPT ![r] = "working"]
      /\ commit.stage = "idle" /\ UNCHANGED <<record, versions, req, promise, role, job, jobs>>
  BY DEF TakeCandidate, Pipe!Take, Pipe!Move, NoCommit
<1>2. commit' \in Commits /\ commit'.stage = "write" BY DEF TakeCandidate, NoCommit, Commits
<1>3. req' = [req EXCEPT ![r] = req[r]] /\ AskFits(req[r], record, versions)
  BY <1>0, <1>1 DEF AsksInv
<1>4. LoadMoves(r) BY <1>1 DEF LoadMoves
<1>5. PlaceFits(req[r], role'[r], "working") BY <1>0, <1>1 DEF PlacesInv, PlaceFits
<1>6. WorkInv'
  <2>1. \A q \in Requests : handoff[q] # "working" BY <1>0, <1>1 DEF WorkInv
  <2>2. \A q \in Requests : handoff'[q] = "working" => q = r BY <2>1, <1>0, <1>1 DEF PlacesInv
  <2> QED BY <2>2, <1>2 DEF WorkInv
<1> QED BY <1>1, <1>3, <1>4, <1>5, <1>6, CandidateFrame, ZenonT(20) DEF Pipe!Places

\* A write whose condition names no fresh record moves the record or leaves it, and is
\* followed by a second attempt only when the record has gone.
LEMMA WriteMoves ==
  ASSUME StoreInv, NEW cond, NEW q \in Known, Write(cond, q),
         Matches(cond) => record.age # "fresh"
  PROVE  /\ RecordMoves
         /\ commit' \in Commits /\ commit'.stage # "idle"
         /\ commit'.stage = "retry" => record'.version = 0
         /\ commit'.stage = "conflict" => ~Matches(cond) /\ AfterConflict(cond) = "conflict"
<1>0. versions \in Nat /\ 0 \in Nat /\ Gone.version = 0 BY DEF StoreInv, StoreFits, Gone
<1>1. CASE WriteFails(cond, q) /\ Result("failed", 0)
  BY <1>1, <1>0 DEF WriteFails, Result, RecordMoves, Commits
<1>2. CASE ~Matches(cond) /\ WriteFails(cond, q) /\ Result(AfterConflict(cond), 0)
  BY <1>2, <1>0 DEF WriteFails, Result, RecordMoves, Commits, AfterConflict
<1>3. ASSUME NEW age \in {"fresh", "expired"}, Stores(cond, q, age), Result("stored", versions + 1)
      PROVE  /\ RecordMoves /\ commit' \in Commits /\ commit'.stage = "stored"
  <2>1. Written(q, age) \in Records /\ Written(q, age).version = versions + 1
        /\ Written(q, age).age # "gone"
    BY <1>0, <1>3 DEF Written, Records, Ages
  <2>2. RecordMoves BY <2>1, <1>3 DEF Stores, RecordMoves
  <2>3. commit' \in Commits /\ commit'.stage = "stored" BY <1>0, <1>3 DEF Result, Commits
  <2> QED BY <2>2, <2>3
<1> QED BY <1>1, <1>2, <1>3 DEF Write

\* CacheCommitCandidate::commit writes, once or twice.
LEMMA CommitWriteKeeps ==
  ASSUME FlowInv, NEW r \in Requests, CommitWrite(r)
  PROVE  /\ FlowInv' /\ RecordMoves
         /\ commit'.stage = "conflict" => record.version > req[r].seen
<1>0. StoreInv /\ AsksInv /\ TasksInv /\ WorkInv BY DEF FlowInv
<1>a. AskFits(req[r], record, versions) BY <1>0 DEF AsksInv
<1>q. req[r].quality \in Known BY <1>a DEF AskFits, Asks
<1>w. handoff[r] = "working" /\ UNCHANGED <<req, promise, role, handoff, job, jobs>>
  BY DEF CommitWrite, Working
<1>g. record.version = 0 => record = Gone /\ record.age # "fresh"
  BY <1>0 DEF StoreInv, StoreFits, Gone
<1> DEFINE Done == /\ RecordMoves
                   /\ commit' \in Commits /\ commit'.stage # "idle"
                   /\ commit'.stage = "retry" => record'.version = 0
                   /\ commit'.stage = "conflict" => record.version > req[r].seen
<1>1. ASSUME commit.stage = "write", Write(req[r].cond, req[r].quality) PROVE Done
  <2>1. Matches(req[r].cond) => record.age # "fresh" BY <1>a DEF Matches, AskFits
  <2>2. ASSUME ~Matches(req[r].cond), AfterConflict(req[r].cond) = "conflict"
        PROVE  record.version > req[r].seen
    BY <2>2, <1>a, <1>g DEF Matches, AskFits, AfterConflict, Absent
  <2> QED BY <2>1, <2>2, <1>0, <1>1, <1>q, WriteMoves
<1>2. ASSUME commit.stage = "retry", Write(Absent, req[r].quality) PROVE Done
  <2>1. Matches(Absent) => record.age # "fresh" BY <1>g DEF Matches, Absent
  <2>2. ASSUME ~Matches(Absent) PROVE record.version > req[r].seen
    BY <2>2, <1>0, <1>2, <1>w DEF Matches, WorkInv, Absent
  <2> QED BY <2>1, <2>2, <1>0, <1>2, <1>q, WriteMoves
<1>3. Done BY <1>1, <1>2 DEF CommitWrite
<1>4. TasksInv' BY <1>0, <1>3, <1>w, TasksSame
<1>5. WorkInv' BY <1>0, <1>3, <1>w DEF WorkInv
<1> QED BY <1>3, <1>4, <1>5, <1>w, StoreFrame

\* CacheCommitCandidate::commit publishes what came of the write.
LEMMA CommitPublishKeeps ==
  ASSUME FlowInv, NEW r \in Requests, CommitPublish(r)
  PROVE  FlowInv'
<1>1. /\ handoff' = [handoff EXCEPT ![r] = "settled"] /\ handoff[r] = "working"
      /\ Answered(r) /\ commit' = NoCommit /\ UNCHANGED <<record, versions, job, jobs>>
  BY DEF CommitPublish, Working, Pipe!Settle, Pipe!Move
<1>2. PICK o \in {"ready", "failed", "abandoned"} : Loads!EndLease(r, o) BY DEF CommitPublish
<1> QED BY <1>1, <1>2, CandidateEnds, ZenonT(20)

-----------------------------------------------------------------------------
(* Background tasks, and the record's own passage. *)

\* A task changes its own record or ends, and nothing else moves but the store.
LEMMA TaskFrame ==
  ASSUME FlowInv, RecordMoves, UNCHANGED <<req, promise, role, handoff, commit>>, TasksInv'
  PROVE  FlowInv'
<1>0. StoreInv /\ AsksInv /\ WorkInv BY DEF FlowInv
<1>1. WorkInv' BY <1>0, WorkFrame
<1> QED BY <1>1, StoreFrame

\* A step of one task.
LEMMA TaskStep ==
  ASSUME FlowInv, JobsOnly, NEW s \in Slots, NEW t, TaskFits(t, record, versions),
         job' = [job EXCEPT ![s] = t]
  PROVE  FlowInv'
<1>0. StoreInv /\ TasksInv /\ jobs \in Nat BY DEF FlowInv, TasksInv
<1>1. RecordMoves /\ jobs' \in Nat BY <1>0 DEF JobsOnly, RecordMoves
<1>2. TaskFits(t, record', versions') BY <1>0, <1>1, FitsKeep
<1>3. TasksInv' BY <1>0, <1>1, <1>2, TasksFrame, ZenonT(20)
<1> QED BY <1>1, <1>3, TaskFrame DEF JobsOnly

\* The background tasks keep the invariant, and write only over what is not fresh or
\* with something better.
LEMMA BackgroundKeeps ==
  ASSUME FlowInv, NEW s \in Slots, Background(s)
  PROVE  FlowInv' /\ RecordMoves
<1>0. StoreInv /\ TasksInv BY DEF FlowInv
<1>t. TaskFits(job[s], record, versions) /\ job[s] \in Tasks BY <1>0 DEF TasksInv
<1>f. TaskFits(FreeSlot, record, versions) BY <1>0, NewFits
<1>j. ASSUME JobsOnly PROVE RecordMoves BY <1>j DEF JobsOnly, RecordMoves
<1>e. ASSUME JobsOnly, EndJob(s) PROVE FlowInv' BY <1>e, <1>f, TaskStep, ZenonT(20) DEF EndJob
<1>r. record.version \in Nat /\ record.version <= versions BY <1>0 DEF StoreInv, StoreFits, Records
<1>1. CASE RefreshLookup(s)
  <2>1. JobsOnly BY <1>1 DEF RefreshLookup
  <2>2. ASSUME record.age # "fresh",
               job' = [job EXCEPT ![s].pc = "exchange", ![s].cond = Condition]
        PROVE  FlowInv'
    <3> DEFINE t == [job[s] EXCEPT !.pc = "exchange", !.cond = record.version]
    <3>1. TaskFits(t, record, versions) BY <1>t, <1>r, <2>2, ZenonT(20) DEF TaskFits, Tasks
    <3>2. job' = [job EXCEPT ![s] = t] BY <2>2, <1>0, ZenonT(20) DEF TasksInv, Condition
    <3> HIDE DEF t
    <3> QED BY <3>1, <3>2, <2>1, TaskStep, ZenonT(20)
  <2> QED BY <1>1, <1>e, <1>j, <2>1, <2>2 DEF RefreshLookup
<1>2. CASE LateLookup(s)
  <2>1. JobsOnly BY <1>2 DEF LateLookup
  <2>2. ASSUME LateWrites(s), job' = [job EXCEPT ![s].pc = "write", ![s].cond = Condition]
        PROVE  FlowInv'
    <3> DEFINE t == [job[s] EXCEPT !.pc = "write", !.cond = record.version]
    <3>1. TaskFits(t, record, versions) BY <1>t, <1>r, <2>2, ZenonT(20) DEF TaskFits, Tasks, LateWrites
    <3>2. job' = [job EXCEPT ![s] = t] BY <2>2, <1>0, ZenonT(20) DEF TasksInv, Condition
    <3> HIDE DEF t
    <3> QED BY <3>1, <3>2, <2>1, TaskStep, ZenonT(20)
  <2> QED BY <1>2, <1>e, <1>j, <2>1, <2>2 DEF LateLookup
<1>3. CASE JobWrite(s)
  <2>1. UNCHANGED <<req, promise, role, handoff, commit, jobs>> /\ job' = [job EXCEPT ![s] = FreeSlot]
    BY <1>3 DEF JobWrite, EndJob
  <2>2. RecordMoves
    <3>1. CASE UNCHANGED <<record, versions>> BY <3>1 DEF RecordMoves
    <3>2. CASE Stores(job[s].cond, job[s].quality, "fresh")
      <4>1. job[s].quality \in Known /\ versions \in Nat BY <1>t, <1>0 DEF Tasks, StoreInv, StoreFits
      <4>2. record.age = "fresh" => job[s].quality > record.quality
        BY <3>2, <1>t DEF Stores, Matches, TaskFits
      <4>3. /\ Written(job[s].quality, "fresh") \in Records
            /\ Written(job[s].quality, "fresh").version = versions + 1
            /\ Written(job[s].quality, "fresh").age # "gone"
            /\ Written(job[s].quality, "fresh").quality = job[s].quality
        BY <4>1 DEF Written, Records, Ages
      <4> QED BY <4>2, <4>3, <3>2 DEF Stores, RecordMoves
    <3> QED BY <1>3, <3>1, <3>2 DEF JobWrite, WriteFails
  <2>3. TasksInv'
    <3>1. TaskFits(FreeSlot, record', versions') BY <1>f, <1>0, <2>2, FitsKeep
    <3>2. jobs' \in Nat BY <2>1, <1>0 DEF TasksInv
    <3> QED BY <3>1, <3>2, <2>1, <2>2, <1>0, TasksFrame, ZenonT(20)
  <2> QED BY <2>1, <2>2, <2>3, TaskFrame
<1>4. CASE JobEnds(s) BY <1>4, <1>e, <1>j DEF JobEnds
<1>5. ASSUME NEW q \in Qualities, RefreshAnswer(s, q) PROVE FlowInv' /\ RecordMoves
  <2> DEFINE t == [job[s] EXCEPT !.pc = "write", !.quality = q]
  <2>1. JobsOnly /\ job[s].pc = "exchange" BY <1>5 DEF RefreshAnswer
  <2>2. q \in Known BY DEF Known
  <2>3. TaskFits(t, record, versions) BY <1>t, <2>1, <2>2, ZenonT(20) DEF TaskFits, Tasks
  <2>4. job' = [job EXCEPT ![s] = t] BY <1>5, <1>0, ZenonT(20) DEF TasksInv, RefreshAnswer
  <2> HIDE DEF t
  <2> QED BY <2>1, <2>3, <2>4, <1>j, TaskStep, ZenonT(20)
<1>6. ASSUME NEW q \in Qualities, CollectLate(s, q) PROVE FlowInv' /\ RecordMoves
  <2>1. TaskFits(Task("late", "lookup", Absent, q), record, versions) BY <1>0, NewFits DEF Known
  <2>2. UNCHANGED <<record, versions, req, promise, role, handoff, commit>>
    BY <1>6 DEF CollectLate
  <2>3. TasksInv' BY <2>1, <2>2, <1>0, <1>6, SubmitKeeps DEF CollectLate
  <2> QED BY <2>2, <2>3, TaskFrame DEF RecordMoves
<1> QED BY <1>1, <1>2, <1>3, <1>4, <1>5, <1>6 DEF Background

\* The record ages or leaves the store; a refresh moves in.
LEMMA PassageKeeps ==
  ASSUME FlowInv, Age \/ Evict \/ MovedRefresh
  PROVE  FlowInv' /\ RecordMoves
<1>0. StoreInv /\ TasksInv BY DEF FlowInv
<1>1. UNCHANGED <<req, promise, role, handoff, commit>> BY DEF Age, Evict, MovedRefresh
<1>2. CASE Age
  <2>1. record \in Records BY <1>0 DEF StoreInv, StoreFits
  <2>2. RecordMoves BY <1>2, <2>1 DEF Age, RecordMoves, Records, Ages
  <2>3. TasksInv' BY <2>2, <1>0, <1>2, TasksSame DEF Age
  <2> QED BY <1>1, <2>2, <2>3, TaskFrame
<1>3. CASE Evict
  <2>1. RecordMoves BY <1>3 DEF Evict, RecordMoves
  <2>2. TasksInv' BY <2>1, <1>0, <1>3, TasksSame DEF Evict
  <2> QED BY <1>1, <2>1, <2>2, TaskFrame
<1>4. CASE MovedRefresh
  <2>1. RecordMoves BY <1>4 DEF MovedRefresh, RecordMoves
  <2>2. TaskFits(Task("refresh", "lookup", Absent, 0), record, versions) BY <1>0, NewFits DEF Known
  <2>3. TasksInv' BY <2>2, <1>0, <1>4, SubmitKeeps DEF MovedRefresh
  <2> QED BY <1>1, <2>1, <2>3, TaskFrame
<1> QED BY <1>2, <1>3, <1>4

-----------------------------------------------------------------------------
(* The theorems. *)

\* The invariant holds at the start.
LEMMA FlowInit == Init => FlowInv
<1>1. SUFFICES ASSUME Init PROVE FlowInv OBVIOUS
<1>2. /\ record = Gone /\ versions = 0 /\ req = [r \in Requests |-> NotAsked]
      /\ promise = [p \in Loads!Promises |-> Loads!Unused] /\ role = [c \in Requests |-> Loads!Out]
      /\ handoff = [c \in Requests |-> "none"] /\ commit = NoCommit
      /\ job = [s \in Slots |-> FreeSlot] /\ jobs = 0
  BY <1>1 DEF Init, Loads!Init, Pipe!Init
<1>3. StoreInv BY <1>2, FlowAssumption DEF StoreInv, StoreFits, Gone, Records, Known, Ages
<1>4. AsksInv
  <2>1. AskFits(NotAsked, record, versions)
    BY <1>2 DEF AskFits, Asks, NotAsked, Steps, Known, Absent, Gone
  <2>2. NotAsked \in Asks BY <2>1 DEF AskFits
  <2> QED BY <2>1, <2>2, <1>2 DEF AsksInv
<1>5. TasksInv
  <2>1. TaskFits(FreeSlot, record, versions) BY <1>3, NewFits
  <2>2. FreeSlot \in Tasks BY <2>1 DEF TaskFits
  <2> QED BY <2>1, <2>2, <1>2 DEF TasksInv
<1>6. PlacesInv BY <1>2 DEF PlacesInv, PlaceFits, Pipe!Places, NotAsked, Loads!Out
<1>7. LoadsInv
  <2>1. Loads!Unused \in [key : SUBSET {"key"}, outcome : Outcomes] /\ Loads!Out \in Roles
        /\ Loads!Out.kind = "out"
    BY DEF Loads!Unused, Loads!Out, Loads!Open, Outcomes, Roles
  <2> QED BY <2>1, <1>2 DEF LoadsInv, Loads!Used
<1>8. WorkInv BY <1>2 DEF WorkInv, Commits, NoCommit
<1> QED BY <1>3, <1>4, <1>5, <1>6, <1>7, <1>8 DEF FlowInv

\* What every step does: it keeps the invariant, moves the record as RecordMoves says,
\* and gives an answer up as a conflict only in the worker's write.
LEMMA FlowStep ==
  ASSUME FlowInv, [Next]_vars
  PROVE  FlowInv' /\ RecordMoves /\ GivesUpForNewer
<1>0. WorkInv BY DEF FlowInv
<1>c. ASSUME commit'.stage \in {commit.stage, "idle", "write"} PROVE GivesUpForNewer
  BY <1>c DEF GivesUpForNewer
<1>1. ASSUME NEW r \in Requests, Ask(r) PROVE FlowInv' /\ RecordMoves /\ GivesUpForNewer
  <2>1. UNCHANGED <<record, versions, commit>>
    BY <1>1 DEF Ask, LookupFresh, LookupStale, LookupMiss, NoReservation, Lead, Follow, Told,
         LeaveLoad, ExchangeAlone, LeaderFails, LeaderAnswers, OfferCandidate
  <2>2. RecordMoves BY <2>1 DEF RecordMoves
  <2> QED BY <2>1, <2>2, <1>1, <1>c, AskKeeps, OfferKeeps
<1>2. ASSUME NEW r \in Requests, TakeCandidate(r) PROVE FlowInv' /\ RecordMoves /\ GivesUpForNewer
  <2>1. UNCHANGED <<record, versions>> /\ commit'.stage = "write"
    BY <1>2 DEF TakeCandidate, NoCommit
  <2>2. RecordMoves BY <2>1 DEF RecordMoves
  <2> QED BY <2>1, <2>2, <1>2, <1>c, TakeKeeps
<1>3. ASSUME NEW r \in Requests, CommitWrite(r) PROVE FlowInv' /\ RecordMoves /\ GivesUpForNewer
  <2>1. handoff[r] = "working" BY <1>3 DEF CommitWrite, Working
  <2>2. \A q \in Requests : handoff[q] = "working" => q = r BY <2>1, <1>0 DEF WorkInv
  <2>3. GivesUpForNewer BY <2>2, <1>3, CommitWriteKeeps DEF GivesUpForNewer
  <2> QED BY <2>3, <1>3, CommitWriteKeeps
<1>4. ASSUME NEW r \in Requests, CommitPublish(r) \/ DropCandidate(r)
      PROVE  FlowInv' /\ RecordMoves /\ GivesUpForNewer
  <2>1. UNCHANGED <<record, versions>> /\ commit'.stage \in {commit.stage, "idle"}
    BY <1>4 DEF CommitPublish, DropCandidate, NoCommit
  <2>2. RecordMoves BY <2>1 DEF RecordMoves
  <2> QED BY <2>1, <2>2, <1>4, <1>c, CommitPublishKeeps, DropKeeps
<1>5. ASSUME NEW s \in Slots, Background(s) PROVE FlowInv' /\ RecordMoves /\ GivesUpForNewer
  <2>1. commit' = commit
    BY <1>5 DEF Background, RefreshLookup, LateLookup, JobWrite, JobEnds, RefreshAnswer,
         CollectLate, JobsOnly
  <2> QED BY <2>1, <1>5, <1>c, BackgroundKeeps
<1>6. CASE Age \/ Evict \/ MovedRefresh
  <2>1. commit' = commit BY <1>6 DEF Age, Evict, MovedRefresh
  <2> QED BY <2>1, <1>6, <1>c, PassageKeeps
<1>7. CASE UNCHANGED vars
  <2>1. /\ RecordMoves /\ UNCHANGED <<req, promise, role, handoff, commit, job, jobs>>
    BY <1>7 DEF vars, RecordMoves
  <2>2. TasksInv' BY <2>1, TasksSame DEF FlowInv
  <2> QED BY <2>1, <2>2, <1>c, TaskFrame
<1> QED BY <1>1, <1>2, <1>3, <1>4, <1>5, <1>6, <1>7 DEF Next, Commit

\* FlowInv holds throughout, for any number of requests and tasks, any capacity of the
\* finalizer and any bound on loads, writes and tasks.
THEOREM FlowInvariant == Spec => []FlowInv
<1>1. FlowInv /\ [Next]_vars => FlowInv' BY FlowStep
<1> QED BY <1>1, FlowInit, PTL DEF Spec

\* Type correctness: the state of the key keeps its shape, and every condition a
\* request writes under is a version that had been given when it looked.
THEOREM FlowTypes == Spec => []FlowTypeOK
<1>1. ASSUME FlowInv PROVE FlowTypeOK
  <2>1. /\ record.version \in 0..versions /\ versions \in 0..MaxVersion
        /\ record.quality \in Qualities \cup {0}
        /\ record.age \in {"fresh", "stale", "expired", "gone"} /\ (record.age = "gone" <=> record = Gone)
    BY <1>1, FlowAssumption DEF FlowInv, StoreInv, StoreFits, Records, Known, Ages
  <2>2. ASSUME NEW r \in Requests
        PROVE  /\ req[r].pc \in {"lookup", "reserve", "leading", "waiting", "told", "alone",
                                 "publish", "done"}
               /\ req[r].cond \in 0..req[r].seen /\ req[r].seen \in 0..versions
    <3>1. AskFits(req[r], record, versions) /\ versions \in Nat
      BY <1>1 DEF FlowInv, AsksInv, StoreInv, StoreFits
    <3> QED BY <3>1 DEF AskFits, Asks, Steps
  <2>3. \A s \in Slots : job[s].pc \in {"free", "lookup", "exchange", "collect", "write"}
    BY <1>1 DEF FlowInv, TasksInv, Tasks
  <2>4. handoff \in [Requests -> Pipe!Places]
        /\ commit.stage \in {"idle", "write", "retry", "stored", "conflict", "failed"}
    BY <1>1 DEF FlowInv, PlacesInv, WorkInv, Commits
  <2> QED BY <2>1, <2>2, <2>3, <2>4 DEF FlowTypeOK
<1> QED BY <1>1, FlowInvariant, PTL

\* Every open load of the key is in the hands of a request that asks the upstream or of
\* a candidate in the pipeline: no failure, refusal, cancellation or lost candidate
\* leaves a lease behind (resolve_upstream, CacheCommitCandidate and its Drop).
THEOREM LoadsAreHeld == Spec => []OpenLoadIsHeld
<1>1. ASSUME FlowInv PROVE OpenLoadIsHeld
  <2>1. LoadsInv /\ PlacesInv BY <1>1 DEF FlowInv
  <2>2. SUFFICES ASSUME NEW p \in Loads!Promises, Loads!Used(p), promise[p].outcome = Loads!Open
                 PROVE  \E r \in Requests :
                          /\ role[r].kind = "leader" /\ role[r].promise = p
                          /\ \/ req[r].pc \in {"leading", "publish"}
                             \/ handoff[r] \in {"queued", "working"}
    BY DEF OpenLoadIsHeld
  <2>3. PICK r \in Requests : role[r].kind = "leader" /\ role[r].promise = p
    BY <2>1, <2>2 DEF LoadsInv
  <2>4. req[r].pc \in {"leading", "publish"} \/ handoff[r] \in {"queued", "working"}
    BY <2>1, <2>3 DEF PlacesInv, PlaceFits
  <2> QED BY <2>3, <2>4
<1> QED BY <1>1, FlowInvariant, PTL

\* An answer is given up as a conflict only for a record written after its request had
\* looked (CacheLookupMiss, CacheCommitCandidate::commit).
THEOREM ConflictsAreNewer == Spec => ConflictMeansNewer
<1>1. FlowInv /\ [Next]_vars => [GivesUpForNewer]_vars BY FlowStep
<1> QED BY <1>1, FlowInvariant, PTL DEF Spec, ConflictMeansNewer

\* A fresh record is replaced only by a better one, whichever of requests, refreshes and
\* late answers decided to write on whatever earlier state (compare_and_swap,
\* LateResultSink::submit).
THEOREM FreshRecordsAreKept == Spec => FreshIsKept
<1>1. ASSUME StoreInv, RecordMoves PROVE KeepsFresh
  <2>1. Gone.version = 0 BY DEF Gone
  <2> QED BY <1>1, <2>1 DEF KeepsFresh, RecordMoves, StoreInv, StoreFits, Records
<1>2. FlowInv /\ [Next]_vars => [KeepsFresh]_vars BY <1>1, FlowStep DEF FlowInv
<1> QED BY <1>2, FlowInvariant, PTL DEF Spec, FreshIsKept
===============================================================================
