-------------------------- MODULE StatsStorageProofs --------------------------
(* Proofs about StatsStorage, for any finite set of events, any days and any  *)
(* bounds on batches, faults and kills.                                       *)
EXTENDS StatsStorage, WellFoundedInduction, TLAPS

\* An event the process holds has been seen, and is held in one place only.
HeldOnce ==
  /\ mem.active \subseteq seen
  /\ \A b \in Ids : mem.pending[b] \subseteq seen /\ mem.active \cap mem.pending[b] = {}
  /\ \A b, c \in Ids : b # c => mem.pending[b] \cap mem.pending[c] = {}

\* Nothing is counted before its batch is, and a counted event that may be replayed
\* is covered by the ledger row of its batch.
ReplayIsCovered ==
  /\ \A e \in Events : e \notin seen \/ e \in mem.active => db.rows[e] = 0
  /\ \A b \in Ids : \A e \in mem.pending[b] : db.rows[e] # 0 => db.ledger[b] = mem.pending[b]

\* Retention never reaches a batch that may be replayed or an id still to be given.
FloorsAreBelow ==
  /\ mem.up => db.floor <= mem.next
  /\ \A b \in Held(mem.pending) : db.floor <= b /\ b < mem.next
  /\ mem.lock \in {"retention", "published"} =>
        mem.floor <= mem.next /\ \A b \in Held(mem.pending) : mem.floor <= b

\* An event is counted, or its day is retired.
Settled(e) == db.rows[e] = 1 \/ DayOf[e] < db.before

\* What the ledger lists, or a flush has reported, is settled; the batch a flush is
\* about to acknowledge is in the ledger.
LedgerIsSettled ==
  /\ \A b \in Ids : \A e \in db.ledger[b] : Settled(e)
  /\ \A e \in acked : Settled(e)
  /\ mem.lock = "applied" =>
        \A b \in Ids : IsOldest(b, mem.pending) => db.ledger[b] = mem.pending[b]

\* Every event seen is held, lost or acknowledged; the last flush of a shutdown leaves
\* nothing behind when it reports success, and a dead process holds nothing.
NothingForgotten ==
  /\ \A e \in seen : \/ e \in mem.active \/ e \in lost \/ e \in acked
                     \/ \E b \in Ids : e \in mem.pending[b]
  /\ mem.stop = "last" /\ (mem.lock # "free" \/ mem.result = "ok") => mem.active = {}
  /\ mem.stop = "last" /\ mem.result = "ok" => Held(mem.pending) = {}
  /\ mem.stop = "clean" \/ ~mem.up => mem.active = {} /\ Held(mem.pending) = {}

\* The inductive invariant.
StatsInv ==
  /\ StatsTypeOK /\ HeldOnce /\ ReplayIsCovered /\ FloorsAreBelow /\ LedgerIsSettled
  /\ NothingForgotten /\ CountedOnce

-------------------------------------------------------------------------------
\* Every nonempty set of natural numbers has a least element.
LEMMA LeastElement ==
  ASSUME NEW T \in SUBSET Nat, T # {}
  PROVE  \E x \in T : \A y \in T : x <= y
<1>1. PICK x \in T : \A y \in T : ~ (<<y, x>> \in OpToRel(<, Nat))
  <2> HIDE DEF OpToRel
  <2> QED BY NatLessThanWellFounded, WFMin, Zenon
<1>2. ASSUME NEW y \in T PROVE x <= y
  <2>1. x \in Nat /\ y \in Nat OBVIOUS
  <2>2. ~ (y < x)
    <3>1. SUFFICES ASSUME y < x PROVE FALSE OBVIOUS
    <3>2. <<y, x>> \in OpToRel(<, Nat) BY <2>1, <3>1 DEF OpToRel
    <3> QED BY <3>2, <1>1, ZenonT(20)
  <2> QED BY <2>1, <2>2
<1> QED BY <1>2

\* Every nonempty bounded set of natural numbers has a greatest element.
LEMMA GreatestElement ==
  ASSUME NEW n \in Nat, NEW T \in SUBSET (0 .. n), T # {}
  PROVE  \E x \in T : \A y \in T : y <= x
<1> DEFINE U == {n - t : t \in T}
<1>1. U \in SUBSET Nat
  <2>1. \A t \in T : n - t \in Nat OBVIOUS
  <2> QED BY <2>1
<1>0. U # {} BY ZenonT(20)
<1>2. PICK u \in U : \A v \in U : u <= v BY <1>0, <1>1, LeastElement, ZenonT(20)
<1>3. PICK x \in T : u = n - x OBVIOUS
<1>4. ASSUME NEW y \in T PROVE y <= x
  <2>1. n - y \in U OBVIOUS
  <2>2. n - x <= n - y BY <2>1, <1>2, <1>3
  <2> QED BY <2>2
<1> QED BY <1>4

-------------------------------------------------------------------------------
\* Counting an event: it enters the open batch, and is held there only.
LEMMA RecordInv ==
  ASSUME StatsInv, NEW e \in Events, Record(e)
  PROVE  StatsInv'
<1> USE DEF StatsInv, StatsTypeOK
<1>0. /\ mem' = [mem EXCEPT !.active = @ \cup {e}] /\ seen' = seen \cup {e} /\ e \notin seen
      /\ mem.up /\ mem.stop = "no" /\ UNCHANGED <<db, acked, lost, trouble>>
  BY DEF Record
<1>a. /\ mem'.active = mem.active \cup {e} /\ mem'.pending = mem.pending /\ mem'.up = mem.up
      /\ mem'.next = mem.next /\ mem'.lock = mem.lock /\ mem'.floor = mem.floor
      /\ mem'.stop = "no"
  BY <1>0, ZenonT(20)
<1>1. StatsTypeOK' BY <1>0, <1>a
<1>2. HeldOnce' BY <1>0, <1>a DEF HeldOnce, Batches
<1>3. ReplayIsCovered' BY <1>0, <1>a DEF HeldOnce, ReplayIsCovered, Batches
<1>4. FloorsAreBelow' BY <1>0, <1>a DEF FloorsAreBelow, Held
<1>5. LedgerIsSettled' BY <1>0, <1>a DEF LedgerIsSettled, Settled, IsOldest, Held
<1>6. NothingForgotten' BY <1>0, <1>a DEF NothingForgotten, Held
<1>7. CountedOnce' BY <1>0, <1>a DEF CountedOnce
<1> QED BY <1>1, <1>2, <1>3, <1>4, <1>5, <1>6, <1>7

\* A step that moves no event, row, ledger row or floor.
Quiet ==
  /\ UNCHANGED <<seen, acked, lost>>
  /\ mem'.active = mem.active /\ mem'.pending = mem.pending /\ mem'.next = mem.next
  /\ mem'.up = mem.up /\ mem'.floor = mem.floor
  /\ db'.rows = db.rows /\ db'.ledger = db.ledger /\ db'.before = db.before
  /\ db'.floor = db.floor
  /\ mem'.lock = mem.lock \/ mem'.lock = "free"
  /\ mem'.stop = "last" =>
        /\ mem.stop = "last"
        /\ mem'.result = "ok" => mem.result = "ok"
        /\ mem'.lock # "free" => mem.lock # "free"
  /\ mem'.stop = "clean" => mem.stop = "clean" \/ (mem.stop = "last" /\ mem.result = "ok")

\* Such a step keeps the invariant.
LEMMA QuietStep ==
  ASSUME StatsInv, StatsTypeOK', Quiet
  PROVE  StatsInv'
<1> USE DEF StatsInv, Quiet
<1>2. HeldOnce' BY DEF HeldOnce
<1>3. ReplayIsCovered' BY DEF ReplayIsCovered
<1>4. FloorsAreBelow' BY DEF FloorsAreBelow, Held
<1>5. LedgerIsSettled' BY DEF LedgerIsSettled, Settled, IsOldest, Held
<1>6. NothingForgotten' BY DEF NothingForgotten, Held
<1>7. CountedOnce' BY DEF CountedOnce
<1> QED BY <1>2, <1>3, <1>4, <1>5, <1>6, <1>7

\* The count of faults stays within its bound.
LEMMA FaultTyped ==
  ASSUME StatsTypeOK, StorageFault
  PROVE  trouble' \in [faults : 0 .. MaxStatsFaults, kills : 0 .. MaxStatsKills]
BY StatsAssumption DEF StatsTypeOK, StorageFault

\* Failures of a flush, the end of a retention lease and the steps of a shutdown.
LEMMA QuietActions ==
  ASSUME StatsInv,
         \/ RollBack \/ CommitUnseen \/ (\E b \in Ids : Refuse(b)) \/ EndRetention
         \/ DropRetention \/ BeginStop \/ StopBackend \/ UNCHANGED statsVars
  PROVE  StatsInv'
<1>1. CASE RollBack
  <2>1. StatsTypeOK' BY <1>1, FaultTyped, ZenonT(20) DEF StatsInv, StatsTypeOK, RollBack, FlushFailed
  <2>2. Quiet BY <1>1, ZenonT(20) DEF StatsInv, StatsTypeOK, Quiet, RollBack, FlushFailed
  <2> QED BY <2>1, <2>2, QuietStep
<1>2. CASE CommitUnseen
  <2>1. StatsTypeOK' BY <1>2, FaultTyped, ZenonT(20) DEF StatsInv, StatsTypeOK, CommitUnseen, FlushFailed
  <2>2. Quiet BY <1>2, ZenonT(20) DEF StatsInv, StatsTypeOK, Quiet, CommitUnseen, FlushFailed
  <2> QED BY <2>1, <2>2, QuietStep
<1>3. ASSUME NEW b \in Ids, Refuse(b) PROVE StatsInv'
  <2>1. StatsTypeOK' BY <1>3, ZenonT(20) DEF StatsInv, StatsTypeOK, Refuse, FlushFailed
  <2>2. Quiet BY <1>3, ZenonT(20) DEF StatsInv, StatsTypeOK, Quiet, Refuse, FlushFailed
  <2> QED BY <2>1, <2>2, QuietStep
<1>4. CASE EndRetention
  <2>1. StatsTypeOK' BY <1>4, ZenonT(20) DEF StatsInv, StatsTypeOK, EndRetention
  <2>2. Quiet BY <1>4, ZenonT(20) DEF StatsInv, StatsTypeOK, Quiet, EndRetention
  <2> QED BY <2>1, <2>2, QuietStep
<1>5. CASE DropRetention
  <2>1. StatsTypeOK' BY <1>5, FaultTyped DEF StatsInv, StatsTypeOK, DropRetention
  <2>2. Quiet BY <1>5, ZenonT(20) DEF StatsInv, StatsTypeOK, Quiet, DropRetention
  <2> QED BY <2>1, <2>2, QuietStep
<1>6. CASE BeginStop
  <2>1. StatsTypeOK' BY <1>6 DEF StatsInv, StatsTypeOK, BeginStop
  <2>2. Quiet BY <1>6, ZenonT(20) DEF StatsInv, StatsTypeOK, Quiet, BeginStop
  <2> QED BY <2>1, <2>2, QuietStep
<1>7. CASE StopBackend
  <2>1. StatsTypeOK' BY <1>7 DEF StatsInv, StatsTypeOK, StopBackend
  <2>2. Quiet BY <1>7, ZenonT(20) DEF StatsInv, StatsTypeOK, Quiet, StopBackend
  <2> QED BY <2>1, <2>2, QuietStep
<1>8. CASE UNCHANGED statsVars
  <2>1. StatsTypeOK' BY <1>8 DEF StatsInv, StatsTypeOK, statsVars
  <2>2. Quiet BY <1>8 DEF StatsInv, StatsTypeOK, Quiet, statsVars
  <2> QED BY <2>1, <2>2, QuietStep
<1> QED BY <1>1, <1>2, <1>3, <1>4, <1>5, <1>6, <1>7, <1>8

\* The flush at the limit, with nothing new, or with the epoch as its newest batch.
LEMMA BeginFlushInv ==
  ASSUME StatsInv, BeginFlush
  PROVE  StatsInv'
<1> USE DEF StatsInv, StatsTypeOK
<1>1. PICK m \in {mem, [mem EXCEPT !.stop = "last"]} :
          /\ mem' = Swapped(m) /\ m.stop # "clean" /\ mem.stop # "last"
          /\ m.stop = mem.stop \/ m.stop = "last"
  BY DEF BeginFlush
<1>2. /\ mem.lock = "free" /\ mem.up /\ UNCHANGED <<seen, db, acked, lost, trouble>>
      /\ mem.active # {} => mem.next \in Ids
  BY DEF BeginFlush
<1>3. /\ m.active = mem.active /\ m.pending = mem.pending /\ m.next = mem.next /\ m.up = mem.up
      /\ m.lock = "free" /\ m.floor = mem.floor /\ m.known = mem.known
      /\ m \in [up : BOOLEAN, active : SUBSET Events, next : 1 .. MaxBatch + 1, pending : Batches,
              known : SUBSET Ids, floor : 1 .. MaxBatch + 1,
              lock : {"free", "execute", "applied", "retention", "published"},
              stop : {"no", "asked", "last", "clean", "failed"},
              result : {"none", "ok", "error", "fatal"}]
  BY <1>2, ZenonT(20)
<1>4. CASE AtLimit \/ m.active = {}
  <2>1. /\ mem'.active = mem.active /\ mem'.pending = mem.pending /\ mem'.next = mem.next
        /\ mem'.up = mem.up /\ mem'.stop = m.stop
        /\ mem'.lock \in {"free", "execute"}
        /\ AtLimit => mem'.lock = "free" /\ mem'.result = "fatal"
        /\ mem'.result = "ok" => Held(mem.pending) = {}
        /\ ~AtLimit => mem.active = {}
    BY <1>1, <1>3, <1>4 DEF Swapped
  <2>2. StatsTypeOK' BY <1>1, <1>2, <1>3, <1>4, ZenonT(20) DEF Swapped
  <2>3. HeldOnce' BY <1>2, <2>1 DEF HeldOnce
  <2>4. ReplayIsCovered' BY <1>2, <2>1 DEF ReplayIsCovered
  <2>5. FloorsAreBelow' BY <1>2, <2>1 DEF FloorsAreBelow, Held
  <2>6. LedgerIsSettled' BY <1>2, <2>1 DEF LedgerIsSettled, Settled
  <2>7. NothingForgotten' BY <1>1, <1>2, <2>1 DEF NothingForgotten, Held
  <2>8. CountedOnce' BY <1>2 DEF CountedOnce
  <2> QED BY <2>2, <2>3, <2>4, <2>5, <2>6, <2>7, <2>8
<1>5. CASE ~AtLimit /\ m.active # {}
  <2>1. /\ mem'.active = {} /\ mem'.pending = [mem.pending EXCEPT ![mem.next] = mem.active]
        /\ mem'.next = mem.next + 1 /\ mem'.up = mem.up /\ mem'.stop = m.stop
        /\ mem'.lock = "execute" /\ mem'.result = "none" /\ mem.next \in Ids
    BY <1>1, <1>2, <1>3, <1>5, ZenonT(20) DEF Swapped
  <2>b. mem.next + 1 \in 1 .. MaxBatch + 1
    BY <2>1, StatsAssumption DEF Ids
  <2>c. mem.next \notin Held(mem.pending)
    BY <2>1, StatsAssumption DEF FloorsAreBelow, Ids
  <2>a. mem.pending[mem.next] = {} /\ mem.next + 1 \in 1 .. MaxBatch + 1
    BY <2>1, <2>b, <2>c DEF Held
  <2>2. StatsTypeOK' BY <1>1, <1>2, <1>3, <1>5, <2>1, <2>a, ZenonT(20) DEF Swapped, Batches
  <2>3. HeldOnce' BY <1>2, <2>1, <2>a DEF HeldOnce, Batches
  <2>4. ReplayIsCovered' BY <1>2, <2>1, <2>a DEF ReplayIsCovered, Batches
  <2>5. FloorsAreBelow' BY <1>2, <2>1, <2>a DEF FloorsAreBelow, Held, Batches, Ids
  <2>6. LedgerIsSettled' BY <1>2, <2>1 DEF LedgerIsSettled, Settled
  <2>7. NothingForgotten' BY <1>1, <1>2, <2>1, <2>a DEF NothingForgotten, Held, Batches
  <2>8. CountedOnce' BY <1>2 DEF CountedOnce
  <2> QED BY <2>2, <2>3, <2>4, <2>5, <2>6, <2>7, <2>8
<1> QED BY <1>4, <1>5

\* The oldest batch is unique.
LEMMA OldestUnique ==
  ASSUME NEW p, NEW b \in Ids, NEW c \in Ids, IsOldest(b, p), IsOldest(c, p)
  PROVE  b = c
BY StatsAssumption DEF IsOldest, Held, Ids

\* The commit of a batch, with or without an earlier ledger row.
LEMMA CommitBatchInv ==
  ASSUME StatsInv, NEW b \in Ids, CommitBatch(b)
  PROVE  StatsInv'
<1> USE DEF StatsInv, StatsTypeOK
<1>1. /\ mem.up /\ mem.lock = "execute" /\ IsOldest(b, mem.pending) /\ ~Conflicts(b)
      /\ mem.pending[b] # {}
      /\ db' = [Apply(db, b, mem.pending[b]) EXCEPT !.health = "Healthy"]
      /\ mem' = [mem EXCEPT !.lock = "applied"]
      /\ UNCHANGED <<seen, acked, lost, trouble>>
  BY DEF CommitBatch, IsOldest, Held
<1>2. /\ mem'.active = mem.active /\ mem'.pending = mem.pending /\ mem'.next = mem.next
      /\ mem'.up = mem.up /\ mem'.stop = mem.stop /\ mem'.lock = "applied"
      /\ mem'.result = mem.result /\ mem'.floor = mem.floor
  BY <1>1, ZenonT(20)
<1>3. /\ db'.before = db.before /\ db'.floor = db.floor
      /\ db'.ledger \in Batches /\ db'.ledger[b] = mem.pending[b]
      /\ \A c \in Ids : c # b => db'.ledger[c] = db.ledger[c]
  <2>1. CASE db.ledger[b] # {} BY <1>1, <2>1 DEF Apply, Conflicts, Batches
  <2>2. CASE db.ledger[b] = {} BY <1>1, <2>2 DEF Apply, Batches
  <2> QED BY <2>1, <2>2
<1>4. /\ db'.rows \in [Events -> Nat]
      /\ \A e \in Events : db'.rows[e] =
            IF db.ledger[b] = {} /\ e \in mem.pending[b] /\ DayOf[e] >= db.before
            THEN db.rows[e] + 1 ELSE db.rows[e]
  <2>1. CASE db.ledger[b] # {}
    BY <1>1, <2>1 DEF Apply
  <2>2. CASE db.ledger[b] = {}
    <3>1. db'.rows = [e \in Events |-> IF e \in mem.pending[b] /\ DayOf[e] >= db.before
                                       THEN db.rows[e] + 1 ELSE db.rows[e]]
      BY <1>1, <2>2 DEF Apply
    <3> QED BY <2>2, <3>1
  <2> QED BY <2>1, <2>2
<1>5. \A e \in Events : e \in mem.pending[b] /\ db.ledger[b] = {} => db.rows[e] = 0
  BY <1>1 DEF ReplayIsCovered
<1>6. \A e \in Events : db.before \in Nat /\ DayOf[e] \in Nat /\ db.rows[e] \in Nat
  BY StatsAssumption
<1>7. \A c \in Ids : mem.pending[c] \subseteq Events /\ db.ledger[c] \subseteq Events
  BY DEF Batches
<1>8. StatsTypeOK'
  <2>1. db' \in [rows : [Events -> Nat], ledger : Batches, before : Nat, floor : 1 .. MaxBatch + 1,
             health : {"Healthy", "Degraded", "Failed", "Stopping"}]
    <3>1. CASE db.ledger[b] # {} BY <1>1, <3>1 DEF Apply
    <3>2. CASE db.ledger[b] = {}
      <4>1. db' = [db EXCEPT !.rows = db'.rows, !.ledger = db'.ledger, !.health = "Healthy"]
        BY <1>1, <3>2 DEF Apply
      <4> QED BY <4>1, <1>3, <1>4, ZenonT(20)
    <3> QED BY <3>1, <3>2
  <2> QED BY <1>1, <2>1
<1>9. HeldOnce' BY <1>1, <1>2 DEF HeldOnce
<1>10. ReplayIsCovered'
  BY <1>1, <1>2, <1>3, <1>4, <1>5, <1>6, <1>7 DEF ReplayIsCovered, HeldOnce
<1>11. FloorsAreBelow' BY <1>2, <1>3 DEF FloorsAreBelow, Held
<1>12. \A e \in Events : Settled(e) => Settled(e)'
  BY <1>3, <1>4, <1>5, <1>6 DEF Settled
<1>13. \A e \in mem.pending[b] : Settled(e)'
  <2>1. CASE db.ledger[b] = {}
    BY <2>1, <1>3, <1>4, <1>5, <1>6, <1>7 DEF Settled
  <2>2. CASE db.ledger[b] # {}
    BY <2>2, <1>1, <1>7, <1>12 DEF Conflicts, LedgerIsSettled
  <2> QED BY <2>1, <2>2
<1>14. LedgerIsSettled'
  <2>1. \A c \in Ids : \A e \in db'.ledger[c] : Settled(e)'
    BY <1>3, <1>7, <1>12, <1>13 DEF LedgerIsSettled
  <2>2. \A e \in acked' : Settled(e)'
    BY <1>1, <1>12 DEF LedgerIsSettled
  <2>3. \A c \in Ids : IsOldest(c, mem'.pending) => db'.ledger[c] = mem'.pending[c]
    BY <1>1, <1>2, <1>3, OldestUnique
  <2> QED BY <2>1, <2>2, <2>3 DEF LedgerIsSettled
<1>15. NothingForgotten' BY <1>1, <1>2 DEF NothingForgotten, Held
<1>16. CountedOnce' BY <1>3, <1>4, <1>5, <1>6 DEF CountedOnce
<1> QED BY <1>8, <1>9, <1>10, <1>11, <1>14, <1>15, <1>16

\* The batch leaves the in-memory ledger and is reported.
LEMMA AcknowledgeInv ==
  ASSUME StatsInv, NEW b \in Ids, Acknowledge(b)
  PROVE  StatsInv'
<1> USE DEF StatsInv, StatsTypeOK
<1> DEFINE rest == [mem.pending EXCEPT ![b] = {}]
<1>1. /\ mem.up /\ mem.lock = "applied" /\ IsOldest(b, mem.pending)
      /\ mem' = [mem EXCEPT !.pending = rest, !.known = @ \cup {b},
                            !.lock = IF Held(rest) = {} THEN "free" ELSE "execute",
                            !.result = IF Held(rest) = {} THEN "ok" ELSE "none"]
      /\ acked' = acked \cup mem.pending[b]
      /\ UNCHANGED <<seen, db, lost, trouble>>
  BY DEF Acknowledge
<1>2. /\ mem'.active = mem.active /\ mem'.pending = rest /\ mem'.next = mem.next
      /\ mem'.up = mem.up /\ mem'.stop = mem.stop /\ mem'.lock \in {"free", "execute"}
      /\ mem'.result = "ok" => Held(rest) = {}
  BY <1>1, ZenonT(20)
<1>3. /\ rest \in Batches /\ rest[b] = {} /\ \A c \in Ids : c # b => rest[c] = mem.pending[c]
      /\ Held(rest) \subseteq Held(mem.pending) /\ mem.pending[b] \subseteq Events
  BY DEF Batches, Held
<1> HIDE DEF rest
<1>4. StatsTypeOK' BY <1>1, <1>3, ZenonT(20) DEF HeldOnce
<1>5. HeldOnce' BY <1>1, <1>2, <1>3 DEF HeldOnce
<1>6. ReplayIsCovered' BY <1>1, <1>2, <1>3 DEF ReplayIsCovered
<1>7. FloorsAreBelow' BY <1>1, <1>2, <1>3 DEF FloorsAreBelow
<1>8. LedgerIsSettled' BY <1>1, <1>2, <1>3 DEF LedgerIsSettled, Settled
<1>9. NothingForgotten' BY <1>1, <1>2, <1>3 DEF NothingForgotten
<1>10. CountedOnce' BY <1>1 DEF CountedOnce
<1> QED BY <1>4, <1>5, <1>6, <1>7, <1>8, <1>9, <1>10

\* The replay floor is an id to be given or the oldest one that may be replayed.
LEMMA ReplayFloorIsBelow ==
  ASSUME StatsInv, mem.up
  PROVE  /\ ReplayFloor(mem) \in 1 .. MaxBatch + 1 /\ ReplayFloor(mem) <= mem.next
         /\ \A b \in Held(mem.pending) : ReplayFloor(mem) <= b
<1>1. CASE Held(mem.pending) = {}
  BY <1>1 DEF ReplayFloor, StatsInv, StatsTypeOK
<1>2. CASE Held(mem.pending) # {}
  <2>1. Held(mem.pending) \in SUBSET Nat
    BY StatsAssumption DEF Held, Ids
  <2>2. \E b \in Ids : IsOldest(b, mem.pending)
    BY <1>2, <2>1, LeastElement, ZenonT(20) DEF IsOldest, Held
  <2>3. ReplayFloor(mem) = CHOOSE b \in Ids : IsOldest(b, mem.pending)
    BY <1>2 DEF ReplayFloor
  <2>4. ReplayFloor(mem) \in Ids /\ IsOldest(ReplayFloor(mem), mem.pending)
    BY <2>2, <2>3
  <2>5. ReplayFloor(mem) <= mem.next
    BY <2>4, StatsAssumption DEF IsOldest, StatsInv, FloorsAreBelow, StatsTypeOK, Ids
  <2> QED
    BY <2>4, <2>5, StatsAssumption DEF IsOldest, Ids
<1> QED BY <1>1, <1>2

\* The lease freezes that floor.
LEMMA BeginRetentionInv ==
  ASSUME StatsInv, BeginRetention
  PROVE  StatsInv'
<1> USE DEF StatsInv
<1>1. /\ mem.up /\ mem.stop = "no" /\ UNCHANGED <<seen, db, acked, lost, trouble>>
      /\ mem' = [mem EXCEPT !.lock = "retention", !.floor = ReplayFloor(mem)]
  BY DEF BeginRetention
<1>2. /\ mem'.active = mem.active /\ mem'.pending = mem.pending /\ mem'.next = mem.next
      /\ mem'.up = mem.up /\ mem'.stop = "no" /\ mem'.lock = "retention"
      /\ mem'.floor = ReplayFloor(mem)
  BY <1>1, ZenonT(20) DEF StatsTypeOK
<1>3. StatsTypeOK' BY <1>1, ReplayFloorIsBelow, ZenonT(20) DEF StatsTypeOK
<1>4. HeldOnce' BY <1>1, <1>2 DEF HeldOnce
<1>5. ReplayIsCovered' BY <1>1, <1>2 DEF ReplayIsCovered
<1>6. FloorsAreBelow'
  <2>1. Held(mem'.pending) = Held(mem.pending) BY <1>2
  <2> QED BY <1>1, <1>2, <2>1, ReplayFloorIsBelow DEF FloorsAreBelow
<1>7. LedgerIsSettled' BY <1>1, <1>2 DEF LedgerIsSettled, Settled
<1>8. NothingForgotten' BY <1>1, <1>2 DEF NothingForgotten
<1>9. CountedOnce' BY <1>1 DEF CountedOnce
<1> QED BY <1>3, <1>4, <1>5, <1>6, <1>7, <1>8, <1>9

\* Retention deletes rows of retired days only, and no ledger row of a pending batch.
LEMMA PublishRetentionInv ==
  ASSUME StatsInv, NEW keep \in Nat, PublishRetention(keep)
  PROVE  StatsInv'
<1> USE DEF StatsInv
<1> DEFINE before == MaxOf(db.before, keep)
           floor == MaxOf(db.floor, mem.floor)
<1>1. /\ mem.up /\ mem.lock = "retention" /\ UNCHANGED <<seen, acked, lost, trouble>>
      /\ mem' = [mem EXCEPT !.lock = "published"] /\ db' = PublishedCutoff(keep)
  BY DEF PublishRetention
<1>2. /\ mem'.active = mem.active /\ mem'.pending = mem.pending /\ mem'.next = mem.next
      /\ mem'.up = mem.up /\ mem'.stop = mem.stop /\ mem'.lock = "published"
      /\ mem'.floor = mem.floor /\ mem'.result = mem.result
  BY <1>1, ZenonT(20) DEF StatsTypeOK
<1>3. /\ before \in Nat /\ before >= db.before
      /\ floor \in 1 .. MaxBatch + 1 /\ floor \in {db.floor, mem.floor}
  BY StatsAssumption DEF StatsTypeOK, MaxOf
<1>4. /\ db'.before = before /\ db'.floor = floor
      /\ db'.rows = [e \in Events |-> IF DayOf[e] < before THEN 0 ELSE db.rows[e]]
      /\ db'.ledger = [b \in Ids |-> IF b < floor THEN {} ELSE db.ledger[b]]
      /\ db' = [db EXCEPT !.before = before, !.floor = floor, !.health = "Healthy",
                          !.rows = db'.rows, !.ledger = db'.ledger]
  BY <1>1 DEF StatsTypeOK, PublishedCutoff
<1> HIDE DEF before, floor
<1>5. \A b \in Held(mem.pending) : floor <= b /\ ~(b < floor)
  BY <1>1, <1>3, StatsAssumption DEF FloorsAreBelow, Held, Ids, StatsTypeOK
<1>6. floor <= mem.next
  BY <1>1, <1>3 DEF FloorsAreBelow
<1>7. \A e \in Events : /\ db.before \in Nat /\ DayOf[e] \in Nat /\ db.rows[e] \in Nat
                        /\ db'.rows[e] = IF DayOf[e] < before THEN 0 ELSE db.rows[e]
  BY <1>4, StatsAssumption DEF StatsTypeOK
<1>8. \A b \in Ids : /\ mem.pending[b] \subseteq Events /\ db.ledger[b] \subseteq Events
                     /\ db'.ledger[b] = IF b < floor THEN {} ELSE db.ledger[b]
  BY <1>4 DEF StatsTypeOK, Batches
<1>9. StatsTypeOK'
  <2>1. db'.rows \in [Events -> Nat] BY <1>4, <1>7
  <2>2. db'.ledger \in Batches BY <1>4, <1>8 DEF Batches
  <2> QED BY <1>1, <1>3, <1>4, <2>1, <2>2, ZenonT(20) DEF StatsTypeOK
<1>10. HeldOnce' BY <1>1, <1>2 DEF HeldOnce
<1>11. ReplayIsCovered'
  <2>1. \A e \in Events : e \notin seen' \/ e \in mem'.active => db'.rows[e] = 0
    BY <1>1, <1>2, <1>7 DEF ReplayIsCovered
  <2>2. ASSUME NEW b \in Ids, NEW e \in mem.pending[b], db'.rows[e] # 0
        PROVE  db'.ledger[b] = mem.pending[b]
    <3>1. e \in Events /\ db.rows[e] # 0 BY <1>7, <1>8, <2>2
    <3>2. b \in Held(mem.pending) BY DEF Held
    <3> QED BY <1>5, <1>8, <3>1, <3>2 DEF ReplayIsCovered
  <2> QED BY <1>2, <2>1, <2>2 DEF ReplayIsCovered
<1>12. FloorsAreBelow'
  <2>1. Held(mem'.pending) = Held(mem.pending) BY <1>2
  <2> QED BY <1>1, <1>2, <1>4, <1>5, <1>6, <2>1 DEF FloorsAreBelow
<1>13. \A e \in Events : Settled(e) => Settled(e)'
  BY <1>3, <1>4, <1>7 DEF Settled
<1>14. LedgerIsSettled'
  <2>1. \A b \in Ids : \A e \in db'.ledger[b] : Settled(e)'
    BY <1>8, <1>13 DEF LedgerIsSettled
  <2>2. \A e \in acked' : Settled(e)'
    BY <1>1, <1>13 DEF LedgerIsSettled, StatsTypeOK
  <2> QED BY <1>2, <2>1, <2>2 DEF LedgerIsSettled
<1>15. NothingForgotten' BY <1>1, <1>2 DEF NothingForgotten, Held
<1>16. CountedOnce' BY <1>3, <1>4, <1>7 DEF CountedOnce
<1> QED BY <1>9, <1>10, <1>11, <1>12, <1>14, <1>15, <1>16

\* The events in memory are lost with the process.
LEMMA KillInv ==
  ASSUME StatsInv, Kill
  PROVE  StatsInv'
<1> USE DEF StatsInv
<1>1. /\ UNCHANGED <<seen, db, acked>> /\ mem' = [Fresh(1) EXCEPT !.up = FALSE]
      /\ lost' = lost \cup mem.active \cup EventsOf(mem.pending)
      /\ trouble' = [trouble EXCEPT !.kills = @ + 1] /\ trouble.kills < MaxStatsKills
  BY DEF Kill
<1>2. /\ mem'.active = {} /\ mem'.pending = NoBatch /\ mem'.up = FALSE
      /\ mem'.stop = "no" /\ mem'.lock = "free"
  BY <1>1 DEF Fresh
<1>3. /\ NoBatch \in Batches /\ Held(NoBatch) = {} /\ \A b \in Ids : NoBatch[b] = {}
  BY DEF NoBatch, Batches, Held
<1>4. /\ \A b \in Ids : mem.pending[b] \subseteq lost'
      /\ lost \subseteq lost' /\ mem.active \subseteq lost' /\ lost' \subseteq seen
  BY <1>1 DEF EventsOf, HeldOnce, StatsTypeOK
<1>5. StatsTypeOK'
  <2>1. trouble' \in [faults : 0 .. MaxStatsFaults, kills : 0 .. MaxStatsKills]
    BY <1>1, StatsAssumption DEF StatsTypeOK
  <2>2. 1 \in 1 .. MaxBatch + 1 BY StatsAssumption
  <2> QED BY <1>1, <1>3, <1>4, <2>1, <2>2, ZenonT(20) DEF StatsTypeOK, Fresh
<1>6. HeldOnce' BY <1>1, <1>2, <1>3 DEF HeldOnce
<1>7. ReplayIsCovered' BY <1>1, <1>2, <1>3 DEF ReplayIsCovered
<1>8. FloorsAreBelow' BY <1>2, <1>3 DEF FloorsAreBelow
<1>9. LedgerIsSettled' BY <1>1, <1>2 DEF LedgerIsSettled, Settled
<1>10. NothingForgotten' BY <1>1, <1>2, <1>3, <1>4 DEF NothingForgotten
<1>11. CountedOnce' BY <1>1 DEF CountedOnce
<1> QED BY <1>5, <1>6, <1>7, <1>8, <1>9, <1>10, <1>11

\* The first id after a restart is above the persisted floor and every ledger row.
LEMMA BootstrapIsAbove ==
  ASSUME StatsTypeOK
  PROVE  /\ Bootstrap(db) \in 1 .. MaxBatch + 1 /\ db.floor <= Bootstrap(db)
         /\ \A b \in Held(db.ledger) : b < Bootstrap(db)
<1>0. db.floor \in 1 .. MaxBatch + 1 /\ MaxBatch \in Nat
  BY StatsAssumption DEF StatsTypeOK
<1>1. CASE Held(db.ledger) = {}
  BY <1>0, <1>1 DEF Bootstrap, MaxOf
<1>2. CASE Held(db.ledger) # {}
  <2> DEFINE top == CHOOSE b \in Held(db.ledger) : \A c \in Held(db.ledger) : c <= b
  <2>1. Held(db.ledger) \in SUBSET (0 .. MaxBatch)
    BY <1>0 DEF Held, Ids
  <2>2. top \in Held(db.ledger) /\ \A c \in Held(db.ledger) : c <= top
    BY <1>0, <1>2, <2>1, GreatestElement, ZenonT(20)
  <2>3. Bootstrap(db) = MaxOf(db.floor, top + 1)
    BY <1>2 DEF Bootstrap
  <2> HIDE DEF top
  <2>4. top \in 1 .. MaxBatch BY <2>2 DEF Held, Ids
  <2> QED BY <1>0, <2>1, <2>2, <2>3, <2>4 DEF MaxOf
<1> QED BY <1>1, <1>2

\* The restarted process holds nothing.
LEMMA RestartInv ==
  ASSUME StatsInv, Restart
  PROVE  StatsInv'
<1> USE DEF StatsInv
<1>1. /\ UNCHANGED <<seen, acked, lost, trouble>> /\ mem' = Fresh(Bootstrap(db))
      /\ db' = [db EXCEPT !.health = "Healthy"]
  BY DEF Restart
<1>2. mem.active = {} /\ \A b \in Ids : mem.pending[b] = {}
  BY DEF Restart, NothingForgotten, Held
<1>3. /\ mem'.active = {} /\ mem'.pending = NoBatch /\ mem'.up = TRUE
      /\ mem'.stop = "no" /\ mem'.lock = "free" /\ mem'.next = Bootstrap(db)
  BY <1>1 DEF Fresh
<1>4. /\ NoBatch \in Batches /\ Held(NoBatch) = {} /\ \A b \in Ids : NoBatch[b] = {}
  BY DEF NoBatch, Batches, Held
<1>5. /\ db'.rows = db.rows /\ db'.ledger = db.ledger /\ db'.before = db.before
      /\ db'.floor = db.floor
  BY <1>1 DEF StatsTypeOK
<1>6. StatsTypeOK'
  <2>1. Bootstrap(db) \in 1 .. MaxBatch + 1 /\ 1 \in 1 .. MaxBatch + 1
    BY BootstrapIsAbove, StatsAssumption
  <2> QED BY <1>1, <1>4, <2>1 DEF StatsTypeOK, Fresh
<1>7. HeldOnce' BY <1>1, <1>3, <1>4 DEF HeldOnce
<1>8. ReplayIsCovered' BY <1>1, <1>3, <1>4, <1>5 DEF ReplayIsCovered
<1>9. FloorsAreBelow' BY <1>3, <1>4, <1>5, BootstrapIsAbove DEF FloorsAreBelow
<1>10. LedgerIsSettled' BY <1>1, <1>3, <1>5 DEF LedgerIsSettled, Settled
<1>11. NothingForgotten' BY <1>1, <1>2, <1>3, <1>4 DEF NothingForgotten
<1>12. CountedOnce' BY <1>5 DEF CountedOnce
<1> QED BY <1>6, <1>7, <1>8, <1>9, <1>10, <1>11, <1>12

\* The fresh database and process satisfy the invariant.
LEMMA StatsInitInv == StatsInit => StatsInv
<1> SUFFICES ASSUME StatsInit PROVE StatsInv OBVIOUS
<1>1. NoBatch \in Batches /\ Held(NoBatch) = {} /\ \A b \in Ids : NoBatch[b] = {}
  BY DEF NoBatch, Batches, Held
<1>2. 1 \in 1 .. MaxBatch + 1 BY StatsAssumption
<1>3. StatsTypeOK BY <1>1, <1>2, StatsAssumption DEF StatsInit, StatsTypeOK, Fresh
<1>4. HeldOnce BY <1>1 DEF StatsInit, HeldOnce, Fresh
<1>5. ReplayIsCovered BY <1>1 DEF StatsInit, ReplayIsCovered, Fresh
<1>6. FloorsAreBelow BY <1>1 DEF StatsInit, FloorsAreBelow, Fresh
<1>7. LedgerIsSettled BY <1>1 DEF StatsInit, LedgerIsSettled, Fresh
<1>8. NothingForgotten BY <1>1 DEF StatsInit, NothingForgotten, Fresh
<1>9. CountedOnce BY StatsAssumption DEF StatsInit, CountedOnce
<1> QED BY <1>3, <1>4, <1>5, <1>6, <1>7, <1>8, <1>9 DEF StatsInv

\* Every step of the statistics storage keeps the invariant.
LEMMA StatsNextInv == StatsInv /\ [StatsNext]_statsVars => StatsInv'
<1> SUFFICES ASSUME StatsInv, [StatsNext]_statsVars PROVE StatsInv' OBVIOUS
<1>1. ASSUME NEW e \in Events, PublishRetention(DayOf[e] + 1) PROVE StatsInv'
  <2>1. DayOf[e] + 1 \in Nat BY StatsAssumption
  <2> QED BY <1>1, <2>1, PublishRetentionInv
<1> QED
  BY <1>1, RecordInv, QuietActions, BeginFlushInv, CommitBatchInv, AcknowledgeInv,
     BeginRetentionInv, KillInv, RestartInv DEF StatsNext

-------------------------------------------------------------------------------
\* The invariant holds in every reachable state.
THEOREM StatsInvariant == StatsSpec => []StatsInv
  BY StatsInitInv, StatsNextInv, PTL DEF StatsSpec

\* Types: the sets, batches, floors and counters of the statistics storage.
THEOREM StatsTypes == StatsSpec => []StatsTypeOK
<1>1. StatsInv => StatsTypeOK BY DEF StatsInv
<1> QED BY <1>1, StatsInvariant, PTL

\* apply_stats_batch with its ledger: no request is counted twice, nor again once
\* its day is retired, for any events, days, faults, kills and restarts.
THEOREM StatsCountedOnce == StatsSpec => []CountedOnce
<1>1. StatsInv => CountedOnce BY DEF StatsInv
<1> QED BY <1>1, StatsInvariant, PTL

\* flush and shutdown: what was reported as committed, or survived to a clean stop,
\* is counted for as long as its day is kept.
THEOREM StatsReported == StatsSpec => []ReportedIsCounted
<1>1. StatsInv => ReportedIsCounted
  <2> SUFFICES ASSUME StatsInv PROVE ReportedIsCounted OBVIOUS
  <2>1. \A e \in acked : db.rows[e] = 1 \/ DayOf[e] < db.before
    BY DEF StatsInv, LedgerIsSettled, Settled
  <2>2. CASE mem.stop = "clean"
    <3>1. mem.active = {} /\ \A b \in Ids : mem.pending[b] = {}
      BY <2>2 DEF StatsInv, NothingForgotten, Held
    <3>2. \A e \in seen \ lost : e \in acked
      BY <3>1 DEF StatsInv, NothingForgotten
    <3> QED BY <2>1, <2>2, <3>2 DEF ReportedIsCounted
  <2>3. CASE mem.stop # "clean" BY <2>1, <2>3 DEF ReportedIsCounted
  <2> QED BY <2>2, <2>3
<1> QED BY <1>1, StatsInvariant, PTL
===============================================================================
