---------------------------- MODULE CacheSnapshot ----------------------------
(* CacheSnapshotOwner (cache/snapshot_owner.rs) and the snapshot file it keeps      *)
(* (cache/snapshot.rs): a periodic task and the shutdown write the visible records  *)
(* of the current store to one file, reload switches the source, and the next       *)
(* process recovers from the file.                                                  *)
(*                                                                                  *)
(* What a store or a file holds is a number: two numbers are equal when the records *)
(* are.  Records gathered while the store changed have a number of their own.       *)
EXTENDS Naturals

CONSTANTS
  Sources,       \* 1..n: the stores of successive runtimes and processes
  MaxContent,   \* bound: changes of any store
  MaxFaults,    \* bound: snapshot writes that fail
  None

VARIABLES
  store,        \* per store: next_version, snapshot_reset_generation, records, and the
                \* file they were all taken from
  fresh,        \* the last content number used
  owner,        \* OwnerState: source, status and last_persisted_source_generation
  lock,         \* who holds the publish mutex
  worker,       \* the step of run_periodic and snapshot_current
  capture,      \* source and generations captured by snapshot_current
  writer,       \* the blocking writes: "periodic" and "final"
  file,         \* records in the snapshot file, None when there is no file
  down,         \* shutdown: its step and the generation it found
  faults

vars == <<store, fresh, owner, lock, worker, capture, writer, file, down, faults>>

Writers == {"periodic", "final"}
NewStore == [version |-> 0, reset |-> 0, records |-> 1, taken |-> None]
NoCapture == [store |-> 1, generation |-> 0, reset |-> 0, version |-> 0]
Up == [step |-> "up", source |-> NoCapture]
NoWrite == [pc |-> "idle", of |-> NoCapture, from |-> 0, records |-> 0]

\* What recover_snapshot can come to.  next_batch leaves out the records it cannot use
\* (unanswerable by now, damaged, of another format) and still completes; an open or a
\* read that fails, or a record the memory has no room for, makes it fail.
Recoveries == {"whole", "thinned", "partial", "unread"}
Complete(how) == how \in {"whole", "thinned"}

Recovered(how) ==
  IF file = None \/ how = "unread" THEN NewStore
  ELSE [NewStore EXCEPT !.version = 1, !.records = IF how = "whole" THEN file ELSE fresh + 1,
                        !.taken = IF how = "thinned" THEN file ELSE None]

\* start: a complete recovery of an existing file counts as persisted.
Started(s, st, enabled, how) ==
  [store |-> s, generation |-> 1, enabled |-> enabled, stopped |-> FALSE, condition |->
      IF ~enabled THEN "disabled" ELSE IF Complete(how) THEN "idle" ELSE "failed",
   last |-> IF enabled /\ Complete(how) /\ file # None THEN st.version ELSE None]

Init ==
  /\ file = None /\ fresh = 1
  /\ store = [s \in Sources |-> NewStore]
  /\ \E enabled \in BOOLEAN : owner = Started(1, NewStore, enabled, "whole")
  /\ lock = None /\ worker = "read" /\ capture = NoCapture
  /\ writer = [w \in Writers |-> NoWrite]
  /\ down = Up
  /\ faults = 0

-------------------------------------------------------------------------------
(* The stores, and a reload. *)

\* A write accepted by the store.
Commit(s) ==
  /\ fresh < MaxContent
  /\ fresh' = fresh + 1
  /\ store' = [store EXCEPT ![s] = [@ EXCEPT !.version = @ + 1, !.records = fresh + 1,
                                              !.taken = None]]
  /\ UNCHANGED <<owner, lock, worker, capture, writer, file, down, faults>>

\* invalidate, when it removed something.
Clear(s) ==
  /\ fresh < MaxContent
  /\ fresh' = fresh + 1
  /\ store' = [store EXCEPT ![s] = [version |-> @.version + 1, reset |-> @.reset + 1,
                                    records |-> fresh + 1, taken |-> None]]
  /\ UNCHANGED <<owner, lock, worker, capture, writer, file, down, faults>>

\* notify_waiters reaches only a task that is waiting already.
Notified == IF worker \in {"parked", "sleeping"} THEN "read" ELSE worker

Switched(enabled) ==
  [owner EXCEPT !.store = @ + 1, !.generation = @ + 1, !.enabled = enabled, !.last = None,
                !.condition = IF enabled THEN "idle" ELSE "disabled"]

\* Mutant: the switch does not wait for the publish mutex.
PublishSwitch_NoLock(enabled) ==
  /\ owner.store + 1 \in Sources
  /\ owner' = Switched(enabled)
  /\ worker' = Notified
  /\ UNCHANGED <<store, fresh, lock, capture, writer, file, down, faults>>
\* publish_switch, after the runtime's activation.
PublishSwitch(enabled) ==
  /\ owner.store + 1 \in Sources /\ lock = None
  /\ owner' = Switched(enabled)
  /\ worker' = Notified
  /\ UNCHANGED <<store, fresh, lock, capture, writer, file, down, faults>>

-------------------------------------------------------------------------------
(* run_periodic. *)

WorkerStep(pc) == worker' = pc /\ UNCHANGED <<store, fresh, lock, file, down, faults>>

ReadState ==
  /\ worker = "read"
  /\ WorkerStep(IF owner.stopped THEN "ended" ELSE IF owner.enabled THEN "select" ELSE "disabled")
  /\ UNCHANGED <<owner, capture, writer>>

\* notified() is created here: a change announced since ReadState is not seen.
AwaitChange ==
  /\ worker \in {"disabled", "select"}
  /\ WorkerStep(IF worker = "disabled" THEN "parked" ELSE "sleeping")
  /\ UNCHANGED <<owner, capture, writer>>

\* The interval is over: snapshot_current decides under the state lock ...
Capture ==
  /\ worker = "sleeping"
  /\ \/ /\ owner.stopped \/ ~owner.enabled \/ owner.last = store[owner.store].version
        /\ WorkerStep("read")
        /\ UNCHANGED <<owner, capture>>
     \/ /\ ~owner.stopped /\ owner.enabled /\ owner.last # store[owner.store].version
        /\ WorkerStep("captured")
        /\ owner' = [owner EXCEPT !.condition = "writing"]
        /\ capture' = [store |-> owner.store, generation |-> owner.generation,
                       reset |-> store[owner.store].reset, version |-> 0]
  /\ UNCHANGED writer

Begin(w, c) == writer' = [writer EXCEPT ![w] = [NoWrite EXCEPT !.pc = "gather", !.of = c]]

\* ... and reads the generation again, without it, before the write starts.
BeginWrite ==
  /\ worker = "captured"
  /\ LET c == [capture EXCEPT !.version = store[capture.store].version]
     IN  capture' = c /\ Begin("periodic", c)
  /\ WorkerStep("writing")
  /\ UNCHANGED owner

-------------------------------------------------------------------------------
(* spawn_snapshot_write: a blocking task, which goes on when its caller is gone. *)

Write(w, pc) == writer' = [writer EXCEPT ![w].pc = pc]
WriterOnly == UNCHANGED <<store, owner, worker, capture, down>>

StartGather(w) ==
  /\ writer[w].pc = "gather"
  /\ writer' = [writer EXCEPT ![w].pc = "gathering", ![w].from = store[writer[w].of.store].records]
  /\ WriterOnly /\ UNCHANGED <<fresh, lock, file, faults>>

\* visit_snapshot_batches is weakly consistent: what it gathered is the store's
\* content if that did not change meanwhile.
EndGather(w) ==
  LET now == store[writer[w].of.store].records
      mixed == now # writer[w].from IN
  /\ writer[w].pc = "gathering"
  /\ fresh' = IF mixed THEN fresh + 1 ELSE fresh
  /\ writer' = [writer EXCEPT ![w].pc = "check", ![w].from = 0,
                              ![w].records = IF mixed THEN fresh + 1 ELSE now]
  /\ WriterOnly /\ UNCHANGED <<lock, file, faults>>

\* snapshot_publish_is_current, under the publish mutex.
IsCurrent(w) ==
  LET c == writer[w].of IN
  /\ owner.generation = c.generation
  /\ owner.store = c.store
  /\ ~owner.stopped \/ w = "final"
  /\ store[c.store].reset = c.reset

CheckCurrent(w) ==
  /\ writer[w].pc = "check" /\ lock = None
  /\ \/ IsCurrent(w) /\ lock' = w /\ Write(w, "rename")
     \/ ~IsCurrent(w) /\ Write(w, "superseded") /\ UNCHANGED lock
  /\ WriterOnly /\ UNCHANGED <<fresh, file, faults>>

Rename(w) ==
  /\ writer[w].pc = "rename"
  /\ file' = writer[w].records
  /\ lock' = None
  /\ Write(w, "ok")
  /\ WriterOnly /\ UNCHANGED <<fresh, faults>>

\* Timeout, limits, an unsafe path, an I/O error: the temporary file is removed.
WriteError(w) ==
  /\ writer[w].pc \in {"gather", "gathering", "check", "rename"} /\ faults < MaxFaults
  /\ Write(w, "failed")
  /\ lock' = IF lock = w THEN None ELSE lock
  /\ faults' = faults + 1
  /\ WriterOnly /\ UNCHANGED <<fresh, file>>

\* The generation counts as persisted only if nothing changed during the write.
Persisted(c) == IF store[c.store].version = c.version THEN c.version ELSE None

\* snapshot_current after the write; a superseded one leaves the status alone.
EndWrite ==
  LET c == capture
      mine == owner.generation = c.generation /\ ~owner.stopped IN
  /\ worker = "writing" /\ writer["periodic"].pc \in {"ok", "failed", "superseded"}
  /\ owner' = CASE writer["periodic"].pc = "ok" /\ mine ->
                     [owner EXCEPT !.condition = "idle", !.last = Persisted(c)]
                [] writer["periodic"].pc = "failed" /\ mine ->
                     [owner EXCEPT !.condition = "failed"]
                [] OTHER -> owner
  /\ writer' = [writer EXCEPT !["periodic"] = NoWrite]
  /\ capture' = NoCapture
  /\ WorkerStep("read")

-------------------------------------------------------------------------------
(* shutdown. *)

StopOwner ==
  /\ ~owner.stopped /\ lock = None
  /\ owner' = [owner EXCEPT !.stopped = TRUE, !.generation = @ + 1,
                            !.condition = IF owner.enabled THEN "writing" ELSE "stopped"]
  /\ down' = [step |-> IF owner.enabled THEN "write" ELSE "off",
              source |-> [NoCapture EXCEPT !.store = owner.store,
                                           !.generation = owner.generation + 1]]
  /\ worker' = Notified
  /\ UNCHANGED <<store, fresh, lock, capture, writer, file, faults>>

\* abort: the task dies at an await, its blocking write goes on without it.
AbortTask ==
  /\ worker \notin {"captured", "ended"}
  /\ worker' = "ended" /\ capture' = NoCapture

\* With the task gone, or at the deadline, the source taken at the stop is written;
\* after the deadline it is not.
BeginFinalWrite ==
  /\ AbortTask \/ (worker = "ended" /\ UNCHANGED <<worker, capture>>)
  /\ \/ /\ down.step = "off"
        /\ down' = [down EXCEPT !.step = "down"]
        /\ UNCHANGED <<owner, writer>>
     \/ /\ down.step = "write"
        /\ down' = [down EXCEPT !.step = "down"]
        /\ owner' = [owner EXCEPT !.condition =
                       IF owner.generation = down.source.generation THEN "failed" ELSE @]
        /\ UNCHANGED writer
     \/ /\ down.step = "write"
        /\ down' = [down EXCEPT !.step = "writing"]
        /\ Begin("final", [down.source EXCEPT !.reset = store[down.source.store].reset])
        /\ UNCHANGED owner
  /\ UNCHANGED <<store, fresh, lock, file, faults>>

EndFinalWrite ==
  /\ down.step = "writing" /\ writer["final"].pc \in {"ok", "failed", "superseded"}
  /\ down' = [down EXCEPT !.step = IF writer["final"].pc = "ok" THEN "written" ELSE "down"]
  /\ owner' = CASE writer["final"].pc = "ok" -> [owner EXCEPT !.condition = "stopped"]
                [] writer["final"].pc = "failed" -> [owner EXCEPT !.condition = "failed"]
                [] OTHER -> owner
  /\ writer' = [writer EXCEPT !["final"] = NoWrite]
  /\ UNCHANGED <<store, fresh, lock, worker, capture, file, faults>>

\* The process ends, after a shutdown or killed at any step, and the next one recovers.
Restart(enabled, how) ==
  LET s == owner.store + 1
      st == IF enabled THEN Recovered(how) ELSE NewStore IN
  /\ s \in Sources
  /\ file = None => how \in {"whole", "unread"}
  /\ store' = [store EXCEPT ![s] = st]
  /\ fresh' = IF st.records > fresh THEN fresh + 1 ELSE fresh
  /\ owner' = Started(s, st, enabled, how)
  /\ lock' = None /\ worker' = "read" /\ capture' = NoCapture
  /\ writer' = [w \in Writers |-> NoWrite]
  /\ down' = Up
  /\ UNCHANGED <<file, faults>>

-------------------------------------------------------------------------------
Periodic == ReadState \/ AwaitChange \/ Capture \/ BeginWrite \/ EndWrite
Writing(w) == StartGather(w) \/ EndGather(w) \/ CheckCurrent(w) \/ Rename(w)
ShuttingDown == BeginFinalWrite \/ EndFinalWrite

Next ==
  \/ \E s \in Sources : Commit(s) \/ Clear(s)
  \/ \E e \in BOOLEAN : PublishSwitch(e) \/ \E how \in Recoveries : Restart(e, how)
  \/ Periodic
  \/ \E w \in Writers : Writing(w) \/ WriteError(w)
  \/ StopOwner \/ ShuttingDown

\* The task and the blocking writes run; the timer of a sleeping task fires.
Spec ==
  /\ Init /\ [][Next]_vars
  /\ WF_vars(Periodic)
  /\ \A w \in Writers : WF_vars(Writing(w))
  /\ WF_vars(ShuttingDown)

-------------------------------------------------------------------------------
(* Properties. *)

\* Type correctness of the owner, its task and its writes.
SnapshotTypeOK ==
  /\ store \in [Sources -> [version : Nat, reset : Nat, records : 1..fresh,
                          taken : 1..fresh \cup {None}]]
  /\ owner.store \in Sources /\ owner.generation \in Nat /\ owner.last \in Nat \cup {None}
  /\ {owner.enabled, owner.stopped} \subseteq BOOLEAN
  /\ owner.condition \in {"disabled", "idle", "writing", "failed", "stopped"}
  /\ lock \in Writers \cup {None} /\ file \in 1..fresh \cup {None}
  /\ worker \in {"read", "select", "disabled", "parked", "sleeping", "captured", "writing", "ended"}
  /\ down.step \in {"up", "off", "write", "writing", "written", "down"}
  /\ \A w \in Writers : writer[w].pc \in {"idle", "gather", "gathering", "check", "rename", "ok",
                                          "failed", "superseded"}

\* The file holds every record the store shows: it was written from them, or they are
\* the usable ones of what it holds.
OnDisk(st) == file = st.records \/ (file # None /\ file = st.taken)

\* A cycle is skipped only when the file really holds what the store shows: records
\* written while a snapshot was being made are never taken for persisted.
SkippedIsOnDisk ==
  owner.enabled /\ ~owner.stopped /\ owner.last = store[owner.store].version
    => OnDisk(store[owner.store])

\* The file is only ever replaced by a write made for the owner as it then is: a
\* write that was under way at a reload, or when shutdown began, is not published
\* and cannot follow the final write (publish_switch, shutdown,
\* snapshot_publish_is_current).
PublishesForOwner ==
  file' # file => /\ lock \in Writers
                  /\ writer[lock].of.generation = owner.generation
                  /\ writer[lock].of.store = owner.store
OnlyTheOwnerPublishes == [][PublishesForOwner]_vars

FileFollows == OnDisk(store[owner.store]) \/ down.step # "up"

\* If persistence stays on, the file ends up with the records of the owner's store,
\* or the process is on its way down (run_periodic, snapshot_current).
QuietIsPersisted == [](owner.enabled) => <>[]FileFollows

\* The same of a persistence that a reload turned on: once it is on for good, the
\* periodic task covers what the store shows.
SwitchedOnIsPersisted == <>[](owner.enabled) => <>[]FileFollows

===============================================================================
