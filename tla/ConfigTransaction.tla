--------------------------- MODULE ConfigTransaction ---------------------------
(* The configuration transaction of fluxdns: the active source kept by           *)
(* ConfigStore (config/store/active.rs), the two-file journal that persists it    *)
(* (config/store/persistence.rs), the task that drives one accepted edit          *)
(* (management/config_mutation.rs), the service's control queue                   *)
(* (service/control.rs) and start-up recovery (config/store.rs, config/load.rs).  *)
(*                                                                                *)
(* Two files are managed, the source given on the command line and the copy       *)
(* derived from it.  A file is its stamp: an identity and a content.  The store    *)
(* never trusts a file it has not stamped, because an editor may replace either    *)
(* file at any moment.  Every file operation is a step of its own, so a crash or   *)
(* an editor may come between any two of them.                                    *)
EXTENDS Naturals, FiniteSets

CONSTANTS
  Contents,     \* configuration texts that parse, validate and resolve
  Initial,      \* the text both files hold when the service is first started
  Bad,          \* a text that ConfigV2::parse rejects
  None,         \* no content, no operation
  Ops,          \* operation ids chosen by the management clients
  Limits        \* bounds: a behaviour keeps to one of these records, of
                \*   ops      the operation ids that are used,
                \*   edits    how often an editor touches a managed file,
                \*   crashes  how often the process is killed,
                \*   faults   how many file operations fail,
                \*   reads    how many read-only calls and watcher reports there are

ASSUME ConfigAssumption ==
  /\ Initial \in Contents
  /\ Bad \notin Contents
  /\ None \notin Contents \cup Ops \cup {Bad}
  /\ Limits \subseteq [ops : SUBSET Ops, edits : Nat, crashes : Nat, faults : Nat,
                       reads : Nat]

VARIABLES
  file,       \* the managed files on disk, target -> stamp
  side,       \* side files on disk: <<nonce, role>> of stages and decision files
  journal,    \* the v2 journal on disk
  boot,       \* "down", "recover", "load", "built", "up" or "refused"
  mem,        \* ActiveState.snapshot of the running process
  ops,        \* ActiveState.operations: operation -> phase
  ticket,     \* the latest ActiveState.validations entry
  handle,     \* ActiveState.persistence, or the handle of a recovery
  reading,    \* a read-only call holds the transaction mutex
  seen,       \* the observation the file watcher has not delivered yet
  work,       \* the file routine that holds the store's locks; since: history,
              \* the next file identity when it last compared a target
  owner,      \* the run_apply task and the permit it holds
  control,    \* the command in the service's control queue, and its reply
  runtime,    \* the configuration the DNS runtime serves
  fresh,      \* the next random token or file identity
  edits, crashes, faults, reads,
  allowed,    \* history: <<target, stamp>> the current command may replace
  decided,    \* history: the last decided content, None after a later edit
  limit       \* the bounds of this behaviour

disk == <<file, side, journal>>
memory == <<mem, ops, ticket, handle, reading>>
budget == <<edits, crashes, faults, reads>>
history == <<allowed, decided>>
vars == <<file, side, journal, boot, mem, ops, ticket, handle, reading, seen, work,
          owner, control, runtime, fresh, edits, crashes, faults, reads, allowed,
          decided>>

Targets == {"source", "derived"}
Missing == [id |-> 0, content |-> None]
Stamp(n, c) == [id |-> n, content |-> c]
Both(s) == [t \in Targets |-> s]

NoJournal == [phase |-> "none", nonce |-> 0, content |-> None,
              old |-> Both(Missing), retired |-> {}]
NoHandle == [journal |-> NoJournal, decision |-> FALSE]
NoTicket == [rev |-> 0, files |-> Both(Missing), content |-> None, discard |-> FALSE]
NoMem == [content |-> None, rev |-> 0, runtime |-> 0, persisted |-> 0,
          base |-> Both(Missing), obs |-> Both(Missing), gate |-> None]
NoWork == [pc |-> "idle", kind |-> "none", op |-> None, nonce |-> 0,
           content |-> None, old |-> Both(Missing), retired |-> {}, since |-> 0]
NoOwner == [pc |-> "none", op |-> None, rev |-> 0, ticket |-> NoTicket]

Staged(j) == Stamp(j.nonce, j.content)
Stages(n) == {<<n, t>> : t \in Targets}

Running == boot = "up"
Idle == work.pc = "idle"

\* One file operation may fail: "failed" leaves no trace, "dirty" reports an error
\* although its effect is on disk (a create that could not be undone, a rename or
\* a removal whose directory sync failed).
Faulty == faults < limit.faults
Spend == faults' = faults + 1

\* Persistence::verify_journal: the journal on disk is the one the handle wrote.
VerifyJournal == handle.journal = journal

\* Persistence::verify_targets.
VerifyTargets ==
  LET j == handle.journal IN
  \A t \in Targets :
    \/ file[t] = j.old[t] /\ <<j.nonce, t>> \in side
    \/ j.phase = "decided" /\ file[t] = Staged(j)

\* Persistence::needs_reconfirmation, once verify_journal has passed.
NeedsReconfirmation ==
  LET j == handle.journal IN
  \E t \in Targets :
    file[t] # j.old[t] /\ ~(j.phase = "decided" /\ file[t] = Staged(j))

-------------------------------------------------------------------------------
(* Calls that only read, and the watcher of the service loop.                    *)

\* observe_files, external_source: the mutex is held while the files are read, and
\* another caller that tries it meanwhile gets Busy.
BeginRead ==
  /\ Running /\ Idle /\ ~reading
  /\ reads < limit.reads
  /\ reads' = reads + 1
  /\ reading' = TRUE
  /\ UNCHANGED <<disk, boot, mem, ops, ticket, handle, seen, work, owner, control,
                 runtime, fresh, edits, crashes, faults, history>>

EndRead ==
  /\ reading /\ Idle
  /\ reading' = FALSE
  /\ mem' = [mem EXCEPT !.obs = file]
  /\ UNCHANGED <<disk, boot, ops, ticket, handle, seen, work, owner, control,
                 runtime, fresh, budget, history>>

\* config_watcher.rs reads both files while the store works and reports later, so
\* what it reports may be out of date by then.
WatcherRead ==
  /\ Running /\ seen # file
  /\ reads < limit.reads
  /\ reads' = reads + 1
  /\ seen' = file
  /\ UNCHANGED <<disk, boot, memory, work, owner, control, runtime, fresh, edits,
                 crashes, faults, history>>

\* record_file_observation needs only the active lock.
RecordObservation ==
  /\ Running /\ Idle
  /\ seen # Both(Missing)
  /\ mem' = [mem EXCEPT !.obs = seen]
  /\ seen' = Both(Missing)
  /\ UNCHANGED <<disk, boot, ops, ticket, handle, reading, work, owner, control,
                 runtime, fresh, budget, history>>

-------------------------------------------------------------------------------
(* Accepting a command.                                                           *)

\* Mutant: an edit seen in the files need not be confirmed.
CheckExpected_IgnoresEdits(rev, files, discard) ==
  /\ mem.rev = rev
  /\ file = files
  /\ mem.gate = None

\* active.rs, check_expected, after the observation was refreshed.
CheckExpected(rev, files, discard) ==
  /\ mem.rev = rev
  /\ file = files
  /\ mem.gate = None
  /\ file # mem.base => discard

Callable == Running /\ Idle /\ ~reading

Replaceable(files, discard) ==
  {<<t, (IF discard THEN files ELSE mem.base)[t]>> : t \in Targets}

\* validate_edit: the ticket binds the candidate to both revisions.
ValidateEdit(c, d) ==
  /\ Callable
  /\ CheckExpected(mem.rev, file, d)
  /\ mem' = [mem EXCEPT !.obs = file]
  /\ ticket' = [rev |-> mem.rev, files |-> file, content |-> c, discard |-> d]
  /\ UNCHANGED <<disk, boot, ops, handle, reading, seen, work, owner, control,
                 runtime, fresh, budget, history>>

\* A ticket lives for VALIDATION_TTL.
ExpireTicket ==
  /\ ticket # NoTicket
  /\ ticket' = NoTicket
  /\ UNCHANGED <<disk, boot, mem, ops, handle, reading, seen, work, owner, control,
                 runtime, fresh, budget, history>>

\* begin_apply: an operation id that is already recorded is answered from the
\* record; a new one takes the gate and a permit for run_apply.
BeginApply(o) ==
  /\ Callable
  /\ ops[o] = "none"
  /\ ticket # NoTicket
  /\ CheckExpected(ticket.rev, ticket.files, ticket.discard)
  /\ ops' = [ops EXCEPT ![o] = "preparing"]
  /\ mem' = [mem EXCEPT !.obs = file, !.gate = o]
  /\ owner' = [pc |-> "preparing", op |-> o, rev |-> fresh, ticket |-> ticket]
  /\ fresh' = fresh + 1
  /\ allowed' = Replaceable(ticket.files, ticket.discard)
  /\ UNCHANGED <<disk, boot, ticket, handle, reading, seen, work, control, runtime,
                 budget, decided>>

Prepare(kind, o, c) ==
  /\ journal = NoJournal
  /\ work' = [pc |-> "stageSource", kind |-> kind, op |-> o, nonce |-> fresh,
              content |-> c, old |-> file, retired |-> {}, since |-> 0]
  /\ fresh' = fresh + 1

\* restore_files: the active text is written back; the runtime is not touched.
RestoreFiles(o, d) ==
  /\ Callable
  /\ ops[o] = "none"
  /\ CheckExpected(mem.rev, file, d)
  /\ ops' = [ops EXCEPT ![o] = "preparing"]
  /\ mem' = [mem EXCEPT !.obs = file, !.gate = o]
  /\ Prepare("restore", o, mem.content)
  /\ allowed' = Replaceable(file, d)
  /\ UNCHANGED <<disk, boot, ticket, handle, reading, seen, owner, control, runtime,
                 budget, decided>>

\* retry_persistence: only for the operation that holds the gate and is recorded
\* as applied but not persisted; an edit seen meanwhile must be confirmed.
RetryPersistence(o, d) ==
  /\ Callable
  /\ ops[o] = "appliedUnpersisted" /\ mem.gate = o
  /\ handle # NoHandle /\ VerifyJournal
  /\ NeedsReconfirmation => d
  /\ mem' = [mem EXCEPT !.obs = file]
  /\ IF NeedsReconfirmation
       THEN /\ work' = [pc |-> "stageSource", kind |-> "retry", op |-> o,
                        nonce |-> fresh, content |-> journal.content, old |-> file,
                        since |-> 0,
                        retired |-> side \cap (Stages(journal.nonce)
                                      \cup (IF handle.decision
                                              THEN {<<journal.nonce, "decision">>}
                                              ELSE {}))]
            /\ side' = side \ journal.retired
            /\ fresh' = fresh + 1
            /\ allowed' = allowed \cup Replaceable(file, TRUE)
            /\ UNCHANGED ops
       ELSE /\ work' = [NoWork EXCEPT !.pc = "decide", !.kind = "persist", !.op = o]
            /\ ops' = [ops EXCEPT ![o] = "persisting"]
            /\ UNCHANGED <<side, fresh, allowed>>
  /\ UNCHANGED <<file, journal, boot, ticket, handle, reading, seen, owner, control,
                 runtime, budget, decided>>

-------------------------------------------------------------------------------
(* How a file routine ends.                                                       *)

\* An error of prepare_with_protection: begin_runtime_apply returns it to run_apply;
\* restore_files rejects the operation unless something is left to clean up.
PrepareFailed(dirty) ==
  /\ work' = NoWork
  /\ \/ /\ work.kind = "apply"
        /\ owner' = [owner EXCEPT !.pc = "rejecting"]
        /\ UNCHANGED <<ops, mem>>
     \/ /\ work.kind = "restore"
        /\ ops' = [ops EXCEPT ![work.op] =
                     IF dirty THEN "compensationFailed" ELSE "rejected"]
        /\ mem' = [mem EXCEPT !.gate = IF dirty THEN @ ELSE None]
        /\ UNCHANGED owner
     \/ /\ work.kind = "retry"
        /\ ops' = [ops EXCEPT ![work.op] =
                     IF dirty THEN "compensationFailed" ELSE "appliedUnpersisted"]
        /\ UNCHANGED <<mem, owner>>
  /\ UNCHANGED <<boot, handle>>

\* OperationSnapshot::persistence_failed, or a refused start-up.
CommitFailed(phase, files) ==
  /\ work' = NoWork
  /\ IF work.kind = "recover"
       THEN /\ boot' = "refused"
            /\ handle' = NoHandle
            /\ UNCHANGED <<mem, ops>>
       ELSE /\ ops' = [ops EXCEPT ![work.op] = phase]
            /\ mem' = [mem EXCEPT !.obs = files]
            /\ UNCHANGED <<boot, handle>>
  /\ UNCHANGED owner

\* The end of persist_current and restore_files, or of recover.
CommitDone ==
  /\ work' = NoWork
  /\ handle' = NoHandle
  /\ IF work.kind = "recover"
       THEN /\ boot' = "load"
            /\ UNCHANGED <<mem, ops>>
       ELSE /\ ops' = [ops EXCEPT ![work.op] = "appliedSynced"]
            /\ mem' = [mem EXCEPT !.obs = file, !.gate = None, !.persisted = mem.rev,
                                  !.base = Both(Staged(handle.journal))]
            /\ UNCHANGED boot
  /\ UNCHANGED owner

Advance(pc) == work' = [work EXCEPT !.pc = pc]
Continue(pc) == Advance(pc) /\ UNCHANGED <<boot, mem, ops, handle, owner>>

\* What every file routine leaves alone.
RoutineFrame ==
  UNCHANGED <<ticket, reading, seen, control, runtime, fresh, edits, crashes, reads,
              allowed>>

-------------------------------------------------------------------------------
(* prepare_with_protection and the staging half of reconfirm.                     *)

\* stage: the candidate is written beside its target, then the target is compared
\* again; on an error the stages written so far are removed.
StageTarget(t, next) ==
  /\ work.pc = (IF t = "source" THEN "stageSource" ELSE "stageDerived")
  /\ \/ /\ file[t] = work.old[t]
        /\ side' = side \cup {<<work.nonce, t>>}
        /\ Continue(next)
        /\ UNCHANGED faults
     \/ /\ file[t] # work.old[t]
        /\ side' = side \ Stages(work.nonce)
        /\ PrepareFailed(FALSE)
        /\ UNCHANGED faults
     \/ /\ Faulty /\ Spend
        /\ \/ side' = side \ Stages(work.nonce) /\ PrepareFailed(FALSE)
           \/ /\ side' = (side \ Stages(work.nonce)) \cup {<<work.nonce, t>>}
              /\ PrepareFailed(TRUE)
  /\ RoutineFrame
  /\ UNCHANGED <<file, journal, decided>>

NewJournal(phase) ==
  [phase |-> phase, nonce |-> work.nonce, content |-> work.content,
   old |-> work.old, retired |-> work.retired]

\* The journal file is created empty and then written: a crash in between leaves
\* a journal no start-up accepts.
CreateJournal ==
  /\ work.pc = "journal" /\ work.kind # "retry"
  /\ \/ /\ file = work.old
        /\ journal' = NewJournal("torn")
        /\ Continue("writeJournal")
        /\ UNCHANGED <<side, faults>>
     \/ /\ file # work.old
        /\ side' = side \ Stages(work.nonce)
        /\ PrepareFailed(FALSE)
        /\ UNCHANGED <<journal, faults>>
     \/ /\ Faulty /\ Spend
        /\ side' = side \ Stages(work.nonce)
        /\ \/ PrepareFailed(FALSE) /\ UNCHANGED journal
           \/ PrepareFailed(TRUE) /\ journal' = NewJournal("torn")
  /\ RoutineFrame
  /\ UNCHANGED <<file, decided>>

\* Mutant: the decision follows PREPARED at once, before the service has switched.
WriteJournal_DecidesAtOnce ==
  /\ work.pc = "writeJournal"
  /\ journal' = NewJournal("prepared")
  /\ handle' = [journal |-> journal', decision |-> FALSE]
  /\ Advance("decide")
  /\ ops' = [ops EXCEPT ![work.op] = "persisting"]
  /\ owner' = NoOwner
  /\ RoutineFrame
  /\ UNCHANGED <<file, side, boot, mem, faults, decided>>

\* PREPARED is on disk.  begin_runtime_apply reads both files once more before the
\* command may be submitted; restore_files goes on to the decision.
WriteJournal ==
  /\ work.pc = "writeJournal"
  /\ journal' = NewJournal("prepared")
  /\ handle' = [journal |-> journal', decision |-> FALSE]
  /\ IF work.kind = "restore"
       THEN /\ Advance("decide")
            /\ ops' = [ops EXCEPT ![work.op] = "persisting"]
            /\ UNCHANGED owner
       ELSE /\ work' = NoWork
            /\ IF file = mem.obs
                 THEN /\ ops' = [ops EXCEPT ![work.op] = "applying"]
                      /\ owner' = [owner EXCEPT !.pc = "staged"]
                 ELSE /\ owner' = [owner EXCEPT !.pc = "rejecting"]
                      /\ UNCHANGED ops
  /\ RoutineFrame
  /\ UNCHANGED <<file, side, boot, mem, faults, decided>>

\* reconfirm: the new decision is written beside the journal ...
ReconfirmDecision ==
  /\ work.pc = "journal" /\ work.kind = "retry"
  /\ \/ /\ VerifyJournal /\ file = work.old
        /\ side' = side \cup {<<work.nonce, "decision">>}
        /\ Continue("reconfirm")
        /\ UNCHANGED faults
     \/ /\ file # work.old
        /\ side' = side \ Stages(work.nonce)
        /\ PrepareFailed(FALSE)
        /\ UNCHANGED faults
     \/ /\ Faulty /\ Spend
        /\ \/ side' = side \ Stages(work.nonce) /\ PrepareFailed(FALSE)
           \/ /\ side' = (side \ Stages(work.nonce)) \cup {<<work.nonce, "decision">>}
              /\ PrepareFailed(TRUE)
  /\ RoutineFrame
  /\ UNCHANGED <<file, journal, decided>>

\* ... and replaces it in one rename.  When the result of the rename is not known,
\* nothing the new journal may refer to is removed.
ReconfirmReplace ==
  /\ work.pc = "reconfirm"
  /\ \/ /\ journal' = NewJournal("decided")
        /\ side' = side \ {<<work.nonce, "decision">>}
        /\ handle' = [journal |-> journal', decision |-> FALSE]
        /\ ops' = [ops EXCEPT ![work.op] = "persisting"]
        /\ work' = [work EXCEPT !.pc = "decide", !.kind = "persist"]
        /\ decided' = work.content
        /\ UNCHANGED <<boot, mem, owner, faults>>
     \/ /\ Faulty /\ Spend
        /\ side' = side \ (Stages(work.nonce) \cup {<<work.nonce, "decision">>})
        /\ PrepareFailed(FALSE)
        /\ UNCHANGED <<journal, decided>>
     \/ /\ Faulty /\ Spend
        /\ journal' = NewJournal("decided")
        /\ side' = side \ {<<work.nonce, "decision">>}
        /\ decided' = work.content
        /\ ops' = [ops EXCEPT ![work.op] = "unknown"]
        /\ work' = NoWork
        /\ UNCHANGED <<boot, mem, handle, owner>>
  /\ RoutineFrame
  /\ UNCHANGED file

-------------------------------------------------------------------------------
(* Persistence::commit, for a running operation and for recovery.                 *)

\* decide, first half: check everything, then write the decision beside the journal.
Decide ==
  /\ work.pc = "decide"
  /\ \/ /\ ~(VerifyJournal /\ VerifyTargets)
        /\ CommitFailed("appliedUnpersisted", file)
        /\ UNCHANGED <<side, faults>>
     \/ /\ VerifyJournal /\ VerifyTargets
        /\ handle.journal.phase = "decided"
        /\ Continue("cleanup")
        /\ UNCHANGED <<side, faults>>
     \/ /\ VerifyJournal /\ VerifyTargets
        /\ handle.journal.phase = "prepared"
        /\ side' = side \cup {<<handle.journal.nonce, "decision">>}
        /\ handle' = [handle EXCEPT !.decision = TRUE]
        /\ Advance("replaceJournal")
        /\ UNCHANGED <<boot, mem, ops, owner, faults>>
     \/ /\ VerifyJournal /\ VerifyTargets
        /\ handle.journal.phase = "prepared" /\ ~handle.decision
        /\ Faulty /\ Spend
        /\ \/ CommitFailed("appliedUnpersisted", file) /\ UNCHANGED side
           \/ /\ side' = side \cup {<<handle.journal.nonce, "decision">>}
              /\ CommitFailed("compensationFailed", file)
  /\ RoutineFrame
  /\ UNCHANGED <<file, journal, decided>>

\* decide, second half: one rename turns PREPARED into COMMIT_DECIDED.
ReplaceJournal ==
  LET j == [handle.journal EXCEPT !.phase = "decided"] IN
  /\ work.pc = "replaceJournal"
  /\ \/ /\ journal' = j
        /\ side' = side \ {<<j.nonce, "decision">>}
        /\ handle' = [journal |-> j, decision |-> FALSE]
        /\ decided' = j.content
        /\ Advance("cleanup")
        /\ UNCHANGED <<boot, mem, ops, owner, faults>>
     \/ /\ Faulty /\ Spend
        /\ CommitFailed("appliedUnpersisted", file)
        /\ UNCHANGED <<journal, side, decided>>
     \/ /\ Faulty /\ Spend
        /\ journal' = j
        /\ side' = side \ {<<j.nonce, "decision">>}
        /\ decided' = j.content
        /\ CommitFailed("appliedUnpersisted", file)
  /\ RoutineFrame
  /\ UNCHANGED file

\* cleanup_retired and the second verify_targets.  A removal that fails leaves the rest.
CleanupRetired ==
  /\ work.pc = "cleanup"
  /\ \/ /\ side' = side \ handle.journal.retired
        /\ \/ VerifyTargets /\ Continue("commitSource")
           \/ ~VerifyTargets /\ CommitFailed("appliedUnpersisted", file)
        /\ UNCHANGED faults
     \/ /\ handle.journal.retired \cap side # {}
        /\ Faulty /\ Spend
        /\ \E gone \in SUBSET handle.journal.retired : side' = side \ gone
        /\ CommitFailed("appliedUnpersisted", file)
  /\ RoutineFrame
  /\ UNCHANGED <<file, journal, decided>>

\* The steps of commit_target for each target.
CommitAt == [source |-> "commitSource", derived |-> "commitDerived"]
RenameAt == [source |-> "renameSource", derived |-> "renameDerived"]
RequireAt == [source |-> "requireSource", derived |-> "requireDerived"]

\* commit_target, up to the last comparison in files::replace: a target that is already
\* the candidate is done, one that is not the recorded old file is left alone, any other
\* is to be replaced by its stage.
CompareTarget(t, next) ==
  LET j == handle.journal IN
  /\ work.pc = CommitAt[t]
  /\ \/ file[t] = Staged(j) /\ Continue(next)
     \/ file[t] \notin {Staged(j), j.old[t]} /\ CommitFailed("appliedUnpersisted", file)
     \/ /\ file[t] = j.old[t]
        /\ work' = [work EXCEPT !.pc = RenameAt[t], !.since = fresh]
        /\ UNCHANGED <<boot, mem, ops, handle, owner>>
  /\ RoutineFrame
  /\ UNCHANGED <<disk, faults, decided>>

\* files::replace, its last part: the stage is renamed over whatever the target is by
\* now; a target that was missing is created, and left alone when it is there again.
RenameTarget(t) ==
  LET j == handle.journal
      blocked == j.old[t] = Missing /\ file[t] # Missing
  IN
  /\ work.pc = RenameAt[t]
  /\ \/ /\ ~blocked
        /\ file' = [file EXCEPT ![t] = Staged(j)]
        /\ side' = side \ {<<j.nonce, t>>}
        /\ \/ Continue(RequireAt[t]) /\ UNCHANGED faults
           \/ Faulty /\ Spend /\ CommitFailed("appliedUnpersisted", file')
     \/ /\ \/ blocked /\ UNCHANGED faults
           \/ Faulty /\ Spend
        /\ CommitFailed("appliedUnpersisted", file)
        /\ UNCHANGED <<file, side>>
  /\ RoutineFrame
  /\ UNCHANGED <<journal, decided>>

\* files::replace reads the target once more.
RequireTarget(t, next) ==
  /\ work.pc = RequireAt[t]
  /\ \/ file[t] = Staged(handle.journal) /\ Continue(next)
     \/ file[t] # Staged(handle.journal) /\ CommitFailed("appliedUnpersisted", file)
  /\ RoutineFrame
  /\ UNCHANGED <<disk, faults, decided>>

\* finish: both targets are the candidate, so the journal may go.
Finish ==
  /\ work.pc = "finish"
  /\ \/ /\ \E t \in Targets : file[t] # Staged(handle.journal)
        /\ CommitFailed("appliedUnpersisted", file)
        /\ UNCHANGED <<journal, faults>>
     \/ /\ \A t \in Targets : file[t] = Staged(handle.journal)
        /\ \/ journal' = NoJournal /\ CommitDone /\ UNCHANGED faults
           \/ /\ Faulty /\ Spend
              /\ journal' \in {journal, NoJournal}
              /\ CommitFailed("appliedUnpersisted", file)
  /\ RoutineFrame
  /\ UNCHANGED <<file, side, decided>>

-------------------------------------------------------------------------------
(* Persistence::discard, for a rejected candidate and for recovery.               *)

Settle(o, compensated) ==
  /\ ops' = [ops EXCEPT ![o] = IF compensated THEN "rejected" ELSE "compensationFailed"]
  /\ mem' = [mem EXCEPT !.gate = IF compensated THEN None ELSE @]
  /\ handle' = IF compensated THEN NoHandle ELSE handle
  /\ owner' = NoOwner

DiscardFailed ==
  /\ work' = NoWork
  /\ IF work.kind = "recover"
       THEN boot' = "refused" /\ handle' = NoHandle /\ UNCHANGED <<mem, ops, owner>>
       ELSE Settle(work.op, FALSE) /\ UNCHANGED boot

DiscardDone ==
  /\ work' = NoWork
  /\ IF work.kind = "recover"
       THEN boot' = "load" /\ handle' = NoHandle /\ UNCHANGED <<mem, ops, owner>>
       ELSE Settle(work.op, TRUE) /\ UNCHANGED boot

\* The side files the handle knows of are removed first; a decision file a dead
\* process left behind is not among them.
DiscardStages ==
  LET n == handle.journal.nonce
      known == Stages(n) \cup (IF handle.decision THEN {<<n, "decision">>} ELSE {})
  IN
  /\ work.pc = "discard"
  /\ \/ VerifyJournal /\ side' = side \ known /\ Continue("discardJournal")
        /\ UNCHANGED faults
     \/ /\ Faulty /\ Spend
        /\ side' \in {side, side \ known}
        /\ DiscardFailed
  /\ RoutineFrame
  /\ UNCHANGED <<file, journal, decided>>

DiscardJournal ==
  /\ work.pc = "discardJournal"
  /\ \/ journal' = NoJournal /\ DiscardDone /\ UNCHANGED faults
     \/ Faulty /\ Spend /\ journal' \in {journal, NoJournal} /\ DiscardFailed
  /\ RoutineFrame
  /\ UNCHANGED <<file, side, decided>>

-------------------------------------------------------------------------------
(* run_apply, which owns the permit, and the service loop it talks to.            *)

\* What the steps of run_apply and of the service leave alone.
OwnerFrame == UNCHANGED <<disk, boot, ticket, reading, seen, budget, history>>

\* resolve_runtime_config, the secret check or PreparedRuntime::prepare fails.
PrepareRuntimeFails ==
  /\ owner.pc = "preparing"
  /\ owner' = [owner EXCEPT !.pc = "rejecting"]
  /\ OwnerFrame
  /\ UNCHANGED <<mem, ops, handle, work, control, runtime, fresh>>

\* begin_runtime_apply: Busy, a conflict, or the start of the file preparation.
BeginRuntimeApply ==
  LET current == ~reading /\ mem.rev = owner.ticket.rev
                   /\ file = owner.ticket.files /\ file = mem.obs
  IN
  /\ owner.pc = "preparing" /\ Idle
  /\ \/ /\ current
        /\ Prepare("apply", owner.op, owner.ticket.content)
        /\ owner' = [owner EXCEPT !.pc = "staging"]
     \/ /\ ~current
        /\ owner' = [owner EXCEPT !.pc = "rejecting"]
        /\ UNCHANGED <<work, fresh>>
  /\ OwnerFrame
  /\ UNCHANGED <<mem, ops, handle, control, runtime>>

\* ServiceControl::try_apply.
Submit ==
  /\ owner.pc = "staged"
  /\ \/ /\ control = "idle"
        /\ control' = "queued"
        /\ owner' = [owner EXCEPT !.pc = "waiting"]
     \/ /\ owner' = [owner EXCEPT !.pc = "rejecting"]
        /\ UNCHANGED control
  /\ OwnerFrame
  /\ UNCHANGED <<mem, ops, handle, work, runtime, fresh>>

\* apply_control_command: the candidate becomes the runtime, or is refused, or the
\* logging switch cannot be undone, or a stop signal drops the command and its
\* reply, before or after the runtime was switched.
Serve ==
  LET next == [content |-> owner.ticket.content, rev |-> runtime.rev + 1] IN
  /\ Running /\ control = "queued"
  /\ \/ control' = "applied" /\ runtime' = next
     \/ control' \in {"failed", "uncompensated"} /\ UNCHANGED runtime
     \/ control' = "lost" /\ runtime' \in {runtime, next}
  /\ OwnerFrame
  /\ UNCHANGED <<mem, ops, handle, work, owner, fresh>>

\* Mutant: a dropped reply is waited for.
Learn_WaitsForReply ==
  /\ owner.pc = "waiting" /\ Idle
  /\ control \in {"applied", "failed", "uncompensated"}
  /\ control' = "idle"
  /\ ops' = [ops EXCEPT ![owner.op] = "compensationFailed"]
  /\ owner' = NoOwner
  /\ OwnerFrame
  /\ UNCHANGED <<mem, handle, work, runtime, fresh>>

\* owner_outcome, and ApplyPermit::applied when the service has switched.
Learn ==
  /\ owner.pc = "waiting" /\ Idle
  /\ control' = "idle"
  /\ \/ /\ control = "applied"
        /\ ops' = [ops EXCEPT ![owner.op] = "persisting"]
        /\ mem' = [mem EXCEPT !.content = owner.ticket.content, !.rev = owner.rev,
                              !.runtime = runtime.rev]
        /\ owner' = [owner EXCEPT !.pc = "persist"]
     \/ /\ control = "failed"
        /\ owner' = [owner EXCEPT !.pc = "rejecting"]
        /\ UNCHANGED <<mem, ops>>
     \/ /\ control \in {"uncompensated", "lost"}
        /\ ops' = [ops EXCEPT ![owner.op] =
                     IF control = "lost" THEN "unknown" ELSE "compensationFailed"]
        /\ owner' = NoOwner
        /\ UNCHANGED mem
  /\ OwnerFrame
  /\ UNCHANGED <<handle, work, runtime, fresh>>

\* persist_applied takes the transaction mutex with try_lock; run_apply only logs
\* the Busy it may get.
PersistApplied ==
  /\ owner.pc = "persist" /\ Idle
  /\ IF reading
       THEN UNCHANGED work
       ELSE work' = [NoWork EXCEPT !.pc = "decide", !.kind = "persist", !.op = owner.op]
  /\ owner' = NoOwner
  /\ OwnerFrame
  /\ UNCHANGED <<mem, ops, handle, control, runtime, fresh>>

\* Mutant: a rejected candidate's journal is left behind.
Reject_SkipsDiscard ==
  /\ owner.pc = "rejecting" /\ Idle
  /\ Settle(owner.op, TRUE)
  /\ OwnerFrame
  /\ UNCHANGED <<work, control, runtime, fresh>>

\* reject_with(.., true).
Reject ==
  /\ owner.pc = "rejecting" /\ Idle
  /\ IF handle = NoHandle
       THEN Settle(owner.op, journal = NoJournal) /\ UNCHANGED work
       ELSE /\ work' = [NoWork EXCEPT !.pc = "discard", !.kind = "reject", !.op = owner.op]
            /\ UNCHANGED <<ops, mem, handle, owner>>
  /\ OwnerFrame
  /\ UNCHANGED <<control, runtime, fresh>>

\* A panic in a blocking stage drops the permit: ApplyPermit::drop keeps the gate.
DropPermit ==
  /\ owner.pc = "preparing"
  /\ ops' = [ops EXCEPT ![owner.op] = "unknown"]
  /\ owner' = NoOwner
  /\ OwnerFrame
  /\ UNCHANGED <<mem, handle, work, control, runtime, fresh>>

-------------------------------------------------------------------------------
(* Start-up, the editor and the crash.                                            *)

\* Mutant: a text is taken without being parsed.
Readable_Unparsed(s) == s # Missing

\* The file exists and ConfigV2::parse accepts it.
Readable(s) == s.content \in Contents

BootFrame == UNCHANGED <<ticket, reading, seen, control, budget, history, ops, owner>>

\* Mutant: every journal is discarded.
Recover_DiscardsAll ==
  /\ boot = "down"
  /\ IF journal = NoJournal
       THEN boot' = "load" /\ UNCHANGED <<handle, work>>
       ELSE /\ handle' = [journal |-> journal, decision |-> FALSE]
            /\ work' = [NoWork EXCEPT !.kind = "recover", !.pc = "discard"]
            /\ boot' = "recover"
  /\ BootFrame
  /\ UNCHANGED <<disk, mem, runtime, fresh>>

\* Mutant: a torn journal is neither accepted nor refused.
Recover_WaitsOnTorn ==
  /\ boot = "down" /\ journal.phase # "torn"
  /\ boot' = "load"
  /\ BootFrame
  /\ UNCHANGED <<disk, mem, handle, work, runtime, fresh>>

\* persistence::recover: PREPARED is discarded and COMMIT_DECIDED completed, when
\* every target is one the journal knows; anything else is refused.
Recoverable ==
  \/ journal.phase = "prepared"
  \/ /\ journal.phase = "decided"
     /\ \A t \in Targets : file[t] \in {journal.old[t], Staged(journal)}

\* recover_v2_pending_transaction: the journal is looked at only after the current
\* source has been read and parsed.
Recover ==
  /\ boot = "down"
  /\ \/ /\ journal = NoJournal
        /\ boot' = "load"
        /\ UNCHANGED <<handle, work>>
     \/ /\ journal # NoJournal
        /\ ~(Readable(file["source"]) /\ Recoverable)
        /\ boot' = "refused"
        /\ UNCHANGED <<handle, work>>
     \/ /\ Readable(file["source"]) /\ Recoverable
        /\ handle' = [journal |-> journal, decision |-> FALSE]
        /\ work' = [NoWork EXCEPT !.kind = "recover",
                      !.pc = IF journal.phase = "prepared" THEN "discard" ELSE "decide"]
        /\ boot' = "recover"
  /\ BootFrame
  /\ UNCHANGED <<disk, mem, runtime, fresh>>

\* create_snapshot: a missing copy is created, an equal one accepted and any other
\* refused.
SnapshotFits(text) == file["derived"] = Missing \/ file["derived"].content = text
Snapshot(text) ==
  IF file["derived"] = Missing THEN [file EXCEPT !["derived"] = Stamp(fresh, text)] ELSE file

\* load_from_path, and the service built from what it loaded.
Load ==
  LET text == file["source"].content IN
  /\ boot = "load"
  /\ IF Readable(file["source"]) /\ SnapshotFits(text)
       THEN /\ file' = Snapshot(text)
            /\ runtime' = [content |-> text, rev |-> 1]
            /\ fresh' = fresh + 1
            /\ boot' = "built"
       ELSE /\ boot' = "refused"
            /\ UNCHANGED <<file, runtime, fresh>>
  /\ BootFrame
  /\ UNCHANGED <<side, journal, mem, handle, work>>

\* with_active_source: the text that was loaded is the active source, unless a file does
\* not hold it any more (FileConflict).
WithActiveSource ==
  /\ boot = "built"
  /\ IF \A t \in Targets : file[t].content = runtime.content
       THEN /\ mem' = [content |-> runtime.content, rev |-> fresh, runtime |-> 1,
                       persisted |-> fresh, base |-> file, obs |-> file, gate |-> None]
            /\ fresh' = fresh + 1
            /\ boot' = "up"
            /\ UNCHANGED runtime
       ELSE /\ boot' = "refused"
            /\ runtime' = [content |-> None, rev |-> 0]
            /\ UNCHANGED <<mem, fresh>>
  /\ BootFrame
  /\ UNCHANGED <<disk, handle, work>>

\* An editor replaces or removes one managed file; after a refused start this is
\* what the operator does before trying again.
ExternalEdit(t, c) ==
  /\ edits < limit.edits
  /\ file[t].content # c
  /\ file' = [file EXCEPT ![t] = IF c = None THEN Missing ELSE Stamp(fresh, c)]
  /\ fresh' = fresh + 1
  /\ edits' = edits + 1
  /\ decided' = None
  /\ boot' = IF boot = "refused" THEN "down" ELSE boot
  /\ UNCHANGED <<side, journal, memory, seen, work, owner, control, runtime, crashes,
                 faults, reads, allowed>>

\* The process dies, or is stopped after a lost reply: only the disk survives.
Crash ==
  /\ boot \in {"up", "load", "built", "recover"}
  /\ crashes < limit.crashes
  /\ crashes' = crashes + 1
  /\ boot' = "down"
  /\ mem' = NoMem
  /\ ops' = [o \in Ops |-> "none"]
  /\ ticket' = NoTicket
  /\ handle' = NoHandle
  /\ reading' = FALSE
  /\ seen' = Both(Missing)
  /\ work' = NoWork
  /\ owner' = NoOwner
  /\ control' = "idle"
  /\ runtime' = [content |-> None, rev |-> 0]
  /\ UNCHANGED <<disk, fresh, edits, faults, reads, history>>

Init ==
  /\ file = [t \in Targets |-> IF t = "source" THEN Stamp(1, Initial) ELSE Missing]
  /\ side = {} /\ journal = NoJournal
  /\ boot = "down"
  /\ mem = NoMem
  /\ ops = [o \in Ops |-> "none"]
  /\ ticket = NoTicket /\ handle = NoHandle
  /\ reading = FALSE /\ seen = Both(Missing)
  /\ work = NoWork /\ owner = NoOwner
  /\ control = "idle"
  /\ runtime = [content |-> None, rev |-> 0]
  /\ fresh = 2
  /\ edits = 0 /\ crashes = 0 /\ faults = 0 /\ reads = 0
  /\ allowed = {} /\ decided = None
  /\ limit \in Limits

Command ==
  \/ BeginRead \/ EndRead \/ WatcherRead \/ RecordObservation \/ ExpireTicket
  \/ \E c \in Contents, d \in BOOLEAN : c # mem.content /\ ValidateEdit(c, d)
  \/ \E o \in limit.ops : BeginApply(o)
  \/ \E o \in limit.ops, d \in BOOLEAN : RestoreFiles(o, d) \/ RetryPersistence(o, d)

Routine ==
  \/ StageTarget("source", "stageDerived") \/ StageTarget("derived", "journal")
  \/ CreateJournal \/ WriteJournal \/ ReconfirmDecision \/ ReconfirmReplace
  \/ Decide \/ ReplaceJournal \/ CleanupRetired
  \/ CompareTarget("source", "commitDerived") \/ CompareTarget("derived", "finish")
  \/ RequireTarget("source", "commitDerived") \/ RequireTarget("derived", "finish")
  \/ (\E t \in Targets : RenameTarget(t))
  \/ Finish \/ DiscardStages \/ DiscardJournal

RunApply ==
  \/ PrepareRuntimeFails \/ BeginRuntimeApply \/ Submit \/ Learn \/ PersistApplied
  \/ Reject \/ DropPermit

Start == Recover \/ Load \/ WithActiveSource

Environment ==
  \/ Crash
  \/ \E t \in Targets, c \in Contents \cup {Bad, None} : ExternalEdit(t, c)

Next ==
  /\ Command \/ Routine \/ RunApply \/ Serve \/ Start \/ Environment
  /\ UNCHANGED limit

Spec == Init /\ [][Next]_<<vars, limit>>

\* Blocking tasks, the run_apply task and the service loop run until they are done;
\* clients, the editor, crashes and faults owe nobody a step.
Fairness ==
  /\ WF_vars(Routine) /\ WF_vars(RunApply) /\ WF_vars(Serve)
  /\ WF_vars(Start) /\ WF_vars(EndRead)

FairSpec == Spec /\ Fairness

-------------------------------------------------------------------------------
(* Properties.                                                                    *)

Phases == {"none", "preparing", "applying", "persisting", "appliedUnpersisted",
           "appliedSynced", "rejected", "compensationFailed", "unknown"}
Stamps == [id : Nat, content : Contents \cup {Bad, None}]
Journals == [phase : {"none", "torn", "prepared", "decided"}, nonce : Nat,
             content : Contents \cup {None}, old : [Targets -> Stamps],
             retired : SUBSET (Nat \X (Targets \cup {"decision"}))]
Tickets == [rev : Nat, files : [Targets -> Stamps], content : Contents \cup {None},
            discard : BOOLEAN]

\* Type correctness of the store, the disk and the tasks around them.
TypeOK ==
  /\ file \in [Targets -> Stamps]
  /\ side \subseteq Nat \X (Targets \cup {"decision"})
  /\ journal \in Journals
  /\ boot \in {"down", "recover", "load", "built", "up", "refused"}
  /\ mem \in [content : Contents \cup {None}, rev : Nat, runtime : Nat, persisted : Nat,
              base : [Targets -> Stamps], obs : [Targets -> Stamps],
              gate : Ops \cup {None}]
  /\ ops \in [Ops -> Phases]
  /\ ticket \in Tickets
  /\ handle \in [journal : Journals, decision : BOOLEAN]
  /\ reading \in BOOLEAN
  /\ seen \in [Targets -> Stamps]
  /\ work.pc \in {"idle", "stageSource", "stageDerived", "journal", "writeJournal",
                 "reconfirm", "decide", "replaceJournal", "cleanup", "commitSource",
                 "renameSource", "requireSource", "commitDerived", "renameDerived",
                 "requireDerived", "finish", "discard", "discardJournal"}
  /\ work.kind \in {"none", "apply", "restore", "retry", "persist", "reject", "recover"}
  /\ owner.pc \in {"none", "preparing", "staging", "staged", "waiting", "persist",
                  "rejecting"}
  /\ owner.ticket \in Tickets
  /\ control \in {"idle", "queued", "applied", "failed", "uncompensated", "lost"}
  /\ runtime \in [content : Contents \cup {None}, rev : Nat]
  /\ {fresh, edits, crashes, faults, reads} \subseteq Nat
  /\ allowed \subseteq Targets \X Stamps
  /\ decided \in Contents \cup {None}

\* When no operation holds the gate, nothing is half done: no journal on disk, no
\* transaction handle, everything persisted, and the DNS runtime serves exactly the
\* active source (the gate rule of check_expected, reject_with and persist_current).
OpenGateIsClean ==
  Running /\ mem.gate = None /\ Idle =>
    /\ journal = NoJournal
    /\ handle = NoHandle
    /\ mem.persisted = mem.rev
    /\ runtime = [content |-> mem.content, rev |-> mem.runtime]

\* COMMIT_DECIDED is written only for the text that is the active source, that is,
\* after the service reported the switch or for a restore of the active text.
DecisionIsActive ==
  Running /\ journal.phase = "decided" => journal.content = mem.content

\* A managed file is replaced by the process only under COMMIT_DECIDED; the loader
\* alone creates a missing copy.  PREPARED never changes a managed file.
FilesFollowDecision ==
  [][\A t \in Targets :
       file'[t] # file[t] /\ edits' = edits =>
         \/ journal.phase = "decided" /\ file'[t] = Staged(journal)
         \/ boot = "load" /\ file[t] = Missing]_vars

\* The process compares a file with what a command was allowed to replace - the stamp it
\* was persisted with, or one whose loss a client confirmed for exactly that observation -
\* and then renames over it.  What it overwrites was allowed, or was written by an editor
\* after that last comparison (persistence.rs:333: there is no compare-and-swap); where no
\* file was found nothing is overwritten at all.  It holds across retries, crashes and
\* recovery.
NoUnconfirmedOverwrite ==
  [][\A t \in Targets :
       file'[t] # file[t] /\ edits' = edits /\ file[t] # Missing =>
         \/ <<t, file[t]>> \in allowed
         \/ /\ file[t].id >= work.since
            /\ <<t, journal.old[t]>> \in allowed /\ journal.old[t] # Missing]_vars

\* Both together: what the process writes over is decided and was allowed.
OverwritesAreDecided == FilesFollowDecision /\ NoUnconfirmedOverwrite

\* A decided text that nobody edited afterwards is the text of every later process,
\* wherever the crash fell; a discarded PREPARED never comes back.
DecisionSurvives ==
  Running /\ decided # None /\ mem.persisted = mem.rev => mem.content = decided

\* An accepted edit leaves its preparing and applying phases: run_apply never waits
\* for a lock or a reply for ever.
OperationMovesOn ==
  \A o \in Ops : ops[o] \in {"preparing", "applying"} ~> ops[o] \notin {"preparing", "applying"}

\* A start-up ends, in service or with a refusal.
StartEnds == boot \in {"down", "recover", "load", "built"} ~> boot \in {"up", "refused"}

\* docs/implementation/configuration.md:79: when both targets are known old or new
\* files, COMMIT_DECIDED is completed at start-up.
DecisionIsCompleted ==
  boot = "refused" /\ journal.phase = "decided" =>
    \E t \in Targets : file[t] \notin {journal.old[t], Staged(journal)}

\* active.rs:621: after a failure the gate is kept and a retry writes the files.
\* An applied operation nobody works on any more can therefore be retried.
AppliedIsRetryable ==
  Running /\ Idle /\ owner.pc = "none" => \A o \in Ops : ops[o] # "persisting"

===============================================================================
