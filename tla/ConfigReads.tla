------------------------------ MODULE ConfigReads ------------------------------
(***************************************************************************)
(* What the management API shows of the configuration while it changes     *)
(* (management/config_query.rs, config_query/external.rs,                  *)
(* config_mutation.rs, config/store/active.rs and active/external.rs).     *)
(*                                                                         *)
(* The store's active document and the coordinator's runtime are two       *)
(* pieces of state that an apply switches one after the other; a module    *)
(* page needs both, and the comparison with an external edit needs the     *)
(* active document and two files.  Neither reader holds a lock that covers *)
(* all it reads.                                                           *)
(*                                                                         *)
(* A generation stands for a document; a file holds a generation the       *)
(* service wrote or an edit of another program.                            *)
(***************************************************************************)
EXTENDS Integers

CONSTANTS
    MaxGeneration,  \* bound on applied documents
    MaxFileEdits    \* bound on edits by other programs

VARIABLES
    store,   \* the ActiveState of ConfigStore
    served,  \* the runtime of the coordinator: [rev, gen]
    files,   \* the two managed files
    page,    \* the module read in progress
    diff     \* the comparison in progress; it holds the transaction lock

readVars == <<store, served, files, page, diff>>

Targets == {"source", "derived"}

Written(g) == [by |-> "service", n |-> g]

Edited(n) == [by |-> "editor", n |-> n]

Both(content) == [t \in Targets |-> content]

Phases == {"none", "preparing", "applying", "persisting", "unpersisted", "blocked", "unknown"}

-----------------------------------------------------------------------------
ReadsInit ==
    /\ store = [gen |-> 0, rev |-> 0, op |-> "none", persisted |-> 0,
                observed |-> Both(Written(0)), known |-> Both(Written(0)),
                candidate |-> Both(Written(0))]
    /\ served = [rev |-> 0, gen |-> 0]
    /\ files = Both(Written(0))
    /\ page = [stage |-> "idle"]
    /\ diff = [stage |-> "idle"]

(* self.transaction.try_lock *)
TransactionFree == diff.stage \in {"idle", "answered"}

(* start_apply, begin_apply: the files are looked at again, and the gate opens
   for one operation *)
StartApply ==
    /\ TransactionFree
    /\ store.op = "none" /\ store.gen < MaxGeneration
    /\ store' = [store EXCEPT !.op = "preparing", !.observed = files]
    /\ UNCHANGED <<served, files, page, diff>>

(* begin_runtime_apply: only over the files that were confirmed *)
BeginRuntimeApply ==
    /\ TransactionFree
    /\ store.op = "preparing"
    /\ files = store.observed
    /\ store' = [store EXCEPT !.op = "applying", !.candidate = Both(Written(store.gen + 1))]
    /\ UNCHANGED <<served, files, page, diff>>

Switched == served.rev # store.rev

(* reject_with: the candidate could not be prepared, met a conflict or a busy
   store, or the service refused it; without compensation the gate stays shut *)
Reject ==
    /\ store.op \in {"preparing", "applying"} /\ ~Switched
    /\ \E op \in {"none", "blocked"} : store' = [store EXCEPT !.op = op]
    /\ UNCHANGED <<served, files, page, diff>>

(* The service switches the runtime (try_apply) *)
SwitchRuntime ==
    /\ store.op = "applying" /\ ~Switched
    /\ served' = [rev |-> served.rev + 1, gen |-> store.gen + 1]
    /\ UNCHANGED <<store, files, page, diff>>

(* applied: the store follows, under its own lock and not under the transaction's *)
Applied ==
    /\ store.op = "applying" /\ Switched
    /\ store' = [store EXCEPT !.gen = served.gen, !.rev = served.rev, !.op = "persisting"]
    /\ UNCHANGED <<served, files, page, diff>>

(* OutcomeUnknown: the permit is dropped, whether the service switched or not *)
LoseOutcome ==
    /\ store.op = "applying"
    /\ store' = [store EXCEPT !.op = "unknown"]
    /\ UNCHANGED <<served, files, page, diff>>

(* persist_current, restore_files: both locks are held, so readers see only
   the end.  Some of the files may have been replaced when it fails. *)
Persist ==
    /\ TransactionFree
    /\ \/ store.op \in {"persisting", "unpersisted"}
       \/ store.op = "none" /\ files # Both(Written(store.gen))
    /\ \E done \in SUBSET Targets :
        /\ files' = [t \in Targets |-> IF t \in done THEN Written(store.gen) ELSE files[t]]
        /\ \/ store' = [store EXCEPT !.op = "unpersisted", !.observed = files',
                                     !.candidate = Both(Written(store.gen))]
           \/ /\ done = Targets
              /\ store' = [store EXCEPT !.op = "none", !.observed = files', !.persisted = store.gen,
                                        !.known = Both(Written(store.gen)),
                                        !.candidate = Both(Written(store.gen))]
    /\ UNCHANGED <<served, page, diff>>

(* Another program replaces a file *)
EditFile(t) ==
    /\ \E n \in 1..MaxFileEdits :
        /\ \A u \in Targets : files[u].by = "editor" => n > files[u].n
        /\ files' = [files EXCEPT ![t] = Edited(n)]
    /\ UNCHANGED <<store, served, page, diff>>

(* observe_files *)
ObserveFiles ==
    /\ TransactionFree
    /\ store' = [store EXCEPT !.observed = files]
    /\ UNCHANGED <<served, files, page, diff>>

-----------------------------------------------------------------------------
(* config_query.rs *)

(* operation_snapshot and configuration_state_from_status *)
Synchronization(status) ==
    CASE status.op \in {"preparing", "applying"} -> "applying"
      [] status.op = "persisting" -> "persisting"
      [] status.op = "unpersisted" -> "applied_unpersisted"
      [] status.op = "none" /\ status.persisted = status.gen -> "synced"
      [] OTHER -> "blocked"

(* configuration_status: what the service wrote itself is known content, also
   before the transaction is complete *)
KnownFile(status, t) ==
    IF status.op \in {"applying", "persisting", "unpersisted"} /\ status.observed[t] = status.candidate[t]
    THEN status.candidate[t] ELSE status.known[t]

(* file_condition *)
FileCondition(status, t) ==
    IF status.observed[t] = KnownFile(status, t) THEN "unchanged" ELSE "changed"

(* configuration_status copies the active state ... *)
ReadStatus ==
    /\ page.stage \in {"idle", "answered", "refused"}
    /\ page' = [stage |-> "status", status |-> store]
    /\ UNCHANGED <<store, served, files, diff>>

(* ... and a page needs the runtime of the same revision *)
SameRuntime(status, runtime) == status.rev = runtime.rev

(* configuration_module, system_configuration *)
LoadRuntime ==
    /\ page.stage = "status"
    /\ page' = IF SameRuntime(page.status, served)
               THEN [stage |-> "answered", values |-> page.status.gen, effective |-> served.gen,
                     sync |-> Synchronization(page.status)]
               ELSE [stage |-> "refused", values |-> page.status.gen, effective |-> served.gen,
                     sync |-> Synchronization(page.status)]
    /\ UNCHANGED <<store, served, files, diff>>

-----------------------------------------------------------------------------
(* active/external.rs *)

(* capture_external_source: the active document ... *)
CaptureActive ==
    /\ TransactionFree
    /\ diff' = [stage |-> "active", active |-> store.gen,
                seen |-> Both(Written(0)), again |-> Both(Written(0))]
    /\ UNCHANGED <<store, served, files, page>>

(* ... the source and then the derived file, and both again *)
ReadFile(from, field, t, to) ==
    /\ diff.stage = from
    /\ diff' = [diff EXCEPT !.stage = to, ![field][t] = files[t]]
    /\ UNCHANGED <<store, served, files, page>>

StillActive(d, s) == d.active = s.gen

(* finish_external_source: refused unless the active document and both files
   are still the ones that were captured *)
FinishDiff ==
    /\ diff.stage = "reread"
    /\ IF ~StillActive(diff, store)
       THEN diff' = [stage |-> "idle"] /\ UNCHANGED store
       ELSE /\ store' = [store EXCEPT !.observed = diff.again]
            /\ diff' = IF diff.again # diff.seen THEN [stage |-> "idle"]
                       ELSE [stage |-> "answered", active |-> diff.active, external |-> diff.seen["source"],
                             expected |-> [active |-> store.gen, files |-> diff.again]]
    /\ UNCHANGED <<served, files, page>>

ReadsNext ==
    \/ StartApply \/ BeginRuntimeApply \/ Reject \/ SwitchRuntime \/ Applied \/ LoseOutcome \/ Persist
    \/ \E t \in Targets : EditFile(t)
    \/ ObserveFiles \/ ReadStatus \/ LoadRuntime \/ CaptureActive
    \/ ReadFile("active", "seen", "source", "source")
    \/ ReadFile("source", "seen", "derived", "seen")
    \/ ReadFile("seen", "again", "source", "resource")
    \/ ReadFile("resource", "again", "derived", "reread")
    \/ FinishDiff

ReadsSpec == ReadsInit /\ [][ReadsNext]_readVars

-----------------------------------------------------------------------------
(* The store's phase is one of its phases and the files hold known contents. *)
ReadsTypeOK ==
    /\ store.op \in Phases /\ store.gen \in 0..MaxGeneration
    /\ served.rev \in 0..MaxGeneration /\ served.gen \in 0..MaxGeneration
    /\ \A t \in Targets : files[t].by \in {"service", "editor"}

(* A page shows the source and the effective values of one document, although
   it reads the store and the coordinator one after the other, and one that
   says "synced" or "unpersisted" is never refused for the revision of a
   runtime that no operation has switched (configuration_module,
   system_configuration, ApplyPermit::applied). *)
PageIsOneDocument ==
    /\ page.stage = "answered" => page.values = page.effective
    /\ Switched => store.op \in {"applying", "unknown"}

(* The revisions an answered comparison tells the client to expect are those of
   exactly what was compared: an apply that is accepted under them replaces the
   document and the file content the client has seen (finish_external_source). *)
ComparedIsExpected ==
    diff.stage = "answered" =>
        /\ diff.active = diff.expected.active
        /\ diff.external = diff.expected.files["source"]

(* Seen at the time, no content the service wrote itself is called an external
   change, not even between the two files of an unfinished transaction
   (configuration_status: known_files). *)
OwnWritesAreKnown ==
    \A t \in Targets :
        (store.observed = files /\ FileCondition(store, t) = "changed") =>
            files[t].by = "editor"
=============================================================================
