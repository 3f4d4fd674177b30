----------------------------- MODULE ConfigWatcher -----------------------------
(* ConfigFileWatcher (app/config_watcher.rs), which reads the two managed files in *)
(* a blocking task and reports a change to ConfigStore after two equal reads, and  *)
(* the observation ConfigStore keeps.  A version stands for a file's identity and  *)
(* content together; an edit always brings a new one.                              *)
EXTENDS Naturals

CONSTANTS
  MaxEdits,   \* bound: edits of either file
  MaxBusy,    \* bound: how often the store is locked by an operation of its own
  MaxPanics   \* bound: read tasks that die

VARIABLES
  disk,       \* the two files: versions of source and derived
  reading,    \* the read task: its state and what it has read so far
  observed,   \* the last observation reported
  candidate,  \* an observation seen once
  report,     \* an observation poll_change has returned and nobody recorded yet
  stored,     \* ActiveSnapshot.observation
  busy,       \* an operation holds the active lock
  edits, locks, panics,
  past        \* history: every state the pair of files has had

vars == <<disk, reading, observed, candidate, report, stored, busy, edits, locks, panics,
          past>>

NoFiles == [source |-> 0, derived |-> 0]
NoRead == [state |-> "none", value |-> NoFiles]
Started == [state |-> "started", value |-> NoFiles]

\* The task reads the source first and the derived file later.
ReadSource ==
  /\ reading.state = "started"
  /\ reading' = [state |-> "half", value |-> [NoFiles EXCEPT !.source = disk.source]]
  /\ UNCHANGED <<disk, observed, candidate, report, stored, busy, edits, locks, panics, past>>

ReadDerived ==
  /\ reading.state = "half"
  /\ reading' = [state |-> "done", value |-> [reading.value EXCEPT !.derived = disk.derived]]
  /\ UNCHANGED <<disk, observed, candidate, report, stored, busy, edits, locks, panics, past>>

ReadPanics ==
  /\ reading.state = "half" /\ panics < MaxPanics
  /\ reading' = [state |-> "failed", value |-> NoFiles]
  /\ panics' = panics + 1
  /\ UNCHANGED <<disk, observed, candidate, report, stored, busy, edits, locks, past>>

\* accept: a change is reported when it has been read twice in a row.
Accept(current) ==
  \/ /\ observed = current
     /\ candidate' = NoFiles
     /\ UNCHANGED <<observed, report>>
  \/ /\ observed # current /\ candidate # current
     /\ candidate' = current
     /\ UNCHANGED <<observed, report>>
  \/ /\ observed # current /\ candidate = current
     /\ candidate' = NoFiles
     /\ observed' = current
     /\ report' = current

\* poll_change: a finished read is taken and the next one started at once; a read
\* under way is left alone; a dead one is forgotten.
PollChange ==
  /\ report = NoFiles
  /\ \/ /\ reading.state = "none"
        /\ reading' = Started
        /\ UNCHANGED <<observed, candidate, report>>
     \/ /\ reading.state = "done"
        /\ reading' = Started
        /\ Accept(reading.value)
     \/ /\ reading.state = "failed"
        /\ reading' = NoRead
        /\ candidate' = NoFiles
        /\ UNCHANGED <<observed, report>>
  /\ UNCHANGED <<disk, stored, busy, edits, locks, panics, past>>

\* Mutant: a report the busy store refused is dropped.
ReportFiles_Drops ==
  /\ report # NoFiles
  /\ stored' = IF busy THEN stored ELSE report
  /\ report' = NoFiles
  /\ UNCHANGED <<disk, reading, observed, candidate, busy, edits, locks, panics, past>>

\* report_config_files: record_file_observation only tries the lock, and
\* retry_report keeps a refused report for the next round.
ReportFiles ==
  /\ report # NoFiles
  /\ \/ ~busy /\ stored' = report /\ UNCHANGED <<observed, candidate>>
     \/ busy /\ observed' = NoFiles /\ candidate' = report /\ UNCHANGED stored
  /\ report' = NoFiles
  /\ UNCHANGED <<disk, reading, busy, edits, locks, panics, past>>

\* An operation of the store, which reads both files for itself when it starts.
LockStore ==
  /\ ~busy /\ locks < MaxBusy
  /\ busy' = TRUE
  /\ locks' = locks + 1
  /\ stored' = disk
  /\ UNCHANGED <<disk, reading, observed, candidate, report, edits, panics, past>>

UnlockStore ==
  /\ busy
  /\ busy' = FALSE
  /\ UNCHANGED <<disk, reading, observed, candidate, report, stored, edits, locks, panics, past>>

Edit(t) ==
  /\ edits < MaxEdits
  /\ disk' = [disk EXCEPT ![t] = @ + 1]
  /\ edits' = edits + 1
  /\ past' = past \cup {disk'}
  /\ UNCHANGED <<reading, observed, candidate, report, stored, busy, locks, panics>>

Init ==
  /\ disk = [source |-> 1, derived |-> 1]
  /\ reading = NoRead
  /\ observed = NoFiles /\ candidate = NoFiles /\ report = NoFiles
  /\ stored = disk /\ busy = FALSE
  /\ edits = 0 /\ locks = 0 /\ panics = 0
  /\ past = {disk}

Watch == ReadSource \/ ReadDerived \/ PollChange \/ ReportFiles
Next ==
  \/ Watch \/ ReadPanics \/ LockStore \/ UnlockStore
  \/ \E t \in {"source", "derived"} : Edit(t)

\* The service loop polls for ever, the read task and the store's operations end.
Spec ==
  /\ Init /\ [][Next]_vars
  /\ WF_vars(ReadSource) /\ WF_vars(ReadDerived)
  /\ WF_vars(PollChange) /\ WF_vars(ReportFiles) /\ WF_vars(UnlockStore)

-------------------------------------------------------------------------------
(* Properties.                                                                    *)

\* Type correctness of the watcher and of what it has read.
TypeOK ==
  LET Observation == [source : Nat, derived : Nat] IN
  /\ {disk, observed, candidate, report, stored, reading.value} \subseteq Observation
  /\ reading.state \in {"none", "started", "half", "done", "failed"}
  /\ reading.state \in {"none", "started", "failed"} => reading.value = NoFiles
  /\ busy \in BOOLEAN
  /\ {edits, locks, panics} \subseteq Nat
  /\ past \subseteq Observation

\* What is reported was the state of both files at one moment, although each read
\* looks at the files one after the other while an editor replaces them (accept).
ReportsAreReal == report # NoFiles => report \in past

\* Once the editor stops, the store's observation becomes and stays what is on disk,
\* although reports may be older than what the store read itself, may be refused
\* by a busy store, and read tasks may die (poll_change, retry_report).
ObservationConverges == <>[](stored = disk)

===============================================================================
