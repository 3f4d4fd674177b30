------------------------------ MODULE SetupCommit ------------------------------
(* The creation of the first WebUI user: post_setup (management/router.rs), the    *)
(* two-file commit of the candidate (config/store.rs, config/store/active.rs) and  *)
(* its recovery at the next start.  This commit has a journal of its own, older    *)
(* than the one of ordinary edits: it records fingerprints, not file identities,   *)
(* and whatever it records is completed at start-up.                               *)
EXTENDS Naturals

CONSTANTS
  Bases,        \* configuration texts, users left out
  Initial,      \* the text both files hold at first
  Users,        \* names a client asks for; a request is known by its name
  None,
  MaxEdits,     \* bound: external edits of a managed file
  MaxCrashes,   \* bound: kills of the process
  MaxFaults     \* bound: failing file operations

VARIABLES
  file,      \* the managed files, target -> text
  stages,    \* staged candidates on disk, <<attempt, target>>
  journal,   \* TransactionJournal on disk
  lock,      \* the lock file: "free", "held", "left" by a dead process, "stale"
  boot,      \* "down", "recover", "load", "up", "refused"
  active,    \* ActiveSnapshot.source
  auth,      \* the user the WebUI lets in
  req,       \* request of a user -> step of post_setup
  commit,    \* the commit under way, which holds the transaction mutex
  attempt,   \* the next random stage name
  edits, crashes, faults,
  granted    \* history: the user whose setup succeeded

vars == <<file, stages, journal, lock, boot, active, auth, req, commit, attempt,
          edits, crashes, faults, granted>>
budget == <<edits, crashes, faults>>

Targets == {"source", "derived"}
Both(x) == [t \in Targets |-> x]
Texts == [base : Bases, user : Users \cup {None}]
NoText == [base |-> None, user |-> None]
NoJournal == [n |-> 0, old |-> NoText, new |-> NoText]
NoCommit == [pc |-> "idle", user |-> None, n |-> 0, old |-> NoText, new |-> NoText]

Running == boot = "up"

\* Mutant: another field is written.
Candidate_WrongField(text, u) == [text EXCEPT !.base = u]

\* create_initial_webui_user: only users is changed, and only if there is none yet.
Candidate(text, u) == [text EXCEPT !.user = u]

\* post_setup reads the authentication state, then hashes the password elsewhere.
RequestSetup(u) ==
  /\ Running /\ req[u] = "new"
  /\ req' = [req EXCEPT ![u] = IF auth = None THEN "hashed" ELSE "failed"]
  /\ UNCHANGED <<file, stages, journal, lock, boot, active, auth, commit, attempt,
                 budget, granted>>

\* create_initial_user_v2 up to commit_candidate: both locks are only tried, the
\* source must be the active text and must have no user.
BeginCommit(u) ==
  LET accepted == /\ commit = NoCommit
                  /\ lock \in {"free", "stale"}
                  /\ file["source"] = active
                  /\ active.user = None
  IN
  /\ Running /\ req[u] = "hashed"
  /\ \/ /\ accepted
        /\ commit' = [pc |-> "stageSource", user |-> u, n |-> attempt,
                      old |-> active, new |-> Candidate(active, u)]
        /\ attempt' = attempt + 1
        /\ lock' = "held"
        /\ req' = [req EXCEPT ![u] = "committing"]
     \/ /\ ~accepted
        /\ lock' = IF commit = NoCommit /\ lock = "stale" THEN "free" ELSE lock
        /\ req' = [req EXCEPT ![u] = "failed"]
        /\ UNCHANGED <<commit, attempt>>
  /\ UNCHANGED <<file, stages, journal, boot, active, auth, budget, granted>>

\* An error of commit_candidate: whatever is on disk stays, both locks are dropped.
Abort ==
  /\ commit' = NoCommit
  /\ lock' = "free"
  /\ req' = [req EXCEPT ![commit.user] = "failed"]

Continue(pc) == commit' = [commit EXCEPT !.pc = pc] /\ UNCHANGED <<lock, req>>
Fault == faults < MaxFaults /\ faults' = faults + 1 /\ Abort
CommitFrame == UNCHANGED <<boot, active, auth, attempt, edits, crashes, granted>>

\* write_stage.
WriteStage(t, next) ==
  /\ commit.pc = (IF t = "source" THEN "stageSource" ELSE "stageDerived")
  /\ \/ stages' = stages \cup {<<commit.n, t>>} /\ Continue(next) /\ UNCHANGED faults
     \/ Fault /\ UNCHANGED stages
  /\ CommitFrame
  /\ UNCHANGED <<file, journal>>

\* write_new_file_atomically: the journal appears in one rename.
WriteJournal ==
  /\ commit.pc = "journal"
  /\ \/ /\ journal' = [n |-> commit.n, old |-> commit.old, new |-> commit.new]
        /\ Continue("replaceSource")
        /\ UNCHANGED faults
     \/ Fault /\ UNCHANGED journal
  /\ CommitFrame
  /\ UNCHANGED <<file, stages>>

\* replace_file, with no second look at the target.
ReplaceFile(t, next) ==
  /\ commit.pc = (IF t = "source" THEN "replaceSource" ELSE "replaceDerived")
  /\ \/ /\ file' = [file EXCEPT ![t] = commit.new]
        /\ stages' = stages \ {<<commit.n, t>>}
        /\ Continue(next)
        /\ UNCHANGED faults
     \/ Fault /\ UNCHANGED <<file, stages>>
  /\ CommitFrame
  /\ UNCHANGED journal

\* The last step of commit_candidate.
RemoveJournal ==
  /\ commit.pc = "removeJournal"
  /\ \/ journal' = NoJournal /\ Continue("observe") /\ UNCHANGED faults
     \/ Fault /\ UNCHANGED journal
  /\ CommitFrame
  /\ UNCHANGED <<file, stages>>

\* The end of create_initial_user_v2: both files are read again, and the candidate
\* becomes the active source.
Observe ==
  /\ commit.pc = "observe"
  /\ IF file = Both(commit.new)
       THEN /\ active' = commit.new
            /\ req' = [req EXCEPT ![commit.user] = "committed"]
       ELSE /\ req' = [req EXCEPT ![commit.user] = "failed"]
            /\ UNCHANGED active
  /\ commit' = NoCommit
  /\ lock' = "free"
  /\ UNCHANGED <<file, stages, journal, boot, auth, attempt, budget, granted>>

\* The rest of post_setup, after the store has released its locks.
PublishAuth(u) ==
  /\ Running /\ req[u] = "committed"
  /\ auth' = u /\ granted' = u
  /\ req' = [req EXCEPT ![u] = "done"]
  /\ UNCHANGED <<file, stages, journal, lock, boot, active, commit, attempt, budget>>

\* STALE_LOCK_AGE has passed since a process died with the lock.
LockExpires ==
  /\ lock = "left"
  /\ lock' = "stale"
  /\ UNCHANGED <<file, stages, journal, boot, active, auth, req, commit, attempt, budget, granted>>

BootFrame == UNCHANGED <<active, auth, req, commit, attempt, budget, granted>>

\* recover_pending_transaction: no journal, nothing to do.
NoRecovery ==
  /\ boot = "down" /\ journal = NoJournal
  /\ boot' = "load"
  /\ BootFrame
  /\ UNCHANGED <<file, stages, journal, lock>>

\* Mutant: the stage is asked for even when the target is already new.
RecoverTarget_NeedsStage(t, from, next) ==
  /\ boot = from /\ journal # NoJournal
  /\ IF file[t] \in {journal.old, journal.new} /\ <<journal.n, t>> \in stages
       THEN /\ file' = [file EXCEPT ![t] = journal.new]
            /\ stages' = stages \ {<<journal.n, t>>}
            /\ boot' = next
       ELSE boot' = "refused" /\ UNCHANGED <<file, stages>>
  /\ BootFrame
  /\ UNCHANGED <<journal, lock>>

\* recover_target: a target is new already, or is completed from its stage.
RecoverTarget(t, from, next) ==
  /\ boot = from /\ journal # NoJournal
  /\ \/ /\ file[t] = journal.new
        /\ boot' = next
        /\ UNCHANGED <<file, stages>>
     \/ /\ file[t] = journal.old /\ <<journal.n, t>> \in stages
        /\ file' = [file EXCEPT ![t] = journal.new]
        /\ stages' = stages \ {<<journal.n, t>>}
        /\ boot' = next
     \/ /\ file[t] # journal.new
        /\ file[t] # journal.old \/ <<journal.n, t>> \notin stages
        /\ boot' = "refused"
        /\ UNCHANGED <<file, stages>>
  /\ BootFrame
  /\ UNCHANGED <<journal, lock>>

\* Both targets are new: stages, journal and lock file go, in this order.
RecoverCleanup ==
  \/ /\ boot = "cleanup"
     /\ stages' = {s \in stages : s[1] # journal.n}
     /\ boot' = "cleanupJournal"
     /\ BootFrame
     /\ UNCHANGED <<file, journal, lock>>
  \/ /\ boot = "cleanupJournal"
     /\ journal' = NoJournal
     /\ boot' = "cleanupLock"
     /\ BootFrame
     /\ UNCHANGED <<file, stages, lock>>
  \/ /\ boot = "cleanupLock"
     /\ lock' = "free"
     /\ boot' = "load"
     /\ BootFrame
     /\ UNCHANGED <<file, stages, journal>>

\* load_from_path accepts a derived copy that equals the source and nothing else.
Load ==
  /\ boot = "load"
  /\ IF file["derived"] = file["source"]
       THEN /\ boot' = "up"
            /\ active' = file["source"]
            /\ auth' = file["source"].user
       ELSE boot' = "refused" /\ UNCHANGED <<active, auth>>
  /\ UNCHANGED <<file, stages, journal, lock, req, commit, attempt, budget,
                 granted>>

ExternalEdit(t, b) ==
  /\ edits < MaxEdits
  /\ b # file[t].base
  /\ file' = [file EXCEPT ![t].base = b]
  /\ edits' = edits + 1
  /\ boot' = IF boot = "refused" THEN "down" ELSE boot
  /\ UNCHANGED <<stages, journal, lock, active, auth, req, commit, attempt, crashes,
                 faults, granted>>

\* Only the disk survives; clients send their request again to the new process.
Crash ==
  /\ boot \notin {"down", "refused"}
  /\ crashes < MaxCrashes
  /\ crashes' = crashes + 1
  /\ boot' = "down"
  /\ lock' = IF lock = "held" THEN "left" ELSE lock
  /\ active' = NoText /\ auth' = None
  /\ req' = [u \in Users |-> "new"]
  /\ commit' = NoCommit
  /\ UNCHANGED <<file, stages, journal, attempt, edits, faults, granted>>

Init ==
  /\ file = Both([base |-> Initial, user |-> None])
  /\ stages = {} /\ journal = NoJournal /\ lock = "free"
  /\ boot = "down" /\ active = NoText /\ auth = None
  /\ req = [u \in Users |-> "new"]
  /\ commit = NoCommit /\ attempt = 1
  /\ edits = 0 /\ crashes = 0 /\ faults = 0
  /\ granted = None

Setup ==
  \/ \E u \in Users : RequestSetup(u) \/ BeginCommit(u) \/ PublishAuth(u)
  \/ WriteStage("source", "stageDerived") \/ WriteStage("derived", "journal")
  \/ WriteJournal \/ RemoveJournal \/ Observe
  \/ ReplaceFile("source", "replaceDerived") \/ ReplaceFile("derived", "removeJournal")

Start ==
  \/ NoRecovery \/ RecoverTarget("source", "down", "recover")
  \/ RecoverTarget("derived", "recover", "cleanup") \/ RecoverCleanup \/ Load

Environment ==
  \/ LockExpires \/ Crash
  \/ \E t \in Targets, b \in Bases : ExternalEdit(t, b)

Next == Setup \/ Start \/ Environment

Spec == Init /\ [][Next]_vars

-------------------------------------------------------------------------------
(* Properties.                                                                    *)

\* Type correctness of the disk, the process and the requests.
TypeOK ==
  /\ file \in [Targets -> Texts]
  /\ stages \subseteq Nat \X Targets
  /\ journal.n \in Nat /\ {journal.old, journal.new} \subseteq Texts \cup {NoText}
  /\ lock \in {"free", "held", "left", "stale"}
  /\ boot \in {"down", "recover", "cleanup", "cleanupJournal", "cleanupLock", "load",
               "up", "refused"}
  /\ active \in Texts \cup {NoText}
  /\ {auth, granted} \subseteq Users \cup {None}
  /\ req \in [Users -> {"new", "hashed", "committing", "committed", "done", "failed"}]
  /\ commit.pc \in {"idle", "stageSource", "stageDerived", "journal", "replaceSource",
                   "replaceDerived", "removeJournal", "observe"}
  /\ {attempt, edits, crashes, faults} \subseteq Nat

\* Wherever the process dies or a file operation fails, in the commit or in an
\* earlier recovery, the next start succeeds if nobody edited the files
\* (commit_candidate and recover_pending_transaction agree on every partial state).
RefusedOnlyAfterEdit == boot = "refused" => edits > 0

\* A user who was let in stays the user of every later process.
SetupIsDurable == Running /\ granted # None => auth = granted

\* Setup happens once: with requests racing, failing and repeated after a crash, no
\* second user is ever let in.
LetsOneIn == granted # None => granted' = granted
OneSetup == [][LetsOneIn]_vars

===============================================================================
