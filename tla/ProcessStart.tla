---------------------------- MODULE ProcessStart ----------------------------
(***************************************************************************)
(* The life of a fluxdns process from its command line to its exit: the    *)
(* fixed order of `run_command`, the work-directory copy of the            *)
(* configuration that the loader publishes, the database layout that the   *)
(* first start creates, the management listener, and the two internal      *)
(* reload entry points.  Several processes may be started on the same work *)
(* directory, each may fail at any step, and each may be killed.           *)
(***************************************************************************)
EXTENDS Naturals, Sequences, FiniteSets

CONSTANTS
  Processes,        \* the processes an operator starts
  Confs,            \* what a configuration file says, as far as a start sees it
  Disks,            \* the states of the work directory a start may find
  Arguments,        \* the command lines tried
  None,             \* no value
  MaxIncidents,     \* bound: steps that fail for an outside reason, and kills
  MaxReloads        \* bound: reload candidates prepared

VARIABLES
  conf,             \* process -> what its configuration file says
  disk,             \* the work directory: directory, published copy, temporaries, database, journal
  proc,             \* process -> where its start is and what it holds
  ports,            \* port -> the process that listens on it
  incidents         \* faults, kills and reloads so far

startVars == <<conf, disk, proc, ports, incidents>>

(***************************************************************************)
(* The command line.                                                       *)
(***************************************************************************)
IsCommand(a) == a \in {"run", "validate"}

\* parse_args: left to right; help and version win as soon as they are met,
\* a second command or path is refused, a flag takes the next argument.
ParseArgs(args) ==
  LET Step(st, i) ==
        CASE st.done -> st
          [] st.value -> IF args[i] = "" THEN [st EXCEPT !.done = TRUE, !.action = "missing_value"]
                         ELSE [st EXCEPT !.value = FALSE, !.path = args[i], !.paths = 1]
          [] args[i] \in {"--help", "--version"} -> [st EXCEPT !.done = TRUE, !.action = "print"]
          [] IsCommand(args[i]) -> IF st.commands = 1 THEN [st EXCEPT !.done = TRUE, !.action = "multiple_commands"]
                                   ELSE [st EXCEPT !.commands = 1, !.command = args[i]]
          [] args[i] = "--config" -> IF st.paths = 1 THEN [st EXCEPT !.done = TRUE, !.action = "duplicate_path"]
                                     ELSE [st EXCEPT !.value = TRUE]
          [] OTHER -> [st EXCEPT !.done = TRUE, !.action = "unknown"]
      From[i \in 0..Len(args)] ==
        IF i = 0
        THEN [done |-> FALSE, value |-> FALSE, action |-> "command", command |-> "run",
              commands |-> 0, path |-> "config.yaml", paths |-> 0]
        ELSE Step(From[i - 1], i)
      last == From[Len(args)]
  IN IF last.value /\ ~last.done THEN [last EXCEPT !.action = "missing_value"] ELSE last

(***************************************************************************)
(* Process states.  `at` names the step that runs next.                    *)
(***************************************************************************)
Steps == {"args", "journal", "lock", "recover", "load", "copy", "publish", "secrets", "owners", "cache",
          "layout", "create", "probe", "bind", "service", "management", "serving", "closing", "gone"}

Pieces == {"lock", "logs", "store", "cache", "storage", "sockets", "tasks", "management", "collector"}

\* reload_runtime_from_path works on the shared coordinator,
\* reload_service_from_path on the service.
Entries == {"runtime", "service"}

\* AppErrorKind::exit_code
ExitCode(kind) == CASE kind = "success" -> 0 [] kind = "config" -> 2 [] kind = "prepare" -> 3
                    [] kind = "bind" -> 4 [] kind = "fatal" -> 5

Fresh == [at |-> "args", command |-> None, copy |-> None, seen |-> None, holds |-> {}, exit |-> None,
          revision |-> 0, started |-> None, active |-> None, logs |-> None, candidate |-> [e \in Entries |-> None]]

Held(port) == ports[port] # None

\* Everything a process opened is owned by values of run_command: returning
\* from it, with or without an error, or losing the process, releases all.
Gone(p, kind) ==
  /\ proc' = [proc EXCEPT ![p] = [Fresh EXCEPT !.at = "gone", !.exit = ExitCode(kind)]]
  /\ ports' = [port \in DOMAIN ports |-> IF ports[port] = p THEN None ELSE ports[port]]

Advance(p, to) == proc' = [proc EXCEPT ![p].at = to]

Acquire(p, to, pieces) == proc' = [proc EXCEPT ![p].at = to, ![p].holds = @ \union pieces]

\* A step that fails for a reason of its own (an I/O error, an expired
\* deadline) ends the start.
FaultsAt == [journal |-> "prepare", recover |-> "prepare", load |-> "config", copy |-> "prepare", publish |-> "prepare",
             secrets |-> "prepare", owners |-> "prepare", cache |-> "prepare", create |-> "prepare",
             probe |-> "prepare", bind |-> "bind", service |-> "bind", management |-> "bind"]

StepFails(p) ==
  /\ incidents.mishaps < MaxIncidents
  /\ proc[p].at \in DOMAIN FaultsAt
  /\ proc[p].at = "journal" => proc[p].command = "run"
  /\ Gone(p, FaultsAt[proc[p].at])
  /\ incidents' = [incidents EXCEPT !.mishaps = @ + 1]
  /\ disk' = IF proc[p].at = "publish" THEN [disk EXCEPT !.temps = @ \ {p}] ELSE disk
  /\ UNCHANGED conf

(***************************************************************************)
(* Command line, recovery and lock.                                        *)
(***************************************************************************)
\* run_with_args: print and leave, refuse, or go on with the command.
TakeArguments(p, args) ==
  LET parsed == ParseArgs(args) IN
  /\ proc[p].at = "args"
  /\ CASE parsed.action = "command" ->
            /\ proc' = [proc EXCEPT ![p].at = "journal", ![p].command = parsed.command]
            /\ UNCHANGED ports
       [] parsed.action = "print" -> Gone(p, "success")
       [] OTHER -> Gone(p, "config")
  /\ UNCHANGED <<conf, disk, incidents>>

\* Only `run` looks for an unfinished configuration transaction.
LookForJournal(p) ==
  /\ proc[p].at = "journal"
  /\ Advance(p, IF proc[p].command = "run" /\ disk.journal THEN "lock" ELSE "load")
  /\ UNCHANGED <<conf, disk, ports, incidents>>

\* acquire_lock: the empty lock file is created when it is missing, and the
\* operating system's lock decides; the file itself is never removed.
AcquireLock(p) ==
  /\ proc[p].at = "lock"
  /\ IF \E q \in Processes : "lock" \in proc[q].holds
     THEN Gone(p, "prepare") /\ UNCHANGED disk
     ELSE Acquire(p, "recover", {"lock"}) /\ disk' = [disk EXCEPT !.lockFile = TRUE] /\ UNCHANGED ports
  /\ UNCHANGED <<conf, incidents>>

\* The journal was seen before the lock was taken, and is read after it: a
\* process that meanwhile finished the same recovery has removed it.
Recover(p) ==
  /\ proc[p].at = "recover"
  /\ IF disk.journal
     THEN /\ disk' = [disk EXCEPT !.journal = FALSE]
          /\ proc' = [proc EXCEPT ![p].at = "load", ![p].holds = @ \ {"lock"}]
          /\ UNCHANGED ports
     ELSE Gone(p, "prepare") /\ UNCHANGED disk
  /\ UNCHANGED <<conf, incidents>>

(***************************************************************************)
(* Loading, and the copy of the configuration in the work directory.       *)
(***************************************************************************)
\* load_from_path up to the copy: read within the limit, parse, resolve.
Loads(c) == c.size = "fits" /\ c.valid

SnapshotOn(p) == proc[p].command = "run"

Load(p) ==
  /\ proc[p].at = "load"
  /\ IF ~Loads(conf[p]) THEN Gone(p, "config")
     ELSE IF SnapshotOn(p) THEN Advance(p, "copy") /\ UNCHANGED ports
     ELSE Gone(p, "success")
  /\ UNCHANGED <<conf, disk, incidents>>

\* validate_work_path_components: the nearest existing component and its
\* parent are directories, not links.
WorkPathFits == disk.work \in {"absent", "directory"}

IsFileCopy(t) == t \notin {None, "link", "special"}

\* write_temp_snapshot: a new file of this process, written and synced before
\* anything is published.
WriteTemp(p) == [disk EXCEPT !.work = "directory", !.temps = @ \union {p}]

\* create_snapshot_with_hook before publication: a source that is the copy
\* needs none; an existing copy is compared and never overwritten; a
\* missing one is written to a temporary of this process first.
CheckCopy(p) ==
  /\ proc[p].at = "copy"
  /\ CASE ~WorkPathFits -> Gone(p, "prepare") /\ UNCHANGED disk
       [] WorkPathFits /\ conf[p].inWork -> Advance(p, "secrets") /\ UNCHANGED <<disk, ports>>
       [] WorkPathFits /\ ~conf[p].inWork /\ disk.target # None ->
            /\ disk' = disk
            /\ IF disk.target = conf[p].bytes
               THEN proc' = [proc EXCEPT ![p].at = "secrets", ![p].copy = "unchanged"] /\ UNCHANGED ports
               ELSE Gone(p, "prepare")
       [] OTHER ->
            /\ disk' = WriteTemp(p)
            /\ Advance(p, "publish")
            /\ UNCHANGED ports
  /\ UNCHANGED <<conf, incidents>>

\* The finished temporary is linked to its final name, which fails when the
\* name exists: then the other file is compared once more.
PublishCopy(p) ==
  /\ proc[p].at = "publish"
  /\ disk' = [disk EXCEPT !.temps = @ \ {p}, !.target = IF @ = None THEN conf[p].bytes ELSE @]
  /\ IF disk.target \in {None, conf[p].bytes}
     THEN /\ proc' = [proc EXCEPT ![p].at = "secrets", ![p].copy = IF disk.target = None THEN "created" ELSE "unchanged"]
          /\ UNCHANGED ports
     ELSE Gone(p, "prepare")
  /\ UNCHANGED <<conf, incidents>>

\* validate_secret_refs and the final log output.
CheckSecrets(p) ==
  /\ proc[p].at = "secrets"
  /\ IF conf[p].secrets
     THEN proc' = [proc EXCEPT ![p].at = "owners", ![p].holds = @ \union {"logs"}, ![p].logs = conf[p].logs] /\ UNCHANGED ports
     ELSE Gone(p, "prepare")
  /\ UNCHANGED <<conf, disk, incidents>>

(***************************************************************************)
(* Owners, storage and listeners.                                          *)
(***************************************************************************)
\* The configuration store (only with the web interface), telemetry, the
\* log owner and the prepared runtime, in this order.
CreateOwners(p) ==
  /\ proc[p].at = "owners"
  /\ Acquire(p, "cache", IF conf[p].webui THEN {"store"} ELSE {})
  /\ UNCHANGED <<conf, disk, ports, incidents>>

\* The cache snapshot owner recovers the memory cache and starts its worker
\* before the database is opened and before any socket is bound.
StartCacheOwner(p) ==
  /\ proc[p].at = "cache"
  /\ Acquire(p, "layout", {"cache"})
  /\ UNCHANGED <<conf, disk, ports, incidents>>

\* The layout transaction opens with a read of the tables.
ReadLayout(p) ==
  /\ proc[p].at = "layout"
  /\ proc' = [proc EXCEPT ![p].at = "create", ![p].seen = disk.database]
  /\ UNCHANGED <<conf, disk, ports, incidents>>

\* initialize_or_validate_v2_layout: a database of this layout is used, a
\* foreign or an older one refused, an empty one initialised.
LayoutVerdict(layout) ==
  CASE layout = "v2" -> "use" [] layout = "empty" -> "create" [] OTHER -> "refuse"

Opened(p) == proc' = [proc EXCEPT ![p].at = "probe", ![p].seen = None]

\* The transaction's first write needs the state it read: SQLite refuses the
\* upgrade when another process committed since.  The tables and the
\* metadata row are committed together.
CreateLayout(p) ==
  LET verdict == LayoutVerdict(proc[p].seen.layout) IN
  /\ proc[p].at = "create"
  /\ CASE verdict = "use" /\ proc[p].seen.version -> Opened(p) /\ UNCHANGED <<disk, ports>>
       [] verdict = "create" /\ disk.database = proc[p].seen ->
            /\ disk' = [disk EXCEPT !.database.layout = "v2", !.database.version = TRUE, !.database.rows = @ + 1]
            /\ Opened(p)
            /\ UNCHANGED ports
       [] OTHER -> Gone(p, "prepare") /\ UNCHANGED disk
  /\ UNCHANGED <<conf, incidents>>

\* migrate_now compares the schema version once more.
SchemaFits == disk.database.layout = "v2" /\ disk.database.version

\* startup_write_probe
\* changes the metadata row in a transaction that is rolled back; then the
\* statistics worker, the detail writer and the retention scheduler run.
ProbeStorage(p) ==
  /\ proc[p].at = "probe"
  /\ IF SchemaFits /\ disk.database.rows = 1
     THEN Acquire(p, "bind", {"storage"}) /\ UNCHANGED ports
     ELSE Gone(p, "prepare")
  /\ UNCHANGED <<conf, disk, incidents>>

\* bind_prepared: all DNS sockets or none.
BindSockets(p) ==
  /\ proc[p].at = "bind"
  /\ IF Held("dns")
     THEN Gone(p, "bind")
     ELSE ports' = [ports EXCEPT !["dns"] = p] /\ Acquire(p, "service", {"sockets"})
  /\ UNCHANGED <<conf, disk, incidents>>

\* The coordinator starts at revision one; the service starts its tasks.
StartService(p) ==
  /\ proc[p].at = "service"
  /\ proc' = [proc EXCEPT ![p].at = IF conf[p].webui THEN "management" ELSE "serving",
                          ![p].holds = @ \union {"tasks"}, ![p].revision = 1,
                          ![p].started = conf[p], ![p].active = conf[p]]
  /\ UNCHANGED <<conf, disk, ports, incidents>>

\* attach_management: one supervised task, which starts the event collector.
AttachManagement(p) == Acquire(p, "serving", {"management", "collector"})

\* bind_with_config_store: the public origin must be known and the port free.
StartManagement(p) ==
  /\ proc[p].at = "management"
  /\ IF conf[p].origin /\ ~Held("web")
     THEN ports' = [ports EXCEPT !["web"] = p] /\ AttachManagement(p)
     ELSE Gone(p, "bind")
  /\ UNCHANGED <<conf, disk, incidents>>

(***************************************************************************)
(* Reloads through the two internal entry points.                          *)
(***************************************************************************)
\* process_owned_reload_change
OwnedChange(current, next) == current.owned # next.owned \/ current.webui # next.webui

\* prepare_reload_candidate: the file is read without a copy; what the
\* process owns must not change, and an entry without the log owner refuses
\* a change of the log settings.
ReloadVerdict(current, next, allowLogging) ==
  CASE ~Loads(next) -> "config"
    [] Loads(next) /\ ~next.secrets -> "secrets"
    [] Loads(next) /\ next.secrets /\ OwnedChange(current, next) -> "restart"
    [] Loads(next) /\ next.secrets /\ ~OwnedChange(current, next) /\ ~allowLogging /\ current.logs # next.logs -> "logging"
    [] OTHER -> "prepared"

PrepareReload(p, next, entry) ==
  /\ proc[p].at = "serving"
  /\ proc[p].candidate[entry] = None
  /\ incidents.reloads < MaxReloads
  /\ incidents' = [incidents EXCEPT !.reloads = @ + 1]
  /\ IF ReloadVerdict(proc[p].active, next, entry = "service") = "prepared"
     THEN proc' = [proc EXCEPT ![p].candidate[entry] = [conf |-> next, expected |-> proc[p].revision]]
     ELSE UNCHANGED proc
  /\ UNCHANGED <<conf, disk, ports>>

\* bind_and_activate and reload_prepared: the revision the candidate was
\* prepared for must still be the active one; only the service entry
\* switches the log output.
ActivateReload(p, entry) ==
  LET c == proc[p].candidate[entry] IN
  /\ proc[p].at = "serving"
  /\ c # None
  /\ proc' = [proc EXCEPT ![p].candidate[entry] = None,
                          ![p].active = IF c.expected = proc[p].revision THEN c.conf ELSE @,
                          ![p].logs = IF c.expected = proc[p].revision /\ entry = "service" THEN c.conf.logs ELSE @,
                          ![p].revision = IF c.expected = @ THEN @ + 1 ELSE @]
  /\ UNCHANGED <<conf, disk, ports, incidents>>

(***************************************************************************)
(* The end.                                                                *)
(***************************************************************************)
\* A signal or a fatal task: the management server stops accepting, closes
\* its event hub and waits for the collector before its task ends.
Stop(p) ==
  /\ proc[p].at = "serving"
  /\ proc' = [proc EXCEPT ![p].at = "closing", ![p].candidate = [e \in Entries |-> None]]
  /\ ports' = [ports EXCEPT !["web"] = IF @ = p THEN None ELSE @]
  /\ UNCHANGED <<conf, disk, incidents>>

StopCollector(p) ==
  /\ proc[p].at = "closing"
  /\ "collector" \in proc[p].holds
  /\ proc' = [proc EXCEPT ![p].holds = @ \ {"collector"}]
  /\ UNCHANGED <<conf, disk, ports, incidents>>

Finish(p) ==
  /\ proc[p].at = "closing"
  /\ "collector" \notin proc[p].holds
  /\ \E kind \in {"success", "fatal"} : Gone(p, kind)
  /\ UNCHANGED <<conf, disk, incidents>>

\* Killed: the temporary it wrote stays.
Kill(p) ==
  /\ incidents.mishaps < MaxIncidents
  /\ proc[p].at \notin {"args", "gone"}
  /\ proc' = [proc EXCEPT ![p] = [Fresh EXCEPT !.at = "gone"]]
  /\ ports' = [port \in DOMAIN ports |-> IF ports[port] = p THEN None ELSE ports[port]]
  /\ incidents' = [incidents EXCEPT !.mishaps = @ + 1]
  /\ UNCHANGED <<conf, disk>>

\* A killed or failed process may be started once more.
StartAgain(p) ==
  /\ proc[p].at = "gone"
  /\ incidents.again < 1
  /\ proc' = [proc EXCEPT ![p] = Fresh]
  /\ incidents' = [incidents EXCEPT !.again = @ + 1]
  /\ UNCHANGED <<conf, disk, ports>>

StartStep(p) ==
  \/ \E args \in Arguments : TakeArguments(p, args)
  \/ LookForJournal(p) \/ AcquireLock(p) \/ Recover(p)
  \/ Load(p) \/ CheckCopy(p) \/ PublishCopy(p) \/ CheckSecrets(p)
  \/ CreateOwners(p) \/ StartCacheOwner(p) \/ ReadLayout(p) \/ CreateLayout(p) \/ ProbeStorage(p)
  \/ BindSockets(p) \/ StartService(p) \/ StartManagement(p)
  \/ \E next \in Confs, entry \in Entries : PrepareReload(p, next, entry)
  \/ \E entry \in Entries : ActivateReload(p, entry)
  \/ Stop(p) \/ StopCollector(p) \/ Finish(p)
  \/ StepFails(p) \/ Kill(p) \/ StartAgain(p)

\* A work directory as a start may find it: nothing, what an earlier start
\* left, or what someone else put there.
DiskStates ==
  {d \in [work : {"absent", "directory", "link"}, target : {None, "link", "special", "a", "b"}, temps : {{}},
          lockFile : BOOLEAN, journal : BOOLEAN,
          database : [layout : {"empty", "v2", "foreign", "legacy"}, version : BOOLEAN, rows : {0, 1}]] :
     /\ d.target # None => d.work # "absent"
     /\ d.journal => d.lockFile
     /\ d.database.rows = 1 <=> d.database.layout = "v2"
     /\ d.database.version => d.database.layout = "v2"}

StartInit ==
  /\ conf \in [Processes -> Confs]
  /\ disk \in Disks
  /\ (\E p \in Processes : conf[p].inWork) => IsFileCopy(disk.target)
  /\ proc = [p \in Processes |-> Fresh]
  /\ ports = [dns |-> None, web |-> None]
  /\ incidents = [mishaps |-> 0, reloads |-> 0, again |-> 0]

StartNext == \E p \in Processes : StartStep(p)

StartSpec == StartInit /\ [][StartNext]_startVars

(***************************************************************************)
(* Properties.                                                             *)
(***************************************************************************)
StartTypeOK ==
  /\ conf \in [Processes -> Confs]
  /\ Disks \subseteq DiskStates
  /\ disk.temps \subseteq Processes /\ [disk EXCEPT !.temps = {}] \in DiskStates
  /\ \A p \in Processes : proc[p].at \in Steps /\ proc[p].holds \subseteq Pieces
  /\ \A port \in DOMAIN ports : ports[port] \in Processes \union {None}

\* What a process that serves must have opened.
Needed(c) == {"logs", "cache", "storage", "sockets", "tasks"}
             \union (IF c.webui THEN {"store", "management", "collector"} ELSE {})

\* A start is all or nothing: a process that serves holds every owner and
\* port its configuration asks for, and one that has ended, whether by an
\* error of any step, by a signal or by a kill, holds no lock, port or task.
ServesWholeOrNothing ==
  \A p \in Processes :
    /\ proc[p].at = "serving" => /\ Needed(conf[p]) \subseteq proc[p].holds
                                 /\ ports["dns"] = p
                                 /\ conf[p].webui <=> ports["web"] = p
                                 /\ disk.database.layout = "v2" /\ disk.database.rows = 1
    /\ proc[p].at = "gone" => proc[p].holds = {} /\ \A port \in DOMAIN ports : ports[port] # p

\* The copy in the work directory is the very configuration of every process
\* that started past it, even when two processes with different files race
\* to publish theirs (create_snapshot_with_hook, load.rs).
CopyIsSource ==
  \A p \in Processes :
    proc[p].copy # None => disk.target = conf[p].bytes

\* A start never replaces a published copy, never writes tables into a
\* database of another layout, and `validate` leaves everything as it is.
KeepsFiles ==
  /\ disk.target # None => disk'.target = disk.target
  /\ disk.database.layout \in {"foreign", "legacy"} => disk'.database = disk.database
  /\ \A p \in Processes : proc[p].command = "validate" /\ proc'[p] # proc[p] => disk' = disk /\ ports' = ports
FilesAreKept == [][KeepsFiles]_startVars

\* The log output a serving process writes to is the one its active
\* configuration names, whichever entry point reloaded it ("a change of the
\* fields without a change of the output" would be a false success, app.rs).
LogsFollowReload ==
  \A p \in Processes :
    proc[p].at = "serving" => /\ proc[p].logs = proc[p].active.logs
                              /\ ~OwnedChange(proc[p].started, proc[p].active)
=============================================================================
