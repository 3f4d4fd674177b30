--------------------------- MODULE ResourceRefresh ---------------------------
(***************************************************************************)
(* One hosts or rule-set resource: its first snapshot when a runtime is    *)
(* prepared, the refresh worker with its reservation, schedule and backoff *)
(* (resource/refresh.rs, scheduler.rs, orchestrator.rs), the conditional   *)
(* fetch and the content/manifest pair on disk (resource/remote.rs,        *)
(* fetcher.rs), and what a reload merges into the candidate runtime        *)
(* (runtime/prepared.rs, runtime/snapshot.rs, dns/policy.rs).              *)
(*                                                                         *)
(* A configuration is a pair <<source, route>>: the source is what the     *)
(* definition of the resource says (path, URL, proxy name, format), the    *)
(* route is the outbound the proxy name stands for, which the definition   *)
(* does not show.  A content is the n-th version served at a source over a *)
(* route.  A validator (ETag) is the number n: two routes may give the     *)
(* same validator to different bytes.  Times are countdowns in units of    *)
(* the base delay.  A revision number never decides a comparison that the  *)
(* epoch leaves open, so a version is its epoch.                           *)
(***************************************************************************)
EXTENDS Naturals, FiniteSets, FiniteSetsExt

CONSTANTS Configs,            \* the configurations a reload may choose
          MaxOrigin,          \* how many versions of the content exist
          MaxScope,           \* runtimes prepared in one behaviour
          MaxEpoch,           \* cap on refreshes of one resource
          UpdateInterval,     \* update_interval of the resource
          MaxDelay,           \* cap of the backoff
          MaxRefreshFaults    \* failed fetches, expired deadlines, kills

VARIABLES kind,     \* "file" or "remote"
          origin,   \* configuration -> version of the content served there
          pair,     \* the two files of a remote rule set
          active,   \* the active runtime's part for this resource
          cand,     \* the prepared candidate, not committed yet
          job,      \* the fetches in progress: of the worker, of a prepare
          scope,    \* the last validator scope handed out
          upset     \* faults so far

refreshVars == <<kind, origin, pair, active, cand, job, scope, upset>>

Nothing == [none |-> TRUE]
NoJob == [at |-> "idle"]
ContentOf(c, n) == [source |-> c[1], route |-> c[2], n |-> n]
Content == {ContentOf(c, n) : c \in Configs, n \in 1 .. MaxOrigin}
Served(c) == ContentOf(c, origin[c])
\* What a build with manifest version 1, which names no source, may have left.
OldContent == [source |-> "unnamed", route |-> "unnamed", n |-> 0]

\* load_hosts, load_rule_set: a file is replaced as a whole, so a read that saw
\* the same fingerprint before and after has one of its versions.
LoadFile(c) == Served(c)

(***************************************************************************)
(* The pair on disk.  A manifest names the hash of its content, the source *)
(* identity and the scope of the fetcher that wrote it, and the validator. *)
(***************************************************************************)
Manifest(got, sc) == [hash |-> got, identity |-> got.source, scope |-> sc, etag |-> got.n]

OldManifest == [hash |-> OldContent, identity |-> "unnamed", scope |-> 0, etag |-> 0]

\* restore_remote_rule_set: the files form one pair, of this source if it names one.
Restorable(c) ==
    /\ pair.content # Nothing
    /\ pair.manifest # Nothing
    /\ pair.manifest.hash = pair.content
    /\ pair.manifest.identity \in {c[1], "unnamed"}

\* The manifest whose validators the request carries, if any.
Cached(c, sc) ==
    IF Restorable(c) /\ pair.manifest.scope = sc /\ pair.manifest.identity = c[1]
    THEN pair.manifest ELSE Nothing

Ask(c, sc) ==
    [at |-> "asking", cfg |-> c, scope |-> sc, cached |-> Cached(c, sc),
     got |-> Nothing, from |-> origin[c]]

(***************************************************************************)
(* Prepared runtimes: the first snapshot, the worker and its schedule.     *)
(***************************************************************************)
Snapshot(e, c) == [epoch |-> e, content |-> c]

Prepared(c, sc, snap) ==
    [cfg |-> c, scope |-> sc, initial |-> snap, registry |-> snap, policy |-> snap,
     metadata |-> snap, next |-> 0, inFlight |-> 0, failures |-> 0, wait |-> 0,
     due |-> UpdateInterval, lost |-> 0, stopped |-> FALSE]

\* What a freshly loaded or restored snapshot is numbered.
FirstEpoch == IF kind = "file" THEN 1 ELSE 0

Newer(incoming, current) == IF incoming.epoch > current.epoch THEN incoming ELSE current

\* publish_hosts_resource, publish_rule_set_resource: a version that is not
\* newer is refused.
PolicyTakes(snap, current) == Newer(snap, current)

\* The worker takes the newer registry and the schedule, never a reservation.
MergeWorker(new, old) ==
    [new EXCEPT !.registry = Newer(old.registry, @),
                !.due = old.due, !.lost = old.lost, !.stopped = old.stopped]

MergeMetadata(new, old) == Newer(old.metadata, new.metadata)

\* PreparedRuntime::merge_state_from for a resource defined alike in both.
MergeResource(new, old) ==
    LET snap == Newer(old.initial, Newer(old.registry, new.initial))
    IN [MergeWorker(new, old) EXCEPT !.initial = snap,
                                     !.policy = PolicyTakes(snap, @),
                                     !.metadata = MergeMetadata(new, old)]

\* The candidate keeps its own state where the definitions differ.
Merged(new, old) ==
    IF old # Nothing /\ old.cfg[1] = new.cfg[1] THEN MergeResource(new, old) ELSE new

Delay(failures) == Min({2 ^ (failures - 1), MaxDelay})

\* ResourceSchedule::decision and ResourceRefreshCoordinator::begin.
Due(r) == ~r.stopped /\ r.due = 0
MayBegin(r) == Due(r) /\ r.inFlight = 0 /\ r.wait = 0

NextEpoch(r) == Max({r.next, r.registry.epoch}) + 1

Reserved(r) == [r EXCEPT !.next = NextEpoch(r), !.inFlight = NextEpoch(r)]

\* The reservation is given back and the schedule stays as it is.
Abandoned(r) == [r EXCEPT !.inFlight = 0]

\* The attempt failed: both the coordinator and the schedule back off.
Failed(r) ==
    [r EXCEPT !.inFlight = 0, !.failures = @ + 1, !.wait = Delay(r.failures + 1),
              !.lost = IF r.stopped THEN @ ELSE @ + 1,
              !.due = IF r.stopped THEN @ ELSE Delay(r.lost + 1)]

\* The registry, the schedule, the policy and the metadata, in this order.
Published(r, content) ==
    LET snap == Snapshot(r.inFlight, content)
    IN [r EXCEPT !.registry = snap, !.inFlight = 0, !.failures = 0, !.wait = 0,
                 !.lost = IF r.stopped THEN @ ELSE 0,
                 !.due = IF r.stopped THEN @ ELSE UpdateInterval,
                 !.policy = PolicyTakes(snap, @), !.metadata = Newer(snap, @)]

-----------------------------------------------------------------------------
RefreshInit ==
    /\ kind \in {"file", "remote"}
    /\ origin = [c \in Configs |-> 1]
    /\ \/ pair = [content |-> Nothing, manifest |-> Nothing]
       \/ kind = "remote" /\ pair = [content |-> OldContent, manifest |-> OldManifest]
    /\ active = Nothing
    /\ cand = Nothing
    /\ job = [worker |-> NoJob, prepare |-> NoJob]
    /\ scope = 0
    /\ upset = 0

\* The file is edited, or the server has a new version.
OriginChanges(c) ==
    /\ origin[c] < MaxOrigin
    /\ origin' = [origin EXCEPT ![c] = @ + 1]
    /\ UNCHANGED <<kind, pair, active, cand, job, scope, upset>>

TimePasses ==
    /\ active # Nothing
    /\ active.due > 0 \/ active.wait > 0
    /\ active' = [active EXCEPT !.due = IF @ > 0 THEN @ - 1 ELSE 0,
                                !.wait = IF @ > 0 THEN @ - 1 ELSE 0]
    /\ UNCHANGED <<kind, origin, pair, cand, job, scope, upset>>

(***************************************************************************)
(* Preparing a runtime: at the start of the process, or for a reload while *)
(* the old runtime goes on refreshing.  Every prepare makes a fetcher with *)
(* a new validator scope.                                                  *)
(***************************************************************************)
BeginPrepare(c) ==
    /\ cand = Nothing
    /\ job.prepare = NoJob
    /\ scope < MaxScope
    /\ scope' = scope + 1
    /\ IF kind = "file"
       THEN /\ cand' = Prepared(c, scope', Snapshot(FirstEpoch, LoadFile(c)))
            /\ UNCHANGED job
       ELSE IF Restorable(c)
       THEN /\ cand' = Prepared(c, scope', Snapshot(FirstEpoch, pair.content))
            /\ UNCHANGED job
       ELSE /\ job' = [job EXCEPT !.prepare = Ask(c, scope')]
            /\ UNCHANGED cand
    /\ UNCHANGED <<kind, origin, pair, active, upset>>

\* The candidate is rejected later, or its reload is given up.
DropCandidate ==
    /\ cand # Nothing
    /\ active # Nothing
    /\ cand' = Nothing
    /\ UNCHANGED <<kind, origin, pair, active, job, scope, upset>>

\* The commit waits for the mutation gate, which a refresh holds throughout.
CommitCandidate ==
    /\ cand # Nothing
    /\ job.worker = NoJob
    /\ active' = Merged(cand, active)
    /\ cand' = Nothing
    /\ UNCHANGED <<kind, origin, pair, job, scope, upset>>

(***************************************************************************)
(* A refresh of a file resource: begin, read, publish or fail in one go.   *)
(***************************************************************************)
RefreshFile(ok) ==
    /\ kind = "file"
    /\ active # Nothing
    /\ MayBegin(active)
    /\ NextEpoch(active) <= MaxEpoch
    /\ IF ok
       THEN /\ active' = Published(Reserved(active), LoadFile(active.cfg))
            /\ UNCHANGED upset
       ELSE /\ upset < MaxRefreshFaults
            /\ upset' = upset + 1
            /\ active' = Failed(Reserved(active))
    /\ UNCHANGED <<kind, origin, pair, cand, job, scope>>

(***************************************************************************)
(* A refresh of a remote rule set, and the fetch of a prepare.             *)
(***************************************************************************)
BeginRefresh ==
    /\ kind = "remote"
    /\ active # Nothing
    /\ job.worker = NoJob
    /\ MayBegin(active)
    /\ NextEpoch(active) <= MaxEpoch
    /\ active' = Reserved(active)
    /\ job' = [job EXCEPT !.worker = Ask(active.cfg, active.scope)]
    /\ UNCHANGED <<kind, origin, pair, cand, scope, upset>>

\* The server answers a conditional or an unconditional request.
Answered(w) ==
    /\ job[w].at \in {"asking", "again"}
    /\ LET j == job[w]
           same == j.at = "asking" /\ j.cached # Nothing /\ j.cached.etag = origin[j.cfg]
       IN job' = [job EXCEPT ![w] =
                     IF same THEN [j EXCEPT !.at = "verify"]
                     ELSE [j EXCEPT !.at = "content", !.got = Served(j.cfg)]]
    /\ UNCHANGED <<kind, origin, pair, active, cand, scope, upset>>

\* After a 304 the pair is read again; it must be the one that was asked about.
Verify(w) ==
    /\ job[w].at = "verify"
    /\ LET j == job[w]
       IN job' = [job EXCEPT ![w] =
                     IF Restorable(j.cfg) /\ pair.manifest = j.cached
                     THEN [j EXCEPT !.at = "renew", !.got = pair.content]
                     ELSE [j EXCEPT !.at = "again"]]
    /\ UNCHANGED <<kind, origin, pair, active, cand, scope, upset>>

\* persist_manifest of an unchanged content.
Renew(w) ==
    /\ job[w].at = "renew"
    /\ pair' = [pair EXCEPT !.manifest = job[w].cached]
    /\ job' = [job EXCEPT ![w].at = "loaded"]
    /\ UNCHANGED <<kind, origin, active, cand, scope, upset>>

\* persist_content, then persist_manifest: two renames, not one.
PersistContent(w) ==
    /\ job[w].at = "content"
    /\ pair' = [pair EXCEPT !.content = job[w].got]
    /\ job' = [job EXCEPT ![w].at = "manifest"]
    /\ UNCHANGED <<kind, origin, active, cand, scope, upset>>

PersistManifest(w) ==
    /\ job[w].at = "manifest"
    /\ pair' = [pair EXCEPT !.manifest = Manifest(job[w].got, job[w].scope)]
    /\ job' = [job EXCEPT ![w].at = "loaded"]
    /\ UNCHANGED <<kind, origin, active, cand, scope, upset>>

PublishRefresh ==
    /\ job.worker.at = "loaded"
    /\ active' = Published(active, job.worker.got)
    /\ job' = [job EXCEPT !.worker = NoJob]
    /\ UNCHANGED <<kind, origin, pair, cand, scope, upset>>

FinishPrepare ==
    /\ job.prepare.at = "loaded"
    /\ cand' = Prepared(job.prepare.cfg, job.prepare.scope,
                        Snapshot(FirstEpoch, job.prepare.got))
    /\ job' = [job EXCEPT !.prepare = NoJob]
    /\ UNCHANGED <<kind, origin, pair, active, scope, upset>>

\* What the worker does with the reservation of a fetch that did not succeed.
AfterError(r, why) == IF why = "boundary" THEN Abandoned(r) ELSE Failed(r)

\* The fetch fails, its body is unusable or a file cannot be written ("error"),
\* or the deadline passes at a checked boundary ("boundary").
FetchEnds(w, why) ==
    /\ job[w] # NoJob
    /\ why = "boundary" => job[w].at # "manifest"
    /\ why = "error" => job[w].at # "loaded"
    /\ upset < MaxRefreshFaults
    /\ upset' = upset + 1
    /\ job' = [job EXCEPT ![w] = NoJob]
    /\ active' = IF w = "worker" THEN AfterError(active, why) ELSE active
    /\ UNCHANGED <<kind, origin, pair, cand, scope>>

\* The process stops: the schedules stop and the reservation is cancelled.
StopRefreshing ==
    /\ active # Nothing
    /\ ~active.stopped
    /\ active' = [Abandoned(active) EXCEPT !.stopped = TRUE, !.due = 0]
    /\ job' = [job EXCEPT !.worker = NoJob]
    /\ upset < MaxRefreshFaults
    /\ upset' = upset + 1
    /\ UNCHANGED <<kind, origin, pair, cand, scope>>

\* The process ends at any point and starts anew; the files remain.
ProcessEnds ==
    /\ upset < MaxRefreshFaults \/ (active # Nothing /\ active.stopped)
    /\ upset' = IF active # Nothing /\ active.stopped THEN upset ELSE upset + 1
    /\ active' = Nothing
    /\ cand' = Nothing
    /\ job' = [worker |-> NoJob, prepare |-> NoJob]
    /\ UNCHANGED <<kind, origin, pair, scope>>

Workers == {"worker", "prepare"}

RefreshNext ==
    \/ \E c \in Configs : OriginChanges(c) \/ BeginPrepare(c)
    \/ TimePasses \/ DropCandidate \/ CommitCandidate
    \/ \E ok \in BOOLEAN : RefreshFile(ok)
    \/ BeginRefresh
    \/ \E w \in Workers :
          \/ Answered(w) \/ Verify(w) \/ Renew(w)
          \/ PersistContent(w) \/ PersistManifest(w)
          \/ \E why \in {"error", "boundary"} : FetchEnds(w, why)
    \/ PublishRefresh \/ FinishPrepare
    \/ StopRefreshing \/ ProcessEnds

RefreshSpec == RefreshInit /\ [][RefreshNext]_refreshVars

-----------------------------------------------------------------------------
SnapshotType == [epoch : 0 .. MaxEpoch, content : Content \cup {OldContent}]

PreparedType ==
    [cfg : Configs, scope : 1 .. MaxScope, initial : SnapshotType, registry : SnapshotType,
     policy : SnapshotType, metadata : SnapshotType, next : 0 .. MaxEpoch,
     inFlight : 0 .. MaxEpoch, failures : 0 .. MaxRefreshFaults, wait : 0 .. MaxDelay,
     due : 0 .. Max({UpdateInterval, MaxDelay}), lost : 0 .. MaxRefreshFaults,
     stopped : BOOLEAN]

\* Every variable has its type (the fields of ResourceState and ResourceSchedule).
RefreshTypeOK ==
    /\ kind \in {"file", "remote"}
    /\ origin \in [Configs -> 1 .. MaxOrigin]
    /\ pair.content \in Content \cup {OldContent, Nothing}
    /\ active \in PreparedType \cup {Nothing}
    /\ cand \in PreparedType \cup {Nothing}
    /\ DOMAIN job = Workers
    /\ scope \in 0 .. MaxScope
    /\ upset \in 0 .. MaxRefreshFaults

\* What a runtime serves always came from the source its own configuration
\* names: neither a pair half written by another fetch or cut by a kill, nor a
\* merge from the old runtime, brings in the content of another source.  The
\* pair of a build that did not record the source may be of any, and is served
\* until the first refresh (restore_remote_rule_set, merge_state_from).
OwnSource ==
    \A r \in {active, cand} \ {Nothing} :
        \A s \in {r.initial, r.registry, r.policy, r.metadata} :
            s.content.source = r.cfg[1] \/ (s.content = OldContent /\ s.epoch = 0)

\* A successful refresh publishes a content the active configuration's own
\* route served at some moment of that refresh: a 304 never confirms the bytes
\* of another route, of another generation or of a pair replaced meanwhile
\* (fetch_remote_rule_set).
PublishesServed ==
    (job.worker.at = "loaded" /\ active' # Nothing /\ active'.registry # active.registry)
       => /\ active'.registry.content.route = active.cfg[2]
          /\ active'.registry.content.n \in job.worker.from .. origin[active.cfg]
RefreshedIsServed == [][PublishesServed]_refreshVars

\* While no refresh runs the runtime is whole: no reservation is left behind
\* that would refuse the next refresh, and the registry of the worker, the
\* policy and the metadata hold one snapshot, also right after a reload has
\* merged them one by one (orchestrator.rs, merge_state_from).
RestIsWhole ==
    (active # Nothing /\ job.worker = NoJob) =>
        /\ active.inFlight = 0
        /\ active.policy = active.registry
        /\ active.metadata = active.registry

=============================================================================
