---------------------------- MODULE RequestBoundary ----------------------------
(* The management API in front of the configuration transaction: the limits every *)
(* request passes, the handlers with their checks in order, the time limit that   *)
(* drops a handler wherever it waits, and the work on blocking threads and in     *)
(* tasks that goes on without it.  A browser that got no answer repeats its       *)
(* request under the same operation id, or asks for the operation.                *)
EXTENDS Integers, Sequences, FiniteSets, SequencesExt

CONSTANTS
  Connections,       \* connections of the browser, each with one request at a time
  RequestPermits,    \* requests served at the same time
  JsonLimit, MutationLimit,  \* body limits, in units
  MaxChangesInOne, MaxConfirmations,
  ApiRequests,       \* requests that are sent
  MaxSends,          \* bound: requests of the browser
  MaxExpiries        \* bound: forgotten operation records

VARIABLES
  line,     \* the request on each connection
  blocking, \* begin_apply on blocking threads, by the number of its request
  op,       \* the record of the operation, the gate and the task that runs it
  sends, expiries

boundaryVars == <<line, blocking, op, sends, expiries>>

Mutations == {"validate", "apply", "module_validate", "module_apply", "restore", "retry"}
Routes == Mutations \cup {"operation", "diff", "search", "setup", "session", "asset", "unknown"}

\* What is checked of a request.  declared: with a content length; token: a bearer token
\* of the form; module: of the path; changes: the modules its candidate changes.
RequestShape(r) ==
  /\ r.route \in Routes /\ r.http11 \in BOOLEAN /\ r.head \in {"ok", "uri", "headers"}
  /\ r.declared \in BOOLEAN /\ r.size \in Nat /\ r.origin \in BOOLEAN /\ r.token \in BOOLEAN
  /\ r.module \in {"dns", "logs", "other"} /\ Range(r.changes) \subseteq {"dns", "logs"}
  /\ Range(r.confirmations) \subseteq {"rename", "rebind"} /\ r.null \in BOOLEAN

HttpStatus(code) ==
  CASE code = "ok" -> 200 [] code = "accepted" -> 202
    [] code \in {"invalid_argument", "origin_rejected"} -> 400
    [] code = "auth_required" -> 401 [] code = "forbidden" -> 403
    [] code = "not_found" -> 404 [] code = "request_timeout" -> 408
    [] code \in {"busy", "active_revision_conflict", "file_revision_conflict", "external_changes"} -> 409
    [] code = "payload_too_large" -> 413 [] code = "uri_too_long" -> 414
    [] code = "rate_limited" -> 429 [] code = "headers_too_large" -> 431
    [] code = "service_unavailable" -> 503 [] code = "http_version" -> 505

\* The limit by path, for a declared length.
RequestBodyLimit(route) == IF route \in Mutations THEN MutationLimit ELSE JsonLimit

\* request_boundary up to the permit.
BoundaryVerdict(r) ==
  CASE ~r.http11 -> "http_version"
    [] r.http11 /\ r.head = "uri" -> "uri_too_long"
    [] r.http11 /\ r.head = "headers" -> "headers_too_large"
    [] r.http11 /\ r.head = "ok" /\ r.declared /\ r.size > RequestBodyLimit(r.route) -> "payload_too_large"
    [] OTHER -> "ok"

\* require_session, in front of the protected routes only.
Protected == Routes \ {"setup", "asset", "unknown"}
RequireSession(r, valid) == r.route \in Protected => r.token /\ valid

\* The routes of the configuration carry a layer of their own with the larger limit; it
\* counts what is read of the body.
BodyLimitLayer(route) == IF route \in Mutations \cup {"operation", "diff"} THEN MutationLimit ELSE JsonLimit

BodyBytes(r) == IF r.size > BodyLimitLayer(r.route) THEN "payload_too_large" ELSE "ok"

\* The module in the path.
ParseModulePath(r) == IF r.module = "other" THEN "not_found" ELSE "ok"

DecodeJson(r) == CASE r.size > MutationLimit -> "payload_too_large"
                   [] r.size <= MutationLimit /\ r.null -> "invalid_argument"
                   [] OTHER -> "ok"

DecodeCandidate(r) ==
  CASE DecodeJson(r) # "ok" -> DecodeJson(r)
    [] DecodeJson(r) = "ok" /\ Len(r.changes) \notin 1 .. MaxChangesInOne -> "invalid_argument"
    [] OTHER -> "ok"

\* A form changes its own module and no other.
OwnModule(r) ==
  IF r.route \in {"module_validate", "module_apply"} /\ r.changes # <<r.module>>
  THEN "forbidden" ELSE "ok"

DecodeApply(r) ==
  CASE DecodeCandidate(r) # "ok" -> DecodeCandidate(r)
    [] DecodeCandidate(r) = "ok" /\ Len(r.confirmations) > MaxConfirmations -> "invalid_argument"
    [] DecodeCandidate(r) = "ok" /\ Len(r.confirmations) <= MaxConfirmations /\ OwnModule(r) # "ok" -> OwnModule(r)
    [] OTHER -> IF IsInjective(r.confirmations) THEN "ok" ELSE "invalid_argument"

Decode(r) ==
  CASE r.route \in {"apply", "module_apply"} -> DecodeApply(r)
    [] r.route \in {"validate", "module_validate"} ->
         IF DecodeCandidate(r) # "ok" THEN DecodeCandidate(r) ELSE OwnModule(r)
    [] OTHER -> DecodeJson(r)

\* The order of the handlers' checks: origin, module, body, its content.
HandlerVerdict(r) ==
  LET checks == <<IF r.origin THEN "ok" ELSE "forbidden",
                  IF r.route \in {"module_validate", "module_apply"} THEN ParseModulePath(r) ELSE "ok",
                  BodyBytes(r), Decode(r)>>
      failed == SelectSeq(checks, LAMBDA c : c # "ok")
  IN  IF failed = <<>> THEN "ok" ELSE Head(failed)

\* Everything that is neither under /api nor served there is the application's page.
Fallback(r) == IF r.route = "unknown" THEN "not_found" ELSE "ok"

-------------------------------------------------------------------------------
NoLine == [at |-> "free"]
Phases == {"none", "preparing", "persisting", "synced", "rejected", "unknown"}

BoundaryInit ==
  /\ line = [c \in Connections |-> NoLine] /\ blocking = {} /\ sends = 0 /\ expiries = 0
  /\ \E external \in BOOLEAN :
       op = [phase |-> "none", gate |-> FALSE, task |-> FALSE, revision |-> 0, applied |-> 0,
             observed |-> 0, external |-> external, lost |-> FALSE]

Served == {c \in Connections : line[c].at \in {"handler", "begin", "read"}}

Answer(c, code) == line' = [line EXCEPT ![c] = [at |-> "answered", code |-> code]]

\* A request passes the boundary, gets a permit or is turned away.
Send(c, r) ==
  /\ line[c].at \in {"free", "answered"} /\ sends < MaxSends /\ sends' = sends + 1
  /\ IF BoundaryVerdict(r) # "ok" THEN Answer(c, BoundaryVerdict(r))
     ELSE IF Cardinality(Served) >= RequestPermits THEN Answer(c, "rate_limited")
     ELSE line' = [line EXCEPT ![c] = [at |-> "handler", req |-> r, id |-> sends']]
  /\ UNCHANGED <<blocking, op, expiries>>

\* The handler's checks; an apply then starts begin_apply on a blocking thread and waits.
Handle(c) ==
  /\ line[c].at = "handler"
  /\ LET r == line[c].req
         v == CASE ~RequireSession(r, TRUE) -> "auth_required"
                [] RequireSession(r, TRUE) /\ r.route \in Mutations -> HandlerVerdict(r)
                [] OTHER -> Fallback(r)
     IN  IF v # "ok" THEN Answer(c, v) /\ UNCHANGED blocking
         ELSE IF r.route \in {"apply", "module_apply"}
         THEN line' = [line EXCEPT ![c].at = "begin"] /\ blocking' = blocking \cup {line[c].id}
         ELSE IF r.route = "operation"
         THEN line' = [line EXCEPT ![c].at = "read"] /\ UNCHANGED blocking
         ELSE Answer(c, "ok") /\ UNCHANGED blocking
  /\ UNCHANGED <<op, sends, expiries>>

\* check_expected: a request was made from revision 0 and the first observation of the files,
\* asks for no change of others to be discarded, and one operation is under way at most.
CheckExpected ==
  CASE op.revision # 0 -> "active_revision_conflict"
    [] op.revision = 0 /\ op.observed # 0 -> "file_revision_conflict"
    [] op.revision = 0 /\ op.observed = 0 /\ op.gate -> "busy"
    [] op.revision = 0 /\ op.observed = 0 /\ ~op.gate /\ op.external -> "external_changes"
    [] OTHER -> "ok"

\* begin_apply and what start_apply makes of its outcome.  When the handler is gone the
\* outcome is dropped, with the permit of an operation that was just accepted.
BeginApply(id) ==
  /\ id \in blocking /\ blocking' = blocking \ {id}
  /\ LET waiting == {c \in Connections : line[c].at = "begin" /\ line[c].id = id}
         Reply(code) == line' = [c \in Connections |->
           IF c \in waiting THEN [at |-> "answered", code |-> code] ELSE line[c]]
     IN  CASE op.phase # "none" ->
                /\ line' = [c \in Connections |->
                     IF c \in waiting THEN [line[c] EXCEPT !.at = "read"] ELSE line[c]]
                /\ UNCHANGED op
           [] op.phase = "none" /\ CheckExpected # "ok" -> Reply(CheckExpected) /\ UNCHANGED op
           [] OTHER ->
                /\ Reply("accepted")
                /\ op' = IF waiting # {}
                         THEN [op EXCEPT !.phase = "preparing", !.gate = TRUE, !.task = TRUE]
                         ELSE [op EXCEPT !.phase = "unknown", !.gate = TRUE, !.lost = TRUE]
  /\ UNCHANGED <<sends, expiries>>

\* operation_response: the state of the operation when it is read.
OperationResponse(c) ==
  /\ line[c].at = "read"
  /\ Answer(c, IF op.phase \in {"preparing", "persisting"} THEN "accepted" ELSE "ok")
  /\ UNCHANGED <<blocking, op, sends, expiries>>

\* The time limit, or the browser leaving: the handler is dropped and its permit returned.
TimeOut(c) ==
  /\ line[c].at \in {"handler", "begin", "read"}
  /\ Answer(c, "request_timeout")
  /\ UNCHANGED <<blocking, op, sends, expiries>>

\* run_apply, in a task of its own.
RunApply ==
  /\ op.task
  /\ \/ /\ op.phase = "preparing"
        /\ op' = [op EXCEPT !.phase = "persisting", !.revision = @ + 1, !.applied = @ + 1]
     \/ /\ op.phase = "preparing"
        /\ op' = [op EXCEPT !.phase = "rejected", !.gate = FALSE, !.task = FALSE]
     \/ /\ op.phase = "persisting"
        /\ op' = [op EXCEPT !.phase = "synced", !.gate = FALSE, !.task = FALSE]
  /\ UNCHANGED <<line, blocking, sends, expiries>>

\* The watcher observes that someone else has changed the files.
FilesChange ==
  /\ op.observed = 0
  /\ op' = [op EXCEPT !.observed = 1, !.external = TRUE]
  /\ UNCHANGED <<line, blocking, sends, expiries>>

\* Records of finished operations are forgotten after a time.
ForgetOperation ==
  /\ expiries < MaxExpiries /\ op.phase \in {"synced", "rejected"} /\ ~op.gate
  /\ expiries' = expiries + 1 /\ op' = [op EXCEPT !.phase = "none"]
  /\ UNCHANGED <<line, blocking, sends>>

BoundaryNext ==
  \/ \E c \in Connections, r \in ApiRequests : Send(c, r)
  \/ \E c \in Connections : Handle(c) \/ OperationResponse(c) \/ TimeOut(c)
  \/ \E id \in 1 .. MaxSends : BeginApply(id)
  \/ RunApply \/ FilesChange \/ ForgetOperation

BoundarySpec == BoundaryInit /\ [][BoundaryNext]_boundaryVars

BoundaryTypeOK ==
  /\ \A r \in ApiRequests : RequestShape(r)
  /\ op.phase \in Phases /\ blocking \subseteq 1 .. MaxSends /\ op.applied \in Nat /\ op.observed \in 0 .. 1
  /\ \A c \in Connections : line[c].at = "answered" => HttpStatus(line[c].code) \in 200 .. 599

\* However often a request is repeated, because its answer was late or lost, and even when
\* the record of its operation has been forgotten, the change is applied once; no more
\* requests than the permits allow are under way.
AppliedOnce == op.applied <= 1 /\ Cardinality(Served) <= RequestPermits

\* A declared length is refused exactly when reading the same body would be, on every route
\* that takes a change; and what passes on a form's route changes the form's module alone.
LimitsAgree ==
  \A r \in ApiRequests :
    /\ r.route \in Mutations /\ r.http11 /\ r.head = "ok" =>
         ((r.size > RequestBodyLimit(r.route)) <=> BodyBytes(r) = "payload_too_large")
    /\ r.route \in {"module_validate", "module_apply"} /\ HandlerVerdict(r) = "ok" =>
         \A m \in Range(r.changes) : m = r.module

\* An operation that was accepted is carried out, whatever becomes of its request.
AcceptedIsStarted == ~op.lost

===============================================================================
