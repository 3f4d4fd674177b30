-------------------------- MODULE InboundSessions --------------------------
(***************************************************************************)
(* The inbound side of one listener: the accept loop of a TCP or DoH       *)
(* listener with the session tasks it spawns, or the receive loop of a UDP *)
(* socket (backend/src/service.rs), the adapters behind them               *)
(* (transport/tcp.rs, doh.rs, udp.rs) and the response handle that         *)
(* decides who may answer a request (ports/inbound.rs).                    *)
(*                                                                         *)
(* A client may send its requests without waiting for the answers; a       *)
(* session reads and serves them one after the other.  Requests of a       *)
(* session are numbered from 1 in the order they are read.                 *)
(***************************************************************************)
EXTENDS Integers, Sequences, FiniteSets

CONSTANTS
    SessionSlots,   \* the tasks the loop's JoinSet can hold in this instance
    SessionLimit,   \* MAX_CONCURRENT_STREAM_SESSIONS
    Capacity,       \* the requests the runtime admits at a time
    MaxReads,       \* bound: requests read in one session
    MaxAccepts      \* bound: sessions accepted by the listener

VARIABLES
    listener,  \* the accept loop
    runtime,   \* the runtime the loop belongs to: draining, admitted requests
    session,   \* the session tasks
    written    \* per session: the requests answered on the wire, in order

inboundVars == <<listener, runtime, session, written>>

Protocols == {"udp", "tcp", "doh"}

\* ResponseState of the handle that all clones share.
HandleStates == {"none", "pending", "responded", "cancelled"}

\* ResponseDelivery of the request's trace; "none" before the first request.
Deliveries == {"none", "pending", "sent", "failed", "cancelled"}

IdleSession == [st |-> "free", read |-> 0, handle |-> "none",
                delivery |-> "none", close |-> FALSE]

InboundTypeOK ==
    /\ listener \in [protocol : Protocols,
                     st : {"accepting", "joining", "ended"},
                     cancelled : BOOLEAN, failed : BOOLEAN,
                     cut : BOOLEAN, accepted : 0..MaxAccepts]
    /\ runtime \in [draining : BOOLEAN, admitted : 0..Capacity]
    /\ session \in [SessionSlots ->
            [st : {"free", "reading", "resolving", "writing", "rejecting", "done"},
             read : 0..MaxReads, handle : HandleStates,
             delivery : Deliveries, close : BOOLEAN]]
    /\ written \in [SessionSlots -> Seq(1..MaxReads)]

-----------------------------------------------------------------------------
Datagram == listener.protocol = "udp"

\* The UDP loop has no session tasks: it is its own single session.
LoopSlot == CHOOSE s \in SessionSlots : TRUE

Live == {s \in SessionSlots : session[s].st # "free"}

\* A slot is reset when its task is joined; the written answers stay with
\* the client until the slot is used again.
InboundInit ==
    \E p \in Protocols :
      /\ listener = [protocol |-> p, st |-> "accepting", cancelled |-> FALSE,
                     failed |-> FALSE, cut |-> FALSE, accepted |-> 0]
      /\ runtime = [draining |-> FALSE, admitted |-> 0]
      /\ session = [s \in SessionSlots |->
                      IF p = "udp" /\ s = LoopSlot
                      THEN [IdleSession EXCEPT !.st = "reading"]
                      ELSE IdleSession]
      /\ written = [s \in SessionSlots |-> <<>>]

-----------------------------------------------------------------------------
(* The accept loop.                                                        *)

CanAccept == Cardinality(Live) < SessionLimit

\* The branches of the loop are polled in order: cancellation and
\* retirement win over a connection that is waiting to be accepted.
AcceptSession(s) ==
    /\ ~Datagram
    /\ listener.st = "accepting"
    /\ ~listener.cancelled /\ ~runtime.draining
    /\ CanAccept
    /\ listener.accepted < MaxAccepts
    /\ session[s].st = "free"
    /\ listener' = [listener EXCEPT !.accepted = @ + 1]
    /\ session' = [session EXCEPT ![s] = [IdleSession EXCEPT !.st = "reading"]]
    /\ written' = [written EXCEPT ![s] = <<>>]
    /\ UNCHANGED runtime

\* accept reports an error that is neither idle time nor cancellation, or
\* the listener is closed under the loop.
AcceptFails ==
    /\ ~Datagram
    /\ listener.st = "accepting"
    /\ ~listener.cancelled /\ ~runtime.draining
    /\ CanAccept
    /\ listener' = [listener EXCEPT !.st = "joining", !.failed = TRUE, !.cut = TRUE]
    /\ UNCHANGED <<runtime, session, written>>

\* After the loop only a retirement leaves the sessions running.
CutAfterLoop == ~runtime.draining \/ listener.cancelled \/ listener.failed

StopAccepting ==
    /\ ~Datagram
    /\ listener.st = "accepting"
    /\ listener.cancelled \/ runtime.draining
    /\ listener' = [listener EXCEPT !.st = "joining", !.cut = @ \/ CutAfterLoop]
    /\ UNCHANGED <<runtime, session, written>>

JoinSession(s) ==
    /\ ~Datagram
    /\ listener.st \in {"accepting", "joining"}
    /\ session[s].st = "done"
    /\ session' = [session EXCEPT ![s] = IdleSession]
    /\ UNCHANGED <<listener, runtime, written>>

ListenerEnds ==
    /\ listener.st = "joining"
    /\ Live = {}
    /\ listener' = [listener EXCEPT !.st = "ended"]
    /\ UNCHANGED <<runtime, session, written>>

\* The cancellation of a UDP loop is the token its requests are raced with.
CancelListener ==
    /\ ~listener.cancelled
    /\ listener' = [listener EXCEPT !.cancelled = TRUE, !.cut = @ \/ Datagram]
    /\ UNCHANGED <<runtime, session, written>>

RetireRuntime ==
    /\ ~runtime.draining
    /\ runtime' = [runtime EXCEPT !.draining = TRUE]
    /\ UNCHANGED <<listener, session, written>>

-----------------------------------------------------------------------------
(* One session: read, admit, resolve, answer.                              *)

\* A session that ends leaves its task to be joined; the end of the UDP
\* loop is the end of the listener task itself.
Ended(s) == [session[s] EXCEPT !.st = "done"]

EndLoop(s) ==
    IF Datagram
    THEN /\ session' = [session EXCEPT ![s] = IdleSession]
         /\ listener' = [listener EXCEPT !.st = "joining"]
    ELSE /\ session' = [session EXCEPT ![s] = Ended(s)]
         /\ UNCHANGED listener

\* wait_for_retirement wins over a receive that is still waiting.
ReadRetired(s) ==
    /\ session[s].st = "reading"
    /\ runtime.draining
    /\ EndLoop(s)
    /\ UNCHANGED <<runtime, written>>

\* Clean end of the stream, a read error, the read deadline or cancellation:
\* all close the connection.  An idle read deadline only restarts the read
\* of a UDP loop.
ReadEnds(s) ==
    /\ session[s].st = "reading"
    /\ ~runtime.draining
    /\ Datagram => listener.cancelled
    /\ EndLoop(s)
    /\ UNCHANGED <<runtime, written>>

\* A UDP receive that fails makes the task transient; a supervisor restarts it.
ReceiveFails(s) ==
    /\ Datagram
    /\ session[s].st = "reading"
    /\ ~runtime.draining /\ ~listener.cancelled
    /\ session' = [session EXCEPT ![s] = IdleSession]
    /\ listener' = [listener EXCEPT !.st = "joining", !.failed = TRUE]
    /\ UNCHANGED <<runtime, written>>

\* A request DoH answers with an HTTP status of its own: an unknown route
\* leaves the connection open unless the client asked to close it, anything
\* else closes it.
ReadRejected(s) ==
    /\ listener.protocol = "doh"
    /\ session[s].st = "reading"
    /\ ~runtime.draining /\ ~listener.cut
    /\ session[s].read < MaxReads
    /\ \E close \in BOOLEAN :
         session' = [session EXCEPT ![s] = [st |-> "rejecting",
                        read |-> @.read + 1, handle |-> "none", delivery |-> "none",
                        close |-> close]]
    /\ UNCHANGED <<listener, runtime, written>>

WriteHttpError(s) ==
    /\ session[s].st = "rejecting"
    /\ written' = [written EXCEPT ![s] = Append(@, session[s].read)]
    /\ session' = [session EXCEPT ![s].st = IF session[s].close THEN "done" ELSE "reading"]
    /\ UNCHANGED <<listener, runtime>>

HttpErrorFails(s) ==
    /\ session[s].st = "rejecting"
    /\ session' = [session EXCEPT ![s] = Ended(s)]
    /\ UNCHANGED <<listener, runtime, written>>

\* try_acquire of the runtime.
Admits == ~runtime.draining /\ runtime.admitted < Capacity

\* A decoded request becomes an InboundRequest with a pending handle, and is
\* admitted.
Received(s, close) ==
    /\ session[s].st = "reading"
    /\ ~runtime.draining /\ ~listener.cut
    /\ session[s].read < MaxReads
    /\ Admits
    /\ session' = [session EXCEPT ![s] = [st |-> "resolving", read |-> @.read + 1,
                      handle |-> "pending", delivery |-> "pending", close |-> close]]
    /\ runtime' = [runtime EXCEPT !.admitted = @ + 1]
    /\ UNCHANGED <<listener, written>>

ReadDatagram(s) == Datagram /\ Received(s, FALSE)

ReadFrame(s) == listener.protocol = "tcp" /\ Received(s, FALSE)

ReadHttp(s) == listener.protocol = "doh" /\ \E close \in BOOLEAN : Received(s, close)

\* What a message that is no query is answered with, if its header is usable.
WireFaults == {"empty", "short", "undecodable", "questions", "opcode", "edns_version"}
ErrorReply(fault) ==
    CASE fault \in {"undecodable", "questions"} -> "formerr"
      [] fault = "opcode" -> "notimp"
      [] OTHER -> "none"

\* A message that is no query is answered by the adapter itself: TCP closes
\* the connection then, UDP goes on with the next datagram.
ReadUndecodable(s) ==
    /\ listener.protocol # "doh"
    /\ session[s].st = "reading"
    /\ ~runtime.draining /\ ~listener.cut
    /\ session[s].read < MaxReads
    /\ \E fault \in WireFaults :
         written' = IF ErrorReply(fault) = "none" THEN written
                    ELSE [written EXCEPT ![s] = Append(@, session[s].read + 1)]
    /\ session' = [session EXCEPT ![s] = [IdleSession EXCEPT !.read = session[s].read + 1,
                      !.st = IF Datagram THEN "reading" ELSE "done"]]
    /\ UNCHANGED <<listener, runtime>>

\* No capacity: the handle is cancelled and the connection closed; a UDP
\* loop goes on with the next datagram.
ReadRefused(s) ==
    /\ session[s].st = "reading"
    /\ ~runtime.draining /\ ~listener.cut
    /\ session[s].read < MaxReads
    /\ ~Admits
    /\ session' = [session EXCEPT ![s] = [@ EXCEPT
                     !.st = IF Datagram THEN "reading" ELSE "done",
                     !.read = @ + 1, !.handle = "cancelled", !.delivery = "cancelled"]]
    /\ UNCHANGED <<listener, runtime, written>>

\* AdmissionError::Draining: the runtime was retired after the read had won the
\* race with the retirement.  The handle is cancelled and the connection
\* closed; a UDP loop finds the retirement when it goes on.
ReadDraining(s) ==
    /\ session[s].st = "reading"
    /\ runtime.draining /\ ~listener.cut
    /\ session[s].read < MaxReads
    /\ IF Datagram THEN EndLoop(s)
       ELSE /\ session' = [session EXCEPT ![s] = [@ EXCEPT !.st = "done", !.read = @ + 1,
                              !.handle = "cancelled", !.delivery = "cancelled"]]
            /\ UNCHANGED listener
    /\ UNCHANGED <<runtime, written>>

\* claim: only the first caller moves the handle out of pending.
Claim(handle, terminal) == IF handle = "pending" THEN terminal ELSE handle

\* finish_response: the first outcome recorded stays.
FinishResponse(delivery, outcome) ==
    IF delivery = "pending" THEN outcome ELSE delivery

\* The core has an answer for the question: respond takes the handle.
Respond(s) ==
    /\ session[s].st = "resolving"
    /\ session[s].handle = "pending"
    /\ session' = [session EXCEPT ![s].st = "writing",
                                  ![s].handle = Claim(@, "responded")]
    /\ UNCHANGED <<listener, runtime, written>>

\* drop(guard) and, where the session goes on, the next read.  The last clone
\* of the handle is dropped here, which finishes a response still pending.
After(s, goesOn, handle, delivery) ==
    /\ session' = [session EXCEPT ![s] = [@ EXCEPT
                     !.st = IF goesOn THEN "reading" ELSE "done",
                     !.handle = handle,
                     !.delivery = FinishResponse(delivery, "cancelled")]]
    /\ runtime' = [runtime EXCEPT !.admitted = @ - 1]

GoesOn(s) == ~session[s].close

\* encode and write_all complete.
WriteDone(s) ==
    /\ session[s].st = "writing"
    /\ written' = [written EXCEPT ![s] = Append(@, session[s].read)]
    /\ After(s, GoesOn(s), session[s].handle,
             FinishResponse(session[s].delivery, "sent"))
    /\ UNCHANGED listener

\* The encoder refuses the answer or the write fails: the connection is
\* closed, a UDP loop goes on.
WriteFails(s) ==
    /\ session[s].st = "writing"
    /\ After(s, Datagram, session[s].handle,
             FinishResponse(session[s].delivery, "failed"))
    /\ UNCHANGED <<listener, written>>

\* The core could not build a response, or its question does not match the
\* request's: the handle is dropped pending.
CoreFails(s) ==
    /\ session[s].st = "resolving"
    /\ After(s, Datagram, session[s].handle, session[s].delivery)
    /\ UNCHANGED <<listener, written>>

\* CoreOutcome::NoResponse counts as a completed dispatch.
NoResponse(s) ==
    /\ session[s].st = "resolving"
    /\ After(s, GoesOn(s), session[s].handle, session[s].delivery)
    /\ UNCHANGED <<listener, written>>

\* The request's deadline fires while it is resolved or written: the
\* dispatch future is dropped, the handle cancelled, the connection closed.
DeadlineFires(s) ==
    /\ session[s].st \in {"resolving", "writing"}
    /\ After(s, Datagram, Claim(session[s].handle, "cancelled"),
             session[s].delivery)
    /\ UNCHANGED <<listener, written>>

\* Shutdown while a request is resolved or written.
CutSession(s) ==
    /\ listener.cut
    /\ session[s].st \in {"resolving", "writing"}
    /\ IF Datagram
       THEN /\ session' = [session EXCEPT ![s] = IdleSession]
            /\ listener' = [listener EXCEPT !.st = "joining"]
            /\ runtime' = [runtime EXCEPT !.admitted = @ - 1]
       ELSE /\ After(s, FALSE, Claim(session[s].handle, "cancelled"),
                     session[s].delivery)
            /\ UNCHANGED listener
    /\ UNCHANGED written

SessionStep(s) ==
    \/ ReadRetired(s) \/ ReadEnds(s) \/ ReceiveFails(s) \/ ReadRejected(s)
    \/ WriteHttpError(s) \/ HttpErrorFails(s) \/ ReadDatagram(s) \/ ReadFrame(s) \/ ReadHttp(s)
    \/ ReadUndecodable(s) \/ ReadRefused(s) \/ ReadDraining(s)
    \/ Respond(s) \/ WriteDone(s) \/ WriteFails(s) \/ CoreFails(s)
    \/ NoResponse(s) \/ DeadlineFires(s) \/ CutSession(s)

InboundNext ==
    \/ \E s \in SessionSlots : AcceptSession(s) \/ JoinSession(s) \/ SessionStep(s)
    \/ AcceptFails \/ StopAccepting \/ ListenerEnds
    \/ CancelListener \/ RetireRuntime

InboundSpec == InboundInit /\ [][InboundNext]_inboundVars

\* Every read, write and resolution has a deadline, so a session makes
\* progress; the loop's own steps need nothing from outside.
InboundFairness ==
    /\ WF_inboundVars(StopAccepting)
    /\ WF_inboundVars(ListenerEnds)
    /\ \A s \in SessionSlots :
         /\ WF_inboundVars(JoinSession(s))
         /\ WF_inboundVars(SessionStep(s))

-----------------------------------------------------------------------------
(* A guard of the runtime is held exactly by the requests that are being   *)
(* resolved or written, over every way a request can end: answer, failure, *)
(* deadline, shutdown, no response.                                        *)
GuardsAreHeld ==
    runtime.admitted =
        Cardinality({s \in SessionSlots : session[s].st \in {"resolving", "writing"}})

(* What the request's trace reports is what happened on the wire: the last *)
(* request of a session is reported as sent if and only if its answer was  *)
(* written, and no request is left unreported once the session moves on.   *)
DeliveryIsTrue ==
    \A s \in SessionSlots :
      LET answered == session[s].read \in {written[s][i] : i \in 1..Len(written[s])}
      IN /\ session[s].delivery = "sent" => answered
         /\ session[s].handle = "cancelled" => ~answered
         /\ session[s].st \in {"reading", "done"} /\ session[s].handle # "none" =>
                /\ session[s].delivery # "pending"
                /\ answered => session[s].delivery = "sent"

(* Retirement of a runtime by a reload lets its sessions finish the        *)
(* request they are serving; only a shutdown or a failed listener cuts     *)
(* them.                                                                   *)
RetirementIsGraceful == listener.cut => listener.cancelled \/ listener.failed

(* A listener that is told to stop, or whose runtime is retired, ends.     *)
ToldToStop == listener.cancelled \/ runtime.draining
ListenerStops == ToldToStop ~> listener.st = "ended"

-----------------------------------------------------------------------------
(* The trace of one request (backend/src/dns/trace.rs): the response       *)
(* handle and the cache commit each record how their part ended, and the   *)
(* detail projection waits until both have, for a bounded time.            *)

VARIABLES
    trace,   \* RequestTraceSnapshot behind the watch channel
    owners,  \* who still holds the right to record something
    report   \* what settled() returned to the detail projection

NoReport == [none |-> TRUE]

ResponseDelivery == {"pending", "sent", "failed", "cancelled"}
CacheOutcome == {"inserted", "updated", "rejected", "conflict", "failed", "skipped",
                 "coalesced"}
Activity == {"none", "pending", "dropped"} \cup CacheOutcome

TraceTypeOK ==
    /\ trace \in [response : ResponseDelivery, cache : Activity]
    /\ owners \in [handle : BOOLEAN, guard : BOOLEAN, published : BOOLEAN]
    /\ report \in {NoReport} \cup [response : ResponseDelivery \cup {"unrecorded"},
                                   cache : Activity \cup {"unrecorded"}]

TraceInit ==
    /\ trace = [response |-> "pending", cache |-> "none"]
    /\ owners = [handle |-> TRUE, guard |-> FALSE, published |-> FALSE]
    /\ report = NoReport

\* begin_cache for a candidate, before its event is published.
BeginCache ==
    /\ ~owners.published /\ ~owners.guard /\ trace.cache = "none"
    /\ trace.response = "pending"
    /\ trace' = [trace EXCEPT !.cache = "pending"]
    /\ owners' = [owners EXCEPT !.guard = TRUE]
    /\ UNCHANGED report

Publish ==
    /\ ~owners.published
    /\ owners' = [owners EXCEPT !.published = TRUE]
    /\ UNCHANGED <<trace, report>>

\* The core has published by the time the handle answers; a request that is
\* cut before that drops its handle.
RecordResponse(outcome) ==
    /\ owners.handle
    /\ outcome # "cancelled" => owners.published
    /\ trace' = [trace EXCEPT !.response = IF @ = "pending" THEN outcome ELSE @]
    /\ owners' = [owners EXCEPT !.handle = FALSE]
    /\ UNCHANGED report

RecordCache(outcome) ==
    /\ owners.guard /\ owners.published
    /\ trace' = [trace EXCEPT !.cache = outcome]
    /\ owners' = [owners EXCEPT !.guard = FALSE]
    /\ UNCHANGED report

\* A full queue, a cancelled task or a panic drops the guard.
DropGuard ==
    /\ owners.guard
    /\ trace' = [trace EXCEPT !.cache = "dropped"]
    /\ owners' = [owners EXCEPT !.guard = FALSE]
    /\ UNCHANGED report

Settled(t) == t.response # "pending" /\ t.cache # "pending"

Settle ==
    /\ owners.published /\ report = NoReport
    /\ Settled(trace)
    /\ report' = trace
    /\ UNCHANGED <<trace, owners>>

\* The budget of the projection ends first.
SettleTimesOut ==
    /\ owners.published /\ report = NoReport
    /\ report' = [response |-> IF trace.response = "pending" THEN "unrecorded"
                                                           ELSE trace.response,
                  cache |-> IF trace.cache = "pending" THEN "unrecorded" ELSE trace.cache]
    /\ UNCHANGED <<trace, owners>>

TraceNext ==
    \/ BeginCache \/ Publish \/ DropGuard \/ Settle \/ SettleTimesOut
    \/ \E o \in {"sent", "failed", "cancelled"} : RecordResponse(o)
    \/ \E o \in CacheOutcome : RecordCache(o)

(* What the detail record says of a request stays true: a recorded         *)
(* delivery or cache outcome is the final one, however late the other half *)
(* of the request ends.                                                    *)
ReportIsFinal ==
    report # NoReport =>
        /\ report.response # "unrecorded" => report.response = trace.response
        /\ report.cache # "unrecorded" => report.cache = trace.cache
=============================================================================
