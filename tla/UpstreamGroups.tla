---------------------------- MODULE UpstreamGroups ----------------------------
(***************************************************************************)
(* The execution of one request by an upstream group (upstream/executor.rs, *)
(* group.rs, outcome.rs) over DoH members (upstream/doh.rs): the selection *)
(* of the first member, the ordered and the parallel attempts, the         *)
(* aggregation of their outcomes, the fallback phase, and the attempts     *)
(* that finish after a parallel phase has answered.                        *)
(*                                                                         *)
(* What each member will reply is chosen in advance (the variable reply),  *)
(* so that a property can compare the answer with what the replies deserve *)
(* whatever the order in which they arrive.  A nested group is a member    *)
(* whose reply is its own aggregated outcome.                              *)
(***************************************************************************)
EXTENDS Integers, Sequences, FiniteSets, FiniteSetsExt, SequencesExt

CONSTANTS Members,       \* 1 .. n, the members of the primary phase, in order
          Weight,        \* their weights, for the two weighted modes
          Backups,       \* 1 .. m, the members of the fallback phase
          Replies,       \* what a member may reply
          MaxPicks,      \* cap on the round robin selections of other requests
          MaxOthers      \* cap on the load balanced requests besides this one

VARIABLES mode,      \* phase -> its selection policy
          reply,     \* phase -> member -> its reply
          selector,  \* smooth weights, load counters, cursor and picks made
          req,       \* the request
          late       \* attempts the late sink was given

groupVars == <<mode, reply, selector, req, late>>

Modes == {"parallel", "round_robin", "load_balance", "failover"}
Phases == {"primary", "fallback"}
MembersOf(p) == IF p = "primary" THEN Members ELSE Backups

(***************************************************************************)
(* One exchange: the HTTP reply as an outcome.                             *)
(***************************************************************************)
Answer(class) == [kind |-> "response", class |-> class, retryable |-> FALSE]
Failure(retryable) == [kind |-> "failure", class |-> "none", retryable |-> retryable]
Cancelled == [kind |-> "cancelled", class |-> "none", retryable |-> FALSE]

PortErrors == {"timeout", "unreachable", "exhausted", "protocol", "internal"}

\* A port error of the HTTP transport (map_port_error).
PortOutcome(r) == Failure(r \in {"timeout", "unreachable", "exhausted"})

\* A HTTP response: status, media type, size and DNS message are checked in
\* this order (validate_response); only some statuses may be retried.
HttpOutcome(r) ==
    CASE r \in {"http429", "http503"} -> Failure(TRUE)
      [] r \in {"http404", "media_type", "oversize", "bad_wire", "other_question"} -> Failure(FALSE)
      [] OTHER -> Answer(r)

\* DohUpstream::exchange
Outcome(r) == IF r \in PortErrors THEN PortOutcome(r) ELSE HttpOutcome(r)

(***************************************************************************)
(* Aggregation (outcome.rs).                                               *)
(***************************************************************************)
\* assess: the next candidate may be asked.
MayContinue(o) ==
    \/ o.kind = "response" /\ o.class \in {"servfail", "truncated"}
    \/ o.kind = "failure" /\ o.retryable

\* response_preference
Preference(class) ==
    CASE class = "positive" -> 3
      [] class = "nodata" -> 2
      [] class \in {"servfail", "truncated"} -> 0
      [] OTHER -> 1

ShouldEnterFallback(attempts) ==
    attempts # {} /\ \A a \in attempts : MayContinue(a.outcome)

\* Attempts after an outcome that forbids further candidates do not count.
Counted(m, attempts) ==
    {a \in attempts :
        \/ a.outcome.kind = "cancelled"
        \/ m = "parallel"
        \/ ~ \E b \in attempts :
              b.index < a.index /\ b.outcome.kind = "failure" /\ ~b.outcome.retryable}

Selectable(m, attempts) ==
    {a \in Counted(m, attempts) : a.outcome.kind = "response" /\ ~MayContinue(a.outcome)}

\* The first response in configuration order; in parallel the most preferred.
Selected(m, attempts) ==
    LET s == Selectable(m, attempts)
        best == IF m = "parallel"
                THEN {a \in s : \A b \in s :
                         Preference(b.outcome.class) <= Preference(a.outcome.class)}
                ELSE s
    IN CHOOSE a \in best : \A b \in best : a.index <= b.index

ServFail == [connector |-> 0, outcome |-> Answer("servfail")]

\* aggregate_with_connector: the request's cancellation, then a response, else
\* a synthetic SERVFAIL without a connector.
Aggregate(m, attempts) ==
    LET stopped == {a \in attempts : a.outcome = Cancelled}
        chosen == IF stopped # {} THEN CHOOSE a \in stopped : TRUE ELSE Selected(m, attempts)
    IN IF stopped = {} /\ Selectable(m, attempts) = {}
       THEN ServFail
       ELSE [connector |-> chosen.member, outcome |-> chosen.outcome]

(***************************************************************************)
(* Selection of the first member (group.rs).                               *)
(***************************************************************************)
TotalWeight == FoldFunction(+, 0, Weight)

\* smooth_select: every weight is added, the largest is chosen (the first one
\* of equals) and pays the total.
SmoothSelect(current) ==
    LET raised == [i \in Members |-> current[i] + Weight[i]]
        first == CHOOSE i \in Members : \A j \in Members :
                    raised[j] < raised[i] \/ (raised[j] = raised[i] /\ i <= j)
    IN [index |-> first, current |-> [raised EXCEPT ![first] = @ - TotalWeight]]

\* load_balance_index: from the cursor on, the first member with the least
\* load per weight.
LoadBalanceIndex(s) ==
    LET n == Cardinality(Members)
        at(k) == ((s.cursor + k) % n) + 1
        less(i, j) == s.load[i] * Weight[j] < s.load[j] * Weight[i]
        k == CHOOSE x \in 0 .. n - 1 :
                /\ \A y \in 0 .. n - 1 : ~less(at(y), at(x))
                /\ \A y \in 0 .. x - 1 : less(at(x), at(y))
    IN at(k)

\* select_primary, acquire_primary: the member and the state afterwards.
PickPrimary(s) ==
    CASE mode.primary = "round_robin" ->
            LET r == SmoothSelect(s.current)
            IN [index |-> r.index,
                state |-> [s EXCEPT !.current = r.current, !.picks[r.index] = @ + 1]]
      [] mode.primary = "load_balance" ->
            LET i == LoadBalanceIndex(s)
            IN [index |-> i,
                state |-> [s EXCEPT !.load[i] = @ + 1,
                                    !.cursor = (@ + 1) % Cardinality(Members)]]
      [] OTHER -> [index |-> 1, state |-> s]

\* ordered_candidates: the primary, then the others in configuration order.
Candidates(p, primary) ==
    <<primary>> \o SetToSortSeq(MembersOf(p) \ {primary}, <)

-----------------------------------------------------------------------------
NoRequest == [at |-> "idle", phase |-> "primary", first |-> 1, queue |-> <<>>,
              running |-> {}, attempts |-> {}, sink |-> FALSE, answer |-> ServFail,
              cut |-> FALSE]

GroupInit ==
    /\ mode \in [primary : Modes, fallback : {"parallel", "failover"}]
    /\ reply \in [primary : [Members -> Replies], fallback : [Backups -> Replies]]
    /\ selector = [current |-> [i \in Members |-> 0], load |-> [i \in Members |-> 0],
                   picks |-> [i \in Members |-> 0], cursor |-> 0]
    /\ req = NoRequest
    /\ late = {}

\* A phase starts: an ordered one with its candidates, a parallel one with a
\* task for every member (execute_phase).
Entered(r, p, first) ==
    [r EXCEPT !.at = "running", !.phase = p, !.first = first, !.attempts = {},
              !.queue = IF mode[p] = "parallel" THEN <<>> ELSE Candidates(p, first),
              !.running = IF mode[p] = "parallel" THEN MembersOf(p) ELSE {}]

Execute(sink) ==
    /\ req.at = "idle"
    /\ LET pick == PickPrimary(selector)
       IN /\ selector' = pick.state
          /\ req' = [Entered(req, "primary", pick.index) EXCEPT !.sink = sink]
    /\ UNCHANGED <<mode, reply, late>>

Tried(r, index, i, o) ==
    [r EXCEPT !.attempts = @ \cup {[index |-> index, member |-> i, outcome |-> o]}]

EntersFallback(r) == r.phase = "primary" /\ ShouldEnterFallback(r.attempts)

\* The phase is over: it is aggregated, or the fallback is entered if the
\* attempts allow it and the request itself has time left (execute_inner).
Concluded(r, expired) ==
    IF EntersFallback(r) /\ ~expired /\ Backups # {}
    THEN Entered([r EXCEPT !.running = {}], "fallback", 1)
    ELSE [r EXCEPT !.at = "done", !.queue = <<>>,
                   !.answer = Aggregate(mode[r.phase], r.attempts)]

\* The lease of a load balanced phase is dropped with the phase, also when the
\* request's future is dropped (SelectionLease::drop).
LeaseAfter(r) ==
    IF /\ mode.primary = "load_balance"
       /\ req.phase = "primary"
       /\ r.at = "done" \/ r.phase = "fallback"
    THEN [selector EXCEPT !.load[req.first] = @ - 1]
    ELSE selector

\* One turn of execute_ordered_members: the next candidate is asked, and the
\* search ends with an outcome that stops it, the last candidate or the
\* deadline of the phase.  Past the deadline the outcome is a timeout unless
\* the reply came just before.
OrderedAttempt(expired, own) ==
    /\ req.at = "running"
    /\ req.queue # <<>>
    /\ own => expired
    /\ \E o \in {Outcome(reply[req.phase][Head(req.queue)])}
                  \cup (IF expired THEN {Failure(TRUE)} ELSE {}) :
          LET r == [Tried(req, Cardinality(req.attempts) + 1, Head(req.queue), o) EXCEPT
                       !.queue = Tail(@), !.cut = @ \/ expired]
              next == IF ~MayContinue(o) \/ expired \/ r.queue = <<>>
                      THEN Concluded(r, own) ELSE r
          IN req' = next /\ selector' = LeaseAfter(next)
    /\ UNCHANGED <<mode, reply, late>>

\* A mutant: any response that stops the search ends a parallel phase at once.
CompleteResponse_Stop(o) == o.kind = "response" /\ ~MayContinue(o)

\* complete_response: only a positive answer ends a parallel phase early.
CompleteResponse(o) == o.kind = "response" /\ o.class = "positive"

\* A task of execute_parallel is joined.  After a positive answer the other
\* tasks are left to the late sink; without one they are aborted.
ParallelAttempt(i) ==
    /\ req.at = "running"
    /\ i \in req.running
    /\ LET o == Outcome(reply[req.phase][i])
           r == [Tried(req, i, i, o) EXCEPT
                    !.running = IF CompleteResponse(o) /\ ~req.sink THEN {} ELSE @ \ {i}]
       IN req' = IF CompleteResponse(o) \/ r.running = {} THEN Concluded(r, FALSE) ELSE r
    /\ UNCHANGED <<mode, reply, selector, late>>

\* The deadline of a parallel phase passes: what still runs has timed out.
ParallelTimeout(own) ==
    /\ req.at = "running"
    /\ req.running # {}
    /\ LET out == {[index |-> i, member |-> i, outcome |-> Failure(TRUE)] : i \in req.running}
           r == [req EXCEPT !.attempts = @ \cup out, !.running = {}, !.cut = TRUE]
       IN req' = Concluded(r, own)
    /\ UNCHANGED <<mode, reply, selector, late>>

Submitted(o) == o.kind = "response"

\* late_attempt_drain: responses go to the sink, everything else is skipped.
LateAttempt(i) ==
    /\ req.at = "done"
    /\ i \in req.running
    /\ LET o == Outcome(reply[req.phase][i])
       IN late' = IF Submitted(o) THEN late \cup {[index |-> i, member |-> i, outcome |-> o]}
                  ELSE late
    /\ req' = [req EXCEPT !.running = @ \ {i}]
    /\ UNCHANGED <<mode, reply, selector>>

\* A task that fails ends the phase with an error, and the drain without one;
\* the other tasks are aborted with the set.
TaskFails ==
    /\ req.running # {}
    /\ req' = [req EXCEPT !.at = "done", !.running = {}, !.cut = TRUE,
                          !.answer = IF req.at = "done" THEN @ ELSE [ServFail EXCEPT !.outcome = Failure(FALSE)]]
    /\ UNCHANGED <<mode, reply, selector, late>>

\* The request is cancelled: the current attempt, or the whole parallel phase,
\* becomes one cancelled attempt.
CancelRequest ==
    /\ req.at = "running"
    /\ LET i == IF req.queue = <<>> THEN 1 ELSE Head(req.queue)
           kept == IF req.queue = <<>> THEN {} ELSE req.attempts
           r == [req EXCEPT !.running = {}, !.queue = <<>>, !.cut = TRUE,
                            !.attempts = kept \cup
                               {[index |-> Cardinality(kept) + 1, member |-> i, outcome |-> Cancelled]}]
       IN req' = Concluded(r, FALSE) /\ selector' = LeaseAfter(Concluded(r, FALSE))
    /\ UNCHANGED <<mode, reply, late>>

\* Other requests use the same selector.
OtherSelects ==
    /\ mode.primary \in {"round_robin", "load_balance"}
    /\ req.at = "idle"
    /\ FoldFunction(+, 0, selector.picks) < MaxPicks
    /\ FoldFunction(+, 0, selector.load) < MaxOthers
    /\ selector' = PickPrimary(selector).state
    /\ UNCHANGED <<mode, reply, req, late>>

OtherEnds(i) ==
    /\ req.at = "idle"
    /\ selector.load[i] > 0
    /\ selector' = [selector EXCEPT !.load[i] = @ - 1]
    /\ UNCHANGED <<mode, reply, req, late>>

GroupNext ==
    \/ \E sink \in BOOLEAN : Execute(sink)
    \/ \E expired, own \in BOOLEAN : OrderedAttempt(expired, own)
    \/ \E own \in BOOLEAN : ParallelTimeout(own)
    \/ \E i \in Members \cup Backups : ParallelAttempt(i) \/ LateAttempt(i)
    \/ CancelRequest \/ TaskFails \/ OtherSelects
    \/ \E i \in Members : OtherEnds(i)

GroupSpec == GroupInit /\ [][GroupNext]_groupVars

-----------------------------------------------------------------------------
\* Every variable has its type.
GroupTypeOK ==
    /\ selector.current \in [Members -> Int]
    /\ selector.load \in [Members -> Nat]
    /\ req.at \in {"idle", "running", "done"}
    /\ req.phase \in Phases
    /\ req.running \subseteq MembersOf(req.phase)
    /\ \A a \in req.attempts \cup late : a.member \in MembersOf(req.phase)

\* What the replies of a phase deserve: in parallel the best response of any
\* member, in an ordered phase the first reply in order that is final.
Deserved(p, first) ==
    LET o(i) == Outcome(reply[p][i])
        final == {i \in MembersOf(p) : ~MayContinue(o(i))}
        order == SelectSeq(Candidates(p, first), LAMBDA i : i \in final)
        best == {c \in {"positive", "nodata", "nxdomain"} : \E i \in final : o(i) = Answer(c)}
    IN CASE final = {} -> Answer("servfail")
         [] mode[p] = "parallel" ->
               IF "positive" \in best THEN Answer("positive")
               ELSE IF "nodata" \in best THEN Answer("nodata")
               ELSE IF best # {} THEN Answer("nxdomain") ELSE Answer("servfail")
         [] OTHER -> IF o(order[1]).kind = "response" THEN o(order[1]) ELSE Answer("servfail")

\* A request that no deadline, cancellation or failed task has cut gets what
\* the replies of its members deserve, in whatever order they arrive: an early
\* negative answer does not hide the positive one of a slower parallel member,
\* a broken member does not hide the others, the fallback is asked exactly when
\* no primary member was final, and the answer is credited to a member that
\* gave it (execute_inner, execute_parallel, aggregate_with_connector).
AnswerIsDeserved ==
    (req.at = "done" /\ ~req.cut) =>
        LET primary == \E i \in Members : ~MayContinue(Outcome(reply.primary[i]))
            p == IF primary THEN "primary" ELSE "fallback"
        IN /\ req.phase = p
           /\ req.answer.outcome = Deserved(p, req.first)
           /\ req.answer.connector # 0 =>
                 Outcome(reply[p][req.answer.connector]) = req.answer.outcome

\* Smooth weighted round robin is fair: after every full cycle each member was
\* chosen exactly as often as its weight, whoever asked in between
\* (smooth_select).
RoundRobinIsFair ==
    LET n == FoldFunction(+, 0, selector.picks)
    IN n % TotalWeight = 0 =>
          \A i \in Members : selector.picks[i] = Weight[i] * (n \div TotalWeight)

\* Once the tasks of a request with a late sink are joined, every response of
\* its parallel phase was either weighed in the answer or handed to the sink,
\* and never both (execute_parallel, late_attempt_drain).
NoResponseIsLost ==
    (req.at = "done" /\ ~req.cut /\ req.sink /\ req.running = {} /\ mode[req.phase] = "parallel") =>
        \A i \in MembersOf(req.phase) :
            LET a == [index |-> i, member |-> i, outcome |-> Outcome(reply[req.phase][i])]
            IN a.outcome.kind = "response" => (a \in req.attempts) # (a \in late)
=============================================================================
