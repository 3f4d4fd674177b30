----------------------------- MODULE MetricsWindow -----------------------------
(***************************************************************************)
(* The service metrics of the management page: the ring of one-second      *)
(* buckets that requests are counted in, the online identities, and the    *)
(* snapshots and deltas made from them (management/metrics.rs), pushed to  *)
(* a subscription (management/events.rs) and joined to one series by the   *)
(* browser (frontend shared/api/metricsSeries.ts).                         *)
(*                                                                         *)
(* A request reads the clock before it takes the lock, so its second may   *)
(* be past when it is counted.  Values that depend on the operating system *)
(* are left out.                                                           *)
(***************************************************************************)
EXTENDS Integers, Sequences, FiniteSets, FiniteSetsExt, SequencesExt

CONSTANTS
    Identities,      \* client identities
    MinuteSeconds,   \* seconds of a minute
    TrendMinutes,    \* RPM_TREND_MINUTES
    OnlineWindow,    \* ONLINE_WINDOW_SECONDS
    MaxOnline,       \* MAX_ONLINE_IDENTITIES
    MaxLate,         \* bound: seconds a request waits for the lock
    MaxElapsed,      \* bound: seconds of the run
    MaxRequests      \* bound: requests

VARIABLES
    elapsed,     \* seconds since the start
    buckets,     \* the ring: slot -> bucket
    online,      \* identity -> last second, -1 for none
    gapUntil,    \* online_gap_until, 0 for none
    recorder,    \* the request that has read the clock
    counted,     \* what was really counted: second -> [all, late]
    seen,        \* identity -> last second it was really seen in
    page,        \* the browser's series
    cursor       \* MetricsCursor of the subscription

metricsVars == <<elapsed, buckets, online, gapUntil, recorder, counted, seen, page, cursor>>

TrendSeconds == (TrendMinutes + 1) * MinuteSeconds

(* REQUEST_BUCKET_COUNT: one more than the longest trend *)
RingSize == TrendSeconds + 1

NoBucket == [second |-> 0, count |-> 0, occupied |-> FALSE]

Quiet == [on |-> FALSE, second |-> 0, who |-> CHOOSE i \in Identities : TRUE]

NoPage == [seconds |-> <<>>, minutes |-> <<>>, online |-> -1, baseline |-> FALSE, gap |-> FALSE]

MetricsInit ==
    /\ elapsed = 0 /\ gapUntil = 0 /\ recorder = Quiet
    /\ buckets = [s \in 0..(RingSize - 1) |-> NoBucket]
    /\ online = [i \in Identities |-> -1]
    /\ counted = [s \in 0..MaxElapsed |-> [all |-> 0, late |-> 0]]
    /\ seen = [i \in Identities |-> -1]
    /\ page = NoPage
    /\ cursor = [second |-> 0, minute |-> 0]

-----------------------------------------------------------------------------
(* Requests *)

(* record_request reads the clock ... *)
ReadClock(i) ==
    /\ ~recorder.on
    /\ FoldSet(LAMBDA s, n : n + counted[s].all, 0, DOMAIN counted) < MaxRequests
    /\ recorder' = [on |-> TRUE, second |-> elapsed, who |-> i]
    /\ UNCHANGED <<elapsed, buckets, online, gapUntil, counted, seen, page, cursor>>

(* The retain of online *)
Retained(o, second) == [i \in Identities |-> IF o[i] >= 0 /\ second - o[i] < OnlineWindow THEN o[i] ELSE -1]

Size(o) == Cardinality({i \in Identities : o[i] >= 0})

(* ... and record_request_at counts under the lock *)
Record ==
    LET s == recorder.second
        slot == s % RingSize
        old == IF buckets[slot].occupied /\ buckets[slot].second = s THEN buckets[slot].count ELSE 0
        kept == Retained(online, s)
    IN /\ recorder.on
       /\ buckets' = [buckets EXCEPT ![slot] = [second |-> s, count |-> old + 1, occupied |-> TRUE]]
       /\ IF kept[recorder.who] >= 0 \/ Size(kept) < MaxOnline
          THEN online' = [kept EXCEPT ![recorder.who] = s] /\ gapUntil' = gapUntil
          ELSE online' = kept /\ gapUntil' = s + OnlineWindow
       /\ counted' = [counted EXCEPT ![s].all = @ + 1, ![s].late = IF s < elapsed THEN @ + 1 ELSE @]
       /\ seen' = [seen EXCEPT ![recorder.who] = IF s > @ THEN s ELSE @]
       /\ recorder' = Quiet
       /\ UNCHANGED <<elapsed, page, cursor>>

NextSecond ==
    /\ elapsed < MaxElapsed
    /\ recorder.on => elapsed - recorder.second < MaxLate
    /\ elapsed' = elapsed + 1
    /\ UNCHANGED <<buckets, online, gapUntil, recorder, counted, seen, page, cursor>>

-----------------------------------------------------------------------------
(* Frames *)

(* count_at *)
CountAt(s) ==
    LET b == buckets[s % RingSize] IN IF b.occupied /\ b.second = s THEN b.count ELSE 0

(* second_samples *)
SecondSamples(first, last) ==
    [k \in 1..(last - first) |-> [at |-> first + k - 1, value |-> CountAt(first + k - 1)]]

(* minute_samples *)
MinuteSamples(first, last) ==
    [k \in 1..(last - first) |->
        LET from == (first + k - 1) * MinuteSeconds
        IN [at |-> first + k - 1,
            value |-> FoldSet(LAMBDA s, n : n + CountAt(s), 0, from..(from + MinuteSeconds - 1))]]

NotBelowZero(n) == IF n < 0 THEN 0 ELSE n

(* MetricsCursor::at *)
CursorAt(e) == [second |-> e, minute |-> e \div MinuteSeconds]

(* request_scalars: the online clients, -1 where they are not available *)
OnlineClients ==
    IF elapsed < OnlineWindow \/ elapsed < gapUntil THEN -1 ELSE Size(Retained(online, elapsed))

(* service_metrics_with_cursor_at, the clock read under the lock *)
Snapshot ==
    [seconds |-> SecondSamples(NotBelowZero(elapsed - TrendSeconds), elapsed),
     minutes |-> MinuteSamples(NotBelowZero((elapsed \div MinuteSeconds) - TrendMinutes), elapsed \div MinuteSeconds)]

(* service_metrics_delta_at: none where the cursor is too far behind *)
Behind ==
    \/ Min({cursor.second, elapsed}) < elapsed - TrendSeconds
    \/ Min({cursor.minute, elapsed \div MinuteSeconds}) < (elapsed \div MinuteSeconds) - TrendMinutes

Delta ==
    [seconds |-> SecondSamples(Min({cursor.second, elapsed}), elapsed),
     minutes |-> MinuteSamples(Min({cursor.minute, elapsed \div MinuteSeconds}), elapsed \div MinuteSeconds)]

(* slice(-n) *)
LastOf(s, n) == SubSeq(s, IF Len(s) > n THEN Len(s) - n + 1 ELSE 1, Len(s))

(* applyMetricsSnapshot *)
Baseline(frame) ==
    [seconds |-> LastOf(frame.seconds, TrendSeconds), minutes |-> LastOf(frame.minutes, TrendMinutes),
     online |-> OnlineClients, baseline |-> TRUE, gap |-> FALSE]

Contiguous(s) == \A k \in 2..Len(s) : s[k].at = s[k - 1].at + 1

(* applyMetricsDelta *)
Applied(frame) ==
    IF \/ ~page.baseline
       \/ /\ frame.seconds # <<>> /\ page.seconds # <<>>
          /\ Head(frame.seconds).at # Last(page.seconds).at + 1
       \/ ~Contiguous(frame.seconds) \/ ~Contiguous(frame.minutes)
    THEN [page EXCEPT !.gap = TRUE]
    ELSE [page EXCEPT !.seconds = LastOf(@ \o frame.seconds, TrendSeconds),
                      !.minutes = LastOf(@ \o frame.minutes, TrendMinutes),
                      !.online = OnlineClients]

(* subscribe_metrics: a baseline, again for every new connection *)
SubscribeMetrics ==
    /\ page' = Baseline(Snapshot)
    /\ cursor' = CursorAt(elapsed)
    /\ online' = Retained(online, elapsed)
    /\ UNCHANGED <<elapsed, buckets, gapUntil, recorder, counted, seen>>

(* The metrics tick of run_connection; ticks may be skipped *)
MetricsTick ==
    /\ page.baseline /\ ~page.gap
    /\ page' = IF Behind THEN Baseline(Snapshot) ELSE Applied(Delta)
    /\ cursor' = CursorAt(elapsed)
    /\ online' = Retained(online, elapsed)
    /\ UNCHANGED <<elapsed, buckets, gapUntil, recorder, counted, seen>>

MetricsNext ==
    \/ Record \/ NextSecond \/ SubscribeMetrics \/ MetricsTick
    \/ \E i \in Identities : ReadClock(i)

MetricsSpec == MetricsInit /\ [][MetricsNext]_metricsVars

-----------------------------------------------------------------------------
(* Properties *)

MetricsTypeOK ==
    /\ elapsed \in 0..MaxElapsed
    /\ \A s \in DOMAIN buckets : buckets[s].occupied => buckets[s].second % RingSize = s
    /\ Size(online) <= MaxOnline
    /\ Len(page.seconds) <= TrendSeconds /\ Len(page.minutes) <= TrendMinutes

LateIn(seconds) == FoldSet(LAMBDA s, n : n + counted[s].late, 0, seconds)

AllIn(seconds) == FoldSet(LAMBDA s, n : n + counted[s].all, 0, seconds)

Plausible(value, seconds) == value \in (AllIn(seconds) - LateIn(seconds))..AllIn(seconds)

(* The browser's series never has a hole and shows for every second and    *)
(* every minute the requests of that time, but for those counted after     *)
(* their second was over.  It rests on the spare slot of the ring, on the  *)
(* clock read under the lock, and on deltas that continue where the        *)
(* baseline or the last delta ended, whatever ticks were skipped.          *)
SeriesIsExact ==
    /\ ~page.gap
    /\ Contiguous(page.seconds) /\ Contiguous(page.minutes)
    /\ \A k \in DOMAIN page.seconds : Plausible(page.seconds[k].value, {page.seconds[k].at})
    /\ \A k \in DOMAIN page.minutes :
        LET from == page.minutes[k].at * MinuteSeconds
        IN Plausible(page.minutes[k].value, from..(from + MinuteSeconds - 1))

(* Where the number of online clients is given, it is the number of        *)
(* identities seen within the window: a client the full table had no place *)
(* for makes the number unavailable for as long as it would have counted.  *)
(* This is said of behaviours in which every request is recorded in the    *)
(* order of its time; one recorded late may turn its client back.          *)
OnlineIsExact ==
    LateIn(DOMAIN counted) = 0 /\ OnlineClients >= 0 =>
        OnlineClients = Cardinality({i \in Identities : seen[i] >= 0 /\ elapsed - seen[i] < OnlineWindow})
================================================================================
