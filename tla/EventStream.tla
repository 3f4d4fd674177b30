------------------------------ MODULE EventStream ------------------------------
(***************************************************************************)
(* The stream of committed query records to a browser: the commit clock    *)
(* and its broadcast channel (storage/detail_query.rs), the replay buffer  *)
(* and its collector, a connection with its query subscription and its     *)
(* bounded outbound queue (management/events.rs), and the browser that     *)
(* takes an HTTP snapshot, subscribes after it and resumes after a lost    *)
(* connection (frontend shared/api/events.ts).                             *)
(*                                                                         *)
(* Transactions are numbered; a commit of the running epoch with sequence  *)
(* s is transaction base + s.  A commit's records go out in ChunksOf       *)
(* messages of at most 100 records.  The browser's page holds every record *)
(* it has seen, as pairs <<transaction, chunk>>.  A transaction whose      *)
(* commit takes effect after its deadline is never announced; it is no     *)
(* transaction here.                                                       *)
(***************************************************************************)
EXTENDS Integers, Sequences, FiniteSets, SequencesExt

CONSTANTS
    ChunksOf,         \* transaction -> messages its records take
    MaxTx,            \* bound: transactions
    ChannelCapacity,  \* COMMIT_CHANNEL_CAPACITY
    ReplayLimit,      \* REPLAY_RECORDS and REPLAY_BYTES, in messages
    QueueLimit,       \* WS_QUEUE_MESSAGES and WS_QUEUE_BYTES
    MaxStreamFaults,  \* bound: failing projections and lost connections
    MaxRestarts,      \* bound: restarts of the process
    MaxRetention      \* bound: changes of the retention revision

VARIABLES
    store,    \* transactions, commit clock, epoch, retention revision
    read,     \* notifications the collector has taken from the channel
    replay,   \* ReplayState
    conn,     \* the server's side of the connection
    browser,  \* the page
    mishaps   \* faults and restarts so far

streamVars == <<store, read, replay, conn, browser, mishaps>>

(* DetailQueryState::new at a start of the process *)
FreshStore(tx, epoch, retention) ==
    [tx |-> tx, base |-> tx, seq |-> 0, sent |-> 0, epoch |-> epoch, retention |-> retention]

(* ReplayState::new *)
FreshReplay(epoch) ==
    [epoch |-> epoch, current |-> 0, floor |-> 0, reason |-> "cursor_expired", entries |-> <<>>]

NoSub == [on |-> FALSE, seq |-> 0, epoch |-> 0, retention |-> 0]

(* from: the cursor the connection's subscription began with (history) *)
Closed == [open |-> FALSE, sub |-> NoSub, queue |-> <<>>, from |-> 0]

StreamInit ==
    /\ store = FreshStore(0, 1, 0)
    /\ read = 0
    /\ replay = FreshReplay(1)
    /\ conn = Closed
    /\ browser = [phase |-> "cold", seq |-> 0, epoch |-> 1, retention |-> 0, rows |-> {}]
    /\ mishaps = [faults |-> 0, restarts |-> 0]

PartsOf(tx) == {<<tx, c>> : c \in 1..ChunksOf[tx]}

-----------------------------------------------------------------------------
(* The detail writer *)

(* A flush commits its transaction *)
CommitTransaction ==
    /\ store.tx < MaxTx
    /\ store' = [store EXCEPT !.tx = @ + 1]
    /\ UNCHANGED <<read, replay, conn, browser, mishaps>>

(* publish_commit: the commit clock, under its mutex *)
AdvanceClock ==
    /\ store.seq = store.sent /\ store.base + store.seq < store.tx
    /\ store' = [store EXCEPT !.seq = @ + 1]
    /\ UNCHANGED <<read, replay, conn, browser, mishaps>>

(* publish_commit: the notification *)
SendCommit ==
    /\ store.sent < store.seq
    /\ store' = [store EXCEPT !.sent = @ + 1]
    /\ UNCHANGED <<read, replay, conn, browser, mishaps>>

(* advance_retention_revision *)
ChangeRetention ==
    /\ store.retention < MaxRetention
    /\ store' = [store EXCEPT !.retention = @ + 1]
    /\ UNCHANGED <<read, replay, conn, browser, mishaps>>

(* The process is started again: epoch, clock and connections are new *)
Restart ==
    /\ mishaps.restarts < MaxRestarts
    /\ mishaps' = [mishaps EXCEPT !.restarts = @ + 1]
    /\ store' = FreshStore(store.tx, store.epoch + 1, 0)
    /\ read' = 0
    /\ replay' = FreshReplay(store.epoch + 1)
    /\ conn' = Closed
    /\ browser' = IF browser.phase = "live" THEN [browser EXCEPT !.phase = "ready"] ELSE browser

-----------------------------------------------------------------------------
(* The replay buffer *)

MarkGap_KeepFloor(r, seq) == [r EXCEPT !.current = seq, !.reason = "observation_gap", !.entries = <<>>]

(* ReplayState::mark_gap *)
MarkGap(r, seq) ==
    [r EXCEPT !.current = seq, !.floor = seq, !.reason = "observation_gap", !.entries = <<>>]

(* ReplayState::pop_front *)
PopFront(r, reason) ==
    IF r.entries = <<>> THEN r
    ELSE [r EXCEPT !.entries = Tail(@), !.reason = reason,
                   !.floor = IF Head(r.entries).seq > @ THEN Head(r.entries).seq ELSE @]

RECURSIVE Prune(_)
(* ReplayState::prune: what has been held for REPLAY_SECONDS *)
Prune(r) ==
    IF r.entries # <<>> /\ Head(r.entries).old THEN Prune(PopFront(r, "cursor_expired")) ELSE r

Held(r) == FoldLeft(LAMBDA n, e : n + e.chunks, 0, r.entries)

RECURSIVE Shrink(_)
(* The last loop of push *)
Shrink(r) == IF Held(r) > ReplayLimit THEN Shrink(PopFront(r, "buffer_overflow")) ELSE r

(* ReplayState::push *)
Push(r, seq) ==
    IF seq # r.current + 1 THEN MarkGap(r, seq)
    ELSE Shrink(Prune([r EXCEPT !.current = seq,
                                !.entries = Append(@, [seq |-> seq, chunks |-> ChunksOf[store.base + seq], old |-> FALSE])]))

(* collect_commits: a notification, or the news that some were overwritten *)
Collect ==
    /\ read < store.sent
    /\ IF store.sent - read > ChannelCapacity
       THEN read' = store.sent - ChannelCapacity /\ replay' = MarkGap(replay, store.seq)
       ELSE read' = read + 1 /\ replay' = Push(replay, read + 1)
    /\ UNCHANGED <<store, conn, browser, mishaps>>

(* collect_commits: its tick *)
RetentionTick ==
    /\ replay.entries # <<>> /\ Head(replay.entries).old
    /\ replay' = Prune(replay)
    /\ UNCHANGED <<store, read, conn, browser, mishaps>>

(* A minute passes for the oldest entries *)
GrowOld ==
    /\ \E k \in DOMAIN replay.entries :
        /\ ~replay.entries[k].old
        /\ replay' = [replay EXCEPT !.entries =
                        [i \in DOMAIN @ |-> IF i <= k THEN [@[i] EXCEPT !.old = TRUE] ELSE @[i]]]
    /\ UNCHANGED <<store, read, conn, browser, mishaps>>

-----------------------------------------------------------------------------
(* The connection *)

(* replay_after, on the pruned buffer r *)
ReplayAfter(r, sub) ==
    CASE sub.retention # store.retention -> [kind |-> "resync", reason |-> "retention_changed"]
      [] sub.epoch # r.epoch -> [kind |-> "resync", reason |-> "epoch_changed"]
      [] sub.seq > r.current /\ sub.seq <= store.seq -> [kind |-> "pending"]
      [] sub.seq > r.current -> [kind |-> "resync", reason |-> "cursor_expired"]
      [] sub.seq < r.floor -> [kind |-> "resync", reason |-> r.reason]
      [] OTHER -> [kind |-> "ready", entries |-> SelectSeq(r.entries, LAMBDA e : e.seq > sub.seq)]

(* The messages of a commit: every chunk carries the commit's cursor *)
MessagesOf(seq) ==
    [c \in 1..ChunksOf[store.base + seq] |->
        [kind |-> "queries", seq |-> seq, part |-> <<store.base + seq, c>>]]

ResyncMessage == <<[kind |-> "resync", seq |-> 0, part |-> <<0, 0>>]>>

(* Outbound::message: the queue takes it, or the connection is closed as a *)
(* slow consumer and the writer drops what is queued                       *)
Queued(c, messages) ==
    IF Len(c.queue) + Len(messages) <= QueueLimit THEN [c EXCEPT !.queue = @ \o messages] ELSE Closed

(* queue_query_updates: the commits after the cursor, up to one whose      *)
(* projection fails                                                        *)
QueueUpdates(c, sub, r) ==
    LET found == ReplayAfter(r, sub)
    IN CASE found.kind = "pending" -> {[c EXCEPT !.sub = sub]}
         [] found.kind = "resync" -> {Queued([c EXCEPT !.sub = NoSub], ResyncMessage)}
         [] OTHER ->
            LET Prefix(k) == FlattenSeq([i \in 1..k |-> MessagesOf(found.entries[i].seq)])
                Fits(k) == Len(c.queue) + Len(Prefix(k)) <= QueueLimit
                all == Len(found.entries)
                After(k) == IF k = 0 THEN sub ELSE [sub EXCEPT !.seq = found.entries[k].seq]
            IN {IF Fits(all) THEN [c EXCEPT !.sub = After(all), !.queue = @ \o Prefix(all)] ELSE Closed}
               \cup {IF Fits(k) THEN Queued([c EXCEPT !.sub = NoSub, !.queue = @ \o Prefix(k)], ResyncMessage)
                     ELSE Closed : k \in IF mishaps.faults < MaxStreamFaults THEN 0..(all - 1) ELSE {}}

(* A connection the server closed is seen closed by the browser, which     *)
(* reconnects                                                              *)
SeenBy(b, c) == IF c.open THEN b ELSE [b EXCEPT !.phase = "ready"]

(* The counted fault of a projection that failed *)
CountFault(c) ==
    mishaps' = [mishaps EXCEPT !.faults =
        IF c.open /\ ~c.sub.on /\ ReplayAfter(Prune(replay), conn.sub).kind = "ready" THEN @ + 1 ELSE @]

(* run_connection: the query tick of the subscription *)
QueryTick ==
    /\ conn.open /\ conn.sub.on
    /\ replay' = Prune(replay)
    /\ \E c \in QueueUpdates(conn, conn.sub, Prune(replay)) :
        conn' = c /\ browser' = SeenBy(browser, c) /\ CountFault(c)
    /\ UNCHANGED <<store, read>>

(* write_messages, and receive of the browser: the cursor moves with the   *)
(* first message of a commit                                               *)
Deliver ==
    /\ conn.open /\ conn.queue # <<>>
    /\ LET m == Head(conn.queue)
       IN browser' = IF m.kind = "resync" THEN [browser EXCEPT !.phase = "cold"]
                     ELSE [browser EXCEPT !.seq = m.seq, !.epoch = store.epoch, !.rows = @ \cup {m.part}]
    /\ conn' = [conn EXCEPT !.queue = Tail(@)]
    /\ UNCHANGED <<store, read, replay, mishaps>>

(* A write times out or the network drops the connection *)
LoseConnection ==
    /\ conn.open /\ mishaps.faults < MaxStreamFaults
    /\ mishaps' = [mishaps EXCEPT !.faults = @ + 1]
    /\ conn' = Closed
    /\ browser' = IF browser.phase = "live" THEN [browser EXCEPT !.phase = "ready"] ELSE browser
    /\ UNCHANGED <<store, read, replay>>

-----------------------------------------------------------------------------
(* The page *)

(* query_details captures the commit cursor and the retention revision     *)
StartSnapshot ==
    /\ browser.phase = "cold"
    /\ browser' = [browser EXCEPT !.phase = "reading", !.seq = store.seq, !.epoch = store.epoch,
                                  !.retention = store.retention]
    /\ conn' = [conn EXCEPT !.sub = NoSub]
    /\ UNCHANGED <<store, read, replay, mishaps>>

(* ... and reads the shards; a changed revision fails the query *)
ReadSnapshot ==
    /\ browser.phase = "reading"
    /\ browser' = IF browser.retention # store.retention \/ browser.epoch # store.epoch
                  THEN [browser EXCEPT !.phase = "cold"]
                  ELSE [browser EXCEPT !.phase = "ready", !.rows = UNION {PartsOf(t) : t \in 1..store.tx}]
    /\ UNCHANGED <<store, read, replay, conn, mishaps>>

(* connect, "ready" and subscribe_queries: with the cursor the browser has *)
Subscribe ==
    /\ browser.phase = "ready"
    /\ LET sub == [on |-> TRUE, seq |-> browser.seq, epoch |-> browser.epoch, retention |-> browser.retention]
       IN /\ replay' = Prune(replay)
          /\ \E c \in QueueUpdates([Closed EXCEPT !.open = TRUE, !.from = browser.seq], sub, Prune(replay)) :
                /\ conn' = c
                /\ browser' = SeenBy([browser EXCEPT !.phase = "live"], c)
                /\ mishaps' = [mishaps EXCEPT !.faults =
                                IF c.open /\ ~c.sub.on /\ ReplayAfter(Prune(replay), sub).kind = "ready" THEN @ + 1 ELSE @]
    /\ UNCHANGED <<store, read>>

StreamNext ==
    \/ CommitTransaction \/ AdvanceClock \/ SendCommit \/ ChangeRetention \/ Restart
    \/ Collect \/ RetentionTick \/ GrowOld
    \/ QueryTick \/ Deliver \/ LoseConnection
    \/ StartSnapshot \/ ReadSnapshot \/ Subscribe

StreamSpec == StreamInit /\ [][StreamNext]_streamVars

(* The publisher finishes what it began, the collector and the connection  *)
(* are running tasks with ticks of their own                               *)
StreamFairness ==
    /\ WF_streamVars(AdvanceClock) /\ WF_streamVars(SendCommit)
    /\ WF_streamVars(Collect) /\ WF_streamVars(QueryTick) /\ WF_streamVars(Deliver)

-----------------------------------------------------------------------------
(* Properties *)

StreamTypeOK ==
    /\ store.tx \in 0..MaxTx /\ store.sent \in 0..store.seq /\ store.seq \in 0..store.tx
    /\ read \in 0..store.sent
    /\ replay.current \in 0..store.seq /\ replay.floor \in 0..replay.current
    /\ Len(conn.queue) <= QueueLimit
    /\ browser.phase \in {"cold", "reading", "ready", "live"}

QueuedParts == {conn.queue[i].part : i \in DOMAIN conn.queue}

(* A subscription continues the page without a hole.  Every commit after   *)
(* the cursor the browser subscribed with, up to the one the server has    *)
(* reached, is on the page or queued with all of its records.  Of the      *)
(* commits up to that cursor none was passed over: its first message has   *)
(* arrived.  The browser's cursor moves with that first message, so a page *)
(* whose connection breaks in the middle of a commit lacks the rest of it. *)
(* Lagging collectors, overflowing and ageing buffers and a gap in the     *)
(* sequence must end in resync_required instead (ReplayState,              *)
(* replay_after, queue_query_updates).                                     *)
StreamIsGapless ==
    conn.open /\ conn.sub.on /\ browser.phase = "live" =>
        LET Lacking(s) == PartsOf(store.base + s) \ (browser.rows \cup QueuedParts)
        IN  /\ \A s \in (conn.from + 1)..conn.sub.seq : Lacking(s) = {}
            /\ \A s \in 1..conn.from : <<store.base + s, 1>> \notin Lacking(s)

(* A commit that was published while the browser is subscribed reaches it, *)
(* or the browser is told to read again or loses the connection.           *)
Published(n) == conn.open /\ conn.sub.on /\ store.seq >= n
CaughtUp(n) == browser.phase # "live" \/ ~conn.sub.on \/ browser.seq >= n
StreamCatchesUp == \A n \in 1..MaxTx : Published(n) ~> CaughtUp(n)
================================================================================
