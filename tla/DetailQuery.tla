----------------------------- MODULE DetailQuery -----------------------------
(* Reading the resolution details back.  A page of history is collected from one  *)
(* daily file after another while records are being written, and its cursors      *)
(* carry the place where the next page starts.  The same records reach live       *)
(* subscribers straight from memory: the second half compares what they and a     *)
(* query see of a record.                                                         *)
EXTENDS Integers, Sequences, FiniteSets, SequencesExt

CONSTANTS
  PageDays, PageKeys,  \* days, and values of the column that is sorted by
  PageSize,
  MaxPerDay,           \* bound: records of one day
  MaxRevisions         \* bound: retention publications

VARIABLES
  stored,    \* the rows of all files
  asked,     \* the query that is being answered
  shown,     \* the last page, with what its query started from
  published, \* the retention revision
  hidden     \* days that are being reclaimed although no revision announced it

pagingVars == <<stored, asked, shown, published, hidden>>

\* hit: the row passes the filter of the query.
Row == [day : PageDays, id : 1 .. MaxPerDay, key : PageKeys, hit : BOOLEAN]
NoAnchor == [day |-> 0, id |-> 0, key |-> 0, hit |-> FALSE]
NoCursor == [at |-> NoAnchor, dir |-> "older", order |-> "asc", revision |-> 0]
NoPage == [items |-> <<>>, more |-> FALSE, base |-> {}, asked |-> NoCursor,
           previous |-> NoCursor, next |-> NoCursor]
NotAsked == [on |-> FALSE, cursor |-> NoCursor, days |-> {}, kept |-> <<>>, base |-> {}]

PagingInit ==
  /\ stored = {} /\ asked = NotAsked /\ shown = NoPage /\ published = 0 /\ hidden = {}

\* A committed batch gives its rows the next ids of their day.  Days up to the published
\* revision are retired.
Store(d, k, h) ==
  LET n == Cardinality({r \in stored : r.day = d})
  IN  /\ n < MaxPerDay /\ d > published /\ d \notin hidden
      /\ stored' = stored \cup {[day |-> d, id |-> n + 1, key |-> k, hit |-> h]}
      /\ UNCHANGED <<asked, shown, published, hidden>>

\* Keys, then days, then ids: the order of the walk over all files.
Before(a, b) ==
  \/ a.key < b.key
  \/ a.key = b.key /\ a.day < b.day
  \/ a.key = b.key /\ a.day = b.day /\ a.id < b.id

ScanAscending(q) == (q.order = "asc") = (q.dir = "older")
CompareScan(a, b, q) == IF ScanAscending(q) THEN Before(a, b) ELSE Before(b, a)


PastAnchor(r, q) ==
  \/ q.at = NoAnchor
  \/ IF ScanAscending(q) THEN r.key > q.at.key ELSE r.key < q.at.key
  \/ /\ r.key = q.at.key
     /\ CASE r.day > q.at.day -> ScanAscending(q)
          [] r.day < q.at.day -> ~ScanAscending(q)
          [] OTHER -> IF ScanAscending(q) THEN r.id > q.at.id ELSE r.id < q.at.id

Sorted(rows, q) == SetToSortSeq(rows, LAMBDA a, b : CompareScan(a, b, q))
FirstOf(s, n) == SubSeq(s, 1, IF Len(s) < n THEN Len(s) ELSE n)

\* One file: filter, keyset condition, order and limit, in this order.
QueryShard(d, q) ==
  FirstOf(Sorted({r \in stored : r.day = d /\ r.hit /\ PastAnchor(r, q)}, q), PageSize + 1)

\* Of all candidates the first PageSize + 1 are kept.
InsertBounded(kept, rows, q) == FirstOf(Sorted(Range(kept) \cup Range(rows), q), PageSize + 1)

\* A query without a cursor walks the older way; one with a cursor must repeat the filter,
\* order and direction the cursor was made for, and the revision must still hold.
Ask(cursor, order) ==
  /\ ~asked.on
  /\ cursor = NoCursor \/ (cursor.order = order /\ cursor.revision = published)
  /\ LET q == IF cursor = NoCursor
              THEN [NoCursor EXCEPT !.order = order, !.revision = published] ELSE cursor
     IN  asked' = [on |-> TRUE, cursor |-> q, days |-> PageDays, kept |-> <<>>, base |-> stored]
  /\ shown' = NoPage
  /\ UNCHANGED <<stored, published, hidden>>

ReadShard(d) ==
  /\ asked.on /\ d \in asked.days /\ \A e \in asked.days : d <= e
  /\ asked' = [asked EXCEPT !.days = @ \ {d},
                            !.kept = InsertBounded(@, QueryShard(d, asked.cursor), asked.cursor)]
  /\ UNCHANGED <<stored, shown, published, hidden>>

Cursor(r, dir) == [asked.cursor EXCEPT !.at = r, !.dir = dir]

\* A newer page is turned round to the order of the display.  Its ends become cursors:
\* forward if something is left there, back if there was a page to come from.
Finish ==
  /\ asked.on /\ asked.days = {}
  /\ asked' = NotAsked
  /\ LET q     == asked.cursor
         more  == Len(asked.kept) > PageSize
         cut   == FirstOf(asked.kept, PageSize)
         items == IF q.dir = "newer" THEN Reverse(cut) ELSE cut
         back  == q.at # NoAnchor
     IN  shown' =
           IF q.revision # published THEN NoPage
           ELSE [items |-> items, more |-> more, asked |-> q,
                 base |-> {r \in asked.base : r.day \notin hidden},
                 previous |-> IF items # <<>> /\ (IF q.dir = "older" THEN back ELSE more)
                              THEN Cursor(Head(items), "newer") ELSE NoCursor,
                 next |-> IF items # <<>> /\ (IF q.dir = "older" THEN more ELSE back)
                          THEN Cursor(Last(items), "older") ELSE NoCursor]
  /\ UNCHANGED <<stored, published, hidden>>

\* publish_retired_before: the watermark passes the first day and makes every cursor stale.
\* Both happen under the lock that every look at a day takes, with no lease given out.
Retire ==
  /\ published < MaxRevisions /\ published' = published + 1
  /\ stored' = {r \in stored : r.day > published'}
  /\ UNCHANGED <<asked, shown, hidden>>

\* begin_retirement of a day whose watermark was committed without the process seeing it:
\* no lease is given for the day any more, and the revision is the old one.
Hide ==
  /\ published < MaxRevisions /\ hidden' = hidden \cup {published + 1}
  /\ stored' = {r \in stored : r.day \notin hidden'}
  /\ UNCHANGED <<asked, shown, published>>

PagingNext ==
  \/ \E d \in PageDays, k \in PageKeys, h \in BOOLEAN : Store(d, k, h)
  \/ \E c \in {NoCursor, shown.previous, shown.next}, o \in {"asc", "desc"} : Ask(c, o)
  \/ \E d \in PageDays : ReadShard(d)
  \/ Finish \/ Retire \/ Hide

PagingSpec == PagingInit /\ [][PagingNext]_pagingVars

PagingTypeOK ==
  /\ stored \subseteq Row /\ asked.base \subseteq Row /\ Range(asked.kept) \subseteq Row
  /\ Range(shown.items) \subseteq Row /\ published \in 0 .. MaxRevisions
  /\ hidden \subseteq 1 .. MaxRevisions

\* A page leaves nothing out: every row that was stored when its query began, passes the
\* filter and lies past the cursor is on the page, unless the page is full and the row
\* lies behind it, or its day is being reclaimed.  The rows are in order, none twice.
PageIsComplete ==
  LET q == shown.asked
      p == IF q.dir = "newer" THEN Reverse(shown.items) ELSE shown.items
  IN  /\ \A i \in 1 .. Len(p) - 1 : CompareScan(p[i], p[i + 1], q)
      /\ \A r \in shown.base \ Range(p) :
           r.hit /\ (q.at = NoAnchor \/ CompareScan(q.at, r, q))
             => shown.more /\ CompareScan(Last(p), r, q)

-------------------------------------------------------------------------------
\* What a record is made of, as far as its two readings could differ.
Outcomes == {"Success", "Rejected", "Failure", "Timeout", "Cancelled", "Dropped"}
CacheStatuses ==
  {"Disabled", "Miss", "Fresh", "Stale", "Expired", "StoreUnavailable", "WriteRejected"}
Rcodes == 0 .. 6
Addresses == {"v4", "mapped", "v6"}
DetailRecord == [outcome : Outcomes, cache : CacheStatuses, rcode : Rcodes, ip : Addresses,
                 matched : {"none", "a"}, via : {"none", "Id", "Ip"}, source : {"Cache", "Upstream"}]

\* from_resolution_event: no response has rcode 0; a rejection is a response.  A client is
\* matched by its id or its address.
Projected(r) ==
  /\ r.outcome \in {"Success", "Rejected"} \/ r.rcode = 0
  /\ (r.matched = "none") = (r.via = "none")

FailureClassName(outcome) ==
  CASE outcome \in {"Success", "Rejected"} -> "null"
    [] outcome = "Failure" -> "failure"
    [] outcome = "Timeout" -> "timeout"
    [] outcome = "Cancelled" -> "cancelled"
    [] outcome = "Dropped" -> "dropped"

CacheStatusName(s) ==
  CASE s = "Disabled" -> "disabled" [] s = "Miss" -> "miss" [] s = "Fresh" -> "fresh"
    [] s = "Stale" -> "stale" [] s = "Expired" -> "expired"
    [] s = "StoreUnavailable" -> "store_unavailable" [] s = "WriteRejected" -> "write_rejected"

\* The columns of the row a record is stored as.
ApplyResolveRecord(r) ==
  [failure |-> FailureClassName(r.outcome), cache |-> CacheStatusName(r.cache),
   rcode |-> r.rcode, ip |-> r.ip, matched |-> r.matched, via |-> r.via, source |-> r.source]

OutcomeFromRow(failure, rcode) ==
  CASE failure = "timeout" -> "Timeout"
    [] failure \notin {"timeout", "null"} \/ (failure = "null" /\ rcode = 2) -> "Failed"
    [] failure = "null" /\ rcode = 3 -> "Negative"
    [] failure = "null" /\ rcode \in {1, 4, 5} -> "Rejected"
    [] OTHER -> "Answered"

CacheOutcome(name) ==
  CASE name = "fresh" -> "Hit" [] name = "stale" -> "Stale" [] name = "expired" -> "Expired"
    [] name = "miss" -> "Miss" [] OTHER -> "Bypass"

MapRow(row) ==
  [outcome |-> OutcomeFromRow(row.failure, row.rcode), cache |-> CacheOutcome(row.cache),
   rcode |-> row.rcode, ip |-> row.ip, matched |-> row.matched, via |-> row.via,
   source |-> row.source]

\* The same from memory; an address that maps IPv4 is written as IPv4.
ToQueryRecord(r) ==
  [outcome |-> CASE r.outcome = "Timeout" -> "Timeout"
                 [] r.outcome \in {"Failure", "Cancelled", "Dropped"} -> "Failed"
                 [] OTHER -> OutcomeFromRow("null", r.rcode),
   cache |-> CASE r.cache = "Fresh" -> "Hit" [] r.cache = "Stale" -> "Stale"
               [] r.cache = "Expired" -> "Expired" [] r.cache = "Miss" -> "Miss"
               [] OTHER -> "Bypass",
   rcode |-> r.rcode, ip |-> IF r.ip = "mapped" THEN "v4" ELSE r.ip, matched |-> r.matched,
   via |-> r.via, source |-> r.source]

\* A filter leaves a field out with "any".  names: clients found under a name, if one is
\* asked; ips: the addresses whose text contains the text asked for.  A mapped address is
\* written as ::ffff: and the IPv4 address, so that it contains what that contains.
AnyFilter == [outcome |-> "any", cache |-> "any", rcode |-> 7, byName |-> FALSE, names |-> {},
              ips |-> Addresses]
OneField ==
  {[AnyFilter EXCEPT !.outcome = o] : o \in {"Answered", "Negative", "Timeout", "Rejected", "Failed"}}
  \cup {[AnyFilter EXCEPT !.cache = c] : c \in {"Hit", "Stale", "Expired", "Miss", "Bypass"}}
  \cup {[AnyFilter EXCEPT !.rcode = c] : c \in {7} \cup Rcodes}
  \cup {[AnyFilter EXCEPT !.byName = TRUE, !.names = n] : n \in SUBSET {"a", "b"}}
  \cup {[AnyFilter EXCEPT !.ips = s] : s \in {t \in SUBSET Addresses : "v4" \in t => "mapped" \in t}}

RcodeMatches(wanted, rcode) == wanted = 7 \/ (IF wanted = 6 THEN rcode > 5 ELSE rcode = wanted)

MatchesRecord(f, rec) ==
  /\ f.byName => rec.matched \in f.names
  /\ rec.ip \in f.ips
  /\ RcodeMatches(f.rcode, rec.rcode)
  /\ f.outcome \in {"any", rec.outcome} /\ f.cache \in {"any", rec.cache}

OutcomeCondition(wanted, row) ==
  CASE wanted = "any" -> TRUE
    [] wanted = "Answered" -> row.failure = "null" /\ row.rcode \notin 1 .. 5
    [] wanted = "Negative" -> row.failure = "null" /\ row.rcode = 3
    [] wanted = "Timeout" -> row.failure = "timeout"
    [] wanted = "Rejected" -> row.failure = "null" /\ row.rcode \in {1, 4, 5}
    [] wanted = "Failed" -> row.failure \notin {"null", "timeout"}
                            \/ (row.failure = "null" /\ row.rcode = 2)

CacheCondition(wanted, row) ==
  CASE wanted = "any" -> TRUE
    [] wanted = "Hit" -> row.cache = "fresh" [] wanted = "Stale" -> row.cache = "stale"
    [] wanted = "Expired" -> row.cache = "expired" [] wanted = "Miss" -> row.cache = "miss"
    [] OTHER -> row.cache \in {"disabled", "store_unavailable", "write_rejected"}

\* The conditions query_shard binds for a filter.
ShardCondition(f, row) ==
  /\ f.byName => row.matched \in f.names
  /\ row.ip \in f.ips
  /\ IF f.rcode = 7 THEN TRUE
     ELSE IF f.rcode = 6 THEN row.rcode \notin 0 .. 5 ELSE row.rcode = f.rcode
  /\ OutcomeCondition(f.outcome, row) /\ CacheCondition(f.cache, row)

\* What a page or a message shows of a record, as a set that is empty when the record is
\* refused: the match as it was, the client's present name, and for an answer from the
\* cache the upstream as the producer of the entry instead of the one that was asked.
QueryRecord(rec, names) ==
  {[outcome |-> rec.outcome, cache |-> rec.cache, rcode |-> rec.rcode, ip |-> rec.ip,
    matched |-> <<rec.via, rec.matched>>,
    client |-> IF rec.matched \in DOMAIN names THEN names[rec.matched] ELSE "",
    producer |-> rec.source = "Cache", upstream |-> rec.source # "Cache"] :
     ok \in {x \in {TRUE} : (rec.via = "none") = (rec.matched = "none")}}

\* One record on a page of search, and in a message to a subscriber.
Search(r, f, names) ==
  IF ShardCondition(f, ApplyResolveRecord(r)) THEN QueryRecord(MapRow(ApplyResolveRecord(r)), names)
  ELSE {}

ProjectCommittedRecords(r, f, names) ==
  IF MatchesRecord(f, ToQueryRecord(r)) THEN QueryRecord(ToQueryRecord(r), names) ELSE {}

\* A live subscriber and a query of the stored rows are shown the same records, and see the
\* same of them.  The one difference is a client whose address maps IPv4, stored as it was
\* received (sqlite.rs:1301) and sent as IPv4 (detail_query.rs:370): whatever the subscriber
\* is shown of it a query finds under the other spelling, and a query for the text of the
\* mapping finds records that no subscriber with this filter is sent.
ReadingsAgree(r, f) ==
  LET names == [c \in {"a"} |-> "client"]
      found == Search(r, f, names)
      sent == ProjectCommittedRecords(r, f, names)
  IN  IF r.ip # "mapped" THEN found = sent
      ELSE /\ {[i EXCEPT !.ip = "mapped"] : i \in sent} \subseteq found
           /\ found # {} /\ sent = {} => "v4" \notin f.ips

===============================================================================
