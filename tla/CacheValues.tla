----------------------------- MODULE CacheValues -----------------------------
(***************************************************************************)
(* The life of one cached answer: its class and TTLs (dns/message.rs), the *)
(* admission rules (cache/admission.rs), the windows of the pools that     *)
(* share the store, what a client is shown (dns/policy.rs) and the record  *)
(* kept in a snapshot file across a restart (cache/codec.rs).  Time is     *)
(* whole seconds; the wall clock and the monotonic clock advance together. *)
(***************************************************************************)
EXTENDS Integers, Sequences, FiniteSets, FiniteSetsExt

CONSTANTS
    Messages,      \* the responses an upstream may send
    Settings,      \* cache settings: pools, failure TTL, negative limit, TTL override
    MaxClock       \* bound on time

VARIABLES
    setting,   \* the settings in force
    now,       \* the clock
    entry,     \* the record in the store, or NoEntry
    file,      \* the record in the snapshot file, or NoEntry
    origin     \* the record's answer, when it was admitted, and since when this
               \* process has it (history)

valueVars == <<setting, now, entry, file, origin>>

NoEntry == [none |-> TRUE]

NoTtl == -1

-----------------------------------------------------------------------------
(* dns/message.rs *)

(* classify_response *)
ClassifyResponse(m) ==
    IF m.truncated THEN "truncated"
    ELSE IF m.code = "noerror" THEN (IF m.answers = {} THEN "nodata" ELSE "positive")
    ELSE m.code

IsNegative(m) == ClassifyResponse(m) \in {"nodata", "nxdomain"}

(* extract_ttl_metadata: the smallest TTL of the message, and for a negative
   answer the smallest of TTL and MINIMUM over the SOA records of the
   authority section.  The additional section has no records here. *)
MinTtl(m) ==
    LET all == m.answers \union {r.ttl : r \in m.authorities}
    IN  IF all = {} THEN NoTtl ELSE Min(all)

NegativeTtl(m) ==
    LET soas == {r \in m.authorities : r.minimum # NoTtl}
    IN  IF IsNegative(m) /\ soas # {}
        THEN Min({Min({r.ttl, r.minimum}) : r \in soas}) ELSE NoTtl

(* clamp_ttl, age_ttl, set_ttl and cap_negative_ttl go over every record *)
EveryTtl(m, F(_)) ==
    [m EXCEPT !.answers = {F(t) : t \in @},
              !.authorities = {[r EXCEPT !.ttl = F(@)] : r \in @}]

ClampTtl(m, low, high) ==
    LET Clamped(t) ==
            LET raised == IF low > 0 THEN Max({t, low}) ELSE t
            IN  IF high > 0 THEN Min({raised, high}) ELSE raised
    IN  EveryTtl(m, Clamped)

AgeTtl(m, elapsed) ==
    LET Aged(t) == Max({t - elapsed, 0}) IN EveryTtl(m, Aged)

SetTtl(m, ttl) ==
    LET Fixed(t) == ttl IN EveryTtl(m, Fixed)

CapNegativeTtl(m, cap) ==
    LET Capped(t) == Min({t, cap})
    IN  IF IsNegative(m) THEN EveryTtl(m, Capped) ELSE m

-----------------------------------------------------------------------------
(* cache/admission.rs *)

QualityOf(m) ==
    CASE ClassifyResponse(m) = "positive" -> "complete"
      [] IsNegative(m) -> "negative"
      [] OTHER -> "failure"

(* cache_runtime_options: the windows of the enabled pools, the widest wins *)
Windows(pools) ==
    {pools[i] : i \in {j \in DOMAIN pools : pools[j].enabled /\ pools[j].optimistic}}

Options(s) ==
    [enabled |-> \E i \in DOMAIN s.pools : s.pools[i].enabled,
     optimistic |-> Windows(s.pools) # {},
     complete |-> Max({0} \union {p.maxAge : p \in Windows(s.pools)}),
     negative |-> Max({0} \union {p.negativeMaxAge : p \in Windows(s.pools)})]

(* negative_ttl *)
NegativeLife(s, m) ==
    LET ttl == IF NegativeTtl(m) # NoTtl THEN NegativeTtl(m)
               ELSE IF MinTtl(m) # NoTtl THEN MinTtl(m) ELSE s.failureTtl
    IN  IF s.negativeTtlMax > 0 THEN Min({ttl, s.negativeTtlMax}) ELSE ttl

LifeOf(s, m) ==
    CASE ClassifyResponse(m) = "positive" -> MinTtl(m)
      [] IsNegative(m) -> NegativeLife(s, m)
      [] ClassifyResponse(m) \in {"servfail", "truncated"} -> s.failureTtl
      [] OTHER -> 0

StaleWindow(s, quality) ==
    CASE quality = "complete" -> Options(s).complete
      [] quality = "negative" -> Options(s).negative
      [] OTHER -> 0

(* admit_response: refused and other codes and a zero TTL are rejected *)
Admissible(s, m) == Options(s).enabled /\ LifeOf(s, m) > 0

AdmitResponse(s, m, at) ==
    LET expires == at + LifeOf(s, m)
        window  == StaleWindow(s, QualityOf(m))
    IN  [message |-> m, quality |-> QualityOf(m), inserted |-> at,
         expires |-> expires,
         staleUntil |-> IF window > 0 THEN expires + window ELSE NoTtl]

-----------------------------------------------------------------------------
(* What a request is shown *)

(* CacheFacade::lookup_at *)
LookupAt(s, e, t) ==
    IF e = NoEntry THEN "miss"
    ELSE IF t < e.expires THEN "fresh"
    ELSE IF Options(s).optimistic /\ t < e.staleUntil THEN "stale" ELSE "expired"

(* fresh_cache_response *)
FreshCacheResponse(s, e, t) ==
    LET aged      == AgeTtl(e.message, t - e.inserted)
        remaining == e.expires - t
    IN  IF IsNegative(aged)
        THEN CapNegativeTtl(aged, IF s.negativeTtlMax > 0
                                  THEN Min({remaining, s.negativeTtlMax})
                                  ELSE remaining)
        ELSE aged

(* stale_answer_ttl: the pool of the request narrows the window again *)
StaleAnswers(pool, e, t) ==
    LET maxAge == CASE e.quality = "complete" -> pool.maxAge
                    [] e.quality = "negative" -> pool.negativeMaxAge
                    [] OTHER -> 0
    IN  pool.optimistic /\ maxAge > 0 /\ t < e.expires + maxAge

(* apply_ttl_override *)
ApplyTtlOverride(s, m) ==
    IF s.override.enabled THEN ClampTtl(m, s.override.min, s.override.max) ELSE m

Shown(s, pool, e, t) ==
    IF LookupAt(s, e, t) = "fresh"
    THEN ApplyTtlOverride(s, FreshCacheResponse(s, e, t))
    ELSE ApplyTtlOverride(s, SetTtl(e.message, pool.answerTtl))

IsShown(s, pool, e, t) ==
    /\ pool.enabled
    /\ \/ LookupAt(s, e, t) = "fresh"
       \/ LookupAt(s, e, t) = "stale" /\ StaleAnswers(pool, e, t)

-----------------------------------------------------------------------------
(* cache/codec.rs: the age is kept as a duration, the ends as wall-clock
   times; an end that has passed is written as the time of writing. *)

EncodeRecord_WindowLeft(e, t) ==
    [message |-> e.message, quality |-> e.quality,
     age |-> t - e.inserted, expires |-> Max({e.expires, t}),
     staleUntil |-> IF e.staleUntil > t THEN Max({e.expires, t}) + e.staleUntil - e.expires
                    ELSE NoTtl]

EncodeRecord(e, t) ==
    [message |-> e.message, quality |-> e.quality,
     age |-> t - e.inserted, expires |-> Max({e.expires, t}),
     staleUntil |-> IF e.staleUntil > t THEN e.staleUntil ELSE NoTtl]

DecodeRecord(f, t) ==
    [message |-> f.message, quality |-> f.quality,
     inserted |-> t - f.age, expires |-> Max({f.expires, t}),
     staleUntil |-> IF f.staleUntil = NoTtl THEN NoTtl ELSE Max({f.staleUntil, t})]

(* is_answerable of cache/snapshot.rs *)
IsAnswerable(e, t) == t < e.expires \/ t < e.staleUntil

-----------------------------------------------------------------------------
ValuesInit ==
    /\ setting \in Settings
    /\ now = 0
    /\ entry = NoEntry
    /\ file = NoEntry
    /\ origin = NoEntry

(* write_response of an answer; which write wins is the matter of CacheFlow *)
WriteResponse(m) ==
    /\ Admissible(setting, m)
    /\ entry' = AdmitResponse(setting, m, now)
    /\ origin' = [at |-> now, message |-> m, since |-> now]
    /\ UNCHANGED <<setting, now, file>>

(* write_temporary_snapshot copies what the store still shows *)
SaveSnapshot ==
    /\ entry # NoEntry
    /\ file' = [record |-> EncodeRecord(entry, now), origin |-> origin]
    /\ UNCHANGED <<setting, now, entry, origin>>

(* The process stops and a new one loads the file *)
Recover ==
    /\ file # NoEntry
    /\ LET e == DecodeRecord(file.record, now)
       IN  IF IsAnswerable(e, now)
           THEN entry' = e /\ origin' = [file.origin EXCEPT !.since = now]
           ELSE entry' = NoEntry /\ origin' = NoEntry
    /\ UNCHANGED <<setting, now, file>>

Tick ==
    /\ now < MaxClock
    /\ now' = now + 1
    /\ UNCHANGED <<setting, entry, file, origin>>

ValuesNext ==
    \/ \E m \in Messages : WriteResponse(m)
    \/ SaveSnapshot \/ Recover \/ Tick

ValuesSpec == ValuesInit /\ [][ValuesNext]_valueVars

-----------------------------------------------------------------------------
(* Types of the variables. *)
ValuesTypeOK ==
    /\ setting \in Settings /\ now \in 0..MaxClock
    /\ entry # NoEntry =>
        /\ entry.inserted <= now /\ entry.expires \in 0..(2 * MaxClock)
        /\ entry.quality \in {"complete", "negative", "failure"}

(* The end of the life its admission gave the answer of the record. *)
EndOfLife == origin.at + LifeOf(setting, origin.message)

(* The stale window a pool grants this answer (optimistic_max_age and
   optimistic_negative_max_age). *)
OwnWindow(pool) ==
    CASE ~pool.optimistic -> 0
      [] QualityOf(origin.message) = "complete" -> pool.maxAge
      [] QualityOf(origin.message) = "negative" -> pool.negativeMaxAge
      [] OTHER -> 0

(* No answer is brought back to life: a record answers a request of a pool
   only while that pool's own window is open, counted from the end of the
   record's life, or from the restart that loaded it if that was later, and
   never past the deadline it was stored with, which is the widest window of
   the pools sharing the store.  A failure is answered only within its life
   (stale_answer_ttl, encode_record, decode_record). *)
NeverRevived ==
    \A i \in DOMAIN setting.pools :
        LET pool == setting.pools[i]
        IN  IsShown(setting, pool, entry, now) =>
                /\ now < Max({EndOfLife, origin.since}) + OwnWindow(pool)
                /\ now < EndOfLife + StaleWindow(setting, QualityOf(origin.message))

(* "An entry restored from a snapshot goes back to its upstream by the rules of
   the pool": a request is answered only while its pool's own window after the
   end of the record's life is open, also when the process was restarted
   meanwhile (stale_answer_ttl, instant_from_unix_nanos). *)
PoolWindowIsKept ==
    \A i \in DOMAIN setting.pools :
        LET pool == setting.pools[i]
        IN  IsShown(setting, pool, entry, now) => now < EndOfLife + OwnWindow(pool)

(* A "does not exist" is never kept by a client longer than by the cache: the
   TTLs shown with a fresh NODATA or NXDOMAIN, before the configured TTL
   override, end with the record, also after a restart, whatever the SOA said
   (fresh_cache_response caps at the remaining life). *)
NegativeEndsWithRecord ==
    (LookupAt(setting, entry, now) = "fresh" /\ IsNegative(entry.message)) =>
        LET m == FreshCacheResponse(setting, entry, now)
        IN  \A r \in m.authorities :
                now + r.ttl <= EndOfLife

=============================================================================
