--------------------------- MODULE UpstreamAddresses ---------------------------
(***************************************************************************)
(* The addresses a DoH upstream is reached at (upstream/http.rs,           *)
(* bootstrap.rs): requests of one connector share an address cache whose   *)
(* misses are filled by one bootstrap lookup at a time, an A and then an   *)
(* AAAA query.  The addresses select a HTTP client from a bounded pool     *)
(* (reqwest_http.rs); looking a client up and inserting a new one are two  *)
(* critical sections.                                                      *)
(***************************************************************************)
EXTENDS Integers, Sequences, FiniteSets, FiniteSetsExt, SequencesExt

CONSTANTS Callers,      \* requests of one connector
          Hosts,        \* the addresses a lookup may find
          Ttls,         \* the lifetimes it may report
          MaxTtl,       \* upper bound of the cache policy
          MaxClients,   \* capacity of the client pool
          MaxTime,      \* cap on the clock
          MaxCalls      \* cap on the requests of one caller

VARIABLES now, entry, permit, caller, pool

addressVars == <<now, entry, permit, caller, pool>>

Nothing == [none |-> TRUE]
Nobody == "nobody"

\* The answer of one family: its address, lifetime and time of receipt.
Found(host, ttl) == [host |-> host, ttl |-> ttl, at |-> now]

Idle(n) == [at |-> "idle", answers |-> {}, failed |-> "no", got |-> {}, fresh |-> 0, calls |-> n]

(***************************************************************************)
(* AddressResolutionState                                                  *)
(***************************************************************************)
\* cached_or_error: an expired entry is no entry.
Usable == entry # Nothing /\ now < entry.expires

\* A mutant: the lifetime counts from the end of the lookup.
Expiry_FromStore(answers) == now + Min({a.ttl : a \in answers} \cup {MaxTtl})

\* resolve_bootstrap: every answer ages from its own receipt, and the whole no
\* longer than the policy allows.
Expiry(answers) ==
    LET bounded == now + Min({a.ttl : a \in answers} \cup {MaxTtl})
        validUntil == Min({a.at + a.ttl : a \in answers})
    IN Min({bounded, validUntil})

\* The entry after a lookup; an answer that is already too old removes it.
Stored(answers) ==
    IF Expiry(answers) > now
    THEN [answers |-> answers, expires |-> Expiry(answers)]
    ELSE Nothing

\* The entry after a look into the cache.
Looked == IF Usable THEN entry ELSE Nothing

\* got and the clock when it came from the cache are kept for the properties.
Served(c, answers, cached) ==
    [caller[c] EXCEPT !.at = "client", !.got = answers, !.answers = {},
                      !.fresh = IF cached THEN now ELSE -1]

Ended(c) == Idle(caller[c].calls)

(***************************************************************************)
(* TokioDohAddressResolver::resolve                                        *)
(***************************************************************************)
AddressInit ==
    /\ now = 0
    /\ entry = Nothing
    /\ permit = Nobody
    /\ caller = [c \in Callers |-> Idle(0)]
    /\ pool = [clients |-> {}, order |-> <<>>]

Begin(c) ==
    /\ caller[c].at = "idle"
    /\ caller[c].calls < MaxCalls
    /\ entry' = Looked
    /\ LET began == [caller[c] EXCEPT !.calls = @ + 1, !.at = "waiting"]
       IN caller' = [caller EXCEPT ![c] =
                        IF Usable THEN [Served(c, entry.answers, TRUE) EXCEPT !.calls = @ + 1]
                        ELSE began]
    /\ UNCHANGED <<now, permit, pool>>

Recheck == Usable

\* The fill permit is free: the cache is looked at again before the lookup.
Acquire(c) ==
    /\ caller[c].at = "waiting"
    /\ permit = Nobody
    /\ entry' = Looked
    /\ IF Recheck
       THEN permit' = permit /\ caller' = [caller EXCEPT ![c] = Served(c, entry.answers, TRUE)]
       ELSE permit' = c /\ caller' = [caller EXCEPT ![c].at = "A"]
    /\ UNCHANGED <<now, pool>>

\* bootstrap_answer_from_response: an answer, no address, or a failed exchange.
Replies == {Found(h, t) : h \in Hosts, t \in Ttls} \cup {Nothing, [failed |-> "timeout"], [failed |-> "down"]}

After(c, next, r) ==
    IF "failed" \in DOMAIN r
    THEN [caller[c] EXCEPT !.at = next, !.failed = IF @ = "no" THEN r.failed ELSE @]
    ELSE [caller[c] EXCEPT !.at = next,
                           !.answers = IF r = Nothing THEN @ ELSE @ \cup {r}]

AnswerA(c) ==
    /\ caller[c].at = "A"
    /\ \E r \in Replies : caller' = [caller EXCEPT ![c] = After(c, "AAAA", r)]
    /\ UNCHANGED <<now, entry, permit, pool>>

\* The second answer ends the lookup.  Without any address the cache may still
\* serve, unless the lookup timed out.
AnswerAAAA(c) ==
    /\ caller[c].at = "AAAA"
    /\ \E r \in Replies :
          LET both == After(c, "AAAA", r)
          IN IF both.answers # {}
             THEN /\ entry' = Stored(both.answers)
                  /\ caller' = [caller EXCEPT ![c] = Served(c, both.answers, FALSE)]
             ELSE IF both.failed # "timeout" /\ Usable
             THEN /\ entry' = entry
                  /\ caller' = [caller EXCEPT ![c] = Served(c, entry.answers, TRUE)]
             ELSE /\ entry' = IF both.failed = "timeout" THEN entry ELSE Looked
                  /\ caller' = [caller EXCEPT ![c] = Ended(c)]
    /\ permit' = Nobody
    /\ UNCHANGED <<now, pool>>

\* The permit is a guard of the future and goes with it.
Released(c) == IF permit = c THEN Nobody ELSE permit

\* The deadline, a cancellation or the drop of the request ends it anywhere.
GiveUp(c) ==
    /\ caller[c].at \in {"waiting", "A", "AAAA"}
    /\ caller' = [caller EXCEPT ![c] = Ended(c)]
    /\ permit' = Released(c)
    /\ UNCHANGED <<now, entry, pool>>

(***************************************************************************)
(* ClientPool                                                              *)
(***************************************************************************)
KeyOf(c) == {a.host : a \in caller[c].got}
Moved(order, key) == Append(SelectSeq(order, LAMBDA k : k # key), key)

PoolGet(c) ==
    /\ caller[c].at = "client"
    /\ IF KeyOf(c) \in pool.clients
       THEN /\ pool' = [pool EXCEPT !.order = Moved(@, KeyOf(c))]
            /\ caller' = [caller EXCEPT ![c] = Ended(c)]
       ELSE /\ pool' = pool
            /\ caller' = [caller EXCEPT ![c].at = "build"]
    /\ UNCHANGED <<now, entry, permit>>

Queued(order, key) == Moved(order, key)

PoolInsert(c) ==
    /\ caller[c].at = "build"
    /\ LET clients == pool.clients \cup {KeyOf(c)}
           order == Queued(pool.order, KeyOf(c))
       IN pool' = IF Cardinality(clients) > MaxClients
                  THEN [clients |-> clients \ {Head(order)}, order |-> Tail(order)]
                  ELSE [clients |-> clients, order |-> order]
    /\ caller' = [caller EXCEPT ![c] = Ended(c)]
    /\ UNCHANGED <<now, entry, permit>>

TimePasses ==
    /\ now < MaxTime
    /\ now' = now + 1
    /\ UNCHANGED <<entry, permit, caller, pool>>

AddressNext ==
    \/ TimePasses
    \/ \E c \in Callers : Begin(c) \/ Acquire(c) \/ AnswerA(c) \/ AnswerAAAA(c) \/ GiveUp(c)
                          \/ PoolGet(c) \/ PoolInsert(c)

AddressSpec == AddressInit /\ [][AddressNext]_addressVars

-----------------------------------------------------------------------------
\* Every variable has its type.
AddressTypeOK ==
    /\ permit \in Callers \cup {Nobody}
    /\ \A c \in Callers : caller[c].at \in {"idle", "waiting", "A", "AAAA", "client", "build"}
    /\ pool.clients \subseteq SUBSET Hosts

\* An address out of the cache is within the lifetime its own DNS answer
\* gave it, counted from the receipt of that answer: a slow AAAA query does
\* not prolong the A answer it is stored with (resolve_with_clock,
\* resolve_bootstrap, cached_or_error).
CachedIsFresh ==
    \A c \in Callers : caller[c].fresh >= 0 =>
        \A a \in caller[c].got : caller[c].fresh < a.at + a.ttl

\* A lookup is only started when no usable entry is there, also by a request
\* that waited while another one filled the cache, and at most one lookup is
\* under way (BoundAddressCache::fill, resolve).
LooksUpIfNeeded ==
    \A c \in Callers : (caller[c].at # "A" /\ caller'[c].at = "A") =>
        /\ ~Usable
        /\ \A d \in Callers : caller[d].at \notin {"A", "AAAA"}
LookupIsNeeded == [][LooksUpIfNeeded]_addressVars

\* The permit is held exactly while its holder looks up, whatever way that
\* request ends: a waiter never waits for nobody.
PermitIsLive ==
    permit # Nobody => caller[permit].at \in {"A", "AAAA"}

\* The pool stays within its capacity and its order lists every client once,
\* also when two requests build a client for the same addresses.
PoolIsConsistent ==
    /\ Cardinality(pool.clients) <= MaxClients
    /\ Len(pool.order) = Cardinality(pool.clients)
    /\ Range(pool.order) = pool.clients
=============================================================================
