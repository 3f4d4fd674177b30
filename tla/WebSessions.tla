------------------------------ MODULE WebSessions ------------------------------
(***************************************************************************)
(* Sessions of the management service and the connections that live on     *)
(* them: SessionStore (management/session.rs), the handlers of setup,      *)
(* login, refresh and logout (management/router.rs, management/auth.rs),   *)
(* the reconciliation of users after a reload (management/mod.rs), and     *)
(* ticket, permit, heartbeat and revocation of an event connection         *)
(* (management/events.rs).                                                 *)
(*                                                                         *)
(* Tokens are numbered in the order they are issued.  An access token is   *)
(* known by its session and its expiry.  The clock has ticks of its own;   *)
(* any number of heartbeats fits between two.  Users are known by the      *)
(* version of their credentials.                                           *)
(***************************************************************************)
EXTENDS Integers, Sequences, FiniteSets, FiniteSetsExt, Functions

CONSTANTS
    Users,             \* user names
    Peers,             \* connection slots
    MaxToken,          \* bound: sessions ever issued
    AbsoluteTtl, IdleTtl, AccessTtl, RenewWindow, TicketTtl,
    GlobalCapacity, UserCapacity,        \* sessions
    TicketCapacity, SessionTickets,      \* websocket tickets
    ConnectionCapacity, SessionConnections,
    IdleBeats,         \* heartbeats without a pong before WS_IDLE_TIMEOUT
    AttemptLimit,      \* LOGIN_ATTEMPTS_PER_WINDOW and SETUP_ATTEMPTS_PER_WINDOW
    AttemptWindow,
    MaxNow,            \* bound: the clock
    MaxReconciles      \* bound: reloads that change users

VARIABLES
    now,       \* the monotonic clock
    data,      \* SessionData
    issued,    \* tokens issued so far
    users,     \* AuthState: user -> version of the credentials, 0 for none
    stored,    \* the configuration file: the same
    handler,   \* the one setup or login handler that is between two awaits
    attempts,  \* AttemptLimiter: times of the attempts with one key
    peer,      \* event connections
    permits,   \* ConnectionState
    reconciles

webVars == <<now, data, issued, users, stored, handler, attempts, peer, permits, reconciles>>

Tokens == 1..MaxToken

Idle == [phase |-> "none", user |-> CHOOSE u \in Users : TRUE]

Free == [phase |-> "free", session |-> 0, changed |-> FALSE, quiet |-> 0, waiting |-> FALSE]

WebInit ==
    /\ now = 0 /\ issued = 0 /\ attempts = <<>> /\ reconciles = 0
    /\ data = [sessions |-> <<>>, accesses |-> {}, tickets |-> {}]
    /\ users \in {[u \in Users |-> 0], [u \in Users |-> 1]}
    /\ stored = users
    /\ handler = Idle
    /\ peer = [p \in Peers |-> Free]
    /\ permits = [total |-> 0, perSession |-> [t \in Tokens |-> 0]]

-----------------------------------------------------------------------------
(* SessionStore *)

Known(d) == DOMAIN d.sessions

(* remove_session *)
RemoveSession(d, t) ==
    [sessions |-> Restrict(d.sessions, Known(d) \ {t}),
     accesses |-> {a \in d.accesses : a.session # t},
     tickets |-> {k \in d.tickets : k.session # t}]

(* purge_expired *)
PurgeExpired(d) ==
    LET kept == {t \in Known(d) : /\ now < d.sessions[t].expires
                                  /\ now - d.sessions[t].seen < IdleTtl}
    IN [sessions |-> Restrict(d.sessions, kept),
        accesses |-> {a \in d.accesses : now < a.expires /\ a.session \in kept},
        tickets |-> {k \in d.tickets : now < k.expires /\ k.session \in kept}]

OfUser(d, u) == {t \in Known(d) : d.sessions[t].user = u}

RECURSIVE EnforceCapacity(_, _)
(* enforce_capacity: the oldest session goes first *)
EnforceCapacity(d, u) ==
    LET full == Cardinality(Known(d)) >= GlobalCapacity
        candidates == IF full THEN Known(d) ELSE OfUser(d, u)
    IN IF (full \/ Cardinality(OfUser(d, u)) >= UserCapacity) /\ candidates # {}
       THEN EnforceCapacity(RemoveSession(d, Min(candidates)), u)
       ELSE d

(* SessionStore::issue, of the next token *)
Issue(u) ==
    LET t == issued + 1
        d == EnforceCapacity(PurgeExpired(data), u)
        record == [user |-> u, seen |-> now, expires |-> now + AbsoluteTtl, access |-> now + AccessTtl]
    IN /\ issued < MaxToken
       /\ issued' = t
       /\ data' = [d EXCEPT !.sessions = [x \in Known(d) \cup {t} |-> IF x = t THEN record ELSE d.sessions[x]],
                            !.accesses = @ \cup {[session |-> t, expires |-> now + AccessTtl]}]

Touched(d, t) == [d EXCEPT !.sessions[t].seen = now]

(* lookup, from require_session: any request with an access token *)
Lookup ==
    /\ \E a \in data.accesses :
        LET d == PurgeExpired(data)
        IN data' = IF a \in d.accesses THEN Touched(d, a.session) ELSE d
    /\ UNCHANGED <<now, issued, users, stored, handler, attempts, peer, permits, reconciles>>

(* refresh_at: whether the access token is replaced *)
Renews(r) == r.access < r.expires /\ r.access - now <= RenewWindow

(* refresh_at, from post_refresh with the cookie of session t *)
Refresh(t) ==
    LET d == PurgeExpired(data)
    IN /\ data' = IF t \notin Known(d) THEN d
                  ELSE LET r == d.sessions[t]
                           expires == IF Renews(r) THEN Min({now + AccessTtl, r.expires}) ELSE r.access
                       IN [d EXCEPT !.sessions[t] = [r EXCEPT !.access = expires, !.seen = now],
                                    !.accesses = @ \cup {[session |-> t, expires |-> expires]}]
       /\ UNCHANGED <<now, issued, users, stored, handler, attempts, peer, permits, reconciles>>

(* notify_change reaches the connections that have subscribed *)
Notified == [p \in Peers |-> IF peer[p].phase = "live" THEN [peer[p] EXCEPT !.changed = TRUE] ELSE peer[p]]

(* revoke, from post_logout *)
Logout ==
    /\ \E a \in data.accesses :
        LET d == PurgeExpired(data)
        IN IF a \in d.accesses
           THEN data' = RemoveSession(d, a.session) /\ peer' = Notified
           ELSE data' = d /\ peer' = peer
    /\ UNCHANGED <<now, issued, users, stored, handler, attempts, permits, reconciles>>

(* revoke_all *)
RevokeAll ==
    /\ data' = [sessions |-> <<>>, accesses |-> {}, tickets |-> {}]
    /\ peer' = IF Known(data) # {} \/ data.tickets # {} THEN Notified ELSE peer

-----------------------------------------------------------------------------
(* Handlers with awaits in them; request_boundary may drop them there *)

SetupRequired == \A u \in Users : users[u] = 0

(* AttemptLimiter::allow *)
Recent == SelectSeq(attempts, LAMBDA t : now - t < AttemptWindow)

Allow ==
    /\ Len(Recent) < AttemptLimit
    /\ attempts' = Append(Recent, now)

(* post_setup up to the hash, post_login up to the verification *)
StartSetup(u) ==
    /\ handler.phase = "none" /\ Allow /\ SetupRequired
    /\ handler' = [phase |-> "hashing", user |-> u]
    /\ UNCHANGED <<now, data, issued, users, stored, peer, permits, reconciles>>

(* create_initial_user: only the first one is stored *)
StoreUser ==
    /\ handler.phase = "hashing"
    /\ IF \A u \in Users : stored[u] = 0
       THEN stored' = [stored EXCEPT ![handler.user] = 1] /\ handler' = [handler EXCEPT !.phase = "stored"]
       ELSE stored' = stored /\ handler' = Idle
    /\ UNCHANGED <<now, data, issued, users, attempts, peer, permits, reconciles>>

(* post_setup: AuthState::replace and issue_session *)
FinishSetup ==
    /\ handler.phase = "stored"
    /\ users' = stored
    /\ Issue(handler.user)
    /\ handler' = Idle
    /\ UNCHANGED <<now, stored, attempts, peer, permits, reconciles>>

(* post_login up to the end of authenticate *)
Authenticate(u) ==
    /\ handler.phase = "none" /\ Allow /\ ~SetupRequired
    /\ handler' = IF users[u] # 0 THEN [phase |-> "verified", user |-> u] ELSE Idle
    /\ UNCHANGED <<now, data, issued, users, stored, peer, permits, reconciles>>

FinishLogin ==
    /\ handler.phase = "verified"
    /\ Issue(handler.user)
    /\ handler' = Idle
    /\ UNCHANGED <<now, users, stored, attempts, peer, permits, reconciles>>

(* request_boundary: REQUEST_TIMEOUT, or the client is gone.  A user that  *)
(* create_initial_user was storing on its own thread is stored all the     *)
(* same; the rest of the handler does not run                              *)
DropHandler ==
    /\ handler.phase # "none"
    /\ handler' = Idle
    /\ UNCHANGED <<now, data, issued, users, stored, attempts, peer, permits, reconciles>>

(* A reload applied other credentials: reconcile_users.  A reload of the   *)
(* file as it is, with what setup wrote, keeps the sessions                *)
ReconcileUsers ==
    \/ /\ reconciles < MaxReconciles
       /\ reconciles' = reconciles + 1
       /\ \E u \in Users : stored' = [stored EXCEPT ![u] = 1 - @]
       /\ users' = stored'
       /\ RevokeAll
       /\ UNCHANGED <<now, issued, handler, attempts, permits>>
    \/ /\ users # stored
       /\ users' = stored
       /\ UNCHANGED <<now, data, issued, stored, handler, attempts, peer, permits, reconciles>>

-----------------------------------------------------------------------------
(* Event connections *)

(* issue_ticket *)
IssueTicket ==
    /\ \E a \in data.accesses :
        LET d == PurgeExpired(data)
            seen == Touched(d, a.session)
            own == {k \in d.tickets : k.session = a.session}
        IN data' = IF a \notin d.accesses THEN d
                   ELSE IF Cardinality(d.tickets) >= TicketCapacity \/ Cardinality(own) >= SessionTickets THEN seen
                   ELSE [seen EXCEPT !.tickets = @ \cup
                            {[session |-> a.session, expires |-> now + TicketTtl,
                              slot |-> Min((1..TicketCapacity) \ {k.slot : k \in d.tickets})]}]
    /\ UNCHANGED <<now, issued, users, stored, handler, attempts, peer, permits, reconciles>>

(* upgrade: the ticket is consumed and a permit taken, try_acquire *)
Upgrade(p) ==
    /\ peer[p].phase = "free"
    /\ \E k \in data.tickets :
        LET d == PurgeExpired(data)
            rest == [d EXCEPT !.tickets = @ \ {k}]
            t == k.session
        IN IF k \notin d.tickets
           THEN data' = d /\ UNCHANGED <<peer, permits>>
           ELSE /\ data' = Touched(rest, t)
                /\ IF permits.total >= ConnectionCapacity \/ permits.perSession[t] >= SessionConnections
                   THEN UNCHANGED <<peer, permits>>
                   ELSE /\ peer' = [peer EXCEPT ![p] = [Free EXCEPT !.phase = "upgraded", !.session = t]]
                        /\ permits' = [permits EXCEPT !.total = @ + 1, !.perSession[t] = @ + 1]
    /\ UNCHANGED <<now, issued, users, stored, handler, attempts, reconciles>>

(* run_connection up to its loop: subscribe_changes sees later changes only *)
Serve(p) ==
    /\ peer[p].phase = "upgraded"
    /\ peer' = [peer EXCEPT ![p].phase = "live"]
    /\ UNCHANGED <<now, data, issued, users, stored, handler, attempts, permits, reconciles>>

Valid(t) == t \in Known(PurgeExpired(data))

(* validate_websocket_session *)
Validate(t) ==
    LET d == PurgeExpired(data) IN data' = IF t \in Known(d) THEN Touched(d, t) ELSE d

Closing(c) == [c EXCEPT !.phase = "closing", !.changed = FALSE]

(* The session_changes branch of run_connection *)
SeeChange(p) ==
    /\ peer[p].phase = "live" /\ peer[p].changed
    /\ Validate(peer[p].session)
    /\ peer' = [peer EXCEPT ![p] = IF Valid(@.session) THEN [@ EXCEPT !.changed = FALSE] ELSE Closing(@)]
    /\ UNCHANGED <<now, issued, users, stored, handler, attempts, permits, reconciles>>

(* The heartbeat branch: a quiet peer or a lost session ends the connection *)
Beat(c) ==
    IF c.quiet >= IdleBeats \/ ~Valid(c.session) THEN Closing(c)
    ELSE [c EXCEPT !.quiet = @ + 1, !.waiting = TRUE]

Heartbeat(p) ==
    /\ peer[p].phase = "live"
    /\ Validate(peer[p].session)
    /\ peer' = [peer EXCEPT ![p] = Beat(@)]
    /\ UNCHANGED <<now, issued, users, stored, handler, attempts, permits, reconciles>>

(* The pong of the browser: one for each nonce *)
Pong(p) ==
    /\ peer[p].phase = "live"
    /\ peer' = [peer EXCEPT ![p] = IF @.waiting THEN [@ EXCEPT !.quiet = 0, !.waiting = FALSE] ELSE Closing(@)]
    /\ UNCHANGED <<now, data, issued, users, stored, handler, attempts, permits, reconciles>>

(* The peer leaves, exceeds a limit or breaks the protocol; the writer fails *)
LosePeer(p) ==
    /\ peer[p].phase \in {"upgraded", "live"}
    /\ peer' = [peer EXCEPT ![p] = Closing(@)]
    /\ UNCHANGED <<now, data, issued, users, stored, handler, attempts, permits, reconciles>>

(* Drop of ConnectionPermit *)
Returned(t) == [permits EXCEPT !.total = @ - 1, !.perSession[t] = @ - 1]

(* serve: after the writer *)
EndConnection(p) ==
    /\ peer[p].phase = "closing"
    /\ permits' = Returned(peer[p].session)
    /\ peer' = [peer EXCEPT ![p] = Free]
    /\ UNCHANGED <<now, data, issued, users, stored, handler, attempts, reconciles>>

Tick ==
    /\ now < MaxNow
    /\ now' = now + 1
    /\ UNCHANGED <<data, issued, users, stored, handler, attempts, peer, permits, reconciles>>

WebNext ==
    \/ Lookup \/ Logout \/ StoreUser \/ FinishSetup \/ FinishLogin \/ DropHandler
    \/ ReconcileUsers \/ IssueTicket \/ Tick
    \/ \E t \in Known(data) : Refresh(t)
    \/ \E u \in Users : StartSetup(u) \/ Authenticate(u)
    \/ \E p \in Peers : Upgrade(p) \/ Serve(p) \/ SeeChange(p) \/ Heartbeat(p)
                        \/ Pong(p) \/ LosePeer(p) \/ EndConnection(p)

WebSpec == WebInit /\ [][WebNext]_webVars

(* A connection's task runs: it enters its loop, beats and ends *)
WebFairness ==
    \A p \in Peers : WF_webVars(Serve(p)) /\ WF_webVars(Heartbeat(p)) /\ WF_webVars(EndConnection(p))

-----------------------------------------------------------------------------
(* Properties *)

WebTypeOK ==
    /\ now \in 0..MaxNow /\ issued \in 0..MaxToken
    /\ Known(data) \subseteq 1..issued
    /\ Cardinality(Known(data)) <= GlobalCapacity
    /\ Len(attempts) <= AttemptLimit
    /\ permits.total \in 0..ConnectionCapacity

(* The comment of refresh_at: the old access token lives to its own        *)
(* expiry, and the index holds at most two tokens of a session.  The       *)
(* session's current token is one of them, and none outlives the session.  *)
AccessIndexIsSound ==
    LET d == PurgeExpired(data)
    IN /\ \A t \in Known(d) : Cardinality({a \in d.accesses : a.session = t}) <= 2
       /\ \A a \in data.accesses :
            /\ a.session \in Known(data)
            /\ a.expires <= data.sessions[a.session].access
            /\ data.sessions[a.session].access <= data.sessions[a.session].expires

(* Permits are as many as there are connections, of every session and in   *)
(* all, whatever ends a connection: try_acquire and the drop of the permit *)
(* balance, so that the limits mean what they say.                         *)
ConnectionsAreCounted ==
    /\ permits.total = Cardinality({p \in Peers : peer[p].phase # "free"})
    /\ \A t \in Tokens :
        permits.perSession[t] = Cardinality({p \in Peers : peer[p].phase # "free" /\ peer[p].session = t})

(* architecture/management.md:21: logout, expiry, changed users and        *)
(* shutdown all end the connection.  A connection whose session is gone is *)
(* ended, the one that was revoked before the connection subscribed to     *)
(* changes too (the heartbeat checks the session again).                   *)
Connected(p, t) == peer[p].phase # "free" /\ peer[p].session = t
ConnectionEndsWithSession ==
    \A p \in Peers, t \in Tokens : (Connected(p, t) /\ ~Valid(t)) ~> ~Connected(p, t)
================================================================================
