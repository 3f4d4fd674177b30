----------------------------- MODULE SocketBinding -----------------------------
(***************************************************************************)
(* How a start or a reload binds its listeners (runtime/bind.rs,           *)
(* runtime/system_socket.rs, service.rs).                                  *)
(*                                                                         *)
(* A reload prepares every socket of its plan, reusing those of the active *)
(* set with the same physical specification, and only then activates them. *)
(* Requests that were admitted before a commit hold the old set until they *)
(* drain.  Addresses are names, "any" overlaps all of them; ports are left *)
(* out.                                                                    *)
(***************************************************************************)
EXTENDS Integers, Sequences, FiniteSets, FiniteSetsExt, SequencesExt

CONSTANTS
    Plans,          \* configurations: [owned, entries]
    None,           \* model value
    MaxSockets,     \* bound: sockets created
    MaxBindFaults   \* bound: failing calls, cancellations and deadlines

VARIABLES
    os,          \* socket -> [spec, state], state "closed", "bound" or "active"
    active,      \* the configuration that serves, and its endpoints
    candidate,   \* the bind in progress
    draining,    \* endpoint sets that old requests still hold
    faults       \* faults so far

bindVars == <<os, active, candidate, draining, faults>>

-----------------------------------------------------------------------------
(* The operating system (external) *)

Overlap(a, b) == a.kind = b.kind /\ (a.address = b.address \/ "any" \in {a.address, b.address})

(* SO_REUSEADDR: only a listening TCP socket refuses an overlapping address *)
Refuses(spec) ==
    /\ spec.kind = "Tcp"
    /\ \E s \in DOMAIN os : os[s].state = "active" /\ Overlap(os[s].spec, spec)

FreeSockets == {s \in DOMAIN os : os[s].state = "closed" /\ os[s].spec = None}

-----------------------------------------------------------------------------
(* Binding *)

(* socket_spec: the physical part of an entry; owner and transport are not *)
SocketSpec(entry) == [kind |-> entry.kind, address |-> entry.address]

NoBind == [stage |-> "none", plan |-> None, pending |-> <<>>]

SocketsOf(set) == {set[i].socket : i \in DOMAIN set}

Held == SocketsOf(active.endpoints) \union SocketsOf(candidate.pending)
            \union UNION {SocketsOf(d) : d \in draining}

(* Dropping the last handle of a socket closes it *)
Dropped(table, held) ==
    [s \in DOMAIN table |-> IF s \in held THEN table[s] ELSE [table[s] EXCEPT !.state = "closed"]]

BindInit ==
    /\ os = [s \in 1..MaxSockets |-> [spec |-> None, state |-> "closed"]]
    /\ active = [plan |-> None, endpoints |-> <<>>]
    /\ candidate = NoBind /\ draining = {} /\ faults = 0

(* process_owned_reload_change: database, webui and resolve_log need a restart *)
RestartRequired(plan) == active.plan # None /\ active.plan.owned # plan.owned

(* classify_service_reload *)
StartBind(plan) ==
    /\ candidate.stage = "none" /\ plan # active.plan
    /\ ~RestartRequired(plan)
    /\ candidate' = [stage |-> "prepare", plan |-> plan, pending |-> <<>>]
    /\ UNCHANGED <<os, active, draining, faults>>

(* An endpoint of the active set with the specification of the entry *)
Existing(entry) ==
    SelectInSeq(active.endpoints, LAMBDA e : SocketSpec(e.entry) = SocketSpec(entry))

NextEntry == candidate.plan.entries[Len(candidate.pending) + 1]

MorePending == candidate.stage = "prepare" /\ Len(candidate.pending) < Len(candidate.plan.entries)

PrepareReused ==
    LET e == Existing(NextEntry)
    IN  /\ MorePending /\ e # 0
        /\ candidate' = [candidate EXCEPT !.pending =
                          Append(@, [entry |-> NextEntry, socket |-> active.endpoints[e].socket])]
        /\ UNCHANGED <<os, active, draining, faults>>

(* create_socket binds; it does not listen yet *)
PrepareNew ==
    /\ MorePending /\ Existing(NextEntry) = 0
    /\ ~Refuses(SocketSpec(NextEntry))
    /\ FreeSockets # {}
    /\ LET s == Min(FreeSockets)
       IN  /\ os' = [os EXCEPT ![s] = [spec |-> SocketSpec(NextEntry), state |-> "bound"]]
           /\ candidate' = [candidate EXCEPT !.pending = Append(@, [entry |-> NextEntry, socket |-> s])]
    /\ UNCHANGED <<active, draining, faults>>

(* An error returns; the candidate's handles are dropped, not those it shares *)
AbortBind ==
    /\ candidate' = NoBind
    /\ os' = Dropped(os, SocketsOf(active.endpoints) \union UNION {SocketsOf(d) : d \in draining})

(* The address is in use *)
PrepareRefused ==
    /\ MorePending /\ Existing(NextEntry) = 0 /\ Refuses(SocketSpec(NextEntry))
    /\ AbortBind
    /\ UNCHANGED <<active, draining, faults>>

(* A call fails, the reload is cancelled or its deadline passes *)
BindFails ==
    /\ candidate.stage # "none" /\ faults < MaxBindFaults
    /\ faults' = faults + 1
    /\ AbortBind
    /\ UNCHANGED <<active, draining>>

(* Only when all are prepared the new ones are activated, in order *)
StartActivation ==
    /\ candidate.stage = "prepare" /\ ~MorePending
    /\ candidate' = [candidate EXCEPT !.stage = "activate"]
    /\ UNCHANGED <<os, active, draining, faults>>

Inactive == {i \in DOMAIN candidate.pending : os[candidate.pending[i].socket].state = "bound"}

ActivateNext ==
    /\ candidate.stage = "activate" /\ Inactive # {}
    /\ os' = [os EXCEPT ![candidate.pending[Min(Inactive)].socket].state = "active"]
    /\ UNCHANGED <<active, candidate, draining, faults>>

(* prepare_transport_plans: the adapter of every endpoint accepts its socket *)
AdapterFits(e) ==
    /\ (e.entry.transport = "Udp") <=> (os[e.socket].spec.kind = "Udp")
    /\ os[e.socket].state = "active"

(* The activation is committed: the new set serves, the old one drains *)
CommitBind ==
    /\ candidate.stage = "activate" /\ Inactive = {}
    /\ \A i \in DOMAIN candidate.pending : AdapterFits(candidate.pending[i])
    /\ active' = [plan |-> candidate.plan, endpoints |-> candidate.pending]
    /\ draining' = IF active.plan = None THEN {} ELSE draining \union {active.endpoints}
    /\ candidate' = NoBind
    /\ UNCHANGED <<os, faults>>

(* The last request of an old set ends and drops its handles *)
Drained(set) ==
    /\ draining' = draining \ {set}
    /\ os' = Dropped(os, SocketsOf(active.endpoints) \union SocketsOf(candidate.pending)
                            \union UNION {SocketsOf(d) : d \in draining \ {set}})
    /\ UNCHANGED <<active, candidate, faults>>

-----------------------------------------------------------------------------
BindNext ==
    \/ \E plan \in Plans : StartBind(plan)
    \/ PrepareReused \/ PrepareNew \/ PrepareRefused
    \/ BindFails
    \/ StartActivation \/ ActivateNext \/ CommitBind
    \/ \E set \in draining : Drained(set)

BindSpec == BindInit /\ [][BindNext]_bindVars

-----------------------------------------------------------------------------
(* Properties *)

(* Types of the sockets and of the bind in progress. *)
BindTypeOK ==
    /\ \A s \in DOMAIN os : os[s].state \in {"closed", "bound", "active"}
    /\ candidate.stage \in {"none", "prepare", "activate"}
    /\ faults \in 0..MaxBindFaults

(* A reload keeps the very socket of an endpoint whose physical            *)
(* specification is in both plans, whatever became of its owner or         *)
(* transport, and every endpoint it starts to serve has an open, activated *)
(* socket of its kind (bind_with_previous reuses by socket_spec).          *)
KeepsSockets ==
    \A i \in DOMAIN active'.endpoints :
     LET new == active'.endpoints[i]
     IN  /\ os'[new.socket].state = "active" /\ os'[new.socket].spec.kind = new.entry.kind
         /\ \A j \in DOMAIN active.endpoints :
             LET old == active.endpoints[j]
             IN  (<<old.entry.kind, old.entry.address>> = <<new.entry.kind, new.entry.address>>)
                     => old.socket = new.socket
ListeningIsKept == [][KeepsSockets]_bindVars

(* An open socket belongs to the active set, to the bind in progress or to *)
(* a set that drains: a bind that fails, also one that fails while it      *)
(* activates, leaves nothing open and closes nothing that is shared.       *)
OpenIsHeld == {s \in DOMAIN os : os[s].state # "closed"} = Held
====
