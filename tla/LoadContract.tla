---------------------------- MODULE LoadContract ----------------------------
(***************************************************************************)
(* What the CacheStore trait (backend/src/ports/cache.rs) promises about   *)
(* load reservations, with nothing of how a store keeps them: a load is a  *)
(* promise with one leader and one outcome; followers join the live        *)
(* promise of a key, and leave with its outcome or on their own.           *)
(***************************************************************************)
EXTENDS Naturals

CONSTANTS Keys, Callers, MaxGen

VARIABLES promise,   \* the key and outcome of every promise made so far
          role,      \* the promise a caller leads or follows
          stopped    \* the store accepts no reservation any more

vars == <<promise, role, stopped>>

Promises == 1..MaxGen
Open == "none"
Unused == [key |-> {}, outcome |-> Open]
Out == [kind |-> "out", promise |-> 0, seen |-> Open]

Used(p) == promise[p] # Unused
\* A promise is kept while it is open and until its last follower has left.
Live(p) == /\ Used(p)
           /\ \/ promise[p].outcome = Open
              \/ \E c \in Callers : role[c].kind = "follower" /\ role[c].promise = p

Init ==
    /\ promise = [p \in Promises |-> Unused]
    /\ role = [c \in Callers |-> Out]
    /\ stopped = FALSE

\* "At any time one key has one Leader."
Lead(c, k) ==
    /\ role[c] = Out
    /\ ~stopped
    /\ ~\E p \in Promises : Live(p) /\ promise[p].key = {k}
    /\ \E p \in Promises :
          /\ ~Used(p) /\ \A q \in 1..(p - 1) : Used(q)
          /\ promise' = [promise EXCEPT ![p].key = {k}]
          /\ role' = [role EXCEPT ![c] = [kind |-> "leader", promise |-> p, seen |-> Open]]
    /\ stopped' = stopped

Follow(c, p) ==
    /\ role[c] = Out
    /\ ~stopped
    /\ Live(p)
    /\ role' = [role EXCEPT ![c] = [kind |-> "follower", promise |-> p, seen |-> Open]]
    /\ UNCHANGED promise /\ stopped' = stopped

\* The leader ends its lease, which settles a promise that is still open.
EndLease(c, outcome) ==
    /\ role[c].kind = "leader"
    /\ promise' = [promise EXCEPT ![role[c].promise].outcome = IF @ = Open THEN outcome ELSE @]
    /\ role' = [role EXCEPT ![c] = Out]
    /\ stopped' = stopped

\* A follower is told the outcome of its promise, or stops waiting for it.
Learn(c) ==
    LET p == role[c].promise
    IN  /\ role[c].kind = "follower"
        /\ role[c].seen = Open
        /\ promise[p].outcome # Open
        /\ role' = [role EXCEPT ![c].seen = promise[p].outcome]
        /\ UNCHANGED promise /\ stopped' = stopped
GiveUp(c) ==
    /\ role[c].kind = "follower"
    /\ role[c].seen = Open
    /\ role' = [role EXCEPT ![c].seen = "ended"]
    /\ UNCHANGED promise /\ stopped' = stopped
Leave(c) ==
    /\ role[c].kind = "follower"
    /\ role[c].seen # Open
    /\ role' = [role EXCEPT ![c] = Out]
    /\ UNCHANGED promise /\ stopped' = stopped

\* Shutdown settles every open promise.
Stop ==
    /\ ~stopped
    /\ stopped' = TRUE
    /\ promise' = [p \in Promises |->
            IF Used(p) /\ promise[p].outcome = Open
            THEN [promise[p] EXCEPT !.outcome = "shutdown"] ELSE promise[p]]
    /\ UNCHANGED role

Next ==
    \/ \E c \in Callers :
          \/ \E k \in Keys : Lead(c, k)
          \/ \E p \in Promises : Follow(c, p)
          \/ \E o \in {"ready", "failed", "abandoned"} : EndLease(c, o)
          \/ Learn(c) \/ GiveUp(c) \/ Leave(c)
    \/ Stop

Spec == Init /\ [][Next]_vars

=============================================================================
