---------------------------- MODULE CommitHandoff ----------------------------
(* What the resolution pipeline promises to the cache: a CacheCommitCandidate     *)
(* (cache/service.rs) handed over by a request is worked on at most once, or is    *)
(* dropped, and its single-flight lease ends with it.                              *)

CONSTANT Candidates

VARIABLE handoff   \* where each candidate is

Places == {"none", "queued", "working", "settled", "dropped"}
Ended(c) == handoff[c] \in {"settled", "dropped"}

Move(c, from, to) == handoff[c] \in from /\ handoff' = [handoff EXCEPT ![c] = to]

Offer(c) == Move(c, {"none"}, "queued")
Take(c) == Move(c, {"queued"}, "working")
Settle(c) == Move(c, {"working"}, "settled")
\* A refused or full queue, an aborted or panicking task, a deadline at shutdown:
\* whatever owns the candidate goes away, and several may go at once.
Drop(D) ==
  /\ D # {} /\ \A c \in D : ~Ended(c)
  /\ handoff' = [c \in Candidates |-> IF c \in D THEN "dropped" ELSE handoff[c]]

Init == handoff = [c \in Candidates |-> "none"]

Next ==
  \/ \E c \in Candidates : Offer(c) \/ Take(c) \/ Settle(c)
  \/ \E D \in SUBSET Candidates : Drop(D)

Spec == Init /\ [][Next]_handoff

\* A candidate that was handed over does not stay in the pipeline.
Ends == \A c \in Candidates : handoff[c] \in {"queued", "working"} ~> Ended(c)

===============================================================================
