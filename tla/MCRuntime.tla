------------------------------- MODULE MCRuntime -------------------------------
(* Bounds for model checking RuntimeCoordinator.  A behaviour keeps to one scope:  *)
(* which of the things that may happen to the service happen in it.                *)
EXTENDS RuntimeCoordinator

CONSTANT Scopes

VARIABLE scope

Scope(reloading, refreshing, failing, collecting, expiring) ==
  [reloads |-> reloading, refreshes |-> refreshing, failures |-> failing,
   collectors |-> collecting, deadline |-> expiring]

\* A reload beside refreshes, one that may fail, and a deadline of the shutdown that may
\* pass; a reload beside a late-result collector; a shutdown, with its deadline, beside a
\* collector.
SmallScopes ==
  {Scope(TRUE, TRUE, 1, FALSE, TRUE), Scope(TRUE, FALSE, 0, TRUE, FALSE),
   Scope(FALSE, FALSE, 0, TRUE, TRUE)}

ScopedInit == Init /\ scope \in Scopes

\* No scope stops a step that fairness is assumed of: it keeps a reload, a refresh or a
\* collector from beginning, a reload from failing or the deadline from passing.
ScopedNext ==
  /\ Next /\ UNCHANGED scope
  /\ reload'.pc = "idle" \/ scope.reloads
  /\ refresh'.pc = "idle" \/ scope.refreshes
  /\ reload'.failures <= scope.failures
  /\ scope.collectors \/ \A s \in Drains : aim'[s] = 0 /\ \A r \in Revisions : fin'[r].drains = {}
  /\ svc'.expired => scope.deadline

ScopedSpec == ScopedInit /\ [][ScopedNext]_<<vars, scope>> /\ Fairness

================================================================================
