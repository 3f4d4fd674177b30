-------------------------- MODULE MCConfigTransaction --------------------------
(* Bounds for model checking ConfigTransaction. *)
EXTENDS ConfigTransaction, TLC

CONSTANTS o1, o2

Bound(clients, editor, kills, errors, readers) ==
  [ops |-> clients, edits |-> editor, crashes |-> kills, faults |-> errors,
   reads |-> readers]

\* Two clients with an editor or a reader; one client with an editor that touches the
\* files twice, or once beside a crash, a reader or a failing file operation; one client
\* with two crashes, or with a crash and a failing file operation.
SmallLimits ==
  {Bound({o1, o2}, 1, 0, 0, 0), Bound({o1, o2}, 0, 0, 0, 1), Bound({o1}, 2, 0, 0, 0),
   Bound({o1}, 1, 1, 0, 0), Bound({o1}, 1, 0, 0, 1), Bound({o1}, 1, 0, 1, 0),
   Bound({o1}, 0, 2, 0, 0), Bound({o1}, 0, 1, 1, 0)}

\* One client, with an editor and a crash.
DecisionLimits == {Bound({o1}, 1, 1, 0, 0)}

\* One client and a reader.
RetryLimits == {Bound({o1}, 0, 0, 0, 1)}

================================================================================
