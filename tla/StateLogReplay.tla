---------------------------- MODULE StateLogReplay ----------------------------
(***************************************************************************)
(* Every event log, one event at a time, to check what restart relies on:  *)
(* a snapshot carries no offset, so a restarted process replays the whole  *)
(* retained log over whatever snapshot it was given.                       *)
(***************************************************************************)
EXTENDS StateLog

CONSTANT MaxLog     \* bound on the length of the log

VARIABLE log
vars == <<log>>

Init == log = <<>>

Next == Len(log) < MaxLog /\ \E e \in Events : log' = Append(log, e)

Spec == Init /\ [][Next]_vars

\* Restoring a snapshot taken after any k events and replaying what the broker
\* retains (all but the first r events) over it gives the view of a process that
\* never stopped; so does replaying over what the consolidator persisted after
\* event j of such a replay, before it crashed: a view the system never had.
ReplayConverges ==
    LET n == Len(log) IN
    \A k \in 0..n : \A r \in 0..k : \A j \in r..n :
        Replay(Replay(Materialized(log, k), log, r, j), log, r, n) = Materialized(log, n)
=============================================================================
