------------------------------ MODULE MCHubProcess ------------------------------
(***************************************************************************)
(* TLC instance of HubProcessProperties.                                   *)
(***************************************************************************)
EXTENDS HubProcessProperties

\* What the publishers ask for never changes, so this drops whole behaviours.
\* Of the contents it keeps the one that looks like a subscribe request and the
\* one that ServeHTTP refuses; the others are routed as these two are
\* (OperationsReachTheirCallback).
Explored ==
    \A p \in Publishers : op[p].method = "content" =>
        op[p].form = "subscribe" /\ op[p].media \in {"form", "foreign"}
===============================================================================
