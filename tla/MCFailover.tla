----------------------------- MODULE MCFailover -----------------------------
(* Failover on three nodes. *)
EXTENDS Failover

CONSTANTS n1, n2, n3

ThreeNodes == <<n1, n2, n3>>

Budget(c, e, l, f, leading) ==
    [commands |-> c, events |-> e, elections |-> l, failures |-> f, leading |-> leading]

\* Two commands of users while a peer goes silent, or while the leader leaves; one
\* while a node fails, or while two leaders succeed each other.
MovesAndSuccessions ==
    {Budget(2, 1, 1, 0, {n1}), Budget(1, 2, 1, 0, {n1}), Budget(2, 0, 1, 1, {n1}),
     Budget(1, 1, 1, 1, {n1}), Budget(1, 1, 2, 0, {n1, n2})}
=============================================================================
