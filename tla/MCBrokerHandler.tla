--------------------------- MODULE MCBrokerHandler ---------------------------
(***************************************************************************)
(* Instances of BrokerHandler for TLC: one broker.                         *)
(***************************************************************************)
EXTENDS BrokerHandler, TLC

CONSTANTS b1, n1, n2, n3, c1, g1

MCShapes ==
    [broker : {b1}, kind : {"proxy"}, name : {n1}, cred : {c1}]
    \cup [broker : {b1}, kind : {"legacy"}, name : {n1}, cred : {Default}]
    \cup [broker : {b1}, kind : {"original", "other"}, name : {n1}, cred : {Own}]

MCOptions ==
    {[takeover |-> TRUE, credentials |-> TRUE, fetcher |-> TRUE],
     [takeover |-> FALSE, credentials |-> FALSE, fetcher |-> FALSE]}

MCInit ==
    /\ HandlerInit
    /\ sm[b1] # n2
    /\ \A g \in Guids : platform[g] # None => g = g1

MCSpec == MCInit /\ [][HandlerNext]_allVars
=============================================================================
