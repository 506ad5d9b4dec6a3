-------------------------- MODULE MCBrokerReconcile --------------------------
(***************************************************************************)
(* Instances of BrokerReconcile for TLC: two brokers, four IDs.            *)
(***************************************************************************)
EXTENDS BrokerReconcile, TLC

CONSTANTS b1, b2, n1, n2, c1, g1, g2

MCShapes ==
    [broker : Brokers, kind : {"proxy"}, name : {n1}, cred : {Default, c1}]
    \cup [broker : Brokers, kind : {"legacy"}, name : {n1}, cred : {Default}]
    \cup [broker : Brokers, kind : {"original"}, name : {n1}, cred : {Own}]
    \cup [broker : {b1}, kind : {"other"}, name : {n1}, cred : {Own}]

MCOptions ==
    {[takeover |-> TRUE, credentials |-> TRUE, fetcher |-> TRUE]}

MCManyOptions ==
    {[takeover |-> TRUE, credentials |-> TRUE, fetcher |-> TRUE],
     [takeover |-> FALSE, credentials |-> FALSE, fetcher |-> FALSE]}

\* The first registration of a broker has the broker's own place: which ID it
\* has does not matter.
MCInit ==
    /\ Init
    /\ \A b \in Brokers : sm[b] # n2
    /\ \A g \in Guids : platform[g] # None =>
         g = (CASE platform[g].broker = b1 -> g1 [] platform[g].broker = b2 -> g2)

MCSpec == MCInit /\ [][Next]_vars
MCFairSpec == MCSpec /\ Fairness
=============================================================================
