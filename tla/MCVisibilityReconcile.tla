------------------------ MODULE MCVisibilityReconcile ------------------------
(***************************************************************************)
(* Instances of VisibilityReconcile for TLC: two brokers to reconcile and  *)
(* a blacklisted one, with one plan each.                                  *)
(***************************************************************************)
EXTENDS VisibilityReconcile, TLC

CONSTANTS b1, b2, b3, p1, p2, p3, s1

MCBrokerOf == [p \in Plans |-> CASE p = p1 -> b1 [] p = p2 -> b2 [] p = p3 -> b3]

\* Public for all platforms, or for a scope of ours (p1 only).  SM has none for
\* the plan of the blacklisted broker, to which the platform gives access.
MCShapes ==
    [plan : {p1, p2}, bound : {FALSE}, scopes : {{}}]
    \cup [plan : {p1}, bound : {TRUE}, scopes : {{s1}}]

\* At first the platform has proxies of SM's brokers, or of all but b2, which it
\* may keep under its own name.
MCInit ==
    /\ Init
    /\ {b1, b3} \cap Brokers \subseteq known
    /\ registered \in {known, known \ {b2}}
    /\ kept \subseteq {b2} \ registered
    /\ b3 \in Brokers => <<p3, Public>> \in access
    /\ access \subseteq {<<p1, s1>>} \cup (Plans \X {Public})

MCSpec == MCInit /\ [][Next]_vars
MCFairSpec == MCSpec /\ Fairness
=============================================================================
