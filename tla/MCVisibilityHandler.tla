------------------------- MODULE MCVisibilityHandler -------------------------
(***************************************************************************)
(* Instances of VisibilityHandler for TLC: a broker with two plans and a   *)
(* blacklisted one with a plan; one visibility or two.                     *)
(***************************************************************************)
EXTENDS VisibilityHandler, TLC

CONSTANTS b1, b2, p1, p2, p3, s1, s2, v1

MCBrokerOf == [p \in Plans |-> IF p = p3 THEN b2 ELSE b1]

MCShapes ==
    [plan : {p1}, bound : {FALSE}, scopes : {{}}]
    \cup [plan : {p1}, bound : {TRUE}, scopes : {{}, {s1}, {s2}}]
    \cup [plan : {p2}, bound : {TRUE}, scopes : {{s1}}]
    \cup [plan : {p3}, bound : {TRUE}, scopes : {{s1}}]

\* What makes one of these of another; a change of some other key, which may as
\* well be a label dropped as a whole; a scope that goes and comes back.
MCPatches ==
    LET add(l) == [add |-> l, remove |-> NoLabels]
        remove(l) == [add |-> NoLabels, remove |-> l]
        other == [some |-> TRUE, scopes |-> {}]
    IN
    {NoPatch, add(Of({s1})), remove(Of({s1})),
     [add |-> Of({s1}), remove |-> Of({s2})], [add |-> Of({s2}), remove |-> Of({s1})],
     add(other), remove(other), [add |-> Of({s1}), remove |-> Of({s1})]}

\* At first the platform agrees with SM, or it has nothing yet.
MCInit ==
    /\ HandlerInit
    /\ registered \in {known, {}}
    /\ b2 \in known
    /\ kept \subseteq {b1} \ registered
    /\ access = Restricted(GrantedBy(Plans), registered)
    /\ \A v \in Visibilities : sm[v] # None => v = v1

MCSpec == MCInit /\ [][HandlerNext]_allVars
=============================================================================
