-------------------------- MODULE MCProxyLifecycle --------------------------
(* Instances of ProxyLifecycle for TLC.                                    *)
EXTENDS ProxyLifecycle

CONSTANT k1

OneKey == {k1}
EveryEvent == AllEvents
=============================================================================
