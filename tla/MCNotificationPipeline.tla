----------------------- MODULE MCNotificationPipeline -----------------------
(* Instances of NotificationPipeline for TLC.                              *)
EXTENDS NotificationPipeline, TLC

CONSTANTS k1, k2

MCKeys == {k1, k2}
OneKey == {k1}
MCSymmetry == Permutations(MCKeys)

\* Everything the network and SM may do, without the events that lose changes.
NetworkEvents == {"connectFails", "gone", "noRevisionHeader", "streamFails",
                  "pingFails", "periodic"}
\* The same without the resync timer: nothing repairs what would be lost.
NoTimerEvents == NetworkEvents \ {"periodic"}
EveryEvent == AllEvents
BadPingEvents == {"badPing"}
CancelOnly == {"cancel"}
=============================================================================
