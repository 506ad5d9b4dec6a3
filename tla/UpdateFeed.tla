------------------------------ MODULE UpdateFeed ------------------------------
(***************************************************************************)
(* What the notifications of the Service Manager and the resyncs promise   *)
(* together, whatever connections, channels and goroutines lie between: a  *)
(* store follows a source of changes.  Of every change the store has yet   *)
(* to see, either the notification is still to come (feed), or the         *)
(* resource is owed a copy (owed).  Notifications may be discarded as long *)
(* as every resource is then owed one.                                     *)
(*                                                                         *)
(* NotificationPipeline implements this.                                   *)
(***************************************************************************)
EXTENDS Integers, Sequences

CONSTANT Keys   \* the resources

VARIABLES
    log,    \* the resource changed at each revision
    latest, \* the latest revision of each resource
    store,  \* the revision of each resource in the store
    feed,   \* the revisions whose notifications are still to come
    owed    \* the resources that will be copied anew

vars == <<log, latest, store, feed, owed>>

Versions(k) == {0} \cup {r \in 1..Len(log) : log[r] = k}

Init ==
    /\ log = <<>>
    /\ latest = [k \in Keys |-> 0]
    /\ store = [k \in Keys |-> 0]
    /\ feed = {}
    /\ owed = Keys

\* The source changes; the notification may be lost on what is owed a copy.
Change(k) ==
    /\ log' = Append(log, k)
    /\ latest' = [latest EXCEPT ![k] = Len(log) + 1]
    /\ \/ feed' = feed \cup {Len(log) + 1}
       \/ k \in owed /\ feed' = feed
    /\ UNCHANGED <<store, owed>>

\* Notifications arrive in order.  One that is out of date is followed by a
\* later one of the same resource, or by a copy.
Deliver(r) ==
    /\ r \in feed
    /\ \A q \in feed : r <= q
    /\ log[r] \in owed \/ latest[log[r]] \in feed
    /\ store' = [store EXCEPT ![log[r]] = r]
    /\ feed' = feed \ {r}
    /\ UNCHANGED <<log, latest, owed>>

\* Notifications are discarded: everything is to be copied.
Discard ==
    /\ feed' \subseteq feed
    /\ owed' = Keys
    /\ UNCHANGED <<log, latest, store>>

\* A copy that does not count: another one is still to come.
Overwrite(k) ==
    /\ k \in owed
    /\ \E r \in Versions(k) : store' = [store EXCEPT ![k] = r]
    /\ UNCHANGED <<log, latest, feed, owed>>

\* A copy that is up to date, or older than a notification that is to come.
Copy(k) ==
    /\ k \in owed
    /\ \E r \in Versions(k) :
         /\ r = latest[k] \/ latest[k] \in feed
         /\ store' = [store EXCEPT ![k] = r]
    /\ owed' = owed \ {k}
    /\ UNCHANGED <<log, latest, feed>>

Next ==
    \/ \E k \in Keys : Change(k) \/ Overwrite(k) \/ Copy(k)
    \/ \E r \in feed : Deliver(r)
    \/ Discard

Spec == Init /\ [][Next]_vars

-----------------------------------------------------------------------------
\* No change is forgotten.
NothingForgotten ==
    \A k \in Keys : k \in owed \/ store[k] = latest[k] \/ latest[k] \in feed

\* With nothing to come the store equals the source.
SettledIsUpToDate == feed = {} /\ owed = {} => store = latest
=============================================================================
