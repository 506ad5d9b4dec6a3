------------------------ MODULE NotificationPipeline ------------------------
(***************************************************************************)
(* How changes in the Service Manager (SM) reach the platform: the         *)
(* notifications producer (pkg/sbproxy/notifications/producer.go) and the  *)
(* reconciler (pkg/sbproxy/reconcile/reconciler.go, resyncer.go).          *)
(*                                                                         *)
(* Five goroutines share one bounded channel and one revision counter:     *)
(*   run         connects the websocket and restarts the next two          *)
(*   reader      readNotifications: websocket -> messages channel          *)
(*   pinger      ping: keeps the websocket alive                           *)
(*   sched       scheduleResync: puts Resync messages in the channel       *)
(*   reconciler  takes messages and changes the platform                   *)
(*                                                                         *)
(* The data are revisions.  The r-th notification of the SM says that the  *)
(* resource log[r] changed; applying it, or copying the resource during a  *)
(* resync, leaves on the platform the resource as of some revision.        *)
(***************************************************************************)
EXTENDS Integers, Sequences

CONSTANTS
    Keys,       \* the SM resources (brokers, visibilities)
    MaxRev,     \* bound of the exploration: revisions the SM publishes
    QueueSize,  \* ProducerSettings.MessagesQueueSize
    Events      \* the events of the environment that may happen

AllEvents == {"cancel", "connectFails", "gone", "badPing", "noRevisionHeader",
              "streamFails", "pingFails", "periodic", "resyncFails",
              "applyFails"}

ASSUME KeysAssumption == Keys # {}
ASSUME BoundsAssumption == MaxRev \in Nat /\ QueueSize \in Nat \ {0}
ASSUME EventsAssumption == Events \subseteq AllEvents

NoRevision == -1   \* types.InvalidRevision
Resync == 0        \* the message {Resync: true}; a notification is its revision

VARIABLES
    log,        \* SM: the resource changed at each revision
    sm,         \* SM: the latest revision of each resource (0: initial state)
    platform,   \* platform: the revision each resource has there
    ctxDone,    \* the context of the process is cancelled
    run,        \* where the goroutine run is
    last,       \* p.lastNotificationRevision
    sched,      \* where the goroutine scheduleResync is
    reader,     \* where the goroutine readNotifications is
    pinger,     \* where the goroutine ping is
    cursor,     \* websocket: the last revision read from this connection
    messages,   \* the channel between the producer and the reconciler
    reconciler, \* where the goroutine process is
    current,    \* the notification being consumed, or consumed last
    fetched,    \* resync: the revision fetched from SM for each resource
    unsynced,   \* resync: resources not yet reconciled
    requested,  \* history: a resync was requested
    life        \* the rest of the process: no step of the pipeline changes it

envVars == <<log, sm, life>>
producerVars == <<run, last, cursor, reader, pinger>>
reconcilerVars == <<platform, reconciler, current, fetched, unsynced>>
vars == <<log, sm, platform, ctxDone, run, last, sched, reader, pinger, cursor,
          messages, reconciler, current, fetched, unsynced, requested, life>>

\* What the steps of a goroutine leave alone.
runFrame == <<envVars, reconcilerVars, requested, ctxDone, sched, messages, reader, pinger>>
schedFrame == <<envVars, producerVars, reconcilerVars, ctxDone>>
streamFrame == <<envVars, reconcilerVars, ctxDone, run, sched>>
reconcilerFrame == <<envVars, producerVars, requested, ctxDone, sched>>

TypeOK ==
    /\ log \in Seq(Keys)
    /\ sm \in [Keys -> Nat]
    /\ platform \in [Keys -> Nat]
    /\ ctxDone \in BOOLEAN
    /\ run \in {"connect", "signal", "start", "await1", "await2", "backoff", "exit"}
    /\ last \in Nat \cup {NoRevision}
    /\ sched \in {"idle", "send", "exit"}
    /\ reader \in {"off", "read", "push", "commit"}
    /\ pinger \in {"off", "ping"}
    /\ cursor \in Nat \cup {NoRevision}
    /\ messages \in Seq(Nat)
    /\ Len(messages) <= QueueSize
    /\ reconciler \in {"idle", "consume", "drain", "resync", "exit"}
    /\ current \in Nat
    /\ fetched \in [Keys -> Nat \cup {NoRevision}]
    /\ unsynced \subseteq Keys
    /\ requested \in BOOLEAN

\* Before the goroutines run.
Blank ==
    /\ log = <<>>
    /\ sm = [k \in Keys |-> 0]
    /\ platform = [k \in Keys |-> 0]
    /\ ctxDone = FALSE
    /\ last = NoRevision
    /\ reader = "off"
    /\ pinger = "off"
    /\ cursor = NoRevision
    /\ messages = <<>>
    /\ current = 0
    /\ fetched = [k \in Keys |-> NoRevision]
    /\ unsynced = {}
    /\ requested = FALSE

Init == Blank /\ run = "connect" /\ sched = "idle" /\ reconciler = "idle" /\ life = "up"

-----------------------------------------------------------------------------
(* The environment: the Service Manager and the process's context.         *)

\* A change of resource k in SM and its notification, one transaction there.
Publish(k) ==
    /\ Len(log) < MaxRev
    /\ log' = Append(log, k)
    /\ sm' = [sm EXCEPT ![k] = Len(log) + 1]
    /\ UNCHANGED <<producerVars, reconcilerVars, requested, ctxDone, sched, messages, life>>

\* The process is told to stop.
Cancel ==
    /\ "cancel" \in Events
    /\ ~ctxDone
    /\ ctxDone' = TRUE
    /\ UNCHANGED <<envVars, producerVars, reconcilerVars, requested, sched, messages>>

-----------------------------------------------------------------------------
(* Goroutine run.                                                          *)

needResync == last = NoRevision

\* p.lastNotificationRevision once the response headers are read.  SM sends
\* its latest revision when the request names none; with nothing published
\* (or against an SM that leaves it out) the header is missing.
RevisionsFromHeader ==
    IF last # NoRevision THEN {last}
    ELSE {r \in {Len(log), NoRevision} :
             /\ r = NoRevision => Len(log) = 0 \/ "noRevisionHeader" \in Events
             /\ r # 0}

\* The dial fails, or the revision header is malformed.
ConnectFails ==
    /\ run = "connect"
    /\ "connectFails" \in Events \/ ctxDone
    /\ run' = "backoff"
    /\ UNCHANGED <<runFrame, last, cursor>>

\* Status 410: SM no longer has the notifications after last.  The revision is
\* forgotten and the dial repeated at once.
ConnectGone ==
    /\ run = "connect"
    /\ "gone" \in Events
    /\ last # NoRevision
    /\ last' = NoRevision
    /\ UNCHANGED <<runFrame, run, cursor>>

\* readResponseHeaders stores the revision and then rejects the ping period:
\* connect fails although the revision has moved.
ConnectBadPingPeriod ==
    /\ run = "connect"
    /\ "badPing" \in Events
    /\ last' \in RevisionsFromHeader
    /\ run' = "backoff"
    /\ UNCHANGED <<runFrame, cursor>>

\* Mutant: whether to resync is decided after the headers are read.
ConnectSucceeds_LateCheck ==
    /\ run = "connect"
    /\ ~ctxDone
    /\ last' \in RevisionsFromHeader
    /\ cursor' = IF last = NoRevision THEN Len(log) ELSE last
    /\ run' = IF last' = NoRevision THEN "signal" ELSE "start"
    /\ UNCHANGED runFrame

\* SM streams what follows the revision asked for, or what follows its latest
\* one when none was asked for.
ConnectSucceeds ==
    /\ run = "connect"
    /\ ~ctxDone
    /\ last' \in RevisionsFromHeader
    /\ cursor' = IF last = NoRevision THEN Len(log) ELSE last
    /\ run' = IF needResync THEN "signal" ELSE "start"
    /\ UNCHANGED runFrame

\* resyncChan <- struct{}{}: a rendezvous with the idle scheduler.
SignalResync ==
    /\ run = "signal"
    /\ sched = "idle"
    /\ run' = "start"
    /\ sched' = "send"
    /\ requested' = TRUE
    /\ UNCHANGED <<envVars, reconcilerVars, ctxDone, last, cursor, reader, pinger, messages>>

StartStreams ==
    /\ run = "start"
    /\ run' = "await1"
    /\ reader' = "read"
    /\ pinger' = "ping"
    /\ UNCHANGED <<envVars, reconcilerVars, requested, ctxDone, last, cursor, sched, messages>>

\* The first <-done; the children's context is cancelled.
AwaitFirst ==
    /\ run = "await1"
    /\ reader = "off" \/ pinger = "off"
    /\ run' = "await2"
    /\ UNCHANGED <<runFrame, last, cursor>>

\* Mutant: only the reader is waited for.
AwaitSecond_ReaderOnly ==
    /\ run = "await2"
    /\ reader = "off"
    /\ run' = "backoff"
    /\ cursor' = NoRevision
    /\ UNCHANGED <<runFrame, last>>

\* The second <-done; the connection is closed.
AwaitSecond ==
    /\ run = "await2"
    /\ reader = "off" /\ pinger = "off"
    /\ run' = "backoff"
    /\ cursor' = NoRevision
    /\ UNCHANGED <<runFrame, last>>

\* The reconnect delay elapses.
Reconnect ==
    /\ run = "backoff"
    /\ run' = "connect"
    /\ UNCHANGED <<runFrame, last, cursor>>

RunExits ==
    /\ run = "backoff"
    /\ ctxDone
    /\ run' = "exit"
    /\ UNCHANGED <<runFrame, last, cursor>>

-----------------------------------------------------------------------------
(* Goroutine scheduleResync.                                               *)

ResyncPeriodElapses ==
    /\ "periodic" \in Events
    /\ sched = "idle"
    /\ sched' = "send"
    /\ requested' = TRUE
    /\ UNCHANGED <<schedFrame, messages>>

\* Mutant: the message is dropped when the channel is full.
SendResync_NonBlocking ==
    /\ sched = "send"
    /\ messages' = IF Len(messages) < QueueSize THEN Append(messages, Resync)
                                                ELSE messages
    /\ sched' = "idle"
    /\ UNCHANGED <<schedFrame, requested>>

\* Mutant: the scheduler returns after its first message.
SendResync_Once ==
    /\ sched = "send"
    /\ Len(messages) < QueueSize
    /\ messages' = Append(messages, Resync)
    /\ sched' = "exit"
    /\ UNCHANGED <<schedFrame, requested>>

\* Mutant: the channel is not bounded.
SendResync_Unbounded ==
    /\ sched = "send"
    /\ messages' = Append(messages, Resync)
    /\ sched' = "idle"
    /\ UNCHANGED <<schedFrame, requested>>

SendResync ==
    /\ sched = "send"
    /\ Len(messages) < QueueSize
    /\ messages' = Append(messages, Resync)
    /\ sched' = "idle"
    /\ UNCHANGED <<schedFrame, requested>>

SchedExits ==
    /\ sched \in {"idle", "send"}
    /\ ctxDone
    /\ sched' = "exit"
    /\ UNCHANGED <<schedFrame, requested, messages>>

-----------------------------------------------------------------------------
(* Goroutines readNotifications and ping of the current connection.        *)

childDone == ctxDone \/ run = "await2"

\* Mutant: the revision is stored before the message is in the channel.
ReadMessage_StoresEarly ==
    /\ reader = "read"
    /\ cursor < Len(log)
    /\ cursor' = cursor + 1
    /\ last' = cursor + 1
    /\ reader' = "push"
    /\ UNCHANGED <<streamFrame, requested, pinger, messages>>

ReadMessage ==
    /\ reader = "read"
    /\ cursor < Len(log)
    /\ cursor' = cursor + 1
    /\ reader' = "push"
    /\ UNCHANGED <<streamFrame, requested, last, pinger, messages>>

\* A read error, malformed JSON, or the read deadline: no pong comes once the
\* pinger has stopped.
ReadFails ==
    /\ reader = "read"
    /\ "streamFails" \in Events \/ pinger = "off"
    /\ reader' = "off"
    /\ UNCHANGED <<streamFrame, requested, last, cursor, pinger, messages>>

PushNotification ==
    /\ reader = "push"
    /\ Len(messages) < QueueSize
    /\ messages' = Append(messages, cursor)
    /\ reader' = "commit"
    /\ UNCHANGED <<streamFrame, last, cursor, pinger, requested>>

\* Mutant: the revision is not stored.
CommitRevision_Forgotten ==
    /\ reader = "commit"
    /\ reader' = "read"
    /\ UNCHANGED <<streamFrame, requested, last, cursor, pinger, messages>>

\* Mutant: off by one, SM is asked for the last notification again.
CommitRevision_OffByOne ==
    /\ reader = "commit"
    /\ last' = cursor - 1
    /\ reader' = "read"
    /\ UNCHANGED <<streamFrame, requested, cursor, pinger, messages>>

CommitRevision ==
    /\ reader = "commit"
    /\ last' = cursor
    /\ reader' = "read"
    /\ UNCHANGED <<streamFrame, requested, cursor, pinger, messages>>

ReaderCancelled ==
    /\ reader = "push"
    /\ childDone
    /\ reader' = "off"
    /\ UNCHANGED <<streamFrame, requested, last, cursor, pinger, messages>>

PingFails ==
    /\ pinger = "ping"
    /\ "pingFails" \in Events
    /\ pinger' = "off"
    /\ UNCHANGED <<streamFrame, requested, last, cursor, reader, messages>>

\* Mutant: the pinger only stops on a write error.
PingerCancelled_Never == FALSE /\ UNCHANGED vars

PingerCancelled ==
    /\ pinger = "ping"
    /\ childDone
    /\ pinger' = "off"
    /\ UNCHANGED <<streamFrame, requested, last, cursor, reader, messages>>

-----------------------------------------------------------------------------
(* Goroutine process of the reconciler.                                    *)

ReconcilerExits ==
    /\ reconciler = "idle"
    /\ ctxDone
    /\ reconciler' = "exit"
    /\ UNCHANGED <<reconcilerFrame, messages, platform, current, fetched, unsynced>>

Receive ==
    /\ reconciler = "idle"
    /\ messages # <<>>
    /\ messages' = Tail(messages)
    /\ IF Head(messages) = Resync
         THEN reconciler' = "drain" /\ UNCHANGED current
         ELSE reconciler' = "consume" /\ current' = Head(messages)
    /\ UNCHANGED <<reconcilerFrame, platform, fetched, unsynced>>

\* Consumer.Consume: the handler applies the notification's payload.
ConsumeApplies ==
    /\ reconciler = "consume"
    /\ platform' = [platform EXCEPT ![log[current]] = current]
    /\ reconciler' = "idle"
    /\ UNCHANGED <<reconcilerFrame, messages, current, fetched, unsynced>>

\* The handler logs an error of the platform or of SM and returns.
ConsumeFails ==
    /\ reconciler = "consume"
    /\ "applyFails" \in Events \/ ctxDone
    /\ reconciler' = "idle"
    /\ UNCHANGED <<reconcilerFrame, messages, platform, current, fetched, unsynced>>

DrainOne ==
    /\ reconciler = "drain"
    /\ messages # <<>>
    /\ messages' = Tail(messages)
    /\ UNCHANGED <<reconcilerFrame, reconcilerVars>>

\* The channel is empty: drain returns and Resync starts.
DrainDone ==
    /\ reconciler = "drain"
    /\ messages = <<>>
    /\ reconciler' = "resync"
    /\ unsynced' = Keys
    /\ fetched' = [k \in Keys |-> NoRevision]
    /\ UNCHANGED <<reconcilerFrame, messages, platform, current>>

\* One of the calls that list SM's brokers, plans and visibilities.
Fetch(k) ==
    /\ reconciler = "resync"
    /\ k \in unsynced
    /\ fetched[k] = NoRevision
    /\ fetched' = [fetched EXCEPT ![k] = sm[k]]
    /\ UNCHANGED <<reconcilerFrame, messages, platform, reconciler, current, unsynced>>

\* Resource k is done with; the resync ends with the last one.
FinishKey(k) ==
    /\ reconciler = "resync"
    /\ k \in unsynced
    /\ fetched[k] # NoRevision
    /\ unsynced' = unsynced \ {k}
    /\ fetched' = [fetched EXCEPT ![k] = NoRevision]
    /\ reconciler' = IF unsynced = {k} THEN "idle" ELSE "resync"
    /\ UNCHANGED <<reconcilerFrame, messages, current>>

\* The platform is given the resource as it was fetched.
SyncKey(k) ==
    /\ FinishKey(k)
    /\ platform' = [platform EXCEPT ![k] = fetched[k]]

\* The platform call fails and is logged; the resync goes on with the rest.
SyncKeyFails(k) ==
    /\ "applyFails" \in Events \/ ctxDone
    /\ FinishKey(k)
    /\ UNCHANGED platform

\* A list call fails: the resync is given up until another one is requested.
ResyncAborts ==
    /\ reconciler = "resync"
    /\ "resyncFails" \in Events \/ ctxDone
    /\ reconciler' = "idle"
    /\ unsynced' = {}
    /\ fetched' = [k \in Keys |-> NoRevision]
    /\ UNCHANGED <<reconcilerFrame, messages, platform, current>>

-----------------------------------------------------------------------------
RunStep == \/ ConnectFails \/ ConnectGone \/ ConnectBadPingPeriod
           \/ ConnectSucceeds \/ SignalResync \/ StartStreams \/ AwaitFirst
           \/ AwaitSecond \/ Reconnect \/ RunExits
SchedStep == ResyncPeriodElapses \/ SendResync \/ SchedExits
ReaderStep == \/ ReadMessage \/ ReadFails \/ PushNotification
              \/ CommitRevision \/ ReaderCancelled
PingerStep == PingFails \/ PingerCancelled
ReconcilerStep == \/ ReconcilerExits \/ Receive \/ ConsumeApplies \/ ConsumeFails
                  \/ DrainOne \/ DrainDone \/ ResyncAborts
                  \/ \E k \in Keys : Fetch(k) \/ SyncKey(k) \/ SyncKeyFails(k)

Next == \/ \E k \in Keys : Publish(k)
        \/ Cancel
        \/ RunStep \/ SchedStep \/ ReaderStep \/ PingerStep \/ ReconcilerStep

Spec == Init /\ [][Next]_vars

(* The Go scheduler runs every goroutine that can go on, and a dial ends.  *)
(* Senders blocked on a channel are served in order, so neither the reader *)
(* nor the scheduler starves the other, and a waiting rendezvous is taken  *)
(* when the scheduler selects again: strong fairness.  The exit of run     *)
(* competes with the reconnect delay in a select, where Go picks a ready   *)
(* case at random: strong fairness.  Nothing is assumed of SM publishing,  *)
(* of failures, of Cancel or of the resync timer.                          *)
Fairness ==
    /\ WF_vars(RunStep) /\ SF_vars(SignalResync) /\ SF_vars(RunExits)
    /\ WF_vars(SchedExits) /\ SF_vars(SendResync)
    /\ WF_vars(ReadMessage) /\ WF_vars(ReadFails /\ pinger = "off")
    /\ SF_vars(PushNotification)
    /\ WF_vars(CommitRevision) /\ WF_vars(ReaderCancelled)
    /\ WF_vars(PingerCancelled)
    /\ WF_vars(ReconcilerStep)
FairSpec == Spec /\ Fairness

-----------------------------------------------------------------------------
(* Vocabulary of the properties.                                           *)

Pending == {messages[i] : i \in 1..Len(messages)}

\* There is a connection, and somebody to read from it.
Connected == reader # "off" \/ run \in {"signal", "start"}

\* The first revision that is still to be put in the channel: the one the
\* reader holds, the next one on the connection, or the next one SM will send
\* when asked for what follows last.
Frontier ==
    IF reader = "push" THEN cursor
    ELSE IF Connected THEN cursor + 1
    ELSE IF last = NoRevision THEN Len(log) + 1 ELSE last + 1

\* Notification r is still to be consumed.
InFlight(r) ==
    \/ r \in Pending
    \/ reconciler = "consume" /\ r = current
    \/ r >= Frontier

\* A resync will start, or its drain is under way: everything is still to be
\* fetched from SM.
ResyncPending ==
    \/ run = "signal"
    \/ sched = "send"
    \/ Resync \in Pending
    \/ reconciler = "drain"
    \/ last = NoRevision /\ reader = "off" /\ run \in {"connect", "await1", "await2", "backoff"}

\* The resync under way will give the platform the latest revision of k.
BeingSynced(k) == k \in unsynced /\ fetched[k] \in {NoRevision, sm[k]}

\* The events after which the code itself forgets a change until the next
\* resync: see the findings and the hazards.
LossyEvents == {"badPing", "resyncFails", "applyFails"}

UpToDate == platform = sm

Stopped == run = "exit" /\ sched = "exit" /\ reader = "off" /\ pinger = "off"
           /\ reconciler = "exit"

\* A step after which the code forgets a change until the next resync.
LossyStep ==
    \/ ConnectBadPingPeriod \/ ConsumeFails \/ ResyncAborts
    \/ \E k \in Keys : SyncKeyFails(k)

\* A step in which the environment lets the proxy down.
FaultStep ==
    \/ LossyStep
    \/ ConnectFails \/ ConnectGone \/ PingFails
    \/ (ReadFails /\ pinger = "ping")

\* The resync timer keeps firing, but its period (hours) does not elapse again
\* and again within a drain (microseconds).
TimerRuns ==
    /\ WF_vars(ResyncPeriodElapses)
    /\ <>[][~(ResyncPeriodElapses /\ reconciler = "drain")]_vars

-----------------------------------------------------------------------------
(* Safety.                                                                 *)

\* No change is lost: whatever the interleaving of reconnects, 410 answers,
\* resyncs and drains, a resource that is out of date on the platform has its
\* latest notification still to be consumed, or a resync still to fetch it.
NoLostUpdate ==
    ~ctxDone /\ Events \cap LossyEvents = {} =>
        \A k \in Keys : \/ platform[k] = sm[k]
                         \/ InFlight(sm[k])
                         \/ ResyncPending
                         \/ BeingSynced(k)

\* The channel is ordered: the notifications in it have increasing revisions,
\* after the one being consumed and before the ones still to be read, so that
\* no reconnect or resync has the reconciler apply an older state last.
OrderedDelivery ==
    /\ \A i, j \in 1..Len(messages) :
          i < j /\ messages[i] # Resync /\ messages[j] # Resync
            => messages[i] < messages[j]
    /\ \A i \in 1..Len(messages) :
          messages[i] # Resync => current < messages[i] /\ messages[i] < Frontier
    /\ current < Frontier

\* Notifications are streamed only once a resync was requested: producer.go
\* promises a resync first.
ResyncBeforeStream ==
    Events \cap {"badPing"} = {} => (reader # "off" => requested)

\* A notification is consumed at most once and never after a later one, over
\* all the connections of the process.
ConsumedOnceInOrder ==
    [][reconciler # "consume" /\ reconciler' = "consume" => current' > current]_vars

-----------------------------------------------------------------------------
(* The inductive invariant behind the two safety properties.               *)

\* Where the goroutines are, and how their revisions relate to the log of SM.
\* The commit of a revision lags one message behind the reader at most.
RevisionsInv ==
    /\ last <= Len(log)
    /\ \A k \in Keys : sm[k] <= Len(log) /\ (sm[k] # 0 => log[sm[k]] = k)
    /\ \A r \in 1..Len(log) : r <= sm[log[r]]
    /\ Connected => cursor \in 0..Len(log)
    /\ reader \in {"push", "commit"} => cursor >= 1
    /\ reader = "read" \/ run \in {"signal", "start"} => last \in {cursor, NoRevision}
    /\ reader = "push" => last \in {cursor - 1, NoRevision}
    /\ run \in {"connect", "signal", "start", "backoff", "exit"} => reader = "off"
    /\ run = "exit" => ctxDone
    /\ last # 0
    /\ reconciler = "consume" => current >= 1
    /\ unsynced # {} => reconciler = "resync"

\* What is in flight is upward closed: with a notification, every later one.
UpClosed ==
    \/ ResyncPending
    \/ \A r1, r2 \in 1..Len(log) : InFlight(r1) /\ r1 < r2 => InFlight(r2)

\* Every resource is up to date or covered; during a resync a resource that
\* was fetched too early is covered as well.
Covered(k) == InFlight(sm[k]) \/ ResyncPending
Coverage ==
    \A k \in Keys :
        /\ k \notin unsynced => platform[k] = sm[k] \/ Covered(k)
        /\ k \in unsynced => fetched[k] \in {NoRevision, sm[k]} \/ Covered(k)

IInv ==
    /\ RevisionsInv
    /\ OrderedDelivery
    /\ ~ctxDone /\ Events \cap LossyEvents = {} => UpClosed /\ Coverage

-----------------------------------------------------------------------------
(* The abstract specification that the pipeline implements.                *)

\* A resource is owed a copy while a resync is to start, and during a resync
\* until it is done with.
Owed == IF ResyncPending THEN Keys ELSE unsynced

Feed == INSTANCE UpdateFeed WITH
            latest <- sm,
            store <- platform,
            feed <- {r \in 1..Len(log) : InFlight(r)},
            owed <- Owed

\* Every step of the goroutines is a step of UpdateFeed or none: connections,
\* channel, drain and resync together never forget a change.  (For a process
\* that is not stopping, without the events of LossyEvents.)
ImplementsUpdateFeed == Feed!Spec

-----------------------------------------------------------------------------
(* Liveness.                                                               *)

\* When connections stop failing, the platform comes to equal SM and stays so,
\* without any help of the resync timer, if nothing was forgotten.
Converges ==
    Events \cap (LossyEvents \cup {"periodic", "cancel"}) = {} =>
        (<>[][~FaultStep]_vars => <>[]UpToDate)

\* The resync timer repairs whatever was forgotten.
RepairedByTimer ==
    /\ []~ctxDone
    /\ <>[][~FaultStep]_vars
    /\ TimerRuns
    => <>[]UpToDate

\* A resync that run has to request (first connection, 410) is carried out:
\* its drain starts.
ResyncServed == run = "signal" ~> (reconciler = "drain" \/ ctxDone)

\* After the context is cancelled every goroutine ends, but for the one place
\* where run waits for a scheduler that has gone.
StopsUnlessSignalling ==
    ctxDone ~> (Stopped \/ (run = "signal" /\ sched = "exit"))

-----------------------------------------------------------------------------
(* What the code's comments and tests say, and the code does not do.       *)

\* producer.go, Message: "we always start with a resync".  Even when a connection
\* attempt fails half way, no notification is read before a resync was asked for.
AlwaysStartsWithResync == reader # "off" => requested

\* producer_test.go: when the context is canceled the producer releases the
\* group.
CancelReleasesGroup == ctxDone ~> run = "exit"
=============================================================================
