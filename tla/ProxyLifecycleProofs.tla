------------------------ MODULE ProxyLifecycleProofs ------------------------
(***************************************************************************)
(* The process around the pipeline, for every instance of it: Run starts   *)
(* each goroutine once, so that the process runs the pipeline as it is     *)
(* specified, and it ends without leaving anybody behind.                  *)
(***************************************************************************)
EXTENDS ProxyLifecycle, TLAPS

\* The producer's goroutine ends when its last connection has, and reader and
\* pinger exist only while it looks after them.
StreamsInv == run \in {"off", "connect", "signal", "start", "backoff", "exit"} => reader = "off" /\ pinger = "off"

MainPlaces == {"start", "reconcile", "serve", "serving", "wait", "shutdown", "done", "fatal"}

LifeOK == life \in [main : MainPlaces, health : {"up", "exit"}, server : {"off", "up", "exit"}]

\* Run starts each goroutine once, and what has ended does not start again.
LifecycleInv ==
    /\ LifeOK
    /\ StreamsInv
    /\ main = "start" <=> run = "off"
    /\ main = "start" <=> sched = "off"
    /\ main \in {"start", "reconcile"} <=> reconciler = "off"
    /\ main \in {"start", "reconcile", "serve"} <=> server = "off"
    /\ main \in {"shutdown", "done"} => Counted = {}
    /\ main # "fatal"

LEMMA LifecycleInvInit == LifecycleInit => LifecycleInv
  BY DEF LifecycleInit, Blank, LifecycleInv, StreamsInv, LifeOK, MainPlaces, main, health, server

LEMMA PipelineKeepsStreams ==
  ASSUME StreamsInv, Next
  PROVE  StreamsInv'
<1> USE DEF StreamsInv
<1>1. ASSUME Cancel \/ \E k \in Keys : Publish(k) PROVE StreamsInv'
  BY <1>1 DEF Cancel, Publish, producerVars
<1>2. ASSUME RunStep PROVE StreamsInv'
  BY <1>2 DEF RunStep, ConnectFails, ConnectGone, ConnectBadPingPeriod, ConnectSucceeds, SignalResync,
       StartStreams, AwaitFirst, AwaitSecond, Reconnect, RunExits, runFrame
<1>3. ASSUME SchedStep PROVE StreamsInv'
  BY <1>3 DEF SchedStep, ResyncPeriodElapses, SendResync, SchedExits, schedFrame, producerVars
<1>4. ASSUME ReaderStep PROVE StreamsInv'
  BY <1>4 DEF ReaderStep, ReadMessage, ReadFails, PushNotification, CommitRevision, ReaderCancelled, streamFrame
<1>5. ASSUME PingerStep PROVE StreamsInv'
  BY <1>5 DEF PingerStep, PingFails, PingerCancelled, streamFrame
<1>6. ASSUME ReconcilerStep PROVE StreamsInv'
  BY <1>6 DEF ReconcilerStep, ReconcilerExits, Receive, ConsumeApplies, ConsumeFails, DrainOne, DrainDone,
       ResyncAborts, Fetch, SyncKey, SyncKeyFails, FinishKey, reconcilerFrame, producerVars
<1> QED
  BY <1>1, <1>2, <1>3, <1>4, <1>5, <1>6 DEF Next

\* The steps of the pipeline leave the rest of the process alone; they start
\* no goroutine, and none again when it has ended.
LEMMA PipelineStartsNobody ==
  ASSUME StreamsInv, Next
  PROVE  /\ UNCHANGED life
         /\ run = "off" <=> run' = "off"
         /\ sched = "off" <=> sched' = "off"
         /\ reconciler = "off" <=> reconciler' = "off"
         /\ run = "exit" => run' = "exit"
         /\ reconciler = "exit" => reconciler' = "exit"
<1>1. ASSUME Cancel \/ \E k \in Keys : Publish(k) PROVE UNCHANGED <<life, run, sched, reconciler>>
  BY <1>1 DEF Cancel, Publish, envVars, producerVars, reconcilerVars
<1>2. ASSUME RunStep
      PROVE  /\ UNCHANGED <<life, reconciler>>
             /\ run \notin {"off", "exit"} /\ run' # "off"
             /\ sched' = sched \/ (sched = "idle" /\ sched' = "send")
  BY <1>2 DEF RunStep, ConnectFails, ConnectGone, ConnectBadPingPeriod, ConnectSucceeds, SignalResync,
       StartStreams, AwaitFirst, AwaitSecond, Reconnect, RunExits, runFrame, envVars, reconcilerVars
<1>3. ASSUME SchedStep
      PROVE  UNCHANGED <<life, run, reconciler>> /\ sched # "off" /\ sched' # "off"
  BY <1>3 DEF SchedStep, ResyncPeriodElapses, SendResync, SchedExits, schedFrame, envVars, producerVars,
       reconcilerVars
<1>4. ASSUME ReaderStep \/ PingerStep PROVE UNCHANGED <<life, run, sched, reconciler>>
  BY <1>4 DEF ReaderStep, ReadMessage, ReadFails, PushNotification, CommitRevision, ReaderCancelled,
       PingerStep, PingFails, PingerCancelled, streamFrame, envVars, reconcilerVars
<1>5. ASSUME ReconcilerStep
      PROVE  /\ UNCHANGED <<life, run, sched>>
             /\ reconciler \notin {"off", "exit"} /\ reconciler' # "off"
  <2>1. UNCHANGED <<life, run, sched>>
    BY <1>5 DEF ReconcilerStep, ReconcilerExits, Receive, ConsumeApplies, ConsumeFails, DrainOne, DrainDone,
         ResyncAborts, Fetch, SyncKey, SyncKeyFails, FinishKey, reconcilerFrame, envVars, producerVars
  <2>2. reconciler \notin {"off", "exit"} /\ reconciler' # "off"
    BY <1>5 DEF ReconcilerStep, ReconcilerExits, Receive, ConsumeApplies, ConsumeFails, DrainOne, DrainDone,
         ResyncAborts, Fetch, SyncKey, SyncKeyFails, FinishKey, reconcilerVars
  <2> QED
    BY <2>1, <2>2
<1> QED
  BY <1>1, <1>2, <1>3, <1>4, <1>5 DEF Next

\* In terms of the goroutines.
LEMMA NobodyCounted ==
  Counted = {} <=> run \in {"off", "exit"} /\ reconciler \in {"off", "exit"} /\ health # "up" /\ server # "up"
  BY DEF Counted

\* A step of Run: where it goes, what it starts, and whom it has waited for.
LEMMA MainSteps ==
  ASSUME LifeOK, MainStep
  PROVE  /\ LifeOK'
         /\ UNCHANGED <<reader, pinger, health>>
         /\ \/ /\ main = "start" /\ main' = "reconcile"
               /\ run' = "connect" /\ sched' = "idle" /\ UNCHANGED <<reconciler, server>>
            \/ /\ main = "reconcile" /\ main' = "serve"
               /\ reconciler' = "idle" /\ UNCHANGED <<run, sched, server>>
            \/ /\ main = "serve" /\ main' = "serving"
               /\ server' = "up" /\ UNCHANGED <<run, sched, reconciler>>
            \/ /\ main = "serving" /\ main' = "wait"
               /\ UNCHANGED <<run, sched, reconciler, server>>
            \/ /\ main = "wait" /\ main' = "shutdown" /\ Counted = {}
               /\ UNCHANGED <<run, sched, reconciler, server>>
            \/ /\ main = "shutdown"
               /\ main' \in (IF Counted = {} THEN {"done"} ELSE {"shutdown", "fatal"})
               /\ UNCHANGED <<run, sched, reconciler, server>>
<1> USE DEF MainGoes, worldVars, goroutineVars, main, health, server, LifeOK, MainPlaces
<1>1. CASE StartProducer
  BY <1>1 DEF StartProducer
<1>2. CASE StartReconciler
  BY <1>2 DEF StartReconciler
<1>3. CASE StartServer
  BY <1>3 DEF StartServer
<1>4. CASE ServerReturns
  BY <1>4 DEF ServerReturns
<1>5. CASE GroupWaited
  BY <1>5 DEF GroupWaited
<1>6. CASE DeferredWait
  <2>1. PICK to \in (IF Counted = {} THEN {"done"} ELSE {"shutdown", "fatal"}) : MainGoes("shutdown", to)
    BY <1>6 DEF DeferredWait
  <2>2. to \in MainPlaces
    BY Zenon
  <2> QED
    BY <1>6, <2>1, <2>2 DEF DeferredWait
<1> QED
  BY <1>1, <1>2, <1>3, <1>4, <1>5, <1>6 DEF MainStep

LEMMA LifecycleInvNext == LifecycleInv /\ [LifecycleNext]_vars => LifecycleInv'
<1> SUFFICES ASSUME LifecycleInv, [LifecycleNext]_vars PROVE LifecycleInv'
  OBVIOUS
<1> USE DEF LifecycleInv
<1>1. ASSUME Next PROVE LifecycleInv'
  <2>1. StreamsInv'
    BY <1>1, PipelineKeepsStreams
  <2>2. LifeOK' /\ UNCHANGED <<main, health, server>>
    BY <1>1, PipelineStartsNobody DEF LifeOK, main, health, server
  <2>3. CASE main \in {"shutdown", "done"}
    <3>1. run' = "exit" /\ reconciler' = "exit"
      BY <1>1, <2>3, NobodyCounted, PipelineStartsNobody
    <3>2. Counted' = {}
      BY <2>2, <2>3, <3>1, NobodyCounted DEF Counted
    <3> QED
      BY <1>1, <2>1, <2>2, <3>2, PipelineStartsNobody
  <2> QED
    BY <1>1, <2>1, <2>2, <2>3, PipelineStartsNobody
<1>2. ASSUME MainStep PROVE LifecycleInv'
  <2>1. StreamsInv'
    BY <1>2, MainSteps DEF StreamsInv
  <2>2. main' \in {"shutdown", "done"} => Counted' = {}
    BY <1>2, MainSteps DEF Counted
  <2>3. LifeOK' /\ main' # "fatal"
    BY <1>2, MainSteps
  <2>4. /\ main' = "start" <=> run' = "off"
        /\ main' = "start" <=> sched' = "off"
        /\ main' \in {"start", "reconcile"} <=> reconciler' = "off"
        /\ main' \in {"start", "reconcile", "serve"} <=> server' = "off"
    BY <1>2, MainSteps
  <2> QED
    BY <2>1, <2>2, <2>3, <2>4
<1>3. ASSUME HealthStops \/ ServerExits PROVE LifecycleInv'
  <2>1. UNCHANGED <<run, sched, reader, pinger, reconciler>>
    BY <1>3 DEF HealthStops, ServerExits, worldVars, goroutineVars
  <2>2. /\ LifeOK' /\ UNCHANGED main
        /\ server' = server \/ (server = "up" /\ server' = "exit")
    BY <1>3 DEF HealthStops, ServerExits, LifeOK, main, health, server
  <2>3. Counted # {}
    BY <1>3 DEF HealthStops, ServerExits, Counted
  <2> QED
    BY <2>1, <2>2, <2>3 DEF StreamsInv
<1>4. ASSUME UNCHANGED vars PROVE LifecycleInv'
  BY <1>4 DEF vars, StreamsInv, LifeOK, Counted, main, health, server
<1> QED
  BY <1>1, <1>2, <1>3, <1>4 DEF LifecycleNext

\* Once Run has waited for the group it is empty and stays so: the timeout of the
\* deferred wait ends nothing.
THEOREM TimeoutCutsNothing == LifecycleSpec => []NeverCutOff
<1>1. LifecycleInv => NeverCutOff
  BY DEF LifecycleInv, NeverCutOff
<1> QED
  BY <1>1, LifecycleInvInit, LifecycleInvNext, PTL DEF LifecycleSpec

\* When Run returns all that works for the platform or on the connection has
\* ended, reader and pinger too, which the group does not count.
THEOREM AllEnded == LifecycleSpec => []NothingLeftBehind
<1>1. LifecycleInv => NothingLeftBehind
  BY NobodyCounted DEF LifecycleInv, LifeOK, StreamsInv, NothingLeftBehind, main, health, server
<1> QED
  BY <1>1, LifecycleInvInit, LifecycleInvNext, PTL DEF LifecycleSpec

-----------------------------------------------------------------------------
(* The process implements the pipeline.                                    *)

\* Each step of a goroutine is the same step with those that are still off taken
\* for idle.
LEMMA EnvironmentMaps ==
  ASSUME Cancel \/ \E k \in Keys : Publish(k)
  PROVE  Pipeline!Next
  BY DEF Cancel, Publish, envVars, producerVars, reconcilerVars, Moved, Pipeline!Next, Pipeline!Cancel, Pipeline!Publish,
       Pipeline!envVars, Pipeline!producerVars, Pipeline!reconcilerVars

LEMMA RunMaps ==
  ASSUME RunStep
  PROVE  Pipeline!RunStep
<1> USE DEF Moved, runFrame, envVars, reconcilerVars, Pipeline!runFrame, Pipeline!envVars, Pipeline!reconcilerVars, Pipeline!RunStep
<1>1. CASE ConnectFails
  BY <1>1 DEF ConnectFails, Pipeline!ConnectFails
<1>2. CASE ConnectGone
  BY <1>2 DEF ConnectGone, Pipeline!ConnectGone, NoRevision, Pipeline!NoRevision
<1>3. CASE ConnectBadPingPeriod
  BY <1>3 DEF ConnectBadPingPeriod, Pipeline!ConnectBadPingPeriod, RevisionsFromHeader, Pipeline!RevisionsFromHeader,
       NoRevision, Pipeline!NoRevision
<1>4. CASE ConnectSucceeds
  BY <1>4 DEF ConnectSucceeds, Pipeline!ConnectSucceeds, RevisionsFromHeader, Pipeline!RevisionsFromHeader,
       NoRevision, Pipeline!NoRevision, needResync, Pipeline!needResync
<1>5. CASE SignalResync
  BY <1>5 DEF SignalResync, Pipeline!SignalResync
<1>6. CASE StartStreams
  BY <1>6 DEF StartStreams, Pipeline!StartStreams
<1>7. CASE AwaitFirst
  BY <1>7 DEF AwaitFirst, Pipeline!AwaitFirst
<1>8. CASE AwaitSecond
  BY <1>8 DEF AwaitSecond, Pipeline!AwaitSecond, NoRevision, Pipeline!NoRevision
<1>9. CASE Reconnect \/ RunExits
  BY <1>9 DEF Reconnect, Pipeline!Reconnect, RunExits, Pipeline!RunExits
<1> QED
  BY <1>1, <1>2, <1>3, <1>4, <1>5, <1>6, <1>7, <1>8, <1>9 DEF RunStep

LEMMA SchedMaps ==
  ASSUME SchedStep
  PROVE  Pipeline!SchedStep
  BY DEF Moved, SchedStep, Pipeline!SchedStep, ResyncPeriodElapses, SendResync, SchedExits, Pipeline!ResyncPeriodElapses,
       Pipeline!SendResync, Pipeline!SchedExits, schedFrame, Pipeline!schedFrame, envVars, producerVars, reconcilerVars,
       Pipeline!envVars, Pipeline!producerVars, Pipeline!reconcilerVars, Resync, Pipeline!Resync

LEMMA ReaderMaps ==
  ASSUME ReaderStep
  PROVE  Pipeline!ReaderStep
  BY DEF Moved, ReaderStep, Pipeline!ReaderStep, ReadMessage, ReadFails, PushNotification, CommitRevision, ReaderCancelled,
       Pipeline!ReadMessage, Pipeline!ReadFails, Pipeline!PushNotification, Pipeline!CommitRevision, Pipeline!ReaderCancelled,
       streamFrame, Pipeline!streamFrame, childDone, Pipeline!childDone, envVars, reconcilerVars, Pipeline!envVars, Pipeline!reconcilerVars

LEMMA PingerMaps ==
  ASSUME PingerStep
  PROVE  Pipeline!PingerStep
  BY DEF Moved, PingerStep, Pipeline!PingerStep, PingFails, PingerCancelled, Pipeline!PingFails, Pipeline!PingerCancelled,
       streamFrame, Pipeline!streamFrame, childDone, Pipeline!childDone, envVars, reconcilerVars, Pipeline!envVars, Pipeline!reconcilerVars

LEMMA ReconcilerMaps ==
  ASSUME ReconcilerStep
  PROVE  Pipeline!ReconcilerStep
<1> USE DEF Moved, reconcilerFrame, envVars, producerVars, Pipeline!reconcilerFrame, Pipeline!envVars, Pipeline!producerVars,
       Pipeline!ReconcilerStep, NoRevision, Pipeline!NoRevision
<1>1. CASE ReconcilerExits \/ ConsumeApplies \/ ConsumeFails \/ ResyncAborts
  BY <1>1 DEF ReconcilerExits, Pipeline!ReconcilerExits, ConsumeApplies, Pipeline!ConsumeApplies,
       ConsumeFails, Pipeline!ConsumeFails, ResyncAborts, Pipeline!ResyncAborts
<1>2. CASE Receive
  BY <1>2 DEF Receive, Pipeline!Receive, Resync, Pipeline!Resync
<1>3. CASE DrainOne \/ DrainDone
  BY <1>3 DEF DrainOne, Pipeline!DrainOne, DrainDone, Pipeline!DrainDone, reconcilerVars, Pipeline!reconcilerVars
<1>4. ASSUME NEW k \in Keys, Fetch(k) \/ SyncKey(k) \/ SyncKeyFails(k) PROVE Pipeline!ReconcilerStep
  BY <1>4 DEF Fetch, Pipeline!Fetch, SyncKey, Pipeline!SyncKey, SyncKeyFails, Pipeline!SyncKeyFails, FinishKey, Pipeline!FinishKey
<1> QED
  BY <1>1, <1>2, <1>3, <1>4 DEF ReconcilerStep

\* What Run, the health checks and the server do moves no goroutine of the pipeline.
LEMMA RestStutters ==
  ASSUME LifecycleInv, MainStep \/ HealthStops \/ ServerExits
  PROVE  UNCHANGED Pipeline!vars
<1> USE DEF Moved, Pipeline!vars, worldVars
<1>1. CASE StartProducer
  BY <1>1 DEF StartProducer, MainGoes, LifecycleInv
<1>2. CASE StartReconciler
  BY <1>2 DEF StartReconciler, MainGoes, LifecycleInv
<1>3. CASE StartServer \/ ServerReturns \/ GroupWaited \/ DeferredWait \/ HealthStops \/ ServerExits
  <2>1. UNCHANGED <<worldVars, goroutineVars>>
    BY <1>3 DEF StartServer, ServerReturns, GroupWaited, DeferredWait, HealthStops, ServerExits, MainGoes
  <2> QED
    BY <2>1 DEF goroutineVars
<1> QED
  BY <1>1, <1>2, <1>3 DEF MainStep

\* Run starts each goroutine once and the rest of the process keeps out of the
\* pipeline: whatever the process does, its goroutines behave as Spec says.
THEOREM ProcessImplementsPipeline == LifecycleSpec => ImplementsPipeline
<1>1. LifecycleInit => Pipeline!Init
  BY DEF LifecycleInit, Blank, Moved, Pipeline!Init, Pipeline!Blank, NoRevision, Pipeline!NoRevision
<1>2. LifecycleInv /\ [LifecycleNext]_vars => [Pipeline!Next]_(Pipeline!vars)
  <2>1. CASE MainStep \/ HealthStops \/ ServerExits
    BY <2>1, RestStutters
  <2>2. CASE Next
    BY <2>2, EnvironmentMaps, RunMaps, SchedMaps, ReaderMaps, PingerMaps, ReconcilerMaps DEF Next, Pipeline!Next
  <2>3. CASE UNCHANGED vars
    BY <2>3 DEF vars, Pipeline!vars, Moved
  <2> QED
    BY <2>1, <2>2, <2>3 DEF LifecycleNext
<1> QED
  BY <1>1, <1>2, LifecycleInvInit, LifecycleInvNext, PTL DEF LifecycleSpec, ImplementsPipeline, Pipeline!Spec
=============================================================================
