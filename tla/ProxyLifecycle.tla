--------------------------- MODULE ProxyLifecycle ---------------------------
(***************************************************************************)
(* The life of the process (pkg/sbproxy/sbproxy.go): Build starts the      *)
(* health checks, Run starts the producer, the reconciler and the server   *)
(* of NotificationPipeline's process one after the other and waits for     *)
(* the wait group, which counts some of their goroutines only; the         *)
(* deferred waitWithTimeout waits once more, not for ever.                 *)
(***************************************************************************)
EXTENDS NotificationPipeline

\* life of the pipeline: where Run is, the goroutine of the health checks, and
\* the server.
main == life.main
health == life.health
server == life.server

LifecycleInit ==
    /\ Blank
    /\ run = "off" /\ sched = "off" /\ reconciler = "off"
    /\ life = [main |-> "start", health |-> "up", server |-> "off"]

\* The goroutines that the wait group counts: neither the resync scheduler nor
\* reader and pinger of a connection are among them.
Counted ==
    (IF run \notin {"off", "exit"} THEN {"run"} ELSE {})
    \cup (IF reconciler \notin {"off", "exit"} THEN {"reconciler"} ELSE {})
    \cup (IF health = "up" THEN {"health"} ELSE {})
    \cup (IF server = "up" THEN {"server"} ELSE {})

\* What the steps of Run leave alone.
worldVars == <<log, sm, platform, ctxDone, last, reader, pinger, cursor, messages, current,
               fetched, unsynced, requested>>
goroutineVars == <<run, sched, reconciler>>

MainGoes(from, to) == main = from /\ life' = [life EXCEPT !.main = to] /\ UNCHANGED worldVars

\* Mutant: the producer asks for a resync before it has a connection.
StartProducer_Signals ==
    /\ MainGoes("start", "reconcile")
    /\ run' = "signal" /\ sched' = "idle"
    /\ UNCHANGED reconciler

StartProducer ==
    /\ MainGoes("start", "reconcile")
    /\ run' = "connect" /\ sched' = "idle"
    /\ UNCHANGED reconciler

StartReconciler ==
    /\ MainGoes("reconcile", "serve")
    /\ reconciler' = "idle"
    /\ UNCHANGED <<run, sched>>

StartServer ==
    /\ main = "serve"
    /\ life' = [life EXCEPT !.main = "serving", !.server = "up"]
    /\ UNCHANGED <<worldVars, goroutineVars>>

\* The server's goroutine shuts it down.
ServerExits ==
    /\ ctxDone
    /\ server = "up"
    /\ life' = [life EXCEPT !.server = "exit"]
    /\ UNCHANGED <<worldVars, goroutineVars>>

\* Mutant: Run leaves the waiting to waitWithTimeout.
ServerReturns_NoWait ==
    /\ MainGoes("serving", "shutdown")
    /\ ctxDone
    /\ UNCHANGED goroutineVars

\* Server.Run returns as it begins to shut down.
ServerReturns ==
    /\ MainGoes("serving", "wait")
    /\ ctxDone
    /\ UNCHANGED goroutineVars

GroupWaited == MainGoes("wait", "shutdown") /\ Counted = {} /\ UNCHANGED goroutineVars

\* waitWithTimeout: the group again, or the end of the process while somebody runs.
\* Assumed: the timeout is long enough to look at the group.
DeferredWait ==
    /\ \E to \in (IF Counted = {} THEN {"done"} ELSE {"shutdown", "fatal"}) : MainGoes("shutdown", to)
    /\ UNCHANGED goroutineVars

MainStep ==
    \/ StartProducer \/ StartReconciler \/ StartServer
    \/ ServerReturns \/ GroupWaited \/ DeferredWait

HealthStops ==
    /\ ctxDone
    /\ health = "up"
    /\ life' = [life EXCEPT !.health = "exit"]
    /\ UNCHANGED <<worldVars, goroutineVars>>

LifecycleNext == MainStep \/ HealthStops \/ ServerExits \/ Next

LifecycleSpec == LifecycleInit /\ [][LifecycleNext]_vars

LifecycleFairness ==
    Fairness /\ WF_vars(MainStep) /\ WF_vars(HealthStops) /\ WF_vars(ServerExits)
LifecycleFairSpec == LifecycleSpec /\ LifecycleFairness

-----------------------------------------------------------------------------
\* The shutdown timeout never cuts a goroutine off: when it begins to count, all
\* of the group have ended.
NeverCutOff == main # "fatal"

\* When Run returns nobody works for the platform or on the connection any more,
\* although reader and pinger are not in the wait group.
NothingLeftBehind ==
    main = "done" => reader = "off" /\ pinger = "off" /\ reconciler = "exit" /\ server = "exit"

\* Run returns after a cancellation at any time, also during the start, but for
\* the one place where the producer waits for a scheduler that has gone; then no
\* timeout ends the process.
EndsAfterCancel == ctxDone ~> (main = "done" \/ (run = "signal" /\ sched = "exit"))

-----------------------------------------------------------------------------
(* The process runs the pipeline: a goroutine that Run has yet to start    *)
(* counts as one that has not moved.                                       *)

Moved(goroutine, begins) == IF goroutine = "off" THEN begins ELSE goroutine

Pipeline == INSTANCE NotificationPipeline WITH
                run <- Moved(run, "connect"),
                sched <- Moved(sched, "idle"),
                reconciler <- Moved(reconciler, "idle"),
                life <- "up"

\* Neither the order in which Run starts the goroutines, nor changes of SM and a
\* cancellation meanwhile, nor the end of the process make the pipeline do what it
\* could not do by itself.
ImplementsPipeline == Pipeline!Spec
=============================================================================
