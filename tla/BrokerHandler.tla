---------------------------- MODULE BrokerHandler ----------------------------
(***************************************************************************)
(* Notifications about brokers (pkg/sbproxy/notifications/handlers/        *)
(* broker_handler.go) next to the resyncs of BrokerReconcile.  SM          *)
(* announces each change of a broker; the notifications wait in the queue  *)
(* of the pipeline; one goroutine takes them one after the other and runs  *)
(* resyncs in between.  A resync reads SM as it is, so the notifications   *)
(* still waiting at that moment are old news: some were dropped when the   *)
(* connection was lost, the others are handled all the same, afterwards.   *)
(*                                                                         *)
(* The handler finds a registration by its name, where a resync goes by    *)
(* the SM ID in the URL.                                                   *)
(***************************************************************************)
EXTENDS BrokerReconcile, Sequences

CONSTANT MaxQueued  \* bound: notifications that wait

ASSUME QueueAssumption == MaxQueued \in Nat

VARIABLES
    queue,      \* the notifications that have arrived
    used,       \* the IDs that SM has ever given to a broker
    job,        \* what the handler is about to do for a notification
    \* history
    intact,     \* no change was lost since SM was last read
    mishap      \* a rotation of credentials failed half-way, or a broker has two proxies

handlerVars == <<queue, used, job, intact, mishap>>
allVars == <<vars, handlerVars>>

\* A notification: the names of the broker before and after; whether SM was read
\* in between.
Note ==
    [kind : {"create", "update", "delete"}, broker : Brokers,
     old : Names \cup {None}, new : Names \cup {None}, stale : BOOLEAN]
Job == [note : Note, task : Task]

NoJob == None
Busy == job # NoJob

ASSUME JobAssumption == NoJob \notin Job

HandlerTypeOK ==
    /\ TypeOK
    /\ queue \in Seq(Note) /\ Len(queue) <= MaxQueued
    /\ used \subseteq Brokers
    /\ job \in Job \cup {NoJob}
    /\ Busy => phase = "idle" /\ job.task.at \in {"put", "call", "activate"}
    /\ intact \in BOOLEAN /\ mishap \in BOOLEAN

HandlerInit ==
    /\ Init
    /\ queue = <<>>
    /\ used = {b \in Brokers : sm[b] # None \/ ProxiesOf(b, platform) # {}}
    /\ job = NoJob
    /\ intact = FALSE
    /\ mishap = FALSE

Doubled(regs) == \E b \in Brokers : Cardinality(ProxiesOf(b, regs)) > 1

-----------------------------------------------------------------------------
(* SM changes and says so.                                                 *)

Announce(kind, b, n) ==
    /\ Len(queue) < MaxQueued
    /\ queue' = Append(queue, [kind |-> kind, broker |-> b, old |-> sm[b], new |-> n, stale |-> FALSE])
    /\ UNCHANGED <<job, intact, mishap>>

\* A broker is created under an ID that was never used, renamed, or deleted.
SMAnnounces(b, n) ==
    /\ sm[b] = None => b \notin used
    /\ SMChanges(b, n)
    /\ used' = used \cup {b}
    /\ Announce(IF sm[b] = None THEN "create" ELSE IF n = None THEN "delete" ELSE "update", b, n)

\* It is changed in another way.
SMRefreshes(b) ==
    /\ sm[b] # None
    /\ Changed
    /\ Announce("update", b, sm[b])
    /\ UNCHANGED <<sm, platform, used>>

-----------------------------------------------------------------------------
(* The goroutine of the reconciler: a resync or a notification.            *)

\* A resync begins.  The notifications that wait are older than what it reads.
ResyncBegins ==
    /\ ~Busy
    /\ FetchSM
    /\ \E first \in 1..Len(queue) + 1 :
         queue' = [i \in 1..Len(queue) + 1 - first |-> [queue[first + i - 1] EXCEPT !.stale = TRUE]]
    /\ intact' = ~Doubled(platform)
    /\ UNCHANGED <<used, job, mishap>>

\* Mutant: the goroutine does not wait for the tasks of a resync.
Take_DuringResync(kind) ==
    /\ ~Busy
    /\ queue # <<>> /\ Head(queue).kind = kind
    /\ queue' = Tail(queue)
    /\ clean' = FALSE
    /\ UNCHANGED <<sm, platform, creds, process, round, used, mishap>>

\* What the goroutine takes next.
Take(kind) ==
    /\ phase = "idle" /\ ~Busy
    /\ queue # <<>> /\ Head(queue).kind = kind
    /\ queue' = Tail(queue)
    /\ clean' = FALSE
    /\ UNCHANGED <<sm, platform, creds, process, round, used, mishap>>

Undertake(op, g) == job' = [note |-> Head(queue), task |-> NewTask(op, g)]
Ignore == job' = NoJob

\* GetBrokerByName returns an error: one more disturbance.
LookupFails == Disturbance /\ intact' = FALSE

Intact(kept) ==
    /\ intact' = (intact /\ kept)
    /\ UNCHANGED disturbances

\* Mutant: the name alone decides about a takeover.
OnCreate_TakesOverByName ==
    LET b == Head(queue).broker
        n == Head(queue).new
        found == PlainNamed(b, n, platform)
    IN
    /\ Take("create")
    /\ \/ /\ n \in Blacklist
          /\ Ignore /\ Intact(TRUE)
       \/ /\ n \notin Blacklist /\ found = {}
          /\ Undertake("create", None) /\ Intact(TRUE)
       \/ /\ n \notin Blacklist /\ found # {}
          /\ IF options.takeover THEN \E g \in found : Undertake("update", g) ELSE Ignore
          /\ Intact(TRUE)

\* The platform's broker is found by the plain name that it has in SM.  None:
\* a proxy is created.  One with SM's URL is taken over; one with another is
\* left alone, and the broker gets no proxy now.  An error counts as none.
OnCreate ==
    LET b == Head(queue).broker
        n == Head(queue).new
        found == PlainNamed(b, n, platform)
        matching == KeyMatches(b, n, platform)
    IN
    /\ Take("create")
    /\ \/ /\ n \in Blacklist
          /\ Ignore /\ Intact(TRUE)
       \/ /\ n \notin Blacklist
          /\ \/ found = {} /\ Intact(TRUE)
             \/ LookupFails
          /\ Undertake("create", None)
       \/ /\ n \notin Blacklist /\ matching # {}
          /\ IF options.takeover THEN \E g \in matching : Undertake("update", g) ELSE Ignore
          /\ Intact(TRUE)
       \/ /\ n \notin Blacklist /\ found # {} /\ matching = {}
          /\ Ignore /\ Intact(FALSE)

\* Mutant: a proxy that is not found is created.
OnUpdate_CreatesMissing ==
    LET b == Head(queue).broker
        old == Head(queue).old
        new == Head(queue).new
        found == {g \in ProxyNamed(b, old, platform) : platform[g].kind = "proxy"}
        op == IF old # new THEN "update" ELSE "fetch"
    IN
    /\ Take("update")
    /\ \/ /\ old \in Blacklist
          /\ Ignore /\ Intact(new \in Blacklist)
       \/ /\ old \notin Blacklist
          /\ IF found = {} THEN Undertake("create", None)
             ELSE IF op = "fetch" /\ ~options.fetcher THEN Ignore
             ELSE \E g \in found : Undertake(op, g)
          /\ Intact(new \notin Blacklist)

\* Mutant: the proxy is looked for under the broker's new name.
OnUpdate_FindsByNewName ==
    LET b == Head(queue).broker
        old == Head(queue).old
        new == Head(queue).new
        found == {g \in ProxyNamed(b, new, platform) : platform[g].kind = "proxy"}
        op == IF old # new THEN "update" ELSE "fetch"
    IN
    /\ Take("update")
    /\ \/ /\ old \in Blacklist
          /\ Ignore /\ Intact(new \in Blacklist)
       \/ /\ old \notin Blacklist
          /\ IF found = {} \/ (op = "fetch" /\ ~options.fetcher) THEN Ignore
             ELSE \E g \in found : Undertake(op, g)
          /\ Intact(new \notin Blacklist)

\* The proxy is found by the name that it had.  It is renamed, or its catalog is
\* fetched if there is a fetcher.  The blacklist is asked about the old name
\* only: a change into or out of the blacklist is left to the next resync.
OnUpdate ==
    LET b == Head(queue).broker
        old == Head(queue).old
        new == Head(queue).new
        found == {g \in ProxyNamed(b, old, platform) : platform[g].kind = "proxy"}
        op == IF old # new THEN "update" ELSE "fetch"
    IN
    /\ Take("update")
    /\ \/ /\ old \in Blacklist
          /\ Ignore /\ Intact(new \in Blacklist)
       \/ /\ old \notin Blacklist
          /\ IF found = {} \/ (op = "fetch" /\ ~options.fetcher) THEN Ignore
             ELSE \E g \in found : Undertake(op, g)
          /\ Intact(new \notin Blacklist)
       \/ /\ old \notin Blacklist
          /\ Ignore /\ LookupFails

\* The proxy is found by its name and deleted.
OnDelete ==
    LET b == Head(queue).broker
        n == Head(queue).old
        found == {g \in ProxyNamed(b, n, platform) : platform[g].kind = "proxy"}
    IN
    /\ Take("delete")
    /\ \/ /\ n \in Blacklist
          /\ Ignore /\ Intact(TRUE)
       \/ /\ n \notin Blacklist
          /\ IF found = {} THEN Ignore
             ELSE \E g \in found :
                    job' = [note |-> Head(queue),
                            task |-> [op |-> "delete", at |-> "call", guid |-> g, cred |-> None]]
          /\ Intact(TRUE)
       \/ /\ n \notin Blacklist
          /\ Ignore /\ LookupFails

-----------------------------------------------------------------------------
(* The calls that a notification leads to.                                 *)

At(step) == Busy /\ job.task.at = step

Proceed(step) == job' = [job EXCEPT !.task.at = step]
GiveUp == job' = NoJob

Unchanged == UNCHANGED <<sm, process, round, clean, queue, used>>

\* The broker the job is for, as it is to be.
jobBroker == job.note.broker
jobName == job.note.new

\* Credentials are forced on SM for a new proxy and for a takeover.
Forced == job.note.kind = "create"

JobPutAccepted ==
    /\ Issued \ InUse(jobBroker) # {}
    /\ Forced \/ ~Pending(jobBroker)

JobPuts ==
    /\ At("put")
    /\ JobPutAccepted
    /\ Stored(jobBroker)
    /\ job' = [job EXCEPT !.task.at = "call", !.task.cred = Fresh(jobBroker)]
    /\ UNCHANGED <<platform, disturbances, intact, mishap>> /\ Unchanged

\* Unlike a resync, the handler takes a conflict for an error: the change is lost.
JobConflicts ==
    /\ At("put")
    /\ ~Forced
    /\ creds[jobBroker].current # None
    /\ GiveUp
    /\ intact' = FALSE
    /\ UNCHANGED <<platform, creds, disturbances, mishap>> /\ Unchanged

JobPutFails ==
    /\ At("put")
    /\ UNCHANGED creds \/ (JobPutAccepted /\ Stored(jobBroker))
    /\ GiveUp
    /\ Disturbance /\ intact' = FALSE /\ mishap' = TRUE
    /\ UNCHANGED <<sm, platform, process, round, queue, used>>

JobRefused == Refused(job.task.op, job.task.guid, jobBroker, jobName)

\* What the platform is asked for.
JobRegisters ==
    LET g == job.task.guid
        cred == job.task.cred
        proxy == [broker |-> jobBroker, kind |-> "proxy", name |-> jobName, cred |-> cred]
    IN
    CASE job.task.op = "create" -> FreeGuids # {} /\ platform' = [platform EXCEPT ![NewGuid] = proxy]
      [] job.task.op = "update" -> platform' = [platform EXCEPT ![g] = proxy]
      [] job.task.op = "fetch"  -> platform' = [platform EXCEPT ![g].cred = cred]
      [] job.task.op = "delete" -> platform' = [platform EXCEPT ![g] = None]

JobCalls ==
    /\ At("call")
    /\ ~JobRefused
    /\ JobRegisters
    /\ IF options.credentials /\ job.task.op # "delete" THEN Proceed("activate") ELSE GiveUp
    /\ intact' = (intact /\ ~Doubled(platform'))
    /\ mishap' = (mishap \/ Doubled(platform'))
    /\ UNCHANGED <<creds, disturbances>> /\ Unchanged

\* Mutant: credentials are activated although the platform has refused them.
JobIsRefused_Activates ==
    /\ At("call")
    /\ JobRefused
    /\ IF options.credentials /\ job.task.op # "delete" THEN Proceed("activate") ELSE GiveUp
    /\ UNCHANGED <<platform, creds, disturbances, intact, mishap>> /\ Unchanged

JobIsRefused ==
    /\ At("call")
    /\ JobRefused
    /\ GiveUp
    /\ UNCHANGED <<platform, creds, disturbances, intact, mishap>> /\ Unchanged

JobCallFails ==
    /\ At("call")
    /\ ~JobRefused
    /\ UNCHANGED platform \/ JobRegisters
    /\ GiveUp
    /\ Disturbance /\ intact' = FALSE /\ mishap' = TRUE
    /\ UNCHANGED <<sm, creds, process, round, queue, used>>

JobActivates ==
    /\ At("activate")
    /\ Activated(jobBroker)
    /\ GiveUp
    /\ UNCHANGED <<platform, disturbances, intact, mishap>> /\ Unchanged

JobActivateFails ==
    /\ At("activate")
    /\ UNCHANGED creds \/ Activated(jobBroker)
    /\ GiveUp
    /\ Disturbance /\ intact' = FALSE /\ mishap' = TRUE
    /\ UNCHANGED <<sm, platform, process, round, queue, used>>

JobStep ==
    \/ JobPuts \/ JobConflicts \/ JobPutFails
    \/ JobCalls \/ JobIsRefused \/ JobCallFails
    \/ JobActivates \/ JobActivateFails

-----------------------------------------------------------------------------
\* The platform's users.  IDs that the handler holds are not given away.  Bound:
\* Guids has room for two proxies of each broker.
Operators ==
    /\ \/ \E b \in Brokers, n \in Names :
            /\ OperatorRegisters(b, n)
            /\ Cardinality(FreeGuids) > 2 * Cardinality(Brokers)
            /\ (Busy /\ job.task.guid # None) => platform'[job.task.guid] = platform[job.task.guid]
       \/ \E g \in Guids, n \in Names : OperatorRenames(g, n)
       \/ \E g \in Guids : OperatorDeletes(g)
    /\ intact' = FALSE
    /\ UNCHANGED <<queue, used, job, mishap>>

Lifecycle ==
    /\ Cancel
    /\ intact' = FALSE
    /\ UNCHANGED <<queue, used, job, mishap>>

\* The steps of a resync once SM was read.
ResyncGoesOn ==
    /\ \/ RoundStep /\ ~FetchSM
       \/ \E b \in Brokers : TaskStep(b)
    /\ UNCHANGED handlerVars

ResyncSuffers ==
    /\ \/ (FetchFails \/ Rejected) /\ UNCHANGED mishap
       \/ \E b \in Brokers : Fault(b) /\ mishap' = TRUE
    /\ intact' = FALSE
    /\ UNCHANGED <<queue, used, job>>

HandlerNext ==
    \/ \E b \in Brokers, n \in Names \cup {None} : SMAnnounces(b, n)
    \/ \E b \in Brokers : SMRefreshes(b)
    \/ Operators
    \/ Lifecycle
    \/ ResyncBegins \/ ResyncGoesOn \/ ResyncSuffers
    \/ OnCreate \/ OnUpdate \/ OnDelete
    \/ JobStep

HandlerSpec == HandlerInit /\ [][HandlerNext]_allVars

-----------------------------------------------------------------------------
\* When a resync and all notifications since have been handled, none of them
\* late enough to be lost, the platform has SM's brokers: every update is there,
\* whether it came before the resync read SM, during the resync or after it, and
\* in whichever order the two of them got to know it.  (What loses a change: a
\* failed call, a conflict over credentials or with a foreign broker, a name
\* that enters or leaves the blacklist, a broker with two proxies.)
CaughtUp ==
    (/\ phase = "idle" /\ ~Busy /\ queue = <<>>
     /\ intact /\ options.takeover /\ Cardinality(orphans) <= 1)
        => \A b \in Brokers : Matches(b, Wanted(sm[b]), platform)

\* As long as no rotation is cut short and no broker has two proxies, SM accepts
\* the credentials of every proxy, although the handler forces new ones on SM
\* for brokers that may have a proxy already.
LoginUnlessMishap == ~mishap => PlatformCanLogIn

\* A broker gets a second proxy in one way only: the notification of its creation
\* is handled after a resync has read SM, and by then it had another name.
OnlyReplaysDuplicate ==
    [][\A b \in Brokers :
         (Cardinality(ProxiesOf(b, platform)) <= 1 /\ Cardinality(ProxiesOf(b, platform')) > 1) =>
            /\ Busy
            /\ job.note.kind = "create" /\ job.note.stale
            /\ \A g \in ProxiesOf(b, platform) : platform[g].name # job.note.new]_allVars

\* The handler changes no registration but proxies, unless it may take brokers
\* over and the URL is the one that SM has.
OnlyMatchingTakenOver ==
    [][Busy /\ job' # job =>
         \A g \in Guids : (platform[g] # None /\ ~IsProxy(platform[g]) /\ platform'[g] # platform[g]) =>
            /\ options.takeover
            /\ job.note.kind = "create"
            /\ platform[g].kind = "original"]_allVars

-----------------------------------------------------------------------------
(* The invariants that the properties rest on.                             *)

\* Only a creation has no name before, only a deletion none after.
Shaped(note) ==
    /\ (note.old = None) <=> (note.kind = "create")
    /\ (note.new = None) <=> (note.kind = "delete")

QueueInv == \A i \in 1..Len(queue) : Shaped(queue[i])

\* What a notification may lead to, and with which credentials.
TaskOf(note, t) ==
    /\ t.op \in {"create", "update", "fetch", "delete"}
    /\ t.op = "create" => note.kind = "create" /\ t.guid = None
    /\ t.op = "update" => note.kind \in {"create", "update"}
    /\ t.op = "fetch" => note.kind = "update"
    /\ t.op = "delete" => note.kind = "delete" /\ t.at = "call" /\ t.cred = None
    /\ t.op # "delete" /\ t.at = "call" => t.cred # None
    /\ ~options.credentials => t.at = "call" /\ t.cred \in {None, Default}

\* The registration that the handler holds is a proxy of its broker, or what it
\* may take over, unless it is gone.
Held(note, g) ==
    /\ g \in Guids
    /\ platform[g] # None =>
         /\ platform[g].broker = note.broker
         /\ \/ IsProxy(platform[g])
            \/ options.takeover /\ note.kind = "create" /\ platform[g].kind = "original"

JobInv ==
    Busy =>
      /\ Shaped(job.note)
      /\ TaskOf(job.note, job.task)
      /\ job.task.op # "create" => Held(job.note, job.task.guid)

\* A creation that no resync has seen is of an ID that SM had never used, and the
\* platform has no proxy of that broker.
Unseen(note) == note.kind = "create" /\ ~note.stale

Unknown(b) == ProxiesOf(b, platform) = {} /\ desired[b] = None

FreshInv ==
    /\ \A b \in Brokers \ used :
         /\ sm[b] = None /\ Unknown(b)
         /\ Busy => jobBroker # b
         /\ \A i \in 1..Len(queue) : queue[i].broker # b
    /\ \A i \in 1..Len(queue) : Unseen(queue[i]) =>
         /\ Unknown(queue[i].broker)
         /\ Busy => jobBroker # queue[i].broker
         /\ \A j \in 1..i - 1 : queue[j].broker # queue[i].broker
    /\ Busy /\ Unseen(job.note) /\ job.task.at \in {"put", "call"} => ProxiesOf(jobBroker, platform) = {}

\* Credentials that SM waits to see activated have not reached the platform,
\* unless their activation comes next.
PendingInv ==
    /\ \A b \in Brokers :
         ~creds[b].active /\ task[b].at # "activate" /\ ~(At("activate") /\ jobBroker = b)
            => \A g \in ProxiesOf(b, platform) : platform[g].cred \in {Default, Own, creds[b].old}
    /\ ~options.credentials => \A b \in Brokers : task[b].at # "put" /\ task[b].cred \in {None, Default}

\* The handler, like the tasks, hands out nothing but what it has put.
JobRotationInv ==
    Busy =>
      /\ job.task.at \in {"put", "call"} => job.task.cred \in {None, Default, creds[jobBroker].current}
      /\ job.task.at = "activate" =>
           \A g \in ProxiesOf(jobBroker, platform) : platform[g].cred \in {Default, Own, creds[jobBroker].current}

HandlerInv == HandlerTypeOK /\ CoreInv /\ QueueInv /\ JobInv /\ FreshInv

\* After a mishap a login may be lost for good.
HandlerLoginInv ==
    /\ HandlerInv
    /\ ~mishap => LoginInv /\ PendingInv /\ JobRotationInv

-----------------------------------------------------------------------------
(* The invariant that CaughtUp rests on: the names that the waiting        *)
(* notifications give a broker lead on to the one that it has in SM, and   *)
(* the platform is somewhere along the way.                                *)

\* The names that broker b has yet to be known by, according to the notifications.
Ahead(b, from) == {sm[b]} \cup {queue[i].old : i \in {i \in from..Len(queue) : queue[i].broker = b}}

LinkedInv ==
    /\ \A i \in 1..Len(queue) : queue[i].new \in Ahead(queue[i].broker, i + 1)
    /\ Busy => job.note.new \in Ahead(jobBroker, 1)

\* What a resync has read is one of them.
ReadInv == phase # "idle" => \A b \in Brokers : \E n \in Ahead(b, 1) : desired[b] = Wanted(n)

\* A resync does its work whatever SM announces meanwhile.
WorkInv ==
    intact =>
      /\ UniqueInv
      /\ InRound => WantedInv /\ UnwantedInv /\ DeletionInv

\* The broker is to have a proxy of that name.  The registration that the handler
\* holds is there, and the proxy that it looked for.
GripInv ==
    LET g == job.task.guid IN
    /\ jobName \notin Blacklist
    /\ job.task.op # "create" =>
         /\ platform[g] # None
         /\ job.note.kind # "create" => g \in ProxyNamed(jobBroker, job.note.old, platform)
         /\ job.task.op = "fetch" => job.note.old = jobName

Calling(b) == Busy /\ jobBroker = b /\ job.task.at \in {"put", "call"}

OnTheWayInv ==
    (intact /\ options.takeover /\ Cardinality(orphans) <= 1 /\ phase = "idle") =>
        \A b \in Brokers :
            IF Calling(b) THEN GripInv /\ \E n \in Names \cup {None} : Matches(b, n, platform)
            ELSE \E n \in Ahead(b, 1) : Matches(b, Wanted(n), platform)

CatchUpInv == HandlerInv /\ LinkedInv /\ ReadInv /\ WorkInv /\ OnTheWayInv
=============================================================================
