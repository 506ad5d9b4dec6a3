# Verification of the service broker proxy

TLA+ models of `Peripli/service-broker-proxy`, their TLC runs, and proofs that
TLAPS checks. The proxy keeps a *platform* (Cloud Foundry, Kubernetes) in step
with a *Service Manager* (SM): each broker of SM gets a proxy registration in
the platform, and each visibility of SM access to a service plan there.

All paths below are under `src/pkg/`; `producer.go` and the like are named
without their directory once they were introduced.

## 1. Inventory

### Parts, their state and operations

| part | state | operations |
|---|---|---|
| notifications producer, `sbproxy/notifications/producer.go` | `lastNotificationRevision`, websocket, read and ping deadlines | goroutines `run` (connect, start the next two, reconnect), `readNotifications`, `ping`, `scheduleResync` |
| messages channel | bounded queue of `{Resync}` and `{Notification}` | sends by reader and scheduler, receives by the reconciler |
| reconciler, `sbproxy/reconcile/reconciler.go` | none but the loop | `process`: receive; `drain` and `Resync`, or `Consume` |
| consumer, `sbproxy/notifications/consumer.go` | handlers by type | `Consume` calls OnCreate, OnUpdate, OnDelete |
| resyncer, `sbproxy/reconcile/resyncer.go` | cache of the platform's visibilities | `Resync`: read SM and the platform, reconcile brokers, then visibilities |
| broker reconciliation, `reconcile_brokers.go` | the round's snapshots, `proxyBrokerIDMap`, `brokerKeyMap` | create, update, refetch, delete a proxy; put and activate credentials |
| visibility reconciliation, `reconcile_visibilities.go` | the round's visibilities by key | delete, create |
| task scheduler, `task_scheduler.go` | a channel as semaphore, a wait group, an error counter | `Schedule`, `Await` |
| broker and visibility handlers, `sbproxy/notifications/handlers/` | none; the platform and SM | OnCreate, OnUpdate, OnDelete |
| SM client, `sm/client.go` | none | lists, `PutCredentials`, `ActivateCredentials` |
| `SMProxy`, `sbproxy/sbproxy.go` | wait group, context | `New`, `Run`, `waitWithTimeout` |
| settings, transport, helpers, platform client interfaces, hooks | none that changes | values and I/O |

### How they interact

`SMProxy.Run` starts the producer and the reconciler on one context and one
wait group. The producer's goroutines and the reconciler share the channel;
`run` asks `scheduleResync` for a resync over an unbuffered channel. The
reconciler is the only goroutine that decides about the platform, but a resync
runs many tasks of the scheduler in parallel, each of which calls the platform
and SM. SM and the platform have other users, who change things meanwhile.

### What is hard, and what makes each part correct

- *Pipeline*: five goroutines, a connection that fails at any point, an SM that
  forgets notifications (410), a full channel, a drain that races with new
  notifications. Correct: no change is lost, none applied after a later one, a
  resync precedes the stream, the platform converges, cancellation stops it all.
- *Task scheduler*: correct if it bounds parallelism, loses no slot, and
  `Await` returns after all tasks with the right verdict.
- *Broker reconciliation*: decisions on a snapshot, carried out later, in
  parallel, in three remote calls each of which may be lost before or after its
  effect. Correct: one proxy per broker, nothing deleted or taken over that
  should not be, credentials that SM accepts, and convergence.
- *Visibility reconciliation*: four reads one after the other (brokers, plans,
  SM's visibilities, the platform's), SM and the platform changing in between,
  chunks, deletions before creations. Correct: nothing that was granted all
  along is taken away, other brokers are left alone, repeated rounds converge.
- *Handlers*: a notification repeats what a resync did, or comes before what a
  resync read; registrations are found by names that change; calls fail half
  way. Correct: together with the resyncs they end with what SM has, and no
  proxy loses its login.
- *Life cycle*: a cancellation at any time ends everything, and the shutdown
  timeout cuts nothing off.

The hazards in `PROJECT.json` name the lines where all this bites.

## 2. Plan

The modules were built in this order, the most important behaviour first:

1. `NotificationPipeline`, its runs and proofs.
2. `TaskScheduler`, its run and proofs.
3. `BrokerReconcile`, its runs and proofs.
4. `UpdateFeed`, what the pipeline promises, and the proof that the pipeline
   implements it.
5. `VisibilityReconcile`, its run and proofs.
6. `BrokerHandler` (extends `BrokerReconcile`) and `VisibilityHandler` (extends
   `VisibilityReconcile`): the notifications next to the resyncs.
7. `ProxyLifecycle` (extends `NotificationPipeline`): the whole process.

The theorems were proved in the same order: of each module its types and the
invariants that the runs check, then the refinements (`UpdateFeed` by the
pipeline, the pipeline by the process), and last what the handlers and the
resyncs reach together (`CaughtUp`, `VisCaughtUp`). What a next step could add:
a round of `BrokerReconcile` as a user of the module `TaskScheduler`, and brokers
that are renamed during the visibilities' half of a round.

Modules extend each other along the calls of the code (`ProxyLifecycle` extends
the pipeline, too):

    UpdateFeed  <=implements=  NotificationPipeline  <=implements=  ProxyLifecycle
    TaskScheduler
    BrokerReconcile  <-  BrokerHandler
    VisibilityReconcile  <-  VisibilityHandler

## 3. Modules and the code

`PROJECT.json` maps every definition to its lines. Definitions with a suffix
(`SendResync_Unbounded`) are never used by a specification: they are mutants,
the code with a plausible bug, which the property they are paired with refutes.

### NotificationPipeline

A *revision* is a number; `log[r]` is the resource (broker or visibility) that
the r-th notification of SM is about, and the platform has each resource as of
some revision. Consuming notification r, or copying a fetched resource in a
resync, sets it. `0` in the channel is the message `{Resync: true}`.

| variables | code |
|---|---|
| `run`, `reader`, `pinger`, `sched`, `reconciler` | where the five goroutines are |
| `last` | `p.lastNotificationRevision` (`NoRevision` is `types.InvalidRevision`) |
| `cursor` | the websocket: what was read from it last |
| `messages` | the channel |
| `current` | the notification given to `Consume` |
| `fetched`, `unsynced` | what a resync has read from SM, and has yet to write |
| `requested` | history, for properties only |
| `life` | the rest of the process, which only `ProxyLifecycle` uses |

A step is what a goroutine does between two points at which another one can see
a difference: the message is put in the channel (`PushNotification`) and then
the revision is stored (`CommitRevision`), as at producer.go:257 and 262. The
revision of the headers is stored before the ping period is checked
(`ConnectBadPingPeriod`), as at 358 and 362.

Assumed: SM sends what follows the revision that the request names, or its
latest revision when none is named; answers 410 to any named revision at will;
publishes a change and its notification together. `Events` says which events of
the environment may happen in a run.

Left out: URLs, JSON, the length of delays and of deadlines (a deadline passes
when nobody pings), and a channel of size 0 (`Validate` would allow one).

`UpdateFeed` is the abstract specification: a store that follows a source of
changes. Of each change that the store has not seen the notification is still
to come (`feed`), or the resource is owed a copy (`owed`). The refinement
mapping in `NotificationPipeline` takes the platform for the store, what is
between SM and the handler (`InFlight`: not yet sent, on the connection, held
by the reader, in the channel, being consumed) for the feed, and `Owed`: every
resource while a resync is to start, the unsynced ones while it runs.

### ProxyLifecycle

The variable `life` of the pipeline is here the rest of the process: `main` is
where `Run` is (`start`, `reconcile`, `serve`: about to start the producer, the
reconciler, the server; `serving`, `wait`, `shutdown`, `done`, or `fatal` when
`waitWithTimeout` gives up), `health` and `server` are the other two goroutines
of the wait group, and `Counted` is whom the group counts. The goroutines of the
pipeline are `off` until `Run` starts them; from then on their steps are those
of `NotificationPipeline`, whose `Next` is a part of `LifecycleNext`.
`ImplementsPipeline` says that the process is an instance of that module: a
goroutine that is `off` counts as one that has not moved.
Assumed: the server of the service-manager module returns from `Run` after the
cancellation, and its goroutine in the group ends. Left out: wiring, HTTP.

### TaskScheduler

One caller, `Tasks` in any order, each in the stages of its goroutine at
task_scheduler.go:36-47; the buffered channel is the number of its elements.
`MaxParallel > 0` is what `reconcile_settings.go` validates.

### BrokerReconcile

| variables | code |
|---|---|
| `sm`, `creds` | SM: the brokers' names, the pair of credentials per broker |
| `platform` | registrations by ID: which SM broker the URL names, whether it is a proxy's URL, name, credentials |
| `desired`, `existing` | the snapshots `brokersFromSM`, `brokersFromPlatform` |
| `index`, `todo`, `loopVar`, `cursor` | `proxyBrokerIDMap`; where the two loops of `reconcileBrokers` are |
| `task` | the goroutines of the scheduler: operation, next call, arguments |
| `options` | takeover enabled, credentials rotated, a catalog fetcher is there |
| `orphans`, `clean` | history: what should be deleted; nothing disturbed the round |

A task is a sequence of remote calls: `Put`, the platform's, `Activate`. Each
has a way to fail before its effect and one to fail after it. The argument of a
delete task is read when the task runs (`ReadArgument`), from the variable
`existingBroker` that the loop assigns (reconcile_brokers.go:68-70; `go.mod`
says 1.14, so the loop has one variable).

Assumed of the other systems, since the code is not in the repository: a call
takes effect at once or not at all; blank credentials leave those that are
there; names are unique among the registrations that are no proxies; IDs are
not used again within a round. SM keeps the credentials put last and those they
replaced until an activation, and answers a conflict to an unforced put when
there are credentials already; whether it may instead accept is left open,
except while the last ones are not activated. At the start the platform has at
most one registration per broker: what the proxy itself would leave. Legacy
proxies (`proxyPathPattern`) are there at the start only.

Left out: the visibilities' half of a resync, plans and service offerings (in
`VisibilityReconcile`), and the name prefix.

### BrokerHandler

SM announces each change (`SMAnnounces`, `SMRefreshes`); the notifications wait
in `queue`, which stands for the pipeline: a resync drops some that wait and
marks the others `stale`, as the drain does with those in the channel and not
with those on the connection. `Take` is the dispatch of `Consume`; `OnCreate`,
`OnUpdate` and `OnDelete` are the lookup and the decision; what they decide is
`job`, and its calls (`JobPuts`, `JobCalls`, `JobActivates`, with a failure
before or after the effect for each) are steps of their own, in which users act
too. While the handler is busy there is no resync, and the other way round:
`HandlerTypeOK` says so. The tasks of a resync are those of `BrokerReconcile`.

`intact` and `mishap` are history: whether something happened that the handler
is known not to carry out (a failed call, a conflict over credentials, a
foreign broker with the name, a rename into or out of the blacklist, a broker
with two proxies); whether a rotation was cut short or a broker has two
proxies. Assumed: SM does not give an ID of a deleted broker to another one.

### VisibilityReconcile

| variables | code |
|---|---|
| `known`, `sm` | SM: its brokers, its visibilities (plan, bound to our platform or to any, scopes) |
| `registered`, `access` | the platform: brokers that have proxies, *grants* of plans to a scope or to everybody |
| `kept` | the brokers that the platform has under their own names and URLs as well, with `TakeoverEnabled` false |
| `full`, `chunkSize` | `resyncVisibilities`, `VisibilityBrokerChunkSize` |
| `wanted`, `plans`, `granted` | the snapshots `smBrokers`, `smPlans`, `smVisibilities` (converted) |
| `rest`, `chunk` | where the loop over `getBrokerChunks` is |
| `doubled` | the keys that two of these visibilities have |
| `deleting`, `creating`, `failed` | the calls of the two schedulers that are left, and their errors |
| `steady`, `clean` | history: what SM granted ever since the round began; nothing disturbed it |

One key of `getVisibilityKey` is one grant. A second visibility with the same
key is enabled again, beside the first (`doubled`), as the code does; which keys
are those is settled when SM's visibilities are read.
`ReconcileBrokers` is the brokers' half, in one step and as far as it matters
here: which brokers have proxies afterwards. Those are the wanted ones that are
`Served`: for one that is `kept` and has no proxy `resyncNotTakenOverBroker`
schedules nothing (reconcile_brokers.go:84-91), and no error says so. Its
visibilities stay in the round all the same, and the calls that enable them are
refused. With `TakeoverEnabled` true such a broker is taken over and is like any
other here, so that `kept` is then empty. A user may add and remove the
registration at any time (`OperatorRegisters`).

Assumed: SM lists, for our platform, its own visibilities and those of any;
enabling what is enabled and disabling what is not are no errors; access to a
plan can be changed only while its broker is registered, and ends with it; SM
drops a broker's visibilities with the broker. Left out: brokers renamed
between the reads (names stand for brokers), and a cancellation in the middle:
then `Schedule` fails, the rest is not awaited, and nothing follows.

### VisibilityHandler

The queue as in `BrokerHandler`, with notifications of visibilities and, in one
step each, of brokers (`BrokerNoted`, `BrokerMissed`). An update is up to four
calls in the order of the code: `DisableOld` and `EnableNew` when the plan
changed, `EnableAdded`, `DisableRemoved`. A creation that is refused while
GetBrokerByName fails too runs a resync of the brokers inside the handler
(`ResyncBrokers`, the steps of `VisibilityReconcile` with `full` false,
`ResyncReturns`) and tries again (`EnableAgain`). GetBrokerByName may also find
the broker, or find none without an error: then the handler ends.

The notification of an update carries the `patch` that the user sent to SM, as
`LabelChangesToLabels` splits it: of the labels to add, and of those to remove,
whether there are any, of whatever key, and the values under the key of the
platform's scopes. `EnableAdded` and `DisableRemoved` go by nothing else: they
call when there are labels and the visibility is ours, or none and it is not,
and pass on the values. `Leads` says what SM makes of a patch: of a value that
is added and removed it may make either, and a label removed as a whole loses
all its values. Assumed of the platform: it goes by the values under its own
key, and a request without any of them is about everybody (`Asked`), on
creation, update and deletion alike, as in a resync.

`Plain` says for which changes the handler does what a resync would do:
`CarriedOut` by what becomes of the visibility, `Exact` by a patch that says
just that. The model carries out the others as the code does; they are listed in
section 5.

## 4. Runs

| run | instance | distinct states | shows |
|---|---|---|---|
| `pipeline_safety` | 2 resources, 3 revisions, queue 2, network events, symmetry | 812,000 | `NoLostUpdate`, `OrderedDelivery`, `ResyncBeforeStream`, `ConsumedOnceInOrder`, `ImplementsUpdateFeed`, types |
| `pipeline_converges` | 2 resources, 2 revisions, queue 1, no timer | 108,000 | `Converges`, `ResyncServed` |
| `pipeline_liveness` | the whole process, 1 resource, 1 revision, queue 1, every event | 64,000 | `NeverCutOff`, `NothingLeftBehind`, `EndsAfterCancel`, `RepairedByTimer`, `StopsUnlessSignalling`, `ImplementsPipeline` |
| `pipeline_bad_ping` | 1 resource, 1 revision | | refutes `AlwaysStartsWithResync` |
| `pipeline_cancel_hangs` | 1 resource, 1 revision | | refutes `CancelReleasesGroup` |
| `task_scheduler` | 3 tasks, 2 slots | 3,293 | `BoundedParallelism`, `AwaitIsComplete`, `NoSlotLost`, `AwaitEnds`, types |
| `broker_reconcile` | 2 brokers, 2 names (one blacklisted), 4 IDs, 4 credentials, 2 slots, 2 disturbances | 2.2 million | `RoundReconciles`, `AtMostOneProxy`, `PlatformCanLogIn`, `DeletesOnlyOrphans`, `ForeignUntouched`, types |
| `broker_converges` | the same, 1 disturbance | 232,000 | `Converges` |
| `broker_orphans` | the same, no disturbance | | refutes `OrphansDeleted` |
| `broker_handler` | 1 broker, 3 names (one blacklisted), 3 IDs, 4 credentials, 3 notifications waiting, 3 disturbances | 1.16 million | `CaughtUp`, `LoginUnlessMishap`, `OnlyReplaysDuplicate`, `OnlyMatchingTakenOver`, types |
| `visibilities` | 3 brokers (one blacklisted, one perhaps kept) of one plan each, 1 scope, 2 visibilities, one chunk or chunks of 1, 2 disturbances | 1.28 million | `RoundGrants`, `NeverTakesAway`, `OthersKept`, `AccessConverges`, the invariant `RoundInv`, types |
| `visibility_handler` | 2 brokers (one blacklisted, the other perhaps kept), 3 plans, 2 scopes, 2 visibilities, 8 patches, 2 notifications waiting, 2 disturbances | 2.1 million | `VisCaughtUp`, `HealedByResync`, types |

### Why the bounds are enough

Two resources let a drain discard one change while the other is fetched; three
revisions let a resource change twice around a third change, and exceed a queue
of two together with a resync. `pipeline_converges` has two of each. In the whole
process one resource with one revision still gives a channel that is full with
the Resync while the reader holds the notification, a notification that is
lost and has to be repaired, and a cancellation at every point.
Three tasks on two slots make one wait, and let a second end before it starts.
Two brokers let two deletions share the loop's variable, and a takeover run
beside a creation; two disturbances let a call fail after its effect and a user
or a second failure meet the retry. Disturbances are counted together: failed
calls, changes by users, cancellation.

One broker is enough for its handler, which never looks at a second one; three
disturbances let it be created, renamed twice or renamed and deleted, around a
resync, and three notifications wait at once. Two reconciled brokers make two
chunks of one, the third is nobody's to touch; two visibilities may grant the
same. Two scopes of one visibility let an update add one and remove one; two
plans of one broker let it move. The patches are those between these scopes,
those of another key only (which to the handler look like a label removed as a
whole), and one that adds and removes the same scope. One kept broker beside a
served one shows that the first does not harm the second, also in one chunk.

`CHECK_DEADLOCK FALSE` is set where the system stops by design: the goroutines
end after cancellation, `Await` returns, or (in a violation run) the bound is
reached.

### Fairness

- *Pipeline*: the Go scheduler runs every goroutine that can go on, and a dial
  ends: weak fairness. Goroutines blocked on sending to one channel are served
  in order, a rendezvous is taken when the scheduler selects again, and a
  `select` picks at random among ready cases, so that the reader, the scheduler
  and the exit of `run` do not starve: strong fairness for these. Nothing is
  assumed of SM publishing, of failures, of cancellation, or of the timer,
  except in `RepairedByTimer`, which states that the timer fires, but not again
  and again within one drain.
- *Task scheduler*: each goroutine proceeds, and the caller schedules and awaits.
- *The process*: besides, `Run`, the health checks and the server go on when
  they can.
- *Visibility reconciliation*: resyncs are requested again and again (the timer)
  and each call answers or times out: weak fairness of the round. Nothing is
  assumed about failures but that they stop.
- *Broker reconciliation*: rounds are requested again and again (the timer) and
  a call answers or times out: weak fairness of the round and of each task.

## 5. What disagrees with the docs, comments and tests

- `broker_orphans`: two proxies to delete; both tasks read `existingBroker`
  after the loop assigned the second. One proxy is deleted twice, the other
  stays. `RoundReconciles` says what still holds: one of them goes, and with
  at most one orphan all is well; `Converges` says that repeated rounds delete
  them all.
- `pipeline_bad_ping`: a connection rejected for its ping period has already
  stored the revision; the next one streams without a resync.
- `pipeline_cancel_hangs`: cancelled between connect and the rendezvous, `run`
  waits for a scheduler that has ended, and the wait group is never released.

Known limits, which the properties state or leave out by name:

- A notification may enter the channel before the first Resync, against the
  comment of `Message`. It does no harm: the Resync follows
  (`ResyncBeforeStream`, `NoLostUpdate`).
- The notification of a creation that is handled after a resync has registered
  the broker tries again, by the plain name; if the broker was renamed in
  between, the platform accepts, and the broker has two proxies.
  `OnlyReplaysDuplicate` says that there is no other way to two proxies.
- One deletion that keeps failing puts all creations of the chunk off
  (`AwaitDeletions`); `AccessConverges` needs it to stop failing. The test at
  reconcile_visibilities_test.go:640 says "should continue with
  reconciliation", but has nothing to create.
- What the visibility handler does not carry out in full (not `Plain`): a
  visibility that becomes public or ceases to be; an update of a public one,
  which is enabled and then disabled; a move to a plan of another broker; the
  end of access that another visibility grants too; and a visibility for all
  platforms that has labels with scopes. Of the last the handler enables the
  scopes (visibilities_handler.go:113, 165, 173, 275 go by the labels), while a
  resync makes the plan public (reconcile_visibilities.go:150-163 goes by the
  platform). The next resync repairs each of them.
- An update of a visibility goes by the label changes as they were sent
  (visibilities_handler.go:158, 190, 197), of any key. A change of another key on
  a visibility of our platform names no scope, hence it enables or disables the
  plan for everybody. A label that is removed as a whole comes without values:
  the platform is asked to disable the plan for everybody, and the scopes stay. A
  value that is removed and added in one patch is enabled and then disabled,
  whichever was meant. None of these is `Exact`; a notification of the kind ends
  `intact`, so that `VisCaughtUp` speaks again after the next full resync, which
  repairs them.
- With takeovers disabled a broker that the platform keeps under its own name and
  URL gets no proxy, by a resync or by a notification (reconcile_brokers.go:84,
  broker_handler.go:176). Its visibilities are enabled in vain in each round, and
  an error of that kind is only logged. `RoundGrants`, `AccessConverges`,
  `VisCaughtUp` and `HealedByResync` are therefore about `Served` brokers.
- A platform client that answers nil without an error to GetBrokerByName, as
  broker_handler.go:242 expects, gets no resync from a creation that met no
  proxy (visibilities_handler.go:117): the visibility waits for the next full
  resync. `HealedByResync` is about the handlers that ask for one.
- The scopes that a visibility loses while it moves to another plan are disabled
  for the new plan, too, where it never had them.

## 6. Proofs

For every value of the constants, from the named assumptions in the modules:
non-empty or finite sets (`BrokersAssumption`: SM has finitely many brokers), a
queue of at least one, `None`, `NoJob` and the like apart from values
(`JobAssumption`), and
`ForeignAssumption`: a registration of a user whose URL is not the proxy's does
not carry credentials that the proxy has generated.

- `NotificationPipelineProofs`: `TypeCorrect`, `DeliveryIsOrdered`,
  `NothingIsLost`, `ConsumptionIsOrdered`, `StreamsAfterResync`.
  None of the properties is inductive. `IInv` adds where the goroutines may be
  together and how `last`, `cursor` and the log relate (`RevisionsInv`: the
  stored revision lags one behind the reader at most); that what is in flight
  is upward closed (`UpClosed`); and that a resource fetched too early by a
  resync is covered by a notification still in flight (`Coverage`). No change is
  lost because a drain discards the notifications before the resync reads
  anything, and what comes later is upward closed again.
  `PipelineImplementsFeed`, in the same module, follows from that invariant and
  one more about what a resync has fetched. One lemma per group of actions says
  which step of `UpdateFeed` it is: a publication is `Change`, a consumption
  `Deliver`, a drained message and an answer 410 `Discard`, a write of a resync
  `Copy` or `Overwrite`; the rest changes nothing that `UpdateFeed` sees. It
  assumes that neither lossy events nor a cancellation happen (`Running`).
- `TaskSchedulerProofs`: `SchedulerTypeCorrect`, `ParallelismIsBounded`,
  `AwaitTellsTheTruth`. The invariant equates `slots`, `waiting` and
  `errorCount` with the numbers of tasks in the stages that count.
- `BrokerReconcileProofs`: `ReconcileTypeCorrect`, `NoSecondProxy`,
  `NothingElseDeleted`, `ForeignLeftAlone`. `CoreInv` says that what was a proxy
  at the snapshot is a proxy or gone (`SnapshotInv`), that the map and the
  shared variable hold orphans only once the first loop is over (`IndexInv`),
  that a loop schedules no broker twice (`LoopInv`), that a task acts on what
  the snapshot said about its broker (`Sound`), and that a broker whose creation
  is outstanding has got no proxy since (`TaskInv`). It is inductive by itself;
  `IInv` adds that each broker has one proxy (`UniqueInv`), which the
  notifications do not leave true. `CallEffect` sums up the four calls: one
  registration changes, and how.
  `PlatformLogsIn` needs more than the property, since the property says nothing
  of a proxy whose new credentials SM has not activated yet: `LoginInv` follows
  the credentials from the put to the call of the platform and to the
  activation, and says who may still use the old ones; `ForeignAssumption` is
  used there, where a user could otherwise make a proxy of a broker with
  somebody else's credentials.
  `RoundsReconcile` is proved from `ProgressInv`, which says for every broker
  where its part of a round that nothing disturbed is: its decision is still to
  come, its task is at some call and what is left to do is to serve it, or it is
  served; and that the orphans are those that the loop has not come to, the one
  in the shared variable, and those that are gone. The lemmas go call by call
  (`CallProgress`) and loop by loop.
- `BrokerHandlerProofs`: `HandlerTypeCorrect`, `NothingElseTakenOver`,
  `OnlyReplays`, `HandlerLogsIn`. `HandlerInv` is `CoreInv` with what the queue
  and the handler hold: a notification is one that SM can send (`Shaped`); the
  registration that was looked up belongs to the broker still, as a proxy or as
  what may be taken over, or it is gone (`Held`); and of a broker whose creation
  is announced and not seen by a resync neither the platform nor the snapshot
  knows anything, nor does an earlier notification (`FreshInv`), so that it is
  the replay of a creation, and only that, that can find another proxy there.
  The steps of the resyncs and of users are those of `BrokerReconcile`
  (`OthersNext`), whose lemmas are cited: `NextSpares`, that they give no broker
  a second proxy whatever others have; `CoreStep`; `LoginStep`.
  `HandlerLogsIn` needs `HandlerLoginInv`: until a mishap `LoginInv` holds with
  the handler's own rotation (`JobRotationInv`), and credentials that SM waits to
  see activated have not reached the platform unless their activation comes next
  (`PendingInv`). That is why the handler may force new ones on SM although a
  rotation was left half-way: the pair that SM keeps loses what nobody uses.
  `BrokersCatchUp` is the theorem that notifications and resyncs end with what
  SM has. Its invariant `CatchUpInv` is a chain of names. `Ahead` are the names
  of a broker that the waiting notifications leave behind, and the one that it
  has in SM; what a notification gives is ahead of it (`LinkedInv`). What a resync
  has read is ahead of the queue (`ReadInv`), whatever SM announces since, and at
  the end the platform has it (`WorkInv`: the proof of `RoundsReconcile`, without
  its assumption that SM is quiet). Between the resyncs the platform has for
  every broker a name that is ahead (`OnTheWayInv`); while the handler works on
  that broker it holds the registration that it has looked up (`GripInv`), so
  that its call takes the platform along the chain. When the queue is
  empty only SM's own name is ahead. A notification that repeats what a resync
  did finds no registration under the old name and changes nothing; or the name
  has come again, and the update ends at one that is ahead, too.
- `UpdateFeedProofs`: `FeedForgetsNothing`. The invariant is the promise
  itself, with the bounds of the revisions.
- `VisibilityReconcileProofs`: `RoundInvariant`, `VisTypeCorrect`,
  `NothingGrantedIsTaken`, `OthersLeftAlone`, `RoundsGrant`. `SteadyInv`, the
  first half of `RoundInv`, follows what SM has granted all along through the
  snapshots: its brokers are wanted, its plans are read, it is among the
  visibilities of its chunk, and no call disables it; `ChunkOnly` keeps the
  calls within the chunk. `CleanInv`, the second half, says how much of an
  undisturbed round is done: every wanted broker that may have a proxy has it
  (`SnapshotsHold`), the chunks before the current one are right, within the
  current one the calls to come are what is missing, but for those at kept
  brokers. Those fail, but only as creations, after which nothing is left to
  put off: what is disabled was enabled, so that its broker has a proxy
  (`ChunkOnly`), and no deletion is refused.
- `VisibilityHandlerProofs`: `HandlerInvariant`, `HandlerTypeCorrect`,
  `ResyncHeals`, `ResyncTakesNothing`. The notifications are added to the
  rounds, and `SteadyInv` has to survive them: a handler's call counts as a
  change of the platform by somebody else. `JobInv` says which
  notification a handler has at which call; `HealInv` that the resync inside a
  handler (`full` false) ends before the visibilities, and that it has given
  every wanted broker its proxy that may have one, unless something failed or
  changed since the handler asked for it. `ResyncTakesNothing` says that `NeverTakesAway` and
  `OthersKept` hold for the resyncs with the notifications, too.
  `NotificationsCatchUp` is the counterpart of `BrokersCatchUp`, from
  `OrderInv`. At any moment the platform has what SM grants (`AgreementInv`),
  but for the grants that a waiting notification names, those that the handler
  has left to change, and the brokers whose chunk of the resync is to come. To
  keep that, the last that is said of a grant has to be true (`NewsInv`; for the
  notification that the handler has, `DutyInv`), its patch has to say what
  becomes of the scopes (`Exact`, a part of both), and a broker that lacks its
  proxy, and is not kept, has to be announced before anything about its plans
  (`ArrivalInv`). `ReadInv` and
  `ChunkInv` say how far a resync can be relied on meanwhile: brokers that go do
  not come back, and the calls under way are all that the chunk takes, but for
  the grants that the queue names. It is not enough that each handler does its part: a
  resync may read a change before its notification is handled, and a deletion
  may be carried out again after a creation that the resync has seen.
- `ProxyLifecycleProofs`: `TimeoutCutsNothing`, `AllEnded`,
  `ProcessImplementsPipeline`. `LifecycleInv` adds
  that reader and pinger are off whenever `run` is not streaming or waiting for
  them, and which goroutines are started where `Run` is; with it nobody of the
  wait group starts again once it was empty. The same invariant makes the start
  of a goroutine a stutter of the pipeline: `Run` starts none that has moved.
  Every other step is the same step of the instance, lemma by lemma for each
  goroutine. What is proved of the pipeline's `Spec` thereby holds of the
  process under that mapping; the prover cannot cite a theorem of an instance,
  so the composition is not a theorem of its own.

Every part of these invariants was checked with TLC on the instances above
before its proof. Every invariant and every action property that a run checks
has its theorem. Only model-checked is what holds under fairness, which the
prover does not handle: `Converges` (of the pipeline and of the brokers),
`ResyncServed`, `RepairedByTimer`, `StopsUnlessSignalling`, `EndsAfterCancel`,
`NoSlotLost`, `AwaitEnds`, `AccessConverges`; and the three properties that the
runs refute. Not checked by the prover either is that the instances of the runs
satisfy the assumptions on the constants: TLC evaluates those.

## 7. Not modelled

Settings, HTTP transport, random credentials, hooks and the platform
interfaces have no behaviour of their own. The platform client's cache, which
resyncs and handlers reset, belongs to the particular proxies: here the platform
answers with what it has. Payloads that do not parse or validate are logged and
dropped by the handlers; SM's are taken to be well formed. Requests for
credentials are built without the context, so that a cancellation does not
interrupt them; the modules have no clock. Two processes of the proxy on one
platform are outside what the code provides for.
