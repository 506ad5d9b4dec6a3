--------------------------- MODULE BrokerReconcile ---------------------------
(***************************************************************************)
(* The brokers' half of a resync (pkg/sbproxy/reconcile: resyncer.go,      *)
(* reconcile_brokers.go): the brokers of SM and the registrations of the   *)
(* platform are read, every desired broker gets a task that creates,       *)
(* updates or refetches its proxy, every proxy left over gets a task that  *)
(* deletes it, and the round ends when all tasks have.  A task that sets   *)
(* credentials talks to two systems: it puts them into SM, hands them to   *)
(* the platform, and activates them in SM.                                 *)
(*                                                                         *)
(* A registration carries the SM broker that its URL names and its kind:   *)
(*   "proxy"     the URL starts with smPath                                *)
(*   "legacy"    the URL is the one of proxyPathPattern                    *)
(*   "original"  the URL is the SM broker's own                            *)
(*   "other"     any other URL, under the name of the SM broker            *)
(* and its name stands for the proxy name of that SM name when it is a     *)
(* proxy.  Names belong to a broker: <<b, n>> in the code.                 *)
(*                                                                         *)
(* The platform and SM's store of credentials are outside the repository;  *)
(* what is assumed of them is said at PlatformCall and at PutAccepted.     *)
(***************************************************************************)
EXTENDS Integers, FiniteSets

CONSTANTS
    Brokers,    \* IDs of SM's brokers
    Names,      \* the names a broker may have
    Blacklist,  \* settings: BrokerBlacklist
    Guids,      \* the platform's IDs of registrations
    Issued,     \* generated credentials
    Default,    \* the credentials of the proxy's own SM user
    Own,        \* credentials of a broker that the proxy never set
    None,
    Shapes,     \* the registrations a platform may have at the start
    Options,    \* the settings a process may run with
    MaxParallel,
    MaxDisturbances  \* bound: changes by users, failed calls, the cancellation

Registration ==
    [broker : Brokers, kind : {"proxy", "legacy", "original", "other"}, name : Names,
     cred : Issued \cup {Default, Own}]

ASSUME NoneAssumption ==
    None \notin Brokers \cup Names \cup Guids \cup Issued \cup {Default, Own} \cup Registration
ASSUME CredentialsAssumption == Default # Own /\ {Default, Own} \cap Issued = {}
ASSUME SettingsAssumption ==
    /\ Blacklist \subseteq Names
    /\ Options \subseteq [takeover : BOOLEAN, credentials : BOOLEAN, fetcher : BOOLEAN]
    /\ MaxParallel \in Nat \ {0}
ASSUME FiniteAssumption == IsFiniteSet(Brokers) /\ IsFiniteSet(Guids)
ASSUME ForeignAssumption ==    \* Only the proxy hands out what it has generated, with its URL.
    \A r \in Shapes : r.kind \in {"original", "other"} => r.cred \notin Issued
ASSUME BoundsAssumption == Shapes \subseteq Registration /\ MaxDisturbances \in Nat

VARIABLES
    \* the other systems
    sm,         \* the name of each broker in SM; None when SM does not have it
    platform,   \* the registrations of the platform
    creds,      \* SM's credentials for the platform to use with each broker
    disturbances,   \* how many of those there were
    \* the process
    options, ctxDone,
    \* the round
    phase,      \* where reconcileBrokers is
    desired,    \* the snapshot of SM
    existing,   \* the snapshot of the platform
    todo,       \* desired brokers the first loop has yet to schedule
    index,      \* proxyBrokerIDMap
    loopVar,    \* existingBroker, the variable of the second loop
    cursor,     \* the broker that variable was assigned for, until it is scheduled
    task,       \* the task of each broker
    \* history
    orphans,    \* what the second loop has to delete
    clean       \* no call failed, was rejected or was disturbed since the round began

external == <<sm, platform, creds, disturbances>>
process == <<options, ctxDone>>
round == <<phase, desired, existing, todo, index, loopVar, cursor, task, orphans>>
vars == <<external, process, round, clean>>

Credentials == [current : Issued \cup {None}, old : Issued \cup {None}, active : BOOLEAN]
Task ==
    [op : {"none", "create", "update", "fetch", "delete"},
     at : {"put", "read", "call", "activate", "ended"},
     guid : Guids \cup {None},
     cred : Issued \cup {Default, None}]

NoTask == [op |-> "none", at |-> "ended", guid |-> None, cred |-> None]
NoCredentials == [current |-> None, old |-> None, active |-> FALSE]

TypeOK ==
    /\ sm \in [Brokers -> Names \cup {None}]
    /\ platform \in [Guids -> Registration \cup {None}]
    /\ creds \in [Brokers -> Credentials]
    /\ disturbances \in 0..MaxDisturbances
    /\ options \in Options
    /\ ctxDone \in BOOLEAN
    /\ phase \in {"idle", "fetched", "scheduling", "deleting", "blocked", "awaiting"}
    /\ desired \in [Brokers -> Names \cup {None}]
    /\ existing \in [Guids -> Registration \cup {None}]
    /\ todo \subseteq Brokers
    /\ index \in [Brokers -> Guids \cup {None}]
    /\ loopVar \in Guids \cup {None}
    /\ cursor \in Brokers \cup {None}
    /\ task \in [Brokers -> Task]
    /\ orphans \subseteq Guids
    /\ clean \in BOOLEAN
    /\ (phase = "blocked") <=> (cursor # None)
    /\ todo # {} => phase = "scheduling"

-----------------------------------------------------------------------------
(* Registrations.                                                          *)

IsProxy(r) == r # None /\ r.kind \in {"proxy", "legacy"}

ProxiesOf(b, regs) == {g \in Guids : IsProxy(regs[g]) /\ regs[g].broker = b}

\* The registrations that bear b's proxy name for n, and those that bear its plain
\* name: the platform has one of each at most.
ProxyNamed(b, n, regs) == {g \in ProxiesOf(b, regs) : regs[g].name = n}

PlainNamed(b, n, regs) ==
    {g \in Guids : /\ regs[g] # None /\ ~IsProxy(regs[g])
                   /\ regs[g].broker = b /\ regs[g].name = n}

\* brokerKeyMap[getBrokerKey(b)]: name and URL of SM's broker b, called n.
KeyMatches(b, n, regs) ==
    {g \in Guids : /\ regs[g] # None
                   /\ regs[g].kind = "original"
                   /\ regs[g].broker = b
                   /\ regs[g].name = n}

\* The platform gives a registration an ID that it has not used (lately).
FreeGuids == {g \in Guids : platform[g] = None /\ existing[g] = None}
NewGuid == CHOOSE g \in FreeGuids : TRUE

-----------------------------------------------------------------------------
(* A process starts: SM has some brokers; the platform has at most one     *)
(* registration for each, and SM knows the credentials of those that it    *)
(* issued.                                                                 *)

IssuedFor(b, regs) ==
    {c \in Issued : \E g \in Guids : regs[g] # None /\ regs[g].broker = b /\ regs[g].cred = c}

Init ==
    /\ options \in Options
    /\ sm \in [Brokers -> Names \cup {None}]
    /\ platform \in [Guids -> Shapes \cup {None}]
    /\ \A g, h \in Guids : (platform[g] # None /\ platform[h] # None /\ g # h)
                              => platform[g].broker # platform[h].broker
    /\ creds = [b \in Brokers |->
                  IF IssuedFor(b, platform) = {} THEN NoCredentials
                  ELSE [current |-> CHOOSE c \in IssuedFor(b, platform) : TRUE,
                        old |-> None, active |-> TRUE]]
    /\ disturbances = 0
    /\ ctxDone = FALSE
    /\ phase = "idle"
    /\ desired = [b \in Brokers |-> None]
    /\ existing = [g \in Guids |-> None]
    /\ todo = {}
    /\ index = [b \in Brokers |-> None]
    /\ loopVar = None
    /\ cursor = None
    /\ task = [b \in Brokers |-> NoTask]
    /\ orphans = {}
    /\ clean = FALSE

-----------------------------------------------------------------------------
(* Users of SM and of the platform.                                        *)

Disturbance ==
    /\ disturbances < MaxDisturbances
    /\ disturbances' = disturbances + 1
    /\ clean' = FALSE

Changed ==
    /\ Disturbance
    /\ UNCHANGED <<creds, process, round>>

SMChanges(b, n) ==
    /\ Changed
    /\ n # sm[b]
    /\ sm' = [sm EXCEPT ![b] = n]
    /\ UNCHANGED platform

\* A broker is registered in the platform without SM; names are unique.  Bound:
\* Guids has room for the proxies to be created afterwards.
OperatorRegisters(b, n) ==
    /\ Changed
    /\ Cardinality(FreeGuids) > Cardinality(Brokers)
    /\ PlainNamed(b, n, platform) = {}
    /\ platform' = [platform EXCEPT ![NewGuid] = [broker |-> b, kind |-> "original", name |-> n, cred |-> Own]]
    /\ UNCHANGED sm

OperatorRenames(g, n) ==
    /\ Changed
    /\ platform[g] # None
    /\ platform[g].name # n
    /\ LET named == IF IsProxy(platform[g]) THEN ProxyNamed(platform[g].broker, n, platform)
                                            ELSE PlainNamed(platform[g].broker, n, platform)
       IN  named = {}
    /\ platform' = [platform EXCEPT ![g].name = n]
    /\ UNCHANGED sm

OperatorDeletes(g) ==
    /\ Changed
    /\ platform[g] # None
    /\ platform' = [platform EXCEPT ![g] = None]
    /\ UNCHANGED sm

Cancel ==
    /\ ~ctxDone
    /\ Disturbance
    /\ ctxDone' = TRUE
    /\ UNCHANGED <<sm, platform, creds, options, round>>

-----------------------------------------------------------------------------
(* The round.                                                              *)

Wanted(n) == IF n \in Blacklist THEN None ELSE n

\* SM's brokers are read, and its offerings and plans.
FetchSM ==
    /\ phase = "idle"
    /\ phase' = "fetched"
    /\ desired' = [b \in Brokers |-> Wanted(sm[b])]
    /\ orphans' = {}
    /\ clean' = TRUE
    /\ UNCHANGED <<external, process, existing, todo, index, loopVar, cursor, task>>

\* One of those calls, or the one to the platform, fails: no round.
FetchFails ==
    /\ phase = "fetched"
    /\ phase' = "idle"
    /\ Disturbance
    /\ UNCHANGED <<sm, platform, creds, process, desired, existing, todo, index, loopVar, cursor, task, orphans>>

\* The platform's registrations are read and indexed; of two proxies of a
\* broker the index keeps the one that was listed last.
StartRound ==
    /\ phase = "fetched"
    /\ phase' = "scheduling"
    /\ existing' = platform
    /\ todo' = {b \in Brokers : desired[b] # None}
    /\ index' \in {f \in [Brokers -> Guids \cup {None}] :
                     \A b \in Brokers : IF ProxiesOf(b, platform) = {} THEN f[b] = None
                                        ELSE f[b] \in ProxiesOf(b, platform)}
    /\ orphans' = {index'[b] : b \in {b \in Brokers : desired[b] = None}} \ {None}
    /\ task' = [b \in Brokers |-> NoTask]
    /\ UNCHANGED <<external, process, desired, loopVar, cursor, clean>>

Running == {b \in Brokers : task[b].at # "ended"}

SlotFree == Cardinality(Running) < MaxParallel

FirstStep == IF options.credentials THEN "put" ELSE "call"

NewTask(op, g) ==
    [op |-> op, at |-> FirstStep, guid |-> g, cred |-> IF options.credentials THEN None ELSE Default]

\* Mutant: an existing proxy is only checked for its name.
TaskFor_NameOnly(b) ==
    IF index[b] # None THEN
        IF existing[index[b]].name # desired[b]
          THEN {NewTask("update", index[b])}
          ELSE IF options.fetcher THEN {NewTask("fetch", index[b])} ELSE {NoTask}
    ELSE IF KeyMatches(b, desired[b], existing) = {} THEN {NewTask("create", None)}
    ELSE IF options.takeover THEN {NewTask("update", g) : g \in KeyMatches(b, desired[b], existing)}
    ELSE {NoTask}

\* Mutant: a proxy that was renamed is not recognised.
TaskFor_ByName(b) ==
    IF index[b] # None /\ existing[index[b]].name = desired[b] THEN
        IF existing[index[b]].kind # "proxy"
          THEN {NewTask("update", index[b])}
          ELSE IF options.fetcher THEN {NewTask("fetch", index[b])} ELSE {NoTask}
    ELSE IF KeyMatches(b, desired[b], existing) = {} THEN {NewTask("create", None)}
    ELSE IF options.takeover THEN {NewTask("update", g) : g \in KeyMatches(b, desired[b], existing)}
    ELSE {NoTask}

\* Mutant: the registration with the broker's name is taken over whatever its URL.
TaskFor_AnyURL(b) ==
    IF index[b] # None THEN
        IF existing[index[b]].name # desired[b] \/ existing[index[b]].kind # "proxy"
          THEN {NewTask("update", index[b])}
          ELSE IF options.fetcher THEN {NewTask("fetch", index[b])} ELSE {NoTask}
    ELSE IF PlainNamed(b, desired[b], existing) = {} THEN {NewTask("create", None)}
    ELSE IF options.takeover THEN {NewTask("update", g) : g \in PlainNamed(b, desired[b], existing)}
    ELSE {NoTask}

\* What desired broker b needs.
TaskFor(b) ==
    IF index[b] # None THEN
        IF existing[index[b]].name # desired[b] \/ existing[index[b]].kind # "proxy"
          THEN {NewTask("update", index[b])}
          ELSE IF options.fetcher THEN {NewTask("fetch", index[b])} ELSE {NoTask}
    ELSE IF KeyMatches(b, desired[b], existing) = {} THEN {NewTask("create", None)}
    ELSE IF options.takeover THEN {NewTask("update", g) : g \in KeyMatches(b, desired[b], existing)}
    ELSE {NoTask}

\* Mutant: the desired brokers stay in the map of those to delete.
ScheduleDesired_KeepsIndex(b) ==
    /\ phase = "scheduling"
    /\ b \in todo
    /\ todo' = todo \ {b}
    /\ \E t \in TaskFor(b) :
         /\ t.op # "none" => SlotFree
         /\ task' = [task EXCEPT ![b] = t]
    /\ UNCHANGED <<external, process, phase, desired, existing, index, loopVar, cursor, orphans, clean>>

\* The first loop takes a desired broker, in the order of SM's list, takes its
\* proxy out of the map and schedules its task.
ScheduleDesired(b) ==
    /\ phase = "scheduling"
    /\ b \in todo
    /\ todo' = todo \ {b}
    /\ index' = [index EXCEPT ![b] = None]
    /\ \E t \in TaskFor(b) :
         /\ t.op # "none" => SlotFree
         /\ task' = [task EXCEPT ![b] = t]
    /\ UNCHANGED <<external, process, phase, desired, existing, loopVar, cursor, orphans, clean>>

\* Mutant: the loop ends with the first error of Schedule.
DesiredRejected_Breaks(b) ==
    /\ ctxDone
    /\ phase = "scheduling"
    /\ b \in todo
    /\ todo' = todo \ {b}
    /\ phase' = "deleting"
    /\ clean' = FALSE
    /\ UNCHANGED <<external, process, desired, existing, index, loopVar, cursor, task, orphans>>

\* Schedule returns the context's error; the loop goes on.
DesiredRejected(b) ==
    /\ ctxDone
    /\ phase = "scheduling"
    /\ b \in todo
    /\ todo' = todo \ {b}
    /\ index' = [index EXCEPT ![b] = None]
    /\ clean' = FALSE
    /\ UNCHANGED <<external, process, phase, desired, existing, loopVar, cursor, task, orphans>>

DesiredDone ==
    /\ phase = "scheduling"
    /\ todo = {}
    /\ phase' = "deleting"
    /\ UNCHANGED <<external, process, desired, existing, todo, index, loopVar, cursor, task, orphans, clean>>

\* range takes the next entry of the map, in any order, and assigns the one
\* variable that all the closures of the loop share.
NextOrphan(b) ==
    /\ phase = "deleting"
    /\ index[b] # None
    /\ loopVar' = index[b]
    /\ cursor' = b
    /\ index' = [index EXCEPT ![b] = None]
    /\ phase' = "blocked"
    /\ UNCHANGED <<external, process, desired, existing, todo, task, orphans, clean>>

ScheduleDelete ==
    /\ phase = "blocked"
    /\ SlotFree
    /\ task' = [task EXCEPT ![cursor] = [op |-> "delete", at |-> "read", guid |-> None, cred |-> None]]
    /\ cursor' = None
    /\ phase' = "deleting"
    /\ UNCHANGED <<external, process, desired, existing, todo, index, loopVar, orphans, clean>>

DeleteRejected ==
    /\ ctxDone
    /\ phase = "blocked"
    /\ cursor' = None
    /\ phase' = "deleting"
    /\ clean' = FALSE
    /\ UNCHANGED <<external, process, desired, existing, todo, index, loopVar, task, orphans>>

OrphansDone ==
    /\ phase = "deleting"
    /\ \A b \in Brokers : index[b] = None
    /\ phase' = "awaiting"
    /\ UNCHANGED <<external, process, desired, existing, todo, index, loopVar, cursor, task, orphans, clean>>

AwaitReturns ==
    /\ phase = "awaiting"
    /\ Running = {}
    /\ phase' = "idle"
    /\ existing' = [g \in Guids |-> None]
    /\ loopVar' = None
    /\ UNCHANGED <<external, process, desired, todo, index, cursor, task, orphans, clean>>

-----------------------------------------------------------------------------
(* The tasks.                                                              *)

Advance(b, t) ==
    /\ task' = [task EXCEPT ![b] = t]
    /\ UNCHANGED <<sm, process, phase, desired, existing, todo, index, loopVar, cursor, orphans>>

InUse(b) == {creds[b].current, creds[b].old} \cup IssuedFor(b, platform)

\* Generated credentials are none of those in use.
Fresh(b) == CHOOSE c \in Issued : c \notin InUse(b)

\* Assumed of SM: it has a pair of credentials for a broker, those put last and
\* those they replace, and forgets the latter when the former are activated.
Stored(b) ==
    creds' = [creds EXCEPT ![b] =
        [current |-> Fresh(b),
         old |-> IF creds[b].active THEN creds[b].current ELSE creds[b].old,
         active |-> FALSE]]

\* SM may refuse to replace credentials that exist, and does refuse while those
\* put last are not activated, unless it is forced to.
Pending(b) == creds[b].current # None /\ ~creds[b].active

\* Bound: there are credentials left to generate.
PutAccepted(b) ==
    /\ Issued \ InUse(b) # {}
    /\ task[b].op = "create" \/ ~Pending(b)

Put(b) ==
    /\ task[b].at = "put"
    /\ PutAccepted(b)
    /\ Stored(b)
    /\ Advance(b, [task[b] EXCEPT !.at = "call", !.cred = Fresh(b)])
    /\ UNCHANGED <<platform, disturbances, clean>>

\* Mutant: after a conflict the generated credentials are used all the same.
PutConflicts_NotBlanked(b) ==
    /\ task[b].at = "put"
    /\ task[b].op \in {"update", "fetch"}
    /\ creds[b].current # None
    /\ Advance(b, [task[b] EXCEPT !.at = "call", !.cred = Fresh(b)])
    /\ UNCHANGED <<platform, creds, disturbances, clean>>

\* ErrConflictingBrokerPlatformCredentials: user and password are blank, and
\* the platform keeps those that it has.
PutConflicts(b) ==
    /\ task[b].at = "put"
    /\ task[b].op \in {"update", "fetch"}
    /\ creds[b].current # None
    /\ Advance(b, [task[b] EXCEPT !.at = "call"])
    /\ UNCHANGED <<platform, creds, disturbances, clean>>

\* The request or its response is lost.
PutFails(b) ==
    /\ task[b].at = "put"
    /\ UNCHANGED creds \/ (PutAccepted(b) /\ Stored(b))
    /\ Advance(b, NoTask)
    /\ Disturbance
    /\ UNCHANGED platform

\* The closure evaluates its argument: the loop's variable as it is now.
ReadArgument(b) ==
    /\ task[b].at = "read"
    /\ Advance(b, [task[b] EXCEPT !.at = "call", !.guid = loopVar])
    /\ UNCHANGED <<platform, creds, disturbances, clean>>

\* Mutant: the name of the snapshot is sent back.
Registered_OldName(b, cred) ==
    [broker |-> b, kind |-> "proxy",
     name |-> IF task[b].guid = None THEN desired[b] ELSE existing[task[b].guid].name, cred |-> cred]

\* What createBrokerRegistration and updateBrokerRegistration ask for.
Registered(b, cred) == [broker |-> b, kind |-> "proxy", name |-> desired[b], cred |-> cred]

\* Assumed of the platform: a call on a registration takes effect at once,
\* blank credentials leave the old ones, and fetching a catalog changes nothing
\* but the credentials.
PlatformCall(b) ==
    LET t == task[b]
        cred == IF t.cred = None THEN platform[t.guid].cred ELSE t.cred
    IN
    CASE t.op = "create" -> FreeGuids # {} /\ platform' = [platform EXCEPT ![NewGuid] = Registered(b, t.cred)]
      [] t.op = "update" -> platform' = [platform EXCEPT ![t.guid] = Registered(b, cred)]
      [] t.op = "fetch"  -> platform' = [platform EXCEPT ![t.guid].cred = cred]
      [] t.op = "delete" -> platform' = [platform EXCEPT ![t.guid] = None]

\* The registration is not there any more, or the name is that of another one:
\* an error of the platform.
Refused(op, g, b, n) ==
    \/ op # "create" /\ platform[g] = None
    \/ op \in {"create", "update"} /\ ProxyNamed(b, n, platform) \ {g} # {}

TaskRefused(b) == Refused(task[b].op, task[b].guid, b, desired[b])

CallSucceeds(b) ==
    /\ task[b].at = "call"
    /\ ~TaskRefused(b)
    /\ PlatformCall(b)
    /\ Advance(b, IF options.credentials /\ task[b].cred # None
                    THEN [task[b] EXCEPT !.at = "activate"] ELSE NoTask)
    /\ UNCHANGED <<creds, disturbances, clean>>

CallRefused(b) ==
    /\ task[b].at = "call"
    /\ TaskRefused(b)
    /\ Advance(b, NoTask)
    /\ UNCHANGED <<platform, creds, disturbances, clean>>

\* The platform fails, or the call does after it had its effect.
CallFails(b) ==
    /\ task[b].at = "call"
    /\ ~TaskRefused(b)
    /\ UNCHANGED platform \/ PlatformCall(b)
    /\ Advance(b, NoTask)
    /\ Disturbance
    /\ UNCHANGED creds

Activated(b) == creds' = [creds EXCEPT ![b].active = TRUE, ![b].old = None]

Activate(b) ==
    /\ task[b].at = "activate"
    /\ Activated(b)
    /\ Advance(b, NoTask)
    /\ UNCHANGED <<platform, disturbances, clean>>

\* An error is only logged.
ActivateFails(b) ==
    /\ task[b].at = "activate"
    /\ UNCHANGED creds \/ Activated(b)
    /\ Advance(b, NoTask)
    /\ Disturbance
    /\ UNCHANGED platform

-----------------------------------------------------------------------------
Environment ==
    \/ Cancel
    \/ \E b \in Brokers, n \in Names \cup {None} : SMChanges(b, n)
    \/ \E b \in Brokers, n \in Names : OperatorRegisters(b, n)
    \/ \E g \in Guids, n \in Names : OperatorRenames(g, n)
    \/ \E g \in Guids : OperatorDeletes(g)

RoundStep ==
    \/ FetchSM
    \/ StartRound
    \/ \E b \in Brokers : ScheduleDesired(b) \/ NextOrphan(b)
    \/ DesiredDone
    \/ ScheduleDelete
    \/ OrphansDone
    \/ AwaitReturns

Rejected == DeleteRejected \/ \E b \in Brokers : DesiredRejected(b)

TaskStep(b) ==
    \/ Put(b) \/ PutConflicts(b)
    \/ ReadArgument(b)
    \/ CallSucceeds(b) \/ CallRefused(b)
    \/ Activate(b)

Fault(b) == PutFails(b) \/ CallFails(b) \/ ActivateFails(b)

Next ==
    \/ Environment
    \/ RoundStep
    \/ Rejected
    \/ FetchFails
    \/ \E b \in Brokers : TaskStep(b) \/ Fault(b)

Spec == Init /\ [][Next]_vars

(* Resyncs are requested again and again; calls have timeouts.             *)
Fairness ==
    /\ WF_vars(RoundStep \/ Rejected)
    /\ \A b \in Brokers : WF_vars(TaskStep(b) \/ Fault(b))
FairSpec == Spec /\ Fairness

-----------------------------------------------------------------------------
\* A platform that matches what SM wants: each wanted broker has one proxy, up
\* to date, or is there itself and may not be taken over; nobody else has one.
Matches(b, n, regs) ==
    IF n = None THEN ProxiesOf(b, regs) = {}
    ELSE \/ /\ Cardinality(ProxiesOf(b, regs)) = 1
            /\ \A g \in ProxiesOf(b, regs) : regs[g].kind = "proxy" /\ regs[g].name = n
         \/ /\ ~options.takeover
            /\ ProxiesOf(b, regs) = {}
            /\ KeyMatches(b, n, regs) # {}

\* A round that nothing disturbed leaves every wanted broker as SM has it; of
\* the proxies it should delete one at least is gone.  (Not all: the shared
\* variable of reconcile_brokers.go:68-70.)
RoundReconciles ==
    (phase = "idle" /\ clean) =>
        /\ \A b \in Brokers : desired[b] # None => Matches(b, desired[b], platform)
        /\ orphans # {} => \E g \in orphans : platform[g] = None
        /\ Cardinality(orphans) <= 1 => \A b \in Brokers : Matches(b, desired[b], platform)

\* Violated: a round that nothing disturbed deletes every proxy that SM does
\* not know.
OrphansDeleted ==
    (phase = "idle" /\ clean) => \A g \in orphans : platform[g] = None

\* Whatever fails or changes meanwhile, a broker never gets a second proxy.
AtMostOneProxy == \A b \in Brokers : Cardinality(ProxiesOf(b, platform)) <= 1

\* Whatever step of a rotation fails, SM accepts the credentials that the
\* platform has for a proxy: the default ones, those put last or those before.
\* (Not those of a broker that was taken over with blank credentials.)
PlatformCanLogIn ==
    \A g \in Guids : IsProxy(platform[g]) =>
        platform[g].cred \in {Default, Own, creds[platform[g].broker].current, creds[platform[g].broker].old}

\* Tasks delete nothing but proxies that were left over when the round began.
DeletesOnlyOrphans ==
    [][task' # task =>
         \A g \in Guids : (platform[g] # None /\ platform'[g] = None) => g \in orphans]_vars

\* Registrations that are not proxies stay as they are, unless brokers may be
\* taken over and name and URL matched those of SM's broker.
ForeignUntouched ==
    [][task' # task =>
         \A g \in Guids : (platform[g] # None /\ ~IsProxy(platform[g]) /\ platform'[g] # platform[g]) =>
            /\ options.takeover
            /\ \E b \in Brokers : g \in KeyMatches(b, desired[b], existing)]_vars

\* Once nothing fails or changes any more the platform comes to match SM,
\* however many proxies were left over.
Converges ==
    <>[][disturbances' = disturbances]_vars =>
        <>[](ctxDone \/ \A b \in Brokers : Matches(b, Wanted(sm[b]), platform))

-----------------------------------------------------------------------------
(* The invariant that AtMostOneProxy, DeletesOnlyOrphans and               *)
(* ForeignUntouched rest on.                                               *)

InRound == phase \notin {"idle", "fetched"}

Unique(regs) ==
    \A g, h \in Guids : /\ IsProxy(regs[g])
                        /\ IsProxy(regs[h])
                        /\ regs[g].broker = regs[h].broker
                        => g = h

\* Between the rounds nothing is left of them.
QuietInv ==
    ~InRound => /\ Running = {}
                /\ loopVar = None
                /\ \A g \in Guids : existing[g] = None

\* What was a proxy at the snapshot is a proxy or gone, and a registration of the
\* snapshot is one of the same broker still: its ID names nothing else.
SnapshotInv ==
    /\ InRound => \A g \in Guids : IsProxy(existing[g]) => platform[g] = None \/ IsProxy(platform[g])
    /\ InRound => \A g \in orphans : IsProxy(existing[g])
    /\ \A g \in Guids : existing[g] # None /\ platform[g] # None => platform[g].broker = existing[g].broker

\* The map and the variable of the second loop hold orphans only.
IndexInv ==
    /\ \A b \in Brokers : index[b] # None =>
         /\ IF b \in todo THEN index[b] \in ProxiesOf(b, existing) ELSE index[b] \in orphans
    /\ \A b \in todo : desired[b] # None /\ task[b].at = "ended"
                         /\ (index[b] = None => ProxiesOf(b, existing) = {})
    /\ phase \notin {"scheduling", "deleting", "blocked"} => \A b \in Brokers : index[b] = None
    /\ loopVar # None => loopVar \in orphans
    /\ (cursor # None \/ \E b \in Brokers : task[b].at = "read") => loopVar # None

\* A broker that a loop has yet to schedule has no task.
LoopInv ==
    /\ \A b \in Brokers : index[b] # None \/ cursor = b => task[b].at = "ended"
    /\ cursor # None => index[cursor] = None

\* A task acts on what the snapshot said about its broker.
Sound(b, t) ==
    /\ t.at \in {"put", "call"} =>
         /\ t.op \in {"create", "update"} => desired[b] # None
         /\ t.op = "create" => ProxiesOf(b, existing) = {}
         /\ t.op = "create" /\ t.at = "call" => t.cred # None
         /\ t.op = "update" =>
              \/ t.guid \in ProxiesOf(b, existing)
              \/ /\ ProxiesOf(b, existing) = {}
                 /\ options.takeover /\ t.guid \in KeyMatches(b, desired[b], existing)
         /\ t.op = "fetch" => t.guid \in ProxiesOf(b, existing)
         /\ t.op = "delete" => t.guid \in orphans
         /\ t.op # "none"
    /\ t.at = "read" => t.op = "delete"

\* A broker that has yet to get its proxy has no other than the snapshot's.
Undone(b) == b \in todo \/ (task[b].op \in {"create", "update"} /\ task[b].at \in {"put", "call"})

TaskInv ==
    \A b \in Brokers :
        /\ Sound(b, task[b])
        /\ InRound /\ Undone(b) => ProxiesOf(b, platform) \subseteq ProxiesOf(b, existing)

\* This much is inductive by itself, even if a broker has two proxies (which the
\* notifications of BrokerHandler may give it).
CoreInv == TypeOK /\ QuietInv /\ SnapshotInv /\ IndexInv /\ LoopInv /\ TaskInv

UniqueInv == Unique(platform) /\ Unique(existing)

IInv == CoreInv /\ UniqueInv

-----------------------------------------------------------------------------
(* The invariant that PlatformCanLogIn rests on, too.                      *)

\* Only proxies have credentials that were generated.
IssuedInv ==
    \A g \in Guids : platform[g] # None /\ ~IsProxy(platform[g]) => platform[g].cred \notin Issued

\* A task hands out nothing but what it has put, and activates it when the
\* proxy has it.
RotationInv ==
    \A b \in Brokers :
        /\ creds[b].active => creds[b].old = None
        /\ task[b].at \in {"put", "call"} => task[b].cred \in {None, Default, creds[b].current}
        /\ task[b].op = "delete" => task[b].at # "put" /\ task[b].cred = None
        /\ task[b].at = "activate" =>
             \A g \in ProxiesOf(b, platform) : platform[g].cred \in {Default, Own, creds[b].current}

LoginInv == IInv /\ IssuedInv /\ RotationInv /\ PlatformCanLogIn

-----------------------------------------------------------------------------
(* The invariant that RoundReconciles rests on, too: how far a round has   *)
(* come that nothing has disturbed.                                        *)

\* The registrations of broker b are those of the snapshot.
Untouched(b) ==
    \A g \in Guids :
        (platform[g] # None /\ platform[g].broker = b) \/ (existing[g] # None /\ existing[g].broker = b)
            => platform[g] = existing[g]

WantedInv ==
    \A b \in Brokers : desired[b] # None =>
        IF Undone(b) THEN Untouched(b) ELSE Matches(b, desired[b], platform)

\* No other proxies than the orphans are left over, and only those are deleted.
UnwantedInv ==
    /\ \A b \in Brokers : desired[b] = None => ProxiesOf(b, platform) \subseteq orphans
    /\ \A g \in orphans : desired[existing[g].broker] = None
    /\ \A b \in Brokers : index[b] # None => b \in todo \/ desired[b] = None
    /\ cursor # None => desired[cursor] = None

\* One of the orphans is gone, or a deletion is to come.
DeletionInv ==
    orphans # {} =>
        \/ \E b \in Brokers : desired[b] = None /\ index[b] # None
        \/ cursor # None
        \/ \E b \in Brokers : task[b].op = "delete" /\ task[b].at \in {"read", "call"}
        \/ \E g \in orphans : platform[g] = None

ProgressInv ==
    /\ LoginInv
    /\ clean /\ InRound => WantedInv /\ UnwantedInv /\ DeletionInv
    /\ RoundReconciles
=============================================================================
