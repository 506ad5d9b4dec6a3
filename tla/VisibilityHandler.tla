-------------------------- MODULE VisibilityHandler --------------------------
(***************************************************************************)
(* Notifications about visibilities (pkg/sbproxy/notifications/handlers/   *)
(* visibilities_handler.go) next to the resyncs of VisibilityReconcile,    *)
(* and those about brokers as far as the plans of a broker are reachable   *)
(* only while it has a proxy (BrokerHandler has their details).  One       *)
(* goroutine takes the notifications and runs the resyncs; a notification  *)
(* that meets no proxy runs a resync of the brokers itself.                *)
(***************************************************************************)
EXTENDS VisibilityReconcile, Sequences

CONSTANTS
    Patches,    \* what is added to and removed from labels at once
    MaxQueued   \* bound: notifications that wait

\* LabelChangesToLabels, of the changes to add or of those to remove: whether there
\* is any key among them, and the values under the key that the platform's scopes
\* have.  A label that is dropped as a whole counts, without values.
Labels == {l \in [some : BOOLEAN, scopes : SUBSET Scopes] : l.scopes # {} => l.some}
NoLabels == [some |-> FALSE, scopes |-> {}]
Patch == [add : Labels, remove : Labels]
NoPatch == [add |-> NoLabels, remove |-> NoLabels]

ASSUME QueueAssumption == MaxQueued \in Nat
ASSUME PatchAssumption == Patches \subseteq Patch /\ NoPatch \in Patches

VARIABLES
    queue,
    used,       \* the IDs that SM has ever given to a broker
    job,        \* the next call for a notification about a visibility
    \* history
    intact      \* no change was lost since SM was last read for a full resync

handlerVars == <<queue, used, job, intact>>
allVars == <<vars, handlerVars>>

\* plain: the handler does for this change what a resync would do (see Plain).
Note ==
    [kind : {"brokerUp", "brokerDown"}, broker : Brokers]
    \cup [kind : {"create", "update", "delete"},
          old : Visibility \cup {None}, new : Visibility \cup {None},
          patch : Patch, plain : BOOLEAN]

\* since: how many disturbances there were when the first call failed.
Job ==
    [note : Note,
     at : {"disableOld", "enableNew", "enableAdded", "disableRemoved", "resync", "resyncing", "retry"},
     since : 0..MaxDisturbances]
NoJob == None

ASSUME JobAssumption == NoJob \notin Job

At(step) == job # NoJob /\ job.at = step

HandlerTypeOK ==
    /\ VisTypeOK
    /\ queue \in Seq(Note) /\ Len(queue) <= MaxQueued
    /\ used \subseteq Brokers
    /\ job \in Job \cup {NoJob}
    /\ (job # NoJob /\ phase # "idle") => (At("resyncing") /\ ~full)
    /\ intact \in BOOLEAN

HandlerInit ==
    /\ Init
    /\ queue = <<>>
    /\ used = known \cup registered
    /\ job = NoJob
    /\ intact = FALSE

-----------------------------------------------------------------------------
(* SM changes and says so.                                                 *)

Announce(note) ==
    /\ Len(queue) < MaxQueued
    /\ queue' = Append(queue, note)
    /\ UNCHANGED <<job, intact>>

\* What the handler disables for a change; the scopes that a visibility loses as
\* it moves to another plan are disabled for the new plan too.
Ends(old, new) ==
    IF old = None THEN {}
    ELSE IF new = None THEN GrantsOf(old)
    ELSE (GrantsOf(old) \cup ({new.plan} \X (old.scopes \ new.scopes))) \ GrantsOf(new)

\* Changes that the handler carries out in full.  Not so: a visibility for any
\* platform that has scopes all the same (the handler goes by them, a resync does
\* not); one that becomes public or ceases to be, an update of a public one (it is
\* enabled and then disabled), a move to another broker's plan, and access that
\* ends here while another visibility grants the same.
CarriedOut(old, new) ==
    /\ \A u \in {old, new} \ {None} : ~u.bound => u.scopes = {}
    /\ (old # None /\ new # None) =>
         /\ new.bound
         /\ BrokerOf[old.plan] = BrokerOf[new.plan]
         /\ old.plan = new.plan => ((old.scopes = {}) <=> (new.scopes = {}))

\* A patch that says no more and no less than what becomes of the scopes.  Not
\* so: one of another key, of a label as a whole, or of one scope twice.
Of(scopes) == [some |-> scopes # {}, scopes |-> scopes]
Exact(old, new, patch) ==
    (old # None /\ new # None) =>
        patch = [add |-> Of(new.scopes \ old.scopes), remove |-> Of(old.scopes \ new.scopes)]

Plain(v, new, patch) ==
    /\ CarriedOut(sm[v], new)
    /\ Exact(sm[v], new, patch)
    /\ \A w \in Visibilities \ {v} : sm[w] # None => GrantsOf(sm[w]) \cap Ends(sm[v], new) = {}

Kind(v, new) == IF sm[v] = None THEN "create" ELSE IF new = None THEN "delete" ELSE "update"

\* What SM makes of the scopes: its changes are made one after the other, one may
\* undo another, and one that drops the scopes' label takes all values with it.
Leads(old, patch, new) ==
    LET A == patch.add.scopes
        R == patch.remove.scopes
    IN
    /\ new \subseteq old \cup A /\ R \cap new \subseteq A
    /\ (old \cup A) \ R \subseteq new \/ (patch.remove.some /\ new \subseteq A)

\* A notification says which labels the user of SM changed, and to what.
Notifies(v, new, patch) ==
    /\ IF sm[v] # None /\ new # None THEN Leads(sm[v].scopes, patch, new.scopes)
       ELSE patch = NoPatch
    /\ Announce([kind |-> Kind(v, new), old |-> sm[v], new |-> new,
                 patch |-> patch, plain |-> Plain(v, new, patch)])

SMAnnounces(v, new, patch) ==
    /\ SMChanges(v, new)
    /\ Notifies(v, new, patch)
    /\ UNCHANGED used

\* A visibility is updated, but not its plan, platform or scopes; its labels of
\* other keys may be, and scopes that go may come back at once.
SMRefreshes(v, patch) ==
    /\ sm[v] # None
    /\ Changed
    /\ Notifies(v, sm[v], patch)
    /\ UNCHANGED <<smVars, platformVars, steady, used>>

BrokerAnnounced(b) ==
    \/ /\ b \notin used
       /\ SMAddsBroker(b)
       /\ Announce([kind |-> "brokerUp", broker |-> b])
       /\ used' = used \cup {b}
    \/ /\ SMDropsBroker(b)
       /\ Announce([kind |-> "brokerDown", broker |-> b])
       /\ UNCHANGED used

Operators ==
    /\ (\E g \in Grants : OperatorChanges(g)) \/ (\E b \in Brokers : OperatorRegisters(b))
    /\ intact' = FALSE
    /\ UNCHANGED <<queue, used, job>>

-----------------------------------------------------------------------------
(* The goroutine of the reconciler.                                        *)

\* A full resync: what waits is older than what it reads, or dropped.
ResyncBegins ==
    /\ job = NoJob
    /\ BeginResync(TRUE)
    /\ \E first \in 1..Len(queue) + 1 : queue' = SubSeq(queue, first, Len(queue))
    /\ intact' = TRUE
    /\ UNCHANGED <<used, job>>

\* Once it has begun; a failed call may lose a change.
ResyncGoesOn ==
    /\ Round
    /\ intact' = (intact /\ disturbances' = disturbances)
    /\ UNCHANGED <<queue, used, job>>

\* Mutant: a notification is taken although a resync runs.
Take_DuringResync(kind) ==
    /\ job = NoJob
    /\ queue # <<>> /\ Head(queue).kind = kind
    /\ queue' = Tail(queue)
    /\ UNCHANGED <<smVars, chunkSize, full, phase, wanted, plans, chunkVars, steady, used>>

Take(kind) ==
    /\ phase = "idle" /\ job = NoJob
    /\ queue # <<>> /\ Head(queue).kind = kind
    /\ queue' = Tail(queue)
    /\ UNCHANGED <<smVars, chunkSize, full, phase, wanted, plans, chunkVars, steady, used>>

\* A notification about a broker: its proxy is created or deleted.  None is created
\* for one that the platform keeps under its own name and URL.
BrokerNoted ==
    LET b == Head(queue).broker IN
    /\ \/ Take("brokerUp") /\ RegistrationsBecome(IF b \in Blacklisted \cup kept THEN registered ELSE registered \cup {b})
       \/ Take("brokerDown") /\ RegistrationsBecome(IF b \in Blacklisted THEN registered ELSE registered \ {b})
    /\ clean' = FALSE
    /\ UNCHANGED <<disturbances, job, intact>>

\* A call fails, or the platform has a broker of that name with another URL.
BrokerMissed ==
    /\ Take("brokerUp") \/ Take("brokerDown")
    /\ Disturbance
    /\ intact' = FALSE
    /\ UNCHANGED <<platformVars, job>>

\* What a request with these labels is about.  Assumed of the platform: it goes by
\* the values under its scopes' key, and a request without any is for everybody.
Asked(p, scopes) == IF scopes = {} THEN {<<p, Public>>} ELSE {<<p, s>> : s \in scopes}

Enabled(p, scopes) == access' = access \cup Asked(p, scopes)
Disabled(p, scopes) == access' = access \ Asked(p, scopes)

\* The platform finds plan p among those of the proxy that was named.
Reachable(p, b) == BrokerOf[p] = b /\ b \in registered

Succeeds(p, b, Effect) ==
    /\ Reachable(p, b)
    /\ Effect
    /\ UNCHANGED disturbances

\* No such broker or plan; or the call fails, and may have had its effect.
NotFound(p, b) ==
    /\ ~Reachable(p, b)
    /\ UNCHANGED <<access, disturbances, intact>>

Breaks(p, b, Effect) ==
    /\ Reachable(p, b)
    /\ Effect \/ UNCHANGED access
    /\ disturbances < MaxDisturbances
    /\ disturbances' = disturbances + 1
    /\ intact' = FALSE

\* The broker that a notification names: the one of the visibility as it was.
PlanOf(note) == IF note.old = None THEN note.new.plan ELSE note.old.plan
NamedBroker(note) == BrokerOf[PlanOf(note)]

Unnamed(kind) ==
    /\ Take(kind)
    /\ NamedBroker(Head(queue)) \in Blacklisted
    /\ clean' = FALSE
    /\ intact' = (intact /\ Head(queue).plain)
    /\ UNCHANGED <<platformVars, disturbances, job>>

Named(kind) ==
    /\ Take(kind)
    /\ NamedBroker(Head(queue)) \notin Blacklisted
    /\ clean' = FALSE
    /\ UNCHANGED <<registered, kept>>

Proceed(note, step) == job' = [note |-> note, at |-> step, since |-> disturbances']
GiveUp == job' = NoJob

\* Mutant: access is tried again without the resync.
OnCreate_RetriesAtOnce ==
    LET note == Head(queue)
        p == note.new.plan
        b == NamedBroker(note)
        s == note.new.scopes
    IN
    \/ Unnamed("create")
    \/ /\ Named("create")
       /\ Succeeds(p, b, Enabled(p, s))
       /\ GiveUp
       /\ intact' = (intact /\ note.plain)
    \/ /\ Named("create")
       /\ NotFound(p, b) \/ Breaks(p, b, Enabled(p, s))
       /\ \/ GiveUp
          \/ Proceed(note, "retry")

\* Access is enabled.  If that fails and GetBrokerByName fails too, a resync of
\* the brokers is to help.  The latter may fail although there is a proxy, and it
\* may find none without an error, which ends the handler.
OnCreate ==
    LET note == Head(queue)
        p == note.new.plan
        b == NamedBroker(note)
        s == note.new.scopes
    IN
    \/ Unnamed("create")
    \/ /\ Named("create")
       /\ Succeeds(p, b, Enabled(p, s))
       /\ GiveUp
       /\ intact' = (intact /\ note.plain)
    \/ /\ Named("create")
       /\ NotFound(p, b) \/ Breaks(p, b, Enabled(p, s))
       /\ \/ GiveUp
          \/ Proceed(note, "resync")

\* Mutant: the scopes that were removed are not disabled.
OnUpdate_OnlyAdds ==
    LET note == Head(queue) IN
    \/ Unnamed("update")
    \/ /\ Named("update")
       /\ UNCHANGED <<access, disturbances>>
       /\ Proceed([note EXCEPT !.patch = [note.patch EXCEPT !.remove = NoLabels]],
                  IF note.old.plan # note.new.plan THEN "disableOld" ELSE "enableAdded")
       /\ intact' = (intact /\ note.plain)

OnUpdate ==
    LET note == Head(queue) IN
    \/ Unnamed("update")
    \/ /\ Named("update")
       /\ UNCHANGED <<access, disturbances>>
       /\ Proceed(note, IF note.old.plan # note.new.plan THEN "disableOld" ELSE "enableAdded")
       /\ intact' = (intact /\ note.plain)

OnDelete ==
    LET note == Head(queue)
        p == note.old.plan
        b == NamedBroker(note)
        s == note.old.scopes
    IN
    \/ Unnamed("delete")
    \/ /\ Named("delete")
       /\ \/ Succeeds(p, b, Disabled(p, s)) /\ intact' = (intact /\ note.plain)
          \/ NotFound(p, b)
          \/ Breaks(p, b, Disabled(p, s))
       /\ GiveUp

Calling(step) ==
    /\ phase = "idle" /\ At(step)
    /\ UNCHANGED <<smVars, registered, kept, chunkSize, full, phase, wanted, plans, chunkVars, history, queue, used>>

\* The visibility moved to another plan: first its old access ends, then it gets
\* the new one, looked for at the old broker; an error ends the handler.
DisableOld ==
    LET note == job.note
        p == note.old.plan
        b == NamedBroker(note)
    IN
    /\ Calling("disableOld")
    /\ \/ Succeeds(p, b, Disabled(p, note.old.scopes)) /\ Proceed(note, "enableNew") /\ UNCHANGED intact
       \/ NotFound(p, b) /\ GiveUp
       \/ Breaks(p, b, Disabled(p, note.old.scopes)) /\ GiveUp

EnableNew ==
    LET note == job.note
        p == note.new.plan
        b == NamedBroker(note)
    IN
    /\ Calling("enableNew")
    /\ \/ Succeeds(p, b, Enabled(p, note.new.scopes)) /\ Proceed(note, "enableAdded") /\ UNCHANGED intact
       \/ NotFound(p, b) /\ GiveUp
       \/ Breaks(p, b, Enabled(p, note.new.scopes)) /\ GiveUp

\* Labels for our platform's visibilities, no labels for anybody's.
Applies(labels, v) == ~labels.some <=> ~v.bound

\* enableServiceAccess, and go on in any case.
EnableAdded ==
    LET note == job.note
        p == note.new.plan
        b == NamedBroker(note)
        added == note.patch.add
    IN
    /\ Calling("enableAdded")
    /\ \/ ~Applies(added, note.new) /\ UNCHANGED <<access, disturbances, intact>>
       \/ /\ Applies(added, note.new)
          /\ \/ Succeeds(p, b, Enabled(p, added.scopes)) /\ UNCHANGED intact
             \/ NotFound(p, b)
             \/ Breaks(p, b, Enabled(p, added.scopes))
    /\ Proceed(note, "disableRemoved")

\* disableServiceAccess.
DisableRemoved ==
    LET note == job.note
        p == note.new.plan
        b == NamedBroker(note)
        removed == note.patch.remove
    IN
    /\ Calling("disableRemoved")
    /\ \/ ~Applies(removed, note.new) /\ UNCHANGED <<access, disturbances, intact>>
       \/ /\ Applies(removed, note.new)
          /\ \/ Succeeds(p, b, Disabled(p, removed.scopes)) /\ UNCHANGED intact
             \/ NotFound(p, b)
             \/ Breaks(p, b, Disabled(p, removed.scopes))
    /\ GiveUp

\* Resync(ctx, false).
ResyncBrokers ==
    /\ At("resync")
    /\ BeginResync(FALSE)
    /\ job' = [job EXCEPT !.at = "resyncing"]
    /\ UNCHANGED <<queue, used, intact>>

ResyncReturns ==
    /\ phase = "idle" /\ At("resyncing")
    /\ job' = [job EXCEPT !.at = "retry"]
    /\ UNCHANGED <<vars, queue, used, intact>>

EnableAgain ==
    LET note == job.note
        p == note.new.plan
        b == NamedBroker(note)
        s == note.new.scopes
    IN
    /\ Calling("retry")
    /\ \/ Succeeds(p, b, Enabled(p, s)) /\ UNCHANGED intact
       \/ NotFound(p, b)
       \/ Breaks(p, b, Enabled(p, s))
    /\ GiveUp

HandlerNext ==
    \/ \E v \in Visibilities, new \in Shapes \cup {None}, patch \in Patches : SMAnnounces(v, new, patch)
    \/ \E v \in Visibilities, patch \in Patches : SMRefreshes(v, patch)
    \/ \E b \in Brokers : BrokerAnnounced(b)
    \/ Operators
    \/ ResyncBegins \/ ResyncGoesOn
    \/ BrokerNoted \/ BrokerMissed
    \/ OnCreate \/ OnUpdate \/ OnDelete
    \/ DisableOld \/ EnableNew \/ EnableAdded \/ DisableRemoved
    \/ ResyncBrokers \/ ResyncReturns \/ EnableAgain

HandlerSpec == HandlerInit /\ [][HandlerNext]_allVars

-----------------------------------------------------------------------------
\* When a full resync and all notifications since have been handled, and none of
\* them was of the kinds that the handler does not carry out in full, the access
\* is what SM grants, although some changes were read by the resync and then
\* carried out again, and although notifications of brokers and of visibilities
\* depend on each other.  Brokers without a proxy because the platform keeps them
\* change nothing for the others.
VisCaughtUp ==
    (phase = "idle" /\ job = NoJob /\ queue = <<>> /\ intact) => Settled(Served(WantedBrokers))

\* Once the handler of a notification that met no proxy has asked for a resync, the
\* resync registers the broker, unless the platform keeps it under its own name,
\* and the access is enabled then.
HealedByResync ==
    [][At("retry") /\ job' = NoJob /\ disturbances' = job.since /\ NamedBroker(job.note) \in Served(WantedBrokers) =>
         Asked(job.note.new.plan, job.note.new.scopes) \subseteq access']_allVars

-----------------------------------------------------------------------------
(* The invariant that HealedByResync rests on.                             *)

\* What a notification says of a visibility as it was and as it is.
Shaped(note) ==
    note.kind \in {"create", "update", "delete"} =>
        /\ (note.old = None) <=> (note.kind = "create")
        /\ (note.new = None) <=> (note.kind = "delete")

\* A handler goes on with an update, or tries a creation again.
JobInv ==
    /\ \A i \in 1..Len(queue) : Shaped(queue[i])
    /\ job # NoJob =>
         /\ Shaped(job.note)
         /\ job.note.kind = IF job.at \in {"resync", "resyncing", "retry"} THEN "create" ELSE "update"
         /\ job.since <= disturbances

\* The resync of a handler has brought every wanted broker its proxy, if it may have
\* one and nothing has failed or changed since the handler asked for it.
HealInv ==
    /\ ~full => phase \in {"idle", "plans", "brokers"}
    /\ job # NoJob /\ job.since = disturbances =>
         /\ At("resyncing") /\ phase # "idle" => wanted = WantedBrokers
         /\ At("retry") \/ (At("resyncing") /\ phase = "idle") => Served(WantedBrokers) \subseteq registered

HandlerInv == HandlerTypeOK /\ SteadyInv /\ JobInv /\ HealInv

-----------------------------------------------------------------------------
(* The invariant that VisCaughtUp rests on: what SM grants is what the     *)
(* platform has, but for what the queue and the job still say.             *)

Begins(old, new) ==
    IF new = None THEN {} ELSE GrantsOf(new) \ (IF old = None THEN {} ELSE GrantsOf(old))

\* The grants that a notification says something about, and the brokers.
OfBroker(note) == note.kind \in {"brokerUp", "brokerDown"}
Says(note) == IF OfBroker(note) THEN {} ELSE Begins(note.old, note.new) \cup Ends(note.old, note.new)
Concerned(note) ==
    IF OfBroker(note) THEN {note.broker} ELSE {BrokerOf[u.plan] : u \in {note.old, note.new} \ {None}}

Silent(g, from) == \A i \in from..Len(queue) : g \notin Says(queue[i])

SMGrants(g) == g \in GrantedBy(Plans)
Agreed(g) == g \in access <=> SMGrants(g)

\* SM adds a broker once and says so before all else about it.
UsedInv ==
    /\ known \cup registered \cup wanted \subseteq used
    /\ \A i \in 1..Len(queue) :
         /\ Concerned(queue[i]) \subseteq used
         /\ queue[i].kind = "brokerDown" => queue[i].broker \notin known
    /\ job # NoJob => Concerned(job.note) \subseteq used

\* A broker that lacks its proxy is to be announced, and nothing about it before that.
Arriving(b, i) ==
    /\ queue[i].kind = "brokerUp" /\ queue[i].broker = b
    /\ \A j \in 1..i - 1 : b \notin Concerned(queue[j])
    /\ job # NoJob => b \notin Concerned(job.note)

AwaitingProxies == IF full /\ phase \in {"plans", "brokers"} THEN wanted ELSE {}
ArrivalInv ==
    intact => \A b \in Served(WantedBrokers) \ (registered \cup AwaitingProxies) : \E i \in 1..Len(queue) : Arriving(b, i)

\* The last that is said of a grant is true, unless its broker is gone.
ToldTruly(note, g) ==
    (g \in Says(note) /\ BrokerOf[g[1]] \in known) => (SMGrants(g) <=> g \in Begins(note.old, note.new))

TrueNews(note, after) ==
    /\ CarriedOut(note.old, note.new)
    /\ Exact(note.old, note.new, note.patch)
    /\ \A g \in Grants : Silent(g, after) => ToldTruly(note, g)

NewsInv == \A i \in 1..Len(queue) : (~OfBroker(queue[i]) /\ queue[i].plain) => TrueNews(queue[i], i + 1)

\* What a job has still to enable or to disable.
ScopesThat(note, change) == {note.new.plan} \X change
LeftOf(note, step) ==
    CASE step = "enableNew" -> GrantsOf(note.new) \cup ScopesThat(note, note.old.scopes \ note.new.scopes)
      [] step = "enableAdded" -> ScopesThat(note, (note.new.scopes \ note.old.scopes) \cup (note.old.scopes \ note.new.scopes))
      [] step = "disableRemoved" -> ScopesThat(note, note.old.scopes \ note.new.scopes)
      [] OTHER -> Says(note)
Left == IF job = NoJob THEN {} ELSE LeftOf(job.note, job.at)

\* An update that is not plain has lost its change already; a creation is tried
\* again in vain, as SM has dropped the broker or the platform keeps it.
DutyInv ==
    (job # NoJob /\ intact) =>
        IF job.note.kind = "create" THEN NamedBroker(job.note) \notin Served(known)
        ELSE /\ TrueNews(job.note, 1)
             /\ job.at \in {"disableOld", "enableNew"} => job.note.old.plan # job.note.new.plan

\* What holds of a round whatever is announced meanwhile: brokers come and go,
\* but none comes back.
ReadInv ==
    /\ phase # "idle" => registered \cap WantedBrokers \subseteq wanted
    /\ phase \notin {"idle", "plans"} => PlansOf(wanted \cap known) \subseteq plans
    /\ phase \in {"idle", "plans", "brokers"} \/ (InChunk /\ chunkSize = 0) => rest = {}
    /\ phase = "creating" => deleting = {}
    /\ phase \in {"deleting", "creating"} => creating \subseteq granted
    /\ intact /\ full /\ phase \in {"fetch", "compare", "deleting"} => ~failed
    /\ intact /\ full /\ (InChunk \/ phase = "chunk") => Served(wanted) \subseteq registered

\* The brokers whose access a full resync has yet to settle.
Unsettled ==
    IF ~full \/ phase = "idle" THEN {}
    ELSE IF phase \in {"plans", "brokers"} THEN wanted
    ELSE rest \cup UnderWay

AgreementInv ==
    intact => \A g \in Grants :
        (BrokerOf[g[1]] \in Served(WantedBrokers \ Unsettled) /\ Silent(g, 1) /\ g \notin Left) => Agreed(g)

\* The calls of the chunk that is under way are all that it takes.
ChunkInv ==
    intact => \A g \in Grants :
        (BrokerOf[g[1]] \in Served(WantedBrokers \cap UnderWay) /\ Silent(g, 1)) =>
            /\ phase \in {"compare", "deleting", "creating"} => (g \in granted <=> SMGrants(g))
            /\ phase \in {"deleting", "creating"} => (g \in granted \ access => g \in creating)
            /\ phase = "deleting" => (g \in deleting => g \notin granted) /\ (g \in access \ granted => g \in deleting)
            /\ phase = "creating" => (g \in access => g \in granted)

OrderInv ==
    /\ HandlerInv
    /\ UsedInv /\ ArrivalInv
    /\ NewsInv /\ DutyInv
    /\ ReadInv /\ AgreementInv /\ ChunkInv
=============================================================================
