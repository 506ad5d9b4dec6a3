------------------------- MODULE VisibilityReconcile -------------------------
(***************************************************************************)
(* The visibilities' half of a resync (pkg/sbproxy/reconcile: resyncer.go, *)
(* reconcile_visibilities.go).  SM's brokers are read, then its plans;     *)
(* the proxies are reconciled; then, for all brokers at once or for one    *)
(* chunk of them after the other, SM's visibilities are read, the          *)
(* platform's are read, and the difference is disabled and enabled.  SM    *)
(* and the platform may change between any two of these reads.             *)
(*                                                                         *)
(* A grant <<p, s>> gives the platform's scope s, or everybody, access to  *)
(* plan p.  Names of brokers and catalog IDs stand for brokers and plans:  *)
(* that a broker is renamed under way is left out.  The calls of one loop  *)
(* run in parallel; each is one step here, taken in any order.             *)
(***************************************************************************)
EXTENDS Integers, FiniteSets

CONSTANTS
    Brokers, Blacklisted,   \* the brokers of SM, and those to leave alone
    Plans, BrokerOf,        \* the plans of SM's catalog
    Scopes, Public,         \* whom the platform gives access
    Visibilities,           \* IDs of visibilities
    None,
    Shapes,                 \* the visibilities that SM may have
    ChunkSizes,             \* settings: VisibilityBrokerChunkSize
    MaxDisturbances         \* bound: changes by users and failed calls

Grants == Plans \X (Scopes \cup {Public})

\* The platform a visibility is for is ours or, when it is not bound, any.
Visibility == [plan : Plans, bound : BOOLEAN, scopes : SUBSET Scopes]

ASSUME BrokersAssumption == IsFiniteSet(Brokers)
ASSUME CatalogAssumption == BrokerOf \in [Plans -> Brokers] /\ Blacklisted \subseteq Brokers
ASSUME ScopeAssumption == Public \notin Scopes
ASSUME ShapesAssumption == Shapes \subseteq Visibility /\ None \notin Visibility
ASSUME SizesAssumption == ChunkSizes \subseteq Nat /\ MaxDisturbances \in Nat

VARIABLES
    \* SM
    known,      \* its brokers
    sm,         \* its visibilities
    \* the platform
    registered, \* the brokers it has proxies of
    access,     \* the grants it has
    kept,       \* the brokers that it has under their own names and URLs, too,
                \* while TakeoverEnabled is false: those are not taken over
    disturbances,
    \* the round
    chunkSize,
    full,       \* resyncVisibilities
    phase,
    wanted,     \* the snapshot of SM's brokers
    plans,      \* the snapshot of its plans
    rest,       \* the brokers of later chunks
    chunk,
    granted,    \* the chunk's visibilities in SM, converted
    doubled,    \* those of them that two visibilities grant
    deleting, creating,     \* the calls that are left
    failed,     \* whether one of them failed
    \* history
    steady,     \* what SM has granted ever since the round began
    clean       \* nothing failed or changed since then

smVars == <<known, sm>>
platformVars == <<registered, access, kept>>
chunkVars == <<rest, chunk, granted, doubled, deleting, creating, failed>>
history == <<steady, clean>>
vars == <<smVars, platformVars, disturbances, chunkSize, full, phase, wanted, plans, chunkVars, history>>

\* convertSMVisibility: without a platform or scopes it is public.
GrantsOf(v) ==
    IF ~v.bound \/ v.scopes = {} THEN {<<v.plan, Public>>}
    ELSE {<<v.plan, s>> : s \in v.scopes}

GrantedBy(some) == UNION {GrantsOf(sm[v]) : v \in {v \in Visibilities : sm[v] # None /\ sm[v].plan \in some}}

\* Two visibilities of SM grant the same.
Twice(g) ==
    \E v, w \in Visibilities :
        /\ v # w /\ sm[v] # None /\ sm[w] # None
        /\ g \in GrantsOf(sm[v]) \cap GrantsOf(sm[w])

PlansOf(brokers) == {p \in Plans : BrokerOf[p] \in brokers}
Restricted(grants, brokers) == {g \in grants : BrokerOf[g[1]] \in brokers}

WantedBrokers == known \ Blacklisted

\* Those of them that get a proxy or have it.  One that the platform keeps under
\* its own name and URL gets none (resyncNotTakenOverBroker).
Served(brokers) == brokers \ (kept \ registered)

\* The plans of these brokers are accessible to whom SM grants them.
Settled(brokers) == Restricted(access, brokers) = GrantedBy(PlansOf(brokers))

VisTypeOK ==
    /\ known \subseteq Brokers
    /\ sm \in [Visibilities -> Visibility \cup {None}]
    /\ registered \subseteq Brokers
    /\ access \subseteq Grants
    /\ kept \subseteq Brokers
    /\ disturbances \in 0..MaxDisturbances
    /\ chunkSize \in ChunkSizes
    /\ full \in BOOLEAN
    /\ phase \in {"idle", "plans", "brokers", "chunk", "fetch", "compare", "deleting", "creating"}
    /\ wanted \subseteq Brokers
    /\ plans \subseteq Plans
    /\ rest \subseteq wanted
    /\ chunk \subseteq wanted /\ rest \cap chunk = {}
    /\ phase \in {"plans", "brokers"} => chunk = {}
    /\ granted \subseteq Grants
    /\ doubled \subseteq granted
    /\ deleting \subseteq Grants
    /\ creating \subseteq Grants
    /\ failed \in BOOLEAN
    /\ steady \subseteq Grants
    /\ clean \in BOOLEAN

\* SM deletes a broker's visibilities with the broker; so does the platform.
Consistent(k, s, r, a) ==
    /\ \A v \in Visibilities : s[v] # None => BrokerOf[s[v].plan] \in k
    /\ \A g \in a : BrokerOf[g[1]] \in r

Init ==
    /\ known \in SUBSET Brokers
    /\ sm \in [Visibilities -> Shapes \cup {None}]
    /\ registered \in SUBSET Brokers
    /\ access \in SUBSET Grants
    /\ kept \in SUBSET Brokers
    /\ Consistent(known, sm, registered, access)
    /\ disturbances = 0
    /\ chunkSize \in ChunkSizes
    /\ full = FALSE
    /\ phase = "idle"
    /\ wanted = {} /\ plans = {} /\ rest = {} /\ chunk = {}
    /\ granted = {} /\ doubled = {} /\ deleting = {} /\ creating = {}
    /\ failed = FALSE
    /\ steady = {} /\ clean = FALSE

-----------------------------------------------------------------------------
(* Users of SM and of the platform.                                        *)

Disturbance ==
    /\ disturbances < MaxDisturbances
    /\ disturbances' = disturbances + 1
    /\ clean' = FALSE

Changed ==
    /\ Disturbance
    /\ UNCHANGED <<chunkSize, full, phase, wanted, plans, chunkVars>>

\* Visibility v is created, changed or deleted.
SMChanges(v, new) ==
    /\ Changed
    /\ new # sm[v]
    /\ new # None => BrokerOf[new.plan] \in known
    /\ sm' = [sm EXCEPT ![v] = new]
    /\ steady' = steady \cap (GrantedBy(Plans))'
    /\ UNCHANGED <<known, platformVars>>

SMAddsBroker(b) ==
    /\ Changed
    /\ b \notin known
    /\ known' = known \cup {b}
    /\ UNCHANGED <<sm, steady, platformVars>>

SMDropsBroker(b) ==
    /\ Changed
    /\ b \in known
    /\ known' = known \ {b}
    /\ sm' = [v \in Visibilities |->
                IF sm[v] # None /\ BrokerOf[sm[v].plan] = b THEN None ELSE sm[v]]
    /\ steady' = steady \cap (GrantedBy(Plans))'
    /\ UNCHANGED platformVars

OperatorChanges(g) ==
    /\ Changed
    /\ BrokerOf[g[1]] \in registered
    /\ access' = IF g \in access THEN access \ {g} ELSE access \cup {g}
    /\ UNCHANGED <<smVars, registered, kept, steady>>

\* A registration of the broker's own name and URL comes or goes.
OperatorRegisters(b) ==
    /\ Changed
    /\ kept' = IF b \in kept THEN kept \ {b} ELSE kept \cup {b}
    /\ UNCHANGED <<smVars, registered, access, steady>>

-----------------------------------------------------------------------------
(* Resync, process.                                                        *)

\* SM's brokers are read; those of the blacklist are left out.
BeginResync(visibilities) ==
    /\ phase = "idle"
    /\ phase' = "plans"
    /\ full' = visibilities
    /\ wanted' = WantedBrokers
    /\ plans' = {} /\ rest' = {} /\ chunk' = {}
    /\ granted' = {} /\ doubled' = {} /\ deleting' = {} /\ creating' = {}
    /\ failed' = FALSE
    /\ steady' = GrantedBy(PlansOf(WantedBrokers))
    /\ clean' = TRUE
    /\ UNCHANGED <<smVars, platformVars, disturbances, chunkSize>>

\* Its offerings and plans are read; those of brokers that were not are left out.
FetchPlans ==
    /\ phase = "plans"
    /\ phase' = "brokers"
    /\ plans' = PlansOf(wanted \cap known)
    /\ UNCHANGED <<smVars, platformVars, disturbances, chunkSize, full, wanted, chunkVars, history>>

\* One of these calls or the read of the registrations fails: no round.
FetchFails ==
    /\ phase \in {"plans", "brokers"}
    /\ phase' = "idle"
    /\ Disturbance
    /\ UNCHANGED <<smVars, platformVars, chunkSize, full, wanted, plans, chunkVars, steady>>

RegistrationsBecome(r) ==
    /\ registered' = r
    /\ access' = Restricted(access, r)
    /\ UNCHANGED kept

\* reconcileBrokers, of which the module BrokerReconcile has the details: of the
\* wanted brokers those get proxies that may have them, and of the other proxies
\* some are deleted.  For a broker that is kept nothing is called and nothing fails.
ReconcileBrokers ==
    /\ phase = "brokers"
    /\ phase' = IF full THEN "chunk" ELSE "idle"
    /\ \E left \in SUBSET (registered \ wanted) :
        \/ /\ RegistrationsBecome(Served(wanted) \cup left)
           /\ UNCHANGED <<disturbances, clean>>
        \/ \E missing \in SUBSET (Served(wanted) \ registered) :
             /\ missing # {}
             /\ RegistrationsBecome((Served(wanted) \ missing) \cup left)
             /\ Disturbance
    /\ rest' = IF full THEN wanted ELSE {}
    /\ UNCHANGED <<smVars, chunkSize, full, wanted, plans, chunk, granted, doubled, deleting, creating, failed, steady>>

-----------------------------------------------------------------------------
(* reconcileVisibilities.                                                  *)

\* Mutant: the brokers after the first chunk are left out.
NextChunk_DropsRest ==
    /\ phase = "chunk"
    /\ \E c \in SUBSET rest :
        /\ chunkSize = 0 => c = rest
        /\ chunkSize # 0 => Cardinality(c) = IF Cardinality(rest) < chunkSize THEN Cardinality(rest) ELSE chunkSize
        /\ chunk' = c
        /\ phase' = IF chunkSize # 0 /\ c = {} THEN "idle" ELSE "fetch"
    /\ rest' = {}
    /\ failed' = FALSE
    /\ UNCHANGED <<smVars, platformVars, disturbances, chunkSize, full, wanted, plans, granted, doubled, deleting, creating, history>>

\* Mutant: the next chunk begins with the last broker of this one.
NextChunk_Overlaps ==
    /\ phase = "chunk"
    /\ \E c \in SUBSET rest :
        /\ chunkSize = 0 => c = rest
        /\ chunkSize # 0 => Cardinality(c) = IF Cardinality(rest) < chunkSize THEN Cardinality(rest) ELSE chunkSize
        /\ chunk' = c
        /\ phase' = IF chunkSize # 0 /\ c = {} THEN "idle" ELSE "fetch"
    /\ UNCHANGED rest
    /\ failed' = FALSE
    /\ UNCHANGED <<smVars, platformVars, disturbances, chunkSize, full, wanted, plans, granted, doubled, deleting, creating, history>>

\* getBrokerChunks: as many brokers as fit, in SM's order, which may be any.
NextChunk ==
    /\ phase = "chunk"
    /\ \E c \in SUBSET rest :
        /\ chunkSize = 0 => c = rest
        /\ chunkSize # 0 => Cardinality(c) = IF Cardinality(rest) < chunkSize THEN Cardinality(rest) ELSE chunkSize
        /\ chunk' = c
        /\ rest' = rest \ c
        /\ phase' = IF chunkSize # 0 /\ c = {} THEN "idle" ELSE "fetch"
    /\ failed' = FALSE
    /\ UNCHANGED <<smVars, platformVars, disturbances, chunkSize, full, wanted, plans, granted, doubled, deleting, creating, history>>

\* A chunk ends, with an error or not; the only chunk that there is ends the round.
ChunkEnds == phase' = IF chunkSize = 0 THEN "idle" ELSE "chunk"

\* SM's visibilities for the chunk's plans are read and converted.
FetchVisibilities ==
    /\ phase = "fetch"
    /\ phase' = "compare"
    /\ granted' = GrantedBy(plans \cap PlansOf(chunk))
    /\ doubled' = {g \in granted' : Twice(g)}
    /\ UNCHANGED <<smVars, platformVars, disturbances, chunkSize, full, wanted, plans, rest, chunk, deleting, creating, failed, history>>

\* Mutant: an error of SM reads like an empty list.
ReadFails_AsEmpty ==
    /\ phase \in {"fetch", "compare"}
    /\ IF phase = "fetch" THEN phase' = "compare" /\ granted' = {} ELSE ChunkEnds /\ UNCHANGED granted
    /\ Disturbance
    /\ UNCHANGED <<smVars, platformVars, chunkSize, full, wanted, plans, rest, chunk, doubled, deleting, creating, failed, steady>>

\* SM's visibilities or the platform's cannot be read: the chunk is left alone.
ReadFails ==
    /\ phase \in {"fetch", "compare"}
    /\ ChunkEnds
    /\ Disturbance
    /\ UNCHANGED <<smVars, platformVars, chunkSize, full, wanted, plans, chunkVars, steady>>

\* Mutant: the platform is asked about all wanted brokers, whatever the chunk.
CompareAccess_AllBrokers ==
    /\ phase = "compare"
    /\ phase' = "deleting"
    /\ deleting' = Restricted(access, wanted) \ granted
    /\ creating' = (granted \ access) \cup doubled
    /\ UNCHANGED <<smVars, platformVars, disturbances, chunkSize, full, wanted, plans, rest, chunk, granted, doubled, failed, history>>

\* Mutant: the platform is asked about all its brokers.
CompareAccess_Everything ==
    /\ phase = "compare"
    /\ phase' = "deleting"
    /\ deleting' = access \ granted
    /\ creating' = (granted \ access) \cup doubled
    /\ UNCHANGED <<smVars, platformVars, disturbances, chunkSize, full, wanted, plans, rest, chunk, granted, doubled, failed, history>>

\* The access to the chunk's brokers is read and compared.  The key of a
\* visibility leaves the platform's map when it is met, so that a second one
\* with the same key is enabled again.
CompareAccess ==
    /\ phase = "compare"
    /\ phase' = "deleting"
    /\ deleting' = Restricted(access, chunk) \ granted
    /\ creating' = (granted \ access) \cup doubled
    /\ UNCHANGED <<smVars, platformVars, disturbances, chunkSize, full, wanted, plans, rest, chunk, granted, doubled, failed, history>>

\* Assumed of the platform: access to a plan can be changed while its broker is
\* registered; enabling it twice is no error, nor is disabling what is not enabled.
Refused(g) == BrokerOf[g[1]] \notin registered

\* A call ends, well or not; failed calls are counted.
Enable(g) == access' = access \cup {g}
Disable(g) == access' = access \ {g}

Called(g, Effect) ==
    \/ /\ ~Refused(g) /\ Effect
       /\ UNCHANGED <<failed, disturbances, clean>>
    \/ /\ Refused(g)
       /\ failed' = TRUE
       /\ UNCHANGED <<access, disturbances, clean>>
    \/ /\ ~Refused(g) /\ (Effect \/ UNCHANGED access)
       /\ failed' = TRUE
       /\ Disturbance

DeleteVisibility(g) ==
    /\ phase = "deleting" /\ g \in deleting
    /\ deleting' = deleting \ {g}
    /\ Called(g, Disable(g))
    /\ UNCHANGED <<smVars, registered, kept, chunkSize, full, phase, wanted, plans, rest, chunk, granted, doubled, creating, steady>>

\* Await: an error of one deletion ends the chunk, and nothing is enabled.
AwaitDeletions ==
    /\ phase = "deleting" /\ deleting = {}
    /\ IF failed THEN ChunkEnds ELSE phase' = "creating"
    /\ UNCHANGED <<smVars, platformVars, disturbances, chunkSize, full, wanted, plans, chunkVars, history>>

\* Mutant: the second call for one key takes the access away again.
CreateVisibility_Toggles(g) ==
    /\ phase = "creating" /\ g \in creating
    /\ creating' = creating \ {g}
    /\ Called(g, IF g \in doubled THEN Disable(g) ELSE Enable(g))
    /\ UNCHANGED <<smVars, registered, kept, chunkSize, full, phase, wanted, plans, rest, chunk, granted, doubled, deleting, steady>>

CreateVisibility(g) ==
    /\ phase = "creating" /\ g \in creating
    /\ creating' = creating \ {g}
    /\ Called(g, Enable(g))
    /\ UNCHANGED <<smVars, registered, kept, chunkSize, full, phase, wanted, plans, rest, chunk, granted, doubled, deleting, steady>>

AwaitCreations ==
    /\ phase = "creating" /\ creating = {}
    /\ ChunkEnds
    /\ UNCHANGED <<smVars, platformVars, disturbances, chunkSize, full, wanted, plans, chunkVars, history>>

-----------------------------------------------------------------------------
Users ==
    \/ \E v \in Visibilities, new \in Shapes \cup {None} : SMChanges(v, new)
    \/ \E b \in Brokers : SMAddsBroker(b) \/ SMDropsBroker(b)
    \/ \E g \in Grants : OperatorChanges(g)
    \/ \E b \in Brokers : OperatorRegisters(b)

RoundStep ==
    \/ FetchPlans \/ ReconcileBrokers
    \/ NextChunk \/ FetchVisibilities \/ CompareAccess
    \/ \E g \in Grants : DeleteVisibility(g) \/ CreateVisibility(g)
    \/ AwaitDeletions \/ AwaitCreations

Round == RoundStep \/ FetchFails \/ ReadFails

Next == Users \/ BeginResync(TRUE) \/ Round

Spec == Init /\ [][Next]_vars

\* Resyncs are requested again and again; calls have timeouts.
Fairness == WF_vars(BeginResync(TRUE) \/ Round)
FairSpec == Spec /\ Fairness

-----------------------------------------------------------------------------
\* A round that nothing disturbed, with whatever chunks, leaves the plans of the
\* wanted brokers accessible to whom SM grants them and to nobody else, also
\* when two visibilities of SM grant the same.  Brokers that the platform keeps
\* have no proxy, so that their grants are refused, round after round; this keeps
\* none of the others from what SM grants.
RoundGrants ==
    (phase = "idle" /\ clean /\ full) => Settled(Served(wanted))

\* A round takes no access away that SM has granted all along, whatever changes
\* between its reads, whichever of them fails, and however the brokers are cut
\* into chunks.
NeverTakesAway ==
    [][Round => access \cap steady \subseteq access']_vars

\* A round leaves the plans of brokers alone that SM does not have or that are
\* blacklisted, as long as their proxies stay.
OthersKept ==
    [][Round => \A g \in Grants : BrokerOf[g[1]] \in registered' \ wanted => (g \in access <=> g \in access')]_vars

\* Once nothing fails or changes any more the access to all brokers but those that
\* the platform keeps comes to be what SM grants, although the error of one
\* deletion puts all creations off.
AccessConverges ==
    <>[][disturbances' = disturbances]_vars =>
        <>[]Settled(Served(WantedBrokers))

-----------------------------------------------------------------------------
(* The invariant that NeverTakesAway and OthersKept rest on.               *)

SteadyIsGranted == steady \subseteq GrantedBy(Plans)

\* The snapshots of brokers and plans cover what was granted all along.
SteadyIsKnown ==
    /\ phase # "idle" => \A g \in steady : BrokerOf[g[1]] \in wanted
    /\ phase \notin {"idle", "plans"} => \A g \in steady : g[1] \in plans

SteadyIsSpared ==
    /\ phase = "compare" => Restricted(steady, chunk) \subseteq granted
    /\ phase = "deleting" => deleting \cap steady = {}

\* What is enabled and disabled belongs to the chunk's brokers; only what was
\* enabled is disabled, at a proxy that there is.
ChunkOnly ==
    /\ phase \in {"compare", "deleting", "creating"} => \A g \in granted : BrokerOf[g[1]] \in chunk
    /\ phase \in {"deleting", "creating"} => \A g \in deleting \cup creating : BrokerOf[g[1]] \in chunk
    /\ phase = "deleting" => \A g \in deleting : ~Refused(g)

SteadyInv ==
    /\ VisTypeOK
    /\ ChunkOnly
    /\ Consistent(known, sm, registered, access)
    /\ SteadyIsGranted
    /\ SteadyIsKnown
    /\ SteadyIsSpared

-----------------------------------------------------------------------------
(* The invariant that RoundGrants rests on, too: how far a round has come  *)
(* that nothing has disturbed.                                             *)

\* What was read is true still, every broker got its proxy that may have one, and
\* none but the creations at brokers without a proxy failed.
SnapshotsHold ==
    /\ wanted \subseteq known
    /\ phase \notin {"idle", "plans"} => plans = PlansOf(wanted)
    /\ phase \notin {"idle", "plans", "brokers"} => Served(wanted) \subseteq registered
    /\ phase \in {"fetch", "compare", "deleting"} => ~failed

\* The chunks before this one are settled.  No chunk is left in the end.
InChunk == phase \in {"fetch", "compare", "deleting", "creating"}
UnderWay == IF InChunk THEN chunk ELSE {}

ChunksSettled ==
    /\ (InChunk \/ phase = "chunk" \/ (phase = "idle" /\ full)) => Settled(Served(wanted \ (rest \cup UnderWay)))
    /\ (phase = "idle" /\ full) \/ (InChunk /\ chunkSize = 0) => rest = {}

\* The calls that are left are all that it takes to settle this chunk.
CallsSettle ==
    /\ phase \in {"compare", "deleting", "creating"} => granted = GrantedBy(PlansOf(chunk))
    /\ phase = "deleting" => deleting \cap granted = {} /\ Restricted(access, chunk) \ granted \subseteq deleting
    /\ phase = "creating" => Restricted(access, chunk) \subseteq granted
    /\ phase \in {"deleting", "creating"} => creating \subseteq granted /\ Restricted(granted, registered) \ access \subseteq creating

CleanInv ==
    /\ SnapshotsHold
    /\ ChunksSettled
    /\ CallsSettle

RoundInv ==
    /\ SteadyInv
    /\ clean => CleanInv
=============================================================================
