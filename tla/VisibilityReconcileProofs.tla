---------------------- MODULE VisibilityReconcileProofs ----------------------
(***************************************************************************)
(* What a round does for all brokers, plans, visibilities and chunk sizes. *)
(* NeverTakesAway rests on SteadyInv: what SM grants all along is in every *)
(* snapshot that the round takes, so that the difference to the platform's *)
(* access does not contain it.  RoundGrants rests on CleanInv: what a      *)
(* round that nothing disturbs has settled, chunk by chunk, and that the   *)
(* calls that are left settle the chunk that it is at.                     *)
(***************************************************************************)
EXTENDS VisibilityReconcile, FiniteSetTheorems, TLAPS

-----------------------------------------------------------------------------
(* Grants.                                                                 *)

LEMMA GrantsOfType ==
  ASSUME NEW v \in Visibility, NEW g \in GrantsOf(v)
  PROVE  g \in Grants /\ g[1] = v.plan
  BY DEF GrantsOf, Grants, Visibility

LEMMA GrantedIf ==
  ASSUME NEW some, NEW v \in Visibilities, sm[v] # None, sm[v].plan \in some, NEW g \in GrantsOf(sm[v])
  PROVE  g \in GrantedBy(some)
  BY DEF GrantedBy

LEMMA GrantedOnlyIf ==
  ASSUME VisTypeOK, NEW some, NEW g \in GrantedBy(some)
  PROVE  /\ g \in Grants
         /\ \E v \in Visibilities : sm[v] # None /\ sm[v].plan \in some /\ g[1] = sm[v].plan /\ g \in GrantsOf(sm[v])
<1>1. PICK v \in Visibilities : sm[v] # None /\ sm[v].plan \in some /\ g \in GrantsOf(sm[v])
  BY DEF GrantedBy
<1>2. sm[v] \in Visibility
  BY <1>1 DEF VisTypeOK
<1> QED
  BY <1>1, <1>2, GrantsOfType

LEMMA GrantedType ==
  ASSUME VisTypeOK, NEW some
  PROVE  GrantedBy(some) \subseteq Grants
  BY GrantedOnlyIf

LEMMA GrantPlan ==
  ASSUME NEW g \in Grants
  PROVE  g[1] \in Plans /\ BrokerOf[g[1]] \in Brokers
  BY CatalogAssumption DEF Grants

-----------------------------------------------------------------------------
(* The invariant.                                                          *)

LEMMA OneMore ==
  ASSUME NEW m \in Nat, NEW n \in 0..m, n < m
  PROVE  n + 1 \in 0..m
  OBVIOUS

LEMMA DisturbanceType ==
  ASSUME VisTypeOK
  PROVE  /\ Disturbance => disturbances' \in 0..MaxDisturbances /\ clean' = FALSE
         /\ UNCHANGED disturbances => disturbances' \in 0..MaxDisturbances
<1>1. disturbances \in 0..MaxDisturbances
  BY DEF VisTypeOK
<1>2. disturbances < MaxDisturbances => disturbances + 1 \in 0..MaxDisturbances
  BY <1>1, OneMore, SizesAssumption
<1> QED
  BY <1>1, <1>2, Zenon DEF Disturbance

LEMMA SteadyInit == Init => SteadyInv
<1> SUFFICES ASSUME Init PROVE SteadyInv
  OBVIOUS
<1>1. sm \in [Visibilities -> Visibility \cup {None}] /\ chunkSize \in ChunkSizes
  BY ShapesAssumption DEF Init
<1>2. disturbances \in 0..MaxDisturbances
  BY SizesAssumption DEF Init
<1>3. VisTypeOK
  BY <1>1, <1>2 DEF Init, VisTypeOK
<1> QED
  BY <1>3 DEF Init, SteadyInv, SteadyIsGranted, SteadyIsKnown, SteadyIsSpared, ChunkOnly

\* What the users do to SM takes grants away from steady, at most.
LEMMA UsersKeep ==
  ASSUME SteadyInv, Users
  PROVE  SteadyInv'
<1> USE DEF SteadyInv
<1>1. /\ disturbances' \in 0..MaxDisturbances
      /\ clean' = FALSE
      /\ UNCHANGED <<chunkSize, full, phase, wanted, plans, rest, chunk, granted, doubled, deleting, creating, failed>>
  <2>1. Changed
    BY DEF Users, SMChanges, SMAddsBroker, SMDropsBroker, OperatorChanges, OperatorRegisters
  <2> QED
    BY <2>1, DisturbanceType DEF Changed, chunkVars
<1>2. /\ known' \subseteq Brokers /\ sm' \in [Visibilities -> Visibility \cup {None}]
      /\ registered' = registered /\ access' \subseteq Grants /\ kept' \subseteq Brokers
      /\ Consistent(known', sm', registered', access')
      /\ steady' \subseteq steady /\ SteadyIsGranted'
  <2>1. CASE \E v \in Visibilities, new \in Shapes \cup {None} : SMChanges(v, new)
    <3>1. PICK v \in Visibilities, new \in Shapes \cup {None} : SMChanges(v, new)
      BY <2>1
    <3>2. sm' = [sm EXCEPT ![v] = new] /\ UNCHANGED <<known, registered, access, kept>>
      BY <3>1 DEF SMChanges, platformVars
    <3>3. sm' \in [Visibilities -> Visibility \cup {None}]
      BY <3>2, ShapesAssumption DEF VisTypeOK
    <3>4. \A w \in Visibilities : sm'[w] # None => BrokerOf[sm'[w].plan] \in known'
      BY <3>1, <3>2 DEF SMChanges, Consistent, VisTypeOK
    <3> QED
      BY <3>1, <3>2, <3>3, <3>4 DEF SMChanges, Consistent, VisTypeOK, SteadyIsGranted
  <2>2. CASE \E b \in Brokers : SMAddsBroker(b)
    <3>1. UNCHANGED <<sm, steady, registered, access, kept>> /\ known \subseteq known' /\ known' \subseteq Brokers
      BY <2>2 DEF SMAddsBroker, platformVars, VisTypeOK
    <3> QED
      BY <3>1 DEF Consistent, VisTypeOK, SteadyIsGranted, GrantedBy
  <2>3. CASE \E b \in Brokers : SMDropsBroker(b)
    <3>1. PICK b \in Brokers : SMDropsBroker(b)
      BY <2>3
    <3>2. /\ known' = known \ {b} /\ UNCHANGED <<registered, access, kept>>
          /\ sm' = [v \in Visibilities |-> IF sm[v] # None /\ BrokerOf[sm[v].plan] = b THEN None ELSE sm[v]]
      BY <3>1 DEF SMDropsBroker, platformVars
    <3>3. sm' \in [Visibilities -> Visibility \cup {None}]
      BY <3>2 DEF VisTypeOK
    <3>4. \A v \in Visibilities : sm'[v] # None => BrokerOf[sm'[v].plan] \in known'
      BY <3>2 DEF Consistent
    <3> QED
      BY <3>1, <3>2, <3>3, <3>4 DEF SMDropsBroker, Consistent, VisTypeOK, SteadyIsGranted
  <2>4. CASE \E g \in Grants : OperatorChanges(g)
    <3>1. PICK g \in Grants : OperatorChanges(g)
      BY <2>4
    <3>2. /\ UNCHANGED <<known, sm, registered, kept, steady>> /\ BrokerOf[g[1]] \in registered
          /\ access' \subseteq access \cup {g}
      BY <3>1 DEF OperatorChanges, smVars
    <3> QED
      BY <3>2 DEF Consistent, VisTypeOK, SteadyIsGranted, GrantedBy
  <2>5. CASE \E b \in Brokers : OperatorRegisters(b)
    <3>1. UNCHANGED <<known, sm, registered, access, steady>> /\ kept' \subseteq Brokers
      BY <2>5 DEF OperatorRegisters, smVars, VisTypeOK
    <3> QED
      BY <3>1 DEF Consistent, VisTypeOK, SteadyIsGranted, GrantedBy
  <2> QED
    BY <2>1, <2>2, <2>3, <2>4, <2>5 DEF Users
<1>3. VisTypeOK'
  BY <1>1, <1>2 DEF VisTypeOK
<1>4. SteadyIsKnown' /\ SteadyIsSpared' /\ ChunkOnly'
  BY <1>1, <1>2 DEF SteadyIsKnown, SteadyIsSpared, ChunkOnly, Refused, Restricted
<1> QED
  BY <1>2, <1>3, <1>4

\* All that SM grants for the brokers read is granted all along, so far.
LEMMA BeginKeeps ==
  ASSUME SteadyInv, NEW visibilities \in BOOLEAN, BeginResync(visibilities)
  PROVE  SteadyInv'
<1> USE DEF SteadyInv
<1>1. /\ UNCHANGED <<known, sm, registered, access, kept, disturbances, chunkSize>>
      /\ phase' = "plans" /\ full' \in BOOLEAN /\ wanted' = WantedBrokers
      /\ plans' = {} /\ rest' = {} /\ chunk' = {} /\ granted' = {} /\ doubled' = {} /\ deleting' = {} /\ creating' = {}
      /\ failed' = FALSE /\ clean' = TRUE
      /\ steady' = GrantedBy(PlansOf(WantedBrokers))
  BY DEF BeginResync, smVars, platformVars
<1>2. \A g \in steady' : g \in Grants /\ g \in GrantedBy(Plans) /\ BrokerOf[g[1]] \in wanted'
  BY <1>1, GrantedOnlyIf, GrantedIf DEF PlansOf
<1>3. VisTypeOK'
  BY <1>1, <1>2 DEF VisTypeOK, WantedBrokers
<1>4. SteadyIsGranted'
  BY <1>1, <1>2 DEF SteadyIsGranted, GrantedBy
<1>5. SteadyIsKnown' /\ SteadyIsSpared' /\ ChunkOnly'
  BY <1>1, <1>2 DEF SteadyIsKnown, SteadyIsSpared, ChunkOnly
<1> QED
  BY <1>1, <1>3, <1>4, <1>5

\* The plans read cover what is granted all along: SM knows the brokers still.
LEMMA PlansCover ==
  ASSUME SteadyInv, NEW g \in steady
  PROVE  g \in Grants /\ g[1] \in Plans /\ BrokerOf[g[1]] \in known
<1>1. PICK v \in Visibilities : sm[v] # None /\ g[1] = sm[v].plan
  BY GrantedOnlyIf DEF SteadyInv, SteadyIsGranted
<1>2. g \in Grants
  BY DEF SteadyInv, VisTypeOK
<1> QED
  BY <1>1, <1>2, GrantPlan DEF SteadyInv, Consistent

\* So do the visibilities read for a chunk.
LEMMA ChunkCovers ==
  ASSUME SteadyInv, phase = "fetch"
  PROVE  /\ Restricted(steady, chunk) \subseteq GrantedBy(plans \cap PlansOf(chunk))
         /\ \A g \in GrantedBy(plans \cap PlansOf(chunk)) : BrokerOf[g[1]] \in chunk
<1>3. \A g \in GrantedBy(plans \cap PlansOf(chunk)) : BrokerOf[g[1]] \in chunk
  BY GrantedOnlyIf DEF SteadyInv, PlansOf
<1> SUFFICES ASSUME NEW g \in steady, BrokerOf[g[1]] \in chunk
             PROVE  g \in GrantedBy(plans \cap PlansOf(chunk))
  BY <1>3 DEF Restricted
<1>1. PICK v \in Visibilities : sm[v] # None /\ g[1] = sm[v].plan /\ g \in GrantsOf(sm[v])
  BY GrantedOnlyIf DEF SteadyInv, SteadyIsGranted
<1>2. g[1] \in plans /\ g[1] \in PlansOf(chunk)
  BY PlansCover DEF SteadyInv, SteadyIsKnown, PlansOf
<1> QED
  BY <1>1, <1>2, GrantedIf

\* The steps of the round that read or write no access.
LEMMA ReadsKeep ==
  ASSUME SteadyInv,
         \/ FetchPlans \/ FetchFails \/ NextChunk \/ FetchVisibilities \/ ReadFails
         \/ CompareAccess \/ AwaitDeletions \/ AwaitCreations
  PROVE  SteadyInv' /\ UNCHANGED <<registered, access, kept>>
<1> USE DEF SteadyInv
<1>1. UNCHANGED <<known, sm, registered, access, kept, chunkSize, full, wanted, steady>>
  BY DEF FetchPlans, FetchFails, NextChunk, FetchVisibilities, ReadFails, CompareAccess, AwaitDeletions,
         AwaitCreations, smVars, platformVars, history
<1>2. disturbances' \in 0..MaxDisturbances /\ clean' \in BOOLEAN
  <2>1. Disturbance \/ UNCHANGED <<disturbances, clean>>
    BY DEF FetchPlans, FetchFails, NextChunk, FetchVisibilities, ReadFails, CompareAccess, AwaitDeletions,
           AwaitCreations, history
  <2> QED
    BY <2>1, DisturbanceType DEF VisTypeOK
<1>3. SteadyIsGranted' /\ Consistent(known', sm', registered', access')
  BY <1>1 DEF SteadyIsGranted, GrantedBy
<1>4. CASE FetchPlans
  <2>1. /\ phase = "plans" /\ phase' = "brokers" /\ plans' = PlansOf(wanted \cap known)
        /\ UNCHANGED <<rest, chunk, granted, doubled, deleting, creating, failed>>
    BY <1>4 DEF FetchPlans, chunkVars
  <2>2. \A g \in steady' : BrokerOf[g[1]] \in wanted' /\ g[1] \in plans'
    BY <1>1, <2>1, PlansCover DEF SteadyIsKnown, PlansOf
  <2>3. VisTypeOK'
    BY <1>1, <1>2, <2>1 DEF VisTypeOK, PlansOf
  <2>4. SteadyIsKnown' /\ SteadyIsSpared' /\ ChunkOnly'
    BY <1>1, <2>1, <2>2 DEF SteadyIsKnown, SteadyIsSpared, ChunkOnly
  <2> QED
    BY <1>1, <1>3, <2>3, <2>4
<1>5. CASE FetchFails
  <2>1. phase' = "idle" /\ UNCHANGED <<plans, rest, chunk, granted, doubled, deleting, creating, failed>>
    BY <1>5 DEF FetchFails, chunkVars
  <2> QED
    BY <1>1, <1>2, <1>3, <2>1 DEF VisTypeOK, SteadyIsKnown, SteadyIsSpared, ChunkOnly
<1>6. CASE NextChunk
  <2>1. /\ phase = "chunk" /\ phase' \in {"idle", "fetch"} /\ failed' = FALSE
        /\ chunk' \subseteq rest /\ rest' = rest \ chunk'
        /\ UNCHANGED <<plans, granted, doubled, deleting, creating>>
    BY <1>6 DEF NextChunk
  <2> QED
    BY <1>1, <1>2, <1>3, <2>1 DEF VisTypeOK, SteadyIsKnown, SteadyIsSpared, ChunkOnly
<1>7. CASE FetchVisibilities
  <2>1. /\ phase = "fetch" /\ phase' = "compare"
        /\ granted' = GrantedBy(plans \cap PlansOf(chunk)) /\ doubled' \subseteq granted'
        /\ UNCHANGED <<plans, rest, chunk, deleting, creating, failed>>
    BY <1>7 DEF FetchVisibilities
  <2>2. /\ granted' \subseteq Grants /\ Restricted(steady, chunk) \subseteq granted'
        /\ \A g \in granted' : BrokerOf[g[1]] \in chunk
    BY <2>1, GrantedType, ChunkCovers
  <2>3. VisTypeOK'
    BY <1>1, <1>2, <2>1, <2>2 DEF VisTypeOK
  <2>4. SteadyIsKnown' /\ SteadyIsSpared' /\ ChunkOnly'
    BY <1>1, <2>1, <2>2 DEF SteadyIsKnown, SteadyIsSpared, ChunkOnly, Restricted
  <2> QED
    BY <1>1, <1>3, <2>3, <2>4
<1>8. CASE ReadFails \/ AwaitDeletions \/ AwaitCreations
  <2>1. /\ phase \in {"fetch", "compare", "deleting", "creating"}
        /\ phase' \in {"idle", "chunk", "creating"}
        /\ phase' = "creating" => phase = "deleting"
        /\ UNCHANGED <<plans, rest, chunk, granted, doubled, deleting, creating, failed>>
    BY <1>8 DEF ReadFails, AwaitDeletions, AwaitCreations, ChunkEnds, chunkVars
  <2> QED
    BY <1>1, <1>2, <1>3, <2>1 DEF VisTypeOK, SteadyIsKnown, SteadyIsSpared, ChunkOnly
<1>9. CASE CompareAccess
  <2>1. /\ phase = "compare" /\ phase' = "deleting"
        /\ deleting' = Restricted(access, chunk) \ granted
        /\ creating' \subseteq granted
        /\ UNCHANGED <<plans, rest, chunk, granted, doubled, failed>>
    BY <1>9 DEF CompareAccess, VisTypeOK
  <2>2. /\ deleting' \cap steady = {} /\ deleting' \subseteq Grants
        /\ \A g \in deleting' \cup creating' : BrokerOf[g[1]] \in chunk
        /\ \A g \in deleting' : BrokerOf[g[1]] \in registered
    BY <2>1 DEF SteadyIsSpared, ChunkOnly, Restricted, Consistent, VisTypeOK
  <2> QED
    BY <1>1, <1>2, <1>3, <2>1, <2>2 DEF VisTypeOK, SteadyIsKnown, SteadyIsSpared, ChunkOnly, Refused
<1> QED
  BY <1>1, <1>4, <1>5, <1>6, <1>7, <1>8, <1>9

LEMMA BrokersKeep ==
  ASSUME SteadyInv, ReconcileBrokers
  PROVE  /\ SteadyInv'
         /\ \A g \in Grants : BrokerOf[g[1]] \in registered' => (g \in access <=> g \in access')
         /\ registered \cap wanted \subseteq registered'
<1> USE DEF SteadyInv
<1>1. PICK r \in SUBSET Brokers : RegistrationsBecome(r) /\ registered \cap wanted \subseteq r
  <2> DEFINE served == Served(wanted)
  <2>1. PICK left \in SUBSET (registered \ wanted), missing \in SUBSET (served \ registered) :
          RegistrationsBecome((served \ missing) \cup left)
    <3>1. PICK left \in SUBSET (registered \ wanted) :
            \/ RegistrationsBecome(served \cup left)
            \/ \E missing \in SUBSET (served \ registered) : RegistrationsBecome((served \ missing) \cup left)
      BY DEF ReconcileBrokers
    <3>2. {} \in SUBSET (served \ registered) /\ served \ {} = served
      OBVIOUS
    <3> QED
      BY <3>1, <3>2
  <2>2. (served \ missing) \cup left \subseteq Brokers
    BY DEF Served, VisTypeOK
  <2>3. registered \cap wanted \subseteq (served \ missing) \cup left
    BY DEF Served
  <2> QED
    BY <2>1, <2>2, <2>3
<1>2. registered' = r /\ access' = Restricted(access, r) /\ kept' = kept
  BY <1>1 DEF RegistrationsBecome
<1>3. /\ phase = "brokers" /\ phase' \in {"chunk", "idle"} /\ rest' \subseteq wanted
      /\ (phase' = "chunk" => rest' = wanted)
      /\ UNCHANGED <<known, sm, chunkSize, full, wanted, plans, chunk, granted, doubled, deleting, creating, failed, steady>>
  BY DEF ReconcileBrokers, VisTypeOK, smVars
<1>7. disturbances' \in 0..MaxDisturbances /\ clean' \in BOOLEAN
  <2>1. Disturbance \/ UNCHANGED <<disturbances, clean>>
    BY DEF ReconcileBrokers
  <2> QED
    BY <2>1, DisturbanceType DEF VisTypeOK
<1>4. SteadyIsGranted' /\ Consistent(known', sm', registered', access')
  BY <1>2, <1>3 DEF SteadyIsGranted, GrantedBy, Consistent, Restricted
<1>5. VisTypeOK'
  BY <1>2, <1>3, <1>7 DEF VisTypeOK, Restricted
<1>6. SteadyIsKnown' /\ SteadyIsSpared' /\ ChunkOnly'
  BY <1>3 DEF SteadyIsKnown, SteadyIsSpared, ChunkOnly
<1> QED
  BY <1>1, <1>2, <1>4, <1>5, <1>6 DEF Restricted

\* A call enables a grant that SM has, or disables one that it did not have.
LEMMA CallsKeep ==
  ASSUME SteadyInv, NEW g \in Grants, DeleteVisibility(g) \/ CreateVisibility(g)
  PROVE  /\ SteadyInv'
         /\ access \ {g} \subseteq access' /\ access' \subseteq access \cup {g}
         /\ DeleteVisibility(g) => g \notin steady
         /\ BrokerOf[g[1]] \in wanted
         /\ CreateVisibility(g) => access \subseteq access'
         /\ UNCHANGED <<registered, kept, steady>>
<1> USE DEF SteadyInv
<1>1. /\ UNCHANGED <<known, sm, registered, kept, chunkSize, full, phase, wanted, plans, rest, chunk, granted, doubled, steady>>
      /\ deleting' \subseteq deleting /\ creating' \subseteq creating
  BY DEF DeleteVisibility, CreateVisibility, smVars, VisTypeOK
<1>2. /\ failed' \in BOOLEAN /\ clean' \in BOOLEAN /\ disturbances' \in 0..MaxDisturbances
      /\ access \ {g} \subseteq access' /\ access' \subseteq access \cup {g}
      /\ CreateVisibility(g) => access \subseteq access'
      /\ access' # access => BrokerOf[g[1]] \in registered
  <2>1. Called(g, Disable(g)) \/ Called(g, Enable(g))
    BY DEF DeleteVisibility, CreateVisibility
  <2>2. Disturbance \/ UNCHANGED <<disturbances, clean>>
    BY <2>1 DEF Called
  <2>3. failed' \in BOOLEAN
    BY <2>1 DEF Called, VisTypeOK
  <2>4. access' # access => BrokerOf[g[1]] \in registered
    BY <2>1 DEF Called, Refused
  <2>5. access' \in {access, access \cup {g}, access \ {g}}
    BY <2>1 DEF Called, Enable, Disable
  <2>6. ASSUME CreateVisibility(g) PROVE access \subseteq access'
    <3>1. Called(g, Enable(g))
      BY <2>6 DEF CreateVisibility
    <3> QED
      BY <3>1 DEF Called, Enable
  <2>7. clean' \in BOOLEAN /\ disturbances' \in 0..MaxDisturbances
    BY <2>2, DisturbanceType DEF VisTypeOK
  <2> QED
    BY <2>3, <2>4, <2>5, <2>6, <2>7
<1>3. SteadyIsGranted' /\ Consistent(known', sm', registered', access')
  BY <1>1, <1>2 DEF SteadyIsGranted, GrantedBy, Consistent
<1>4. VisTypeOK'
  BY <1>1, <1>2 DEF VisTypeOK
<1>5. SteadyIsKnown' /\ SteadyIsSpared' /\ ChunkOnly'
  BY <1>1 DEF SteadyIsKnown, SteadyIsSpared, ChunkOnly, Refused, Restricted
<1>6. DeleteVisibility(g) => g \notin steady
  BY DEF DeleteVisibility, SteadyIsSpared
<1>7. BrokerOf[g[1]] \in wanted
  BY DEF DeleteVisibility, CreateVisibility, ChunkOnly, VisTypeOK
<1> QED
  BY <1>1, <1>2, <1>3, <1>4, <1>5, <1>6, <1>7

LEMMA SteadyStep == SteadyInv /\ [Next]_vars => SteadyInv'
<1> SUFFICES ASSUME SteadyInv, [Next]_vars PROVE SteadyInv'
  OBVIOUS
<1>1. CASE Users
  BY <1>1, UsersKeep
<1>2. CASE BeginResync(TRUE)
  BY <1>2, BeginKeeps
<1>3. CASE Round
  BY <1>3, ReadsKeep, BrokersKeep, CallsKeep DEF Round, RoundStep
<1>4. CASE UNCHANGED vars
  BY <1>4
  DEF vars, smVars, platformVars, chunkVars, history, SteadyInv, VisTypeOK, Consistent, SteadyIsGranted,
      SteadyIsKnown, SteadyIsSpared, ChunkOnly, Refused, GrantedBy, Restricted
<1> QED
  BY <1>1, <1>2, <1>3, <1>4 DEF Next

\* What SM grants all along is in every snapshot of a round and in none of the
\* lists of what is to be disabled.
THEOREM SteadyInvariant == Spec => []SteadyInv
  BY SteadyInit, SteadyStep, PTL DEF Spec

\* The variables keep their types; no broker is in two chunks.
THEOREM VisTypeCorrect == Spec => []VisTypeOK
<1>1. SteadyInv => VisTypeOK
  BY DEF SteadyInv
<1> QED
  BY <1>1, SteadyInvariant, PTL

LEMMA RoundSpares ==
  ASSUME SteadyInv, Round
  PROVE  /\ access \cap steady \subseteq access'
         /\ \A g \in Grants : BrokerOf[g[1]] \in registered' \ wanted => (g \in access <=> g \in access')
<1>1. CASE ReconcileBrokers
  <2>1. \A g \in access \cap steady : g \in Grants /\ BrokerOf[g[1]] \in registered \cap wanted
    BY <1>1 DEF ReconcileBrokers, SteadyInv, SteadyIsKnown, Consistent, VisTypeOK
  <2> QED
    BY <1>1, <2>1, BrokersKeep
<1>2. CASE \E g \in Grants : DeleteVisibility(g) \/ CreateVisibility(g)
  BY <1>2, CallsKeep
<1> QED
  BY <1>1, <1>2, ReadsKeep DEF Round, RoundStep

\* A round takes no access away that SM has granted all along, whatever changes
\* or fails meanwhile.
THEOREM NothingGrantedIsTaken == Spec => NeverTakesAway
<1>1. SteadyInv => [Round => access \cap steady \subseteq access']_vars
  BY RoundSpares
<1> QED
  BY <1>1, SteadyInvariant, PTL DEF Spec, NeverTakesAway

\* A round changes no access to the plans of brokers that it does not reconcile.
THEOREM OthersLeftAlone == Spec => OthersKept
<1>1. SteadyInv =>
        [Round => \A g \in Grants : BrokerOf[g[1]] \in registered' \ wanted => (g \in access <=> g \in access')]_vars
  BY RoundSpares
<1> QED
  BY <1>1, SteadyInvariant, PTL DEF Spec, OthersKept

-----------------------------------------------------------------------------
(* A round that nothing disturbs.                                          *)

\* The visibilities of some brokers' plans grant what concerns these brokers.
LEMMA GrantedByBrokers ==
  ASSUME VisTypeOK, NEW brokers, NEW g \in Grants
  PROVE  g \in GrantedBy(PlansOf(brokers)) <=> g \in GrantedBy(Plans) /\ BrokerOf[g[1]] \in brokers
<1>1. ASSUME g \in GrantedBy(PlansOf(brokers)) PROVE g \in GrantedBy(Plans) /\ BrokerOf[g[1]] \in brokers
  BY <1>1, GrantedOnlyIf, GrantedIf DEF PlansOf
<1>2. ASSUME g \in GrantedBy(Plans), BrokerOf[g[1]] \in brokers PROVE g \in GrantedBy(PlansOf(brokers))
  <2>1. PICK v \in Visibilities : sm[v] # None /\ g[1] = sm[v].plan /\ g \in GrantsOf(sm[v])
    BY <1>2, GrantedOnlyIf
  <2>2. g[1] \in PlansOf(brokers)
    BY <1>2, GrantPlan DEF PlansOf
  <2> QED
    BY <2>1, <2>2, GrantedIf
<1> QED
  BY <1>1, <1>2

\* Settled, grant by grant, for the access that there is or will be.
LEMMA GrantsAgree ==
  ASSUME VisTypeOK, NEW brokers, NEW a \in SUBSET Grants
  PROVE  Restricted(a, brokers) = GrantedBy(PlansOf(brokers)) <=>
           \A g \in Grants : BrokerOf[g[1]] \in brokers => (g \in a <=> g \in GrantedBy(Plans))
<1>1. GrantedBy(PlansOf(brokers)) \subseteq Grants
  BY GrantedType
<1> QED
  BY <1>1, GrantedByBrokers DEF Restricted

\* A chunk is empty only when no broker is left.
LEMMA NoChunkLeft ==
  ASSUME VisTypeOK, chunkSize # 0,
         Cardinality({}) = IF Cardinality(rest) < chunkSize THEN Cardinality(rest) ELSE chunkSize
  PROVE  rest = {}
<1>1. IsFiniteSet(rest)
  BY BrokersAssumption, FS_Subset DEF VisTypeOK
<1>2. chunkSize \in Nat
  BY SizesAssumption DEF VisTypeOK
<1> QED
  BY <1>1, <1>2, FS_EmptySet, FS_CardinalityType

\* The steps that read: the snapshots are true, since SM has not changed.
LEMMA ReadsProgress ==
  ASSUME RoundInv, clean,
         FetchPlans \/ NextChunk \/ FetchVisibilities \/ CompareAccess \/ AwaitDeletions \/ AwaitCreations
  PROVE  CleanInv'
<1> USE DEF RoundInv, SteadyInv, Served
<1>1. UNCHANGED <<known, sm, registered, access, kept, chunkSize, full, wanted, clean>>
  BY DEF FetchPlans, NextChunk, FetchVisibilities, CompareAccess, AwaitDeletions, AwaitCreations,
         smVars, platformVars, history
<1>2. \A B : GrantedBy(B)' = GrantedBy(B) /\ Settled(B)' = Settled(B) /\ Served(B)' = Served(B)
  BY <1>1 DEF GrantedBy, Settled, Served
<1>3. CleanInv
  OBVIOUS
<1>4. CASE FetchPlans
  <2>1. phase = "plans" /\ phase' = "brokers" /\ plans' = PlansOf(wanted \cap known) /\ UNCHANGED chunkVars
    BY <1>4 DEF FetchPlans
  <2>2. plans' = PlansOf(wanted)
    BY <1>3, <2>1 DEF CleanInv, SnapshotsHold, PlansOf
  <2> QED
    BY <1>1, <1>3, <2>1, <2>2 DEF CleanInv, SnapshotsHold, ChunksSettled, CallsSettle, InChunk, chunkVars
<1>5. CASE NextChunk
  <2>1. PICK c \in SUBSET rest :
          /\ chunkSize = 0 => c = rest
          /\ chunkSize # 0 => Cardinality(c) = IF Cardinality(rest) < chunkSize THEN Cardinality(rest) ELSE chunkSize
          /\ chunk' = c
          /\ rest' = rest \ c
          /\ phase' = IF chunkSize # 0 /\ c = {} THEN "idle" ELSE "fetch"
    BY <1>5 DEF NextChunk
  <2>2. phase = "chunk" /\ failed' = FALSE /\ UNCHANGED plans
    BY <1>5 DEF NextChunk
  <2>3. SnapshotsHold' /\ CallsSettle'
    BY <1>1, <1>3, <2>1, <2>2 DEF CleanInv, SnapshotsHold, CallsSettle
  <2>4. Settled(Served(wanted \ rest))
    BY <1>3, <2>2 DEF CleanInv, ChunksSettled, UnderWay, InChunk
  <2>5. phase' = "idle" => rest = {} /\ rest' = {}
    BY <2>1, NoChunkLeft
  <2>6. wanted' \ (rest' \cup UnderWay') = wanted \ rest
    BY <1>1, <2>1, <2>5 DEF UnderWay, InChunk
  <2>7. Settled(Served(wanted \ (rest \cup UnderWay)))'
    BY <1>1, <1>2, <2>4, <2>6 DEF Settled
  <2>8. ChunksSettled'
    BY <2>1, <2>5, <2>7, <1>1 DEF ChunksSettled, InChunk
  <2> QED
    BY <2>3, <2>8 DEF CleanInv
<1>6. CASE FetchVisibilities
  <2>1. /\ phase = "fetch" /\ phase' = "compare"
        /\ granted' = GrantedBy(plans \cap PlansOf(chunk))
        /\ UNCHANGED <<plans, rest, chunk, deleting, creating, failed>>
    BY <1>6 DEF FetchVisibilities
  <2>2. plans \cap PlansOf(chunk) = PlansOf(chunk)
    BY <1>3, <2>1 DEF CleanInv, SnapshotsHold, PlansOf, VisTypeOK
  <2>3. (granted = GrantedBy(PlansOf(chunk)))'
    BY <1>2, <2>1, <2>2 DEF PlansOf
  <2>4. ChunksSettled'
    BY <1>1, <1>2, <1>3, <2>1 DEF CleanInv, ChunksSettled, InChunk, UnderWay, Settled
  <2> QED
    BY <1>1, <1>3, <2>1, <2>3, <2>4 DEF CleanInv, SnapshotsHold, CallsSettle
<1>7. CASE CompareAccess
  <2>1. /\ phase = "compare" /\ phase' = "deleting"
        /\ deleting' = Restricted(access, chunk) \ granted
        /\ creating' = (granted \ access) \cup doubled /\ doubled \subseteq granted
        /\ UNCHANGED <<plans, rest, chunk, granted, failed>>
    BY <1>7 DEF CompareAccess, VisTypeOK
  <2>2. ChunksSettled'
    BY <1>1, <1>2, <1>3, <2>1 DEF CleanInv, ChunksSettled, InChunk, UnderWay, Settled
  <2>3. (granted = GrantedBy(PlansOf(chunk)))'
    BY <1>2, <1>3, <2>1 DEF CleanInv, CallsSettle, PlansOf
  <2>4. Restricted(access, chunk)' = Restricted(access, chunk) /\ Restricted(granted, registered)' \subseteq granted
    BY <1>1, <2>1 DEF Restricted
  <2>5. CallsSettle'
    BY <1>1, <2>1, <2>3, <2>4 DEF CallsSettle
  <2> QED
    BY <1>1, <1>3, <2>1, <2>2, <2>5 DEF CleanInv, SnapshotsHold
<1>8. CASE AwaitDeletions
  <2>1. /\ phase = "deleting" /\ deleting = {} /\ phase' = "creating"
        /\ UNCHANGED <<plans, rest, chunk, granted, doubled, deleting, creating, failed>>
    BY <1>3, <1>8 DEF AwaitDeletions, chunkVars, CleanInv, SnapshotsHold
  <2>2. ChunksSettled'
    BY <1>1, <1>2, <1>3, <2>1 DEF CleanInv, ChunksSettled, InChunk, UnderWay, Settled
  <2>3. (granted = GrantedBy(PlansOf(chunk)))' /\ Restricted(access, chunk)' = Restricted(access, chunk)
    BY <1>1, <1>2, <1>3, <2>1 DEF CleanInv, CallsSettle, PlansOf, Restricted
  <2>4. CallsSettle'
    BY <1>1, <1>3, <2>1, <2>3 DEF CleanInv, CallsSettle
  <2> QED
    BY <1>1, <1>3, <2>1, <2>2, <2>4 DEF CleanInv, SnapshotsHold
<1>9. CASE AwaitCreations
  <2>1. /\ phase = "creating" /\ creating = {} /\ phase' = IF chunkSize = 0 THEN "idle" ELSE "chunk"
        /\ UNCHANGED <<plans, rest, chunk, granted, doubled, deleting, creating, failed>>
    BY <1>9 DEF AwaitCreations, ChunkEnds, chunkVars
  <2>2. /\ Settled(Served(wanted \ (rest \cup chunk))) /\ granted = GrantedBy(PlansOf(chunk))
        /\ Restricted(access, chunk) \subseteq granted /\ Restricted(granted, registered) \subseteq access
        /\ Served(wanted) \subseteq registered
    BY <1>3, <2>1 DEF CleanInv, SnapshotsHold, ChunksSettled, InChunk, UnderWay, CallsSettle
  <2>3. \A g \in Grants : BrokerOf[g[1]] \in Served(chunk) => (g \in access <=> g \in GrantedBy(Plans))
    <3>1. Served(chunk) \subseteq registered \cap chunk
      BY <2>2 DEF VisTypeOK
    <3>2. \A g \in Grants : g \in granted <=> g \in GrantedBy(Plans) /\ BrokerOf[g[1]] \in chunk
      BY <2>2, GrantedByBrokers
    <3> HIDE DEF Served
    <3> QED
      BY <2>2, <3>1, <3>2 DEF Restricted
  <2>4. Settled(Served(wanted \ rest))
    <3>1. \A g \in Grants : BrokerOf[g[1]] \in Served(wanted \ (rest \cup chunk)) => (g \in access <=> g \in GrantedBy(Plans))
      BY <2>2, GrantsAgree DEF Settled, VisTypeOK
    <3>2. Served(wanted \ rest) \subseteq Served(wanted \ (rest \cup chunk)) \cup Served(chunk)
      OBVIOUS
    <3>3. \A g \in Grants : BrokerOf[g[1]] \in Served(wanted \ rest) => (g \in access <=> g \in GrantedBy(Plans))
      BY <2>3, <3>1, <3>2
    <3> QED
      BY <3>3, GrantsAgree DEF Settled, VisTypeOK
  <2>5. UnderWay' = {} /\ wanted' \ (rest' \cup UnderWay') = wanted \ rest
    BY <1>1, <2>1 DEF UnderWay, InChunk
  <2>6. Settled(Served(wanted \ (rest \cup UnderWay)))'
    BY <1>1, <1>2, <2>4, <2>5 DEF Settled
  <2>7. phase' = "idle" => rest' = {}
    BY <1>3, <2>1 DEF CleanInv, ChunksSettled, InChunk
  <2>8. ChunksSettled'
    BY <2>1, <2>6, <2>7 DEF ChunksSettled, InChunk
  <2> QED
    BY <1>1, <1>3, <2>1, <2>8 DEF CleanInv, SnapshotsHold, CallsSettle
<1> QED
  BY <1>4, <1>5, <1>6, <1>7, <1>8, <1>9

\* An undisturbed reconciliation of the proxies registers all brokers that it may.
LEMMA BrokersProgress ==
  ASSUME RoundInv, clean, ReconcileBrokers, clean'
  PROVE  CleanInv'
<1> USE DEF RoundInv, SteadyInv, Served
<1>1. /\ phase = "brokers" /\ phase' = IF full THEN "chunk" ELSE "idle"
      /\ rest' = IF full THEN wanted ELSE {}
      /\ UNCHANGED <<known, sm, chunkSize, full, wanted, plans, chunk, granted, deleting, creating, failed>>
  BY DEF ReconcileBrokers, smVars
<1>2. PICK left \in SUBSET (registered \ wanted) : RegistrationsBecome(Served(wanted) \cup left)
  BY DEF ReconcileBrokers, Disturbance
<1>3. (Served(wanted) \subseteq registered)'
  BY <1>1, <1>2 DEF RegistrationsBecome
<1>4. CleanInv
  OBVIOUS
<1>5. SnapshotsHold' /\ CallsSettle'
  BY <1>1, <1>3, <1>4 DEF CleanInv, SnapshotsHold, CallsSettle
<1>6. full => Served(wanted \ (rest \cup UnderWay))' = {}
  BY <1>1 DEF UnderWay, InChunk
<1>7. Restricted(access', {}) = GrantedBy(PlansOf({})) /\ GrantedBy(PlansOf({}))' = GrantedBy(PlansOf({}))
  BY <1>1 DEF Restricted, GrantedBy, PlansOf
<1>8. full => Settled(Served(wanted \ (rest \cup UnderWay)))'
  BY <1>6, <1>7 DEF Settled, Restricted
<1>9. ChunksSettled'
  BY <1>1, <1>8, Zenon DEF ChunksSettled, InChunk
<1> QED
  BY <1>5, <1>9 DEF CleanInv

\* An undisturbed call does what it is for, to a plan of the chunk's brokers.
LEMMA CallsProgress ==
  ASSUME RoundInv, clean, NEW g \in Grants, DeleteVisibility(g) \/ CreateVisibility(g), clean'
  PROVE  CleanInv'
<1> USE DEF RoundInv, SteadyInv, Served
<1>1. UNCHANGED <<known, sm, registered, kept, chunkSize, full, phase, wanted, plans, rest, chunk, granted>>
  BY DEF DeleteVisibility, CreateVisibility, smVars
<1>2. CleanInv
  OBVIOUS
<1>3. phase \in {"deleting", "creating"} /\ InChunk /\ UnderWay = chunk /\ UnderWay' = chunk
  BY <1>1 DEF DeleteVisibility, CreateVisibility, InChunk, UnderWay
<1>4. BrokerOf[g[1]] \in chunk /\ (DeleteVisibility(g) => ~Refused(g))
  BY <1>3 DEF DeleteVisibility, CreateVisibility, ChunkOnly
<1>5. /\ DeleteVisibility(g) => access' = access \ {g} /\ failed' = failed
      /\ CreateVisibility(g) => access' = IF Refused(g) THEN access ELSE access \cup {g}
  BY <1>4 DEF DeleteVisibility, CreateVisibility, Called, Disturbance, Enable, Disable
<1>6. \A h \in Grants \ {g} : h \in access' <=> h \in access
  BY <1>5
<1>7. access' \in SUBSET Grants /\ access \in SUBSET Grants
  BY <1>5 DEF VisTypeOK
<1>8. \A B : GrantedBy(B)' = GrantedBy(B)
  BY <1>1 DEF GrantedBy
<1>9. ChunksSettled'
  <2> DEFINE D == Served(wanted \ (rest \cup chunk))
  <2>1. Restricted(access, D) = GrantedBy(PlansOf(D))
    BY <1>2, <1>3 DEF CleanInv, ChunksSettled, Settled
  <2>2. \A h \in Grants : BrokerOf[h[1]] \in D => (h \in access <=> h \in GrantedBy(Plans))
    BY <2>1, <1>7, GrantsAgree
  <2>3. \A h \in Grants : BrokerOf[h[1]] \in D => (h \in access' <=> h \in GrantedBy(Plans))
    BY <2>2, <1>4, <1>6
  <2>4. Restricted(access', D) = GrantedBy(PlansOf(D))
    BY <2>3, <1>7, GrantsAgree
  <2>5. Settled(Served(wanted \ (rest \cup UnderWay)))'
    BY <2>4, <1>1, <1>3, <1>8 DEF Settled, Restricted, PlansOf
  <2> QED
    BY <2>5, <1>1, <1>2, <1>3 DEF CleanInv, ChunksSettled, InChunk
<1>10. CallsSettle'
  <2>1. (granted = GrantedBy(PlansOf(chunk)))'
    BY <1>1, <1>2, <1>3, <1>8 DEF CleanInv, CallsSettle, PlansOf
  <2>2. CASE DeleteVisibility(g)
    <3>1. phase = "deleting" /\ g \in deleting /\ deleting' = deleting \ {g} /\ UNCHANGED creating
      BY <2>2 DEF DeleteVisibility
    <3> QED
      BY <1>1, <1>2, <1>5, <2>1, <2>2, <3>1 DEF CleanInv, CallsSettle, Restricted
  <2>3. CASE CreateVisibility(g)
    <3>1. phase = "creating" /\ g \in creating /\ creating' = creating \ {g} /\ UNCHANGED deleting
      BY <2>3 DEF CreateVisibility
    <3> QED
      BY <1>1, <1>2, <1>5, <2>1, <2>3, <3>1 DEF CleanInv, CallsSettle, Restricted, Refused
  <2> QED
    BY <2>2, <2>3
<1>11. SnapshotsHold'
  BY <1>1, <1>2, <1>5 DEF CleanInv, SnapshotsHold, DeleteVisibility, CreateVisibility
<1> QED
  BY <1>9, <1>10, <1>11 DEF CleanInv

LEMMA RoundStepKeeps == RoundInv /\ [Next]_vars => RoundInv'
<1> SUFFICES ASSUME RoundInv, [Next]_vars PROVE RoundInv'
  OBVIOUS
<1>1. SteadyInv'
  BY SteadyStep DEF RoundInv
<1> SUFFICES ASSUME clean' PROVE CleanInv'
  BY <1>1 DEF RoundInv
<1>2. CASE Users
  BY <1>2 DEF Users, SMChanges, SMAddsBroker, SMDropsBroker, OperatorChanges, OperatorRegisters, Changed, Disturbance
<1>3. CASE BeginResync(TRUE)
  <2>1. phase' = "plans" /\ wanted' = WantedBrokers /\ known' = known /\ failed' = FALSE
    BY <1>3 DEF BeginResync, smVars
  <2> QED
    BY <2>1 DEF CleanInv, SnapshotsHold, ChunksSettled, CallsSettle, InChunk, WantedBrokers
<1>4. CASE Round
  <2>1. clean
    BY <1>4
    DEF Round, RoundStep, FetchFails, ReadFails, FetchPlans, ReconcileBrokers, NextChunk, FetchVisibilities,
        CompareAccess, DeleteVisibility, CreateVisibility, Called, AwaitDeletions, AwaitCreations, history, Disturbance
  <2>2. ~FetchFails /\ ~ReadFails
    BY DEF FetchFails, ReadFails, Disturbance
  <2> QED
    BY <1>4, <2>1, <2>2, ReadsProgress, BrokersProgress, CallsProgress DEF Round, RoundStep
<1>5. CASE UNCHANGED vars
  <2>1. clean /\ CleanInv
    BY <1>5 DEF vars, history, RoundInv
  <2>2. UNCHANGED <<known, sm, registered, access, kept, chunkSize, full, phase, wanted, plans, rest, chunk, granted,
                    deleting, creating, failed>>
    BY <1>5 DEF vars, smVars, platformVars, chunkVars
  <2>3. SnapshotsHold'
    BY <2>1, <2>2 DEF CleanInv, SnapshotsHold, Served, PlansOf
  <2>4. ChunksSettled'
    BY <2>1, <2>2 DEF CleanInv, ChunksSettled, InChunk, UnderWay, Settled, Served, Restricted, GrantedBy, PlansOf
  <2>5. CallsSettle'
    BY <2>1, <2>2 DEF CleanInv, CallsSettle, Restricted, GrantedBy, PlansOf
  <2> QED
    BY <2>3, <2>4, <2>5 DEF CleanInv
<1> QED
  BY <1>2, <1>3, <1>4, <1>5 DEF Next

\* While nothing disturbs a round, what it has read is true, the chunks behind it
\* are settled, and the calls that are left are those that settle this one.
THEOREM RoundInvariant == Spec => []RoundInv
<1>1. Init => RoundInv
  BY SteadyInit DEF Init, RoundInv
<1> QED
  BY <1>1, RoundStepKeeps, PTL DEF Spec

\* A round that nothing disturbed, with whatever chunks, leaves the plans of the
\* wanted brokers accessible to whom SM grants them and to nobody else, but for
\* those that have no proxy as the platform keeps them under their own names.
THEOREM RoundsGrant == Spec => []RoundGrants
<1>1. RoundInv => RoundGrants
  <2> SUFFICES ASSUME RoundInv, phase = "idle", clean, full PROVE Settled(Served(wanted))
    BY DEF RoundGrants
  <2>1. Settled(Served(wanted \ (rest \cup UnderWay))) /\ rest = {} /\ UnderWay = {}
    BY DEF RoundInv, CleanInv, ChunksSettled, UnderWay, InChunk
  <2>2. wanted \ (rest \cup UnderWay) = wanted
    BY <2>1
  <2> QED
    BY <2>1, <2>2
<1> QED
  BY <1>1, RoundInvariant, PTL
=============================================================================
