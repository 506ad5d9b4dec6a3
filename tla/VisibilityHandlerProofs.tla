----------------------- MODULE VisibilityHandlerProofs -----------------------
(***************************************************************************)
(* HandlerTypeOK, HealedByResync and VisCaughtUp hold for all brokers,     *)
(* plans, visibilities and lengths of the queue, and a resync next to      *)
(* notifications still takes nothing away.  HealedByResync rests on        *)
(* HealInv: the resync of a handler ends with a proxy for every wanted     *)
(* broker unless a call has failed, or something has changed, since the    *)
(* handler asked for it.  VisCaughtUp rests on OrderInv: what SM grants is *)
(* what the platform has, but for what the queue, the job and the chunks   *)
(* to come still say, and the last that is said of a grant is true.        *)
(***************************************************************************)
EXTENDS VisibilityHandler, VisibilityReconcileProofs

LEMMA NoneIsNoVisibility == \A v \in Visibility : v # None
  BY ShapesAssumption

LEMMA AskedType ==
  ASSUME NEW p \in Plans, NEW s \in SUBSET Scopes
  PROVE  Asked(p, s) \subseteq Grants /\ \A g \in Asked(p, s) : g[1] = p
  BY DEF Asked, Grants

\* What a notification names, by its kind.
LEMMA ShapedNote ==
  ASSUME NEW note \in Note, Shaped(note)
  PROVE  /\ note.kind \in {"create", "update"} => note.new \in Visibility
         /\ note.kind \in {"update", "delete"} => note.old \in Visibility
         /\ note.kind = "create" => PlanOf(note) = note.new.plan
         /\ note.kind \in {"create", "update", "delete"} => note.plain \in BOOLEAN /\ note.patch \in Patch
  BY NoneIsNoVisibility DEF Note, Shaped, PlanOf

LEMMA PatchScopes ==
  ASSUME NEW patch \in Patch
  PROVE  patch.add.scopes \in SUBSET Scopes /\ patch.remove.scopes \in SUBSET Scopes
  BY DEF Patch, Labels

-----------------------------------------------------------------------------
(* Steps of the handler between two resyncs.                               *)

\* The job that a step leaves is none or a sound one.
JobFollows ==
    \/ job' = NoJob
    \/ \E note \in Note, step \in {"disableOld", "enableNew", "enableAdded", "disableRemoved", "resync"} :
         /\ job' = [note |-> note, at |-> step, since |-> disturbances']
         /\ Shaped(note)
         /\ note.kind = IF step = "resync" THEN "create" ELSE "update"

Quiet ==
    /\ phase = "idle"
    /\ UNCHANGED <<known, sm, kept, chunkSize, full, phase, wanted, plans, rest, chunk, granted, doubled, deleting, creating,
                   failed, steady, used>>
    /\ queue' = queue \/ (queue # <<>> /\ queue' = Tail(queue))
    /\ clean' \in {clean, FALSE}
    /\ intact' \in BOOLEAN
    /\ disturbances' \in 0..MaxDisturbances
    /\ JobFollows

LEMMA TailKeeps ==
  ASSUME queue \in Seq(Note), Len(queue) <= MaxQueued, \A i \in 1..Len(queue) : Shaped(queue[i]), queue # <<>>
  PROVE  /\ Tail(queue) \in Seq(Note) /\ Len(Tail(queue)) <= MaxQueued
         /\ \A i \in 1..Len(Tail(queue)) : Shaped(Tail(queue)[i])
         /\ Head(queue) \in Note /\ Shaped(Head(queue))
<1>1. Len(queue) \in Nat /\ Len(queue) > 0
  OBVIOUS
<1>2. /\ Tail(queue) \in Seq(Note) /\ Len(Tail(queue)) = Len(queue) - 1
      /\ \A i \in 1..Len(queue) - 1 : Tail(queue)[i] = queue[i + 1]
  BY <1>1
<1>3. Head(queue) = queue[1] /\ queue[1] \in Note
  BY <1>1
<1> QED
  BY <1>1, <1>2, <1>3, QueueAssumption

LEMMA QuietKeeps ==
  ASSUME HandlerInv, Quiet, registered' \subseteq Brokers, access' \subseteq Grants,
         \A g \in access' : BrokerOf[g[1]] \in registered'
  PROVE  HandlerInv'
<1> USE DEF HandlerInv, HandlerTypeOK
<1>1. SteadyInv'
  <2>1. VisTypeOK'
    BY DEF Quiet, VisTypeOK, SteadyInv
  <2>2. Consistent(known, sm, registered, access)'
    BY DEF Quiet, Consistent, SteadyInv
  <2>3. ChunkOnly' /\ SteadyIsGranted' /\ SteadyIsKnown' /\ SteadyIsSpared'
    BY DEF Quiet, SteadyInv, ChunkOnly, SteadyIsGranted, SteadyIsKnown, SteadyIsSpared, GrantedBy, Restricted
  <2> QED
    BY <2>1, <2>2, <2>3 DEF SteadyInv
<1>2. /\ queue' \in Seq(Note) /\ Len(queue') <= MaxQueued
      /\ \A i \in 1..Len(queue') : Shaped(queue'[i])
  BY TailKeeps DEF Quiet, JobInv
<1>3. /\ job' \in Job \cup {NoJob}
      /\ job' # NoJob =>
           /\ Shaped(job'.note)
           /\ job'.note.kind = IF job'.at \in {"resync", "resyncing", "retry"} THEN "create" ELSE "update"
           /\ job'.since = disturbances'
           /\ job'.at \notin {"resyncing", "retry"}
  <2>1. CASE job' = NoJob
    BY <2>1
  <2>2. CASE job' # NoJob
    <3>1. PICK note \in Note, step \in {"disableOld", "enableNew", "enableAdded", "disableRemoved", "resync"} :
            /\ job' = [note |-> note, at |-> step, since |-> disturbances']
            /\ Shaped(note)
            /\ note.kind = IF step = "resync" THEN "create" ELSE "update"
      BY <2>2 DEF Quiet, JobFollows
    <3>2. disturbances' \in 0..MaxDisturbances
      BY DEF Quiet
    <3> QED
      BY <3>1, <3>2 DEF Job
  <2> QED
    BY <2>1, <2>2
<1>4. HandlerTypeOK'
  BY <1>1, <1>2, <1>3 DEF Quiet, SteadyInv
<1>5. JobInv'
  <2>1. disturbances' <= disturbances'
    BY SizesAssumption DEF Quiet
  <2> QED
    BY <1>2, <1>3, <2>1 DEF JobInv
<1>6. HealInv'
  BY <1>3 DEF HealInv, Quiet, At
<1> QED
  BY <1>1, <1>4, <1>5, <1>6

\* A request about plan p at the proxy of broker b.
LEMMA AccessFollows ==
  ASSUME SteadyInv, NEW p \in Plans, NEW s \in SUBSET Scopes, NEW b,
         \/ UNCHANGED access
         \/ Reachable(p, b) /\ (Enabled(p, s) \/ Disabled(p, s))
  PROVE  access' \subseteq Grants /\ \A g \in access' : BrokerOf[g[1]] \in registered
<1>1. access \subseteq Grants /\ \A g \in access : BrokerOf[g[1]] \in registered
  BY DEF SteadyInv, VisTypeOK, Consistent
<1>2. Asked(p, s) \subseteq Grants /\ \A g \in Asked(p, s) : g[1] = p
  BY AskedType
<1> QED
  BY <1>1, <1>2 DEF Reachable, Enabled, Disabled

\* However a call ends.
CallEnds(p, b, s) ==
    \/ Succeeds(p, b, Enabled(p, s)) \/ Succeeds(p, b, Disabled(p, s))
    \/ NotFound(p, b)
    \/ Breaks(p, b, Enabled(p, s)) \/ Breaks(p, b, Disabled(p, s))
    \/ UNCHANGED <<access, disturbances>>

LEMMA CallOutcome ==
  ASSUME HandlerInv, NEW p \in Plans, NEW s \in SUBSET Scopes, NEW b, CallEnds(p, b, s)
  PROVE  /\ disturbances' \in 0..MaxDisturbances
         /\ access' \subseteq Grants /\ \A g \in access' : BrokerOf[g[1]] \in registered
         /\ NotFound(p, b) \/ Breaks(p, b, Enabled(p, s)) \/ Breaks(p, b, Disabled(p, s)) => intact' \in BOOLEAN
<1>1. SteadyInv /\ disturbances \in 0..MaxDisturbances /\ intact \in BOOLEAN
  BY DEF HandlerInv, HandlerTypeOK, SteadyInv, VisTypeOK
<1>2. disturbances < MaxDisturbances => disturbances + 1 \in 0..MaxDisturbances
  BY <1>1, OneMore, SizesAssumption
<1>3. disturbances' \in 0..MaxDisturbances
  BY <1>1, <1>2 DEF CallEnds, Succeeds, NotFound, Breaks
<1>4. \/ UNCHANGED access
      \/ Reachable(p, b) /\ (Enabled(p, s) \/ Disabled(p, s))
  BY DEF CallEnds, Succeeds, NotFound, Breaks
<1>5. NotFound(p, b) \/ Breaks(p, b, Enabled(p, s)) \/ Breaks(p, b, Disabled(p, s)) => intact' \in BOOLEAN
  BY <1>1, Zenon DEF NotFound, Breaks
<1> QED
  BY <1>1, <1>3, <1>4, <1>5, AccessFollows

\* The note that is taken, or that a job is about.
LEMMA HeadShaped ==
  ASSUME HandlerInv, queue # <<>>
  PROVE  Head(queue) \in Note /\ Shaped(Head(queue))
  BY TailKeeps DEF HandlerInv, HandlerTypeOK, JobInv

LEMMA JobShaped ==
  ASSUME HandlerInv, job # NoJob
  PROVE  /\ job \in Job /\ job.note \in Note /\ Shaped(job.note)
         /\ job.note.kind = IF job.at \in {"resync", "resyncing", "retry"} THEN "create" ELSE "update"
         /\ job.since \in 0..MaxDisturbances /\ job.since <= disturbances
  BY DEF HandlerInv, HandlerTypeOK, JobInv, Job

LEMMA VisibilityScope == \A v \in Visibility : v.plan \in Plans /\ v.scopes \in SUBSET Scopes
  BY DEF Visibility

LEMMA BrokerNoted_Keeps == ASSUME HandlerInv, BrokerNoted \/ BrokerMissed PROVE HandlerInv'
<1> USE DEF HandlerInv, HandlerTypeOK
<1>1. Take("brokerUp") \/ Take("brokerDown")
  BY DEF BrokerNoted, BrokerMissed
<1>2. Head(queue) \in Note /\ Head(queue).kind \in {"brokerUp", "brokerDown"}
  BY <1>1, HeadShaped DEF Take
<1>3. Head(queue).broker \in Brokers
  BY <1>2 DEF Note
<1>4. /\ disturbances' \in 0..MaxDisturbances /\ clean' = FALSE /\ intact' \in BOOLEAN /\ UNCHANGED job
  BY DisturbanceType DEF BrokerNoted, BrokerMissed, SteadyInv
<1>5. Quiet
  BY <1>1, <1>4 DEF Quiet, Take, JobFollows, smVars, chunkVars, BrokerNoted, BrokerMissed, RegistrationsBecome, platformVars
<1>6. registered' \subseteq Brokers /\ access' \subseteq Grants /\ \A g \in access' : BrokerOf[g[1]] \in registered'
  <2>1. registered \subseteq Brokers /\ access \subseteq Grants /\ \A g \in access : BrokerOf[g[1]] \in registered
    BY DEF SteadyInv, VisTypeOK, Consistent
  <2>2. CASE BrokerNoted
    BY <1>3, <2>1, <2>2 DEF BrokerNoted, RegistrationsBecome, Restricted
  <2>3. CASE BrokerMissed
    BY <2>1, <2>3 DEF BrokerMissed, platformVars
  <2> QED
    BY <2>2, <2>3
<1> QED
  BY <1>5, <1>6, QuietKeeps

LEMMA Unnamed_Keeps ==
  ASSUME HandlerInv, NEW kind \in {"create", "update", "delete"}, Unnamed(kind)
  PROVE  HandlerInv'
<1> USE DEF HandlerInv, HandlerTypeOK
<1>1. Take(kind) /\ clean' = FALSE /\ UNCHANGED <<registered, access, kept, disturbances, job>>
  BY DEF Unnamed, platformVars
<1>2. Head(queue).plain \in BOOLEAN
  BY <1>1, HeadShaped, ShapedNote DEF Take
<1>3. intact' \in BOOLEAN
  BY <1>2, Zenon DEF Unnamed
<1>4. Quiet
  BY <1>1, <1>3 DEF Quiet, Take, JobFollows, smVars, chunkVars, SteadyInv, VisTypeOK
<1> QED
  BY <1>1, <1>4, QuietKeeps DEF SteadyInv, VisTypeOK, Consistent

LEMMA Named_Keeps ==
  ASSUME HandlerInv, NEW kind \in {"create", "update", "delete"}, Named(kind),
         NEW p \in Plans, NEW s \in SUBSET Scopes, NEW b, CallEnds(p, b, s), intact' \in BOOLEAN, JobFollows
  PROVE  HandlerInv'
<1>1. Take(kind) /\ clean' = FALSE /\ UNCHANGED <<registered, kept>>
  BY DEF Named
<1>2. Quiet
  BY <1>1, CallOutcome DEF Quiet, Take, smVars, chunkVars
<1> QED
  BY <1>1, <1>2, CallOutcome, QuietKeeps DEF HandlerInv, SteadyInv, VisTypeOK

LEMMA OnCreateKeeps == ASSUME HandlerInv, OnCreate PROVE HandlerInv'
<1> DEFINE note == Head(queue)
           p == note.new.plan
           b == NamedBroker(note)
           s == note.new.scopes
<1>1. CASE Unnamed("create")
  BY <1>1, Unnamed_Keeps
<1>2. CASE Named("create")
  <2>1. note \in Note /\ Shaped(note) /\ note.kind = "create" /\ note.plain \in BOOLEAN /\ p \in Plans /\ s \in SUBSET Scopes
    BY <1>2, HeadShaped, ShapedNote, VisibilityScope DEF Named, Take
  <2>2. CASE Succeeds(p, b, Enabled(p, s)) /\ GiveUp /\ intact' = (intact /\ note.plain)
    <3>1. intact' \in BOOLEAN
      BY <2>1, <2>2, Zenon DEF HandlerInv, HandlerTypeOK
    <3>2. CallEnds(p, b, s) /\ JobFollows
      BY <2>2 DEF CallEnds, GiveUp, JobFollows
    <3> HIDE DEF note, p, s, b
    <3> QED
      BY <1>2, <2>1, <3>1, <3>2, Named_Keeps
  <2>3. CASE /\ NotFound(p, b) \/ Breaks(p, b, Enabled(p, s))
             /\ GiveUp \/ Proceed(note, "resync")
    <3>1. CallEnds(p, b, s)
      BY <2>3 DEF CallEnds
    <3>2. JobFollows
      BY <2>1, <2>3 DEF JobFollows, GiveUp, Proceed
    <3> HIDE DEF note, p, s, b
    <3>3. intact' \in BOOLEAN
      BY <2>1, <2>3, <3>1, CallOutcome
    <3> QED
      BY <1>2, <2>1, <3>1, <3>2, <3>3, Named_Keeps
  <2> QED
    BY <1>2, <2>2, <2>3 DEF OnCreate, Named, Unnamed
<1> QED
  BY <1>1, <1>2 DEF OnCreate

LEMMA OnUpdateKeeps == ASSUME HandlerInv, OnUpdate PROVE HandlerInv'
<1> DEFINE note == Head(queue)
           b == NamedBroker(note)
<1>1. CASE Unnamed("update")
  BY <1>1, Unnamed_Keeps
<1>2. CASE ~Unnamed("update")
  <2>1. Named("update") /\ UNCHANGED <<access, disturbances>> /\ intact' = (intact /\ note.plain)
    BY <1>2 DEF OnUpdate
  <2>2. Proceed(note, IF note.old.plan # note.new.plan THEN "disableOld" ELSE "enableAdded")
    BY <1>2 DEF OnUpdate
  <2>3. note \in Note /\ Shaped(note) /\ note.kind = "update" /\ note.plain \in BOOLEAN /\ note.new \in Visibility
    BY <2>1, HeadShaped, ShapedNote DEF Named, Take
  <2>4. intact' \in BOOLEAN
    BY <2>1, <2>3, Zenon DEF HandlerInv, HandlerTypeOK
  <2>5. JobFollows
    BY <2>2, <2>3 DEF JobFollows, Proceed
  <2>6. CallEnds(note.new.plan, b, note.new.scopes)
    BY <2>1 DEF CallEnds
  <2>7. note.new.plan \in Plans /\ note.new.scopes \in SUBSET Scopes
    BY <2>3, VisibilityScope
  <2> HIDE DEF note, b
  <2> QED
    BY <2>1, <2>4, <2>5, <2>6, <2>7, Named_Keeps
<1> QED
  BY <1>1, <1>2

LEMMA OnDeleteKeeps == ASSUME HandlerInv, OnDelete PROVE HandlerInv'
<1> DEFINE note == Head(queue)
           p == note.old.plan
           b == NamedBroker(note)
           s == note.old.scopes
<1>1. CASE Unnamed("delete")
  BY <1>1, Unnamed_Keeps
<1>2. CASE ~Unnamed("delete")
  <2>1. /\ Named("delete") /\ GiveUp
        /\ \/ Succeeds(p, b, Disabled(p, s)) /\ intact' = (intact /\ note.plain)
           \/ NotFound(p, b)
           \/ Breaks(p, b, Disabled(p, s))
    BY <1>2 DEF OnDelete
  <2>2. note \in Note /\ Shaped(note) /\ note.kind = "delete" /\ note.plain \in BOOLEAN /\ p \in Plans /\ s \in SUBSET Scopes
    BY <2>1, HeadShaped, ShapedNote, VisibilityScope DEF Named, Take
  <2>3. intact' = (intact /\ note.plain) => intact' \in BOOLEAN
    BY <2>2, Zenon DEF HandlerInv, HandlerTypeOK
  <2>4. CallEnds(p, b, s) /\ JobFollows
    BY <2>1 DEF CallEnds, JobFollows, GiveUp
  <2> HIDE DEF note, p, s, b
  <2> QED
    BY <2>1, <2>2, <2>3, <2>4, CallOutcome, Named_Keeps
<1> QED
  BY <1>1, <1>2

\* The next call of a job.
LEMMA Calling_Keeps ==
  ASSUME HandlerInv, NEW step, Calling(step), JobFollows,
         NEW p \in Plans, NEW s \in SUBSET Scopes, NEW b, CallEnds(p, b, s), intact' \in BOOLEAN
  PROVE  HandlerInv'
<1>1. Quiet /\ UNCHANGED registered
  BY CallOutcome DEF Quiet, Calling, smVars, chunkVars, history
<1> QED
  BY <1>1, CallOutcome, QuietKeeps DEF HandlerInv, SteadyInv, VisTypeOK

LEMMA JobSteps ==
  ASSUME HandlerInv, DisableOld \/ EnableNew \/ EnableAdded \/ DisableRemoved
  PROVE  HandlerInv'
<1> DEFINE note == job.note
           b == NamedBroker(note)
           added == note.patch.add.scopes
           removed == note.patch.remove.scopes
<1>1. intact \in BOOLEAN
  BY DEF HandlerInv, HandlerTypeOK
<1>2. /\ note \in Note /\ Shaped(note) /\ note.kind = "update"
      /\ note.old \in Visibility /\ note.new \in Visibility /\ note.patch \in Patch
  BY JobShaped, ShapedNote DEF DisableOld, EnableNew, EnableAdded, DisableRemoved, Calling, At
<1>3. /\ note.old.plan \in Plans /\ note.old.scopes \in SUBSET Scopes
      /\ note.new.plan \in Plans /\ note.new.scopes \in SUBSET Scopes
      /\ added \in SUBSET Scopes /\ removed \in SUBSET Scopes
  BY <1>2, VisibilityScope, PatchScopes
<1>4. \A step \in {"enableNew", "enableAdded", "disableRemoved"} : Proceed(note, step) => JobFollows
  BY <1>2 DEF Proceed, JobFollows
<1>5. GiveUp => JobFollows
  BY DEF GiveUp, JobFollows
<1>6. CASE DisableOld
  <2>1. /\ Calling("disableOld") /\ (GiveUp \/ Proceed(note, "enableNew"))
        /\ CallEnds(note.old.plan, b, note.old.scopes)
        /\ \/ UNCHANGED intact \/ NotFound(note.old.plan, b)
           \/ Breaks(note.old.plan, b, Disabled(note.old.plan, note.old.scopes))
    BY <1>6 DEF DisableOld, CallEnds
  <2> HIDE DEF note, b
  <2> QED
    BY <1>1, <1>3, <1>4, <1>5, <2>1, CallOutcome, Calling_Keeps
<1>7. CASE EnableNew
  <2>1. /\ Calling("enableNew") /\ (GiveUp \/ Proceed(note, "enableAdded"))
        /\ CallEnds(note.new.plan, b, note.new.scopes)
        /\ \/ UNCHANGED intact \/ NotFound(note.new.plan, b)
           \/ Breaks(note.new.plan, b, Enabled(note.new.plan, note.new.scopes))
    BY <1>7 DEF EnableNew, CallEnds
  <2> HIDE DEF note, b
  <2> QED
    BY <1>1, <1>3, <1>4, <1>5, <2>1, CallOutcome, Calling_Keeps
<1>8. CASE EnableAdded
  <2>1. /\ Calling("enableAdded") /\ Proceed(note, "disableRemoved")
        /\ CallEnds(note.new.plan, b, added)
        /\ \/ UNCHANGED intact \/ NotFound(note.new.plan, b)
           \/ Breaks(note.new.plan, b, Enabled(note.new.plan, added))
    BY <1>8 DEF EnableAdded, CallEnds
  <2> HIDE DEF note, b, added
  <2> QED
    BY <1>1, <1>3, <1>4, <2>1, CallOutcome, Calling_Keeps
<1>9. CASE DisableRemoved
  <2>1. /\ Calling("disableRemoved") /\ GiveUp
        /\ CallEnds(note.new.plan, b, removed)
        /\ \/ UNCHANGED intact \/ NotFound(note.new.plan, b)
           \/ Breaks(note.new.plan, b, Disabled(note.new.plan, removed))
    BY <1>9 DEF DisableRemoved, CallEnds
  <2> HIDE DEF note, b, removed
  <2> QED
    BY <1>1, <1>3, <1>5, <2>1, CallOutcome, Calling_Keeps
<1> QED
  BY <1>6, <1>7, <1>8, <1>9

LEMMA EnableAgainKeeps == ASSUME HandlerInv, EnableAgain PROVE HandlerInv'
<1> DEFINE note == job.note
           p == note.new.plan
           b == NamedBroker(note)
           s == note.new.scopes
<1>1. note.new \in Visibility
  BY JobShaped, ShapedNote DEF EnableAgain, Calling, At
<1>2. p \in Plans /\ s \in SUBSET Scopes
  BY <1>1, VisibilityScope
<1>3. /\ Calling("retry") /\ JobFollows
      /\ CallEnds(p, b, s)
      /\ UNCHANGED intact \/ NotFound(p, b) \/ Breaks(p, b, Enabled(p, s))
  BY DEF EnableAgain, CallEnds, GiveUp, JobFollows
<1>4. intact \in BOOLEAN
  BY DEF HandlerInv, HandlerTypeOK
<1> HIDE DEF note, p, s, b
<1> QED
  BY <1>2, <1>3, <1>4, CallOutcome, Calling_Keeps

-----------------------------------------------------------------------------
(* Resyncs.                                                                *)

\* A resync of the goroutine or one that a handler asks for.
LEMMA ResyncBeginsKeeps == ASSUME HandlerInv, ResyncBegins PROVE HandlerInv'
<1> USE DEF HandlerInv, HandlerTypeOK
<1>1. SteadyInv'
  BY BeginKeeps DEF ResyncBegins
<1>2. /\ job = NoJob /\ job' = NoJob /\ used' = used /\ intact' = TRUE /\ full' = TRUE
  BY DEF ResyncBegins, BeginResync
<1>3. PICK first \in 1..Len(queue) + 1 : queue' = SubSeq(queue, first, Len(queue))
  BY DEF ResyncBegins
<1>4. Len(queue) \in Nat /\ first \in Nat \ {0}
  BY <1>3
<1>5. /\ queue' \in Seq(Note) /\ Len(queue') <= Len(queue)
      /\ \A i \in 1..Len(queue') : queue'[i] = queue[first + i - 1] /\ first + i - 1 \in 1..Len(queue)
  BY <1>3, <1>4
<1>6. JobInv'
  BY <1>2, <1>5 DEF JobInv
<1>7. HealInv'
  BY <1>2 DEF HealInv
<1>8. HandlerTypeOK'
  BY <1>1, <1>2, <1>4, <1>5, QueueAssumption DEF SteadyInv
<1> QED
  BY <1>1, <1>6, <1>7, <1>8

LEMMA ResyncBrokersKeeps == ASSUME HandlerInv, ResyncBrokers PROVE HandlerInv'
<1> USE DEF HandlerInv, HandlerTypeOK
<1>1. SteadyInv'
  BY BeginKeeps DEF ResyncBrokers
<1>2. /\ UNCHANGED <<queue, used, intact, disturbances, known>> /\ At("resync") /\ phase' = "plans" /\ full' = FALSE
      /\ job' = [job EXCEPT !.at = "resyncing"] /\ wanted' = WantedBrokers
  BY DEF ResyncBrokers, BeginResync, smVars
<1>3. job \in Job /\ job # NoJob /\ job.at = "resync"
  BY <1>2 DEF At
<1>4. /\ job' \in Job /\ job' # NoJob /\ job'.at = "resyncing"
      /\ job'.note = job.note /\ job'.since = job.since
  <2>1. job' \in Job /\ job'.at = "resyncing" /\ job'.note = job.note /\ job'.since = job.since
    BY <1>2, <1>3 DEF Job
  <2> QED
    BY <2>1, JobAssumption
<1>5. JobInv'
  BY <1>2, <1>3, <1>4 DEF JobInv
<1>6. HealInv'
  BY <1>2, <1>4 DEF HealInv, At, WantedBrokers
<1>7. HandlerTypeOK'
  BY <1>1, <1>2, <1>4 DEF SteadyInv, At
<1> QED
  BY <1>1, <1>5, <1>6, <1>7

LEMMA ResyncReturnsKeeps == ASSUME HandlerInv, ResyncReturns PROVE HandlerInv'
<1> USE DEF HandlerInv, HandlerTypeOK
<1>1. /\ UNCHANGED <<vars, queue, used, intact>> /\ At("resyncing") /\ phase = "idle"
      /\ job' = [job EXCEPT !.at = "retry"]
  BY DEF ResyncReturns
<1>2. UNCHANGED <<known, registered, kept, disturbances, phase, full, wanted>>
  BY <1>1 DEF vars, smVars, platformVars
<1>3. SteadyInv'
  BY <1>1, SteadyStep
<1>4. job \in Job /\ job # NoJob /\ job.at = "resyncing"
  BY <1>1 DEF At
<1>5. /\ job' \in Job /\ job' # NoJob /\ job'.at = "retry"
      /\ job'.note = job.note /\ job'.since = job.since
  <2>1. job' \in Job /\ job'.at = "retry" /\ job'.note = job.note /\ job'.since = job.since
    BY <1>1, <1>4 DEF Job
  <2> QED
    BY <2>1, JobAssumption
<1>6. JobInv'
  BY <1>1, <1>2, <1>4, <1>5 DEF JobInv
<1>7. HealInv'
  BY <1>1, <1>2, <1>4, <1>5 DEF HealInv, At, WantedBrokers, Served
<1>8. HandlerTypeOK'
  BY <1>1, <1>2, <1>3, <1>5 DEF SteadyInv
<1> QED
  BY <1>3, <1>6, <1>7, <1>8

LEMMA RoundShape ==
  ASSUME SteadyInv, Round
  PROVE  /\ phase # "idle" /\ UNCHANGED <<full, known, wanted, kept>>
         /\ disturbances' \in {disturbances, disturbances + 1}
         /\ ReconcileBrokers \/ UNCHANGED registered
         /\ phase \in {"plans", "brokers"} => FetchPlans \/ FetchFails \/ ReconcileBrokers
<1>1. CASE FetchPlans \/ FetchFails \/ ReconcileBrokers
  BY <1>1 DEF FetchPlans, FetchFails, ReconcileBrokers, RegistrationsBecome, Disturbance, smVars, platformVars
<1>2. CASE NextChunk \/ FetchVisibilities \/ CompareAccess \/ AwaitDeletions \/ AwaitCreations \/ ReadFails
  BY <1>2 DEF NextChunk, FetchVisibilities, CompareAccess, AwaitDeletions, AwaitCreations, ReadFails,
              Disturbance, smVars, platformVars
<1>3. CASE \E g \in Grants : DeleteVisibility(g) \/ CreateVisibility(g)
  BY <1>3 DEF DeleteVisibility, CreateVisibility, Called, Disturbance, smVars
<1> QED
  BY <1>1, <1>2, <1>3 DEF Round, RoundStep

LEMMA ResyncGoesOnKeeps == ASSUME HandlerInv, ResyncGoesOn PROVE HandlerInv'
<1> USE DEF HandlerInv, HandlerTypeOK
<1>1. SteadyInv' /\ Round /\ UNCHANGED <<queue, used, job>>
  BY ReadsKeep, BrokersKeep, CallsKeep DEF ResyncGoesOn, Round, RoundStep
<1>2. /\ phase # "idle" /\ UNCHANGED <<full, known, wanted, kept>>
      /\ disturbances' \in {disturbances, disturbances + 1}
      /\ ReconcileBrokers \/ UNCHANGED registered
      /\ phase \in {"plans", "brokers"} => FetchPlans \/ FetchFails \/ ReconcileBrokers
  BY <1>1, RoundShape
<1>3. disturbances \in Nat /\ MaxDisturbances \in Nat
  BY SizesAssumption DEF SteadyInv, VisTypeOK
<1>4. intact' \in BOOLEAN
  BY Zenon DEF ResyncGoesOn
<1>5. HandlerTypeOK'
  BY <1>1, <1>2, <1>4 DEF SteadyInv, At
<1>6. JobInv'
  <2>1. job # NoJob => job.since \in Nat /\ job.since <= disturbances
    BY <1>3, JobShaped
  <2> QED
    BY <1>1, <1>2, <1>3, <2>1 DEF JobInv
<1>7. ~full => /\ phase \in {"plans", "brokers"} /\ phase' \in {"idle", "brokers"}
               /\ phase' = "brokers" => FetchPlans
               /\ phase' = "idle" => FetchFails \/ ReconcileBrokers
  BY <1>2 DEF HealInv, FetchPlans, FetchFails, ReconcileBrokers
<1>8. ASSUME job # NoJob, job.since = disturbances'
      PROVE  At("resyncing") /\ ~full /\ UNCHANGED disturbances /\ wanted = WantedBrokers
  <2>1. At("resyncing") /\ ~full
    BY <1>2, <1>8
  <2>2. job.since \in Nat /\ job.since <= disturbances
    BY <1>3, <1>8, JobShaped
  <2>3. disturbances' = disturbances
    BY <1>2, <1>3, <1>8, <2>2
  <2> QED
    BY <1>2, <1>8, <2>1, <2>3 DEF HealInv
<1>9. ASSUME job # NoJob, job.since = disturbances', phase' = "idle"
      PROVE  Served(WantedBrokers)' \subseteq registered'
  <2>1. ~FetchFails /\ ReconcileBrokers
    BY <1>3, <1>7, <1>8, <1>9 DEF FetchFails, Disturbance
  <2>2. ~Disturbance
    BY <1>3, <1>8, <1>9 DEF Disturbance
  <2>3. Served(wanted) \subseteq registered' /\ registered \cap wanted \subseteq registered'
    BY <2>1, <2>2 DEF ReconcileBrokers, RegistrationsBecome, Served
  <2>4. wanted = WantedBrokers /\ WantedBrokers' = WantedBrokers /\ UNCHANGED kept
    BY <1>2, <1>8, <1>9 DEF WantedBrokers
  <2> QED
    BY <2>3, <2>4 DEF Served
<1>10. HealInv'
  BY <1>1, <1>2, <1>7, <1>8, <1>9 DEF HealInv, At, WantedBrokers
<1> QED
  BY <1>1, <1>5, <1>6, <1>10

-----------------------------------------------------------------------------
(* Users.                                                                  *)

LEMMA UserSteps ==
  ASSUME HandlerInv, Users, UNCHANGED <<used, job>> \/ (used' \subseteq Brokers /\ UNCHANGED job), intact' \in BOOLEAN,
         UNCHANGED queue \/ \E note \in Note : Shaped(note) /\ Len(queue) < MaxQueued /\ queue' = Append(queue, note)
  PROVE  HandlerInv'
<1> USE DEF HandlerInv, HandlerTypeOK
<1>1. SteadyInv'
  BY UsersKeep
<1>2. Changed
  BY DEF Users, SMChanges, SMAddsBroker, SMDropsBroker, OperatorChanges, OperatorRegisters
<1>3. disturbances \in Nat /\ disturbances' = disturbances + 1 /\ UNCHANGED <<phase, full>>
  BY <1>2 DEF Changed, Disturbance, SteadyInv, VisTypeOK
<1>4. /\ queue' \in Seq(Note) /\ Len(queue') <= MaxQueued
      /\ \A i \in 1..Len(queue') : Shaped(queue'[i])
  <2>1. CASE UNCHANGED queue
    BY <2>1 DEF JobInv
  <2>2. CASE \E note \in Note : Shaped(note) /\ Len(queue) < MaxQueued /\ queue' = Append(queue, note)
    <3>1. PICK note \in Note : Shaped(note) /\ Len(queue) < MaxQueued /\ queue' = Append(queue, note)
      BY <2>2
    <3>2. /\ queue' \in Seq(Note) /\ Len(queue') = Len(queue) + 1 /\ queue'[Len(queue) + 1] = note
          /\ \A i \in 1..Len(queue) : queue'[i] = queue[i]
      BY <3>1
    <3> QED
      BY <3>1, <3>2, QueueAssumption DEF JobInv
  <2> QED
    BY <2>1, <2>2
<1>5. HandlerTypeOK'
  BY <1>1, <1>3, <1>4 DEF SteadyInv, At
<1>6. job # NoJob => job.since \in Nat /\ job.since <= disturbances
  BY JobShaped
<1>7. JobInv'
  BY <1>3, <1>4, <1>6 DEF JobInv
<1>8. HealInv'
  BY <1>3, <1>6 DEF HealInv
<1> QED
  BY <1>1, <1>5, <1>7, <1>8

\* The notification about an update of a visibility.
LEMMA NoteOf ==
  ASSUME VisTypeOK, NEW v \in Visibilities, NEW new \in Visibility \cup {None}, NEW patch \in Patches,
         sm[v] # None \/ new # None, Notifies(v, new, patch)
  PROVE  \E note \in Note :
           /\ Shaped(note) /\ ~OfBroker(note)
           /\ Len(queue) < MaxQueued /\ queue' = Append(queue, note)
           /\ UNCHANGED <<job, intact>>
           /\ note.old = sm[v] /\ note.new = new /\ note.patch = patch
           /\ note.kind = Kind(v, new)
           /\ note.plain = Plain(v, new, patch)
<1> DEFINE note == [kind |-> Kind(v, new), old |-> sm[v], new |-> new,
                    patch |-> patch, plain |-> Plain(v, new, patch)]
<1>1. sm[v] \in Visibility \cup {None} /\ patch \in Patch
  BY PatchAssumption DEF VisTypeOK
<1>2. Plain(v, new, patch) \in BOOLEAN
  BY Zenon DEF Plain
<1>3. Kind(v, new) \in {"create", "update", "delete"}
  BY DEF Kind
<1>4. note \in Note
  BY <1>1, <1>2, <1>3 DEF Note
<1>5. Shaped(note) /\ ~OfBroker(note)
  BY DEF Shaped, OfBroker, Kind
<1>6. Len(queue) < MaxQueued /\ queue' = Append(queue, note) /\ UNCHANGED <<job, intact>>
  BY DEF Notifies, Announce
<1> HIDE DEF note
<1>7. /\ note.old = sm[v] /\ note.new = new /\ note.patch = patch
      /\ note.kind = Kind(v, new) /\ note.plain = Plain(v, new, patch)
  BY DEF note
<1> QED
  BY <1>4, <1>5, <1>6, <1>7

LEMMA AnnouncesKeeps ==
  ASSUME HandlerInv, NEW v \in Visibilities, NEW new \in Shapes \cup {None}, NEW patch \in Patches, SMAnnounces(v, new, patch)
  PROVE  HandlerInv'
<1>1. Users /\ UNCHANGED used /\ Notifies(v, new, patch)
  BY DEF SMAnnounces, Users
<1>2. VisTypeOK /\ new \in Visibility \cup {None} /\ new # sm[v]
  BY ShapesAssumption DEF HandlerInv, SteadyInv, SMAnnounces, SMChanges
<1>3. PICK note \in Note : /\ Shaped(note) /\ Len(queue) < MaxQueued /\ queue' = Append(queue, note)
                           /\ UNCHANGED <<job, intact>>
  BY <1>1, <1>2, NoteOf
<1> QED
  BY <1>1, <1>3, UserSteps DEF HandlerInv, HandlerTypeOK

LEMMA RefreshesKeeps ==
  ASSUME HandlerInv, NEW v \in Visibilities, NEW patch \in Patches, SMRefreshes(v, patch)
  PROVE  HandlerInv'
<1> USE DEF HandlerInv, HandlerTypeOK
<1>1. /\ Changed /\ UNCHANGED <<known, sm, registered, access, kept, steady, used>> /\ sm[v] # None
      /\ Notifies(v, sm[v], patch)
  BY DEF SMRefreshes, smVars, platformVars
<1>2. /\ disturbances \in Nat /\ disturbances' = disturbances + 1 /\ disturbances' \in 0..MaxDisturbances /\ clean' = FALSE
      /\ UNCHANGED <<chunkSize, full, phase, wanted, plans, rest, chunk, granted, doubled, deleting, creating, failed>>
  <2>1. Disturbance /\ VisTypeOK
    BY <1>1 DEF Changed, SteadyInv
  <2>2. disturbances' \in 0..MaxDisturbances /\ clean' = FALSE
    BY <2>1, DisturbanceType
  <2>3. disturbances \in Nat /\ disturbances' = disturbances + 1
    BY <2>1 DEF Disturbance, VisTypeOK
  <2> QED
    BY <1>1, <2>2, <2>3 DEF Changed, chunkVars
<1>3. SteadyInv'
  <2>1. VisTypeOK'
    BY <1>1, <1>2 DEF VisTypeOK, SteadyInv
  <2> QED
    BY <1>1, <1>2, <2>1
    DEF SteadyInv, Consistent, ChunkOnly, Refused, SteadyIsGranted, SteadyIsKnown, SteadyIsSpared, GrantedBy, Restricted
<1>4. sm[v] \in Visibility \cup {None}
  BY DEF SteadyInv, VisTypeOK
<1>5. PICK note \in Note : /\ Shaped(note) /\ Len(queue) < MaxQueued /\ queue' = Append(queue, note)
                           /\ UNCHANGED <<job, intact>>
  BY <1>1, <1>4, NoteOf DEF SteadyInv
<1>6. /\ queue' \in Seq(Note) /\ Len(queue') = Len(queue) + 1 /\ queue'[Len(queue) + 1] = note
      /\ \A i \in 1..Len(queue) : queue'[i] = queue[i]
  BY <1>1, <1>5
<1>7. job # NoJob => job.since \in Nat /\ job.since <= disturbances
  BY JobShaped
<1>8. JobInv'
  BY <1>1, <1>2, <1>5, <1>6, <1>7 DEF JobInv
<1>9. HealInv'
  BY <1>1, <1>2, <1>5, <1>7 DEF HealInv
<1>10. HandlerTypeOK'
  BY <1>1, <1>2, <1>3, <1>5, <1>6, QueueAssumption DEF SteadyInv, At
<1> QED
  BY <1>3, <1>8, <1>9, <1>10

LEMMA BrokersAnnouncedKeeps ==
  ASSUME HandlerInv, NEW b \in Brokers, BrokerAnnounced(b)
  PROVE  HandlerInv'
<1> USE DEF HandlerInv, HandlerTypeOK
<1>1. Users /\ UNCHANGED <<job, intact>> /\ used' \subseteq Brokers
  BY DEF BrokerAnnounced, Announce, Users
<1>2. \A kind \in {"brokerUp", "brokerDown"} : [kind |-> kind, broker |-> b] \in Note /\ Shaped([kind |-> kind, broker |-> b])
  BY DEF Note, Shaped
<1>3. \E note \in Note : Shaped(note) /\ Len(queue) < MaxQueued /\ queue' = Append(queue, note)
  BY <1>2 DEF BrokerAnnounced, Announce
<1> QED
  BY <1>1, <1>3, UserSteps

LEMMA OperatorsKeep == ASSUME HandlerInv, Operators PROVE HandlerInv'
<1>1. Users /\ UNCHANGED <<queue, used, job>> /\ intact' = FALSE
  BY DEF Operators, Users
<1> QED
  BY <1>1, UserSteps

-----------------------------------------------------------------------------
LEMMA HandlerStart == HandlerInit => HandlerInv
<1> SUFFICES ASSUME HandlerInit PROVE HandlerInv
  OBVIOUS
<1>1. SteadyInv /\ job = NoJob /\ queue = <<>> /\ phase = "idle"
  BY SteadyInit DEF HandlerInit, Init
<1>2. HandlerTypeOK
  <2>1. VisTypeOK /\ used = known \cup registered /\ intact = FALSE
    BY <1>1 DEF HandlerInit, SteadyInv
  <2>2. used \subseteq Brokers /\ <<>> \in Seq(Note) /\ Len(<<>>) <= MaxQueued
    BY <2>1, QueueAssumption DEF VisTypeOK
  <2> QED
    BY <1>1, <2>1, <2>2 DEF HandlerTypeOK
<1> QED
  BY <1>1, <1>2 DEF HandlerInv, JobInv, HealInv

LEMMA HandlerStep == HandlerInv /\ [HandlerNext]_allVars => HandlerInv'
<1> SUFFICES ASSUME HandlerInv, [HandlerNext]_allVars PROVE HandlerInv'
  OBVIOUS
<1>1. CASE UNCHANGED allVars
  <2>1. UNCHANGED vars /\ UNCHANGED <<queue, used, job, intact>>
    BY <1>1 DEF allVars, handlerVars
  <2>2. UNCHANGED <<known, registered, kept, disturbances, phase, full, wanted>>
    BY <2>1 DEF vars, smVars, platformVars
  <2>3. SteadyInv'
    BY <2>1, SteadyStep DEF HandlerInv
  <2> QED
    BY <2>1, <2>2, <2>3 DEF HandlerInv, HandlerTypeOK, SteadyInv, JobInv, HealInv, At, WantedBrokers, Served
<1>2. CASE HandlerNext
  BY <1>2, AnnouncesKeeps, RefreshesKeeps, BrokersAnnouncedKeeps, OperatorsKeep, ResyncBeginsKeeps, ResyncGoesOnKeeps,
     BrokerNoted_Keeps, OnCreateKeeps, OnUpdateKeeps, OnDeleteKeeps, JobSteps, ResyncBrokersKeeps,
     ResyncReturnsKeeps, EnableAgainKeeps
  DEF HandlerNext
<1> QED
  BY <1>1, <1>2

\* Next to notifications, too, nothing in a resync's lists is to be taken away
\* that SM has granted all along; a handler's resync ends with all the proxies.
THEOREM HandlerInvariant == HandlerSpec => []HandlerInv
  BY HandlerStart, HandlerStep, PTL DEF HandlerSpec

\* The variables keep their types, and a handler works between the resyncs or has
\* asked for the one that runs.
THEOREM HandlerTypeCorrect == HandlerSpec => []HandlerTypeOK
<1>1. HandlerInv => HandlerTypeOK
  BY DEF HandlerInv
<1> QED
  BY <1>1, HandlerInvariant, PTL

\* The access that a handler tries to enable again after its resync is enabled,
\* unless something has changed or failed meanwhile or the platform keeps the broker.
THEOREM ResyncHeals == HandlerSpec => HealedByResync
<1> DEFINE A == At("retry") /\ job' = NoJob /\ disturbances' = job.since /\ NamedBroker(job.note) \in Served(WantedBrokers) =>
                  Asked(job.note.new.plan, job.note.new.scopes) \subseteq access'
<1>1. HandlerInv /\ [HandlerNext]_allVars => [A]_allVars
  <2> SUFFICES ASSUME HandlerInv, HandlerNext, At("retry"), job' = NoJob, disturbances' = job.since,
                      NamedBroker(job.note) \in Served(WantedBrokers)
               PROVE  Asked(job.note.new.plan, job.note.new.scopes) \subseteq access'
    OBVIOUS
  <2>1. EnableAgain
    BY DEF HandlerNext, At, SMAnnounces, SMRefreshes, Notifies, BrokerAnnounced, Announce, Operators, ResyncBegins, ResyncGoesOn,
           BrokerNoted, BrokerMissed, OnCreate, OnUpdate, OnDelete, Unnamed, Named, Take, DisableOld, EnableNew,
           EnableAdded, DisableRemoved, Calling, ResyncBrokers, ResyncReturns
  <2> DEFINE note == job.note
             p == note.new.plan
             b == NamedBroker(note)
             s == note.new.scopes
  <2>2. /\ note \in Note /\ Shaped(note) /\ note.kind = "create"
        /\ job.since \in Nat /\ job.since <= disturbances
    BY JobShaped DEF At
  <2>3. BrokerOf[p] = b
    BY <2>2, ShapedNote DEF NamedBroker
  <2>4. disturbances \in Nat /\ (Succeeds(p, b, Enabled(p, s)) \/ NotFound(p, b) \/ Breaks(p, b, Enabled(p, s)))
    BY <2>1 DEF EnableAgain, HandlerInv, SteadyInv, VisTypeOK
  <2>5. disturbances' = disturbances /\ ~Breaks(p, b, Enabled(p, s))
    BY <2>2, <2>4 DEF Succeeds, NotFound, Breaks
  <2>6. b \in registered
    BY <2>5 DEF HandlerInv, HealInv, At
  <2>7. Succeeds(p, b, Enabled(p, s))
    BY <2>3, <2>4, <2>5, <2>6 DEF NotFound, Reachable
  <2> QED
    BY <2>7 DEF Succeeds, Enabled
<1> QED
  BY <1>1, HandlerInvariant, PTL DEF HandlerSpec, HealedByResync

\* Between notifications, too, a resync takes nothing away that SM has granted
\* all along, and leaves the plans of other brokers alone.
THEOREM ResyncTakesNothing == HandlerSpec => NeverTakesAway /\ OthersKept
<1>1. HandlerInv => [Round => access \cap steady \subseteq access']_vars
  BY RoundSpares DEF HandlerInv
<1>2. HandlerInv =>
        [Round => \A g \in Grants : BrokerOf[g[1]] \in registered' \ wanted => (g \in access <=> g \in access')]_vars
  BY RoundSpares DEF HandlerInv
<1> QED
  BY <1>1, <1>2, HandlerInvariant, PTL DEF NeverTakesAway, OthersKept

-----------------------------------------------------------------------------
(* VisCaughtUp, from OrderInv.  First what notifications say.              *)

LEMMA GrantsOfScopes ==
  ASSUME NEW v \in Visibility
  PROVE  /\ ~v.bound \/ v.scopes = {} => GrantsOf(v) = {<<v.plan, Public>>}
         /\ ~(~v.bound \/ v.scopes = {}) => GrantsOf(v) = {v.plan} \X v.scopes
  BY DEF GrantsOf

LEMMA SaysType ==
  ASSUME NEW note \in Note, Shaped(note), NEW g \in Says(note)
  PROVE  g \in Grants /\ BrokerOf[g[1]] \in Concerned(note) /\ ~OfBroker(note)
<1>1. ~OfBroker(note) /\ note.kind \in {"create", "update", "delete"}
  BY DEF Says, OfBroker, Note
<1>2. /\ note.old \in Visibility \cup {None} /\ note.new \in Visibility \cup {None}
  BY <1>1 DEF Note
<1>3. g \in Begins(note.old, note.new) \/ g \in Ends(note.old, note.new)
  BY <1>1 DEF Says
<1>4. \/ note.old # None /\ g \in GrantsOf(note.old)
      \/ note.new # None /\ g \in GrantsOf(note.new)
      \/ note.old # None /\ note.new # None /\ g \in {note.new.plan} \X (note.old.scopes \ note.new.scopes)
  BY <1>2, <1>3 DEF Begins, Ends
<1>5. \/ note.old # None /\ g \in Grants /\ g[1] = note.old.plan
      \/ note.new # None /\ g \in Grants /\ g[1] = note.new.plan
  <2>1. CASE note.old # None /\ note.new # None /\ g \in {note.new.plan} \X (note.old.scopes \ note.new.scopes)
    BY <1>2, <2>1 DEF Grants, Visibility
  <2> QED
    BY <1>2, <1>4, <2>1, GrantsOfType
<1> QED
  BY <1>1, <1>5 DEF Concerned

\* Nothing is both begun and ended.
LEMMA BeginsOrEnds ==
  ASSUME NEW old, NEW new, NEW g \in Begins(old, new)
  PROVE  g \notin Ends(old, new)
  BY DEF Begins, Ends

LEMMA NotSaid ==
  ASSUME NEW old, NEW new, NEW g, g \notin Begins(old, new) \cup Ends(old, new)
  PROVE  (old # None /\ g \in GrantsOf(old)) <=> (new # None /\ g \in GrantsOf(new))
  BY DEF Begins, Ends

LEMMA SMGrantsIff ==
  ASSUME VisTypeOK, NEW g
  PROVE  SMGrants(g) <=> \E v \in Visibilities : sm[v] # None /\ g \in GrantsOf(sm[v])
<1>1. ASSUME NEW v \in Visibilities, sm[v] # None, g \in GrantsOf(sm[v])
      PROVE  SMGrants(g)
  <2>1. sm[v] \in Visibility
    BY <1>1 DEF VisTypeOK
  <2>2. sm[v].plan \in Plans
    BY <2>1 DEF Visibility
  <2> QED
    BY <1>1, <2>2, GrantedIf DEF SMGrants
<1>2. SMGrants(g) => \E v \in Visibilities : sm[v] # None /\ g \in GrantsOf(sm[v])
  BY GrantedOnlyIf DEF SMGrants
<1> QED
  BY <1>1, <1>2

LEMMA SMGrantsKnown ==
  ASSUME SteadyInv, NEW g, SMGrants(g)
  PROVE  g \in Grants /\ BrokerOf[g[1]] \in known
  BY GrantedOnlyIf DEF SMGrants, SteadyInv, Consistent

LEMMA SMGrantsStays ==
  ASSUME UNCHANGED sm, NEW g
  PROVE  SMGrants(g)' <=> SMGrants(g)
  BY DEF SMGrants, GrantedBy

LEMMA TrueNewsStays ==
  ASSUME UNCHANGED <<known, sm>>, NEW note, NEW after, NEW before, TrueNews(note, before),
         \A g \in Grants : Silent(g, after)' => Silent(g, before)
  PROVE  TrueNews(note, after)'
<1> SUFFICES ASSUME NEW g \in Grants, Silent(g, after)'
             PROVE  ToldTruly(note, g)'
  BY DEF TrueNews
<1>1. ToldTruly(note, g)
  BY DEF TrueNews
<1> QED
  BY <1>1, SMGrantsStays DEF ToldTruly

-----------------------------------------------------------------------------
(* The queue, its first notifications gone.                                *)

Shortened(by) ==
    /\ Len(queue') \in Nat /\ Len(queue) \in Nat /\ by \in Nat
    /\ Len(queue) = Len(queue') + by
    /\ \A i \in 1..Len(queue') : queue'[i] = queue[i + by]

LEMMA SilentShift ==
  ASSUME NEW by, Shortened(by), NEW g, NEW from \in Nat \ {0}
  PROVE  Silent(g, from)' <=> Silent(g, from + by)
<1>1. ASSUME Silent(g, from)', NEW i \in from + by..Len(queue)
      PROVE  g \notin Says(queue[i])
  <2>1. i - by \in from..Len(queue') /\ i - by \in 1..Len(queue') /\ (i - by) + by = i
    BY <1>1 DEF Shortened
  <2>2. queue'[i - by] = queue[i]
    BY <2>1 DEF Shortened
  <2> QED
    BY <1>1, <2>1, <2>2 DEF Silent
<1>2. ASSUME Silent(g, from + by), NEW i \in from..Len(queue')
      PROVE  g \notin Says(queue'[i])
  <2>1. i + by \in from + by..Len(queue) /\ queue'[i] = queue[i + by]
    BY <1>2 DEF Shortened
  <2> QED
    BY <1>2, <2>1 DEF Silent
<1> QED
  BY <1>1, <1>2 DEF Silent

LEMMA NewsShift ==
  ASSUME NewsInv, UNCHANGED <<known, sm>>, NEW by, Shortened(by)
  PROVE  NewsInv'
<1> SUFFICES ASSUME NEW i \in 1..Len(queue'), NEW note, note = queue'[i], ~OfBroker(note), note.plain
             PROVE  TrueNews(note, i + 1)'
  BY DEF NewsInv, TrueNews, ToldTruly
<1>1. i + by \in 1..Len(queue) /\ note = queue[i + by] /\ i + 1 \in Nat \ {0}
  BY DEF Shortened
<1>2. TrueNews(note, (i + by) + 1)
  BY <1>1 DEF NewsInv
<1>3. \A g \in Grants : Silent(g, i + 1)' => Silent(g, (i + by) + 1)
  <2>1. (i + 1) + by = (i + by) + 1
    BY DEF Shortened
  <2> QED
    BY <1>1, <2>1, SilentShift
<1> QED
  BY <1>1, <1>2, <1>3, TrueNewsStays

-----------------------------------------------------------------------------
(* SM changes and says so.                                                 *)

LEMMA Appended ==
  ASSUME HandlerTypeOK, NEW note \in Note, queue' = Append(queue, note)
  PROVE  /\ Len(queue) \in Nat /\ Len(queue') = Len(queue) + 1
         /\ queue'[Len(queue) + 1] = note
         /\ \A i \in 1..Len(queue) : queue'[i] = queue[i]
         /\ \A from \in 1..Len(queue) + 1 : \A g : Silent(g, from)' => Silent(g, from) /\ g \notin Says(note)
<1>1. /\ Len(queue) \in Nat /\ Len(queue') = Len(queue) + 1
      /\ queue'[Len(queue) + 1] = note
      /\ \A i \in 1..Len(queue) : queue'[i] = queue[i]
  BY DEF HandlerTypeOK
<1>2. ASSUME NEW g, NEW from \in 1..Len(queue) + 1, Silent(g, from)'
      PROVE  Silent(g, from) /\ g \notin Says(note)
  <2>1. \A i \in from..Len(queue) + 1 : g \notin Says(queue'[i])
    BY <1>1, <1>2 DEF Silent
  <2>2. g \notin Says(note)
    BY <1>1, <2>1
  <2>3. \A i \in from..Len(queue) : g \notin Says(queue[i])
    BY <1>1, <2>1
  <2> QED
    BY <2>2, <2>3 DEF Silent
<1> QED
  BY <1>1, <1>2

NewsArrives(note) ==
    /\ note \in Note /\ Shaped(note)
    /\ queue' = Append(queue, note)
    /\ UNCHANGED <<registered, access, kept, chunkSize, full, phase, wanted, plans, rest, chunk, granted, deleting, creating, failed>>
    /\ UNCHANGED <<job, intact>>
    /\ used \subseteq used' /\ known' \subseteq used' /\ Concerned(note) \subseteq used'
    /\ note.kind = "brokerDown" => note.broker \notin known'
    /\ \A b \in known' \ known : b \notin used /\ note.kind = "brokerUp" /\ note.broker = b
    /\ \A g \in Grants : BrokerOf[g[1]] \in known' /\ g \notin Says(note) => (SMGrants(g)' <=> SMGrants(g))
    /\ (~OfBroker(note) /\ note.plain) =>
         /\ CarriedOut(note.old, note.new) /\ Exact(note.old, note.new, note.patch)
         /\ \A g \in Grants : ToldTruly(note, g)'

LEMMA NamedConcerned ==
  ASSUME NEW note \in Note, Shaped(note), ~OfBroker(note)
  PROVE  NamedBroker(note) \in Concerned(note)
<1>1. note.kind \in {"create", "update", "delete"} /\ (note.old = None => note.new # None)
  BY DEF OfBroker, Note, Shaped
<1> QED
  BY <1>1 DEF NamedBroker, PlanOf, Concerned, OfBroker

LEMMA QueueShaped ==
  ASSUME HandlerInv, NEW i \in 1..Len(queue)
  PROVE  queue[i] \in Note /\ Shaped(queue[i])
<1>1. queue \in Seq(Note) /\ Shaped(queue[i])
  BY DEF HandlerInv, HandlerTypeOK, JobInv
<1> QED
  BY <1>1

LEMMA NewsKeeps ==
  ASSUME OrderInv, NEW note, NewsArrives(note)
  PROVE  UsedInv' /\ ArrivalInv' /\ NewsInv' /\ DutyInv' /\ ReadInv' /\ AgreementInv' /\ ChunkInv'
<1>0. PICK last : last = Len(queue) + 1
  OBVIOUS
<1>1. /\ HandlerInv /\ HandlerTypeOK /\ SteadyInv /\ VisTypeOK /\ UsedInv
      /\ ArrivalInv /\ NewsInv /\ DutyInv /\ ReadInv /\ AgreementInv /\ ChunkInv
  BY DEF OrderInv, HandlerInv, SteadyInv
<1>2. note \in Note /\ Shaped(note) /\ queue' = Append(queue, note)
  BY DEF NewsArrives
<1>3. /\ Len(queue) \in Nat /\ Len(queue') = last /\ last = Len(queue) + 1
      /\ queue'[last] = note
      /\ \A i \in 1..Len(queue) : queue'[i] = queue[i]
      /\ \A from \in 1..last : \A g : Silent(g, from)' => Silent(g, from) /\ g \notin Says(note)
  BY <1>0, <1>1, <1>2, Appended
<1>4. /\ UNCHANGED <<registered, access, kept, chunkSize, full, phase, wanted, plans, rest, chunk, granted, deleting, creating, failed>>
      /\ UNCHANGED <<job, intact>>
      /\ used \subseteq used' /\ known' \subseteq used' /\ Concerned(note) \subseteq used'
      /\ note.kind = "brokerDown" => note.broker \notin known'
      /\ \A b \in known' \ known : b \notin used /\ note.kind = "brokerUp" /\ note.broker = b
      /\ \A g \in Grants : BrokerOf[g[1]] \in known' /\ g \notin Says(note) => (SMGrants(g)' <=> SMGrants(g))
  BY DEF NewsArrives
<1>5. /\ known \cup registered \cup wanted \subseteq used
      /\ \A i \in 1..Len(queue) : Concerned(queue[i]) \subseteq used
      /\ job # NoJob => Concerned(job.note) \subseteq used
  BY <1>1 DEF UsedInv
<1>6. 1 \in 1..last /\ last \in 1..last
  BY <1>3
<1>7. ASSUME NEW old \in Note, Shaped(old), Concerned(old) \subseteq used, NEW from \in 1..last, TrueNews(old, from)
      PROVE  TrueNews(old, from)'
  <2>1. SUFFICES ASSUME NEW g \in Grants, Silent(g, from)', g \in Says(old), BrokerOf[g[1]] \in known'
                 PROVE  SMGrants(g)' <=> g \in Begins(old.old, old.new)
    BY <1>7 DEF TrueNews, ToldTruly
  <2>2. BrokerOf[g[1]] \in used
    BY <1>7, <2>1, SaysType
  <2>3. BrokerOf[g[1]] \in known
    BY <1>4, <2>1, <2>2
  <2>4. Silent(g, from) /\ g \notin Says(note)
    BY <1>3, <2>1
  <2>5. SMGrants(g) <=> g \in Begins(old.old, old.new)
    BY <1>7, <2>1, <2>3, <2>4 DEF TrueNews, ToldTruly
  <2> QED
    BY <1>4, <2>1, <2>4, <2>5
<1>8. UsedInv'
  <2>1. (known \cup registered \cup wanted \subseteq used)'
    BY <1>4, <1>5
  <2>2. ASSUME NEW i \in 1..Len(queue')
        PROVE  Concerned(queue'[i]) \subseteq used' /\ (queue'[i].kind = "brokerDown" => queue'[i].broker \notin known')
    <3>1. CASE i = last
      BY <1>3, <1>4, <3>1
    <3>2. CASE i \in 1..Len(queue)
      <4>1. queue'[i] = queue[i] /\ Concerned(queue[i]) \subseteq used /\ (queue[i].kind = "brokerDown" => queue[i].broker \notin known)
        BY <1>1, <1>3, <3>2 DEF UsedInv
      <4>2. queue[i].kind = "brokerDown" => queue[i].broker \in used
        BY <4>1 DEF Concerned, OfBroker
      <4> QED
        BY <1>4, <4>1, <4>2
    <3> QED
      BY <1>3, <2>2, <3>1, <3>2
  <2>3. (job # NoJob => Concerned(job.note) \subseteq used)'
    BY <1>4, <1>5
  <2> QED
    BY <2>1, <2>2, <2>3 DEF UsedInv
<1>9. ArrivalInv'
  <2>1. SUFFICES ASSUME intact', NEW b \in Served(WantedBrokers)' \ (registered' \cup AwaitingProxies')
                 PROVE  \E i \in 1..Len(queue') : Arriving(b, i)'
    BY DEF ArrivalInv
  <2>2. b \in known' /\ b \notin Blacklisted /\ b \notin registered \cup AwaitingProxies /\ b \notin kept \ registered /\ intact
    BY <1>4, <2>1 DEF WantedBrokers, Served, AwaitingProxies
  <2>3. CASE b \in known
    <3>1. PICK i \in 1..Len(queue) : Arriving(b, i)
      BY <1>1, <2>2, <2>3 DEF ArrivalInv, WantedBrokers, Served
    <3>2. Arriving(b, i)'
      BY <1>3, <1>4, <3>1 DEF Arriving
    <3> QED
      BY <1>3, <3>2
  <2>4. CASE b \notin known
    <3>1. b \notin used /\ note.kind = "brokerUp" /\ note.broker = b
      BY <1>4, <2>2, <2>4
    <3>2. \A j \in 1..last - 1 : queue'[j] = queue[j] /\ b \notin Concerned(queue[j])
      BY <1>3, <1>5, <3>1
    <3>3. job' # NoJob => b \notin Concerned(job'.note)
      BY <1>4, <1>5, <3>1
    <3>4. Arriving(b, last)'
      BY <1>3, <3>1, <3>2, <3>3 DEF Arriving
    <3> QED
      BY <1>3, <1>6, <3>4
  <2> QED
    BY <2>3, <2>4
<1>10. NewsInv'
  <2>1. SUFFICES ASSUME NEW i \in 1..Len(queue'), NEW old, old = queue'[i], ~OfBroker(old), old.plain
                 PROVE  TrueNews(old, i + 1)'
    BY DEF NewsInv, TrueNews, ToldTruly
  <2>2. CASE i = last
    BY <1>3, <2>1, <2>2 DEF TrueNews, NewsArrives
  <2>3. CASE i \in 1..Len(queue)
    <3>1. old = queue[i] /\ old \in Note /\ Shaped(old) /\ Concerned(old) \subseteq used /\ i + 1 \in 1..last
      BY <1>1, <1>3, <1>5, <2>1, <2>3, QueueShaped
    <3>2. TrueNews(old, i + 1)
      BY <1>1, <2>1, <2>3, <3>1 DEF NewsInv
    <3> QED
      BY <1>7, <3>1, <3>2
  <2> QED
    BY <1>3, <2>1, <2>2, <2>3
<1>11. DutyInv'
  <2>1. SUFFICES ASSUME job # NoJob, intact
                 PROVE  IF job.note.kind = "create" THEN NamedBroker(job.note) \notin Served(known)'
                        ELSE /\ TrueNews(job.note, 1)'
                             /\ job.at \in {"disableOld", "enableNew"} => job.note.old.plan # job.note.new.plan
    BY <1>4 DEF DutyInv, TrueNews, ToldTruly
  <2>2. /\ job.note \in Note /\ Shaped(job.note) /\ job.note.kind \in {"create", "update"}
        /\ Concerned(job.note) \subseteq used
    BY <1>1, <1>5, <2>1, JobShaped
  <2>3. CASE job.note.kind = "create"
    <3>1. NamedBroker(job.note) \in used /\ NamedBroker(job.note) \notin Served(known)
      BY <1>1, <2>1, <2>2, <2>3, NamedConcerned DEF DutyInv, OfBroker
    <3> QED
      BY <1>4, <2>3, <3>1 DEF Served
  <2>4. CASE job.note.kind # "create"
    <3>1. PICK old : old = job.note
      OBVIOUS
    <3>2. TrueNews(old, 1) /\ old \in Note /\ Shaped(old) /\ Concerned(old) \subseteq used
      BY <1>1, <2>1, <2>2, <2>4, <3>1 DEF DutyInv
    <3>3. TrueNews(old, 1)'
      BY <1>6, <1>7, <3>2
    <3>4. job.at \in {"disableOld", "enableNew"} => job.note.old.plan # job.note.new.plan
      BY <1>1, <2>1, <2>4 DEF DutyInv
    <3> QED
      BY <1>4, <2>4, <3>1, <3>3, <3>4 DEF TrueNews, ToldTruly
  <2> QED
    BY <2>3, <2>4
<1>12. ReadInv'
  <2>1. registered' \cap WantedBrokers' \subseteq registered \cap WantedBrokers
    BY <1>4, <1>5 DEF WantedBrokers
  <2>2. PlansOf(wanted' \cap known') \subseteq PlansOf(wanted \cap known)
    BY <1>4, <1>5 DEF PlansOf
  <2> QED
    BY <1>1, <1>4, <2>1, <2>2 DEF ReadInv, InChunk, Served
<1>13. AgreementInv'
  <2>1. SUFFICES ASSUME intact', NEW g \in Grants, BrokerOf[g[1]] \in Served(WantedBrokers \ Unsettled)', Silent(g, 1)', g \notin Left'
                 PROVE  Agreed(g)'
    BY DEF AgreementInv
  <2>2. /\ intact /\ BrokerOf[g[1]] \in known' /\ BrokerOf[g[1]] \notin Blacklisted
        /\ BrokerOf[g[1]] \notin Unsettled /\ g \notin Left /\ BrokerOf[g[1]] \notin kept \ registered
    BY <1>4, <2>1 DEF WantedBrokers, Served, Unsettled, UnderWay, InChunk, Left
  <2>3. Silent(g, 1) /\ g \notin Says(note)
    BY <1>3, <1>6, <2>1
  <2>4. SMGrants(g)' <=> SMGrants(g)
    BY <1>4, <2>2, <2>3
  <2>5. Agreed(g)
    <3>1. CASE BrokerOf[g[1]] \in known
      BY <1>1, <2>2, <2>3, <3>1 DEF AgreementInv, WantedBrokers, Served
    <3>2. CASE BrokerOf[g[1]] \notin known
      <4>1. ~SMGrants(g)
        BY <1>1, <3>2, SMGrantsKnown
      <4>2. BrokerOf[g[1]] \notin registered
        BY <1>4, <1>5, <2>2, <3>2
      <4>3. g \notin access
        BY <1>1, <4>2 DEF SteadyInv, Consistent
      <4> QED
        BY <4>1, <4>3 DEF Agreed
    <3> QED
      BY <3>1, <3>2
  <2> QED
    BY <1>4, <2>4, <2>5 DEF Agreed
<1>14. ChunkInv'
  <2>1. SUFFICES ASSUME intact', NEW g \in Grants, BrokerOf[g[1]] \in Served(WantedBrokers \cap UnderWay)', Silent(g, 1)'
                 PROVE  /\ phase \in {"compare", "deleting", "creating"} => (g \in granted <=> SMGrants(g)')
                        /\ phase \in {"deleting", "creating"} => (g \in granted \ access => g \in creating)
                        /\ phase = "deleting" => (g \in deleting => g \notin granted) /\ (g \in access \ granted => g \in deleting)
                        /\ phase = "creating" => (g \in access => g \in granted)
    BY <1>4, Zenon DEF ChunkInv
  <2>2. /\ intact /\ BrokerOf[g[1]] \in known' /\ BrokerOf[g[1]] \notin Blacklisted /\ BrokerOf[g[1]] \in UnderWay
        /\ BrokerOf[g[1]] \notin kept \ registered
    BY <1>4, <2>1 DEF WantedBrokers, Served, UnderWay, InChunk
  <2>3. BrokerOf[g[1]] \in known
    BY <1>1, <1>4, <1>5, <2>2 DEF UnderWay, VisTypeOK
  <2>4. Silent(g, 1) /\ g \notin Says(note)
    BY <1>3, <1>6, <2>1
  <2>5. SMGrants(g)' <=> SMGrants(g)
    BY <1>4, <2>2, <2>4
  <2> QED
    BY <1>1, <2>2, <2>3, <2>4, <2>5 DEF ChunkInv, WantedBrokers, Served
<1> QED
  BY <1>8, <1>9, <1>10, <1>11, <1>12, <1>13, <1>14

LEMMA SMGrantsNext ==
  ASSUME VisTypeOK', NEW g
  PROVE  SMGrants(g)' <=> \E v \in Visibilities : sm'[v] # None /\ g \in GrantsOf(sm'[v])
<1>1. \A v \in Visibilities : sm'[v] # None => sm'[v].plan \in Plans
  BY DEF VisTypeOK, Visibility
<1> QED
  BY <1>1 DEF SMGrants, GrantedBy

\* How announcements leave the rest.
LEMMA NewsFrame ==
  ASSUME Changed, NEW note, Announce(note), UNCHANGED platformVars
  PROVE  /\ queue' = Append(queue, note)
         /\ UNCHANGED <<registered, access, kept, chunkSize, full, phase, wanted, plans, rest, chunk, granted, deleting, creating, failed>>
         /\ UNCHANGED <<job, intact>>
  BY DEF Changed, Announce, platformVars, chunkVars

LEMMA AnnouncesArrive ==
  ASSUME OrderInv, VisTypeOK', NEW v \in Visibilities, NEW new \in Shapes \cup {None}, NEW patch \in Patches, SMAnnounces(v, new, patch)
  PROVE  \E note : NewsArrives(note)
<1>1. /\ Changed /\ Notifies(v, new, patch) /\ UNCHANGED <<known, used>> /\ UNCHANGED platformVars
      /\ sm' = [sm EXCEPT ![v] = new] /\ new # sm[v] /\ (new # None => BrokerOf[new.plan] \in known)
  BY DEF SMAnnounces, SMChanges
<1>3. /\ SteadyInv /\ VisTypeOK /\ known \subseteq used
      /\ sm \in [Visibilities -> Visibility \cup {None}]
      /\ \A w \in Visibilities : sm[w] # None => BrokerOf[sm[w].plan] \in known
  BY DEF OrderInv, HandlerInv, SteadyInv, VisTypeOK, Consistent, UsedInv
<1>4. new \in Visibility \cup {None} /\ (sm[v] # None \/ new # None)
  BY <1>1, <1>3, ShapesAssumption
<1>5. PICK note \in Note :
        /\ Shaped(note) /\ ~OfBroker(note)
        /\ Len(queue) < MaxQueued /\ queue' = Append(queue, note)
        /\ UNCHANGED <<job, intact>>
        /\ note.old = sm[v] /\ note.new = new /\ note.patch = patch /\ note.plain = Plain(v, new, patch)
  BY <1>1, <1>3, <1>4, NoteOf
<1>2. Announce(note)
  BY <1>5 DEF Announce
<1>6. note \in Note /\ Shaped(note) /\ ~OfBroker(note) /\ note.kind \notin {"brokerUp", "brokerDown"}
  BY <1>5 DEF OfBroker
<1>7. note.old = sm[v] /\ note.new = new /\ note.patch = patch /\ note.plain = Plain(v, new, patch)
  BY <1>5
<1>8. Says(note) = Begins(sm[v], new) \cup Ends(sm[v], new)
  BY <1>6, <1>7 DEF Says
<1>9. Concerned(note) \subseteq used'
  BY <1>1, <1>3, <1>6, <1>7 DEF Concerned
<1>10. sm'[v] = new /\ \A w \in Visibilities \ {v} : sm'[w] = sm[w]
  BY <1>1, <1>3
<1>11. ASSUME NEW g \in Grants, g \notin Says(note)
       PROVE  SMGrants(g)' <=> SMGrants(g)
  <2>1. (sm[v] # None /\ g \in GrantsOf(sm[v])) <=> (sm'[v] # None /\ g \in GrantsOf(sm'[v]))
    BY <1>8, <1>10, <1>11, NotSaid
  <2>2. \A w \in Visibilities : (sm[w] # None /\ g \in GrantsOf(sm[w])) <=> (sm'[w] # None /\ g \in GrantsOf(sm'[w]))
    BY <1>10, <2>1
  <2> QED
    BY <1>3, <2>2, SMGrantsIff, SMGrantsNext
<1>12. ASSUME note.plain, NEW g \in Grants, g \in Says(note)
       PROVE  SMGrants(g)' <=> g \in Begins(note.old, note.new)
  <2>1. CASE g \in Begins(sm[v], new)
    <3>1. new # None /\ g \in GrantsOf(new)
      BY <2>1 DEF Begins
    <3> QED
      BY <1>7, <1>10, <2>1, <3>1, SMGrantsNext
  <2>2. CASE g \notin Begins(sm[v], new)
    <3>1. g \in Ends(sm[v], new)
      BY <1>8, <1>12, <2>2
    <3>2. \A w \in Visibilities \ {v} : sm[w] # None => g \notin GrantsOf(sm[w])
      BY <1>7, <1>12, <3>1 DEF Plain
    <3>3. new # None => g \notin GrantsOf(new)
      BY <3>1 DEF Ends
    <3>4. ~ \E w \in Visibilities : sm'[w] # None /\ g \in GrantsOf(sm'[w])
      BY <1>10, <3>2, <3>3
    <3> QED
      BY <1>7, <2>2, <3>4, SMGrantsNext
  <2> QED
    BY <2>1, <2>2
<1>13. note.plain => /\ CarriedOut(note.old, note.new) /\ Exact(note.old, note.new, note.patch)
                     /\ \A g \in Grants : ToldTruly(note, g)'
  BY <1>7, <1>12 DEF Plain, ToldTruly
<1>14. NewsArrives(note)
  BY <1>1, <1>2, <1>3, <1>6, <1>9, <1>11, <1>13, NewsFrame DEF NewsArrives
<1> QED
  BY <1>14

LEMMA RefreshesArrive ==
  ASSUME OrderInv, NEW v \in Visibilities, NEW patch \in Patches, SMRefreshes(v, patch)
  PROVE  \E note : NewsArrives(note)
<1>1. Changed /\ Notifies(v, sm[v], patch) /\ UNCHANGED <<known, sm, used>> /\ UNCHANGED platformVars /\ sm[v] # None
  BY DEF SMRefreshes, smVars
<1>2. VisTypeOK /\ sm[v] \in Visibility /\ known \subseteq used /\ BrokerOf[sm[v].plan] \in known
  BY <1>1 DEF OrderInv, HandlerInv, SteadyInv, VisTypeOK, Consistent, UsedInv
<1>3. PICK note \in Note :
        /\ Shaped(note) /\ ~OfBroker(note)
        /\ Len(queue) < MaxQueued /\ queue' = Append(queue, note)
        /\ UNCHANGED <<job, intact>>
        /\ note.old = sm[v] /\ note.new = sm[v] /\ note.patch = patch /\ note.plain = Plain(v, sm[v], patch)
  BY <1>1, <1>2, NoteOf
<1>4. Announce(note)
  BY <1>3 DEF Announce
<1>5. note.kind \notin {"brokerUp", "brokerDown"}
  BY <1>3 DEF OfBroker
<1>6. note.old = sm[v] /\ note.new = sm[v] /\ note.patch = patch /\ note.plain = Plain(v, sm[v], patch)
  BY <1>3
<1>7. Says(note) = {}
  <2>1. {sm[v].plan} \X (sm[v].scopes \ sm[v].scopes) = {}
    OBVIOUS
  <2> QED
    BY <1>1, <1>3, <1>6, <2>1 DEF Says, Begins, Ends
<1>8. Concerned(note) \subseteq used'
  BY <1>1, <1>2, <1>3, <1>6 DEF Concerned
<1>9. note.plain => /\ CarriedOut(note.old, note.new) /\ Exact(note.old, note.new, note.patch)
                    /\ \A g \in Grants : ToldTruly(note, g)'
  BY <1>6, <1>7 DEF Plain, ToldTruly
<1>10. \A g \in Grants : SMGrants(g)' <=> SMGrants(g)
  BY <1>1, SMGrantsStays
<1>11. NewsArrives(note)
  BY <1>1, <1>2, <1>3, <1>4, <1>5, <1>8, <1>9, <1>10, NewsFrame DEF NewsArrives
<1> QED
  BY <1>11

LEMMA BrokersArrive ==
  ASSUME OrderInv, VisTypeOK', NEW b \in Brokers, BrokerAnnounced(b)
  PROVE  \E note : NewsArrives(note)
<1>1. /\ SteadyInv /\ VisTypeOK /\ known \subseteq used /\ sm \in [Visibilities -> Visibility \cup {None}]
  BY DEF OrderInv, HandlerInv, SteadyInv, VisTypeOK, UsedInv
<1>2. \A kind \in {"brokerUp", "brokerDown"} : LET note == [kind |-> kind, broker |-> b] IN
        note \in Note /\ Shaped(note) /\ OfBroker(note) /\ Concerned(note) = {b} /\ Says(note) = {}
  BY DEF Note, Shaped, OfBroker, Concerned, Says
<1>3. CASE b \notin used /\ SMAddsBroker(b) /\ Announce([kind |-> "brokerUp", broker |-> b]) /\ used' = used \cup {b}
  <2>1. PICK note : note = [kind |-> "brokerUp", broker |-> b]
    OBVIOUS
  <2>2. /\ note \in Note /\ Shaped(note) /\ OfBroker(note) /\ Concerned(note) = {b} /\ Says(note) = {}
        /\ note.kind = "brokerUp" /\ note.broker = b
    BY <1>2, <2>1
  <2>3. Changed /\ Announce(note) /\ known' = known \cup {b} /\ UNCHANGED sm /\ UNCHANGED platformVars
    BY <1>3, <2>1 DEF SMAddsBroker
  <2>4. \A g \in Grants : SMGrants(g)' <=> SMGrants(g)
    BY <2>3, SMGrantsStays
  <2>5. NewsArrives(note)
    BY <1>1, <1>3, <2>2, <2>3, <2>4, NewsFrame DEF NewsArrives
  <2> QED
    BY <2>5
<1>4. CASE SMDropsBroker(b) /\ Announce([kind |-> "brokerDown", broker |-> b]) /\ UNCHANGED used
  <2>1. PICK note : note = [kind |-> "brokerDown", broker |-> b]
    OBVIOUS
  <2>2. /\ note \in Note /\ Shaped(note) /\ OfBroker(note) /\ Concerned(note) = {b} /\ Says(note) = {}
        /\ note.kind = "brokerDown" /\ note.broker = b
    BY <1>2, <2>1
  <2>3. /\ Changed /\ Announce(note) /\ b \in known /\ known' = known \ {b} /\ UNCHANGED platformVars
        /\ sm' = [v \in Visibilities |-> IF sm[v] # None /\ BrokerOf[sm[v].plan] = b THEN None ELSE sm[v]]
    BY <1>4, <2>1 DEF SMDropsBroker
  <2>4. ASSUME NEW g \in Grants, BrokerOf[g[1]] \in known'
        PROVE  SMGrants(g)' <=> SMGrants(g)
    <3>1. ASSUME NEW v \in Visibilities
          PROVE  (sm[v] # None /\ g \in GrantsOf(sm[v])) <=> (sm'[v] # None /\ g \in GrantsOf(sm'[v]))
      <4>1. sm[v] # None /\ g \in GrantsOf(sm[v]) => BrokerOf[sm[v].plan] # b
        BY <1>1, <2>3, <2>4, GrantsOfType
      <4> QED
        BY <2>3, <4>1
    <3> QED
      BY <1>1, <3>1, SMGrantsIff, SMGrantsNext
  <2>5. NewsArrives(note)
    BY <1>1, <1>4, <2>2, <2>3, <2>4, NewsFrame DEF NewsArrives
  <2> QED
    BY <2>5
<1> QED
  BY <1>3, <1>4 DEF BrokerAnnounced

-----------------------------------------------------------------------------
(* A change was lost: nothing is claimed of the access.                    *)

LEMMA Nothing_Claimed == ~intact' => ArrivalInv' /\ DutyInv' /\ AgreementInv' /\ ChunkInv'
  BY DEF ArrivalInv, DutyInv, AgreementInv, ChunkInv

LEMMA UsedShift ==
  ASSUME UsedInv, UNCHANGED <<known, used>>, NEW by, Shortened(by), registered' \cup wanted' \subseteq used,
         job' # NoJob => Concerned(job'.note) \subseteq used
  PROVE  UsedInv'
<1>1. ASSUME NEW i \in 1..Len(queue')
      PROVE  Concerned(queue'[i]) \subseteq used /\ (queue'[i].kind = "brokerDown" => queue'[i].broker \notin known)
  <2>1. i + by \in 1..Len(queue) /\ queue'[i] = queue[i + by]
    BY DEF Shortened
  <2> QED
    BY <2>1 DEF UsedInv
<1> QED
  BY <1>1 DEF UsedInv

LEMMA NotShortened ==
  ASSUME HandlerTypeOK, UNCHANGED queue
  PROVE  Shortened(0)
  BY DEF HandlerTypeOK, Shortened

LEMMA OperatorsOrder == ASSUME OrderInv, HandlerInv', Operators PROVE OrderInv'
<1>1. /\ UNCHANGED <<known, sm, used, job, queue, registered, chunkSize, full, phase, wanted, plans, rest, chunk, granted,
                      deleting, creating, failed>>
      /\ intact' = FALSE
  BY DEF Operators, OperatorChanges, OperatorRegisters, Changed, smVars, chunkVars
<1>2. Shortened(0)
  BY <1>1, NotShortened DEF OrderInv, HandlerInv
<1>3. UsedInv' /\ NewsInv'
  BY <1>1, <1>2, UsedShift, NewsShift DEF OrderInv, UsedInv
<1>4. ReadInv'
  BY <1>1 DEF OrderInv, ReadInv, WantedBrokers, PlansOf, InChunk
<1> QED
  BY <1>1, <1>3, <1>4, Nothing_Claimed DEF OrderInv

-----------------------------------------------------------------------------
(* Resyncs begin and return.                                               *)

LEMMA ResyncBeginsOrder == ASSUME OrderInv, HandlerInv', ResyncBegins PROVE OrderInv'
<1>1. PICK first \in 1..Len(queue) + 1 : queue' = SubSeq(queue, first, Len(queue))
  BY DEF ResyncBegins
<1>2. /\ UNCHANGED <<known, sm, registered, kept, used>> /\ job = NoJob /\ job' = NoJob /\ intact' = TRUE
      /\ phase' = "plans" /\ full' = TRUE /\ wanted' = WantedBrokers /\ rest' = {} /\ failed' = FALSE
  BY DEF ResyncBegins, BeginResync, smVars, platformVars
<1>3. queue \in Seq(Note) /\ UsedInv /\ NewsInv
  BY DEF OrderInv, HandlerInv, HandlerTypeOK
<1>4. PICK by : by = first - 1
  OBVIOUS
<1>5. Shortened(by)
  BY <1>1, <1>3, <1>4 DEF Shortened
<1>6. UsedInv'
  <2>1. registered' \cup wanted' \subseteq used
    BY <1>2, <1>3 DEF UsedInv, WantedBrokers
  <2> QED
    BY <1>2, <1>3, <1>5, <2>1, UsedShift
<1>7. NewsInv'
  BY <1>2, <1>3, <1>5, NewsShift
<1>8. ArrivalInv' /\ DutyInv' /\ AgreementInv' /\ ChunkInv'
  BY <1>2 DEF ArrivalInv, AwaitingProxies, DutyInv, AgreementInv, Unsettled, ChunkInv, UnderWay, InChunk, WantedBrokers, Served
<1>9. ReadInv'
  BY <1>2 DEF ReadInv, InChunk, WantedBrokers
<1> QED
  BY <1>6, <1>7, <1>8, <1>9 DEF OrderInv

LEMMA SilentStays ==
  ASSUME UNCHANGED queue, NEW g, NEW from
  PROVE  Silent(g, from)' <=> Silent(g, from)
  BY DEF Silent

LEMMA NewsStays ==
  ASSUME HandlerTypeOK, NewsInv, UNCHANGED <<known, sm, queue>>
  PROVE  NewsInv'
  BY NotShortened, NewsShift

\* A handler's own resync begins or is over.
LEMMA HandlerResyncOrder ==
  ASSUME OrderInv, HandlerInv', ResyncBrokers \/ ResyncReturns
  PROVE  OrderInv'
<1>1. /\ UNCHANGED <<known, sm, registered, access, kept, queue, used, intact>>
      /\ phase = "idle"
      /\ \/ phase' = "plans" /\ full' = FALSE /\ wanted' = WantedBrokers /\ rest' = {} /\ failed' = FALSE
         \/ UNCHANGED <<phase, full, wanted, rest, failed>>
  <2>1. CASE ResyncBrokers
    BY <2>1 DEF ResyncBrokers, BeginResync, smVars, platformVars
  <2>2. CASE ResyncReturns
    BY <2>2 DEF ResyncReturns, vars, smVars, platformVars, chunkVars
  <2> QED
    BY <2>1, <2>2
<1>2. HandlerTypeOK /\ UsedInv /\ ArrivalInv /\ NewsInv /\ DutyInv /\ ReadInv /\ AgreementInv
  BY DEF OrderInv, HandlerInv
<1>3. /\ job # NoJob /\ job' # NoJob /\ job'.note = job.note
      /\ job.at \in {"resync", "resyncing"} /\ job'.at \in {"resyncing", "retry"}
  <2>1. /\ job # NoJob /\ job.at \in {"resync", "resyncing"}
        /\ \E step \in {"resyncing", "retry"} : job' = [job EXCEPT !.at = step]
    BY DEF ResyncBrokers, ResyncReturns, At
  <2>2. job \in Job
    BY <1>2, <2>1 DEF HandlerTypeOK
  <2>3. job' \in Job /\ job'.note = job.note /\ job'.at \in {"resyncing", "retry"}
    BY <2>1, <2>2 DEF Job
  <2> QED
    BY <2>1, <2>3, JobAssumption
<1>4. Left' = Left
  BY <1>3 DEF Left, LeftOf
<1>5. UsedInv'
  BY <1>1, <1>2, <1>3 DEF UsedInv, WantedBrokers
<1>6. ArrivalInv'
  <2>1. \A b, i : Arriving(b, i)' <=> Arriving(b, i)
    BY <1>1, <1>3 DEF Arriving
  <2> QED
    BY <1>1, <1>2, <2>1 DEF ArrivalInv, AwaitingProxies, WantedBrokers, Served
<1>7. NewsInv'
  BY <1>1, <1>2, NewsStays
<1>8. DutyInv'
  <2>1. job.note.kind = "create"
    BY <1>3, JobShaped DEF OrderInv
  <2> QED
    BY <1>1, <1>2, <1>3, <2>1 DEF DutyInv, NamedBroker, PlanOf, Served
<1>9. ReadInv'
  BY <1>1, <1>2 DEF ReadInv, InChunk, WantedBrokers, PlansOf
<1>10. AgreementInv'
  <2>1. Unsettled = {} /\ WantedBrokers' = WantedBrokers
    BY <1>1 DEF Unsettled, WantedBrokers
  <2>2. SUFFICES ASSUME intact, NEW g \in Grants, BrokerOf[g[1]] \in Served(WantedBrokers), Silent(g, 1)', g \notin Left'
                 PROVE  Agreed(g)'
    BY <1>1, <2>1 DEF AgreementInv, Served
  <2>3. Agreed(g)
    BY <1>1, <1>2, <1>4, <2>1, <2>2, SilentStays DEF AgreementInv
  <2> QED
    BY <1>1, <2>3, SMGrantsStays DEF Agreed
<1>11. ChunkInv'
  BY <1>1 DEF ChunkInv, UnderWay, InChunk
<1> QED
  BY <1>5, <1>6, <1>7, <1>8, <1>9, <1>10, <1>11 DEF OrderInv

-----------------------------------------------------------------------------
(* The steps of a resync.                                                  *)

\* What no step of a resync touches.
RoundFrame ==
    /\ UNCHANGED <<known, sm, kept, queue, used, job>>
    /\ intact' = (intact /\ disturbances' = disturbances)

\* None gets a proxy while the platform keeps it.
LEMMA ServedBefore ==
  ASSUME UNCHANGED kept, registered' \cap kept \subseteq registered, NEW some, NEW b \in some, b \notin (kept \ registered)'
  PROVE  b \in Served(some)
  BY DEF Served

\* What a step that leaves access alone has to respect.
LEMMA AccessStays ==
  ASSUME OrderInv, RoundFrame, UNCHANGED <<registered, access>>,
         intact' => AwaitingProxies \subseteq AwaitingProxies' /\ Unsettled \subseteq Unsettled'
  PROVE  ArrivalInv' /\ AgreementInv'
<1>1. ArrivalInv'
  <2>1. SUFFICES ASSUME intact', NEW b \in Served(WantedBrokers)' \ (registered' \cup AwaitingProxies')
                 PROVE  \E i \in 1..Len(queue') : Arriving(b, i)'
    BY DEF ArrivalInv
  <2>2. intact /\ b \in Served(WantedBrokers) \ (registered \cup AwaitingProxies)
    BY <2>1 DEF RoundFrame, WantedBrokers, Served
  <2>3. PICK i \in 1..Len(queue) : Arriving(b, i)
    BY <2>2 DEF OrderInv, ArrivalInv
  <2>4. Arriving(b, i)'
    BY <2>3 DEF Arriving, RoundFrame
  <2> QED
    BY <2>4 DEF RoundFrame
<1>2. AgreementInv'
  <2>1. SUFFICES ASSUME intact', NEW g \in Grants, BrokerOf[g[1]] \in Served(WantedBrokers \ Unsettled)', Silent(g, 1)', g \notin Left'
                 PROVE  Agreed(g)'
    BY DEF AgreementInv
  <2>2. intact /\ BrokerOf[g[1]] \in Served(WantedBrokers \ Unsettled) /\ Silent(g, 1) /\ g \notin Left
    BY <2>1, SilentStays DEF RoundFrame, WantedBrokers, Served, Left
  <2>3. Agreed(g)
    BY <2>2 DEF OrderInv, AgreementInv
  <2> QED
    BY <2>3, SMGrantsStays DEF Agreed, RoundFrame
<1> QED
  BY <1>1, <1>2

LEMMA NoFailure ==
  ASSUME OrderInv, RoundFrame, intact'
  PROVE  ~Disturbance /\ intact
<1>1. disturbances \in Nat
  BY DEF OrderInv, HandlerInv, SteadyInv, VisTypeOK
<1>2. intact /\ disturbances' = disturbances
  BY Zenon DEF RoundFrame
<1> QED
  BY <1>1, <1>2 DEF Disturbance

LEMMA PlansOrder ==
  ASSUME OrderInv, RoundFrame, FetchPlans \/ FetchFails
  PROVE  ReadInv' /\ ArrivalInv' /\ AgreementInv' /\ ChunkInv'
<1>1. /\ UNCHANGED <<registered, access, full, wanted, rest, chunk, chunkSize, failed>> /\ phase \in {"plans", "brokers"}
      /\ \/ phase' = "brokers" /\ plans' = PlansOf(wanted \cap known)
         \/ phase' = "idle" /\ Disturbance
  BY DEF FetchPlans, FetchFails, platformVars, chunkVars
<1>2. ReadInv'
  BY <1>1, NoFailure DEF OrderInv, ReadInv, InChunk, RoundFrame, WantedBrokers, Served
<1>3. intact' => AwaitingProxies \subseteq AwaitingProxies' /\ Unsettled \subseteq Unsettled'
  BY <1>1, NoFailure DEF AwaitingProxies, Unsettled
<1>4. ArrivalInv' /\ AgreementInv'
  BY <1>1, <1>3, AccessStays
<1>5. ChunkInv'
  BY <1>1 DEF ChunkInv, UnderWay, InChunk
<1> QED
  BY <1>2, <1>4, <1>5

LEMMA ReconcileOrder ==
  ASSUME OrderInv, RoundFrame, ReconcileBrokers
  PROVE  ReadInv' /\ ArrivalInv' /\ AgreementInv' /\ ChunkInv'
<1>1. /\ UNCHANGED <<full, wanted, plans, chunk, chunkSize, failed>> /\ phase = "brokers"
      /\ phase' = IF full THEN "chunk" ELSE "idle"
      /\ rest' = IF full THEN wanted ELSE {}
  BY DEF ReconcileBrokers
<1>2. /\ registered' \subseteq wanted \cup registered /\ UNCHANGED kept
      /\ registered' \cap kept \subseteq registered
      /\ intact' => Served(wanted) \subseteq registered'
      /\ access' = Restricted(access, registered')
  BY NoFailure DEF ReconcileBrokers, RegistrationsBecome, Served
<1>3. /\ registered \cap WantedBrokers \subseteq wanted /\ PlansOf(wanted \cap known) \subseteq plans
      /\ WantedBrokers' = WantedBrokers /\ known' = known
  BY <1>1 DEF OrderInv, ReadInv, WantedBrokers, RoundFrame
<1>4. ReadInv'
  <2>1. intact' => Served(wanted)' \subseteq registered'
    BY <1>1, <1>2, ServedBefore DEF Served
  <2> QED
    BY <1>1, <1>2, <1>3, <2>1 DEF ReadInv, InChunk
<1>5. ArrivalInv'
  <2>1. SUFFICES ASSUME intact', NEW b \in Served(WantedBrokers)' \ (registered' \cup AwaitingProxies')
                 PROVE  \E i \in 1..Len(queue') : Arriving(b, i)'
    BY DEF ArrivalInv
  <2>2. intact /\ b \in Served(WantedBrokers) \ (registered \cup AwaitingProxies)
    <3>1. intact /\ b \in WantedBrokers /\ b \notin registered' /\ b \notin (kept \ registered)'
      BY <1>3, <2>1, NoFailure DEF Served
    <3>2. b \in Served(WantedBrokers) /\ (b \in wanted => b \in Served(wanted))
      BY <1>2, <3>1, ServedBefore
    <3>3. b \notin registered
      BY <1>2, <1>3, <2>1, <3>1, <3>2
    <3>4. b \notin AwaitingProxies
      BY <1>2, <2>1, <3>1, <3>2 DEF AwaitingProxies
    <3> QED
      BY <3>1, <3>2, <3>3, <3>4
  <2>3. PICK i \in 1..Len(queue) : Arriving(b, i)
    BY <2>2 DEF OrderInv, ArrivalInv
  <2>4. Arriving(b, i)'
    BY <2>3 DEF Arriving, RoundFrame
  <2> QED
    BY <2>4 DEF RoundFrame
<1>6. AgreementInv'
  <2>1. SUFFICES ASSUME intact', NEW g \in Grants, BrokerOf[g[1]] \in Served(WantedBrokers \ Unsettled)', Silent(g, 1)', g \notin Left'
                 PROVE  Agreed(g)'
    BY DEF AgreementInv
  <2>2. Unsettled \subseteq Unsettled'
    BY <1>1 DEF Unsettled, UnderWay, InChunk
  <2>3. intact /\ BrokerOf[g[1]] \in Served(WantedBrokers \ Unsettled) /\ Silent(g, 1) /\ g \notin Left
    <3>1. BrokerOf[g[1]] \in WantedBrokers \ Unsettled /\ BrokerOf[g[1]] \notin (kept \ registered)'
      BY <1>3, <2>1, <2>2 DEF Served
    <3>2. BrokerOf[g[1]] \in Served(WantedBrokers \ Unsettled)
      BY <1>2, <3>1, ServedBefore
    <3> QED
      BY <2>1, <3>2, NoFailure, SilentStays DEF RoundFrame, Left
  <2>4. Agreed(g)
    BY <2>3 DEF OrderInv, AgreementInv
  <2>5. g \in access => BrokerOf[g[1]] \in registered
    BY DEF OrderInv, HandlerInv, SteadyInv, Consistent
  <2>6. g \in access' <=> g \in access
    BY <1>2, <1>3, <2>1, <2>3, <2>5 DEF Restricted, Served
  <2> QED
    BY <2>4, <2>6, SMGrantsStays DEF Agreed, RoundFrame
<1>7. ChunkInv'
  BY <1>1 DEF ChunkInv, UnderWay, InChunk
<1> QED
  BY <1>4, <1>5, <1>6, <1>7

LEMMA NextChunkOrder ==
  ASSUME OrderInv, HandlerInv', RoundFrame, NextChunk
  PROVE  ReadInv' /\ ArrivalInv' /\ AgreementInv' /\ ChunkInv'
<1>1. PICK c \in SUBSET rest :
        /\ chunkSize = 0 => c = rest
        /\ chunkSize # 0 => Cardinality(c) = IF Cardinality(rest) < chunkSize THEN Cardinality(rest) ELSE chunkSize
        /\ chunk' = c
        /\ rest' = rest \ c
        /\ phase' = IF chunkSize # 0 /\ c = {} THEN "idle" ELSE "fetch"
  BY DEF NextChunk
<1>2. /\ UNCHANGED <<registered, access, chunkSize, full, wanted, plans>> /\ phase = "chunk" /\ failed' = FALSE
  BY DEF NextChunk, platformVars
<1>3. chunkSize # 0 /\ c = {} => rest = {}
  <2>1. IsFiniteSet(rest) /\ chunkSize \in Nat
    BY BrokersAssumption, SizesAssumption, FS_Subset DEF OrderInv, HandlerInv, SteadyInv, VisTypeOK
  <2>2. Cardinality(rest) \in Nat /\ (Cardinality(rest) = 0 <=> rest = {})
    BY <2>1, FS_CardinalityType, FS_EmptySet
  <2>3. c = {} => Cardinality(c) = 0
    BY FS_EmptySet
  <2> QED
    BY <1>1, <2>1, <2>2, <2>3
<1>4. ReadInv'
  BY <1>1, <1>2, <1>3, NoFailure DEF OrderInv, ReadInv, InChunk, RoundFrame, WantedBrokers, Served
<1>5. Unsettled \subseteq Unsettled' /\ AwaitingProxies = {}
  BY <1>1, <1>2, <1>3 DEF Unsettled, UnderWay, InChunk, AwaitingProxies
<1>6. ArrivalInv' /\ AgreementInv'
  BY <1>2, <1>5, AccessStays
<1>7. ChunkInv'
  BY <1>1 DEF ChunkInv, UnderWay, InChunk
<1> QED
  BY <1>4, <1>6, <1>7

\* The read that fails is one more disturbance.
LEMMA ReadsOrder ==
  ASSUME OrderInv, HandlerInv', RoundFrame, FetchVisibilities \/ CompareAccess \/ ReadFails
  PROVE  ReadInv' /\ ArrivalInv' /\ AgreementInv' /\ ChunkInv'
<1>1. /\ UNCHANGED <<registered, access, chunkSize, full, wanted, plans, rest, chunk, failed>> /\ phase \in {"fetch", "compare"}
      /\ \/ phase = "fetch" /\ phase' = "compare" /\ granted' = GrantedBy(plans \cap PlansOf(chunk))
         \/ /\ phase = "compare" /\ phase' = "deleting" /\ UNCHANGED granted
            /\ deleting' = Restricted(access, chunk) \ granted
            /\ creating' = (granted \ access) \cup doubled
         \/ phase' \in {"idle", "chunk"} /\ (phase' = "idle" => chunkSize = 0) /\ Disturbance
  BY DEF FetchVisibilities, CompareAccess, ReadFails, ChunkEnds, platformVars, chunkVars
<1>2. ReadInv'
  <2>1. doubled \subseteq granted
    BY DEF OrderInv, HandlerInv, SteadyInv, VisTypeOK
  <2> QED
    BY <1>1, <2>1, NoFailure DEF OrderInv, ReadInv, InChunk, RoundFrame, WantedBrokers, Served
<1>3. intact' => AwaitingProxies \subseteq AwaitingProxies' /\ Unsettled \subseteq Unsettled'
  BY <1>1, NoFailure DEF AwaitingProxies, Unsettled, UnderWay, InChunk
<1>4. ArrivalInv' /\ AgreementInv'
  BY <1>1, <1>3, AccessStays
<1>5. ChunkInv'
  <2>1. SUFFICES ASSUME intact', NEW g \in Grants, BrokerOf[g[1]] \in Served(WantedBrokers \cap UnderWay)', Silent(g, 1)'
                 PROVE  (/\ phase \in {"compare", "deleting", "creating"} => (g \in granted <=> SMGrants(g))
                         /\ phase \in {"deleting", "creating"} => (g \in granted \ access => g \in creating)
                         /\ phase = "deleting" => (g \in deleting => g \notin granted) /\ (g \in access \ granted => g \in deleting)
                         /\ phase = "creating" => (g \in access => g \in granted))'
    BY Zenon DEF ChunkInv
  <2>2. intact /\ ~Disturbance /\ phase' \in {"compare", "deleting"} /\ BrokerOf[g[1]] \in Served(WantedBrokers \cap chunk) /\ Silent(g, 1)
    BY <1>1, <2>1, NoFailure, SilentStays DEF RoundFrame, WantedBrokers, Served, UnderWay, InChunk
  <2>3. SMGrants(g)' <=> SMGrants(g)
    BY SMGrantsStays DEF RoundFrame
  <2>4. CASE phase = "fetch"
    <3>1. phase' = "compare" /\ granted' = GrantedBy(plans \cap PlansOf(chunk))
      BY <1>1, <2>2, <2>4
    <3>2. VisTypeOK /\ chunk \subseteq wanted /\ PlansOf(wanted \cap known) \subseteq plans
      BY <2>4 DEF OrderInv, HandlerInv, SteadyInv, VisTypeOK, ReadInv
    <3>3. g[1] \in plans \cap PlansOf(chunk)
      BY <2>2, <3>2, GrantPlan DEF PlansOf, WantedBrokers, Served
    <3>4. SMGrants(g) => g \in GrantedBy(plans \cap PlansOf(chunk))
      BY <3>2, <3>3, GrantedOnlyIf, GrantedIf DEF SMGrants
    <3>5. g \in GrantedBy(plans \cap PlansOf(chunk)) => SMGrants(g)
      <4>1. plans \cap PlansOf(chunk) \subseteq Plans
        BY DEF PlansOf
      <4> QED
        BY <3>2, <4>1, GrantedOnlyIf, GrantedIf DEF SMGrants
    <3> QED
      BY <2>3, <3>1, <3>4, <3>5
  <2>5. CASE phase = "compare"
    <3>1. /\ phase' = "deleting" /\ UNCHANGED <<granted, access>>
          /\ deleting' = Restricted(access, chunk) \ granted
          /\ creating' = (granted \ access) \cup doubled
      BY <1>1, <2>2, <2>5
    <3>2. g \in granted <=> SMGrants(g)
      BY <2>2, <2>5 DEF OrderInv, ChunkInv, UnderWay, InChunk
    <3>3. g \in access => g \in Restricted(access, chunk)
      BY <2>2 DEF Restricted, Served
    <3> QED
      BY <2>3, <3>1, <3>2, <3>3
  <2> QED
    BY <1>1, <2>4, <2>5
<1> QED
  BY <1>2, <1>4, <1>5

LEMMA CallsOrder ==
  ASSUME OrderInv, HandlerInv', RoundFrame, NEW h \in Grants, DeleteVisibility(h) \/ CreateVisibility(h)
  PROVE  ReadInv' /\ ArrivalInv' /\ AgreementInv' /\ ChunkInv'
<1>1. /\ UNCHANGED <<registered, chunkSize, full, phase, wanted, plans, rest, chunk, granted>>
      /\ phase \in {"deleting", "creating"}
  BY DEF DeleteVisibility, CreateVisibility
<1>2. /\ phase = "deleting" => /\ h \in deleting /\ deleting' = deleting \ {h} /\ UNCHANGED creating
                               /\ Called(h, Disable(h))
      /\ phase = "creating" => /\ h \in creating /\ creating' = creating \ {h} /\ UNCHANGED deleting
                               /\ Called(h, Enable(h))
  BY DEF DeleteVisibility, CreateVisibility
<1>3. BrokerOf[h[1]] \in chunk /\ chunk \subseteq wanted /\ full
  BY <1>1, <1>2 DEF OrderInv, HandlerInv, SteadyInv, VisTypeOK, ChunkOnly, HealInv
<1>4. intact' => /\ phase = "deleting" => Disable(h) /\ UNCHANGED failed
                 /\ phase = "creating" => IF Refused(h) THEN UNCHANGED access ELSE Enable(h)
  <2>1. SUFFICES ASSUME intact'
                 PROVE  /\ phase = "deleting" => Disable(h) /\ UNCHANGED failed
                        /\ phase = "creating" => IF Refused(h) THEN UNCHANGED access ELSE Enable(h)
    OBVIOUS
  <2>2. intact /\ ~Disturbance
    BY <2>1, NoFailure
  <2>3. phase = "deleting" => ~Refused(h)
    BY <1>2 DEF OrderInv, HandlerInv, SteadyInv, ChunkOnly
  <2> QED
    BY <1>1, <1>2, <2>2, <2>3 DEF Called
<1>5. ReadInv'
  <2>1. /\ ReadInv /\ WantedBrokers' = WantedBrokers /\ known' = known /\ Served(wanted)' = Served(wanted)
        /\ intact' => intact /\ (phase = "deleting" => UNCHANGED failed)
    BY <1>1, <1>4, NoFailure DEF OrderInv, RoundFrame, WantedBrokers, Served
  <2>2. creating' \subseteq creating /\ (phase = "creating" => UNCHANGED deleting)
    BY <1>1, <1>2
  <2> QED
    BY <1>1, <2>1, <2>2 DEF ReadInv, InChunk
<1>6. ArrivalInv'
  <2>1. SUFFICES ASSUME intact', NEW b \in Served(WantedBrokers)' \ (registered' \cup AwaitingProxies')
                 PROVE  \E i \in 1..Len(queue') : Arriving(b, i)'
    BY DEF ArrivalInv
  <2>2. intact /\ b \in Served(WantedBrokers) \ (registered \cup AwaitingProxies)
    BY <1>1, <2>1 DEF RoundFrame, WantedBrokers, Served, AwaitingProxies
  <2>3. PICK i \in 1..Len(queue) : Arriving(b, i)
    BY <2>2 DEF OrderInv, ArrivalInv
  <2>4. Arriving(b, i)'
    BY <2>3 DEF Arriving, RoundFrame
  <2> QED
    BY <2>4 DEF RoundFrame
<1>7. AgreementInv'
  <2>1. SUFFICES ASSUME intact', NEW g \in Grants, BrokerOf[g[1]] \in Served(WantedBrokers \ Unsettled)', Silent(g, 1)', g \notin Left'
                 PROVE  Agreed(g)'
    BY DEF AgreementInv
  <2>2. chunk \subseteq Unsettled /\ Unsettled' = Unsettled
    BY <1>1, <1>3 DEF Unsettled, UnderWay, InChunk
  <2>3. intact /\ BrokerOf[g[1]] \in Served(WantedBrokers \ Unsettled) /\ Silent(g, 1) /\ g \notin Left
    BY <1>1, <2>1, <2>2, SilentStays DEF RoundFrame, WantedBrokers, Served, Left
  <2>4. Agreed(g)
    BY <2>3 DEF OrderInv, AgreementInv
  <2>5. g # h
    BY <1>3, <2>2, <2>3 DEF Served
  <2>6. g \in access' <=> g \in access
    BY <1>1, <1>4, <2>1, <2>5 DEF Disable, Enable
  <2> QED
    BY <2>4, <2>6, SMGrantsStays DEF Agreed, RoundFrame
<1>8. ChunkInv'
  <2>1. SUFFICES ASSUME intact', NEW g \in Grants, BrokerOf[g[1]] \in Served(WantedBrokers \cap UnderWay)', Silent(g, 1)'
                 PROVE  (/\ phase \in {"compare", "deleting", "creating"} => (g \in granted <=> SMGrants(g))
                         /\ phase \in {"deleting", "creating"} => (g \in granted \ access => g \in creating)
                         /\ phase = "deleting" => (g \in deleting => g \notin granted) /\ (g \in access \ granted => g \in deleting)
                         /\ phase = "creating" => (g \in access => g \in granted))'
    BY Zenon DEF ChunkInv
  <2>2. intact /\ BrokerOf[g[1]] \in Served(WantedBrokers \cap UnderWay) /\ Silent(g, 1)
    BY <1>1, <2>1, SilentStays DEF RoundFrame, WantedBrokers, Served, UnderWay, InChunk
  <2>3. SMGrants(g)' <=> SMGrants(g)
    BY SMGrantsStays DEF RoundFrame
  <2>4. /\ g \in granted <=> SMGrants(g)
        /\ g \in granted \ access => g \in creating
        /\ phase = "deleting" => (g \in deleting => g \notin granted) /\ (g \in access \ granted => g \in deleting)
        /\ phase = "creating" => (g \in access => g \in granted)
    BY <1>1, <2>2 DEF OrderInv, ChunkInv
  <2>5. CASE phase = "deleting"
    <3>1. /\ deleting' = deleting \ {h} /\ UNCHANGED creating /\ access' = access \ {h} /\ h \in deleting
      BY <1>2, <1>4, <2>1, <2>5 DEF Disable
    <3> QED
      BY <1>1, <2>3, <2>4, <2>5, <3>1
  <2>6. CASE phase = "creating"
    <3>1. /\ creating' = creating \ {h} /\ h \in creating
          /\ access' = IF Refused(h) THEN access ELSE access \cup {h}
      BY <1>2, <1>4, <2>1, <2>6 DEF Enable
    <3>2. h \in granted
      BY <2>6, <3>1 DEF OrderInv, ReadInv
    <3>3. ~Refused(g)
      BY <1>1, <1>3, <2>2, <2>6 DEF OrderInv, ReadInv, InChunk, UnderWay, HandlerInv, SteadyInv, VisTypeOK, Served, Refused
    <3> QED
      BY <1>1, <2>3, <2>4, <2>6, <3>1, <3>2, <3>3
  <2> QED
    BY <1>1, <2>5, <2>6
<1> QED
  BY <1>5, <1>6, <1>7, <1>8

LEMMA AwaitsOrder ==
  ASSUME OrderInv, HandlerInv', RoundFrame, AwaitDeletions \/ AwaitCreations
  PROVE  ReadInv' /\ ArrivalInv' /\ AgreementInv' /\ ChunkInv'
<1>1. /\ UNCHANGED <<registered, access, chunkSize, full, wanted, plans, rest, chunk, granted, deleting, creating, failed>>
      /\ phase \in {"deleting", "creating"} /\ full
      /\ \/ phase = "deleting" /\ deleting = {} /\ ~failed /\ phase' = "creating"
         \/ phase = "deleting" /\ failed /\ phase' = IF chunkSize = 0 THEN "idle" ELSE "chunk"
         \/ phase = "creating" /\ creating = {} /\ phase' = IF chunkSize = 0 THEN "idle" ELSE "chunk"
  BY DEF AwaitDeletions, AwaitCreations, ChunkEnds, platformVars, chunkVars, OrderInv, HandlerInv, HealInv
<1>2. ReadInv'
  BY <1>1, NoFailure DEF OrderInv, ReadInv, InChunk, RoundFrame, WantedBrokers, Served
<1>3. intact' => intact /\ (phase = "deleting" => ~failed)
  BY <1>1, NoFailure DEF OrderInv, ReadInv
<1>4. CASE phase' = "creating"
  <2>1. phase = "deleting" /\ deleting = {}
    BY <1>1, <1>4
  <2>2. ArrivalInv' /\ AgreementInv'
    BY <1>1, <1>4, AccessStays DEF AwaitingProxies, Unsettled, UnderWay, InChunk
  <2>3. ChunkInv'
    <3>1. SUFFICES ASSUME intact', NEW g \in Grants, BrokerOf[g[1]] \in Served(WantedBrokers \cap UnderWay)', Silent(g, 1)'
                   PROVE  (/\ g \in granted <=> SMGrants(g)
                           /\ g \in granted \ access => g \in creating
                           /\ g \in access => g \in granted)'
      BY <1>4, Zenon DEF ChunkInv
    <3>2. intact /\ BrokerOf[g[1]] \in Served(WantedBrokers \cap UnderWay) /\ Silent(g, 1)
      BY <1>1, <1>4, <3>1, SilentStays DEF RoundFrame, WantedBrokers, Served, UnderWay, InChunk
    <3>3. SMGrants(g)' <=> SMGrants(g)
      BY SMGrantsStays DEF RoundFrame
    <3> QED
      BY <1>1, <2>1, <3>2, <3>3 DEF OrderInv, ChunkInv
  <2> QED
    BY <1>2, <2>2, <2>3
<1>5. CASE phase' # "creating"
  <2>1. phase' \in {"idle", "chunk"} /\ (phase' = "idle" => rest = {})
    BY <1>1, <1>5 DEF OrderInv, ReadInv, InChunk
  <2>2. ChunkInv'
    BY <2>1 DEF ChunkInv, UnderWay, InChunk
  <2>3. ArrivalInv'
    <3>1. SUFFICES ASSUME intact', NEW b \in Served(WantedBrokers)' \ (registered' \cup AwaitingProxies')
                   PROVE  \E i \in 1..Len(queue') : Arriving(b, i)'
      BY DEF ArrivalInv
    <3>2. intact /\ b \in Served(WantedBrokers) \ (registered \cup AwaitingProxies)
      BY <1>1, <3>1 DEF RoundFrame, WantedBrokers, Served, AwaitingProxies
    <3>3. PICK i \in 1..Len(queue) : Arriving(b, i)
      BY <3>2 DEF OrderInv, ArrivalInv
    <3>4. Arriving(b, i)'
      BY <3>3 DEF Arriving, RoundFrame
    <3> QED
      BY <3>4 DEF RoundFrame
  <2>4. AgreementInv'
    <3>1. SUFFICES ASSUME intact', NEW g \in Grants, BrokerOf[g[1]] \in Served(WantedBrokers \ Unsettled)', Silent(g, 1)', g \notin Left'
                   PROVE  Agreed(g)'
      BY DEF AgreementInv
    <3>2. /\ intact /\ (phase = "deleting" => ~failed) /\ Silent(g, 1) /\ g \notin Left
          /\ BrokerOf[g[1]] \in WantedBrokers /\ BrokerOf[g[1]] \notin kept \ registered
      BY <1>1, <1>3, <3>1, SilentStays DEF RoundFrame, WantedBrokers, Served, Left
    <3>3. phase = "creating" /\ creating = {}
      BY <1>1, <1>5, <3>2
    <3>4. BrokerOf[g[1]] \notin rest
      BY <1>1, <2>1, <3>1 DEF Served, Unsettled, UnderWay, InChunk
    <3>5. CASE BrokerOf[g[1]] \in chunk
      <4>1. (g \in granted <=> SMGrants(g)) /\ (g \in granted \ access => g \in creating) /\ (g \in access => g \in granted)
        BY <3>2, <3>3, <3>5 DEF OrderInv, ChunkInv, UnderWay, InChunk, Served
      <4> QED
        BY <1>1, <3>3, <4>1, SMGrantsStays DEF Agreed, RoundFrame
    <3>6. CASE BrokerOf[g[1]] \notin chunk
      <4>1. Agreed(g)
        BY <1>1, <3>2, <3>3, <3>4, <3>6 DEF OrderInv, AgreementInv, Unsettled, UnderWay, InChunk, Served
      <4> QED
        BY <1>1, <4>1, SMGrantsStays DEF Agreed, RoundFrame
    <3> QED
      BY <3>5, <3>6
  <2> QED
    BY <1>2, <2>2, <2>3, <2>4
<1> QED
  BY <1>4, <1>5

LEMMA ResyncGoesOnOrder == ASSUME OrderInv, HandlerInv', ResyncGoesOn PROVE OrderInv'
<1>1. HandlerTypeOK /\ SteadyInv /\ UsedInv /\ NewsInv /\ DutyInv
  BY DEF OrderInv, HandlerInv
<1>2. Round /\ UNCHANGED <<queue, used, job>> /\ intact' = (intact /\ disturbances' = disturbances)
  BY DEF ResyncGoesOn
<1>3. /\ UNCHANGED <<known, sm, wanted, kept>> /\ registered' \subseteq registered \cup wanted
      /\ registered' \cap kept \subseteq registered
  <2>1. CASE FetchPlans \/ FetchFails \/ ReconcileBrokers
    BY <2>1 DEF FetchPlans, FetchFails, ReconcileBrokers, RegistrationsBecome, Served, smVars, platformVars
  <2>2. CASE NextChunk \/ FetchVisibilities \/ CompareAccess \/ AwaitDeletions \/ AwaitCreations \/ ReadFails
    BY <2>2 DEF NextChunk, FetchVisibilities, CompareAccess, AwaitDeletions, AwaitCreations, ReadFails, smVars, platformVars
  <2>3. CASE \E g \in Grants : DeleteVisibility(g) \/ CreateVisibility(g)
    BY <2>3 DEF DeleteVisibility, CreateVisibility, smVars
  <2> QED
    BY <1>2, <2>1, <2>2, <2>3 DEF Round, RoundStep
<1>4. RoundFrame
  BY <1>2, <1>3 DEF RoundFrame
<1>5. ReadInv' /\ ArrivalInv' /\ AgreementInv' /\ ChunkInv'
  BY <1>2, <1>4, PlansOrder, ReconcileOrder, NextChunkOrder, ReadsOrder, CallsOrder, AwaitsOrder DEF Round, RoundStep
<1>6. UsedInv'
  BY <1>1, <1>2, <1>3 DEF UsedInv
<1>7. NewsInv'
  BY <1>1, <1>2, <1>3, NewsStays
<1>8. DutyInv'
  <2>1. SUFFICES ASSUME job # NoJob, intact
                 PROVE  IF job.note.kind = "create" THEN NamedBroker(job.note) \notin Served(known)
                        ELSE /\ TrueNews(job.note, 1)'
                             /\ job.at \in {"disableOld", "enableNew"} => job.note.old.plan # job.note.new.plan
    <3>1. ASSUME NEW b, b \notin Served(known)
          PROVE  b \notin Served(known)'
      BY <1>3, <3>1, ServedBefore DEF Served
    <3> QED
      BY <1>2, <1>3, <3>1 DEF DutyInv, TrueNews, ToldTruly
  <2>2. PICK note : note = job.note
    OBVIOUS
  <2>3. job.note.kind # "create" => TrueNews(note, 1)'
    <3>1. job.note.kind # "create" => TrueNews(note, 1)
      BY <1>1, <2>1, <2>2 DEF DutyInv
    <3> QED
      BY <1>2, <1>3, <3>1, TrueNewsStays, SilentStays
  <2> QED
    BY <1>1, <1>2, <2>1, <2>2, <2>3 DEF DutyInv, TrueNews, ToldTruly
<1> QED
  BY <1>5, <1>6, <1>7, <1>8 DEF OrderInv

-----------------------------------------------------------------------------
(* The notifications are handled.                                          *)

LEMMA AskedIsGranted ==
  ASSUME NEW v \in Visibility, ~v.bound => v.scopes = {}
  PROVE  Asked(v.plan, v.scopes) = GrantsOf(v)
  BY DEF Asked, GrantsOf

\* The grants to scopes that an update adds, and those to scopes that it removes.
Added(old, new) == {new.plan} \X (new.scopes \ old.scopes)
Removed(old, new) == {new.plan} \X (old.scopes \ new.scopes)

\* The calls for a plain update begin and end what is to begin and to end.
LEMMA UpdateGrants ==
  ASSUME NEW old \in Visibility, NEW new \in Visibility, CarriedOut(old, new)
  PROVE  /\ BrokerOf[old.plan] = BrokerOf[new.plan] /\ new.bound
         /\ Asked(new.plan, new.scopes) = GrantsOf(new)
         /\ Asked(old.plan, old.scopes) = GrantsOf(old)
         /\ Added(old, new) \subseteq GrantsOf(new) /\ Added(old, new) \subseteq Begins(old, new) /\ Removed(old, new) \subseteq Ends(old, new)
         /\ old.plan = new.plan => Begins(old, new) \cup Ends(old, new) = Added(old, new) \cup Removed(old, new)
         /\ old.plan # new.plan => Begins(old, new) = GrantsOf(new) /\ Ends(old, new) = GrantsOf(old) \cup Removed(old, new)
<1>0. PICK added, removed : /\ added = Added(old, new) /\ removed = Removed(old, new)
                            /\ added = {new.plan} \X (new.scopes \ old.scopes)
                            /\ removed = {new.plan} \X (old.scopes \ new.scopes)
  BY DEF Added, Removed
<1>1. old # None /\ new # None
  BY NoneIsNoVisibility
<1>2. /\ ~old.bound => old.scopes = {}
      /\ new.bound /\ BrokerOf[old.plan] = BrokerOf[new.plan]
      /\ old.plan = new.plan => ((old.scopes = {}) <=> (new.scopes = {}))
  BY <1>1 DEF CarriedOut
<1>3. Asked(new.plan, new.scopes) = GrantsOf(new) /\ Asked(old.plan, old.scopes) = GrantsOf(old)
  BY <1>2, AskedIsGranted
<1>4. /\ new.scopes = {} => GrantsOf(new) = {<<new.plan, Public>>}
      /\ new.scopes # {} => GrantsOf(new) = {new.plan} \X new.scopes
      /\ old.scopes = {} => GrantsOf(old) = {<<old.plan, Public>>}
      /\ old.scopes # {} => GrantsOf(old) = {old.plan} \X old.scopes
  BY <1>2, GrantsOfScopes
<1>5. old.scopes \subseteq Scopes /\ new.scopes \subseteq Scopes /\ Public \notin Scopes
  BY ScopeAssumption DEF Visibility
<1>6. /\ Begins(old, new) = GrantsOf(new) \ GrantsOf(old)
      /\ Ends(old, new) = (GrantsOf(old) \cup removed) \ GrantsOf(new)
  BY <1>0, <1>1 DEF Begins, Ends
<1>7. added \subseteq GrantsOf(new)
  BY <1>0, <1>4
<1>8. removed \cap GrantsOf(new) = {}
  BY <1>0, <1>4, <1>5
<1>9. CASE old.plan = new.plan
  <2>1. CASE old.scopes = {}
    <3>1. new.scopes = {} /\ GrantsOf(old) = GrantsOf(new) /\ added = {} /\ removed = {}
      BY <1>0, <1>2, <1>4, <1>9, <2>1
    <3> QED
      BY <1>0, <1>2, <1>3, <1>6, <1>9, <3>1
  <2>2. CASE old.scopes # {}
    <3>1. new.scopes # {} /\ GrantsOf(old) = {new.plan} \X old.scopes /\ GrantsOf(new) = {new.plan} \X new.scopes
      BY <1>2, <1>4, <1>9, <2>2
    <3>2. Begins(old, new) = added /\ Ends(old, new) = removed
      BY <1>0, <1>6, <3>1
    <3> QED
      BY <1>0, <1>2, <1>3, <1>7, <1>9, <3>2
  <2> QED
    BY <2>1, <2>2
<1>10. CASE old.plan # new.plan
  <2>1. GrantsOf(old) \cap GrantsOf(new) = {}
    BY <1>10, GrantsOfType
  <2>2. Begins(old, new) = GrantsOf(new) /\ Ends(old, new) = GrantsOf(old) \cup removed
    BY <1>6, <1>8, <2>1
  <2> QED
    BY <1>0, <1>2, <1>3, <1>7, <1>10, <2>2
<1> QED
  BY <1>9, <1>10

\* Between resyncs a broker without a proxy is not wanted, or kept, or not yet concerned.
LEMMA NoProxyNotWanted ==
  ASSUME OrderInv, phase = "idle", intact, NEW b, b \notin registered,
         \/ job # NoJob /\ b \in Concerned(job.note)
         \/ queue # <<>> /\ b \in Concerned(queue[1]) /\ queue[1].kind # "brokerUp"
  PROVE  b \notin Served(WantedBrokers)
<1> SUFFICES ASSUME b \in Served(WantedBrokers) PROVE FALSE
  OBVIOUS
<1>1. PICK i \in 1..Len(queue) : Arriving(b, i)
  BY DEF OrderInv, ArrivalInv, AwaitingProxies
<1>2. i = 1 \/ 1 \in 1..i - 1
  BY DEF OrderInv, HandlerInv, HandlerTypeOK
<1> QED
  BY <1>1, <1>2 DEF Arriving

\* What it takes to take the first notification.
LEMMA TakeOrder ==
  ASSUME OrderInv, HandlerInv', NEW kind, Take(kind), NEW note, note = Head(queue),
         registered' \subseteq registered \cup Concerned(note),
         UNCHANGED kept, registered' \cap kept \subseteq registered,
         job' # NoJob => job'.note = note,
         intact' => intact,
         intact' => WantedBrokers \cap registered \subseteq registered',
         intact' /\ note.kind = "brokerUp" /\ note.broker \in Served(WantedBrokers) => note.broker \in registered',
         intact' => \A g \in Grants : BrokerOf[g[1]] \in Served(WantedBrokers) =>
             /\ g \notin Says(note) => (g \in access' <=> g \in access)
             /\ g \in Says(note) \ Left' => note.plain /\ (g \in access' <=> g \in Begins(note.old, note.new)),
         intact' /\ job' # NoJob =>
             IF note.kind = "create" THEN NamedBroker(note) \notin Served(known)
             ELSE /\ note.plain /\ ~OfBroker(note)
                  /\ job'.at \in {"disableOld", "enableNew"} => note.old.plan # note.new.plan
  PROVE  OrderInv'
<1>1. /\ UNCHANGED <<known, sm, chunkSize, full, phase, wanted, plans, rest, failed, deleting, creating, used>>
      /\ phase = "idle" /\ job = NoJob /\ queue # <<>> /\ queue' = Tail(queue)
  BY DEF Take, smVars, chunkVars
<1>2. HandlerTypeOK /\ UsedInv /\ ArrivalInv /\ NewsInv /\ ReadInv /\ AgreementInv /\ queue \in Seq(Note)
  BY DEF OrderInv, HandlerInv, HandlerTypeOK
<1>3. Shortened(1) /\ note = queue[1] /\ Len(queue) >= 1 /\ Len(queue) \in Nat
  BY <1>1, <1>2 DEF Shortened
<1>4. WantedBrokers' = WantedBrokers
  BY <1>1 DEF WantedBrokers
<1>5. 1 \in 1..Len(queue) /\ note \in Note /\ Shaped(note) /\ Concerned(note) \subseteq used
  BY <1>2, <1>3, QueueShaped DEF UsedInv, OrderInv
<1>6. UsedInv'
  <2>1. registered' \cup wanted' \subseteq used
    BY <1>1, <1>2, <1>5 DEF UsedInv
  <2>2. job' # NoJob => Concerned(job'.note) \subseteq used
    BY <1>5
  <2> QED
    BY <1>1, <1>2, <1>3, <2>1, <2>2, UsedShift
<1>7. ArrivalInv'
  <2>1. SUFFICES ASSUME intact', NEW b \in Served(WantedBrokers)' \ (registered' \cup AwaitingProxies')
                 PROVE  \E i \in 1..Len(queue') : Arriving(b, i)'
    BY DEF ArrivalInv
  <2>2. b \in Served(WantedBrokers) /\ b \notin registered' /\ b \notin registered
    <3>1. b \in WantedBrokers /\ b \notin registered' /\ b \notin (kept \ registered)'
      BY <1>4, <2>1 DEF Served
    <3> QED
      BY <2>1, <3>1, ServedBefore
  <2>3. PICK i \in 1..Len(queue) : Arriving(b, i)
    BY <1>1, <1>2, <2>1, <2>2 DEF ArrivalInv, AwaitingProxies
  <2>4. i # 1
    BY <1>3, <2>1, <2>2, <2>3 DEF Arriving
  <2>5. PICK k : k = i - 1
    OBVIOUS
  <2>6. k \in 1..Len(queue') /\ queue'[k] = queue[i] /\ 1 \in 1..i - 1
    BY <1>3, <2>3, <2>4, <2>5 DEF Shortened
  <2>7. b \notin Concerned(note)
    BY <1>3, <2>3, <2>6 DEF Arriving
  <2>8. \A j \in 1..k - 1 : queue'[j] = queue[j + 1] /\ j + 1 \in 1..i - 1
    BY <1>3, <2>3, <2>5, <2>6 DEF Shortened
  <2>9. Arriving(b, k)'
    BY <2>3, <2>6, <2>7, <2>8 DEF Arriving
  <2> QED
    BY <2>6, <2>9
<1>8. NewsInv'
  BY <1>1, <1>2, <1>3, NewsShift
<1>9. \A g : Silent(g, 1)' <=> Silent(g, 2)
  BY <1>3, SilentShift
<1>10. ~OfBroker(note) /\ note.plain => TrueNews(note, 2)
  BY <1>2, <1>3, <1>5 DEF NewsInv
<1>11. DutyInv'
  <2>1. SUFFICES ASSUME job' # NoJob, intact'
                 PROVE  IF note.kind = "create" THEN NamedBroker(note) \notin Served(known)'
                        ELSE /\ TrueNews(note, 1)'
                             /\ job'.at \in {"disableOld", "enableNew"} => note.old.plan # note.new.plan
    BY DEF DutyInv, TrueNews, ToldTruly
  <2>2. note.kind # "create" => TrueNews(note, 1)'
    BY <1>1, <1>9, <1>10, <2>1, TrueNewsStays
  <2>3. NamedBroker(note) \notin Served(known) => NamedBroker(note) \notin Served(known)'
    BY <1>1, ServedBefore DEF Served
  <2> QED
    BY <2>1, <2>2, <2>3
<1>12. ReadInv'
  BY <1>1, <1>2 DEF ReadInv, InChunk
<1>13. AgreementInv'
  <2>1. SUFFICES ASSUME intact', NEW g \in Grants, BrokerOf[g[1]] \in Served(WantedBrokers \ Unsettled)', Silent(g, 1)', g \notin Left'
                 PROVE  Agreed(g)'
    BY DEF AgreementInv
  <2>2. BrokerOf[g[1]] \in Served(WantedBrokers) /\ BrokerOf[g[1]] \in known /\ Silent(g, 2) /\ intact
    <3>1. BrokerOf[g[1]] \in WantedBrokers /\ BrokerOf[g[1]] \notin (kept \ registered)'
      BY <1>4, <2>1 DEF Served
    <3>2. BrokerOf[g[1]] \in Served(WantedBrokers)
      BY <3>1, ServedBefore
    <3> QED
      BY <1>9, <2>1, <3>1, <3>2 DEF WantedBrokers
  <2>3. SMGrants(g)' <=> SMGrants(g)
    BY <1>1, SMGrantsStays
  <2>4. CASE g \in Says(note)
    <3>1. note.plain /\ (g \in access' <=> g \in Begins(note.old, note.new))
      BY <2>1, <2>2, <2>4
    <3>2. ToldTruly(note, g)
      BY <1>5, <1>10, <2>2, <2>4, <3>1, SaysType DEF TrueNews
    <3> QED
      BY <2>2, <2>3, <2>4, <3>1, <3>2 DEF ToldTruly, Agreed
  <2>5. CASE g \notin Says(note)
    <3>1. Silent(g, 1)
      <4>1. \A i \in 1..Len(queue) : i = 1 \/ i \in 2..Len(queue)
        BY <1>3
      <4> QED
        BY <1>3, <2>2, <2>5, <4>1 DEF Silent
    <3>2. Agreed(g)
      BY <1>1, <1>2, <2>2, <3>1 DEF AgreementInv, Unsettled, Left, Served
    <3> QED
      BY <2>1, <2>2, <2>3, <2>5, <3>2 DEF Agreed
  <2> QED
    BY <2>4, <2>5
<1>14. ChunkInv'
  BY <1>1 DEF ChunkInv, UnderWay, InChunk
<1> QED
  BY <1>6, <1>7, <1>8, <1>11, <1>12, <1>13, <1>14 DEF OrderInv

\* What it takes to go on with a job.
LEMMA CallOrder ==
  ASSUME OrderInv, HandlerInv', NEW step, Calling(step), NEW note, note = job.note,
         job' # NoJob => job'.note = note,
         intact' => intact,
         intact' => \A g \in Grants : BrokerOf[g[1]] \in Served(WantedBrokers) =>
             /\ g \notin Left => g \notin Left' /\ (g \in access' <=> g \in access)
             /\ g \in Left \ Left' => /\ note.kind = "update" /\ g \in Says(note)
                                      /\ g \in access' <=> g \in Begins(note.old, note.new),
         intact' /\ job' # NoJob /\ job'.at \in {"disableOld", "enableNew"} => note.old.plan # note.new.plan
  PROVE  OrderInv'
<1>1. /\ UNCHANGED <<known, sm, registered, kept, chunkSize, full, phase, wanted, plans, rest, failed, deleting, creating, queue, used>>
      /\ phase = "idle" /\ job # NoJob
  BY DEF Calling, smVars, chunkVars, At
<1>2. HandlerTypeOK /\ UsedInv /\ ArrivalInv /\ NewsInv /\ DutyInv /\ ReadInv /\ AgreementInv
  BY DEF OrderInv, HandlerInv
<1>3. WantedBrokers' = WantedBrokers /\ Served(WantedBrokers)' = Served(WantedBrokers) /\ Served(known)' = Served(known)
  BY <1>1 DEF WantedBrokers, Served
<1>4. UsedInv'
  BY <1>1, <1>2 DEF UsedInv
<1>5. ArrivalInv'
  <2>1. SUFFICES ASSUME intact', NEW b \in Served(WantedBrokers)' \ (registered' \cup AwaitingProxies')
                 PROVE  \E i \in 1..Len(queue') : Arriving(b, i)'
    BY DEF ArrivalInv
  <2>2. PICK i \in 1..Len(queue) : Arriving(b, i)
    BY <1>1, <1>2, <1>3, <2>1 DEF ArrivalInv, AwaitingProxies
  <2>3. Arriving(b, i)'
    BY <1>1, <2>2 DEF Arriving
  <2> QED
    BY <1>1, <2>3
<1>6. NewsInv'
  BY <1>1, <1>2, NewsStays
<1>7. intact' /\ note.kind # "create" => TrueNews(note, 1)
  BY <1>1, <1>2 DEF DutyInv
<1>8. DutyInv'
  <2>1. SUFFICES ASSUME job' # NoJob, intact'
                 PROVE  IF note.kind = "create" THEN NamedBroker(note) \notin Served(known)'
                        ELSE /\ TrueNews(note, 1)'
                             /\ job'.at \in {"disableOld", "enableNew"} => note.old.plan # note.new.plan
    BY DEF DutyInv, TrueNews, ToldTruly
  <2>2. note.kind # "create" => TrueNews(note, 1)'
    BY <1>1, <1>7, <2>1, TrueNewsStays, SilentStays
  <2>3. note.kind = "create" => NamedBroker(note) \notin Served(known)
    BY <1>1, <1>2, <2>1 DEF DutyInv
  <2> QED
    BY <1>1, <1>3, <2>1, <2>2, <2>3
<1>9. ReadInv'
  BY <1>1, <1>2 DEF ReadInv, InChunk
<1>10. AgreementInv'
  <2>1. SUFFICES ASSUME intact', NEW g \in Grants, BrokerOf[g[1]] \in Served(WantedBrokers \ Unsettled)', Silent(g, 1)', g \notin Left'
                 PROVE  Agreed(g)'
    BY DEF AgreementInv
  <2>2. BrokerOf[g[1]] \in Served(WantedBrokers) /\ BrokerOf[g[1]] \in known /\ Silent(g, 1) /\ intact
    BY <1>1, <1>3, <2>1, SilentStays DEF WantedBrokers, Served
  <2>3. SMGrants(g)' <=> SMGrants(g)
    BY <1>1, SMGrantsStays
  <2>4. CASE g \in Left
    <3>1. /\ note.kind = "update" /\ g \in Says(note)
          /\ g \in access' <=> g \in Begins(note.old, note.new)
      BY <2>1, <2>2, <2>4
    <3>2. ToldTruly(note, g)
      BY <1>7, <2>1, <2>2, <3>1 DEF TrueNews
    <3> QED
      BY <2>2, <2>3, <3>1, <3>2 DEF ToldTruly, Agreed
  <2>5. CASE g \notin Left
    <3>1. Agreed(g)
      BY <1>1, <1>2, <2>2, <2>5 DEF AgreementInv, Unsettled, Served
    <3> QED
      BY <2>1, <2>2, <2>3, <2>5, <3>1 DEF Agreed
  <2> QED
    BY <2>4, <2>5
<1>11. ChunkInv'
  BY <1>1 DEF ChunkInv, UnderWay, InChunk
<1> QED
  BY <1>4, <1>5, <1>6, <1>8, <1>9, <1>10, <1>11 DEF OrderInv

\* The notification that is taken.
LEMMA HeadNews ==
  ASSUME OrderInv, queue # <<>>, NEW note, note = Head(queue)
  PROVE  /\ note \in Note /\ Shaped(note) /\ note = queue[1] /\ 1 \in 1..Len(queue)
         /\ ~OfBroker(note) /\ note.plain => CarriedOut(note.old, note.new) /\ Exact(note.old, note.new, note.patch)
<1>1. queue \in Seq(Note) /\ NewsInv
  BY DEF OrderInv, HandlerInv, HandlerTypeOK
<1>2. note = queue[1] /\ 1 \in 1..Len(queue)
  BY <1>1
<1>3. note \in Note /\ Shaped(note)
  BY <1>2, QueueShaped DEF OrderInv
<1> QED
  BY <1>1, <1>2, <1>3 DEF NewsInv, TrueNews

\* A change that is carried out concerns the broker that the handler names.
LEMMA OneConcerned ==
  ASSUME NEW note \in Note, Shaped(note), ~OfBroker(note), CarriedOut(note.old, note.new) \/ note.kind # "update"
  PROVE  Concerned(note) = {NamedBroker(note)}
<1>1. /\ note.kind \in {"create", "update", "delete"}
      /\ (note.old = None) <=> (note.kind = "create")
      /\ (note.new = None) <=> (note.kind = "delete")
  BY DEF OfBroker, Note, Shaped
<1>2. note.kind = "update" => BrokerOf[note.old.plan] = BrokerOf[note.new.plan]
  BY <1>1 DEF CarriedOut
<1>3. CASE note.kind = "create"
  <2>1. {note.old, note.new} \ {None} = {note.new}
    BY <1>1, <1>3
  <2> QED
    BY <1>1, <1>3, <2>1 DEF Concerned, NamedBroker, PlanOf, OfBroker
<1>4. CASE note.kind = "delete"
  <2>1. {note.old, note.new} \ {None} = {note.old}
    BY <1>1, <1>4
  <2> QED
    BY <1>1, <1>4, <2>1 DEF Concerned, NamedBroker, PlanOf, OfBroker
<1>5. CASE note.kind = "update"
  <2>1. {note.old, note.new} \ {None} = {note.old, note.new}
    BY <1>1, <1>5
  <2> QED
    BY <1>1, <1>2, <1>5, <2>1 DEF Concerned, NamedBroker, PlanOf, OfBroker
<1> QED
  BY <1>1, <1>3, <1>4, <1>5

LEMMA Proceeds ==
  ASSUME HandlerInv', NEW note \in Note, NEW step, Proceed(note, step),
         step \in {"disableOld", "enableNew", "enableAdded", "disableRemoved", "resync"}
  PROVE  job' # NoJob /\ job'.note = note /\ job'.at = step /\ Left' = LeftOf(note, step)
<1>1. disturbances' \in 0..MaxDisturbances
  BY DEF HandlerInv, SteadyInv, VisTypeOK
<1>2. job' \in Job /\ job'.note = note /\ job'.at = step
  BY <1>1 DEF Proceed, Job
<1>3. job' # NoJob
  BY <1>2, JobAssumption
<1> QED
  BY <1>2, <1>3 DEF Left, LeftOf

LEMMA GivesUp == ASSUME GiveUp PROVE job' = NoJob /\ Left' = {}
  BY DEF GiveUp, Left

LEMMA BrokersHandled ==
  ASSUME OrderInv, HandlerInv', BrokerNoted \/ BrokerMissed
  PROVE  OrderInv'
<1> DEFINE b == Head(queue).broker
<1>1. PICK note : note = Head(queue)
  OBVIOUS
<1>2. PICK kind \in {"brokerUp", "brokerDown"} : Take(kind) /\ note.kind = kind
  BY <1>1 DEF BrokerNoted, BrokerMissed, Take
<1>3. queue # <<>> /\ job = NoJob /\ UNCHANGED <<job, known>>
  BY <1>2 DEF Take, BrokerNoted, BrokerMissed, smVars
<1>4. /\ note \in Note /\ note = queue[1] /\ 1 \in 1..Len(queue)
      /\ Says(note) = {} /\ Concerned(note) = {note.broker}
  BY <1>1, <1>2, <1>3, HeadNews DEF Says, Concerned, OfBroker
<1>5. CASE BrokerMissed
  <2>1. UNCHANGED <<registered, kept>> /\ intact' = FALSE
    BY <1>5 DEF BrokerMissed, platformVars
  <2> QED
    BY <1>1, <1>2, <1>3, <2>1, TakeOrder
<1>6. CASE BrokerNoted
  <2>1. /\ \/ note.kind = "brokerUp" /\ registered' = IF note.broker \in Blacklisted \cup kept THEN registered ELSE registered \cup {note.broker}
           \/ note.kind = "brokerDown" /\ registered' = IF note.broker \in Blacklisted THEN registered ELSE registered \ {note.broker}
        /\ access' = Restricted(access, registered') /\ intact' = intact /\ UNCHANGED kept
    BY <1>1, <1>6 DEF BrokerNoted, RegistrationsBecome, Take
  <2>2. note.kind = "brokerDown" => note.broker \notin known
    BY <1>4 DEF OrderInv, UsedInv
  <2>3. WantedBrokers \cap registered \subseteq registered'
    BY <2>1, <2>2 DEF WantedBrokers
  <2>4. registered' \subseteq registered \cup Concerned(note)
    BY <1>4, <2>1
  <2>5. /\ note.kind = "brokerUp" /\ note.broker \in Served(WantedBrokers) => note.broker \in registered'
        /\ registered' \cap kept \subseteq registered
    BY <2>1 DEF WantedBrokers, Served
  <2>6. \A g \in Grants : BrokerOf[g[1]] \in Served(WantedBrokers) => (g \in access' <=> g \in access)
    <3>1. \A g \in access : BrokerOf[g[1]] \in registered
      BY DEF OrderInv, HandlerInv, SteadyInv, Consistent
    <3> QED
      BY <2>1, <2>3, <3>1 DEF Restricted, Served
  <2> QED
    BY <1>1, <1>2, <1>3, <1>4, <2>1, <2>3, <2>4, <2>5, <2>6, TakeOrder
<1> QED
  BY <1>5, <1>6

LEMMA UnnamedOrder ==
  ASSUME OrderInv, HandlerInv', NEW kind \in {"create", "update", "delete"}, Unnamed(kind)
  PROVE  OrderInv'
<1>1. PICK note : note = Head(queue)
  OBVIOUS
<1>2. /\ Take(kind) /\ queue # <<>> /\ note.kind = kind /\ job = NoJob /\ UNCHANGED <<registered, kept, access, job>>
      /\ NamedBroker(note) \in Blacklisted
  BY <1>1 DEF Unnamed, Take, platformVars
<1>3. intact' => intact /\ note.plain
  BY <1>1, Zenon DEF Unnamed
<1>4. note \in Note /\ Shaped(note) /\ ~OfBroker(note) /\ (note.plain => CarriedOut(note.old, note.new))
  BY <1>1, <1>2, HeadNews DEF OfBroker
<1>5. intact' => \A g \in Says(note) : BrokerOf[g[1]] \notin Served(WantedBrokers)
  BY <1>2, <1>3, <1>4, OneConcerned, SaysType DEF WantedBrokers, Served
<1> QED
  BY <1>1, <1>2, <1>3, <1>5, TakeOrder

\* A plan is not found between resyncs only if SM has dropped its broker or the
\* platform keeps it.
LEMMA NotFoundIsGone ==
  ASSUME OrderInv, phase = "idle", intact, NEW p, NEW b, BrokerOf[p] = b, NotFound(p, b), b \notin Blacklisted,
         \/ job # NoJob /\ b \in Concerned(job.note)
         \/ queue # <<>> /\ b \in Concerned(queue[1]) /\ queue[1].kind # "brokerUp"
  PROVE  b \notin Served(known) /\ b \notin Served(WantedBrokers)
<1>1. b \notin registered
  BY DEF NotFound, Reachable
<1> QED
  BY <1>1, NoProxyNotWanted DEF WantedBrokers, Served

LEMMA CreatesOrder == ASSUME OrderInv, HandlerInv', OnCreate PROVE OrderInv'
<1>1. CASE Unnamed("create")
  BY <1>1, UnnamedOrder
<1>2. CASE ~Unnamed("create")
  <2>1. PICK note : note = Head(queue)
    OBVIOUS
  <2>2. PICK b : b = NamedBroker(note)
    OBVIOUS
  <2>3. /\ Named("create") /\ b \notin Blacklisted
        /\ \/ /\ Succeeds(note.new.plan, b, Enabled(note.new.plan, note.new.scopes))
              /\ GiveUp /\ intact' = (intact /\ note.plain)
           \/ /\ \/ NotFound(note.new.plan, b)
                 \/ Breaks(note.new.plan, b, Enabled(note.new.plan, note.new.scopes))
              /\ GiveUp \/ Proceed(note, "resync")
    BY <1>2, <2>1, <2>2 DEF OnCreate, Named
  <2>4. /\ Take("create") /\ queue # <<>> /\ note.kind = "create" /\ job = NoJob /\ UNCHANGED <<registered, kept, known>>
        /\ phase = "idle"
    BY <2>1, <2>3 DEF Named, Take, smVars
  <2>5. /\ note \in Note /\ Shaped(note) /\ ~OfBroker(note) /\ note = queue[1]
        /\ note.plain => CarriedOut(note.old, note.new)
    BY <2>1, <2>4, HeadNews DEF OfBroker
  <2>6. note.old = None /\ note.new \in Visibility /\ note.new # None /\ b = BrokerOf[note.new.plan]
    BY <2>2, <2>4, <2>5, ShapedNote, NoneIsNoVisibility DEF Shaped, NamedBroker
  <2>7. Begins(note.old, note.new) = GrantsOf(note.new) /\ Says(note) = GrantsOf(note.new)
    BY <2>5, <2>6 DEF Says, Begins, Ends
  <2>8. Concerned(note) = {b}
    BY <2>2, <2>4, <2>5, OneConcerned
  <2>9. CASE Succeeds(note.new.plan, b, Enabled(note.new.plan, note.new.scopes)) /\ GiveUp /\ intact' = (intact /\ note.plain)
    <3>1. intact' => intact /\ note.plain
      BY <2>9, Zenon
    <3>2. access' = access \cup Asked(note.new.plan, note.new.scopes) /\ job' = NoJob
      BY <2>9 DEF Succeeds, Enabled, GiveUp
    <3>3. intact' => Asked(note.new.plan, note.new.scopes) = GrantsOf(note.new)
      BY <2>5, <2>6, <3>1, AskedIsGranted DEF CarriedOut
    <3>4. intact' => \A g \in Grants :
            /\ g \notin Says(note) => (g \in access' <=> g \in access)
            /\ g \in Says(note) => note.plain /\ (g \in access' <=> g \in Begins(note.old, note.new))
      BY <2>7, <3>1, <3>2, <3>3
    <3> QED
      BY <2>1, <2>4, <3>1, <3>2, <3>4, TakeOrder
  <2>10. CASE Breaks(note.new.plan, b, Enabled(note.new.plan, note.new.scopes)) /\ (GiveUp \/ Proceed(note, "resync"))
    <3>1. intact' = FALSE
      BY <2>10 DEF Breaks
    <3>2. job' # NoJob => job'.note = note
      BY <2>5, <2>10, Proceeds, GivesUp
    <3> QED
      BY <2>1, <2>4, <3>1, <3>2, TakeOrder
  <2>11. CASE NotFound(note.new.plan, b) /\ (GiveUp \/ Proceed(note, "resync"))
    <3>1. UNCHANGED <<access, intact>>
      BY <2>11 DEF NotFound
    <3>2. job' # NoJob => job'.note = note
      BY <2>5, <2>11, Proceeds, GivesUp
    <3>3. intact => b \notin Served(known) /\ b \notin Served(WantedBrokers)
      BY <2>3, <2>4, <2>5, <2>6, <2>8, <2>11, NotFoundIsGone
    <3>4. intact => \A g \in Says(note) : BrokerOf[g[1]] \notin Served(WantedBrokers)
      BY <2>5, <2>8, <3>3, SaysType
    <3> QED
      BY <2>1, <2>2, <2>4, <3>1, <3>2, <3>3, <3>4, TakeOrder
  <2> QED
    BY <2>3, <2>9, <2>10, <2>11
<1> QED
  BY <1>1, <1>2

LEMMA UpdatesOrder == ASSUME OrderInv, HandlerInv', OnUpdate PROVE OrderInv'
<1>1. CASE Unnamed("update")
  BY <1>1, UnnamedOrder
<1>2. CASE ~Unnamed("update")
  <2>1. PICK note : note = Head(queue)
    OBVIOUS
  <2>2. PICK step : step = IF note.old.plan # note.new.plan THEN "disableOld" ELSE "enableAdded"
    OBVIOUS
  <2>3. Named("update") /\ UNCHANGED access /\ Proceed(note, step) /\ intact' = (intact /\ note.plain)
    BY <1>2, <2>1, <2>2 DEF OnUpdate
  <2>4. Take("update") /\ queue # <<>> /\ note.kind = "update" /\ job = NoJob /\ UNCHANGED <<registered, kept>>
    BY <2>1, <2>3 DEF Named, Take
  <2>5. note \in Note /\ Shaped(note) /\ ~OfBroker(note) /\ (note.plain => CarriedOut(note.old, note.new))
    BY <2>1, <2>4, HeadNews DEF OfBroker
  <2>6. note.old \in Visibility /\ note.new \in Visibility
    BY <2>4, <2>5, ShapedNote
  <2>7. intact' => intact /\ note.plain
    BY <2>3, Zenon
  <2>8. job' # NoJob /\ job'.note = note /\ job'.at = step /\ Left' = LeftOf(note, step)
    BY <2>2, <2>3, <2>5, Proceeds
  <2>9. intact' => Says(note) \subseteq Left'
    <3>1. CASE note.old.plan # note.new.plan
      BY <2>2, <2>8, <3>1 DEF LeftOf
    <3>2. CASE note.old.plan = note.new.plan
      <4>1. Left' = Added(note.old, note.new) \cup Removed(note.old, note.new)
        BY <2>2, <2>8, <3>2 DEF LeftOf, ScopesThat, Added, Removed
      <4>2. intact' => Begins(note.old, note.new) \cup Ends(note.old, note.new)
                       = Added(note.old, note.new) \cup Removed(note.old, note.new)
        BY <2>5, <2>6, <2>7, <3>2, UpdateGrants
      <4> QED
        BY <2>5, <4>1, <4>2 DEF Says
    <3> QED
      BY <3>1, <3>2
  <2>10. job'.at \in {"disableOld", "enableNew"} => note.old.plan # note.new.plan
    BY <2>2, <2>8
  <2> QED
    BY <2>1, <2>3, <2>4, <2>5, <2>7, <2>8, <2>9, <2>10, TakeOrder
<1> QED
  BY <1>1, <1>2

LEMMA DeletesOrder == ASSUME OrderInv, HandlerInv', OnDelete PROVE OrderInv'
<1>1. CASE Unnamed("delete")
  BY <1>1, UnnamedOrder
<1>2. CASE ~Unnamed("delete")
  <2>1. PICK note : note = Head(queue)
    OBVIOUS
  <2>2. PICK b : b = NamedBroker(note)
    OBVIOUS
  <2>3. /\ Named("delete") /\ b \notin Blacklisted /\ GiveUp
        /\ \/ /\ Succeeds(note.old.plan, b, Disabled(note.old.plan, note.old.scopes))
              /\ intact' = (intact /\ note.plain)
           \/ NotFound(note.old.plan, b)
           \/ Breaks(note.old.plan, b, Disabled(note.old.plan, note.old.scopes))
    BY <1>2, <2>1, <2>2 DEF OnDelete, Named
  <2>4. /\ Take("delete") /\ queue # <<>> /\ note.kind = "delete" /\ job = NoJob /\ UNCHANGED <<registered, kept>>
        /\ phase = "idle" /\ job' = NoJob
    BY <2>1, <2>3 DEF Named, Take, GiveUp
  <2>5. /\ note \in Note /\ Shaped(note) /\ ~OfBroker(note) /\ note = queue[1]
        /\ note.plain => CarriedOut(note.old, note.new)
    BY <2>1, <2>4, HeadNews DEF OfBroker
  <2>6. note.new = None /\ note.old \in Visibility /\ note.old # None /\ b = BrokerOf[note.old.plan]
    BY <2>2, <2>4, <2>5, ShapedNote, NoneIsNoVisibility DEF Shaped, NamedBroker, PlanOf
  <2>7. Begins(note.old, note.new) = {} /\ Says(note) = GrantsOf(note.old)
    BY <2>5, <2>6 DEF Says, Begins, Ends
  <2>8. Concerned(note) = {b}
    BY <2>2, <2>4, <2>5, OneConcerned
  <2>9. CASE Succeeds(note.old.plan, b, Disabled(note.old.plan, note.old.scopes)) /\ intact' = (intact /\ note.plain)
    <3>1. intact' => intact /\ note.plain
      BY <2>9, Zenon
    <3>2. access' = access \ Asked(note.old.plan, note.old.scopes)
      BY <2>9 DEF Succeeds, Disabled
    <3>3. intact' => Asked(note.old.plan, note.old.scopes) = GrantsOf(note.old)
      BY <2>5, <2>6, <3>1, AskedIsGranted DEF CarriedOut
    <3>4. intact' => \A g \in Grants :
            /\ g \notin Says(note) => (g \in access' <=> g \in access)
            /\ g \in Says(note) => note.plain /\ (g \in access' <=> g \in Begins(note.old, note.new))
      BY <2>7, <3>1, <3>2, <3>3
    <3> QED
      BY <2>1, <2>4, <3>1, <3>4, TakeOrder
  <2>10. CASE Breaks(note.old.plan, b, Disabled(note.old.plan, note.old.scopes))
    <3>1. intact' = FALSE
      BY <2>10 DEF Breaks
    <3> QED
      BY <2>1, <2>4, <3>1, TakeOrder
  <2>11. CASE NotFound(note.old.plan, b)
    <3>1. UNCHANGED <<access, intact>>
      BY <2>11 DEF NotFound
    <3>2. intact => b \notin Served(WantedBrokers)
      BY <2>3, <2>4, <2>5, <2>6, <2>8, <2>11, NotFoundIsGone
    <3>3. intact => \A g \in Says(note) : BrokerOf[g[1]] \notin Served(WantedBrokers)
      BY <2>5, <2>8, <3>2, SaysType
    <3> QED
      BY <2>1, <2>4, <3>1, <3>3, TakeOrder
  <2> QED
    BY <2>3, <2>9, <2>10, <2>11
<1> QED
  BY <1>1, <1>2

\* What is known of a job for an update.
LEMMA UpdateUnderWay ==
  ASSUME OrderInv, NEW step \in {"disableOld", "enableNew", "enableAdded", "disableRemoved"}, Calling(step),
         NEW note, note = job.note, NEW b, b = NamedBroker(note)
  PROVE  /\ note \in Note /\ note.kind = "update" /\ note.old \in Visibility /\ note.new \in Visibility
         /\ BrokerOf[note.old.plan] = b
         /\ Left = LeftOf(note, step)
         /\ intact => /\ CarriedOut(note.old, note.new) /\ Exact(note.old, note.new, note.patch)
                      /\ step \in {"disableOld", "enableNew"} => note.old.plan # note.new.plan
                      /\ BrokerOf[note.new.plan] = b
                      /\ b \notin registered => b \notin Served(WantedBrokers)
                      /\ \A g \in Says(note) : BrokerOf[g[1]] = b
                      /\ Says(note) = Begins(note.old, note.new) \cup Ends(note.old, note.new)
                      /\ Added(note.old, note.new) \subseteq Says(note) /\ Removed(note.old, note.new) \subseteq Says(note) /\ GrantsOf(note.new) \subseteq Says(note) \cup GrantsOf(note.old)
<1>1. job # NoJob /\ job.at = step /\ phase = "idle"
  BY DEF Calling, At
<1>2. note \in Note /\ Shaped(note) /\ note.kind = "update" /\ Left = LeftOf(note, step)
  BY <1>1, JobShaped DEF OrderInv, Left
<1>3. note.old \in Visibility /\ note.new \in Visibility /\ ~OfBroker(note)
  BY <1>2, ShapedNote DEF OfBroker
<1>4. BrokerOf[note.old.plan] = b
  BY <1>3, NoneIsNoVisibility DEF NamedBroker, PlanOf
<1>5. intact => /\ CarriedOut(note.old, note.new) /\ Exact(note.old, note.new, note.patch)
                /\ (step \in {"disableOld", "enableNew"} => note.old.plan # note.new.plan)
  BY <1>1, <1>2 DEF OrderInv, DutyInv, TrueNews
<1>6. intact => Concerned(note) = {b}
  BY <1>2, <1>3, <1>5, OneConcerned
<1>7. intact => (b \notin registered => b \notin Served(WantedBrokers)) /\ \A g \in Says(note) : BrokerOf[g[1]] = b
  BY <1>1, <1>2, <1>6, NoProxyNotWanted, SaysType
<1>8. Says(note) = Begins(note.old, note.new) \cup Ends(note.old, note.new)
  BY <1>3 DEF Says
<1>9. GrantsOf(note.new) \subseteq Begins(note.old, note.new) \cup GrantsOf(note.old)
  BY <1>3, NoneIsNoVisibility DEF Begins
<1>10. intact => /\ BrokerOf[note.new.plan] = b
                 /\ Added(note.old, note.new) \subseteq Begins(note.old, note.new) /\ Removed(note.old, note.new) \subseteq Ends(note.old, note.new)
  BY <1>3, <1>4, <1>5, UpdateGrants
<1> QED
  BY <1>2, <1>3, <1>4, <1>5, <1>7, <1>8, <1>9, <1>10

\* What a call leaves, however it ends.
LEMMA CallEffect ==
  ASSUME NEW p, NEW b, NEW s,
         \/ Succeeds(p, b, Enabled(p, s)) /\ UNCHANGED intact
         \/ Succeeds(p, b, Disabled(p, s)) /\ UNCHANGED intact
         \/ NotFound(p, b)
         \/ Breaks(p, b, Enabled(p, s)) \/ Breaks(p, b, Disabled(p, s))
  PROVE  intact' => /\ intact
                    /\ \/ UNCHANGED access /\ (BrokerOf[p] = b => b \notin registered)
                       \/ Succeeds(p, b, Enabled(p, s)) \/ Succeeds(p, b, Disabled(p, s))
  BY DEF NotFound, Breaks, Reachable

LEMMA MovesOrder == ASSUME OrderInv, HandlerInv', DisableOld \/ EnableNew PROVE OrderInv'
<1>1. PICK note, b : note = job.note /\ b = NamedBroker(note)
  OBVIOUS
<1>2. PICK added, removed : added = Added(note.old, note.new) /\ removed = Removed(note.old, note.new)
  OBVIOUS
<1>3. CASE DisableOld
  <2>1. /\ Calling("disableOld")
        /\ \/ Succeeds(note.old.plan, b, Disabled(note.old.plan, note.old.scopes)) /\ Proceed(note, "enableNew") /\ UNCHANGED intact
           \/ NotFound(note.old.plan, b) /\ GiveUp
           \/ Breaks(note.old.plan, b, Disabled(note.old.plan, note.old.scopes)) /\ GiveUp
    BY <1>1, <1>3 DEF DisableOld
  <2>2. /\ note \in Note /\ note.kind = "update" /\ note.old \in Visibility /\ note.new \in Visibility
        /\ BrokerOf[note.old.plan] = b /\ Left = Says(note)
        /\ intact => /\ CarriedOut(note.old, note.new) /\ note.old.plan # note.new.plan
                     /\ b \notin registered => b \notin Served(WantedBrokers)
                     /\ \A g \in Says(note) : BrokerOf[g[1]] = b
                     /\ Says(note) = Begins(note.old, note.new) \cup Ends(note.old, note.new)
    BY <1>1, <1>2, <2>1, UpdateUnderWay DEF LeftOf
  <2>3. job' # NoJob => job'.note = note /\ job'.at = "enableNew" /\ Left' = GrantsOf(note.new) \cup removed
    BY <1>2, <2>1, <2>2, Proceeds, GivesUp DEF LeftOf, ScopesThat, Added, Removed
  <2>4. /\ intact' => intact
        /\ intact' => \/ UNCHANGED access /\ b \notin registered /\ Left' = {}
                      \/ access' = access \ Asked(note.old.plan, note.old.scopes) /\ job' # NoJob
    BY <2>1, <2>2, CallEffect, GivesUp, Proceeds DEF NotFound, Reachable, Breaks, Succeeds, Disabled
  <2>5. intact => /\ Asked(note.old.plan, note.old.scopes) = GrantsOf(note.old)
                  /\ Begins(note.old, note.new) = GrantsOf(note.new)
                  /\ Ends(note.old, note.new) = GrantsOf(note.old) \cup removed
    BY <1>2, <2>2, UpdateGrants
  <2>6. intact => GrantsOf(note.old) \cap GrantsOf(note.new) = {}
    BY <2>2, GrantsOfType
  <2>7. ASSUME intact', NEW g \in Grants, BrokerOf[g[1]] \in Served(WantedBrokers)
        PROVE  /\ g \notin Left => g \notin Left' /\ (g \in access' <=> g \in access)
               /\ g \in Left \ Left' => g \in Says(note) /\ (g \in access' <=> g \in Begins(note.old, note.new))
    BY <2>2, <2>3, <2>4, <2>5, <2>6, <2>7
  <2> QED
    BY <1>1, <2>1, <2>2, <2>3, <2>4, <2>7, CallOrder
<1>4. CASE EnableNew
  <2>1. /\ Calling("enableNew")
        /\ \/ Succeeds(note.new.plan, b, Enabled(note.new.plan, note.new.scopes)) /\ Proceed(note, "enableAdded") /\ UNCHANGED intact
           \/ NotFound(note.new.plan, b) /\ GiveUp
           \/ Breaks(note.new.plan, b, Enabled(note.new.plan, note.new.scopes)) /\ GiveUp
    BY <1>1, <1>4 DEF EnableNew
  <2>2. /\ note \in Note /\ note.kind = "update" /\ note.old \in Visibility /\ note.new \in Visibility
        /\ Left = GrantsOf(note.new) \cup removed
        /\ intact => /\ CarriedOut(note.old, note.new) /\ note.old.plan # note.new.plan
                     /\ BrokerOf[note.new.plan] = b
                     /\ b \notin registered => b \notin Served(WantedBrokers)
                     /\ \A g \in Says(note) : BrokerOf[g[1]] = b
                     /\ Says(note) = Begins(note.old, note.new) \cup Ends(note.old, note.new)
    BY <1>1, <1>2, <2>1, UpdateUnderWay DEF LeftOf, ScopesThat, Added, Removed
  <2>3. job' # NoJob => job'.note = note /\ job'.at = "enableAdded" /\ Left' = added \cup removed
    <3>1. ASSUME Proceed(note, "enableAdded")
          PROVE  job'.note = note /\ job'.at = "enableAdded" /\ Left' = LeftOf(note, "enableAdded")
      BY <2>2, <3>1, Proceeds
    <3>2. LeftOf(note, "enableAdded") = added \cup removed
      BY <1>2 DEF LeftOf, ScopesThat, Added, Removed
    <3> QED
      BY <2>1, <3>1, <3>2, GivesUp
  <2>4. /\ intact' => intact
        /\ intact' => \/ UNCHANGED access /\ b \notin registered /\ Left' = {}
                      \/ access' = access \cup Asked(note.new.plan, note.new.scopes) /\ job' # NoJob
    BY <2>1, <2>2, CallEffect, GivesUp, Proceeds DEF NotFound, Reachable, Breaks, Succeeds, Enabled
  <2>5. intact => /\ Asked(note.new.plan, note.new.scopes) = GrantsOf(note.new)
                  /\ added \subseteq GrantsOf(note.new)
                  /\ Begins(note.old, note.new) = GrantsOf(note.new)
                  /\ Ends(note.old, note.new) = GrantsOf(note.old) \cup removed
    BY <1>2, <2>2, UpdateGrants
  <2>6. ASSUME intact', NEW g \in Grants, BrokerOf[g[1]] \in Served(WantedBrokers)
        PROVE  /\ g \notin Left => g \notin Left' /\ (g \in access' <=> g \in access)
               /\ g \in Left \ Left' => g \in Says(note) /\ (g \in access' <=> g \in Begins(note.old, note.new))
    BY <2>2, <2>3, <2>4, <2>5, <2>6
  <2>7. job' # NoJob => job'.at \notin {"disableOld", "enableNew"}
    BY <2>3
  <2> QED
    BY <1>1, <2>1, <2>2, <2>3, <2>4, <2>6, <2>7, CallOrder
<1> QED
  BY <1>3, <1>4

\* Our platform's visibilities change by the scopes that come and go, if there are any.
LEMMA ScopesApply ==
  ASSUME NEW v \in Visibility, v.bound, NEW x, NEW labels, labels = Of(x)
  PROVE  /\ labels.scopes = x
         /\ Applies(labels, v) => Asked(v.plan, x) = {v.plan} \X x
         /\ ~Applies(labels, v) => {v.plan} \X x = {}
<1>0. labels.scopes = x /\ (labels.some <=> x # {})
  BY DEF Of
<1>1. Applies(labels, v) <=> x # {}
  BY <1>0 DEF Applies
<1>2. x # {} => Asked(v.plan, x) = {<<v.plan, s>> : s \in x}
  BY DEF Asked
<1>3. {<<v.plan, s>> : s \in x} = {v.plan} \X x
  OBVIOUS
<1> QED
  BY <1>0, <1>1, <1>2, <1>3

LEMMA ScopesOrder == ASSUME OrderInv, HandlerInv', EnableAdded \/ DisableRemoved PROVE OrderInv'
<1>1. PICK note, b : note = job.note /\ b = NamedBroker(note)
  OBVIOUS
<1>2. PICK more, less, add, remove :
        /\ more = note.new.scopes \ note.old.scopes /\ add = note.patch.add
        /\ less = note.old.scopes \ note.new.scopes /\ remove = note.patch.remove
  OBVIOUS
<1>3. PICK added, removed : added = Added(note.old, note.new) /\ removed = Removed(note.old, note.new)
  OBVIOUS
<1>4. added = {note.new.plan} \X more /\ removed = {note.new.plan} \X less
  BY <1>2, <1>3 DEF Added, Removed
<1>5. CASE EnableAdded
  <2>1. /\ Calling("enableAdded") /\ Proceed(note, "disableRemoved")
        /\ \/ ~Applies(add, note.new) /\ UNCHANGED <<access, disturbances, intact>>
           \/ /\ Applies(add, note.new)
              /\ \/ Succeeds(note.new.plan, b, Enabled(note.new.plan, add.scopes)) /\ UNCHANGED intact
                 \/ NotFound(note.new.plan, b)
                 \/ Breaks(note.new.plan, b, Enabled(note.new.plan, add.scopes))
    BY <1>1, <1>2, <1>5 DEF EnableAdded
  <2>2. /\ note \in Note /\ note.kind = "update" /\ note.old \in Visibility /\ note.new \in Visibility
        /\ Left = LeftOf(note, "enableAdded")
        /\ intact => /\ CarriedOut(note.old, note.new) /\ add = Of(more)
                     /\ BrokerOf[note.new.plan] = b
                     /\ b \notin registered => b \notin Served(WantedBrokers)
                     /\ \A g \in Says(note) : BrokerOf[g[1]] = b
                     /\ added \subseteq Says(note) /\ removed \subseteq Says(note)
    <3>1. /\ note \in Note /\ note.kind = "update" /\ note.old \in Visibility /\ note.new \in Visibility
          /\ note.old # None /\ note.new # None
      BY <1>1, <2>1, UpdateUnderWay, NoneIsNoVisibility
    <3>2. intact => Exact(note.old, note.new, note.patch)
      BY <1>1, <2>1, UpdateUnderWay
    <3>3. intact => add = Of(more) /\ remove = Of(less)
      BY <1>2, <3>1, <3>2 DEF Exact
    <3> QED
      BY <1>1, <1>3, <2>1, <3>3, UpdateUnderWay
  <2>3. Left = added \cup removed
    BY <1>2, <1>4, <2>2 DEF LeftOf, ScopesThat
  <2>4. job'.note = note /\ job'.at = "disableRemoved" /\ Left' = removed
    <3>1. job'.note = note /\ job'.at = "disableRemoved" /\ Left' = LeftOf(note, "disableRemoved")
      BY <2>1, <2>2, Proceeds
    <3> QED
      BY <1>2, <1>4, <3>1 DEF LeftOf, ScopesThat
  <2>5. intact' => intact
    BY <2>1, CallEffect
  <2>6. intact => /\ note.new.bound /\ added \subseteq Begins(note.old, note.new)
                  /\ Applies(add, note.new) => Asked(note.new.plan, add.scopes) = added
                  /\ ~Applies(add, note.new) => added = {}
    <3>1. intact => note.new.bound /\ added \subseteq Begins(note.old, note.new)
      BY <1>3, <2>2, UpdateGrants
    <3>2. ASSUME intact
          PROVE  /\ Applies(add, note.new) => Asked(note.new.plan, add.scopes) = {note.new.plan} \X more
                 /\ ~Applies(add, note.new) => {note.new.plan} \X more = {}
      <4>1. note.new \in Visibility /\ note.new.bound /\ add = Of(more)
        BY <2>2, <3>1, <3>2
      <4> QED
        BY <4>1, ScopesApply
    <3> QED
      BY <1>4, <3>1, <3>2
  <2>7. intact' => \/ UNCHANGED access /\ (added = {} \/ b \notin registered)
                   \/ access' = access \cup added
    BY <2>1, <2>2, <2>5, <2>6 DEF NotFound, Reachable, Breaks, Succeeds, Enabled
  <2>8. ASSUME intact', NEW g \in Grants, BrokerOf[g[1]] \in Served(WantedBrokers)
        PROVE  /\ g \notin Left => g \notin Left' /\ (g \in access' <=> g \in access)
               /\ g \in Left \ Left' => g \in Says(note) /\ (g \in access' <=> g \in Begins(note.old, note.new))
    BY <2>2, <2>3, <2>4, <2>5, <2>6, <2>7, <2>8
  <2> QED
    BY <1>1, <2>1, <2>2, <2>4, <2>5, <2>8, CallOrder
<1>6. CASE DisableRemoved
  <2>1. /\ Calling("disableRemoved") /\ GiveUp
        /\ \/ ~Applies(remove, note.new) /\ UNCHANGED <<access, disturbances, intact>>
           \/ /\ Applies(remove, note.new)
              /\ \/ Succeeds(note.new.plan, b, Disabled(note.new.plan, remove.scopes)) /\ UNCHANGED intact
                 \/ NotFound(note.new.plan, b)
                 \/ Breaks(note.new.plan, b, Disabled(note.new.plan, remove.scopes))
    BY <1>1, <1>2, <1>6 DEF DisableRemoved
  <2>2. /\ note \in Note /\ note.kind = "update" /\ note.old \in Visibility /\ note.new \in Visibility
        /\ Left = LeftOf(note, "disableRemoved")
        /\ intact => /\ CarriedOut(note.old, note.new) /\ remove = Of(less)
                     /\ BrokerOf[note.new.plan] = b
                     /\ b \notin registered => b \notin Served(WantedBrokers)
                     /\ \A g \in Says(note) : BrokerOf[g[1]] = b
                     /\ removed \subseteq Says(note)
    <3>1. /\ note \in Note /\ note.kind = "update" /\ note.old \in Visibility /\ note.new \in Visibility
          /\ note.old # None /\ note.new # None
      BY <1>1, <2>1, UpdateUnderWay, NoneIsNoVisibility
    <3>2. intact => Exact(note.old, note.new, note.patch)
      BY <1>1, <2>1, UpdateUnderWay
    <3>3. intact => add = Of(more) /\ remove = Of(less)
      BY <1>2, <3>1, <3>2 DEF Exact
    <3> QED
      BY <1>1, <1>3, <2>1, <3>3, UpdateUnderWay
  <2>3. Left = removed
    BY <1>2, <1>4, <2>2 DEF LeftOf, ScopesThat
  <2>4. job' = NoJob /\ Left' = {}
    BY <2>1, GivesUp
  <2>5. intact' => intact
    BY <2>1, CallEffect
  <2>6. intact => /\ note.new.bound /\ removed \subseteq Ends(note.old, note.new)
                  /\ Applies(remove, note.new) => Asked(note.new.plan, remove.scopes) = removed
                  /\ ~Applies(remove, note.new) => removed = {}
    <3>1. intact => note.new.bound /\ removed \subseteq Ends(note.old, note.new)
      BY <1>3, <2>2, UpdateGrants
    <3>2. ASSUME intact
          PROVE  /\ Applies(remove, note.new) => Asked(note.new.plan, remove.scopes) = {note.new.plan} \X less
                 /\ ~Applies(remove, note.new) => {note.new.plan} \X less = {}
      <4>1. note.new \in Visibility /\ note.new.bound /\ remove = Of(less)
        BY <2>2, <3>1, <3>2
      <4> QED
        BY <4>1, ScopesApply
    <3> QED
      BY <1>4, <3>1, <3>2
  <2>7. intact' => \/ UNCHANGED access /\ (removed = {} \/ b \notin registered)
                   \/ access' = access \ removed
    BY <2>1, <2>2, <2>5, <2>6 DEF NotFound, Reachable, Breaks, Succeeds, Disabled
  <2>8. intact => \A g \in removed : g \notin Begins(note.old, note.new)
    BY <2>6, BeginsOrEnds
  <2>9. ASSUME intact', NEW g \in Grants, BrokerOf[g[1]] \in Served(WantedBrokers)
        PROVE  /\ g \notin Left => g \notin Left' /\ (g \in access' <=> g \in access)
               /\ g \in Left \ Left' => g \in Says(note) /\ (g \in access' <=> g \in Begins(note.old, note.new))
    BY <2>2, <2>3, <2>4, <2>5, <2>7, <2>8, <2>9
  <2> QED
    BY <1>1, <2>1, <2>2, <2>4, <2>5, <2>9, CallOrder
<1> QED
  BY <1>5, <1>6

\* A creation that is tried again is of a broker that SM has dropped or the platform
\* keeps, or nothing is claimed.
LEMMA RetryOrder == ASSUME OrderInv, HandlerInv', EnableAgain PROVE OrderInv'
<1>1. PICK note, b : note = job.note /\ b = NamedBroker(note)
  OBVIOUS
<1>2. /\ Calling("retry") /\ GiveUp
      /\ \/ Succeeds(note.new.plan, b, Enabled(note.new.plan, note.new.scopes)) /\ UNCHANGED intact
         \/ NotFound(note.new.plan, b)
         \/ Breaks(note.new.plan, b, Enabled(note.new.plan, note.new.scopes))
  BY <1>1 DEF EnableAgain
<1>3. job # NoJob /\ job.at = "retry" /\ job' = NoJob /\ Left' = {}
  BY <1>2, GivesUp DEF Calling, At
<1>4. note \in Note /\ Shaped(note) /\ note.kind = "create" /\ ~OfBroker(note) /\ Left = Says(note)
  BY <1>1, <1>3, JobShaped DEF OrderInv, OfBroker, Left, LeftOf
<1>5. note.new \in Visibility /\ BrokerOf[note.new.plan] = b /\ Concerned(note) = {b}
  BY <1>1, <1>4, ShapedNote, OneConcerned DEF NamedBroker
<1>6. intact' => intact
  BY <1>2, CallEffect
<1>7. intact => b \notin Served(WantedBrokers)
  BY <1>1, <1>3, <1>4 DEF OrderInv, DutyInv, WantedBrokers, Served
<1>8. \A g \in Asked(note.new.plan, note.new.scopes) : BrokerOf[g[1]] = b
  BY <1>5, AskedType, VisibilityScope
<1>9. intact' => UNCHANGED access \/ access' = access \cup Asked(note.new.plan, note.new.scopes)
  BY <1>2 DEF Succeeds, NotFound, Breaks, Enabled
<1>10. \A g \in Left : BrokerOf[g[1]] = b
  BY <1>4, <1>5, SaysType
<1>11. ASSUME intact', NEW g \in Grants, BrokerOf[g[1]] \in Served(WantedBrokers)
       PROVE  g \notin Left /\ (g \in access' <=> g \in access)
  BY <1>6, <1>7, <1>8, <1>9, <1>10, <1>11
<1> QED
  BY <1>1, <1>2, <1>3, <1>6, <1>11, CallOrder

-----------------------------------------------------------------------------
LEMMA OrderStart == HandlerInit => OrderInv
<1> SUFFICES ASSUME HandlerInit PROVE OrderInv
  OBVIOUS
<1>1. /\ queue = <<>> /\ used = known \cup registered /\ job = NoJob /\ intact = FALSE
      /\ phase = "idle" /\ wanted = {} /\ plans = {} /\ rest = {} /\ deleting = {} /\ creating = {} /\ granted = {}
  BY DEF HandlerInit, Init
<1>2. HandlerInv
  BY HandlerStart
<1>3. 1..Len(queue) = {}
  BY <1>1
<1>4. UsedInv /\ NewsInv
  BY <1>1, <1>3 DEF UsedInv, NewsInv
<1>5. ArrivalInv /\ DutyInv /\ AgreementInv /\ ChunkInv
  BY <1>1 DEF ArrivalInv, DutyInv, AgreementInv, ChunkInv
<1>6. ReadInv
  BY <1>1 DEF ReadInv
<1> QED
  BY <1>2, <1>4, <1>5, <1>6 DEF OrderInv

LEMMA OrderStep == OrderInv /\ [HandlerNext]_allVars => OrderInv'
<1> SUFFICES ASSUME OrderInv, [HandlerNext]_allVars PROVE OrderInv'
  OBVIOUS
<1>1. HandlerInv /\ HandlerInv' /\ VisTypeOK'
  BY HandlerStep DEF OrderInv, HandlerInv, SteadyInv
<1>2. CASE UNCHANGED allVars
  <2>1. UNCHANGED vars /\ UNCHANGED <<queue, used, job, intact>>
    BY <1>2 DEF allVars, handlerVars
  <2>2. UNCHANGED <<known, sm, registered, access, kept, disturbances, chunkSize, full, phase, wanted, plans, rest, chunk, granted,
                    deleting, creating, failed>>
    BY <2>1 DEF vars, smVars, platformVars, chunkVars
  <2>3. UsedInv' /\ NewsInv' /\ DutyInv' /\ ReadInv'
    <3>1. UsedInv'
      BY <2>1, <2>2 DEF OrderInv, UsedInv
    <3>2. NewsInv'
      BY <1>1, <2>1, <2>2, NewsStays DEF OrderInv, HandlerInv
    <3>3. DutyInv'
      <4>1. \A note : TrueNews(note, 1) => TrueNews(note, 1)'
        BY <2>1, <2>2, TrueNewsStays, SilentStays
      <4>2. intact /\ job # NoJob /\ job.note.kind # "create" => TrueNews(job.note, 1)
        BY DEF OrderInv, DutyInv
      <4>3. intact /\ job # NoJob /\ job.note.kind # "create" => TrueNews(job.note, 1)'
        BY <2>1, <4>1, <4>2 DEF TrueNews, ToldTruly
      <4> QED
        BY <2>1, <2>2, <4>3 DEF OrderInv, DutyInv, NamedBroker, PlanOf, Served
    <3>4. ReadInv'
      BY <2>1, <2>2 DEF OrderInv, ReadInv, InChunk, WantedBrokers, PlansOf, Served
    <3> QED
      BY <3>1, <3>2, <3>3, <3>4
  <2>4. RoundFrame
    <3>1. intact \in BOOLEAN /\ intact' = intact /\ disturbances' = disturbances
      BY <2>1, <2>2 DEF OrderInv, HandlerInv, HandlerTypeOK
    <3>2. intact' = (intact /\ disturbances' = disturbances)
      BY <3>1, Zenon
    <3> QED
      BY <2>1, <2>2, <3>2 DEF RoundFrame
  <2>5. ArrivalInv' /\ AgreementInv'
    BY <2>2, <2>4, AccessStays DEF AwaitingProxies, Unsettled, UnderWay, InChunk
  <2>6. ChunkInv'
    <3>1. ASSUME intact', NEW g \in Grants, BrokerOf[g[1]] \in Served(WantedBrokers \cap UnderWay)', Silent(g, 1)'
          PROVE  /\ phase \in {"compare", "deleting", "creating"} => (g \in granted <=> SMGrants(g)')
                 /\ phase \in {"deleting", "creating"} => (g \in granted \ access => g \in creating)
                 /\ phase = "deleting" => (g \in deleting => g \notin granted) /\ (g \in access \ granted => g \in deleting)
                 /\ phase = "creating" => (g \in access => g \in granted)
      <4>1. intact /\ BrokerOf[g[1]] \in Served(WantedBrokers \cap UnderWay) /\ Silent(g, 1)
        BY <2>1, <2>2, <3>1, SilentStays DEF WantedBrokers, Served, UnderWay, InChunk
      <4>2. SMGrants(g)' <=> SMGrants(g)
        BY <2>2, SMGrantsStays
      <4> QED
        BY <4>1, <4>2 DEF OrderInv, ChunkInv
    <3> QED
      BY <2>2, <3>1, Zenon DEF ChunkInv
  <2> QED
    BY <1>1, <2>3, <2>5, <2>6 DEF OrderInv
<1>3. ASSUME NEW v \in Visibilities, NEW new \in Shapes \cup {None}, NEW patch \in Patches, SMAnnounces(v, new, patch)
      PROVE  OrderInv'
  BY <1>1, <1>3, AnnouncesArrive, NewsKeeps DEF OrderInv
<1>4. ASSUME NEW v \in Visibilities, NEW patch \in Patches, SMRefreshes(v, patch)
      PROVE  OrderInv'
  BY <1>1, <1>4, RefreshesArrive, NewsKeeps DEF OrderInv
<1>5. ASSUME NEW b \in Brokers, BrokerAnnounced(b)
      PROVE  OrderInv'
  BY <1>1, <1>5, BrokersArrive, NewsKeeps DEF OrderInv
<1>6. CASE HandlerNext
  BY <1>1, <1>3, <1>4, <1>5, <1>6, OperatorsOrder, ResyncBeginsOrder, ResyncGoesOnOrder, HandlerResyncOrder,
     BrokersHandled, CreatesOrder, UpdatesOrder, DeletesOrder, MovesOrder, ScopesOrder, RetryOrder
  DEF HandlerNext
<1> QED
  BY <1>2, <1>6

\* Next to a resync in pieces, at any moment of it, and between the calls of a
\* handler, what SM grants is what the platform has, but for the grants that the
\* waiting notifications name, those that the handler has left, and those of
\* brokers whose chunk is to come; and the last that is said of a grant is true.
THEOREM OrderInvariant == HandlerSpec => []OrderInv
  BY OrderStart, OrderStep, PTL DEF HandlerSpec

\* When a full resync and the notifications since have been handled, and the
\* handlers have carried out in full what they announced, the platform gives
\* access to whom SM grants it and to nobody else, at all brokers but those that
\* it keeps.
THEOREM NotificationsCatchUp == HandlerSpec => []VisCaughtUp
<1>1. OrderInv => VisCaughtUp
  <2> SUFFICES ASSUME OrderInv, phase = "idle", job = NoJob, queue = <<>>, intact
               PROVE  Restricted(access, Served(WantedBrokers)) = GrantedBy(PlansOf(Served(WantedBrokers)))
    BY DEF VisCaughtUp, Settled
  <2>1. VisTypeOK /\ SteadyInv
    BY DEF OrderInv, HandlerInv, SteadyInv
  <2>2. \A g \in Grants : Silent(g, 1) /\ g \notin Left
    BY DEF Silent, Left
  <2>3. \A g \in Grants : BrokerOf[g[1]] \in Served(WantedBrokers) => Agreed(g)
    BY <2>2 DEF OrderInv, AgreementInv, Unsettled, Served
  <2>4. \A g \in GrantedBy(PlansOf(Served(WantedBrokers))) : g \in Grants /\ SMGrants(g) /\ BrokerOf[g[1]] \in Served(WantedBrokers)
    <3>1. ASSUME NEW g \in GrantedBy(PlansOf(Served(WantedBrokers)))
          PROVE  g \in Grants /\ SMGrants(g) /\ BrokerOf[g[1]] \in Served(WantedBrokers)
      <4>1. PICK v \in Visibilities : sm[v] # None /\ sm[v].plan \in PlansOf(Served(WantedBrokers)) /\ g \in GrantsOf(sm[v])
        BY <3>1 DEF GrantedBy
      <4>2. sm[v] \in Visibility
        BY <2>1, <4>1 DEF VisTypeOK
      <4>3. g \in Grants /\ g[1] = sm[v].plan
        BY <4>1, <4>2, GrantsOfType
      <4>4. SMGrants(g)
        BY <2>1, <4>1, SMGrantsIff
      <4> QED
        BY <4>1, <4>3, <4>4 DEF PlansOf
    <3> QED
      BY <3>1
  <2>5. ASSUME NEW g \in Grants, SMGrants(g), BrokerOf[g[1]] \in Served(WantedBrokers)
        PROVE  g \in GrantedBy(PlansOf(Served(WantedBrokers)))
    <3>1. PICK v \in Visibilities : sm[v] # None /\ g \in GrantsOf(sm[v])
      BY <2>1, <2>5, SMGrantsIff
    <3>2. sm[v] \in Visibility
      BY <2>1, <3>1 DEF VisTypeOK
    <3>3. g[1] = sm[v].plan /\ sm[v].plan \in Plans
      BY <3>1, <3>2, GrantsOfType DEF Visibility
    <3>4. sm[v].plan \in PlansOf(Served(WantedBrokers))
      BY <2>5, <3>3 DEF PlansOf
    <3> QED
      BY <3>1, <3>4 DEF GrantedBy
  <2>6. access \subseteq Grants
    BY <2>1 DEF VisTypeOK
  <2> QED
    BY <2>3, <2>4, <2>5, <2>6 DEF Agreed, Restricted
<1> QED
  BY <1>1, OrderInvariant, PTL
=============================================================================
