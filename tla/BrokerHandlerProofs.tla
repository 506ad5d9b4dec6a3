------------------------ MODULE BrokerHandlerProofs ------------------------
(***************************************************************************)
(* Proofs about BrokerHandler for any brokers, registrations and lengths   *)
(* of the queue: the handler takes over nothing but what matches, a broker *)
(* gets a second proxy in one way only, as long as no rotation of          *)
(* credentials is cut short the platform can log in, and an undisturbed    *)
(* broker ends with the proxy that SM asks for.                            *)
(***************************************************************************)
EXTENDS BrokerHandler, BrokerReconcileProofs, SequenceTheorems

-----------------------------------------------------------------------------
(* The steps, by what they change.                                         *)

\* The registration that a call of the handler changes, and how.
JobEffect ==
    \E g \in Guids, r \in Registration \cup {None} :
        /\ platform' = [platform EXCEPT ![g] = r]
        /\ \/ /\ job.task.op = "create"
              /\ platform[g] = None
              /\ r # None /\ r.kind = "proxy" /\ r.broker = jobBroker /\ r.cred = job.task.cred
              /\ r.name = jobName /\ ProxyNamed(jobBroker, jobName, platform) = {}
           \/ /\ job.task.op = "update"
              /\ g = job.task.guid /\ platform[g] # None
              /\ r # None /\ r.kind = "proxy" /\ r.broker = jobBroker /\ r.cred = job.task.cred
              /\ r.name = jobName /\ ProxyNamed(jobBroker, jobName, platform) \subseteq {g}
           \/ /\ job.task.op = "fetch"
              /\ g = job.task.guid /\ platform[g] # None
              /\ r # None /\ r.kind = platform[g].kind /\ r.broker = platform[g].broker /\ r.cred = job.task.cred
              /\ r.name = platform[g].name
           \/ /\ job.task.op = "delete"
              /\ g = job.task.guid /\ platform[g] # None
              /\ r = None

LEMMA NoneIsNoID == None \notin Guids /\ None \notin Names /\ None \notin Brokers
  BY NoneAssumption

LEMMA JobType ==
  ASSUME HandlerInv, Busy
  PROVE  /\ job \in Job /\ job.note \in Note /\ job.task \in Task
         /\ jobBroker \in Brokers /\ Shaped(job.note) /\ TaskOf(job.note, job.task)
         /\ job.task.op # "create" => Held(job.note, job.task.guid)
         /\ phase = "idle" /\ job.task.at \in {"put", "call", "activate"}
         /\ platform \in [Guids -> Registration \cup {None}]
         /\ creds \in [Brokers -> Credentials]
         /\ options \in Options
  BY DEF HandlerInv, HandlerTypeOK, TypeOK, JobInv, Job, Note, Busy, jobBroker

LEMMA JobCallEffect ==
  ASSUME HandlerInv, At("call"), ~JobRefused, JobRegisters
  PROVE  JobEffect
<1> DEFINE t == job.task
           g == t.guid
           proxy == [broker |-> jobBroker, kind |-> "proxy", name |-> jobName, cred |-> t.cred]
<1>1. /\ Busy /\ t.at = "call" /\ t \in Task /\ jobBroker \in Brokers
      /\ t.op \in {"create", "update", "fetch", "delete"}
      /\ t.op # "create" => g \in Guids
      /\ t.op = "create" => g = None
      /\ t.op # "delete" => t.cred # None
      /\ platform \in [Guids -> Registration \cup {None}]
  BY JobType DEF At, TaskOf, Held
<1>2. t.op # "delete" => t.cred \in Issued \cup {Default, Own}
  BY <1>1 DEF Task
<1>3. t.op \in {"create", "update"} => jobName \in Names
  BY <1>1, JobType DEF TaskOf, Shaped, Note, jobName
<1>4. /\ t.op # "create" => platform[g] # None
      /\ t.op \in {"create", "update"} => ProxyNamed(jobBroker, jobName, platform) \subseteq {g}
  BY <1>1 DEF JobRefused, Refused
<1>5. /\ proxy.kind = "proxy" /\ proxy.broker = jobBroker /\ proxy.name = jobName /\ proxy.cred = t.cred
      /\ t.op \in {"create", "update"} => proxy \in Registration
  BY <1>1, <1>2, <1>3 DEF Registration
<1> HIDE DEF proxy
<1>6. CASE t.op = "create"
  <2>1. FreeGuids # {} /\ platform' = [platform EXCEPT ![NewGuid] = proxy]
    BY <1>6 DEF JobRegisters, proxy
  <2>2. ProxyNamed(jobBroker, jobName, platform) = {}
    BY <1>1, <1>4, <1>6, NoneIsNoID DEF ProxyNamed, ProxiesOf
  <2> QED
    BY <1>5, <1>6, <2>1, <2>2, NewGuidFree, NotNone DEF JobEffect
<1>7. CASE t.op = "update"
  <2>1. platform' = [platform EXCEPT ![g] = proxy]
    BY <1>7 DEF JobRegisters, proxy
  <2> QED
    BY <1>1, <1>4, <1>5, <1>7, <2>1, NotNone DEF JobEffect
<1>8. CASE t.op = "fetch"
  <2> DEFINE r == [platform[g] EXCEPT !.cred = t.cred]
  <2>1. platform' = [platform EXCEPT ![g] = r]
    BY <1>8 DEF JobRegisters
  <2>2. platform[g] \in Registration
    BY <1>1, <1>4, <1>8
  <2>3. /\ r \in Registration /\ r.kind = platform[g].kind /\ r.broker = platform[g].broker /\ r.cred = t.cred
        /\ r.name = platform[g].name
    BY <1>2, <1>8, <2>2 DEF Registration
  <2> HIDE DEF r
  <2> QED
    BY <1>1, <1>4, <1>8, <2>1, <2>3, NotNone DEF JobEffect
<1>9. CASE t.op = "delete"
  <2>1. platform' = [platform EXCEPT ![g] = None]
    BY <1>9 DEF JobRegisters
  <2> QED
    BY <1>1, <1>4, <1>9, <2>1 DEF JobEffect
<1> QED
  BY <1>1, <1>6, <1>7, <1>8, <1>9

\* What a step of a job leaves of the rest, and what follows.
JobFollows ==
    \/ /\ job' = NoJob
       /\ UNCHANGED platform \/ (At("call") /\ JobEffect)
    \/ /\ At("put")
       /\ UNCHANGED platform
       /\ Fresh(jobBroker) \in Issued
       /\ job' = [job EXCEPT !.task.at = "call", !.task.cred = Fresh(jobBroker)]
    \/ /\ At("call")
       /\ options.credentials /\ job.task.op # "delete"
       /\ JobEffect
       /\ job' = [job EXCEPT !.task.at = "activate"]

LEMMA JobSteps ==
  ASSUME HandlerInv, JobStep
  PROVE  /\ Busy /\ UNCHANGED <<sm, process, round, queue, used>>
         /\ clean' \in BOOLEAN /\ disturbances' \in 0..MaxDisturbances
         /\ creds' \in [Brokers -> Credentials]
         /\ intact' \in BOOLEAN /\ mishap' \in BOOLEAN
         /\ JobFollows
<1>1. /\ TypeOK
      /\ intact \in BOOLEAN /\ mishap \in BOOLEAN /\ clean \in BOOLEAN
      /\ disturbances \in 0..MaxDisturbances /\ creds \in [Brokers -> Credentials]
  BY DEF HandlerInv, HandlerTypeOK, TypeOK
<1>2. Busy
  BY DEF JobStep, JobPuts, JobConflicts, JobPutFails, JobCalls, JobIsRefused, JobCallFails, JobActivates, JobActivateFails, At
<1>3. jobBroker \in Brokers
  BY <1>2, JobType
<1>4. ASSUME JobPutAccepted, Stored(jobBroker)
      PROVE  Fresh(jobBroker) \in Issued /\ creds' \in [Brokers -> Credentials]
  <2>1. Fresh(jobBroker) \in Issued
    BY <1>4 DEF JobPutAccepted, Fresh
  <2>2. creds[jobBroker] \in Credentials
    BY <1>1, <1>3
  <2>3. [current |-> Fresh(jobBroker),
         old |-> IF creds[jobBroker].active THEN creds[jobBroker].current ELSE creds[jobBroker].old,
         active |-> FALSE] \in Credentials
    BY <2>1, <2>2 DEF Credentials
  <2> QED
    BY <1>1, <1>4, <2>1, <2>3 DEF Stored
<1>5. CASE JobPuts
  BY <1>1, <1>2, <1>4, <1>5 DEF JobPuts, JobFollows, Unchanged
<1>6. CASE JobConflicts
  BY <1>1, <1>2, <1>6 DEF JobConflicts, JobFollows, GiveUp, Unchanged
<1>7. CASE JobPutFails
  BY <1>1, <1>2, <1>4, <1>7, DisturbanceType DEF JobPutFails, JobFollows, GiveUp
<1>8. CASE JobCalls
  <2>1. JobEffect
    BY <1>8, JobCallEffect DEF JobCalls
  <2>2. intact' \in BOOLEAN /\ mishap' \in BOOLEAN
    <3>1. intact' = (intact /\ ~Doubled(platform')) /\ mishap' = (mishap \/ Doubled(platform'))
      BY <1>8 DEF JobCalls
    <3> QED
      BY <3>1, Zenon
  <2>3. job' = NoJob \/ (At("call") /\ options.credentials /\ job.task.op # "delete" /\ job' = [job EXCEPT !.task.at = "activate"])
    BY <1>8 DEF JobCalls, Proceed, GiveUp
  <2> QED
    BY <1>1, <1>2, <1>8, <2>1, <2>2, <2>3 DEF JobCalls, JobFollows, Unchanged
<1>9. CASE JobIsRefused
  BY <1>1, <1>2, <1>9 DEF JobIsRefused, JobFollows, GiveUp, Unchanged
<1>10. CASE JobCallFails
  BY <1>1, <1>2, <1>10, DisturbanceType, JobCallEffect DEF JobCallFails, JobFollows, GiveUp
<1>11. ASSUME Activated(jobBroker) PROVE creds' \in [Brokers -> Credentials]
  BY <1>1, <1>3, <1>11, ActivatedType
<1>12. CASE JobActivates
  BY <1>1, <1>2, <1>11, <1>12 DEF JobActivates, JobFollows, GiveUp, Unchanged
<1>13. CASE JobActivateFails
  BY <1>1, <1>2, <1>11, <1>13, DisturbanceType DEF JobActivateFails, JobFollows, GiveUp
<1> QED
  BY <1>5, <1>6, <1>7, <1>8, <1>9, <1>10, <1>12, <1>13 DEF JobStep

\* What the goroutine does with the notification it takes.
Undertaken(t) ==
    /\ t \in Task /\ t.at \in {"put", "call"} /\ t.cred \in {None, Default}
    /\ TaskOf(Head(queue), t)
    /\ t.op # "create" => Held(Head(queue), t.guid)
    /\ job' = [note |-> Head(queue), task |-> t]

LEMMA HeadNoted ==
  ASSUME HandlerInv, queue # <<>>
  PROVE  Head(queue) \in Note /\ Shaped(Head(queue)) /\ Head(queue) = queue[1] /\ Len(queue) \in Nat /\ Len(queue) > 0
<1>1. queue \in Seq(Note)
  BY DEF HandlerInv, HandlerTypeOK
<1>2. Len(queue) \in Nat /\ Len(queue) > 0 /\ Head(queue) = queue[1] /\ queue[1] \in Note
  BY <1>1
<1> QED
  BY <1>2 DEF HandlerInv, QueueInv

LEMMA NewTaskFollows ==
  ASSUME HandlerInv, queue # <<>>, NEW op \in {"create", "update", "fetch"}, NEW g \in Guids \cup {None},
         Undertake(op, g),
         op = "create" => Head(queue).kind = "create" /\ g = None,
         op \in {"update", "fetch"} => Held(Head(queue), g),
         op = "update" => Head(queue).kind \in {"create", "update"},
         op = "fetch" => Head(queue).kind = "update"
  PROVE  \E t \in Task : Undertaken(t)
<1>1. NewTask(op, g) \in Task /\ NewTask(op, g).op = op /\ NewTask(op, g).guid = g
  BY NewTaskShape
<1>2. /\ NewTask(op, g).at = FirstStep
      /\ NewTask(op, g).cred = IF options.credentials THEN None ELSE Default
  BY DEF NewTask
<1>3. TaskOf(Head(queue), NewTask(op, g))
  BY <1>1, <1>2, NoneAssumption DEF TaskOf, FirstStep
<1> QED
  BY <1>1, <1>2, <1>3 DEF Undertaken, Undertake, FirstStep

LEMMA LookedUp ==
  ASSUME HandlerInv, Disturbance
  PROVE  clean' \in BOOLEAN /\ disturbances' \in 0..MaxDisturbances
  BY DisturbanceType DEF HandlerInv, HandlerTypeOK

LEMMA Turns ==
  ASSUME HandlerInv, OnCreate \/ OnUpdate \/ OnDelete
  PROVE  /\ phase = "idle" /\ ~Busy /\ queue # <<>> /\ queue' = Tail(queue)
         /\ UNCHANGED <<sm, platform, creds, process, round, used, mishap>>
         /\ clean' \in BOOLEAN /\ disturbances' \in 0..MaxDisturbances /\ intact' \in BOOLEAN
         /\ job' = NoJob \/ \E t \in Task : Undertaken(t)
<1>1. PICK kind \in {"create", "update", "delete"} : Take(kind)
  BY DEF OnCreate, OnUpdate, OnDelete
<1>2. /\ phase = "idle" /\ ~Busy /\ queue # <<>> /\ queue' = Tail(queue)
      /\ UNCHANGED <<sm, platform, creds, process, round, used, mishap>>
      /\ clean' \in BOOLEAN
  BY <1>1 DEF Take
<1>3. /\ disturbances \in 0..MaxDisturbances /\ intact \in BOOLEAN
      /\ platform \in [Guids -> Registration \cup {None}]
  BY DEF HandlerInv, HandlerTypeOK, TypeOK
<1>4. ASSUME NEW kept, Intact(kept)
      PROVE  disturbances' \in 0..MaxDisturbances /\ intact' \in BOOLEAN
  <2>1. intact' = (intact /\ kept) /\ disturbances' = disturbances
    BY <1>4 DEF Intact
  <2>2. intact' \in BOOLEAN
    BY <2>1, Zenon
  <2> QED
    BY <1>3, <2>1, <2>2
<1>5. LookupFails => disturbances' \in 0..MaxDisturbances /\ intact' \in BOOLEAN
  BY LookedUp DEF LookupFails
<1>6. disturbances' \in 0..MaxDisturbances /\ intact' \in BOOLEAN
  <2>1. CASE OnCreate
    BY <1>4, <1>5, <2>1 DEF OnCreate
  <2>2. CASE OnUpdate
    <3>1. Intact(Head(queue).new \in Blacklist) \/ Intact(Head(queue).new \notin Blacklist) \/ LookupFails
      BY <2>2, Zenon DEF OnUpdate
    <3> QED
      BY <1>4, <1>5, <3>1
  <2>3. CASE OnDelete
    BY <1>4, <1>5, <2>3 DEF OnDelete
  <2> QED
    BY <2>1, <2>2, <2>3
<1>7. ASSUME NEW g \in Guids, NEW n, g \in ProxyNamed(Head(queue).broker, n, platform)
      PROVE  Held(Head(queue), g)
  BY <1>7 DEF ProxyNamed, ProxiesOf, Held
<1>8. job' = NoJob \/ \E t \in Task : Undertaken(t)
  <2>1. CASE OnCreate
    <3>1. Head(queue).kind = "create"
      BY <2>1 DEF OnCreate, Take
    <3>2. ASSUME NEW g \in KeyMatches(Head(queue).broker, Head(queue).new, platform), options.takeover, Undertake("update", g)
          PROVE  \E t \in Task : Undertaken(t)
      <4>1. g \in Guids /\ Held(Head(queue), g)
        BY <3>1, <3>2 DEF KeyMatches, Held
      <4> QED
        BY <1>2, <3>1, <3>2, <4>1, NewTaskFollows
    <3>3. Undertake("create", None) => \E t \in Task : Undertaken(t)
      BY <1>2, <3>1, NewTaskFollows
    <3>4. \/ Ignore
          \/ Undertake("create", None)
          \/ options.takeover /\ \E g \in KeyMatches(Head(queue).broker, Head(queue).new, platform) : Undertake("update", g)
      BY <2>1 DEF OnCreate
    <3> QED
      BY <3>2, <3>3, <3>4 DEF Ignore
  <2>2. CASE OnUpdate
    <3>1. Head(queue).kind = "update"
      BY <2>2 DEF OnUpdate, Take
    <3>2. \/ Ignore
          \/ \E op \in {"update", "fetch"}, g \in Guids :
               g \in ProxyNamed(Head(queue).broker, Head(queue).old, platform) /\ Undertake(op, g)
      BY <2>2 DEF OnUpdate, ProxyNamed, ProxiesOf
    <3> QED
      BY <1>2, <1>7, <3>1, <3>2, NewTaskFollows DEF Ignore
  <2>3. CASE OnDelete
    <3>1. Head(queue).kind = "delete"
      BY <2>3 DEF OnDelete, Take
    <3>2. ASSUME NEW g \in Guids, g \in ProxyNamed(Head(queue).broker, Head(queue).old, platform),
                 job' = [note |-> Head(queue), task |-> [op |-> "delete", at |-> "call", guid |-> g, cred |-> None]]
          PROVE  \E t \in Task : Undertaken(t)
      <4> DEFINE t == [op |-> "delete", at |-> "call", guid |-> g, cred |-> None]
      <4>1. t \in Task /\ t.at = "call" /\ t.cred = None /\ t.op = "delete" /\ t.guid = g
        BY DEF Task
      <4>2. job' = [note |-> Head(queue), task |-> t]
        BY <3>2
      <4> HIDE DEF t
      <4>3. TaskOf(Head(queue), t)
        BY <3>1, <4>1 DEF TaskOf
      <4>4. Held(Head(queue), t.guid)
        BY <1>7, <3>2, <4>1
      <4> QED
        BY <4>1, <4>2, <4>3, <4>4 DEF Undertaken
    <3>3. \/ Ignore
          \/ \E g \in Guids :
               /\ g \in ProxyNamed(Head(queue).broker, Head(queue).old, platform)
               /\ job' = [note |-> Head(queue), task |-> [op |-> "delete", at |-> "call", guid |-> g, cred |-> None]]
      BY <2>3 DEF OnDelete, ProxyNamed, ProxiesOf
    <3> QED
      BY <3>2, <3>3 DEF Ignore
  <2> QED
    BY <2>1, <2>2, <2>3
<1> QED
  BY <1>2, <1>6, <1>8

-----------------------------------------------------------------------------
(* Steps of the others: SM, the platform's users, the resync.              *)

Others ==
    \/ \E b \in Brokers, n \in Names \cup {None} : SMAnnounces(b, n)
    \/ \E b \in Brokers : SMRefreshes(b)
    \/ Operators
    \/ Lifecycle
    \/ ResyncBegins \/ ResyncGoesOn \/ ResyncSuffers

\* All but one are steps of BrokerReconcile.
LEMMA OthersNext ==
  ASSUME HandlerInv, Others
  PROVE  \/ Next
         \/ Changed /\ UNCHANGED <<sm, platform>>
<1>1. ASSUME NEW b \in Brokers, NEW n \in Names \cup {None}, SMAnnounces(b, n) PROVE Next
  BY <1>1 DEF SMAnnounces, Next, Environment
<1>2. ASSUME NEW b \in Brokers, SMRefreshes(b) PROVE Changed /\ UNCHANGED <<sm, platform>>
  BY <1>2 DEF SMRefreshes
<1>3. Operators \/ Lifecycle => Next
  BY DEF Operators, Lifecycle, Next, Environment
<1>4. ResyncBegins \/ ResyncGoesOn \/ ResyncSuffers => Next
  BY DEF ResyncBegins, ResyncGoesOn, ResyncSuffers, Next, RoundStep
<1> QED
  BY <1>1, <1>2, <1>3, <1>4 DEF Others

LEMMA UserChange ==
  ASSUME CoreInv, Changed, UNCHANGED <<sm, platform>>
  PROVE  CoreInv'
<1>1. TypeOK'
  BY DisturbanceType DEF Changed, CoreInv, TypeOK, process, round
<1> QED
  BY <1>1, UserKeeps DEF Changed, process, round, CoreInv, SnapshotInv, QuietInv, IsProxy

LEMMA OthersKeepCore == ASSUME HandlerInv, Others PROVE CoreInv'
<1>1. CoreInv
  BY DEF HandlerInv
<1> QED
  BY <1>1, OthersNext, CoreStep, UserChange

\* A task is running in a round only.
LEMMA IdleRound ==
  ASSUME CoreInv, phase = "idle"
  PROVE  /\ ~(RoundStep /\ ~FetchSM) /\ ~Rejected /\ ~FetchFails
         /\ \A b \in Brokers : ~TaskStep(b) /\ ~Fault(b)
<1>1. \A b \in Brokers : task[b].at = "ended"
  BY DEF CoreInv, QuietInv, InRound, Running
<1>2. \A b \in Brokers : ~TaskStep(b) /\ ~Fault(b)
  BY <1>1 DEF TaskStep, Fault, Put, PutConflicts, ReadArgument, CallSucceeds, CallRefused, Activate,
              PutFails, CallFails, ActivateFails
<1>3. ~(RoundStep /\ ~FetchSM) /\ ~Rejected /\ ~FetchFails
  BY DEF RoundStep, StartRound, ScheduleDesired, NextOrphan, DesiredDone, ScheduleDelete, OrphansDone,
         AwaitReturns, Rejected, DeleteRejected, DesiredRejected, FetchFails
<1> QED
  BY <1>2, <1>3

\* While a notification is handled no resync goes on.
LEMMA OthersWhileBusy ==
  ASSUME HandlerInv, Others, Busy
  PROVE  /\ phase' = "idle" /\ ~ResyncBegins
         /\ UNCHANGED platform \/ Operators
<1>1. CoreInv /\ phase = "idle"
  BY DEF HandlerInv, HandlerTypeOK
<1>2. ~ResyncBegins /\ ~ResyncGoesOn /\ ~ResyncSuffers
  BY <1>1, IdleRound DEF ResyncBegins, ResyncGoesOn, ResyncSuffers
<1>3. ASSUME NEW b \in Brokers, NEW n \in Names \cup {None}, SMAnnounces(b, n)
      PROVE  phase' = "idle" /\ UNCHANGED platform
  BY <1>1, <1>3 DEF SMAnnounces, SMChanges, Changed, round
<1>4. ASSUME NEW b \in Brokers, SMRefreshes(b) PROVE phase' = "idle" /\ UNCHANGED platform
  BY <1>1, <1>4 DEF SMRefreshes, Changed, round
<1>5. Operators => phase' = "idle"
  BY <1>1 DEF Operators, OperatorRegisters, OperatorRenames, OperatorDeletes, Changed, round
<1>6. Lifecycle => phase' = "idle" /\ UNCHANGED platform
  BY <1>1 DEF Lifecycle, Cancel, round
<1> QED
  BY <1>2, <1>3, <1>4, <1>5, <1>6 DEF Others

LEMMA OthersType ==
  ASSUME HandlerInv, Others
  PROVE  /\ UNCHANGED <<job, options>>
         /\ intact' \in BOOLEAN /\ mishap' \in BOOLEAN
<1>1. intact \in BOOLEAN /\ mishap \in BOOLEAN
  BY DEF HandlerInv, HandlerTypeOK
<1>2. ASSUME NEW b \in Brokers, NEW n \in Names \cup {None}, SMAnnounces(b, n)
      PROVE  UNCHANGED <<job, options, intact, mishap>>
  BY <1>2 DEF SMAnnounces, SMChanges, Changed, process, Announce
<1>3. ASSUME NEW b \in Brokers, SMRefreshes(b) PROVE UNCHANGED <<job, options, intact, mishap>>
  BY <1>3 DEF SMRefreshes, Changed, process, Announce
<1>4. Operators => UNCHANGED <<job, options, mishap>> /\ intact' = FALSE
  BY DEF Operators, OperatorRegisters, OperatorRenames, OperatorDeletes, Changed, process
<1>5. Lifecycle => UNCHANGED <<job, options, mishap>> /\ intact' = FALSE
  BY DEF Lifecycle, Cancel
<1>6. ASSUME ResyncBegins PROVE UNCHANGED <<job, options, mishap>> /\ intact' \in BOOLEAN
  <2>1. UNCHANGED <<job, options, mishap>> /\ intact' = ~Doubled(platform)
    BY <1>6 DEF ResyncBegins, FetchSM, process
  <2>2. intact' \in BOOLEAN
    BY <2>1, Zenon
  <2> QED
    BY <2>1, <2>2
<1>7. ResyncGoesOn => UNCHANGED <<job, options, intact, mishap>>
  BY DEF ResyncGoesOn, handlerVars, RoundStep, StartRound, ScheduleDesired, NextOrphan, DesiredDone, ScheduleDelete,
         OrphansDone, AwaitReturns, process, TaskStep, Put, PutConflicts, ReadArgument, CallSucceeds, CallRefused,
         Activate, Advance
<1>8. ResyncSuffers => UNCHANGED <<job, options>> /\ intact' = FALSE /\ mishap' \in {mishap, TRUE}
  BY DEF ResyncSuffers, FetchFails, Rejected, DeleteRejected, DesiredRejected, process, Fault, PutFails, CallFails,
         ActivateFails, Advance
<1> QED
  BY <1>1, <1>2, <1>3, <1>4, <1>5, <1>6, <1>7, <1>8 DEF Others

\* What the handler holds is not given to another broker meanwhile.
LEMMA HeldStays ==
  ASSUME HandlerInv, Others, Busy, job.task.op # "create"
  PROVE  Held(job.note, job.task.guid)'
<1> DEFINE g == job.task.guid
<1>1. g \in Guids /\ Held(job.note, g) /\ platform \in [Guids -> Registration \cup {None}]
  BY JobType DEF Held
<1>2. UNCHANGED <<job, options>>
  BY OthersType
<1>3. platform'[g] # None =>
        platform[g] # None /\ platform'[g].broker = platform[g].broker /\ platform'[g].kind = platform[g].kind
  <2>1. CASE UNCHANGED platform
    BY <2>1
  <2>2. CASE Operators
    <3>1. ASSUME NEW b \in Brokers, NEW n \in Names, OperatorRegisters(b, n), platform'[g] = platform[g]
          PROVE  platform'[g] # None =>
                   platform[g] # None /\ platform'[g].broker = platform[g].broker /\ platform'[g].kind = platform[g].kind
      BY <3>1
    <3>2. ASSUME NEW h \in Guids, NEW n \in Names, OperatorRenames(h, n)
          PROVE  platform'[g] # None =>
                   platform[g] # None /\ platform'[g].broker = platform[g].broker /\ platform'[g].kind = platform[g].kind
      <4> DEFINE r == [platform[h] EXCEPT !.name = n]
      <4>1. platform[h] # None /\ platform[h] \in Registration /\ platform' = [platform EXCEPT ![h] = r]
        BY <1>1, <3>2 DEF OperatorRenames
      <4>2. r.kind = platform[h].kind /\ r.broker = platform[h].broker
        BY <4>1 DEF Registration
      <4> HIDE DEF r
      <4> QED
        BY <1>1, <4>1, <4>2
    <3>3. ASSUME NEW h \in Guids, OperatorDeletes(h)
          PROVE  platform'[g] # None =>
                   platform[g] # None /\ platform'[g].broker = platform[g].broker /\ platform'[g].kind = platform[g].kind
      BY <1>1, <3>3 DEF OperatorDeletes
    <3>4. g # None
      BY <1>1, NoneIsNoID
    <3> QED
      BY <2>2, <3>1, <3>2, <3>3, <3>4 DEF Operators
  <2> QED
    BY <2>1, <2>2, OthersWhileBusy
<1>4. platform'[g] # None => IsProxy(platform'[g]) = IsProxy(platform[g])
  BY <1>3 DEF IsProxy
<1> HIDE DEF g
<1>5. g' = g /\ job.note' = job.note
  BY <1>2 DEF g
<1>6. Held(job.note, g)'
  BY <1>1, <1>2, <1>3, <1>4, <1>5 DEF Held, IsProxy
<1> QED
  BY <1>6 DEF g

-----------------------------------------------------------------------------
(* The queue.                                                              *)

QueueOK(q) ==
    /\ q \in Seq(Note) /\ Len(q) <= MaxQueued
    /\ \A i \in 1..Len(q) : Shaped(q[i])

LEMMA QueueIsOK == ASSUME HandlerInv PROVE QueueOK(queue) /\ Len(queue) \in Nat /\ \A i \in 1..Len(queue) : queue[i] \in Note
<1>1. queue \in Seq(Note)
  BY DEF HandlerInv, HandlerTypeOK
<1>2. Len(queue) \in Nat /\ \A i \in 1..Len(queue) : queue[i] \in Note
  BY <1>1
<1> QED
  BY <1>2 DEF HandlerInv, HandlerTypeOK, QueueInv, QueueOK

LEMMA AnnounceQueue ==
  ASSUME HandlerInv, NEW kind \in {"create", "update", "delete"}, NEW b \in Brokers, NEW n \in Names \cup {None},
         Announce(kind, b, n), (sm[b] = None) <=> (kind = "create"), (n = None) <=> (kind = "delete")
  PROVE  /\ QueueOK(queue') /\ Len(queue') = Len(queue) + 1
         /\ \A i \in 1..Len(queue) : queue'[i] = queue[i]
         /\ queue'[Len(queue) + 1].kind = kind /\ queue'[Len(queue) + 1].broker = b
         /\ queue'[Len(queue) + 1].old = sm[b] /\ queue'[Len(queue) + 1].new = n
<1> DEFINE note == [kind |-> kind, broker |-> b, old |-> sm[b], new |-> n, stale |-> FALSE]
<1>1. sm[b] \in Names \cup {None}
  BY DEF HandlerInv, CoreInv, TypeOK
<1>2. note \in Note /\ Shaped(note) /\ note.kind = kind /\ note.broker = b /\ note.old = sm[b] /\ note.new = n
  BY <1>1 DEF Note, Shaped
<1>3. queue' = Append(queue, note) /\ Len(queue) < MaxQueued
  BY DEF Announce
<1> HIDE DEF note
<1>4. Len(queue) \in Nat /\ queue \in Seq(Note) /\ \A i \in 1..Len(queue) : Shaped(queue[i])
  BY QueueIsOK DEF QueueOK
<1>5. /\ queue' \in Seq(Note) /\ Len(queue') = Len(queue) + 1
      /\ \A i \in 1..Len(queue) : queue'[i] = queue[i]
      /\ queue'[Len(queue) + 1] = note
  BY <1>2, <1>3, <1>4
<1>6. \A i \in 1..Len(queue') : Shaped(queue'[i])
  <2>1. \A i \in 1..Len(queue') : i \in 1..Len(queue) \/ i = Len(queue) + 1
    BY <1>4, <1>5
  <2> QED
    BY <1>2, <1>4, <1>5, <2>1
<1>7. Len(queue') <= MaxQueued
  BY <1>3, <1>4, <1>5, QueueAssumption
<1> QED
  BY <1>2, <1>5, <1>6, <1>7 DEF QueueOK

\* A resync makes all that waits, or the last of it, old news.
LEMMA ResyncQueue ==
  ASSUME HandlerInv, ResyncBegins
  PROVE  /\ QueueOK(queue')
         /\ \A i \in 1..Len(queue') : /\ queue'[i].stale = TRUE
                                      /\ \E j \in 1..Len(queue) : queue'[i].broker = queue[j].broker
         /\ \E shift \in Nat :
              /\ Len(queue) = shift + Len(queue')
              /\ \A i \in 1..Len(queue') :
                   /\ queue'[i].broker = queue[shift + i].broker
                   /\ queue'[i].old = queue[shift + i].old /\ queue'[i].new = queue[shift + i].new
<1>1. /\ queue \in Seq(Note) /\ Len(queue) \in Nat /\ Len(queue) <= MaxQueued
      /\ \A i \in 1..Len(queue) : queue[i] \in Note /\ Shaped(queue[i])
  BY QueueIsOK DEF QueueOK
<1>2. PICK first \in 1..Len(queue) + 1 :
        queue' = [i \in 1..Len(queue) + 1 - first |-> [queue[first + i - 1] EXCEPT !.stale = TRUE]]
  BY DEF ResyncBegins
<1>3. \A i \in 1..Len(queue) + 1 - first : first + i - 1 \in 1..Len(queue)
  BY <1>1
<1>4. ASSUME NEW note \in Note, Shaped(note)
      PROVE  /\ [note EXCEPT !.stale = TRUE] \in Note /\ Shaped([note EXCEPT !.stale = TRUE])
             /\ [note EXCEPT !.stale = TRUE].stale = TRUE /\ [note EXCEPT !.stale = TRUE].broker = note.broker
             /\ [note EXCEPT !.stale = TRUE].old = note.old /\ [note EXCEPT !.stale = TRUE].new = note.new
  BY <1>4 DEF Note, Shaped
<1>5. \A i \in 1..Len(queue) + 1 - first :
        /\ queue'[i] \in Note /\ Shaped(queue'[i]) /\ queue'[i].stale = TRUE
        /\ queue'[i].broker = queue[first + i - 1].broker
        /\ queue'[i].old = queue[first + i - 1].old /\ queue'[i].new = queue[first + i - 1].new
  BY <1>1, <1>2, <1>3, <1>4
<1>6. Len(queue) + 1 - first \in Nat /\ Len(queue) + 1 - first <= MaxQueued
  BY <1>1, QueueAssumption
<1>7. queue' \in Seq(Note) /\ Len(queue') = Len(queue) + 1 - first
  <2> DEFINE k == Len(queue) + 1 - first
  <2>1. k \in Nat /\ DOMAIN queue' = 1..k /\ queue' = [i \in 1..k |-> queue'[i]]
    BY <1>2, <1>6
  <2>2. queue' \in [1..k -> Note]
    BY <1>5, <2>1
  <2> HIDE DEF k
  <2>3. queue' \in Seq(Note)
    BY <2>1, <2>2, SeqDef
  <2>4. Len(queue') = k
    BY <2>1, <2>3, LenProperties
  <2> QED
    BY <2>3, <2>4 DEF k
<1>8. first - 1 \in Nat /\ Len(queue) = (first - 1) + Len(queue') /\ \A i \in 1..Len(queue') : first + i - 1 = (first - 1) + i
  BY <1>1, <1>6, <1>7
<1> QED
  BY <1>3, <1>5, <1>6, <1>7, <1>8 DEF QueueOK

LEMMA TailQueue ==
  ASSUME HandlerInv, queue # <<>>, queue' = Tail(queue)
  PROVE  /\ QueueOK(queue') /\ 1 \in 1..Len(queue) /\ Len(queue) = 1 + Len(queue')
         /\ \A i \in 1..Len(queue') : i + 1 \in 1..Len(queue) /\ queue'[i] = queue[i + 1]
<1>1. /\ queue \in Seq(Note) /\ Len(queue) \in Nat /\ Len(queue) <= MaxQueued /\ Len(queue) > 0
      /\ \A i \in 1..Len(queue) : Shaped(queue[i])
  BY QueueIsOK, HeadNoted DEF QueueOK
<1>2. /\ queue' \in Seq(Note) /\ Len(queue') = Len(queue) - 1
      /\ \A i \in 1..Len(queue) - 1 : queue'[i] = queue[i + 1]
  BY <1>1
<1>3. \A i \in 1..Len(queue') : i + 1 \in 1..Len(queue) /\ queue'[i] = queue[i + 1]
  BY <1>1, <1>2
<1>4. Len(queue') <= MaxQueued /\ 1 \in 1..Len(queue)
  BY <1>1, <1>2, QueueAssumption
<1> QED
  BY <1>1, <1>2, <1>3, <1>4 DEF QueueOK

\* Others announce, begin a resync, or leave the queue and the IDs alone.
LEMMA OthersQueue ==
  ASSUME HandlerInv, Others
  PROVE  QueueOK(queue') /\ used' \subseteq Brokers
<1>1. QueueOK(queue) /\ used \subseteq Brokers
  BY QueueIsOK DEF HandlerInv, HandlerTypeOK
<1>2. ASSUME NEW b \in Brokers, NEW n \in Names \cup {None}, SMAnnounces(b, n)
      PROVE  QueueOK(queue') /\ used' \subseteq Brokers
  <2> DEFINE kind == IF sm[b] = None THEN "create" ELSE IF n = None THEN "delete" ELSE "update"
  <2>1. Announce(kind, b, n) /\ n # sm[b] /\ used' = used \cup {b}
    BY <1>2 DEF SMAnnounces, SMChanges
  <2>2. kind \in {"create", "update", "delete"} /\ ((sm[b] = None) <=> (kind = "create")) /\ ((n = None) <=> (kind = "delete"))
    BY <2>1
  <2> HIDE DEF kind
  <2> QED
    BY <1>1, <2>1, <2>2, AnnounceQueue
<1>3. ASSUME NEW b \in Brokers, SMRefreshes(b) PROVE QueueOK(queue') /\ used' \subseteq Brokers
  <2>1. Announce("update", b, sm[b]) /\ sm[b] # None /\ used' = used
    BY <1>3 DEF SMRefreshes
  <2>2. sm[b] \in Names \cup {None}
    BY DEF HandlerInv, CoreInv, TypeOK
  <2> QED
    BY <1>1, <2>1, <2>2, AnnounceQueue
<1>4. ResyncBegins => QueueOK(queue') /\ used' \subseteq Brokers
  BY <1>1, ResyncQueue DEF ResyncBegins
<1>5. Operators \/ Lifecycle \/ ResyncGoesOn \/ ResyncSuffers => UNCHANGED <<queue, used>>
  BY DEF Operators, Lifecycle, ResyncGoesOn, ResyncSuffers, handlerVars
<1> QED
  BY <1>1, <1>2, <1>3, <1>4, <1>5 DEF Others

-----------------------------------------------------------------------------
(* Creations that no resync has seen.                                      *)

\* A broker that the last resync has not met gets no proxy from it.
LEMMA OthersSpare ==
  ASSUME HandlerInv, Others, NEW c \in Brokers, Unknown(c)
  PROVE  ProxiesOf(c, platform') = {}
<1>1. CoreInv /\ desired[c] = None /\ ProxiesOf(c, platform) = {}
  BY DEF HandlerInv, Unknown
<1>2. ASSUME UNCHANGED platform PROVE ProxiesOf(c, platform') = {}
  BY <1>1, <1>2
<1>3. ASSUME NEW b \in Brokers, task[b].at = "call", Effect(b) PROVE ProxiesOf(c, platform') = {}
  <2>1. c # b => ProxiesOf(c, platform') \subseteq ProxiesOf(c, platform)
    <3>1. PICK g \in Guids, r \in Registration \cup {None} :
            /\ platform' = [platform EXCEPT ![g] = r]
            /\ IsProxy(r) => r.broker = b \/ (platform[g] # None /\ IsProxy(platform[g]) /\ r.broker = platform[g].broker)
      BY <1>3 DEF Effect, IsProxy
    <3>2. platform'[g] = r /\ \A h \in Guids \ {g} : platform'[h] = platform[h]
      BY <1>1, <3>1, TaskType
    <3> QED
      BY <3>1, <3>2 DEF ProxiesOf
  <2>2. c = b => task[b].op \in {"fetch", "delete"}
    BY <1>1, <1>3, TaskType DEF Sound, Task
  <2>3. c = b => ProxiesOf(c, platform') \subseteq ProxiesOf(c, platform)
    <3> SUFFICES ASSUME c = b PROVE ProxiesOf(c, platform') \subseteq ProxiesOf(c, platform)
      OBVIOUS
    <3>1. PICK g \in Guids, r \in Registration \cup {None} :
            /\ platform' = [platform EXCEPT ![g] = r]
            /\ IsProxy(r) => IsProxy(platform[g]) /\ r.broker = platform[g].broker
      BY <1>3, <2>2 DEF Effect, IsProxy
    <3>2. platform'[g] = r /\ \A h \in Guids \ {g} : platform'[h] = platform[h]
      BY <1>1, <3>1, TaskType
    <3> QED
      BY <3>1, <3>2 DEF ProxiesOf
  <2> QED
    BY <1>1, <2>1, <2>3
<1>4. CASE Environment
  BY <1>1, <1>4, EnvironmentSpares
<1>5. CASE RoundStep \/ Rejected \/ FetchFails
  BY <1>2, <1>5
  DEF RoundStep, FetchSM, StartRound, ScheduleDesired, NextOrphan, DesiredDone, ScheduleDelete, OrphansDone,
      AwaitReturns, Rejected, DeleteRejected, DesiredRejected, FetchFails, external
<1>6. ASSUME NEW b \in Brokers, TaskStep(b) \/ Fault(b) PROVE ProxiesOf(c, platform') = {}
  <2>1. \/ UNCHANGED platform
        \/ task[b].at = "call" /\ ~TaskRefused(b) /\ PlatformCall(b)
    BY <1>6 DEF TaskStep, Fault, Put, PutConflicts, ReadArgument, CallSucceeds, CallRefused, Activate,
                PutFails, CallFails, ActivateFails
  <2> QED
    BY <1>1, <1>2, <1>3, <2>1, CallEffect
<1> QED
  BY <1>2, <1>4, <1>5, <1>6, OthersNext DEF Next

\* What the others leave of SM, of the last resync's snapshot, and of the queue.
LEMMA OthersRest ==
  ASSUME HandlerInv, Others
  PROVE  \/ UNCHANGED <<sm, queue, used, desired>>
         \/ ResyncBegins
         \/ UNCHANGED desired /\ \E b \in Brokers, n \in Names \cup {None} : SMAnnounces(b, n)
         \/ UNCHANGED desired /\ \E b \in Brokers : SMRefreshes(b)
<1>1. ASSUME NEW b \in Brokers, NEW n \in Names \cup {None}, SMAnnounces(b, n) PROVE UNCHANGED desired
  BY <1>1 DEF SMAnnounces, SMChanges, Changed, round
<1>2. ASSUME NEW b \in Brokers, SMRefreshes(b) PROVE UNCHANGED desired
  BY <1>2 DEF SMRefreshes, Changed, round
<1>3. Operators \/ Lifecycle => UNCHANGED <<sm, queue, used, desired>>
  BY DEF Operators, OperatorRegisters, OperatorRenames, OperatorDeletes, Changed, Lifecycle, Cancel, round
<1>4. ResyncGoesOn => UNCHANGED <<sm, queue, used, desired>>
  BY DEF ResyncGoesOn, handlerVars, RoundStep, StartRound, ScheduleDesired, NextOrphan, DesiredDone, ScheduleDelete,
         OrphansDone, AwaitReturns, external, TaskStep, Put, PutConflicts, ReadArgument, CallSucceeds, CallRefused,
         Activate, Advance
<1>5. ResyncSuffers => UNCHANGED <<sm, queue, used, desired>>
  BY DEF ResyncSuffers, FetchFails, Rejected, DeleteRejected, DesiredRejected, external, Fault, PutFails, CallFails,
         ActivateFails, Advance
<1> QED
  BY <1>1, <1>2, <1>3, <1>4, <1>5 DEF Others

\* The handler's view of a broker that SM has not had, or not announced before.
Untold(b, q) == (Busy => jobBroker # b) /\ \A i \in 1..Len(q) : q[i].broker # b

LEMMA OthersFresh == ASSUME HandlerInv, Others PROVE FreshInv'
<1>1. /\ \A b \in Brokers \ used : sm[b] = None /\ Unknown(b) /\ Untold(b, queue)
      /\ \A i \in 1..Len(queue) : Unseen(queue[i]) =>
           /\ Unknown(queue[i].broker)
           /\ Busy => jobBroker # queue[i].broker
           /\ \A j \in 1..i - 1 : queue[j].broker # queue[i].broker
      /\ Busy /\ Unseen(job.note) /\ job.task.at \in {"put", "call"} => ProxiesOf(jobBroker, platform) = {}
  BY DEF HandlerInv, FreshInv, Untold
<1>2. Len(queue) \in Nat /\ \A i \in 1..Len(queue) : queue[i] \in Note /\ queue[i].broker \in Brokers
  BY QueueIsOK DEF Note
<1>3. job' = job
  BY OthersType
<1>4. Busy /\ Unseen(job.note) /\ job.task.at \in {"put", "call"} => ProxiesOf(jobBroker, platform') = {}
  <2> SUFFICES ASSUME Busy, Unseen(job.note), job.task.at \in {"put", "call"} PROVE ProxiesOf(jobBroker, platform') = {}
    OBVIOUS
  <2>1. ProxiesOf(jobBroker, platform) = {} /\ jobBroker \in Brokers /\ CoreInv
    BY <1>1, JobType DEF HandlerInv
  <2>2. Operators => Environment
    BY DEF Operators, Environment
  <2> QED
    BY <2>1, <2>2, OthersWhileBusy, EnvironmentSpares
<1>5. \A b \in Brokers \ used : ProxiesOf(b, platform') = {}
  BY <1>1, OthersSpare
<1>6. \A i \in 1..Len(queue) : Unseen(queue[i]) => ProxiesOf(queue[i].broker, platform') = {}
  BY <1>1, <1>2, OthersSpare
<1>7. ASSUME \A b \in Brokers \ used' :
               /\ b \notin used /\ sm'[b] = None /\ desired'[b] = None
               /\ \A i \in 1..Len(queue') : queue'[i].broker # b,
             \A i \in 1..Len(queue') : Unseen(queue'[i]) =>
               /\ ProxiesOf(queue'[i].broker, platform') = {} /\ desired'[queue'[i].broker] = None
               /\ Busy => jobBroker # queue'[i].broker
               /\ \A j \in 1..i - 1 : queue'[j].broker # queue'[i].broker
      PROVE  FreshInv'
  <2>1. \A b : ProxiesOf(b, platform)' = ProxiesOf(b, platform')
    BY DEF ProxiesOf, IsProxy
  <2>2. Busy' = Busy /\ (Busy => jobBroker' = jobBroker)
    BY <1>3 DEF Busy, jobBroker
  <2>3. /\ \A b \in Brokers \ used' :
             /\ sm'[b] = None /\ ProxiesOf(b, platform') = {} /\ desired'[b] = None
             /\ Busy => jobBroker # b
             /\ \A i \in 1..Len(queue') : queue'[i].broker # b
    BY <1>1, <1>5, <1>7 DEF Untold
  <2> QED
    BY <1>3, <1>4, <1>7, <2>1, <2>2, <2>3 DEF FreshInv, Unknown, Unseen, Busy, jobBroker
<1>8. CASE UNCHANGED <<sm, queue, used, desired>>
  BY <1>1, <1>6, <1>7, <1>8 DEF Unknown, Untold
<1>9. CASE ResyncBegins
  <2>1. \A i \in 1..Len(queue') : /\ ~Unseen(queue'[i])
                                  /\ \E j \in 1..Len(queue) : queue'[i].broker = queue[j].broker
    BY <1>9, ResyncQueue DEF Unseen
  <2>2. desired' = [b \in Brokers |-> Wanted(sm[b])] /\ UNCHANGED <<sm, used>>
    BY <1>9 DEF ResyncBegins, FetchSM, external
  <2>3. \A b \in Brokers \ used : desired'[b] = None
    BY <1>1, <2>2 DEF Wanted
  <2> QED
    BY <1>1, <1>7, <2>1, <2>2, <2>3 DEF Untold
<1>10. ASSUME NEW b \in Brokers, NEW n \in Names \cup {None}, SMAnnounces(b, n), UNCHANGED desired PROVE FreshInv'
  <2> DEFINE kind == IF sm[b] = None THEN "create" ELSE IF n = None THEN "delete" ELSE "update"
             k == Len(queue) + 1
  <2>1. /\ Announce(kind, b, n) /\ n # sm[b] /\ used' = used \cup {b} /\ sm' = [sm EXCEPT ![b] = n]
        /\ UNCHANGED platform
        /\ sm[b] = None => b \notin used
    BY <1>10 DEF SMAnnounces, SMChanges
  <2>2. kind \in {"create", "update", "delete"} /\ ((sm[b] = None) <=> (kind = "create")) /\ ((n = None) <=> (kind = "delete"))
    BY <2>1
  <2> HIDE DEF kind
  <2>3. /\ Len(queue') = k /\ \A i \in 1..Len(queue) : queue'[i] = queue[i]
        /\ queue'[k].kind = kind /\ queue'[k].broker = b
    BY <2>1, <2>2, AnnounceQueue
  <2>4. \A i \in 1..Len(queue') : i \in 1..Len(queue) \/ i = k
    BY <1>2, <2>3
  <2>5. sm \in [Brokers -> Names \cup {None}]
    BY DEF HandlerInv, CoreInv, TypeOK
  <2>6. \A c \in Brokers \ used' :
          /\ c \notin used /\ sm'[c] = None /\ desired'[c] = None
          /\ \A i \in 1..Len(queue') : queue'[i].broker # c
    BY <1>1, <1>10, <2>1, <2>3, <2>4, <2>5 DEF Untold, Unknown
  <2>7. ASSUME NEW i \in 1..Len(queue), Unseen(queue'[i])
        PROVE  /\ ProxiesOf(queue'[i].broker, platform') = {} /\ desired'[queue'[i].broker] = None
               /\ Busy => jobBroker # queue'[i].broker
               /\ \A j \in 1..i - 1 : queue'[j].broker # queue'[i].broker
    <3>1. \A j \in 1..i - 1 : j \in 1..Len(queue)
      BY <1>2
    <3> QED
      BY <1>1, <1>6, <1>10, <2>3, <2>7, <3>1 DEF Unknown
  <2>8. Unseen(queue'[k]) =>
          /\ ProxiesOf(b, platform') = {} /\ desired'[b] = None
          /\ Busy => jobBroker # b
          /\ \A j \in 1..k - 1 : queue'[j].broker # b
    <3>1. Unseen(queue'[k]) => b \in Brokers \ used
      BY <2>1, <2>2, <2>3 DEF Unseen
    <3>2. \A j \in 1..k - 1 : j \in 1..Len(queue)
      BY <1>2
    <3> QED
      BY <1>1, <1>5, <1>10, <2>3, <3>1, <3>2 DEF Untold, Unknown
  <2> HIDE DEF k
  <2> QED
    BY <1>7, <2>3, <2>4, <2>6, <2>7, <2>8
<1>11. ASSUME NEW b \in Brokers, SMRefreshes(b), UNCHANGED desired PROVE FreshInv'
  <2> DEFINE k == Len(queue) + 1
  <2>1. Announce("update", b, sm[b]) /\ sm[b] # None /\ UNCHANGED <<sm, platform, used>>
    BY <1>11 DEF SMRefreshes
  <2>2. sm[b] \in Names \cup {None}
    BY DEF HandlerInv, CoreInv, TypeOK
  <2>3. /\ Len(queue') = k /\ \A i \in 1..Len(queue) : queue'[i] = queue[i]
        /\ queue'[k].kind = "update" /\ queue'[k].broker = b
    BY <2>1, <2>2, AnnounceQueue
  <2>4. \A i \in 1..Len(queue') : i \in 1..Len(queue) \/ i = k
    BY <1>2, <2>3
  <2>5. \A c \in Brokers \ used' :
          /\ c \notin used /\ sm'[c] = None /\ desired'[c] = None
          /\ \A i \in 1..Len(queue') : queue'[i].broker # c
    BY <1>1, <1>11, <2>1, <2>3, <2>4 DEF Untold, Unknown
  <2>6. ASSUME NEW i \in 1..Len(queue), Unseen(queue'[i])
        PROVE  /\ ProxiesOf(queue'[i].broker, platform') = {} /\ desired'[queue'[i].broker] = None
               /\ Busy => jobBroker # queue'[i].broker
               /\ \A j \in 1..i - 1 : queue'[j].broker # queue'[i].broker
    <3>1. \A j \in 1..i - 1 : j \in 1..Len(queue)
      BY <1>2
    <3> QED
      BY <1>1, <1>6, <1>11, <2>3, <2>6, <3>1 DEF Unknown
  <2>7. ~Unseen(queue'[k])
    BY <2>3 DEF Unseen
  <2> HIDE DEF k
  <2> QED
    BY <1>7, <2>3, <2>4, <2>5, <2>6, <2>7
<1> QED
  BY <1>8, <1>9, <1>10, <1>11, OthersRest

-----------------------------------------------------------------------------
(* The invariant of the handler.                                           *)

LEMMA OthersKeep == ASSUME HandlerInv, Others PROVE HandlerInv'
<1>1. CoreInv' /\ FreshInv'
  BY OthersKeepCore, OthersFresh
<1>2. UNCHANGED <<job, options>> /\ intact' \in BOOLEAN /\ mishap' \in BOOLEAN
  BY OthersType
<1>3. QueueOK(queue') /\ used' \subseteq Brokers
  BY OthersQueue
<1>4. QueueInv'
  BY <1>3 DEF QueueOK, QueueInv
<1>5. job \in Job \cup {NoJob} /\ (Busy => job.task.at \in {"put", "call", "activate"})
  BY DEF HandlerInv, HandlerTypeOK
<1>6. Busy => phase' = "idle"
  BY OthersWhileBusy
<1>7. HandlerTypeOK'
  BY <1>1, <1>2, <1>3, <1>5, <1>6 DEF HandlerTypeOK, CoreInv, QueueOK, Busy
<1>8. JobInv'
  <2>1. Busy => Shaped(job.note) /\ TaskOf(job.note, job.task) /\ (job.task.op # "create" => Held(job.note, job.task.guid)')
    BY JobType, HeldStays
  <2> QED
    BY <1>2, <2>1 DEF JobInv, Busy, TaskOf, Shaped
<1> QED
  BY <1>1, <1>4, <1>7, <1>8 DEF HandlerInv

LEMMA TurnsKeep == ASSUME HandlerInv, OnCreate \/ OnUpdate \/ OnDelete PROVE HandlerInv'
<1>1. /\ phase = "idle" /\ ~Busy /\ queue # <<>> /\ queue' = Tail(queue)
      /\ UNCHANGED <<sm, platform, creds, process, round, used, mishap>>
      /\ clean' \in BOOLEAN /\ disturbances' \in 0..MaxDisturbances /\ intact' \in BOOLEAN
      /\ job' = NoJob \/ \E t \in Task : Undertaken(t)
  BY Turns
<1>2. CoreInv /\ TypeOK
  BY DEF HandlerInv, CoreInv
<1>3. TypeOK'
  BY <1>1, <1>2 DEF TypeOK, process, round
<1>4. CoreInv'
  <2>1. /\ \A g \in Guids : existing[g] # None /\ platform'[g] # None => platform'[g].broker = existing[g].broker
        /\ \A g \in Guids : existing[g] = None
    BY <1>1, <1>2 DEF CoreInv, QuietInv, SnapshotInv, InRound
  <2>2. \A g \in Guids : IsProxy(existing[g]) => platform'[g] = None \/ IsProxy(platform'[g])
    BY <2>1 DEF IsProxy
  <2>3. \A c \in Brokers : ProxiesOf(c, platform') \subseteq ProxiesOf(c, platform)
    BY <1>1
  <2> QED
    BY <1>1, <1>2, <1>3, <2>1, <2>2, <2>3, UserKeeps DEF process, round
<1>5. /\ QueueOK(queue') /\ 1 \in 1..Len(queue)
      /\ \A i \in 1..Len(queue') : i + 1 \in 1..Len(queue) /\ queue'[i] = queue[i + 1]
  BY <1>1, TailQueue
<1>6. QueueInv'
  BY <1>5 DEF QueueOK, QueueInv
<1>7. Head(queue) \in Note /\ Shaped(Head(queue)) /\ Head(queue) = queue[1]
  BY <1>1, HeadNoted
<1>8. ASSUME Busy'
      PROVE  /\ job' \in Job /\ job'.note = Head(queue)
             /\ job'.task.at \in {"put", "call"} /\ TaskOf(Head(queue), job'.task)
             /\ job'.task.op # "create" => Held(Head(queue), job'.task.guid)
  <2>1. PICK t \in Task : Undertaken(t)
    BY <1>1, <1>8 DEF Busy
  <2>2. job' = [note |-> Head(queue), task |-> t]
    BY <2>1 DEF Undertaken
  <2>3. job' \in Job /\ job'.note = Head(queue) /\ job'.task = t
    BY <1>7, <2>2 DEF Job
  <2> QED
    BY <2>1, <2>3 DEF Undertaken
<1>9. HandlerTypeOK'
  <2>1. job' \in Job \cup {NoJob} /\ phase' = "idle" /\ mishap' \in BOOLEAN /\ used' \subseteq Brokers
    BY <1>1, <1>8 DEF HandlerInv, HandlerTypeOK, Busy, round
  <2> QED
    BY <1>1, <1>3, <1>5, <1>8, <2>1 DEF HandlerTypeOK, QueueOK
<1>10. JobInv'
  BY <1>1, <1>7, <1>8 DEF JobInv, Held, TaskOf, Shaped, process, IsProxy
<1>11. FreshInv'
  <2>1. /\ \A b \in Brokers \ used : sm[b] = None /\ Unknown(b) /\ \A i \in 1..Len(queue) : queue[i].broker # b
        /\ \A i \in 1..Len(queue) : Unseen(queue[i]) =>
             Unknown(queue[i].broker) /\ \A j \in 1..i - 1 : queue[j].broker # queue[i].broker
    BY DEF HandlerInv, FreshInv
  <2>2. Busy' => jobBroker' = queue[1].broker /\ job'.note = queue[1]
    BY <1>7, <1>8 DEF jobBroker
  <2>3. UNCHANGED <<sm, used, platform, desired>> /\ \A b : Unknown(b)' = Unknown(b)
    BY <1>1 DEF round, Unknown, ProxiesOf, IsProxy
  <2>4. ASSUME NEW i \in 1..Len(queue'), Unseen(queue'[i])
        PROVE  /\ Unknown(queue'[i].broker)
               /\ Busy' => jobBroker' # queue'[i].broker
               /\ \A j \in 1..i - 1 : queue'[j].broker # queue'[i].broker
    <3>1. i + 1 \in 1..Len(queue) /\ queue'[i] = queue[i + 1] /\ Len(queue) \in Nat /\ Len(queue') \in Nat
      BY <1>5, QueueIsOK DEF QueueOK
    <3>2. Unknown(queue'[i].broker) /\ \A j \in 1..(i + 1) - 1 : queue[j].broker # queue'[i].broker
      BY <2>1, <2>4, <3>1
    <3>3. queue[1].broker # queue'[i].broker
      BY <3>1, <3>2
    <3>4. \A j \in 1..i - 1 : j \in 1..Len(queue') /\ j + 1 \in 1..(i + 1) - 1
      BY <3>1
    <3>5. \A j \in 1..i - 1 : queue'[j].broker # queue'[i].broker
      BY <1>5, <3>2, <3>4
    <3> QED
      BY <2>2, <3>2, <3>3, <3>5
  <2>5. Busy' /\ Unseen(job'.note) => ProxiesOf(jobBroker', platform) = {}
    BY <1>5, <2>1, <2>2 DEF Unknown
  <2>6. \A b \in Brokers \ used' :
          /\ sm'[b] = None /\ Unknown(b)'
          /\ Busy' => jobBroker' # b
          /\ \A i \in 1..Len(queue') : queue'[i].broker # b
    BY <1>5, <2>1, <2>2, <2>3
  <2> QED
    BY <2>3, <2>4, <2>5, <2>6 DEF FreshInv, Unseen, Busy, jobBroker, Unknown, ProxiesOf, IsProxy
<1> QED
  BY <1>4, <1>6, <1>9, <1>10, <1>11 DEF HandlerInv

\* The next step of a job.
LEMMA JobMoves ==
  ASSUME job \in Job, NEW step \in {"call", "activate"}, NEW cred \in Issued \cup {Default, None},
         \/ job' = [job EXCEPT !.task.at = step] /\ cred = job.task.cred
         \/ job' = [job EXCEPT !.task.at = step, !.task.cred = cred]
  PROVE  /\ job' \in Job /\ job'.note = job.note
         /\ job'.task.op = job.task.op /\ job'.task.guid = job.task.guid
         /\ job'.task.at = step /\ job'.task.cred = cred
<1>1. job.task \in Task /\ job.note \in Note
  BY DEF Job
<1>2. CASE job' = [job EXCEPT !.task.at = step] /\ cred = job.task.cred
  <2> DEFINE t == [job.task EXCEPT !.at = step]
  <2>1. t \in Task /\ t.op = job.task.op /\ t.guid = job.task.guid /\ t.at = step /\ t.cred = job.task.cred
    BY <1>1 DEF Task
  <2>2. job' = [job EXCEPT !.task = t]
    BY <1>2
  <2> HIDE DEF t
  <2>3. job' \in Job /\ job'.note = job.note /\ job'.task = t
    BY <2>1, <2>2 DEF Job
  <2> QED
    BY <1>2, <2>1, <2>3
<1>3. CASE job' = [job EXCEPT !.task.at = step, !.task.cred = cred]
  <2> DEFINE t == [job.task EXCEPT !.at = step, !.cred = cred]
  <2>1. t \in Task /\ t.op = job.task.op /\ t.guid = job.task.guid /\ t.at = step /\ t.cred = cred
    BY <1>1 DEF Task
  <2>2. job' = [job EXCEPT !.task = t]
    BY <1>1, <1>3 DEF Job, Task
  <2> HIDE DEF t
  <2>3. job' \in Job /\ job'.note = job.note /\ job'.task = t
    BY <2>1, <2>2 DEF Job
  <2> QED
    BY <1>3, <2>1, <2>3
<1> QED
  BY <1>2, <1>3

\* The call changes registrations of the job's broker only.
LEMMA JobEffectSpares ==
  ASSUME HandlerInv, Busy, JobEffect
  PROVE  /\ platform' \in [Guids -> Registration \cup {None}]
         /\ \A b \in Brokers \ {jobBroker} : ProxiesOf(b, platform') = ProxiesOf(b, platform)
         /\ job.task.op # "create" /\ platform'[job.task.guid] # None =>
              /\ platform'[job.task.guid].broker = jobBroker
              /\ \/ IsProxy(platform'[job.task.guid])
                 \/ options.takeover /\ job.note.kind = "create" /\ platform'[job.task.guid].kind = "original"
<1>1. /\ platform \in [Guids -> Registration \cup {None}] /\ TaskOf(job.note, job.task)
      /\ job.task.op # "create" => Held(job.note, job.task.guid)
  BY JobType
<1>2. PICK g \in Guids, r \in Registration \cup {None} :
        /\ platform' = [platform EXCEPT ![g] = r]
        /\ r # None => r.broker = jobBroker \/ (job.task.op = "fetch" /\ platform[g] # None /\ r.broker = platform[g].broker)
        /\ \/ job.task.op = "create" /\ platform[g] = None
           \/ job.task.op # "create" /\ g = job.task.guid /\ platform[g] # None
        /\ r # None => IsProxy(r) \/ (platform[g] # None /\ r.kind = platform[g].kind)
  BY DEF JobEffect, IsProxy
<1>3. platform'[g] = r /\ \A h \in Guids \ {g} : platform'[h] = platform[h]
  BY <1>1, <1>2
<1>4. platform[g] # None => platform[g].broker = jobBroker
  BY <1>1, <1>2 DEF Held, jobBroker
<1>5. r # None => r.broker = jobBroker
  BY <1>2, <1>4
<1>6. \A b \in Brokers \ {jobBroker} : ProxiesOf(b, platform') = ProxiesOf(b, platform)
  BY <1>3, <1>4, <1>5 DEF ProxiesOf, IsProxy
<1>7. job.task.op # "create" /\ r # None =>
        /\ g = job.task.guid
        /\ \/ IsProxy(r)
           \/ options.takeover /\ job.note.kind = "create" /\ r.kind = "original"
  <2>1. job.task.op # "create" => g = job.task.guid /\ platform[g] # None
    BY <1>2
  <2>2. job.task.op # "create" =>
          \/ platform[g].kind \in {"proxy", "legacy"}
          \/ options.takeover /\ job.note.kind = "create" /\ platform[g].kind = "original"
    BY <1>1, <2>1 DEF Held, IsProxy
  <2> QED
    BY <1>2, <2>1, <2>2 DEF IsProxy
<1>8. platform' \in [Guids -> Registration \cup {None}]
  BY <1>1, <1>2
<1>9. job.task.op # "create" => job.task.guid = g
  BY <1>2
<1> QED
  BY <1>3, <1>5, <1>6, <1>7, <1>8, <1>9

LEMMA JobKeeps == ASSUME HandlerInv, JobStep PROVE HandlerInv'
<1>1. /\ Busy /\ UNCHANGED <<sm, process, round, queue, used>>
      /\ clean' \in BOOLEAN /\ disturbances' \in 0..MaxDisturbances
      /\ creds' \in [Brokers -> Credentials]
      /\ intact' \in BOOLEAN /\ mishap' \in BOOLEAN
      /\ JobFollows
  BY JobSteps
<1>2. /\ job \in Job /\ job.note \in Note /\ job.task \in Task /\ jobBroker \in Brokers
      /\ Shaped(job.note) /\ TaskOf(job.note, job.task)
      /\ job.task.op # "create" => Held(job.note, job.task.guid)
      /\ phase = "idle" /\ job.task.at \in {"put", "call", "activate"}
      /\ platform \in [Guids -> Registration \cup {None}]
  BY <1>1, JobType
<1>3. UNCHANGED platform \/ JobEffect
  BY <1>1 DEF JobFollows
<1>4. /\ platform' \in [Guids -> Registration \cup {None}]
      /\ \A b \in Brokers \ {jobBroker} : ProxiesOf(b, platform') = ProxiesOf(b, platform)
  BY <1>1, <1>2, <1>3, JobEffectSpares
<1>5. CoreInv /\ TypeOK
  BY DEF HandlerInv, CoreInv
<1>6. TypeOK'
  BY <1>1, <1>4, <1>5 DEF TypeOK, process, round
<1>7. CoreInv'
  <2>1. ~InRound /\ ~InRound' /\ \A g \in Guids : existing'[g] = None
    BY <1>1, <1>2, <1>5 DEF InRound, CoreInv, QuietInv, round
  <2>2. QuietInv' /\ IndexInv' /\ LoopInv'
    BY <1>1, <1>5, <2>1 DEF CoreInv, QuietInv, IndexInv, LoopInv, Running, round, InRound, ProxiesOf
  <2>3. SnapshotInv'
    BY <2>1 DEF SnapshotInv
  <2>4. \A b \in Brokers : Sound(b, task[b])'
    BY <1>1, <1>5 DEF CoreInv, TaskInv, Sound, round, process, ProxiesOf, KeyMatches
  <2>5. TaskInv'
    BY <2>1, <2>4 DEF TaskInv
  <2> QED
    BY <1>6, <2>2, <2>3, <2>5 DEF CoreInv
<1>8. /\ job' \in Job \cup {NoJob}
      /\ Busy' => /\ job'.note = job.note
                  /\ job'.task.at \in {"put", "call", "activate"}
                  /\ TaskOf(job.note, job'.task)
                  /\ job'.task.op = job.task.op
                  /\ job'.task.guid = job.task.guid
                  /\ job'.task.at \in {"put", "call"} => UNCHANGED platform /\ job.task.at = "put"
  <2>1. CASE job' = NoJob
    BY <2>1 DEF Busy
  <2>2. CASE /\ At("put") /\ UNCHANGED platform
             /\ Fresh(jobBroker) \in Issued
             /\ job' = [job EXCEPT !.task.at = "call", !.task.cred = Fresh(jobBroker)]
    <3> DEFINE c == Fresh(jobBroker)
    <3>1. c \in Issued /\ job' = [job EXCEPT !.task.at = "call", !.task.cred = c]
      BY <2>2
    <3> HIDE DEF c
    <3>2. /\ job' \in Job /\ job'.note = job.note /\ job'.task.op = job.task.op /\ job'.task.guid = job.task.guid
          /\ job'.task.at = "call" /\ job'.task.cred = c
      BY <1>2, <3>1, JobMoves
    <3>3. c # None /\ job.task.at = "put"
      BY <2>2, <3>1, NoneAssumption DEF At
    <3>4. TaskOf(job.note, job'.task)
      BY <1>2, <3>2, <3>3 DEF TaskOf
    <3> QED
      BY <2>2, <3>2, <3>3, <3>4
  <2>3. CASE /\ At("call")
             /\ options.credentials /\ job.task.op # "delete"
             /\ JobEffect
             /\ job' = [job EXCEPT !.task.at = "activate"]
    <3>1. /\ job' \in Job /\ job'.note = job.note /\ job'.task.op = job.task.op /\ job'.task.guid = job.task.guid
          /\ job'.task.at = "activate" /\ job'.task.cred = job.task.cred
      <4>1. job.task.cred \in Issued \cup {Default, None}
        BY <1>2 DEF Task
      <4> QED
        BY <1>2, <2>3, <4>1, JobMoves
    <3>2. TaskOf(job.note, job'.task)
      BY <1>2, <2>3, <3>1 DEF TaskOf
    <3> QED
      BY <3>1, <3>2
  <2> QED
    BY <1>1, <2>1, <2>2, <2>3 DEF JobFollows
<1>9. HandlerTypeOK'
  BY <1>1, <1>2, <1>6, <1>8 DEF HandlerTypeOK, HandlerInv, round, Busy
<1>10. QueueInv'
  BY <1>1 DEF HandlerInv, QueueInv
<1>11. JobInv'
  <2>1. job.task.op # "create" /\ platform'[job.task.guid] # None =>
          /\ platform'[job.task.guid].broker = jobBroker
          /\ \/ IsProxy(platform'[job.task.guid])
             \/ options.takeover /\ job.note.kind = "create" /\ platform'[job.task.guid].kind = "original"
    <3>1. CASE UNCHANGED platform
      BY <1>2, <3>1 DEF Held, IsProxy, jobBroker
    <3> QED
      BY <1>1, <1>3, <3>1, JobEffectSpares
  <2>2. job.task.op # "create" => job.task.guid \in Guids
    BY <1>2 DEF Held
  <2>3. ASSUME Busy', job'.task.op # "create" PROVE Held(job.note, job.task.guid)'
    BY <1>1, <1>8, <2>1, <2>2, <2>3 DEF Held, IsProxy, jobBroker, process
  <2>4. Busy' => Shaped(job.note)' /\ TaskOf(job.note, job.task)'
    BY <1>1, <1>2, <1>8 DEF TaskOf, Shaped, process
  <2> QED
    BY <2>3, <2>4 DEF JobInv
<1>12. FreshInv'
  <2>1. /\ \A b \in Brokers \ used :
             /\ sm[b] = None /\ Unknown(b) /\ b # jobBroker
             /\ \A i \in 1..Len(queue) : queue[i].broker # b
        /\ \A i \in 1..Len(queue) : Unseen(queue[i]) =>
             /\ Unknown(queue[i].broker) /\ queue[i].broker # jobBroker
             /\ \A j \in 1..i - 1 : queue[j].broker # queue[i].broker
        /\ Unseen(job.note) /\ job.task.at = "put" => ProxiesOf(jobBroker, platform) = {}
    BY <1>1 DEF HandlerInv, FreshInv
  <2>2. \A i \in 1..Len(queue) : queue[i].broker \in Brokers
    BY QueueIsOK DEF Note
  <2>3. \A b \in Brokers \ {jobBroker} : Unknown(b) => ProxiesOf(b, platform') = {} /\ desired[b] = None
    BY <1>4 DEF Unknown
  <2>4. Busy' => jobBroker' = jobBroker
    BY <1>8 DEF jobBroker
  <2>5. Busy' /\ Unseen(job'.note) /\ job'.task.at \in {"put", "call"} => ProxiesOf(jobBroker', platform') = {}
    BY <1>8, <2>1, <2>4
  <2>6. UNCHANGED <<sm, used, queue, desired>> /\ \A b : ProxiesOf(b, platform)' = ProxiesOf(b, platform')
    BY <1>1 DEF round, ProxiesOf, IsProxy
  <2> QED
    BY <2>1, <2>2, <2>3, <2>4, <2>5, <2>6 DEF FreshInv, Unknown, Unseen, Busy, jobBroker
<1> QED
  BY <1>7, <1>9, <1>10, <1>11, <1>12 DEF HandlerInv

LEMMA HandlerInitKeeps == HandlerInit => HandlerInv
<1> SUFFICES ASSUME HandlerInit PROVE HandlerInv
  OBVIOUS
<1>1. CoreInv
  BY CoreInit DEF HandlerInit
<1>2. /\ queue = <<>> /\ job = NoJob /\ intact = FALSE /\ mishap = FALSE /\ ~Busy
      /\ used = {b \in Brokers : sm[b] # None \/ ProxiesOf(b, platform) # {}}
      /\ \A b \in Brokers : desired[b] = None
  BY DEF HandlerInit, Init, Busy
<1>3. queue \in Seq(Note) /\ Len(queue) = 0
  BY <1>2
<1>4. HandlerTypeOK
  <2>1. queue \in Seq(Note) /\ Len(queue) <= MaxQueued
    BY <1>3, QueueAssumption
  <2>2. used \subseteq Brokers /\ job \in Job \cup {NoJob}
    BY <1>2
  <2>3. intact \in BOOLEAN /\ mishap \in BOOLEAN
    BY <1>2
  <2> QED
    BY <1>1, <1>2, <2>1, <2>2, <2>3 DEF HandlerTypeOK, CoreInv
<1>5. QueueInv /\ JobInv /\ FreshInv
  BY <1>2, <1>3 DEF QueueInv, JobInv, FreshInv, Unknown
<1> QED
  BY <1>1, <1>4, <1>5 DEF HandlerInv

LEMMA HandlerSteps ==
  ASSUME HandlerNext
  PROVE  Others \/ OnCreate \/ OnUpdate \/ OnDelete \/ JobStep
  BY DEF HandlerNext, Others

LEMMA HandlerStutters == ASSUME HandlerInv, UNCHANGED allVars PROVE HandlerInv'
<1>1. CoreInv'
  BY CoreStep DEF HandlerInv, allVars
<1>2. UNCHANGED <<queue, used, job, intact, mishap>>
  BY DEF allVars, handlerVars
<1>3. UNCHANGED <<sm, platform, desired, options, phase>>
  BY DEF allVars, vars, external, process, round
<1>4. HandlerTypeOK' /\ QueueInv' /\ JobInv'
  BY <1>1, <1>2, <1>3
  DEF HandlerInv, HandlerTypeOK, CoreInv, QueueInv, JobInv, Shaped, TaskOf, Held, Busy, IsProxy
<1>5. FreshInv'
  BY <1>2, <1>3 DEF HandlerInv, FreshInv, Unknown, Unseen, Busy, jobBroker, ProxiesOf, IsProxy
<1> QED
  BY <1>1, <1>4, <1>5 DEF HandlerInv

LEMMA HandlerStep == HandlerInv /\ [HandlerNext]_allVars => HandlerInv'
  BY HandlerSteps, OthersKeep, TurnsKeep, JobKeeps, HandlerStutters

\* Whatever waits in the queue or is being handled is a change that SM can make,
\* what the handler holds belongs to the broker that it was looked up for, and
\* of a creation that no resync has seen the platform has nothing yet.
THEOREM HandlerInvariant == HandlerSpec => []HandlerInv
  BY HandlerInitKeeps, HandlerStep, PTL DEF HandlerSpec

\* The state of the handler keeps its types: a notification is handled between
\* the rounds only.
THEOREM HandlerTypeCorrect == HandlerSpec => []HandlerTypeOK
<1>1. HandlerInv => HandlerTypeOK
  BY DEF HandlerInv
<1> QED
  BY <1>1, HandlerInvariant, PTL

-----------------------------------------------------------------------------
(* What the handler does to registrations.                                 *)

LEMMA TakenOver ==
  ASSUME HandlerInv, JobStep, NEW g \in Guids,
         platform[g] # None, ~IsProxy(platform[g]), platform'[g] # platform[g]
  PROVE  options.takeover /\ job.note.kind = "create" /\ platform[g].kind = "original"
<1>1. Busy /\ JobEffect
  BY JobSteps DEF JobFollows
<1>2. /\ platform \in [Guids -> Registration \cup {None}]
      /\ job.task.op # "create" => Held(job.note, job.task.guid)
  BY <1>1, JobType
<1>3. job.task.op # "create" /\ g = job.task.guid
  BY <1>1, <1>2 DEF JobEffect
<1> QED
  BY <1>2, <1>3 DEF Held

\* The handler changes no registration but proxies, unless it may take brokers
\* over and the URL is the one that SM has: also if the registration that it
\* looked up was renamed, or deleted, before the call.
THEOREM NothingElseTakenOver == HandlerSpec => OnlyMatchingTakenOver
<1> DEFINE Allowed == Busy /\ job' # job =>
         \A g \in Guids : (platform[g] # None /\ ~IsProxy(platform[g]) /\ platform'[g] # platform[g]) =>
            /\ options.takeover
            /\ job.note.kind = "create"
            /\ platform[g].kind = "original"
<1>1. HandlerInv /\ [HandlerNext]_allVars => [Allowed]_allVars
  <2> SUFFICES ASSUME HandlerInv, HandlerNext, Busy, job' # job PROVE Allowed
    BY DEF Allowed
  <2>1. JobStep
    BY HandlerSteps, OthersType, Turns
  <2> QED
    BY <2>1, TakenOver
<1> QED
  BY <1>1, HandlerInvariant, PTL DEF HandlerSpec, OnlyMatchingTakenOver

\* A set of registrations with at most one member.
LEMMA CardinalitySingle ==
  ASSUME NEW b \in Brokers, NEW regs
  PROVE  Cardinality(ProxiesOf(b, regs)) <= 1 <=> Single(b, regs)
<1> DEFINE S == ProxiesOf(b, regs)
<1>1. IsFiniteSet(S)
  BY FiniteAssumption, FS_Subset DEF ProxiesOf
<1>2. Cardinality({}) = 0
  BY FS_EmptySet
<1>3. ASSUME Single(b, regs), NEW g \in S PROVE Cardinality(S) = 1
  <2>1. S = {g}
    BY <1>3 DEF Single
  <2> QED
    BY <2>1, FS_Singleton
<1>4. ASSUME NEW g \in S, NEW h \in S, g # h PROVE Cardinality(S) > 1
  <2>1. IsFiniteSet({g, h}) /\ {g, h} \subseteq S
    BY <1>1, <1>4, FS_Subset
  <2>2. Cardinality({g}) = 1 /\ IsFiniteSet({g})
    BY FS_Singleton
  <2>3. Cardinality({g} \cup {h}) = 2
    BY <1>4, <2>2, FS_AddElement
  <2>4. Cardinality({g, h}) <= Cardinality(S) /\ {g, h} = {g} \cup {h}
    BY <1>1, <2>1, FS_Subset
  <2>5. Cardinality(S) \in Nat
    BY <1>1, FS_CardinalityType
  <2> QED
    BY <2>3, <2>4, <2>5
<1>5. CASE S = {}
  BY <1>2, <1>5 DEF Single
<1>6. CASE Single(b, regs) /\ S # {}
  BY <1>3, <1>6
<1>7. CASE ~Single(b, regs)
  <2>1. Cardinality(S) \in Nat
    BY <1>1, FS_CardinalityType
  <2> QED
    BY <1>4, <1>7, <2>1 DEF Single
<1> QED
  BY <1>5, <1>6, <1>7

\* The handler gives a broker a second proxy only if it replays the creation.
LEMMA Replayed ==
  ASSUME HandlerInv, JobStep, NEW b \in Brokers, Single(b, platform), ~Single(b, platform')
  PROVE  /\ Busy /\ job.note.kind = "create" /\ job.note.stale
         /\ \A g \in ProxiesOf(b, platform) : platform[g].name # job.note.new
<1>1. Busy
  BY JobSteps
<1>2. At("call") /\ JobEffect
  <2>1. ~UNCHANGED platform
    OBVIOUS
  <2> QED
    BY <2>1, JobSteps DEF JobFollows
<1>3. b = jobBroker
  <2>1. b # jobBroker => ProxiesOf(b, platform') = ProxiesOf(b, platform)
    BY <1>1, <1>2, JobEffectSpares
  <2> QED
    BY <2>1 DEF Single
<1>4. /\ platform \in [Guids -> Registration \cup {None}]
      /\ TaskOf(job.note, job.task)
      /\ job.task.op # "create" => Held(job.note, job.task.guid)
  BY <1>1, JobType
<1>5. PICK g \in Guids, r \in Registration \cup {None} :
        /\ platform' = [platform EXCEPT ![g] = r]
        /\ \/ /\ job.task.op = "create"
              /\ platform[g] = None
              /\ ProxyNamed(jobBroker, jobName, platform) = {}
           \/ /\ job.task.op = "update"
              /\ g = job.task.guid /\ platform[g] # None
              /\ ProxyNamed(jobBroker, jobName, platform) \subseteq {g}
           \/ /\ job.task.op = "fetch"
              /\ platform[g] # None
              /\ r # None /\ r.kind = platform[g].kind /\ r.broker = platform[g].broker
           \/ /\ job.task.op = "delete"
              /\ r = None
  BY <1>2 DEF JobEffect
<1>6. platform'[g] = r /\ \A h \in Guids \ {g} : platform'[h] = platform[h]
  BY <1>4, <1>5
<1>7. ~(ProxiesOf(b, platform') \subseteq ProxiesOf(b, platform))
  BY DEF Single
<1>8. g \notin ProxiesOf(b, platform)
  <2>1. \A h \in ProxiesOf(b, platform') : h = g \/ h \in ProxiesOf(b, platform)
    BY <1>6 DEF ProxiesOf
  <2> QED
    BY <1>7, <2>1
<1>9. job.task.op \in {"create", "update"}
  <2>1. job.task.op \in {"fetch", "delete"} => ProxiesOf(b, platform') \subseteq ProxiesOf(b, platform)
    BY <1>5, <1>6 DEF ProxiesOf, IsProxy
  <2> QED
    BY <1>4, <1>7, <2>1 DEF TaskOf
<1>10. job.note.kind = "create"
  <2>1. CASE job.task.op = "create"
    BY <1>4, <2>1 DEF TaskOf
  <2>2. CASE job.task.op = "update"
    <3>1. g = job.task.guid /\ platform[g] # None /\ platform[g].broker = jobBroker
      BY <1>4, <1>5, <2>2 DEF Held, jobBroker
    <3>2. ~IsProxy(platform[g])
      BY <1>3, <1>8, <3>1 DEF ProxiesOf
    <3> QED
      BY <1>4, <2>2, <3>1, <3>2 DEF Held
  <2> QED
    BY <1>9, <2>1, <2>2
<1>11. ProxyNamed(b, job.note.new, platform) = {}
  BY <1>3, <1>5, <1>8, <1>9 DEF ProxyNamed, jobName
<1>12. ProxiesOf(b, platform) # {}
  <2>1. \A h \in ProxiesOf(b, platform') : h = g \/ h \in ProxiesOf(b, platform)
    BY <1>6 DEF ProxiesOf
  <2> QED
    BY <2>1 DEF Single
<1>13. ~Unseen(job.note)
  BY <1>1, <1>2, <1>3, <1>12 DEF HandlerInv, FreshInv, At
<1> QED
  BY <1>1, <1>10, <1>11, <1>13 DEF ProxyNamed, Unseen

\* A broker gets a second proxy in one way only: the notification of its creation
\* is handled after a resync has read SM, and by then it had another name.
THEOREM OnlyReplays == HandlerSpec => OnlyReplaysDuplicate
<1> DEFINE Duplicates ==
       \A b \in Brokers :
         (Cardinality(ProxiesOf(b, platform)) <= 1 /\ Cardinality(ProxiesOf(b, platform')) > 1) =>
            /\ Busy
            /\ job.note.kind = "create" /\ job.note.stale
            /\ \A g \in ProxiesOf(b, platform) : platform[g].name # job.note.new
<1>1. HandlerInv /\ [HandlerNext]_allVars => [Duplicates]_allVars
  <2> SUFFICES ASSUME HandlerInv, HandlerNext, NEW b \in Brokers,
                      Cardinality(ProxiesOf(b, platform)) <= 1, Cardinality(ProxiesOf(b, platform')) > 1
               PROVE  /\ Busy
                      /\ job.note.kind = "create" /\ job.note.stale
                      /\ \A g \in ProxiesOf(b, platform) : platform[g].name # job.note.new
    BY DEF Duplicates
  <2>1. Cardinality(ProxiesOf(b, platform')) \in Nat
    BY FiniteAssumption, FS_Subset, FS_CardinalityType DEF ProxiesOf
  <2>2. Single(b, platform) /\ ~Single(b, platform')
    BY <2>1, CardinalitySingle
  <2>3. ~UNCHANGED platform
    BY <2>2
  <2>4. JobStep
    <3>1. ~Others
      BY <2>2, <2>3, OthersNext, NextSpares DEF HandlerInv
    <3> QED
      BY <2>3, <3>1, HandlerSteps, Turns
  <2> QED
    BY <2>2, <2>4, Replayed
<1> QED
  BY <1>1, HandlerInvariant, PTL DEF HandlerSpec, OnlyReplaysDuplicate

-----------------------------------------------------------------------------
(* The credentials of the platform.                                        *)

\* Another step sets no credentials that wait to be activated: it leaves those
\* of a broker alone, or those that it hands out are accepted all the same.
Waits(b) == ~creds[b].active /\ task[b].at # "activate" /\ ~(At("activate") /\ jobBroker = b)

Harmless(b) ==
    \/ creds'[b].active \/ task'[b].at = "activate"
    \/ /\ creds'[b] = creds[b] /\ task[b].at # "activate"
       /\ \A g \in ProxiesOf(b, platform') :
            \/ platform'[g].cred \in {Default, Own}
            \/ g \in ProxiesOf(b, platform) /\ platform'[g].cred = platform[g].cred
    \/ \A g \in ProxiesOf(b, platform') : platform'[g].cred \in {Default, Own, creds'[b].old}

TasksWithout == ~options.credentials => \A b \in Brokers : task[b].at # "put" /\ task[b].cred \in {None, Default}

LEMMA PendingFollows ==
  ASSUME PendingInv, UNCHANGED job, TasksWithout', \A b \in Brokers : Harmless(b)
  PROVE  PendingInv'
<1>1. At("activate")' = At("activate") /\ (Busy => jobBroker' = jobBroker)
  BY DEF At, Busy, jobBroker
<1>2. ASSUME NEW b \in Brokers, ~creds'[b].active, task'[b].at # "activate", ~(At("activate") /\ jobBroker = b),
             NEW g \in ProxiesOf(b, platform')
      PROVE  platform'[g].cred \in {Default, Own, creds'[b].old}
  BY <1>2 DEF PendingInv, Harmless
<1>3. \A b : ProxiesOf(b, platform)' = ProxiesOf(b, platform')
  BY DEF ProxiesOf, IsProxy
<1> QED
  BY <1>1, <1>2, <1>3 DEF PendingInv, TasksWithout, At

\* What users do to a registration does not give a proxy credentials.
LEMMA UsersHandNothingOut ==
  ASSUME CoreInv, Environment, NEW c \in Brokers, NEW g \in ProxiesOf(c, platform')
  PROVE  g \in ProxiesOf(c, platform) /\ platform'[g].cred = platform[g].cred
<1>1. platform \in [Guids -> Registration \cup {None}] /\ g \in Guids
  BY DEF CoreInv, TypeOK, ProxiesOf
<1>2. g \in ProxiesOf(c, platform)
  BY EnvironmentSpares
<1>3. CASE UNCHANGED platform
  BY <1>2, <1>3
<1>4. ASSUME NEW b \in Brokers, NEW n \in Names, OperatorRegisters(b, n) PROVE platform'[g].cred = platform[g].cred
  <2> DEFINE r == [broker |-> b, kind |-> "original", name |-> n, cred |-> Own]
  <2>1. ~IsProxy(r) /\ platform' = [platform EXCEPT ![NewGuid] = r]
    BY <1>4 DEF OperatorRegisters, IsProxy
  <2> HIDE DEF r
  <2>2. IsProxy(platform'[g])
    BY DEF ProxiesOf
  <2> QED
    BY <1>1, <2>1, <2>2
<1>5. ASSUME NEW h \in Guids, NEW n \in Names, OperatorRenames(h, n) PROVE platform'[g].cred = platform[g].cred
  <2> DEFINE r == [platform[h] EXCEPT !.name = n]
  <2>1. platform[h] \in Registration /\ platform' = [platform EXCEPT ![h] = r]
    BY <1>1, <1>5 DEF OperatorRenames
  <2>2. r.cred = platform[h].cred
    BY <2>1 DEF Registration
  <2> HIDE DEF r
  <2> QED
    BY <1>1, <2>1, <2>2
<1>6. ASSUME NEW h \in Guids, OperatorDeletes(h) PROVE platform'[g].cred = platform[g].cred
  <2>1. platform' = [platform EXCEPT ![h] = None] /\ IsProxy(platform'[g])
    BY <1>6 DEF OperatorDeletes, ProxiesOf
  <2> QED
    BY <1>1, <2>1 DEF IsProxy
<1> QED
  BY <1>2, <1>3, <1>4, <1>5, <1>6 DEF Environment, Cancel, SMChanges

\* The loops do not touch a task that has credentials to activate.
LEMMA RoundHarmless ==
  ASSUME LoginInv, PendingInv, RoundStep \/ Rejected \/ FetchFails
  PROVE  TasksWithout' /\ \A b \in Brokers : Harmless(b)
<1> USE DEF LoginInv
<1>1. UNCHANGED <<platform, creds, options>>
  BY DEF RoundStep, Rejected, FetchSM, FetchFails, StartRound, ScheduleDesired, DesiredRejected, NextOrphan,
         DesiredDone, ScheduleDelete, DeleteRejected, OrphansDone, AwaitReturns, external, process
<1>2. /\ task \in [Brokers -> Task] /\ cursor \in Brokers \cup {None}
      /\ (phase = "blocked") <=> (cursor # None)
      /\ \A b \in Brokers : b \in todo \/ cursor = b => task[b].at = "ended"
      /\ phase = "fetched" => \A b \in Brokers : task[b].at = "ended"
  BY DEF IInv, CoreInv, TypeOK, IndexInv, LoopInv, QuietInv, InRound, Running
<1>3. /\ NoTask.at = "ended" /\ NoTask.cred = None
      /\ \A op \in {"create", "update", "fetch"} : \A g :
           ~options.credentials => NewTask(op, g).at = "call" /\ NewTask(op, g).cred = Default
  BY DEF NoTask, NewTask, FirstStep
<1>4. \A b \in Brokers :
        /\ task[b].at = "activate" => task'[b].at = "activate"
        /\ \/ task'[b] = task[b]
           \/ ~options.credentials => task'[b].at # "put" /\ task'[b].cred \in {None, Default}
  <2>1. CASE StartRound
    BY <1>2, <1>3, <2>1 DEF StartRound
  <2>2. ASSUME NEW b \in Brokers, ScheduleDesired(b)
        PROVE  \A c \in Brokers :
                 /\ task[c].at = "activate" => task'[c].at = "activate"
                 /\ \/ task'[c] = task[c]
                    \/ ~options.credentials => task'[c].at # "put" /\ task'[c].cred \in {None, Default}
    <3>1. PICK t \in TaskFor(b) : task' = [task EXCEPT ![b] = t]
      BY <2>2 DEF ScheduleDesired
    <3>2. t = NoTask \/ \E op \in {"create", "update", "fetch"} : \E g : t = NewTask(op, g)
      BY <3>1 DEF TaskFor
    <3>3. ~options.credentials => t.at # "put" /\ t.cred \in {None, Default}
      BY <1>3, <3>2
    <3> QED
      BY <1>2, <2>2, <3>1, <3>3 DEF ScheduleDesired
  <2>3. CASE ScheduleDelete
    <3> DEFINE t == [op |-> "delete", at |-> "read", guid |-> None, cred |-> None]
    <3>1. task' = [task EXCEPT ![cursor] = t] /\ cursor \in Brokers
      BY <1>2, <2>3 DEF ScheduleDelete
    <3>2. t.at = "read" /\ t.cred = None
      OBVIOUS
    <3> HIDE DEF t
    <3> QED
      BY <1>2, <3>1, <3>2
  <2>4. CASE UNCHANGED task
    BY <2>4
  <2> QED
    BY <2>1, <2>2, <2>3, <2>4
    DEF RoundStep, Rejected, FetchSM, FetchFails, DesiredRejected, NextOrphan, DesiredDone, DeleteRejected,
        OrphansDone, AwaitReturns
<1>5. TasksWithout'
  BY <1>1, <1>4 DEF PendingInv, TasksWithout
<1>6. \A b \in Brokers : Harmless(b)
  BY <1>1, <1>4 DEF Harmless
<1> QED
  BY <1>5, <1>6

\* A task activates what it has handed out, or it has handed out the default.
LEMMA TaskHarmless ==
  ASSUME LoginInv, PendingInv, NEW b \in Brokers, TaskStep(b)
  PROVE  TasksWithout' /\ \A c \in Brokers : Harmless(c)
<1> USE DEF LoginInv
<1>1. /\ task \in [Brokers -> Task] /\ platform \in [Guids -> Registration \cup {None}]
      /\ creds \in [Brokers -> Credentials] /\ task[b] \in Task
  BY DEF IInv, CoreInv, TypeOK
<1>2. \E t : Advance(b, t)
  BY DEF TaskStep, Put, PutConflicts, ReadArgument, CallSucceeds, CallRefused, Activate
<1>3. UNCHANGED options /\ \A c \in Brokers \ {b} : task'[c] = task[c]
  BY <1>1, <1>2 DEF Advance, process
<1>4. \A c \in Brokers \ {b} : creds'[c] = creds[c]
  BY <1>1 DEF TaskStep, Put, PutConflicts, ReadArgument, CallSucceeds, CallRefused, Activate, Stored, Activated
<1>5. ASSUME UNCHANGED platform, ~options.credentials => task'[b].at # "put" /\ task'[b].cred \in {None, Default}, Harmless(b)
      PROVE  TasksWithout' /\ \A c \in Brokers : Harmless(c)
  <2>1. \A c \in Brokers \ {b} : Harmless(c)
    BY <1>3, <1>4, <1>5 DEF Harmless
  <2> QED
    BY <1>3, <1>5, <2>1 DEF TasksWithout, PendingInv
<1>6. ~options.credentials => task[b].at # "put" /\ task[b].cred \in {None, Default}
  BY DEF PendingInv
<1>7. CASE Put(b)
  <2>1. \A g \in ProxiesOf(b, platform) : platform[g].cred \in {Default, Own, creds'[b].old}
    BY <1>7, StoredBefore DEF Put
  <2> QED
    BY <1>5, <1>6, <1>7, <2>1 DEF Put, Harmless
<1>8. CASE PutConflicts(b) \/ ReadArgument(b)
  <2> DEFINE t == task'[b]
  <2>1. t.at = "call" /\ t.cred = task[b].cred /\ task[b].at \in {"put", "read"}
    <3>1. [task[b] EXCEPT !.at = "call"].at = "call" /\ [task[b] EXCEPT !.at = "call"].cred = task[b].cred
      BY <1>1 DEF Task
    <3>2. [task[b] EXCEPT !.at = "call", !.guid = loopVar].at = "call" /\ [task[b] EXCEPT !.at = "call", !.guid = loopVar].cred = task[b].cred
      BY <1>1 DEF Task
    <3> QED
      BY <1>1, <1>8, <3>1, <3>2 DEF PutConflicts, ReadArgument, Advance
  <2>2. UNCHANGED <<platform, creds>>
    BY <1>8 DEF PutConflicts, ReadArgument
  <2> HIDE DEF t
  <2>3. Harmless(b)
    BY <2>1, <2>2 DEF Harmless
  <2> QED
    BY <1>5, <1>6, <2>1, <2>2, <2>3 DEF t
<1>9. CASE CallRefused(b) \/ Activate(b)
  <2>1. UNCHANGED platform /\ task'[b].at = "ended" /\ task'[b].cred = None
    BY <1>1, <1>9 DEF CallRefused, Activate, Advance, NoTask
  <2>2. Harmless(b)
    <3>1. CASE CallRefused(b)
      BY <2>1, <3>1 DEF CallRefused, Harmless
    <3>2. CASE Activate(b)
      <4>1. creds[b] \in Credentials
        BY <1>1
      <4>2. creds'[b].active
        BY <1>1, <3>2, <4>1 DEF Activate, Activated, Credentials
      <4> QED
        BY <4>2 DEF Harmless
    <3> QED
      BY <1>9, <3>1, <3>2
  <2> QED
    BY <1>5, <2>1, <2>2
<1>10. CASE CallSucceeds(b)
  <2>1. PICK g \in Guids, r \in Registration \cup {None} :
          platform' = [platform EXCEPT ![g] = r] /\ Handed(b, g, r)
    BY <1>10, CallHandsOut DEF CallSucceeds
  <2>2. platform'[g] = r /\ \A h \in Guids \ {g} : platform'[h] = platform[h]
    BY <1>1, <2>1
  <2>3. UNCHANGED creds /\ task[b].at = "call"
    BY <1>10 DEF CallSucceeds
  <2>4. IF options.credentials /\ task[b].cred # None THEN task'[b].at = "activate"
        ELSE task'[b].at = "ended" /\ task'[b].cred = None
    BY <1>1, <1>10 DEF CallSucceeds, Advance, NoTask, Task
  <2>5. ASSUME NEW c \in Brokers, c # b PROVE Harmless(c)
    <3>1. \A h \in ProxiesOf(c, platform') : h \in ProxiesOf(c, platform) /\ platform'[h] = platform[h]
      BY <2>1, <2>2, <2>5 DEF ProxiesOf, Handed, Reshaped, IsProxy
    <3> QED
      BY <1>3, <1>4, <2>5, <3>1 DEF Harmless
  <2>6. Harmless(b)
    <3>1. CASE task'[b].at = "activate"
      BY <3>1 DEF Harmless
    <3>2. CASE ~options.credentials \/ task[b].cred = None
      <4>1. ASSUME NEW h \in ProxiesOf(b, platform')
            PROVE  \/ platform'[h].cred \in {Default, Own}
                   \/ h \in ProxiesOf(b, platform) /\ platform'[h].cred = platform[h].cred
        <5>1. CASE h # g
          BY <2>2, <4>1, <5>1 DEF ProxiesOf
        <5>2. CASE h = g
          <6>1. /\ r # None /\ IsProxy(r)
                /\ platform[g] # None => platform[g].broker = b
                /\ IF task[b].cred = None THEN platform[g] # None /\ r.cred = platform[g].cred ELSE r.cred = task[b].cred
            BY <2>1, <2>2, <4>1, <5>2 DEF Handed, Reshaped, ProxiesOf, IsProxy
          <6>2. CASE task[b].cred = None /\ IsProxy(platform[g])
            BY <2>2, <5>2, <6>1, <6>2 DEF ProxiesOf
          <6>3. CASE task[b].cred = None /\ ~IsProxy(platform[g])
            <7>1. platform[g] \in Registration /\ platform[g].cred \notin Issued
              BY <1>1, <6>1, <6>3 DEF IssuedInv
            <7>2. r.cred \in {Default, Own}
              BY <6>1, <6>3, <7>1 DEF Registration
            <7> QED
              BY <2>2, <5>2, <7>2
          <6>4. CASE task[b].cred # None
            BY <1>6, <2>2, <3>2, <5>2, <6>1, <6>4
          <6> QED
            BY <6>2, <6>3, <6>4
        <5> QED
          BY <5>1, <5>2
      <4> QED
        BY <2>3, <4>1 DEF Harmless
    <3> QED
      BY <2>4, <3>1, <3>2
  <2>7. TasksWithout'
    <3>1. ~options.credentials => task'[b].at = "ended" /\ task'[b].cred = None
      BY <2>4
    <3> QED
      BY <1>3, <3>1 DEF TasksWithout, PendingInv
  <2> QED
    BY <2>5, <2>6, <2>7
<1> QED
  BY <1>7, <1>8, <1>9, <1>10 DEF TaskStep

\* Without a mishap nothing fails in the middle of a rotation.
LEMMA OthersCareful ==
  ASSUME Others, ~mishap'
  PROVE  /\ ~mishap
         /\ \/ Environment
            \/ Changed /\ UNCHANGED <<sm, platform>>
            \/ RoundStep \/ Rejected \/ FetchFails
            \/ \E b \in Brokers : TaskStep(b)
<1>1. ASSUME NEW b \in Brokers, NEW n \in Names \cup {None}, SMAnnounces(b, n) PROVE mishap' = mishap /\ Environment
  BY <1>1 DEF SMAnnounces, Announce, Environment
<1>2. ASSUME NEW b \in Brokers, SMRefreshes(b) PROVE mishap' = mishap /\ Changed /\ UNCHANGED <<sm, platform>>
  BY <1>2 DEF SMRefreshes, Announce
<1>3. Operators \/ Lifecycle => mishap' = mishap /\ Environment
  BY DEF Operators, Lifecycle, Environment
<1>4. ResyncBegins => mishap' = mishap /\ RoundStep
  BY DEF ResyncBegins, RoundStep
<1>5. ResyncGoesOn => mishap' = mishap /\ (RoundStep \/ \E b \in Brokers : TaskStep(b))
  BY DEF ResyncGoesOn, handlerVars
<1>6. ResyncSuffers => mishap' = mishap /\ (FetchFails \/ Rejected)
  BY DEF ResyncSuffers
<1> QED
  BY <1>1, <1>2, <1>3, <1>4, <1>5, <1>6 DEF Others

LEMMA OthersLogin ==
  ASSUME HandlerLoginInv, HandlerInv', Others, ~mishap'
  PROVE  LoginInv' /\ PendingInv' /\ JobRotationInv'
<1>1. /\ HandlerInv /\ CoreInv /\ CoreInv'
      /\ LoginInv /\ PendingInv /\ JobRotationInv
  BY OthersCareful DEF HandlerLoginInv, HandlerInv
<1>2. CASE Environment \/ (Changed /\ UNCHANGED <<sm, platform>>)
  <2>1. UNCHANGED <<creds, task, options, existing>>
    BY <1>2 DEF Environment, Cancel, SMChanges, OperatorRegisters, OperatorRenames, OperatorDeletes, Changed, process, round
  <2>2. ASSUME NEW c \in Brokers, NEW g \in ProxiesOf(c, platform')
        PROVE  g \in ProxiesOf(c, platform) /\ platform'[g].cred = platform[g].cred
    BY <1>1, <1>2, <2>2, UsersHandNothingOut
  <2>3. LoginInv'
    <3>1. CASE Environment
      BY <1>1, <3>1, LoginStep DEF Next
    <3>2. CASE UNCHANGED platform
      <4>1. IInv'
        BY <1>1, <2>1, <3>2 DEF LoginInv, IInv, UniqueInv, Unique, IsProxy
      <4> QED
        BY <1>1, <2>1, <3>2, <4>1, QuietLogin
    <3> QED
      BY <1>2, <3>1, <3>2
  <2>4. TasksWithout' /\ \A b \in Brokers : Harmless(b)
    BY <1>1, <2>1, <2>2 DEF PendingInv, TasksWithout, Harmless
  <2>5. PendingInv'
    BY <1>1, <2>4, PendingFollows, OthersType
  <2>6. JobRotationInv'
    <3>1. job' = job /\ (Busy => jobBroker \in Brokers)
      BY <1>1, OthersType, JobType
    <3>2. ASSUME Busy, job.task.at = "activate", NEW g \in ProxiesOf(jobBroker, platform')
          PROVE  platform'[g].cred \in {Default, Own, creds[jobBroker].current}
      BY <1>1, <2>2, <3>1, <3>2 DEF JobRotationInv
    <3>3. \A b : ProxiesOf(b, platform)' = ProxiesOf(b, platform')
      BY DEF ProxiesOf, IsProxy
    <3> QED
      BY <1>1, <2>1, <3>1, <3>2, <3>3 DEF JobRotationInv, Busy, jobBroker
  <2> QED
    BY <2>3, <2>5, <2>6
<1>3. CASE RoundStep \/ Rejected \/ FetchFails
  <2>1. LoginInv'
    BY <1>1, <1>3, LoginStep DEF Next
  <2>2. PendingInv'
    BY <1>1, <1>3, RoundHarmless, PendingFollows, OthersType
  <2>3. UNCHANGED <<platform, creds, job>>
    <3>1. UNCHANGED <<platform, creds>>
      BY <1>3
      DEF RoundStep, Rejected, FetchSM, FetchFails, StartRound, ScheduleDesired, DesiredRejected, NextOrphan,
          DesiredDone, ScheduleDelete, DeleteRejected, OrphansDone, AwaitReturns, external
    <3> QED
      BY <1>1, <3>1, OthersType
  <2>4. JobRotationInv'
    BY <1>1, <2>3 DEF JobRotationInv, Busy, jobBroker, ProxiesOf, IsProxy
  <2> QED
    BY <2>1, <2>2, <2>4
<1>4. ASSUME NEW b \in Brokers, TaskStep(b) PROVE LoginInv' /\ PendingInv' /\ JobRotationInv'
  <2>1. LoginInv'
    BY <1>1, <1>4, LoginStep DEF Next
  <2>2. PendingInv'
    BY <1>1, <1>4, TaskHarmless, PendingFollows, OthersType
  <2>3. ~Busy /\ job' = job
    BY <1>1, <1>4, IdleRound, JobType, OthersType
  <2>4. JobRotationInv'
    BY <2>3 DEF JobRotationInv, Busy
  <2> QED
    BY <2>1, <2>2, <2>4
<1> QED
  BY <1>2, <1>3, <1>4, OthersCareful

LEMMA TurnsLogin ==
  ASSUME HandlerLoginInv, HandlerInv', OnCreate \/ OnUpdate \/ OnDelete, ~mishap'
  PROVE  LoginInv' /\ PendingInv' /\ JobRotationInv'
<1>1. HandlerInv
  BY DEF HandlerLoginInv
<1>2. /\ ~Busy /\ UNCHANGED <<platform, creds, process, round, mishap>>
      /\ job' = NoJob \/ \E t \in Task : Undertaken(t)
  BY <1>1, Turns
<1>3. LoginInv /\ PendingInv /\ CoreInv'
  BY <1>2 DEF HandlerLoginInv, HandlerInv
<1>4. UNCHANGED <<existing, task, options>>
  BY <1>2 DEF round, process
<1>5. LoginInv'
  <2>1. IInv'
    BY <1>2, <1>3, <1>4 DEF LoginInv, IInv, UniqueInv, Unique, IsProxy
  <2> QED
    BY <1>2, <1>3, <1>4, <2>1, QuietLogin
<1>6. Busy' => job'.task.at \in {"put", "call"} /\ job'.task.cred \in {None, Default}
  BY <1>2 DEF Undertaken, Busy
<1>7. PendingInv'
  <2>1. ~At("activate") /\ ~At("activate")'
    BY <1>2, <1>6 DEF At, Busy
  <2> QED
    BY <1>2, <1>3, <1>4, <2>1 DEF PendingInv, ProxiesOf, IsProxy
<1>8. JobRotationInv'
  BY <1>6 DEF JobRotationInv, Busy
<1> QED
  BY <1>5, <1>7, <1>8

\* What is left to show of a step of a job.
LEMMA JobLoginFollows ==
  ASSUME HandlerInv, HandlerInv', JobStep, LoginInv, PendingInv,
         \A b \in Brokers : Single(b, platform'),
         IssuedInv', PlatformCanLogIn',
         \A b \in Brokers \ {jobBroker} : creds'[b] = creds[b],
         \A b \in Brokers \ {jobBroker} : \A g \in ProxiesOf(b, platform') : platform'[g] = platform[g],
         creds'[jobBroker].active => creds'[jobBroker].old = None,
         \/ creds'[jobBroker].active
         \/ At("activate")' /\ jobBroker' = jobBroker
         \/ \A g \in ProxiesOf(jobBroker, platform') : platform'[g].cred \in {Default, Own, creds'[jobBroker].old}
  PROVE  LoginInv' /\ PendingInv'
<1>1. /\ Busy /\ UNCHANGED <<process, round>> /\ JobFollows
      /\ jobBroker \in Brokers /\ phase = "idle"
  BY JobSteps, JobType
<1>2. /\ UNCHANGED <<task, existing, options>>
      /\ \A b \in Brokers : task[b].at = "ended"
      /\ \A g \in Guids : existing[g] = None
  BY <1>1 DEF round, process, HandlerInv, CoreInv, QuietInv, InRound, Running
<1>3. IInv'
  <2>1. CoreInv' /\ platform' \in [Guids -> Registration \cup {None}]
    BY DEF HandlerInv, CoreInv, TypeOK
  <2>2. Unique(platform')
    BY <2>1, UniqueSingle
  <2>3. \A g \in Guids : ~IsProxy(existing'[g])
    BY <1>2 DEF IsProxy
  <2> QED
    BY <2>1, <2>2, <2>3 DEF IInv, UniqueInv, Unique, IsProxy
<1>4. \A b \in Brokers : creds'[b].active => creds'[b].old = None
  BY DEF LoginInv, RotationInv
<1>5. RotationInv'
  BY <1>2, <1>4 DEF LoginInv, RotationInv
<1>6. \A b \in Brokers \ {jobBroker} : ProxiesOf(b, platform') = ProxiesOf(b, platform)
  BY <1>1, JobEffectSpares DEF JobFollows
<1>7. At("activate")' => jobBroker' = jobBroker
  <2>1. At("activate")' => At("call") /\ job' = [job EXCEPT !.task.at = "activate"]
    <3>1. job' = NoJob => ~At("activate")'
      BY DEF At, Busy
    <3>2. job' = [job EXCEPT !.task.at = "call", !.task.cred = Fresh(jobBroker)] /\ Fresh(jobBroker) \in Issued
            => ~At("activate")'
      BY <1>1, JobType, JobMoves DEF At
    <3> QED
      BY <1>1, <3>1, <3>2 DEF JobFollows
  <2>2. job \in Job /\ job.task.cred \in Issued \cup {Default, None}
    BY <1>1, JobType DEF Task
  <2> QED
    BY <2>1, <2>2, JobMoves DEF jobBroker
<1>8. ASSUME NEW b \in Brokers, ~creds'[b].active, ~(At("activate")' /\ jobBroker' = b), NEW g \in ProxiesOf(b, platform')
      PROVE  platform'[g].cred \in {Default, Own, creds'[b].old}
  <2>1. CASE b = jobBroker
    BY <1>8, <2>1
  <2>2. CASE b # jobBroker
    BY <1>2, <1>6, <1>8, <2>2 DEF PendingInv
  <2> QED
    BY <2>1, <2>2
<1>9. \A b : ProxiesOf(b, platform)' = ProxiesOf(b, platform')
  BY DEF ProxiesOf, IsProxy
<1>10. PendingInv'
  BY <1>2, <1>8, <1>9 DEF PendingInv
<1> QED
  BY <1>3, <1>5, <1>10 DEF LoginInv

\* The credentials that the handler replaces are those that the proxies have.
LEMMA JobPutsLogin ==
  ASSUME HandlerInv, HandlerInv', JobPuts, LoginInv, PendingInv
  PROVE  LoginInv' /\ PendingInv' /\ JobRotationInv'
<1> DEFINE b == jobBroker
           c == Fresh(b)
<1>1. /\ JobStep /\ Busy /\ job.task.at = "put" /\ Stored(b) /\ c \in Issued
      /\ UNCHANGED platform /\ job' = [job EXCEPT !.task.at = "call", !.task.cred = c]
  BY DEF JobPuts, JobStep, At, JobPutAccepted, Fresh
<1>2. /\ b \in Brokers /\ creds \in [Brokers -> Credentials] /\ phase = "idle" /\ job \in Job
      /\ platform \in [Guids -> Registration \cup {None}]
  BY <1>1, JobType
<1>3. job' \in Job /\ job'.note = job.note /\ job'.task.at = "call" /\ job'.task.cred = c
  BY <1>1, <1>2, JobMoves
<1>4. /\ creds'[b].current = c
      /\ creds'[b].old = IF creds[b].active THEN creds[b].current ELSE creds[b].old
      /\ creds'[b].active = FALSE
      /\ \A d \in Brokers \ {b} : creds'[d] = creds[d]
  BY <1>1, <1>2 DEF Stored
<1> HIDE DEF c
<1>5. task[b].at # "activate"
  BY <1>2 DEF HandlerInv, CoreInv, QuietInv, InRound, Running
<1>6. ASSUME NEW g \in ProxiesOf(b, platform) PROVE platform[g].cred \in {Default, Own, creds'[b].old}
  <2>1. platform[g].cred \in {Default, Own, creds[b].current, creds[b].old}
    BY DEF LoginInv, PlatformCanLogIn, ProxiesOf
  <2>2. creds[b].active => creds[b].old = None
    BY <1>2 DEF LoginInv, RotationInv
  <2>3. platform[g] \in Registration
    BY <1>2 DEF ProxiesOf, IsProxy
  <2>4. platform[g].cred # None
    BY <2>3, NoneAssumption DEF Registration
  <2>5. ~creds[b].active => platform[g].cred \in {Default, Own, creds[b].old}
    BY <1>1, <1>2, <1>5 DEF PendingInv, At
  <2> QED
    BY <1>4, <2>1, <2>2, <2>4, <2>5
<1>7. PlatformCanLogIn'
  <2>1. ASSUME NEW g \in Guids, IsProxy(platform[g])
        PROVE  platform[g].cred \in {Default, Own, creds'[platform[g].broker].current, creds'[platform[g].broker].old}
    <3>1. platform[g].broker \in Brokers /\ g \in ProxiesOf(platform[g].broker, platform)
      BY <1>2, <2>1 DEF ProxiesOf, IsProxy, Registration
    <3>2. CASE platform[g].broker = b
      BY <1>6, <3>1, <3>2
    <3>3. CASE platform[g].broker # b
      BY <1>4, <2>1, <3>1, <3>3 DEF LoginInv, PlatformCanLogIn
    <3> QED
      BY <3>2, <3>3
  <2> QED
    BY <1>1, <2>1 DEF PlatformCanLogIn, IsProxy
<1>8. IssuedInv'
  BY <1>1 DEF LoginInv, IssuedInv, IsProxy
<1>9. \A d \in Brokers : Single(d, platform')
  BY <1>1, <1>2, UniqueSingle DEF LoginInv, IInv, UniqueInv
<1>10. LoginInv' /\ PendingInv'
  BY <1>1, <1>4, <1>6, <1>7, <1>8, <1>9, JobLoginFollows
<1>11. JobRotationInv'
  <2>1. jobBroker' = b
    BY <1>3 DEF jobBroker
  <2> QED
    BY <1>3, <1>4, <2>1 DEF JobRotationInv
<1> QED
  BY <1>10, <1>11

\* The platform gets the credentials that were put, and has no other proxy of the
\* broker that needs those of before.
LEMMA JobCallsLogin ==
  ASSUME HandlerInv, HandlerInv', JobCalls, ~mishap', LoginInv, PendingInv, JobRotationInv
  PROVE  LoginInv' /\ PendingInv' /\ JobRotationInv'
<1> DEFINE b == jobBroker
<1>1. /\ JobStep /\ Busy /\ job.task.at = "call" /\ UNCHANGED creds
      /\ mishap' = (mishap \/ Doubled(platform'))
      /\ IF options.credentials /\ job.task.op # "delete"
           THEN job' = [job EXCEPT !.task.at = "activate"] ELSE job' = NoJob
  BY DEF JobCalls, JobStep, At, Proceed, GiveUp
<1>2. JobEffect
  BY JobCallEffect DEF JobCalls
<1>3. /\ b \in Brokers /\ creds \in [Brokers -> Credentials] /\ phase = "idle" /\ job \in Job /\ job.task \in Task
      /\ platform \in [Guids -> Registration \cup {None}]
      /\ TaskOf(job.note, job.task)
      /\ job.task.op # "create" => Held(job.note, job.task.guid)
  BY <1>1, JobType
<1>4. \A d \in Brokers : Single(d, platform')
  <2>1. ~Doubled(platform')
    BY <1>1, Zenon
  <2>2. ASSUME NEW d \in Brokers PROVE Cardinality(ProxiesOf(d, platform')) <= 1
    <3>1. Cardinality(ProxiesOf(d, platform')) \in Nat
      BY FiniteAssumption, FS_Subset, FS_CardinalityType DEF ProxiesOf
    <3> QED
      BY <2>1, <3>1 DEF Doubled
  <2> QED
    BY <2>2, CardinalitySingle
<1>5. PICK g \in Guids, r \in Registration \cup {None} :
        /\ platform' = [platform EXCEPT ![g] = r]
        /\ \/ /\ job.task.op \in {"create", "update"}
              /\ r # None /\ r.kind = "proxy" /\ r.broker = b /\ r.cred = job.task.cred
              /\ platform[g] # None => g = job.task.guid /\ job.task.op = "update"
           \/ /\ job.task.op = "fetch"
              /\ g = job.task.guid /\ platform[g] # None
              /\ r # None /\ r.kind = platform[g].kind /\ r.broker = platform[g].broker /\ r.cred = job.task.cred
           \/ /\ job.task.op = "delete"
              /\ r = None
  BY <1>2 DEF JobEffect
<1>6. platform'[g] = r /\ \A h \in Guids \ {g} : platform'[h] = platform[h]
  BY <1>3, <1>5
<1>7. job.task.op # "delete" => job.task.cred \in {Default, creds[b].current}
  BY <1>1, <1>3 DEF JobRotationInv, TaskOf
<1>8. ~options.credentials /\ job.task.op # "delete" => job.task.cred = Default
  BY <1>1, <1>3 DEF TaskOf
<1>9. r # None => IsProxy(r) /\ r.broker = b /\ r.cred = job.task.cred /\ job.task.op # "delete"
  <2>1. CASE job.task.op = "fetch"
    <3>1. platform[g].broker = b /\ IsProxy(platform[g])
      BY <1>3, <1>5, <2>1 DEF TaskOf, Held, jobBroker
    <3> QED
      BY <1>5, <2>1, <3>1 DEF IsProxy
  <2> QED
    BY <1>5, <2>1 DEF IsProxy
<1>10. IssuedInv'
  BY <1>6, <1>9 DEF LoginInv, IssuedInv, IsProxy
<1>11. PlatformCanLogIn'
  BY <1>1, <1>6, <1>7, <1>9 DEF LoginInv, PlatformCanLogIn, IsProxy
<1>12. ASSUME NEW h \in ProxiesOf(b, platform')
       PROVE  IF r = None THEN h \in ProxiesOf(b, platform) /\ platform'[h] = platform[h]
                          ELSE platform'[h].cred = job.task.cred
  <2>1. r # None => g \in ProxiesOf(b, platform')
    BY <1>6, <1>9 DEF ProxiesOf
  <2>2. r # None => h = g
    BY <1>3, <1>4, <1>12, <2>1 DEF Single
  <2> QED
    BY <1>6, <1>9, <1>12, <2>2 DEF ProxiesOf, IsProxy
<1>13. \A d \in Brokers \ {b} : \A h \in ProxiesOf(d, platform') : platform'[h] = platform[h]
  BY <1>6, <1>9 DEF ProxiesOf, IsProxy
<1>14. job' # NoJob => /\ Busy' /\ job'.note = job.note /\ job'.task.at = "activate" /\ jobBroker' = b
                       /\ job.task.op # "delete"
  <2>1. job.task.cred \in Issued \cup {Default, None}
    BY <1>3 DEF Task
  <2> QED
    BY <1>1, <1>3, <2>1, JobMoves DEF Busy, jobBroker
<1>15. task[b].at # "activate" /\ ~At("activate")
  BY <1>1, <1>3 DEF HandlerInv, CoreInv, QuietInv, InRound, Running, At
<1>16. \/ creds'[b].active
       \/ At("activate")' /\ jobBroker' = b
       \/ \A h \in ProxiesOf(b, platform') : platform'[h].cred \in {Default, Own, creds'[b].old}
  <2>1. CASE job' # NoJob
    BY <1>14, <2>1 DEF At
  <2>2. CASE job' = NoJob
    <3>1. r = None \/ job.task.cred = Default
      <4>1. job.task.cred \in Issued \cup {Default, None}
        BY <1>3 DEF Task
      <4>2. job' = [job EXCEPT !.task.at = "activate"] => job' \in Job
        BY <1>3, <4>1, JobMoves
      <4>3. ~options.credentials \/ job.task.op = "delete"
        BY <1>1, <2>2, <4>2, JobAssumption
      <4> QED
        BY <1>8, <1>9, <4>3
    <3>2. ~creds[b].active => \A h \in ProxiesOf(b, platform) : platform[h].cred \in {Default, Own, creds[b].old}
      BY <1>3, <1>15 DEF PendingInv
    <3> QED
      BY <1>1, <1>12, <3>1, <3>2
  <2> QED
    BY <2>1, <2>2
<1>17. creds'[b].active => creds'[b].old = None
  BY <1>1, <1>3 DEF LoginInv, RotationInv
<1>18. LoginInv' /\ PendingInv'
  BY <1>1, <1>4, <1>10, <1>11, <1>13, <1>16, <1>17, JobLoginFollows
<1>19. JobRotationInv'
  <2>1. ASSUME Busy', NEW h \in ProxiesOf(b, platform')
        PROVE  platform'[h].cred \in {Default, Own, creds[b].current}
    <3>1. job.task.op # "delete" /\ r # None
      BY <1>5, <1>14, <2>1 DEF Busy
    <3> QED
      BY <1>7, <1>12, <2>1, <3>1
  <2>2. \A d : ProxiesOf(d, platform)' = ProxiesOf(d, platform')
    BY DEF ProxiesOf, IsProxy
  <2>3. Busy' => job'.task.at = "activate" /\ jobBroker' = b
    BY <1>14 DEF Busy
  <2> QED
    BY <1>1, <2>1, <2>2, <2>3 DEF JobRotationInv
<1> QED
  BY <1>18, <1>19

\* The handler gives up, or has its credentials activated.
LEMMA JobEndsLogin ==
  ASSUME HandlerInv, HandlerInv', JobConflicts \/ JobIsRefused \/ JobActivates, LoginInv, PendingInv, JobRotationInv
  PROVE  LoginInv' /\ PendingInv' /\ JobRotationInv'
<1> DEFINE b == jobBroker
<1>1. /\ JobStep /\ Busy /\ job' = NoJob /\ UNCHANGED platform
      /\ \/ UNCHANGED creds /\ ~At("activate")
         \/ At("activate") /\ Activated(b)
  BY DEF JobConflicts, JobIsRefused, JobActivates, JobStep, At, GiveUp
<1>2. /\ b \in Brokers /\ creds \in [Brokers -> Credentials] /\ phase = "idle"
      /\ platform \in [Guids -> Registration \cup {None}]
  BY <1>1, JobType
<1>3. \A d \in Brokers : Single(d, platform')
  BY <1>1, <1>2, UniqueSingle DEF LoginInv, IInv, UniqueInv
<1>4. IssuedInv'
  BY <1>1 DEF LoginInv, IssuedInv, IsProxy
<1>5. JobRotationInv'
  BY <1>1 DEF JobRotationInv, Busy
<1>6. CASE UNCHANGED creds /\ ~At("activate")
  <2>1. PlatformCanLogIn'
    BY <1>1, <1>6 DEF LoginInv, PlatformCanLogIn, IsProxy
  <2>2. creds'[b].active => creds'[b].old = None
    BY <1>2, <1>6 DEF LoginInv, RotationInv
  <2>3. task[b].at # "activate"
    BY <1>2 DEF HandlerInv, CoreInv, QuietInv, InRound, Running
  <2>4. \/ creds'[b].active
        \/ \A g \in ProxiesOf(b, platform') : platform'[g].cred \in {Default, Own, creds'[b].old}
    BY <1>1, <1>2, <1>6, <2>3 DEF PendingInv
  <2> QED
    BY <1>1, <1>3, <1>4, <1>5, <1>6, <2>1, <2>2, <2>4, JobLoginFollows
<1>7. CASE At("activate") /\ Activated(b)
  <2>1. creds[b] \in Credentials
    BY <1>2
  <2>2. /\ creds'[b].current = creds[b].current /\ creds'[b].old = None /\ creds'[b].active = TRUE
        /\ \A d \in Brokers \ {b} : creds'[d] = creds[d]
    BY <1>2, <1>7, <2>1 DEF Activated, Credentials
  <2>3. \A g \in ProxiesOf(b, platform) : platform[g].cred \in {Default, Own, creds[b].current}
    BY <1>7 DEF JobRotationInv, At
  <2>4. ASSUME NEW g \in Guids, IsProxy(platform[g])
        PROVE  platform[g].cred \in {Default, Own, creds'[platform[g].broker].current, creds'[platform[g].broker].old}
    <3>1. platform[g].broker \in Brokers /\ g \in ProxiesOf(platform[g].broker, platform)
      BY <1>2, <2>4 DEF ProxiesOf, IsProxy, Registration
    <3>2. CASE platform[g].broker = b
      BY <2>2, <2>3, <3>1, <3>2
    <3>3. CASE platform[g].broker # b
      BY <2>2, <2>4, <3>1, <3>3 DEF LoginInv, PlatformCanLogIn
    <3> QED
      BY <3>2, <3>3
  <2>5. PlatformCanLogIn'
    BY <1>1, <2>4 DEF PlatformCanLogIn, IsProxy
  <2> QED
    BY <1>1, <1>3, <1>4, <1>5, <2>2, <2>5, JobLoginFollows
<1> QED
  BY <1>1, <1>6, <1>7

LEMMA JobLogin ==
  ASSUME HandlerLoginInv, HandlerInv', JobStep, ~mishap'
  PROVE  LoginInv' /\ PendingInv' /\ JobRotationInv'
<1>1. HandlerInv /\ (~mishap => LoginInv /\ PendingInv /\ JobRotationInv)
  BY DEF HandlerLoginInv
<1>2. ~mishap
  <2>1. mishap' = mishap \/ mishap' = TRUE \/ JobCalls
    BY DEF JobStep, JobPuts, JobConflicts, JobPutFails, JobIsRefused, JobCallFails, JobActivates, JobActivateFails
  <2>2. JobCalls => (mishap' <=> (mishap \/ Doubled(platform')))
    BY Zenon DEF JobCalls
  <2> QED
    BY <2>1, <2>2
<1>3. ~JobPutFails /\ ~JobCallFails /\ ~JobActivateFails
  BY DEF JobPutFails, JobCallFails, JobActivateFails
<1> QED
  BY <1>1, <1>2, <1>3, JobPutsLogin, JobCallsLogin, JobEndsLogin DEF JobStep

LEMMA HandlerLoginInit == HandlerInit => HandlerLoginInv
<1> SUFFICES ASSUME HandlerInit PROVE HandlerLoginInv
  OBVIOUS
<1>1. HandlerInv /\ LoginInv
  BY HandlerInitKeeps, LoginInit DEF HandlerInit
<1>2. job = NoJob /\ \A b \in Brokers : task[b] = NoTask
  BY DEF HandlerInit, Init
<1>3. ASSUME NEW b \in Brokers, ~creds[b].active PROVE \A g \in ProxiesOf(b, platform) : platform[g].cred \in {Default, Own}
  <2>1. IssuedFor(b, platform) = {}
    BY <1>3 DEF HandlerInit, Init
  <2>2. platform \in [Guids -> Registration \cup {None}]
    BY <1>1 DEF HandlerInv, CoreInv, TypeOK
  <2> QED
    BY <2>1, <2>2 DEF IssuedFor, ProxiesOf, IsProxy, Registration
<1>4. PendingInv /\ JobRotationInv
  BY <1>2, <1>3 DEF PendingInv, JobRotationInv, NoTask, Busy
<1> QED
  BY <1>1, <1>4 DEF HandlerLoginInv

LEMMA HandlerLoginStutters == ASSUME HandlerLoginInv, HandlerInv', UNCHANGED allVars PROVE HandlerLoginInv'
<1>1. UNCHANGED <<vars, job, mishap>>
  BY DEF allVars, handlerVars
<1>2. LoginInv => LoginInv'
  BY <1>1, LoginStep
<1>3. PendingInv /\ JobRotationInv => PendingInv' /\ JobRotationInv'
  BY <1>1
  DEF PendingInv, JobRotationInv, At, Busy, jobBroker, ProxiesOf, IsProxy, vars, external, process, round
<1> QED
  BY <1>1, <1>2, <1>3 DEF HandlerLoginInv

LEMMA HandlerLoginStep == HandlerLoginInv /\ [HandlerNext]_allVars => HandlerLoginInv'
<1> SUFFICES ASSUME HandlerLoginInv, [HandlerNext]_allVars PROVE HandlerLoginInv'
  OBVIOUS
<1>1. HandlerInv'
  BY HandlerStep DEF HandlerLoginInv
<1>2. CASE HandlerNext
  BY <1>1, <1>2, HandlerSteps, OthersLogin, TurnsLogin, JobLogin DEF HandlerLoginInv
<1> QED
  BY <1>1, <1>2, HandlerLoginStutters

\* Until a mishap the handler keeps the rotations of credentials in order, next to
\* those of the resyncs: credentials that wait to be activated have not reached
\* the platform, unless their activation comes next.
THEOREM HandlerLoginInvariant == HandlerSpec => []HandlerLoginInv
  BY HandlerLoginInit, HandlerLoginStep, PTL DEF HandlerSpec

\* As long as no rotation is cut short and no broker has two proxies, SM accepts
\* the credentials of every proxy, although the handler forces new ones on SM.
THEOREM HandlerLogsIn == HandlerSpec => []LoginUnlessMishap
<1>1. HandlerLoginInv => LoginUnlessMishap
  BY DEF HandlerLoginInv, LoginInv, LoginUnlessMishap
<1> QED
  BY <1>1, HandlerLoginInvariant, PTL

-----------------------------------------------------------------------------
(* The notifications lead on to what SM has.                               *)

\* The names ahead of broker b, given what SM has and what waits.
Onward(b, from, s, q) == {s[b]} \cup {q[i].old : i \in {i \in from..Len(q) : q[i].broker = b}}

LEMMA OnwardMembers ==
  ASSUME NEW b, NEW from, NEW s, NEW q
  PROVE  \A n : n \in Onward(b, from, s, q) <=> n = s[b] \/ \E i \in from..Len(q) : q[i].broker = b /\ n = q[i].old
  BY DEF Onward

LEMMA Announces ==
  ASSUME HandlerInv, NEW b \in Brokers, NEW n \in Names \cup {None}, SMAnnounces(b, n) \/ (SMRefreshes(b) /\ n = sm[b])
  PROVE  /\ Len(queue) \in Nat /\ Len(queue') = Len(queue) + 1
         /\ \A i \in 1..Len(queue) : queue'[i] = queue[i]
         /\ queue'[Len(queue) + 1].broker = b
         /\ queue'[Len(queue) + 1].old = sm[b] /\ queue'[Len(queue) + 1].new = n
         /\ sm'[b] = n /\ \A c \in Brokers \ {b} : sm'[c] = sm[c]
         /\ UNCHANGED <<platform, process, round, job, intact>>
<1>1. sm \in [Brokers -> Names \cup {None}] /\ Len(queue) \in Nat
  BY QueueIsOK DEF HandlerInv, CoreInv, TypeOK
<1> DEFINE kind == IF SMRefreshes(b) THEN "update" ELSE IF sm[b] = None THEN "create" ELSE IF n = None THEN "delete" ELSE "update"
<1>2. /\ Announce(kind, b, n)
      /\ sm'[b] = n /\ \A c \in Brokers \ {b} : sm'[c] = sm[c]
      /\ UNCHANGED <<platform, process, round, job, intact>>
      /\ kind \in {"create", "update", "delete"}
      /\ (sm[b] = None) <=> (kind = "create")
      /\ (n = None) <=> (kind = "delete")
  <2>1. CASE SMRefreshes(b)
    BY <1>1, <2>1 DEF SMRefreshes, SMAnnounces, SMChanges, Changed, Announce
  <2>2. CASE ~SMRefreshes(b)
    <3>1. SMAnnounces(b, n)
      BY <2>2
    <3> QED
      BY <1>1, <2>2, <3>1 DEF SMAnnounces, SMChanges, Changed, Announce
  <2> QED
    BY <2>1, <2>2
<1> HIDE DEF kind
<1> QED
  BY <1>1, <1>2, AnnounceQueue

\* A change of SM adds names to those ahead and removes none: the broker's name
\* until now is the old one of the notification.
LEMMA AnnounceLeads ==
  ASSUME HandlerInv, NEW b \in Brokers, NEW n \in Names \cup {None}, SMAnnounces(b, n) \/ (SMRefreshes(b) /\ n = sm[b])
  PROVE  /\ \A c \in Brokers, from \in 1..Len(queue) + 1 : Onward(c, from, sm, queue) \subseteq Onward(c, from, sm', queue')
         /\ n \in Onward(b, Len(queue) + 2, sm', queue')
<1> DEFINE k == Len(queue) + 1
<1>1. /\ Len(queue) \in Nat /\ Len(queue') = k
      /\ \A i \in 1..Len(queue) : queue'[i] = queue[i]
      /\ queue'[k].broker = b /\ queue'[k].old = sm[b]
      /\ sm'[b] = n /\ \A c \in Brokers \ {b} : sm'[c] = sm[c]
  BY Announces
<1>2. ASSUME NEW c \in Brokers, NEW from \in 1..k, NEW m \in Onward(c, from, sm, queue)
      PROVE  m \in Onward(c, from, sm', queue')
  <2>1. CASE m = sm[c] /\ c = b
    <3>1. k \in from..Len(queue')
      BY <1>1
    <3> QED
      BY <1>1, <2>1, <3>1, OnwardMembers
  <2>2. CASE m = sm[c] /\ c # b
    BY <1>1, <2>2, OnwardMembers
  <2>3. ASSUME NEW i \in from..Len(queue), queue[i].broker = c, m = queue[i].old
        PROVE  m \in Onward(c, from, sm', queue')
    <3>1. i \in 1..Len(queue) /\ i \in from..Len(queue')
      BY <1>1
    <3> QED
      BY <1>1, <2>3, <3>1, OnwardMembers
  <2> QED
    BY <1>2, <2>1, <2>2, <2>3, OnwardMembers
<1>3. n \in Onward(b, Len(queue) + 2, sm', queue')
  BY <1>1, OnwardMembers
<1> QED
  BY <1>2, <1>3

\* The notification that is taken is not ahead any more.
LEMMA TailLeads ==
  ASSUME HandlerInv, queue # <<>>, queue' = Tail(queue), UNCHANGED sm, NEW c, NEW from \in Nat \ {0}
  PROVE  Onward(c, from, sm', queue') = Onward(c, from + 1, sm, queue)
<1>1. /\ Len(queue) = 1 + Len(queue') /\ Len(queue') \in Nat
      /\ \A i \in 1..Len(queue') : queue'[i] = queue[i + 1]
  BY TailQueue, QueueIsOK DEF QueueOK
<1>2. ASSUME NEW m \in Onward(c, from, sm', queue') PROVE m \in Onward(c, from + 1, sm, queue)
  <2>1. ASSUME NEW i \in from..Len(queue'), queue'[i].broker = c, m = queue'[i].old
        PROVE  m \in Onward(c, from + 1, sm, queue)
    <3>1. i \in 1..Len(queue') /\ i + 1 \in from + 1..Len(queue)
      BY <1>1
    <3> QED
      BY <1>1, <2>1, <3>1, OnwardMembers
  <2>2. m = sm'[c] \/ \E i \in from..Len(queue') : queue'[i].broker = c /\ m = queue'[i].old
    BY <1>2 DEF Onward
  <2>3. m = sm[c] => m \in Onward(c, from + 1, sm, queue)
    BY OnwardMembers
  <2> QED
    BY <2>1, <2>2, <2>3
<1>3. ASSUME NEW m \in Onward(c, from + 1, sm, queue) PROVE m \in Onward(c, from, sm', queue')
  <2>1. ASSUME NEW i \in from + 1..Len(queue), queue[i].broker = c, m = queue[i].old
        PROVE  m \in Onward(c, from, sm', queue')
    <3>1. i - 1 \in 1..Len(queue') /\ i - 1 \in from..Len(queue') /\ (i - 1) + 1 = i
      BY <1>1
    <3>2. queue'[i - 1] = queue[i]
      BY <1>1, <3>1
    <3> QED
      BY <2>1, <3>1, <3>2, OnwardMembers
  <2>2. m = sm[c] \/ \E i \in from + 1..Len(queue) : queue[i].broker = c /\ m = queue[i].old
    BY <1>3, OnwardMembers
  <2>3. m = sm[c] => m \in Onward(c, from, sm', queue')
    BY OnwardMembers
  <2> QED
    BY <2>1, <2>2, <2>3
<1> QED
  BY <1>2, <1>3

\* A resync may find the first of them lost with the connection.
LEMMA ResyncLeads ==
  ASSUME HandlerInv, ResyncBegins, LinkedInv
  PROVE  \A i \in 1..Len(queue') : queue'[i].new \in Onward(queue'[i].broker, i + 1, sm', queue')
<1>1. PICK shift \in Nat :
        /\ Len(queue) = shift + Len(queue')
        /\ \A i \in 1..Len(queue') :
             /\ queue'[i].broker = queue[shift + i].broker
             /\ queue'[i].old = queue[shift + i].old /\ queue'[i].new = queue[shift + i].new
  BY ResyncQueue
<1>2. Len(queue') \in Nat /\ UNCHANGED sm
  BY ResyncQueue DEF QueueOK, ResyncBegins, FetchSM, external
<1>3. TAKE i \in 1..Len(queue')
<1>4. shift + i \in 1..Len(queue) /\ queue'[i].broker = queue[shift + i].broker /\ queue'[i].new = queue[shift + i].new
  BY <1>1, <1>2
<1>5. queue[shift + i].new \in Onward(queue[shift + i].broker, shift + i + 1, sm, queue)
  BY <1>4 DEF LinkedInv, Ahead, Onward
<1>6. PICK b, n : b = queue[shift + i].broker /\ n = queue[shift + i].new
  OBVIOUS
<1>7. n \in Onward(b, i + 1, sm', queue')
  <2>1. ASSUME NEW j \in shift + i + 1..Len(queue), queue[j].broker = b, n = queue[j].old
        PROVE  n \in Onward(b, i + 1, sm', queue')
    <3>1. j - shift \in i + 1..Len(queue') /\ j - shift \in 1..Len(queue') /\ shift + (j - shift) = j
      BY <1>1, <1>2
    <3>2. queue'[j - shift].broker = b /\ n = queue'[j - shift].old
      BY <1>1, <2>1, <3>1
    <3> QED
      BY <3>1, <3>2, OnwardMembers
  <2>2. n = sm[b] \/ \E j \in shift + i + 1..Len(queue) : queue[j].broker = b /\ n = queue[j].old
    <3>1. n \in Onward(b, shift + i + 1, sm, queue)
      BY <1>5, <1>6
    <3> QED
      BY <3>1, OnwardMembers
  <2>3. n = sm[b] => n \in Onward(b, i + 1, sm', queue')
    BY <1>2, OnwardMembers
  <2> QED
    BY <2>1, <2>2, <2>3
<1> QED
  BY <1>4, <1>6, <1>7

LEMMA LinkedKeeps == ASSUME HandlerInv, LinkedInv, HandlerNext PROVE LinkedInv'
<1>1. /\ \A i \in 1..Len(queue) : queue[i].new \in Onward(queue[i].broker, i + 1, sm, queue)
      /\ Busy => job.note.new \in Onward(job.note.broker, 1, sm, queue)
  BY DEF LinkedInv, jobBroker, Ahead, Onward
<1>2. Len(queue) \in Nat /\ \A i \in 1..Len(queue) : queue[i].broker \in Brokers
  BY QueueIsOK DEF Note
<1>3. SUFFICES /\ \A i \in 1..Len(queue') : queue'[i].new \in Onward(queue'[i].broker, i + 1, sm', queue')
               /\ Busy' => job'.note.new \in Onward(job'.note.broker, 1, sm', queue')
  BY DEF LinkedInv, jobBroker, Ahead, Onward
<1>4. CASE UNCHANGED <<sm, queue>> /\ (Busy' => Busy /\ job'.note = job.note)
  BY <1>1, <1>4
<1>5. ASSUME NEW b \in Brokers, NEW n \in Names \cup {None}, SMAnnounces(b, n) \/ (SMRefreshes(b) /\ n = sm[b])
      PROVE  /\ \A i \in 1..Len(queue') : queue'[i].new \in Onward(queue'[i].broker, i + 1, sm', queue')
             /\ Busy' => job'.note.new \in Onward(job'.note.broker, 1, sm', queue')
  <2> DEFINE k == Len(queue) + 1
  <2>1. /\ Len(queue') = k /\ \A i \in 1..Len(queue) : queue'[i] = queue[i]
        /\ queue'[k].broker = b /\ queue'[k].new = n /\ job' = job
    BY <1>5, Announces
  <2>2. /\ \A c \in Brokers, from \in 1..k : Onward(c, from, sm, queue) \subseteq Onward(c, from, sm', queue')
        /\ n \in Onward(b, k + 1, sm', queue')
    BY <1>2, <1>5, AnnounceLeads
  <2>3. ASSUME NEW i \in 1..Len(queue) PROVE queue'[i].new \in Onward(queue'[i].broker, i + 1, sm', queue')
    <3>1. i + 1 \in 1..k
      BY <1>2
    <3> QED
      BY <1>1, <1>2, <2>1, <2>2, <3>1
  <2>4. \A i \in 1..Len(queue') : i \in 1..Len(queue) \/ i = k
    BY <1>2, <2>1
  <2>5. Busy' => job'.note.new \in Onward(job'.note.broker, 1, sm', queue')
    <3>1. Busy => job.note.broker \in Brokers
      BY JobType DEF jobBroker
    <3>2. 1 \in 1..k
      BY <1>2
    <3> QED
      BY <1>1, <2>1, <2>2, <3>1, <3>2 DEF Busy
  <2> QED
    BY <2>1, <2>2, <2>3, <2>4, <2>5
<1>6. CASE ResyncBegins
  <2>1. ~Busy'
    BY <1>6 DEF ResyncBegins, Busy
  <2> QED
    BY <1>6, <2>1, ResyncLeads
<1>7. CASE OnCreate \/ OnUpdate \/ OnDelete
  <2>1. /\ queue # <<>> /\ queue' = Tail(queue) /\ UNCHANGED sm
        /\ Busy' => job'.note = Head(queue)
    BY <1>7, Turns DEF Busy, Undertaken
  <2>2. /\ Len(queue') \in Nat /\ 1 \in 1..Len(queue) /\ Head(queue) = queue[1]
        /\ \A i \in 1..Len(queue') : i + 1 \in 1..Len(queue) /\ queue'[i] = queue[i + 1]
    BY <2>1, TailQueue, HeadNoted DEF QueueOK
  <2>3. ASSUME NEW i \in 1..Len(queue') PROVE queue'[i].new \in Onward(queue'[i].broker, i + 1, sm', queue')
    <3>1. Onward(queue'[i].broker, i + 1, sm', queue') = Onward(queue'[i].broker, (i + 1) + 1, sm, queue)
      <4>1. i + 1 \in Nat \ {0}
        OBVIOUS
      <4> QED
        BY <2>1, <4>1, TailLeads
    <3> QED
      BY <1>1, <2>2, <3>1
  <2>4. Busy' => job'.note.new \in Onward(job'.note.broker, 1, sm', queue')
    <3>1. Onward(queue[1].broker, 1, sm', queue') = Onward(queue[1].broker, 1 + 1, sm, queue)
      BY <2>1, TailLeads
    <3> QED
      BY <1>1, <2>1, <2>2, <3>1
  <2> QED
    BY <2>3, <2>4
<1>8. CASE JobStep
  <2>1. UNCHANGED <<sm, queue>> /\ Busy /\ (Busy' => job'.note = job.note)
    <3>1. UNCHANGED <<sm, queue>> /\ Busy /\ JobFollows
      BY <1>8, JobSteps
    <3>2. job \in Job /\ job.task.cred \in Issued \cup {Default, None}
      BY <3>1, JobType DEF Task
    <3>3. Busy' => job'.note = job.note
      BY <3>1, <3>2, JobMoves DEF JobFollows, Busy
    <3> QED
      BY <3>1, <3>3
  <2> QED
    BY <1>4, <2>1
<1>9. CASE Others
  <2>1. job' = job
    BY <1>9, OthersType
  <2>2. UNCHANGED <<sm, queue>> => (Busy' => Busy /\ job'.note = job.note)
    BY <2>1 DEF Busy
  <2>3. ASSUME NEW b \in Brokers, SMRefreshes(b) PROVE sm[b] \in Names \cup {None}
    BY DEF HandlerInv, CoreInv, TypeOK
  <2> QED
    BY <1>4, <1>5, <1>6, <1>9, <2>2, <2>3, OthersRest
<1> QED
  BY <1>7, <1>8, <1>9, HandlerSteps

-----------------------------------------------------------------------------
(* Steps that lose no change.                                              *)

LEMMA StillIntact ==
  ASSUME HandlerInv, HandlerNext, intact', ~ResyncBegins
  PROVE  /\ intact
         /\ \/ ResyncGoesOn
            \/ \E b \in Brokers, n \in Names \cup {None} : SMAnnounces(b, n) \/ (SMRefreshes(b) /\ n = sm[b])
            \/ OnCreate \/ OnUpdate \/ OnDelete
            \/ JobPuts \/ (JobCalls /\ ~Doubled(platform')) \/ JobIsRefused \/ JobActivates
<1>1. ASSUME NEW b \in Brokers, NEW n \in Names \cup {None}, SMAnnounces(b, n) PROVE intact' = intact
  BY <1>1 DEF SMAnnounces, Announce
<1>2. ASSUME NEW b \in Brokers, SMRefreshes(b) PROVE intact' = intact /\ sm[b] \in Names \cup {None}
  BY <1>2 DEF SMRefreshes, Announce, HandlerInv, CoreInv, TypeOK
<1>3. ~Operators /\ ~Lifecycle /\ ~ResyncSuffers
  BY DEF Operators, Lifecycle, ResyncSuffers
<1>4. ResyncGoesOn => intact' = intact
  BY DEF ResyncGoesOn, handlerVars
<1>5. ASSUME NEW kept, Intact(kept) PROVE intact
  <2>1. intact' => intact /\ kept
    BY <1>5, Zenon DEF Intact
  <2> QED
    BY <2>1
<1>6. ~LookupFails
  BY DEF LookupFails
<1>7. CASE OnCreate
  BY <1>5, <1>6, <1>7 DEF OnCreate
<1>8. CASE OnUpdate
  <2>1. Intact(Head(queue).new \in Blacklist) \/ Intact(Head(queue).new \notin Blacklist)
    BY <1>6, <1>8, Zenon DEF OnUpdate
  <2> QED
    BY <1>5, <1>8, <2>1
<1>9. CASE OnDelete
  BY <1>5, <1>6, <1>9 DEF OnDelete
<1>10. ~JobConflicts /\ ~JobPutFails /\ ~JobCallFails /\ ~JobActivateFails
  BY DEF JobConflicts, JobPutFails, JobCallFails, JobActivateFails
<1>11. JobPuts \/ JobIsRefused \/ JobActivates => intact' = intact
  BY DEF JobPuts, JobIsRefused, JobActivates
<1>12. JobCalls => intact /\ ~Doubled(platform')
  <2>1. JobCalls => (intact' => intact /\ ~Doubled(platform'))
    BY Zenon DEF JobCalls
  <2> QED
    BY <2>1
<1> QED
  BY <1>1, <1>2, <1>3, <1>4, <1>7, <1>8, <1>9, <1>10, <1>11, <1>12 DEF HandlerNext, JobStep

LEMMA NotDoubled ==
  ASSUME NEW regs \in [Guids -> Registration \cup {None}], ~Doubled(regs)
  PROVE  Unique(regs)
<1>1. ASSUME NEW b \in Brokers PROVE Single(b, regs)
  <2>1. IsFiniteSet(ProxiesOf(b, regs))
    BY FiniteAssumption, FS_Subset DEF ProxiesOf
  <2>2. Cardinality(ProxiesOf(b, regs)) \in Nat
    BY <2>1, FS_CardinalityType
  <2>3. ~(Cardinality(ProxiesOf(b, regs)) > 1)
    BY DEF Doubled
  <2>4. Cardinality(ProxiesOf(b, regs)) <= 1
    BY <2>2, <2>3
  <2> QED
    BY <2>4, CardinalitySingle
<1> QED
  BY <1>1, UniqueSingle

\* Only a resync that begins ends the pause between two resyncs.
LEMMA IdleStays ==
  ASSUME HandlerInv, HandlerNext, phase = "idle", ~ResyncBegins
  PROVE  phase' = "idle"
<1>1. ~ResyncGoesOn /\ ~ResyncSuffers
  BY IdleRound DEF HandlerInv, ResyncGoesOn, ResyncSuffers
<1>2. ASSUME NEW b \in Brokers, NEW n \in Names \cup {None}, SMAnnounces(b, n) PROVE phase' = "idle"
  BY <1>2 DEF SMAnnounces, SMChanges, Changed, round
<1>3. ASSUME NEW b \in Brokers, SMRefreshes(b) PROVE phase' = "idle"
  BY <1>3 DEF SMRefreshes, Changed, round
<1>4. Operators \/ Lifecycle => phase' = "idle"
  BY DEF Operators, OperatorRegisters, OperatorRenames, OperatorDeletes, Changed, Lifecycle, Cancel, round
<1>5. OnCreate \/ OnUpdate \/ OnDelete => phase' = "idle"
  BY Turns DEF round
<1>6. JobStep => phase' = "idle"
  BY JobSteps DEF round
<1> QED
  BY <1>1, <1>2, <1>3, <1>4, <1>5, <1>6 DEF HandlerNext

-----------------------------------------------------------------------------
(* What a resync has read, and what it does.                               *)

LEMMA ReadKeeps == ASSUME HandlerInv, ReadInv, HandlerNext PROVE ReadInv'
<1>1. SUFFICES ASSUME phase' # "idle", NEW b \in Brokers
               PROVE  \E n \in Onward(b, 1, sm', queue') : desired'[b] = Wanted(n)
  BY DEF ReadInv, Ahead, Onward
<1>2. CASE ResyncBegins
  <2>1. desired' = [c \in Brokers |-> Wanted(sm[c])] /\ sm' = sm
    BY <1>2 DEF ResyncBegins, FetchSM, external
  <2>2. sm[b] \in Onward(b, 1, sm', queue')
    BY <2>1, OnwardMembers
  <2> QED
    BY <2>1, <2>2
<1>3. CASE ~ResyncBegins
  <2>1. phase # "idle"
    BY <1>1, <1>3, IdleStays
  <2>2. ~OnCreate /\ ~OnUpdate /\ ~OnDelete /\ ~JobStep
    <3>1. JobStep => phase = "idle"
      BY JobSteps, JobType
    <3> QED
      BY <2>1, <3>1, Turns
  <2>3. PICK n \in Onward(b, 1, sm, queue) : desired[b] = Wanted(n)
    BY <2>1 DEF ReadInv, Ahead, Onward
  <2>4. n \in Onward(b, 1, sm', queue') /\ desired' = desired
    <3>1. UNCHANGED <<sm, queue, desired>> => n \in Onward(b, 1, sm', queue') /\ desired' = desired
      BY <2>3
    <3>2. ASSUME NEW c \in Brokers, NEW m \in Names \cup {None}, SMAnnounces(c, m) \/ (SMRefreshes(c) /\ m = sm[c])
          PROVE  n \in Onward(b, 1, sm', queue')
      <4>1. 1 \in 1..Len(queue) + 1
        BY QueueIsOK
      <4> QED
        BY <2>3, <3>2, <4>1, AnnounceLeads
    <3>3. ASSUME NEW c \in Brokers, SMRefreshes(c) PROVE sm[c] \in Names \cup {None}
      BY DEF HandlerInv, CoreInv, TypeOK
    <3>4. Others
      BY <2>2, HandlerSteps
    <3> QED
      BY <1>3, <3>1, <3>2, <3>3, <3>4, OthersRest
  <2> QED
    BY <2>3, <2>4
<1> QED
  BY <1>2, <1>3

LEMMA WorkKeeps == ASSUME HandlerInv, HandlerInv', WorkInv, HandlerNext PROVE WorkInv'
<1> SUFFICES ASSUME intact' PROVE UniqueInv' /\ (InRound' => Progress')
  BY DEF WorkInv, Progress
<1>1. CoreInv /\ CoreInv' /\ platform \in [Guids -> Registration \cup {None}] /\ platform' \in [Guids -> Registration \cup {None}]
  BY DEF HandlerInv, CoreInv, TypeOK
<1>2. CASE ResyncBegins
  <2>1. /\ ~Doubled(platform) /\ phase = "idle" /\ phase' = "fetched"
        /\ UNCHANGED <<platform, existing>>
    BY <1>2 DEF ResyncBegins, FetchSM, external
  <2>2. \A g \in Guids : existing[g] = None
    BY <1>1, <2>1 DEF CoreInv, QuietInv, InRound
  <2>3. Unique(platform)
    BY <1>1, <2>1, NotDoubled
  <2> QED
    BY <2>1, <2>2, <2>3 DEF UniqueInv, Unique, IsProxy, InRound
<1>3. ASSUME ~ResyncBegins PROVE UniqueInv' /\ (InRound' => Progress')
  <2>1. /\ intact
        /\ \/ ResyncGoesOn
           \/ \E b \in Brokers, n \in Names \cup {None} : SMAnnounces(b, n) \/ (SMRefreshes(b) /\ n = sm[b])
           \/ OnCreate \/ OnUpdate \/ OnDelete
           \/ JobPuts \/ (JobCalls /\ ~Doubled(platform')) \/ JobIsRefused \/ JobActivates
    BY <1>3, StillIntact
  <2>2. UniqueInv /\ IInv /\ (InRound => Progress)
    BY <1>1, <2>1 DEF WorkInv, IInv, Progress
  <2>3. ASSUME UNCHANGED <<platform, process, round>> PROVE UniqueInv' /\ (InRound' => Progress')
    <3>1. UniqueInv'
      BY <2>2, <2>3 DEF UniqueInv, Unique, IsProxy, round
    <3>2. InRound' => Progress'
      BY <2>2, <2>3, UnchangedProgress DEF InRound, round, process
    <3> QED
      BY <3>1, <3>2
  <2>4. CASE ResyncGoesOn
    <3>1. (RoundStep /\ ~FetchSM) \/ \E b \in Brokers : TaskStep(b)
      BY <2>4 DEF ResyncGoesOn
    <3>2. UniqueInv'
      BY <1>1, <2>2, <3>1, UniqueKeeps DEF Next
    <3>3. CASE RoundStep /\ ~FetchSM
      <4>1. StartRound => Progress'
        BY <2>2, StartRoundProgress
      <4>2. ~StartRound => InRound /\ (InRound' => ~AwaitReturns)
        BY <3>3 DEF RoundStep, ScheduleDesired, NextOrphan, DesiredDone, ScheduleDelete, OrphansDone, AwaitReturns, InRound
      <4> QED
        BY <2>2, <3>2, <3>3, <4>1, <4>2, LoopEndProgress, ScheduleDeleteProgress, ScheduleDesiredProgress,
           NextOrphanProgress
        DEF RoundStep
    <3>4. ASSUME NEW b \in Brokers, TaskStep(b) PROVE UniqueInv' /\ (InRound' => Progress')
      <4>1. phase' = phase
        BY <3>4 DEF TaskStep, Put, PutConflicts, ReadArgument, CallSucceeds, CallRefused, Activate, Advance
      <4> QED
        BY <2>2, <3>2, <3>4, <4>1, QuietProgress, RefusedProgress, CallProgress DEF TaskStep, InRound
    <3> QED
      BY <3>1, <3>3, <3>4
  <2>5. ASSUME NEW b \in Brokers, NEW n \in Names \cup {None}, SMAnnounces(b, n) \/ (SMRefreshes(b) /\ n = sm[b])
        PROVE  UniqueInv' /\ (InRound' => Progress')
    BY <2>3, <2>5, Announces
  <2>6. CASE OnCreate \/ OnUpdate \/ OnDelete
    BY <2>3, <2>6, Turns
  <2>7. CASE JobPuts \/ JobIsRefused \/ JobActivates
    <3>1. UNCHANGED <<platform, process, round>>
      BY <2>7 DEF JobPuts, JobIsRefused, JobActivates, Unchanged
    <3> QED
      BY <2>3, <3>1
  <2>8. CASE JobCalls /\ ~Doubled(platform')
    <3>1. UNCHANGED <<phase, existing>> /\ phase = "idle"
      BY <2>8, JobType DEF JobCalls, Unchanged, round, At
    <3>2. Unique(platform')
      BY <1>1, <2>8, NotDoubled
    <3> QED
      BY <2>2, <3>1, <3>2 DEF UniqueInv, Unique, IsProxy, InRound
  <2> QED
    BY <2>1, <2>4, <2>5, <2>6, <2>7, <2>8
<1> QED
  BY <1>2, <1>3

-----------------------------------------------------------------------------
(* What a notification finds and what it leads to.                         *)

LEMMA MatchedProxy ==
  ASSUME options.takeover, NEW b \in Brokers, NEW n, Matches(b, n, platform)
  PROVE  /\ \A g \in ProxiesOf(b, platform) : n # None /\ platform[g].kind = "proxy" /\ platform[g].name = n
         /\ n # None => \E g \in ProxiesOf(b, platform) : TRUE
<1>1. CASE n = None
  BY <1>1 DEF Matches
<1>2. CASE n # None
  <2>1. /\ Cardinality(ProxiesOf(b, platform)) = 1
        /\ \A g \in ProxiesOf(b, platform) : platform[g].kind = "proxy" /\ platform[g].name = n
    BY <1>2 DEF Matches
  <2>2. ProxiesOf(b, platform) # {}
    BY <2>1, FS_EmptySet
  <2> QED
    BY <1>2, <2>1, <2>2
<1> QED
  BY <1>1, <1>2

LEMMA ProxyMatches ==
  ASSUME NEW regs, NEW b \in Brokers, NEW n, n # None, NEW g, ProxiesOf(b, regs) = {g},
         regs[g].kind = "proxy", regs[g].name = n
  PROVE  Matches(b, n, regs)
  BY FS_Singleton DEF Matches

LEMMA WantedNone == Wanted(None) = None /\ None \notin Blacklist
  BY NoneIsNoID, SettingsAssumption DEF Wanted

LEMMA UndertakesBusy ==
  ASSUME HandlerInv, queue # <<>>, NEW op \in {"create", "update", "fetch"}, NEW g \in Guids \cup {None}, Undertake(op, g)
  PROVE  /\ Busy' /\ job'.note = Head(queue)
         /\ job'.task.op = op /\ job'.task.guid = g
<1>1. NewTask(op, g) \in Task /\ NewTask(op, g).op = op /\ NewTask(op, g).guid = g
  BY NewTaskShape
<1>2. job' = [note |-> Head(queue), task |-> NewTask(op, g)] /\ Head(queue) \in Note
  BY HeadNoted DEF Undertake
<1>3. job' \in Job /\ job'.note = Head(queue) /\ job'.task = NewTask(op, g)
  BY <1>1, <1>2 DEF Job
<1> QED
  BY <1>1, <1>3, JobAssumption DEF Busy

\* What the handler goes on with when no change is lost.
LEMMA TurnsGrip ==
  ASSUME HandlerInv, OnCreate \/ OnUpdate \/ OnDelete, intact', Busy'
  PROVE  GripInv'
<1>1. queue # <<>> /\ platform' = platform
  BY Turns
<1>2. PICK note : note = Head(queue)
  OBVIOUS
<1>3. note \in Note /\ Shaped(note)
  BY <1>1, <1>2, HeadNoted
<1>4. ~LookupFails /\ ~Ignore
  BY DEF LookupFails, Ignore, Busy
<1>5. SUFFICES
        /\ job'.note = note /\ note.new \notin Blacklist
        /\ job'.task.op # "create" =>
             /\ platform[job'.task.guid] # None
             /\ note.kind # "create" => job'.task.guid \in ProxyNamed(note.broker, note.old, platform)
             /\ job'.task.op = "fetch" => note.old = note.new
  BY <1>1 DEF GripInv, jobName, jobBroker, ProxyNamed, ProxiesOf, IsProxy
<1>6. CASE OnCreate
  <2>1. /\ note.new \notin Blacklist /\ note.kind = "create"
        /\ \/ Undertake("create", None)
           \/ \E g \in KeyMatches(note.broker, note.new, platform) : Undertake("update", g)
    BY <1>2, <1>4, <1>6 DEF OnCreate, Take
  <2>2. ASSUME NEW g \in KeyMatches(note.broker, note.new, platform), Undertake("update", g)
        PROVE  job'.note = note /\ platform[job'.task.guid] # None /\ job'.task.op = "update"
    <3>1. g \in Guids /\ platform[g] # None
      BY DEF KeyMatches
    <3> QED
      BY <1>1, <1>2, <2>2, <3>1, UndertakesBusy
  <2>3. Undertake("create", None) => job'.note = note /\ job'.task.op = "create"
    BY <1>1, <1>2, UndertakesBusy
  <2> QED
    BY <2>1, <2>2, <2>3
<1>7. CASE OnUpdate
  <2> DEFINE op == IF note.old # note.new THEN "update" ELSE "fetch"
  <2>1. /\ Intact(note.new \notin Blacklist)
        /\ \E g \in ProxyNamed(note.broker, note.old, platform) : Undertake(op, g)
    BY <1>2, <1>4, <1>7 DEF OnUpdate
  <2>2. note.new \notin Blacklist
    <3>1. intact' => note.new \notin Blacklist
      BY <2>1, Zenon DEF Intact
    <3> QED
      BY <3>1
  <2>3. PICK g \in ProxyNamed(note.broker, note.old, platform) : Undertake(op, g)
    BY <2>1
  <2>4. g \in Guids /\ platform[g] # None /\ op \in {"create", "update", "fetch"}
    BY DEF ProxyNamed, ProxiesOf, IsProxy
  <2>5. job'.note = note /\ job'.task.op = op /\ job'.task.guid = g
    BY <1>1, <1>2, <2>3, <2>4, UndertakesBusy
  <2> QED
    BY <2>2, <2>4, <2>5
<1>8. CASE OnDelete
  <2>1. PICK g \in ProxyNamed(note.broker, note.old, platform) :
          job' = [note |-> note, task |-> [op |-> "delete", at |-> "call", guid |-> g, cred |-> None]]
    BY <1>2, <1>4, <1>8 DEF OnDelete
  <2>2. note.kind = "delete"
    BY <1>2, <1>8 DEF OnDelete, Take
  <2>3. note.new = None
    BY <1>3, <2>2 DEF Shaped
  <2>4. platform[g] # None
    BY DEF ProxyNamed, ProxiesOf, IsProxy
  <2> QED
    BY <2>1, <2>3, <2>4, WantedNone
<1> QED
  BY <1>6, <1>7, <1>8

\* What it leaves alone is as the notification says already.
LEMMA TurnsIgnored ==
  ASSUME HandlerInv, OnCreate \/ OnUpdate \/ OnDelete, intact', ~Busy', options.takeover,
         Matches(Head(queue).broker, Wanted(Head(queue).old), platform)
  PROVE  Matches(Head(queue).broker, Wanted(Head(queue).new), platform)
<1>1. queue # <<>>
  BY Turns
<1>2. PICK note : note = Head(queue)
  OBVIOUS
<1>3. note \in Note /\ Shaped(note) /\ note.broker \in Brokers
  BY <1>1, <1>2, HeadNoted DEF Note
<1>4. ~LookupFails
  BY DEF LookupFails
<1>5. \A op \in {"create", "update", "fetch"}, g \in Guids \cup {None} : ~Undertake(op, g)
  BY <1>1, UndertakesBusy
<1>6. ASSUME note.old # None, note.old \notin Blacklist
      PROVE  {g \in ProxyNamed(note.broker, note.old, platform) : platform[g].kind = "proxy"} # {}
  <2>1. Wanted(note.old) = note.old
    BY <1>6 DEF Wanted
  <2>2. PICK g \in ProxiesOf(note.broker, platform) : platform[g].kind = "proxy" /\ platform[g].name = note.old
    BY <1>2, <1>3, <1>6, <2>1, MatchedProxy
  <2> QED
    BY <2>2 DEF ProxyNamed
<1>7. CASE OnCreate
  <2>1. note.kind = "create" /\ note.new \in Blacklist
    <3>1. note.kind = "create"
      BY <1>2, <1>7 DEF OnCreate, Take
    <3>2. ~Intact(FALSE)
      BY Zenon DEF Intact
    <3>3. ~ \E g \in KeyMatches(note.broker, note.new, platform) : Undertake("update", g)
      BY <1>5 DEF KeyMatches
    <3> QED
      BY <1>2, <1>4, <1>5, <1>7, <3>1, <3>2, <3>3 DEF OnCreate
  <2>2. Wanted(note.old) = None /\ Wanted(note.new) = None
    BY <1>3, <2>1, WantedNone DEF Shaped, Wanted
  <2> QED
    BY <1>2, <2>2
<1>8. CASE OnUpdate
  <2>1. note.kind = "update"
    BY <1>2, <1>8 DEF OnUpdate, Take
  <2>2. note.old # None
    BY <1>3, <2>1 DEF Shaped
  <2>3. CASE note.old \in Blacklist
    <3>1. Intact(note.new \in Blacklist)
      BY <1>2, <1>8, <2>3 DEF OnUpdate
    <3>2. note.new \in Blacklist
      <4>1. intact' => note.new \in Blacklist
        BY <3>1, Zenon DEF Intact
      <4> QED
        BY <4>1
    <3> QED
      BY <1>2, <2>3, <3>2 DEF Wanted
  <2>4. CASE note.old \notin Blacklist
    <3> DEFINE op == IF note.old # note.new THEN "update" ELSE "fetch"
               found == {g \in ProxyNamed(note.broker, note.old, platform) : platform[g].kind = "proxy"}
    <3>1. found # {}
      BY <1>6, <2>2, <2>4
    <3>2. IF found = {} \/ (op = "fetch" /\ ~options.fetcher) THEN Ignore ELSE \E g \in found : Undertake(op, g)
      BY <1>2, <1>4, <1>8, <2>4 DEF OnUpdate
    <3>3. \A g \in found : ~Undertake(op, g)
      BY <1>5 DEF ProxyNamed, ProxiesOf
    <3>4. op = "fetch"
      BY <3>1, <3>2, <3>3
    <3>5. note.old = note.new
      BY <3>4
    <3> QED
      BY <1>2, <3>5
  <2> QED
    BY <2>3, <2>4
<1>9. CASE OnDelete
  <2>1. note.kind = "delete"
    BY <1>2, <1>9 DEF OnDelete, Take
  <2>2. note.old # None /\ note.new = None
    BY <1>3, <2>1 DEF Shaped
  <2>3. CASE note.old \in Blacklist
    BY <1>2, <2>2, <2>3, WantedNone DEF Wanted
  <2>4. CASE note.old \notin Blacklist
    <3> DEFINE found == {g \in ProxyNamed(note.broker, note.old, platform) : platform[g].kind = "proxy"}
               t(g) == [op |-> "delete", at |-> "call", guid |-> g, cred |-> None]
    <3>1. found # {}
      BY <1>6, <2>2, <2>4
    <3>2. \E g \in found : job' = [note |-> note, task |-> t(g)]
      BY <1>2, <1>4, <1>9, <2>4, <3>1 DEF OnDelete
    <3>3. PICK g \in Guids : job' = [note |-> note, task |-> t(g)]
      BY <3>2 DEF ProxyNamed, ProxiesOf
    <3>4. t(g) \in Task
      BY DEF Task
    <3> HIDE DEF t
    <3>5. job' \in Job
      BY <1>3, <3>3, <3>4 DEF Job
    <3> QED
      BY <3>5, JobAssumption DEF Busy
  <2> QED
    BY <2>3, <2>4
<1> QED
  BY <1>7, <1>8, <1>9

\* A call that is made, or refused because its work is done, leaves the platform
\* as the notification says.
LEMMA JobArrives ==
  ASSUME HandlerInv, HandlerInv', Unique(platform), options.takeover, GripInv, NEW m, Matches(jobBroker, m, platform),
         (JobCalls /\ ~Doubled(platform')) \/ JobIsRefused
  PROVE  Matches(jobBroker, jobName, platform')
<1>1. Busy /\ At("call")
  BY DEF JobCalls, JobIsRefused, At
<1>2. /\ jobBroker \in Brokers /\ Shaped(job.note) /\ TaskOf(job.note, job.task)
      /\ platform \in [Guids -> Registration \cup {None}]
  BY <1>1, JobType
<1>3. PICK b, n, t : b = jobBroker /\ n = jobName /\ t = job.task
  OBVIOUS
<1>4. /\ t.op \in {"create", "update", "fetch", "delete"}
      /\ t.op \in {"create", "update"} => n # None
      /\ t.op = "fetch" => job.note.kind = "update"
      /\ t.op = "delete" => job.note.kind = "delete" /\ n = None
  BY <1>2, <1>3 DEF TaskOf, Shaped, jobName
<1>5. \A g \in ProxiesOf(b, platform) : m # None /\ platform[g].kind = "proxy" /\ platform[g].name = m
  BY <1>2, <1>3, MatchedProxy
<1>6. \A g, h \in ProxiesOf(b, platform) : g = h
  BY DEF Unique, ProxiesOf
<1>7. t.op \in {"fetch", "delete"} => t.guid \in ProxyNamed(b, job.note.old, platform)
  BY <1>3, <1>4 DEF GripInv
<1>8. t.op # "create" => platform[t.guid] # None
  BY <1>3 DEF GripInv
<1>9. CASE JobIsRefused
  <2>1. t.op \in {"create", "update"} /\ ProxyNamed(b, n, platform) # {}
    BY <1>3, <1>8, <1>9 DEF JobIsRefused, JobRefused, Refused
  <2>2. n = m
    BY <1>5, <2>1 DEF ProxyNamed
  <2>3. platform' = platform
    BY <1>9 DEF JobIsRefused
  <2> QED
    BY <1>3, <2>2, <2>3
<1>10. CASE JobCalls /\ ~Doubled(platform')
  <2>1. JobEffect
    BY <1>1, <1>10, JobCallEffect DEF JobCalls
  <2>2. platform' \in [Guids -> Registration \cup {None}]
    BY DEF HandlerInv, CoreInv, TypeOK
  <2>3. \A g, h \in ProxiesOf(b, platform') : g = h
    <3>1. Unique(platform')
      BY <1>10, <2>2, NotDoubled
    <3> QED
      BY <3>1 DEF Unique, ProxiesOf
  <2>4. PICK g \in Guids, r \in Registration \cup {None} :
          /\ platform' = [platform EXCEPT ![g] = r]
          /\ \/ /\ t.op \in {"create", "update"}
                /\ r # None /\ r.kind = "proxy" /\ r.broker = b /\ r.name = n
             \/ /\ t.op = "fetch" /\ g = t.guid
                /\ r # None /\ r.kind = platform[g].kind /\ r.broker = platform[g].broker /\ r.name = platform[g].name
             \/ /\ t.op = "delete" /\ g = t.guid
                /\ r = None
    BY <1>3, <2>1 DEF JobEffect
  <2>5. platform'[g] = r /\ \A h \in Guids \ {g} : platform'[h] = platform[h]
    BY <1>2, <2>4
  <2>6. CASE t.op \in {"create", "update"}
    <3>1. g \in ProxiesOf(b, platform') /\ r.kind = "proxy" /\ r.name = n
      BY <2>4, <2>5, <2>6 DEF ProxiesOf, IsProxy
    <3>2. ProxiesOf(b, platform') = {g}
      BY <2>3, <3>1
    <3> QED
      BY <1>2, <1>3, <1>4, <2>5, <2>6, <3>1, <3>2, ProxyMatches
  <2>7. CASE t.op = "fetch"
    <3>1. g \in ProxiesOf(b, platform) /\ platform[g].name = job.note.old /\ job.note.old = n
      BY <1>3, <1>7, <2>4, <2>7 DEF ProxyNamed, GripInv
    <3>2. platform[g].kind = "proxy" /\ platform[g].name = n /\ n # None
      BY <1>5, <3>1
    <3>3. r.kind = "proxy" /\ r.name = n /\ r # None /\ r.broker = b
      BY <2>4, <2>7, <3>1, <3>2 DEF ProxiesOf
    <3>4. g \in ProxiesOf(b, platform')
      BY <2>5, <3>3 DEF ProxiesOf, IsProxy
    <3>5. ProxiesOf(b, platform') = {g}
      BY <2>3, <3>4
    <3> QED
      BY <1>2, <1>3, <2>5, <3>2, <3>3, <3>5, ProxyMatches
  <2>8. CASE t.op = "delete"
    <3>1. g \in ProxiesOf(b, platform) /\ r = None
      BY <1>7, <2>4, <2>8 DEF ProxyNamed
    <3>2. ProxiesOf(b, platform') = {}
      BY <1>6, <2>5, <3>1 DEF ProxiesOf, IsProxy
    <3> QED
      BY <1>3, <1>4, <2>8, <3>2 DEF Matches
  <2> QED
    BY <1>4, <2>6, <2>7, <2>8
<1> QED
  BY <1>9, <1>10

LEMMA JobSparesOthers ==
  ASSUME HandlerInv, Busy, JobEffect, NEW c \in Brokers \ {jobBroker}
  PROVE  Kept(c)
<1>1. /\ platform \in [Guids -> Registration \cup {None}]
      /\ job.task.op # "create" => Held(job.note, job.task.guid)
  BY JobType
<1>2. PICK g \in Guids, r \in Registration \cup {None} :
        /\ platform' = [platform EXCEPT ![g] = r]
        /\ \/ platform[g] = None
           \/ job.task.op # "create" /\ g = job.task.guid
        /\ r # None => r.broker = jobBroker \/ (platform[g] # None /\ r.broker = platform[g].broker)
  BY DEF JobEffect
<1>3. platform'[g] = r /\ \A h \in Guids \ {g} : platform'[h] = platform[h]
  BY <1>1, <1>2
<1>4. platform[g] # None => platform[g].broker = jobBroker
  BY <1>1, <1>2 DEF Held, jobBroker
<1> QED
  BY <1>2, <1>3, <1>4 DEF Kept

-----------------------------------------------------------------------------
(* The platform is somewhere along the way.                                *)

\* Broker b is, between two resyncs.
Underway(b) ==
    IF Calling(b) THEN GripInv /\ \E n \in Names \cup {None} : Matches(b, n, platform)
    ELSE \E n \in Onward(b, 1, sm, queue) : Matches(b, Wanted(n), platform)

LEMMA UnderwayNext ==
  ASSUME NEW b \in Brokers, options' = options,
         IF Calling(b)' THEN GripInv' /\ \E n \in Names \cup {None} : Matches(b, n, platform')
         ELSE \E n \in Onward(b, 1, sm', queue') : Matches(b, Wanted(n), platform')
  PROVE  Underway(b)'
<1>1. \A n : Matches(b, n, platform)' <=> Matches(b, n, platform')
  BY DEF Matches, ProxiesOf, KeyMatches, IsProxy
<1> QED
  BY <1>1 DEF Underway, Onward, Wanted

LEMMA OnwardTypes ==
  ASSUME HandlerInv, NEW b \in Brokers
  PROVE  Onward(b, 1, sm, queue) \subseteq Names \cup {None}
<1>1. sm[b] \in Names \cup {None} /\ \A i \in 1..Len(queue) : queue[i].old \in Names \cup {None}
  BY QueueIsOK DEF HandlerInv, CoreInv, TypeOK, Note
<1> QED
  BY <1>1, OnwardMembers

LEMMA AnnounceUnderway ==
  ASSUME HandlerInv, NEW b \in Brokers, NEW n \in Names \cup {None}, SMAnnounces(b, n) \/ (SMRefreshes(b) /\ n = sm[b]),
         NEW c \in Brokers, Underway(c)
  PROVE  Underway(c)'
<1>1. UNCHANGED <<platform, job, options>>
  BY Announces DEF process
<1>2. 1 \in 1..Len(queue) + 1
  BY QueueIsOK
<1>3. Onward(c, 1, sm, queue) \subseteq Onward(c, 1, sm', queue')
  BY <1>2, AnnounceLeads
<1>4. Calling(c)' = Calling(c) /\ GripInv' = GripInv
  BY <1>1 DEF Calling, Busy, jobBroker, GripInv, jobName, ProxyNamed, ProxiesOf, IsProxy
<1> QED
  BY <1>1, <1>3, <1>4, UnderwayNext DEF Underway

LEMMA AwaitUnderway ==
  ASSUME HandlerInv, ReadInv, Progress, UniqueInv, AwaitReturns, UNCHANGED handlerVars, Cardinality(orphans') <= 1,
         NEW c \in Brokers
  PROVE  Underway(c)'
<1>1. phase # "idle" /\ ~Busy /\ UNCHANGED <<sm, platform, options, desired, job>>
  BY DEF AwaitReturns, HandlerInv, HandlerTypeOK, external, process, handlerVars
<1>2. Matches(c, desired[c], platform)'
  BY AwaitReturnsReconciles DEF HandlerInv, IInv
<1>3. Matches(c, desired[c], platform')
  BY <1>1, <1>2 DEF Matches, ProxiesOf, KeyMatches, IsProxy
<1>4. PICK n \in Onward(c, 1, sm, queue) : desired[c] = Wanted(n)
  BY <1>1 DEF ReadInv, Ahead, Onward
<1>5. n \in Onward(c, 1, sm', queue')
  BY <1>1, <1>4 DEF handlerVars
<1>6. ~Calling(c)'
  BY <1>1 DEF Calling, Busy
<1> QED
  BY <1>1, <1>3, <1>4, <1>5, <1>6, UnderwayNext

LEMMA TurnsUnderway ==
  ASSUME HandlerInv, LinkedInv, OnCreate \/ OnUpdate \/ OnDelete, intact', options.takeover,
         NEW c \in Brokers, Underway(c)
  PROVE  Underway(c)'
<1>1. /\ ~Busy /\ queue # <<>> /\ queue' = Tail(queue) /\ UNCHANGED <<sm, platform, options>>
      /\ job' = NoJob \/ \E t \in Task : Undertaken(t)
  BY Turns DEF process
<1>2. Busy' => job'.note = Head(queue) /\ job'.task.at \in {"put", "call"}
  BY <1>1 DEF Undertaken, Busy
<1>3. PICK n \in Onward(c, 1, sm, queue) : Matches(c, Wanted(n), platform)
  BY <1>1 DEF Underway, Calling
<1>4. /\ Head(queue) = queue[1] /\ Len(queue) \in Nat /\ Len(queue) > 0
      /\ Onward(c, 1, sm', queue') = Onward(c, 2, sm, queue)
  <2>1. 1 \in Nat \ {0} /\ 1 + 1 = 2
    OBVIOUS
  <2>2. Onward(c, 1, sm', queue') = Onward(c, 1 + 1, sm, queue)
    BY <1>1, <2>1, TailLeads
  <2> QED
    BY <1>1, <2>1, <2>2, HeadNoted
<1>5. n \in Onward(c, 2, sm, queue) \/ (queue[1].broker = c /\ n = queue[1].old)
  <2>1. n = sm[c] \/ \E i \in 1..Len(queue) : queue[i].broker = c /\ n = queue[i].old
    BY <1>3, OnwardMembers
  <2>2. \A i \in 1..Len(queue) : i = 1 \/ i \in 2..Len(queue)
    BY <1>4
  <2>3. n = sm[c] => n \in Onward(c, 2, sm, queue)
    BY OnwardMembers
  <2>4. ASSUME NEW i \in 2..Len(queue), queue[i].broker = c, n = queue[i].old PROVE n \in Onward(c, 2, sm, queue)
    BY <2>4, OnwardMembers
  <2> QED
    BY <2>1, <2>2, <2>3, <2>4
<1>6. CASE Calling(c)'
  <2>1. GripInv'
    BY <1>6, TurnsGrip DEF Calling
  <2>2. Wanted(n) \in Names \cup {None}
    BY <1>3, OnwardTypes DEF Wanted
  <2> QED
    BY <1>1, <1>3, <1>6, <2>1, <2>2, UnderwayNext
<1>7. CASE ~Calling(c)'
  <2>1. CASE n \in Onward(c, 2, sm, queue)
    BY <1>1, <1>3, <1>4, <1>7, <2>1, UnderwayNext
  <2>2. CASE queue[1].broker = c /\ n = queue[1].old
    <3>1. ~Busy'
      BY <1>2, <1>4, <1>7, <2>2 DEF Calling, jobBroker
    <3>2. Matches(c, Wanted(queue[1].new), platform)
      BY <1>3, <1>4, <2>2, <3>1, TurnsIgnored
    <3>3. queue[1].new \in Onward(c, 2, sm, queue)
      <4>1. queue[1].new \in Ahead(queue[1].broker, 1 + 1) /\ 1 + 1 = 2
        BY <1>4 DEF LinkedInv
      <4> QED
        BY <2>2, <4>1 DEF Ahead, Onward
    <3> QED
      BY <1>1, <1>4, <1>7, <3>2, <3>3, UnderwayNext
  <2> QED
    BY <1>5, <2>1, <2>2
<1> QED
  BY <1>6, <1>7

LEMMA JobUnderway ==
  ASSUME HandlerInv, HandlerInv', LinkedInv, Unique(platform), options.takeover,
         JobPuts \/ (JobCalls /\ ~Doubled(platform')) \/ JobIsRefused \/ JobActivates,
         NEW c \in Brokers, Underway(c)
  PROVE  Underway(c)'
<1>1. /\ JobStep /\ Busy /\ UNCHANGED <<sm, queue, options>>
      /\ job \in Job /\ jobBroker \in Brokers
  BY JobSteps, JobType DEF JobStep, process
<1>2. /\ Onward(c, 1, sm', queue') = Onward(c, 1, sm, queue)
  BY <1>1
<1>3. CASE JobPuts
  <2>1. /\ platform' = platform /\ job.task.at = "put"
        /\ job' = [job EXCEPT !.task.at = "call", !.task.cred = Fresh(jobBroker)]
        /\ Fresh(jobBroker) \in Issued
    BY <1>3 DEF JobPuts, At, JobPutAccepted, Fresh
  <2>2. /\ job' \in Job /\ job'.note = job.note /\ job'.task.at = "call"
        /\ job'.task.op = job.task.op /\ job'.task.guid = job.task.guid
    BY <1>1, <2>1, JobMoves
  <2>3. Calling(c)' = Calling(c)
    BY <1>1, <2>1, <2>2, JobAssumption DEF Calling, Busy, jobBroker
  <2>4. GripInv => GripInv'
    BY <2>1, <2>2 DEF GripInv, jobName, jobBroker, ProxyNamed, ProxiesOf, IsProxy
  <2> QED
    BY <1>1, <1>2, <2>1, <2>3, <2>4, UnderwayNext DEF Underway
<1>4. CASE JobActivates
  <2>1. platform' = platform /\ ~Calling(c) /\ ~Calling(c)'
    BY <1>4 DEF JobActivates, At, GiveUp, Calling, Busy
  <2> QED
    BY <1>1, <1>2, <2>1, UnderwayNext DEF Underway
<1>5. CASE (JobCalls /\ ~Doubled(platform')) \/ JobIsRefused
  <2>1. At("call") /\ (platform' = platform \/ JobEffect)
    BY <1>1, <1>5, JobCallEffect DEF JobCalls, JobIsRefused
  <2>2. ~Calling(c)'
    <3>1. job' = NoJob \/ job' = [job EXCEPT !.task.at = "activate"]
      BY <1>5 DEF JobCalls, JobIsRefused, GiveUp, Proceed
    <3>2. job.task.cred \in Issued \cup {Default, None}
      BY <1>1 DEF Job, Task
    <3>3. job' = [job EXCEPT !.task.at = "activate"] => job'.task.at = "activate"
      BY <1>1, <3>2, JobMoves
    <3> QED
      BY <3>1, <3>3 DEF Calling, Busy
  <2>3. CASE c = jobBroker
    <3>1. Calling(c)
      BY <1>1, <2>1, <2>3 DEF Calling, At
    <3>2. GripInv /\ \E n \in Names \cup {None} : Matches(jobBroker, n, platform)
      BY <2>3, <3>1 DEF Underway
    <3>3. Matches(jobBroker, jobName, platform')
      BY <1>5, <3>2, JobArrives
    <3>4. Wanted(jobName) = jobName
      BY <3>2 DEF GripInv, Wanted
    <3>5. jobName \in Onward(c, 1, sm, queue)
      BY <1>1, <2>3 DEF LinkedInv, Ahead, Onward, jobName
    <3> QED
      BY <1>1, <1>2, <2>2, <2>3, <3>3, <3>4, <3>5, UnderwayNext
  <2>4. CASE c # jobBroker
    <3>1. ~Calling(c)
      BY <2>4 DEF Calling
    <3>2. PICK n \in Onward(c, 1, sm, queue) : Matches(c, Wanted(n), platform)
      BY <3>1 DEF Underway
    <3>3. Matches(c, Wanted(n), platform')
      <4>1. JobEffect => Kept(c)
        BY <1>1, <2>4, JobSparesOthers
      <4> QED
        BY <2>1, <3>2, <4>1, KeptMatches
    <3> QED
      BY <1>1, <1>2, <2>2, <3>2, <3>3, UnderwayNext
  <2> QED
    BY <2>3, <2>4
<1> QED
  BY <1>3, <1>4, <1>5

LEMMA OnTheWayKeeps ==
  ASSUME CatchUpInv, HandlerInv', HandlerNext
  PROVE  OnTheWayInv'
<1>1. SUFFICES ASSUME intact', options'.takeover, Cardinality(orphans') <= 1, phase' = "idle", NEW c \in Brokers
               PROVE  Underway(c)'
  BY DEF OnTheWayInv, Underway, Ahead, Onward
<1>2. HandlerInv /\ LinkedInv /\ ReadInv
  BY DEF CatchUpInv
<1>3. ~ResyncBegins
  BY <1>1 DEF ResyncBegins, FetchSM
<1>4. /\ intact
      /\ \/ ResyncGoesOn
         \/ \E b \in Brokers, n \in Names \cup {None} : SMAnnounces(b, n) \/ (SMRefreshes(b) /\ n = sm[b])
         \/ OnCreate \/ OnUpdate \/ OnDelete
         \/ JobPuts \/ (JobCalls /\ ~Doubled(platform')) \/ JobIsRefused \/ JobActivates
  BY <1>1, <1>2, <1>3, StillIntact
<1>5. UniqueInv /\ (InRound => Progress)
  BY <1>4 DEF CatchUpInv, WorkInv, Progress
<1>6. ASSUME options.takeover, UNCHANGED orphans, phase = "idle" PROVE Underway(c)
  BY <1>1, <1>4, <1>6 DEF CatchUpInv, OnTheWayInv, Underway, Ahead, Onward
<1>7. CASE ResyncGoesOn
  <2>1. phase # "idle"
    BY <1>2, <1>7, IdleRound DEF HandlerInv, ResyncGoesOn
  <2>2. AwaitReturns /\ UNCHANGED handlerVars
    BY <1>1, <1>7, <2>1
    DEF ResyncGoesOn, RoundStep, StartRound, ScheduleDesired, NextOrphan, DesiredDone, ScheduleDelete, OrphansDone,
        TaskStep, Put, PutConflicts, ReadArgument, CallSucceeds, CallRefused, Activate, Advance
  <2>3. InRound
    BY <2>2 DEF AwaitReturns, InRound
  <2> QED
    BY <1>1, <1>2, <1>5, <2>2, <2>3, AwaitUnderway
<1>8. ASSUME NEW b \in Brokers, NEW n \in Names \cup {None}, SMAnnounces(b, n) \/ (SMRefreshes(b) /\ n = sm[b])
      PROVE  Underway(c)'
  <2>1. UNCHANGED <<options, orphans, phase>>
    BY <1>2, <1>8, Announces DEF process, round
  <2> QED
    BY <1>1, <1>2, <1>6, <1>8, <2>1, AnnounceUnderway
<1>9. CASE OnCreate \/ OnUpdate \/ OnDelete
  <2>1. UNCHANGED <<options, orphans, phase>>
    BY <1>2, <1>9, Turns DEF process, round
  <2> QED
    BY <1>1, <1>2, <1>6, <1>9, <2>1, TurnsUnderway
<1>10. CASE JobPuts \/ (JobCalls /\ ~Doubled(platform')) \/ JobIsRefused \/ JobActivates
  <2>1. UNCHANGED <<options, orphans, phase>>
    BY <1>10 DEF JobPuts, JobCalls, JobIsRefused, JobActivates, Unchanged, process, round
  <2> QED
    BY <1>1, <1>2, <1>5, <1>6, <1>10, <2>1, JobUnderway DEF UniqueInv
<1> QED
  BY <1>4, <1>7, <1>8, <1>9, <1>10

LEMMA CatchUpInit == HandlerInit => CatchUpInv
<1> SUFFICES ASSUME HandlerInit PROVE CatchUpInv
  OBVIOUS
<1>1. HandlerInv
  BY HandlerInitKeeps
<1>2. queue = <<>> /\ ~Busy /\ intact = FALSE /\ phase = "idle"
  BY DEF HandlerInit, Init, Busy
<1>3. LinkedInv /\ ReadInv
  BY <1>2 DEF LinkedInv, ReadInv
<1>4. WorkInv /\ OnTheWayInv
  BY <1>2 DEF WorkInv, OnTheWayInv
<1> QED
  BY <1>1, <1>3, <1>4 DEF CatchUpInv

LEMMA CatchUpStutters == ASSUME CatchUpInv, HandlerInv', UNCHANGED allVars PROVE CatchUpInv'
<1>1. UNCHANGED <<queue, used, job, intact, mishap>>
  BY DEF allVars, handlerVars
<1>2. UNCHANGED <<sm, platform, options, phase, desired, existing, todo, index, cursor, task, orphans>>
  BY DEF allVars, vars, external, process, round
<1>3. LinkedInv' /\ ReadInv'
  BY <1>1, <1>2 DEF CatchUpInv, LinkedInv, ReadInv, Ahead, Busy, jobBroker, Wanted
<1>4. WorkInv'
  <2>1. Progress => Progress'
    BY <1>2, UnchangedProgress
  <2> QED
    BY <1>1, <1>2, <2>1 DEF CatchUpInv, WorkInv, UniqueInv, Unique, IsProxy, InRound, Progress
<1>5. OnTheWayInv'
  <2>1. \A c \in Brokers : Underway(c) => Underway(c)'
    <3> TAKE c \in Brokers
    <3>1. Calling(c)' = Calling(c) /\ GripInv' = GripInv
      BY <1>1, <1>2 DEF Calling, Busy, jobBroker, GripInv, jobName, ProxyNamed, ProxiesOf, IsProxy
    <3> QED
      BY <1>1, <1>2, <3>1, UnderwayNext DEF Underway
  <2>2. (intact /\ options.takeover /\ Cardinality(orphans) <= 1 /\ phase = "idle") => \A c \in Brokers : Underway(c)
    BY DEF CatchUpInv, OnTheWayInv, Underway, Ahead, Onward
  <2>3. (intact' /\ options'.takeover /\ Cardinality(orphans') <= 1 /\ phase' = "idle") => \A c \in Brokers : Underway(c)'
    BY <1>1, <1>2, <2>1, <2>2
  <2> QED
    BY <2>3 DEF OnTheWayInv, Underway, Ahead, Onward
<1> QED
  BY <1>3, <1>4, <1>5 DEF CatchUpInv

LEMMA CatchUpStep == CatchUpInv /\ [HandlerNext]_allVars => CatchUpInv'
<1> SUFFICES ASSUME CatchUpInv, [HandlerNext]_allVars PROVE CatchUpInv'
  OBVIOUS
<1>1. HandlerInv'
  BY HandlerStep DEF CatchUpInv
<1>2. CASE HandlerNext
  BY <1>1, <1>2, LinkedKeeps, ReadKeeps, WorkKeeps, OnTheWayKeeps DEF CatchUpInv
<1>3. CASE UNCHANGED allVars
  BY <1>1, <1>3, CatchUpStutters
<1> QED
  BY <1>2, <1>3

\* From the name that the platform has for a broker, or that a resync has read,
\* the notifications that wait lead on to the one that SM has, and the handler
\* takes the platform from one to the next.
THEOREM CatchUpInvariant == HandlerSpec => []CatchUpInv
  BY CatchUpInit, CatchUpStep, PTL DEF HandlerSpec

\* When no change was lost, the platform matches SM as soon as no resync runs and
\* no notification is left.
THEOREM BrokersCatchUp == HandlerSpec => []CaughtUp
<1>1. CatchUpInv => CaughtUp
  <2> SUFFICES ASSUME CatchUpInv, phase = "idle", ~Busy, queue = <<>>, intact, options.takeover,
                      Cardinality(orphans) <= 1, NEW b \in Brokers
               PROVE  Matches(b, Wanted(sm[b]), platform)
    BY DEF CaughtUp
  <2>1. \E n \in Ahead(b, 1) : Matches(b, Wanted(n), platform)
    BY DEF CatchUpInv, OnTheWayInv, Calling
  <2>2. 1..Len(queue) = {}
    OBVIOUS
  <2>3. Ahead(b, 1) = {sm[b]}
    BY <2>2 DEF Ahead
  <2> QED
    BY <2>1, <2>3
<1> QED
  BY <1>1, CatchUpInvariant, PTL

=============================================================================
