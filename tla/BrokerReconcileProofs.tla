------------------------ MODULE BrokerReconcileProofs ------------------------
(***************************************************************************)
(* Proofs about BrokerReconcile for any brokers, registrations, settings   *)
(* and number of disturbances: whatever fails and changes while the tasks  *)
(* run, a broker never gets a second proxy, only orphans are deleted,      *)
(* registrations that are not proxies are left alone, and the platform can *)
(* log in to every proxy; and a round that nothing disturbs reconciles the *)
(* brokers.                                                                *)
(***************************************************************************)
EXTENDS BrokerReconcile, FiniteSetTheorems, TLAPS

Frame == <<phase, desired, existing, todo, index, loopVar, cursor, orphans, options>>

LEMMA NotNone == \A r \in Registration : r # None
  BY NoneAssumption

\* A step of b's task keeps the invariant if the task stays sound and the
\* platform does as the snapshot has it.
LEMMA TaskStepKeeps ==
  ASSUME CoreInv, TypeOK', NEW b \in Brokers, NEW t \in Task,
         task' = [task EXCEPT ![b] = t], UNCHANGED Frame,
         task[b].at # "ended", Sound(b, t),
         t.at = "read" => task[b].at = "read",
         \A g \in Guids : existing[g] # None /\ platform'[g] # None => platform'[g].broker = existing[g].broker,
         \A g \in Guids : IsProxy(existing[g]) => platform'[g] = None \/ IsProxy(platform'[g]),
         \A c \in Brokers : Undone(c)' => ProxiesOf(c, platform') \subseteq ProxiesOf(c, existing)
  PROVE  CoreInv'
<1>1. task \in [Brokers -> Task] /\ task'[b] = t /\ \A c \in Brokers \ {b} : task'[c] = task[c]
  BY DEF CoreInv, TypeOK
<1>2. InRound /\ InRound'
  BY DEF CoreInv, QuietInv, Running, InRound, Frame
<1>3. QuietInv'
  BY <1>2 DEF QuietInv
<1>4. SnapshotInv'
  BY <1>2 DEF CoreInv, SnapshotInv, Frame, IsProxy
<1>5. IndexInv'
  BY <1>1 DEF CoreInv, IndexInv, Frame, ProxiesOf, IsProxy
<1>6. \A c \in Brokers : Sound(c, task'[c])
  BY <1>1 DEF CoreInv, TaskInv
<1>7. \A c \in Brokers : Sound(c, task[c])'
  BY <1>6 DEF Sound, Frame, ProxiesOf, IsProxy, KeyMatches
<1>8. TaskInv'
  BY <1>2, <1>7 DEF TaskInv, Frame, ProxiesOf, IsProxy
<1>9. LoopInv'
  BY <1>1 DEF CoreInv, LoopInv, Frame
<1> QED
  BY <1>3, <1>4, <1>5, <1>8, <1>9 DEF CoreInv

\* ... in particular if the platform stays as it is.
LEMMA QuietStepKeeps ==
  ASSUME CoreInv, TypeOK', NEW b \in Brokers, NEW t \in Task,
         task' = [task EXCEPT ![b] = t], UNCHANGED Frame, UNCHANGED platform,
         task[b].at # "ended", Sound(b, t),
         t.at = "read" => task[b].at = "read",
         t.at = "ended" \/ t.at = "activate" \/ t.op \in {"fetch", "delete"} \/
           (t.op = task[b].op /\ task[b].at \in {"put", "call"})
  PROVE  CoreInv'
<1>1. task \in [Brokers -> Task] /\ task'[b] = t /\ \A c \in Brokers \ {b} : task'[c] = task[c]
  BY DEF CoreInv, TypeOK
<1>2. InRound
  BY DEF CoreInv, QuietInv, Running, InRound
<1>3. \A c \in Brokers : Undone(c)' => Undone(c)
  BY <1>1 DEF Undone, Frame
<1>4. \A c \in Brokers : Undone(c)' => ProxiesOf(c, platform') \subseteq ProxiesOf(c, existing)
  BY <1>2, <1>3 DEF CoreInv, TaskInv
<1>5. /\ \A g \in Guids : existing[g] # None /\ platform'[g] # None => platform'[g].broker = existing[g].broker
      /\ \A g \in Guids : IsProxy(existing[g]) => platform'[g] = None \/ IsProxy(platform'[g])
  BY <1>2 DEF CoreInv, SnapshotInv
<1> QED
  BY <1>4, <1>5, TaskStepKeeps

-----------------------------------------------------------------------------
(* Steps of a task that leave the platform alone.                          *)

\* SM's store stays a store of credentials.
LEMMA StoredType ==
  ASSUME TypeOK, NEW b \in Brokers, PutAccepted(b), Stored(b)
  PROVE  creds' \in [Brokers -> Credentials] /\ Fresh(b) \in Issued
<1>1. Fresh(b) \in Issued
  BY DEF PutAccepted, Fresh
<1>2. creds[b] \in Credentials
  BY DEF TypeOK
<1>3. [current |-> Fresh(b),
       old |-> IF creds[b].active THEN creds[b].current ELSE creds[b].old,
       active |-> FALSE] \in Credentials
  BY <1>1, <1>2 DEF Credentials
<1> QED
  BY <1>1, <1>3 DEF Stored, TypeOK

LEMMA ActivatedType ==
  ASSUME TypeOK, NEW b \in Brokers, Activated(b)
  PROVE  creds' \in [Brokers -> Credentials]
<1>1. creds[b] \in Credentials
  BY DEF TypeOK
<1>2. [creds[b] EXCEPT !.active = TRUE, !.old = None] \in Credentials
  BY <1>1 DEF Credentials
<1> QED
  BY <1>2 DEF Activated, TypeOK

LEMMA SuccInterval == ASSUME NEW m \in Nat, NEW n \in 0..m, n < m PROVE n + 1 \in 0..m
  OBVIOUS

LEMMA DisturbanceType == ASSUME TypeOK, Disturbance
                         PROVE disturbances' \in 0..MaxDisturbances /\ clean' \in BOOLEAN
<1>1. disturbances \in 0..MaxDisturbances /\ disturbances < MaxDisturbances /\ MaxDisturbances \in Nat
  BY BoundsAssumption DEF TypeOK, Disturbance
<1>2. disturbances + 1 \in 0..MaxDisturbances
  BY <1>1, SuccInterval
<1> QED
  BY <1>2, Zenon DEF Disturbance

\* What a step of b's task leaves of the types.
LEMMA AdvanceType ==
  ASSUME TypeOK, NEW b \in Brokers, NEW t \in Task, Advance(b, t),
         task[b].at # "ended" \/ b \notin todo,
         platform' \in [Guids -> Registration \cup {None}],
         creds' \in [Brokers -> Credentials],
         disturbances' \in 0..MaxDisturbances, clean' \in BOOLEAN
  PROVE  TypeOK'
<1>1. task' \in [Brokers -> Task]
  BY DEF Advance, TypeOK
<1> QED
  BY <1>1 DEF Advance, TypeOK, process

LEMMA NoTaskOK == NoTask \in Task /\ NoTask.at = "ended" /\ NoTask.op = "none" /\ \A b \in Brokers : Sound(b, NoTask)
  BY DEF NoTask, Task, Sound

LEMMA TaskType == ASSUME CoreInv, NEW b \in Brokers
                  PROVE /\ task[b] \in Task /\ Sound(b, task[b])
                        /\ b \in todo => task[b].at = "ended"
                        /\ platform \in [Guids -> Registration \cup {None}]
                        /\ creds \in [Brokers -> Credentials]
                        /\ disturbances \in 0..MaxDisturbances /\ clean \in BOOLEAN
  BY DEF CoreInv, TypeOK, TaskInv, IndexInv

\* A task that ends without having done anything at the platform.
LEMMA EndKeeps ==
  ASSUME CoreInv, NEW b \in Brokers, Advance(b, NoTask), UNCHANGED platform, task[b].at # "ended",
         creds' \in [Brokers -> Credentials],
         disturbances' \in 0..MaxDisturbances, clean' \in BOOLEAN
  PROVE  CoreInv'
<1>1. TypeOK'
  BY AdvanceType, TaskType, NoTaskOK DEF CoreInv
<1> QED
  BY <1>1, NoTaskOK, QuietStepKeeps DEF Advance, Frame, process

LEMMA PutKeeps == ASSUME CoreInv, NEW b \in Brokers, Put(b) PROVE CoreInv'
<1> DEFINE t == [task[b] EXCEPT !.at = "call", !.cred = Fresh(b)]
<1>1. creds' \in [Brokers -> Credentials] /\ Fresh(b) \in Issued
  BY StoredType DEF Put, CoreInv
<1>2. t \in Task /\ t.at = "call" /\ t.op = task[b].op /\ t.guid = task[b].guid /\ t.cred = Fresh(b)
  BY <1>1, TaskType DEF Task
<1>3. Fresh(b) # None
  BY <1>1, NoneAssumption
<1>4. Sound(b, t)
  BY <1>2, <1>3, TaskType DEF Sound, Put
<1>5. TypeOK'
  BY <1>1, <1>2, AdvanceType, TaskType DEF Put, CoreInv
<1> HIDE DEF t
<1> QED
  BY <1>2, <1>4, <1>5, QuietStepKeeps DEF Put, Advance, Frame, process, t

LEMMA PutConflictsKeeps == ASSUME CoreInv, NEW b \in Brokers, PutConflicts(b) PROVE CoreInv'
<1> DEFINE t == [task[b] EXCEPT !.at = "call"]
<1>1. t \in Task /\ t.at = "call" /\ t.op = task[b].op /\ t.guid = task[b].guid /\ t.cred = task[b].cred
  BY TaskType DEF Task
<1>2. Sound(b, t)
  BY <1>1, TaskType DEF Sound, PutConflicts
<1>3. TypeOK'
  BY <1>1, AdvanceType, TaskType DEF PutConflicts, CoreInv
<1> HIDE DEF t
<1> QED
  BY <1>1, <1>2, <1>3, QuietStepKeeps DEF PutConflicts, Advance, Frame, process, t

LEMMA ReadArgumentKeeps == ASSUME CoreInv, NEW b \in Brokers, ReadArgument(b) PROVE CoreInv'
<1> DEFINE t == [task[b] EXCEPT !.at = "call", !.guid = loopVar]
<1>1. loopVar \in orphans /\ task[b].op = "delete"
  BY DEF CoreInv, IndexInv, TaskInv, Sound, ReadArgument
<1>2. t \in Task /\ t.at = "call" /\ t.op = "delete" /\ t.guid = loopVar
  BY <1>1, TaskType DEF Task, CoreInv, TypeOK
<1>3. Sound(b, t)
  BY <1>1, <1>2 DEF Sound
<1>4. TypeOK'
  BY <1>2, AdvanceType, TaskType DEF ReadArgument, CoreInv
<1> HIDE DEF t
<1> QED
  BY <1>2, <1>3, <1>4, QuietStepKeeps DEF ReadArgument, Advance, Frame, process, t

LEMMA EndingsKeep ==
  ASSUME CoreInv, NEW b \in Brokers,
         PutFails(b) \/ CallRefused(b) \/ Activate(b) \/ ActivateFails(b)
  PROVE  CoreInv'
<1>1. CASE PutFails(b)
  BY <1>1, StoredType, DisturbanceType, TaskType, EndKeeps DEF PutFails, CoreInv
<1>2. CASE CallRefused(b)
  BY <1>2, TaskType, EndKeeps DEF CallRefused
<1>3. CASE Activate(b)
  BY <1>3, ActivatedType, TaskType, EndKeeps DEF Activate, CoreInv
<1>4. CASE ActivateFails(b)
  BY <1>4, ActivatedType, DisturbanceType, TaskType, EndKeeps DEF ActivateFails, CoreInv
<1> QED
  BY <1>1, <1>2, <1>3, <1>4

-----------------------------------------------------------------------------
(* Calls to the platform.                                                  *)

LEMMA NewGuidFree == ASSUME FreeGuids # {}
                     PROVE  NewGuid \in Guids /\ platform[NewGuid] = None /\ existing[NewGuid] = None
  BY DEF FreeGuids, NewGuid

\* What a call of b's task does to the platform: one registration changes, and
\* how that happened.
Effect(b) ==
    \E g \in Guids, r \in Registration \cup {None} :
        /\ platform' = [platform EXCEPT ![g] = r]
        /\ \/ /\ task[b].op = "create"
              /\ platform[g] = None /\ existing[g] = None
              /\ r # None /\ r.kind = "proxy" /\ r.broker = b
           \/ /\ task[b].op = "update"
              /\ g = task[b].guid
              /\ platform[g] # None /\ platform[g].broker = b
              /\ r # None /\ r.kind = "proxy" /\ r.broker = b
           \/ /\ task[b].op = "fetch"
              /\ g = task[b].guid
              /\ platform[g] # None /\ r # None
              /\ r.kind = platform[g].kind /\ r.broker = platform[g].broker
           \/ /\ task[b].op = "delete"
              /\ g = task[b].guid
              /\ r = None

LEMMA RegisteredType ==
  ASSUME NEW b \in Brokers, NEW c \in Issued \cup {Default, Own}, desired[b] \in Names
  PROVE  /\ Registered(b, c) \in Registration
         /\ Registered(b, c).kind = "proxy"
         /\ Registered(b, c).broker = b
  BY DEF Registered, Registration

LEMMA CallEffect ==
  ASSUME CoreInv, NEW b \in Brokers, task[b].at = "call", ~TaskRefused(b), PlatformCall(b)
  PROVE  Effect(b)
<1>1. /\ task[b] \in Task /\ Sound(b, task[b])
      /\ platform \in [Guids -> Registration \cup {None}]
      /\ desired[b] \in Names \cup {None}
      /\ orphans \subseteq Guids
  BY TaskType DEF CoreInv, TypeOK
<1>2. task[b].op \in {"create", "update", "fetch", "delete"}
  BY <1>1 DEF Sound, Task
<1>3. CASE task[b].op = "create"
  <2>1. FreeGuids # {} /\ platform' = [platform EXCEPT ![NewGuid] = Registered(b, task[b].cred)]
    BY <1>3 DEF PlatformCall
  <2>2. task[b].cred \in Issued \cup {Default, Own} /\ desired[b] \in Names
    BY <1>1, <1>3 DEF Sound, Task
  <2>3. /\ Registered(b, task[b].cred) \in Registration
        /\ Registered(b, task[b].cred).kind = "proxy"
        /\ Registered(b, task[b].cred).broker = b
        /\ Registered(b, task[b].cred) # None
    BY <2>2, RegisteredType, NotNone
  <2> QED
    BY <1>3, <2>1, <2>3, NewGuidFree DEF Effect
<1>4. ASSUME task[b].op \in {"update", "fetch", "delete"}
      PROVE  task[b].guid \in Guids /\ platform[task[b].guid] # None
  <2>1. task[b].guid \in Guids
    BY <1>1, <1>4 DEF Sound, ProxiesOf, KeyMatches
  <2> QED
    BY <1>4, <2>1 DEF TaskRefused, Refused
<1> DEFINE cred == IF task[b].cred = None THEN platform[task[b].guid].cred ELSE task[b].cred
<1>5. ASSUME task[b].op \in {"update", "fetch"} PROVE cred \in Issued \cup {Default, Own}
  <2>1. platform[task[b].guid] \in Registration
    BY <1>1, <1>4, <1>5
  <2>2. platform[task[b].guid].cred \in Issued \cup {Default, Own}
    BY <2>1 DEF Registration
  <2>3. task[b].cred \in Issued \cup {Default, None}
    BY <1>1 DEF Task
  <2> QED
    BY <2>2, <2>3
<1>6. CASE task[b].op = "update"
  <2>1. platform' = [platform EXCEPT ![task[b].guid] = Registered(b, cred)]
    BY <1>6 DEF PlatformCall
  <2>2. desired[b] \in Names
    BY <1>1, <1>6 DEF Sound
  <2> HIDE DEF cred
  <2>3. /\ Registered(b, cred) \in Registration
        /\ Registered(b, cred).kind = "proxy"
        /\ Registered(b, cred).broker = b
        /\ Registered(b, cred) # None
    BY <1>5, <1>6, <2>2, RegisteredType, NotNone
  <2>4. platform[task[b].guid].broker = b
    BY <1>1, <1>4, <1>6 DEF Sound, CoreInv, SnapshotInv, ProxiesOf, KeyMatches, IsProxy
  <2> QED
    BY <1>4, <1>6, <2>1, <2>3, <2>4 DEF Effect
<1>7. CASE task[b].op = "fetch"
  <2> DEFINE r == [platform[task[b].guid] EXCEPT !.cred = cred]
  <2>1. platform' = [platform EXCEPT ![task[b].guid] = r]
    BY <1>4, <1>7 DEF PlatformCall
  <2>2. platform[task[b].guid] \in Registration
    BY <1>1, <1>4, <1>7
  <2> HIDE DEF cred
  <2>3. r \in Registration /\ r.kind = platform[task[b].guid].kind /\ r.broker = platform[task[b].guid].broker
    BY <1>5, <1>7, <2>2 DEF Registration
  <2>4. r # None
    BY <2>3, NotNone
  <2> HIDE DEF r
  <2> QED
    BY <1>4, <1>7, <2>1, <2>3, <2>4 DEF Effect
<1>8. CASE task[b].op = "delete"
  <2>1. platform' = [platform EXCEPT ![task[b].guid] = None]
    BY <1>8 DEF PlatformCall
  <2> QED
    BY <1>4, <1>8, <2>1 DEF Effect
<1> QED
  BY <1>2, <1>3, <1>6, <1>7, <1>8

\* A call keeps the platform as the snapshot, b's task and the others' have it.
LEMMA EffectKeeps ==
  ASSUME CoreInv, NEW b \in Brokers, task[b].at = "call", Effect(b), UNCHANGED <<existing, orphans>>
  PROVE  /\ platform' \in [Guids -> Registration \cup {None}]
         /\ \A g \in Guids : existing[g] # None /\ platform'[g] # None => platform'[g].broker = existing[g].broker
         /\ \A g \in Guids : IsProxy(existing[g]) => platform'[g] = None \/ IsProxy(platform'[g])
         /\ \A c \in Brokers \ {b} : ProxiesOf(c, platform') \subseteq ProxiesOf(c, platform)
<1>1. PICK g \in Guids, r \in Registration \cup {None} :
        /\ platform' = [platform EXCEPT ![g] = r]
        /\ \/ /\ task[b].op = "create"
              /\ platform[g] = None /\ existing[g] = None
              /\ r # None /\ r.kind = "proxy" /\ r.broker = b
           \/ /\ task[b].op = "update"
              /\ g = task[b].guid
              /\ platform[g] # None /\ platform[g].broker = b
              /\ r # None /\ r.kind = "proxy" /\ r.broker = b
           \/ /\ task[b].op = "fetch"
              /\ g = task[b].guid
              /\ platform[g] # None /\ r # None
              /\ r.kind = platform[g].kind /\ r.broker = platform[g].broker
           \/ /\ task[b].op = "delete"
              /\ g = task[b].guid
              /\ r = None
  BY DEF Effect
<1>2. platform \in [Guids -> Registration \cup {None}] /\ Sound(b, task[b])
  BY TaskType
<1>3. /\ platform'[g] = r
      /\ \A h \in Guids \ {g} : platform'[h] = platform[h]
      /\ platform' \in [Guids -> Registration \cup {None}]
  BY <1>1, <1>2
<1>4. InRound
  BY DEF CoreInv, QuietInv, Running
<1>5. /\ \A h \in Guids : IsProxy(existing[h]) => platform[h] = None \/ IsProxy(platform[h])
      /\ \A h \in Guids : existing[h] # None /\ platform[h] # None => platform[h].broker = existing[h].broker
  BY <1>4 DEF CoreInv, SnapshotInv
<1>6. \A h \in Guids : IsProxy(existing[h]) => platform'[h] = None \/ IsProxy(platform'[h])
  BY <1>1, <1>3, <1>5 DEF IsProxy
<1>7. \A c \in Brokers \ {b} : ProxiesOf(c, platform') \subseteq ProxiesOf(c, platform)
  BY <1>1, <1>3 DEF ProxiesOf, IsProxy
<1>8. \A h \in Guids : existing[h] # None /\ platform'[h] # None => platform'[h].broker = existing[h].broker
  BY <1>1, <1>3, <1>5
<1> QED
  BY <1>3, <1>6, <1>7, <1>8

LEMMA CallSucceedsKeeps == ASSUME CoreInv, NEW b \in Brokers, CallSucceeds(b) PROVE CoreInv'
<1> DEFINE t == IF options.credentials /\ task[b].cred # None
                  THEN [task[b] EXCEPT !.at = "activate"] ELSE NoTask
<1>1. t \in Task /\ t.at \in {"activate", "ended"} /\ Sound(b, t)
  BY TaskType, NoTaskOK DEF Task, Sound
<1> HIDE DEF t
<1>2. Advance(b, t) /\ UNCHANGED <<existing, orphans>>
  BY DEF CallSucceeds, Advance, t
<1>3. Effect(b)
  BY CallEffect DEF CallSucceeds
<1>4. /\ platform' \in [Guids -> Registration \cup {None}]
      /\ \A g \in Guids : existing[g] # None /\ platform'[g] # None => platform'[g].broker = existing[g].broker
      /\ \A g \in Guids : IsProxy(existing[g]) => platform'[g] = None \/ IsProxy(platform'[g])
      /\ \A c \in Brokers \ {b} : ProxiesOf(c, platform') \subseteq ProxiesOf(c, platform)
  BY <1>2, <1>3, EffectKeeps DEF CallSucceeds
<1>5. TypeOK'
  BY <1>1, <1>2, <1>4, AdvanceType, TaskType DEF CallSucceeds, CoreInv
<1>6. \A c \in Brokers : Undone(c)' => c # b /\ Undone(c)
  <2>1. task'[b] = t /\ todo' = todo /\ b \notin todo /\ \A c \in Brokers \ {b} : task'[c] = task[c]
    BY <1>2, TaskType DEF Advance, CallSucceeds, CoreInv, TypeOK
  <2> QED
    BY <1>1, <2>1 DEF Undone
<1>7. \A c \in Brokers : Undone(c)' => ProxiesOf(c, platform') \subseteq ProxiesOf(c, existing)
  BY <1>4, <1>6 DEF CoreInv, TaskInv, QuietInv, Running, CallSucceeds
<1> QED
  BY <1>1, <1>2, <1>4, <1>5, <1>7, TaskStepKeeps DEF Advance, Frame, process, CallSucceeds

LEMMA CallFailsKeeps == ASSUME CoreInv, NEW b \in Brokers, CallFails(b) PROVE CoreInv'
<1>1. CASE UNCHANGED platform
  BY <1>1, DisturbanceType, TaskType, EndKeeps DEF CallFails, CoreInv
<1>2. CASE PlatformCall(b)
  <2>1. Advance(b, NoTask) /\ UNCHANGED <<existing, orphans>>
    BY DEF CallFails, Advance
  <2>2. Effect(b)
    BY <1>2, CallEffect DEF CallFails
  <2>3. /\ platform' \in [Guids -> Registration \cup {None}]
        /\ \A g \in Guids : existing[g] # None /\ platform'[g] # None => platform'[g].broker = existing[g].broker
        /\ \A g \in Guids : IsProxy(existing[g]) => platform'[g] = None \/ IsProxy(platform'[g])
        /\ \A c \in Brokers \ {b} : ProxiesOf(c, platform') \subseteq ProxiesOf(c, platform)
    BY <2>1, <2>2, EffectKeeps DEF CallFails
  <2>4. TypeOK'
    BY <2>1, <2>3, NoTaskOK, AdvanceType, TaskType, DisturbanceType DEF CallFails, CoreInv
  <2>5. \A c \in Brokers : Undone(c)' => c # b /\ Undone(c)
    <3>1. task'[b] = NoTask /\ todo' = todo /\ b \notin todo /\ \A c \in Brokers \ {b} : task'[c] = task[c]
      BY <2>1, TaskType DEF Advance, CallFails, CoreInv, TypeOK
    <3> QED
      BY NoTaskOK, <3>1 DEF Undone
  <2>6. \A c \in Brokers : Undone(c)' => ProxiesOf(c, platform') \subseteq ProxiesOf(c, existing)
    BY <2>3, <2>5 DEF CoreInv, TaskInv, QuietInv, Running, CallFails
  <2> QED
    BY <2>1, <2>3, <2>4, <2>6, NoTaskOK, TaskStepKeeps DEF Advance, Frame, process, CallFails
<1> QED
  BY <1>1, <1>2 DEF CallFails

-----------------------------------------------------------------------------
(* Users and the cancellation.                                             *)

LEMMA UserKeeps ==
  ASSUME CoreInv, TypeOK', UNCHANGED <<phase, desired, existing, todo, index, loopVar, cursor, task, orphans, options>>,
         \A g \in Guids : existing[g] # None /\ platform'[g] # None => platform'[g].broker = existing[g].broker,
         \A g \in Guids : IsProxy(existing[g]) => platform'[g] = None \/ IsProxy(platform'[g]),
         \A c \in Brokers : ProxiesOf(c, platform') \subseteq ProxiesOf(c, platform)
  PROVE  CoreInv'
<1>1. QuietInv' /\ IndexInv' /\ LoopInv'
  BY DEF CoreInv, QuietInv, IndexInv, LoopInv, InRound, Running, ProxiesOf, IsProxy
<1>2. SnapshotInv'
  BY DEF CoreInv, SnapshotInv, InRound, IsProxy
<1>3. \A c \in Brokers : Sound(c, task[c])'
  BY DEF CoreInv, TaskInv, Sound, ProxiesOf, KeyMatches, IsProxy
<1>4. \A c \in Brokers : (InRound /\ Undone(c))' => InRound /\ Undone(c)
  BY DEF InRound, Undone
<1>5. \A c \in Brokers : (InRound /\ Undone(c))' => ProxiesOf(c, platform') \subseteq ProxiesOf(c, existing)
  BY <1>4 DEF CoreInv, TaskInv
<1>6. TaskInv'
  BY <1>3, <1>5 DEF TaskInv, ProxiesOf
<1> QED
  BY <1>1, <1>2, <1>6 DEF CoreInv

\* One registration of the platform changes, and not into a proxy.
LEMMA OneRegistration ==
  ASSUME CoreInv, Changed, UNCHANGED sm,
         NEW g \in Guids, NEW r \in Registration \cup {None}, platform' = [platform EXCEPT ![g] = r],
         \/ r = None
         \/ platform[g] # None /\ r.kind = platform[g].kind /\ r.broker = platform[g].broker
         \/ ~IsProxy(r) /\ existing[g] = None
  PROVE  CoreInv'
<1>1. /\ platform'[g] = r
      /\ \A h \in Guids \ {g} : platform'[h] = platform[h]
      /\ platform' \in [Guids -> Registration \cup {None}]
  BY TaskType DEF CoreInv, TypeOK
<1>2. r = None \/ (IsProxy(r) => IsProxy(platform[g]) /\ r.broker = platform[g].broker)
  BY DEF IsProxy
<1>3. TypeOK'
  BY <1>1, DisturbanceType DEF Changed, CoreInv, TypeOK, process, round
<1>4. \A h \in Guids : existing[h] # None /\ platform'[h] # None => platform'[h].broker = existing[h].broker
  BY <1>1 DEF CoreInv, SnapshotInv
<1>5. \A c \in Brokers : ProxiesOf(c, platform') \subseteq ProxiesOf(c, platform)
  BY <1>1, <1>2 DEF ProxiesOf, IsProxy
<1>6. \A h \in Guids : IsProxy(existing[h]) => platform'[h] = None \/ IsProxy(platform'[h])
  BY <1>1 DEF CoreInv, SnapshotInv, QuietInv, IsProxy
<1> QED
  BY <1>3, <1>4, <1>5, <1>6, UserKeeps DEF Changed, process, round

LEMMA EnvironmentKeeps == ASSUME CoreInv, Environment PROVE CoreInv'
<1>1. CASE Cancel
  <2>1. TypeOK'
    BY <1>1, DisturbanceType DEF Cancel, CoreInv, TypeOK, round
  <2> QED
    BY <1>1, <2>1, UserKeeps DEF Cancel, round, CoreInv, SnapshotInv, QuietInv, IsProxy
<1>2. ASSUME NEW b \in Brokers, NEW n \in Names \cup {None}, SMChanges(b, n) PROVE CoreInv'
  <2>1. TypeOK'
    BY <1>2, DisturbanceType DEF SMChanges, Changed, CoreInv, TypeOK, process, round
  <2> QED
    BY <1>2, <2>1, UserKeeps DEF SMChanges, Changed, process, round, CoreInv, SnapshotInv, QuietInv, IsProxy
<1>3. ASSUME NEW b \in Brokers, NEW n \in Names, OperatorRegisters(b, n) PROVE CoreInv'
  <2> DEFINE r == [broker |-> b, kind |-> "original", name |-> n, cred |-> Own]
  <2>1. Cardinality(Brokers) \in Nat /\ Cardinality({}) = 0
    BY FiniteAssumption, FS_CardinalityType, FS_EmptySet
  <2>2. FreeGuids # {}
    BY <1>3, <2>1 DEF OperatorRegisters
  <2>3. NewGuid \in Guids /\ existing[NewGuid] = None
    BY <2>2, NewGuidFree
  <2>4. r \in Registration /\ ~IsProxy(r)
    BY DEF Registration, IsProxy
  <2>5. platform' = [platform EXCEPT ![NewGuid] = r] /\ Changed /\ UNCHANGED sm
    BY <1>3 DEF OperatorRegisters
  <2> HIDE DEF r
  <2> QED
    BY <2>3, <2>4, <2>5, OneRegistration
<1>4. ASSUME NEW g \in Guids, NEW n \in Names, OperatorRenames(g, n) PROVE CoreInv'
  <2> DEFINE r == [platform[g] EXCEPT !.name = n]
  <2>1. platform[g] \in Registration
    BY <1>4, TaskType DEF OperatorRenames, CoreInv, TypeOK
  <2>2. r \in Registration /\ r.kind = platform[g].kind /\ r.broker = platform[g].broker
    BY <2>1 DEF Registration
  <2>3. platform' = [platform EXCEPT ![g] = r] /\ Changed /\ UNCHANGED sm /\ platform[g] # None
    BY <1>4 DEF OperatorRenames
  <2> HIDE DEF r
  <2> QED
    BY <2>2, <2>3, OneRegistration
<1>5. ASSUME NEW g \in Guids, OperatorDeletes(g) PROVE CoreInv'
  BY <1>5, OneRegistration DEF OperatorDeletes
<1> QED
  BY <1>1, <1>2, <1>3, <1>4, <1>5 DEF Environment

-----------------------------------------------------------------------------
(* The round.                                                              *)

LEMMA FetchKeeps == ASSUME CoreInv, FetchSM \/ FetchFails PROVE CoreInv'
<1>1. CASE FetchSM
  <2>1. TypeOK'
    BY <1>1 DEF FetchSM, Wanted, CoreInv, TypeOK, external, process
  <2>2. todo = {} /\ Running = {}
    BY <1>1 DEF FetchSM, CoreInv, TypeOK, QuietInv, InRound
  <2>3. QuietInv' /\ SnapshotInv' /\ IndexInv' /\ LoopInv'
    BY <1>1, <2>2 DEF FetchSM, CoreInv, QuietInv, SnapshotInv, IndexInv, LoopInv, InRound, Running, IsProxy, external
  <2>4. TaskInv'
    BY <1>1, <2>2 DEF FetchSM, CoreInv, TaskInv, InRound, Running, Sound
  <2> QED
    BY <2>1, <2>3, <2>4 DEF CoreInv
<1>2. CASE FetchFails
  <2>1. TypeOK'
    BY <1>2, DisturbanceType DEF FetchFails, CoreInv, TypeOK, process
  <2>2. todo = {} /\ Running = {}
    BY <1>2 DEF FetchFails, CoreInv, TypeOK, QuietInv, InRound
  <2>3. QuietInv' /\ SnapshotInv' /\ IndexInv' /\ LoopInv'
    BY <1>2, <2>2 DEF FetchFails, CoreInv, QuietInv, SnapshotInv, IndexInv, LoopInv, InRound, Running, IsProxy
  <2>4. TaskInv'
    BY <1>2, <2>2 DEF FetchFails, CoreInv, TaskInv, InRound, Running, Sound
  <2> QED
    BY <2>1, <2>3, <2>4 DEF CoreInv
<1> QED
  BY <1>1, <1>2

LEMMA StartRoundKeeps == ASSUME CoreInv, StartRound PROVE CoreInv'
<1>1. /\ existing' = platform /\ platform' = platform /\ desired' = desired /\ options' = options
      /\ todo' = {b \in Brokers : desired[b] # None}
      /\ index' \in [Brokers -> Guids \cup {None}]
      /\ \A b \in Brokers : IF ProxiesOf(b, platform) = {} THEN index'[b] = None
                                                           ELSE index'[b] \in ProxiesOf(b, platform)
      /\ orphans' = {index'[b] : b \in {b \in Brokers : desired[b] = None}} \ {None}
      /\ task' = [b \in Brokers |-> NoTask]
      /\ loopVar' = loopVar /\ cursor' = cursor /\ phase' = "scheduling"
      /\ phase = "fetched"
  BY DEF StartRound, external, process
<1>2. loopVar = None /\ cursor = None
  BY <1>1 DEF CoreInv, TypeOK, QuietInv, InRound
<1>3. \A b \in Brokers : task'[b] = NoTask
  BY <1>1
<1>4. orphans' \subseteq Guids
  BY <1>1
<1>5. task' \in [Brokers -> Task]
  BY <1>1, NoTaskOK
<1>6. TypeOK'
  BY <1>1, <1>2, <1>4, <1>5 DEF StartRound, CoreInv, TypeOK, external, process
<1>7. \A b \in Brokers : index'[b] # None => index'[b] \in ProxiesOf(b, platform)
  BY <1>1
<1>8. \A g \in orphans' : IsProxy(existing'[g])
  BY <1>1, <1>7 DEF ProxiesOf
<1>9. QuietInv'
  BY <1>1 DEF QuietInv, InRound
<1>10. SnapshotInv'
  BY <1>1, <1>8 DEF CoreInv, SnapshotInv, IsProxy
<1>11. IndexInv'
  <2>1. \A b \in Brokers : index'[b] # None => IF b \in todo' THEN index'[b] \in ProxiesOf(b, existing') ELSE index'[b] \in orphans'
    BY <1>1, <1>7
  <2>2. \A b \in todo' : b \in Brokers /\ desired'[b] # None /\ task'[b].at = "ended"
                         /\ (index'[b] = None => ProxiesOf(b, existing') = {})
    <3>1. \A b \in Brokers : task'[b].at = "ended"
      BY <1>3, NoTaskOK
    <3>2. \A b \in Brokers : ProxiesOf(b, platform) # {} => index'[b] # None
      BY <1>1, NoneAssumption DEF ProxiesOf
    <3> QED
      BY <1>1, <3>1, <3>2
  <2>3. ~(cursor' # None \/ \E b \in Brokers : task'[b].at = "read")
    BY <1>1, <1>2, <1>3, NoTaskOK
  <2> QED
    BY <1>1, <1>2, <2>1, <2>2, <2>3 DEF IndexInv, ProxiesOf
<1>12. TaskInv'
  <2>1. \A b \in Brokers : Sound(b, task[b])'
    BY <1>3 DEF NoTask, Sound
  <2> QED
    BY <1>1, <2>1 DEF TaskInv, ProxiesOf
<1>13. LoopInv'
  BY <1>1, <1>2, <1>3, NoTaskOK DEF LoopInv
<1> QED
  BY <1>6, <1>9, <1>10, <1>11, <1>12, <1>13 DEF CoreInv

\* Steps of the loops: the snapshots, the platform and the orphans stay.
LEMMA LoopKeeps ==
  ASSUME CoreInv, TypeOK', UNCHANGED <<platform, desired, existing, orphans, options>>,
         InRound, InRound', IndexInv', LoopInv',
         \A b \in Brokers : Sound(b, task'[b]) /\ (Undone(b)' => Undone(b))
  PROVE  CoreInv'
<1>1. QuietInv' /\ SnapshotInv'
  BY DEF CoreInv, QuietInv, SnapshotInv, IsProxy
<1>2. \A b \in Brokers : Sound(b, task[b])'
  BY DEF Sound, ProxiesOf, KeyMatches, IsProxy
<1>3. TaskInv'
  BY <1>2 DEF CoreInv, TaskInv, ProxiesOf, IsProxy
<1> QED
  BY <1>1, <1>3 DEF CoreInv

LEMMA NewTaskShape ==
  ASSUME NEW op \in {"create", "update", "fetch"}, NEW g \in Guids \cup {None}
  PROVE  /\ NewTask(op, g) \in Task
         /\ NewTask(op, g).op = op /\ NewTask(op, g).guid = g
         /\ NewTask(op, g).at \in {"put", "call"}
         /\ NewTask(op, g).at = "call" => NewTask(op, g).cred # None
<1>1. Default # None
  BY NoneAssumption
<1> QED
  BY <1>1 DEF NewTask, FirstStep, Task

LEMMA TaskForSound ==
  ASSUME CoreInv, NEW b \in todo, NEW t \in TaskFor(b)
  PROVE  /\ t \in Task /\ Sound(b, t) /\ t.at # "read"
         /\ t = NoTask \/ t.at \in {"put", "call"}
<1>1. /\ b \in Brokers /\ desired[b] # None
      /\ index[b] \in Guids \cup {None}
      /\ index[b] = None => ProxiesOf(b, existing) = {}
      /\ index[b] # None => index[b] \in ProxiesOf(b, existing)
  BY DEF CoreInv, TypeOK, IndexInv
<1>3. CASE index[b] # None /\ t = NewTask("update", index[b])
  BY <1>1, <1>3, NewTaskShape DEF Sound
<1>4. CASE index[b] # None /\ t = NewTask("fetch", index[b])
  BY <1>1, <1>4, NewTaskShape DEF Sound
<1>5. CASE index[b] = None /\ t = NewTask("create", None)
  BY <1>1, <1>5, NewTaskShape DEF Sound
<1>6. ASSUME index[b] = None, options.takeover, NEW g \in KeyMatches(b, desired[b], existing), t = NewTask("update", g)
      PROVE  /\ t \in Task /\ Sound(b, t) /\ t.at # "read"
             /\ t = NoTask \/ t.at \in {"put", "call"}
  <2>1. g \in Guids
    BY <1>6 DEF KeyMatches
  <2> QED
    BY <1>1, <1>6, <2>1, NewTaskShape DEF Sound
<1>7. CASE t = NoTask
  BY <1>1, <1>7, NoTaskOK
<1> QED
  BY <1>3, <1>4, <1>5, <1>6, <1>7 DEF TaskFor

LEMMA ScheduleDesiredKeeps == ASSUME CoreInv, NEW b \in Brokers, ScheduleDesired(b) PROVE CoreInv'
<1>1. b \in todo /\ phase = "scheduling" /\ InRound
  BY DEF ScheduleDesired, InRound
<1>2. PICK t \in TaskFor(b) : task' = [task EXCEPT ![b] = t]
  BY DEF ScheduleDesired
<1>3. t \in Task /\ Sound(b, t) /\ t.at # "read" /\ (t = NoTask \/ t.at \in {"put", "call"})
  BY <1>1, TaskForSound
<1>4. task'[b] = t /\ task' \in [Brokers -> Task] /\ \A c \in Brokers \ {b} : task'[c] = task[c]
  BY <1>2, <1>3 DEF CoreInv, TypeOK
<1>5. /\ index' \in [Brokers -> Guids \cup {None}]
      /\ index'[b] = None /\ \A c \in Brokers \ {b} : index'[c] = index[c]
      /\ todo' = todo \ {b}
  BY DEF ScheduleDesired, CoreInv, TypeOK
<1>6. TypeOK'
  BY <1>1, <1>4, <1>5 DEF ScheduleDesired, CoreInv, TypeOK, external, process
<1>7. IndexInv'
  BY <1>3, <1>4, <1>5 DEF ScheduleDesired, external, process, CoreInv, IndexInv, ProxiesOf, IsProxy
<1>8. \A c \in Brokers : Sound(c, task'[c])
  BY <1>3, <1>4 DEF CoreInv, TaskInv
<1>9. \A c \in Brokers : Undone(c)' => Undone(c)
  BY <1>1, <1>4, <1>5 DEF Undone
<1>10. LoopInv'
  <2>1. cursor = None /\ cursor' = None /\ b # None
    BY <1>1, NoneAssumption DEF ScheduleDesired, CoreInv, TypeOK
  <2> QED
    BY <1>4, <1>5, <2>1, NoneAssumption DEF CoreInv, LoopInv
<1> QED
  BY <1>1, <1>6, <1>7, <1>8, <1>9, <1>10, LoopKeeps DEF ScheduleDesired, external, process, InRound

LEMMA IndexedKeep ==
  ASSUME CoreInv, NEW b \in Brokers, DesiredRejected(b) \/ NextOrphan(b)
  PROVE  CoreInv'
<1>1. TypeOK'
  <2>1. CASE DesiredRejected(b)
    BY <2>1 DEF DesiredRejected, CoreInv, TypeOK, external, process
  <2>2. CASE NextOrphan(b)
    <3>1. b # None
      BY NoneAssumption
    <3> QED
      BY <2>2, <3>1 DEF NextOrphan, CoreInv, TypeOK, external, process
  <2> QED
    BY <2>1, <2>2
<1>2. /\ UNCHANGED <<platform, desired, existing, orphans, options, task>>
      /\ InRound /\ InRound'
      /\ todo' \subseteq todo
  BY DEF DesiredRejected, NextOrphan, external, process, InRound
<1>3. IndexInv'
  <2>1. index \in [Brokers -> Guids \cup {None}] /\ IndexInv
    BY DEF CoreInv, TypeOK
  <2>2. CASE DesiredRejected(b)
    BY <2>1, <2>2 DEF DesiredRejected, external, process, IndexInv, ProxiesOf, IsProxy
  <2>3. CASE NextOrphan(b)
    <3>1. todo = {}
      BY <2>3 DEF NextOrphan, CoreInv, TypeOK
    <3>2. index[b] # None /\ index[b] \in orphans
      BY <2>1, <2>3, <3>1 DEF NextOrphan, IndexInv
    <3> QED
      BY <2>1, <2>3, <3>1, <3>2 DEF NextOrphan, external, process, IndexInv, ProxiesOf, IsProxy
  <2> QED
    BY <2>2, <2>3
<1>4. \A c \in Brokers : Sound(c, task'[c]) /\ (Undone(c)' => Undone(c))
  BY <1>2 DEF CoreInv, TaskInv, Undone
<1>5. LoopInv'
  BY <1>2 DEF DesiredRejected, NextOrphan, CoreInv, TypeOK, LoopInv
<1> QED
  BY <1>1, <1>2, <1>3, <1>4, <1>5, LoopKeeps

LEMMA LoopStepsKeep ==
  ASSUME CoreInv, DesiredDone \/ DeleteRejected \/ OrphansDone
  PROVE  CoreInv'
<1>1. TypeOK'
  <2>1. CASE DesiredDone
    BY <2>1 DEF DesiredDone, CoreInv, TypeOK, external, process
  <2>2. CASE DeleteRejected
    BY <2>2 DEF DeleteRejected, CoreInv, TypeOK, external, process
  <2>3. CASE OrphansDone
    BY <2>3 DEF OrphansDone, CoreInv, TypeOK, external, process
  <2> QED
    BY <2>1, <2>2, <2>3
<1>2. /\ UNCHANGED <<platform, desired, existing, orphans, options, task>>
      /\ InRound /\ InRound'
      /\ todo' \subseteq todo
  BY DEF DesiredDone, DeleteRejected, OrphansDone, external, process, InRound
<1>3. IndexInv'
  BY DEF CoreInv, TypeOK, DesiredDone, DeleteRejected, OrphansDone, external, process, IndexInv, ProxiesOf, IsProxy
<1>4. \A c \in Brokers : Sound(c, task'[c]) /\ (Undone(c)' => Undone(c))
  BY <1>2 DEF CoreInv, TaskInv, Undone
<1>5. LoopInv'
  BY <1>2, NoneAssumption DEF DesiredDone, DeleteRejected, OrphansDone, CoreInv, TypeOK, LoopInv
<1> QED
  BY <1>1, <1>2, <1>3, <1>4, <1>5, LoopKeeps

LEMMA ScheduleDeleteKeeps == ASSUME CoreInv, ScheduleDelete PROVE CoreInv'
<1> DEFINE t == [op |-> "delete", at |-> "read", guid |-> None, cred |-> None]
<1>1. t \in Task /\ t.at = "read" /\ t.op = "delete"
  BY DEF Task
<1>2. cursor \in Brokers /\ cursor # None
  BY DEF ScheduleDelete, CoreInv, TypeOK
<1>3. Sound(cursor, t)
  BY <1>1 DEF Sound
<1> HIDE DEF t
<1>4. /\ task' = [task EXCEPT ![cursor] = t]
      /\ task' \in [Brokers -> Task]
      /\ task'[cursor] = t /\ \A c \in Brokers \ {cursor} : task'[c] = task[c]
  BY <1>1, <1>2 DEF ScheduleDelete, CoreInv, TypeOK, t
<1>5. TypeOK'
  BY <1>4 DEF ScheduleDelete, CoreInv, TypeOK, external, process
<1>6. loopVar # None /\ todo = {}
  BY <1>2 DEF CoreInv, IndexInv, TypeOK, ScheduleDelete
<1>7. IndexInv'
  BY <1>6 DEF ScheduleDelete, external, process, CoreInv, IndexInv
<1>8. \A c \in Brokers : Sound(c, task'[c]) /\ (Undone(c)' => Undone(c))
  BY <1>1, <1>2, <1>3, <1>4 DEF CoreInv, TaskInv, Undone, ScheduleDelete
<1>9. LoopInv'
  BY <1>2, <1>4, NoneAssumption DEF ScheduleDelete, CoreInv, LoopInv
<1> QED
  BY <1>5, <1>7, <1>8, <1>9, LoopKeeps DEF ScheduleDelete, external, process, InRound

LEMMA AwaitReturnsKeeps == ASSUME CoreInv, AwaitReturns PROVE CoreInv'
<1>1. /\ todo = {} /\ Running = {} /\ cursor = None
      /\ \A b \in Brokers : index[b] = None /\ task[b].at = "ended" /\ Sound(b, task[b])
  BY DEF AwaitReturns, CoreInv, TypeOK, IndexInv, TaskInv, Running
<1>2. TypeOK'
  BY DEF AwaitReturns, CoreInv, TypeOK, external, process
<1>3. QuietInv'
  BY <1>1 DEF AwaitReturns, QuietInv, Running
<1>4. \A g \in Guids : ~IsProxy(existing'[g])
  BY DEF AwaitReturns, IsProxy
<1>5. SnapshotInv'
  BY <1>4 DEF AwaitReturns, external, CoreInv, SnapshotInv, IsProxy, InRound
<1>6. IndexInv'
  BY <1>1 DEF AwaitReturns, IndexInv
<1>7. TaskInv'
  BY <1>1 DEF AwaitReturns, TaskInv, Sound, InRound
<1>8. LoopInv'
  BY <1>1 DEF AwaitReturns, LoopInv
<1> QED
  BY <1>2, <1>3, <1>5, <1>6, <1>7, <1>8 DEF CoreInv

-----------------------------------------------------------------------------
LEMMA CoreStep == CoreInv /\ [Next]_vars => CoreInv'
<1> SUFFICES ASSUME CoreInv, [Next]_vars PROVE CoreInv'
  OBVIOUS
<1>1. CASE Environment
  BY <1>1, EnvironmentKeeps
<1>2. CASE RoundStep
  <2>1. ASSUME NEW b \in Brokers, ScheduleDesired(b) \/ NextOrphan(b) PROVE CoreInv'
    BY <2>1, ScheduleDesiredKeeps, IndexedKeep
  <2>2. CASE FetchSM \/ StartRound
    BY <2>2, FetchKeeps, StartRoundKeeps
  <2>3. CASE DesiredDone \/ OrphansDone
    BY <2>3, LoopStepsKeep
  <2>4. CASE ScheduleDelete \/ AwaitReturns
    BY <2>4, ScheduleDeleteKeeps, AwaitReturnsKeeps
  <2> QED
    BY <1>2, <2>1, <2>2, <2>3, <2>4 DEF RoundStep
<1>3. CASE Rejected
  <2>1. ASSUME NEW b \in Brokers, DesiredRejected(b) PROVE CoreInv'
    BY <2>1, IndexedKeep
  <2>2. CASE DeleteRejected
    BY <2>2, LoopStepsKeep
  <2> QED
    BY <1>3, <2>1, <2>2 DEF Rejected
<1>4. CASE FetchFails
  BY <1>4, FetchKeeps
<1>5. ASSUME NEW b \in Brokers, TaskStep(b) \/ Fault(b) PROVE CoreInv'
  BY <1>5, PutKeeps, PutConflictsKeeps, ReadArgumentKeeps, CallSucceedsKeeps, CallFailsKeeps, EndingsKeep
  DEF TaskStep, Fault
<1>6. CASE UNCHANGED vars
  <2>1. TypeOK'
    BY <1>6 DEF CoreInv, TypeOK, vars, external, process, round
  <2> QED
    BY <1>6, <2>1, UserKeeps DEF vars, external, process, round, CoreInv, SnapshotInv, QuietInv, IsProxy
<1> QED
  BY <1>1, <1>2, <1>3, <1>4, <1>5, <1>6 DEF Next

LEMMA CoreInit == Init => CoreInv
<1> SUFFICES ASSUME Init PROVE CoreInv
  OBVIOUS
<1>1. platform \in [Guids -> Registration \cup {None}]
  BY BoundsAssumption DEF Init
<1>2. \A b \in Brokers : creds[b] \in Credentials
  <2> SUFFICES ASSUME NEW b \in Brokers PROVE creds[b] \in Credentials
    OBVIOUS
  <2>1. IssuedFor(b, platform) # {} => (CHOOSE c \in IssuedFor(b, platform) : TRUE) \in Issued
    BY DEF IssuedFor
  <2> QED
    BY <2>1 DEF Init, Credentials, NoCredentials
<1>3. creds \in [Brokers -> Credentials]
  BY <1>2 DEF Init
<1>4. task \in [Brokers -> Task] /\ \A b \in Brokers : task[b] = NoTask
  BY NoTaskOK DEF Init
<1>5. TypeOK
  <2>1. 0 \in 0..MaxDisturbances
    BY BoundsAssumption
  <2> QED
    BY <1>1, <1>3, <1>4, <2>1 DEF Init, TypeOK
<1>6. QuietInv
  BY <1>4, NoTaskOK DEF Init, QuietInv, Running
<1>7. SnapshotInv
  BY DEF Init, SnapshotInv, InRound
<1>8. IndexInv
  BY <1>4, NoTaskOK DEF Init, IndexInv
<1>9. TaskInv
  BY <1>4, NoTaskOK DEF Init, TaskInv, InRound
<1>10. LoopInv
  BY <1>4, NoTaskOK DEF Init, LoopInv
<1> QED
  BY <1>5, <1>6, <1>7, <1>8, <1>9, <1>10 DEF CoreInv

-----------------------------------------------------------------------------
(* No step gives a broker a second proxy.                                  *)

Single(b, regs) == \A g, h \in ProxiesOf(b, regs) : g = h

LEMMA UniqueSingle ==
  ASSUME NEW regs \in [Guids -> Registration \cup {None}]
  PROVE  Unique(regs) <=> \A b \in Brokers : Single(b, regs)
<1>1. \A g \in Guids : IsProxy(regs[g]) => regs[g].broker \in Brokers
  BY DEF IsProxy, Registration
<1> QED
  BY <1>1 DEF Unique, Single, ProxiesOf

\* Not a call, although it may make a proxy of a registration that was none.
LEMMA EffectSpares ==
  ASSUME CoreInv, NEW b \in Brokers, task[b].at = "call", Effect(b),
         NEW c \in Brokers, Single(c, platform)
  PROVE  Single(c, platform')
<1>1. PICK g \in Guids, r \in Registration \cup {None} :
        /\ platform' = [platform EXCEPT ![g] = r]
        /\ \/ /\ task[b].op = "create"
              /\ platform[g] = None /\ existing[g] = None
              /\ r # None /\ r.kind = "proxy" /\ r.broker = b
           \/ /\ task[b].op = "update"
              /\ g = task[b].guid
              /\ platform[g] # None /\ platform[g].broker = b
              /\ r # None /\ r.kind = "proxy" /\ r.broker = b
           \/ /\ task[b].op = "fetch"
              /\ g = task[b].guid
              /\ platform[g] # None /\ r # None
              /\ r.kind = platform[g].kind /\ r.broker = platform[g].broker
           \/ /\ task[b].op = "delete"
              /\ g = task[b].guid
              /\ r = None
  BY DEF Effect
<1>2. platform \in [Guids -> Registration \cup {None}] /\ Sound(b, task[b])
  BY TaskType
<1>3. platform'[g] = r /\ \A h \in Guids \ {g} : platform'[h] = platform[h]
  BY <1>1, <1>2
<1>4. InRound /\ \A h \in Guids : IsProxy(existing[h]) => platform[h] = None \/ IsProxy(platform[h])
  BY DEF CoreInv, QuietInv, Running, InRound, SnapshotInv
<1>5. task[b].op \in {"create", "update"} => ProxiesOf(b, platform) \subseteq ProxiesOf(b, existing)
  BY <1>4 DEF CoreInv, TaskInv, Undone
<1>6. ProxiesOf(c, platform') \subseteq ProxiesOf(c, platform) \/ ProxiesOf(c, platform') \subseteq {g}
  <2>1. CASE c # b
    BY <1>1, <1>3, <2>1 DEF ProxiesOf, IsProxy
  <2>2. CASE task[b].op \in {"fetch", "delete"}
    BY <1>1, <1>3, <2>2 DEF ProxiesOf, IsProxy
  <2>3. CASE c = b /\ task[b].op \in {"create", "update"} /\ ProxiesOf(b, existing) = {}
    <3>1. ProxiesOf(b, platform) = {}
      BY <1>5, <2>3
    <3> QED
      BY <1>3, <2>3, <3>1 DEF ProxiesOf
  <2>4. CASE c = b /\ task[b].op = "update" /\ task[b].guid \in ProxiesOf(b, existing)
    <3>1. g \in ProxiesOf(b, platform)
      BY <1>1, <1>4, <2>4 DEF ProxiesOf
    <3> QED
      BY <1>3, <2>4, <3>1 DEF ProxiesOf
  <2> QED
    BY <1>1, <1>2, <2>1, <2>2, <2>3, <2>4 DEF Sound
<1> QED
  BY <1>6 DEF Single

\* Nor a user: names of registrations are unique, and none becomes a proxy.
LEMMA EnvironmentSpares ==
  ASSUME CoreInv, Environment, NEW c \in Brokers
  PROVE  ProxiesOf(c, platform') \subseteq ProxiesOf(c, platform)
<1>1. platform \in [Guids -> Registration \cup {None}]
  BY DEF CoreInv, TypeOK
<1>2. ASSUME UNCHANGED platform PROVE ProxiesOf(c, platform') \subseteq ProxiesOf(c, platform)
  BY <1>2 DEF ProxiesOf, IsProxy
<1>3. ASSUME NEW g \in Guids, NEW r, platform' = [platform EXCEPT ![g] = r],
             IsProxy(r) => IsProxy(platform[g]) /\ r.broker = platform[g].broker
      PROVE  ProxiesOf(c, platform') \subseteq ProxiesOf(c, platform)
  BY <1>1, <1>3 DEF ProxiesOf, IsProxy
<1>4. CASE Cancel
  BY <1>2, <1>4 DEF Cancel
<1>5. ASSUME NEW b \in Brokers, NEW n \in Names \cup {None}, SMChanges(b, n)
      PROVE  ProxiesOf(c, platform') \subseteq ProxiesOf(c, platform)
  BY <1>2, <1>5 DEF SMChanges
<1>6. ASSUME NEW b \in Brokers, NEW n \in Names, OperatorRegisters(b, n)
      PROVE  ProxiesOf(c, platform') \subseteq ProxiesOf(c, platform)
  <2> DEFINE r == [broker |-> b, kind |-> "original", name |-> n, cred |-> Own]
  <2>1. ~IsProxy(r)
    BY DEF IsProxy
  <2>2. platform' = [platform EXCEPT ![NewGuid] = r]
    BY <1>6 DEF OperatorRegisters
  <2> HIDE DEF r
  <2>3. \A h \in Guids : platform'[h] = platform[h] \/ ~IsProxy(platform'[h])
    BY <1>1, <2>1, <2>2
  <2> QED
    BY <2>3 DEF ProxiesOf
<1>7. ASSUME NEW g \in Guids, NEW n \in Names, OperatorRenames(g, n)
      PROVE  ProxiesOf(c, platform') \subseteq ProxiesOf(c, platform)
  <2> DEFINE r == [platform[g] EXCEPT !.name = n]
  <2>1. platform[g] \in Registration
    BY <1>1, <1>7 DEF OperatorRenames
  <2>2. r.kind = platform[g].kind /\ r.broker = platform[g].broker
    BY <2>1 DEF Registration
  <2>3. platform' = [platform EXCEPT ![g] = r] /\ platform[g] # None
    BY <1>7 DEF OperatorRenames
  <2> HIDE DEF r
  <2> QED
    BY <1>3, <2>2, <2>3 DEF IsProxy
<1>8. ASSUME NEW g \in Guids, OperatorDeletes(g)
      PROVE  ProxiesOf(c, platform') \subseteq ProxiesOf(c, platform)
  BY <1>3, <1>8 DEF OperatorDeletes, IsProxy
<1> QED
  BY <1>4, <1>5, <1>6, <1>7, <1>8 DEF Environment

\* Nothing else changes the registrations.
LEMMA NextSpares ==
  ASSUME CoreInv, [Next]_vars, NEW c \in Brokers, Single(c, platform)
  PROVE  Single(c, platform')
<1>1. CASE Environment
  BY <1>1, EnvironmentSpares DEF Single
<1>2. ASSUME UNCHANGED platform PROVE Single(c, platform')
  BY <1>2 DEF Single, ProxiesOf, IsProxy
<1>3. CASE RoundStep \/ Rejected \/ FetchFails \/ UNCHANGED vars
  BY <1>2, <1>3
  DEF RoundStep, FetchSM, StartRound, ScheduleDesired, NextOrphan, DesiredDone, ScheduleDelete, OrphansDone,
      AwaitReturns, Rejected, DeleteRejected, DesiredRejected, FetchFails, external, vars
<1>4. ASSUME NEW b \in Brokers, TaskStep(b) \/ Fault(b) PROVE Single(c, platform')
  <2>1. \/ UNCHANGED platform
        \/ task[b].at = "call" /\ ~TaskRefused(b) /\ PlatformCall(b)
    BY <1>4 DEF TaskStep, Fault, Put, PutConflicts, ReadArgument, CallSucceeds, CallRefused, Activate,
                PutFails, CallFails, ActivateFails
  <2> QED
    BY <1>2, <2>1, CallEffect, EffectSpares
<1> QED
  BY <1>1, <1>3, <1>4 DEF Next

\* The snapshot is taken of the platform.
LEMMA UniqueKeeps == CoreInv /\ UniqueInv /\ CoreInv' /\ [Next]_vars => UniqueInv'
<1> SUFFICES ASSUME CoreInv, UniqueInv, CoreInv', [Next]_vars PROVE UniqueInv'
  OBVIOUS
<1>1. Unique(platform')
  <2>1. /\ platform \in [Guids -> Registration \cup {None}]
        /\ platform' \in [Guids -> Registration \cup {None}]
    BY DEF CoreInv, TypeOK
  <2>2. \A c \in Brokers : Single(c, platform)
    BY <2>1, UniqueSingle DEF UniqueInv
  <2>3. \A c \in Brokers : Single(c, platform')
    BY <2>2, NextSpares
  <2> QED
    BY <2>1, <2>3, UniqueSingle
<1>2. existing' = existing \/ existing' = platform \/ \A g \in Guids : existing'[g] = None
  <2>1. CASE Environment
    BY <2>1 DEF Environment, Cancel, SMChanges, OperatorRegisters, OperatorRenames, OperatorDeletes, Changed, round
  <2>2. CASE RoundStep
    BY <2>2 DEF RoundStep, FetchSM, StartRound, ScheduleDesired, NextOrphan, DesiredDone, ScheduleDelete,
                OrphansDone, AwaitReturns
  <2>3. CASE Rejected \/ FetchFails \/ UNCHANGED vars
    BY <2>3 DEF Rejected, DeleteRejected, DesiredRejected, FetchFails, vars, round
  <2>4. ASSUME NEW b \in Brokers, TaskStep(b) \/ Fault(b) PROVE existing' = existing
    BY <2>4 DEF TaskStep, Fault, Put, PutConflicts, ReadArgument, CallSucceeds, CallRefused, Activate,
                PutFails, CallFails, ActivateFails, Advance
  <2> QED
    BY <2>1, <2>2, <2>3, <2>4 DEF Next
<1>3. Unique(existing')
  BY <1>2 DEF UniqueInv, Unique, IsProxy
<1> QED
  BY <1>1, <1>3 DEF UniqueInv, Unique, IsProxy

LEMMA NextKeeps == IInv /\ [Next]_vars => IInv'
  BY CoreStep, UniqueKeeps DEF IInv

LEMMA InitKeeps == Init => IInv
<1>1. Init => UniqueInv
  BY DEF Init, UniqueInv, Unique, IsProxy
<1> QED
  BY <1>1, CoreInit DEF IInv

LEMMA Invariant == Spec => []IInv
  BY InitKeeps, NextKeeps, PTL DEF Spec

-----------------------------------------------------------------------------
\* The state of a round keeps its types: in particular the map of orphans is
\* only walked, and a broker waits to be scheduled only, in the loop that does.
THEOREM ReconcileTypeCorrect == Spec => []TypeOK
<1>1. IInv => TypeOK
  BY DEF IInv, CoreInv
<1> QED
  BY <1>1, Invariant, PTL

\* Whatever fails or changes meanwhile, a broker never gets a second proxy.
THEOREM NoSecondProxy == Spec => []AtMostOneProxy
<1>1. IInv => AtMostOneProxy
  <2> SUFFICES ASSUME IInv, NEW b \in Brokers PROVE Cardinality(ProxiesOf(b, platform)) <= 1
    BY DEF AtMostOneProxy
  <2>1. CASE ProxiesOf(b, platform) = {}
    BY <2>1, FS_EmptySet
  <2>2. ASSUME NEW g \in ProxiesOf(b, platform) PROVE Cardinality(ProxiesOf(b, platform)) <= 1
    <3>1. ProxiesOf(b, platform) = {g}
      BY <2>2 DEF IInv, UniqueInv, Unique, ProxiesOf
    <3> QED
      BY <3>1, FS_Singleton
  <2> QED
    BY <2>1, <2>2
<1> QED
  BY <1>1, Invariant, PTL

-----------------------------------------------------------------------------
(* What the tasks do to registrations.                                     *)

\* Only the call of a task changes the platform and a task in one step.
LEMMA OnlyCalls ==
  ASSUME CoreInv, Next, task' # task, platform' # platform
  PROVE  \E b \in Brokers : task[b].at = "call" /\ Effect(b)
<1>1. ~Environment
  BY DEF Environment, Cancel, SMChanges, OperatorRegisters, OperatorRenames, OperatorDeletes, Changed, round
<1>2. ~RoundStep
  BY DEF RoundStep, FetchSM, StartRound, ScheduleDesired, NextOrphan, DesiredDone, ScheduleDelete,
         OrphansDone, AwaitReturns, external
<1>3. ~Rejected
  BY DEF Rejected, DeleteRejected, DesiredRejected, external
<1>4. ~FetchFails
  BY DEF FetchFails
<1>5. PICK b \in Brokers : TaskStep(b) \/ Fault(b)
  BY <1>1, <1>2, <1>3, <1>4 DEF Next
<1>6. CallSucceeds(b) \/ CallFails(b)
  BY <1>5 DEF TaskStep, Fault, Put, PutConflicts, ReadArgument, CallRefused, Activate, PutFails, ActivateFails
<1>7. task[b].at = "call" /\ ~TaskRefused(b) /\ PlatformCall(b)
  BY <1>6 DEF CallSucceeds, CallFails
<1> QED
  BY <1>7, CallEffect

\* A call deletes an orphan, or changes a proxy, or takes over a broker.
LEMMA CallsAllowed ==
  ASSUME CoreInv, NEW b \in Brokers, task[b].at = "call", Effect(b),
         NEW g \in Guids, platform[g] # None, platform'[g] # platform[g]
  PROVE  /\ platform'[g] = None => g \in orphans
         /\ ~IsProxy(platform[g]) => options.takeover /\ g \in KeyMatches(b, desired[b], existing)
<1>1. PICK h \in Guids, r \in Registration \cup {None} :
        /\ platform' = [platform EXCEPT ![h] = r]
        /\ \/ /\ task[b].op = "create"
              /\ platform[h] = None /\ existing[h] = None
              /\ r # None /\ r.kind = "proxy" /\ r.broker = b
           \/ /\ task[b].op = "update"
              /\ h = task[b].guid
              /\ platform[h] # None /\ platform[h].broker = b
              /\ r # None /\ r.kind = "proxy" /\ r.broker = b
           \/ /\ task[b].op = "fetch"
              /\ h = task[b].guid
              /\ platform[h] # None /\ r # None
              /\ r.kind = platform[h].kind /\ r.broker = platform[h].broker
           \/ /\ task[b].op = "delete"
              /\ h = task[b].guid
              /\ r = None
  BY DEF Effect
<1>2. platform \in [Guids -> Registration \cup {None}] /\ Sound(b, task[b])
  BY TaskType
<1>3. g = h /\ platform'[g] = r
  BY <1>1, <1>2
<1>4. InRound
  BY DEF CoreInv, QuietInv, Running, InRound
<1>5. \A k \in Guids : platform[k] # None /\ IsProxy(existing[k]) => IsProxy(platform[k])
  BY <1>4 DEF CoreInv, SnapshotInv, IsProxy
<1>6. \A k \in orphans : IsProxy(existing[k])
  BY <1>4 DEF CoreInv, SnapshotInv
<1>7. CASE task[b].op = "update"
  <2>1. \/ g \in ProxiesOf(b, existing)
        \/ options.takeover /\ g \in KeyMatches(b, desired[b], existing)
    BY <1>1, <1>2, <1>3, <1>7 DEF Sound
  <2> QED
    BY <1>1, <1>3, <1>5, <1>7, <2>1 DEF ProxiesOf
<1>8. CASE task[b].op = "fetch"
  <2>1. g \in ProxiesOf(b, existing)
    BY <1>1, <1>2, <1>3, <1>8 DEF Sound
  <2> QED
    BY <1>1, <1>3, <1>5, <1>8, <2>1 DEF ProxiesOf
<1>9. CASE task[b].op = "delete"
  <2>1. g \in orphans
    BY <1>1, <1>2, <1>3, <1>9 DEF Sound
  <2> QED
    BY <1>5, <1>6, <2>1
<1> QED
  BY <1>1, <1>3, <1>7, <1>8, <1>9

\* The tasks delete nothing but proxies that were left over when the round
\* began, although all delete tasks read one variable while the loop moves it.
THEOREM NothingElseDeleted == Spec => DeletesOnlyOrphans
<1> DEFINE A == task' # task =>
                  \A g \in Guids : (platform[g] # None /\ platform'[g] = None) => g \in orphans
<1>1. IInv /\ [Next]_vars => [A]_vars
  <2> SUFFICES ASSUME IInv, Next, task' # task, NEW g \in Guids, platform[g] # None, platform'[g] = None
               PROVE  g \in orphans
    OBVIOUS
  <2>1. PICK b \in Brokers : task[b].at = "call" /\ Effect(b)
    BY OnlyCalls DEF IInv
  <2> QED
    BY <2>1, CallsAllowed DEF IInv
<1> QED
  BY <1>1, Invariant, PTL DEF Spec, DeletesOnlyOrphans

\* The tasks leave registrations alone that are not proxies, unless brokers may
\* be taken over and the snapshot had the name and URL of SM's broker.
THEOREM ForeignLeftAlone == Spec => ForeignUntouched
<1> DEFINE A == task' # task =>
                  \A g \in Guids : (platform[g] # None /\ ~IsProxy(platform[g]) /\ platform'[g] # platform[g]) =>
                    /\ options.takeover
                    /\ \E b \in Brokers : g \in KeyMatches(b, desired[b], existing)
<1>1. IInv /\ [Next]_vars => [A]_vars
  <2> SUFFICES ASSUME IInv, Next, task' # task, NEW g \in Guids, platform[g] # None,
                      ~IsProxy(platform[g]), platform'[g] # platform[g]
               PROVE  /\ options.takeover
                      /\ \E b \in Brokers : g \in KeyMatches(b, desired[b], existing)
    OBVIOUS
  <2>1. PICK b \in Brokers : task[b].at = "call" /\ Effect(b)
    BY OnlyCalls DEF IInv
  <2> QED
    BY <2>1, CallsAllowed DEF IInv
<1> QED
  BY <1>1, Invariant, PTL DEF Spec, ForeignUntouched

-----------------------------------------------------------------------------
(* Credentials.                                                            *)

\* The proxy that a task is to change is the only one.
LEMMA UpdateAlone ==
  ASSUME IInv, NEW b \in Brokers, task[b].at = "call", task[b].op = "update"
  PROVE  ProxiesOf(b, existing) \subseteq {task[b].guid}
<1>1. Sound(b, task[b])
  BY TaskType DEF IInv
<1> QED
  BY <1>1 DEF IInv, UniqueInv, Unique, Sound, ProxiesOf

\* What a call of b's task does, in more detail: an orphan is deleted, or a
\* registration of b, or a free ID, becomes or stays its only proxy.
Reshaped(b, g, r) ==
    \/ /\ task[b].op = "delete"
       /\ r = None /\ g \in orphans
    \/ /\ task[b].op # "delete"
       /\ r # None /\ IsProxy(r) /\ r.broker = b
       /\ platform[g] # None => platform[g].broker = b
       /\ existing[g] # None => platform[g] # None /\ existing[g].broker = b
       /\ ProxiesOf(b, platform) \subseteq {g}
       /\ IF task[b].cred = None THEN platform[g] # None /\ r.cred = platform[g].cred ELSE r.cred = task[b].cred
       /\ \/ task[b].op \in {"create", "update"} /\ r.kind = "proxy" /\ r.name = desired[b]
          \/ task[b].op = "fetch" /\ IsProxy(platform[g]) /\ r.kind = platform[g].kind /\ r.name = platform[g].name

LEMMA CallReshapes ==
  ASSUME IInv, NEW b \in Brokers, task[b].at = "call", ~TaskRefused(b), PlatformCall(b)
  PROVE  \E g \in Guids, r \in Registration \cup {None} :
           platform' = [platform EXCEPT ![g] = r] /\ Reshaped(b, g, r)
<1>1. /\ task[b] \in Task /\ Sound(b, task[b])
      /\ platform \in [Guids -> Registration \cup {None}]
      /\ desired[b] \in Names \cup {None}
  BY TaskType DEF IInv, CoreInv, TypeOK
<1>2. InRound /\ Unique(platform) /\ \A g \in Guids : IsProxy(existing[g]) => platform[g] = None \/ IsProxy(platform[g])
  BY DEF IInv, CoreInv, UniqueInv, QuietInv, Running, InRound, SnapshotInv
<1>3. task[b].op \in {"create", "update", "fetch", "delete"}
  BY <1>1 DEF Sound, Task
<1>4. task[b].op \in {"create", "update"} => ProxiesOf(b, platform) \subseteq ProxiesOf(b, existing)
  BY <1>2 DEF IInv, CoreInv, TaskInv, Undone
<1>5. CASE task[b].op = "create"
  <2>1. FreeGuids # {} /\ platform' = [platform EXCEPT ![NewGuid] = Registered(b, task[b].cred)]
    BY <1>5 DEF PlatformCall
  <2>2. task[b].cred \in Issued \cup {Default, Own} /\ task[b].cred # None /\ desired[b] \in Names
    BY <1>1, <1>5 DEF Sound, Task
  <2>3. /\ Registered(b, task[b].cred) \in Registration
        /\ Registered(b, task[b].cred) # None /\ IsProxy(Registered(b, task[b].cred))
        /\ Registered(b, task[b].cred).broker = b /\ Registered(b, task[b].cred).cred = task[b].cred
    BY <2>2, RegisteredType, NotNone DEF IsProxy, Registered
  <2>4. ProxiesOf(b, platform) = {}
    BY <1>1, <1>4, <1>5 DEF Sound
  <2>5. Registered(b, task[b].cred).kind = "proxy" /\ Registered(b, task[b].cred).name = desired[b]
    BY DEF Registered
  <2> QED
    BY <1>1, <1>5, <2>1, <2>2, <2>3, <2>4, <2>5, NewGuidFree DEF Reshaped
<1> DEFINE h == task[b].guid
           cred == IF task[b].cred = None THEN platform[h].cred ELSE task[b].cred
<1>6. ASSUME task[b].op \in {"update", "fetch", "delete"}
      PROVE  h \in Guids /\ platform[h] # None /\ platform[h] \in Registration
  <2>1. h \in Guids
    BY <1>1, <1>6 DEF Sound, ProxiesOf, KeyMatches, IInv, CoreInv, TypeOK
  <2> QED
    BY <1>1, <1>6, <2>1 DEF TaskRefused, Refused
<1>7. ASSUME task[b].op \in {"update", "fetch"}
      PROVE  /\ existing[h] # None /\ existing[h].broker = b /\ platform[h].broker = b
             /\ ProxiesOf(b, platform) \subseteq {h}
             /\ cred \in Issued \cup {Default, Own}
  <2>1. existing[h] # None /\ existing[h].broker = b
    BY <1>1, <1>7 DEF Sound, ProxiesOf, KeyMatches, IsProxy
  <2>2. platform[h].broker = b
    BY <1>6, <1>7, <2>1 DEF IInv, CoreInv, SnapshotInv
  <2>3. ProxiesOf(b, platform) \subseteq {h}
    <3>1. CASE task[b].op = "update"
      BY <1>4, <3>1, UpdateAlone
    <3>2. CASE task[b].op = "fetch"
      <4>1. IsProxy(platform[h]) /\ platform[h].broker = b
        BY <1>1, <1>2, <1>6, <2>2, <3>2 DEF Sound, ProxiesOf
      <4> QED
        BY <1>2, <1>6, <4>1, <3>2 DEF Unique, ProxiesOf
    <3> QED
      BY <1>7, <3>1, <3>2
  <2>4. platform[h].cred \in Issued \cup {Default, Own}
    BY <1>6, <1>7 DEF Registration
  <2>5. task[b].cred \in Issued \cup {Default, None}
    BY <1>1 DEF Task
  <2> QED
    BY <1>1, <2>1, <2>2, <2>3, <2>4, <2>5
<1>8. CASE task[b].op = "update"
  <2>1. platform' = [platform EXCEPT ![h] = Registered(b, cred)]
    BY <1>8 DEF PlatformCall
  <2>2. desired[b] \in Names
    BY <1>1, <1>8 DEF Sound
  <2>3. IF task[b].cred = None THEN cred = platform[h].cred ELSE cred = task[b].cred
    OBVIOUS
  <2> HIDE DEF cred
  <2>4. /\ Registered(b, cred) \in Registration
        /\ Registered(b, cred) # None /\ IsProxy(Registered(b, cred))
        /\ Registered(b, cred).broker = b /\ Registered(b, cred).cred = cred
        /\ Registered(b, cred).kind = "proxy" /\ Registered(b, cred).name = desired[b]
    BY <1>7, <1>8, <2>2, RegisteredType, NotNone DEF IsProxy, Registered
  <2> QED
    BY <1>6, <1>7, <1>8, <2>1, <2>3, <2>4 DEF Reshaped
<1>9. CASE task[b].op = "fetch"
  <2> DEFINE r == [platform[h] EXCEPT !.cred = cred]
  <2>1. platform' = [platform EXCEPT ![h] = r]
    BY <1>6, <1>9 DEF PlatformCall
  <2>2. IF task[b].cred = None THEN cred = platform[h].cred ELSE cred = task[b].cred
    OBVIOUS
  <2>3. IsProxy(platform[h])
    BY <1>1, <1>2, <1>6, <1>9 DEF Sound, ProxiesOf
  <2> HIDE DEF cred
  <2>4. /\ r \in Registration /\ r.cred = cred
        /\ r.kind = platform[h].kind /\ r.broker = platform[h].broker /\ r.name = platform[h].name
    BY <1>6, <1>7, <1>9 DEF Registration
  <2>5. r # None
    BY <2>4, NotNone
  <2> HIDE DEF r
  <2>6. IsProxy(r) /\ r.broker = b
    BY <1>7, <1>9, <2>3, <2>4, <2>5 DEF IsProxy
  <2> QED
    BY <1>6, <1>7, <1>9, <2>1, <2>2, <2>3, <2>4, <2>5, <2>6 DEF Reshaped
<1>10. CASE task[b].op = "delete"
  <2>1. platform' = [platform EXCEPT ![h] = None]
    BY <1>10 DEF PlatformCall
  <2>2. h \in orphans
    BY <1>1, <1>10 DEF Sound
  <2> QED
    BY <1>6, <1>10, <2>1, <2>2 DEF Reshaped
<1> QED
  BY <1>3, <1>5, <1>8, <1>9, <1>10

\* ... and the credentials that the proxy gets are those that SM accepts.
Handed(b, g, r) ==
    /\ Reshaped(b, g, r)
    /\ task[b].op = "delete" => task[b].cred = None
    /\ task[b].op # "delete" =>
         /\ r.cred \in {Default, Own, creds[b].current, creds[b].old}
         /\ task[b].cred # None => r.cred \in {Default, creds[b].current}

LEMMA CallHandsOut ==
  ASSUME LoginInv, NEW b \in Brokers, task[b].at = "call", ~TaskRefused(b), PlatformCall(b)
  PROVE  \E g \in Guids, r \in Registration \cup {None} :
           platform' = [platform EXCEPT ![g] = r] /\ Handed(b, g, r)
<1>1. PICK g \in Guids, r \in Registration \cup {None} :
        platform' = [platform EXCEPT ![g] = r] /\ Reshaped(b, g, r)
  BY CallReshapes DEF LoginInv
<1>2. task[b].op = "delete" => task[b].cred = None
  BY DEF LoginInv, RotationInv
<1>3. task[b].cred \in {None, Default, creds[b].current}
  BY DEF LoginInv, RotationInv
<1>4. ASSUME task[b].op # "delete", task[b].cred = None
      PROVE  r.cred \in {Default, Own, creds[b].current, creds[b].old}
  <2>1. platform[g] # None /\ r.cred = platform[g].cred /\ platform[g].broker = b
    BY <1>1, <1>4 DEF Reshaped
  <2>2. platform[g].cred \in Issued \cup {Default, Own}
    BY <2>1 DEF LoginInv, IInv, CoreInv, TypeOK, Registration
  <2> QED
    BY <2>1, <2>2 DEF LoginInv, PlatformCanLogIn, IssuedInv
<1>5. task[b].op # "delete" /\ task[b].cred # None => r.cred \in {Default, creds[b].current}
  BY <1>1, <1>3 DEF Reshaped
<1> QED
  BY <1>1, <1>2, <1>4, <1>5 DEF Handed

\* A task does not hand out or activate credentials that it has not put.
Orderly(b, t) ==
    /\ t.at \in {"put", "call"} => t.cred \in {None, Default, creds[b].current}
    /\ t.op = "delete" => t.at # "put" /\ t.cred = None
    /\ t.at # "activate"

LEMMA NoTaskOrderly == \A b \in Brokers : Orderly(b, NoTask)
  BY DEF Orderly, NoTask

\* Steps that change neither the registrations nor SM's credentials.
LEMMA QuietLogin ==
  ASSUME LoginInv, IInv', UNCHANGED <<platform, creds>>,
         \A g \in Guids : existing'[g] \in {existing[g], platform[g], None},
         \A b \in Brokers : task'[b] = task[b] \/ Orderly(b, task'[b])
  PROVE  LoginInv'
<1> USE DEF LoginInv
<1>1. IssuedInv' /\ PlatformCanLogIn'
  BY DEF IssuedInv, PlatformCanLogIn, IsProxy
<1>2. RotationInv'
  BY DEF RotationInv, Orderly, ProxiesOf, IsProxy
<1> QED
  BY <1>1, <1>2

\* ... such as the end of a task.
LEMMA EndLogin ==
  ASSUME LoginInv, IInv', UNCHANGED <<platform, creds>>, NEW b \in Brokers, NEW t, Orderly(b, t), Advance(b, t)
  PROVE  LoginInv'
<1>1. \A c \in Brokers : task'[c] = task[c] \/ Orderly(c, task'[c])
  BY DEF Advance, LoginInv, IInv, CoreInv, TypeOK
<1>2. existing' = existing
  BY DEF Advance
<1> QED
  BY <1>1, <1>2, QuietLogin

\* Credentials are put: the platform has those of before, if any.
LEMMA StoredBefore ==
  ASSUME LoginInv, NEW b \in Brokers, task[b].at = "put", PutAccepted(b), Stored(b)
  PROVE  \A g \in ProxiesOf(b, platform) : platform[g].cred \in {Default, Own, creds'[b].old}
<1> USE DEF LoginInv
<1>1. creds \in [Brokers -> Credentials] /\ platform \in [Guids -> Registration \cup {None}]
  BY DEF IInv, CoreInv, TypeOK
<1>2. creds'[b].old = IF creds[b].active THEN creds[b].current ELSE creds[b].old
  BY <1>1 DEF Stored
<1>3. ASSUME NEW g \in Guids, IsProxy(platform[g]), platform[g].broker = b
      PROVE  platform[g].cred \in {Default, Own, creds'[b].old}
  <2>1. task[b].op # "create"
    <3>1. InRound /\ Sound(b, task[b])
      BY TaskType DEF IInv, CoreInv, QuietInv, Running
    <3>2. task[b].op = "create" => ProxiesOf(b, platform) = {}
      BY <3>1 DEF IInv, CoreInv, TaskInv, Undone, Sound
    <3> QED
      BY <1>3, <3>2 DEF ProxiesOf
  <2>2. creds[b].current = None \/ creds[b].active
    BY <2>1 DEF PutAccepted, Pending
  <2>3. platform[g] \in Registration
    BY <1>1, <1>3 DEF IsProxy
  <2>4. platform[g].cred # None
    BY <2>3, NoneAssumption DEF Registration
  <2>5. platform[g].cred \in {Default, Own, creds[b].current, creds[b].old}
    BY <1>3 DEF PlatformCanLogIn
  <2>6. creds[b].active => creds[b].old = None
    BY DEF RotationInv
  <2> QED
    BY <1>2, <2>2, <2>4, <2>5, <2>6
<1> QED
  BY <1>3 DEF ProxiesOf

LEMMA StoredLogin ==
  ASSUME LoginInv, IInv', NEW b \in Brokers, task[b].at = "put", PutAccepted(b), Stored(b), UNCHANGED platform,
         NEW t, Advance(b, t),
         t = NoTask \/ (t.at = "call" /\ t.op = task[b].op /\ t.cred = Fresh(b))
  PROVE  LoginInv'
<1> USE DEF LoginInv
<1>1. /\ creds \in [Brokers -> Credentials] /\ task \in [Brokers -> Task]
      /\ platform \in [Guids -> Registration \cup {None}]
  BY DEF IInv, CoreInv, TypeOK
<1>2. /\ task'[b] = t /\ \A c \in Brokers \ {b} : task'[c] = task[c]
      /\ UNCHANGED existing
  BY <1>1 DEF Advance
<1>3. /\ creds'[b].current = Fresh(b)
      /\ creds'[b].old = IF creds[b].active THEN creds[b].current ELSE creds[b].old
      /\ creds'[b].active = FALSE
      /\ \A c \in Brokers \ {b} : creds'[c] = creds[c]
  BY <1>1 DEF Stored
<1>4. task[b].op # "delete"
  BY DEF RotationInv
<1>5. ASSUME NEW g \in Guids, IsProxy(platform[g]), platform[g].broker = b
      PROVE  platform[g].cred \in {Default, Own, creds'[b].old}
  BY <1>5, StoredBefore DEF ProxiesOf
<1>6. PlatformCanLogIn'
  <2>1. \A g \in Guids : IsProxy(platform[g]) => platform[g].broker \in Brokers
    BY <1>1 DEF Registration, IsProxy
  <2> QED
    BY <1>3, <1>5, <2>1 DEF PlatformCanLogIn, IsProxy
<1>7. IssuedInv'
  BY <1>2 DEF IssuedInv, IsProxy
<1>8. RotationInv'
  <2>1. ASSUME NEW c \in Brokers, c # b
        PROVE  /\ creds'[c].active => creds'[c].old = None
               /\ task'[c].at \in {"put", "call"} => task'[c].cred \in {None, Default, creds'[c].current}
               /\ task'[c].op = "delete" => task'[c].at # "put" /\ task'[c].cred = None
               /\ task'[c].at = "activate" =>
                    \A g \in ProxiesOf(c, platform) : platform[g].cred \in {Default, Own, creds'[c].current}
    BY <1>2, <1>3, <2>1 DEF RotationInv
  <2>2. /\ creds'[b].active => creds'[b].old = None
        /\ t.at \in {"put", "call"} => t.cred \in {None, Default, creds'[b].current}
        /\ t.op = "delete" => t.at # "put" /\ t.cred = None
        /\ t.at # "activate"
    BY <1>3, <1>4, NoTaskOrderly DEF NoTask
  <2> QED
    BY <1>2, <2>1, <2>2 DEF RotationInv, ProxiesOf, IsProxy
<1> QED
  BY <1>6, <1>7, <1>8

\* They are activated once the proxy has them, or has the default ones.
LEMMA ActivatedLogin ==
  ASSUME LoginInv, IInv', NEW b \in Brokers, task[b].at = "activate", Activated(b), UNCHANGED platform,
         Advance(b, NoTask)
  PROVE  LoginInv'
<1> USE DEF LoginInv
<1>1. /\ creds \in [Brokers -> Credentials] /\ task \in [Brokers -> Task]
      /\ platform \in [Guids -> Registration \cup {None}]
  BY DEF IInv, CoreInv, TypeOK
<1>2. /\ task'[b] = NoTask /\ \A c \in Brokers \ {b} : task'[c] = task[c]
      /\ UNCHANGED existing
  BY <1>1 DEF Advance
<1>3. creds[b] \in Credentials
  BY <1>1
<1>4. /\ creds'[b].current = creds[b].current /\ creds'[b].old = None /\ creds'[b].active = TRUE
      /\ \A c \in Brokers \ {b} : creds'[c] = creds[c]
  BY <1>1, <1>3 DEF Activated, Credentials
<1>5. \A g \in Guids : IsProxy(platform[g]) => platform[g].broker \in Brokers
  BY <1>1 DEF Registration, IsProxy
<1>6. \A g \in ProxiesOf(b, platform) : platform[g].cred \in {Default, Own, creds[b].current}
  BY DEF RotationInv
<1>7. PlatformCanLogIn'
  BY <1>4, <1>5, <1>6 DEF PlatformCanLogIn, IsProxy, ProxiesOf
<1>8. IssuedInv'
  BY <1>2 DEF IssuedInv, IsProxy
<1>9. RotationInv'
  BY <1>2, <1>4 DEF RotationInv, ProxiesOf, IsProxy, NoTask
<1> QED
  BY <1>7, <1>8, <1>9

LEMMA CallLogin ==
  ASSUME LoginInv, IInv', NEW b \in Brokers, CallSucceeds(b) \/ CallFails(b)
  PROVE  LoginInv'
<1> USE DEF LoginInv
<1> DEFINE t == IF task'[b].at = "activate" THEN [task[b] EXCEPT !.at = "activate"] ELSE NoTask
<1>1. /\ task \in [Brokers -> Task] /\ platform \in [Guids -> Registration \cup {None}]
      /\ UNCHANGED <<creds, existing>>
      /\ \A c \in Brokers \ {b} : task'[c] = task[c]
      /\ task[b].at = "call" /\ ~TaskRefused(b)
  BY DEF CallSucceeds, CallFails, Advance, IInv, CoreInv, TypeOK
<1>2. \/ task'[b] = NoTask
      \/ task[b].cred # None /\ task'[b] = [task[b] EXCEPT !.at = "activate"] /\ PlatformCall(b)
  BY <1>1 DEF CallSucceeds, CallFails, Advance
<1>3. CASE UNCHANGED platform /\ task'[b] = NoTask
  <2>1. \A c \in Brokers : task'[c] = task[c] \/ Orderly(c, task'[c])
    BY <1>1, <1>3, NoTaskOrderly
  <2> QED
    BY <1>1, <1>3, <2>1, QuietLogin
<1>4. CASE PlatformCall(b)
  <2>1. PICK g \in Guids, r \in Registration \cup {None} :
          platform' = [platform EXCEPT ![g] = r] /\ Handed(b, g, r)
    BY <1>1, <1>4, CallHandsOut
  <2>2. platform'[g] = r /\ \A h \in Guids \ {g} : platform'[h] = platform[h]
    BY <1>1, <2>1
  <2>3. IssuedInv'
    BY <2>1, <2>2 DEF IssuedInv, Handed, Reshaped, IsProxy
  <2>5. PlatformCanLogIn'
    BY <1>1, <2>1, <2>2 DEF PlatformCanLogIn, Handed, Reshaped, IsProxy
  <2>6. ASSUME NEW c \in Brokers, c # b
        PROVE  ProxiesOf(c, platform') \subseteq ProxiesOf(c, platform)
               /\ \A h \in ProxiesOf(c, platform') : platform'[h] = platform[h]
    BY <2>1, <2>2, <2>6 DEF ProxiesOf, Handed, Reshaped, IsProxy
  <2>7. task'[b].at = "activate" =>
          \A h \in ProxiesOf(b, platform') : platform'[h].cred \in {Default, Own, creds[b].current}
    <3> SUFFICES ASSUME task'[b].at = "activate", NEW h \in ProxiesOf(b, platform')
                 PROVE  platform'[h].cred \in {Default, Own, creds[b].current}
      OBVIOUS
    <3>1. task[b].cred # None
      BY <1>2 DEF NoTask
    <3>2. r.cred \in {Default, creds[b].current} /\ ProxiesOf(b, platform) \subseteq {g}
      BY <2>1, <3>1 DEF Handed, Reshaped
    <3>3. h = g
      BY <2>2, <3>2 DEF ProxiesOf, IsProxy
    <3> QED
      BY <2>2, <3>2, <3>3
  <2>8. /\ task'[b].at \notin {"put", "call"}
        /\ task'[b].op # "delete"
    BY <1>1, <1>2 DEF NoTask, RotationInv, Task
  <2>9. RotationInv'
    <3>1. \A c \in Brokers : creds'[c].active => creds'[c].old = None
      BY <1>1 DEF RotationInv
    <3>2. \A c \in Brokers : task'[c].at \in {"put", "call"} => task'[c].cred \in {None, Default, creds'[c].current}
      BY <1>1, <2>8 DEF RotationInv
    <3>3. \A c \in Brokers : task'[c].op = "delete" => task'[c].at # "put" /\ task'[c].cred = None
      BY <1>1, <2>8 DEF RotationInv
    <3>4. ASSUME NEW c \in Brokers, task'[c].at = "activate"
          PROVE  \A h \in ProxiesOf(c, platform') : platform'[h].cred \in {Default, Own, creds'[c].current}
      <4>1. CASE c = b
        BY <1>1, <2>7, <3>4, <4>1
      <4>2. CASE c # b
        BY <1>1, <2>6, <3>4, <4>2 DEF RotationInv
      <4> QED
        BY <4>1, <4>2
    <3> QED
      BY <3>1, <3>2, <3>3, <3>4 DEF RotationInv, ProxiesOf, IsProxy
  <2> QED
    BY <2>3, <2>5, <2>9
<1> QED
  BY <1>3, <1>4 DEF CallSucceeds, CallFails, Advance, IInv, CoreInv, TypeOK

\* What users do to a registration.
LEMMA UserLogin ==
  ASSUME LoginInv, IInv', UNCHANGED <<creds, existing, task>>,
         NEW g \in Guids, NEW r \in Registration \cup {None}, platform' = [platform EXCEPT ![g] = r],
         \/ r = None
         \/ platform[g] # None /\ r.kind = platform[g].kind /\ r.broker = platform[g].broker /\ r.cred = platform[g].cred
         \/ ~IsProxy(r) /\ r.cred = Own /\ existing[g] = None
  PROVE  LoginInv'
<1> USE DEF LoginInv
<1>1. platform'[g] = r /\ \A h \in Guids \ {g} : platform'[h] = platform[h]
  BY DEF IInv, CoreInv, TypeOK
<1>2. \A h \in Guids : IsProxy(platform'[h]) =>
        IsProxy(platform[h]) /\ platform'[h].broker = platform[h].broker /\ platform'[h].cred = platform[h].cred
  BY <1>1 DEF IsProxy
<1>3. IssuedInv'
  BY <1>1, CredentialsAssumption DEF IssuedInv, IsProxy
<1>4. PlatformCanLogIn'
  BY <1>2 DEF PlatformCanLogIn
<1>5. \A c \in Brokers, h \in Guids : h \in ProxiesOf(c, platform') => h \in ProxiesOf(c, platform)
  BY <1>2 DEF ProxiesOf
<1>6. \A c \in Brokers, h \in Guids : h \in ProxiesOf(c, platform') => platform'[h].cred = platform[h].cred
  BY <1>2 DEF ProxiesOf
<1>7. RotationInv'
  <2>1. \A c \in Brokers : ProxiesOf(c, platform') \subseteq Guids
    BY DEF ProxiesOf
  <2>2. \A c \in Brokers : ProxiesOf(c, platform)' = ProxiesOf(c, platform')
    BY DEF ProxiesOf, IsProxy
  <2>3. ASSUME NEW c \in Brokers, task[c].at = "activate", NEW h \in ProxiesOf(c, platform')
        PROVE  platform'[h].cred \in {Default, Own, creds[c].current}
    BY <1>5, <1>6, <2>1, <2>3 DEF RotationInv
  <2> QED
    BY <2>2, <2>3 DEF RotationInv
<1> QED
  BY <1>3, <1>4, <1>7

LEMMA EnvironmentLogin == ASSUME LoginInv, IInv', Environment PROVE LoginInv'
<1> USE DEF LoginInv
<1>1. UNCHANGED <<creds, existing, task>>
  BY DEF Environment, Cancel, SMChanges, OperatorRegisters, OperatorRenames, OperatorDeletes, Changed, round
<1>2. CASE UNCHANGED platform
  BY <1>1, <1>2, QuietLogin
<1>3. ASSUME NEW b \in Brokers, NEW n \in Names, OperatorRegisters(b, n) PROVE LoginInv'
  <2> DEFINE r == [broker |-> b, kind |-> "original", name |-> n, cred |-> Own]
  <2>1. Cardinality(Brokers) \in Nat /\ Cardinality({}) = 0
    BY FiniteAssumption, FS_CardinalityType, FS_EmptySet
  <2>2. FreeGuids # {}
    BY <1>3, <2>1 DEF OperatorRegisters
  <2>3. NewGuid \in Guids /\ existing[NewGuid] = None
    BY <2>2, NewGuidFree
  <2>4. r \in Registration /\ ~IsProxy(r) /\ r.cred = Own
    BY DEF Registration, IsProxy
  <2>5. platform' = [platform EXCEPT ![NewGuid] = r]
    BY <1>3 DEF OperatorRegisters
  <2> HIDE DEF r
  <2> QED
    BY <1>1, <2>3, <2>4, <2>5, UserLogin
<1>4. ASSUME NEW g \in Guids, NEW n \in Names, OperatorRenames(g, n) PROVE LoginInv'
  <2> DEFINE r == [platform[g] EXCEPT !.name = n]
  <2>1. platform[g] \in Registration
    BY <1>4 DEF OperatorRenames, IInv, CoreInv, TypeOK
  <2>2. r \in Registration /\ r.kind = platform[g].kind /\ r.broker = platform[g].broker /\ r.cred = platform[g].cred
    BY <2>1 DEF Registration
  <2>3. platform' = [platform EXCEPT ![g] = r] /\ platform[g] # None
    BY <1>4 DEF OperatorRenames
  <2> HIDE DEF r
  <2> QED
    BY <1>1, <2>2, <2>3, UserLogin
<1>5. ASSUME NEW g \in Guids, OperatorDeletes(g) PROVE LoginInv'
  BY <1>1, <1>5, UserLogin DEF OperatorDeletes
<1> QED
  BY <1>2, <1>3, <1>4, <1>5 DEF Environment, Cancel, SMChanges

\* The steps of the loops and the tasks that they schedule.
LEMMA RoundLogin == ASSUME LoginInv, IInv', RoundStep \/ Rejected \/ FetchFails PROVE LoginInv'
<1> USE DEF LoginInv
<1>1. UNCHANGED <<platform, creds>>
  BY DEF RoundStep, Rejected, FetchSM, FetchFails, StartRound, ScheduleDesired, DesiredRejected, NextOrphan,
         DesiredDone, ScheduleDelete, DeleteRejected, OrphansDone, AwaitReturns, external
<1>2. \A g \in Guids : existing'[g] \in {existing[g], platform[g], None}
  BY DEF RoundStep, Rejected, FetchSM, FetchFails, StartRound, ScheduleDesired, DesiredRejected, NextOrphan,
         DesiredDone, ScheduleDelete, DeleteRejected, OrphansDone, AwaitReturns, external
<1>3. \A b \in Brokers : task'[b] = task[b] \/ Orderly(b, task'[b])
  <2>1. task \in [Brokers -> Task]
    BY DEF IInv, CoreInv, TypeOK
  <2>2. CASE StartRound
    BY <2>2, NoTaskOrderly DEF StartRound
  <2>3. ASSUME NEW b \in Brokers, ScheduleDesired(b)
        PROVE  \A c \in Brokers : task'[c] = task[c] \/ Orderly(c, task'[c])
    <3>1. PICK t \in TaskFor(b) : task' = [task EXCEPT ![b] = t]
      BY <2>3 DEF ScheduleDesired
    <3>2. t = NoTask \/ \E op \in {"create", "update", "fetch"} : \E g : t = NewTask(op, g)
      BY <3>1 DEF TaskFor
    <3>3. \A op \in {"create", "update", "fetch"} : \A g : Orderly(b, NewTask(op, g))
      BY DEF Orderly, NewTask, FirstStep
    <3>4. Orderly(b, t)
      BY <3>2, <3>3, NoTaskOrderly
    <3> QED
      BY <2>1, <3>1, <3>4
  <2>4. CASE ScheduleDelete
    <3> DEFINE t == [op |-> "delete", at |-> "read", guid |-> None, cred |-> None]
    <3>1. task' = [task EXCEPT ![cursor] = t]
      BY <2>4 DEF ScheduleDelete
    <3>2. \A b \in Brokers : Orderly(b, t)
      BY DEF Orderly
    <3> HIDE DEF t
    <3> QED
      BY <2>1, <3>1, <3>2
  <2>5. CASE UNCHANGED task
    BY <2>5
  <2> QED
    BY <2>2, <2>3, <2>4, <2>5
    DEF RoundStep, Rejected, FetchSM, FetchFails, DesiredRejected, NextOrphan, DesiredDone, DeleteRejected,
        OrphansDone, AwaitReturns
<1> QED
  BY <1>1, <1>2, <1>3, QuietLogin

LEMMA TaskLogin == ASSUME LoginInv, IInv', NEW b \in Brokers, TaskStep(b) \/ Fault(b) PROVE LoginInv'
<1>1. /\ task[b] \in Task
      /\ task[b].at \in {"put", "call"} => task[b].cred \in {None, Default, creds[b].current}
      /\ task[b].op = "delete" => task[b].at # "put" /\ task[b].cred = None
  BY TaskType DEF LoginInv, IInv, RotationInv
<1>2. CASE Put(b)
  <2> DEFINE t == [task[b] EXCEPT !.at = "call", !.cred = Fresh(b)]
  <2>1. t.at = "call" /\ t.op = task[b].op /\ t.cred = Fresh(b)
    BY <1>1 DEF Task
  <2>2. Advance(b, t)
    BY <1>2 DEF Put
  <2> HIDE DEF t
  <2> QED
    BY <1>2, <2>1, <2>2, StoredLogin DEF Put
<1>3. CASE PutConflicts(b)
  <2> DEFINE t == [task[b] EXCEPT !.at = "call"]
  <2>1. Orderly(b, t)
    BY <1>1, <1>3 DEF Orderly, PutConflicts, Task
  <2>2. Advance(b, t)
    BY <1>3 DEF PutConflicts
  <2> HIDE DEF t
  <2> QED
    BY <1>3, <2>1, <2>2, EndLogin DEF PutConflicts
<1>4. CASE ReadArgument(b)
  <2> DEFINE t == [task[b] EXCEPT !.at = "call", !.guid = loopVar]
  <2>1. task[b].op = "delete"
    BY <1>4, TaskType DEF LoginInv, IInv, ReadArgument, Sound
  <2>2. Orderly(b, t)
    BY <1>1, <2>1 DEF Orderly, Task
  <2>3. Advance(b, t)
    BY <1>4 DEF ReadArgument
  <2> HIDE DEF t
  <2> QED
    BY <1>4, <2>2, <2>3, EndLogin DEF ReadArgument
<1>5. CASE PutFails(b) \/ CallRefused(b)
  <2>1. CASE UNCHANGED creds
    BY <1>5, <2>1, NoTaskOrderly, EndLogin DEF PutFails, CallRefused
  <2>2. CASE PutFails(b) /\ PutAccepted(b) /\ Stored(b)
    BY <2>2, StoredLogin DEF PutFails
  <2> QED
    BY <1>5, <2>1, <2>2 DEF PutFails, CallRefused
<1>6. CASE CallSucceeds(b) \/ CallFails(b)
  BY <1>6, CallLogin
<1>7. CASE Activate(b) \/ ActivateFails(b)
  <2>1. CASE UNCHANGED creds
    BY <1>7, <2>1, NoTaskOrderly, EndLogin DEF Activate, ActivateFails
  <2>2. CASE Activated(b)
    BY <1>7, <2>2, ActivatedLogin DEF Activate, ActivateFails
  <2> QED
    BY <1>7, <2>1, <2>2 DEF Activate, ActivateFails
<1> QED
  BY <1>2, <1>3, <1>4, <1>5, <1>6, <1>7 DEF TaskStep, Fault

LEMMA LoginInit == Init => LoginInv
<1> SUFFICES ASSUME Init PROVE LoginInv
  OBVIOUS
<1>1. IInv
  BY InitKeeps
<1>2. /\ platform \in [Guids -> Shapes \cup {None}]
      /\ \A b \in Brokers : task[b] = NoTask
      /\ \A g \in Guids : existing[g] = None
  BY DEF Init
<1>3. IssuedInv
  BY <1>2, ForeignAssumption, BoundsAssumption DEF IssuedInv, IsProxy, Registration
<1>4. \A b \in Brokers : creds[b].old = None
  BY DEF Init, NoCredentials
<1>5. RotationInv
  BY <1>2, <1>4 DEF RotationInv, NoTask
<1>6. ASSUME NEW g \in Guids, IsProxy(platform[g])
      PROVE  platform[g].cred \in {Default, Own, creds[platform[g].broker].current}
  <2> DEFINE b == platform[g].broker
             c == platform[g].cred
  <2>1. platform[g] \in Registration
    BY <1>2, <1>6, BoundsAssumption DEF IsProxy
  <2>2. b \in Brokers /\ c \in Issued \cup {Default, Own}
    BY <2>1 DEF Registration
  <2>3. CASE c \in Issued
    <3>1. \A h \in Guids : platform[h] # None /\ platform[h].broker = b => h = g
      BY <1>6 DEF Init, IsProxy
    <3>2. IssuedFor(b, platform) = {c}
      BY <1>6, <2>3, <3>1 DEF IssuedFor, IsProxy
    <3>3. creds[b].current = CHOOSE d \in {c} : TRUE
      BY <2>2, <3>2 DEF Init
    <3> QED
      BY <3>3
  <2> QED
    BY <2>2, <2>3
<1> QED
  BY <1>1, <1>3, <1>5, <1>6 DEF LoginInv, PlatformCanLogIn

LEMMA LoginStep == LoginInv /\ [Next]_vars => LoginInv'
<1> SUFFICES ASSUME LoginInv, [Next]_vars PROVE LoginInv'
  OBVIOUS
<1>1. IInv'
  BY NextKeeps DEF LoginInv
<1>2. CASE UNCHANGED vars
  BY <1>1, <1>2, QuietLogin DEF vars, external, round
<1> QED
  BY <1>1, <1>2, EnvironmentLogin, RoundLogin, TaskLogin DEF Next

\* SM accepts what the platform has for each proxy, a task hands out nothing but
\* what it has put, and only proxies have what was generated.
THEOREM LoginInvariant == Spec => []LoginInv
  BY LoginInit, LoginStep, PTL DEF Spec

\* Whatever step of a rotation fails, SM accepts the credentials that the
\* platform has for a proxy.
THEOREM PlatformLogsIn == Spec => []PlatformCanLogIn
<1>1. LoginInv => PlatformCanLogIn
  BY DEF LoginInv
<1> QED
  BY <1>1, LoginInvariant, PTL

-----------------------------------------------------------------------------
(* A round that nothing disturbs.                                          *)

Progress == WantedInv /\ UnwantedInv /\ DeletionInv

\* The platform keeps broker c's registrations.
Kept(c) ==
    \A h \in Guids :
        (platform[h] # None /\ platform[h].broker = c) \/ (platform'[h] # None /\ platform'[h].broker = c)
            => platform'[h] = platform[h]

LEMMA KeptMatches ==
  ASSUME NEW c \in Brokers, NEW n, Kept(c), Matches(c, n, platform)
  PROVE  Matches(c, n, platform')
<1>1. ProxiesOf(c, platform') = ProxiesOf(c, platform)
  BY DEF Kept, ProxiesOf, IsProxy
<1>2. KeyMatches(c, n, platform') = KeyMatches(c, n, platform)
  BY DEF Kept, KeyMatches
<1>3. \A g \in ProxiesOf(c, platform) : platform'[g] = platform[g]
  BY DEF Kept, ProxiesOf, IsProxy
<1>4. CASE n = None
  BY <1>1, <1>4 DEF Matches
<1>5. CASE n # None
  BY <1>1, <1>2, <1>3, <1>5 DEF Matches
<1> QED
  BY <1>4, <1>5

\* A call leaves the registrations of other brokers alone, and what it deletes
\* is no wanted broker's.
LEMMA ReshapedKeeps ==
  ASSUME IInv, InRound, UnwantedInv, NEW b \in Brokers, NEW g \in Guids, NEW r \in Registration \cup {None},
         platform' = [platform EXCEPT ![g] = r], Reshaped(b, g, r),
         NEW c \in Brokers, IF task[b].op = "delete" THEN desired[c] # None ELSE c # b
  PROVE  Kept(c)
<1>1. platform'[g] = r /\ \A h \in Guids \ {g} : platform'[h] = platform[h]
  BY DEF IInv, CoreInv, TypeOK
<1>2. CASE task[b].op = "delete"
  <2>1. r = None /\ g \in orphans
    BY <1>2 DEF Reshaped
  <2>2. existing[g] # None /\ desired[existing[g].broker] = None
    BY <2>1 DEF UnwantedInv, IInv, CoreInv, SnapshotInv, IsProxy
  <2>3. platform[g] # None => platform[g].broker # c
    BY <1>2, <2>2 DEF IInv, CoreInv, SnapshotInv
  <2> QED
    BY <1>1, <2>1, <2>3 DEF Kept
<1>3. CASE task[b].op # "delete"
  BY <1>1, <1>3 DEF Reshaped, Kept
<1> QED
  BY <1>2, <1>3

\* Nothing but the snapshot counts for a broker whose registrations are kept.
LEMMA KeptUntouched ==
  ASSUME NEW c \in Brokers, Kept(c), UNCHANGED existing, Untouched(c)
  PROVE  Untouched(c)'
  BY DEF Kept, Untouched

LEMMA CallProgress ==
  ASSUME IInv, InRound, Progress, NEW b \in Brokers, CallSucceeds(b)
  PROVE  Progress'
<1> USE DEF Progress
<1>1. /\ task \in [Brokers -> Task] /\ platform \in [Guids -> Registration \cup {None}]
      /\ task[b].at = "call" /\ ~TaskRefused(b) /\ PlatformCall(b)
      /\ UNCHANGED <<existing, desired, todo, index, cursor, orphans, options>>
      /\ task'[b].at \notin {"put", "read", "call"} /\ \A c \in Brokers \ {b} : task'[c] = task[c]
      /\ b \notin todo
  BY DEF CallSucceeds, Advance, IInv, CoreInv, TypeOK, NoTask, Task, process, IndexInv
<1>2. PICK g \in Guids, r \in Registration \cup {None} :
        platform' = [platform EXCEPT ![g] = r] /\ Reshaped(b, g, r)
  BY <1>1, CallReshapes
<1>3. platform'[g] = r /\ \A h \in Guids \ {g} : platform'[h] = platform[h]
  BY <1>1, <1>2
<1>4. \A c \in Brokers : (IF task[b].op = "delete" THEN desired[c] # None ELSE c # b) => Kept(c)
  BY <1>2, ReshapedKeeps
<1>5. \A c \in Brokers : Undone(c)' <=> Undone(c) /\ c # b
  BY <1>1 DEF Undone
<1>6. ASSUME NEW c \in Brokers, desired[c] # None, Kept(c), c # b \/ ~Undone(c)
      PROVE  IF Undone(c)' THEN Untouched(c)' ELSE Matches(c, desired[c], platform)'
  <2>1. CASE Undone(c)
    BY <1>1, <1>5, <1>6, <2>1, KeptUntouched DEF WantedInv
  <2>2. CASE ~Undone(c)
    <3>1. Matches(c, desired[c], platform)
      BY <1>6, <2>2 DEF WantedInv
    <3>2. Matches(c, desired[c], platform')
      BY <1>6, <3>1, KeptMatches
    <3> QED
      BY <1>1, <1>5, <2>2, <3>2 DEF Matches, ProxiesOf, KeyMatches, IsProxy
  <2> QED
    BY <2>1, <2>2
<1>7. ASSUME desired[b] # None, task[b].op # "delete"
      PROVE  Matches(b, desired[b], platform)'
  <2>1. /\ r # None /\ IsProxy(r) /\ r.broker = b /\ ProxiesOf(b, platform) \subseteq {g}
        /\ platform[g] # None => platform[g].broker = b
    BY <1>2, <1>7 DEF Reshaped
  <2>2. ProxiesOf(b, platform') = {g}
    BY <1>3, <2>1 DEF ProxiesOf
  <2>3. r.kind = "proxy" /\ r.name = desired[b]
    <3>1. CASE task[b].op \in {"create", "update"}
      BY <1>2, <3>1 DEF Reshaped
    <3>2. CASE task[b].op = "fetch"
      <4>1. /\ IsProxy(platform[g]) /\ r.kind = platform[g].kind /\ r.name = platform[g].name
            /\ g \in ProxiesOf(b, platform)
        BY <1>2, <2>1, <3>2 DEF Reshaped, ProxiesOf, IsProxy
      <4>2. Matches(b, desired[b], platform)
        BY <1>1, <1>7, <3>2 DEF WantedInv, Undone
      <4> QED
        BY <1>7, <4>1, <4>2 DEF Matches
    <3> QED
      BY <1>2, <1>7, <3>1, <3>2 DEF Reshaped
  <2>4. Cardinality(ProxiesOf(b, platform')) = 1
    BY <2>2, FS_Singleton
  <2>5. Matches(b, desired[b], platform')
    BY <1>1, <1>3, <1>7, <2>2, <2>3, <2>4 DEF Matches
  <2> QED
    BY <1>1, <2>5 DEF Matches, ProxiesOf, KeyMatches, IsProxy
<1>8. WantedInv'
  <2>1. SUFFICES ASSUME NEW c \in Brokers, desired[c] # None
                 PROVE  IF Undone(c)' THEN Untouched(c)' ELSE Matches(c, desired[c], platform)'
    BY <1>1 DEF WantedInv
  <2>2. CASE c = b /\ task[b].op # "delete"
    BY <1>5, <1>7, <2>1, <2>2
  <2>3. CASE ~(c = b /\ task[b].op # "delete")
    <3>1. Kept(c)
      BY <1>4, <2>1, <2>3
    <3>2. c # b \/ ~Undone(c)
      BY <1>1, <2>3 DEF Undone
    <3> QED
      BY <1>6, <2>1, <3>1, <3>2
  <2> QED
    BY <2>2, <2>3
<1>9. UnwantedInv'
  <2>1. ASSUME NEW c \in Brokers, desired[c] = None, NEW h \in ProxiesOf(c, platform')
        PROVE  h \in ProxiesOf(c, platform)
    <3>1. CASE h # g
      BY <1>3, <2>1, <3>1 DEF ProxiesOf
    <3>2. CASE h = g
      <4>1. c = b /\ r # None
        BY <1>2, <1>3, <2>1, <3>2 DEF ProxiesOf, IsProxy, Reshaped
      <4>2. Sound(b, task[b])
        BY TaskType DEF IInv
      <4>3. task[b].op \notin {"create", "update"}
        BY <1>1, <2>1, <4>1, <4>2 DEF Sound
      <4> QED
        BY <1>2, <2>1, <3>2, <4>1, <4>3 DEF Reshaped, ProxiesOf, IsProxy
    <3> QED
      BY <3>1, <3>2
  <2>2. \A c \in Brokers : desired[c] = None => ProxiesOf(c, platform') \subseteq orphans
    BY <2>1 DEF UnwantedInv
  <2>3. \A c \in Brokers : desired'[c] = None => ProxiesOf(c, platform)' \subseteq orphans'
    BY <1>1, <2>2 DEF ProxiesOf, IsProxy
  <2>4. /\ \A h \in orphans : desired[existing[h].broker] = None
        /\ \A c \in Brokers : index[c] # None => c \in todo \/ desired[c] = None
        /\ cursor # None => desired[cursor] = None
    BY DEF UnwantedInv
  <2> QED
    BY <1>1, <2>3, <2>4 DEF UnwantedInv
<1>10. DeletionInv'
  <2>1. SUFFICES ASSUME orphans # {}
                 PROVE  \/ \E c \in Brokers : desired[c] = None /\ index[c] # None
                        \/ cursor # None
                        \/ \E c \in Brokers : task'[c].op = "delete" /\ task'[c].at \in {"read", "call"}
                        \/ \E h \in orphans : platform'[h] = None
    BY <1>1 DEF DeletionInv
  <2>2. CASE task[b].op = "delete"
    BY <1>2, <1>3, <2>2 DEF Reshaped
  <2>3. CASE task[b].op # "delete"
    <3>1. ASSUME NEW h \in orphans, platform[h] = None PROVE platform'[h] = None
      <4>1. existing[h] # None /\ h \in Guids
        BY DEF IInv, CoreInv, SnapshotInv, IsProxy, TypeOK
      <4> QED
        BY <1>2, <1>3, <2>3, <3>1, <4>1 DEF Reshaped
    <3>2. ASSUME NEW c \in Brokers, task[c].op = "delete", task[c].at \in {"read", "call"}
          PROVE  task'[c].op = "delete" /\ task'[c].at \in {"read", "call"}
      BY <1>1, <2>3, <3>2
    <3> QED
      BY <2>1, <3>1, <3>2 DEF DeletionInv
  <2> QED
    BY <2>2, <2>3
<1> QED
  BY <1>8, <1>9, <1>10

\* A broker keeps what it has, or gets what it needs without a change of the
\* platform.
LEMMA WantedKeeps ==
  ASSUME WantedInv, UNCHANGED <<platform, existing, desired, options>>,
         \A c \in Brokers : desired[c] # None =>
            \/ Undone(c)' <=> Undone(c)
            \/ ~Undone(c)' /\ Matches(c, desired[c], platform)
  PROVE  WantedInv'
<1>1. SUFFICES ASSUME NEW c \in Brokers, desired[c] # None
               PROVE  IF Undone(c)' THEN Untouched(c)' ELSE Matches(c, desired[c], platform)'
  BY DEF WantedInv
<1>2. Untouched(c) => Untouched(c)'
  BY DEF Untouched
<1>3. Matches(c, desired[c], platform) => Matches(c, desired[c], platform)'
  BY DEF Matches, ProxiesOf, KeyMatches, IsProxy
<1> QED
  BY <1>1, <1>2, <1>3 DEF WantedInv

\* A step of b's task that leaves the platform alone and ends nothing.
LEMMA QuietProgress ==
  ASSUME IInv, Progress, NEW b \in Brokers,
         Put(b) \/ PutConflicts(b) \/ ReadArgument(b) \/ Activate(b)
  PROVE  Progress'
<1> USE DEF Progress
<1>1. /\ task \in [Brokers -> Task]
      /\ UNCHANGED <<platform, existing, desired, todo, index, cursor, orphans, options>>
      /\ \A c \in Brokers \ {b} : task'[c] = task[c]
  BY DEF Put, PutConflicts, ReadArgument, Activate, Advance, IInv, CoreInv, TypeOK, process
<1>2. \/ /\ task'[b].op = task[b].op /\ task'[b].at = "call"
         /\ task[b].at = "put" \/ (task[b].at = "read" /\ task[b].op = "delete")
      \/ task'[b] = NoTask /\ task[b].at = "activate"
  <2>1. task[b] \in Task /\ (task[b].at = "read" => task[b].op = "delete")
    BY TaskType DEF IInv, Sound
  <2>2. CASE Put(b)
    <3> DEFINE t == [task[b] EXCEPT !.at = "call", !.cred = Fresh(b)]
    <3>1. t.op = task[b].op /\ t.at = "call"
      BY <2>1 DEF Task
    <3>2. task' = [task EXCEPT ![b] = t] /\ task[b].at = "put"
      BY <2>2 DEF Put, Advance
    <3> HIDE DEF t
    <3> QED
      BY <1>1, <3>1, <3>2
  <2>5. CASE PutConflicts(b)
    <3> DEFINE t == [task[b] EXCEPT !.at = "call"]
    <3>1. t.op = task[b].op /\ t.at = "call"
      BY <2>1 DEF Task
    <3>2. task' = [task EXCEPT ![b] = t] /\ task[b].at = "put"
      BY <2>5 DEF PutConflicts, Advance
    <3> HIDE DEF t
    <3> QED
      BY <1>1, <3>1, <3>2
  <2>3. CASE ReadArgument(b)
    BY <1>1, <2>1, <2>3 DEF ReadArgument, Advance, Task
  <2>4. CASE Activate(b)
    BY <1>1, <2>4 DEF Activate, Advance
  <2> QED
    BY <2>2, <2>3, <2>4, <2>5
<1>3. \A c \in Brokers : Undone(c)' <=> Undone(c)
  BY <1>1, <1>2 DEF Undone, NoTask
<1>4. WantedInv'
  BY <1>1, <1>3, WantedKeeps
<1>5. UnwantedInv'
  BY <1>1 DEF UnwantedInv, ProxiesOf, IsProxy
<1>6. ASSUME NEW c \in Brokers, task[c].op = "delete", task[c].at \in {"read", "call"}
      PROVE  task'[c].op = "delete" /\ task'[c].at \in {"read", "call"}
  BY <1>1, <1>2, <1>6
<1>7. DeletionInv'
  BY <1>1, <1>6 DEF DeletionInv
<1> QED
  BY <1>4, <1>5, <1>7

\* In a round that nothing disturbs the platform refuses no creation, no update,
\* and no deletion but of what is gone.
LEMMA RefusedProgress ==
  ASSUME IInv, InRound, Progress, NEW b \in Brokers, CallRefused(b)
  PROVE  Progress'
<1> USE DEF Progress
<1>1. /\ task \in [Brokers -> Task] /\ task[b].at = "call" /\ TaskRefused(b) /\ Sound(b, task[b])
      /\ UNCHANGED <<platform, existing, desired, todo, index, cursor, orphans, options>>
      /\ task'[b] = NoTask /\ \A c \in Brokers \ {b} : task'[c] = task[c]
      /\ b \notin todo
  BY TaskType DEF CallRefused, Advance, IInv, CoreInv, TypeOK, process, IndexInv
<1>2. task[b].op \notin {"create", "update"}
  <2>1. SUFFICES ASSUME task[b].op \in {"create", "update"} PROVE FALSE
    OBVIOUS
  <2>2. desired[b] # None /\ Untouched(b) /\ ProxiesOf(b, platform) \subseteq ProxiesOf(b, existing)
    BY <1>1, <2>1 DEF Sound, WantedInv, Undone, IInv, CoreInv, TaskInv
  <2>3. ProxyNamed(b, desired[b], platform) \ {task[b].guid} = {}
    <3>1. task[b].op = "update" => ProxiesOf(b, existing) \subseteq {task[b].guid}
      BY <1>1, UpdateAlone
    <3> QED
      BY <1>1, <2>1, <2>2, <3>1 DEF Sound, ProxyNamed
  <2>4. task[b].op = "update" => platform[task[b].guid] # None
    <3>1. SUFFICES ASSUME task[b].op = "update" PROVE platform[task[b].guid] # None
      OBVIOUS
    <3>2. /\ task[b].guid \in Guids /\ existing[task[b].guid] # None
          /\ existing[task[b].guid].broker = b
      BY <1>1, <3>1 DEF Sound, ProxiesOf, KeyMatches, IsProxy
    <3> QED
      BY <2>2, <3>2 DEF Untouched
  <2> QED
    BY <1>1, <2>1, <2>3, <2>4 DEF TaskRefused, Refused
<1>3. \A c \in Brokers : Undone(c)' <=> Undone(c)
  BY <1>1, <1>2 DEF Undone, NoTask
<1>4. WantedInv'
  BY <1>1, <1>3, WantedKeeps
<1>5. UnwantedInv'
  BY <1>1 DEF UnwantedInv, ProxiesOf, IsProxy
<1>6. DeletionInv'
  <2>1. CASE task[b].op = "delete"
    <3>1. task[b].guid \in orphans /\ platform[task[b].guid] = None
      BY <1>1, <2>1 DEF Sound, TaskRefused, Refused
    <3> QED
      BY <1>1, <3>1 DEF DeletionInv
  <2>2. CASE task[b].op # "delete"
    <3>1. ASSUME NEW c \in Brokers, task[c].op = "delete", task[c].at \in {"read", "call"}
          PROVE  task'[c].op = "delete" /\ task'[c].at \in {"read", "call"}
      BY <1>1, <2>2, <3>1
    <3> QED
      BY <1>1, <3>1 DEF DeletionInv
  <2> QED
    BY <2>1, <2>2
<1> QED
  BY <1>4, <1>5, <1>6

\* The loops.
LEMMA TaskForServes ==
  ASSUME IInv, NEW b \in todo, b \in Brokers, Untouched(b), NEW t \in TaskFor(b), t.op \notin {"create", "update"}
  PROVE  Matches(b, desired[b], platform)
<1>1. /\ desired[b] # None
      /\ IF index[b] # None THEN index[b] \in ProxiesOf(b, existing) ELSE ProxiesOf(b, existing) = {}
  BY DEF IInv, CoreInv, IndexInv
<1>2. ProxiesOf(b, platform) = ProxiesOf(b, existing)
  BY DEF Untouched, ProxiesOf, IsProxy
<1>3. \A n : KeyMatches(b, n, platform) = KeyMatches(b, n, existing)
  BY DEF Untouched, KeyMatches
<1>4. CASE index[b] # None
  <2>1. existing[index[b]].name = desired[b] /\ existing[index[b]].kind = "proxy"
    BY <1>4 DEF TaskFor, NewTask
  <2>2. platform[index[b]] = existing[index[b]]
    BY <1>1, <1>4 DEF Untouched, ProxiesOf, IsProxy
  <2>3. ProxiesOf(b, platform) = {index[b]}
    BY <1>1, <1>2, <1>4 DEF IInv, CoreInv, UniqueInv, Unique, ProxiesOf
  <2>4. Cardinality(ProxiesOf(b, platform)) = 1
    BY <2>3, FS_Singleton
  <2> QED
    BY <1>1, <2>1, <2>2, <2>3, <2>4 DEF Matches
<1>5. CASE index[b] = None
  <2>1. KeyMatches(b, desired[b], existing) # {} /\ ~options.takeover
    BY <1>5 DEF TaskFor, NewTask
  <2> QED
    BY <1>1, <1>2, <1>3, <1>5, <2>1 DEF Matches
<1> QED
  BY <1>4, <1>5

LEMMA ScheduleDesiredProgress ==
  ASSUME IInv, Progress, NEW b \in Brokers, ScheduleDesired(b)
  PROVE  Progress'
<1> USE DEF Progress
<1>1. PICK t \in TaskFor(b) : task' = [task EXCEPT ![b] = t]
  BY DEF ScheduleDesired
<1>2. /\ task \in [Brokers -> Task] /\ index \in [Brokers -> Guids \cup {None}]
      /\ UNCHANGED <<platform, existing, desired, cursor, orphans, options>>
      /\ b \in todo /\ todo' = todo \ {b} /\ index' = [index EXCEPT ![b] = None]
      /\ task[b].at = "ended" /\ desired[b] # None
  BY DEF ScheduleDesired, IInv, CoreInv, TypeOK, IndexInv, external, process
<1>3. task'[b] = t /\ \A c \in Brokers \ {b} : task'[c] = task[c]
  BY <1>1, <1>2
<1>4. Untouched(b)
  BY <1>2 DEF WantedInv, Undone
<1>5. t = NoTask \/ t.at \in {"put", "call"}
  <2>1. t = NoTask \/ \E op \in {"create", "update", "fetch"} : \E g : t = NewTask(op, g)
    BY DEF TaskFor
  <2> QED
    BY <2>1 DEF NewTask, FirstStep
<1>6. ~Undone(b)' => Matches(b, desired[b], platform)
  <2>1. ~Undone(b)' => t.op \notin {"create", "update"}
    BY <1>3, <1>5 DEF Undone, NoTask
  <2> QED
    BY <1>2, <1>4, <2>1, TaskForServes
<1>7. \A c \in Brokers \ {b} : Undone(c)' <=> Undone(c)
  BY <1>2, <1>3 DEF Undone
<1>8. WantedInv'
  <2>1. Undone(b)
    BY <1>2 DEF Undone
  <2>2. \A c \in Brokers : \/ Undone(c)' <=> Undone(c)
                           \/ ~Undone(c)' /\ Matches(c, desired[c], platform)
    BY <1>6, <1>7, <2>1
  <2> QED
    BY <1>2, <2>2, WantedKeeps
<1>9. UnwantedInv'
  <2>1. /\ \A c \in Brokers : desired[c] = None => ProxiesOf(c, platform) \subseteq orphans
        /\ \A g \in orphans : desired[existing[g].broker] = None
        /\ \A c \in Brokers : index[c] # None => c \in todo \/ desired[c] = None
        /\ cursor # None => desired[cursor] = None
    BY DEF UnwantedInv
  <2>2. \A c \in Brokers : index'[c] # None => c \in todo' \/ desired'[c] = None
    BY <1>2, <2>1
  <2>3. \A c \in Brokers : desired'[c] = None => ProxiesOf(c, platform)' \subseteq orphans'
    BY <1>2, <2>1 DEF ProxiesOf, IsProxy
  <2> QED
    BY <1>2, <2>1, <2>2, <2>3 DEF UnwantedInv
<1>10. DeletionInv'
  <2>1. \A c \in Brokers : desired[c] = None /\ index[c] # None => desired'[c] = None /\ index'[c] # None
    BY <1>2
  <2>2. \A c \in Brokers : task[c].op = "delete" /\ task[c].at \in {"read", "call"}
                              => task'[c].op = "delete" /\ task'[c].at \in {"read", "call"}
    BY <1>2, <1>3
  <2> QED
    BY <1>2, <2>1, <2>2 DEF DeletionInv
<1> QED
  BY <1>8, <1>9, <1>10

LEMMA NextOrphanProgress ==
  ASSUME IInv, Progress, NEW b \in Brokers, NextOrphan(b)
  PROVE  Progress'
<1> USE DEF Progress
<1>1. /\ UNCHANGED <<platform, existing, desired, todo, task, orphans, options>>
      /\ todo = {} /\ index[b] # None /\ index \in [Brokers -> Guids \cup {None}]
      /\ cursor' = b /\ index' = [index EXCEPT ![b] = None]
  BY DEF NextOrphan, external, process, IInv, CoreInv, TypeOK
<1>2. desired[b] = None /\ b # None
  BY <1>1, NoneAssumption DEF UnwantedInv
<1>3. WantedInv'
  <2>1. \A c \in Brokers : Undone(c)' <=> Undone(c)
    BY <1>1 DEF Undone
  <2> QED
    BY <1>1, <2>1, WantedKeeps
<1>4. UnwantedInv'
  <2>1. \A c \in Brokers : index'[c] # None => index[c] # None
    BY <1>1
  <2> QED
    BY <1>1, <1>2, <2>1 DEF UnwantedInv, ProxiesOf, IsProxy
<1>5. DeletionInv'
  BY <1>1, <1>2 DEF DeletionInv
<1> QED
  BY <1>3, <1>4, <1>5

LEMMA ScheduleDeleteProgress ==
  ASSUME IInv, Progress, ScheduleDelete
  PROVE  Progress'
<1> USE DEF Progress
<1>1. /\ UNCHANGED <<platform, existing, desired, todo, index, orphans, options>>
      /\ cursor \in Brokers /\ cursor # None /\ cursor' = None /\ task \in [Brokers -> Task]
      /\ task' = [task EXCEPT ![cursor] = [op |-> "delete", at |-> "read", guid |-> None, cred |-> None]]
  BY DEF ScheduleDelete, external, process, IInv, CoreInv, TypeOK
<1>2. /\ task'[cursor].op = "delete" /\ task'[cursor].at = "read"
      /\ \A c \in Brokers \ {cursor} : task'[c] = task[c]
  BY <1>1
<1>3. desired[cursor] = None
  BY <1>1 DEF UnwantedInv
<1>4. WantedInv'
  <2>1. \A c \in Brokers : desired[c] # None => (Undone(c)' <=> Undone(c))
    BY <1>1, <1>2, <1>3 DEF Undone
  <2> QED
    BY <1>1, <2>1, WantedKeeps
<1>5. UnwantedInv'
  BY <1>1 DEF UnwantedInv, ProxiesOf, IsProxy
<1>6. DeletionInv'
  BY <1>1, <1>2 DEF DeletionInv
<1> QED
  BY <1>4, <1>5, <1>6

\* A step that has nothing to do with the round.
LEMMA UnchangedProgress ==
  ASSUME Progress, UNCHANGED <<platform, existing, desired, todo, index, cursor, task, orphans, options>>
  PROVE  Progress'
<1>1. WantedInv'
  <2>1. \A c \in Brokers : Undone(c)' <=> Undone(c)
    BY DEF Undone
  <2> QED
    BY <2>1, WantedKeeps DEF Progress
<1>2. UnwantedInv' /\ DeletionInv'
  BY DEF Progress, UnwantedInv, DeletionInv, ProxiesOf, IsProxy
<1> QED
  BY <1>1, <1>2 DEF Progress

LEMMA LoopEndProgress ==
  ASSUME Progress, DesiredDone \/ OrphansDone
  PROVE  Progress'
<1>1. UNCHANGED <<platform, existing, desired, todo, index, cursor, task, orphans, options>>
  BY DEF DesiredDone, OrphansDone, external, process
<1> QED
  BY <1>1, UnchangedProgress

\* The round begins with the platform as the snapshot has it, and with every
\* proxy of an undesired broker in the map.
LEMMA StartRoundProgress ==
  ASSUME IInv, StartRound
  PROVE  Progress'
<1>1. /\ UNCHANGED <<platform, desired, cursor, options>>
      /\ existing' = platform /\ todo' = {b \in Brokers : desired[b] # None}
      /\ index' \in [Brokers -> Guids \cup {None}]
      /\ \A b \in Brokers : IF ProxiesOf(b, platform) = {} THEN index'[b] = None
                            ELSE index'[b] \in ProxiesOf(b, platform)
      /\ orphans' = {index'[b] : b \in {b \in Brokers : desired[b] = None}} \ {None}
      /\ cursor = None /\ Unique(platform)
  BY DEF StartRound, external, process, IInv, CoreInv, UniqueInv, TypeOK
<1>2. WantedInv'
  BY <1>1 DEF WantedInv, Undone, Untouched
<1>3. UnwantedInv'
  <2>1. ASSUME NEW c \in Brokers, desired[c] = None, NEW h \in ProxiesOf(c, platform)
        PROVE  h \in orphans'
    <3>1. index'[c] \in ProxiesOf(c, platform)
      BY <1>1, <2>1
    <3>2. h = index'[c] /\ h # None
      BY <1>1, <3>1, NoneAssumption DEF Unique, ProxiesOf
    <3> QED
      BY <1>1, <2>1, <3>2
  <2>2. ASSUME NEW g \in orphans' PROVE desired[platform[g].broker] = None
    BY <1>1, <2>2 DEF ProxiesOf
  <2>3. \A c \in Brokers : index'[c] # None => c \in todo' \/ desired'[c] = None
    BY <1>1
  <2>4. \A c \in Brokers : desired'[c] = None => ProxiesOf(c, platform') \subseteq orphans'
    BY <1>1, <2>1
  <2>5. \A c \in Brokers : desired'[c] = None => ProxiesOf(c, platform)' \subseteq orphans'
    BY <2>4 DEF ProxiesOf, IsProxy
  <2> QED
    BY <1>1, <2>2, <2>3, <2>5 DEF UnwantedInv
<1>4. DeletionInv'
  BY <1>1 DEF DeletionInv
<1> QED
  BY <1>2, <1>3, <1>4 DEF Progress

\* When all tasks have ended, every wanted broker has what it needs.
LEMMA AwaitReturnsReconciles ==
  ASSUME IInv, Progress, AwaitReturns
  PROVE  /\ \A b \in Brokers : desired'[b] # None => Matches(b, desired[b], platform)'
         /\ orphans' # {} => \E g \in orphans' : platform'[g] = None
         /\ Cardinality(orphans') <= 1 => \A b \in Brokers : Matches(b, desired[b], platform)'
<1> USE DEF Progress
<1>1. /\ UNCHANGED <<platform, desired, orphans, options>>
      /\ todo = {} /\ cursor = None /\ \A b \in Brokers : index[b] = None /\ task[b].at = "ended"
      /\ orphans \subseteq Guids
  BY DEF AwaitReturns, external, process, Running, IInv, CoreInv, TypeOK, IndexInv
<1>2. ASSUME NEW b \in Brokers, desired[b] # None PROVE Matches(b, desired[b], platform)
  BY <1>1, <1>2 DEF WantedInv, Undone
<1>3. orphans # {} => \E g \in orphans : platform[g] = None
  BY <1>1 DEF DeletionInv
<1>4. ASSUME Cardinality(orphans) <= 1, NEW b \in Brokers, desired[b] = None
      PROVE  Matches(b, desired[b], platform)
  <2>1. ASSUME NEW g \in ProxiesOf(b, platform) PROVE FALSE
    <3>1. g \in orphans /\ platform[g] # None
      BY <1>4, <2>1 DEF UnwantedInv, ProxiesOf, IsProxy
    <3>2. PICK h \in orphans : platform[h] = None
      BY <1>3, <3>1
    <3>3. IsFiniteSet(orphans)
      BY <1>1, FiniteAssumption, FS_Subset
    <3>4. {g, h} \subseteq orphans /\ IsFiniteSet({g, h}) /\ Cardinality({g, h}) = 2
      <4>1. g # h
        BY <3>1, <3>2
      <4>2. IsFiniteSet({h}) /\ Cardinality({h}) = 1
        BY FS_Singleton
      <4>3. /\ IsFiniteSet({h} \cup {g})
            /\ Cardinality({h} \cup {g}) = IF g \in {h} THEN Cardinality({h}) ELSE Cardinality({h}) + 1
        BY <4>2, FS_AddElement
      <4>4. {h} \cup {g} = {g, h}
        OBVIOUS
      <4> QED
        BY <3>1, <4>1, <4>2, <4>3, <4>4
    <3>5. Cardinality({g, h}) <= Cardinality(orphans) /\ Cardinality(orphans) \in Nat
      BY <3>3, <3>4, FS_Subset, FS_CardinalityType
    <3> QED
      BY <1>4, <3>4, <3>5
  <2>2. ProxiesOf(b, platform) = {}
    BY <2>1
  <2> QED
    BY <1>4, <2>2 DEF Matches
<1>5. \A b \in Brokers : Matches(b, desired[b], platform) => Matches(b, desired[b], platform)'
  BY <1>1 DEF Matches, ProxiesOf, KeyMatches, IsProxy
<1>6. \A b \in Brokers : desired'[b] # None => Matches(b, desired[b], platform)'
  BY <1>1, <1>2, <1>5
<1>7. orphans' # {} => \E g \in orphans' : platform'[g] = None
  BY <1>1, <1>3
<1>8. Cardinality(orphans) <= 1 => \A b \in Brokers : Matches(b, desired[b], platform)'
  BY <1>2, <1>4, <1>5
<1>9. Cardinality(orphans') <= 1 => \A b \in Brokers : Matches(b, desired[b], platform)'
  BY <1>1, <1>8
<1> QED
  BY <1>6, <1>7, <1>9

LEMMA ProgressInit == Init => ProgressInv
<1>1. Init => LoginInv
  BY LoginInit
<1> QED
  BY <1>1 DEF Init, ProgressInv, RoundReconciles

\* Users, faults, rejections and failed fetches disturb a round.
LEMMA Disturbed ==
  ASSUME Environment \/ Rejected \/ FetchFails \/ \E b \in Brokers : Fault(b)
  PROVE  clean' = FALSE
<1>1. Disturbance => clean' = FALSE
  BY DEF Disturbance
<1>2. CASE Environment
  BY <1>1, <1>2 DEF Environment, Cancel, SMChanges, OperatorRegisters, OperatorRenames, OperatorDeletes, Changed
<1>3. CASE Rejected
  BY <1>3 DEF Rejected, DeleteRejected, DesiredRejected
<1>4. CASE FetchFails
  BY <1>1, <1>4 DEF FetchFails
<1>5. CASE \E b \in Brokers : Fault(b)
  BY <1>1, <1>5 DEF Fault, PutFails, CallFails, ActivateFails
<1> QED
  BY <1>2, <1>3, <1>4, <1>5

LEMMA ProgressStep == ProgressInv /\ [Next]_vars => ProgressInv'
<1> SUFFICES ASSUME ProgressInv, [Next]_vars PROVE ProgressInv'
  OBVIOUS
<1>1. LoginInv' /\ IInv /\ QuietInv
  BY LoginStep DEF ProgressInv, LoginInv, IInv, CoreInv
<1>2. SUFFICES ASSUME clean'
               PROVE  (InRound' => Progress') /\ RoundReconciles'
  BY <1>1 DEF ProgressInv, RoundReconciles, Progress
<1>3. clean /\ InRound => Progress
  BY DEF ProgressInv, Progress
<1>4. CASE StartRound
  BY <1>1, <1>4, StartRoundProgress DEF StartRound, RoundReconciles
<1>5. CASE FetchSM
  BY <1>5 DEF FetchSM, InRound, RoundReconciles
<1>6. CASE AwaitReturns
  <2>1. clean /\ InRound
    BY <1>2, <1>6 DEF AwaitReturns, InRound
  <2>2. RoundReconciles'
    BY <1>1, <1>3, <1>6, <2>1, AwaitReturnsReconciles DEF RoundReconciles
  <2> QED
    BY <1>6, <2>2 DEF AwaitReturns, InRound
<1>7. CASE DesiredDone \/ ScheduleDelete \/ OrphansDone \/ \E b \in Brokers : ScheduleDesired(b) \/ NextOrphan(b)
  <2>1. clean /\ InRound /\ phase' # "idle"
    BY <1>2, <1>7 DEF DesiredDone, ScheduleDelete, OrphansDone, ScheduleDesired, NextOrphan, InRound
  <2>2. Progress'
    BY <1>1, <1>3, <1>7, <2>1, LoopEndProgress, ScheduleDeleteProgress, ScheduleDesiredProgress, NextOrphanProgress
  <2> QED
    BY <2>1, <2>2 DEF RoundReconciles
<1>8. ASSUME NEW b \in Brokers, TaskStep(b)
      PROVE  (InRound' => Progress') /\ RoundReconciles'
  <2>1. b \in Running /\ clean' = clean /\ phase' = phase
    BY <1>8 DEF TaskStep, Put, PutConflicts, ReadArgument, CallSucceeds, CallRefused, Activate, Advance, Running
  <2>2. clean /\ InRound /\ phase' # "idle"
    BY <1>1, <1>2, <2>1 DEF QuietInv, InRound
  <2>3. Progress'
    BY <1>1, <1>3, <1>8, <2>2, QuietProgress, RefusedProgress, CallProgress DEF TaskStep
  <2> QED
    BY <2>2, <2>3 DEF RoundReconciles
<1>9. CASE UNCHANGED vars
  <2>1. UNCHANGED <<platform, existing, desired, todo, index, cursor, task, orphans, options, phase, clean>>
    BY <1>9 DEF vars, external, process, round
  <2>2. clean /\ InRound => Progress'
    BY <1>3, <2>1, UnchangedProgress
  <2>3. RoundReconciles
    BY DEF ProgressInv
  <2>4. \A b \in Brokers : Matches(b, desired[b], platform) => Matches(b, desired[b], platform)'
    BY <2>1 DEF Matches, ProxiesOf, KeyMatches, IsProxy
  <2>5. RoundReconciles'
    BY <2>1, <2>3, <2>4 DEF RoundReconciles
  <2> QED
    BY <1>2, <2>1, <2>2, <2>5 DEF InRound
<1> QED
  BY <1>2, <1>4, <1>5, <1>6, <1>7, <1>8, <1>9, Disturbed DEF Next, RoundStep

\* How far a round has come that nothing has disturbed.
THEOREM ProgressInvariant == Spec => []ProgressInv
  BY ProgressInit, ProgressStep, PTL DEF Spec

\* A round that nothing disturbed leaves every wanted broker as SM has it, and at
\* least one of the proxies that were left over is gone.
THEOREM RoundsReconcile == Spec => []RoundReconciles
<1>1. ProgressInv => RoundReconciles
  BY DEF ProgressInv
<1> QED
  BY <1>1, ProgressInvariant, PTL
=============================================================================
