---------------------- MODULE NotificationPipelineProofs ----------------------
(***************************************************************************)
(* Proofs about NotificationPipeline for every set of resources, every     *)
(* queue size, every number of revisions and every set of events.          *)
(***************************************************************************)
EXTENDS NotificationPipeline, TLAPS

\* The reader holds a revision of the connection it reads from.
CursorSet == reader # "off" \/ run \in {"signal", "start"} => cursor \in Nat

TypeInv == TypeOK /\ CursorSet

LEMMA TypeInit == Init => TypeInv
<1> SUFFICES ASSUME Init PROVE TypeInv
  OBVIOUS
<1> USE DEF Init, Blank, NoRevision
<1>1. messages \in Seq(Nat) /\ Len(messages) <= QueueSize /\ log \in Seq(Keys)
  BY BoundsAssumption
<1>2. fetched \in [Keys -> Nat \cup {NoRevision}] /\ sm \in [Keys -> Nat] /\ platform \in [Keys -> Nat]
  OBVIOUS
<1> QED
  BY <1>1, <1>2 DEF TypeInv, TypeOK, CursorSet

LEMMA TypeNext == TypeInv /\ [Next]_vars => TypeInv'
<1> SUFFICES ASSUME TypeInv, [Next]_vars PROVE TypeInv'
  OBVIOUS
<1> USE BoundsAssumption
    DEF TypeInv, TypeOK, CursorSet, NoRevision, Resync, envVars, producerVars,
        reconcilerVars, runFrame, schedFrame, streamFrame, reconcilerFrame
<1>1. ASSUME NEW k \in Keys, Publish(k) PROVE TypeInv'
  BY <1>1 DEF Publish
<1>2. CASE Cancel
  BY <1>2 DEF Cancel
<1>3. CASE RunStep
  <2>1. CASE ConnectFails \/ ConnectGone \/ Reconnect \/ RunExits
    BY <2>1 DEF ConnectFails, ConnectGone, Reconnect, RunExits
  <2>2. RevisionsFromHeader \subseteq Nat \cup {NoRevision}
    BY DEF RevisionsFromHeader
  <2>3. CASE ConnectBadPingPeriod
    BY <2>2, <2>3 DEF ConnectBadPingPeriod
  <2>4. CASE ConnectSucceeds
    BY <2>2, <2>4 DEF ConnectSucceeds, needResync
  <2>5. CASE SignalResync \/ StartStreams
    BY <2>5 DEF SignalResync, StartStreams
  <2>6. CASE AwaitFirst \/ AwaitSecond
    BY <2>6 DEF AwaitFirst, AwaitSecond
  <2> QED
    BY <1>3, <2>1, <2>3, <2>4, <2>5, <2>6 DEF RunStep
<1>4. CASE SchedStep
  <2>1. CASE ResyncPeriodElapses
    BY <2>1 DEF ResyncPeriodElapses
  <2>2. CASE SendResync
    BY <2>2 DEF SendResync
  <2>3. CASE SchedExits
    BY <2>3 DEF SchedExits
  <2> QED
    BY <1>4, <2>1, <2>2, <2>3 DEF SchedStep
<1>5. CASE ReaderStep
  <2>1. CASE PushNotification
    BY <2>1 DEF PushNotification
  <2>2. CASE ReadMessage
    BY <2>2 DEF ReadMessage
  <2>3. CASE ReadFails \/ ReaderCancelled
    BY <2>3 DEF ReadFails, ReaderCancelled
  <2>4. CASE CommitRevision
    BY <2>4 DEF CommitRevision
  <2> QED
    BY <1>5, <2>1, <2>2, <2>3, <2>4 DEF ReaderStep
<1>6. CASE PingerStep
  BY <1>6 DEF PingerStep, PingFails, PingerCancelled
<1>7. CASE ReconcilerStep
  <2>1. CASE ReconcilerExits \/ ConsumeFails
    BY <2>1 DEF ReconcilerExits, ConsumeFails
  <2>6. CASE ConsumeApplies
    <3>1. platform' = [platform EXCEPT ![log[current]] = current] /\ current \in Nat
      BY <2>6 DEF ConsumeApplies
    <3>2. platform' \in [Keys -> Nat]
      BY <3>1, Zenon
    <3> QED
      BY <2>6, <3>2 DEF ConsumeApplies
  <2>2. CASE Receive
    BY <2>2 DEF Receive
  <2>3. CASE DrainOne
    BY <2>3 DEF DrainOne
  <2>4. CASE DrainDone \/ ResyncAborts
    BY <2>4 DEF DrainDone, ResyncAborts
  <2>5. ASSUME NEW k \in Keys, Fetch(k) PROVE TypeInv'
    BY <2>5 DEF Fetch
  <2>7. ASSUME NEW k \in Keys, SyncKey(k) PROVE TypeInv'
    BY <2>7 DEF SyncKey, FinishKey
  <2>8. ASSUME NEW k \in Keys, SyncKeyFails(k) PROVE TypeInv'
    BY <2>8 DEF SyncKeyFails, FinishKey
  <2> QED
    BY <1>7, <2>1, <2>2, <2>3, <2>4, <2>5, <2>6, <2>7, <2>8 DEF ReconcilerStep
<1>8. CASE UNCHANGED vars
  BY <1>8 DEF vars
<1> QED
  BY <1>1, <1>2, <1>3, <1>4, <1>5, <1>6, <1>7, <1>8 DEF Next

\* The variables keep their types: in particular the channel never holds more
\* than its capacity and only revisions the reader really has.
THEOREM TypeCorrect == Spec => []TypeOK
<1>1. TypeInv => TypeOK
  BY DEF TypeInv
<1> QED
  BY <1>1, TypeInit, TypeNext, PTL DEF Spec

-----------------------------------------------------------------------------
(* Lemmas about the channel as a set of messages.                          *)

LEMMA PendingOfAppend ==
  ASSUME TypeInv, NEW m \in Nat, messages' = Append(messages, m)
  PROVE  Pending' = Pending \cup {m}
<1>1. messages \in Seq(Nat)
  BY DEF TypeInv, TypeOK
<1>2. /\ Len(messages') = Len(messages) + 1
      /\ \A i \in 1..Len(messages) : messages'[i] = messages[i]
      /\ messages'[Len(messages) + 1] = m
  BY <1>1
<1>3. Len(messages) \in Nat
  BY <1>1
<1> QED
  BY <1>2, <1>3 DEF Pending

LEMMA PendingOfTail ==
  ASSUME TypeInv, messages # <<>>, messages' = Tail(messages)
  PROVE  Pending = {Head(messages)} \cup Pending'
<1>1. messages \in Seq(Nat)
  BY DEF TypeInv, TypeOK
<1>2. /\ Len(messages) \in Nat \ {0}
      /\ Len(messages') = Len(messages) - 1
      /\ \A i \in 1..Len(messages') : messages'[i] = messages[i + 1]
      /\ Head(messages) = messages[1]
  BY <1>1
<1>3. \A i \in 1..Len(messages) : i = 1 \/ i - 1 \in 1..Len(messages')
  BY <1>2
<1>4. \A i \in 1..Len(messages) : i # 1 => messages[i] = messages'[i - 1]
  BY <1>2, <1>3
<1>5. Pending \subseteq {Head(messages)} \cup Pending'
  BY <1>2, <1>3, <1>4 DEF Pending
<1>6. {Head(messages)} \cup Pending' \subseteq Pending
  BY <1>2 DEF Pending
<1> QED
  BY <1>5, <1>6

-----------------------------------------------------------------------------
(* Where the goroutines are and what revision they are at.                 *)

LEMMA SuccInterval == \A n \in Nat : \A c \in 0..n : c + 1 \in 1..(n + 1)
  OBVIOUS

LEMMA FrontierBounds == TypeInv /\ RevisionsInv => Frontier \in 1..(Len(log) + 1)
  BY DEF TypeInv, TypeOK, RevisionsInv, Connected, Frontier, NoRevision

LEMMA RevisionsInit == Init => RevisionsInv
  BY DEF Init, Blank, RevisionsInv, Connected, NoRevision

LEMMA RevisionsNext ==
  TypeInv /\ TypeInv' /\ RevisionsInv /\ [Next]_vars => RevisionsInv'
<1> SUFFICES ASSUME TypeInv, TypeInv', RevisionsInv, [Next]_vars PROVE RevisionsInv'
  OBVIOUS
<1>0. Len(log) \in Nat /\ last \in Nat \cup {NoRevision} /\ cursor \in Nat \cup {NoRevision}
  BY DEF TypeInv, TypeOK
<1> USE <1>0 DEF RevisionsInv, Connected, NoRevision, Resync, envVars, producerVars,
        reconcilerVars, runFrame, schedFrame, streamFrame, reconcilerFrame
<1>1. ASSUME NEW k \in Keys, Publish(k) PROVE RevisionsInv'
  <2>1. /\ log \in Seq(Keys) /\ sm \in [Keys -> Nat]
        /\ log' = Append(log, k) /\ sm' = [sm EXCEPT ![k] = Len(log) + 1]
    BY <1>1 DEF Publish, TypeInv, TypeOK
  <2>2. /\ Len(log') = Len(log) + 1
        /\ \A r \in 1..Len(log) : log'[r] = log[r] /\ log[r] \in Keys
        /\ log'[Len(log) + 1] = k
    BY <2>1
  <2>3. \A j \in Keys : sm'[j] <= Len(log') /\ (sm'[j] # 0 => log'[sm'[j]] = j)
    <3> SUFFICES ASSUME NEW j \in Keys
                 PROVE  sm'[j] <= Len(log') /\ (sm'[j] # 0 => log'[sm'[j]] = j)
      OBVIOUS
    <3>1. CASE j = k
      BY <2>1, <2>2, <3>1
    <3>2. CASE j # k
      BY <2>1, <2>2, <3>2
    <3> QED
      BY <3>1, <3>2
  <2>4. \A r \in 1..Len(log') : r <= sm'[log'[r]]
    <3> SUFFICES ASSUME NEW r \in 1..Len(log') PROVE r <= sm'[log'[r]]
      OBVIOUS
    <3>1. CASE r = Len(log) + 1
      BY <3>1, <2>1, <2>2
    <3>2. CASE r \in 1..Len(log)
      BY <3>2, <2>1, <2>2
    <3> QED
      BY <3>1, <3>2, <2>2
  <2>5. UNCHANGED <<last, cursor, run, reader, ctxDone, reconciler, current, unsynced>>
    BY <1>1 DEF Publish
  <2>6. Connected' => cursor' \in 0..Len(log')
    BY <2>2, <2>5
  <2>7. last' <= Len(log')
    BY <2>2, <2>5
  <2> HIDE DEF RevisionsInv
  <2>8. /\ reader \in {"push", "commit"} => cursor >= 1
        /\ reader = "read" \/ run \in {"signal", "start"} => last \in {cursor, NoRevision}
        /\ reader = "push" => last \in {cursor - 1, NoRevision}
        /\ run \in {"connect", "signal", "start", "backoff", "exit"} => reader = "off"
        /\ run = "exit" => ctxDone
        /\ last # 0
        /\ reconciler = "consume" => current >= 1
        /\ unsynced # {} => reconciler = "resync"
    BY DEF RevisionsInv
  <2> QED
    BY <2>3, <2>4, <2>5, <2>6, <2>7, <2>8 DEF RevisionsInv
<1>2. CASE Cancel
  BY <1>2 DEF Cancel
<1>3. CASE RunStep
  <2>1. CASE ConnectFails \/ ConnectGone \/ Reconnect \/ RunExits
    BY <2>1 DEF ConnectFails, ConnectGone, Reconnect, RunExits
  <2>2. CASE ConnectBadPingPeriod
    BY <2>2 DEF ConnectBadPingPeriod, RevisionsFromHeader
  <2>3. CASE ConnectSucceeds
    BY <2>3 DEF ConnectSucceeds, needResync, RevisionsFromHeader
  <2>4. CASE SignalResync \/ StartStreams
    BY <2>4 DEF SignalResync, StartStreams
  <2>5. CASE AwaitFirst \/ AwaitSecond
    BY <2>5 DEF AwaitFirst, AwaitSecond
  <2> QED
    BY <1>3, <2>1, <2>2, <2>3, <2>4, <2>5 DEF RunStep
<1>4. CASE SchedStep
  BY <1>4 DEF SchedStep, ResyncPeriodElapses, SendResync, SchedExits
<1>5. CASE ReaderStep
  <2>1. CASE ReadMessage
    BY <2>1 DEF ReadMessage
  <2>2. CASE ReadFails \/ ReaderCancelled
    BY <2>2 DEF ReadFails, ReaderCancelled
  <2>3. CASE PushNotification \/ CommitRevision
    BY <2>3 DEF PushNotification, CommitRevision
  <2> QED
    BY <1>5, <2>1, <2>2, <2>3 DEF ReaderStep
<1>6. CASE PingerStep
  BY <1>6 DEF PingerStep, PingFails, PingerCancelled
<1>7. CASE ReconcilerStep
  <2>1. CASE ReconcilerExits \/ ConsumeApplies \/ ConsumeFails
    BY <2>1 DEF ReconcilerExits, ConsumeApplies, ConsumeFails
  <2>2. CASE Receive
    BY <2>2 DEF Receive, TypeInv, TypeOK
  <2>3. CASE DrainOne \/ DrainDone \/ ResyncAborts
    BY <2>3 DEF DrainOne, DrainDone, ResyncAborts
  <2>4. ASSUME NEW k \in Keys, Fetch(k) \/ SyncKey(k) \/ SyncKeyFails(k)
        PROVE  RevisionsInv'
    BY <2>4 DEF Fetch, SyncKey, SyncKeyFails, FinishKey
  <2> QED
    BY <1>7, <2>1, <2>2, <2>3, <2>4 DEF ReconcilerStep
<1>8. CASE UNCHANGED vars
  BY <1>8 DEF vars
<1> QED
  BY <1>1, <1>2, <1>3, <1>4, <1>5, <1>6, <1>7, <1>8 DEF Next

-----------------------------------------------------------------------------
(* How a step moves the frontier: never back, forward by one with a push, and  *)
(* over the revisions the producer forgets only if a resync makes up for them. *)

FrontierKept ==
  \/ Frontier' = Frontier
  \/ PushNotification
  \/ ResyncPending'
  \/ ctxDone
  \/ "badPing" \in Events

LEMMA FrontierStep ==
  ASSUME TypeInv, TypeInv', RevisionsInv, RevisionsInv', [Next]_vars
  PROVE  /\ Frontier' >= Frontier
         /\ PushNotification => Frontier = cursor /\ Frontier' = cursor + 1
         /\ FrontierKept
<1> DEFINE Goal == /\ Frontier' >= Frontier
                   /\ PushNotification => Frontier = cursor /\ Frontier' = cursor + 1
                   /\ FrontierKept
<1>a. /\ Len(log) \in Nat /\ last \in Nat \cup {NoRevision}
      /\ cursor \in Nat \cup {NoRevision}
      /\ last' \in Nat \cup {NoRevision} /\ cursor' \in Nat \cup {NoRevision}
      /\ Frontier \in 1..(Len(log) + 1)
  BY FrontierBounds DEF TypeInv, TypeOK
<1>b. PushNotification => Frontier = cursor /\ Frontier' = cursor + 1
  BY <1>a DEF PushNotification, Frontier, Connected, streamFrame
<1>c. ASSUME UNCHANGED <<log, run, reader, last, cursor>> PROVE Goal
  BY <1>a, <1>b, <1>c DEF Frontier, Connected, FrontierKept
<1> USE <1>a DEF FrontierKept, Frontier, Connected, NoRevision, RevisionsInv, envVars,
        producerVars, reconcilerVars, runFrame, schedFrame, streamFrame,
        reconcilerFrame
<1>1. ASSUME NEW k \in Keys, Publish(k) PROVE Goal
  <2>1. Len(log') = Len(log) + 1 /\ UNCHANGED <<run, reader, last, cursor, ctxDone>>
    BY <1>1 DEF Publish, TypeInv, TypeOK
  <2>2. Frontier' >= Frontier
    BY <2>1
  <2>3. Frontier' = Frontier \/ (last = NoRevision /\ ~Connected)
    BY <2>1
  <2>4. last = NoRevision /\ ~Connected => ResyncPending' \/ ctxDone
    BY <2>1 DEF ResyncPending, TypeInv, TypeOK
  <2> QED
    BY <1>b, <2>2, <2>3, <2>4
<1>2. CASE Cancel \/ SchedStep \/ PingerStep \/ UNCHANGED vars
  <2>1. UNCHANGED <<log, run, reader, last, cursor>> \/ SignalResync
    BY <1>2 DEF Cancel, SchedStep, ResyncPeriodElapses, SendResync, SchedExits,
                PingerStep, PingFails, PingerCancelled, vars
  <2> QED
    BY <1>c, <1>2, <2>1 DEF SignalResync, Cancel, SchedStep, ResyncPeriodElapses,
                SendResync, SchedExits, PingerStep, PingFails, PingerCancelled, vars
<1>3. CASE ReconcilerStep
  <2>1. UNCHANGED <<log, run, reader, last, cursor>>
    BY <1>3 DEF ReconcilerStep, ReconcilerExits, Receive, ConsumeApplies, ConsumeFails,
                DrainOne, DrainDone, ResyncAborts, Fetch, SyncKey, SyncKeyFails, FinishKey
  <2> QED
    BY <1>c, <2>1
<1>4. CASE RunStep
  <2>0. ~PushNotification
    BY <1>4 DEF RunStep, ConnectFails, ConnectGone, ConnectBadPingPeriod, ConnectSucceeds,
                SignalResync, StartStreams, AwaitFirst, AwaitSecond, Reconnect, RunExits,
                PushNotification
  <2>1. CASE ConnectFails \/ Reconnect \/ RunExits
    BY <1>b, <2>1 DEF ConnectFails, Reconnect, RunExits
  <2>2. CASE ConnectGone
    BY <1>b, <2>2 DEF ConnectGone, ResyncPending
  <2>3. CASE ConnectBadPingPeriod
    BY <1>b, <2>3 DEF ConnectBadPingPeriod, RevisionsFromHeader
  <2>4. CASE ConnectSucceeds
    BY <1>b, <2>4 DEF ConnectSucceeds, needResync, RevisionsFromHeader
  <2>5. CASE SignalResync
    BY <1>b, <2>5 DEF SignalResync
  <2>6. CASE StartStreams
    BY <1>b, <2>6 DEF StartStreams
  <2>7. CASE AwaitFirst \/ AwaitSecond
    BY <1>b, <2>7 DEF AwaitFirst, AwaitSecond
  <2> QED
    BY <1>4, <2>1, <2>2, <2>3, <2>4, <2>5, <2>6, <2>7 DEF RunStep
<1>5. CASE ReaderStep
  <2>1. CASE ReadMessage
    BY <1>b, <2>1 DEF ReadMessage
  <2>2. CASE ReadFails \/ ReaderCancelled
    <3>1. /\ reader # "off" /\ reader' = "off"
          /\ UNCHANGED <<log, run, last, cursor, ctxDone>>
      BY <2>2 DEF ReadFails, ReaderCancelled
    <3>2. run \in {"await1", "await2"}
      BY <3>1 DEF TypeInv, TypeOK
    <3>3. last = NoRevision => ResyncPending'
      BY <3>1, <3>2 DEF ResyncPending
    <3>4. Frontier' >= Frontier /\ (last # NoRevision => Frontier' = Frontier)
      BY <2>2, <3>1, <3>2 DEF ReadFails, ReaderCancelled
    <3> QED
      BY <1>b, <3>3, <3>4
  <2>3. CASE PushNotification
    BY <1>b, <2>3
  <2>4. CASE CommitRevision
    BY <1>b, <2>4 DEF CommitRevision
  <2> QED
    BY <1>5, <2>1, <2>2, <2>3, <2>4 DEF ReaderStep
<1> QED
  BY <1>1, <1>2, <1>3, <1>4, <1>5 DEF Next

-----------------------------------------------------------------------------
(* The order of the channel.                                               *)

LEMMA OrderedInit == Init => OrderedDelivery
  BY DEF Init, Blank, OrderedDelivery, Frontier, Connected, NoRevision

LEMMA OrderedNext ==
  TypeInv /\ TypeInv' /\ RevisionsInv /\ RevisionsInv' /\ OrderedDelivery /\ [Next]_vars
    => OrderedDelivery'
<1> SUFFICES ASSUME TypeInv, TypeInv', RevisionsInv, RevisionsInv', OrderedDelivery,
                    [Next]_vars
             PROVE  OrderedDelivery'
  OBVIOUS
<1>1. /\ Frontier' >= Frontier /\ Frontier \in Nat /\ Frontier' \in Nat
      /\ PushNotification => Frontier = cursor /\ Frontier' = cursor + 1
  <2>1. Len(log) \in Nat /\ Len(log') \in Nat
    BY DEF TypeInv, TypeOK
  <2>2. Frontier \in 1..(Len(log) + 1)
    BY FrontierBounds
  <2>4. last' \in Nat \cup {NoRevision} /\ cursor' \in Nat \cup {NoRevision}
    BY DEF TypeInv, TypeOK
  <2>3. Frontier' \in 1..(Len(log') + 1)
    <3>1. /\ last' <= Len(log') /\ last' # 0
          /\ Connected' => cursor' \in 0..Len(log')
          /\ reader' = "push" => cursor' >= 1
      BY DEF RevisionsInv
    <3>2. CASE reader' = "push"
      <4>1. Frontier' = cursor'
        BY <3>2 DEF Frontier
      <4> QED
        BY <4>1, <3>1, <3>2, <2>1, <2>4 DEF Connected, NoRevision
    <3>3. CASE reader' # "push" /\ Connected'
      <4>1. Frontier' = cursor' + 1
        BY <3>3 DEF Frontier
      <4> QED
        BY <4>1, <3>1, <3>3, <2>1, SuccInterval, Zenon
    <3>4. CASE reader' # "push" /\ ~Connected'
      <4>1. \/ Frontier' = Len(log') + 1
            \/ last' # NoRevision /\ Frontier' = last' + 1
        BY <3>4 DEF Frontier
      <4>2. Len(log') \in 0..Len(log') /\ (last' # NoRevision => last' \in 0..Len(log'))
        BY <2>1, <2>4, <3>1 DEF NoRevision
      <4> QED
        BY <4>1, <4>2, <2>1, SuccInterval, Zenon
    <3> QED
      BY <3>2, <3>3, <3>4
  <2> QED
    BY FrontierStep, <2>1, <2>2, <2>3
<1>2. messages \in Seq(Nat) /\ current \in Nat /\ cursor \in Nat \cup {NoRevision}
  BY DEF TypeInv, TypeOK
<1>3. ASSUME UNCHANGED <<messages, current>> PROVE OrderedDelivery'
  BY <1>1, <1>2, <1>3 DEF OrderedDelivery
<1>4. ASSUME messages # <<>>, messages' = Tail(messages),
             current' = current \/ (current' = Head(messages) /\ Head(messages) # Resync)
      PROVE  OrderedDelivery'
  <2>1. /\ Len(messages') = Len(messages) - 1 /\ Len(messages) \in Nat
        /\ \A i \in 1..Len(messages') : messages'[i] = messages[i + 1] /\ messages[i + 1] \in Nat
        /\ 1 \in 1..Len(messages) /\ Head(messages) = messages[1]
    BY <1>2, <1>4
  <2>2. \A i, j \in 1..Len(messages') :
           i < j /\ messages'[i] # Resync /\ messages'[j] # Resync
             => messages'[i] < messages'[j]
    BY <2>1 DEF OrderedDelivery
  <2>3. \A i \in 1..Len(messages') : messages'[i] # Resync
           => current' < messages'[i] /\ messages'[i] < Frontier'
    BY <2>1, <1>1, <1>4 DEF OrderedDelivery
  <2>4. current' < Frontier'
    BY <2>1, <1>1, <1>2, <1>4 DEF OrderedDelivery
  <2> QED
    BY <2>2, <2>3, <2>4 DEF OrderedDelivery
<1>5. ASSUME NEW m \in Nat, messages' = Append(messages, m), current' = current,
             m # Resync => m = Frontier /\ Frontier' = Frontier + 1
      PROVE  OrderedDelivery'
  <2>1. /\ Len(messages') = Len(messages) + 1 /\ Len(messages) \in Nat
        /\ \A i \in 1..Len(messages) : messages'[i] = messages[i] /\ messages[i] \in Nat
        /\ messages'[Len(messages) + 1] = m
    BY <1>2, <1>5
  <2>2. \A i, j \in 1..Len(messages') :
           i < j /\ messages'[i] # Resync /\ messages'[j] # Resync
             => messages'[i] < messages'[j]
    BY <2>1, <1>5 DEF OrderedDelivery
  <2>3. \A i \in 1..Len(messages') : messages'[i] # Resync
           => current' < messages'[i] /\ messages'[i] < Frontier'
    BY <2>1, <1>1, <1>2, <1>5 DEF OrderedDelivery
  <2>4. current' < Frontier'
    BY <1>1, <1>2, <1>5 DEF OrderedDelivery
  <2> QED
    BY <2>2, <2>3, <2>4 DEF OrderedDelivery
<1> USE DEF envVars, producerVars, reconcilerVars, runFrame, schedFrame,
        streamFrame, reconcilerFrame
<1>6. CASE Receive
  BY <1>6, <1>4 DEF Receive
<1>7. CASE DrainOne
  BY <1>7, <1>4 DEF DrainOne
<1>8. CASE SendResync
  BY <1>8, <1>5 DEF SendResync, Resync
<1>9. CASE PushNotification
  <2>1. cursor \in Nat
    BY <1>9, <1>2 DEF PushNotification, RevisionsInv, NoRevision
  <2> QED
    BY <1>9, <2>1, <1>1, <1>5 DEF PushNotification
<1>10. ASSUME ~Receive, ~DrainOne, ~SendResync, ~PushNotification
       PROVE  UNCHANGED <<messages, current>>
  <2>1. ASSUME NEW k \in Keys, Publish(k) \/ Fetch(k) \/ SyncKey(k) \/ SyncKeyFails(k)
        PROVE  UNCHANGED <<messages, current>>
    BY <2>1 DEF Publish, Fetch, SyncKey, SyncKeyFails, FinishKey
  <2>2. CASE Cancel \/ PingerStep \/ UNCHANGED vars
    BY <2>2 DEF Cancel, PingerStep, PingFails, PingerCancelled, vars
  <2>3. CASE RunStep
    BY <2>3 DEF RunStep, ConnectFails, ConnectGone, ConnectBadPingPeriod, ConnectSucceeds,
                SignalResync, StartStreams, AwaitFirst, AwaitSecond, Reconnect, RunExits
  <2>4. CASE SchedStep \/ ReaderStep
    BY <1>10, <2>4 DEF SchedStep, ResyncPeriodElapses, SchedExits, ReaderStep,
                ReadMessage, ReadFails, CommitRevision, ReaderCancelled
  <2>5. CASE ReconcilerStep
    BY <1>10, <2>1, <2>5 DEF ReconcilerStep, ReconcilerExits, ConsumeApplies,
                ConsumeFails, DrainDone, ResyncAborts
  <2> QED
    BY <2>1, <2>2, <2>3, <2>4, <2>5 DEF Next
<1> QED
  BY <1>3, <1>6, <1>7, <1>8, <1>9, <1>10

-----------------------------------------------------------------------------
(* No change is lost.                                                      *)

\* What the step must leave true of the changes that are not on the platform.
Held == ~ctxDone /\ Events \cap LossyEvents = {} => UpClosed /\ Coverage

LEMMA HeldInit == Init => Held
  BY DEF Init, Blank, Held, UpClosed, Coverage, Covered, ResyncPending, NoRevision

\* A step that neither publishes, copies nor consumes, and does not end a drain:
\* it changes what is in flight only if a resync is to start.
Quiet ==
  /\ UNCHANGED <<log, sm, platform, unsynced, fetched>>
  /\ ResyncPending => ResyncPending'
  /\ ResyncPending' \/ \A r \in Nat : InFlight(r)' <=> InFlight(r)

Lossless == Events \cap LossyEvents = {}

LEMMA CancelledStays == ctxDone /\ [Next]_vars => ctxDone'
  BY DEF Next, vars, Publish, Cancel, RunStep, ConnectFails, ConnectGone, ConnectBadPingPeriod,
         ConnectSucceeds, SignalResync, StartStreams, AwaitFirst, AwaitSecond, Reconnect,
         RunExits, SchedStep, ResyncPeriodElapses, SendResync, SchedExits, ReaderStep,
         ReadMessage, ReadFails, PushNotification, CommitRevision, ReaderCancelled,
         PingerStep, PingFails, PingerCancelled, ReconcilerStep, ReconcilerExits, Receive,
         ConsumeApplies, ConsumeFails, DrainOne, DrainDone, ResyncAborts, Fetch, SyncKey,
         SyncKeyFails, FinishKey, runFrame, schedFrame, streamFrame, reconcilerFrame

LEMMA FrontierSteps ==
  ASSUME TypeInv, TypeInv', RevisionsInv, RevisionsInv', [Next]_vars, ~ctxDone, Lossless
  PROVE  /\ Frontier \in 1..(Len(log) + 1) /\ Frontier \in Nat /\ Len(log) \in Nat
         /\ Frontier' >= Frontier
         /\ PushNotification => Frontier = cursor /\ Frontier' = cursor + 1
         /\ Frontier' = Frontier \/ PushNotification \/ ResyncPending'
<1>1. Len(log) \in Nat
  BY DEF TypeInv, TypeOK
<1>2. Frontier \in 1..(Len(log) + 1)
  BY FrontierBounds
<1>3. "badPing" \notin Events
  BY DEF Lossless, LossyEvents
<1> QED
  BY <1>1, <1>2, <1>3, FrontierStep DEF FrontierKept

LEMMA QuietStep ==
  ASSUME TypeInv, TypeInv', RevisionsInv, RevisionsInv', [Next]_vars, ~ctxDone', Lossless,
         ~ConsumeApplies, ~DrainDone,
         \A k \in Keys : ~Publish(k) /\ ~Fetch(k) /\ ~SyncKey(k)
  PROVE  Quiet
<1>1. /\ "badPing" \notin Events /\ "resyncFails" \notin Events
      /\ "applyFails" \notin Events
  BY DEF Lossless, LossyEvents
<1>2. ~ctxDone
  BY CancelledStays
<1>3. /\ Frontier \in 1..(Len(log) + 1) /\ Frontier \in Nat /\ Len(log) \in Nat
      /\ Frontier' >= Frontier
      /\ PushNotification => Frontier = cursor /\ Frontier' = cursor + 1
      /\ Frontier' = Frontier \/ PushNotification \/ ResyncPending'
  BY <1>2, FrontierSteps
<1>4. ASSUME UNCHANGED <<log, sm, platform, unsynced, fetched>>,
             ResyncPending => ResyncPending',
             ResyncPending' \/ \A r \in Nat : InFlight(r)' <=> InFlight(r)
      PROVE  Quiet
  BY <1>4 DEF Quiet
\* In particular one that leaves the channel and the reconciler alone.
<1>5. ASSUME UNCHANGED <<log, sm, platform, unsynced, fetched, messages, reconciler, current>>,
             ResyncPending => ResyncPending'
      PROVE  Quiet
  <2>1. ~PushNotification
    <3>1. messages \in Seq(Nat)
      BY DEF TypeInv, TypeOK
    <3>2. Len(Append(messages, cursor)) = Len(messages) + 1
      BY <3>1, <1>3 DEF TypeInv, TypeOK, NoRevision
    <3> QED
      BY <1>5, <3>1, <3>2 DEF PushNotification
  <2>2. ResyncPending' \/ \A r \in Nat : InFlight(r)' <=> InFlight(r)
    BY <1>3, <1>5, <2>1 DEF InFlight, Pending
  <2> QED
    BY <1>4, <1>5, <2>2
<1> USE DEF envVars, producerVars, reconcilerVars, runFrame, schedFrame,
        streamFrame, reconcilerFrame, NoRevision
<1>6. CASE Cancel \/ PingerStep \/ UNCHANGED vars
  BY <1>5, <1>6 DEF Cancel, PingerStep, PingFails, PingerCancelled, vars, ResyncPending, Pending
<1>7. CASE RunStep
  <2>1. UNCHANGED <<log, sm, platform, unsynced, fetched, messages, reconciler, current>>
    BY <1>7 DEF RunStep, ConnectFails, ConnectGone, ConnectBadPingPeriod, ConnectSucceeds,
                SignalResync, StartStreams, AwaitFirst, AwaitSecond, Reconnect, RunExits
  <2>2. Pending' = Pending
    BY <2>1 DEF Pending
  <2>3. ResyncPending => ResyncPending'
    BY <1>1, <1>2, <1>7, <2>1, <2>2
    DEF RunStep, ConnectFails, ConnectGone, ConnectBadPingPeriod, ConnectSucceeds, needResync,
        SignalResync, StartStreams, AwaitFirst, AwaitSecond, Reconnect, RunExits, ResyncPending
  <2> QED
    BY <1>5, <2>1, <2>3
<1>8. CASE ResyncPeriodElapses \/ SchedExits
  BY <1>2, <1>5, <1>8 DEF ResyncPeriodElapses, SchedExits, ResyncPending, Pending
<1>9. CASE SendResync
  <2>1. Pending' = Pending \cup {Resync}
    BY <1>9, PendingOfAppend DEF SendResync, Resync
  <2>2. ResyncPending'
    BY <2>1 DEF ResyncPending
  <2> QED
    BY <1>4, <1>9, <2>2 DEF SendResync
<1>10. CASE ReadMessage \/ ReadFails \/ CommitRevision \/ ReaderCancelled
  <2>1. UNCHANGED <<log, sm, platform, unsynced, fetched, messages, reconciler, current, run, sched>>
    BY <1>10 DEF ReadMessage, ReadFails, CommitRevision, ReaderCancelled
  <2>2. ResyncPending => ResyncPending'
    BY <1>10, <2>1 DEF ReadMessage, ReadFails, CommitRevision, ReaderCancelled, ResyncPending,
                       Pending
  <2> QED
    BY <1>5, <2>1, <2>2
<1>11. CASE PushNotification
  <2>1. Pending' = Pending \cup {cursor} /\ cursor \in Nat
    <3>1. cursor \in Nat
      BY <1>11 DEF PushNotification, TypeInv, CursorSet
    <3> QED
      BY <1>11, <3>1, PendingOfAppend DEF PushNotification
  <2>2. UNCHANGED <<log, sm, platform, unsynced, fetched, reconciler, current, run, sched, last>>
        /\ reader = "push" /\ reader' = "commit"
    BY <1>11 DEF PushNotification
  <2>3. \A r \in Nat : InFlight(r)' <=> InFlight(r)
    BY <1>3, <1>11, <2>1, <2>2 DEF InFlight
  <2>4. ResyncPending => ResyncPending'
    BY <2>1, <2>2 DEF ResyncPending
  <2> QED
    BY <1>4, <2>2, <2>3, <2>4
<1>12. CASE Receive
  <2>1. Pending = {Head(messages)} \cup Pending'
    BY <1>12, PendingOfTail DEF Receive
  <2>2. UNCHANGED <<log, sm, platform, unsynced, fetched, run, sched, last, reader, cursor>>
    BY <1>12 DEF Receive
  <2>3. Frontier' = Frontier
    BY <2>2 DEF Frontier, Connected
  <2>4. CASE Head(messages) = Resync
    <3>1. ResyncPending'
      BY <1>12, <2>4 DEF Receive, ResyncPending
    <3> QED
      BY <1>4, <2>2, <3>1
  <2>5. CASE Head(messages) # Resync
    <3>1. reconciler = "idle" /\ reconciler' = "consume" /\ current' = Head(messages)
      BY <1>12, <2>5 DEF Receive
    <3>2. \A r \in Nat : InFlight(r)' <=> InFlight(r)
      BY <2>1, <2>3, <3>1 DEF InFlight
    <3>3. ResyncPending => ResyncPending'
      BY <2>1, <2>2, <2>5, <3>1 DEF ResyncPending
    <3> QED
      BY <1>4, <2>2, <3>2, <3>3
  <2> QED
    BY <2>4, <2>5
<1>13. CASE ReconcilerExits \/ ConsumeFails \/ ResyncAborts
  BY <1>1, <1>2, <1>13 DEF ReconcilerExits, ConsumeFails, ResyncAborts
<1>14. CASE DrainOne
  <2>1. ResyncPending'
    BY <1>14 DEF DrainOne, ResyncPending
  <2> QED
    BY <1>4, <1>14, <2>1 DEF DrainOne
<1>15. ASSUME NEW k \in Keys, SyncKeyFails(k) PROVE FALSE
  BY <1>1, <1>2, <1>15 DEF SyncKeyFails
<1> QED
  BY <1>6, <1>7, <1>8, <1>9, <1>10, <1>11, <1>12, <1>13, <1>14, <1>15
  DEF Next, SchedStep, ReaderStep, ReconcilerStep

LEMMA HeldNext ==
  TypeInv /\ TypeInv' /\ RevisionsInv /\ RevisionsInv' /\ OrderedDelivery /\ Held /\ [Next]_vars
    => Held'
<1> SUFFICES ASSUME TypeInv, TypeInv', RevisionsInv, RevisionsInv', OrderedDelivery, Held,
                    [Next]_vars, ~ctxDone', Lossless
             PROVE  UpClosed' /\ Coverage'
  BY DEF Held, Lossless
<1>1. ~ctxDone
  BY CancelledStays
<1>2. UpClosed /\ Coverage
  BY <1>1 DEF Held, Lossless
<1>3. /\ Frontier \in 1..(Len(log) + 1) /\ Frontier \in Nat /\ Len(log) \in Nat
      /\ Frontier' >= Frontier
      /\ PushNotification => Frontier = cursor /\ Frontier' = cursor + 1
      /\ Frontier' = Frontier \/ PushNotification \/ ResyncPending'
  BY <1>1, FrontierSteps
\* A step that changes neither the resources nor what is in flight keeps both.
<1>4. ASSUME UNCHANGED <<log, sm, platform, unsynced, fetched>>,
             ResyncPending => ResyncPending',
             ResyncPending' \/ \A r \in Nat : InFlight(r)' <=> InFlight(r)
      PROVE  UpClosed' /\ Coverage'
  <2>1. CASE ResyncPending'
    BY <2>1 DEF UpClosed, Coverage, Covered
  <2>2. CASE ~ResyncPending'
    <3>1. \A r \in Nat : InFlight(r)' <=> InFlight(r)
      BY <1>4, <2>2
    <3>2. UpClosed'
      BY <1>2, <1>3, <1>4, <2>2, <3>1 DEF UpClosed
    <3>3. \A k \in Keys : Covered(k) => Covered(k)'
      BY <1>4, <2>2, <3>1 DEF Covered, TypeInv, TypeOK
    <3>4. Coverage'
      BY <1>2, <1>4, <3>3 DEF Coverage
    <3> QED
      BY <3>2, <3>4
  <2> QED
    BY <2>1, <2>2
<1> USE DEF envVars, producerVars, reconcilerVars, runFrame, schedFrame,
        streamFrame, reconcilerFrame, NoRevision
<1>5. ASSUME NEW k \in Keys, Publish(k) PROVE UpClosed' /\ Coverage'
  <2>1. /\ Len(log') = Len(log) + 1
        /\ UNCHANGED <<platform, unsynced, fetched, messages, reconciler, current, run, last,
                       reader, sched>>
        /\ sm' = [sm EXCEPT ![k] = Len(log) + 1] /\ sm \in [Keys -> Nat]
    BY <1>5 DEF Publish, TypeInv, TypeOK
  <2>2. ResyncPending' <=> ResyncPending
    BY <2>1 DEF ResyncPending, Pending
  <2>3. CASE ResyncPending
    BY <2>2, <2>3 DEF UpClosed, Coverage, Covered
  <2>4. CASE ~ResyncPending
    <3>1. Frontier' = Frontier /\ ~PushNotification
      BY <1>3, <1>5, <2>2, <2>4, <2>1 DEF PushNotification
    <3>2. \A r \in Nat : InFlight(r)' <=> InFlight(r)
      BY <2>1, <3>1 DEF InFlight, Pending
    <3>3. InFlight(Len(log) + 1)
      BY <1>3 DEF InFlight
    <3>4. UpClosed'
      <4> SUFFICES ASSUME NEW r1 \in 1..(Len(log) + 1), NEW r2 \in 1..(Len(log) + 1),
                          InFlight(r1), r1 < r2
                   PROVE  InFlight(r2)
        BY <1>3, <2>1, <3>2 DEF UpClosed
      <4> QED
        BY <1>2, <1>3, <2>4, <3>3 DEF UpClosed
    <3>5. ASSUME NEW j \in Keys PROVE /\ Covered(j) => Covered(j)'
                                      /\ sm'[j] = sm[j] \/ Covered(j)'
      BY <1>3, <2>1, <2>4, <3>2, <3>3 DEF Covered
    <3>6. Coverage'
      BY <1>2, <2>1, <3>5 DEF Coverage
    <3> QED
      BY <3>4, <3>6
  <2> QED
    BY <2>3, <2>4
<1>6. CASE ConsumeApplies
  <2>1. /\ reconciler = "consume" /\ reconciler' = "idle"
        /\ UNCHANGED <<log, sm, unsynced, fetched, run, sched, last, reader, cursor, messages,
                       current>>
        /\ platform' = [platform EXCEPT ![log[current]] = current]
        /\ platform \in [Keys -> Nat] /\ sm \in [Keys -> Nat] /\ log \in Seq(Keys)
    BY <1>6 DEF ConsumeApplies, TypeInv, TypeOK
  <2>2. current \in 1..Len(log) /\ current < Frontier /\ unsynced = {} /\ current \in Nat
    BY <1>3, <2>1 DEF OrderedDelivery, RevisionsInv, TypeInv, TypeOK
  <2>3. Frontier' = Frontier /\ Pending' = Pending
    BY <2>1 DEF Frontier, Connected, Pending
  <2>4. ResyncPending' <=> ResyncPending
    BY <2>1, <2>3 DEF ResyncPending
  <2>5. CASE ResyncPending
    BY <2>4, <2>5 DEF UpClosed, Coverage, Covered
  <2>6. CASE ~ResyncPending
    <3>1. \A r \in Nat : r \in Pending => current < r
      <4>1. Resync \notin Pending
        BY <2>6 DEF ResyncPending
      <4> QED
        BY <4>1 DEF Pending, OrderedDelivery
    <3>2. \A r \in Nat : InFlight(r) <=> InFlight(r)' \/ r = current
      BY <2>1, <2>2, <2>3 DEF InFlight
    <3>3. \A r \in Nat : InFlight(r)' => current < r
      BY <2>1, <2>2, <2>3, <3>1, <1>3 DEF InFlight
    <3>4. UpClosed'
      <4> SUFFICES ASSUME NEW r1 \in 1..Len(log), NEW r2 \in 1..Len(log), InFlight(r1)', r1 < r2
                   PROVE  InFlight(r2)'
        BY <2>1, <1>3 DEF UpClosed
      <4>1. InFlight(r2) /\ r2 # current /\ r2 \in Nat
        BY <1>2, <1>3, <2>2, <2>6, <3>2, <3>3 DEF UpClosed
      <4> QED
        BY <3>2, <4>1
    <3>5. ASSUME NEW k \in Keys PROVE platform'[k] = sm'[k] \/ Covered(k)'
      <4>1. sm[k] \in Nat /\ sm[k] <= Len(log)
        BY <2>1 DEF RevisionsInv
      <4>2. CASE k = log[current]
        <5>1. platform'[k] = current /\ current <= sm[k]
          BY <2>1, <2>2, <4>2 DEF RevisionsInv
        <5>2. CASE current = sm[k]
          BY <2>1, <5>1, <5>2
        <5>3. CASE current < sm[k]
          <6>1. InFlight(current)
            BY <2>1 DEF InFlight
          <6>2. InFlight(sm[k])
            BY <1>2, <1>3, <2>2, <2>6, <4>1, <5>3, <6>1 DEF UpClosed
          <6> QED
            BY <2>1, <2>2, <3>2, <4>1, <5>3, <6>2 DEF Covered
        <5> QED
          BY <2>2, <4>1, <5>1, <5>2, <5>3
      <4>3. CASE k # log[current]
        <5>1. platform'[k] = platform[k] /\ sm'[k] = sm[k]
          BY <2>1, <4>3
        <5>2. CASE platform[k] = sm[k]
          BY <5>1, <5>2
        <5>3. CASE InFlight(sm[k])
          <6>1. sm[k] # current
            BY <2>2, <4>3 DEF RevisionsInv
          <6> QED
            BY <3>2, <4>1, <5>1, <5>3, <6>1 DEF Covered
        <5> QED
          BY <1>2, <2>2, <2>6, <5>2, <5>3 DEF Coverage, Covered
      <4> QED
        BY <4>2, <4>3
    <3>6. Coverage'
      BY <2>1, <2>2, <3>5 DEF Coverage
    <3> QED
      BY <3>4, <3>6
  <2> QED
    BY <2>5, <2>6
<1>7. CASE DrainDone
  <2>1. /\ messages' = <<>> /\ reconciler' = "resync" /\ unsynced' = Keys
        /\ fetched' = [k \in Keys |-> NoRevision] /\ log' = log
    BY <1>7 DEF DrainDone
  <2>2. Pending' = {}
    BY <2>1 DEF Pending
  <2>3. \A r \in Nat : InFlight(r)' <=> r >= Frontier'
    BY <2>1, <2>2 DEF InFlight
  <2>4. Frontier' = Frontier
    BY <1>7 DEF DrainDone, Frontier, Connected
  <2>5. UpClosed'
    BY <1>3, <2>1, <2>3, <2>4 DEF UpClosed
  <2>6. Coverage'
    BY <2>1 DEF Coverage
  <2> QED
    BY <2>5, <2>6
<1>8. ASSUME NEW k \in Keys, Fetch(k) \/ SyncKey(k) PROVE UpClosed' /\ Coverage'
  <2>1. /\ UNCHANGED <<log, sm, run, sched, last, reader, cursor, messages, current>>
        /\ reconciler = "resync" /\ reconciler' \in {"idle", "resync"} /\ k \in unsynced
    BY <1>8 DEF Fetch, SyncKey, FinishKey
  <2>2. Frontier' = Frontier /\ Pending' = Pending
    BY <2>1 DEF Frontier, Connected, Pending
  <2>3. ResyncPending' <=> ResyncPending
    BY <2>1, <2>2 DEF ResyncPending
  <2>4. \A r \in Nat : InFlight(r)' <=> InFlight(r)
    BY <2>1, <2>2 DEF InFlight
  <2>5. UpClosed'
    BY <1>2, <1>3, <2>1, <2>3, <2>4 DEF UpClosed
  <2>6. sm \in [Keys -> Nat] /\ platform \in [Keys -> Nat]
        /\ fetched \in [Keys -> Nat \cup {NoRevision}]
    BY DEF TypeInv, TypeOK
  <2>7. \A j \in Keys : Covered(j)' <=> Covered(j)
    BY <2>1, <2>3, <2>4, <2>6 DEF Covered
  <2>8. CASE Fetch(k)
    <3>1. Coverage'
      BY <1>2, <2>1, <2>6, <2>7, <2>8 DEF Fetch, Coverage
    <3> QED
      BY <2>5, <3>1
  <2>9. CASE SyncKey(k)
    <3>1. Coverage'
      BY <1>2, <2>1, <2>6, <2>7, <2>9 DEF SyncKey, FinishKey, Coverage
    <3> QED
      BY <2>5, <3>1
  <2> QED
    BY <1>8, <2>8, <2>9
<1>9. ASSUME ~ConsumeApplies, ~DrainDone,
              \A k \in Keys : ~Publish(k) /\ ~Fetch(k) /\ ~SyncKey(k)
       PROVE  UpClosed' /\ Coverage'
  <2>1. Quiet
    BY <1>9, QuietStep
  <2> QED
    BY <1>4, <2>1 DEF Quiet
<1> QED
  BY <1>5, <1>6, <1>7, <1>8, <1>9

-----------------------------------------------------------------------------
(* The theorems.                                                           *)

FullInv == TypeInv /\ IInv

LEMMA FullInvariant == Spec => []FullInv
<1>1. Init => FullInv
  BY TypeInit, RevisionsInit, OrderedInit, HeldInit DEF FullInv, IInv, Held
<1>2. FullInv /\ [Next]_vars => FullInv'
  BY TypeNext, RevisionsNext, OrderedNext, HeldNext DEF FullInv, IInv, Held
<1> QED
  BY <1>1, <1>2, PTL DEF Spec

\* Notifications are in the channel in the order of their revisions, over all
\* reconnects, 410 answers and drains.
THEOREM DeliveryIsOrdered == Spec => []OrderedDelivery
<1>1. FullInv => OrderedDelivery
  BY DEF FullInv, IInv
<1> QED
  BY <1>1, FullInvariant, PTL

\* Unless SM or the platform fails a call that the code does not repeat, every
\* resource that is out of date has its latest notification or a resync ahead.
THEOREM NothingIsLost == Spec => []NoLostUpdate
<1>1. FullInv => NoLostUpdate
  BY DEF FullInv, IInv, UpClosed, Coverage, Covered, NoLostUpdate, BeingSynced
<1> QED
  BY <1>1, FullInvariant, PTL

\* A notification is consumed once at most and never after a later one.
THEOREM ConsumptionIsOrdered == Spec => ConsumedOnceInOrder
<1>1. FullInv /\ [Next]_vars
        => [reconciler # "consume" /\ reconciler' = "consume" => current' > current]_vars
  <2> SUFFICES ASSUME FullInv, [Next]_vars, reconciler # "consume", reconciler' = "consume"
               PROVE  current' > current
    OBVIOUS
  <2>1. Receive
    BY DEF Next, vars, Publish, Cancel, RunStep, ConnectFails, ConnectGone,
         ConnectBadPingPeriod, ConnectSucceeds, SignalResync, StartStreams, AwaitFirst,
         AwaitSecond, Reconnect, RunExits, SchedStep, ResyncPeriodElapses, SendResync,
         SchedExits, ReaderStep, ReadMessage, ReadFails, PushNotification, CommitRevision,
         ReaderCancelled, PingerStep, PingFails, PingerCancelled, ReconcilerStep,
         ReconcilerExits, ConsumeApplies, ConsumeFails, DrainOne, DrainDone, ResyncAborts,
         Fetch, SyncKey, SyncKeyFails, FinishKey, runFrame, schedFrame, streamFrame,
         reconcilerFrame, reconcilerVars, producerVars
  <2>2. /\ messages \in Seq(Nat) /\ messages # <<>>
        /\ current' = Head(messages) /\ Head(messages) # Resync
    BY <2>1 DEF Receive, FullInv, TypeInv, TypeOK
  <2>3. Head(messages) = messages[1] /\ 1 \in 1..Len(messages)
        /\ messages[1] \in Nat /\ current \in Nat
    BY <2>2 DEF FullInv, TypeInv, TypeOK
  <2>4. current < messages[1]
    BY <2>2, <2>3 DEF FullInv, IInv, OrderedDelivery
  <2> QED
    BY <2>2, <2>3, <2>4
<1> QED
  BY <1>1, FullInvariant, PTL DEF Spec, ConsumedOnceInOrder

\* A revision is known, or a connection is in use, only after a resync was
\* requested or while run is about to request one.
RequestedInv ==
    "badPing" \notin Events =>
        (last # NoRevision \/ run \in {"start", "await1", "await2"}
            => requested \/ run = "signal")

\* With well-formed headers, no notification is read before a resync was
\* requested.
THEOREM StreamsAfterResync == Spec => []ResyncBeforeStream
<1>1. Init => RequestedInv
  BY DEF Init, Blank, RequestedInv
<1>2. FullInv /\ RequestedInv /\ [Next]_vars => RequestedInv'
  <2> SUFFICES ASSUME FullInv, RequestedInv, [Next]_vars PROVE RequestedInv'
    OBVIOUS
  <2> USE DEF RequestedInv, envVars, producerVars, reconcilerVars, runFrame,
        schedFrame, streamFrame, reconcilerFrame
  <2>1. CASE RunStep
    BY <2>1 DEF RunStep, ConnectFails, ConnectGone, ConnectBadPingPeriod, ConnectSucceeds,
        needResync, RevisionsFromHeader, SignalResync, StartStreams, AwaitFirst, AwaitSecond,
        Reconnect, RunExits
  <2>2. CASE SchedStep \/ PingerStep \/ UNCHANGED vars
    BY <2>2 DEF SchedStep, ResyncPeriodElapses, SendResync, SchedExits, PingerStep, PingFails,
        PingerCancelled, vars
  <2>3. CASE ReaderStep
    <3>1. reader # "off" => run \in {"await1", "await2"}
      BY DEF FullInv, IInv, RevisionsInv, TypeInv, TypeOK
    <3> QED
      BY <2>3, <3>1 DEF ReaderStep, ReadMessage, ReadFails, PushNotification, CommitRevision,
          ReaderCancelled
  <2>4. CASE ReconcilerStep \/ Cancel \/ \E k \in Keys : Publish(k)
    BY <2>4 DEF ReconcilerStep, ReconcilerExits, Receive, ConsumeApplies, ConsumeFails,
        DrainOne, DrainDone, ResyncAborts, Fetch, SyncKey, SyncKeyFails, FinishKey, Cancel,
        Publish
  <2> QED
    BY <2>1, <2>2, <2>3, <2>4 DEF Next
<1>3. FullInv /\ RequestedInv => ResyncBeforeStream
  <2>1. FullInv => (reader # "off" => run \in {"await1", "await2"})
    BY DEF FullInv, IInv, RevisionsInv, TypeInv, TypeOK
  <2> QED
    BY <2>1 DEF RequestedInv, ResyncBeforeStream
<1> QED
  BY <1>1, <1>2, <1>3, FullInvariant, PTL DEF Spec

-----------------------------------------------------------------------------
(* The pipeline implements UpdateFeed: every step of the goroutines maps   *)
(* to a step of UpdateFeed or to none.                                     *)

InFeed == {r \in 1..Len(log) : InFlight(r)}

\* What was fetched from SM is a version of the resource.
FetchedInv ==
    \A k \in Keys : fetched[k] # NoRevision =>
        fetched[k] = 0 \/ (fetched[k] \in 1..Len(log) /\ log[fetched[k]] = k)

MappingInv == FullInv /\ FetchedInv /\ ~ctxDone

\* A process that keeps running, without the events that lose changes.
Running == Events \cap (LossyEvents \cup {"cancel"}) = {}

LEMMA FetchedNext ==
  ASSUME FullInv, FetchedInv, [Next]_vars
  PROVE  FetchedInv'
<1> USE DEF envVars, producerVars, reconcilerVars, runFrame, schedFrame, streamFrame,
        reconcilerFrame
<1>1. /\ log \in Seq(Keys) /\ sm \in [Keys -> Nat] /\ fetched \in [Keys -> Nat \cup {NoRevision}]
      /\ \A k \in Keys : sm[k] <= Len(log) /\ (sm[k] # 0 => log[sm[k]] = k)
      /\ Len(log) \in Nat
  BY DEF FullInv, TypeInv, TypeOK, IInv, RevisionsInv
<1>2. ASSUME UNCHANGED <<log, fetched>> PROVE FetchedInv'
  BY <1>2 DEF FetchedInv
<1>3. ASSUME NEW k \in Keys, Publish(k) PROVE FetchedInv'
  <2>1. /\ Len(log') = Len(log) + 1 /\ \A r \in 1..Len(log) : log'[r] = log[r]
        /\ fetched' = fetched
    BY <1>1, <1>3 DEF Publish
  <2> QED
    BY <1>1, <2>1 DEF FetchedInv
<1>4. ASSUME NEW k \in Keys, Fetch(k) PROVE FetchedInv'
  <2>1. log' = log /\ fetched' = [fetched EXCEPT ![k] = sm[k]]
    BY <1>4 DEF Fetch
  <2>2. sm[k] = 0 \/ (sm[k] \in 1..Len(log) /\ log[sm[k]] = k)
    BY <1>1
  <2> QED
    BY <1>1, <2>1, <2>2 DEF FetchedInv
<1>5. ASSUME NEW k \in Keys, SyncKey(k) \/ SyncKeyFails(k) PROVE FetchedInv'
  BY <1>1, <1>5 DEF SyncKey, SyncKeyFails, FinishKey, FetchedInv
<1>6. CASE DrainDone \/ ResyncAborts
  BY <1>6 DEF DrainDone, ResyncAborts, FetchedInv
<1>7. ASSUME ~DrainDone, ~ResyncAborts,
             \A k \in Keys : ~Publish(k) /\ ~Fetch(k) /\ ~SyncKey(k) /\ ~SyncKeyFails(k)
      PROVE  UNCHANGED <<log, fetched>>
  <2>1. CASE RunStep
    BY <2>1 DEF RunStep, ConnectFails, ConnectGone, ConnectBadPingPeriod, ConnectSucceeds,
                SignalResync, StartStreams, AwaitFirst, AwaitSecond, Reconnect, RunExits
  <2>2. CASE SchedStep \/ ReaderStep \/ PingerStep
    BY <2>2 DEF SchedStep, ResyncPeriodElapses, SendResync, SchedExits, ReaderStep,
                ReadMessage, ReadFails, PushNotification, CommitRevision, ReaderCancelled,
                PingerStep, PingFails, PingerCancelled
  <2>3. CASE ReconcilerStep
    BY <1>7, <2>3 DEF ReconcilerStep, ReconcilerExits, Receive, ConsumeApplies,
                ConsumeFails, DrainOne
  <2> QED
    BY <1>7, <2>1, <2>2, <2>3 DEF Next, Cancel, vars
<1> QED
  BY <1>2, <1>3, <1>4, <1>5, <1>6, <1>7

LEMMA NotCancelled ==
  ASSUME Running, ~ctxDone, [Next]_vars
  PROVE  ~ctxDone'
<1>1. "cancel" \notin Events
  BY DEF Running
<1> QED
  BY <1>1 DEF Next, vars, Publish, Cancel, RunStep, ConnectFails, ConnectGone,
         ConnectBadPingPeriod, ConnectSucceeds, SignalResync, StartStreams, AwaitFirst,
         AwaitSecond, Reconnect, RunExits, SchedStep, ResyncPeriodElapses, SendResync,
         SchedExits, ReaderStep, ReadMessage, ReadFails, PushNotification, CommitRevision,
         ReaderCancelled, PingerStep, PingFails, PingerCancelled, ReconcilerStep,
         ReconcilerExits, Receive, ConsumeApplies, ConsumeFails, DrainOne, DrainDone,
         ResyncAborts, Fetch, SyncKey, SyncKeyFails, FinishKey, runFrame, schedFrame,
         streamFrame, reconcilerFrame

\* Only a push makes a notification pending, and it was in flight before.
LEMMA FeedShrinks ==
  ASSUME FullInv, FullInv', [Next]_vars, ~ctxDone, Lossless
  PROVE  \A r \in Nat \ {0} : InFlight(r)' => InFlight(r)
<1> USE DEF envVars, producerVars, reconcilerVars, runFrame, schedFrame, streamFrame,
        reconcilerFrame
<1>0. /\ Frontier \in 1..(Len(log) + 1) /\ Frontier \in Nat /\ Len(log) \in Nat
      /\ Frontier' >= Frontier
      /\ PushNotification => Frontier = cursor /\ Frontier' = cursor + 1
  BY FrontierSteps DEF FullInv, IInv
<1>1. Frontier' \in Nat
  <2>1. Len(log') \in Nat /\ last' \in Nat \cup {NoRevision} /\ cursor' \in Nat \cup {NoRevision}
        /\ (reader' # "off" \/ run' \in {"signal", "start"} => cursor' \in Nat)
    BY DEF FullInv, TypeInv, TypeOK, CursorSet
  <2>2. \A n \in Nat : n + 1 \in Nat
    OBVIOUS
  <2> QED
    BY <2>1, <2>2, Zenon DEF Frontier, Connected
<1>2. ASSUME Pending' \subseteq Pending \cup {Resync},
             reconciler' = "consume" => current' \in Pending \cup {Resync}
                                          \/ (reconciler = "consume" /\ current' = current)
      PROVE  \A r \in Nat \ {0} : InFlight(r)' => InFlight(r)
  <2> SUFFICES ASSUME NEW r \in Nat \ {0}, InFlight(r)' PROVE InFlight(r)
    OBVIOUS
  <2>1. CASE r \in Pending'
    BY <1>2, <2>1 DEF InFlight, Resync
  <2>2. CASE reconciler' = "consume" /\ r = current'
    BY <1>2, <2>2 DEF InFlight, Resync
  <2>3. CASE r >= Frontier'
    BY <1>0, <1>1, <2>3 DEF InFlight
  <2> QED
    BY <2>1, <2>2, <2>3 DEF InFlight
<1>3. ASSUME UNCHANGED <<messages, reconciler, current>>
      PROVE  \A r \in Nat \ {0} : InFlight(r)' => InFlight(r)
  BY <1>2, <1>3 DEF Pending
<1>4. CASE PushNotification
  <2>1. Pending' = Pending \cup {cursor} /\ UNCHANGED <<reconciler, current>>
    <3>1. cursor \in Nat
      BY <1>4 DEF PushNotification, FullInv, TypeInv, CursorSet
    <3> QED
      BY <1>4, <3>1, PendingOfAppend DEF PushNotification, FullInv
  <2> SUFFICES ASSUME NEW r \in Nat \ {0}, InFlight(r)' PROVE InFlight(r)
    OBVIOUS
  <2>2. CASE r \in Pending'
    BY <1>0, <1>4, <2>1, <2>2 DEF InFlight
  <2>3. CASE reconciler' = "consume" /\ r = current'
    BY <2>1, <2>3 DEF InFlight
  <2>4. CASE r >= Frontier'
    BY <1>0, <1>1, <2>4 DEF InFlight
  <2> QED
    BY <2>2, <2>3, <2>4 DEF InFlight
<1>5. CASE SendResync
  <2>1. Pending' = Pending \cup {Resync}
    BY <1>5, PendingOfAppend DEF SendResync, Resync, FullInv
  <2> QED
    BY <1>2, <1>5, <2>1 DEF SendResync
<1>6. CASE Receive
  <2>1. Pending = {Head(messages)} \cup Pending'
    BY <1>6, PendingOfTail DEF Receive, FullInv
  <2> QED
    BY <1>2, <1>6, <2>1 DEF Receive
<1>7. CASE DrainOne
  <2>1. Pending = {Head(messages)} \cup Pending'
    BY <1>7, PendingOfTail DEF DrainOne, FullInv
  <2> QED
    BY <1>2, <1>7, <2>1 DEF DrainOne
<1>8. ASSUME ~PushNotification, ~SendResync, ~Receive, ~DrainOne
      PROVE  messages' = messages /\ (reconciler' = "consume" => UNCHANGED <<reconciler, current>>)
  <2>1. CASE RunStep
    BY <2>1 DEF RunStep, ConnectFails, ConnectGone, ConnectBadPingPeriod, ConnectSucceeds,
                SignalResync, StartStreams, AwaitFirst, AwaitSecond, Reconnect, RunExits
  <2>2. CASE SchedStep \/ ReaderStep \/ PingerStep
    BY <1>8, <2>2 DEF SchedStep, ResyncPeriodElapses, SchedExits, ReaderStep,
                ReadMessage, ReadFails, CommitRevision, ReaderCancelled,
                PingerStep, PingFails, PingerCancelled
  <2>3. CASE ReconcilerStep
    BY <1>8, <2>3 DEF ReconcilerStep, ReconcilerExits, ConsumeApplies,
                ConsumeFails, DrainDone, ResyncAborts, Fetch, SyncKey, SyncKeyFails, FinishKey
  <2>4. CASE Cancel \/ UNCHANGED vars \/ \E k \in Keys : Publish(k)
    BY <2>4 DEF Cancel, vars, Publish
  <2> QED
    BY <2>1, <2>2, <2>3, <2>4 DEF Next
<1> QED
  BY <1>2, <1>4, <1>5, <1>6, <1>7, <1>8 DEF Pending

-----------------------------------------------------------------------------
(* The steps of UpdateFeed.                                                *)

\* A quiet step is none, or it discards notifications because a resync is to
\* start.
LEMMA QuietMaps ==
  ASSUME FullInv, FullInv', [Next]_vars, ~ctxDone, Lossless, Quiet
  PROVE  [Feed!Next]_(Feed!vars)
<1>1. \A r \in Nat \ {0} : InFlight(r)' => InFlight(r)
  BY FeedShrinks
<1>2. Len(log) \in Nat /\ UNCHANGED <<log, sm, platform, unsynced>>
  BY DEF Quiet, FullInv, TypeInv, TypeOK
<1>3. CASE ResyncPending'
  <2>1. Owed' = Keys
    BY <1>3 DEF Owed
  <2>2. InFeed' \subseteq InFeed
    BY <1>1, <1>2 DEF InFeed
  <2> QED
    BY <1>2, <2>1, <2>2 DEF Feed!Next, Feed!Discard, InFeed
<1>4. CASE ~ResyncPending'
  <2>1. ~ResyncPending /\ \A r \in Nat : InFlight(r)' <=> InFlight(r)
    BY <1>4 DEF Quiet
  <2>2. InFeed' = InFeed
    BY <1>2, <2>1 DEF InFeed
  <2>3. Owed' = Owed
    BY <1>2, <1>4, <2>1 DEF Owed
  <2> QED
    BY <1>2, <2>2, <2>3 DEF Feed!vars, InFeed
<1> QED
  BY <1>3, <1>4

\* A change in SM: its notification will come, unless the producer will ask
\* for a resync before it asks for notifications.
LEMMA PublishMaps ==
  ASSUME FullInv, FullInv', ~ctxDone, Lossless, NEW k \in Keys, Publish(k)
  PROVE  [Feed!Next]_(Feed!vars)
<1>1. /\ log \in Seq(Keys) /\ Len(log) \in Nat
      /\ log' = Append(log, k) /\ Len(log') = Len(log) + 1
      /\ sm' = [sm EXCEPT ![k] = Len(log) + 1]
      /\ UNCHANGED <<platform, unsynced, messages, reconciler, current, run, last, reader,
                     cursor, sched>>
  BY DEF Publish, FullInv, TypeInv, TypeOK, producerVars, reconcilerVars
<1>2. ResyncPending' <=> ResyncPending
  BY <1>1 DEF ResyncPending, Pending
<1>3. Owed' = Owed
  BY <1>1, <1>2 DEF Owed
<1>4. /\ Frontier \in 1..(Len(log) + 1) /\ Frontier' \in {Frontier, Len(log) + 2}
      /\ Frontier' # Frontier => Frontier = Len(log) + 1 /\ ResyncPending
  <2>1. Frontier \in 1..(Len(log) + 1)
    BY FrontierBounds DEF FullInv, IInv
  <2>2. CASE reader = "push" \/ Connected \/ last # NoRevision
    BY <1>1, <2>1, <2>2 DEF Frontier, Connected
  <2>3. CASE ~(reader = "push" \/ Connected \/ last # NoRevision)
    <3>1. Frontier = Len(log) + 1 /\ Frontier' = Len(log') + 1
      BY <1>1, <2>3 DEF Frontier, Connected
    <3>2. ResyncPending
      BY <2>3 DEF Connected, ResyncPending, FullInv, IInv, RevisionsInv, TypeInv, TypeOK
    <3> QED
      BY <1>1, <2>1, <3>1, <3>2
  <2> QED
    BY <2>2, <2>3
<1>5. \A r \in 1..Len(log) : InFlight(r)' <=> InFlight(r)
  <2>1. \A r \in 1..Len(log) : r >= Frontier' <=> r >= Frontier
    BY <1>1, <1>4
  <2> QED
    BY <1>1, <2>1 DEF InFlight, Pending
<1>6. InFeed' \in {InFeed, InFeed \cup {Len(log) + 1}}
  BY <1>1, <1>5 DEF InFeed
<1>7. Len(log) + 1 \in InFeed' \/ k \in Owed
  <2>1. CASE Frontier' = Frontier
    BY <1>1, <1>4, <2>1 DEF InFeed, InFlight
  <2>2. CASE Frontier' # Frontier
    BY <1>4, <2>2 DEF Owed
  <2> QED
    BY <2>1, <2>2
<1>8. Feed!Change(k)
  BY <1>1, <1>3, <1>6, <1>7 DEF Feed!Change, InFeed
<1> QED
  BY <1>8 DEF Feed!Next

\* A notification is applied: it is the first of those to come.
LEMMA ConsumeMaps ==
  ASSUME FullInv, FullInv', ~ctxDone, Lossless, ConsumeApplies
  PROVE  [Feed!Next]_(Feed!vars)
<1>1. /\ reconciler = "consume" /\ reconciler' = "idle"
      /\ UNCHANGED <<log, sm, unsynced, run, sched, last, reader, cursor, messages, current>>
      /\ platform' = [platform EXCEPT ![log[current]] = current]
      /\ sm \in [Keys -> Nat] /\ log \in Seq(Keys) /\ Len(log) \in Nat
  BY DEF ConsumeApplies, reconcilerFrame, envVars, producerVars, FullInv, TypeInv, TypeOK
<1>2. Frontier \in 1..(Len(log) + 1)
  BY FrontierBounds DEF FullInv, IInv
<1>3. current \in 1..Len(log) /\ current < Frontier /\ log[current] \in Keys
  BY <1>1, <1>2 DEF FullInv, IInv, OrderedDelivery, RevisionsInv, TypeInv, TypeOK
<1>4. \A r \in Nat \ {0} : r \in Pending => current < r
  BY DEF FullInv, IInv, OrderedDelivery, Pending, Resync
<1>5. Frontier' = Frontier /\ Pending' = Pending
  BY <1>1 DEF Frontier, Connected, Pending
<1>6. Owed' = Owed
  BY <1>1, <1>5 DEF Owed, ResyncPending
<1>7. current \in InFeed
  BY <1>1, <1>3 DEF InFeed, InFlight
<1>8. \A q \in InFeed : current <= q
  BY <1>1, <1>2, <1>3, <1>4 DEF InFeed, InFlight
<1>9. InFeed' = InFeed \ {current}
  BY <1>1, <1>2, <1>3, <1>4, <1>5 DEF InFeed, InFlight
<1>10. log[current] \in Owed \/ sm[log[current]] \in InFeed
  <2>1. CASE ResyncPending
    BY <1>3, <2>1 DEF Owed
  <2>2. CASE ~ResyncPending
    <3>1. sm[log[current]] \in current..Len(log)
      BY <1>1, <1>3 DEF FullInv, IInv, RevisionsInv
    <3>2. UpClosed
      BY DEF FullInv, IInv, Lossless
    <3>3. InFlight(current)
      BY <1>1 DEF InFlight
    <3>4. InFlight(sm[log[current]])
      BY <1>3, <2>2, <3>1, <3>2, <3>3 DEF UpClosed
    <3> QED
      BY <1>3, <3>1, <3>4 DEF InFeed
  <2> QED
    BY <2>1, <2>2
<1>11. Feed!Deliver(current)
  BY <1>1, <1>6, <1>7, <1>8, <1>9, <1>10 DEF Feed!Deliver, InFeed
<1> QED
  BY <1>7, <1>11 DEF Feed!Next, InFeed

\* drain has found the channel empty: nothing changes but where the reconciler
\* is, and every resource is owed its copy.
LEMMA DrainDoneMaps ==
  ASSUME FullInv, DrainDone
  PROVE  [Feed!Next]_(Feed!vars)
<1>1. /\ reconciler = "drain" /\ reconciler' = "resync" /\ unsynced' = Keys
      /\ UNCHANGED <<log, sm, platform, run, sched, last, reader, cursor, messages, current>>
  BY DEF DrainDone, reconcilerFrame, envVars, producerVars
<1>2. Owed = Keys /\ Owed' = Keys
  BY <1>1 DEF Owed, ResyncPending
<1>3. InFeed' = InFeed
  BY <1>1 DEF InFeed, InFlight, Frontier, Connected, Pending
<1> QED
  BY <1>1, <1>2, <1>3 DEF Feed!vars, InFeed

\* The call that lists a resource of SM changes nothing that counts; giving it
\* to the platform is the copy, unless another resync is to start.
LEMMA CopyMaps ==
  ASSUME FullInv, FetchedInv, ~ctxDone, Lossless, NEW k \in Keys, Fetch(k) \/ SyncKey(k)
  PROVE  [Feed!Next]_(Feed!vars)
<1>1. /\ UNCHANGED <<log, sm, run, sched, last, reader, cursor, messages, current>>
      /\ reconciler = "resync" /\ reconciler' \in {"idle", "resync"} /\ k \in unsynced
  BY DEF Fetch, SyncKey, FinishKey, reconcilerFrame, envVars, producerVars
<1>2. InFeed' = InFeed /\ (ResyncPending' <=> ResyncPending)
  BY <1>1 DEF InFeed, InFlight, Frontier, Connected, Pending, ResyncPending
<1>3. CASE Fetch(k)
  <2>1. UNCHANGED <<platform, unsynced>>
    BY <1>3 DEF Fetch
  <2> QED
    BY <1>1, <1>2, <2>1 DEF Owed, Feed!vars, InFeed
<1>4. CASE SyncKey(k)
  <2>1. /\ fetched[k] # NoRevision /\ unsynced' = unsynced \ {k}
        /\ platform' = [platform EXCEPT ![k] = fetched[k]]
    BY <1>4 DEF SyncKey, FinishKey
  <2>2. fetched[k] \in Feed!Versions(k)
    BY <2>1 DEF FetchedInv, Feed!Versions
  <2>3. CASE ResyncPending
    <3>1. Owed = Keys /\ Owed' = Keys
      BY <1>2, <2>3 DEF Owed
    <3>2. Feed!Overwrite(k)
      BY <1>1, <1>2, <2>1, <2>2, <3>1 DEF Feed!Overwrite, InFeed
    <3> QED
      BY <3>2 DEF Feed!Next
  <2>4. CASE ~ResyncPending
    <3>1. Owed = unsynced /\ Owed' = unsynced \ {k}
      BY <1>2, <2>1, <2>4 DEF Owed
    <3>2. fetched[k] = sm[k] \/ sm[k] \in InFeed
      <4>1. Coverage
        BY DEF FullInv, IInv, Lossless
      <4>2. fetched[k] = sm[k] \/ InFlight(sm[k])
        BY <1>1, <2>1, <2>4, <4>1 DEF Coverage, Covered
      <4>3. CASE sm[k] = 0
        <5>1. ~InFlight(0)
          <6>1. Frontier \in 1..(Len(log) + 1) /\ Len(log) \in Nat
            BY FrontierBounds DEF FullInv, IInv, TypeInv, TypeOK
          <6> QED
            BY <1>1, <2>4, <6>1 DEF InFlight, ResyncPending, Resync
        <5> QED
          BY <4>2, <4>3, <5>1
      <4>4. CASE sm[k] # 0
        <5>1. sm[k] \in 1..Len(log)
          BY <4>4 DEF FullInv, IInv, RevisionsInv, TypeInv, TypeOK
        <5> QED
          BY <4>2, <5>1 DEF InFeed
      <4> QED
        BY <4>3, <4>4
    <3>3. Feed!Copy(k)
      BY <1>1, <1>2, <2>1, <2>2, <3>1, <3>2 DEF Feed!Copy, InFeed
    <3> QED
      BY <3>3 DEF Feed!Next
  <2> QED
    BY <2>3, <2>4
<1> QED
  BY <1>3, <1>4

LEMMA StepMaps ==
  ASSUME Running, MappingInv, MappingInv', [Next]_vars
  PROVE  [Feed!Next]_(Feed!vars)
<1>1. FullInv /\ FullInv' /\ FetchedInv /\ ~ctxDone /\ ~ctxDone' /\ Lossless
  BY DEF MappingInv, Running, Lossless
<1>2. ASSUME NEW k \in Keys, Publish(k) PROVE [Feed!Next]_(Feed!vars)
  BY <1>1, <1>2, PublishMaps
<1>3. CASE ConsumeApplies
  BY <1>1, <1>3, ConsumeMaps
<1>4. CASE DrainDone
  BY <1>1, <1>4, DrainDoneMaps
<1>5. ASSUME NEW k \in Keys, Fetch(k) \/ SyncKey(k) PROVE [Feed!Next]_(Feed!vars)
  BY <1>1, <1>5, CopyMaps
<1>6. ASSUME ~ConsumeApplies, ~DrainDone,
             \A k \in Keys : ~Publish(k) /\ ~Fetch(k) /\ ~SyncKey(k)
      PROVE  [Feed!Next]_(Feed!vars)
  <2>1. Quiet
    BY <1>1, <1>6, QuietStep DEF FullInv, IInv
  <2> QED
    BY <1>1, <2>1, QuietMaps
<1> QED
  BY <1>2, <1>3, <1>4, <1>5, <1>6

\* The pipeline implements UpdateFeed: connections, 410 answers, reconnects, the
\* bounded channel, drains and resyncs forget no change and apply none out of
\* turn, as long as the process runs and none of the LossyEvents happens.
THEOREM PipelineImplementsFeed == Running => (Spec => ImplementsUpdateFeed)
<1> SUFFICES ASSUME Running PROVE Spec => ImplementsUpdateFeed
  OBVIOUS
<1>1. Init => Feed!Init
  <2> SUFFICES ASSUME Init PROVE Feed!Init
    OBVIOUS
  <2>1. ResyncPending /\ Len(log) = 0
    BY DEF Init, Blank, ResyncPending, NoRevision
  <2> QED
    BY <2>1 DEF Init, Feed!Init, Blank, Owed
<1>2. Init => FetchedInv /\ ~ctxDone
  BY DEF Init, Blank, FetchedInv
<1>3. FullInv /\ FetchedInv /\ ~ctxDone /\ [Next]_vars => (FetchedInv /\ ~ctxDone)'
  BY FetchedNext, NotCancelled
<1>4. Spec => []MappingInv
  BY <1>2, <1>3, FullInvariant, PTL DEF Spec, MappingInv
<1>5. MappingInv /\ MappingInv' /\ [Next]_vars => [Feed!Next]_(Feed!vars)
  BY StepMaps
<1> QED
  BY <1>1, <1>4, <1>5, PTL DEF Spec, ImplementsUpdateFeed, Feed!Spec
=============================================================================
