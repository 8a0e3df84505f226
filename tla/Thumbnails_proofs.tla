------------------------- MODULE Thumbnails_proofs -------------------------
(* Machine-checked proofs about the two halves of DThumbnailProvider, for any *)
(* threads, keys, files and numbers of calls: ThumbnailProvider, then         *)
(* ThumbnailStore.  Each invariant is shown inductive part by part: a lemma   *)
(* proves one part from itself and the parts before it.                       *)
EXTENDS ThumbnailProvider, ThumbnailStore, TLAPS

USE CallersAssumption DEF Threads

-----------------------------------------------------------------------------
LEMMA NoKeyInKeys == NoKey \in Keys
  BY DEF NoKey

(* The requests waiting or held are numbers.                                  *)
LEMMA PendingNat ==
  ASSUME TypeOK
  PROVE  \A k : PendingOf(k) \subseteq Nat /\ NextOf(k) \subseteq Nat
  <1>1. \A i \in 1..Len(produceQueue) : produceQueue[i] \in Nat
    BY DEF TypeOK
  <1>2. Queued \subseteq Nat
    BY <1>1 DEF Queued
  <1>3. task \in Nat
    BY DEF TypeOK
  <1>4. Pending \subseteq Nat
    BY <1>2, <1>3, Zenon DEF Pending
  <1> QED BY <1>2, <1>4, Zenon DEF PendingOf, NextOf

LEMMA TypeInit == Init => TypeOK
  <1> SUFFICES ASSUME Init PROVE TypeOK
    OBVIOUS
  <1> USE DEF Init
  <1>1. keyOf \in Seq(Keys) /\ produceQueue \in Seq(Nat)
    OBVIOUS
  <1>2. wpc \in WorkerPC
    BY DEF WorkerPC
  <1>3. cpc \in [Threads -> CallPC] /\ pushed \in [Threads -> Nat]
    BY DEF CallPC
  <1>4. arg \in [Threads -> Keys]
    BY NoKeyInKeys
  <1>5. running \in BOOLEAN /\ lateWake \in BOOLEAN /\ torn \in BOOLEAN
    BY Zenon
  <1> QED BY <1>1, <1>2, <1>3, <1>4, <1>5 DEF TypeOK

(* Every step keeps the state well formed.                                    *)
LEMMA TypeStep == TypeOK /\ [Next]_vars => TypeOK'
  <1> SUFFICES ASSUME TypeOK, [Next]_vars PROVE TypeOK'
    OBVIOUS
  <1>0. \A k : PendingOf(k) \subseteq Nat /\ NextOf(k) \subseteq Nat
    BY PendingNat, Zenon
  <1> USE NoKeyInKeys DEF TypeOK, WorkerPC, CallPC, shared, history
  <1>1. ASSUME NEW t \in Threads, NEW k \in Keys, CallAppend(t, k) PROVE TypeOK'
    BY <1>1 DEF CallAppend, Enter, Goto
  <1>2. ASSUME NEW t \in Threads, NEW k \in Keys, CallRemove(t, k) PROVE TypeOK'
    <2>1. PendingOf(k) \subseteq Nat
      BY <1>0, Zenon
    <2>2. asked' \subseteq Nat
      BY <1>2, <2>1 DEF CallRemove
    <2>3. cpc' \in [Threads -> CallPC] /\ arg' \in [Threads -> Keys]
      BY <1>2 DEF CallRemove, Enter, Goto
    <2> QED BY <1>2, <2>2, <2>3 DEF CallRemove
  <1>3. ASSUME NEW t \in Threads, AppendRaw(t) PROVE TypeOK'
    BY <1>3 DEF AppendRaw, Push, Return, Goto
  <1>4. ASSUME NEW t \in Threads, AppendLock(t) PROVE TypeOK'
    BY <1>4 DEF AppendLock, Goto
  <1>5. ASSUME NEW t \in Threads, AppendPush(t) PROVE TypeOK'
    BY <1>5 DEF AppendPush, Push, Goto
  <1>6. ASSUME NEW t \in Threads, AppendWake(t) PROVE TypeOK'
    BY <1>6 DEF AppendWake, WakeAll, Return, Goto
  <1>7. ASSUME NEW t \in Threads, RemoveLock(t) PROVE TypeOK'
    BY <1>7 DEF RemoveLock, Goto
  <1>8. ASSUME NEW t \in Threads, RemoveUnlock(t) PROVE TypeOK'
    BY <1>8 DEF RemoveUnlock, Goto
  <1>9. ASSUME NEW t \in Threads, RemoveInsertBegin(t) PROVE TypeOK'
    BY <1>9 DEF RemoveInsertBegin, Goto
  <1>10. ASSUME NEW t \in Threads, RemoveInsertEnd(t) PROVE TypeOK'
    <2>1. PendingOf(arg[t]) \subseteq Nat /\ NextOf(arg[t]) \subseteq Nat
      BY <1>0, Zenon
    <2>2. discardedProduceInfos' \subseteq Keys
      BY <1>10 DEF RemoveInsertEnd
    <2> QED BY <1>10, <2>1, <2>2 DEF RemoveInsertEnd, Return, Goto
  <1>11. ASSUME WorkerStep PROVE TypeOK'
    <2>1. CASE WorkerLock BY <2>1 DEF WorkerLock
    <2>2. CASE WorkerWait BY <2>2 DEF WorkerWait
    <2>3. CASE WorkerWoken BY <2>3 DEF WorkerWoken
    <2>4. CASE WorkerQuit BY <2>4 DEF WorkerQuit
    <2>5. CASE WorkerTakeEmpty BY <2>5 DEF WorkerTakeEmpty
    <2>6. CASE WorkerTake BY <2>6 DEF WorkerTake
    <2>7. CASE WorkerDiscard BY <2>7 DEF WorkerDiscard
    <2>8. CASE WorkerKeep BY <2>8 DEF WorkerKeep
    <2>9. CASE WorkerCallback BY <2>9 DEF WorkerCallback
    <2>10. CASE WorkerLoop BY <2>10 DEF WorkerLoop
    <2> QED BY <1>11, <2>1, <2>2, <2>3, <2>4, <2>5, <2>6, <2>7, <2>8, <2>9, <2>10
            DEF WorkerStep
  <1>12. ASSUME DestroyClear PROVE TypeOK'
    BY <1>12 DEF DestroyClear
  <1>13. ASSUME DestroyWake PROVE TypeOK'
    BY <1>13 DEF DestroyWake, WakeAll
  <1>14. ASSUME DestroyJoin PROVE TypeOK'
    BY <1>14 DEF DestroyJoin
  <1>15. ASSUME UNCHANGED vars PROVE TypeOK'
    BY <1>15 DEF vars
  <1> QED
    BY <1>1, <1>2, <1>3, <1>4, <1>5, <1>6, <1>7, <1>8, <1>9, <1>10, <1>11, <1>12,
       <1>13, <1>14, <1>15 DEF Next, ContinueCall, DestroyStep

-----------------------------------------------------------------------------
(* Which thread may be where.                                                 *)
LEMMA LifeCycleStep ==
  TypeOK /\ LifeCycle /\ [Next]_vars => LifeCycle'
  <1> SUFFICES ASSUME TypeOK, LifeCycle, [Next]_vars PROVE LifeCycle'
    OBVIOUS
  <1>0. /\ cpc \in [Threads -> CallPC] /\ wpc \in WorkerPC
        /\ running \in BOOLEAN
    BY DEF TypeOK
  <1> USE <1>0 DEF LifeCycle, shared, history
  <1>1. ASSUME NEW t \in Threads, NEW k \in Keys, CallAppend(t, k) PROVE LifeCycle'
    BY <1>1 DEF CallAppend, MayCall, isRunning, Enter, Goto
  <1>2. ASSUME NEW t \in Threads, NEW k \in Keys, CallRemove(t, k) PROVE LifeCycle'
    BY <1>2 DEF CallRemove, MayCall, Enter, Goto
  <1>3. ASSUME NEW t \in Threads, AppendRaw(t) PROVE LifeCycle'
    BY <1>3 DEF AppendRaw, Return, Goto
  <1>4. ASSUME NEW t \in Threads, AppendLock(t) PROVE LifeCycle'
    BY <1>4 DEF AppendLock, Goto
  <1>5. ASSUME NEW t \in Threads, AppendPush(t) PROVE LifeCycle'
    BY <1>5 DEF AppendPush, Goto
  <1>6. ASSUME NEW t \in Threads, AppendWake(t) PROVE LifeCycle'
    BY <1>6 DEF AppendWake, WakeAll, Return, Goto
  <1>7. ASSUME NEW t \in Threads, RemoveLock(t) PROVE LifeCycle'
    BY <1>7 DEF RemoveLock, Goto
  <1>8. ASSUME NEW t \in Threads, RemoveUnlock(t) PROVE LifeCycle'
    BY <1>8 DEF RemoveUnlock, Goto
  <1>9. ASSUME NEW t \in Threads, RemoveInsertBegin(t) PROVE LifeCycle'
    BY <1>9 DEF RemoveInsertBegin, Goto
  <1>10. ASSUME NEW t \in Threads, RemoveInsertEnd(t) PROVE LifeCycle'
    BY <1>10 DEF RemoveInsertEnd, Return, Goto
  <1>11. ASSUME WorkerStep PROVE LifeCycle'
    BY <1>11 DEF WorkerStep, WorkerLock, WorkerWait, WorkerWoken, WorkerQuit,
       WorkerTakeEmpty, WorkerTake, WorkerDiscard, WorkerKeep, WorkerCallback,
       WorkerLoop
  <1>12. ASSUME DestroyClear PROVE LifeCycle'
    BY <1>12 DEF DestroyClear
  <1>13. ASSUME DestroyStep PROVE LifeCycle'
    BY <1>13 DEF DestroyStep, DestroyWake, DestroyJoin, WakeAll
  <1>14. ASSUME UNCHANGED vars PROVE LifeCycle'
    BY <1>14 DEF vars
  <1> QED
    BY <1>1, <1>2, <1>3, <1>4, <1>5, <1>6, <1>7, <1>8, <1>9, <1>10, <1>11, <1>12,
       <1>13, <1>14 DEF Next, ContinueCall

(* The lock is where the threads' positions say.                              *)
LEMMA LockStep ==
  TypeOK /\ LifeCycle /\ LockDiscipline /\ [Next]_vars => LockDiscipline'
  <1> SUFFICES ASSUME TypeOK, LifeCycle, LockDiscipline, [Next]_vars
               PROVE  LockDiscipline'
    OBVIOUS
  <1>0. /\ cpc \in [Threads -> CallPC] /\ wpc \in WorkerPC
        /\ dataReadWriteLock \in Threads \cup {NoThread}
        /\ cpc[Worker] # "idle" => wpc = "callback"
        /\ \A t \in Threads : cpc[t] = "append_raw" => wpc = "off"
    BY DEF TypeOK, LifeCycle
  <1> USE <1>0 DEF LockDiscipline, shared, history
  <1>1. ASSUME NEW t \in Threads, NEW k \in Keys, CallAppend(t, k) \/ CallRemove(t, k)
        PROVE LockDiscipline'
    BY <1>1 DEF CallAppend, CallRemove, MayCall, Enter, Goto
  <1>2. ASSUME NEW t \in Threads, AppendRaw(t) PROVE LockDiscipline'
    BY <1>2 DEF AppendRaw, Return, Goto
  <1>3. ASSUME NEW t \in Threads, AppendLock(t) \/ RemoveLock(t) PROVE LockDiscipline'
    BY <1>3 DEF AppendLock, RemoveLock, Goto
  <1>4. ASSUME NEW t \in Threads, AppendPush(t) \/ RemoveUnlock(t) PROVE LockDiscipline'
    BY <1>4 DEF AppendPush, RemoveUnlock, Goto
  <1>5. ASSUME NEW t \in Threads,
               AppendWake(t) \/ RemoveInsertBegin(t) \/ RemoveInsertEnd(t)
        PROVE LockDiscipline'
    BY <1>5 DEF AppendWake, WakeAll, RemoveInsertBegin, RemoveInsertEnd, Return, Goto
  <1>6. ASSUME WorkerStep PROVE LockDiscipline'
    BY <1>6 DEF WorkerStep, WorkerLock, WorkerWait, WorkerWoken, WorkerQuit,
       WorkerTakeEmpty, WorkerTake, WorkerDiscard, WorkerKeep, WorkerCallback,
       WorkerLoop
  <1>7. ASSUME DestroyClear \/ DestroyStep PROVE LockDiscipline'
    BY <1>7 DEF DestroyClear, DestroyStep, DestroyWake, DestroyJoin, WakeAll
  <1>8. ASSUME UNCHANGED vars PROVE LockDiscipline'
    BY <1>8 DEF vars
  <1> QED
    BY <1>1, <1>2, <1>3, <1>4, <1>5, <1>6, <1>7, <1>8 DEF Next, ContinueCall

-----------------------------------------------------------------------------
(* What QueueOrder says depends on these values only.                         *)
LEMMA QueueOrderFrame ==
  ASSUME QueueOrder, HoldingTask' = HoldingTask,
         UNCHANGED <<keyOf, produceQueue, task, answered, dropped>>
  PROVE  QueueOrder'
  BY DEF QueueOrder, Taken

(* Pushing a request extends the queue's run of numbers.                      *)
LEMMA PushQueueOrder ==
  ASSUME TypeOK, QueueOrder, NEW k \in Keys, Push(k), HoldingTask' = HoldingTask,
         UNCHANGED <<task, answered, dropped>>
  PROVE  QueueOrder'
  <1>1. keyOf \in Seq(Keys) /\ produceQueue \in Seq(Nat)
    BY DEF TypeOK
  <1>2. /\ Len(keyOf') = Len(keyOf) + 1
        /\ Len(produceQueue') = Len(produceQueue) + 1
        /\ \A i \in 1..Len(produceQueue) : produceQueue'[i] = produceQueue[i]
        /\ produceQueue'[Len(produceQueue) + 1] = Len(keyOf) + 1
    BY <1>1 DEF Push
  <1>3. Taken' = Taken
    BY <1>1, <1>2 DEF Taken
  <1>4. \A i \in 1..Len(produceQueue') : produceQueue'[i] = Taken' + i
    BY <1>1, <1>2, <1>3 DEF QueueOrder, Taken
  <1> QED BY <1>1, <1>2, <1>3, <1>4 DEF QueueOrder

(* What has left the queue is answered, dropped or in the worker's hands.     *)
LEMMA QueueOrderStep ==
  TypeOK /\ LifeCycle /\ QueueOrder /\ [Next]_vars => QueueOrder'
  <1> SUFFICES ASSUME TypeOK, LifeCycle, QueueOrder, [Next]_vars
               PROVE  QueueOrder'
    OBVIOUS
  <1>0. /\ keyOf \in Seq(Keys) /\ produceQueue \in Seq(Nat)
        /\ wpc \in WorkerPC /\ task \in Nat /\ arg \in [Threads -> Keys]
        /\ answered \subseteq Nat /\ dropped \subseteq Nat
    BY DEF TypeOK
  <1> USE DEF shared, history, HoldingTask
  <1>1. ASSUME NEW t \in Threads, NEW k \in Keys, CallAppend(t, k) \/ CallRemove(t, k)
        PROVE QueueOrder'
    BY <1>1, QueueOrderFrame DEF CallAppend, CallRemove
  <1>2. ASSUME NEW t \in Threads, AppendRaw(t) PROVE QueueOrder'
    <2>1. wpc = "off"
      BY <1>2 DEF AppendRaw, LifeCycle
    <2> QED BY <1>0, <1>2, <2>1, PushQueueOrder DEF AppendRaw
  <1>3. ASSUME NEW t \in Threads, AppendPush(t) PROVE QueueOrder'
    BY <1>0, <1>3, PushQueueOrder DEF AppendPush
  <1>4. ASSUME NEW t \in Threads, AppendLock(t) \/ RemoveLock(t) \/ RemoveUnlock(t)
        PROVE QueueOrder'
    BY <1>4, QueueOrderFrame DEF AppendLock, RemoveLock, RemoveUnlock
  <1>5. ASSUME NEW t \in Threads,
               AppendWake(t) \/ RemoveInsertBegin(t) \/ RemoveInsertEnd(t)
        PROVE QueueOrder'
    BY <1>5, QueueOrderFrame DEF AppendWake, WakeAll, RemoveInsertBegin, RemoveInsertEnd
  <1>6. ASSUME WorkerTake PROVE QueueOrder'
    <2>1. /\ Len(produceQueue') = Len(produceQueue) - 1
          /\ task' = produceQueue[1]
          /\ \A i \in 1..Len(produceQueue') : produceQueue'[i] = produceQueue[i + 1]
          /\ Len(produceQueue) > 0
      BY <1>0, <1>6 DEF WorkerTake
    <2>2. Taken' = Taken + 1 /\ Taken \in Nat
      BY <1>0, <1>6, <2>1 DEF WorkerTake, Taken, QueueOrder
    <2>3. answered' \cup dropped' = 1..Taken
      BY <1>6 DEF WorkerTake, QueueOrder
    <2>4. \A i \in 1..Len(produceQueue') : produceQueue'[i] = Taken' + i
      BY <1>0, <2>1, <2>2 DEF QueueOrder
    <2>5. task' = Taken'
      BY <1>0, <2>1, <2>2 DEF QueueOrder
    <2> QED BY <1>0, <1>6, <2>1, <2>2, <2>3, <2>4, <2>5 DEF QueueOrder, WorkerTake
  <1>7. ASSUME WorkerDiscard PROVE QueueOrder'
    <2>1. Taken' = Taken /\ task = Taken /\ Taken \in Nat /\ Taken > 0
      BY <1>0, <1>7 DEF WorkerDiscard, QueueOrder, Taken
    <2>2. answered' \cup dropped' = 1..Taken
      BY <1>7, <2>1 DEF WorkerDiscard, QueueOrder
    <2>3. answered' \cap dropped' = {}
      BY <1>7, <2>1 DEF WorkerDiscard, QueueOrder
    <2> QED BY <1>7, <2>1, <2>2, <2>3 DEF WorkerDiscard, QueueOrder
  <1>8. ASSUME WorkerCallback PROVE QueueOrder'
    <2>1. Taken' = Taken /\ task = Taken /\ Taken \in Nat /\ Taken > 0
      BY <1>0, <1>8 DEF WorkerCallback, QueueOrder, Taken
    <2>2. answered' \cup dropped' = 1..Taken
      BY <1>8, <2>1 DEF WorkerCallback, QueueOrder
    <2>3. answered' \cap dropped' = {}
      BY <1>8, <2>1 DEF WorkerCallback, QueueOrder
    <2> QED BY <1>8, <2>1, <2>2, <2>3 DEF WorkerCallback, QueueOrder
  <1>9. ASSUME WorkerLock \/ WorkerWait \/ WorkerWoken \/ WorkerQuit
               \/ WorkerTakeEmpty \/ WorkerKeep \/ WorkerLoop
        PROVE QueueOrder'
    BY <1>9, QueueOrderFrame DEF WorkerLock, WorkerWait, WorkerWoken, WorkerQuit,
       WorkerTakeEmpty, WorkerKeep, WorkerLoop
  <1>10. ASSUME DestroyClear \/ DestroyStep PROVE QueueOrder'
    BY <1>10, QueueOrderFrame DEF DestroyClear, DestroyStep, DestroyWake, DestroyJoin,
       WakeAll
  <1>11. ASSUME UNCHANGED vars PROVE QueueOrder'
    BY <1>11, QueueOrderFrame DEF vars
  <1> QED
    BY <1>1, <1>2, <1>3, <1>4, <1>5, <1>6, <1>7, <1>8, <1>9, <1>10, <1>11
       DEF Next, ContinueCall, WorkerStep

(* An awake worker with an empty queue was woken too late, or by the          *)
(* destructor.                                                                *)
LEMMA WakeCauseStep ==
  TypeOK /\ LifeCycle /\ LockDiscipline /\ WakeCause /\ [Next]_vars => WakeCause'
  <1> SUFFICES ASSUME TypeOK, LifeCycle, LockDiscipline, WakeCause, [Next]_vars
               PROVE  WakeCause'
    OBVIOUS
  <1>0. /\ produceQueue \in Seq(Nat) /\ keyOf \in Seq(Keys) /\ wpc \in WorkerPC
        /\ arg \in [Threads -> Keys] /\ cpc \in [Threads -> CallPC]
    BY DEF TypeOK
  <1> USE <1>0 DEF WakeCause, shared, history
  <1>1. ASSUME NEW t \in Threads, NEW k \in Keys, CallAppend(t, k) \/ CallRemove(t, k)
        PROVE WakeCause'
    BY <1>1 DEF CallAppend, CallRemove
  <1>2. ASSUME NEW t \in Threads, AppendRaw(t) PROVE WakeCause'
    BY <1>2 DEF AppendRaw
  <1>3. ASSUME NEW t \in Threads, AppendPush(t) PROVE WakeCause'
    <2>1. produceQueue' # <<>>
      BY <1>3 DEF AppendPush, Push
    <2>2. wpc # "park"
      BY <1>3 DEF AppendPush, LockDiscipline, LifeCycle
    <2> QED BY <1>3, <2>1, <2>2 DEF AppendPush
  <1>4. ASSUME NEW t \in Threads, AppendLock(t) \/ RemoveLock(t) \/ RemoveUnlock(t)
        PROVE WakeCause'
    BY <1>4 DEF AppendLock, RemoveLock, RemoveUnlock
  <1>5. ASSUME NEW t \in Threads, AppendWake(t) PROVE WakeCause'
    <2>1. produceQueue = <<>> => Queued = {}
      BY DEF Queued
    <2> QED BY <1>5, <2>1 DEF AppendWake, WakeAll
  <1>6. ASSUME NEW t \in Threads, RemoveInsertBegin(t) \/ RemoveInsertEnd(t)
        PROVE WakeCause'
    BY <1>6 DEF RemoveInsertBegin, RemoveInsertEnd
  <1>7. ASSUME WorkerStep PROVE WakeCause'
    BY <1>7 DEF WorkerStep, WorkerLock, WorkerWait, WorkerWoken, WorkerQuit,
       WorkerTakeEmpty, WorkerTake, WorkerDiscard, WorkerKeep, WorkerCallback,
       WorkerLoop
  <1>8. ASSUME DestroyClear PROVE WakeCause'
    BY <1>8 DEF DestroyClear
  <1>9. ASSUME DestroyStep PROVE WakeCause'
    BY <1>9 DEF DestroyStep, DestroyWake, DestroyJoin, WakeAll, LifeCycle
  <1>10. ASSUME UNCHANGED vars PROVE WakeCause'
    BY <1>10 DEF vars
  <1> QED
    BY <1>1, <1>2, <1>3, <1>4, <1>5, <1>6, <1>7, <1>8, <1>9, <1>10
       DEF Next, ContinueCall

-----------------------------------------------------------------------------
(* A sequence of consecutive numbers holds an interval.                        *)
LEMMA SuffixRange ==
  ASSUME NEW q \in Seq(Nat), NEW n \in Nat, NEW m \in Nat, n + Len(q) = m,
         \A i \in 1..Len(q) : q[i] = n + i
  PROVE  {q[i] : i \in 1..Len(q)} = (n + 1)..m
  <1>1. ASSUME NEW j \in (n + 1)..m PROVE j \in {q[i] : i \in 1..Len(q)}
    <2>1. j - n \in 1..Len(q) /\ q[j - n] = j
      BY <1>1
    <2> QED BY <2>1
  <1>2. ASSUME NEW i \in 1..Len(q) PROVE q[i] \in (n + 1)..m
    BY <1>2
  <1> QED BY <1>1, <1>2

LEMMA QueuedIds ==
  /\ TypeOK /\ QueueOrder => Taken \in Nat /\ Queued = (Taken + 1)..Len(keyOf)
  /\ TypeOK' /\ QueueOrder' => Taken' \in Nat /\ Queued' = (Taken' + 1)..Len(keyOf')
  <1>1. ASSUME TypeOK, QueueOrder
        PROVE  Taken \in Nat /\ Queued = (Taken + 1)..Len(keyOf)
    <2>1. /\ keyOf \in Seq(Keys) /\ produceQueue \in Seq(Nat)
          /\ Taken \in Nat /\ Taken + Len(produceQueue) = Len(keyOf)
          /\ \A i \in 1..Len(produceQueue) : produceQueue[i] = Taken + i
      BY <1>1 DEF TypeOK, QueueOrder, Taken
    <2>2. {produceQueue[i] : i \in 1..Len(produceQueue)} = (Taken + 1)..Len(keyOf)
      BY <2>1, SuffixRange
    <2> QED BY <2>1, <2>2 DEF Queued
  <1>2. ASSUME TypeOK', QueueOrder'
        PROVE  Taken' \in Nat /\ Queued' = (Taken' + 1)..Len(keyOf')
    <2>1. /\ keyOf' \in Seq(Keys) /\ produceQueue' \in Seq(Nat)
          /\ Taken' \in Nat /\ Taken' + Len(produceQueue') = Len(keyOf')
          /\ \A i \in 1..Len(produceQueue') : produceQueue'[i] = Taken' + i
      BY <1>2 DEF TypeOK, QueueOrder, Taken
    <2> DEFINE q == produceQueue'
    <2> DEFINE n == Taken'
    <2> DEFINE m == Len(keyOf')
    <2>2. q \in Seq(Nat) /\ n \in Nat /\ m \in Nat /\ n + Len(q) = m
      BY <2>1
    <2>3. \A i \in 1..Len(q) : q[i] = n + i
      BY <2>1
    <2>4. {q[i] : i \in 1..Len(q)} = (n + 1)..m
      <3> HIDE DEF q, n, m
      <3> QED BY <2>2, <2>3, SuffixRange
    <2> QED BY <2>1, <2>4 DEF Queued
  <1> QED BY <1>1, <1>2

(* What CancelRecorded says depends on these values only.                      *)
LEMMA CancelFrame ==
  ASSUME CancelRecorded, ~torn,
         UNCHANGED <<keyOf, produceQueue, discardedProduceInfos, task, cancelled,
                     answered>>,
         wpc' \in {"checking", "create"} => wpc' = wpc,
         wpc' = "checking" =>
            \A t \in Threads : cpc'[t] = "remove_inserting" => cpc[t] = "remove_inserting"
  PROVE  CancelRecorded'
  <1>1. Queued' = Queued
    BY DEF Queued
  <1>2. wpc' = "checking" /\ InCalls({"remove_inserting"}) = {}
        => InCalls({"remove_inserting"})' = {}
    BY DEF InCalls
  <1> QED BY <1>1, <1>2 DEF CancelRecorded

(* A removal's record survives until it has dropped the request it was for.    *)
LEMMA CancelStep ==
  /\ TypeOK /\ QueueOrder /\ CancelRecorded /\ LifeCycle /\ [Next]_vars
  /\ TypeOK' /\ QueueOrder'
  => CancelRecorded'
  <1> SUFFICES ASSUME TypeOK, QueueOrder, CancelRecorded, LifeCycle, [Next]_vars,
                      TypeOK', QueueOrder', ~torn'
               PROVE  CancelRecorded'
    BY DEF CancelRecorded
  <1>0. /\ keyOf \in Seq(Keys) /\ produceQueue \in Seq(Nat) /\ task \in Nat
        /\ wpc \in WorkerPC /\ arg \in [Threads -> Keys] /\ cpc \in [Threads -> CallPC]
        /\ discardedProduceInfos \subseteq Keys
        /\ Taken \in Nat /\ Queued = (Taken + 1)..Len(keyOf)
        /\ Queued' = (Taken' + 1)..Len(keyOf') /\ Taken' \in Nat
        /\ torn \in BOOLEAN
    BY QueuedIds DEF TypeOK
  <1>q. /\ HoldingTask => task = Taken
        /\ answered \subseteq 1..Taken
        /\ wpc = "create" => answered \subseteq 1..(Taken - 1)
    BY <1>0 DEF QueueOrder, HoldingTask
  <1> USE <1>0 DEF shared, history
  <1>1. ASSUME NEW t \in Threads, NEW k \in Keys, CallAppend(t, k) \/ CallRemove(t, k)
        PROVE CancelRecorded'
    BY <1>1, CancelFrame DEF CallAppend, CallRemove, Enter, Goto
  <1>2. ASSUME NEW t \in Threads, AppendRaw(t) \/ AppendPush(t) PROVE CancelRecorded'
    <2>1. /\ keyOf' = Append(keyOf, arg[t])
          /\ UNCHANGED <<discardedProduceInfos, task, answered, cancelled, torn>>
          /\ wpc' \in {"checking", "create"} => wpc' = wpc
      BY <1>2 DEF AppendRaw, AppendPush, Push
    <2>2. /\ Len(keyOf') = Len(keyOf) + 1
          /\ \A i \in 1..Len(keyOf) : keyOf'[i] = keyOf[i]
      BY <2>1
    <2>3. Taken' = Taken
      <3>1. Len(produceQueue') = Len(produceQueue) + 1
        BY <1>2 DEF AppendRaw, AppendPush, Push
      <3> QED BY <2>2, <3>1 DEF Taken
    <2>4. cancelled' \cap Queued' = cancelled \cap Queued
      BY <2>1, <2>2, <2>3 DEF CancelRecorded
    <2>5. \A t2 \in Threads : cpc'[t2] = "remove_inserting" => cpc[t2] = "remove_inserting"
      BY <1>2 DEF AppendRaw, AppendPush, Return, Goto
    <2>6. \A id \in cancelled' \cap Queued', j \in Queued' :
             keyOf'[j] = keyOf'[id] => id <= j
      BY <2>1, <2>2, <2>3, <2>4 DEF CancelRecorded
    <2>7. wpc' = "checking" => task \in 1..Len(keyOf) /\ keyOf'[task] = keyOf[task]
      BY <1>q, <2>1, <2>2 DEF HoldingTask, QueueOrder, Taken
    <2> QED BY <2>1, <2>2, <2>3, <2>4, <2>5, <2>6, <2>7 DEF CancelRecorded, InCalls
  <1>3. ASSUME NEW t \in Threads, AppendLock(t) \/ RemoveLock(t) \/ RemoveUnlock(t)
        PROVE CancelRecorded'
    BY <1>3, CancelFrame DEF AppendLock, RemoveLock, RemoveUnlock, Goto
  <1>4. ASSUME NEW t \in Threads, AppendWake(t) PROVE CancelRecorded'
    BY <1>4, CancelFrame DEF AppendWake, WakeAll, Return, Goto
  <1>5. ASSUME NEW t \in Threads, RemoveInsertBegin(t) PROVE CancelRecorded'
    <2>1. ~torn /\ wpc # "checking" /\ wpc' = wpc
      BY <1>5 DEF RemoveInsertBegin
    <2> QED BY <1>5, <2>1, CancelFrame DEF RemoveInsertBegin
  <1>6. ASSUME NEW t \in Threads, RemoveInsertEnd(t) PROVE CancelRecorded'
    <2>1. /\ ~torn /\ wpc # "checking" /\ wpc' = wpc
          /\ discardedProduceInfos' = discardedProduceInfos \cup {arg[t]}
          /\ cancelled' = cancelled \cup NextOf(arg[t])
          /\ UNCHANGED <<keyOf, task, answered, torn, produceQueue>>
      BY <1>6 DEF RemoveInsertEnd, CancelRecorded, InCalls
    <2>2. Queued' = Queued
      BY <2>1 DEF Queued
    <2>3. \A id \in NextOf(arg[t]) :
             /\ id \in Queued /\ keyOf[id] = arg[t]
             /\ \A j \in Queued : keyOf[j] = keyOf[id] => id <= j
      BY DEF NextOf
    <2>4. wpc' = "create" => task \notin cancelled'
      BY <1>q, <2>1, <2>3 DEF HoldingTask, CancelRecorded
    <2>5. cancelled' \subseteq 1..Len(keyOf) /\ cancelled' \cap answered' = {}
      BY <1>q, <2>1, <2>3 DEF CancelRecorded
    <2> QED BY <2>1, <2>2, <2>3, <2>4, <2>5 DEF CancelRecorded
  <1>7. ASSUME WorkerTake PROVE CancelRecorded'
    <2>1. ~torn /\ InCalls({"remove_inserting"}) = {}
      BY <1>7, Zenon DEF WorkerTake
    <2>2. /\ wpc' = "checking"
          /\ task' = produceQueue[1] /\ 1 \in 1..Len(produceQueue)
          /\ Len(produceQueue') = Len(produceQueue) - 1
          /\ UNCHANGED <<keyOf, discardedProduceInfos, answered, cancelled, cpc>>
      BY <1>7 DEF WorkerTake
    <2>3. task' = Taken + 1 /\ task' \in Queued /\ Taken' = Taken + 1
      BY <2>2 DEF QueueOrder, Queued, Taken
    <2>4. \A id \in Queued' : id \in Queued /\ id > task'
      BY <2>2, <2>3
    <2>5. InCalls({"remove_inserting"})' = {}
      BY <2>1, <2>2 DEF InCalls
    <2>6. \A id \in cancelled \cap Queued :
             /\ keyOf[id] \in discardedProduceInfos
             /\ \A j \in Queued : keyOf[j] = keyOf[id] => id <= j
      BY <2>1 DEF CancelRecorded
    <2>7. \A id \in cancelled' \cap Queued' :
             /\ keyOf'[id] \in discardedProduceInfos'
             /\ \A j \in Queued' : keyOf'[j] = keyOf'[id] => id <= j
             /\ keyOf'[task'] # keyOf'[id]
      BY <2>2, <2>3, <2>4, <2>6
    <2>8. task' \in cancelled' => keyOf'[task'] \in discardedProduceInfos'
      BY <2>2, <2>3, <2>6
    <2>9. cancelled' \subseteq 1..Len(keyOf') /\ cancelled' \cap answered' = {}
      BY <2>1, <2>2 DEF CancelRecorded
    <2> QED BY <2>2, <2>5, <2>7, <2>8, <2>9 DEF CancelRecorded
  <1>8. ASSUME WorkerDiscard PROVE CancelRecorded'
    <2>1. Queued' = Queued
      BY <1>8 DEF WorkerDiscard, Queued
    <2> QED BY <1>8, <2>1 DEF WorkerDiscard, CancelRecorded
  <1>9. ASSUME WorkerKeep \/ WorkerCallback PROVE CancelRecorded'
    <2>1. Queued' = Queued
      BY <1>9 DEF WorkerKeep, WorkerCallback, Queued
    <2>2. CASE WorkerKeep
      BY <2>1, <2>2 DEF WorkerKeep, CancelRecorded
    <2>3. CASE WorkerCallback
      BY <2>1, <2>3 DEF WorkerCallback, CancelRecorded
    <2> QED BY <1>9, <2>2, <2>3
  <1>10. ASSUME WorkerLock \/ WorkerWait \/ WorkerWoken \/ WorkerQuit
                \/ WorkerTakeEmpty \/ WorkerLoop
         PROVE CancelRecorded'
    BY <1>10, CancelFrame DEF WorkerLock, WorkerWait, WorkerWoken, WorkerQuit,
       WorkerTakeEmpty, WorkerLoop
  <1>11. ASSUME DestroyClear \/ DestroyStep PROVE CancelRecorded'
    BY <1>11, CancelFrame DEF DestroyClear, DestroyStep, DestroyWake, DestroyJoin,
       WakeAll
  <1>12. ASSUME UNCHANGED vars PROVE CancelRecorded'
    BY <1>12, CancelFrame DEF vars
  <1> QED
    BY <1>1, <1>2, <1>3, <1>4, <1>5, <1>6, <1>7, <1>8, <1>9, <1>10, <1>11, <1>12
       DEF Next, ContinueCall, WorkerStep

-----------------------------------------------------------------------------
LEMMA IndInit == Init => IndInv
  <1> SUFFICES ASSUME Init PROVE IndInv
    OBVIOUS
  <1>1. TypeOK
    BY TypeInit
  <1>2. LifeCycle /\ LockDiscipline
    BY DEF Init, LifeCycle, LockDiscipline
  <1>3. QueueOrder
    BY DEF Init, QueueOrder, Taken, HoldingTask
  <1>4. WakeCause
    BY DEF Init, WakeCause
  <1>5. CancelRecorded
    BY DEF Init, CancelRecorded, Queued
  <1> QED BY <1>1, <1>2, <1>3, <1>4, <1>5 DEF IndInv

(* IndInv is an invariant of every execution, for all constants.              *)
THEOREM Invariance == Spec => []IndInv
  <1>1. Init => IndInv
    BY IndInit
  <1>2. IndInv /\ [Next]_vars => IndInv'
    BY TypeStep, LifeCycleStep, LockStep, QueueOrderStep, WakeCauseStep, CancelStep
       DEF IndInv
  <1> QED BY <1>1, <1>2, PTL DEF Spec

(* No request is lost or taken twice, in any interleaving of any number of    *)
(* threads.                                                                   *)
THEOREM RequestsAccounted == Spec => []NoRequestLost
  <1>1. IndInv => NoRequestLost
    <2> SUFFICES ASSUME IndInv PROVE NoRequestLost
      OBVIOUS
    <2>1. /\ Taken \in Nat /\ Queued = (Taken + 1)..Len(keyOf)
          /\ Len(keyOf) \in Nat /\ Taken <= Len(keyOf)
          /\ \A i \in 1..Len(produceQueue) : produceQueue[i] = Taken + i
          /\ Len(produceQueue) \in Nat
      BY QueuedIds DEF IndInv, TypeOK, QueueOrder, Taken
    <2>2. /\ HoldingTask => Taken > 0 /\ task = Taken
          /\ answered \cup dropped = 1..(IF HoldingTask THEN Taken - 1 ELSE Taken)
          /\ answered \cap dropped = {}
      BY DEF IndInv, QueueOrder
    <2>3. CASE HoldingTask
      BY <2>1, <2>2, <2>3 DEF NoRequestLost, Pending
    <2>4. CASE ~HoldingTask
      BY <2>1, <2>2, <2>4 DEF NoRequestLost, Pending
    <2> QED BY <2>3, <2>4
  <1> QED BY <1>1, Invariance, PTL

(* A removal that returned in time is honoured, races in the unlocked set     *)
(* aside.                                                                     *)
THEOREM RemovalsHonoured == Spec => []CancelHonoured
  <1>1. IndInv => CancelHonoured
    BY DEF IndInv, CancelRecorded, CancelHonoured
  <1> QED BY <1>1, Invariance, PTL

(* Only a late wakeAll makes the worker take from an empty queue.             *)
THEOREM EmptyTakeCause == Spec => []EmptyTakeNeedsLateWake
  <1>1. IndInv => EmptyTakeNeedsLateWake
    BY DEF IndInv, WakeCause, EmptyTakeNeedsLateWake
  <1> QED BY <1>1, Invariance, PTL

(* Callbacks run in the order in which the requests were pushed.              *)
THEOREM FirstInFirstAnswered == Spec => AnsweredInOrder
  <1> DEFINE InOrder == \A id \in answered' \ answered :
                           \A j \in answered \cup dropped : j < id
  <1>1. IndInv /\ [Next]_vars => [InOrder]_vars
    <2> SUFFICES ASSUME IndInv, [Next]_vars, NEW id \in answered' \ answered,
                        NEW j \in answered \cup dropped
                 PROVE  j < id
      OBVIOUS
    <2>1. WorkerCallback
      BY DEF Next, ContinueCall, WorkerStep, DestroyStep, vars, shared, history,
         CallAppend, CallRemove, AppendRaw, AppendLock, AppendPush, AppendWake,
         RemoveLock, RemoveUnlock, RemoveInsertBegin, RemoveInsertEnd, WorkerLock,
         WorkerWait, WorkerWoken, WorkerQuit, WorkerTakeEmpty, WorkerTake,
         WorkerDiscard, WorkerKeep, WorkerLoop, DestroyClear, DestroyWake, DestroyJoin
    <2>2. id = task /\ HoldingTask
      BY <2>1 DEF WorkerCallback, HoldingTask
    <2>3. task = Taken /\ Taken \in Nat /\ j \in 1..(Taken - 1)
      BY <2>2, QueuedIds DEF IndInv, QueueOrder
    <2> QED BY <2>2, <2>3
  <1> QED BY <1>1, Invariance, PTL DEF Spec, AnsweredInOrder

-----------------------------------------------------------------------------
(* The thumbnails on the disk.  StoreInv is inductive; the two action         *)
(* properties follow from what it says of complete files.                     *)
HIDE CallersAssumption DEF Threads

USE StoreAssumption
-----------------------------------------------------------------------------
LEMMA StoreTypeInit == StoreInit => StoreTypeOK /\ InfosOK
  <1> SUFFICES ASSUME StoreInit PROVE StoreTypeOK /\ InfosOK
    OBVIOUS
  <1>1. versions \in [Files -> Seq(Version)] /\ \A f \in Files : Len(versions[f]) = 1
    BY DEF StoreInit, Version
  <1>2. PICK f \in Files : job = [file |-> f, info |-> 1, read |-> 1]
    BY DEF StoreInit
  <1>3. PICK g \in Files : ask = [c \in Clients |-> [file |-> g, info |-> 1]]
    BY DEF StoreInit
  <1>4. /\ ask \in [Clients -> Request]
        /\ \A c \in Clients : ask[c].info = 1 /\ ask[c].file \in Files
    BY <1>3 DEF Request
  <1>5. InfosOK
    <2>1. job.file = f /\ job.info = 1 /\ job.read = 1 /\ Current(f) = 1
      BY <1>1, <1>2 DEF Current
    <2>2. \A c \in Clients : ask[c].info = 1 /\ Current(ask[c].file) = 1
      BY <1>1, <1>4 DEF Current
    <2>3. 1 <= job.info /\ job.info <= job.read /\ job.read <= Current(job.file)
      BY <2>1
    <2>4. \A c \in Clients : 1 <= ask[c].info /\ ask[c].info <= Current(ask[c].file)
      BY <2>2
    <2> QED BY <2>3, <2>4 DEF InfosOK
  <1>6. job \in [file : Files, info : Nat, read : Nat]
    BY <1>2
  <1>7. StoreTypeOK
    BY <1>1, <1>4, <1>6, Zenon DEF StoreInit, StoreTypeOK, OnDisk, CreateSteps
  <1> QED BY <1>5, <1>7

(* A modification adds a version and changes none.                            *)
LEMMA ModifyAdds ==
  ASSUME StoreTypeOK, NEW f \in Files, NEW m \in Times, NEW k \in Kinds, Modify(f, m, k)
  PROVE  /\ versions' \in [Files -> Seq(Version)]
         /\ \A g \in Files :
              /\ Current(g) <= Current(g)'
              /\ \A v \in 1..Current(g) : versions'[g][v] = versions[g][v]
  <1>1. [mtime |-> m, kind |-> k] \in Version
    BY DEF Version
  <1>2. \A g \in Files : versions[g] \in Seq(Version)
    BY DEF StoreTypeOK
  <1>3. versions' \in [Files -> Seq(Version)]
    BY <1>1, <1>2 DEF StoreTypeOK, Modify
  <1>4. \A g \in Files : versions'[g] =
          IF g = f THEN Append(versions[g], [mtime |-> m, kind |-> k]) ELSE versions[g]
    BY DEF StoreTypeOK, Modify
  <1>5. \A g \in Files :
          /\ Len(versions[g]) <= Len(versions'[g])
          /\ \A v \in 1..Len(versions[g]) : versions'[g][v] = versions[g][v]
    <2> TAKE g \in Files
    <2> DEFINE s == versions[g]
               e == [mtime |-> m, kind |-> k]
    <2>1. s \in Seq(Version) /\ e \in Version
      BY <1>1, <1>2
    <2>2. Len(Append(s, e)) = Len(s) + 1
          /\ \A v \in 1..Len(s) : Append(s, e)[v] = s[v]
      <3> HIDE DEF s, e
      <3> QED BY <2>1
    <2>3. Len(s) \in Nat
      BY <2>1
    <2>4. versions'[g] = Append(s, e) \/ versions'[g] = s
      BY <1>4
    <2> HIDE DEF s, e
    <2>5. Len(s) <= Len(versions'[g]) /\ \A v \in 1..Len(s) : versions'[g][v] = s[v]
      BY <2>2, <2>3, <2>4
    <2> QED BY <2>5 DEF s
  <1> QED BY <1>3, <1>5 DEF Current

LEMMA Lengths == StoreTypeOK => \A f \in Files : Current(f) \in Nat
  BY DEF StoreTypeOK, Current

(* A step that is not a modification leaves the versions alone.               *)
LEMMA VersionsKept ==
  ASSUME [StoreNext]_storeVars,
         ~ \E f \in Files, m \in Times, k \in Kinds : Modify(f, m, k)
  PROVE  versions' = versions
  BY DEF StoreNext, storeVars, CreateBegin, CreateRefuse, CreateAccept, CreateGiveUp, CreateGoOn,
    CreateUnmark, CreateProbe, CreateRead, SaveBegin, SaveEnd, SaveFails, CreateFinish,
    Lookup, LookupFound, LookupMisfit, LookupRemove, Crash

(* What Write leaves on the disk.                                             *)
LEMMA WriteType ==
  ASSUME StoreTypeOK, NEW file \in OnDisk, Write(file)
  PROVE  thumb' \in [Files -> OnDisk] /\ fail' \in [Files -> OnDisk]
  BY DEF StoreTypeOK, Write

LEMMA StoreTypeStep == StoreTypeOK /\ InfosOK /\ [StoreNext]_storeVars => StoreTypeOK' /\ InfosOK'
  <1> SUFFICES ASSUME StoreTypeOK, InfosOK, [StoreNext]_storeVars PROVE StoreTypeOK' /\ InfosOK'
    OBVIOUS
  <1>0. \A f \in Files : Current(f) \in Nat
    BY Lengths
  <1>1. CASE \E f \in Files, m \in Times, k \in Kinds : Modify(f, m, k)
    <2>1. PICK f \in Files, m \in Times, k \in Kinds : Modify(f, m, k)
      BY <1>1
    <2>2. versions' \in [Files -> Seq(Version)] /\ \A g \in Files : Current(g) <= Current(g)'
      BY <2>1, ModifyAdds
    <2>3. \A g \in Files : Current(g)' \in Nat
      BY <2>2 DEF Current
    <2>4. StoreTypeOK'
      BY <2>1, <2>2 DEF Modify, StoreTypeOK, worker, clients
    <2>5. job.file \in Files /\ \A c \in Clients : ask[c].file \in Files
      BY DEF StoreTypeOK, Request
    <2>6. job.info \in Nat /\ job.read \in Nat /\ \A c \in Clients : ask[c].info \in Nat
      BY DEF StoreTypeOK, Request
    <2>7. job' = job /\ ask' = ask
      BY <2>1 DEF Modify, worker, clients
    <2>8. InfosOK'
      BY <1>0, <2>2, <2>3, <2>5, <2>6, <2>7 DEF InfosOK
    <2> QED BY <2>4, <2>8
  <1>2. CASE ~ \E f \in Files, m \in Times, k \in Kinds : Modify(f, m, k)
    <2>0. versions' = versions
      BY <1>2, VersionsKept
    <2>1. \A f : Current(f)' = Current(f)
      BY <2>0 DEF Current
    <2> USE <1>0, <2>0, <2>1 DEF StoreTypeOK, InfosOK, worker, clients, CreateSteps, Request, Step
    <2>2. ASSUME NEW f \in Files, NEW v \in 1..MaxVersions, CreateBegin(f, v)
          PROVE  StoreTypeOK' /\ InfosOK'
      <3>1. v \in 1..Current(f) /\ v \in Nat
        BY <2>2 DEF CreateBegin
      <3>2. /\ job' \in [file : Files, info : Nat, read : Nat]
            /\ job'.file = f /\ job'.info = v /\ job'.read = v
        BY <2>2, <3>1 DEF CreateBegin
      <3>3. /\ 1 <= job'.info /\ job'.info <= job'.read
            /\ job'.read <= Current(job.file)'
        BY <3>1, <3>2
      <3>4. ask' = ask /\ lookupPC' = lookupPC /\ thumb' = thumb /\ fail' = fail
            /\ target' = target /\ errorString' = FALSE /\ createPC' = "supported"
        BY <2>2 DEF CreateBegin
      <3>5. InfosOK'
        BY <3>3, <3>4
      <3>6. StoreTypeOK'
        BY <3>2, <3>4
      <3> QED BY <3>5, <3>6
    <2>3. CASE CreateRefuse \/ CreateAccept \/ CreateGiveUp \/ CreateGoOn \/ CreateFinish
      BY <2>3 DEF CreateRefuse, CreateAccept, CreateGiveUp, CreateGoOn, CreateFinish
    <2>4. CASE CreateUnmark
      BY <2>4 DEF CreateUnmark, OnDisk
    <2>5. CASE CreateProbe
      <3>1. job' = [job EXCEPT !.read = Current(job.file)] /\ errorString' \in BOOLEAN
        BY <2>5 DEF CreateProbe
      <3>2. job' \in [file : Files, info : Nat, read : Nat]
            /\ job'.file = job.file /\ job'.info = job.info /\ job'.read = Current(job.file)
        BY <3>1
      <3> QED BY <2>5, <3>1, <3>2 DEF CreateProbe
    <2>6. CASE CreateRead
      <3>1. errorString' \in BOOLEAN /\ target' \in {"thumb", "fail"}
        BY <2>6 DEF CreateRead
      <3>2. job' = job \/ job' = [job EXCEPT !.read = Current(job.file)]
        BY <2>6 DEF CreateRead
      <3>3. job' \in [file : Files, info : Nat, read : Nat]
            /\ job'.file = job.file /\ job'.info = job.info
            /\ job'.read \in {job.read, Current(job.file)}
        BY <3>2
      <3> QED BY <2>6, <3>1, <3>3 DEF CreateRead
    <2>7. CASE SaveBegin
      <3>1. thumb' \in [Files -> OnDisk] /\ fail' \in [Files -> OnDisk]
        BY <2>7, WriteType DEF SaveBegin, OnDisk
      <3> QED BY <2>7, <3>1 DEF SaveBegin
    <2>8. CASE SaveEnd
      <3> DEFINE file == [state |-> "complete", mtime |-> MTime(job.file, job.info),
                          ver |-> job.read]
      <3>1. MTime(job.file, job.info) \in Times
        <4>1. versions[job.file] \in Seq(Version) /\ job.info \in 1..Len(versions[job.file])
          BY DEF Current
        <4>2. versions[job.file][job.info] \in Version
          BY <4>1
        <4> QED BY <4>2 DEF MTime, Version
      <3>2. file \in OnDisk
        BY <3>1 DEF OnDisk, Complete
      <3>3. thumb' \in [Files -> OnDisk] /\ fail' \in [Files -> OnDisk]
        BY <2>8, <3>2, WriteType DEF SaveEnd
      <3> QED BY <2>8, <3>3 DEF SaveEnd
    <2>9. CASE SaveFails
      BY <2>9 DEF SaveFails
    <2>10. ASSUME NEW c \in Clients, NEW f \in Files, NEW v \in 1..MaxVersions,
                  Lookup(c, f, v)
           PROVE  StoreTypeOK' /\ InfosOK'
      <3>1. v \in 1..Current(f) /\ ask' = [ask EXCEPT ![c] = [file |-> f, info |-> v]]
        BY <2>10 DEF Lookup
      <3>2. ask' \in [Clients -> Request]
            /\ \A b \in Clients : ask'[b] = IF b = c THEN [file |-> f, info |-> v] ELSE ask[b]
        BY <3>1
      <3>3. lookupPC' \in [Clients -> {"idle", "load", "remove"}]
        BY <2>10 DEF Lookup, LookupStep
      <3> QED BY <2>10, <3>1, <3>2, <3>3 DEF Lookup
    <2>11. ASSUME NEW c \in Clients, LookupFound(c) \/ LookupMisfit(c) \/ LookupRemove(c)
           PROVE  StoreTypeOK' /\ InfosOK'
      BY <2>11 DEF LookupFound, LookupMisfit, LookupRemove, LookupStep, OnDisk
    <2>12. CASE Crash
      BY <2>12 DEF Crash
    <2>13. CASE UNCHANGED storeVars
      BY <2>13 DEF storeVars
    <2> QED BY <1>2, <2>2, <2>3, <2>4, <2>5, <2>6, <2>7, <2>8, <2>9, <2>10, <2>11,
      <2>12, <2>13 DEF StoreNext
  <1> QED BY <1>1, <1>2

(* The versions a complete file or the worker speaks of stay what they were.  *)
LEMMA VersionsKeep ==
  ASSUME StoreTypeOK, InfosOK, [StoreNext]_storeVars
  PROVE  \A f \in Files :
           /\ Current(f) \in Nat /\ Current(f)' \in Nat
           /\ Current(f) <= Current(f)'
           /\ \A v \in 1..Current(f) :
                KindOf(f, v)' = KindOf(f, v) /\ MTime(f, v)' = MTime(f, v)
  <1>1. StoreTypeOK'
    BY StoreTypeStep
  <1>2. \A f \in Files : Current(f) \in Nat /\ Current(f)' \in Nat
    BY <1>1 DEF StoreTypeOK, Current
  <1>3. CASE versions' = versions
    BY <1>2, <1>3 DEF Current, KindOf, MTime
  <1>4. CASE versions' # versions
    <2>1. PICK f \in Files, m \in Times, k \in Kinds : Modify(f, m, k)
      BY <1>4, VersionsKept
    <2>2. \A g \in Files :
            /\ Current(g) <= Current(g)'
            /\ \A v \in 1..Current(g) : versions'[g][v] = versions[g][v]
      BY <2>1, ModifyAdds
    <2> QED BY <1>2, <2>2 DEF KindOf, MTime
  <1> QED BY <1>3, <1>4

(* Made of a file that was on the disk before the step.                       *)
MadeNext(file, f, good) ==
    file.state = "complete" =>
        /\ file.ver <= Len(versions'[f])
        /\ versions'[f][file.ver].kind = "good" <=> good
        /\ \E v \in 1..file.ver : file.mtime = versions'[f][v].mtime

(* What was true of a file stays true when it is modified.                    *)
LEMMA MadeKept ==
  ASSUME StoreTypeOK, InfosOK, [StoreNext]_storeVars,
         NEW f \in Files, NEW file \in OnDisk, NEW good \in BOOLEAN,
         Made(file, f, good)
  PROVE  MadeNext(file, f, good)
  <1>1. SUFFICES ASSUME file.state = "complete"
                 PROVE  /\ file.ver <= Current(f)'
                        /\ KindOf(f, file.ver)' = "good" <=> good
                        /\ \E v \in 1..file.ver : file.mtime = MTime(f, v)'
    BY DEF MadeNext, Current, KindOf, MTime
  <1>2. /\ file.ver <= Current(f)
        /\ KindOf(f, file.ver) = "good" <=> good
    BY <1>1 DEF Made
  <1>3. PICK v \in 1..file.ver : file.mtime = MTime(f, v)
    BY <1>1 DEF Made
  <1>4. file.ver \in Nat
    BY <1>1 DEF OnDisk, Complete, Absent, Partial
  <1>5. /\ Current(f) \in Nat /\ Current(f)' \in Nat /\ Current(f) <= Current(f)'
        /\ \A w \in 1..Current(f) :
             KindOf(f, w)' = KindOf(f, w) /\ MTime(f, w)' = MTime(f, w)
    BY VersionsKeep
  <1>6. v \in 1..Current(f) /\ file.ver \in 1..Current(f)
    BY <1>2, <1>3, <1>4, <1>5
  <1>7. MTime(f, v)' = MTime(f, v) /\ KindOf(f, file.ver)' = KindOf(f, file.ver)
    BY <1>5, <1>6
  <1> QED BY <1>2, <1>3, <1>4, <1>5, <1>7

-----------------------------------------------------------------------------
(* The worker: an error is never there before the content was tested, and     *)
(* where the image is saved is decided by the version that was read.          *)
LEMMA WritesStep == StoreTypeOK /\ InfosOK /\ WritesTrue /\ [StoreNext]_storeVars => WritesTrue'
  <1> SUFFICES ASSUME StoreTypeOK, InfosOK, WritesTrue, [StoreNext]_storeVars PROVE WritesTrue'
    OBVIOUS
  <1>0. job.file \in Files /\ job.read \in 1..Current(job.file)
        /\ Current(job.file) \in Nat
    BY Lengths DEF StoreTypeOK, InfosOK
  <1>1. KindOf(job.file, job.read)' = KindOf(job.file, job.read) \/ job' # job
    <2>1. KindOf(job.file, job.read) = versions[job.file][job.read].kind
      BY DEF KindOf
    <2>2. CASE versions' = versions
      BY <2>2 DEF KindOf
    <2>3. CASE versions' # versions
      <3>1. PICK f \in Files, m \in Times, k \in Kinds : Modify(f, m, k)
        BY <2>3, VersionsKept
      <3>2. job' = job
        BY <3>1 DEF Modify, worker
      <3>3. versions'[job.file][job.read] = versions[job.file][job.read]
        BY <1>0, <3>1, ModifyAdds
      <3> QED BY <3>2, <3>3 DEF KindOf
    <2> QED BY <2>2, <2>3
  <1> USE <1>1 DEF WritesTrue, Step
  <1>2. ASSUME NEW f \in Files, NEW m \in Times, NEW k \in Kinds, Modify(f, m, k)
        PROVE  WritesTrue'
    BY <1>2 DEF Modify, worker
  <1>3. ASSUME NEW f \in Files, NEW v \in 1..MaxVersions, CreateBegin(f, v)
        PROVE  WritesTrue'
    BY <1>3 DEF CreateBegin
  <1>4. CASE CreateRefuse \/ CreateAccept \/ CreateGiveUp \/ CreateGoOn \/ CreateFinish
             \/ CreateUnmark \/ SaveBegin \/ SaveEnd \/ SaveFails
    BY <1>4 DEF CreateRefuse, CreateAccept, CreateGiveUp, CreateGoOn, CreateFinish,
      CreateUnmark, SaveBegin, SaveEnd, SaveFails
  <1>5. CASE CreateProbe
    <2>1. /\ createPC' = "read" /\ versions' = versions /\ ~errorString
          /\ errorString' => KindOf(job.file, Current(job.file)) # "good"
      BY <1>5 DEF CreateProbe
    <2>2. job' = [job EXCEPT !.read = Current(job.file)]
      BY <1>5 DEF CreateProbe
    <2>3. job'.file = job.file /\ job'.read = Current(job.file)
      BY <2>2 DEF StoreTypeOK
    <2>4. KindOf(job.file, job.read)' = KindOf(job.file, Current(job.file))
      BY <2>1, <2>3 DEF KindOf
    <2> QED BY <2>1, <2>4
  <1>6. CASE CreateRead
    <2> DEFINE good == KindOf(job.file, Current(job.file)) = "good"
    <2>1. /\ createPC = "read" /\ createPC' = "save" /\ versions' = versions
          /\ errorString' = (errorString \/ ~good)
          /\ job' = IF errorString THEN job
                    ELSE [job EXCEPT !.read = Current(job.file)]
          /\ target' = IF errorString' THEN "fail" ELSE "thumb"
      BY <1>6 DEF CreateRead
    <2>2. CASE errorString
      <3>1. job' = job /\ target' = "fail" /\ KindOf(job.file, job.read) # "good"
        BY <2>1, <2>2
      <3>2. KindOf(job.file, job.read)' # "good"
        BY <2>1, <3>1 DEF KindOf
      <3> QED BY <2>1, <3>1, <3>2
    <2>3. CASE ~errorString
      <3>1. job'.file = job.file /\ job'.read = Current(job.file)
        BY <2>1, <2>3 DEF StoreTypeOK
      <3>2. KindOf(job.file, job.read)' = KindOf(job.file, Current(job.file))
        BY <2>1, <3>1 DEF KindOf
      <3>3. target' = IF good THEN "thumb" ELSE "fail"
        BY <2>1, <2>3
      <3> QED BY <2>1, <3>2, <3>3
    <2> QED BY <2>2, <2>3
  <1>7. ASSUME NEW c \in Clients, NEW f \in Files, NEW v \in 1..MaxVersions,
               Lookup(c, f, v)
        PROVE  WritesTrue'
    BY <1>7 DEF Lookup, worker
  <1>8. ASSUME NEW c \in Clients, LookupFound(c) \/ LookupMisfit(c) \/ LookupRemove(c)
        PROVE  WritesTrue'
    BY <1>8 DEF LookupFound, LookupMisfit, LookupRemove, worker
  <1>9. CASE Crash
    BY <1>9 DEF Crash
  <1>10. CASE UNCHANGED storeVars
    BY <1>10 DEF storeVars, worker
  <1> QED BY <1>2, <1>3, <1>4, <1>5, <1>6, <1>7, <1>8, <1>9, <1>10 DEF StoreNext

-----------------------------------------------------------------------------
(* The disk: a write by the worker is true, and a removal or the beginning of *)
(* a write says nothing.                                                      *)
LEMMA DiskStep ==
  StoreTypeOK /\ InfosOK /\ WritesTrue /\ ThumbsTrue /\ MarkersTrue /\ [StoreNext]_storeVars
    => ThumbsTrue' /\ MarkersTrue'
  <1> SUFFICES ASSUME StoreTypeOK, InfosOK, WritesTrue, ThumbsTrue, MarkersTrue, [StoreNext]_storeVars
               PROVE  ThumbsTrue' /\ MarkersTrue'
    OBVIOUS
  <1>1. \A f \in Files : /\ thumb[f] \in OnDisk /\ MadeNext(thumb[f], f, TRUE)
                        /\ fail[f] \in OnDisk /\ MadeNext(fail[f], f, FALSE)
    <2> TAKE f \in Files
    <2>1. thumb[f] \in OnDisk /\ fail[f] \in OnDisk
      BY DEF StoreTypeOK
    <2>2. Made(thumb[f], f, TRUE) /\ Made(fail[f], f, FALSE)
      BY DEF ThumbsTrue, MarkersTrue
    <2> QED BY <2>1, <2>2, MadeKept
  <1>2. \A f \in Files, good \in BOOLEAN :
          MadeNext(Absent, f, good) /\ MadeNext(Partial, f, good)
    BY DEF MadeNext, Absent, Partial
  <1> DEFINE new == [state |-> "complete", mtime |-> MTime(job.file, job.info),
                     ver |-> job.read]
  <1>3. SaveEnd => MadeNext(new, job.file, target = "thumb")
    <2> SUFFICES ASSUME SaveEnd PROVE MadeNext(new, job.file, target = "thumb")
      OBVIOUS
    <2>1. versions' = versions /\ createPC = "saving"
      BY DEF SaveEnd, Step
    <2>2. KindOf(job.file, job.read) = "good" <=> target = "thumb"
      BY <2>1 DEF WritesTrue
    <2>3. job.info \in 1..job.read /\ job.read <= Current(job.file)
      BY DEF StoreTypeOK, InfosOK
    <2>4. new.ver = job.read /\ new.mtime = MTime(job.file, job.info)
      OBVIOUS
    <2>5. new.ver <= Len(versions'[job.file])
      BY <2>1, <2>3, <2>4 DEF Current
    <2>6. versions'[job.file][new.ver].kind = "good" <=> target = "thumb"
      BY <2>1, <2>2, <2>4 DEF KindOf
    <2>7. new.mtime = versions'[job.file][job.info].mtime /\ job.info \in 1..new.ver
      BY <2>1, <2>3, <2>4 DEF MTime
    <2> HIDE DEF new
    <2> QED BY <2>5, <2>6, <2>7 DEF MadeNext
  <1> HIDE DEF new
  <1>4. \A f \in Files :
          /\ thumb'[f] \in {thumb[f], Absent, Partial}
             \/ (SaveEnd /\ target = "thumb" /\ f = job.file /\ thumb'[f] = new)
          /\ fail'[f] \in {fail[f], Absent, Partial}
             \/ (SaveEnd /\ target = "fail" /\ f = job.file /\ fail'[f] = new)
    <2>1. CASE SaveEnd
      <3>1. (UNCHANGED <<thumb, fail>>) \/ Write(new)
        BY <2>1 DEF SaveEnd, new
      <3>2. CASE UNCHANGED <<thumb, fail>>
        BY <3>2
      <3>3. CASE Write(new)
        BY <2>1, <3>3 DEF Write, StoreTypeOK
      <3> QED BY <3>1, <3>2, <3>3
    <2>2. CASE SaveBegin
      BY <2>2 DEF SaveBegin, Write, StoreTypeOK
    <2>3. CASE CreateUnmark
      BY <2>3 DEF CreateUnmark, StoreTypeOK
    <2>4. CASE \E c \in Clients : LookupRemove(c)
      BY <2>4 DEF LookupRemove, StoreTypeOK
    <2>5. CASE /\ ~SaveEnd /\ ~SaveBegin /\ ~CreateUnmark
               /\ ~ \E c \in Clients : LookupRemove(c)
      <3>1. UNCHANGED <<thumb, fail>>
        BY <2>5 DEF StoreNext, storeVars, Modify, CreateBegin, CreateRefuse, CreateAccept,
          CreateGiveUp, CreateGoOn, CreateProbe, CreateRead, SaveFails, CreateFinish,
          Lookup, LookupFound, LookupMisfit, Crash
      <3> QED BY <3>1
    <2> QED BY <2>1, <2>2, <2>3, <2>4, <2>5
  <1>5. \A f \in Files :
          MadeNext(thumb'[f], f, TRUE) /\ MadeNext(fail'[f], f, FALSE)
    BY <1>1, <1>2, <1>3, <1>4
  <1>6. \A f \in Files : Made(thumb[f], f, TRUE)' /\ Made(fail[f], f, FALSE)'
    BY <1>5 DEF Made, MadeNext, Current, KindOf, MTime
  <1> QED BY <1>6 DEF ThumbsTrue, MarkersTrue

-----------------------------------------------------------------------------
LEMMA InvInit == StoreInit => StoreInv
  <1> SUFFICES ASSUME StoreInit PROVE StoreInv
    OBVIOUS
  <1>1. StoreTypeOK /\ InfosOK
    BY StoreTypeInit
  <1>2. createPC = "idle" /\ \A f \in Files : thumb[f] = Absent /\ fail[f] = Absent
    BY DEF StoreInit
  <1>3. WritesTrue
    BY <1>2 DEF WritesTrue
  <1>4. ThumbsTrue /\ MarkersTrue
    BY <1>2 DEF ThumbsTrue, MarkersTrue, Made, Absent
  <1> QED BY <1>1, <1>3, <1>4 DEF StoreInv

LEMMA InvStep == StoreInv /\ [StoreNext]_storeVars => StoreInv'
  BY StoreTypeStep, WritesStep, DiskStep DEF StoreInv

(* The types, and what is complete on the disk is true of its file: stamped   *)
(* with the time of a version, made of that one or a later one, good for a    *)
(* thumbnail and not good for a marker.                                       *)
THEOREM DiskIsTrue == StoreSpec => []StoreInv
  BY InvInit, InvStep, PTL DEF StoreSpec

(* No lookup gets a thumbnail that is half written or older than its info, if *)
(* the times of the file's versions differ.                                   *)
THEOREM LookupsAreFresh == StoreSpec => ServedFresh
  <1>1. StoreInv /\ [StoreNext]_storeVars =>
          [\A c \in Clients : LookupFound(c) /\ TimesDiffer(ask[c].file) =>
              AskedThumb(c).ver >= ask[c].info]_storeVars
    <2> SUFFICES ASSUME StoreInv, NEW c \in Clients, LookupFound(c),
                        TimesDiffer(ask[c].file)
                 PROVE  AskedThumb(c).ver >= ask[c].info
      OBVIOUS
    <2> DEFINE f == ask[c].file
               file == thumb[f]
    <2>1. file.state = "complete" /\ file.mtime = MTime(f, ask[c].info)
      BY DEF LookupFound, Fits, Stamped, AskedThumb
    <2>2. f \in Files /\ Current(f) \in Nat /\ ask[c].info \in 1..Current(f)
      BY Lengths DEF StoreInv, StoreTypeOK, InfosOK, Request
    <2>3. file \in OnDisk /\ Made(file, f, TRUE)
      BY <2>2 DEF StoreInv, StoreTypeOK, ThumbsTrue
    <2>4. file.ver \in Nat
      BY <2>1, <2>3 DEF OnDisk, Complete, Absent, Partial
    <2>5. PICK v \in 1..file.ver : file.mtime = MTime(f, v)
      BY <2>1, <2>3 DEF Made
    <2>6. v \in 1..Current(f)
      BY <2>1, <2>2, <2>3, <2>4, <2>5 DEF Made
    <2>7. v = ask[c].info
      BY <2>1, <2>2, <2>5, <2>6 DEF TimesDiffer
    <2> QED BY <2>2, <2>4, <2>5, <2>7 DEF AskedThumb
  <1> QED BY <1>1, DiskIsTrue, PTL DEF StoreSpec, ServedFresh

(* A creation is given up only when the version the caller knows of, or a     *)
(* later one, was not good.                                                   *)
THEOREM RefusalsHaveCause == StoreSpec => RefusedForCause
  <1>1. StoreInv /\ [StoreNext]_storeVars =>
          [CreateGiveUp /\ TimesDiffer(job.file) =>
              \E v \in job.info..Current(job.file) : KindOf(job.file, v) # "good"]_storeVars
    <2> SUFFICES ASSUME StoreInv, CreateGiveUp, TimesDiffer(job.file)
                 PROVE  \E v \in job.info..Current(job.file) :
                            KindOf(job.file, v) # "good"
      OBVIOUS
    <2> DEFINE f == job.file
               file == fail[f]
    <2>1. file.state = "complete" /\ file.mtime = MTime(f, job.info)
      BY DEF CreateGiveUp, Marked, Stamped
    <2>2. f \in Files /\ Current(f) \in Nat /\ job.info \in 1..Current(f)
      BY Lengths DEF StoreInv, StoreTypeOK, InfosOK
    <2>3. file \in OnDisk /\ Made(file, f, FALSE)
      BY <2>2 DEF StoreInv, StoreTypeOK, MarkersTrue
    <2>4. file.ver \in Nat /\ file.ver <= Current(f) /\ KindOf(f, file.ver) # "good"
      BY <2>1, <2>3 DEF OnDisk, Complete, Absent, Partial, Made
    <2>5. PICK v \in 1..file.ver : file.mtime = MTime(f, v)
      BY <2>1, <2>3 DEF Made
    <2>6. v = job.info
      <3>1. v \in 1..Current(f) /\ MTime(f, v) = MTime(f, job.info)
        BY <2>1, <2>2, <2>4, <2>5
      <3> QED BY <2>2, <3>1 DEF TimesDiffer
    <2>7. file.ver \in job.info..Current(f)
      BY <2>2, <2>4, <2>5, <2>6
    <2> QED BY <2>4, <2>7
  <1> QED BY <1>1, DiskIsTrue, PTL DEF StoreSpec, RefusedForCause
=============================================================================
