------------------------- MODULE ThumbnailProvider -------------------------
(* DThumbnailProvider: a QThread that serves a queue of thumbnail requests.   *)
(* Callers append requests and remove them, the worker's run() takes them one *)
(* at a time, creates the thumbnail and invokes the callback, and the         *)
(* destructor stops the worker.  The unit of interleaving is what happens     *)
(* under one acquisition of dataReadWriteLock, or one access made without it. *)
(* What createThumbnail does to the disk is the subject of ThumbnailStore.    *)
EXTENDS Integers, Sequences

CONSTANTS
    Callers,     \* the threads that use the provider
    Worker,      \* the thread that executes DThumbnailProvider::run
    NoThread,    \* the owner of a lock nobody holds
    Keys,        \* the (file path, size) pairs of requests
    Started,     \* was QThread::start() called before the first request
    MaxRequests, \* bound: how many requests are appended
    MaxRemoves   \* bound: how many calls of removeInProduceQueue are made

(* appendToProduceQueue pushes without the lock while the thread is not       *)
(* running: before that, only one thread may use the provider.                *)
ASSUME CallersAssumption ==
    /\ Worker \notin Callers
    /\ NoThread \notin Callers \cup {Worker}
    /\ Keys # {}
    /\ Started \in BOOLEAN
    /\ Started \/ \A c, d \in Callers : c = d

ASSUME BoundsAssumption == MaxRequests \in Nat /\ MaxRemoves \in Nat

Threads == Callers \cup {Worker}
NoKey == CHOOSE k \in Keys : TRUE     \* the argument before the first call
Ids == 1..MaxRequests       \* the requests, numbered as they are pushed

VARIABLES
    produceQueue,           \* the ids waiting to be taken
    discardedProduceInfos,  \* the keys removeInProduceQueue has recorded
    running,                \* cleared by the destructor
    dataReadWriteLock,      \* the thread that holds it for writing
    wpc, task,              \* the worker: where it is, the request it holds
    cpc, arg,               \* each thread's call in progress and its key
    dpc,                    \* progress of the destructor
    \* History, which no action's guard reads:
    keyOf,                  \* the key of every request pushed so far
    answered, dropped,      \* requests whose callback ran, requests discarded
    cancelled,              \* requests a finished removal was aimed at
    asked,                  \* requests pending during a removal of their key
    pushed,                 \* the request a thread is about to announce
    lateWake,               \* a wakeAll came after its request was taken
    torn,                   \* two threads were inside discardedProduceInfos
    appends, removes        \* how many calls of each kind were made

shared == <<produceQueue, discardedProduceInfos, running, dataReadWriteLock>>
history == <<keyOf, answered, dropped, cancelled, asked, pushed, lateWake,
             torn, appends, removes>>
vars == <<shared, wpc, task, cpc, arg, dpc, history>>

WorkerPC == {"off", "lock", "park", "waiting", "woken", "running", "checking",
             "create", "callback", "done", "undefined"}
CallPC == {"idle", "append_lock", "append_push", "append_wake", "append_raw",
           "remove_lock", "remove_unlock", "remove_insert", "remove_inserting"}

Queued == {produceQueue[i] : i \in 1..Len(produceQueue)}
HoldingTask == wpc \in {"checking", "create"}
Pending == Queued \cup (IF HoldingTask THEN {task} ELSE {})
PendingOf(k) == {id \in Pending : keyOf[id] = k}

(* The queued request a removal of k discards: the next one taken with k.     *)
NextOf(k) == {id \in Queued : /\ keyOf[id] = k
                              /\ \A j \in Queued : keyOf[j] = k => id <= j}

isRunning == wpc \notin {"off", "done"}

-----------------------------------------------------------------------------
Init ==
    /\ produceQueue = <<>>
    /\ discardedProduceInfos = {}
    /\ running = TRUE
    /\ dataReadWriteLock = NoThread
    /\ wpc = IF Started THEN "lock" ELSE "off"
    /\ task = 0
    /\ cpc = [t \in Threads |-> "idle"]
    /\ arg = [t \in Threads |-> NoKey]
    /\ dpc = "alive"
    /\ keyOf = <<>>
    /\ answered = {} /\ dropped = {} /\ cancelled = {} /\ asked = {}
    /\ pushed = [t \in Threads |-> 0]
    /\ lateWake = FALSE /\ torn = FALSE
    /\ appends = 0 /\ removes = 0

-----------------------------------------------------------------------------
(* A thread may call the provider while it is alive; the worker calls it only *)
(* from inside a callback, and may do so while the destructor waits for it.   *)
MayCall(t) ==
    /\ cpc[t] = "idle"
    /\ IF t = Worker THEN wpc = "callback" ELSE dpc = "alive"

Goto(t, pc) == cpc' = [cpc EXCEPT ![t] = pc]
Enter(t, pc, k) == Goto(t, pc) /\ arg' = [arg EXCEPT ![t] = k]
Return(t) == Goto(t, "idle") /\ arg' = [arg EXCEPT ![t] = NoKey]

(* QWaitCondition::wakeAll                                                     *)
WakeAll == wpc' = IF wpc = "waiting" THEN "woken" ELSE wpc

Push(k) ==
    /\ keyOf' = Append(keyOf, k)
    /\ produceQueue' = Append(produceQueue, Len(keyOf) + 1)

InCalls(pcs) == {t \in Threads : cpc[t] \in pcs}

(* appendToProduceQueue: the test of isRunning() chooses the branch.           *)
CallAppend(t, k) ==
    /\ MayCall(t)
    /\ appends < MaxRequests
    /\ appends' = appends + 1
    /\ Enter(t, IF isRunning THEN "append_lock" ELSE "append_raw", k)
    /\ UNCHANGED <<shared, wpc, task, dpc, keyOf, answered, dropped, cancelled,
                   asked, pushed, lateWake, torn, removes>>

(* The else branch: append without the lock, then start the thread.            *)
AppendRaw(t) ==
    /\ cpc[t] = "append_raw"
    /\ Push(arg[t])
    /\ wpc' = "lock"
    /\ Return(t)
    /\ UNCHANGED <<discardedProduceInfos, running, dataReadWriteLock, task,
                   dpc, answered, dropped, cancelled, asked, pushed, lateWake, torn,
                   appends, removes>>

(* Mutant: the append does not wait for the lock.                             *)
AppendLock_NoLock(t) ==
    /\ cpc[t] = "append_lock"
    /\ dataReadWriteLock' = t
    /\ Goto(t, "append_push")
    /\ UNCHANGED <<produceQueue, discardedProduceInfos, running, wpc, task, arg,
                   dpc, history>>

AppendLock(t) ==
    /\ cpc[t] = "append_lock"
    /\ dataReadWriteLock = NoThread
    /\ dataReadWriteLock' = t
    /\ Goto(t, "append_push")
    /\ UNCHANGED <<produceQueue, discardedProduceInfos, running, wpc, task, arg,
                   dpc, history>>

AppendPush(t) ==
    /\ cpc[t] = "append_push"
    /\ Push(arg[t])
    /\ pushed' = [pushed EXCEPT ![t] = Len(keyOf) + 1]
    /\ dataReadWriteLock' = NoThread
    /\ Goto(t, "append_wake")
    /\ UNCHANGED <<discardedProduceInfos, running, wpc, task, arg, dpc, answered,
                   dropped, cancelled, asked, lateWake, torn, appends, removes>>

(* Mutant: wakeAll is forgotten.                                              *)
AppendWake_NoWake(t) ==
    /\ cpc[t] = "append_wake"
    /\ pushed' = [pushed EXCEPT ![t] = 0]
    /\ Return(t)
    /\ UNCHANGED <<shared, wpc, task, dpc, keyOf, answered, dropped, cancelled,
                   asked, lateWake, torn, appends, removes>>

(* The wake-up is sent after the lock is released.                             *)
AppendWake(t) ==
    /\ cpc[t] = "append_wake"
    /\ WakeAll
    /\ lateWake' = (lateWake \/ (wpc = "waiting" /\ pushed[t] \notin Queued))
    /\ Return(t)
    /\ pushed' = [pushed EXCEPT ![t] = 0]
    /\ UNCHANGED <<shared, task, dpc, keyOf, answered, dropped, cancelled, asked,
                   torn, appends, removes>>

(* removeInProduceQueue.  The locker lives in the scope of the if statement,  *)
(* so the insertion that follows is made without the lock.                    *)
CallRemove(t, k) ==
    /\ MayCall(t)
    /\ removes < MaxRemoves
    /\ removes' = removes + 1
    /\ Enter(t, IF isRunning THEN "remove_lock" ELSE "remove_insert", k)
    /\ asked' = asked \cup PendingOf(k)
    /\ UNCHANGED <<shared, wpc, task, dpc, keyOf, answered, dropped, cancelled,
                   pushed, lateWake, torn, appends>>

RemoveLock(t) ==
    /\ cpc[t] = "remove_lock"
    /\ dataReadWriteLock = NoThread
    /\ dataReadWriteLock' = t
    /\ Goto(t, "remove_unlock")
    /\ UNCHANGED <<produceQueue, discardedProduceInfos, running, wpc, task, arg,
                   dpc, history>>

RemoveUnlock(t) ==
    /\ cpc[t] = "remove_unlock"
    /\ dataReadWriteLock' = NoThread
    /\ Goto(t, "remove_insert")
    /\ UNCHANGED <<produceQueue, discardedProduceInfos, running, wpc, task, arg,
                   dpc, history>>

(* The unlocked QSet insertion begins: it races with the worker's access to   *)
(* the set (wpc = "checking") and with another insertion.                     *)
RemoveInsertBegin(t) ==
    /\ cpc[t] = "remove_insert"
    /\ torn' = (torn \/ wpc = "checking" \/ InCalls({"remove_inserting"}) # {})
    /\ Goto(t, "remove_inserting")
    /\ UNCHANGED <<shared, wpc, task, arg, dpc, keyOf, answered, dropped,
                   cancelled, asked, pushed, lateWake, appends, removes>>

(* The insertion ends.  After a race the set holds anything.                  *)
RemoveInsertEnd(t) ==
    /\ cpc[t] = "remove_inserting"
    /\ discardedProduceInfos' \in
          IF torn THEN SUBSET Keys ELSE {discardedProduceInfos \cup {arg[t]}}
    /\ cancelled' = cancelled \cup NextOf(arg[t])
    /\ asked' = asked \cup PendingOf(arg[t])
    /\ Return(t)
    /\ UNCHANGED <<produceQueue, running, dataReadWriteLock, wpc, task, dpc,
                   keyOf, answered, dropped, pushed, lateWake, torn, appends, removes>>

-----------------------------------------------------------------------------
(* run(): take the lock; an empty queue sends the worker to the wait call.    *)
WorkerLock ==
    /\ wpc = "lock"
    /\ dataReadWriteLock = NoThread
    /\ dataReadWriteLock' = Worker
    /\ wpc' = IF produceQueue = <<>> THEN "park" ELSE "running"
    /\ UNCHANGED <<produceQueue, discardedProduceInfos, running, task, cpc, arg,
                   dpc, history>>

(* QWaitCondition::wait registers the waiter and releases the lock at once.   *)
WorkerWait ==
    /\ wpc = "park"
    /\ wpc' = "waiting"
    /\ dataReadWriteLock' = NoThread
    /\ UNCHANGED <<produceQueue, discardedProduceInfos, running, task, cpc, arg,
                   dpc, history>>

(* A woken worker takes the lock again and does not look at the queue again.  *)
WorkerWoken ==
    /\ wpc = "woken"
    /\ dataReadWriteLock = NoThread
    /\ dataReadWriteLock' = Worker
    /\ wpc' = "running"
    /\ UNCHANGED <<produceQueue, discardedProduceInfos, running, task, cpc, arg,
                   dpc, history>>

(* if (!d->running) return; the locker's destructor releases the lock.        *)
WorkerQuit ==
    /\ wpc = "running"
    /\ ~running
    /\ wpc' = "done"
    /\ dataReadWriteLock' = NoThread
    /\ UNCHANGED <<produceQueue, discardedProduceInfos, running, task, cpc, arg,
                   dpc, history>>

(* dequeue() of an empty QQueue is undefined; nothing is said of what follows. *)
WorkerTakeEmpty ==
    /\ wpc = "running"
    /\ running
    /\ produceQueue = <<>>
    /\ wpc' = "undefined"
    /\ UNCHANGED <<shared, task, cpc, arg, dpc, history>>

(* Mutant: the request is read with head() and stays in the queue.            *)
WorkerTake_Peek ==
    /\ wpc = "running" /\ running /\ produceQueue # <<>>
    /\ task' = Head(produceQueue)
    /\ wpc' = "checking"
    /\ torn' = (torn \/ InCalls({"remove_inserting"}) # {})
    /\ UNCHANGED <<shared, cpc, arg, dpc, keyOf, answered, dropped, cancelled,
                   asked, pushed, lateWake, appends, removes>>

(* Mutant: the queue is served as a stack, with takeLast().                   *)
WorkerTake_Last ==
    /\ wpc = "running" /\ running /\ produceQueue # <<>>
    /\ task' = produceQueue[Len(produceQueue)]
    /\ produceQueue' = SubSeq(produceQueue, 1, Len(produceQueue) - 1)
    /\ wpc' = "checking"
    /\ torn' = (torn \/ InCalls({"remove_inserting"}) # {})
    /\ UNCHANGED <<discardedProduceInfos, running, dataReadWriteLock, cpc, arg,
                   dpc, keyOf, answered, dropped, cancelled, asked, pushed,
                   lateWake, appends, removes>>

WorkerTake ==
    /\ wpc = "running"
    /\ running
    /\ produceQueue # <<>>
    /\ task' = Head(produceQueue)
    /\ produceQueue' = Tail(produceQueue)
    /\ wpc' = "checking"
    /\ torn' = (torn \/ InCalls({"remove_inserting"}) # {})
    /\ UNCHANGED <<discardedProduceInfos, running, dataReadWriteLock, cpc, arg,
                   dpc, keyOf, answered, dropped, cancelled, asked, pushed,
                   lateWake, appends, removes>>

(* Mutant: every record is forgotten when one is used, with clear().          *)
WorkerDiscard_Clear ==
    /\ wpc = "checking"
    /\ torn \/ keyOf[task] \in discardedProduceInfos
    /\ discardedProduceInfos' = {}
    /\ dropped' = dropped \cup {task}
    /\ task' = 0
    /\ wpc' = "lock"
    /\ dataReadWriteLock' = NoThread
    /\ UNCHANGED <<produceQueue, running, cpc, arg, dpc, keyOf, answered,
                   cancelled, asked, pushed, lateWake, torn, appends, removes>>

(* A request whose key is recorded as discarded is dropped, and the record    *)
(* with it.  During a race the look-up and the set are arbitrary.             *)
WorkerDiscard ==
    /\ wpc = "checking"
    /\ torn \/ keyOf[task] \in discardedProduceInfos
    /\ discardedProduceInfos' \in
          IF torn THEN SUBSET Keys ELSE {discardedProduceInfos \ {keyOf[task]}}
    /\ dropped' = dropped \cup {task}
    /\ task' = 0
    /\ wpc' = "lock"
    /\ dataReadWriteLock' = NoThread
    /\ UNCHANGED <<produceQueue, running, cpc, arg, dpc, keyOf, answered,
                   cancelled, asked, pushed, lateWake, torn, appends, removes>>

WorkerKeep ==
    /\ wpc = "checking"
    /\ torn \/ keyOf[task] \notin discardedProduceInfos
    /\ wpc' = "create"
    /\ dataReadWriteLock' = NoThread
    /\ UNCHANGED <<produceQueue, discardedProduceInfos, running, task, cpc, arg,
                   dpc, history>>

(* createThumbnail returned, whatever its result: the callback is entered.    *)
WorkerCallback ==
    /\ wpc = "create"
    /\ answered' = answered \cup {task}
    /\ task' = 0
    /\ wpc' = "callback"
    /\ UNCHANGED <<shared, cpc, arg, dpc, keyOf, dropped, cancelled, asked,
                   pushed, lateWake, torn, appends, removes>>

(* The callback returns, having finished the calls it made.                   *)
WorkerLoop ==
    /\ wpc = "callback"
    /\ cpc[Worker] = "idle"
    /\ wpc' = "lock"
    /\ UNCHANGED <<shared, task, cpc, arg, dpc, history>>

-----------------------------------------------------------------------------
(* Mutant: running is not cleared before the wake-up.                         *)
DestroyClear_Late ==
    /\ dpc = "alive"
    /\ \A c \in Callers : cpc[c] = "idle"
    /\ dpc' = "cleared"
    /\ UNCHANGED <<shared, wpc, task, cpc, arg, history>>

(* ~DThumbnailProvider, when no other thread is inside a call.                *)
DestroyClear ==
    /\ dpc = "alive"
    /\ \A c \in Callers : cpc[c] = "idle"
    /\ running' = FALSE
    /\ dpc' = "cleared"
    /\ UNCHANGED <<produceQueue, discardedProduceInfos, dataReadWriteLock, wpc,
                   task, cpc, arg, history>>

(* Mutant: the destructor only clears the flag.                               *)
DestroyWake_NoWake ==
    /\ dpc = "cleared"
    /\ dpc' = "joining"
    /\ UNCHANGED <<shared, wpc, task, cpc, arg, history>>

(* wakeAll without the lock                                                   *)
DestroyWake ==
    /\ dpc = "cleared"
    /\ WakeAll
    /\ dpc' = "joining"
    /\ UNCHANGED <<shared, task, cpc, arg, history>>

(* QThread::wait returns once run() has returned, or was never called.        *)
DestroyJoin ==
    /\ dpc = "joining"
    /\ ~isRunning
    /\ dpc' = "gone"
    /\ UNCHANGED <<shared, wpc, task, cpc, arg, history>>

-----------------------------------------------------------------------------
ContinueCall(t) ==
    \/ AppendRaw(t) \/ AppendLock(t) \/ AppendPush(t) \/ AppendWake(t)
    \/ RemoveLock(t) \/ RemoveUnlock(t)
    \/ RemoveInsertBegin(t) \/ RemoveInsertEnd(t)

WorkerStep ==
    \/ WorkerLock \/ WorkerWait \/ WorkerWoken \/ WorkerQuit
    \/ WorkerTakeEmpty \/ WorkerTake \/ WorkerDiscard \/ WorkerKeep
    \/ WorkerCallback \/ WorkerLoop

DestroyStep == DestroyWake \/ DestroyJoin

Next ==
    \/ \E t \in Threads, k \in Keys : CallAppend(t, k) \/ CallRemove(t, k)
    \/ \E t \in Threads : ContinueCall(t)
    \/ WorkerStep
    \/ DestroyClear
    \/ DestroyStep

(* Threads are scheduled: a call that has begun goes on, the worker and the   *)
(* destructor go on.  Nobody has to make a call or destroy the provider.      *)
Fairness ==
    /\ \A t \in Threads : WF_vars(ContinueCall(t))
    /\ WF_vars(WorkerStep)
    /\ WF_vars(DestroyStep)

Spec == Init /\ [][Next]_vars
FairSpec == Spec /\ Fairness

-----------------------------------------------------------------------------
(* The state is well formed.                                                  *)
TypeOK ==
    /\ keyOf \in Seq(Keys)
    /\ produceQueue \in Seq(Nat)
    /\ discardedProduceInfos \subseteq Keys
    /\ running \in BOOLEAN
    /\ dataReadWriteLock \in Threads \cup {NoThread}
    /\ wpc \in WorkerPC
    /\ task \in Nat
    /\ cpc \in [Threads -> CallPC]
    /\ arg \in [Threads -> Keys]
    /\ dpc \in {"alive", "cleared", "joining", "gone"}
    /\ answered \subseteq Nat /\ dropped \subseteq Nat
    /\ cancelled \subseteq Nat /\ asked \subseteq Nat
    /\ pushed \in [Threads -> Nat]
    /\ lateWake \in BOOLEAN /\ torn \in BOOLEAN
    /\ appends \in Nat /\ removes \in Nat

(* Who may be doing what: the worker calls the provider from its callback     *)
(* only, the unlocked append happens before the thread runs, run() returns    *)
(* only on the destructor's order, which is given when no call is going on.   *)
LifeCycle ==
    /\ wpc = "off" => ~Started
    /\ wpc = "done" => ~running
    /\ running <=> dpc = "alive"
    /\ cpc[Worker] # "idle" => wpc = "callback"
    /\ \A t \in Threads : cpc[t] = "append_raw" => wpc = "off"
    /\ dpc # "alive" => \A c \in Callers : cpc[c] = "idle"

(* The lock has the owner the threads' positions say, hence one at a time: no *)
(* call touches produceQueue while the worker tests, waits for or takes from  *)
(* it (the QWriteLocker of append and of run).                                *)
LockDiscipline ==
    \A t \in Threads :
        dataReadWriteLock = t <=>
            \/ cpc[t] \in {"append_push", "remove_unlock"}
            \/ t = Worker /\ wpc \in {"park", "running", "checking", "undefined"}

(* How many requests have left the queue.                                     *)
Taken == Len(keyOf) - Len(produceQueue)

(* The queue holds the last requests pushed, in order; all earlier ones are   *)
(* answered or dropped, but for the one the worker holds.                     *)
QueueOrder ==
    /\ Len(produceQueue) <= Len(keyOf)
    /\ \A i \in 1..Len(produceQueue) : produceQueue[i] = Taken + i
    /\ HoldingTask => Taken > 0 /\ task = Taken
    /\ answered \cup dropped = 1..(IF HoldingTask THEN Taken - 1 ELSE Taken)
    /\ answered \cap dropped = {}

(* A worker that is awake with an empty queue was woken too late, or by the   *)
(* destructor.                                                                *)
WakeCause ==
    /\ wpc \in {"woken", "running"} /\ produceQueue = <<>> /\ running => lateWake
    /\ wpc = "park" => produceQueue = <<>>
    /\ wpc = "undefined" => lateWake

(* The record a removal left is there until it drops the request it was aimed *)
(* at, the first one of its key.                                              *)
CancelRecorded ==
    ~torn =>
        /\ \A id \in cancelled \cap Queued :
              /\ keyOf[id] \in discardedProduceInfos
              /\ \A j \in Queued : keyOf[j] = keyOf[id] => id <= j
              /\ wpc = "checking" => keyOf[task] # keyOf[id]
        /\ wpc = "checking" => /\ InCalls({"remove_inserting"}) = {}
                               /\ task \in cancelled =>
                                    keyOf[task] \in discardedProduceInfos
        /\ wpc = "create" => task \notin cancelled
        /\ cancelled \subseteq 1..Len(keyOf)
        /\ cancelled \cap answered = {}

(* The inductive invariant: the above together.                               *)
IndInv ==
    TypeOK /\ LifeCycle /\ LockDiscipline /\ QueueOrder /\ WakeCause /\ CancelRecorded

(* Every request ever appended is in exactly one place: waiting in the queue,  *)
(* in the worker's hands, answered or dropped; none is lost and none is taken *)
(* twice, whatever the interleaving of append, remove and run.                *)
NoRequestLost ==
    /\ answered \cup dropped \cup Pending = 1..Len(keyOf)
    /\ answered \cap dropped = {}
    /\ (answered \cup dropped) \cap Pending = {}
    /\ HoldingTask => task \notin Queued
    /\ \A i, j \in 1..Len(produceQueue) :
           i < j => produceQueue[i] < produceQueue[j]

(* Callbacks run in the order the requests were pushed: the one being answered *)
(* is later than all those answered or dropped before it.                     *)
AnsweredInOrder ==
    [][\A id \in answered' \ answered :
          \A j \in answered \cup dropped : j < id]_vars

(* A removal that returned while its request was still queued is honoured: the *)
(* request's callback never runs (removeInProduceQueue against run), as long  *)
(* as no two threads were inside discardedProduceInfos at once.               *)
CancelHonoured == ~torn => cancelled \cap answered = {}

(* run() does not test the queue again after it was woken.  It takes from an  *)
(* empty queue only when some append sent its wakeAll so late that its request *)
(* had been taken already; the destructor's wake-up never causes it.          *)
EmptyTakeNeedsLateWake == wpc = "undefined" => lateWake

(* A queued request is answered or dropped in the end, unless the provider is *)
(* destroyed or the worker takes from an empty queue first: no append is left *)
(* with a sleeping worker.                                                    *)
EveryRequestAnswered ==
    \A id \in Ids :
        id \in Queued ~>
            (id \in answered \cup dropped \/ dpc # "alive" \/ wpc = "undefined")

(* The destructor returns if, when it has cleared running, the worker sleeps, *)
(* or still has a queued request to wake it at its next loop.  A worker that  *)
(* is serving the last request waits again without testing running, and the   *)
(* destructor is blocked for ever.                                            *)
DestroyReturns ==
    (dpc = "cleared" /\ \/ wpc = "waiting"
                        \/ produceQueue # <<>> /\ wpc \in {"lock", "create", "callback"})
        ~> (dpc = "gone")

(* "Removes the thumbnail from the list" (the comment on                      *)
(* removeInProduceQueue): only a request that was pending during a removal of *)
(* its key is dropped.                                                        *)
DropOnlyIfAsked == ~torn => dropped \subseteq asked
=============================================================================
